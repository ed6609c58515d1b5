------------------------------ MODULE Library ------------------------------
(***************************************************************************)
(* The music library: the DataManager (core/datamanager.cpp) with its       *)
(* import thread and its analysis thread, its database and the file of      *)
(* pending analysis tasks beside it.                                        *)
(*                                                                         *)
(* An import adds tracks to memory; a batch of new rows goes to the         *)
(* database at the end of an import and a second after an analysis          *)
(* (upsertMetasDB), the whole of memory only on some occasions              *)
(* (saveDataToDB); the names of the tracks still to be analysed go to a     *)
(* file of their own.  The process may end between any two of these.        *)
(***************************************************************************)
EXTENDS MetaImport, MediaMetaWorker

CONSTANTS
    UnsafePaths,  \* tracks whose path goes through a symbolic link
    DbOutcomes,   \* whether a transaction of the database may succeed, or fail
    ImportTargets,  \* what the user aims imports at
    EditedLists,  \* the playlists the user edits by hand
    Deletable,    \* the tracks the user may delete from the library
    PartlyShown,  \* the playlists whose own order may hide tracks they list
    MaxImports    \* bound on the imports of a behaviour

ASSUME PathsAssumption == UnsafePaths \subseteq Tracks
ASSUME OutcomesAssumption == DbOutcomes \subseteq BOOLEAN
ASSUME UserAssumption == ImportTargets \subseteq Targets /\ EditedLists \subseteq Lists
ASSUME DeletableAssumption == Deletable \subseteq Tracks
ASSUME ShownAssumption == PartlyShown \subseteq Lists
ASSUME ImportsAssumption == MaxImports \in Nat

VARIABLES
    mem,      \* the DataManager, see MemoryState
    disk,     \* the database and the file of pending tasks
    running,  \* whether the process runs
    imports   \* the imports asked for so far

vars == <<mem, disk, running, imports, toMain, toImport, toWorker, importer, worker>>

\* What is known of a track: nothing; its hash only; its tags; cover and lyrics too.
Qualities == {"none", "hash", "tags", "full"}

(***************************************************************************)
(* metas     m_allMetas                                                     *)
(* lists     sortMetas of the playlists, their order left out               *)
(* imported  m_importedMetas, copies of metas yet to be written             *)
(* tasks     m_pendingMetaTasks                                             *)
(* ready     m_metaAnalysisReadyHashes                                      *)
(* dirty     m_dirty                                                        *)
(* timer     m_metaUpsertTimer->isActive()                                  *)
(* prepared  m_startupAssetsPrepared                                        *)
(* worker    whether m_mediaMetaWorker exists and is connected              *)
(***************************************************************************)
Entry == [track : Tracks, quality : Qualities \ {"none"}]

MemoryState ==
    [metas : [Tracks -> Qualities], lists : [AllLists -> SUBSET (Tracks \cup {NoTrack})],
     imported : Seq(Entry), tasks : SUBSET Tracks, ready : SUBSET Tracks,
     dirty : BOOLEAN, timer : BOOLEAN, prepared : BOOLEAN, worker : BOOLEAN]

\* rows: the table musicNew; lists: the tables of the playlists; tasks:
\* meta-analysis-pending.json
DiskState ==
    [rows : [Tracks -> Qualities], lists : [AllLists -> SUBSET Tracks],
     tasks : SUBSET Tracks]

TypeOK ==
    /\ QueuesOK /\ ImporterOK /\ WorkerOK
    /\ mem \in MemoryState
    /\ disk \in DiskState
    /\ running \in BOOLEAN
    /\ imports \in Nat

Known(m) == {t \in Tracks : m.metas[t] # "none"}

EmptyMemory ==
    [metas |-> [t \in Tracks |-> "none"], lists |-> [l \in AllLists |-> {}],
     imported |-> <<>>, tasks |-> {}, ready |-> {}, dirty |-> FALSE,
     timer |-> FALSE, prepared |-> FALSE, worker |-> FALSE]

EmptyDisk ==
    [rows |-> EmptyMemory.metas, lists |-> EmptyMemory.lists, tasks |-> {}]

-----------------------------------------------------------------------------
(* The methods of DataManager, as operators on its memory and its disk. *)

\* savePendingMetaAnalysisTasks(), called when the set has changed
SaveTasks(d, tasks) == [d EXCEPT !.tasks = tasks]

\* Mutant: results that have arrived are kept for tracks that are gone.
WithoutTasks_KeepsReady(m, S) == [m EXCEPT !.tasks = @ \ S]

\* removePendingMetaTasks(S): memory and disk afterwards
WithoutTasks(m, S) == [m EXCEPT !.tasks = @ \ S, !.ready = @ \ S]
TasksRemoved(m, d, S) == IF m.tasks \cap S = {} THEN d ELSE SaveTasks(d, m.tasks \ S)

\* The rows after the entries have been written in their order.
Written(rows, entries) ==
    [t \in Tracks |->
        LET at == {i \in DOMAIN entries : entries[i].track = t}
            last == {i \in at : \A j \in at : j <= i}
        IN  IF last = {} THEN rows[t] ELSE entries[CHOOSE i \in last : TRUE].quality]

\* Mutant: every task is done, not only those whose results are there.
FlushedMemory_AllTasks(m, ok) ==
    IF m.imported # <<>> /\ ~ok THEN m
    ELSE [WithoutTasks(m, m.tasks) EXCEPT !.imported = <<>>]

\* slotMetaBatchFinished(): upsertMetasDB(), one transaction that succeeds or not,
\* and when it does the tasks whose results it has written are done.
FlushedMemory(m, ok) ==
    IF m.imported # <<>> /\ ~ok THEN m
    ELSE [WithoutTasks(m, m.ready) EXCEPT !.imported = <<>>]

FlushedDisk(m, d, ok) ==
    IF m.imported # <<>> /\ ~ok THEN d
    ELSE [TasksRemoved(m, d, m.ready) EXCEPT !.rows = Written(d.rows, m.imported)]

\* Mutant: hashes are written that stand for no track.
PlaylistMetas_Unfiltered(m, l) == m.lists[l]

\* getPlaylistMetas(l): the known tracks of a playlist; all of them for an empty "all".
PlaylistMetas(m, l) ==
    IF l = "all" /\ m.lists[l] = {} THEN Known(m) ELSE m.lists[l] \cap Known(m)

\* restorePendingMetaTasks(): the tasks that remain, and those for the worker.
Restored(m) == m.tasks \cap Known(m)
RestoredSafe(m) == {t \in Restored(m) \ UnsafePaths : m.metas[t] # "hash"}

-----------------------------------------------------------------------------

Init ==
    /\ mem = EmptyMemory
    /\ disk = EmptyDisk
    /\ running = TRUE
    /\ imports = 0
    /\ toMain = <<>> /\ toImport = <<>> /\ toWorker = <<>>
    /\ importer = IdleImporter
    /\ worker = IdleWorker

-----------------------------------------------------------------------------
(* Requests of the user, on the GUI thread. *)

\* importMetas(); whether the target is the current playlist (withPlay) is open.
ImportMetas(files, target, withPlay) ==
    /\ running /\ imports < MaxImports /\ files # {}
    /\ withPlay => target # "play"
    /\ toImport' = Append(toImport,
          [type |-> "import", files |-> files, target |-> target, withPlay |-> withPlay,
           known |-> Known(mem),
           listed |-> mem.lists[IF target = "" THEN "all" ELSE target]])
    /\ imports' = imports + 1
    /\ UNCHANGED <<mem, disk, running, toMain, toWorker, importer, worker>>

\* addMetasToPlayList() of a known track; current is whether l is m_currentHash
AddToPlayList(t, l, current) ==
    /\ running /\ t \in Known(mem) \ mem.lists[l]
    /\ current => l # "play"
    /\ mem' = [mem EXCEPT !.dirty = TRUE,
          !.lists = [x \in AllLists |->
                        IF x = l \/ (current /\ x = "play") THEN @[x] \cup {t} ELSE @[x]]]
    /\ UNCHANGED <<disk, running, imports, queues, importer, worker>>

\* removeFromPlayList() from one playlist
RemoveFromOne(t, l) ==
    /\ running /\ t \in mem.lists[l]
    /\ mem' = [mem EXCEPT !.lists[l] = @ \ {t}, !.dirty = TRUE]
    /\ UNCHANGED <<disk, running, imports, queues, importer, worker>>

\* clearPlayList()
ClearPlayList(l) ==
    /\ running /\ mem.lists[l] # {}
    /\ mem' = [mem EXCEPT !.lists[l] = {}, !.dirty = TRUE]
    /\ UNCHANGED <<disk, running, imports, queues, importer, worker>>

\* Mutant: the track leaves the library and stays in the playlists.
RemoveFromAll_KeepsLists(t) ==
    /\ running /\ \E l \in AllLists : t \in mem.lists[l]
    /\ mem' = WithoutTasks([mem EXCEPT !.metas[t] = "none", !.dirty = TRUE,
                                       !.lists["all"] = @ \ {t}], {t})
    /\ disk' = TasksRemoved(mem, disk, {t})
    /\ toImport' = Append(toImport, [type |-> "clear", track |-> t])
    /\ IF mem.worker
       THEN /\ toWorker' = Append(toWorker, [type |-> "clear", track |-> t])
            /\ worker' = [worker EXCEPT !.generations[t] = 0]
       ELSE UNCHANGED <<toWorker, worker>>
    /\ UNCHANGED <<running, imports, toMain, importer>>

\* removeFromPlayList() from "all", "album" or "artist", with
\* deleteMetaFromAllMetas(): the track leaves all playlists and the library.  Its
\* copy in m_importedMetas stays.
RemoveFromAll(t) ==
    /\ running /\ \E l \in AllLists : t \in mem.lists[l]
    /\ mem' = WithoutTasks([mem EXCEPT !.metas[t] = "none", !.dirty = TRUE,
                                       !.lists = [l \in AllLists |-> @[l] \ {t}]], {t})
    /\ disk' = TasksRemoved(mem, disk, {t})
    /\ toImport' = Append(toImport, [type |-> "clear", track |-> t])
    /\ IF mem.worker
       THEN /\ toWorker' = Append(toWorker, [type |-> "clear", track |-> t])
            /\ worker' = [worker EXCEPT !.generations[t] = 0]
       ELSE UNCHANGED <<toWorker, worker>>
    /\ UNCHANGED <<running, imports, toMain, importer>>

\* The database after saveDataToDB() has rewritten it.  Of a playlist it writes what
\* getPlaylistMetas() shows; which tracks a custom order hides is in Playlists, here
\* it is open.
Hidden == [PartlyShown -> SUBSET Tracks]

Rewritten(hidden) ==
    [disk EXCEPT !.rows = mem.metas, !.lists = [l \in AllLists |->
        PlaylistMetas(mem, l) \ (IF l \in PartlyShown THEN hidden[l] ELSE {})]]

\* Mutant: memory counts as saved although the transaction was rolled back.
SaveDataToDB_CleanAnyway(ok) ==
    /\ running /\ mem.dirty
    /\ mem' = [mem EXCEPT !.dirty = FALSE]
    /\ disk' \in IF ok THEN {Rewritten(hidden) : hidden \in Hidden} ELSE {disk}
    /\ UNCHANGED <<running, imports, queues, importer, worker>>

\* saveDataToDB(), on SIGTERM and on forceExit(); then the process ends, maybe after
\* some more events.
SaveDataToDB(ok) ==
    /\ running /\ mem.dirty
    /\ mem' = [mem EXCEPT !.dirty = ~ok]
    /\ disk' \in IF ok THEN {Rewritten(hidden) : hidden \in Hidden} ELSE {disk}
    /\ UNCHANGED <<running, imports, queues, importer, worker>>

\* Presenter::addPlayList(): a playlist the user makes (itself left out) makes memory
\* dirty and has it saved at once.
AddPlayList(ok) ==
    /\ running
    /\ mem' = [mem EXCEPT !.dirty = ~ok]
    /\ disk' \in IF ok THEN {Rewritten(hidden) : hidden \in Hidden} ELSE {disk}
    /\ UNCHANGED <<running, imports, queues, importer, worker>>

\* prepareStartupAssets(), a moment after the first frame: the worker is set to
\* the tasks left over.
PrepareStartupAssets ==
    /\ running /\ ~mem.prepared
    /\ LET safe == RestoredSafe(mem)
       IN  /\ mem' = [mem EXCEPT !.prepared = TRUE, !.tasks = Restored(mem),
                                 !.worker = @ \/ safe # {}]
           /\ toWorker' = IF safe = {} THEN toWorker
                          ELSE Append(toWorker, [type |-> "enqueue", tracks |-> safe])
    /\ disk' = TasksRemoved(mem, disk, mem.tasks \ Restored(mem))
    /\ UNCHANGED <<running, imports, toMain, toImport, importer, worker>>

-----------------------------------------------------------------------------
(* Events of the two threads, and the timer. *)

\* Mutant: an unknown track is added to the library whichever playlist it is meant for.
SlotAddOneMeta_AnyList ==
    /\ running /\ Delivers(toMain, "addOne")
    /\ toMain' = Tail(toMain)
    /\ LET e == Head(toMain)
           new == e.track \notin Known(mem)
           hash == IF new \/ e.track \in Known(mem) THEN e.track ELSE NoTrack
           quality == IF e.whole THEN "tags" ELSE "hash"
           lists == [l \in AllLists |-> IF l \in e.lists THEN mem.lists[l] \cup {hash}
                                        ELSE mem.lists[l]]
           added == [mem EXCEPT !.metas[e.track] = quality,
                       !.imported = Append(@, [track |-> e.track, quality |-> quality])]
       IN  mem' = [IF new THEN added ELSE mem EXCEPT
                      !.lists = lists, !.dirty = @ \/ new \/ lists # mem.lists]
    /\ UNCHANGED <<disk, running, imports, toImport, toWorker, importer, worker>>

\* slotAddOneMeta().  A track that was known when its import was asked for, and has
\* been deleted since, is looked up in vain: the empty hash is added.
SlotAddOneMeta ==
    /\ running /\ Delivers(toMain, "addOne")
    /\ toMain' = Tail(toMain)
    /\ LET e == Head(toMain)
           new == "all" \in e.lists /\ e.track \notin Known(mem)
           hash == IF new \/ e.track \in Known(mem) THEN e.track ELSE NoTrack
           quality == IF e.whole THEN "tags" ELSE "hash"
           lists == [l \in AllLists |-> IF l \in e.lists THEN mem.lists[l] \cup {hash}
                                        ELSE mem.lists[l]]
           added == [mem EXCEPT !.metas[e.track] = quality,
                       !.imported = Append(@, [track |-> e.track, quality |-> quality])]
       IN  mem' = [IF new THEN added ELSE mem EXCEPT
                      !.lists = lists, !.dirty = @ \/ new \/ lists # mem.lists]
    /\ UNCHANGED <<disk, running, imports, toImport, toWorker, importer, worker>>

\* slotEnqueueMetaTasks()
SlotEnqueueMetaTasks ==
    /\ running /\ Delivers(toMain, "enqueue")
    /\ toMain' = Tail(toMain)
    /\ LET new == Head(toMain).tracks
       IN  /\ disk' = IF new \subseteq mem.tasks THEN disk
                      ELSE SaveTasks(disk, mem.tasks \cup new)
           /\ mem' = [mem EXCEPT !.tasks = @ \cup new, !.worker = @ \/ mem.prepared]
           /\ toWorker' = IF mem.prepared
                          THEN Append(toWorker, [type |-> "enqueue", tracks |-> new])
                          ELSE toWorker
    /\ UNCHANGED <<running, imports, toImport, importer, worker>>

\* The entry of m_importedMetas a result is copied to: the first of its track.
Synced(entries, t, quality) ==
    LET at == {i \in DOMAIN entries : entries[i].track = t}
        first == {i \in at : \A j \in at : i <= j}
    IN  IF first = {} THEN Append(entries, [track |-> t, quality |-> quality])
        ELSE [i \in DOMAIN entries |->
                IF i \in first /\ entries[i].quality # "hash"
                THEN [track |-> t, quality |-> "full"] ELSE entries[i]]

\* Mutant: whichever task the result is of.
ResultIsCurrent_AnyTask == mem.worker

\* isCurrentGeneration() of the result that is delivered
ResultIsCurrent ==
    /\ mem.worker
    /\ worker.generations[Head(toMain).track] = Head(toMain).generation

\* slotMetaAnalysisReady()
SlotMetaAnalysisReady ==
    /\ running /\ Delivers(toMain, "ready")
    /\ toMain' = Tail(toMain)
    /\ LET t == Head(toMain).track
           quality == IF mem.metas[t] = "hash" THEN "hash" ELSE "full"
       IN  \/ /\ ~ResultIsCurrent
              /\ UNCHANGED <<mem, disk>>
           \/ /\ ResultIsCurrent /\ t \notin Known(mem)
              /\ mem' = WithoutTasks(mem, {t})
              /\ disk' = TasksRemoved(mem, disk, {t})
           \/ /\ ResultIsCurrent /\ t \in Known(mem)
              /\ mem' = [mem EXCEPT !.metas[t] = quality, !.dirty = TRUE,
                            !.imported = Synced(@, t, quality),
                            !.ready = @ \cup {t}, !.timer = TRUE]
              /\ UNCHANGED disk
    /\ UNCHANGED <<running, imports, toImport, toWorker, importer, worker>>

\* slotMetaBatchFinished() at the end of an import
SlotMetaBatchFinished(ok) ==
    /\ running /\ Delivers(toMain, "batch")
    /\ toMain' = Tail(toMain)
    /\ mem' = FlushedMemory(mem, ok)
    /\ disk' = FlushedDisk(mem, disk, ok)
    /\ UNCHANGED <<running, imports, toImport, toWorker, importer, worker>>

\* The same, a second after the first result
UpsertTimeout(ok) ==
    /\ running /\ mem.timer
    /\ mem' = [FlushedMemory(mem, ok) EXCEPT !.timer = FALSE]
    /\ disk' = FlushedDisk(mem, disk, ok)
    /\ UNCHANGED <<running, imports, queues, importer, worker>>

-----------------------------------------------------------------------------
(* The process. *)

\* The process ends: killed, or by the _Exit(0) of forceExit().
Ends ==
    /\ running
    /\ running' = FALSE
    /\ mem' = EmptyMemory
    /\ toMain' = <<>> /\ toImport' = <<>> /\ toWorker' = <<>>
    /\ importer' = IdleImporter
    /\ worker' = IdleWorker
    /\ UNCHANGED <<disk, imports>>

\* The constructor: initPlaylist() loads the database, and the tasks of tracks that
\* are not in it are dropped.
Starts ==
    /\ ~running
    /\ running' = TRUE
    /\ LET loaded == [EmptyMemory EXCEPT !.metas = disk.rows, !.lists = disk.lists,
                                         !.tasks = disk.tasks]
       IN  /\ mem' = [loaded EXCEPT !.tasks = Restored(loaded)]
           /\ disk' = SaveTasks(disk, Restored(loaded))
    /\ UNCHANGED <<imports, queues, importer, worker>>

-----------------------------------------------------------------------------

UserStep ==
    \/ \E files \in SUBSET Tracks : \E target \in ImportTargets : \E withPlay \in BOOLEAN :
          ImportMetas(files, target, withPlay)
    \/ \E t \in Tracks : \E l \in EditedLists : \E current \in BOOLEAN :
          AddToPlayList(t, l, current)
    \/ \E t \in Tracks : \E l \in EditedLists : RemoveFromOne(t, l)
    \/ \E l \in EditedLists : ClearPlayList(l)
    \/ \E t \in Deletable : RemoveFromAll(t)
    \/ \E ok \in DbOutcomes : SaveDataToDB(ok) \/ AddPlayList(ok)

MainStep ==
    \/ PrepareStartupAssets
    \/ SlotAddOneMeta \/ SlotEnqueueMetaTasks \/ SlotMetaAnalysisReady
    \/ \E ok \in DbOutcomes : SlotMetaBatchFinished(ok) \/ UpsertTimeout(ok)

Next ==
    \/ UserStep
    \/ MainStep
    \/ ImportStep /\ UNCHANGED <<mem, disk, running, imports, worker>>
    \/ WorkerStep /\ UNCHANGED <<mem, disk, running, imports, importer>>
    \/ Ends \/ Starts

Spec == Init /\ [][Next]_vars

\* The event loops of the three threads run as long as the process does.
FairSpec ==
    /\ Spec
    /\ WF_vars(MainStep)
    /\ WF_vars(ImportStep /\ UNCHANGED <<mem, disk, running, imports, worker>>)
    /\ WF_vars(WorkerStep /\ UNCHANGED <<mem, disk, running, imports, importer>>)

-----------------------------------------------------------------------------
(* Safety. *)

\* The process is not starting or ending in this step.
InSession == running /\ running'

\* No playlist, in memory or in the database, names a track the library does not
\* have: a stale import or result never brings a deleted track back into a list
\* (the empty hash it may leave there is another matter, see slotAddOneMeta).
EntriesKnown ==
    \A l \in AllLists :
        /\ \A t \in mem.lists[l] : t = NoTrack \/ mem.metas[t] # "none"
        /\ \A t \in disk.lists[l] : disk.rows[t] # "none"

\* A file that is not deleted is parsed by one import only, however many are asked
\* for while it is under way (m_importingHashes): it is neither known nor about to be.
ImportedOnce ==
    [][ \A f \in Tracks \ Deletable :
          f \in importer'.importing \ importer.importing
          => /\ mem.metas[f] \in {"none", "hash"}
             /\ \A i \in DOMAIN toMain :
                   ~(toMain[i].type = "addOne" /\ toMain[i].track = f /\ toMain[i].whole) ]_vars

\* A track without its cover and lyrics has a task, or one is on its way to it.
HasTask(t) ==
    \/ t \in mem.tasks \cup importer.fresh
    \/ \E i \in DOMAIN toMain : toMain[i].type = "enqueue" /\ t \in toMain[i].tracks

\* As long as the process runs no track loses its task before the result is there,
\* whichever deletions, imports and results cross.
NoTaskLost ==
    [][ \A t \in Tracks :
          InSession /\ (mem.metas[t] = "tags" => HasTask(t)) /\ mem'.metas[t] = "tags"
          => HasTask(t)' ]_vars

\* A track that is in the library is in "All Music", unless a crash came between.
AllListComplete ==
    [][ \A t \in Tracks :
          /\ InSession /\ mem'.metas[t] # "none"
          /\ mem.metas[t] # "none" => t \in mem.lists["all"]
          => t \in mem'.lists["all"] ]_vars

\* When nothing is dirty no track is in memory only, and no entry of a playlist that
\* shows all it lists, whichever transactions have failed.
CleanLosesNothing ==
    running /\ ~mem.dirty =>
        /\ \A t \in Known(mem) : disk.rows[t] # "none"
        /\ \A l \in AllLists \ PartlyShown :
              mem.lists[l] \ {NoTrack} \subseteq disk.lists[l]

\* saveDataToDB() skips "if in-memory model unchanged since load": then the
\* database has no track that memory has not.
CleanMeansSaved == running /\ ~mem.dirty => \A t \in Tracks :
                        disk.rows[t] # "none" => mem.metas[t] # "none"

\* A task the library keeps is under way, once the worker is there.
PendingIsUnderway ==
    \A t \in mem.tasks \ (mem.ready \cup UnsafePaths) :
        mem.prepared /\ mem.metas[t] = "tags" =>
            \/ worker.ids[t] # 0 \/ worker.task.track = t
            \/ \E i \in DOMAIN toWorker :
                  toWorker[i].type = "enqueue" /\ t \in toWorker[i].tracks
            \/ \E i \in DOMAIN toMain :
                  toMain[i].type = "ready" /\ toMain[i].track = t
            \/ HasTask(t) /\ \E i \in DOMAIN toMain :
                  toMain[i].type = "enqueue" /\ t \in toMain[i].tracks
-----------------------------------------------------------------------------
(* What the worker and the connections around it implement: AnalysisService. *)

\* A result of t that will be found current is on its way.
Answered(t) == \E i \in DOMAIN toMain :
    /\ toMain[i].type = "ready" /\ toMain[i].track = t
    /\ toMain[i].generation = worker.generations[t]

\* What has become of the task that the generation of t stands for.
TaskStatus(t) ==
    LET current == worker.generations[t]
    IN  IF current = 0 THEN "idle"
        ELSE IF worker.ids[t] = current \/ worker.task = [track |-> t, id |-> current]
        THEN "accepted"
        ELSE IF Answered(t) THEN "answered"
        ELSE IF t \in worker.done THEN "taken"
        ELSE "idle"

Analysis == INSTANCE AnalysisService
    WITH status <- [t \in Tracks |-> TaskStatus(t)], held <- mem.ready

\* The worker, its queues and the generations together implement AnalysisService:
\* each accepted track is analysed and taken once, nothing of a cancelled task is
\* taken (not by a track deleted and imported anew while its old task was under way);
\* in the end the answer comes and is taken, though tasks before it are dropped.
AnalysisImplemented == Analysis!Spec

\* The steps of this alone: no result is taken twice, none of a cancelled task, and
\* no track is accepted again before what was taken of it is stored.
AnalysisSteps == Analysis!Steps

=============================================================================
