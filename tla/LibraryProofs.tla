---------------------------- MODULE LibraryProofs ----------------------------
(* Theorems of Library, for every finite set of tracks and any playlists.  *)
EXTENDS Library, FiniteSetTheorems, TLAPS

USE DEF AllLists, Targets

-----------------------------------------------------------------------------
(* Events. *)

\* What an event loop takes out of a queue of events, and leaves in it.
LEMMA Taken ==
  ASSUME NEW S, NEW q \in Seq(S), NEW type, Delivers(q, type)
  PROVE  Head(q) \in S /\ Tail(q) \in Seq(S) /\ Head(q).type = type
BY DEF Delivers

\* The events of each queue are told apart by their type.
LEMMA MainEventTypes ==
  ASSUME NEW e \in MainEvents
  PROVE  /\ e.type = "addOne" => e \in AddOneEvent
         /\ e.type = "enqueue" => e \in EnqueueEvent
         /\ e.type = "ready" => e \in ReadyEvent
BY DEF MainEvents, AddOneEvent, EnqueueEvent, BatchEvent, ReadyEvent

LEMMA ImportEventTypes ==
  ASSUME NEW e \in ImportEvents
  PROVE  /\ e.type = "import" => e \in ImportRequest
         /\ e.type = "clear" => e \in ClearEvent
BY DEF ImportEvents, ImportRequest, ClearEvent

LEMMA WorkerEventTypes ==
  ASSUME NEW e \in WorkerEvents
  PROVE  /\ e.type = "enqueue" => e \in EnqueueEvent
         /\ e.type = "clear" => e \in ClearEvent
BY DEF WorkerEvents, EnqueueEvent, ClearEvent, ProcessEvent

LEMMA EnqueueIsEvent ==
  ASSUME NEW S \in SUBSET Tracks
  PROVE  [type |-> "enqueue", tracks |-> S] \in MainEvents \cap WorkerEvents
BY DEF MainEvents, WorkerEvents, EnqueueEvent

LEMMA ClearIsEvent ==
  ASSUME NEW t \in Tracks
  PROVE  [type |-> "clear", track |-> t] \in ImportEvents \cap WorkerEvents
BY DEF ImportEvents, WorkerEvents, ClearEvent

-----------------------------------------------------------------------------
(* The import thread. *)

LEMMA NoJobIsRequest == NoJob \in ImportRequest
BY DEF NoJob, ImportRequest

\* Type correctness of slotImportMetas() and slotClearImportingHash().
LEMMA ImportStepType ==
  ASSUME QueuesOK, ImporterOK, ImportStep
  PROVE  QueuesOK' /\ ImporterOK'
<1> USE DEF QueuesOK, ImporterOK, ImporterState
<1>1. CASE BeginImport
  <2>1. Head(toImport) \in ImportRequest /\ Tail(toImport) \in Seq(ImportEvents)
    BY <1>1, Taken, ImportEventTypes DEF BeginImport
  <2>2. Head(toImport).files \in SUBSET Tracks
    BY <2>1 DEF ImportRequest
  <2> QED BY <1>1, <2>1, <2>2 DEF BeginImport
<1>2. ASSUME NEW f \in Tracks, ImportFile(f) PROVE QueuesOK' /\ ImporterOK'
  <2>1. UNCHANGED <<toImport, toWorker>>
    BY <1>2 DEF ImportFile
  <2>2. ASSUME NEW lists \in SUBSET AllLists, NEW whole \in BOOLEAN, Emit(lists, f, whole)
        PROVE  toMain' \in Seq(MainEvents)
    <3>1. [type |-> "addOne", lists |-> lists, track |-> f, whole |-> whole] \in MainEvents
      BY DEF MainEvents, AddOneEvent
    <3> QED BY <3>1, <2>2 DEF Emit
  <2>3. importer.job \in ImportRequest /\ importer.job.target \in Targets
    BY DEF ImportRequest
  <2>4. Destinations(f) \in SUBSET AllLists
    BY <2>3, ListsAssumption DEF Destinations
  <2> DEFINE done == [importer EXCEPT !.files = @ \ {f}]
             parsed == [done EXCEPT !.importing = @ \cup {f}]
  <2>5. done \in ImporterState
    OBVIOUS
  <2>6. parsed \in ImporterState /\ [parsed EXCEPT !.fresh = @ \cup {f}] \in ImporterState
    <3> HIDE DEF done
    <3> QED BY <2>5
  <2>7. importer' \in ImporterState
    <3>1. importer' \in {done, parsed, [parsed EXCEPT !.fresh = @ \cup {f}]}
      BY <1>2, Zenon DEF ImportFile
    <3> HIDE DEF done, parsed, ImporterState
    <3> QED BY <3>1, <2>5, <2>6
  <2>8. toMain' \in Seq(MainEvents)
    <3>1. \/ Emit(Destinations(f), f, TRUE) \/ UNCHANGED toMain
          \/ OnlyLists(f) /\ Emit({importer.job.target}, f, FALSE)
      BY <1>2, Zenon DEF ImportFile
    <3>2. OnlyLists(f) => {importer.job.target} \in SUBSET AllLists
      BY <2>3 DEF OnlyLists
    <3> QED BY <3>1, <3>2, <2>2, <2>4
  <2> QED BY <2>1, <2>7, <2>8
<1>3. CASE EndFiles
  BY <1>3 DEF EndFiles, queues
<1>4. CASE EmitEnqueue
  BY <1>4, EnqueueIsEvent DEF EmitEnqueue
<1>5. CASE EmitBatchFinished
  <2>1. [type |-> "batch"] \in MainEvents
    BY DEF MainEvents, BatchEvent
  <2>2. Append(toMain, [type |-> "batch"]) \in Seq(MainEvents)
    BY <2>1
  <2>3. [IdleImporter EXCEPT !.importing = importer.importing] \in ImporterState
    BY NoJobIsRequest DEF IdleImporter
  <2> QED BY <1>5, <2>2, <2>3, Zenon DEF EmitBatchFinished
<1>6. CASE ClearImportingHash
  <2>1. Head(toImport) \in ClearEvent /\ Tail(toImport) \in Seq(ImportEvents)
    <3>1. Delivers(toImport, "clear") /\ toImport \in Seq(ImportEvents)
      BY <1>6 DEF ClearImportingHash
    <3>2. /\ Head(toImport) \in ImportEvents /\ Head(toImport).type = "clear"
          /\ Tail(toImport) \in Seq(ImportEvents)
      BY <3>1, Taken
    <3> QED BY <3>2, ImportEventTypes
  <2> QED BY <1>6, <2>1 DEF ClearImportingHash
<1> QED BY <1>1, <1>2, <1>3, <1>4, <1>5, <1>6 DEF ImportStep

-----------------------------------------------------------------------------
(* The analysis thread. *)

\* Scheduling adds at most an event.
LEMMA ScheduledType ==
  ASSUME NEW inbox \in Seq(WorkerEvents), NEW queue
  PROVE  Scheduled(inbox, queue) \in Seq(WorkerEvents)
<1>1. [type |-> "process"] \in WorkerEvents
  BY DEF WorkerEvents, ProcessEvent
<1> QED BY <1>1 DEF Scheduled

\* A set of tracks put in an order is a sequence of tracks.
LEMMA OrdersType ==
  ASSUME NEW S \in SUBSET Tracks, NEW s \in Orders(S)
  PROVE  s \in Seq(S) /\ Len(s) \in Nat /\ DOMAIN s = 1 .. Len(s)
<1>1. IsFiniteSet(S)
  BY TracksAssumption, FS_Subset
<1>2. Cardinality(S) \in Nat
  BY <1>1, FS_CardinalityType
<1>3. s \in [1 .. Cardinality(S) -> S]
  BY DEF Orders
<1> HIDE DEF Orders
<1> QED BY <1>2, <1>3

\* Type correctness of the worker's slots.
LEMMA WorkerStepType ==
  ASSUME QueuesOK, WorkerOK, WorkerStep
  PROVE  QueuesOK' /\ WorkerOK'
<1> USE DEF QueuesOK, WorkerOK
<1>1. CASE EnqueueMetas
  <2> DEFINE fresh == Head(toWorker).tracks \ (worker.done \cup worker.pending)
             new(i) == worker.next + i
             of(s, f) == [t \in Tracks |-> IF \E i \in DOMAIN s : s[i] = t
                                          THEN new(CHOOSE i \in DOMAIN s : s[i] = t)
                                          ELSE f[t]]
             queue(s) == worker.queue \o
                         [i \in 1 .. Len(s) |-> [track |-> s[i], id |-> new(i)]]
  <2>1. Head(toWorker) \in EnqueueEvent /\ Tail(toWorker) \in Seq(WorkerEvents)
    BY <1>1, Taken, WorkerEventTypes DEF EnqueueMetas
  <2>2. fresh \in SUBSET Tracks
    BY <2>1 DEF EnqueueEvent
  <2>3. PICK s \in Orders(fresh) :
           /\ worker' = [worker EXCEPT
                  !.queue = queue(s), !.ids = of(s, @), !.generations = of(s, @),
                  !.pending = @ \cup {s[i] : i \in DOMAIN s}, !.next = @ + Len(s)]
           /\ toWorker' = Scheduled(Tail(toWorker), queue(s))
    BY <1>1, Zenon DEF EnqueueMetas
  <2>4. s \in Seq(fresh) /\ Len(s) \in Nat /\ DOMAIN s = 1 .. Len(s)
    BY <2>2, <2>3, OrdersType
  <2>5. \A i \in DOMAIN s : s[i] \in Tracks /\ new(i) \in Nat
    BY <2>2, <2>4 DEF WorkerState
  <2>6. queue(s) \in Seq(Task)
    <3>1. [i \in 1 .. Len(s) |-> [track |-> s[i], id |-> new(i)]] \in Seq(Task)
      <4>1. \A i \in 1 .. Len(s) : [track |-> s[i], id |-> new(i)] \in Task
        BY <2>4, <2>5 DEF Task
      <4> HIDE DEF new
      <4> QED BY <2>4, <4>1
    <3>2. worker.queue \in Seq(Task)
      BY DEF WorkerState
    <3> QED BY <3>1, <3>2
  <2>7. ASSUME NEW f \in [Tracks -> Nat] PROVE of(s, f) \in [Tracks -> Nat]
    <3> HIDE DEF new
    <3> QED BY <2>5
  <2>8. {s[i] : i \in DOMAIN s} \in SUBSET Tracks
    BY <2>5
  <2> HIDE DEF of, queue, fresh
  <2>9. /\ of(s, worker.ids) \in [Tracks -> Nat]
        /\ of(s, worker.generations) \in [Tracks -> Nat]
        /\ worker.next + Len(s) \in Nat
    BY <2>4, <2>7 DEF WorkerState
  <2>10. WorkerOK'
    <3>1. worker' = [worker EXCEPT
              !.queue = queue(s), !.ids = of(s, worker.ids),
              !.generations = of(s, worker.generations),
              !.pending = worker.pending \cup {s[i] : i \in DOMAIN s},
              !.next = worker.next + Len(s)]
      BY <2>3
    <3>2. worker.pending \cup {s[i] : i \in DOMAIN s} \in SUBSET Tracks
      BY <2>8 DEF WorkerState
    <3> QED BY <3>1, <3>2, <2>6, <2>9 DEF WorkerState
  <2> QED BY <1>1, <2>1, <2>3, <2>10, ScheduledType DEF EnqueueMetas
<1>2. CASE ClearMetaHash
  <2>1. Head(toWorker) \in ClearEvent /\ Tail(toWorker) \in Seq(WorkerEvents)
    BY <1>2, Taken, WorkerEventTypes DEF ClearMetaHash
  <2>2. Head(toWorker).track \in Tracks
    BY <2>1 DEF ClearEvent
  <2> QED BY <1>2, <2>1, <2>2 DEF ClearMetaHash, WorkerState
<1>3. CASE ProcessNext
  <2> DEFINE task == Head(worker.queue)
             rest == [worker EXCEPT !.queue = Tail(@)]
  <2>1. Tail(toWorker) \in Seq(WorkerEvents)
    BY <1>3, Taken DEF ProcessNext
  <2>2. task \in Task /\ task.track \in Tracks /\ rest \in WorkerState
    <3>1. worker.queue \in Seq(Task) /\ worker.queue # <<>>
      BY <1>3 DEF ProcessNext, WorkerState
    <3>2. task \in Task /\ Tail(worker.queue) \in Seq(Task)
      BY <3>1
    <3>3. task.track \in Tracks
      <4> HIDE DEF task
      <4> QED BY <3>2 DEF Task
    <3>4. rest \in WorkerState
      BY <3>2 DEF WorkerState
    <3> QED BY <3>2, <3>3, <3>4
  <2>3. CASE worker.ids[task.track] # task.id
    BY <1>3, <2>1, <2>2, <2>3, ScheduledType DEF ProcessNext
  <2>4. CASE worker.ids[task.track] = task.id
    <3>1. /\ worker' = [rest EXCEPT !.ids[task.track] = 0, !.task = task,
                                   !.pending = @ \ {task.track}]
          /\ toWorker' = Tail(toWorker)
      BY <1>3, <2>4 DEF ProcessNext
    <3> HIDE DEF rest, task
    <3>2. worker' \in WorkerState
      BY <2>2, <3>1 DEF WorkerState
    <3> QED BY <1>3, <2>1, <3>1, <3>2 DEF ProcessNext
  <2> QED BY <2>3, <2>4
<1>4. CASE FinishTask
  <2> DEFINE free == [worker EXCEPT !.task = NoTask]
             t == worker.task.track
             ready == [type |-> "ready", track |-> t, generation |-> worker.task.id]
  <2>1. worker.task \in Task /\ t \in Tracks /\ free \in WorkerState
    BY <1>4 DEF FinishTask, WorkerState, Task
  <2>2. ready \in MainEvents
    BY <2>1 DEF MainEvents, ReadyEvent, Task
  <2>3. /\ worker' \in {free, [free EXCEPT !.done = @ \cup {t}]}
        /\ toMain' \in {toMain, Append(toMain, ready)}
        /\ toWorker' = Scheduled(toWorker, worker.queue)
        /\ UNCHANGED toImport
    BY <1>4, Zenon DEF FinishTask
  <2>4. [free EXCEPT !.done = @ \cup {t}] \in WorkerState
    <3> HIDE DEF free, t
    <3> QED BY <2>1 DEF WorkerState
  <2> HIDE DEF free, ready, t
  <2>5. WorkerOK'
    BY <2>1, <2>3, <2>4
  <2>6. toMain' \in Seq(MainEvents)
    <3>1. Append(toMain, ready) \in Seq(MainEvents)
      BY <2>2
    <3> QED BY <2>3, <3>1, Zenon
  <2>7. toWorker' \in Seq(WorkerEvents)
    <3>1. toWorker \in Seq(WorkerEvents)
      OBVIOUS
    <3> QED BY <2>3, <3>1, ScheduledType, Zenon
  <2> QED BY <2>3, <2>5, <2>6, <2>7
<1> QED BY <1>1, <1>2, <1>3, <1>4 DEF WorkerStep

-----------------------------------------------------------------------------
(* The methods of the data manager. *)

\* removePendingMetaTasks() touches the tasks only, in memory and on disk.
LEMMA TasksRemovedType ==
  ASSUME NEW m \in MemoryState, NEW d \in DiskState, NEW S
  PROVE  /\ WithoutTasks(m, S) \in MemoryState
         /\ WithoutTasks(m, S).metas = m.metas
         /\ WithoutTasks(m, S).lists = m.lists
         /\ WithoutTasks(m, S).dirty = m.dirty
         /\ TasksRemoved(m, d, S) \in DiskState
         /\ TasksRemoved(m, d, S).rows = d.rows
         /\ TasksRemoved(m, d, S).lists = d.lists
BY DEF MemoryState, DiskState, WithoutTasks, TasksRemoved, SaveTasks

\* upsertMetasDB() only adds rows, or replaces them.
LEMMA WrittenType ==
  ASSUME NEW rows \in [Tracks -> Qualities], NEW entries \in Seq(Entry)
  PROVE  /\ Written(rows, entries) \in [Tracks -> Qualities]
         /\ \A t \in Tracks : rows[t] # "none" => Written(rows, entries)[t] # "none"
<1> DEFINE at(t) == {i \in DOMAIN entries : entries[i].track = t}
           last(t) == {i \in at(t) : \A j \in at(t) : j <= i}
           written(t) == entries[CHOOSE i \in last(t) : TRUE].quality
<1>1. \A i \in DOMAIN entries : entries[i].quality \in Qualities \ {"none"}
  <2>1. \A i \in DOMAIN entries : entries[i] \in Entry
    OBVIOUS
  <2> QED BY <2>1 DEF Entry
<1>2. \A t \in Tracks : last(t) # {} => written(t) \in Qualities \ {"none"}
  BY <1>1
<1>3. Written(rows, entries) =
        [t \in Tracks |-> IF last(t) = {} THEN rows[t] ELSE written(t)]
  BY Zenon DEF Written
<1> HIDE DEF last, written
<1> QED BY <1>2, <1>3

\* A result goes into m_importedMetas as an entry of its track.
LEMMA SyncedType ==
  ASSUME NEW entries \in Seq(Entry), NEW t \in Tracks, NEW quality \in {"hash", "full"}
  PROVE  Synced(entries, t, quality) \in Seq(Entry)
<1> DEFINE at == {i \in DOMAIN entries : entries[i].track = t}
           first == {i \in at : \A j \in at : i <= j}
           full == [track |-> t, quality |-> "full"]
           synced == [i \in DOMAIN entries |->
                        IF i \in first /\ entries[i].quality # "hash"
                        THEN full ELSE entries[i]]
<1>1. [track |-> t, quality |-> quality] \in Entry /\ full \in Entry
  BY DEF Entry, Qualities
<1>2. synced \in Seq(Entry)
  <2>1. \A i \in DOMAIN entries : entries[i] \in Entry
    OBVIOUS
  <2> HIDE DEF first, full
  <2>2. \A i \in DOMAIN entries : synced[i] \in Entry
    BY <1>1, <2>1
  <2>3. DOMAIN synced = 1 .. Len(entries) /\ Len(entries) \in Nat
    OBVIOUS
  <2> QED BY <2>2, <2>3
<1>3. Synced(entries, t, quality) \in {Append(entries, [track |-> t, quality |-> quality]), synced}
  BY Zenon DEF Synced
<1> HIDE DEF synced
<1> QED BY <1>1, <1>2, <1>3

\* What a batch leaves of memory and database, whether it succeeds or not.
LEMMA FlushedType ==
  ASSUME NEW m \in MemoryState, NEW d \in DiskState, NEW ok
  PROVE  /\ FlushedMemory(m, ok) \in MemoryState
         /\ FlushedMemory(m, ok).metas = m.metas
         /\ FlushedMemory(m, ok).lists = m.lists
         /\ FlushedMemory(m, ok).dirty = m.dirty
         /\ FlushedDisk(m, d, ok) \in DiskState
         /\ FlushedDisk(m, d, ok).lists = d.lists
         /\ \A t \in Tracks : d.rows[t] # "none" => FlushedDisk(m, d, ok).rows[t] # "none"
<1> DEFINE fewer == WithoutTasks(m, m.ready)
           removed == TasksRemoved(m, d, m.ready)
           rows == Written(d.rows, m.imported)
<1>1. /\ fewer \in MemoryState /\ fewer.metas = m.metas /\ fewer.lists = m.lists
      /\ fewer.dirty = m.dirty
      /\ removed \in DiskState /\ removed.rows = d.rows /\ removed.lists = d.lists
  BY TasksRemovedType
<1>2. /\ rows \in [Tracks -> Qualities]
      /\ \A t \in Tracks : d.rows[t] # "none" => rows[t] # "none"
  BY WrittenType DEF MemoryState, DiskState
<1>3. /\ FlushedMemory(m, ok) \in {m, [fewer EXCEPT !.imported = <<>>]}
      /\ FlushedDisk(m, d, ok) \in {d, [removed EXCEPT !.rows = rows]}
  BY Zenon DEF FlushedMemory, FlushedDisk
<1> HIDE DEF fewer, removed, rows
<1>4. /\ [fewer EXCEPT !.imported = <<>>] \in MemoryState
      /\ [fewer EXCEPT !.imported = <<>>].metas = m.metas
      /\ [fewer EXCEPT !.imported = <<>>].lists = m.lists
      /\ [fewer EXCEPT !.imported = <<>>].dirty = m.dirty
  <2>1. <<>> \in Seq(Entry)
    OBVIOUS
  <2> QED BY <1>1, <2>1 DEF MemoryState
<1>5. /\ [removed EXCEPT !.rows = rows] \in DiskState
      /\ [removed EXCEPT !.rows = rows].lists = d.lists
      /\ [removed EXCEPT !.rows = rows].rows = rows
  BY <1>1, <1>2 DEF DiskState
<1> QED BY <1>2, <1>3, <1>4, <1>5

\* getPlaylistMetas() returns known tracks, and all of a playlist's.
LEMMA PlaylistMetasKnown ==
  ASSUME NEW m \in MemoryState, NEW l \in AllLists
  PROVE  /\ PlaylistMetas(m, l) \subseteq Known(m)
         /\ m.lists[l] \cap Known(m) \subseteq PlaylistMetas(m, l)
BY DEF PlaylistMetas

\* So is what saveDataToDB() writes a database, with all of what it does not hide.
LEMMA RewrittenType ==
  ASSUME mem \in MemoryState, disk \in DiskState, NEW hidden \in Hidden
  PROVE  /\ Rewritten(hidden) \in DiskState
         /\ Rewritten(hidden).rows = mem.metas
         /\ \A l \in AllLists : Rewritten(hidden).lists[l] \subseteq Known(mem)
         /\ \A l \in AllLists \ PartlyShown :
               mem.lists[l] \cap Known(mem) \subseteq Rewritten(hidden).lists[l]
<1> DEFINE shown(l) == PlaylistMetas(mem, l) \ (IF l \in PartlyShown THEN hidden[l] ELSE {})
           lists == [l \in AllLists |-> shown(l)]
<1>1. \A l \in AllLists : shown(l) \subseteq Known(mem)
  BY PlaylistMetasKnown
<1>2. \A l \in AllLists \ PartlyShown : mem.lists[l] \cap Known(mem) \subseteq shown(l)
  BY PlaylistMetasKnown
<1> HIDE DEF shown
<1>3. Known(mem) \subseteq Tracks
  BY DEF Known
<1>4. lists \in [AllLists -> SUBSET Tracks]
  BY <1>1, <1>3
<1>5. \A l \in AllLists : lists[l] = shown(l)
  OBVIOUS
<1>6. Rewritten(hidden) = [disk EXCEPT !.rows = mem.metas, !.lists = lists]
  BY DEF Rewritten, shown
<1> HIDE DEF lists
<1>7. /\ Rewritten(hidden) \in DiskState
      /\ Rewritten(hidden).rows = mem.metas /\ Rewritten(hidden).lists = lists
  BY <1>4, <1>6 DEF MemoryState, DiskState
<1> QED BY <1>1, <1>2, <1>5, <1>7

-----------------------------------------------------------------------------
(* The inductive invariant. *)

\* EntriesKnown and CleanLosesNothing of a memory, a disk and a process.  Neither is
\* inductive alone: a start reads into memory what was on disk, and a clean memory
\* is on disk only because its lists name known tracks.
Sound(m, d, r) ==
    /\ \A l \in AllLists : \A t \in m.lists[l] : t = NoTrack \/ m.metas[t] # "none"
    /\ \A l \in AllLists : \A t \in d.lists[l] : d.rows[t] # "none"
    /\ r /\ ~m.dirty =>
          /\ \A t \in Tracks : m.metas[t] # "none" => d.rows[t] # "none"
          /\ \A l \in AllLists \ PartlyShown : m.lists[l] \ {NoTrack} \subseteq d.lists[l]

IInv == TypeOK /\ Sound(mem, disk, running)

LEMMA SoundMeans ==
  Sound(mem, disk, running) <=> EntriesKnown /\ CleanLosesNothing
BY DEF Sound, EntriesKnown, CleanLosesNothing, Known

\* A step that leaves tracks and playlists alone, and only adds rows, is harmless.
LEMMA LittleChange ==
  ASSUME NEW m \in MemoryState, NEW d \in DiskState, NEW n, NEW e, NEW r,
         Sound(m, d, r),
         n.metas = m.metas, n.lists = m.lists, n.dirty = m.dirty, e.lists = d.lists,
         \A t \in Tracks : d.rows[t] # "none" => e.rows[t] # "none"
  PROVE  Sound(n, e, r)
BY DEF Sound, DiskState

\* So is any change of memory that leaves it dirty with no list that names a track
\* it does not have.
LEMMA DirtyChange ==
  ASSUME NEW m, NEW d, NEW n, NEW r,
         Sound(m, d, r), n.dirty = TRUE,
         \A l \in AllLists : \A t \in n.lists[l] : t = NoTrack \/ n.metas[t] # "none"
  PROVE  Sound(n, d, r)
BY DEF Sound

\* The three conjuncts of the invariant that an event of the other threads, or a
\* request to them, can disturb.
LEMMA QueuesStay ==
  ASSUME TypeOK, UNCHANGED <<queues, importer, worker>>
  PROVE  QueuesOK' /\ ImporterOK' /\ WorkerOK'
BY DEF TypeOK, queues, QueuesOK, ImporterOK, WorkerOK

LEMMA InitSound == Init => IInv
<1> SUFFICES ASSUME Init PROVE IInv
  OBVIOUS
<1>1. QueuesOK
  BY DEF Init, QueuesOK
<1>2. ImporterOK
  BY NoJobIsRequest DEF Init, ImporterOK, IdleImporter, ImporterState
<1>3. WorkerOK
  BY DEF Init, WorkerOK, IdleWorker, WorkerState
<1>4. mem \in MemoryState /\ disk \in DiskState
  BY DEF Init, MemoryState, DiskState, EmptyMemory, EmptyDisk, Qualities
<1>5. Sound(mem, disk, running)
  BY DEF Init, Sound, EmptyMemory, EmptyDisk
<1> QED BY <1>1, <1>2, <1>3, <1>4, <1>5 DEF IInv, TypeOK, Init

\* Requests that edit the playlists.
LEMMA EditSound ==
  ASSUME IInv, NEW t, NEW l \in Lists, NEW current \in BOOLEAN,
         AddToPlayList(t, l, current) \/ RemoveFromOne(t, l) \/ ClearPlayList(l)
  PROVE  IInv'
<1> USE DEF IInv
<1>1. mem \in MemoryState /\ disk \in DiskState /\ Sound(mem, disk, running)
  BY DEF TypeOK
<1>2. /\ QueuesOK' /\ ImporterOK' /\ WorkerOK'
      /\ UNCHANGED <<disk, running, imports>>
  BY QueuesStay DEF AddToPlayList, RemoveFromOne, ClearPlayList
<1>3. PICK lists \in [AllLists -> SUBSET (Tracks \cup {NoTrack})] :
         /\ mem' = [mem EXCEPT !.dirty = TRUE, !.lists = lists]
         /\ \A x \in AllLists : lists[x] \subseteq mem.lists[x] \cup Known(mem)
  <2>1. CASE AddToPlayList(t, l, current)
    <3> DEFINE lists == [x \in AllLists |-> IF x = l \/ (current /\ x = "play")
                                          THEN mem.lists[x] \cup {t} ELSE mem.lists[x]]
    <3>1. lists \in [AllLists -> SUBSET (Tracks \cup {NoTrack})]
      BY <1>1, <2>1 DEF MemoryState, AddToPlayList, Known
    <3>2. mem' = [mem EXCEPT !.dirty = TRUE, !.lists = lists]
      BY <2>1 DEF AddToPlayList
    <3>3. \A x \in AllLists : lists[x] \subseteq mem.lists[x] \cup Known(mem)
      BY <2>1 DEF AddToPlayList
    <3> QED BY <3>1, <3>2, <3>3
  <2>2. ASSUME NEW fewer \in SUBSET mem.lists[l],
               mem' = [mem EXCEPT !.lists[l] = fewer, !.dirty = TRUE]
        PROVE  \E lists \in [AllLists -> SUBSET (Tracks \cup {NoTrack})] :
                  /\ mem' = [mem EXCEPT !.dirty = TRUE, !.lists = lists]
                  /\ \A x \in AllLists : lists[x] \subseteq mem.lists[x] \cup Known(mem)
    <3> DEFINE lists == [mem.lists EXCEPT ![l] = fewer]
    <3>1. lists \in [AllLists -> SUBSET (Tracks \cup {NoTrack})]
      BY <1>1 DEF MemoryState
    <3>2. mem' = [mem EXCEPT !.dirty = TRUE, !.lists = lists]
      BY <2>2, <1>1 DEF MemoryState
    <3>3. \A x \in AllLists : lists[x] \subseteq mem.lists[x] \cup Known(mem)
      BY <1>1 DEF MemoryState
    <3> QED BY <3>1, <3>2, <3>3
  <2>3. CASE RemoveFromOne(t, l)
    <3>1. mem.lists[l] \ {t} \in SUBSET mem.lists[l]
      OBVIOUS
    <3>2. mem' = [mem EXCEPT !.lists[l] = mem.lists[l] \ {t}, !.dirty = TRUE]
      BY <2>3 DEF RemoveFromOne
    <3> QED BY <3>1, <3>2, <2>2
  <2>4. CASE ClearPlayList(l)
    <3>1. {} \in SUBSET mem.lists[l]
      OBVIOUS
    <3>2. mem' = [mem EXCEPT !.lists[l] = {}, !.dirty = TRUE]
      BY <2>4 DEF ClearPlayList
    <3> QED BY <3>1, <3>2, <2>2
  <2> QED BY <2>1, <2>3, <2>4
<1>4. mem' \in MemoryState /\ mem'.dirty = TRUE /\ mem'.lists = lists
      /\ mem'.metas = mem.metas
  BY <1>1, <1>3 DEF MemoryState
<1>5. \A x \in AllLists : \A u \in mem'.lists[x] : u = NoTrack \/ mem'.metas[u] # "none"
  BY <1>1, <1>3, <1>4 DEF Sound, Known
<1>6. Sound(mem', disk, running)
  BY <1>1, <1>4, <1>5, DirtyChange
<1> QED BY <1>1, <1>2, <1>4, <1>6 DEF TypeOK

\* A request to import: nothing of the library changes yet.
LEMMA RequestPosted ==
  ASSUME IInv, NEW e \in ImportEvents, toImport' = Append(toImport, e),
         imports' = imports + 1,
         UNCHANGED <<mem, disk, running, toMain, toWorker, importer, worker>>
  PROVE  IInv'
<1>1. QueuesOK'
  BY DEF IInv, TypeOK, QueuesOK
<1>2. ImporterOK' /\ WorkerOK' /\ imports' \in Nat
  BY DEF IInv, TypeOK, ImporterOK, WorkerOK
<1>3. Sound(mem, disk, running)'
  BY DEF IInv, Sound
<1> QED BY <1>1, <1>2, <1>3 DEF IInv, TypeOK

LEMMA ImportMetasSound ==
  ASSUME IInv, NEW files \in SUBSET Tracks, NEW target \in Targets,
         NEW withPlay \in BOOLEAN, ImportMetas(files, target, withPlay)
  PROVE  IInv'
<1> DEFINE listed == mem.lists[IF target = "" THEN "all" ELSE target]
           job == [type |-> "import", files |-> files, target |-> target,
                   withPlay |-> withPlay, known |-> Known(mem), listed |-> listed]
<1>1. listed \in SUBSET (Tracks \cup {NoTrack})
  <2>1. (IF target = "" THEN "all" ELSE target) \in AllLists
    OBVIOUS
  <2> QED BY <2>1 DEF IInv, TypeOK, MemoryState
<1>2. job \in ImportEvents
  <2> HIDE DEF listed
  <2>1. Known(mem) \in SUBSET Tracks
    BY DEF Known
  <2> QED BY <1>1, <2>1 DEF ImportEvents, ImportRequest
<1>3. /\ toImport' = Append(toImport, job) /\ imports' = imports + 1
      /\ UNCHANGED <<mem, disk, running, toMain, toWorker, importer, worker>>
  BY Zenon DEF ImportMetas
<1> HIDE DEF job
<1> QED BY <1>2, <1>3, RequestPosted

\* A track leaves the library.
LEMMA RemoveFromAllSound ==
  ASSUME IInv, NEW t \in Tracks, RemoveFromAll(t)
  PROVE  IInv'
<1> USE DEF IInv
<1> DEFINE without == [mem EXCEPT !.metas[t] = "none", !.dirty = TRUE,
                                !.lists = [l \in AllLists |-> @[l] \ {t}]]
<1>1. /\ mem \in MemoryState /\ disk \in DiskState /\ Sound(mem, disk, running)
      /\ QueuesOK /\ WorkerOK
  BY DEF TypeOK
<1>2. /\ mem' = WithoutTasks(without, {t})
      /\ disk' = TasksRemoved(mem, disk, {t})
      /\ toImport' = Append(toImport, [type |-> "clear", track |-> t])
      /\ UNCHANGED <<running, imports, toMain, importer>>
      /\ \/ /\ toWorker' = Append(toWorker, [type |-> "clear", track |-> t])
            /\ worker' = [worker EXCEPT !.generations[t] = 0]
         \/ UNCHANGED <<toWorker, worker>>
  BY Zenon DEF RemoveFromAll
<1>3. /\ without \in MemoryState /\ without.dirty = TRUE
      /\ without.metas = [mem.metas EXCEPT ![t] = "none"]
      /\ without.lists = [l \in AllLists |-> mem.lists[l] \ {t}]
  BY <1>1 DEF MemoryState, Qualities
<1> HIDE DEF without
<1>4. /\ mem' \in MemoryState /\ mem'.dirty = TRUE
      /\ mem'.metas = without.metas /\ mem'.lists = without.lists
      /\ disk' \in DiskState /\ disk'.rows = disk.rows /\ disk'.lists = disk.lists
  BY <1>1, <1>2, <1>3, TasksRemovedType
<1>5. \A l \in AllLists : \A u \in mem'.lists[l] : u = NoTrack \/ mem'.metas[u] # "none"
  <2> SUFFICES ASSUME NEW l \in AllLists, NEW u \in mem'.lists[l], u # NoTrack
               PROVE  mem'.metas[u] # "none"
    OBVIOUS
  <2>1. u \in mem.lists[l] /\ u # t
    BY <1>3, <1>4
  <2>2. u \in Tracks /\ mem.metas[u] # "none"
    BY <2>1, <1>1 DEF Sound, MemoryState
  <2> QED BY <2>1, <2>2, <1>1, <1>3, <1>4 DEF MemoryState
<1>6. Sound(mem', disk', running')
  <2>1. Sound(mem', disk, running)
    BY <1>1, <1>4, <1>5, DirtyChange
  <2> QED BY <2>1, <1>2, <1>4 DEF Sound
<1>7. QueuesOK'
  <2> DEFINE clear == [type |-> "clear", track |-> t]
  <2>1. clear \in ImportEvents /\ clear \in WorkerEvents
    BY ClearIsEvent
  <2>2. /\ toWorker' \in {toWorker, Append(toWorker, clear)}
        /\ toImport' = Append(toImport, clear) /\ toMain' = toMain
    BY <1>2, Zenon
  <2> HIDE DEF clear
  <2>3. /\ toMain \in Seq(MainEvents) /\ toImport \in Seq(ImportEvents)
        /\ toWorker \in Seq(WorkerEvents)
    BY <1>1 DEF QueuesOK
  <2>4. Append(toImport, clear) \in Seq(ImportEvents)
    BY <2>1, <2>3
  <2>5. Append(toWorker, clear) \in Seq(WorkerEvents)
    BY <2>1, <2>3
  <2> QED BY <2>2, <2>3, <2>4, <2>5, Zenon DEF QueuesOK
<1>8. WorkerOK'
  <2>1. worker' \in {worker, [worker EXCEPT !.generations[t] = 0]}
    BY <1>2, Zenon
  <2>2. CASE worker' = [worker EXCEPT !.generations[t] = 0]
    <3>1. worker \in WorkerState
      BY <1>1 DEF WorkerOK
    <3> QED BY <2>2, <3>1 DEF WorkerOK, WorkerState
  <2> QED BY <1>1, <2>1, <2>2 DEF WorkerOK
<1> QED BY <1>2, <1>4, <1>6, <1>7, <1>8 DEF TypeOK, ImporterOK

\* A full save, asked for by the user or on exit.
LEMMA SaveSound ==
  ASSUME IInv, NEW ok \in BOOLEAN, SaveDataToDB(ok) \/ AddPlayList(ok)
  PROVE  IInv'
<1> USE DEF IInv
<1>1. /\ mem \in MemoryState /\ disk \in DiskState /\ Sound(mem, disk, running)
      /\ QueuesOK' /\ ImporterOK' /\ WorkerOK'
  BY QueuesStay DEF TypeOK, SaveDataToDB, AddPlayList
<1>2. /\ mem' = [mem EXCEPT !.dirty = ~ok]
      /\ ok => \E hidden \in Hidden : disk' = Rewritten(hidden)
      /\ ~ok => disk' = disk
      /\ UNCHANGED <<running, imports>>
  BY DEF SaveDataToDB, AddPlayList
<1>3. /\ mem' \in MemoryState /\ mem'.dirty = ~ok
      /\ mem'.metas = mem.metas /\ mem'.lists = mem.lists
  <2>1. (~ok) \in BOOLEAN
    OBVIOUS
  <2> QED BY <1>1, <1>2, <2>1 DEF MemoryState
<1>4. disk' \in DiskState
  BY <1>1, <1>2, RewrittenType
<1>5. Sound(mem', disk', running')
  <2>1. CASE ok
    <3>1. /\ disk'.rows = mem.metas
          /\ \A l \in AllLists : disk'.lists[l] \subseteq Known(mem)
          /\ \A l \in AllLists \ PartlyShown :
                mem.lists[l] \cap Known(mem) \subseteq disk'.lists[l]
      BY <1>1, <1>2, <2>1, RewrittenType
    <3>2. \A l \in AllLists : mem.lists[l] \ {NoTrack} \subseteq Known(mem)
      BY <1>1 DEF Sound, Known, MemoryState
    <3> QED BY <1>1, <1>3, <3>1, <3>2 DEF Sound, Known
  <2>2. CASE ~ok
    BY <2>2, <1>1, <1>2, <1>3 DEF Sound
  <2> QED BY <2>1, <2>2
<1> QED BY <1>1, <1>2, <1>3, <1>4, <1>5 DEF TypeOK

\* prepareStartupAssets() drops tasks of unknown tracks and starts the worker.
LEMMA PrepareSound ==
  ASSUME IInv, PrepareStartupAssets
  PROVE  IInv'
<1> DEFINE safe == RestoredSafe(mem)
           gone == mem.tasks \ Restored(mem)
<1>1. /\ mem \in MemoryState /\ disk \in DiskState /\ Sound(mem, disk, running)
      /\ QueuesOK
  BY DEF IInv, TypeOK
<1>2. safe \in SUBSET Tracks /\ Restored(mem) \in SUBSET Tracks
  BY DEF RestoredSafe, Restored, Known
<1>3. PICK w \in BOOLEAN : mem' = [mem EXCEPT !.prepared = TRUE, !.tasks = Restored(mem),
                                            !.worker = w]
  <2>1. (mem.worker \/ safe # {}) \in BOOLEAN
    OBVIOUS
  <2> QED BY <2>1, Zenon DEF PrepareStartupAssets
<1>4. /\ mem' \in MemoryState /\ mem'.metas = mem.metas /\ mem'.lists = mem.lists
      /\ mem'.dirty = mem.dirty
  BY <1>1, <1>2, <1>3 DEF MemoryState
<1>5. disk' \in DiskState /\ disk'.rows = disk.rows /\ disk'.lists = disk.lists
  BY <1>1, TasksRemovedType DEF PrepareStartupAssets
<1>6. Sound(mem', disk', running)
  BY <1>1, <1>4, <1>5, LittleChange
<1>7. QueuesOK'
  <2>1. toWorker' \in {toWorker, Append(toWorker, [type |-> "enqueue", tracks |-> safe])}
    BY Zenon DEF PrepareStartupAssets
  <2>2. [type |-> "enqueue", tracks |-> safe] \in WorkerEvents
    BY <1>2, EnqueueIsEvent
  <2> QED BY <1>1, <2>1, <2>2 DEF PrepareStartupAssets, QueuesOK
<1>8. UNCHANGED <<running, imports, importer, worker>>
  BY Zenon DEF PrepareStartupAssets
<1> QED BY <1>4, <1>5, <1>6, <1>7, <1>8 DEF IInv, TypeOK, ImporterOK, WorkerOK

\* An event that has been handled is gone, and nothing else is posted.
LEMMA Handled ==
  ASSUME IInv, NEW type, Delivers(toMain, type), toMain' = Tail(toMain),
         mem' \in MemoryState, disk' \in DiskState, Sound(mem', disk', running),
         UNCHANGED <<running, imports, toImport, toWorker, importer, worker>>
  PROVE  IInv'
<1>1. toMain' \in Seq(MainEvents)
  BY Taken DEF IInv, TypeOK, QueuesOK
<1>2. QueuesOK'
  BY <1>1 DEF IInv, TypeOK, QueuesOK
<1> QED BY <1>2 DEF IInv, TypeOK, ImporterOK, WorkerOK

\* A track arrives, in the library and in playlists or in playlists only.
LEMMA AddOneSound ==
  ASSUME IInv, SlotAddOneMeta
  PROVE  IInv'
<1> DEFINE e == Head(toMain)
           new == "all" \in e.lists /\ e.track \notin Known(mem)
           hash == IF new \/ e.track \in Known(mem) THEN e.track ELSE NoTrack
           quality == IF e.whole THEN "tags" ELSE "hash"
           entry == [track |-> e.track, quality |-> quality]
           lists == [l \in AllLists |-> IF l \in e.lists THEN mem.lists[l] \cup {hash}
                                        ELSE mem.lists[l]]
           added == [mem EXCEPT !.metas[e.track] = quality,
                              !.imported = Append(@, entry)]
           base == IF new THEN added ELSE mem
           dirty == base.dirty \/ new \/ lists # mem.lists
<1>1. /\ mem \in MemoryState /\ disk \in DiskState /\ Sound(mem, disk, running)
      /\ toMain \in Seq(MainEvents)
  BY DEF IInv, TypeOK, QueuesOK
<1>2. e \in AddOneEvent /\ e.track \in Tracks
  <2>1. e \in AddOneEvent
    BY <1>1, Taken, MainEventTypes DEF SlotAddOneMeta
  <2> QED BY <2>1 DEF AddOneEvent
<1>3. /\ mem' = [base EXCEPT !.lists = lists, !.dirty = dirty]
      /\ Delivers(toMain, "addOne") /\ toMain' = Tail(toMain)
      /\ UNCHANGED <<disk, running, imports, toImport, toWorker, importer, worker>>
  BY Zenon DEF SlotAddOneMeta
<1>4. hash \in Tracks \cup {NoTrack} /\ quality \in Qualities \ {"none"}
      /\ (hash # NoTrack => new \/ hash \in Known(mem))
  BY <1>2 DEF Qualities
<1> HIDE DEF e
<1>5. lists \in [AllLists -> SUBSET (Tracks \cup {NoTrack})]
  <2> HIDE DEF hash
  <2> QED BY <1>1, <1>4 DEF MemoryState
<1>6. added \in MemoryState /\ added.metas = [mem.metas EXCEPT ![e.track] = quality]
      /\ added.dirty = mem.dirty
  <2>1. entry \in Entry
    BY <1>2, <1>4 DEF Entry
  <2> HIDE DEF quality, entry
  <2>2. Append(mem.imported, entry) \in Seq(Entry)
    BY <1>1, <2>1 DEF MemoryState
  <2>3. [mem.metas EXCEPT ![e.track] = quality] \in [Tracks -> Qualities]
    BY <1>1, <1>2, <1>4 DEF MemoryState
  <2>4. added = [mem EXCEPT !.metas = [mem.metas EXCEPT ![e.track] = quality],
                          !.imported = Append(mem.imported, entry)]
    OBVIOUS
  <2> HIDE DEF added
  <2> QED BY <1>1, <2>2, <2>3, <2>4 DEF MemoryState
<1>7. base \in MemoryState /\ base.metas \in [Tracks -> Qualities]
      /\ base.metas = (IF new THEN [mem.metas EXCEPT ![e.track] = quality] ELSE mem.metas)
      /\ base.dirty = mem.dirty
  <2> HIDE DEF added, new
  <2> QED BY <1>1, <1>6 DEF MemoryState
<1> HIDE DEF base
<1>8. dirty \in BOOLEAN
  OBVIOUS
<1> HIDE DEF lists, dirty
<1>9. /\ mem' \in MemoryState /\ mem'.metas = base.metas /\ mem'.lists = lists
      /\ mem'.dirty = dirty
  BY <1>3, <1>5, <1>7, <1>8 DEF MemoryState
<1>10. \A l \in AllLists : \A u \in mem'.lists[l] : u = NoTrack \/ mem'.metas[u] # "none"
  <2> SUFFICES ASSUME NEW l \in AllLists, NEW u \in lists[l], u # NoTrack
               PROVE  base.metas[u] # "none"
    BY <1>9
  <2>1. u \in Tracks
    BY <1>5
  <2>2. u \in mem.lists[l] \/ u = hash
    BY DEF lists
  <2>3. u \in Known(mem) \/ (new /\ u = e.track)
    BY <1>1, <1>4, <2>1, <2>2 DEF Sound, Known
  <2> HIDE DEF new, hash, quality
  <2> QED BY <1>1, <1>2, <1>4, <1>7, <2>1, <2>3 DEF Known, MemoryState
<1>11. Sound(mem', disk', running)
  <2>1. CASE dirty
    <3>1. mem'.dirty = TRUE
      BY <1>8, <1>9, <2>1
    <3> QED BY <1>1, <1>3, <1>10, <3>1, DirtyChange
  <2>2. CASE ~dirty
    <3>1. ~new /\ lists = mem.lists /\ ~mem.dirty
      BY <1>7, <2>2 DEF dirty
    <3>2. mem'.metas = mem.metas /\ mem'.lists = mem.lists /\ mem'.dirty = mem.dirty
      <4>1. mem'.dirty = FALSE /\ mem.dirty = FALSE
        BY <1>1, <1>8, <1>9, <2>2, <3>1 DEF MemoryState
      <4> QED BY <1>7, <1>9, <3>1, <4>1
    <3>3. disk' = disk
      BY <1>3
    <3>4. Sound(mem', disk, running)
      BY <1>1, <3>2, LittleChange
    <3> QED BY <3>3, <3>4, Zenon
  <2> QED BY <2>1, <2>2
<1>12. mem' \in MemoryState /\ disk' \in DiskState
  BY <1>1, <1>3, <1>9
<1> QED BY <1>3, <1>11, <1>12, Handled

\* Analysis tasks arrive.
LEMMA EnqueueTasksSound ==
  ASSUME IInv, SlotEnqueueMetaTasks
  PROVE  IInv'
<1> DEFINE new == Head(toMain).tracks
           event == [type |-> "enqueue", tracks |-> new]
<1>1. /\ mem \in MemoryState /\ disk \in DiskState /\ Sound(mem, disk, running)
      /\ QueuesOK
  BY DEF IInv, TypeOK
<1>2. new \in SUBSET Tracks /\ Tail(toMain) \in Seq(MainEvents)
  <2>1. Head(toMain) \in EnqueueEvent /\ Tail(toMain) \in Seq(MainEvents)
    BY <1>1, Taken, MainEventTypes DEF SlotEnqueueMetaTasks, QueuesOK
  <2> QED BY <2>1 DEF EnqueueEvent
<1>3. event \in WorkerEvents
  BY <1>2, EnqueueIsEvent
<1>4. /\ toMain' = Tail(toMain)
      /\ disk' \in {disk, SaveTasks(disk, mem.tasks \cup new)}
      /\ mem' = [mem EXCEPT !.tasks = @ \cup new, !.worker = @ \/ mem.prepared]
      /\ toWorker' \in {toWorker, Append(toWorker, event)}
      /\ UNCHANGED <<running, imports, toImport, importer, worker>>
  BY Zenon DEF SlotEnqueueMetaTasks
<1> HIDE DEF new, event
<1>5. /\ mem' \in MemoryState /\ mem'.metas = mem.metas /\ mem'.lists = mem.lists
      /\ mem'.dirty = mem.dirty
  <2>1. (mem.worker \/ mem.prepared) \in BOOLEAN
    OBVIOUS
  <2> QED BY <1>1, <1>2, <1>4, <2>1 DEF MemoryState
<1>6. disk' \in DiskState /\ disk'.rows = disk.rows /\ disk'.lists = disk.lists
  BY <1>1, <1>2, <1>4 DEF DiskState, MemoryState, SaveTasks
<1>7. Sound(mem', disk', running)
  BY <1>1, <1>5, <1>6, LittleChange
<1>8. QueuesOK'
  BY <1>1, <1>2, <1>3, <1>4 DEF QueuesOK
<1> QED BY <1>4, <1>5, <1>6, <1>7, <1>8 DEF IInv, TypeOK, ImporterOK, WorkerOK

\* A result of the analysis is dropped, or ends its task, or goes into its track.
LEMMA AnalysisReadySound ==
  ASSUME IInv, SlotMetaAnalysisReady
  PROVE  IInv'
<1> DEFINE t == Head(toMain).track
           quality == IF mem.metas[t] = "hash" THEN "hash" ELSE "full"
           filled == [mem EXCEPT !.metas[t] = quality, !.dirty = TRUE,
                               !.imported = Synced(@, t, quality),
                               !.ready = @ \cup {t}, !.timer = TRUE]
<1>1. /\ mem \in MemoryState /\ disk \in DiskState /\ Sound(mem, disk, running)
      /\ toMain \in Seq(MainEvents)
  BY DEF IInv, TypeOK, QueuesOK
<1>2. t \in Tracks
  <2>1. Head(toMain) \in ReadyEvent
    BY <1>1, Taken, MainEventTypes DEF SlotMetaAnalysisReady
  <2> QED BY <2>1 DEF ReadyEvent
<1>3. /\ Delivers(toMain, "ready") /\ toMain' = Tail(toMain)
      /\ UNCHANGED <<running, imports, toImport, toWorker, importer, worker>>
      /\ \/ UNCHANGED <<mem, disk>>
         \/ mem' = WithoutTasks(mem, {t}) /\ disk' = TasksRemoved(mem, disk, {t})
         \/ t \in Known(mem) /\ mem' = filled /\ UNCHANGED disk
  BY Zenon DEF SlotMetaAnalysisReady
<1> HIDE DEF t
<1>4. CASE UNCHANGED <<mem, disk>>
  BY <1>1, <1>3, <1>4, Handled
<1>5. CASE mem' = WithoutTasks(mem, {t}) /\ disk' = TasksRemoved(mem, disk, {t})
  <2>1. /\ mem' \in MemoryState /\ mem'.metas = mem.metas /\ mem'.lists = mem.lists
        /\ mem'.dirty = mem.dirty
        /\ disk' \in DiskState /\ disk'.rows = disk.rows /\ disk'.lists = disk.lists
    BY <1>1, <1>5, TasksRemovedType
  <2>2. Sound(mem', disk', running)
    BY <1>1, <2>1, LittleChange
  <2> QED BY <1>3, <2>1, <2>2, Handled
<1>6. CASE t \in Known(mem) /\ mem' = filled /\ UNCHANGED disk
  <2>1. quality \in {"hash", "full"} /\ quality \in Qualities /\ quality # "none"
    BY DEF Qualities
  <2> HIDE DEF quality
  <2>2. Synced(mem.imported, t, quality) \in Seq(Entry)
    BY <1>1, <1>2, <2>1, SyncedType DEF MemoryState
  <2>3. [mem.metas EXCEPT ![t] = quality] \in [Tracks -> Qualities]
    BY <1>1, <1>2, <2>1 DEF MemoryState
  <2>4. mem.ready \cup {t} \in SUBSET Tracks
    BY <1>1, <1>2 DEF MemoryState
  <2>5. mem' = [mem EXCEPT !.metas = [mem.metas EXCEPT ![t] = quality], !.dirty = TRUE,
                         !.imported = Synced(mem.imported, t, quality),
                         !.ready = mem.ready \cup {t}, !.timer = TRUE]
    BY <1>6
  <2>6. /\ mem' \in MemoryState /\ mem'.dirty = TRUE /\ mem'.lists = mem.lists
        /\ mem'.metas = [mem.metas EXCEPT ![t] = quality]
    BY <1>1, <2>2, <2>3, <2>4, <2>5 DEF MemoryState
  <2>7. \A l \in AllLists : \A u \in mem'.lists[l] : u = NoTrack \/ mem'.metas[u] # "none"
    <3> SUFFICES ASSUME NEW l \in AllLists, NEW u \in mem.lists[l], u # NoTrack
                 PROVE  mem'.metas[u] # "none"
      BY <2>6
    <3>1. u \in Tracks /\ mem.metas[u] # "none"
      BY <1>1 DEF Sound, MemoryState
    <3> QED BY <1>1, <2>1, <2>6, <3>1 DEF MemoryState
  <2>8. Sound(mem', disk, running)
    BY <1>1, <2>6, <2>7, DirtyChange
  <2>9. disk' = disk
    BY <1>6
  <2>10. Sound(mem', disk', running) /\ disk' \in DiskState
    BY <1>1, <2>8, <2>9, Zenon
  <2> QED BY <1>3, <2>6, <2>10, Handled
<1> QED BY <1>3, <1>4, <1>5, <1>6

\* A batch is written, at the end of an import or when the timer fires.
LEMMA BatchSound ==
  ASSUME IInv, NEW ok, SlotMetaBatchFinished(ok) \/ UpsertTimeout(ok)
  PROVE  IInv'
<1> DEFINE m == FlushedMemory(mem, ok)
           d == FlushedDisk(mem, disk, ok)
<1>1. mem \in MemoryState /\ disk \in DiskState /\ Sound(mem, disk, running)
  BY DEF IInv, TypeOK
<1>2. /\ m \in MemoryState /\ m.metas = mem.metas /\ m.lists = mem.lists
      /\ m.dirty = mem.dirty
      /\ d \in DiskState /\ d.lists = disk.lists
      /\ \A t \in Tracks : disk.rows[t] # "none" => d.rows[t] # "none"
  BY <1>1, FlushedType
<1>3. CASE SlotMetaBatchFinished(ok)
  <2>1. /\ mem' = m /\ disk' = d /\ Delivers(toMain, "batch") /\ toMain' = Tail(toMain)
        /\ UNCHANGED <<running, imports, toImport, toWorker, importer, worker>>
    BY <1>3, Zenon DEF SlotMetaBatchFinished
  <2> HIDE DEF m, d
  <2>2. Sound(m, d, running)
    BY <1>1, <1>2, LittleChange
  <2> QED BY <1>2, <2>1, <2>2, Handled
<1>4. CASE UpsertTimeout(ok)
  <2>1. /\ mem' = [m EXCEPT !.timer = FALSE] /\ disk' = d
        /\ UNCHANGED <<running, imports>>
        /\ UNCHANGED <<queues, importer, worker>>
    BY <1>4, Zenon DEF UpsertTimeout
  <2>2. QueuesOK' /\ ImporterOK' /\ WorkerOK'
    BY <2>1, QueuesStay DEF IInv
  <2> HIDE DEF m, d
  <2>3. /\ mem' \in MemoryState /\ mem'.metas = mem.metas /\ mem'.lists = mem.lists
        /\ mem'.dirty = mem.dirty
    BY <1>2, <2>1 DEF MemoryState
  <2>4. Sound(mem', d, running)
    BY <1>1, <1>2, <2>3, LittleChange
  <2> QED BY <1>2, <2>1, <2>2, <2>3, <2>4 DEF IInv, TypeOK
<1> QED BY <1>3, <1>4

\* The process ends, and starts again from its disk.
LEMMA ProcessSound ==
  ASSUME IInv, Ends \/ Starts
  PROVE  IInv'
<1>1. /\ mem \in MemoryState /\ disk \in DiskState /\ Sound(mem, disk, running)
  BY DEF IInv, TypeOK
<1>2. CASE Ends
  <2>1. QueuesOK' /\ ImporterOK' /\ WorkerOK'
    BY <1>2, NoJobIsRequest DEF Ends, QueuesOK, ImporterOK, IdleImporter, ImporterState,
                                WorkerOK, IdleWorker, WorkerState
  <2>2. mem' \in MemoryState /\ mem' = EmptyMemory
    BY <1>2 DEF Ends, EmptyMemory, MemoryState, Qualities
  <2>3. disk' = disk /\ running' = FALSE /\ imports' = imports
    BY <1>2, Zenon DEF Ends
  <2>4. Sound(mem', disk', running')
    BY <1>1, <2>2, <2>3 DEF Sound, EmptyMemory
  <2> QED BY <1>1, <2>1, <2>2, <2>3, <2>4 DEF IInv, TypeOK
<1>3. CASE Starts
  <2> DEFINE loaded == [EmptyMemory EXCEPT !.metas = disk.rows, !.lists = disk.lists,
                                         !.tasks = disk.tasks]
             kept == Restored(loaded)
  <2>1. /\ mem' = [loaded EXCEPT !.tasks = kept]
        /\ disk' = SaveTasks(disk, kept)
        /\ running' = TRUE
        /\ UNCHANGED imports /\ UNCHANGED <<queues, importer, worker>>
    BY <1>3, Zenon DEF Starts
  <2>2. QueuesOK' /\ ImporterOK' /\ WorkerOK'
    BY <2>1, QueuesStay DEF IInv
  <2>3. kept \in SUBSET Tracks
    BY DEF Restored, Known
  <2>4. /\ loaded \in MemoryState /\ loaded.metas = disk.rows
        /\ loaded.lists = disk.lists /\ loaded.dirty = FALSE
    <3>1. EmptyMemory \in MemoryState /\ EmptyMemory.dirty = FALSE
      BY DEF EmptyMemory, MemoryState, Qualities
    <3>2. /\ disk.rows \in [Tracks -> Qualities] /\ disk.tasks \in SUBSET Tracks
          /\ disk.lists \in [AllLists -> SUBSET (Tracks \cup {NoTrack})]
      BY <1>1 DEF DiskState
    <3> QED BY <3>1, <3>2 DEF MemoryState
  <2> HIDE DEF loaded, kept
  <2>5. /\ mem' \in MemoryState /\ mem'.metas = disk.rows /\ mem'.lists = disk.lists
    BY <2>1, <2>3, <2>4 DEF MemoryState
  <2>6. disk' \in DiskState /\ disk'.rows = disk.rows /\ disk'.lists = disk.lists
    BY <1>1, <2>1, <2>3 DEF DiskState, SaveTasks
  <2>7. Sound(mem', disk', running')
    BY <1>1, <2>5, <2>6 DEF Sound
  <2> QED BY <2>1, <2>2, <2>5, <2>6, <2>7 DEF IInv, TypeOK
<1> QED BY <1>2, <1>3

-----------------------------------------------------------------------------
(* The steps together. *)

LEMMA NextSound == IInv /\ [Next]_vars => IInv'
<1> SUFFICES ASSUME IInv, [Next]_vars PROVE IInv'
  OBVIOUS
<1>1. TypeOK /\ Sound(mem, disk, running)
  BY Zenon DEF IInv
<1>2. CASE UserStep
  <2>1. CASE \E files \in SUBSET Tracks : \E target \in ImportTargets :
               \E withPlay \in BOOLEAN : ImportMetas(files, target, withPlay)
    BY <2>1, ImportMetasSound, UserAssumption
  <2>2. CASE \E t \in Tracks : \E l \in EditedLists :
               \/ \E current \in BOOLEAN : AddToPlayList(t, l, current)
               \/ RemoveFromOne(t, l)
    BY <2>2, EditSound, UserAssumption
  <2>3. CASE \E l \in EditedLists : ClearPlayList(l)
    BY <2>3, EditSound, UserAssumption
  <2>4. CASE \E t \in Deletable : RemoveFromAll(t)
    BY <2>4, RemoveFromAllSound, DeletableAssumption
  <2>5. CASE \E ok \in DbOutcomes : SaveDataToDB(ok) \/ AddPlayList(ok)
    BY <2>5, SaveSound, OutcomesAssumption
  <2> QED BY <1>2, <2>1, <2>2, <2>3, <2>4, <2>5, Zenon DEF UserStep
<1>3. CASE MainStep
  BY <1>3, PrepareSound, AddOneSound, EnqueueTasksSound, AnalysisReadySound, BatchSound,
     Zenon DEF MainStep
<1>4. CASE ImportStep /\ UNCHANGED <<mem, disk, running, imports, worker>>
  <2>1. QueuesOK' /\ ImporterOK'
    BY <1>1, <1>4, ImportStepType DEF TypeOK
  <2> QED BY <1>1, <1>4, <2>1 DEF IInv, TypeOK, WorkerOK
<1>5. CASE WorkerStep /\ UNCHANGED <<mem, disk, running, imports, importer>>
  <2>1. QueuesOK' /\ WorkerOK'
    BY <1>1, <1>5, WorkerStepType DEF TypeOK
  <2> QED BY <1>1, <1>5, <2>1 DEF IInv, TypeOK, ImporterOK
<1>6. CASE Ends \/ Starts
  BY <1>6, ProcessSound
<1>7. CASE UNCHANGED vars
  <2>1. QueuesOK' /\ ImporterOK' /\ WorkerOK'
    BY <1>1, <1>7, QueuesStay DEF vars, queues
  <2> QED BY <1>1, <1>7, <2>1 DEF IInv, TypeOK, vars
<1> QED BY <1>2, <1>3, <1>4, <1>5, <1>6, <1>7, Zenon DEF Next

LEMMA Invariant == Spec => []IInv
BY InitSound, NextSound, PTL DEF Spec

\* The memory, the database, the queues and the threads' state are always what
\* they are meant to be: no event is delivered to a slot that cannot take it.
THEOREM LibraryTypeCorrect == Spec => []TypeOK
<1>1. IInv => TypeOK
  BY Zenon DEF IInv
<1> QED BY <1>1, Invariant, PTL

\* No playlist, in memory or in the database, names a track that is not in the
\* library beside it, whatever imports, deletions, results and crashes cross
\* (slotAddOneMeta, deleteMetaFromAllMetas, saveDataToDB).
THEOREM ListsNameKnownTracks == Spec => []EntriesKnown
<1>1. IInv => EntriesKnown
  BY SoundMeans, Zenon DEF IInv
<1> QED BY <1>1, Invariant, PTL

\* Whenever m_dirty is false, so that saveDataToDB() would skip the save, all that
\* memory has of tracks and playlists is in the database, whichever transactions
\* have failed.
THEOREM NothingLostWhenClean == Spec => []CleanLosesNothing
<1>1. IInv => CleanLosesNothing
  BY SoundMeans, Zenon DEF IInv
<1> QED BY <1>1, Invariant, PTL

-----------------------------------------------------------------------------
(* "All Music". *)

\* Track u does not go missing from "all" in this step.
Stays(u) ==
    /\ InSession /\ mem'.metas[u] # "none"
    /\ mem.metas[u] # "none" => u \in mem.lists["all"]
    => u \in mem'.lists["all"]

\* It cannot when the library gets no new track and the list loses none.
LEMMA NothingNewStays ==
  ASSUME NEW u, mem'.metas[u] # "none" => mem.metas[u] # "none",
         mem.lists["all"] \subseteq mem'.lists["all"]
  PROVE  Stays(u)
BY DEF Stays

\* The playlists the user edits are others.
LEMMA EditStays ==
  ASSUME mem \in MemoryState, NEW u \in Tracks, NEW t, NEW l \in Lists, NEW current,
         AddToPlayList(t, l, current) \/ RemoveFromOne(t, l) \/ ClearPlayList(l)
  PROVE  Stays(u)
<1>1. l # "all" /\ "all" \in AllLists
  BY ListsAssumption
<1>2. mem'.metas = mem.metas
  BY DEF AddToPlayList, RemoveFromOne, ClearPlayList, MemoryState
<1>3. mem.lists["all"] \subseteq mem'.lists["all"]
  <2>1. CASE AddToPlayList(t, l, current)
    <3> DEFINE both(x) == x = l \/ (current /\ x = "play")
               lists == [x \in AllLists |-> IF both(x) THEN mem.lists[x] \cup {t}
                                           ELSE mem.lists[x]]
    <3>1. mem' = [mem EXCEPT !.dirty = TRUE, !.lists = lists]
      BY <2>1 DEF AddToPlayList
    <3> HIDE DEF lists
    <3>2. mem'.lists = lists
      BY <3>1 DEF MemoryState
    <3>3. lists["all"] \in {mem.lists["all"] \cup {t}, mem.lists["all"]}
      BY <1>1, Zenon DEF lists
    <3> QED BY <3>2, <3>3
  <2>2. CASE RemoveFromOne(t, l) \/ ClearPlayList(l)
    <3>1. PICK fewer : mem' = [mem EXCEPT !.lists[l] = fewer, !.dirty = TRUE]
      BY <2>2, Zenon DEF RemoveFromOne, ClearPlayList
    <3>2. mem'.lists = [mem.lists EXCEPT ![l] = fewer]
      BY <3>1 DEF MemoryState
    <3>3. mem.lists \in [AllLists -> SUBSET (Tracks \cup {NoTrack})]
      BY DEF MemoryState
    <3> QED BY <1>1, <3>2, <3>3
  <2> QED BY <2>1, <2>2
<1> QED BY <1>2, <1>3, NothingNewStays

\* A track leaves the list and the library together.
LEMMA RemoveFromAllStays ==
  ASSUME mem \in MemoryState, NEW u \in Tracks, NEW t \in Tracks, RemoveFromAll(t)
  PROVE  Stays(u)
<1>1. mem' = WithoutTasks([mem EXCEPT !.metas[t] = "none", !.dirty = TRUE,
                              !.lists = [l \in AllLists |-> @[l] \ {t}]], {t})
  BY Zenon DEF RemoveFromAll
<1>2. /\ mem'.metas = [mem.metas EXCEPT ![t] = "none"]
      /\ mem'.lists = [l \in AllLists |-> mem.lists[l] \ {t}]
  BY <1>1 DEF WithoutTasks, MemoryState
<1> QED BY <1>2 DEF Stays, MemoryState

\* A track is added to the library only together with "all".
LEMMA AddOneStays ==
  ASSUME IInv, NEW u \in Tracks, SlotAddOneMeta
  PROVE  Stays(u)
<1> DEFINE e == Head(toMain)
           new == "all" \in e.lists /\ e.track \notin Known(mem)
           hash == IF new \/ e.track \in Known(mem) THEN e.track ELSE NoTrack
           quality == IF e.whole THEN "tags" ELSE "hash"
           lists == [l \in AllLists |-> IF l \in e.lists THEN mem.lists[l] \cup {hash}
                                        ELSE mem.lists[l]]
           added == [mem EXCEPT !.metas[e.track] = quality,
                       !.imported = Append(@, [track |-> e.track, quality |-> quality])]
           base == IF new THEN added ELSE mem
<1>1. mem \in MemoryState
  BY DEF IInv, TypeOK
<1>2. mem' = [base EXCEPT !.lists = lists, !.dirty = @ \/ new \/ lists # mem.lists]
  BY Zenon DEF SlotAddOneMeta
<1>3. base.metas = (IF new THEN [mem.metas EXCEPT ![e.track] = quality] ELSE mem.metas)
  <2> HIDE DEF e, new, quality
  <2> QED BY <1>1 DEF MemoryState
<1>4. DOMAIN base = DOMAIN mem
  <2> HIDE DEF e, new, quality
  <2> QED BY DEF MemoryState
<1>5. mem'.metas = base.metas /\ mem'.lists = lists
  <2> DEFINE dirty == base.dirty \/ new \/ lists # mem.lists
  <2>1. mem' = [base EXCEPT !.lists = lists, !.dirty = dirty]
    BY <1>2
  <2> HIDE DEF base, lists, dirty
  <2> QED BY <1>1, <1>4, <2>1 DEF MemoryState
<1>6. /\ mem.lists["all"] \subseteq lists["all"]
      /\ "all" \in e.lists => lists["all"] = mem.lists["all"] \cup {hash}
  <2> HIDE DEF e, hash
  <2> QED OBVIOUS
<1>7. CASE new /\ u = e.track
  <2>1. u \in lists["all"]
    <3> HIDE DEF lists, e
    <3> QED BY <1>6, <1>7
  <2> QED BY <1>5, <2>1, Zenon DEF Stays
<1>8. CASE ~(new /\ u = e.track)
  <2>1. base.metas[u] = mem.metas[u]
    <3> HIDE DEF new, e, quality, base
    <3> QED BY <1>1, <1>3, <1>8 DEF MemoryState
  <2> HIDE DEF base, lists
  <2> QED BY <1>5, <1>6, <2>1, NothingNewStays
<1> QED BY <1>7, <1>8

\* A result changes only what is known of a known track.
LEMMA AnalysisReadyStays ==
  ASSUME mem \in MemoryState, NEW u \in Tracks, SlotMetaAnalysisReady
  PROVE  Stays(u)
<1> DEFINE t == Head(toMain).track
           quality == IF mem.metas[t] = "hash" THEN "hash" ELSE "full"
           filled == [mem EXCEPT !.metas[t] = quality, !.dirty = TRUE,
                               !.imported = Synced(@, t, quality),
                               !.ready = @ \cup {t}, !.timer = TRUE]
<1>1. \/ mem' = mem
      \/ mem' = WithoutTasks(mem, {t})
      \/ t \in Known(mem) /\ mem' = filled
  BY Zenon DEF SlotMetaAnalysisReady
<1> HIDE DEF t
<1>2. CASE mem' = mem
  BY <1>2, NothingNewStays
<1>3. CASE mem' = WithoutTasks(mem, {t})
  <2>1. mem'.metas = mem.metas /\ mem'.lists = mem.lists
    BY <1>3 DEF WithoutTasks, MemoryState
  <2> QED BY <2>1, NothingNewStays
<1>4. CASE t \in Known(mem) /\ mem' = filled
  <2> HIDE DEF quality
  <2>1. mem'.metas = [mem.metas EXCEPT ![t] = quality] /\ mem'.lists = mem.lists
    BY <1>4 DEF MemoryState
  <2>2. mem'.metas[u] # "none" => mem.metas[u] # "none"
    BY <1>4, <2>1 DEF Known, MemoryState
  <2> QED BY <2>1, <2>2, NothingNewStays
<1> QED BY <1>1, <1>2, <1>3, <1>4

LEMMA NextStays == IInv /\ [Next]_vars => \A u \in Tracks : Stays(u)
<1> SUFFICES ASSUME IInv, [Next]_vars, NEW u \in Tracks PROVE Stays(u)
  OBVIOUS
<1>1. mem \in MemoryState /\ disk \in DiskState
  BY DEF IInv, TypeOK
<1>2. ASSUME mem'.metas = mem.metas, mem'.lists = mem.lists
      PROVE  Stays(u)
  BY <1>2, NothingNewStays
<1>3. CASE UserStep
  <2>1. CASE \E files \in SUBSET Tracks : \E target \in ImportTargets :
               \E withPlay \in BOOLEAN : ImportMetas(files, target, withPlay)
    <3>1. mem' = mem
      BY <2>1, Zenon DEF ImportMetas
    <3> QED BY <1>2, <3>1
  <2>2. CASE \E t \in Tracks : \E l \in EditedLists :
               \/ \E current \in BOOLEAN : AddToPlayList(t, l, current)
               \/ RemoveFromOne(t, l)
    BY <1>1, <2>2, EditStays, UserAssumption
  <2>3. CASE \E l \in EditedLists : ClearPlayList(l)
    BY <1>1, <2>3, EditStays, UserAssumption
  <2>4. CASE \E t \in Deletable : RemoveFromAll(t)
    BY <1>1, <2>4, RemoveFromAllStays, DeletableAssumption
  <2>5. CASE \E ok \in DbOutcomes : SaveDataToDB(ok) \/ AddPlayList(ok)
    <3>1. PICK ok : mem' = [mem EXCEPT !.dirty = ~ok]
      BY <2>5, Zenon DEF SaveDataToDB, AddPlayList
    <3> DEFINE dirty == ~ok
    <3>2. mem' = [mem EXCEPT !.dirty = dirty]
      BY <3>1
    <3> HIDE DEF dirty
    <3>3. mem'.metas = mem.metas /\ mem'.lists = mem.lists
      BY <1>1, <3>2 DEF MemoryState
    <3> QED BY <1>2, <3>3
  <2> QED BY <1>3, <2>1, <2>2, <2>3, <2>4, <2>5, Zenon DEF UserStep
<1>4. CASE PrepareStartupAssets \/ SlotEnqueueMetaTasks
  <2>1. mem'.metas = mem.metas /\ mem'.lists = mem.lists
    BY <1>1, <1>4 DEF PrepareStartupAssets, SlotEnqueueMetaTasks, MemoryState
  <2> QED BY <1>2, <2>1
<1>5. CASE \E ok \in DbOutcomes : SlotMetaBatchFinished(ok) \/ UpsertTimeout(ok)
  <2>1. PICK ok : \/ mem' = FlushedMemory(mem, ok)
                  \/ mem' = [FlushedMemory(mem, ok) EXCEPT !.timer = FALSE]
    BY <1>5, Zenon DEF SlotMetaBatchFinished, UpsertTimeout
  <2>2. /\ FlushedMemory(mem, ok) \in MemoryState
        /\ FlushedMemory(mem, ok).metas = mem.metas
        /\ FlushedMemory(mem, ok).lists = mem.lists
    BY <1>1, FlushedType
  <2>3. mem'.metas = mem.metas /\ mem'.lists = mem.lists
    BY <2>1, <2>2 DEF MemoryState
  <2> QED BY <1>2, <2>3
<1>6. CASE MainStep
  BY <1>1, <1>4, <1>5, <1>6, AddOneStays, AnalysisReadyStays, Zenon DEF MainStep
<1>7. CASE Ends \/ Starts
  BY <1>7 DEF Ends, Starts, Stays, InSession
<1>8. ASSUME UNCHANGED mem PROVE Stays(u)
  BY <1>2, <1>8
<1> QED BY <1>3, <1>6, <1>7, <1>8, Zenon DEF Next, vars

\* A track that is in the library is in "All Music" as well, whichever imports,
\* deletions and results cross, unless the process ended between the batch that
\* wrote its row and the save that wrote the playlists (slotAddOneMeta, upsertMetasDB).
THEOREM AllMusicIsComplete == Spec => AllListComplete
<1>1. IInv /\ [Next]_vars => [\A t \in Tracks : Stays(t)]_vars
  BY NextStays
<1>2. Spec => [][\A t \in Tracks : Stays(t)]_vars
  BY <1>1, Invariant, PTL DEF Spec
<1> QED BY <1>2 DEF AllListComplete, Stays
=============================================================================
