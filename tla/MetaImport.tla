----------------------------- MODULE MetaImport -----------------------------
(***************************************************************************)
(* The import thread: DBOperate (core/dboperate.cpp).  One request is       *)
(* handled at a time; the loop over its files emits an event per file while *)
(* the other threads go on.                                                 *)
(***************************************************************************)
EXTENDS LibraryQueues

CONSTANT Damaged  \* files whose parsing may fail, now or every time

ASSUME DamagedAssumption == Damaged \subseteq Tracks

VARIABLE importer

(***************************************************************************)
(* phase      where slotImportMetas() is: not running, in the loop over the *)
(*            files, before signalEnqueueMetaTasks, before the last signal  *)
(* job        the request being handled                                     *)
(* files      the files the loop has not come to yet                        *)
(* fresh      pendingMetas: what this request has parsed                    *)
(* importing  m_importingHashes                                             *)
(***************************************************************************)
NoJob == [type |-> "import", files |-> {}, target |-> "", withPlay |-> FALSE,
          known |-> {}, listed |-> {}]

ImporterState ==
    [phase : {"idle", "files", "enqueue", "batch"}, job : ImportRequest,
     files : SUBSET Tracks, fresh : SUBSET Tracks, importing : SUBSET Tracks]

IdleImporter == [phase |-> "idle", job |-> NoJob, files |-> {}, fresh |-> {},
                 importing |-> {}]

ImporterOK == importer \in ImporterState

\* Mutant: every hash is forgotten, not only those that have arrived.
BeginImport_ForgetsAll ==
    /\ importer.phase = "idle" /\ Delivers(toImport, "import")
    /\ toImport' = Tail(toImport)
    /\ importer' = [phase |-> "files", job |-> Head(toImport),
                    files |-> Head(toImport).files, fresh |-> {}, importing |-> {}]
    /\ UNCHANGED <<toMain, toWorker>>

\* slotImportMetas() up to its loop: the hashes that have arrived are forgotten.
BeginImport ==
    /\ importer.phase = "idle" /\ Delivers(toImport, "import")
    /\ toImport' = Tail(toImport)
    /\ importer' = [phase |-> "files", job |-> Head(toImport),
                    files |-> Head(toImport).files, fresh |-> {},
                    importing |-> importer.importing \ Head(toImport).known]
    /\ UNCHANGED <<toMain, toWorker>>

\* Whether the request has file f parsed: no import has begun with it, it was not
\* in the target and not known when the request was made.
Parses(f) ==
    /\ f \notin importer.importing
    /\ importer.job.target # "" => f \notin importer.job.listed
    /\ f \notin importer.job.known

\* Whether it only adds f, which was known, to the target.
OnlyLists(f) ==
    /\ f \notin importer.importing
    /\ importer.job.target # "" /\ f \notin importer.job.listed
    /\ f \in importer.job.known

\* The playlists a parsed file goes to.
Destinations(f) ==
    {"all"} \cup ({importer.job.target} \ {""})
            \cup {l \in {"play"} : importer.job.withPlay /\ f \notin importer.job.listed}

Emit(lists, f, whole) ==
    toMain' = Append(toMain, [type |-> "addOne", lists |-> lists, track |-> f,
                              whole |-> whole])

\* The loop's body for file f.
ImportFile(f) ==
    /\ importer.phase = "files" /\ f \in importer.files
    /\ LET done == [importer EXCEPT !.files = @ \ {f}]
           parsed == [done EXCEPT !.importing = @ \cup {f}]
       IN  \/ /\ Parses(f)
              /\ importer' = [parsed EXCEPT !.fresh = @ \cup {f}]
              /\ Emit(Destinations(f), f, TRUE)
           \/ /\ Parses(f) /\ f \in Damaged
              /\ importer' = parsed
              /\ UNCHANGED toMain
           \/ /\ OnlyLists(f)
              /\ importer' = done
              /\ Emit({importer.job.target}, f, FALSE)
           \/ /\ ~Parses(f) /\ ~OnlyLists(f)
              /\ importer' = done
              /\ UNCHANGED toMain
    /\ UNCHANGED <<toImport, toWorker>>

\* The loop is over: signalImportFinished, which changes nothing here.
EndFiles ==
    /\ importer.phase = "files" /\ importer.files = {}
    /\ importer' = [importer EXCEPT !.phase = IF importer.fresh = {}
                                              THEN "batch" ELSE "enqueue"]
    /\ UNCHANGED queues

\* signalEnqueueMetaTasks(pendingMetas)
EmitEnqueue ==
    /\ importer.phase = "enqueue"
    /\ importer' = [importer EXCEPT !.phase = "batch"]
    /\ toMain' = Append(toMain, [type |-> "enqueue", tracks |-> importer.fresh])
    /\ UNCHANGED <<toImport, toWorker>>

\* signalMetaBatchFinished(), and the slot returns
EmitBatchFinished ==
    /\ importer.phase = "batch"
    /\ importer' = [IdleImporter EXCEPT !.importing = importer.importing]
    /\ toMain' = Append(toMain, [type |-> "batch"])
    /\ UNCHANGED <<toImport, toWorker>>

\* slotClearImportingHash()
ClearImportingHash ==
    /\ importer.phase = "idle" /\ Delivers(toImport, "clear")
    /\ toImport' = Tail(toImport)
    /\ importer' = [importer EXCEPT !.importing = @ \ {Head(toImport).track}]
    /\ UNCHANGED <<toMain, toWorker>>

ImportStep ==
    \/ BeginImport
    \/ \E f \in Tracks : ImportFile(f)
    \/ EndFiles \/ EmitEnqueue \/ EmitBatchFinished
    \/ ClearImportingHash
=============================================================================
