---------------------------- MODULE LibraryQueues ----------------------------
(***************************************************************************)
(* What the three threads of the music library share: the tracks, and the  *)
(* queued signal connections through which alone they talk to one another.  *)
(*                                                                         *)
(*   GUI thread        DataManager       toMain    (Library)                *)
(*   import thread     DBOperate         toImport  (MetaImport)             *)
(*   analysis thread   MediaMetaWorker   toWorker  (MediaMetaWorker)        *)
(*                                                                         *)
(* A Qt::QueuedConnection posts an event to the receiver's thread, whose    *)
(* event loop delivers the events in the order they were posted.            *)
(***************************************************************************)
EXTENDS Naturals, Sequences, FiniteSets

CONSTANTS
    Tracks,   \* the music files, told apart by the hash of their path
    NoTrack,  \* the empty hash of an empty MediaMeta
    Lists     \* the playlists besides "all": "play", "fav", the user's own

ASSUME TracksAssumption == NoTrack \notin Tracks /\ IsFiniteSet(Tracks)
ASSUME ListsAssumption == "play" \in Lists /\ "all" \notin Lists /\ "" \notin Lists

AllLists == Lists \cup {"all"}

\* What an import may be aimed at: a playlist, or none.
Targets == AllLists \cup {""}

VARIABLES
    toMain,    \* events posted to the DataManager
    toImport,  \* events posted to DBOperate
    toWorker   \* events posted to the MediaMetaWorker

queues == <<toMain, toImport, toWorker>>

\* signalImportMetas: known and listed are what the data manager knew when it
\* emitted the signal, of all tracks and of the playlist concerned.
ImportRequest ==
    [type : {"import"}, files : SUBSET Tracks, target : Targets, withPlay : BOOLEAN,
     known : SUBSET Tracks, listed : SUBSET (Tracks \cup {NoTrack})]

\* signalClearImportingHash
ClearEvent == [type : {"clear"}, track : Tracks]

\* signalAddOneMeta; whole tells a parsed MediaMeta from one that has its hash only.
AddOneEvent ==
    [type : {"addOne"}, lists : SUBSET AllLists, track : Tracks, whole : BOOLEAN]

\* signalEnqueueMetaTasks, from the import to the data manager and on to the worker
EnqueueEvent == [type : {"enqueue"}, tracks : SUBSET Tracks]

\* signalMetaBatchFinished
BatchEvent == [type : {"batch"}]

\* signalMetaAnalysisReady
ReadyEvent == [type : {"ready"}, track : Tracks, generation : Nat]

\* The event of QTimer::singleShot(0) by which the worker calls processNext.
ProcessEvent == [type : {"process"}]

MainEvents == AddOneEvent \cup EnqueueEvent \cup BatchEvent \cup ReadyEvent
ImportEvents == ImportRequest \cup ClearEvent
WorkerEvents == EnqueueEvent \cup ClearEvent \cup ProcessEvent

QueuesOK ==
    /\ toMain \in Seq(MainEvents)
    /\ toImport \in Seq(ImportEvents)
    /\ toWorker \in Seq(WorkerEvents)

\* The event loop of a thread delivers event e next.
Delivers(queue, type) == queue # <<>> /\ Head(queue).type = type
==============================================================================
