-------------------------- MODULE MediaMetaWorker --------------------------
(***************************************************************************)
(* The analysis thread: MediaMetaWorker (core/mediametaworker.cpp) extracts *)
(* cover and lyrics of one track after the other.  The GUI thread reaches   *)
(* directly into taskGenerations, under a mutex, to invalidate a task.      *)
(***************************************************************************)
EXTENDS LibraryQueues

VARIABLE worker

(***************************************************************************)
(* queue        m_queue                                                     *)
(* pending      m_pendingHashes                                             *)
(* done         m_doneHashes                                                *)
(* ids          m_taskIds, 0 for a hash that is not in it                   *)
(* generations  m_taskGenerations, 0 for a hash that is not in it           *)
(* next         m_nextTaskId, which m_nextGeneration always equals           *)
(* task         the task being parsed                                       *)
(* m_processScheduled is whether a "process" event is in toWorker.           *)
(***************************************************************************)
Task == [track : Tracks, id : Nat]
NoTask == [track |-> NoTrack, id |-> 0]

WorkerState ==
    [queue : Seq(Task), pending : SUBSET Tracks, done : SUBSET Tracks,
     ids : [Tracks -> Nat], generations : [Tracks -> Nat], next : Nat,
     task : Task \cup {NoTask}]

IdleWorker ==
    [queue |-> <<>>, pending |-> {}, done |-> {}, ids |-> [t \in Tracks |-> 0],
     generations |-> [t \in Tracks |-> 0], next |-> 0, task |-> NoTask]

WorkerOK == worker \in WorkerState

\* All orders of a finite set.
Orders(S) ==
    {s \in [1 .. Cardinality(S) -> S] : \A i, j \in DOMAIN s : s[i] = s[j] => i = j}

\* scheduleNext() on what the inbox holds after the present event.
Scheduled(inbox, queue) ==
    IF queue = <<>> \/ \E i \in DOMAIN inbox : inbox[i].type = "process" THEN inbox
    ELSE Append(inbox, [type |-> "process"])

\* enqueueMetas(): what is neither done nor pending gets a task.
EnqueueMetas ==
    /\ worker.task = NoTask /\ Delivers(toWorker, "enqueue")
    /\ \E s \in Orders(Head(toWorker).tracks \ (worker.done \cup worker.pending)) :
          LET new(i) == worker.next + i
              of(f) == [t \in Tracks |-> IF \E i \in DOMAIN s : s[i] = t
                                         THEN new(CHOOSE i \in DOMAIN s : s[i] = t)
                                         ELSE f[t]]
              queue == worker.queue \o
                       [i \in 1 .. Len(s) |-> [track |-> s[i], id |-> new(i)]]
          IN  /\ worker' = [worker EXCEPT
                    !.queue = queue, !.ids = of(@), !.generations = of(@),
                    !.pending = @ \cup {s[i] : i \in DOMAIN s}, !.next = @ + Len(s)]
              /\ toWorker' = Scheduled(Tail(toWorker), queue)
    /\ UNCHANGED <<toMain, toImport>>

\* clearMetaHash(): a deleted track may be imported again.
ClearMetaHash ==
    /\ worker.task = NoTask /\ Delivers(toWorker, "clear")
    /\ toWorker' = Tail(toWorker)
    /\ LET t == Head(toWorker).track
       IN  worker' = [worker EXCEPT !.done = @ \ {t}, !.pending = @ \ {t}, !.ids[t] = 0]
    /\ UNCHANGED <<toMain, toImport>>

\* Mutant: nothing is scheduled after a task that is dropped.
ProcessNext_StopsAtDropped ==
    /\ worker.task = NoTask /\ Delivers(toWorker, "process")
    /\ worker.queue # <<>>
    /\ LET task == Head(worker.queue)
           rest == [worker EXCEPT !.queue = Tail(@)]
       IN  IF worker.ids[task.track] # task.id
           THEN /\ worker' = rest
                /\ toWorker' = Tail(toWorker)
           ELSE /\ worker' = [rest EXCEPT !.ids[task.track] = 0, !.task = task,
                                          !.pending = @ \ {task.track}]
                /\ toWorker' = Tail(toWorker)
    /\ UNCHANGED <<toMain, toImport>>

\* processNext() up to the parsing: a task that was cleared meanwhile is dropped.
ProcessNext ==
    /\ worker.task = NoTask /\ Delivers(toWorker, "process")
    /\ worker.queue # <<>>
    /\ LET task == Head(worker.queue)
           rest == [worker EXCEPT !.queue = Tail(@)]
       IN  IF worker.ids[task.track] # task.id
           THEN /\ worker' = rest
                /\ toWorker' = Scheduled(Tail(toWorker), rest.queue)
           ELSE /\ worker' = [rest EXCEPT !.ids[task.track] = 0, !.task = task,
                                          !.pending = @ \ {task.track}]
                /\ toWorker' = Tail(toWorker)
    /\ UNCHANGED <<toMain, toImport>>

\* processNext() after the parsing: the result of an invalidated task is dropped.
FinishTask ==
    /\ worker.task # NoTask
    /\ LET t == worker.task.track
           id == worker.task.id
           free == [worker EXCEPT !.task = NoTask]
       IN  IF worker.generations[t] # id
           THEN worker' = free /\ UNCHANGED toMain
           ELSE /\ worker' = [free EXCEPT !.done = @ \cup {t}]
                /\ toMain' = Append(toMain, [type |-> "ready", track |-> t,
                                             generation |-> id])
    /\ toWorker' = Scheduled(toWorker, worker.queue)
    /\ UNCHANGED toImport

WorkerStep == EnqueueMetas \/ ClearMetaHash \/ ProcessNext \/ FinishTask
============================================================================
