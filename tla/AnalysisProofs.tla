--------------------------- MODULE AnalysisProofs ---------------------------
(***************************************************************************)
(* Library implements the steps of AnalysisService, for every finite set of *)
(* tracks and any number of imports: whatever crosses in the three queues,  *)
(* a task that was accepted is answered and taken once, and nothing of a    *)
(* cancelled one is taken.                                                  *)
(***************************************************************************)
EXTENDS LibraryProofs

-----------------------------------------------------------------------------
(* What is under way in the two queues, as relations on tracks and generations. *)

\* The result of generation n of track t is in the queue q.
OnWay(q, t, n) ==
    \E i \in DOMAIN q : q[i].type = "ready" /\ q[i].track = t /\ q[i].generation = n

\* No result is there twice.
Unique(q) ==
    \A i, j \in DOMAIN q :
        /\ q[i].type = "ready" /\ q[j].type = "ready"
        /\ q[i].track = q[j].track /\ q[i].generation = q[j].generation
        => i = j

\* A clearMetaHash() of t is to come; one is to come after a processNext().
Clears(q, t) == \E i \in DOMAIN q : q[i].type = "clear" /\ q[i].track = t
ClearsLate(q, t) ==
    \E i, j \in DOMAIN q : /\ j < i /\ q[j].type = "process"
                           /\ q[i].type = "clear" /\ q[i].track = t

\* A processNext() is to come; at most one is (m_processScheduled).
Processes(q) == \E i \in DOMAIN q : q[i].type = "process"
OneProcess(q) ==
    \A i, j \in DOMAIN q : q[i].type = "process" /\ q[j].type = "process" => i = j

\* Where the events of a queue are when its first is gone, or one more has come.
LEMMA AfterTail ==
  ASSUME NEW S, NEW q \in Seq(S), q # <<>>
  PROVE  /\ 1 \in DOMAIN q /\ Head(q) = q[1]
         /\ \A i \in DOMAIN Tail(q) : i \in Nat /\ i >= 1 /\ i + 1 \in DOMAIN q /\ Tail(q)[i] = q[i + 1]
         /\ \A i \in DOMAIN q : i # 1 => i \in Nat /\ i - 1 \in DOMAIN Tail(q) /\ Tail(q)[i - 1] = q[i]
OBVIOUS

LEMMA AfterAppend ==
  ASSUME NEW S, NEW q \in Seq(S), NEW e
  PROVE  /\ Len(q) + 1 \in DOMAIN Append(q, e) /\ Append(q, e)[Len(q) + 1] = e
         /\ \A i \in DOMAIN q : /\ i \in DOMAIN Append(q, e) /\ Append(q, e)[i] = q[i]
                                /\ i \in Nat /\ i < Len(q) + 1
         /\ \A i \in DOMAIN Append(q, e) : i \in DOMAIN q \/ i = Len(q) + 1
         /\ Len(q) \in Nat
OBVIOUS

\* An event that is not a result comes, or goes.
LEMMA OtherAppended ==
  ASSUME NEW q \in Seq(MainEvents), NEW e, e.type # "ready", Unique(q)
  PROVE  /\ \A t, n : OnWay(Append(q, e), t, n) <=> OnWay(q, t, n)
         /\ Unique(Append(q, e))
<1> DEFINE p == Append(q, e)
<1>1. /\ p[Len(q) + 1] = e
      /\ \A i \in DOMAIN q : i \in DOMAIN p /\ p[i] = q[i]
      /\ \A i \in DOMAIN p : i \in DOMAIN q \/ i = Len(q) + 1
  BY AfterAppend
<1> HIDE DEF p
<1>2. Unique(p)
  BY <1>1 DEF Unique
<1>3. \A t, n : OnWay(p, t, n) <=> OnWay(q, t, n)
  BY <1>1 DEF OnWay
<1> QED BY <1>2, <1>3 DEF p

LEMMA OtherDelivered ==
  ASSUME NEW q \in Seq(MainEvents), q # <<>>, Head(q).type # "ready", Unique(q)
  PROVE  /\ \A t, n : OnWay(Tail(q), t, n) <=> OnWay(q, t, n)
         /\ Unique(Tail(q))
<1> DEFINE p == Tail(q)
<1>1. /\ q[1].type # "ready"
      /\ \A i \in DOMAIN p : i \in Nat /\ i + 1 \in DOMAIN q /\ p[i] = q[i + 1]
      /\ \A i \in DOMAIN q : i # 1 => i - 1 \in DOMAIN p /\ p[i - 1] = q[i]
  BY AfterTail
<1> HIDE DEF p
<1>2. ASSUME NEW i \in DOMAIN p, NEW j \in DOMAIN p, i + 1 = j + 1 PROVE i = j
  BY <1>1, <1>2
<1>3. Unique(p)
  BY <1>1, <1>2 DEF Unique
<1>4. \A t, n : OnWay(p, t, n) <=> OnWay(q, t, n)
  BY <1>1 DEF OnWay
<1> QED BY <1>3, <1>4 DEF p

\* A new result comes.
LEMMA ResultAppended ==
  ASSUME NEW q \in Seq(MainEvents), NEW e, e.type = "ready", Unique(q),
         ~OnWay(q, e.track, e.generation)
  PROVE  /\ \A t, n : OnWay(Append(q, e), t, n)
                      <=> OnWay(q, t, n) \/ (t = e.track /\ n = e.generation)
         /\ Unique(Append(q, e))
<1> DEFINE p == Append(q, e)
<1>1. /\ Len(q) + 1 \in DOMAIN p /\ p[Len(q) + 1] = e
      /\ \A i \in DOMAIN q : i \in DOMAIN p /\ p[i] = q[i]
      /\ \A i \in DOMAIN p : i \in DOMAIN q \/ i = Len(q) + 1
  BY AfterAppend
<1> HIDE DEF p
<1>2. Unique(p)
  BY <1>1 DEF Unique, OnWay
<1>3. \A t, n : OnWay(p, t, n) <=> OnWay(q, t, n) \/ (t = e.track /\ n = e.generation)
  BY <1>1 DEF OnWay
<1> QED BY <1>2, <1>3 DEF p

\* A result is delivered.
LEMMA ResultDelivered ==
  ASSUME NEW q \in Seq(MainEvents), q # <<>>, Head(q).type = "ready", Unique(q)
  PROVE  /\ OnWay(q, Head(q).track, Head(q).generation)
         /\ \A t, n : OnWay(Tail(q), t, n)
                      <=> OnWay(q, t, n) /\ ~(t = Head(q).track /\ n = Head(q).generation)
         /\ Unique(Tail(q))
<1> DEFINE p == Tail(q)
           e == Head(q)
<1>1. /\ 1 \in DOMAIN q /\ q[1] = e
      /\ \A i \in DOMAIN p : i \in Nat /\ i >= 1 /\ i + 1 \in DOMAIN q /\ p[i] = q[i + 1]
      /\ \A i \in DOMAIN q : i # 1 => i - 1 \in DOMAIN p /\ p[i - 1] = q[i]
  BY AfterTail
<1> HIDE DEF p, e
<1>2. ASSUME NEW i \in DOMAIN p, NEW j \in DOMAIN p, i + 1 = j + 1 PROVE i = j
  BY <1>1, <1>2
<1>3. \A i \in DOMAIN p : i + 1 # 1
  BY <1>1
<1>4. Unique(p)
  <2> SUFFICES ASSUME NEW i \in DOMAIN p, NEW j \in DOMAIN p,
                      p[i].type = "ready", p[j].type = "ready",
                      p[i].track = p[j].track, p[i].generation = p[j].generation
               PROVE  i = j
    BY DEF Unique
  <2>1. i + 1 = j + 1
    BY <1>1 DEF Unique
  <2> QED BY <1>2, <2>1
<1>5. OnWay(q, e.track, e.generation)
  BY <1>1 DEF OnWay, e
<1>6. ASSUME NEW t, NEW n, OnWay(p, t, n)
      PROVE  OnWay(q, t, n) /\ ~(t = e.track /\ n = e.generation)
  BY <1>1, <1>3, <1>6 DEF OnWay, Unique, e
<1>7. ASSUME NEW t, NEW n, OnWay(q, t, n), ~(t = e.track /\ n = e.generation)
      PROVE  OnWay(p, t, n)
  BY <1>1, <1>7 DEF OnWay
<1> QED BY <1>4, <1>5, <1>6, <1>7 DEF p, e

\* What may become of the worker's inbox when an event comes or goes: nothing is
\* cleared that was not, nor later than it was.
NoClearComes(p, q) ==
    \A t : (Clears(p, t) => Clears(q, t)) /\ (ClearsLate(p, t) => ClearsLate(q, t))

LEMMA EventPosted ==
  ASSUME NEW q \in Seq(WorkerEvents), NEW e, OneProcess(q),
         e.type = "process" => ~Processes(q)
  PROVE  /\ OneProcess(Append(q, e))
         /\ e.type # "clear" => NoClearComes(Append(q, e), q)
         /\ e.type # "process" => (Processes(Append(q, e)) => Processes(q))
         /\ \A t : t # e.track => /\ Clears(Append(q, e), t) => Clears(q, t)
                                  /\ ClearsLate(Append(q, e), t) => ClearsLate(q, t)
<1> DEFINE p == Append(q, e)
<1>1. /\ p[Len(q) + 1] = e
      /\ \A i \in DOMAIN q : p[i] = q[i] /\ i \in Nat /\ i < Len(q) + 1
      /\ \A i \in DOMAIN p : i \in DOMAIN q \/ i = Len(q) + 1
      /\ Len(q) \in Nat
  BY AfterAppend
<1> HIDE DEF p
<1>2. OneProcess(p)
  BY <1>1 DEF OneProcess, Processes
<1>3. ASSUME NEW t, e.type # "clear" \/ e.track # t
      PROVE  (Clears(p, t) => Clears(q, t)) /\ (ClearsLate(p, t) => ClearsLate(q, t))
  <2>1. Clears(p, t) => Clears(q, t)
    BY <1>1, <1>3 DEF Clears
  <2>2. ClearsLate(p, t) => ClearsLate(q, t)
    <3> SUFFICES ASSUME NEW i \in DOMAIN p, NEW j \in DOMAIN p, j < i,
                        p[j].type = "process", p[i].type = "clear", p[i].track = t
                 PROVE  ClearsLate(q, t)
      BY DEF ClearsLate
    <3>1. i \in DOMAIN q
      BY <1>1, <1>3
    <3>2. j \in DOMAIN q
      BY <1>1, <3>1
    <3> QED BY <1>1, <3>1, <3>2 DEF ClearsLate
  <2> QED BY <2>1, <2>2
<1>4. e.type # "process" => (Processes(p) => Processes(q))
  BY <1>1 DEF Processes
<1>5. e.type # "clear" => NoClearComes(p, q)
  BY <1>3 DEF NoClearComes
<1> QED BY <1>2, <1>3, <1>4, <1>5 DEF p

LEMMA EventDelivered ==
  ASSUME NEW q \in Seq(WorkerEvents), q # <<>>, OneProcess(q)
  PROVE  /\ OneProcess(Tail(q)) /\ NoClearComes(Tail(q), q)
         /\ Processes(Tail(q)) => Processes(q)
         /\ Head(q).type = "clear" => Clears(q, Head(q).track)
         /\ Head(q).type = "process" =>
               /\ Processes(q) /\ ~Processes(Tail(q))
               /\ \A t : /\ ~ClearsLate(Tail(q), t)
                         /\ Clears(Tail(q), t) => ClearsLate(q, t)
<1> DEFINE p == Tail(q)
           e == Head(q)
<1>1. /\ 1 \in DOMAIN q /\ q[1] = e
      /\ \A i \in DOMAIN p : i \in Nat /\ i >= 1 /\ i + 1 \in DOMAIN q /\ p[i] = q[i + 1]
  BY AfterTail
<1> HIDE DEF p, e
<1>2. \A i, j \in DOMAIN p : (i + 1 = j + 1 => i = j) /\ (j < i => j + 1 < i + 1) /\ 1 < i + 1 /\ i + 1 # 1
  BY <1>1
<1>3. OneProcess(p)
  <2> SUFFICES ASSUME NEW i \in DOMAIN p, NEW j \in DOMAIN p,
                      p[i].type = "process", p[j].type = "process"
               PROVE  i = j
    BY DEF OneProcess
  <2>1. i + 1 = j + 1
    BY <1>1 DEF OneProcess
  <2> QED BY <1>2, <2>1
<1>4. ASSUME NEW t, ClearsLate(p, t) PROVE ClearsLate(q, t)
  <2>1. PICK i \in DOMAIN p, j \in DOMAIN p :
           j < i /\ p[j].type = "process" /\ p[i].type = "clear" /\ p[i].track = t
    BY <1>4 DEF ClearsLate
  <2>2. i + 1 \in DOMAIN q /\ j + 1 \in DOMAIN q /\ j + 1 < i + 1
    BY <1>1, <1>2, <2>1
  <2> QED BY <1>1, <2>1, <2>2 DEF ClearsLate
<1>5. (\A t : Clears(p, t) => Clears(q, t)) /\ (Processes(p) => Processes(q))
  BY <1>1 DEF Clears, Processes
<1>6. e.type = "clear" => Clears(q, e.track)
  BY <1>1 DEF Clears
<1>7. ASSUME e.type = "process"
      PROVE  /\ Processes(q) /\ ~Processes(p)
             /\ \A t : ~ClearsLate(p, t) /\ (Clears(p, t) => ClearsLate(q, t))
  <2>1. Processes(q)
    BY <1>1, <1>7 DEF Processes
  <2>2. ~Processes(p)
    BY <1>1, <1>2, <1>7 DEF Processes, OneProcess
  <2>3. \A t : ~ClearsLate(p, t)
    BY <2>2 DEF ClearsLate, Processes
  <2>4. ASSUME NEW t, Clears(p, t) PROVE ClearsLate(q, t)
    <3>1. PICK i \in DOMAIN p : p[i].type = "clear" /\ p[i].track = t
      BY <2>4 DEF Clears
    <3>2. i + 1 \in DOMAIN q /\ 1 < i + 1 /\ q[i + 1] = p[i]
      BY <1>1, <1>2
    <3> QED BY <1>1, <1>7, <3>1, <3>2 DEF ClearsLate
  <2> QED BY <2>1, <2>2, <2>3, <2>4
<1> QED BY <1>3, <1>4, <1>5, <1>6, <1>7 DEF p, e, NoClearComes

\* scheduleNext()
LEMMA ScheduledOnce ==
  ASSUME NEW q \in Seq(WorkerEvents), NEW queue, OneProcess(q)
  PROVE  /\ OneProcess(Scheduled(q, queue)) /\ NoClearComes(Scheduled(q, queue), q)
         /\ Processes(Scheduled(q, queue)) => Processes(q) \/ queue # <<>>
<1>1. CASE queue = <<>> \/ Processes(q)
  <2>1. Scheduled(q, queue) = q
    BY <1>1 DEF Scheduled, Processes
  <2> QED BY <2>1 DEF NoClearComes
<1>2. CASE queue # <<>> /\ ~Processes(q)
  <2> DEFINE e == [type |-> "process"]
  <2>1. Scheduled(q, queue) = Append(q, e)
    BY <1>2 DEF Scheduled, Processes
  <2>2. e.type = "process"
    OBVIOUS
  <2> HIDE DEF e
  <2> QED BY <1>2, <2>1, <2>2, EventPosted
<1> QED BY <1>1, <1>2

-----------------------------------------------------------------------------
(* The invariant behind the refinement. *)

\* Track t's task of generation n is being parsed.
Parsing(t, n) == worker.task.track = t /\ worker.task.id = n

\* A task number belongs to one task of one track; a track waits, is parsed or is
\* done with, and only its last task can be current.
TasksCounted ==
    /\ \A i \in DOMAIN worker.queue : worker.queue[i].id \in 1 .. worker.next
    /\ \A t \in Tracks :
          /\ worker.generations[t] <= worker.next /\ worker.ids[t] <= worker.next
          /\ worker.ids[t] # 0 =>
                t \in worker.pending /\ worker.generations[t] \in {0, worker.ids[t]}
          /\ ~(t \in worker.pending /\ t \in worker.done)
          /\ worker.task.track = t =>
                /\ t \notin worker.pending /\ t \notin worker.done
                /\ worker.task.id \in 1 .. worker.next
                /\ worker.generations[t] \in {0, worker.task.id}

\* A result is there once, its task is over, and if it is current its track is done.
ResultsCounted ==
    /\ \A t \in Tracks : \A n \in Nat : OnWay(toMain, t, n) =>
          /\ n \in 1 .. worker.next /\ worker.ids[t] # n /\ ~Parsing(t, n)
          /\ worker.generations[t] = n => t \in worker.done
    /\ Unique(toMain)

\* As long as a clearMetaHash() of t is to come, nothing of t has been taken, and no
\* current task of t is begun before it.
ClearedInTime ==
    \A t \in Tracks : Clears(toWorker, t) =>
        /\ t \notin mem.ready
        /\ worker.generations[t] # 0 =>
            /\ ~Parsing(t, worker.generations[t])
            /\ ~OnWay(toMain, t, worker.generations[t])
            /\ ClearsLate(toWorker, t) =>
                  ~(/\ Head(worker.queue).track = t
                    /\ Head(worker.queue).id = worker.generations[t])

\* One processNext() at most is to come, and one task at most is parsed.
Scheduling ==
    /\ OneProcess(toWorker)
    /\ Processes(toWorker) => worker.queue # <<>> /\ worker.task = NoTask

\* What is held was taken from the current task of its track.
HeldIsTaken ==
    \A t \in mem.ready : /\ t \in worker.done /\ worker.generations[t] # 0
                         /\ ~OnWay(toMain, t, worker.generations[t])

\* The worker has nothing to do before it exists.
Sessions ==
    /\ ~running => mem.ready = {} /\ ~mem.worker
    /\ ~mem.worker => worker = IdleWorker /\ toWorker = <<>>

AInv == /\ TasksCounted /\ ResultsCounted /\ ClearedInTime
        /\ Scheduling /\ HeldIsTaken /\ Sessions

\* TaskStatus of a worker w and the data manager's queue q, in these terms.
StatusOf(w, q, t) ==
    LET n == w.generations[t]
    IN  IF n = 0 THEN "idle"
        ELSE IF w.ids[t] = n \/ (w.task.track = t /\ w.task.id = n) THEN "accepted"
        ELSE IF OnWay(q, t, n) THEN "answered"
        ELSE IF t \in w.done THEN "taken" ELSE "idle"

LEMMA TaskIs ==
  ASSUME NEW w \in WorkerState, NEW t \in Tracks, NEW n
  PROVE  w.task = [track |-> t, id |-> n] <=> w.task.track = t /\ w.task.id = n
<1>1. w.task \in Task \cup {NoTask}
  BY DEF WorkerState
<1> QED BY <1>1 DEF Task, NoTask

LEMMA StatusIs ==
  ASSUME WorkerOK, NEW t \in Tracks
  PROVE  TaskStatus(t) = StatusOf(worker, toMain, t)
<1> DEFINE n == worker.generations[t]
<1>1. worker.task = [track |-> t, id |-> n] <=> worker.task.track = t /\ worker.task.id = n
  BY TaskIs DEF WorkerOK
<1>2. Answered(t) <=> OnWay(toMain, t, n)
  BY DEF Answered, OnWay
<1> QED BY <1>1, <1>2 DEF TaskStatus, StatusOf

LEMMA StatusBecomes ==
  ASSUME WorkerOK', NEW t \in Tracks
  PROVE  TaskStatus(t)' = StatusOf(worker', toMain', t)
<1> DEFINE n == worker'.generations[t]
<1>1. worker'.task = [track |-> t, id |-> n] <=> worker'.task.track = t /\ worker'.task.id = n
  BY TaskIs DEF WorkerOK
<1>2. Answered(t)' <=> OnWay(toMain', t, n)
  BY DEF Answered, OnWay
<1> QED BY <1>1, <1>2 DEF TaskStatus, StatusOf

\* Of the tracks' tasks only that of t moves.
Moves(t, from, to) ==
    /\ TaskStatus(t) = from /\ TaskStatus(t)' = to
    /\ \A u \in Tracks \ {t} : TaskStatus(u)' = TaskStatus(u)

\* No task moves.
NoneMoves == \A u \in Tracks : TaskStatus(u)' = TaskStatus(u)

\* The steps of AnalysisService, from what becomes of the tasks.
Service == [Analysis!Next]_(Analysis!vars)

LEMMA Stutters ==
  ASSUME NoneMoves, mem.ready' = mem.ready
  PROVE  Service
BY DEF Service, NoneMoves, Analysis!vars

LEMMA Stores ==
  ASSUME NoneMoves, mem.ready' = {}
  PROVE  Service
BY DEF Service, NoneMoves, Analysis!Next, Analysis!Store

LEMMA Accepts ==
  ASSUME NEW S \in SUBSET Tracks,
         \A t \in S : TaskStatus(t) = "idle" /\ t \notin mem.ready /\ TaskStatus(t)' = "accepted",
         \A t \in Tracks \ S : TaskStatus(t)' = TaskStatus(t),
         mem.ready' = mem.ready
  PROVE  Service
BY DEF Service, Analysis!Next, Analysis!Accept

LEMMA Answers ==
  ASSUME NEW t \in Tracks, Moves(t, "accepted", "answered"), mem.ready' = mem.ready
  PROVE  Service
BY DEF Service, Moves, Analysis!Next, Analysis!Answer

LEMMA Takes ==
  ASSUME NEW t \in Tracks, Moves(t, "answered", "taken"),
         mem.ready' = mem.ready \/ mem.ready' = mem.ready \cup {t}
  PROVE  Service
BY DEF Service, Moves, Analysis!Next, Analysis!Take, Analysis!Discard

LEMMA Cancels ==
  ASSUME NEW t \in Tracks, Moves(t, TaskStatus(t), "idle"), mem.ready' = mem.ready \ {t}
  PROVE  Service
BY DEF Service, Moves, Analysis!Next, Analysis!Cancel

LEMMA ShutsDown ==
  ASSUME \A t \in Tracks : TaskStatus(t)' = "idle", mem.ready' = {}
  PROVE  Service
BY DEF Service, Analysis!Next, Analysis!Shutdown

-----------------------------------------------------------------------------
(* Steps in which the worker and the results do not move. *)

\* What such a step may do: post to the inbox, and store what is held.
Quiet ==
    /\ worker' = worker
    /\ \A t, n : OnWay(toMain', t, n) <=> OnWay(toMain, t, n)
    /\ Unique(toMain')
    /\ OneProcess(toWorker') /\ NoClearComes(toWorker', toWorker)
    /\ Processes(toWorker') => Processes(toWorker)
    /\ mem'.ready = mem.ready \/ mem'.ready = {}

LEMMA QuietStep ==
  ASSUME TypeOK, AInv, TypeOK', Quiet, Sessions'
  PROVE  AInv' /\ Service
<1>1. WorkerOK /\ WorkerOK'
  BY DEF TypeOK
<1>2. TasksCounted'
  BY DEF AInv, TasksCounted, Quiet
<1>3. ResultsCounted'
  BY DEF AInv, ResultsCounted, Quiet, Parsing
<1>4. ClearedInTime'
  BY DEF AInv, ClearedInTime, Quiet, NoClearComes, Parsing
<1>5. Scheduling'
  BY DEF AInv, Scheduling, Quiet
<1>6. HeldIsTaken'
  BY DEF AInv, HeldIsTaken, Quiet
<1>7. NoneMoves
  <2> SUFFICES ASSUME NEW u \in Tracks PROVE TaskStatus(u)' = TaskStatus(u)
    BY DEF NoneMoves
  <2>1. worker' = worker /\ (\A n : OnWay(toMain', u, n) <=> OnWay(toMain, u, n))
    BY DEF Quiet
  <2>2. StatusOf(worker', toMain', u) = StatusOf(worker, toMain, u)
    BY <2>1 DEF StatusOf
  <2> QED BY <1>1, <2>2, StatusIs, StatusBecomes
<1>8. Service
  BY <1>7, Stutters, Stores DEF Quiet
<1> QED BY <1>2, <1>3, <1>4, <1>5, <1>6, <1>8 DEF AInv

\* A step that leaves the queues of results and of the worker alone.
LEMMA NothingComes ==
  ASSUME AInv, UNCHANGED <<worker, toMain, toWorker>>,
         mem'.ready = mem.ready \/ mem'.ready = {}
  PROVE  Quiet
BY DEF AInv, ResultsCounted, Scheduling, Quiet, NoClearComes

\* The data manager handles an event that is not a result.
LEMMA OtherHandled ==
  ASSUME TypeOK, AInv, NEW type, type # "ready", Delivers(toMain, type),
         toMain' = Tail(toMain), UNCHANGED <<worker, toWorker>>,
         mem'.ready = mem.ready \/ mem'.ready = {}
  PROVE  Quiet
<1>1. toMain \in Seq(MainEvents)
  BY DEF TypeOK, QueuesOK
<1>2. toMain # <<>> /\ Head(toMain).type # "ready" /\ Unique(toMain)
  BY DEF Delivers, AInv, ResultsCounted
<1>3. (\A t, n : OnWay(toMain', t, n) <=> OnWay(toMain, t, n)) /\ Unique(toMain')
  BY <1>1, <1>2, OtherDelivered
<1> QED BY <1>3 DEF AInv, Scheduling, Quiet, NoClearComes

\* The import thread posts what is not a result.
LEMMA ImportQuiet ==
  ASSUME TypeOK, AInv, ImportStep, UNCHANGED <<mem, worker>>
  PROVE  Quiet
<1>1. toMain \in Seq(MainEvents) /\ Unique(toMain)
  BY DEF TypeOK, QueuesOK, AInv, ResultsCounted
<1>2. UNCHANGED toWorker
  BY DEF ImportStep, BeginImport, ImportFile, EndFiles, EmitEnqueue, EmitBatchFinished,
         ClearImportingHash, queues
<1>3. toMain' = toMain \/ \E e : e.type # "ready" /\ toMain' = Append(toMain, e)
  <2>1. CASE BeginImport \/ EndFiles \/ ClearImportingHash
    BY <2>1 DEF BeginImport, EndFiles, ClearImportingHash, queues
  <2>2. ASSUME NEW f \in Tracks, ImportFile(f)
        PROVE  toMain' = toMain \/ \E e : e.type # "ready" /\ toMain' = Append(toMain, e)
    <3>1. ASSUME NEW lists, NEW whole, Emit(lists, f, whole)
          PROVE  \E e : e.type # "ready" /\ toMain' = Append(toMain, e)
      <4> DEFINE e == [type |-> "addOne", lists |-> lists, track |-> f, whole |-> whole]
      <4>1. e.type # "ready"
        OBVIOUS
      <4>2. toMain' = Append(toMain, e)
        BY <3>1 DEF Emit
      <4> HIDE DEF e
      <4> QED BY <4>1, <4>2
    <3>2. \/ toMain' = toMain
          \/ Emit(Destinations(f), f, TRUE)
          \/ Emit({importer.job.target}, f, FALSE)
      BY <2>2, Zenon DEF ImportFile
    <3> QED BY <3>1, <3>2
  <2>3. CASE EmitEnqueue
    <3> DEFINE e == [type |-> "enqueue", tracks |-> importer.fresh]
    <3>1. e.type # "ready" /\ toMain' = Append(toMain, e)
      BY <2>3 DEF EmitEnqueue
    <3> HIDE DEF e
    <3> QED BY <3>1
  <2>4. CASE EmitBatchFinished
    <3> DEFINE e == [type |-> "batch"]
    <3>1. e.type # "ready" /\ toMain' = Append(toMain, e)
      BY <2>4 DEF EmitBatchFinished
    <3> HIDE DEF e
    <3> QED BY <3>1
  <2> QED BY <2>1, <2>2, <2>3, <2>4 DEF ImportStep
<1>4. (\A t, n : OnWay(toMain', t, n) <=> OnWay(toMain, t, n)) /\ Unique(toMain')
  <2>1. CASE toMain' = toMain
    BY <1>1, <2>1
  <2>2. ASSUME NEW e, e.type # "ready", toMain' = Append(toMain, e)
        PROVE  (\A t, n : OnWay(toMain', t, n) <=> OnWay(toMain, t, n)) /\ Unique(toMain')
    BY <1>1, <2>2, OtherAppended
  <2> QED BY <1>3, <2>1, <2>2
<1> QED BY <1>2, <1>4 DEF AInv, Scheduling, Quiet, NoClearComes

-----------------------------------------------------------------------------
(* Steps of the analysis thread. *)

\* The worker takes steps only in a session in which it exists.
LEMMA WorkerThere ==
  ASSUME AInv, toWorker # <<>> \/ worker.task # NoTask, UNCHANGED <<mem, running>>
  PROVE  Sessions' /\ mem'.ready = mem.ready
BY DEF AInv, Sessions, IdleWorker

\* enqueueMetas() gives new numbers to the tracks of S, which neither wait nor are
\* done with.
Enqueues(S) ==
    /\ worker.task = NoTask /\ worker'.task = NoTask
    /\ \A t \in S : /\ t \notin worker.done /\ t \notin worker.pending
                    /\ worker'.generations[t] = worker'.ids[t]
                    /\ worker'.ids[t] \in (worker.next + 1) .. worker'.next
    /\ \A t \in Tracks \ S : /\ worker'.generations[t] = worker.generations[t]
                             /\ worker'.ids[t] = worker.ids[t]
    /\ worker'.pending = worker.pending \cup S
    /\ worker'.done = worker.done
    /\ worker'.next \in Nat /\ worker'.next >= worker.next
    /\ \A i \in DOMAIN worker'.queue :
          \/ i \in DOMAIN worker.queue /\ worker'.queue[i] = worker.queue[i]
          \/ worker'.queue[i].id \in (worker.next + 1) .. worker'.next
    /\ worker.queue # <<>> =>
          worker'.queue # <<>> /\ Head(worker'.queue) = Head(worker.queue)
    /\ toWorker # <<>> /\ toWorker' = Scheduled(Tail(toWorker), worker'.queue)
    /\ toMain' = toMain

LEMMA EnqueueDoes ==
  ASSUME TypeOK, EnqueueMetas
  PROVE  \E S \in SUBSET Tracks : Enqueues(S)
<1> DEFINE fresh == Head(toWorker).tracks \ (worker.done \cup worker.pending)
           new(i) == worker.next + i
           of(s, f) == [t \in Tracks |-> IF \E i \in DOMAIN s : s[i] = t
                                        THEN new(CHOOSE i \in DOMAIN s : s[i] = t)
                                        ELSE f[t]]
           added(s) == [i \in 1 .. Len(s) |-> [track |-> s[i], id |-> new(i)]]
           queue(s) == worker.queue \o added(s)
<1>1. worker \in WorkerState /\ toWorker \in Seq(WorkerEvents)
  BY DEF TypeOK, WorkerOK, QueuesOK
<1>2. fresh \in SUBSET Tracks
  BY <1>1, Taken, WorkerEventTypes DEF EnqueueMetas, EnqueueEvent
<1>3. PICK s \in Orders(fresh) :
         /\ worker' = [worker EXCEPT
                !.queue = queue(s), !.ids = of(s, @), !.generations = of(s, @),
                !.pending = @ \cup {s[i] : i \in DOMAIN s}, !.next = @ + Len(s)]
         /\ toWorker' = Scheduled(Tail(toWorker), queue(s))
  BY Zenon DEF EnqueueMetas
<1> DEFINE S == {s[i] : i \in DOMAIN s}
<1>4. s \in Seq(fresh) /\ Len(s) \in Nat /\ DOMAIN s = 1 .. Len(s)
  BY <1>2, <1>3, OrdersType
<1>5. S \in SUBSET fresh
  BY <1>4
<1>6. /\ worker'.queue = queue(s) /\ worker'.ids = of(s, worker.ids)
      /\ worker'.generations = of(s, worker.generations)
      /\ worker'.pending = worker.pending \cup S
      /\ worker'.next = worker.next + Len(s)
      /\ worker'.done = worker.done /\ worker'.task = worker.task
  <2> HIDE DEF queue, of, S
  <2>1. worker' = [worker EXCEPT
                !.queue = queue(s), !.ids = of(s, worker.ids),
                !.generations = of(s, worker.generations),
                !.pending = worker.pending \cup S, !.next = worker.next + Len(s)]
    BY <1>3, Zenon DEF S
  <2> QED BY <1>1, <2>1 DEF WorkerState
<1>7. /\ worker.next \in Nat /\ worker.queue \in Seq(Task)
      /\ worker.ids \in [Tracks -> Nat] /\ worker.generations \in [Tracks -> Nat]
  BY <1>1 DEF WorkerState
<1>8. ASSUME NEW t \in S
      PROVE  /\ worker'.generations[t] = worker'.ids[t]
             /\ worker'.ids[t] \in (worker.next + 1) .. worker'.next
  <2> DEFINE at == CHOOSE i \in DOMAIN s : s[i] = t
  <2>1. at \in 1 .. Len(s)
    BY <1>4, <1>8
  <2>2. worker'.ids[t] = new(at) /\ worker'.generations[t] = new(at)
    <3>1. t \in Tracks /\ \E i \in DOMAIN s : s[i] = t
      BY <1>2, <1>5, <1>8
    <3> HIDE DEF new
    <3>2. of(s, worker.ids)[t] = new(at) /\ of(s, worker.generations)[t] = new(at)
      BY <3>1
    <3> HIDE DEF of, at
    <3> QED BY <1>6, <3>2
  <2> HIDE DEF at
  <2> QED BY <1>4, <1>6, <1>7, <2>1, <2>2
<1>9. ASSUME NEW t \in Tracks \ S
      PROVE  /\ worker'.generations[t] = worker.generations[t]
             /\ worker'.ids[t] = worker.ids[t]
  <2> HIDE DEF new
  <2> QED BY <1>6, <1>9
<1>10. ASSUME NEW i \in DOMAIN worker'.queue
       PROVE  \/ i \in DOMAIN worker.queue /\ worker'.queue[i] = worker.queue[i]
              \/ worker'.queue[i].id \in (worker.next + 1) .. worker'.next
  <2>1. /\ added(s) \in Seq(Task) /\ Len(added(s)) = Len(s)
        /\ \A k \in 1 .. Len(s) : added(s)[k].id = new(k)
    <3>1. \A k \in 1 .. Len(s) : [track |-> s[k], id |-> new(k)] \in Task
      BY <1>2, <1>4, <1>7 DEF Task
    <3> HIDE DEF new
    <3> QED BY <1>4, <3>1
  <2> HIDE DEF added
  <2>2. CASE i \in DOMAIN worker.queue
    BY <1>6, <1>7, <2>1, <2>2
  <2>3. CASE i \notin DOMAIN worker.queue
    <3>1. /\ i - Len(worker.queue) \in 1 .. Len(s)
          /\ worker'.queue[i] = added(s)[i - Len(worker.queue)]
      BY <1>4, <1>6, <1>7, <1>10, <2>1, <2>3
    <3>2. worker'.queue[i].id = worker.next + (i - Len(worker.queue))
      BY <2>1, <3>1
    <3> QED BY <1>4, <1>6, <1>7, <3>1, <3>2
  <2> QED BY <2>2, <2>3
<1>11. worker.queue # <<>> =>
          worker'.queue # <<>> /\ Head(worker'.queue) = Head(worker.queue)
  <2>1. added(s) \in Seq(Task)
    <3>1. \A k \in 1 .. Len(s) : [track |-> s[k], id |-> new(k)] \in Task
      BY <1>2, <1>4, <1>7 DEF Task
    <3> HIDE DEF new
    <3> QED BY <1>4, <3>1
  <2> HIDE DEF added
  <2> QED BY <1>6, <1>7, <2>1
<1>12. /\ worker.task = NoTask /\ toWorker # <<>> /\ toMain' = toMain
       /\ toWorker' = Scheduled(Tail(toWorker), worker'.queue)
  BY <1>3, <1>6 DEF EnqueueMetas, Delivers
<1>13. worker'.next \in Nat /\ worker'.next >= worker.next
  BY <1>4, <1>6, <1>7
<1>14. \A t \in S : t \notin worker.done /\ t \notin worker.pending
  BY <1>5
<1>15. S \in SUBSET Tracks
  BY <1>2, <1>5
<1>16. worker'.pending = worker.pending \cup S /\ worker'.done = worker.done
       /\ worker'.task = NoTask
  BY <1>6, <1>12
<1> HIDE DEF S
<1>17. Enqueues(S)
  BY <1>8, <1>9, <1>10, <1>11, <1>12, <1>13, <1>14, <1>16, Zenon DEF Enqueues
<1> QED BY <1>15, <1>17

\* enqueueMetas() accepts its tracks.
LEMMA EnqueueStep ==
  ASSUME TypeOK, AInv, TypeOK', EnqueueMetas, UNCHANGED <<mem, running>>
  PROVE  AInv' /\ Service
<1>1. PICK S \in SUBSET Tracks : Enqueues(S)
  BY EnqueueDoes
<1>2. /\ worker \in WorkerState /\ worker' \in WorkerState
      /\ toWorker \in Seq(WorkerEvents) /\ WorkerOK /\ WorkerOK'
  BY DEF TypeOK, WorkerOK, QueuesOK
<1>3. /\ worker.next \in Nat /\ worker'.next \in Nat /\ worker.next <= worker'.next
      /\ \A t \in Tracks : /\ worker.ids[t] \in Nat /\ worker.generations[t] \in Nat
                           /\ worker'.ids[t] \in Nat /\ worker'.generations[t] \in Nat
  BY <1>1, <1>2 DEF WorkerState, Enqueues
<1>4. /\ worker.task.track = NoTrack /\ worker'.task.track = NoTrack
      /\ \A t \in Tracks : t # NoTrack
  BY <1>1, TracksAssumption DEF Enqueues, NoTask
<1>5. Sessions' /\ mem'.ready = mem.ready
  BY <1>1, WorkerThere DEF Enqueues
<1>6. TasksCounted'
  <2>1. ASSUME NEW i \in DOMAIN worker'.queue PROVE worker'.queue[i].id \in 1 .. worker'.next
    BY <1>1, <1>3, <2>1 DEF AInv, TasksCounted, Enqueues
  <2>2. ASSUME NEW t \in S
        PROVE  /\ worker'.generations[t] = worker'.ids[t] /\ worker'.ids[t] <= worker'.next
               /\ t \in worker'.pending /\ t \notin worker'.done
    BY <1>1, <1>3 DEF Enqueues
  <2>3. ASSUME NEW t \in Tracks \ S
        PROVE  /\ worker'.generations[t] <= worker'.next /\ worker'.ids[t] <= worker'.next
               /\ worker'.ids[t] # 0 =>
                     t \in worker'.pending /\ worker'.generations[t] \in {0, worker'.ids[t]}
               /\ ~(t \in worker'.pending /\ t \in worker'.done)
    BY <1>1, <1>3 DEF AInv, TasksCounted, Enqueues
  <2> QED BY <1>4, <2>1, <2>2, <2>3 DEF TasksCounted
<1>7. ResultsCounted'
  <2>1. Unique(toMain')
    BY <1>1 DEF AInv, ResultsCounted, Enqueues
  <2>2. ASSUME NEW t \in Tracks, NEW n \in Nat, OnWay(toMain', t, n)
        PROVE  /\ n \in 1 .. worker'.next /\ worker'.ids[t] # n /\ ~Parsing(t, n)'
               /\ worker'.generations[t] = n => t \in worker'.done
    <3>1. /\ n \in 1 .. worker.next /\ worker.ids[t] # n
          /\ worker.generations[t] = n => t \in worker.done
      BY <1>1, <2>2 DEF AInv, ResultsCounted, Enqueues
    <3>2. ~Parsing(t, n)'
      BY <1>4 DEF Parsing
    <3>3. CASE t \in S
      BY <1>1, <1>3, <3>1, <3>2, <3>3 DEF Enqueues
    <3>4. CASE t \notin S
      BY <1>1, <1>3, <3>1, <3>2, <3>4 DEF Enqueues
    <3> QED BY <3>3, <3>4
  <2> QED BY <2>1, <2>2 DEF ResultsCounted
<1>8. /\ OneProcess(toWorker') /\ NoClearComes(toWorker', toWorker)
      /\ Processes(toWorker') => Processes(toWorker) \/ worker'.queue # <<>>
  <2>1. /\ Tail(toWorker) \in Seq(WorkerEvents) /\ OneProcess(Tail(toWorker))
        /\ NoClearComes(Tail(toWorker), toWorker)
        /\ Processes(Tail(toWorker)) => Processes(toWorker)
    BY <1>1, <1>2, EventDelivered DEF AInv, Scheduling, Enqueues
  <2>2. toWorker' = Scheduled(Tail(toWorker), worker'.queue)
    BY <1>1 DEF Enqueues
  <2>3. /\ OneProcess(toWorker') /\ NoClearComes(toWorker', Tail(toWorker))
        /\ Processes(toWorker') => Processes(Tail(toWorker)) \/ worker'.queue # <<>>
    BY <2>1, <2>2, ScheduledOnce
  <2> QED BY <2>1, <2>3 DEF NoClearComes
<1>9. Scheduling'
  BY <1>1, <1>8 DEF AInv, Scheduling, Enqueues
<1>10. ASSUME NEW t \in Tracks, ClearsLate(toWorker, t) PROVE worker.queue # <<>>
  BY <1>10 DEF AInv, Scheduling, ClearsLate, Processes
<1>11. ClearedInTime'
  <2> SUFFICES ASSUME NEW t \in Tracks, Clears(toWorker', t)
               PROVE  /\ t \notin mem'.ready
                      /\ worker'.generations[t] # 0 =>
                          /\ ~Parsing(t, worker.generations[t])'
                          /\ ~OnWay(toMain', t, worker'.generations[t])
                          /\ ClearsLate(toWorker', t) =>
                                ~(/\ Head(worker'.queue).track = t
                                  /\ Head(worker'.queue).id = worker'.generations[t])
    BY DEF ClearedInTime
  <2>1. Clears(toWorker, t) /\ (ClearsLate(toWorker', t) => ClearsLate(toWorker, t))
    BY <1>8 DEF NoClearComes
  <2>2. t \notin mem'.ready /\ ~Parsing(t, worker.generations[t])'
    BY <1>4, <1>5, <2>1 DEF AInv, ClearedInTime, Parsing
  <2>3. CASE t \in S
    <3>1. worker'.generations[t] > worker.next
      BY <1>1, <1>3, <2>3 DEF Enqueues
    <3>2. ~OnWay(toMain', t, worker'.generations[t])
      BY <1>1, <1>3, <3>1 DEF AInv, ResultsCounted, Enqueues
    <3>3. ASSUME ClearsLate(toWorker', t)
          PROVE  Head(worker'.queue).id # worker'.generations[t]
      <4>1. worker.queue # <<>> /\ Head(worker'.queue) = Head(worker.queue)
        BY <1>1, <1>10, <2>1, <3>3 DEF Enqueues
      <4>2. worker.queue \in Seq(Task)
        BY <1>2 DEF WorkerState
      <4>3. Head(worker.queue).id \in 1 .. worker.next
        BY <4>1, <4>2 DEF AInv, TasksCounted
      <4> QED BY <1>3, <3>1, <4>1, <4>3
    <3> QED BY <2>2, <3>2, <3>3
  <2>4. CASE t \notin S
    <3>1. worker'.generations[t] = worker.generations[t] /\ toMain' = toMain
      BY <1>1, <2>4 DEF Enqueues
    <3>2. ClearsLate(toWorker', t) => Head(worker'.queue) = Head(worker.queue)
      BY <1>1, <1>10, <2>1 DEF Enqueues
    <3> QED BY <2>1, <2>2, <3>1, <3>2 DEF AInv, ClearedInTime
  <2> QED BY <2>3, <2>4
<1>12. HeldIsTaken'
  <2> SUFFICES ASSUME NEW t \in mem.ready
               PROVE  /\ t \in worker'.done /\ worker'.generations[t] # 0
                      /\ ~OnWay(toMain', t, worker'.generations[t])
    BY <1>5 DEF HeldIsTaken
  <2>1. t \in Tracks
    BY DEF TypeOK, MemoryState
  <2>2. t \in worker.done /\ t \notin S
    BY <1>1 DEF AInv, HeldIsTaken, Enqueues
  <2> QED BY <1>1, <2>1, <2>2 DEF AInv, HeldIsTaken, Enqueues
<1>13. Service
  <2>1. ASSUME NEW t \in S
        PROVE  /\ TaskStatus(t) = "idle" /\ t \notin mem.ready
               /\ TaskStatus(t)' = "accepted"
    <3>1. t \notin worker.done /\ worker.ids[t] = 0
      BY <1>1 DEF AInv, TasksCounted, Enqueues
    <3>2. worker.generations[t] # 0 => ~OnWay(toMain, t, worker.generations[t])
      BY <1>3, <3>1 DEF AInv, ResultsCounted
    <3>3. StatusOf(worker, toMain, t) = "idle"
      BY <1>4, <3>1, <3>2 DEF StatusOf
    <3>4. worker'.generations[t] # 0 /\ worker'.ids[t] = worker'.generations[t]
      BY <1>1, <1>3 DEF Enqueues
    <3>5. StatusOf(worker', toMain', t) = "accepted"
      BY <3>4 DEF StatusOf
    <3> QED BY <1>2, <3>1, <3>3, <3>5, StatusIs, StatusBecomes DEF AInv, HeldIsTaken
  <2>2. ASSUME NEW t \in Tracks \ S PROVE TaskStatus(t)' = TaskStatus(t)
    <3>1. StatusOf(worker', toMain', t) = StatusOf(worker, toMain, t)
      BY <1>1, <1>4 DEF StatusOf, Enqueues
    <3> QED BY <1>2, <3>1, StatusIs, StatusBecomes
  <2> QED BY <1>5, <2>1, <2>2, Accepts
<1> QED BY <1>5, <1>6, <1>7, <1>9, <1>11, <1>12, <1>13 DEF AInv

\* clearMetaHash() cancels what is left of the task of its track.
LEMMA ClearStep ==
  ASSUME TypeOK, AInv, TypeOK', ClearMetaHash, UNCHANGED <<mem, running>>
  PROVE  AInv' /\ Service
<1>1. /\ worker \in WorkerState /\ worker' \in WorkerState /\ WorkerOK /\ WorkerOK'
      /\ toWorker \in Seq(WorkerEvents) /\ toWorker # <<>> /\ Head(toWorker).type = "clear"
      /\ worker.task = NoTask /\ toWorker' = Tail(toWorker) /\ toMain' = toMain
  BY DEF TypeOK, WorkerOK, QueuesOK, ClearMetaHash, Delivers
<1>2. PICK t \in Tracks : t = Head(toWorker).track
  BY <1>1, Taken, WorkerEventTypes DEF ClearMetaHash, ClearEvent
<1>3. /\ Clears(toWorker, t) /\ OneProcess(toWorker') /\ NoClearComes(toWorker', toWorker)
      /\ Processes(toWorker') => Processes(toWorker)
  BY <1>1, <1>2, EventDelivered DEF AInv, Scheduling
<1>4. worker' = [worker EXCEPT !.done = @ \ {t}, !.pending = @ \ {t}, !.ids[t] = 0]
  BY <1>2 DEF ClearMetaHash
<1>5. /\ worker'.queue = worker.queue /\ worker'.next = worker.next /\ worker'.task = NoTask
      /\ worker'.generations = worker.generations
      /\ worker'.done = worker.done \ {t} /\ worker'.pending = worker.pending \ {t}
      /\ worker'.ids = [worker.ids EXCEPT ![t] = 0]
  BY <1>1, <1>4 DEF WorkerState
<1>6. /\ worker'.ids[t] = 0 /\ \A u \in Tracks \ {t} : worker'.ids[u] = worker.ids[u]
      /\ worker.next \in Nat
  BY <1>1, <1>2, <1>5 DEF WorkerState
<1>7. Sessions' /\ mem'.ready = mem.ready
  BY <1>1, WorkerThere
<1>8. /\ worker.task.track = NoTrack /\ worker'.task.track = NoTrack
      /\ \A u \in Tracks : u # NoTrack
  BY <1>1, <1>5, TracksAssumption DEF NoTask
<1>9. /\ t \notin mem.ready
      /\ worker.generations[t] # 0 => ~OnWay(toMain, t, worker.generations[t])
  BY <1>2, <1>3 DEF AInv, ClearedInTime
<1>10. TasksCounted'
  BY <1>5, <1>6, <1>8 DEF AInv, TasksCounted
<1>11. ResultsCounted'
  <2>1. Unique(toMain')
    BY <1>1 DEF AInv, ResultsCounted
  <2> SUFFICES ASSUME NEW u \in Tracks, NEW n \in Nat, OnWay(toMain', u, n)
               PROVE  /\ n \in 1 .. worker'.next /\ worker'.ids[u] # n /\ ~Parsing(u, n)'
                      /\ worker'.generations[u] = n => u \in worker'.done
    BY <2>1 DEF ResultsCounted
  <2>2. /\ n \in 1 .. worker.next /\ worker.ids[u] # n
        /\ worker.generations[u] = n => u \in worker.done
    BY <1>1 DEF AInv, ResultsCounted
  <2>3. ~Parsing(u, n)'
    BY <1>8 DEF Parsing
  <2>4. n # 0 /\ (u = t => worker.generations[t] # n)
    BY <1>1, <1>6, <1>9, <2>2
  <2> QED BY <1>5, <1>6, <2>2, <2>3, <2>4
<1>12. ClearedInTime'
  BY <1>1, <1>3, <1>5, <1>7, <1>8 DEF AInv, ClearedInTime, NoClearComes, Parsing
<1>13. Scheduling'
  BY <1>1, <1>3, <1>5 DEF AInv, Scheduling
<1>14. HeldIsTaken'
  BY <1>1, <1>5, <1>7, <1>9 DEF AInv, HeldIsTaken
<1>15. Service
  <2>1. TaskStatus(t)' = "idle"
    <3>1. StatusOf(worker', toMain', t) = "idle"
      BY <1>1, <1>2, <1>5, <1>6, <1>8, <1>9 DEF StatusOf
    <3> QED BY <1>1, <1>2, <3>1, StatusBecomes
  <2>2. ASSUME NEW u \in Tracks \ {t} PROVE TaskStatus(u)' = TaskStatus(u)
    <3>1. StatusOf(worker', toMain', u) = StatusOf(worker, toMain, u)
      BY <1>1, <1>5, <1>6, <1>8 DEF StatusOf
    <3> QED BY <1>1, <3>1, StatusIs, StatusBecomes
  <2>3. Moves(t, TaskStatus(t), "idle") /\ mem'.ready = mem.ready \ {t}
    BY <1>7, <1>9, <2>1, <2>2 DEF Moves
  <2> QED BY <1>2, <2>3, Cancels
<1> QED BY <1>7, <1>10, <1>11, <1>12, <1>13, <1>14, <1>15 DEF AInv

\* processNext() begins a task, or drops one that was cleared: what was accepted is
\* accepted still.
LEMMA ProcessStep ==
  ASSUME TypeOK, AInv, TypeOK', ProcessNext, UNCHANGED <<mem, running>>
  PROVE  AInv' /\ Service
<1> DEFINE task == Head(worker.queue)
           t == task.track
           rest == [worker EXCEPT !.queue = Tail(@)]
<1>1. /\ worker \in WorkerState /\ worker' \in WorkerState /\ WorkerOK /\ WorkerOK'
      /\ toWorker \in Seq(WorkerEvents) /\ toWorker # <<>> /\ Head(toWorker).type = "process"
      /\ worker.task = NoTask /\ worker.queue # <<>> /\ toMain' = toMain
      /\ worker.queue \in Seq(Task)
  BY DEF TypeOK, WorkerOK, QueuesOK, ProcessNext, Delivers, WorkerState
<1>2. /\ Tail(worker.queue) \in Seq(Task) /\ task \in Task
      /\ task.id \in 1 .. worker.next
      /\ \A i \in DOMAIN Tail(worker.queue) : Tail(worker.queue)[i].id \in 1 .. worker.next
  <2>1. \A i \in DOMAIN worker.queue : worker.queue[i].id \in 1 .. worker.next
    BY DEF AInv, TasksCounted
  <2> QED BY <1>1, <2>1
<1>3. t \in Tracks /\ task.id # 0 /\ worker.next \in Nat
  <2> HIDE DEF task
  <2> QED BY <1>1, <1>2 DEF Task, WorkerState
<1>4. /\ ~Processes(Tail(toWorker)) /\ OneProcess(Tail(toWorker))
      /\ NoClearComes(Tail(toWorker), toWorker) /\ Tail(toWorker) \in Seq(WorkerEvents)
      /\ \A u : /\ ~ClearsLate(Tail(toWorker), u)
                /\ Clears(Tail(toWorker), u) => ClearsLate(toWorker, u)
  BY <1>1, EventDelivered DEF AInv, Scheduling
<1>5. Sessions' /\ mem'.ready = mem.ready
  BY <1>1, WorkerThere
<1>6. worker.task.track = NoTrack /\ \A u \in Tracks : u # NoTrack
  BY <1>1, TracksAssumption DEF NoTask
<1>7. HeldIsTaken' <=> \A u \in mem.ready :
         /\ u \in worker'.done /\ worker'.generations[u] # 0
         /\ ~OnWay(toMain, u, worker'.generations[u])
  BY <1>1, <1>5 DEF HeldIsTaken
<1>8. CASE worker.ids[t] # task.id
  <2>1. worker' = rest /\ toWorker' = Scheduled(Tail(toWorker), Tail(worker.queue))
    <3>1. worker' = rest /\ toWorker' = Scheduled(Tail(toWorker), rest.queue)
      BY <1>8, Zenon DEF ProcessNext
    <3>2. rest.queue = Tail(worker.queue)
      BY <1>1 DEF WorkerState
    <3> QED BY <3>1, <3>2
  <2>2. /\ worker'.queue = Tail(worker.queue) /\ worker'.next = worker.next
        /\ worker'.ids = worker.ids /\ worker'.generations = worker.generations
        /\ worker'.pending = worker.pending /\ worker'.done = worker.done
        /\ worker'.task = NoTask
    BY <1>1, <2>1 DEF WorkerState
  <2> HIDE DEF task, t, rest
  <2>3. /\ OneProcess(toWorker') /\ NoClearComes(toWorker', Tail(toWorker))
        /\ Processes(toWorker') => worker'.queue # <<>>
    BY <1>4, <2>1, <2>2, ScheduledOnce
  <2>4. TasksCounted'
    BY <1>1, <1>2, <2>2 DEF AInv, TasksCounted
  <2>5. ResultsCounted'
    BY <1>1, <2>2 DEF AInv, ResultsCounted, Parsing
  <2>6. ClearedInTime'
    BY <1>1, <1>4, <1>5, <2>2, <2>3 DEF AInv, ClearedInTime, NoClearComes, Parsing
  <2>7. Scheduling'
    BY <2>2, <2>3 DEF Scheduling
  <2>8. HeldIsTaken'
    BY <1>7, <2>2 DEF AInv, HeldIsTaken
  <2>9. NoneMoves
    <3> SUFFICES ASSUME NEW u \in Tracks PROVE TaskStatus(u)' = TaskStatus(u)
      BY DEF NoneMoves
    <3>1. StatusOf(worker', toMain', u) = StatusOf(worker, toMain, u)
      BY <1>1, <2>2 DEF StatusOf
    <3> QED BY <1>1, <3>1, StatusIs, StatusBecomes
  <2> QED BY <1>5, <2>4, <2>5, <2>6, <2>7, <2>8, <2>9, Stutters DEF AInv
<1>9. CASE worker.ids[t] = task.id
  <2>1. /\ worker' = [rest EXCEPT !.ids[t] = 0, !.task = task, !.pending = @ \ {t}]
        /\ toWorker' = Tail(toWorker)
    BY <1>9, Zenon DEF ProcessNext
  <2>2. /\ worker'.queue = Tail(worker.queue) /\ worker'.next = worker.next
        /\ worker'.ids = [worker.ids EXCEPT ![t] = 0]
        /\ worker'.generations = worker.generations
        /\ worker'.pending = worker.pending \ {t} /\ worker'.done = worker.done
        /\ worker'.task = task
    <3> HIDE DEF task, t
    <3> QED BY <1>1, <2>1 DEF WorkerState
  <2>3. worker'.task.track = t /\ worker'.task.id = task.id
    BY <2>2
  <2> HIDE DEF task, t, rest
  <2>4. /\ worker'.ids[t] = 0 /\ \A u \in Tracks \ {t} : worker'.ids[u] = worker.ids[u]
        /\ t \in worker.pending /\ t \notin worker.done
        /\ worker.generations[t] \in {0, task.id}
    BY <1>1, <1>3, <1>9, <2>2 DEF WorkerState, AInv, TasksCounted
  <2>5. TasksCounted'
    <3>1. \A i \in DOMAIN worker'.queue : worker'.queue[i].id \in 1 .. worker'.next
      BY <1>2, <2>2
    <3> QED BY <1>2, <1>3, <2>2, <2>3, <2>4, <3>1 DEF AInv, TasksCounted
  <2>6. ResultsCounted'
    <3>1. Unique(toMain')
      BY <1>1 DEF AInv, ResultsCounted
    <3> SUFFICES ASSUME NEW u \in Tracks, NEW n \in Nat, OnWay(toMain', u, n)
                 PROVE  /\ n \in 1 .. worker'.next /\ worker'.ids[u] # n /\ ~Parsing(u, n)'
                        /\ worker'.generations[u] = n => u \in worker'.done
      BY <3>1 DEF ResultsCounted
    <3>2. /\ n \in 1 .. worker.next /\ worker.ids[u] # n
          /\ worker.generations[u] = n => u \in worker.done
      BY <1>1 DEF AInv, ResultsCounted
    <3>3. ~Parsing(u, n)'
      BY <1>9, <2>3, <3>2 DEF Parsing
    <3>4. worker'.ids[u] # n
      BY <1>3, <2>4, <3>2
    <3> QED BY <2>2, <3>2, <3>3, <3>4
  <2>7. ClearedInTime'
    <3> SUFFICES ASSUME NEW u \in Tracks, Clears(toWorker', u)
                 PROVE  /\ u \notin mem'.ready /\ ~ClearsLate(toWorker', u)
                        /\ worker'.generations[u] # 0 =>
                              /\ ~(worker'.task.track = u /\ worker'.task.id = worker'.generations[u])
                              /\ ~OnWay(toMain', u, worker'.generations[u])
      BY DEF ClearedInTime, Parsing
    <3>1. Clears(toWorker, u) /\ ClearsLate(toWorker, u) /\ ~ClearsLate(toWorker', u)
      BY <1>4, <2>1 DEF NoClearComes
    <3> QED BY <1>1, <1>5, <2>2, <3>1 DEF AInv, ClearedInTime, task
  <2>8. Scheduling'
    BY <1>4, <2>1 DEF Scheduling
  <2>9. HeldIsTaken'
    BY <1>7, <2>2 DEF AInv, HeldIsTaken
  <2>10. NoneMoves
    <3> SUFFICES ASSUME NEW u \in Tracks PROVE TaskStatus(u)' = TaskStatus(u)
      BY DEF NoneMoves
    <3>1. StatusOf(worker', toMain', u) = StatusOf(worker, toMain, u)
      <4>1. CASE u = t
        BY <1>1, <1>3, <1>6, <1>9, <2>2, <2>3, <2>4, <4>1 DEF StatusOf
      <4>2. CASE u # t
        BY <1>1, <1>6, <2>2, <2>3, <2>4, <4>2 DEF StatusOf
      <4> QED BY <4>1, <4>2
    <3> QED BY <1>1, <3>1, StatusIs, StatusBecomes
  <2> QED BY <1>5, <2>5, <2>6, <2>7, <2>8, <2>9, <2>10, Stutters DEF AInv
<1> QED BY <1>8, <1>9

\* The end of the parsing answers the task, unless it is not current any more.
LEMMA FinishStep ==
  ASSUME TypeOK, AInv, TypeOK', FinishTask, UNCHANGED <<mem, running>>
  PROVE  AInv' /\ Service
<1>1. /\ worker \in WorkerState /\ worker' \in WorkerState /\ WorkerOK /\ WorkerOK'
      /\ toWorker \in Seq(WorkerEvents) /\ toMain \in Seq(MainEvents)
      /\ worker.task # NoTask /\ worker.task \in Task
      /\ toWorker' = Scheduled(toWorker, worker.queue)
  BY DEF TypeOK, WorkerOK, QueuesOK, FinishTask, WorkerState
<1>2. PICK t \in Tracks, id \in Nat : worker.task.track = t /\ worker.task.id = id
  BY <1>1 DEF Task
<1>3. /\ t \notin worker.pending /\ t \notin worker.done /\ worker.ids[t] = 0
      /\ id \in 1 .. worker.next /\ worker.generations[t] \in {0, id}
  BY <1>2 DEF AInv, TasksCounted
<1>4. /\ worker' = IF worker.generations[t] # id THEN [worker EXCEPT !.task = NoTask]
                   ELSE [worker EXCEPT !.task = NoTask, !.done = @ \cup {t}]
      /\ toMain' = IF worker.generations[t] # id THEN toMain
                   ELSE Append(toMain, [type |-> "ready", track |-> t, generation |-> id])
  BY <1>2 DEF FinishTask
<1>5. /\ worker'.queue = worker.queue /\ worker'.next = worker.next
      /\ worker'.ids = worker.ids /\ worker'.generations = worker.generations
      /\ worker'.pending = worker.pending /\ worker'.task = NoTask
      /\ worker'.done = IF worker.generations[t] # id THEN worker.done
                        ELSE worker.done \cup {t}
  BY <1>1, <1>4 DEF WorkerState
<1>6. worker'.task.track = NoTrack /\ \A u \in Tracks : u # NoTrack
  BY <1>5, TracksAssumption DEF NoTask
<1>7. Sessions' /\ mem'.ready = mem.ready
  BY <1>1, WorkerThere
<1>8. ~Processes(toWorker)
  BY <1>1 DEF AInv, Scheduling
<1>9. /\ OneProcess(toWorker') /\ NoClearComes(toWorker', toWorker)
      /\ Processes(toWorker') => worker'.queue # <<>>
  BY <1>1, <1>5, <1>8, ScheduledOnce DEF AInv, Scheduling
<1>10. ~OnWay(toMain, t, id)
  BY <1>2 DEF AInv, ResultsCounted, Parsing
<1>11. /\ \A u \in Tracks, n \in Nat : OnWay(toMain', u, n)
             <=> OnWay(toMain, u, n) \/ (u = t /\ n = id /\ worker.generations[t] = id)
       /\ Unique(toMain')
  <2>1. CASE worker.generations[t] # id
    BY <1>4, <2>1 DEF AInv, ResultsCounted
  <2>2. CASE worker.generations[t] = id
    <3> DEFINE e == [type |-> "ready", track |-> t, generation |-> id]
    <3>1. e.type = "ready" /\ e.track = t /\ e.generation = id
      OBVIOUS
    <3>2. toMain' = Append(toMain, e)
      BY <1>4, <2>2
    <3>3. Unique(toMain)
      BY DEF AInv, ResultsCounted
    <3> HIDE DEF e
    <3>4. /\ \A u, n : OnWay(Append(toMain, e), u, n)
                       <=> OnWay(toMain, u, n) \/ (u = e.track /\ n = e.generation)
          /\ Unique(Append(toMain, e))
      BY <1>1, <1>10, <3>1, <3>3, ResultAppended
    <3> QED BY <2>2, <3>1, <3>2, <3>4
  <2> QED BY <2>1, <2>2
<1>12. \A u \in Tracks : worker.generations[u] \in Nat
  BY <1>1 DEF WorkerState
<1>13. TasksCounted'
  BY <1>3, <1>5, <1>6 DEF AInv, TasksCounted
<1>14. ResultsCounted'
  <2> SUFFICES ASSUME NEW u \in Tracks, NEW n \in Nat, OnWay(toMain', u, n)
               PROVE  /\ n \in 1 .. worker'.next /\ worker'.ids[u] # n /\ ~Parsing(u, n)'
                      /\ worker'.generations[u] = n => u \in worker'.done
    BY <1>11 DEF ResultsCounted
  <2>1. ~Parsing(u, n)'
    BY <1>6 DEF Parsing
  <2>2. CASE OnWay(toMain, u, n)
    <3>1. /\ n \in 1 .. worker.next /\ worker.ids[u] # n
          /\ worker.generations[u] = n => u \in worker.done
      BY <2>2 DEF AInv, ResultsCounted
    <3> QED BY <1>5, <2>1, <3>1
  <2>3. CASE u = t /\ n = id /\ worker.generations[t] = id
    BY <1>3, <1>5, <2>1, <2>3
  <2> QED BY <1>11, <2>2, <2>3
<1>15. ClearedInTime'
  <2> SUFFICES ASSUME NEW u \in Tracks, Clears(toWorker', u)
               PROVE  /\ u \notin mem'.ready
                      /\ worker'.generations[u] # 0 =>
                            /\ ~(worker'.task.track = u /\ worker'.task.id = worker'.generations[u])
                            /\ ~OnWay(toMain', u, worker'.generations[u])
                      /\ ~ClearsLate(toWorker', u)
    BY DEF ClearedInTime, Parsing
  <2>1. Clears(toWorker, u) /\ ~ClearsLate(toWorker, u) /\ ~ClearsLate(toWorker', u)
    BY <1>8, <1>9 DEF NoClearComes, ClearsLate, Processes
  <2>2. /\ u \notin mem.ready
        /\ worker.generations[u] # 0 => /\ ~Parsing(u, worker.generations[u])
                                        /\ ~OnWay(toMain, u, worker.generations[u])
    BY <2>1 DEF AInv, ClearedInTime
  <2>3. ~(u = t /\ worker.generations[t] = id)
    BY <1>2, <1>3, <2>2 DEF Parsing
  <2> QED BY <1>5, <1>6, <1>7, <1>11, <1>12, <2>1, <2>2, <2>3
<1>16. Scheduling'
  BY <1>5, <1>9 DEF Scheduling
<1>17. HeldIsTaken'
  <2> SUFFICES ASSUME NEW u \in mem.ready
               PROVE  /\ u \in worker'.done /\ worker'.generations[u] # 0
                      /\ ~OnWay(toMain', u, worker'.generations[u])
    BY <1>7 DEF HeldIsTaken
  <2>1. u \in Tracks
    BY DEF TypeOK, MemoryState
  <2>2. u # t
    BY <1>3 DEF AInv, HeldIsTaken
  <2> QED BY <1>5, <1>11, <1>12, <2>1, <2>2 DEF AInv, HeldIsTaken
<1>18. Service
  <2>1. ASSUME NEW u \in Tracks, u # t \/ worker.generations[t] # id
        PROVE  TaskStatus(u)' = TaskStatus(u)
    <3>1. StatusOf(worker', toMain', u) = StatusOf(worker, toMain, u)
      <4>1. CASE u # t
        BY <1>2, <1>5, <1>6, <1>11, <1>12, <4>1 DEF StatusOf
      <4>2. CASE worker.generations[u] = 0
        BY <1>5, <4>2 DEF StatusOf
      <4> QED BY <1>3, <2>1, <4>1, <4>2
    <3> QED BY <1>1, <3>1, StatusIs, StatusBecomes
  <2>2. CASE worker.generations[t] # id
    BY <1>7, <2>1, <2>2, Stutters DEF NoneMoves
  <2>3. CASE worker.generations[t] = id
    <3>1. StatusOf(worker, toMain, t) = "accepted"
      BY <1>2, <1>3, <2>3 DEF StatusOf
    <3>2. StatusOf(worker', toMain', t) = "answered"
      BY <1>3, <1>5, <1>6, <1>11, <2>3 DEF StatusOf
    <3>3. Moves(t, "accepted", "answered")
      BY <1>1, <2>1, <3>1, <3>2, StatusIs, StatusBecomes DEF Moves
    <3> QED BY <1>7, <3>3, Answers
  <2> QED BY <2>2, <2>3
<1> QED BY <1>7, <1>13, <1>14, <1>15, <1>16, <1>17, <1>18 DEF AInv

\* The analysis thread.
LEMMA WorkerServes ==
  ASSUME TypeOK, AInv, TypeOK', WorkerStep, UNCHANGED <<mem, running>>
  PROVE  AInv' /\ Service
BY EnqueueStep, ClearStep, ProcessStep, FinishStep DEF WorkerStep

-----------------------------------------------------------------------------
(* Steps of the data manager. *)

\* What of the memory the analysis depends on stays in a session.
LEMMA SessionGoesOn ==
  ASSUME AInv, running', mem.worker => mem'.worker, ~mem'.worker => UNCHANGED <<worker, toWorker>>
  PROVE  Sessions'
BY DEF AInv, Sessions

\* Requests that edit playlists or save them, and imports asked for.
LEMMA UserQuiet ==
  ASSUME TypeOK, AInv,
         \/ \E files \in SUBSET Tracks : \E target \in ImportTargets :
               \E withPlay \in BOOLEAN : ImportMetas(files, target, withPlay)
         \/ \E t \in Tracks : \E l \in EditedLists : \E current \in BOOLEAN :
               AddToPlayList(t, l, current)
         \/ \E t \in Tracks : \E l \in EditedLists : RemoveFromOne(t, l)
         \/ \E l \in EditedLists : ClearPlayList(l)
         \/ \E ok \in DbOutcomes : SaveDataToDB(ok) \/ AddPlayList(ok)
  PROVE  Quiet /\ Sessions'
<1>1. mem \in MemoryState
  BY DEF TypeOK
<1>2. /\ UNCHANGED <<worker, toMain, toWorker>> /\ running /\ running'
      /\ mem'.ready = mem.ready /\ mem'.worker = mem.worker
  <2>1. CASE \E files \in SUBSET Tracks : \E target \in ImportTargets :
               \E withPlay \in BOOLEAN : ImportMetas(files, target, withPlay)
    <3>1. UNCHANGED <<mem, worker, toMain, toWorker, running>> /\ running
      BY <2>1, Zenon DEF ImportMetas
    <3> QED BY <3>1
  <2>2. CASE \E t \in Tracks : \E l \in EditedLists : \E current \in BOOLEAN :
               AddToPlayList(t, l, current)
    <3>1. PICK t \in Tracks, l \in EditedLists, current \in BOOLEAN :
             AddToPlayList(t, l, current)
      BY <2>2
    <3>2. UNCHANGED <<worker, toMain, toWorker, running>> /\ running
      BY <3>1, Zenon DEF AddToPlayList, queues
    <3> DEFINE lists == [x \in AllLists |-> IF x = l \/ (current /\ x = "play")
                                          THEN mem.lists[x] \cup {t} ELSE mem.lists[x]]
    <3>3. mem' = [mem EXCEPT !.dirty = TRUE, !.lists = lists]
      BY <3>1, Zenon DEF AddToPlayList
    <3> HIDE DEF lists
    <3> QED BY <1>1, <3>2, <3>3 DEF MemoryState
  <2>3. CASE \/ \E t \in Tracks : \E l \in EditedLists : RemoveFromOne(t, l)
             \/ \E l \in EditedLists : ClearPlayList(l)
    <3>1. PICK l, fewer :
             /\ mem' = [mem EXCEPT !.lists[l] = fewer, !.dirty = TRUE]
             /\ UNCHANGED <<worker, queues, running>> /\ running
      <4>1. CASE \E t \in Tracks : \E l \in EditedLists : RemoveFromOne(t, l)
        <5>1. PICK t \in Tracks, l \in EditedLists : RemoveFromOne(t, l)
          BY <4>1
        <5>2. /\ mem' = [mem EXCEPT !.lists[l] = mem.lists[l] \ {t}, !.dirty = TRUE]
              /\ UNCHANGED <<worker, queues, running>> /\ running
          BY <5>1 DEF RemoveFromOne
        <5> QED BY <5>2
      <4>2. CASE \E l \in EditedLists : ClearPlayList(l)
        BY <4>2 DEF ClearPlayList
      <4> QED BY <2>3, <4>1, <4>2
    <3> QED BY <1>1, <3>1 DEF queues, MemoryState
  <2>4. CASE \E ok \in DbOutcomes : SaveDataToDB(ok) \/ AddPlayList(ok)
    <3>1. PICK ok : /\ mem' = [mem EXCEPT !.dirty = ~ok]
                    /\ UNCHANGED <<worker, queues, running>> /\ running
      BY <2>4, Zenon DEF SaveDataToDB, AddPlayList
    <3> DEFINE dirty == ~ok
    <3>2. mem' = [mem EXCEPT !.dirty = dirty]
      BY <3>1
    <3> HIDE DEF dirty
    <3> QED BY <1>1, <3>1, <3>2 DEF MemoryState, queues
  <2> QED BY <2>1, <2>2, <2>3, <2>4
<1> QED BY <1>2, NothingComes, SessionGoesOn

\* A deletion cancels the task of its track.
LEMMA RemoveStep ==
  ASSUME TypeOK, AInv, TypeOK', NEW t \in Tracks, RemoveFromAll(t)
  PROVE  AInv' /\ Service
<1>1. /\ mem \in MemoryState /\ worker \in WorkerState /\ WorkerOK /\ WorkerOK'
      /\ toWorker \in Seq(WorkerEvents) /\ toMain' = toMain /\ running /\ running'
  BY DEF TypeOK, WorkerOK, QueuesOK, RemoveFromAll
<1>2. /\ mem'.ready = mem.ready \ {t} /\ mem'.worker = mem.worker
  <2> DEFINE lists == [l \in AllLists |-> mem.lists[l] \ {t}]
             less == [mem EXCEPT !.metas[t] = "none", !.dirty = TRUE, !.lists = lists]
  <2>1. mem' = WithoutTasks(less, {t})
    BY DEF RemoveFromAll
  <2>2. less \in [DOMAIN mem -> {less[f] : f \in DOMAIN mem}] /\ less.ready = mem.ready
        /\ less.worker = mem.worker /\ DOMAIN less = DOMAIN mem
    <3> HIDE DEF lists
    <3> QED BY <1>1 DEF MemoryState
  <2> HIDE DEF less
  <2> QED BY <1>1, <2>1, <2>2 DEF WithoutTasks, MemoryState
<1>3. CASE ~mem.worker
  <2>1. UNCHANGED <<worker, toWorker>>
    BY <1>3 DEF RemoveFromAll
  <2>2. worker = IdleWorker /\ toWorker = <<>>
    BY <1>3 DEF AInv, Sessions
  <2>3. mem.ready = {}
    <3>1. ASSUME NEW u \in mem.ready PROVE FALSE
      BY <2>2 DEF AInv, HeldIsTaken, IdleWorker
    <3> QED BY <3>1
  <2>4. Quiet /\ Sessions'
    BY <1>1, <1>2, <2>1, <2>3, NothingComes, SessionGoesOn
  <2> QED BY <2>4, QuietStep
<1>4. CASE mem.worker
  <2> DEFINE e == [type |-> "clear", track |-> t]
  <2>1. /\ toWorker' = Append(toWorker, e)
        /\ worker' = [worker EXCEPT !.generations[t] = 0]
    BY <1>4 DEF RemoveFromAll
  <2>2. /\ worker'.queue = worker.queue /\ worker'.next = worker.next
        /\ worker'.task = worker.task /\ worker'.ids = worker.ids
        /\ worker'.pending = worker.pending /\ worker'.done = worker.done
        /\ worker'.generations[t] = 0
        /\ \A u \in Tracks \ {t} : worker'.generations[u] = worker.generations[u]
        /\ worker.next \in Nat
    BY <1>1, <2>1 DEF WorkerState
  <2>3. e.type = "clear" /\ e.track = t
    OBVIOUS
  <2> HIDE DEF e
  <2>4. /\ OneProcess(toWorker') /\ (Processes(toWorker') => Processes(toWorker))
        /\ \A u : u # t => /\ Clears(toWorker', u) => Clears(toWorker, u)
                           /\ ClearsLate(toWorker', u) => ClearsLate(toWorker, u)
    BY <1>1, <2>1, <2>3, EventPosted DEF AInv, Scheduling
  <2>5. Sessions'
    BY <1>1, <1>2, <1>4, SessionGoesOn
  <2>6. TasksCounted'
    <3>1. ASSUME NEW u \in Tracks
          PROVE  /\ worker'.generations[u] \in {0, worker.generations[u]}
                 /\ worker'.generations[u] <= worker'.next
      BY <2>2 DEF AInv, TasksCounted
    <3> QED BY <2>2, <3>1 DEF AInv, TasksCounted
  <2>7. ResultsCounted'
    <3>1. Unique(toMain')
      BY <1>1 DEF AInv, ResultsCounted
    <3> SUFFICES ASSUME NEW u \in Tracks, NEW n \in Nat, OnWay(toMain', u, n)
                 PROVE  /\ n \in 1 .. worker'.next /\ worker'.ids[u] # n /\ ~Parsing(u, n)'
                        /\ worker'.generations[u] = n => u \in worker'.done
      BY <3>1 DEF ResultsCounted
    <3>2. /\ n \in 1 .. worker.next /\ worker.ids[u] # n /\ ~Parsing(u, n)
          /\ worker.generations[u] = n => u \in worker.done
      BY <1>1 DEF AInv, ResultsCounted
    <3>3. worker'.generations[u] \in {0, worker.generations[u]} /\ n # 0
      BY <2>2, <3>2
    <3> QED BY <2>2, <3>2, <3>3 DEF Parsing
  <2>8. ClearedInTime'
    <3> SUFFICES ASSUME NEW u \in Tracks, Clears(toWorker', u)
                 PROVE  /\ u \notin mem'.ready
                        /\ worker'.generations[u] # 0 =>
                              /\ ~(worker'.task.track = u /\ worker'.task.id = worker'.generations[u])
                              /\ ~OnWay(toMain', u, worker'.generations[u])
                              /\ ClearsLate(toWorker', u) =>
                                    ~(/\ Head(worker'.queue).track = u
                                      /\ Head(worker'.queue).id = worker'.generations[u])
      BY DEF ClearedInTime, Parsing
    <3>1. CASE u = t
      BY <1>2, <2>2, <3>1
    <3>2. CASE u # t
      <4>1. Clears(toWorker, u) /\ (ClearsLate(toWorker', u) => ClearsLate(toWorker, u))
        BY <2>4, <3>2
      <4> QED BY <1>1, <1>2, <2>2, <3>2, <4>1 DEF AInv, ClearedInTime, Parsing
    <3> QED BY <3>1, <3>2
  <2>9. Scheduling'
    BY <2>2, <2>4 DEF AInv, Scheduling
  <2>10. HeldIsTaken'
    <3> SUFFICES ASSUME NEW u \in mem.ready \ {t}
                 PROVE  /\ u \in worker'.done /\ worker'.generations[u] # 0
                        /\ ~OnWay(toMain', u, worker'.generations[u])
      BY <1>2 DEF HeldIsTaken
    <3>1. u \in Tracks
      BY <1>1 DEF MemoryState
    <3> QED BY <1>1, <2>2, <3>1 DEF AInv, HeldIsTaken
  <2>11. Service
    <3>1. TaskStatus(t)' = "idle"
      <4>1. StatusOf(worker', toMain', t) = "idle"
        BY <2>2 DEF StatusOf
      <4> QED BY <1>1, <4>1, StatusBecomes
    <3>2. ASSUME NEW u \in Tracks \ {t} PROVE TaskStatus(u)' = TaskStatus(u)
      <4>1. StatusOf(worker', toMain', u) = StatusOf(worker, toMain, u)
        BY <1>1, <2>2 DEF StatusOf
      <4> QED BY <1>1, <4>1, StatusIs, StatusBecomes
    <3>3. Moves(t, TaskStatus(t), "idle")
      BY <3>1, <3>2 DEF Moves
    <3> QED BY <1>2, <3>3, Cancels
  <2> QED BY <2>5, <2>6, <2>7, <2>8, <2>9, <2>10, <2>11 DEF AInv
<1> QED BY <1>3, <1>4

\* A result that is delivered is taken or, when its track is gone, discarded; one of
\* a task that is not current is not.
LEMMA ResultStep ==
  ASSUME TypeOK, AInv, TypeOK', SlotMetaAnalysisReady
  PROVE  AInv' /\ Service
<1>1. /\ mem \in MemoryState /\ worker \in WorkerState /\ WorkerOK /\ WorkerOK'
      /\ toMain \in Seq(MainEvents) /\ toMain # <<>> /\ Head(toMain).type = "ready"
      /\ toMain' = Tail(toMain) /\ running /\ running' /\ UNCHANGED <<worker, toWorker>>
  BY DEF TypeOK, WorkerOK, QueuesOK, SlotMetaAnalysisReady, Delivers
<1>2. PICK t \in Tracks, n \in Nat : t = Head(toMain).track /\ n = Head(toMain).generation
  BY <1>1, Taken, MainEventTypes DEF SlotMetaAnalysisReady, ReadyEvent
<1>3. /\ OnWay(toMain, t, n) /\ Unique(toMain')
      /\ \A u \in Tracks, k \in Nat :
            OnWay(toMain', u, k) <=> OnWay(toMain, u, k) /\ ~(u = t /\ k = n)
  BY <1>1, <1>2, ResultDelivered DEF AInv, ResultsCounted
<1>4. /\ n \in 1 .. worker.next /\ worker.ids[t] # n /\ ~Parsing(t, n)
      /\ worker.generations[t] = n => t \in worker.done
      /\ \A u \in Tracks : worker.generations[u] \in Nat
  BY <1>1, <1>3 DEF AInv, ResultsCounted, WorkerState
<1>5. /\ mem'.worker = mem.worker
      /\ \/ mem'.ready = mem.ready
         \/ worker.generations[t] = n /\ mem'.ready = mem.ready \ {t}
         \/ worker.generations[t] = n /\ mem'.ready = mem.ready \cup {t}
  <2> DEFINE quality == IF mem.metas[t] = "hash" THEN "hash" ELSE "full"
             entries == Synced(mem.imported, t, quality)
  <2>1. \/ mem' = mem
        \/ worker.generations[t] = n /\ mem' = WithoutTasks(mem, {t})
        \/ worker.generations[t] = n
           /\ mem' = [mem EXCEPT !.metas[t] = quality, !.dirty = TRUE,
                          !.imported = entries, !.ready = @ \cup {t}, !.timer = TRUE]
    BY <1>2, Zenon DEF SlotMetaAnalysisReady, ResultIsCurrent
  <2> HIDE DEF quality, entries
  <2>2. CASE mem' = mem
    BY <2>2
  <2>3. CASE worker.generations[t] = n /\ mem' = WithoutTasks(mem, {t})
    BY <1>1, <2>3 DEF WithoutTasks, MemoryState
  <2>4. CASE /\ worker.generations[t] = n
             /\ mem' = [mem EXCEPT !.metas[t] = quality, !.dirty = TRUE,
                           !.imported = entries, !.ready = @ \cup {t}, !.timer = TRUE]
    BY <1>1, <2>4 DEF MemoryState
  <2> QED BY <2>1, <2>2, <2>3, <2>4
<1>6. worker.generations[t] = n => t \notin mem.ready /\ ~Clears(toWorker, t)
  <2>1. worker.generations[t] = n => n # 0
    BY <1>4
  <2> QED BY <1>3, <2>1 DEF AInv, HeldIsTaken, ClearedInTime
<1>7. Sessions'
  BY <1>1, <1>5, SessionGoesOn
<1>8. TasksCounted'
  BY <1>1 DEF AInv, TasksCounted
<1>9. ResultsCounted'
  BY <1>1, <1>3 DEF AInv, ResultsCounted, Parsing
<1>10. ClearedInTime'
  <2> SUFFICES ASSUME NEW u \in Tracks, Clears(toWorker, u)
               PROVE  /\ u \notin mem'.ready
                      /\ worker.generations[u] # 0 =>
                            /\ ~(worker.task.track = u /\ worker.task.id = worker.generations[u])
                            /\ ~OnWay(toMain', u, worker.generations[u])
                            /\ ClearsLate(toWorker, u) =>
                                  ~(/\ Head(worker.queue).track = u
                                    /\ Head(worker.queue).id = worker.generations[u])
    BY <1>1 DEF ClearedInTime, Parsing
  <2>1. u \notin mem'.ready
    BY <1>5, <1>6 DEF AInv, ClearedInTime
  <2> QED BY <1>3, <1>4, <2>1 DEF AInv, ClearedInTime, Parsing
<1>11. Scheduling'
  BY <1>1 DEF AInv, Scheduling
<1>12. HeldIsTaken'
  <2> SUFFICES ASSUME NEW u \in mem'.ready
               PROVE  /\ u \in worker.done /\ worker.generations[u] # 0
                      /\ ~OnWay(toMain', u, worker.generations[u])
    BY <1>1 DEF HeldIsTaken
  <2>1. CASE u \in mem.ready
    <3>1. u \in Tracks
      BY <1>1, <2>1 DEF MemoryState
    <3> QED BY <1>3, <1>4, <2>1, <3>1 DEF AInv, HeldIsTaken
  <2>2. CASE u \notin mem.ready
    <3>1. u = t /\ worker.generations[t] = n
      BY <1>5, <2>2
    <3> QED BY <1>3, <1>4, <3>1
  <2> QED BY <2>1, <2>2
<1>13. Service
  <2>1. ASSUME NEW u \in Tracks, u # t \/ worker.generations[t] # n
        PROVE  TaskStatus(u)' = TaskStatus(u)
    <3>1. StatusOf(worker', toMain', u) = StatusOf(worker, toMain, u)
      BY <1>1, <1>3, <1>4, <2>1 DEF StatusOf
    <3> QED BY <1>1, <3>1, StatusIs, StatusBecomes
  <2>2. CASE worker.generations[t] # n
    BY <1>5, <2>1, <2>2, Stutters DEF NoneMoves
  <2>3. CASE worker.generations[t] = n
    <3>1. StatusOf(worker, toMain, t) = "answered"
      BY <1>3, <1>4, <2>3 DEF StatusOf, Parsing
    <3>2. StatusOf(worker', toMain', t) = "taken"
      BY <1>1, <1>3, <1>4, <2>3 DEF StatusOf, Parsing
    <3>3. Moves(t, "answered", "taken")
      BY <1>1, <2>1, <3>1, <3>2, StatusIs, StatusBecomes DEF Moves
    <3>4. mem'.ready = mem.ready \/ mem'.ready = mem.ready \cup {t}
      BY <1>5, <1>6, <2>3
    <3> QED BY <3>3, <3>4, Takes
  <2> QED BY <2>2, <2>3
<1> QED BY <1>7, <1>8, <1>9, <1>10, <1>11, <1>12, <1>13 DEF AInv

\* The other slots: events of the import, the timer, the tasks left over.
LEMMA MainQuiet ==
  ASSUME TypeOK, AInv,
         \/ PrepareStartupAssets \/ SlotAddOneMeta \/ SlotEnqueueMetaTasks
         \/ \E ok \in DbOutcomes : SlotMetaBatchFinished(ok) \/ UpsertTimeout(ok)
  PROVE  Quiet /\ Sessions'
<1>1. /\ mem \in MemoryState /\ toWorker \in Seq(WorkerEvents) /\ OneProcess(toWorker)
      /\ toMain \in Seq(MainEvents) /\ Unique(toMain)
  BY DEF TypeOK, QueuesOK, AInv, Scheduling, ResultsCounted
<1>2. ASSUME NEW S, mem'.ready = mem.ready,
             toWorker' = toWorker \/ toWorker' = Append(toWorker, [type |-> "enqueue", tracks |-> S]),
             UNCHANGED worker,
             \/ UNCHANGED toMain
             \/ toMain' = Tail(toMain) /\ Delivers(toMain, "enqueue")
      PROVE  Quiet
  <2> DEFINE e == [type |-> "enqueue", tracks |-> S]
  <2>1. e.type = "enqueue"
    OBVIOUS
  <2>2. toWorker' = toWorker \/ toWorker' = Append(toWorker, e)
    BY <1>2
  <2> HIDE DEF e
  <2>3. /\ OneProcess(toWorker') /\ NoClearComes(toWorker', toWorker)
        /\ Processes(toWorker') => Processes(toWorker)
    <3>1. CASE toWorker' = toWorker
      BY <1>1, <3>1 DEF NoClearComes
    <3>2. CASE toWorker' = Append(toWorker, e)
      BY <1>1, <2>1, <3>2, EventPosted
    <3> QED BY <2>2, <3>1, <3>2
  <2>4. (\A t, n : OnWay(toMain', t, n) <=> OnWay(toMain, t, n)) /\ Unique(toMain')
    <3>1. CASE UNCHANGED toMain
      BY <1>1, <3>1
    <3>2. CASE toMain' = Tail(toMain) /\ Delivers(toMain, "enqueue")
      BY <1>1, <3>2, OtherDelivered DEF Delivers
    <3> QED BY <1>2, <3>1, <3>2
  <2> QED BY <1>2, <2>3, <2>4 DEF Quiet
<1>3. CASE PrepareStartupAssets
  <2> DEFINE safe == RestoredSafe(mem)
  <2>1. /\ mem' = [mem EXCEPT !.prepared = TRUE, !.tasks = Restored(mem),
                              !.worker = @ \/ safe # {}]
        /\ toWorker' = IF safe = {} THEN toWorker
                       ELSE Append(toWorker, [type |-> "enqueue", tracks |-> safe])
        /\ UNCHANGED <<running, toMain, worker>> /\ running
    BY <1>3 DEF PrepareStartupAssets
  <2> HIDE DEF safe
  <2> DEFINE there == mem.worker \/ safe # {}
             left == Restored(mem)
  <2>2. mem' = [mem EXCEPT !.prepared = TRUE, !.tasks = left, !.worker = there]
    BY <2>1
  <2> HIDE DEF there, left
  <2>3. mem'.ready = mem.ready /\ mem'.worker = there
    BY <1>1, <2>2 DEF MemoryState
  <2>4. Quiet
    BY <1>2, <2>1, <2>3
  <2>5. /\ mem.worker => mem'.worker
        /\ ~mem'.worker => UNCHANGED <<worker, toWorker>>
    BY <2>1, <2>3 DEF there
  <2> QED BY <2>1, <2>4, <2>5, SessionGoesOn
<1>4. CASE SlotAddOneMeta
  <2> DEFINE e == Head(toMain)
             new == "all" \in e.lists /\ e.track \notin Known(mem)
             hash == IF new \/ e.track \in Known(mem) THEN e.track ELSE NoTrack
             quality == IF e.whole THEN "tags" ELSE "hash"
             lists == [l \in AllLists |-> IF l \in e.lists THEN mem.lists[l] \cup {hash}
                                          ELSE mem.lists[l]]
             added == [mem EXCEPT !.metas[e.track] = quality,
                         !.imported = Append(@, [track |-> e.track, quality |-> quality])]
             base == IF new THEN added ELSE mem
             dirty == base.dirty \/ new \/ lists # mem.lists
  <2>1. mem' = [base EXCEPT !.lists = lists, !.dirty = dirty]
    BY <1>4, Zenon DEF SlotAddOneMeta
  <2>2. base.ready = mem.ready /\ base.worker = mem.worker /\ DOMAIN base = DOMAIN mem
    <3> HIDE DEF e, new, quality
    <3> QED BY <1>1 DEF MemoryState
  <2>3. base \in [DOMAIN mem -> {base[f] : f \in DOMAIN mem}]
    <3> HIDE DEF e, new, quality
    <3> QED BY <1>1 DEF MemoryState
  <2> HIDE DEF base, lists, dirty
  <2>4. mem'.ready = mem.ready /\ mem'.worker = mem.worker
    BY <1>1, <2>1, <2>2, <2>3 DEF MemoryState
  <2>5. /\ Delivers(toMain, "addOne") /\ toMain' = Tail(toMain)
        /\ UNCHANGED <<worker, toWorker, running>> /\ running
    BY <1>4, Zenon DEF SlotAddOneMeta
  <2> QED BY <2>4, <2>5, OtherHandled, SessionGoesOn
<1>5. CASE SlotEnqueueMetaTasks
  <2> DEFINE new == Head(toMain).tracks
  <2>1. /\ mem' = [mem EXCEPT !.tasks = @ \cup new, !.worker = @ \/ mem.prepared]
        /\ toWorker' = IF mem.prepared
                       THEN Append(toWorker, [type |-> "enqueue", tracks |-> new])
                       ELSE toWorker
        /\ Delivers(toMain, "enqueue") /\ toMain' = Tail(toMain)
        /\ UNCHANGED <<running, worker>> /\ running
    BY <1>5 DEF SlotEnqueueMetaTasks
  <2> HIDE DEF new
  <2> DEFINE there == mem.worker \/ mem.prepared
             more == mem.tasks \cup new
  <2>2. mem' = [mem EXCEPT !.tasks = more, !.worker = there]
    BY <2>1
  <2> HIDE DEF there, more
  <2>3. mem'.ready = mem.ready /\ mem'.worker = there
    BY <1>1, <2>2 DEF MemoryState
  <2>4. Quiet
    BY <1>2, <2>1, <2>3
  <2>5. /\ mem.worker => mem'.worker
        /\ ~mem'.worker => UNCHANGED <<worker, toWorker>>
    BY <2>1, <2>3 DEF there
  <2> QED BY <2>1, <2>4, <2>5, SessionGoesOn
<1>6. ASSUME NEW ok \in DbOutcomes, SlotMetaBatchFinished(ok) \/ UpsertTimeout(ok)
      PROVE  Quiet /\ Sessions'
  <2> DEFINE flushed == FlushedMemory(mem, ok)
  <2>1. /\ mem' = flushed \/ mem' = [flushed EXCEPT !.timer = FALSE]
        /\ UNCHANGED <<worker, toWorker, running>> /\ running
        /\ \/ UNCHANGED toMain
           \/ Delivers(toMain, "batch") /\ toMain' = Tail(toMain)
    BY <1>6 DEF SlotMetaBatchFinished, UpsertTimeout, queues
  <2>2. /\ flushed \in MemoryState /\ flushed.worker = mem.worker
        /\ flushed.ready = mem.ready \/ flushed.ready = {}
    <3>1. flushed \in MemoryState
      BY <1>1, FlushedType DEF TypeOK
    <3>2. flushed = mem \/ flushed = [WithoutTasks(mem, mem.ready) EXCEPT !.imported = <<>>]
      BY Zenon DEF FlushedMemory
    <3> HIDE DEF flushed
    <3> QED BY <1>1, <3>1, <3>2 DEF WithoutTasks, MemoryState
  <2> HIDE DEF flushed
  <2>3. /\ mem'.worker = mem.worker
        /\ mem'.ready = mem.ready \/ mem'.ready = {}
    BY <2>1, <2>2 DEF MemoryState
  <2> QED BY <2>1, <2>3, NothingComes, OtherHandled, SessionGoesOn
<1> QED BY <1>3, <1>4, <1>5, <1>6

-----------------------------------------------------------------------------
(* The process, and the theorem. *)

\* In an idle process no task is under way and nothing is in the queues.
LEMMA IdleHolds ==
  ASSUME worker = IdleWorker, toMain = <<>>, toWorker = <<>>, mem.ready = {}, ~mem.worker
  PROVE  AInv
<1>1. /\ worker.queue = <<>> /\ worker.task = NoTask /\ worker.next = 0
      /\ worker.pending = {} /\ worker.task.track = NoTrack
      /\ \A t \in Tracks : worker.ids[t] = 0 /\ worker.generations[t] = 0 /\ t # NoTrack
  BY TracksAssumption DEF IdleWorker, NoTask
<1>2. TasksCounted
  BY <1>1 DEF TasksCounted
<1>3. ResultsCounted /\ ClearedInTime /\ Scheduling /\ HeldIsTaken /\ Sessions
  BY DEF ResultsCounted, OnWay, Unique, ClearedInTime, Clears, Scheduling, OneProcess,
         Processes, HeldIsTaken, Sessions
<1> QED BY <1>2, <1>3 DEF AInv

LEMMA InitServes == Init => AInv /\ Analysis!Init
<1> SUFFICES ASSUME Init PROVE AInv /\ Analysis!Init
  OBVIOUS
<1>1. /\ worker = IdleWorker /\ toMain = <<>> /\ toWorker = <<>>
      /\ mem.ready = {} /\ ~mem.worker
  BY DEF Init, EmptyMemory
<1>2. ASSUME NEW t \in Tracks PROVE TaskStatus(t) = "idle"
  BY <1>1 DEF TaskStatus, IdleWorker
<1> QED BY <1>1, <1>2, IdleHolds DEF Analysis!Init

\* The end of the process shuts the analysis down.
LEMMA EndStep ==
  ASSUME Ends
  PROVE  AInv' /\ Service
<1>1. /\ worker' = IdleWorker /\ toMain' = <<>> /\ toWorker' = <<>>
      /\ mem'.ready = {} /\ ~mem'.worker
  BY DEF Ends, EmptyMemory
<1>2. /\ worker'.queue = <<>> /\ worker'.task = NoTask /\ worker'.next = 0
      /\ worker'.pending = {} /\ worker'.task.track = NoTrack
      /\ \A t \in Tracks : worker'.ids[t] = 0 /\ worker'.generations[t] = 0 /\ t # NoTrack
  BY <1>1, TracksAssumption DEF IdleWorker, NoTask
<1>3. TasksCounted'
  BY <1>2 DEF TasksCounted
<1>4. ResultsCounted' /\ ClearedInTime' /\ Scheduling' /\ HeldIsTaken' /\ Sessions'
  BY <1>1 DEF ResultsCounted, OnWay, Unique, ClearedInTime, Clears, Scheduling, OneProcess,
              Processes, HeldIsTaken, Sessions
<1>5. ASSUME NEW t \in Tracks PROVE TaskStatus(t)' = "idle"
  BY <1>2 DEF TaskStatus
<1>6. Service
  BY <1>1, <1>5, ShutsDown
<1> QED BY <1>3, <1>4, <1>6 DEF AInv

\* A start finds nothing of the analysis but the names in the pending file.
LEMMA StartQuiet ==
  ASSUME AInv, Starts
  PROVE  Quiet /\ Sessions'
<1>1. /\ UNCHANGED <<worker, toMain, toWorker>> /\ ~running /\ running'
      /\ mem'.ready = {}
  <2> DEFINE loaded == [EmptyMemory EXCEPT !.metas = disk.rows, !.lists = disk.lists,
                                           !.tasks = disk.tasks]
             left == Restored(loaded)
  <2>1. mem' = [loaded EXCEPT !.tasks = left]
    BY Zenon DEF Starts
  <2>2. /\ UNCHANGED <<worker, toMain, toWorker>> /\ ~running /\ running'
    BY DEF Starts, queues
  <2> HIDE DEF left
  <2> QED BY <2>1, <2>2 DEF EmptyMemory
<1>2. worker = IdleWorker /\ toWorker = <<>> /\ ~mem.worker
  BY <1>1 DEF AInv, Sessions
<1>3. Sessions'
  BY <1>1, <1>2 DEF Sessions
<1> QED BY <1>1, <1>3, NothingComes

LEMMA NextServes ==
  ASSUME IInv, AInv, [Next]_vars
  PROVE  AInv' /\ Service
<1>1. TypeOK /\ TypeOK'
  BY NextSound DEF IInv
<1>2. CASE UserStep
  <2>1. CASE \E t \in Deletable : RemoveFromAll(t)
    BY <1>1, <2>1, RemoveStep, DeletableAssumption
  <2>2. CASE ~\E t \in Deletable : RemoveFromAll(t)
    <3>1. Quiet /\ Sessions'
      BY <1>1, <1>2, <2>2, UserQuiet, Zenon DEF UserStep
    <3> QED BY <1>1, <3>1, QuietStep
  <2> QED BY <2>1, <2>2
<1>3. CASE MainStep
  <2>1. CASE SlotMetaAnalysisReady
    BY <1>1, <2>1, ResultStep
  <2>2. CASE ~SlotMetaAnalysisReady
    <3>1. Quiet /\ Sessions'
      BY <1>1, <1>3, <2>2, MainQuiet, Zenon DEF MainStep
    <3> QED BY <1>1, <3>1, QuietStep
  <2> QED BY <2>1, <2>2
<1>4. CASE ImportStep /\ UNCHANGED <<mem, disk, running, imports, worker>>
  <2>1. UNCHANGED <<mem, running, worker>> /\ toWorker' = toWorker
    BY <1>4 DEF ImportStep, BeginImport, ImportFile, EndFiles, EmitEnqueue,
                EmitBatchFinished, ClearImportingHash, queues
  <2>2. Quiet /\ Sessions'
    BY <1>1, <1>4, <2>1, ImportQuiet DEF AInv, Sessions
  <2> QED BY <1>1, <2>2, QuietStep
<1>5. CASE WorkerStep /\ UNCHANGED <<mem, disk, running, imports, importer>>
  BY <1>1, <1>5, WorkerServes
<1>6. CASE Ends
  BY <1>6, EndStep
<1>7. CASE Starts
  BY <1>1, <1>7, StartQuiet, QuietStep
<1>8. CASE UNCHANGED vars
  <2>1. UNCHANGED <<mem, running, toMain, toWorker, worker>>
    BY <1>8 DEF vars
  <2>2. Quiet /\ Sessions'
    BY <2>1, NothingComes DEF AInv, Sessions
  <2> QED BY <1>1, <2>2, QuietStep
<1> QED BY <1>2, <1>3, <1>4, <1>5, <1>6, <1>7, <1>8 DEF Next

\* The data manager, its import thread and its analysis thread take only the steps
\* that AnalysisService allows: no result is taken twice, none of a task that was
\* cancelled, and no track is accepted anew before the last result taken of it is
\* stored (enqueueMetas, clearMetaHash, processNext, slotMetaAnalysisReady).
THEOREM AnalysisIsImplemented == Spec => AnalysisSteps
<1>1. Init => AInv /\ Analysis!Init
  BY InitServes
<1>2. IInv /\ AInv /\ [Next]_vars => AInv' /\ [Analysis!Next]_(Analysis!vars)
  BY NextServes DEF Service
<1>3. Spec => Analysis!Init /\ [][Analysis!Next]_(Analysis!vars)
  BY <1>1, <1>2, Invariant, PTL DEF Spec
<1> QED BY <1>3 DEF AnalysisSteps, Analysis!Steps
=============================================================================
