---------------------------- MODULE ImportProofs ----------------------------
(***************************************************************************)
(* What imports promise across the queues of the library: a track that is   *)
(* not deleted is parsed once, and no track loses its analysis task.        *)
(***************************************************************************)
EXTENDS AnalysisProofs

-----------------------------------------------------------------------------
(* What is on its way about a track. *)

\* An answer of the import about t, with its tags or with its hash only.
Answer(e, t, whole) == e.type = "addOne" /\ e.track = t /\ e.whole = whole
AnswerOnWay(q, t, whole) == \E i \in DOMAIN q : Answer(q[i], t, whole)

\* A task of t, and whether an answer about t comes with none after it.
TaskEvent(e, t) == e.type = "enqueue" /\ t \in e.tracks
TaskOnWay(q, t) == \E i \in DOMAIN q : TaskEvent(q[i], t)
TaskToFollow(q, t) ==
    \E i \in DOMAIN q : /\ Answer(q[i], t, TRUE)
                        /\ \A j \in DOMAIN q : TaskEvent(q[j], t) => j < i

\* A clearing of t, and the requests made when t was known, or unknown.
ClearOnWay(q, t) == \E i \in DOMAIN q : q[i].type = "clear" /\ q[i].track = t
Asked(e, t, known) == e.type = "import" /\ (t \in e.known <=> known)
AskedOnWay(q, t, known) == \E i \in DOMAIN q : Asked(q[i], t, known)

\* Once t is known, later requests know it.
KnownRises(q, t) ==
    \A i, j \in DOMAIN q : Asked(q[i], t, TRUE) /\ Asked(q[j], t, FALSE) => j < i


LEMMA MainAppended ==
  ASSUME NEW S, NEW q \in Seq(S), NEW e, NEW t
  PROVE  /\ \A w : AnswerOnWay(Append(q, e), t, w) => AnswerOnWay(q, t, w) \/ Answer(e, t, w)
         /\ TaskOnWay(q, t) \/ TaskEvent(e, t) => TaskOnWay(Append(q, e), t)
         /\ TaskToFollow(Append(q, e), t) =>
               ~TaskEvent(e, t) /\ (TaskToFollow(q, t) \/ Answer(e, t, TRUE))
<1> DEFINE p == Append(q, e)
           n == Len(q) + 1
<1>1. /\ n \in DOMAIN p /\ p[n] = e
      /\ \A i \in DOMAIN q : i \in DOMAIN p /\ p[i] = q[i] /\ i \in Nat /\ i < n
      /\ \A i \in DOMAIN p : i \in DOMAIN q \/ i = n
      /\ n \in Nat /\ ~(n < n)
  BY AfterAppend
<1> HIDE DEF p, n
<1>2. \A w : AnswerOnWay(p, t, w) => AnswerOnWay(q, t, w) \/ Answer(e, t, w)
  BY <1>1 DEF AnswerOnWay
<1>3. TaskOnWay(q, t) \/ TaskEvent(e, t) => TaskOnWay(p, t)
  BY <1>1 DEF TaskOnWay
<1>4. ASSUME TaskToFollow(p, t)
      PROVE  ~TaskEvent(e, t) /\ (TaskToFollow(q, t) \/ Answer(e, t, TRUE))
  <2>1. PICK i \in DOMAIN p : /\ Answer(p[i], t, TRUE)
                              /\ \A j \in DOMAIN p : TaskEvent(p[j], t) => j < i
    BY <1>4 DEF TaskToFollow
  <2>2. ~TaskEvent(e, t)
    <3> SUFFICES ASSUME TaskEvent(e, t) PROVE FALSE
      OBVIOUS
    <3>1. n < i
      BY <1>1, <2>1
    <3> QED BY <1>1, <3>1
  <2>3. CASE i = n
    BY <1>1, <2>1, <2>2, <2>3
  <2>4. CASE i \in DOMAIN q
    BY <1>1, <2>1, <2>2, <2>4 DEF TaskToFollow
  <2> QED BY <1>1, <2>3, <2>4
<1> QED BY <1>2, <1>3, <1>4 DEF p

LEMMA MainDelivered ==
  ASSUME NEW S, NEW q \in Seq(S), q # <<>>, NEW t
  PROVE  /\ \A w : /\ AnswerOnWay(Tail(q), t, w) => AnswerOnWay(q, t, w)
                   /\ Answer(Head(q), t, w) => AnswerOnWay(q, t, w)
         /\ TaskOnWay(q, t) => TaskOnWay(Tail(q), t) \/ TaskEvent(Head(q), t)
         /\ TaskToFollow(Tail(q), t) => TaskToFollow(q, t)
         /\ Answer(Head(q), t, TRUE) => TaskToFollow(q, t) \/ TaskOnWay(Tail(q), t)
<1> DEFINE p == Tail(q)
           e == Head(q)
<1>1. /\ 1 \in DOMAIN q /\ q[1] = e
      /\ \A i \in DOMAIN p : i \in Nat /\ i >= 1 /\ i + 1 \in DOMAIN q /\ p[i] = q[i + 1]
      /\ \A i \in DOMAIN q : i # 1 => i \in Nat /\ i - 1 \in DOMAIN p /\ p[i - 1] = q[i]
  BY AfterTail
<1> HIDE DEF p, e
<1>2. \A w : /\ AnswerOnWay(p, t, w) => AnswerOnWay(q, t, w)
             /\ Answer(e, t, w) => AnswerOnWay(q, t, w)
  BY <1>1 DEF AnswerOnWay
<1>3. TaskOnWay(q, t) => TaskOnWay(p, t) \/ TaskEvent(e, t)
  BY <1>1 DEF TaskOnWay
<1>4. ASSUME TaskToFollow(p, t) PROVE TaskToFollow(q, t)
  <2>1. PICK i \in DOMAIN p : /\ Answer(p[i], t, TRUE)
                              /\ \A j \in DOMAIN p : TaskEvent(p[j], t) => j < i
    BY <1>4 DEF TaskToFollow
  <2>2. ASSUME NEW j \in DOMAIN q, TaskEvent(q[j], t) PROVE j < i + 1
    <3>1. CASE j = 1
      BY <1>1, <3>1
    <3>2. CASE j # 1
      <4>1. j - 1 < i
        BY <1>1, <2>1, <2>2, <3>2
      <4> QED BY <1>1, <3>2, <4>1
    <3> QED BY <3>1, <3>2
  <2>3. i + 1 \in DOMAIN q /\ Answer(q[i + 1], t, TRUE)
    BY <1>1, <2>1
  <2> QED BY <2>2, <2>3 DEF TaskToFollow
<1>5. ASSUME Answer(e, t, TRUE), ~TaskToFollow(q, t) PROVE TaskOnWay(p, t)
  <2>1. PICK j \in DOMAIN q : TaskEvent(q[j], t) /\ ~(j < 1)
    BY <1>1, <1>5 DEF TaskToFollow
  <2>2. j # 1
    BY <1>1, <1>5, <2>1 DEF Answer, TaskEvent
  <2> QED BY <1>1, <2>1, <2>2 DEF TaskOnWay
<1> QED BY <1>2, <1>3, <1>4, <1>5 DEF p, e

LEMMA RequestAppended ==
  ASSUME NEW S, NEW q \in Seq(S), NEW e, NEW t
  PROVE  /\ ClearOnWay(Append(q, e), t) =>
               ClearOnWay(q, t) \/ (e.type = "clear" /\ e.track = t)
         /\ \A k : AskedOnWay(Append(q, e), t, k) => AskedOnWay(q, t, k) \/ Asked(e, t, k)
         /\ KnownRises(q, t) /\ (Asked(e, t, FALSE) => ~AskedOnWay(q, t, TRUE)) =>
               KnownRises(Append(q, e), t)
<1> DEFINE p == Append(q, e)
           n == Len(q) + 1
<1>1. /\ p[n] = e
      /\ \A i \in DOMAIN q : p[i] = q[i] /\ i \in Nat /\ i < n
      /\ \A i \in DOMAIN p : i \in DOMAIN q \/ i = n
  BY AfterAppend
<1> HIDE DEF p, n
<1>2. ClearOnWay(p, t) => ClearOnWay(q, t) \/ (e.type = "clear" /\ e.track = t)
  BY <1>1 DEF ClearOnWay
<1>3. \A k : AskedOnWay(p, t, k) => AskedOnWay(q, t, k) \/ Asked(e, t, k)
  BY <1>1 DEF AskedOnWay
<1>4. ASSUME KnownRises(q, t), Asked(e, t, FALSE) => ~AskedOnWay(q, t, TRUE)
      PROVE  KnownRises(p, t)
  <2> SUFFICES ASSUME NEW i \in DOMAIN p, NEW j \in DOMAIN p,
                      Asked(p[i], t, TRUE), Asked(p[j], t, FALSE)
               PROVE  j < i
    BY DEF KnownRises
  <2>1. ~(Asked(e, t, TRUE) /\ Asked(e, t, FALSE))
    BY DEF Asked
  <2>2. CASE i = n /\ j # n
    BY <1>1, <2>2
  <2>3. CASE i # n /\ j = n
    BY <1>1, <1>4, <2>3 DEF AskedOnWay
  <2>4. CASE i = n /\ j = n
    BY <1>1, <2>1, <2>4
  <2>5. CASE i # n /\ j # n
    BY <1>1, <1>4, <2>5 DEF KnownRises
  <2> QED BY <2>2, <2>3, <2>4, <2>5
<1> QED BY <1>2, <1>3, <1>4 DEF p

LEMMA RequestDelivered ==
  ASSUME NEW S, NEW q \in Seq(S), q # <<>>, NEW t
  PROVE  /\ ClearOnWay(Tail(q), t) => ClearOnWay(q, t)
         /\ Head(q).type = "clear" /\ Head(q).track = t => ClearOnWay(q, t)
         /\ \A k : /\ AskedOnWay(Tail(q), t, k) => AskedOnWay(q, t, k)
                   /\ Asked(Head(q), t, k) => AskedOnWay(q, t, k)
         /\ KnownRises(q, t) =>
               /\ KnownRises(Tail(q), t)
               /\ Asked(Head(q), t, TRUE) => ~AskedOnWay(Tail(q), t, FALSE)
<1> DEFINE p == Tail(q)
           e == Head(q)
<1>1. /\ 1 \in DOMAIN q /\ q[1] = e
      /\ \A i \in DOMAIN p : i \in Nat /\ i >= 1 /\ i + 1 \in DOMAIN q /\ p[i] = q[i + 1]
  BY AfterTail
<1> HIDE DEF p, e
<1>2. \A i, j \in DOMAIN p : (j + 1 < i + 1 => j < i) /\ ~(i + 1 < 1)
  BY <1>1
<1>3. /\ ClearOnWay(p, t) => ClearOnWay(q, t)
      /\ e.type = "clear" /\ e.track = t => ClearOnWay(q, t)
  BY <1>1 DEF ClearOnWay
<1>4. \A k : /\ AskedOnWay(p, t, k) => AskedOnWay(q, t, k)
             /\ Asked(e, t, k) => AskedOnWay(q, t, k)
  BY <1>1 DEF AskedOnWay
<1>5. ASSUME KnownRises(q, t)
      PROVE  KnownRises(p, t) /\ (Asked(e, t, TRUE) => ~AskedOnWay(p, t, FALSE))
  <2>1. KnownRises(p, t)
    <3> SUFFICES ASSUME NEW i \in DOMAIN p, NEW j \in DOMAIN p,
                        Asked(p[i], t, TRUE), Asked(p[j], t, FALSE)
                 PROVE  j < i
      BY DEF KnownRises
    <3>1. j + 1 < i + 1
      BY <1>1, <1>5 DEF KnownRises
    <3> QED BY <1>2, <3>1
  <2>2. ASSUME Asked(e, t, TRUE), NEW i \in DOMAIN p, Asked(p[i], t, FALSE) PROVE FALSE
    <3>1. i + 1 < 1
      BY <1>1, <1>5, <2>2 DEF KnownRises
    <3> QED BY <1>2, <3>1
  <2> QED BY <2>1, <2>2 DEF AskedOnWay
<1> QED BY <1>3, <1>4, <1>5 DEF p, e

-----------------------------------------------------------------------------
(* The invariant. *)

IsKnown(t) == mem.metas[t] # "none"
Importing == importer.phase # "idle"

\* The request being handled was made when t was known.
JobKnows(t) == Importing /\ t \in importer.job.known

\* Of a track that is not deleted: what any request says of it is what the next ones
\* say, and as soon as it is known or answered it is either being imported still, or
\* known to all requests.
Kept(t) ==
    /\ ~ClearOnWay(toImport, t) /\ KnownRises(toImport, t)
    /\ AskedOnWay(toImport, t, TRUE) => IsKnown(t)
    /\ JobKnows(t) => IsKnown(t) /\ ~AskedOnWay(toImport, t, FALSE)
    /\ AnswerOnWay(toMain, t, FALSE) => IsKnown(t)
    /\ t \notin importer.importing =>
          /\ AnswerOnWay(toMain, t, TRUE) => IsKnown(t)
          /\ IsKnown(t) => ~AskedOnWay(toImport, t, FALSE) /\ (Importing => JobKnows(t))

\* An answer with tags is followed by a task; what the import has parsed has one until
\* the import ends; and a result that is held is of a track that has it.
Tasked(t) ==
    /\ t \in mem.ready => mem.metas[t] \notin {"none", "tags"}
    /\ TaskToFollow(toMain, t) =>
          t \in importer.fresh /\ importer.phase \in {"files", "enqueue"}
    /\ mem.metas[t] = "tags" /\ t \in importer.fresh /\ importer.phase = "batch" =>
          t \in mem.tasks \/ TaskOnWay(toMain, t)

\* Before an import nothing has been parsed, and without a process nothing is on its way.
Resting ==
    /\ ~Importing => importer.fresh = {}
    /\ ~running => importer = IdleImporter /\ toMain = <<>> /\ toImport = <<>>

LInv ==
    /\ Resting
    /\ \A t \in Tracks \ Deletable : Kept(t)
    /\ \A t \in Tracks : Tasked(t)

\* Nothing is known, and nothing under way, or nothing under way at all.
LEMMA RestHolds ==
  ASSUME NEW t, importer = IdleImporter, toMain = <<>>, toImport = <<>>,
         mem.ready = {}
  PROVE  Kept(t) /\ Tasked(t)
BY DEF Kept, Tasked, ClearOnWay, KnownRises, AskedOnWay, AnswerOnWay, TaskToFollow,
       JobKnows, Importing, IdleImporter

LEMMA RestBegins ==
  ASSUME NEW t, importer' = IdleImporter, toMain' = <<>>, toImport' = <<>>,
         mem'.ready = {}
  PROVE  Kept(t)' /\ Tasked(t)'
BY DEF Kept, Tasked, ClearOnWay, KnownRises, AskedOnWay, AnswerOnWay, TaskToFollow,
       JobKnows, Importing, IdleImporter

LEMMA InitHolds == Init => LInv
<1> SUFFICES ASSUME Init PROVE LInv
  OBVIOUS
<1>1. /\ importer = IdleImporter /\ toMain = <<>> /\ toImport = <<>> /\ running
      /\ mem.ready = {}
  BY DEF Init, EmptyMemory
<1>2. Resting
  BY <1>1 DEF Resting, IdleImporter
<1> QED BY <1>1, <1>2, RestHolds DEF LInv

-----------------------------------------------------------------------------
(* Steps that leave the import thread alone: what they may do to a track. *)

\* The answers about t only get fewer; it becomes known by one with tags; a request
\* that is made says of t what is so.
Keeps(t) ==
    /\ importer' = importer
    /\ IsKnown(t) => IsKnown(t)'
    /\ IsKnown(t)' => IsKnown(t) \/ AnswerOnWay(toMain, t, TRUE)
    /\ AnswerOnWay(toMain', t, TRUE) => AnswerOnWay(toMain, t, TRUE)
    /\ AnswerOnWay(toMain', t, FALSE) => AnswerOnWay(toMain, t, FALSE)
    /\ ClearOnWay(toImport', t) => ClearOnWay(toImport, t)
    /\ AskedOnWay(toImport', t, TRUE) => AskedOnWay(toImport, t, TRUE) \/ IsKnown(t)
    /\ AskedOnWay(toImport', t, FALSE) => AskedOnWay(toImport, t, FALSE) \/ ~IsKnown(t)
    /\ KnownRises(toImport', t)

LEMMA KeptStays ==
  ASSUME NEW t, Kept(t), Keeps(t)
  PROVE  Kept(t)'
BY DEF Kept, Keeps, IsKnown, JobKnows, Importing

\* A task of a track with tags only stays, and what gets tags has one, or had its
\* answer before it.
Serves(t) ==
    /\ importer' = importer
    /\ t \in mem'.ready => mem'.metas[t] \notin {"none", "tags"}
    /\ TaskToFollow(toMain', t) => TaskToFollow(toMain, t)
    /\ mem'.metas[t] = "tags" =>
          \/ t \in mem'.tasks \/ TaskOnWay(toMain', t)
          \/ mem.metas[t] = "tags" /\ t \notin mem.tasks /\ ~TaskOnWay(toMain, t)
          \/ mem.metas[t] # "tags" /\ TaskToFollow(toMain, t)

\* No task is lost, see NoTaskLost.
Retains(t) ==
    InSession /\ (mem.metas[t] = "tags" => HasTask(t)) /\ mem'.metas[t] = "tags"
    => HasTask(t)'

LEMMA HasTaskIs ==
  ASSUME NEW t
  PROVE  /\ HasTask(t) <=> t \in mem.tasks \cup importer.fresh \/ TaskOnWay(toMain, t)
         /\ HasTask(t)' <=> t \in mem'.tasks \cup importer'.fresh \/ TaskOnWay(toMain', t)
BY DEF HasTask, TaskOnWay, TaskEvent

LEMMA TaskedStays ==
  ASSUME NEW t, Tasked(t), Serves(t)
  PROVE  Tasked(t)' /\ Retains(t)
<1>1. Tasked(t)'
  BY DEF Tasked, Serves
<1>2. Retains(t)
  BY HasTaskIs DEF Tasked, Serves, Retains
<1> QED BY <1>1, <1>2

\* What all but a few of these steps do: t is neither imported nor deleted, an event
\* that is not an answer is handled or posted.
Calm(t) ==
    /\ importer' = importer
    /\ IsKnown(t)' <=> IsKnown(t)
    /\ mem'.metas[t] = "tags" => mem.metas[t] = "tags" /\ (t \in mem.tasks => t \in mem'.tasks)
    /\ t \in mem'.ready => mem'.metas[t] \notin {"none", "tags"}

NoAnswer(t) ==
    /\ AnswerOnWay(toMain', t, TRUE) => AnswerOnWay(toMain, t, TRUE)
    /\ AnswerOnWay(toMain', t, FALSE) => AnswerOnWay(toMain, t, FALSE)
    /\ TaskToFollow(toMain', t) => TaskToFollow(toMain, t)
    /\ TaskOnWay(toMain, t) => TaskOnWay(toMain', t) \/ t \in mem'.tasks

Good(t) == Serves(t) /\ (t \notin Deletable => Keeps(t))

LEMMA CalmServes ==
  ASSUME NEW t, Calm(t), NoAnswer(t)
  PROVE  Serves(t)
BY DEF Calm, NoAnswer, Serves

LEMMA CalmIsGood ==
  ASSUME NEW t \in Tracks, LInv, Calm(t), NoAnswer(t), UNCHANGED toImport
  PROVE  Good(t)
<1>1. t \notin Deletable => KnownRises(toImport, t)
  BY DEF LInv, Kept
<1>2. t \notin Deletable => Keeps(t)
  BY <1>1 DEF Calm, NoAnswer, Keeps
<1> QED BY <1>2, CalmServes DEF Good

LEMMA OthersCome ==
  ASSUME TypeOK, NEW t,
         \/ UNCHANGED toMain
         \/ \E e : e.type = "ready" /\ toMain' = Append(toMain, e)
         \/ \E type \in {"addOne", "enqueue", "batch", "ready"} :
               /\ Delivers(toMain, type) /\ toMain' = Tail(toMain)
               /\ type = "enqueue" => Head(toMain).tracks \subseteq mem'.tasks
  PROVE  NoAnswer(t)
<1>1. toMain \in Seq(MainEvents)
  BY DEF TypeOK, QueuesOK
<1>2. ASSUME NEW e, e.type = "ready", toMain' = Append(toMain, e)
      PROVE  NoAnswer(t)
  <2>1. ~Answer(e, t, TRUE) /\ ~Answer(e, t, FALSE)
    BY <1>2 DEF Answer
  <2> QED BY <1>1, <1>2, <2>1, MainAppended DEF NoAnswer
<1>3. ASSUME toMain # <<>>, toMain' = Tail(toMain),
             TaskEvent(Head(toMain), t) => t \in mem'.tasks
      PROVE  NoAnswer(t)
  BY <1>1, <1>3, MainDelivered DEF NoAnswer
<1>4. CASE UNCHANGED toMain
  BY <1>4 DEF NoAnswer
<1> QED BY <1>2, <1>3, <1>4 DEF Delivers, TaskEvent

-----------------------------------------------------------------------------
(* Requests of the user. *)

\* A request says what is known.
LEMMA RequestGood ==
  ASSUME TypeOK, LInv, NEW t \in Tracks, NEW files, NEW target, NEW withPlay,
         ImportMetas(files, target, withPlay)
  PROVE  Good(t)
<1> DEFINE e == [type |-> "import", files |-> files, target |-> target,
                 withPlay |-> withPlay, known |-> Known(mem),
                 listed |-> mem.lists[IF target = "" THEN "all" ELSE target]]
<1>1. /\ toImport \in Seq(ImportEvents) /\ toImport' = Append(toImport, e)
      /\ UNCHANGED <<mem, toMain, importer>>
  BY DEF ImportMetas, TypeOK, QueuesOK
<1>2. e.type = "import" /\ (t \in e.known <=> IsKnown(t))
  BY DEF Known, IsKnown
<1> HIDE DEF e
<1>3. /\ Asked(e, t, TRUE) <=> IsKnown(t)
      /\ Asked(e, t, FALSE) <=> ~IsKnown(t)
  BY <1>2 DEF Asked
<1>4. Tasked(t)
  BY DEF LInv
<1>5. Calm(t) /\ NoAnswer(t)
  BY <1>1, <1>4 DEF Calm, NoAnswer, IsKnown, Tasked
<1>6. ASSUME t \notin Deletable PROVE Keeps(t)
  <2>1. Kept(t)
    BY <1>6 DEF LInv
  <2>2. ClearOnWay(toImport', t) => ClearOnWay(toImport, t)
    BY <1>1, <1>2, RequestAppended
  <2>3. \A k : AskedOnWay(toImport', t, k) => AskedOnWay(toImport, t, k) \/ Asked(e, t, k)
    BY <1>1, RequestAppended
  <2>4. KnownRises(toImport', t)
    BY <1>1, <1>3, <2>1, RequestAppended DEF Kept
  <2> QED BY <1>3, <1>5, <2>2, <2>3, <2>4 DEF Keeps, Calm, NoAnswer
<1> QED BY <1>5, <1>6, CalmServes DEF Good

\* A deletion is of a track that may be deleted.
LEMMA RemoveGood ==
  ASSUME TypeOK, LInv, NEW t \in Tracks, NEW u \in Deletable, RemoveFromAll(u)
  PROVE  Good(t)
<1> DEFINE e == [type |-> "clear", track |-> u]
<1>1. /\ toImport \in Seq(ImportEvents) /\ toImport' = Append(toImport, e)
      /\ mem \in MemoryState /\ u \in Tracks
      /\ UNCHANGED <<toMain, importer>>
  BY DeletableAssumption DEF RemoveFromAll, TypeOK, QueuesOK
<1>2. mem' = WithoutTasks([mem EXCEPT !.metas[u] = "none", !.dirty = TRUE,
                              !.lists = [l \in AllLists |-> @[l] \ {u}]], {u})
  BY Zenon DEF RemoveFromAll
<1>3. /\ mem'.metas = [mem.metas EXCEPT ![u] = "none"]
      /\ mem'.tasks = mem.tasks \ {u} /\ mem'.ready = mem.ready \ {u}
  BY <1>1, <1>2 DEF WithoutTasks, MemoryState
<1>4. Tasked(t)
  BY DEF LInv
<1>5. CASE t = u
  BY <1>1, <1>3, <1>5 DEF Good, Serves, MemoryState
<1>6. CASE t # u
  <2>1. mem'.metas[t] = mem.metas[t]
    BY <1>1, <1>3, <1>6 DEF MemoryState
  <2>2. Calm(t) /\ NoAnswer(t)
    BY <1>1, <1>3, <1>4, <1>6, <2>1 DEF Calm, NoAnswer, IsKnown, Tasked
  <2>3. e.type = "clear" /\ e.track = u
    OBVIOUS
  <2> HIDE DEF e
  <2>4. ~Asked(e, t, TRUE) /\ ~Asked(e, t, FALSE)
    BY <2>3 DEF Asked
  <2>5. ASSUME t \notin Deletable PROVE Keeps(t)
    <3>1. KnownRises(toImport, t)
      BY <2>5 DEF LInv, Kept
    <3>2. ClearOnWay(toImport', t) => ClearOnWay(toImport, t)
      BY <1>1, <1>6, <2>3, RequestAppended
    <3>3. \A k : AskedOnWay(toImport', t, k) => AskedOnWay(toImport, t, k) \/ Asked(e, t, k)
      BY <1>1, RequestAppended
    <3>4. KnownRises(toImport', t)
      BY <1>1, <2>4, <3>1, RequestAppended
    <3> QED BY <2>2, <2>4, <3>2, <3>3, <3>4 DEF Keeps, Calm, NoAnswer
  <2> QED BY <2>2, <2>5, CalmServes DEF Good
<1> QED BY <1>5, <1>6

\* Memory as far as tracks and tasks go.
LEMMA SameIsCalm ==
  ASSUME NEW t \in Tracks, LInv, importer' = importer,
         mem'.metas = mem.metas, mem'.tasks = mem.tasks, mem'.ready = mem.ready
  PROVE  Calm(t)
BY DEF LInv, Tasked, Calm, IsKnown

LEMMA UserGood ==
  ASSUME TypeOK, LInv, UserStep, NEW t \in Tracks
  PROVE  Good(t)
<1>1. mem \in MemoryState
  BY DEF TypeOK
<1>2. ASSUME UNCHANGED <<toMain, toImport, importer>>,
             mem'.metas = mem.metas, mem'.tasks = mem.tasks, mem'.ready = mem.ready
      PROVE  Good(t)
  BY <1>2, SameIsCalm, OthersCome, CalmIsGood
<1>3. CASE \E files \in SUBSET Tracks : \E target \in ImportTargets :
             \E withPlay \in BOOLEAN : ImportMetas(files, target, withPlay)
  BY <1>3, RequestGood
<1>4. ASSUME NEW u \in Tracks, NEW l \in EditedLists, NEW current \in BOOLEAN,
             \/ AddToPlayList(u, l, current)
             \/ RemoveFromOne(u, l)
             \/ ClearPlayList(l)
      PROVE  Good(t)
  <2>1. mem'.metas = mem.metas /\ mem'.tasks = mem.tasks /\ mem'.ready = mem.ready
    BY <1>1, <1>4 DEF AddToPlayList, RemoveFromOne, ClearPlayList, MemoryState
  <2>2. UNCHANGED <<toMain, toImport, importer>>
    BY <1>4 DEF AddToPlayList, RemoveFromOne, ClearPlayList, queues
  <2> QED BY <1>2, <2>1, <2>2
<1>5. CASE \E u \in Deletable : RemoveFromAll(u)
  BY <1>5, RemoveGood
<1>6. ASSUME NEW ok, SaveDataToDB(ok) \/ AddPlayList(ok) PROVE Good(t)
  <2> DEFINE dirty == ~ok
  <2>1. mem' = [mem EXCEPT !.dirty = dirty] /\ UNCHANGED <<toMain, toImport, importer>>
    BY <1>6 DEF SaveDataToDB, AddPlayList, queues
  <2> HIDE DEF dirty
  <2>2. mem'.metas = mem.metas /\ mem'.tasks = mem.tasks /\ mem'.ready = mem.ready
    BY <1>1, <2>1 DEF MemoryState
  <2> QED BY <1>2, <2>1, <2>2
<1>7. CASE \E l \in EditedLists : ClearPlayList(l)
  BY <1>4, <1>7
<1> QED BY <1>3, <1>4, <1>5, <1>6, <1>7, Zenon DEF UserStep

-----------------------------------------------------------------------------
(* Slots of the data manager. *)

\* slotAddOneMeta(): what becomes of the tracks; the empty hash is none.
LEMMA AddOneDoes ==
  ASSUME TypeOK, SlotAddOneMeta
  PROVE  LET e == Head(toMain)
             new == "all" \in e.lists /\ e.track \notin Known(mem)
         IN  /\ e.track \in Tracks /\ e.whole \in BOOLEAN /\ e.type = "addOne"
             /\ toMain # <<>> /\ toMain' = Tail(toMain)
             /\ mem'.metas = (IF new THEN [mem.metas EXCEPT ![e.track] =
                                              IF e.whole THEN "tags" ELSE "hash"]
                              ELSE mem.metas)
             /\ mem'.tasks = mem.tasks /\ mem'.ready = mem.ready
             /\ UNCHANGED <<toImport, importer, running>>
<1> DEFINE e == Head(toMain)
           new == "all" \in e.lists /\ e.track \notin Known(mem)
           hash == IF new \/ e.track \in Known(mem) THEN e.track ELSE NoTrack
           quality == IF e.whole THEN "tags" ELSE "hash"
           lists == [l \in AllLists |-> IF l \in e.lists THEN mem.lists[l] \cup {hash}
                                        ELSE mem.lists[l]]
           added == [mem EXCEPT !.metas[e.track] = quality,
                       !.imported = Append(@, [track |-> e.track, quality |-> quality])]
           base == IF new THEN added ELSE mem
           dirty == base.dirty \/ new \/ lists # mem.lists
<1>1. mem \in MemoryState /\ toMain \in Seq(MainEvents)
  BY DEF TypeOK, QueuesOK
<1>2. /\ e \in AddOneEvent /\ e.type = "addOne" /\ toMain # <<>> /\ toMain' = Tail(toMain)
      /\ UNCHANGED <<toImport, importer, running>>
  BY <1>1, Taken, MainEventTypes DEF SlotAddOneMeta, Delivers
<1>3. mem' = [base EXCEPT !.lists = lists, !.dirty = dirty]
  BY Zenon DEF SlotAddOneMeta
<1>4. /\ base.metas = (IF new THEN [mem.metas EXCEPT ![e.track] = quality] ELSE mem.metas)
      /\ base.tasks = mem.tasks /\ base.ready = mem.ready
      /\ base = [f \in DOMAIN mem |-> base[f]]
  <2> HIDE DEF e, new, quality
  <2> QED BY <1>1 DEF MemoryState
<1> HIDE DEF base, lists, dirty
<1>5. mem'.metas = base.metas /\ mem'.tasks = base.tasks /\ mem'.ready = base.ready
  BY <1>1, <1>3, <1>4 DEF MemoryState
<1>6. e.track \in Tracks /\ e.whole \in BOOLEAN
  <2> HIDE DEF e
  <2> QED BY <1>2 DEF AddOneEvent
<1> QED BY <1>2, <1>4, <1>5, <1>6, Zenon

LEMMA AddOneGood ==
  ASSUME TypeOK, LInv, SlotAddOneMeta, NEW t \in Tracks
  PROVE  Good(t)
<1> DEFINE e == Head(toMain)
           new == "all" \in e.lists /\ e.track \notin Known(mem)
<1>1. /\ e.track \in Tracks /\ e.whole \in BOOLEAN /\ e.type = "addOne"
      /\ toMain # <<>> /\ toMain' = Tail(toMain)
      /\ mem'.metas = (IF new THEN [mem.metas EXCEPT ![e.track] =
                                       IF e.whole THEN "tags" ELSE "hash"]
                       ELSE mem.metas)
      /\ mem'.tasks = mem.tasks /\ mem'.ready = mem.ready
      /\ UNCHANGED <<toImport, importer, running>>
  BY AddOneDoes, Zenon
<1>2. mem \in MemoryState /\ toMain \in Seq(MainEvents) /\ Delivers(toMain, "addOne")
  BY DEF TypeOK, QueuesOK, SlotAddOneMeta
<1>3. new => ~IsKnown(e.track)
  BY <1>1 DEF Known, IsKnown
<1> HIDE DEF e, new
<1>4. NoAnswer(t)
  BY <1>1, <1>2, OthersCome
<1>5. Tasked(t)
  BY DEF LInv
<1>6. CASE ~(new /\ t = e.track)
  <2>1. mem'.metas[t] = mem.metas[t]
    BY <1>1, <1>2, <1>6 DEF MemoryState
  <2>2. Calm(t)
    BY <1>1, <1>5, <2>1 DEF Calm, Tasked, IsKnown
  <2> QED BY <1>1, <1>4, <2>2, CalmIsGood
<1>7. CASE new /\ t = e.track
  <2>1. /\ ~IsKnown(t)
        /\ mem'.metas[t] = IF e.whole THEN "tags" ELSE "hash"
    BY <1>1, <1>2, <1>3, <1>7 DEF MemoryState
  <2>2. Answer(e, t, e.whole)
    BY <1>1, <1>7 DEF Answer
  <2>3. /\ Answer(e, t, TRUE) => TaskToFollow(toMain, t) \/ TaskOnWay(toMain', t)
        /\ Answer(e, t, e.whole) => AnswerOnWay(toMain, t, e.whole)
    BY <1>1, <1>2, MainDelivered DEF e
  <2>4. t \notin mem'.ready
    BY <1>1, <1>5, <2>1 DEF Tasked, IsKnown
  <2>5. Serves(t)
    BY <1>1, <1>4, <2>1, <2>2, <2>3, <2>4 DEF Serves, NoAnswer, IsKnown
  <2>6. ASSUME t \notin Deletable PROVE Keeps(t)
    <3>1. Kept(t)
      BY <2>6 DEF LInv
    <3>2. AnswerOnWay(toMain, t, TRUE)
      BY <1>1, <2>1, <2>2, <2>3, <3>1 DEF Kept
    <3> QED BY <1>1, <1>4, <2>1, <3>1, <3>2 DEF Keeps, Kept, NoAnswer
  <2> QED BY <2>5, <2>6 DEF Good
<1> QED BY <1>6, <1>7

\* slotMetaAnalysisReady(): the track has its result, or is gone.
LEMMA ResultGood ==
  ASSUME TypeOK, LInv, SlotMetaAnalysisReady, NEW t \in Tracks
  PROVE  Good(t)
<1> DEFINE u == Head(toMain).track
           quality == IF mem.metas[u] = "hash" THEN "hash" ELSE "full"
           entries == Synced(mem.imported, u, quality)
<1>1. /\ mem \in MemoryState /\ Delivers(toMain, "ready") /\ toMain' = Tail(toMain)
      /\ UNCHANGED <<toImport, importer>>
  BY DEF TypeOK, SlotMetaAnalysisReady
<1>2. \/ mem' = mem
      \/ u \notin Known(mem) /\ mem' = WithoutTasks(mem, {u})
      \/ u \in Known(mem)
         /\ mem' = [mem EXCEPT !.metas[u] = quality, !.dirty = TRUE,
                        !.imported = entries, !.ready = @ \cup {u}, !.timer = TRUE]
  BY Zenon DEF SlotMetaAnalysisReady
<1>3. quality \in {"hash", "full"}
  OBVIOUS
<1> HIDE DEF u, quality, entries
<1>4. NoAnswer(t)
  BY <1>1, OthersCome
<1>5. Tasked(t)
  BY DEF LInv
<1>6. CASE mem' = mem
  BY <1>1, <1>4, <1>6, SameIsCalm, CalmIsGood
<1>7. CASE u \notin Known(mem) /\ mem' = WithoutTasks(mem, {u})
  <2>1. /\ mem'.metas = mem.metas /\ mem'.tasks = mem.tasks \ {u}
        /\ mem'.ready = mem.ready \ {u}
    BY <1>1, <1>7 DEF WithoutTasks, MemoryState
  <2>2. t = u => mem.metas[t] = "none"
    BY <1>7 DEF Known
  <2>3. Calm(t)
    BY <1>1, <1>5, <2>1, <2>2 DEF Calm, Tasked, IsKnown
  <2> QED BY <1>1, <1>4, <2>3, CalmIsGood
<1>8. CASE /\ u \in Known(mem)
           /\ mem' = [mem EXCEPT !.metas[u] = quality, !.dirty = TRUE,
                          !.imported = entries, !.ready = @ \cup {u}, !.timer = TRUE]
  <2>1. /\ mem'.metas = [mem.metas EXCEPT ![u] = quality] /\ mem'.tasks = mem.tasks
        /\ mem'.ready = mem.ready \cup {u}
    BY <1>1, <1>8 DEF MemoryState
  <2>2. t = u => mem'.metas[t] = quality /\ mem.metas[t] # "none"
    BY <1>1, <1>8, <2>1 DEF Known, MemoryState
  <2>3. t # u => mem'.metas[t] = mem.metas[t]
    BY <1>1, <2>1 DEF MemoryState
  <2>4. Calm(t)
    BY <1>1, <1>3, <1>5, <2>1, <2>2, <2>3 DEF Calm, Tasked, IsKnown
  <2> QED BY <1>1, <1>4, <2>4, CalmIsGood
<1> QED BY <1>2, <1>6, <1>7, <1>8

\* Only the tasks whose results are held are done when a batch is written.
LEMMA BatchGood ==
  ASSUME TypeOK, LInv, NEW ok, SlotMetaBatchFinished(ok) \/ UpsertTimeout(ok),
         NEW t \in Tracks
  PROVE  Good(t)
<1> DEFINE flushed == FlushedMemory(mem, ok)
<1>1. /\ mem \in MemoryState
      /\ mem' = flushed \/ mem' = [flushed EXCEPT !.timer = FALSE]
      /\ UNCHANGED <<toImport, importer>>
      /\ UNCHANGED toMain \/ (Delivers(toMain, "batch") /\ toMain' = Tail(toMain))
  BY DEF TypeOK, SlotMetaBatchFinished, UpsertTimeout, queues
<1>2. /\ flushed \in MemoryState /\ flushed.metas = mem.metas
      /\ \/ flushed.tasks = mem.tasks /\ flushed.ready = mem.ready
         \/ flushed.tasks = mem.tasks \ mem.ready /\ flushed.ready = {}
  <2>1. flushed \in MemoryState /\ flushed.metas = mem.metas
    BY <1>1, FlushedType DEF TypeOK
  <2>2. flushed = mem \/ flushed = [WithoutTasks(mem, mem.ready) EXCEPT !.imported = <<>>]
    BY Zenon DEF FlushedMemory
  <2> HIDE DEF flushed
  <2> QED BY <1>1, <2>1, <2>2 DEF WithoutTasks, MemoryState
<1> HIDE DEF flushed
<1>3. /\ mem'.metas = mem.metas
      /\ \/ mem'.tasks = mem.tasks /\ mem'.ready = mem.ready
         \/ mem'.tasks = mem.tasks \ mem.ready /\ mem'.ready = {}
  BY <1>1, <1>2 DEF MemoryState
<1>4. NoAnswer(t)
  BY <1>1, OthersCome
<1>5. Tasked(t)
  BY DEF LInv
<1>6. Calm(t)
  BY <1>1, <1>3, <1>5 DEF Calm, Tasked, IsKnown
<1> QED BY <1>1, <1>4, <1>6, CalmIsGood

LEMMA MainGood ==
  ASSUME TypeOK, LInv, MainStep, NEW t \in Tracks
  PROVE  Good(t)
<1>1. mem \in MemoryState /\ Tasked(t)
  BY DEF TypeOK, LInv
<1>2. CASE PrepareStartupAssets
  <2> DEFINE there == mem.worker \/ RestoredSafe(mem) # {}
             left == Restored(mem)
  <2>1. /\ mem' = [mem EXCEPT !.prepared = TRUE, !.tasks = left, !.worker = there]
        /\ UNCHANGED <<toMain, toImport, importer>>
    BY <1>2 DEF PrepareStartupAssets
  <2>2. t \in left <=> t \in mem.tasks /\ IsKnown(t)
    BY DEF Restored, Known, IsKnown
  <2> HIDE DEF left, there
  <2>3. mem'.metas = mem.metas /\ mem'.tasks = left /\ mem'.ready = mem.ready
    BY <1>1, <2>1 DEF MemoryState
  <2>4. Calm(t) /\ NoAnswer(t)
    BY <1>1, <2>1, <2>2, <2>3, OthersCome DEF Calm, Tasked, IsKnown
  <2> QED BY <2>1, <2>4, CalmIsGood
<1>3. CASE SlotEnqueueMetaTasks
  <2> DEFINE there == mem.worker \/ mem.prepared
             more == mem.tasks \cup Head(toMain).tracks
  <2>1. /\ mem' = [mem EXCEPT !.tasks = more, !.worker = there]
        /\ Delivers(toMain, "enqueue") /\ toMain' = Tail(toMain)
        /\ UNCHANGED <<toImport, importer>>
    BY <1>3 DEF SlotEnqueueMetaTasks
  <2>2. mem.tasks \subseteq more /\ Head(toMain).tracks \subseteq more
    OBVIOUS
  <2> HIDE DEF more, there
  <2>3. mem'.metas = mem.metas /\ mem'.tasks = more /\ mem'.ready = mem.ready
    BY <1>1, <2>1 DEF MemoryState
  <2>4. Calm(t) /\ NoAnswer(t)
    BY <1>1, <2>1, <2>2, <2>3, OthersCome DEF Calm, Tasked, IsKnown
  <2> QED BY <2>1, <2>4, CalmIsGood
<1> QED BY <1>2, <1>3, AddOneGood, ResultGood, BatchGood, Zenon DEF MainStep

\* The worker only posts results.
LEMMA WorkerGood ==
  ASSUME TypeOK, LInv, WorkerStep, UNCHANGED <<mem, importer>>, NEW t \in Tracks
  PROVE  Good(t)
<1>1. UNCHANGED toImport
  BY DEF WorkerStep, EnqueueMetas, ClearMetaHash, ProcessNext, FinishTask
<1>2. UNCHANGED toMain \/ \E e : e.type = "ready" /\ toMain' = Append(toMain, e)
  <2>1. CASE FinishTask
    <3> DEFINE e == [type |-> "ready", track |-> worker.task.track,
                     generation |-> worker.task.id]
    <3>1. e.type = "ready" /\ (UNCHANGED toMain \/ toMain' = Append(toMain, e))
      BY <2>1 DEF FinishTask
    <3> HIDE DEF e
    <3> QED BY <3>1
  <2>2. CASE ~FinishTask
    BY <2>2 DEF WorkerStep, EnqueueMetas, ClearMetaHash, ProcessNext
  <2> QED BY <2>1, <2>2
<1>3. Calm(t) /\ NoAnswer(t)
  BY <1>2, SameIsCalm, OthersCome
<1> QED BY <1>1, <1>3, CalmIsGood

-----------------------------------------------------------------------------
(* Steps of the import thread. *)

Goes(t) == (t \notin Deletable => Kept(t)') /\ Tasked(t)' /\ Retains(t)

\* The thread stops with the process, and starts an import with nothing parsed.
LEMMA ImportRests ==
  ASSUME TypeOK, LInv, ImportStep, UNCHANGED running
  PROVE  running /\ Resting'
<1>1. running
  <2>1. ~running => importer.phase = "idle" /\ toImport = <<>>
    BY DEF LInv, Resting, IdleImporter
  <2>2. importer.phase # "idle" \/ toImport # <<>>
    BY DEF ImportStep, BeginImport, ImportFile, EndFiles, EmitEnqueue,
           EmitBatchFinished, ClearImportingHash, Delivers
  <2> QED BY <2>1, <2>2
<1>2. importer \in ImporterState
  BY DEF TypeOK, ImporterOK
<1>3. importer'.phase = "idle" => importer'.fresh = {}
  <2>1. CASE BeginImport
    BY <2>1 DEF BeginImport
  <2>2. ASSUME NEW f, ImportFile(f) PROVE importer'.phase = "files"
    <3> DEFINE done == [importer EXCEPT !.files = @ \ {f}]
               parsed == [done EXCEPT !.importing = @ \cup {f}]
    <3>1. importer' \in {done, parsed, [parsed EXCEPT !.fresh = @ \cup {f}]}
      BY <2>2, Zenon DEF ImportFile
    <3>2. importer.phase = "files"
      BY <2>2 DEF ImportFile
    <3> QED BY <1>2, <3>1, <3>2 DEF ImporterState
  <2>3. CASE EndFiles \/ EmitEnqueue
    BY <1>2, <2>3 DEF EndFiles, EmitEnqueue, ImporterState
  <2>4. CASE EmitBatchFinished
    BY <1>2, <2>4 DEF EmitBatchFinished, IdleImporter, ImporterState
  <2>5. CASE ClearImportingHash
    BY <1>2, <2>5 DEF ClearImportingHash, ImporterState, LInv, Resting, Importing
  <2> QED BY <2>1, <2>2, <2>3, <2>4, <2>5 DEF ImportStep
<1> QED BY <1>1, <1>3 DEF Resting, Importing

\* A request of a track that is known has it known; no earlier one is left.
LEMMA BeginGoes ==
  ASSUME TypeOK, LInv, BeginImport, UNCHANGED mem, NEW t \in Tracks
  PROVE  Goes(t)
<1> DEFINE e == Head(toImport)
<1>1. /\ toImport \in Seq(ImportEvents) /\ toImport # <<>> /\ toImport' = Tail(toImport)
      /\ e.type = "import" /\ importer.phase = "idle" /\ UNCHANGED toMain
      /\ importer'.phase = "files" /\ importer'.job = e /\ importer'.fresh = {}
      /\ importer'.importing = importer.importing \ e.known
  BY DEF TypeOK, QueuesOK, BeginImport, Delivers
<1>2. importer.fresh = {} /\ ~Importing /\ ~JobKnows(t)
  BY <1>1 DEF LInv, Resting, Importing, JobKnows
<1>3. /\ Asked(e, t, TRUE) <=> t \in e.known
      /\ Asked(e, t, FALSE) <=> t \notin e.known
  BY <1>1 DEF Asked
<1>4. ASSUME t \notin Deletable PROVE Kept(t)'
  <2>1. Kept(t)
    BY <1>4 DEF LInv
  <2>2. /\ ClearOnWay(toImport', t) => ClearOnWay(toImport, t)
        /\ \A k : /\ AskedOnWay(toImport', t, k) => AskedOnWay(toImport, t, k)
                  /\ Asked(e, t, k) => AskedOnWay(toImport, t, k)
        /\ KnownRises(toImport', t)
        /\ Asked(e, t, TRUE) => ~AskedOnWay(toImport', t, FALSE)
    BY <1>1, <2>1, RequestDelivered DEF Kept
  <2> HIDE DEF e
  <2> QED BY <1>1, <1>3, <2>1, <2>2 DEF Kept, IsKnown, JobKnows, Importing
<1>5. Tasked(t)
  BY DEF LInv
<1>6. Tasked(t)'
  BY <1>1, <1>2, <1>5 DEF Tasked
<1>7. Retains(t)
  BY <1>1, <1>2, HasTaskIs DEF Retains
<1> QED BY <1>4, <1>6, <1>7 DEF Goes

\* What a file leaves of the import: it goes on, and what it parses has tags to come.
LEMMA FileGoes ==
  ASSUME TypeOK, LInv, NEW f \in Tracks, ImportFile(f), UNCHANGED mem, NEW t \in Tracks
  PROVE  Goes(t)
<1> DEFINE done == [importer EXCEPT !.files = @ \ {f}]
           parsed == [done EXCEPT !.importing = @ \cup {f}]
           whole == [parsed EXCEPT !.fresh = @ \cup {f}]
           e(lists, w) == [type |-> "addOne", lists |-> lists, track |-> f, whole |-> w]
<1>1. /\ importer \in ImporterState /\ toMain \in Seq(MainEvents)
      /\ importer.phase = "files" /\ UNCHANGED toImport
      /\ Tasked(t)
  BY DEF TypeOK, ImporterOK, QueuesOK, ImportFile, LInv
<1>2. /\ importer'.phase = importer.phase /\ importer'.job = importer.job
      /\ \/ /\ importer'.importing = importer.importing /\ importer'.fresh = importer.fresh
            /\ \/ UNCHANGED toMain
               \/ \E l : toMain' = Append(toMain, e(l, FALSE)) /\ f \in importer.job.known
         \/ /\ importer'.importing = importer.importing \cup {f}
            /\ \/ importer'.fresh = importer.fresh /\ UNCHANGED toMain
               \/ /\ importer'.fresh = importer.fresh \cup {f}
                  /\ \E l : toMain' = Append(toMain, e(l, TRUE))
  <2>1. \/ importer' = whole /\ toMain' = Append(toMain, e(Destinations(f), TRUE))
        \/ importer' = parsed /\ UNCHANGED toMain
        \/ /\ OnlyLists(f) /\ importer' = done
           /\ toMain' = Append(toMain, e({importer.job.target}, FALSE))
        \/ importer' = done /\ UNCHANGED toMain
    BY Zenon DEF ImportFile, Emit
  <2>2. /\ done.phase = importer.phase /\ done.job = importer.job
        /\ done.importing = importer.importing /\ done.fresh = importer.fresh
        /\ parsed.phase = importer.phase /\ parsed.job = importer.job
        /\ parsed.importing = importer.importing \cup {f} /\ parsed.fresh = importer.fresh
        /\ whole.phase = importer.phase /\ whole.job = importer.job
        /\ whole.importing = importer.importing \cup {f}
        /\ whole.fresh = importer.fresh \cup {f}
    BY <1>1 DEF ImporterState
  <2>3. OnlyLists(f) => f \in importer.job.known
    BY DEF OnlyLists
  <2> HIDE DEF done, parsed, whole, e
  <2> QED BY <2>1, <2>2, <2>3
<1>3. \A l : \A w \in BOOLEAN :
         /\ \A x \in BOOLEAN : Answer(e(l, w), t, x) <=> t = f /\ x = w
         /\ ~TaskEvent(e(l, w), t)
  BY DEF Answer, TaskEvent
<1> HIDE DEF e
<1>4. ASSUME NEW l, NEW w \in BOOLEAN, toMain' = Append(toMain, e(l, w))
      PROVE  /\ \A x \in BOOLEAN : AnswerOnWay(toMain', t, x)
                                      => AnswerOnWay(toMain, t, x) \/ (t = f /\ x = w)
             /\ TaskOnWay(toMain, t) => TaskOnWay(toMain', t)
             /\ TaskToFollow(toMain', t) => TaskToFollow(toMain, t) \/ (t = f /\ w = TRUE)
  <2>1. /\ \A x : AnswerOnWay(toMain', t, x) => AnswerOnWay(toMain, t, x) \/ Answer(e(l, w), t, x)
        /\ TaskOnWay(toMain, t) => TaskOnWay(toMain', t)
        /\ TaskToFollow(toMain', t) => TaskToFollow(toMain, t) \/ Answer(e(l, w), t, TRUE)
    BY <1>1, <1>4, MainAppended
  <2> QED BY <1>3, <2>1
<1>5. /\ AnswerOnWay(toMain', t, TRUE) => AnswerOnWay(toMain, t, TRUE) \/ t \in importer'.importing
      /\ AnswerOnWay(toMain', t, FALSE) =>
            AnswerOnWay(toMain, t, FALSE) \/ t \in importer.job.known
      /\ TaskOnWay(toMain, t) => TaskOnWay(toMain', t)
      /\ TaskToFollow(toMain', t) => TaskToFollow(toMain, t) \/ t \in importer'.fresh
      /\ importer.importing \subseteq importer'.importing
      /\ importer.fresh \subseteq importer'.fresh
  BY <1>2, <1>4
<1>6. ASSUME t \notin Deletable PROVE Kept(t)'
  <2>1. Kept(t)
    BY <1>6 DEF LInv
  <2> QED BY <1>1, <1>2, <1>5, <2>1 DEF Kept, IsKnown, JobKnows, Importing
<1>7. Tasked(t)'
  BY <1>1, <1>2, <1>5 DEF Tasked
<1>8. Retains(t)
  BY <1>5, HasTaskIs DEF Retains
<1> QED BY <1>6, <1>7, <1>8 DEF Goes

\* The end of an import: the tasks come after all the answers.
LEMMA EndGoes ==
  ASSUME TypeOK, LInv, EndFiles \/ EmitEnqueue \/ EmitBatchFinished, UNCHANGED mem,
         NEW t \in Tracks
  PROVE  Goes(t)
<1>1. /\ importer \in ImporterState /\ toMain \in Seq(MainEvents) /\ UNCHANGED toImport
      /\ importer.phase # "idle" /\ Tasked(t)
  BY DEF TypeOK, ImporterOK, QueuesOK, EndFiles, EmitEnqueue, EmitBatchFinished, queues, LInv
<1>2. /\ importer'.importing = importer.importing
      /\ importer'.phase # "idle" => importer'.job = importer.job
  BY <1>1 DEF EndFiles, EmitEnqueue, EmitBatchFinished, ImporterState, IdleImporter
<1>3. ASSUME t \notin Deletable,
             AnswerOnWay(toMain', t, TRUE) => AnswerOnWay(toMain, t, TRUE),
             AnswerOnWay(toMain', t, FALSE) => AnswerOnWay(toMain, t, FALSE)
      PROVE  Kept(t)'
  <2>1. Kept(t)
    BY <1>3 DEF LInv
  <2> QED BY <1>1, <1>2, <1>3, <2>1 DEF Kept, IsKnown, JobKnows, Importing
<1>4. CASE EndFiles
  <2>1. /\ UNCHANGED toMain /\ importer'.fresh = importer.fresh
        /\ importer'.phase = IF importer.fresh = {} THEN "batch" ELSE "enqueue"
    BY <1>1, <1>4 DEF EndFiles, queues, ImporterState
  <2>2. Tasked(t)' /\ Retains(t)
    BY <1>1, <2>1, HasTaskIs DEF Tasked, Retains
  <2> QED BY <1>3, <2>1, <2>2 DEF Goes
<1>5. CASE EmitEnqueue
  <2>1. importer'.fresh = importer.fresh /\ importer'.phase = "batch"
    BY <1>1, <1>5 DEF EmitEnqueue, ImporterState
  <2>2. PICK e : /\ e = [type |-> "enqueue", tracks |-> importer.fresh]
                 /\ toMain' = Append(toMain, e)
    BY <1>5 DEF EmitEnqueue
  <2>3. /\ TaskEvent(e, t) <=> t \in importer.fresh
        /\ ~Answer(e, t, TRUE) /\ ~Answer(e, t, FALSE)
    BY <2>2 DEF TaskEvent, Answer
  <2>4. /\ AnswerOnWay(toMain', t, TRUE) => AnswerOnWay(toMain, t, TRUE)
        /\ AnswerOnWay(toMain', t, FALSE) => AnswerOnWay(toMain, t, FALSE)
        /\ TaskToFollow(toMain', t) => TaskToFollow(toMain, t) /\ ~TaskEvent(e, t)
        /\ TaskOnWay(toMain, t) \/ TaskEvent(e, t) => TaskOnWay(toMain', t)
    BY <1>1, <2>2, <2>3, MainAppended
  <2>5. Tasked(t)' /\ Retains(t)
    BY <1>1, <2>1, <2>3, <2>4, HasTaskIs DEF Tasked, Retains
  <2> QED BY <1>3, <2>4, <2>5 DEF Goes
<1>6. CASE EmitBatchFinished
  <2>1. /\ importer'.fresh = {}
        /\ importer.phase = "batch" /\ importer'.phase = "idle"
    BY <1>1, <1>6 DEF EmitBatchFinished, IdleImporter, ImporterState
  <2>2. PICK e : e = [type |-> "batch"] /\ toMain' = Append(toMain, e)
    BY <1>6 DEF EmitBatchFinished
  <2>3. /\ AnswerOnWay(toMain', t, TRUE) => AnswerOnWay(toMain, t, TRUE)
        /\ AnswerOnWay(toMain', t, FALSE) => AnswerOnWay(toMain, t, FALSE)
        /\ TaskToFollow(toMain', t) => TaskToFollow(toMain, t)
        /\ TaskOnWay(toMain, t) => TaskOnWay(toMain', t)
    <3>1. ~Answer(e, t, TRUE) /\ ~Answer(e, t, FALSE)
      BY <2>2 DEF Answer
    <3> QED BY <1>1, <2>2, <3>1, MainAppended
  <2>4. Tasked(t)' /\ Retains(t)
    BY <1>1, <2>1, <2>3, HasTaskIs DEF Tasked, Retains
  <2> QED BY <1>3, <2>3, <2>4 DEF Goes
<1> QED BY <1>4, <1>5, <1>6

\* Only deleted tracks are forgotten.
LEMMA ClearGoes ==
  ASSUME TypeOK, LInv, ClearImportingHash, UNCHANGED mem, NEW t \in Tracks
  PROVE  Goes(t)
<1> DEFINE u == Head(toImport).track
<1>1. /\ importer \in ImporterState /\ toImport \in Seq(ImportEvents)
      /\ toImport # <<>> /\ toImport' = Tail(toImport) /\ Head(toImport).type = "clear"
      /\ importer.phase = "idle" /\ UNCHANGED toMain /\ Tasked(t)
      /\ importer' = [importer EXCEPT !.importing = @ \ {u}]
  BY DEF TypeOK, ImporterOK, QueuesOK, ClearImportingHash, Delivers, LInv
<1>2. /\ importer'.phase = "idle" /\ importer'.fresh = importer.fresh
      /\ importer'.importing = importer.importing \ {u}
  BY <1>1 DEF ImporterState
<1>3. ASSUME t \notin Deletable PROVE Kept(t)'
  <2>1. Kept(t)
    BY <1>3 DEF LInv
  <2>2. /\ ClearOnWay(toImport', t) => ClearOnWay(toImport, t)
        /\ u = t => ClearOnWay(toImport, t)
        /\ \A k : AskedOnWay(toImport', t, k) => AskedOnWay(toImport, t, k)
        /\ KnownRises(toImport', t)
    BY <1>1, <2>1, RequestDelivered DEF Kept
  <2> HIDE DEF u
  <2> QED BY <1>1, <1>2, <2>1, <2>2 DEF Kept, IsKnown, JobKnows, Importing
<1>4. Tasked(t)' /\ Retains(t)
  BY <1>1, <1>2, HasTaskIs DEF Tasked, Retains
<1> QED BY <1>3, <1>4 DEF Goes

-----------------------------------------------------------------------------
(* All steps, and the theorems. *)

\* Track f is parsed in this step only if nothing was known of it, see ImportedOnce.
Once(f) ==
    f \in importer'.importing \ importer.importing
    => /\ mem.metas[f] \in {"none", "hash"}
       /\ \A i \in DOMAIN toMain :
             ~(toMain[i].type = "addOne" /\ toMain[i].track = f /\ toMain[i].whole)

LEMMA NoneOnWay ==
  ASSUME TypeOK, NEW f, ~AnswerOnWay(toMain, f, TRUE), NEW i \in DOMAIN toMain
  PROVE  ~(toMain[i].type = "addOne" /\ toMain[i].track = f /\ toMain[i].whole)
<1>1. toMain[i] \in MainEvents
  BY DEF TypeOK, QueuesOK
<1>2. toMain[i].type = "addOne" => toMain[i].whole \in BOOLEAN
  BY <1>1, MainEventTypes DEF AddOneEvent
<1>3. toMain[i].whole = TRUE => ~(toMain[i].type = "addOne" /\ toMain[i].track = f)
  BY DEF AnswerOnWay, Answer
<1> QED BY <1>2, <1>3, Zenon

LEMMA ImportGoes ==
  ASSUME TypeOK, LInv, ImportStep, UNCHANGED mem, NEW t \in Tracks
  PROVE  Goes(t)
BY BeginGoes, FileGoes, EndGoes, ClearGoes, Zenon DEF ImportStep

\* A request that would parse a track again knows it, or finds it in m_importingHashes.
LEMMA ImportOnce ==
  ASSUME TypeOK, LInv, ImportStep, NEW t \in Tracks \ Deletable
  PROVE  Once(t)
<1>1. importer \in ImporterState /\ Kept(t)
  BY DEF TypeOK, ImporterOK, LInv
<1>2. ASSUME NEW f, ImportFile(f) PROVE Once(t)
  <2> DEFINE done == [importer EXCEPT !.files = @ \ {f}]
             parsed == [done EXCEPT !.importing = @ \cup {f}]
             whole == [parsed EXCEPT !.fresh = @ \cup {f}]
  <2>1. importer.phase = "files" /\ \/ Parses(f) /\ importer' \in {whole, parsed}
                                    \/ importer' = done
    BY <1>2, Zenon DEF ImportFile
  <2>2. /\ done.importing = importer.importing
        /\ parsed.importing = importer.importing \cup {f}
        /\ whole.importing = importer.importing \cup {f}
    BY <1>1 DEF ImporterState
  <2> HIDE DEF done, parsed, whole
  <2> SUFFICES ASSUME t \in importer'.importing, t \notin importer.importing
               PROVE  mem.metas[t] = "none" /\ ~AnswerOnWay(toMain, t, TRUE)
    BY NoneOnWay, Zenon DEF Once
  <2>3. t = f /\ Parses(f)
    BY <2>1, <2>2
  <2>4. Importing /\ ~JobKnows(t)
    BY <2>1, <2>3 DEF Importing, JobKnows, Parses
  <2> QED BY <1>1, <2>4 DEF Kept, IsKnown
<1>3. CASE BeginImport \/ EndFiles \/ EmitEnqueue \/ EmitBatchFinished \/ ClearImportingHash
  <2>1. importer'.importing \subseteq importer.importing
    BY <1>1, <1>3 DEF BeginImport, EndFiles, EmitEnqueue, EmitBatchFinished,
                      ClearImportingHash, IdleImporter, ImporterState
  <2> QED BY <2>1 DEF Once
<1> QED BY <1>2, <1>3 DEF ImportStep

LEMMA GoodGoes ==
  ASSUME LInv, NEW t \in Tracks, Good(t)
  PROVE  Goes(t) /\ Once(t)
<1>1. Tasked(t)' /\ Retains(t)
  BY TaskedStays DEF LInv, Good
<1>2. t \notin Deletable => Kept(t)'
  BY KeptStays DEF LInv, Good
<1> QED BY <1>1, <1>2 DEF Goes, Once, Good, Serves

LEMMA ProcessGoes ==
  ASSUME LInv, Ends \/ Starts
  PROVE  Resting' /\ \A t \in Tracks : Goes(t) /\ Once(t)
<1>1. /\ importer' = IdleImporter /\ toMain' = <<>> /\ toImport' = <<>>
      /\ mem'.ready = {} /\ ~InSession
  <2>1. CASE Ends
    BY <2>1 DEF Ends, EmptyMemory, InSession
  <2>2. CASE Starts
    <3> DEFINE loaded == [EmptyMemory EXCEPT !.metas = disk.rows, !.lists = disk.lists,
                                             !.tasks = disk.tasks]
               left == Restored(loaded)
    <3>1. mem' = [loaded EXCEPT !.tasks = left]
      BY <2>2, Zenon DEF Starts
    <3>2. ~running /\ UNCHANGED <<importer, toMain, toImport>>
      BY <2>2 DEF Starts, queues
    <3> HIDE DEF left
    <3> QED BY <3>1, <3>2 DEF EmptyMemory, InSession, LInv, Resting
  <2> QED BY <2>1, <2>2
<1>2. importer'.phase = "idle" /\ importer'.fresh = {} /\ importer'.importing = {}
  BY <1>1 DEF IdleImporter
<1>3. Resting'
  BY <1>1, <1>2 DEF Resting, Importing
<1>4. ASSUME NEW t \in Tracks PROVE Goes(t) /\ Once(t)
  <2>1. Kept(t)' /\ Tasked(t)'
    BY <1>1, RestBegins
  <2> QED BY <1>1, <1>2, <2>1 DEF Goes, Once, Retains
<1> QED BY <1>3, <1>4

LEMMA NextGoes ==
  ASSUME TypeOK, AInv, LInv, [Next]_vars
  PROVE  Resting' /\ \A t \in Tracks : Goes(t) /\ (t \notin Deletable => Once(t))
<1>1. ASSUME running, UNCHANGED <<running, importer>>, \A t \in Tracks : Good(t)
      PROVE  Resting' /\ \A t \in Tracks : Goes(t) /\ Once(t)
  <2>1. Resting'
    BY <1>1 DEF LInv, Resting, Importing
  <2> QED BY <1>1, <2>1, GoodGoes
<1>2. CASE UserStep
  <2>1. \A t \in Tracks : Good(t)
    BY <1>2, UserGood
  <2>2. running /\ UNCHANGED <<running, importer>>
    BY <1>2 DEF UserStep, ImportMetas, AddToPlayList, RemoveFromOne, ClearPlayList,
                RemoveFromAll, SaveDataToDB, AddPlayList
  <2> QED BY <1>1, <2>1, <2>2
<1>3. CASE MainStep
  <2>1. \A t \in Tracks : Good(t)
    BY <1>3, MainGood
  <2>2. running /\ UNCHANGED <<running, importer>>
    BY <1>3, Zenon DEF MainStep, PrepareStartupAssets, SlotAddOneMeta, SlotEnqueueMetaTasks,
                SlotMetaAnalysisReady, SlotMetaBatchFinished, UpsertTimeout
  <2> QED BY <1>1, <2>1, <2>2
<1>4. CASE ImportStep /\ UNCHANGED <<mem, disk, running, imports, worker>>
  BY <1>4, ImportRests, ImportGoes, ImportOnce
<1>5. CASE WorkerStep /\ UNCHANGED <<mem, disk, running, imports, importer>>
  <2>1. \A t \in Tracks : Good(t)
    BY <1>5, WorkerGood
  <2>2. toWorker # <<>> \/ worker.task # NoTask
    BY <1>5 DEF WorkerStep, EnqueueMetas, ClearMetaHash, ProcessNext, FinishTask, Delivers
  <2>3. running
    BY <2>2 DEF AInv, Sessions, IdleWorker
  <2> QED BY <1>1, <1>5, <2>1, <2>3
<1>6. CASE Ends \/ Starts
  BY <1>6, ProcessGoes
<1>7. CASE UNCHANGED vars
  <2>1. UNCHANGED <<mem, running, toMain, toImport, importer>>
    BY <1>7 DEF vars
  <2>2. \A t \in Tracks : Good(t)
    BY <2>1, SameIsCalm, OthersCome, CalmIsGood
  <2>3. Resting'
    BY <2>1 DEF LInv, Resting, Importing
  <2> QED BY <2>2, <2>3, GoodGoes
<1> QED BY <1>2, <1>3, <1>4, <1>5, <1>6, <1>7 DEF Next

LEMMA ImportInvariant == Spec => [](IInv /\ AInv /\ LInv)
<1>1. Init => AInv /\ LInv
  BY InitServes, InitHolds
<1>2. IInv /\ (AInv /\ LInv) /\ [Next]_vars => (AInv /\ LInv)'
  <2> SUFFICES ASSUME IInv, AInv, LInv, [Next]_vars PROVE AInv' /\ LInv'
    OBVIOUS
  <2>1. AInv'
    BY NextServes
  <2>2. Resting' /\ \A t \in Tracks : Goes(t)
    BY NextGoes DEF IInv
  <2> QED BY <2>1, <2>2 DEF LInv, Goes
<1> QED BY <1>1, <1>2, Invariant, PTL DEF Spec

\* A file that the user does not delete is parsed only when nothing is known of it and
\* nothing of it is on its way, so once in a session: whatever imports of it are asked
\* for before, during and after that one, each either knows the track or finds it in
\* m_importingHashes (importMetas, slotImportMetas, slotAddOneMeta).
THEOREM FilesAreParsedOnce == Spec => ImportedOnce
<1>1. IInv /\ AInv /\ LInv /\ [Next]_vars => [\A f \in Tracks \ Deletable : Once(f)]_vars
  BY NextGoes DEF IInv
<1>2. Spec => [][\A f \in Tracks \ Deletable : Once(f)]_vars
  BY <1>1, ImportInvariant, PTL DEF Spec
<1> QED BY <1>2 DEF ImportedOnce, Once

\* In a session no track that still lacks cover and lyrics loses its analysis task: it
\* is pending, on its way from the import, or what the import has yet to hand over
\* (signalEnqueueMetaTasks comes after the last signalAddOneMeta), whichever
\* deletions, results and batches cross.
THEOREM NoTaskIsLost == Spec => NoTaskLost
<1>1. IInv /\ AInv /\ LInv /\ [Next]_vars => [\A t \in Tracks : Retains(t)]_vars
  BY NextGoes DEF IInv, Goes
<1>2. Spec => [][\A t \in Tracks : Retains(t)]_vars
  BY <1>1, ImportInvariant, PTL DEF Spec
<1> QED BY <1>2 DEF NoTaskLost, Retains
=============================================================================
