-------------------------- MODULE CdaMonitorProofs --------------------------
(* Theorems of CdaMonitor, for any discs, however often they are changed and    *)
(* however late the GUI thread handles what it is told.                       *)
EXTENDS CdaMonitor, SequenceTheorems, TLAPS

-----------------------------------------------------------------------------
(* Types. *)

LEMMA TypeStep == TypeOK /\ [Next]_vars => TypeOK'
<1> SUFFICES ASSUME TypeOK, [Next]_vars PROVE TypeOK'
  OBVIOUS
<1>1. \A stat \in Statuses : Append(pending, stat) \in Seq(Statuses)
  BY DEF TypeOK
<1>2. \A disc \in Discs : disc \subseteq CdTracks
  BY DEF CdTracks
<1>3. CASE SendCdaStatus
  <2>1. pending' \in Seq(Statuses)
    BY <1>3 DEF SendCdaStatus, TypeOK
  <2>2. entries' \in Nat
    <3>1. entries' = (IF entries > 0 THEN entries - 1 ELSE 0) \/ entries' = entries + 1
      BY <1>3, Zenon DEF SendCdaStatus
    <3> QED BY <3>1 DEF TypeOK
  <2>3. queue' \subseteq Songs \cup CdTracks
    <3>1. queue' \subseteq queue
      BY <1>3 DEF SendCdaStatus
    <3> QED BY <3>1 DEF TypeOK
  <2> QED BY <1>3, <2>1, <2>2, <2>3 DEF SendCdaStatus, TypeOK, thread
<1>4. CASE PlayCd \/ CloseThread
  BY <1>4 DEF PlayCd, CloseThread, TypeOK, thread, user
<1>5. CASE \E songs \in SUBSET Songs : PlayOther(songs)
  BY <1>5 DEF PlayOther, TypeOK, thread
<1>6. CASE Poll
  <2>1. cdaStat' \in Statuses /\ pending' \in Seq(Statuses) /\ at' \in {"clear", "read"}
    <3>1. CASE drive = NoDisc
      <4>1. cdaStat' = "INVALID" /\ pending' = Append(pending, "INVALID") /\ at' = "clear"
        BY <1>6, <3>1 DEF Poll, SetCdaState
      <4> QED BY <1>1, <4>1 DEF Statuses
    <3>2. CASE drive # NoDisc
      BY <1>6, <3>2 DEF Poll, TypeOK
    <3> QED BY <3>1, <3>2
  <2> QED BY <1>6, <2>1 DEF Poll, TypeOK, user
<1>7. CASE ClearMediaList \/ EndRun
  BY <1>7 DEF ClearMediaList, EndRun, TypeOK, user
<1>8. CASE GetInputNode
  <2>1. mediaList' \subseteq CdTracks /\ nodes' \subseteq CdTracks /\ at' \in {"poll", "fill"}
    BY <1>2, <1>8 DEF GetInputNode, TypeOK
  <2> QED BY <1>8, <2>1 DEF GetInputNode, TypeOK, user
<1>9. CASE AddTrack
  BY <1>9 DEF AddTrack, TypeOK, user
<1>10. CASE Announce
  <2>1. cdaStat' \in Statuses /\ pending' \in Seq(Statuses)
    <3>1. CASE mediaList # {}
      <4>1. cdaStat' = "WITH_CD" /\ pending' = Append(pending, "WITH_CD")
        BY <1>10, <3>1 DEF Announce, SetCdaState
      <4> QED BY <1>1, <4>1 DEF Statuses
    <3>2. CASE mediaList = {}
      BY <1>10, <3>2 DEF Announce, TypeOK
    <3> QED BY <3>1, <3>2
  <2> QED BY <1>10, <2>1 DEF Announce, TypeOK, user
<1>11. CASE \E disc \in Discs \cup {NoDisc} : ChangeDisc(disc)
  BY <1>11 DEF ChangeDisc, TypeOK, thread, user
<1>12. CASE UNCHANGED vars
  BY <1>12 DEF vars, thread, user, TypeOK
<1> QED
  BY <1>3, <1>4, <1>5, <1>6, <1>7, <1>8, <1>9, <1>10, <1>11, <1>12
  DEF Next, GuiStep, ThreadStep

\* The states, the list, the queue and the entries are always of their types.
THEOREM CdaTypeCorrect == Spec => []TypeOK
<1>1. Init => TypeOK
  <2> SUFFICES ASSUME Init PROVE TypeOK
    OBVIOUS
  <2>1. pending \in Seq(Statuses)
    BY DEF Init
  <2> QED BY <2>1 DEF Init, TypeOK, Statuses
<1> QED BY <1>1, TypeStep, PTL DEF Spec

-----------------------------------------------------------------------------
(* The list and the status. *)

\* With a disc announced the list is whole, and the thread is at rest; while the list is
\* filled, what is there and what is to come is one disc.
FillInv ==
    /\ cdaStat = "WITH_CD" => mediaList \in Loaded /\ at \in {"poll", "ended"}
    /\ at = "fill" => mediaList \cup nodes \in Discs

LEMMA FillStep == TypeOK /\ FillInv /\ [Next]_vars => FillInv'
<1> SUFFICES ASSUME TypeOK, FillInv, [Next]_vars PROVE FillInv'
  OBVIOUS
<1>1. CASE GuiStep
  <2>1. UNCHANGED thread
    BY <1>1 DEF GuiStep, SendCdaStatus, PlayCd, CloseThread, PlayOther
  <2> QED BY <2>1 DEF FillInv, thread
<1>2. CASE Poll
  BY <1>2 DEF Poll, SetCdaState, FillInv
<1>3. CASE ClearMediaList
  BY <1>3 DEF ClearMediaList, FillInv
<1>4. CASE GetInputNode
  BY <1>4 DEF GetInputNode, FillInv, TypeOK
<1>5. CASE AddTrack
  <2>1. mediaList' \cup nodes' = mediaList \cup nodes
    BY <1>5 DEF AddTrack
  <2> QED BY <1>5, <2>1 DEF AddTrack, FillInv
<1>6. CASE Announce
  BY <1>6 DEF Announce, SetCdaState, FillInv, Loaded
<1>7. CASE EndRun
  BY <1>7 DEF EndRun, FillInv
<1>8. CASE \E disc \in Discs \cup {NoDisc} : ChangeDisc(disc)
  BY <1>8 DEF ChangeDisc, FillInv, thread
<1>9. CASE UNCHANGED vars
  BY <1>9 DEF vars, thread, FillInv
<1> QED
  BY <1>1, <1>2, <1>3, <1>4, <1>5, <1>6, <1>7, <1>8, <1>9 DEF Next, ThreadStep

-----------------------------------------------------------------------------
(* The statuses that are pending. *)

\* They take turns: the first is not what the sidebar shows already, the last is the state
\* of the thread.
TurnsInv ==
    /\ entries \in {0, 1}
    /\ pending = <<>> => (entries = 1 <=> cdaStat = "WITH_CD")
    /\ pending # <<>> => /\ pending[Len(pending)] = cdaStat
                         /\ entries = 0 <=> pending[1] = "WITH_CD"
    /\ \A i \in 1 .. Len(pending) - 1 : pending[i] # pending[i + 1]

\* What a step does to them.
LEMMA StatusStep ==
  ASSUME TypeOK, FillInv, [Next]_vars
  PROVE  \/ UNCHANGED <<pending, cdaStat, entries>>
         \/ \E stat \in Statuses \ {cdaStat} : SetCdaState(stat) /\ UNCHANGED entries
         \/ SendCdaStatus
<1>1. CASE GuiStep
  <2>1. CASE PlayCd \/ CloseThread
    BY <2>1 DEF PlayCd, CloseThread, thread, user
  <2>2. CASE \E songs \in SUBSET Songs : PlayOther(songs)
    BY <2>2 DEF PlayOther, thread
  <2> QED BY <1>1, <2>1, <2>2 DEF GuiStep
<1>2. CASE Poll
  <2>1. UNCHANGED entries
    BY <1>2 DEF Poll, user
  <2>2. CASE drive = NoDisc
    BY <1>2, <2>1, <2>2 DEF Poll, Statuses
  <2>3. CASE drive # NoDisc
    BY <1>2, <2>1, <2>3 DEF Poll
  <2> QED BY <2>2, <2>3
<1>3. CASE Announce
  <2>1. UNCHANGED entries
    BY <1>3 DEF Announce, user
  <2>2. CASE mediaList # {}
    BY <1>3, <2>1, <2>2 DEF Announce, Statuses, FillInv
  <2>3. CASE mediaList = {}
    BY <1>3, <2>1, <2>3 DEF Announce
  <2> QED BY <2>2, <2>3
<1>4. CASE ClearMediaList \/ GetInputNode \/ AddTrack \/ EndRun
  BY <1>4 DEF ClearMediaList, GetInputNode, AddTrack, EndRun, user
<1>5. CASE \E disc \in Discs \cup {NoDisc} : ChangeDisc(disc)
  BY <1>5 DEF ChangeDisc, thread, user
<1>6. CASE UNCHANGED vars
  BY <1>6 DEF vars, thread, user
<1> QED BY <1>1, <1>2, <1>3, <1>4, <1>5, <1>6 DEF Next, ThreadStep

LEMMA TurnsStep == TypeOK /\ FillInv /\ TurnsInv /\ [Next]_vars => TurnsInv'
<1> SUFFICES ASSUME TypeOK, FillInv, TurnsInv, [Next]_vars PROVE TurnsInv'
  OBVIOUS
<1>1. pending \in Seq(Statuses) /\ Len(pending) \in Nat /\ cdaStat \in Statuses
  BY DEF TypeOK
<1>2. CASE UNCHANGED <<pending, cdaStat, entries>>
  BY <1>2 DEF TurnsInv
<1>3. ASSUME NEW stat \in Statuses \ {cdaStat}, SetCdaState(stat), UNCHANGED entries
      PROVE  TurnsInv'
  <2>1. cdaStat' = stat /\ pending' = Append(pending, stat)
    BY <1>3 DEF SetCdaState
  <2>2. /\ pending' # <<>> /\ Len(pending') = Len(pending) + 1
        /\ pending'[Len(pending')] = stat
        /\ \A i \in 1 .. Len(pending) : pending'[i] = pending[i]
    BY <1>1, <2>1
  <2>3. entries = 0 <=> pending'[1] = "WITH_CD"
    <3>1. CASE pending = <<>>
      BY <1>1, <1>3, <2>1, <3>1 DEF TurnsInv, Statuses
    <3>2. CASE pending # <<>>
      <4>1. pending'[1] = pending[1]
        BY <1>1, <2>2, <3>2
      <4> QED BY <3>2, <4>1 DEF TurnsInv
    <3> QED BY <3>1, <3>2
  <2>4. ASSUME NEW i \in 1 .. Len(pending') - 1
        PROVE  pending'[i] # pending'[i + 1]
    <3>1. CASE i < Len(pending)
      <4>1. i \in 1 .. Len(pending) - 1
        BY <1>1, <2>2, <2>4, <3>1
      <4>2. pending'[i] = pending[i] /\ pending'[i + 1] = pending[i + 1]
        BY <1>1, <2>2, <4>1
      <4> QED BY <4>1, <4>2 DEF TurnsInv
    <3>2. CASE i = Len(pending)
      <4>1. pending # <<>> /\ pending'[i] = cdaStat
        BY <1>1, <2>2, <2>4, <3>2 DEF TurnsInv
      <4> QED BY <1>3, <2>2, <3>2, <4>1
    <3> QED BY <1>1, <2>2, <2>4, <3>1, <3>2
  <2> QED BY <1>3, <2>1, <2>2, <2>3, <2>4 DEF TurnsInv
<1>4. CASE SendCdaStatus
  <2>1. /\ pending # <<>> /\ pending' = Tail(pending) /\ cdaStat' = cdaStat
        /\ pending[1] = "INVALID" => entries' = IF entries > 0 THEN entries - 1 ELSE 0
        /\ pending[1] # "INVALID" => entries' = entries + 1
    BY <1>1, <1>4 DEF SendCdaStatus, thread
  <2>2. /\ Len(pending') = Len(pending) - 1 /\ Len(pending) > 0
        /\ \A i \in 1 .. Len(pending) - 1 : pending'[i] = pending[i + 1]
    BY <1>1, <2>1
  <2>3. pending[1] \in Statuses
    BY <1>1, <2>2
  <2>4. entries' \in {0, 1} /\ (entries' = 1 <=> pending[1] = "WITH_CD")
    BY <2>1, <2>3 DEF TurnsInv, Statuses
  <2>5. CASE Len(pending) = 1
    <3>1. pending' = <<>> /\ cdaStat = pending[1]
      BY <1>1, <2>1, <2>2, <2>5 DEF TurnsInv
    <3> QED BY <1>1, <2>1, <2>2, <2>4, <2>5, <3>1 DEF TurnsInv
  <2>6. CASE Len(pending) > 1
    <3>1. pending' # <<>> /\ pending'[Len(pending')] = pending[Len(pending)]
          /\ pending'[1] = pending[2] /\ pending[2] \in Statuses
      BY <1>1, <2>1, <2>2, <2>6
    <3>2. pending[1] # pending[2]
      <4>1. 1 \in 1 .. Len(pending) - 1
        BY <1>1, <2>6
      <4> QED BY <4>1 DEF TurnsInv
    <3>3. entries' = 0 <=> pending'[1] = "WITH_CD"
      BY <2>3, <2>4, <3>1, <3>2 DEF Statuses
    <3>4. \A i \in 1 .. Len(pending') - 1 : pending'[i] # pending'[i + 1]
      BY <1>1, <2>2 DEF TurnsInv
    <3>5. pending'[Len(pending')] = cdaStat'
      BY <2>1, <3>1 DEF TurnsInv
    <3> QED BY <2>4, <3>1, <3>3, <3>4, <3>5 DEF TurnsInv
  <2> QED BY <1>1, <2>2, <2>5, <2>6
<1> QED BY <1>2, <1>3, <1>4, StatusStep

-----------------------------------------------------------------------------
(* The queue. *)

LEMMA ListedStep == TurnsInv /\ TurnsInv' /\ CdTracksAreListed /\ [Next]_vars => CdTracksAreListed'
<1> SUFFICES ASSUME TurnsInv, TurnsInv', CdTracksAreListed, [Next]_vars
             PROVE  CdTracksAreListed'
  OBVIOUS
<1>1. CdTracks \intersect Songs = {}
  BY DiscsAssumption DEF CdTracks
<1>2. CASE SendCdaStatus
  <2>1. CASE Head(pending) = "INVALID"
    <3>1. queue' = queue \ CdTracks
      BY <1>2, <2>1, Zenon DEF SendCdaStatus
    <3>2. queue' \intersect CdTracks = {}
      BY <3>1
    <3> QED BY <3>2, Zenon DEF CdTracksAreListed
  <2>2. CASE Head(pending) # "INVALID"
    <3>1. entries' = entries + 1
      BY <1>2, <2>2, Zenon DEF SendCdaStatus
    <3>2. entries \in {0, 1} /\ entries' \in {0, 1}
      BY Zenon DEF TurnsInv
    <3>3. entries' = 1
      BY <3>1, <3>2
    <3> QED BY <3>3, Zenon DEF CdTracksAreListed
  <2> QED BY <2>1, <2>2
<1>3. CASE PlayCd
  BY <1>3 DEF PlayCd, TurnsInv, CdTracksAreListed
<1>4. CASE \E songs \in SUBSET Songs : PlayOther(songs)
  BY <1>1, <1>4 DEF PlayOther, CdTracksAreListed
<1>5. CASE CloseThread \/ ThreadStep \/ UNCHANGED vars
           \/ \E disc \in Discs \cup {NoDisc} : ChangeDisc(disc)
  <2>1. UNCHANGED user
    BY <1>5 DEF CloseThread, ThreadStep, Poll, ClearMediaList, GetInputNode, AddTrack, Announce,
                EndRun, ChangeDisc, vars
  <2> QED BY <2>1 DEF CdTracksAreListed, user
<1> QED BY <1>2, <1>3, <1>4, <1>5 DEF Next, GuiStep

-----------------------------------------------------------------------------

CdaInv == TypeOK /\ FillInv /\ TurnsInv /\ CdTracksAreListed

LEMMA CdaInvariant == Spec => []CdaInv
<1>1. Init => CdaInv
  <2> SUFFICES ASSUME Init PROVE CdaInv
    OBVIOUS
  <2>1. pending \in Seq(Statuses) /\ Len(pending) = 0
    BY DEF Init
  <2>2. TypeOK
    BY <2>1 DEF Init, TypeOK, Statuses
  <2>3. FillInv /\ TurnsInv
    BY <2>1 DEF Init, FillInv, TurnsInv
  <2>4. CdTracksAreListed
    BY DEF Init, CdTracksAreListed
  <2> QED BY <2>2, <2>3, <2>4 DEF CdaInv
<1>2. CdaInv /\ [Next]_vars => CdaInv'
  BY TypeStep, FillStep, TurnsStep, ListedStep DEF CdaInv
<1> QED BY <1>1, <1>2, PTL DEF Spec

\* The sidebar never has the drive twice, and agrees with the thread once all statuses have
\* been handled (CustomPlaylistModel.qml adds and removes an entry per status, unseen).
THEOREM SidebarAgrees == Spec => []OneEntry
<1>1. CdaInv => OneEntry
  BY DEF CdaInv, TurnsInv, OneEntry
<1> QED BY <1>1, CdaInvariant, PTL

\* What playPlaylist("cdarole") reads without a lock is whole and at rest when the sidebar
\* is up to date, because the list is filled before a disc is announced and cleared after
\* it has been called off.
THEOREM WholeDiscPlayed == Spec => []EntryPlaysWholeDisc
<1>1. CdaInv => EntryPlaysWholeDisc
  BY DEF CdaInv, FillInv, TurnsInv, EntryPlaysWholeDisc
<1> QED BY <1>1, CdaInvariant, PTL

\* The queue never keeps tracks of a disc that no later status would take out.
THEOREM NoGhostTracks == Spec => []CdTracksAreListed
BY CdaInvariant, PTL DEF CdaInv
=============================================================================
