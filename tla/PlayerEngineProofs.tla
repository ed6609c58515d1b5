------------------------- MODULE PlayerEngineProofs -------------------------
(* Theorems of PlayerEngine, for every number of tracks and every queue.   *)
EXTENDS PlayerEngine, FiniteSetTheorems, WellFoundedInduction, TLAPS

-----------------------------------------------------------------------------
(* The queue stays a queue. *)

\* A nonempty set of naturals has a least element.
LEMMA LeastNatural ==
  ASSUME NEW T \in SUBSET Nat, T # {}
  PROVE  \E m \in T : \A k \in T : m <= k
<1> DEFINE below(m) == 0 .. m - 1
           segments == {below(m) : m \in T}
           smaller == StrictSubsetOrdering(Nat)
<1>1. segments \subseteq FiniteSubsetsOf(Nat) /\ segments # {}
  <2>1. \A m \in Nat : below(m) \in FiniteSubsetsOf(Nat)
    BY FS_Interval DEF FiniteSubsetsOf
  <2> QED BY <2>1
<1>2. IsWellFoundedOn(smaller, FiniteSubsetsOf(Nat))
  BY FS_StrictSubsetOrderingWellFounded
<1>3. PICK x \in segments : \A y \in segments : ~(<<y, x>> \in smaller)
  <2> HIDE DEF segments, smaller
  <2> QED BY <1>1, <1>2, WFMin
<1>4. PICK m \in T : x = below(m)
  BY <1>3
<1>5. ASSUME NEW k \in T, ~(m <= k) PROVE FALSE
  <2>1. k \in below(m) /\ k \notin below(k)
    BY <1>5
  <2>2. below(k) \subseteq below(m) /\ below(k) # below(m)
    BY <2>1, <1>5
  <2>3. <<below(k), x>> \in smaller
    BY <2>2, <1>4 DEF StrictSubsetOrdering
  <2> QED BY <2>3, <1>3
<1> QED BY <1>5

\* In a finite set of positions each number up to its size is the number of
\* positions up to one of them.
LEMMA RankReached ==
  ASSUME NEW n \in Nat, NEW K \in SUBSET (1 .. n), NEW k \in 1 .. Cardinality(K)
  PROVE  \E i \in K : Cardinality({j \in K : j <= i}) = k
<1> DEFINE upTo(i) == {j \in K : j <= i}
           count(i) == Cardinality(upTo(i))
           reached == {i \in 0 .. n : count(i) >= k}
<1>1. IsFiniteSet(K)
  <2>1. IsFiniteSet(1 .. n)
    BY FS_Interval
  <2> QED BY <2>1, FS_Subset
<1>2. Cardinality(K) \in Nat /\ k \in Nat /\ 1 <= k /\ k <= Cardinality(K)
  BY <1>1, FS_CardinalityType
<1>3. ASSUME NEW i PROVE IsFiniteSet(upTo(i)) /\ count(i) \in Nat
  <2>1. upTo(i) \in SUBSET K
    OBVIOUS
  <2>2. IsFiniteSet(upTo(i))
    BY <1>1, <2>1, FS_Subset
  <2> QED BY <2>2, FS_CardinalityType
<1>4. upTo(0) = {}
  <2>1. \A j \in K : ~(j <= 0)
    OBVIOUS
  <2> QED BY <2>1, Zenon
<1>5. upTo(n) = K
  <2>1. \A j \in K : j <= n
    OBVIOUS
  <2> QED BY <2>1
<1>6. ASSUME NEW m \in 1 .. n
      PROVE  /\ m \in K => count(m) = count(m - 1) + 1
             /\ m \notin K => count(m) = count(m - 1)
  <2>1. \A j \in K : j <= m <=> j <= m - 1 \/ j = m
    OBVIOUS
  <2>2. CASE m \in K
    <3>1. ~(m <= m - 1)
      OBVIOUS
    <3>2. upTo(m) = upTo(m - 1) \cup {m} /\ m \notin upTo(m - 1)
      BY <2>1, <2>2, <3>1, Zenon
    <3> HIDE DEF upTo
    <3> QED BY <3>2, <2>2, <1>3, FS_AddElement
  <2>3. CASE m \notin K
    <3>1. upTo(m) = upTo(m - 1)
      BY <2>1, <2>3
    <3> QED BY <3>1, <2>3
  <2> QED BY <2>2, <2>3
<1> HIDE DEF upTo
<1>7. count(0) = 0 /\ count(n) = Cardinality(K)
  BY <1>4, <1>5, FS_EmptySet
<1> HIDE DEF count
<1>8. PICK m \in reached : \A i \in reached : m <= i
  <2>1. reached \in SUBSET Nat /\ n \in reached
    BY <1>7, <1>2
  <2> HIDE DEF reached
  <2> QED BY <2>1, LeastNatural
<1>9. m \in 1 .. n
  BY <1>8, <1>7, <1>2
<1>10. count(m) \in Nat /\ count(m - 1) \in Nat
  BY <1>3 DEF count
<1>11. count(m - 1) < k /\ count(m) >= k
  BY <1>8, <1>9, <1>10, <1>2
<1>12. m \in K /\ count(m) = k
  BY <1>6, <1>9, <1>10, <1>11, <1>2
<1> QED BY <1>12 DEF count, upTo

\* Removing tracks from a queue leaves a queue of the others.
LEMMA WithoutType ==
  ASSUME NEW q \in Seq(Tracks), NEW S
  PROVE  Without(q, S) \in Seq(Tracks)
<1> DEFINE kept == {i \in DOMAIN q : q[i] \notin S}
           upTo(i) == Cardinality({j \in kept : j <= i})
           pick(k) == CHOOSE i \in kept : upTo(i) = k
<1>1. Len(q) \in Nat /\ kept \in SUBSET (1 .. Len(q))
  OBVIOUS
<1>2. Cardinality(kept) \in Nat
  <2>1. IsFiniteSet(1 .. Len(q))
    BY <1>1, FS_Interval
  <2> HIDE DEF kept
  <2>2. IsFiniteSet(kept)
    BY <2>1, <1>1, FS_Subset
  <2> QED BY <2>2, FS_CardinalityType
<1>3. \A k \in 1 .. Cardinality(kept) : pick(k) \in kept
  <2> TAKE k \in 1 .. Cardinality(kept)
  <2>1. \E i \in kept : upTo(i) = k
    <3> HIDE DEF kept
    <3> QED BY <1>1, RankReached
  <2> QED BY <2>1
<1>4. \A k \in 1 .. Cardinality(kept) : q[pick(k)] \in Tracks
  <2> HIDE DEF pick
  <2> QED BY <1>3
<1>5. Without(q, S) = [k \in 1 .. Cardinality(kept) |-> q[pick(k)]]
  BY DEF Without
<1> HIDE DEF kept, pick
<1> QED BY <1>2, <1>4, <1>5

\* The tracks of a queue are tracks.
LEMMA QueuedType ==
  ASSUME NEW q \in Seq(Tracks)
  PROVE  Queued(q) \subseteq Tracks /\ (q # <<>> => Head(q) \in Queued(q))
BY DEF Queued

-----------------------------------------------------------------------------
(* What every method of the engine keeps.                                  *)
(*                                                                         *)
(* Sound is the part of the invariant that holds between the calls of one   *)
(* handler too.  The rest, that pending steps have their timer, is broken   *)
(* inside requestManualNavigation(); Steady says what a method does to it:  *)
(* it leaves both alone or drops the steps.                                 *)

Sound(r) ==
    /\ r \in EngineState
    /\ r.media = NoTrack => r.status = "Stopped" /\ r.anim \notin {"switchOut", "switchIn"}
    /\ r.anim = "switchOut" => r.target.track \in Tracks

Steady(r, x) == \/ x.pending = r.pending /\ x.navTimer = r.navTimer
                \/ x.pending = 0

Keeps(r, x) == Sound(x) /\ Steady(r, x)

LEMMA SteadyTrans ==
  ASSUME NEW r, NEW x, NEW y, Steady(r, x), Steady(x, y)
  PROVE  Steady(r, y)
BY DEF Steady

LEMMA NavigationFields ==
  ASSUME NEW r, Sound(r), NEW n \in Int, NEW b \in BOOLEAN
  PROVE  Sound([r EXCEPT !.pending = n, !.navTimer = b])
BY DEF Sound, EngineState

LEMMA CancelManualNavigationKeeps ==
  ASSUME NEW r, Sound(r)
  PROVE  Keeps(r, CancelManualNavigation(r))
<1>1. 0 \in Int /\ FALSE \in BOOLEAN
  OBVIOUS
<1>2. Sound(CancelManualNavigation(r))
  BY <1>1, NavigationFields DEF CancelManualNavigation
<1>3. CancelManualNavigation(r).pending = 0
  BY DEF CancelManualNavigation, Sound, EngineState
<1> QED BY <1>2, <1>3 DEF Keeps, Steady

LEMMA CancelTrackSwitchFadeKeeps ==
  ASSUME NEW r, Sound(r)
  PROVE  /\ Keeps(r, CancelTrackSwitchFade(r))
         /\ CancelTrackSwitchFade(r).anim \notin {"switchOut", "switchIn"}
         /\ CancelTrackSwitchFade(r).media = r.media
         /\ CancelTrackSwitchFade(r).status = r.status
<1>1. NoTarget \in Target
  BY DEF NoTarget, Target, MaybeTrack
<1> QED BY <1>1 DEF Keeps, Sound, Steady, CancelTrackSwitchFade, EngineState, Animations

LEMMA BackendPlayKeeps ==
  ASSUME NEW r, Sound(r), r.media # NoTrack
  PROVE  Keeps(r, BackendPlay(r))
BY DEF Keeps, Sound, Steady, BackendPlay, EngineState, Statuses

LEMMA BackendPauseKeeps ==
  ASSUME NEW r, Sound(r)
  PROVE  Keeps(r, BackendPause(r))
BY DEF Keeps, Sound, Steady, BackendPause, EngineState, Statuses

\* Starting an animation other than a switch's fade-out.
LEMMA StartKeeps ==
  ASSUME NEW r, Sound(r), NEW anim \in {"fadeOut", "fadeIn", "switchIn"},
         NEW factor \in {"full", "reduced"}, anim = "switchIn" => r.media # NoTrack
  PROVE  Keeps(r, Start(r, anim, factor))
<1>1. NoTarget \in Target
  BY DEF NoTarget, Target, MaybeTrack
<1> QED BY <1>1 DEF Keeps, Sound, Steady, Start, EngineState, Animations

LEMMA HaltKeeps ==
  ASSUME NEW r, Sound(r), NEW anim
  PROVE  Keeps(r, Halt(r, anim)) /\ Halt(r, anim).media = r.media
BY DEF Keeps, Sound, Steady, Halt, EngineState, Animations

\* Loading a track, or nothing when the switch under way is given up too.
LEMMA SetMediaMetaKeeps ==
  ASSUME NEW r, Sound(r), NEW m \in MaybeTrack, NEW keep \in BOOLEAN,
         keep => m # NoTrack
  PROVE  Keeps(r, SetMediaMeta(r, m, keep)) /\ SetMediaMeta(r, m, keep).media = m
<1> DEFINE cancelled == IF keep THEN r
                        ELSE CancelTrackSwitchFade(CancelManualNavigation(r))
<1>1. Keeps(r, cancelled)
  <2>1. CASE keep
    BY <2>1 DEF Keeps, Steady
  <2>2. CASE ~keep
    BY <2>2, CancelManualNavigationKeeps, CancelTrackSwitchFadeKeeps, SteadyTrans DEF Keeps
  <2> QED BY <2>1, <2>2
<1>2. m = NoTrack => cancelled.anim \notin {"switchOut", "switchIn"}
  BY CancelManualNavigationKeeps, CancelTrackSwitchFadeKeeps DEF Keeps
<1>3. SetMediaMeta(r, m, keep) =
        [cancelled EXCEPT !.flag = r.flag /\ r.media = NoTrack, !.media = m,
                          !.status = "Stopped"]
  BY DEF SetMediaMeta
<1>4. (r.flag /\ r.media = NoTrack) \in BOOLEAN
  OBVIOUS
<1> HIDE DEF cancelled
<1> QED BY <1>1, <1>2, <1>3, <1>4 DEF Keeps, Sound, Steady, EngineState, Statuses

LEMMA PauseKeeps ==
  ASSUME NEW r, Sound(r)
  PROVE  Keeps(r, Pause(r))
<1> DEFINE quiet == Halt(r, "fadeIn")
<1>1. Keeps(r, quiet)
  BY HaltKeeps
<1>2. ASSUME NEW x, Sound(x)
      PROVE  Keeps(x, [BackendPause(x) EXCEPT !.factor = "full"])
  BY <1>2, BackendPauseKeeps DEF Keeps, Sound, Steady, EngineState
<1>3. Keeps(quiet, Start(quiet, "fadeOut", "full"))
  <2> HIDE DEF quiet
  <2> QED BY <1>1, StartKeeps DEF Keeps
<1>4. \/ Pause(r) = Start(quiet, "fadeOut", "full")
      \/ Pause(r) = [BackendPause(quiet) EXCEPT !.factor = "full"]
      \/ Pause(r) = [BackendPause(r) EXCEPT !.factor = "full"]
  BY DEF Pause
<1> HIDE DEF quiet
<1> QED BY <1>1, <1>2, <1>3, <1>4, SteadyTrans DEF Keeps

LEMMA LastProgressKeeps ==
  ASSUME NEW r, Sound(r)
  PROVE  Keeps(r, LastProgress(r))
<1>1. Keeps(r, Pause(r))
  BY PauseKeeps
<1>2. Keeps(r, [Pause(r) EXCEPT !.shot = TRUE, !.flag = FALSE])
  BY <1>1 DEF Keeps, Sound, Steady, EngineState
<1>3. Keeps(r, r)
  BY DEF Keeps, Steady
<1> QED BY <1>2, <1>3 DEF LastProgress

LEMMA PlayLoadedKeeps ==
  ASSUME NEW r, Sound(r), NEW q \in Seq(Tracks)
  PROVE  Keeps(r, PlayLoaded(r, q))
<1>1. CASE r.media # NoTrack
  BY <1>1, BackendPlayKeeps DEF PlayLoaded
<1>2. CASE r.media = NoTrack /\ q # <<>>
  <2> DEFINE loaded == SetMediaMeta(r, Head(q), FALSE)
             started == BackendPlay(loaded)
  <2>1. Head(q) \in MaybeTrack /\ Head(q) # NoTrack
    BY <1>2, QueuedType, TracksAssumption DEF MaybeTrack
  <2>2. Keeps(r, loaded) /\ loaded.media # NoTrack
    BY <2>1, SetMediaMetaKeeps
  <2>3. Keeps(loaded, started)
    <3> HIDE DEF loaded
    <3> QED BY <2>2, BackendPlayKeeps DEF Keeps
  <2>4. Keeps(started, LastProgress(started))
    <3> HIDE DEF started
    <3> QED BY <2>3, LastProgressKeeps DEF Keeps
  <2>5. PlayLoaded(r, q) = LastProgress(started)
    BY <1>2 DEF PlayLoaded
  <2> HIDE DEF loaded, started
  <2> QED BY <2>2, <2>3, <2>4, <2>5, SteadyTrans DEF Keeps
<1>3. CASE r.media = NoTrack /\ q = <<>>
  BY <1>3 DEF PlayLoaded, Keeps, Steady
<1> QED BY <1>1, <1>2, <1>3

LEMMA PlayKeeps ==
  ASSUME NEW r, Sound(r), NEW q \in Seq(Tracks)
  PROVE  Keeps(r, Play(r, q))
<1> DEFINE ready == IF fadeInOut THEN [Halt(r, "fadeOut") EXCEPT !.factor = "full"] ELSE r
           begun == PlayLoaded(ready, q)
<1>1. Keeps(r, ready)
  BY HaltKeeps DEF Keeps, Sound, Steady, EngineState
<1>2. Keeps(ready, begun)
  <2> HIDE DEF ready
  <2> QED BY <1>1, PlayLoadedKeeps DEF Keeps
<1>3. Keeps(begun, LastProgress(begun))
  <2> HIDE DEF begun
  <2> QED BY <1>2, LastProgressKeeps DEF Keeps
<1>4. Play(r, q) = LastProgress(begun)
  BY DEF Play
<1> HIDE DEF ready, begun
<1> QED BY <1>1, <1>2, <1>3, <1>4, SteadyTrans DEF Keeps

LEMMA ResumeKeeps ==
  ASSUME NEW r, Sound(r), NEW q \in Seq(Tracks)
  PROVE  Keeps(r, Resume(r, q))
<1> DEFINE low == [r EXCEPT !.factor = "reduced"]
           ready == IF fadeInOut THEN Halt(low, "fadeOut") ELSE r
           begun == PlayLoaded(ready, q)
<1>1. Keeps(r, low)
  BY DEF Keeps, Sound, Steady, EngineState
<1>2. Keeps(r, ready)
  <2> HIDE DEF low
  <2>1. Keeps(low, Halt(low, "fadeOut"))
    BY <1>1, HaltKeeps DEF Keeps
  <2>2. Keeps(r, r)
    BY DEF Keeps, Steady
  <2> QED BY <1>1, <2>1, <2>2, SteadyTrans DEF Keeps
<1>3. Keeps(ready, begun)
  <2> HIDE DEF ready
  <2> QED BY <1>2, PlayLoadedKeeps DEF Keeps
<1>4. Keeps(begun, Start(begun, "fadeIn", "reduced"))
  <2> HIDE DEF begun
  <2> QED BY <1>3, StartKeeps DEF Keeps
<1>5. Resume(r, q) \in {begun, Start(begun, "fadeIn", "reduced")}
  BY DEF Resume
<1> HIDE DEF ready, begun
<1> QED BY <1>2, <1>3, <1>4, <1>5, SteadyTrans DEF Keeps

LEMMA StopKeeps ==
  ASSUME NEW r, Sound(r)
  PROVE  Keeps(r, Stop(r)) /\ Stop(r).pending = 0
<1> DEFINE still == [CancelTrackSwitchFade(r) EXCEPT !.status = "Stopped"]
<1>1. Keeps(r, still)
  BY CancelTrackSwitchFadeKeeps DEF Keeps, Sound, Steady, EngineState, Statuses
<1>2. Keeps(still, SetMediaMeta(still, NoTrack, FALSE))
  <2> HIDE DEF still
  <2> QED BY <1>1, SetMediaMetaKeeps DEF Keeps, MaybeTrack
<1>3. Stop(r).pending = 0
  <2> DEFINE none == CancelManualNavigation(still)
             quiet == CancelTrackSwitchFade(none)
  <2> HIDE DEF still
  <2>1. Sound(still)
    BY <1>1 DEF Keeps
  <2>2. Sound(none) /\ none.pending = 0
    BY <2>1, CancelManualNavigationKeeps DEF Keeps, CancelManualNavigation, Sound, EngineState
  <2> HIDE DEF none
  <2>3. quiet \in EngineState /\ quiet.pending = 0
    BY <2>2, CancelTrackSwitchFadeKeeps DEF Keeps, Steady, Sound
  <2>4. Stop(r) = [quiet EXCEPT !.flag = still.flag /\ still.media = NoTrack,
                              !.media = NoTrack, !.status = "Stopped"]
    BY Zenon DEF Stop, SetMediaMeta, still, none
  <2> HIDE DEF quiet
  <2> DEFINE flag == still.flag /\ still.media = NoTrack
  <2>5. Stop(r) = [quiet EXCEPT !.flag = flag, !.media = NoTrack, !.status = "Stopped"]
    BY <2>4
  <2> HIDE DEF flag
  <2> QED BY <2>3, <2>5 DEF EngineState
<1> HIDE DEF still
<1> QED BY <1>1, <1>2, <1>3, SteadyTrans DEF Keeps, Stop, still

LEMMA SwitchToKeeps ==
  ASSUME NEW r, Sound(r), NEW q \in Seq(Tracks), NEW m \in Tracks,
         NEW play \in BOOLEAN, NEW keep \in BOOLEAN
  PROVE  Keeps(r, SwitchTo(r, q, m, play, keep))
<1> DEFINE free == CancelTrackSwitchFade(r)
           there == SetMediaMeta(free, m, keep)
           fading == [Start(free, "switchOut", "full") EXCEPT
                        !.target = [track |-> m, play |-> play, keep |-> keep]]
<1>1. Keeps(r, free) /\ free.media = r.media /\ free.status = r.status
  BY CancelTrackSwitchFadeKeeps
<1>2. CASE fadeInOut /\ r.status = "Playing"
  <2>1. [track |-> m, play |-> play, keep |-> keep] \in Target
    BY DEF Target, MaybeTrack
  <2>2. free.media # NoTrack
    BY <1>1, <1>2 DEF Keeps, Sound
  <2> HIDE DEF free
  <2>3. Keeps(r, fading)
    BY <1>1, <2>1, <2>2 DEF Keeps, Sound, Steady, Start, EngineState, Animations
  <2> QED BY <1>2, <2>3 DEF SwitchTo, free
<1>3. CASE ~(fadeInOut /\ r.status = "Playing")
  <2>1. Keeps(free, there)
    <3>1. m \in MaybeTrack /\ m # NoTrack
      BY TracksAssumption DEF MaybeTrack
    <3> HIDE DEF free
    <3> QED BY <3>1, <1>1, SetMediaMetaKeeps DEF Keeps
  <2>2. Keeps(there, Play(there, q))
    <3> HIDE DEF there
    <3> QED BY <2>1, PlayKeeps DEF Keeps
  <2>3. SwitchTo(r, q, m, play, keep) \in {there, Play(there, q)}
    BY <1>3 DEF SwitchTo
  <2> HIDE DEF there, free
  <2> QED BY <1>1, <2>1, <2>2, <2>3, SteadyTrans DEF Keeps
<1> QED BY <1>2, <1>3

LEMMA SwitchOrStopKeeps ==
  ASSUME NEW r, Sound(r), NEW q \in Seq(Tracks), NEW m \in MaybeTrack,
         NEW play \in BOOLEAN, NEW keep \in BOOLEAN
  PROVE  Keeps(r, SwitchOrStop(r, q, m, play, keep))
BY SwitchToKeeps, StopKeeps DEF SwitchOrStop, MaybeTrack

\* Every switch goes to a track of the queue, or stops.
LEMMA TargetsType ==
  ASSUME NEW q \in Seq(Tracks), NEW cur, NEW steps
  PROVE  /\ NavigationTargets(q, cur, steps) \subseteq MaybeTrack
         /\ AutoTargets(q, cur) \subseteq MaybeTrack
<1>1. \A i \in DOMAIN q : q[i] \in Tracks
  OBVIOUS
<1>2. \A k : PlayableOfRank(q, k) \subseteq Tracks
  BY <1>1 DEF PlayableOfRank, PlayableAt
<1>3. NavigationTargets(q, cur, steps) \subseteq MaybeTrack
  BY <1>2 DEF NavigationTargets, MaybeTrack
<1>4. AutoTargets(q, cur) \subseteq MaybeTrack
  <2> DEFINE later == {i \in PlayableAt(q) : i > PositionOf(q, cur)}
             next == {q[i] : i \in {j \in later : \A k \in later : j <= k}}
             rest == UNION {PlayableOfRank(q, k) :
                              k \in IF Cardinality(PlayableAt(q)) = 1 THEN {0}
                                    ELSE (0 .. Cardinality(PlayableAt(q)) - 1)
                                           \ {AdvanceFrom(q, cur)}}
  <2>1. next \subseteq Tracks
    BY <1>1 DEF PlayableAt
  <2>2. rest \subseteq Tracks
    BY <1>2
  <2>3. q # <<>> => Head(q) \in Tracks
    BY QueuedType
  <2>4. \/ AutoTargets(q, cur) = {NoTrack}
        \/ AutoTargets(q, cur) = next
        \/ q # <<>> /\ AutoTargets(q, cur) = {Head(q)}
        \/ \E k : AutoTargets(q, cur) = PlayableOfRank(q, k)
        \/ AutoTargets(q, cur) = rest
    BY DEF AutoTargets
  <2> HIDE DEF next, rest
  <2> QED BY <2>1, <2>2, <2>3, <2>4, <1>2 DEF MaybeTrack
<1> QED BY <1>3, <1>4

LEMMA ExecuteManualNavigationKeeps ==
  ASSUME NEW r, Sound(r), NEW q \in Seq(Tracks),
         NEW x \in ExecuteManualNavigation(r, q)
  PROVE  Sound(x) /\ x.pending = 0
<1> DEFINE taken == [r EXCEPT !.pending = 0]
<1>1. Sound(taken) /\ taken.pending = 0
  BY DEF Sound, EngineState
<1>2. CASE x = taken
  BY <1>1, <1>2
<1>3. CASE x # taken
  <2>1. PICK m \in NavigationTargets(q, r.media, r.pending) :
              x = SwitchOrStop(taken, q, m, TRUE, TRUE)
    BY <1>3 DEF ExecuteManualNavigation
  <2>2. m \in MaybeTrack
    BY TargetsType
  <2> HIDE DEF taken
  <2>3. Keeps(taken, x)
    BY <2>1, <2>2, <1>1, SwitchOrStopKeeps
  <2> QED BY <2>3, <1>1 DEF Keeps, Steady
<1> QED BY <1>2, <1>3

LEMMA RequestManualNavigationKeeps ==
  ASSUME NEW r, Sound(r), NEW q \in Seq(Tracks), NEW steps \in Int,
         NEW x \in RequestManualNavigation(r, q, steps)
  PROVE  Sound(x) /\ (x.pending # 0 => x.navTimer)
<1> DEFINE asked == [r EXCEPT !.pending = r.pending + steps]
<1>1. Sound(asked) /\ asked.navTimer = r.navTimer
  <2>1. r.pending + steps \in Int
    BY DEF Sound, EngineState
  <2> QED BY <2>1 DEF Sound, EngineState
<1>2. CASE r.navTimer
  BY <1>1, <1>2 DEF RequestManualNavigation
<1>3. CASE ~r.navTimer
  <2>1. PICK y \in ExecuteManualNavigation(asked, q) : x = [y EXCEPT !.navTimer = TRUE]
    BY <1>3 DEF RequestManualNavigation
  <2> HIDE DEF asked
  <2>2. Sound(y)
    BY <1>1, ExecuteManualNavigationKeeps
  <2> QED BY <2>1, <2>2 DEF Sound, EngineState
<1> QED BY <1>2, <1>3

LEMMA AutoAdvanceKeeps ==
  ASSUME NEW r, Sound(r), NEW q \in Seq(Tracks), NEW cur, NEW play \in BOOLEAN,
         NEW x \in AutoAdvance(r, q, cur, play)
  PROVE  Keeps(r, x)
<1>1. PICK m \in AutoTargets(q, cur) : x = SwitchOrStop(r, q, m, play, FALSE)
  BY DEF AutoAdvance
<1> QED BY <1>1, TargetsType, SwitchOrStopKeeps

-----------------------------------------------------------------------------
(* The inductive invariant. *)

IInv == TypeOK /\ Sound(eng) /\ NoStrandedNavigation

LEMMA InitIInv == Init => IInv
<1> SUFFICES ASSUME Init PROVE IInv
  OBVIOUS
<1>1. metaList \in Seq(Tracks) /\ playbackMode \in PlaybackModes /\ fadeInOut \in BOOLEAN
      /\ playable \in SUBSET Tracks /\ ends \in Nat /\ asleep \in BOOLEAN
  BY QueuesAssumption, SettingsAssumption DEF Init
<1>2. cache \in CacheState
  BY DEF Init, NoCache, CacheState, MaybeTrack
<1>3. PICK m \in Queued(metaList) \cup {NoTrack} :
        eng = [media |-> m, status |-> "Stopped", anim |-> "none",
               target |-> NoTarget, factor |-> "full", flag |-> TRUE,
               shot |-> FALSE, pending |-> 0, navTimer |-> FALSE]
  BY DEF Init
<1>4. m \in MaybeTrack
  BY <1>1, QueuedType DEF MaybeTrack
<1>5. Sound(eng)
  BY <1>3, <1>4 DEF Sound, EngineState, Statuses, Animations, Target, NoTarget, MaybeTrack
<1>6. eng.pending = 0
  BY <1>3
<1> QED BY <1>1, <1>2, <1>5, <1>6 DEF IInv, TypeOK, NoStrandedNavigation, Sound

\* What a handler that keeps the engine sound has to show of the rest.
LEMMA KeepsIInv ==
  ASSUME IInv, metaList' \in Seq(Tracks), cache' \in CacheState,
         Keeps(eng, eng'),
         UNCHANGED <<playbackMode, fadeInOut, playable, ends, asleep>>
  PROVE  IInv'
BY DEF IInv, TypeOK, NoStrandedNavigation, Keeps, Sound, Steady

LEMMA OnlyEngineIInv ==
  ASSUME IInv, OnlyEngine, Sound(eng'), eng'.pending # 0 => eng'.navTimer
  PROVE  IInv'
BY DEF IInv, TypeOK, NoStrandedNavigation, OnlyEngine, Sound

LEMMA UserStepIInv ==
  ASSUME IInv, UserStep
  PROVE  IInv'
<1>1. /\ metaList \in Seq(Tracks) /\ Sound(eng) /\ cache \in CacheState
      /\ (eng.pending # 0 => eng.navTimer)
  BY DEF IInv, TypeOK, NoStrandedNavigation
<1>2. Invalidated \in CacheState
  BY <1>1 DEF Invalidated, CacheState
<1>3. ASSUME OnlyEngine, Keeps(eng, eng') PROVE IInv'
  BY <1>3, <1>1, KeepsIInv DEF OnlyEngine
<1>4. ASSUME NEW steps \in Int, OnlyEngine,
             eng' \in RequestManualNavigation(eng, metaList, steps)
      PROVE  IInv'
  BY <1>4, <1>1, RequestManualNavigationKeeps, OnlyEngineIInv
<1>5. Keeps(eng, CancelManualNavigation(eng))
  BY <1>1, CancelManualNavigationKeeps
<1>6. CASE PlayNextMeta \/ PlayPreMeta
  <2>1. 1 \in Int /\ -1 \in Int
    OBVIOUS
  <2> QED BY <1>6, <2>1, <1>4 DEF PlayNextMeta, PlayPreMeta, Navigate
<1>7. CASE UserPlay
  BY <1>7, <1>1, <1>3, PlayKeeps DEF UserPlay
<1>8. CASE UserPause
  BY <1>8, <1>1, <1>3, PauseKeeps DEF UserPause
<1>9. CASE PauseNow
  BY <1>9, <1>1, <1>3, BackendPauseKeeps DEF PauseNow
<1>10. CASE UserStop
  BY <1>10, <1>1, <1>3, StopKeeps DEF UserStop
<1>11. CASE PlayPause
  <2>1. \/ eng' = Resume(eng, metaList)
        \/ eng' = Pause(eng)
        \/ eng' = Play(eng, metaList)
        \/ eng' \in RequestManualNavigation(eng, metaList, 1)
    BY <1>11 DEF PlayPause
  <2> QED BY <1>11, <2>1, <1>1, <1>3, <1>4, ResumeKeeps, PauseKeeps, PlayKeeps DEF PlayPause
<1>12. CASE MprisPlay
  <2>1. \/ eng' = Resume(eng, metaList)
        \/ eng' = BackendPause(eng)
        \/ eng' = Play(eng, metaList)
        \/ eng' \in RequestManualNavigation(eng, metaList, 1)
    BY <1>12 DEF MprisPlay
  <2> QED BY <1>12, <2>1, <1>1, <1>3, <1>4, ResumeKeeps, BackendPauseKeeps, PlayKeeps
          DEF MprisPlay
<1>13. ASSUME NEW m \in Tracks, SelectMeta(m) PROVE IInv'
  <2>1. m \in MaybeTrack
    BY DEF MaybeTrack
  <2> QED BY <1>13, <2>1, <1>1, <1>3, SetMediaMetaKeeps DEF SelectMeta
<1>14. ASSUME NEW m \in Tracks, PlayImported(m) PROVE IInv'
  <2> DEFINE loaded == IF m # eng.media /\ m \in Queued(metaList)
                       THEN SetMediaMeta(eng, m, FALSE) ELSE eng
  <2>1. Keeps(eng, loaded)
    <3>1. m \in MaybeTrack
      BY DEF MaybeTrack
    <3>2. Keeps(eng, eng)
      BY <1>1 DEF Keeps, Steady
    <3> QED BY <3>1, <3>2, <1>1, SetMediaMetaKeeps
  <2>2. eng' = Play(loaded, metaList) /\ OnlyEngine
    BY <1>14 DEF PlayImported
  <2> HIDE DEF loaded
  <2>3. Keeps(loaded, eng')
    BY <2>1, <2>2, <1>1, PlayKeeps DEF Keeps
  <2> QED BY <2>1, <2>2, <2>3, <1>3, SteadyTrans DEF Keeps
<1>15. ASSUME NEW m \in Tracks, AddMeta(m) PROVE IInv'
  <2>1. metaList' \in Seq(Tracks)
    BY <1>15, <1>1 DEF AddMeta
  <2> QED BY <1>15, <2>1, <1>2, <1>5, KeepsIInv DEF AddMeta, QueueAndEngine
<1>16. ASSUME NEW m \in Tracks, RemoveMeta(m) PROVE IInv'
  <2>1. metaList' \in Seq(Tracks) /\ cache' \in CacheState
    BY <1>16, <1>1, <1>2, WithoutType DEF RemoveMeta
  <2> QED BY <1>16, <2>1, <1>5, KeepsIInv DEF RemoveMeta, QueueAndEngine
<1>17. ASSUME NEW S \in SUBSET Tracks, RemoveMetas(S) PROVE IInv'
  <2> DEFINE calm == CancelManualNavigation(eng)
             q == Without(metaList, S)
             anchor == RemovalAnchor(metaList, S, eng.media)
             going == (eng.status = "Playing")
  <2>1. metaList' = q /\ metaList' \in Seq(Tracks) /\ cache' \in CacheState
    BY <1>17, <1>1, <1>2, WithoutType DEF RemoveMetas
  <2>2. \/ eng' = Stop(calm)
        \/ eng' \in AutoAdvance(calm, q, anchor, going)
        \/ eng' = calm
    BY <1>17 DEF RemoveMetas
  <2>3. going \in BOOLEAN /\ q \in Seq(Tracks)
    BY <2>1
  <2> HIDE DEF calm, q, anchor, going
  <2>4. Keeps(eng, calm)
    BY <1>5 DEF calm
  <2>5. Keeps(calm, eng')
    <3>1. CASE eng' = Stop(calm)
      BY <3>1, <2>4, StopKeeps DEF Keeps
    <3>2. CASE eng' \in AutoAdvance(calm, q, anchor, going)
      BY <3>2, <2>4, <2>3, AutoAdvanceKeeps DEF Keeps
    <3>3. CASE eng' = calm
      BY <3>3, <2>4 DEF Keeps, Steady
    <3> QED BY <3>1, <3>2, <3>3, <2>2
  <2>6. Keeps(eng, eng')
    BY <2>4, <2>5, SteadyTrans DEF Keeps
  <2> QED BY <1>17, <2>1, <2>6, KeepsIInv DEF RemoveMetas, QueueAndEngine
<1>18. CASE ClearPlayList
  <2> DEFINE calm == CancelManualNavigation(eng)
  <2>1. Keeps(calm, Stop(calm))
    <3> HIDE DEF calm
    <3> QED BY <1>5, StopKeeps DEF Keeps, calm
  <2>2. Keeps(eng, eng')
    BY <1>18, <2>1, <1>5, SteadyTrans DEF ClearPlayList, Keeps
  <2>3. metaList' \in Seq(Tracks)
    BY <1>18 DEF ClearPlayList
  <2> QED BY <1>18, <2>2, <2>3, <1>2, KeepsIInv DEF ClearPlayList, QueueAndEngine
<1>19. ASSUME NEW q \in Queues, MoveMetas(q) PROVE IInv'
  <2>1. metaList' \in Seq(Tracks)
    BY <1>19, QueuesAssumption DEF MoveMetas
  <2> QED BY <1>19, <2>1, <1>2, <1>5, KeepsIInv DEF MoveMetas, QueueAndEngine
<1>20. ASSUME NEW q \in Queues, NEW m \in MaybeTrack, NEW kind, PlayPlaylist(q, m, kind)
       PROVE  IInv'
  <2> DEFINE same == kind # "album" /\ q = metaList
                     /\ eng.media \in Queued(metaList) \cup {NoTrack}
             playFlag == eng.media # m /\ eng.media \notin Queued(q)
             calm == CancelManualNavigation(eng)
             cleared == IF playFlag /\ eng.media # NoTrack THEN Stop(calm) ELSE calm
             queued == IF same THEN eng ELSE cleared
             chosen == CASE m \notin {NoTrack, eng.media} -> SetMediaMeta(queued, m, FALSE)
                         [] m = NoTrack /\ kind = "musicResult" ->
                               SetMediaMeta(queued, Head(q), FALSE)
                         [] OTHER -> queued
  <2>1. /\ metaList' = q /\ eng' = Play(chosen, q) /\ q # <<>>
        /\ cache' = (IF same THEN cache ELSE Invalidated)
    BY <1>20 DEF PlayPlaylist
  <2>2. q \in Seq(Tracks)
    BY QueuesAssumption
  <2>3. cache' \in CacheState
    BY <2>1, <1>1, <1>2
  <2>4. Keeps(calm, Stop(calm))
    <3> HIDE DEF calm
    <3> QED BY <1>5, StopKeeps DEF Keeps, calm
  <2>5. Keeps(eng, queued)
    <3>1. Keeps(eng, eng)
      BY <1>1 DEF Keeps, Steady
    <3>2. Keeps(eng, Stop(calm))
      BY <2>4, <1>5, SteadyTrans DEF Keeps
    <3> QED BY <3>1, <3>2, <1>5
  <2>6. Keeps(queued, chosen)
    <3>1. Head(q) \in MaybeTrack
      BY <2>1, <2>2, QueuedType DEF MaybeTrack
    <3>2. \/ chosen = SetMediaMeta(queued, m, FALSE)
          \/ chosen = SetMediaMeta(queued, Head(q), FALSE)
          \/ chosen = queued
      OBVIOUS
    <3>3. Keeps(queued, queued)
      BY <2>5 DEF Keeps, Steady
    <3> HIDE DEF queued, chosen
    <3> QED BY <3>1, <3>2, <3>3, <2>5, SetMediaMetaKeeps DEF Keeps
  <2> HIDE DEF chosen, queued
  <2>7. Keeps(chosen, eng')
    BY <2>1, <2>2, <2>6, PlayKeeps DEF Keeps
  <2>8. Keeps(eng, eng')
    BY <2>5, <2>6, <2>7, SteadyTrans DEF Keeps
  <2> QED BY <1>20, <2>1, <2>2, <2>3, <2>8, KeepsIInv DEF PlayPlaylist, QueueAndEngine
<1>21. ASSUME NEW mode \in Modes, SetPlaybackMode(mode) PROVE IInv'
  BY <1>21, SettingsAssumption DEF SetPlaybackMode, IInv, TypeOK, NoStrandedNavigation
<1>22. ASSUME NEW on \in FadeSettings, SetFadeInOut(on) PROVE IInv'
  BY <1>22, SettingsAssumption DEF SetFadeInOut, IInv, TypeOK, NoStrandedNavigation
<1> QED BY <1>6, <1>7, <1>8, <1>9, <1>10, <1>11, <1>12, <1>13, <1>14, <1>15, <1>16,
           <1>17, <1>18, <1>19, <1>20, <1>21, <1>22 DEF UserStep

LEMMA EngineStepIInv ==
  ASSUME IInv, EngineStep
  PROVE  IInv'
<1>1. /\ metaList \in Seq(Tracks) /\ Sound(eng) /\ cache \in CacheState
      /\ (eng.pending # 0 => eng.navTimer)
  BY DEF IInv, TypeOK, NoStrandedNavigation
<1>2. ASSUME OnlyEngine, Keeps(eng, eng') PROVE IInv'
  BY <1>2, <1>1, KeepsIInv DEF OnlyEngine
<1>3. ASSUME NEW t \in CacheQueries, QueryCached(t) PROVE IInv'
  <2>1. cache' \in CacheState
    BY <1>3, SettingsAssumption DEF QueryCached, CacheState, MaybeTrack, HasNext, HasPrevious
  <2> QED BY <1>3, <2>1 DEF QueryCached, IInv, TypeOK, NoStrandedNavigation
<1>4. CASE CacheExpires
  BY <1>4, <1>1 DEF CacheExpires, Invalidated, CacheState, IInv, TypeOK, NoStrandedNavigation
<1>5. CASE NavigationTimeout
  <2>1. CASE eng.pending = 0
    <3>1. Keeps(eng, eng')
      BY <1>5, <2>1, <1>1 DEF NavigationTimeout, Keeps, Sound, Steady, EngineState
    <3> QED BY <1>5, <3>1, <1>2 DEF NavigationTimeout
  <2>2. CASE eng.pending # 0
    <3>1. eng' \in ExecuteManualNavigation(eng, metaList) /\ OnlyEngine
      BY <1>5, <2>2 DEF NavigationTimeout
    <3>2. Sound(eng') /\ eng'.pending = 0
      BY <3>1, <1>1, ExecuteManualNavigationKeeps
    <3> QED BY <3>1, <3>2, OnlyEngineIInv
  <2> QED BY <2>1, <2>2
<1>6. CASE FadeProgress
  <2>1. Keeps(eng, eng')
    BY <1>6, <1>1 DEF FadeProgress, Keeps, Sound, Steady, EngineState
  <2> QED BY <1>6, <2>1, <1>2 DEF FadeProgress
<1>7. CASE FadeOutFinished
  <2>1. Keeps(eng, BackendPause(eng))
    BY <1>1, BackendPauseKeeps
  <2>2. Keeps(eng, eng')
    BY <1>7, <2>1 DEF FadeOutFinished, Keeps, Sound, Steady, EngineState, Animations
  <2> QED BY <1>7, <2>2, <1>2 DEF FadeOutFinished
<1>8. CASE FadeInFinished
  <2>1. Keeps(eng, eng')
    BY <1>8, <1>1 DEF FadeInFinished, Keeps, Sound, Steady, EngineState, Animations
  <2> QED BY <1>8, <2>1, <1>2 DEF FadeInFinished
<1>9. CASE SwitchFadeOutFinished
  <2> DEFINE over == [eng EXCEPT !.anim = "none", !.target = NoTarget,
                                 !.factor = "reduced"]
             loaded == SetMediaMeta(over, eng.target.track, eng.target.keep)
             started == BackendPlay(loaded)
  <2>1. /\ eng.target.track \in MaybeTrack /\ eng.target.track # NoTrack
        /\ eng.target.keep \in BOOLEAN
    BY <1>9, <1>1, TracksAssumption DEF SwitchFadeOutFinished, Sound, EngineState, Target,
       MaybeTrack
  <2>2. NoTarget \in Target
    BY DEF NoTarget, Target, MaybeTrack
  <2>3. Keeps(eng, over)
    BY <1>1, <2>2 DEF Keeps, Sound, Steady, EngineState, Animations
  <2>4. Keeps(over, loaded) /\ loaded.media # NoTrack
    <3> HIDE DEF over
    <3> QED BY <2>1, <2>3, SetMediaMetaKeeps DEF Keeps
  <2>5. Keeps(loaded, started) /\ started.media # NoTrack
    <3> HIDE DEF loaded
    <3>1. Keeps(loaded, started)
      BY <2>4, BackendPlayKeeps DEF Keeps
    <3>2. started.media = loaded.media
      BY <2>4 DEF BackendPlay, Keeps, Sound, EngineState
    <3> QED BY <3>1, <3>2, <2>4
  <2>6. Keeps(started, Start(started, "switchIn", "reduced"))
    <3> HIDE DEF started
    <3> QED BY <2>5, StartKeeps DEF Keeps
  <2>7. eng' \in {loaded, Start(started, "switchIn", "reduced")} /\ OnlyEngine
    BY <1>9 DEF SwitchFadeOutFinished
  <2> HIDE DEF over, loaded, started
  <2>8. Keeps(eng, eng')
    BY <2>3, <2>4, <2>5, <2>6, <2>7, SteadyTrans DEF Keeps
  <2> QED BY <2>7, <2>8, <1>2
<1>10. CASE LastProgressShot
  <2> DEFINE over == [eng EXCEPT !.shot = FALSE]
  <2>1. Keeps(eng, over)
    BY <1>1 DEF Keeps, Sound, Steady, EngineState
  <2>2. eng' = Play(over, metaList) /\ OnlyEngine
    BY <1>10 DEF LastProgressShot
  <2> HIDE DEF over
  <2>3. Keeps(over, eng')
    BY <2>1, <2>2, <1>1, PlayKeeps DEF Keeps
  <2> QED BY <2>1, <2>2, <2>3, <1>2, SteadyTrans DEF Keeps
<1>11. CASE BackendStarted \/ BackendFailed
  <2>1. Keeps(eng, eng')
    BY <1>11, <1>1 DEF BackendStarted, BackendFailed, Keeps, Sound, Steady, EngineState, Statuses
  <2> QED BY <1>11, <2>1, <1>2 DEF BackendStarted, BackendFailed
<1>12. CASE BackendEnded
  <2>1. Keeps(eng, eng') /\ ends' \in Nat
    BY <1>12, <1>1 DEF BackendEnded, Keeps, Sound, Steady, EngineState, Statuses, IInv, TypeOK
  <2> QED BY <1>12, <2>1, <1>1 DEF BackendEnded, Keeps, Sound, Steady, IInv, TypeOK,
          NoStrandedNavigation
<1>13. CASE SdlWriteError
  BY <1>13 DEF SdlWriteError, IInv, TypeOK, NoStrandedNavigation
<1>14. CASE HandleEnd
  <2>1. Keeps(eng, eng')
    BY <1>14, <1>1, AutoAdvanceKeeps DEF HandleEnd
  <2>2. ends' \in Nat
    BY <1>14 DEF HandleEnd, IInv, TypeOK
  <2> QED BY <1>14, <2>1, <2>2, <1>1 DEF HandleEnd, Keeps, Sound, Steady, IInv, TypeOK,
          NoStrandedNavigation
<1>15. ASSUME NEW t \in Vanishing, FileVanishes(t) PROVE IInv'
  BY <1>15 DEF FileVanishes, IInv, TypeOK, NoStrandedNavigation
<1>16. CASE PrepareForSleep
  <2>1. Keeps(eng, eng') /\ asleep' \in BOOLEAN
    BY <1>16, <1>1, BackendPauseKeeps DEF PrepareForSleep
  <2> QED BY <1>16, <2>1, <1>1 DEF PrepareForSleep, Keeps, Sound, Steady, IInv, TypeOK,
          NoStrandedNavigation
<1>17. CASE WakeUp
  BY <1>17 DEF WakeUp, IInv, TypeOK, NoStrandedNavigation
<1> QED BY <1>3, <1>4, <1>5, <1>6, <1>7, <1>8, <1>9, <1>10, <1>11, <1>12, <1>13, <1>14,
           <1>15, <1>16, <1>17 DEF EngineStep

LEMMA NextIInv == IInv /\ [Next]_vars => IInv'
<1> SUFFICES ASSUME IInv, [Next]_vars PROVE IInv'
  OBVIOUS
<1>1. CASE UserStep
  BY <1>1, UserStepIInv
<1>2. CASE EngineStep
  BY <1>2, EngineStepIInv
<1>3. CASE UNCHANGED vars
  BY <1>3 DEF vars, IInv, TypeOK, NoStrandedNavigation
<1> QED BY <1>1, <1>2, <1>3 DEF Next

LEMMA Invariance == Spec => []IInv
BY InitIInv, NextIInv, PTL DEF Spec

\* Every variable keeps its type, whatever the tracks, the queues and the bounds.
THEOREM TypeCorrect == Spec => []TypeOK
<1>1. IInv => TypeOK
  BY DEF IInv
<1> QED BY <1>1, Invariance, PTL

\* No merged press of Next or Previous is left without the timer that applies it.
THEOREM NavigationNeverStranded == Spec => []NoStrandedNavigation
<1>1. IInv => NoStrandedNavigation
  BY DEF IInv
<1> QED BY <1>1, Invariance, PTL

\* A stopped, empty engine is silent and has no switch under way.
THEOREM SilenceWithoutTrack == Spec => []SilentWithoutTrack
<1>1. IInv => SilentWithoutTrack
  BY DEF IInv, Sound, SilentWithoutTrack
<1> QED BY <1>1, Invariance, PTL

-----------------------------------------------------------------------------
(* What the engine does by itself. *)

\* The methods behind timers and events touch neither the loaded track nor,
\* upwards, the backend's state when nothing is on its way.
LEMMA NothingOnItsWay ==
  ASSUME IInv, EngineStep, ends = 0, ~eng.shot, eng.pending = 0, eng.anim # "switchOut"
  PROVE  /\ eng'.media = eng.media
         /\ eng.status \in {"Stopped", "Paused"} => eng'.status \in {"Stopped", "Paused"}
<1> DEFINE calm == /\ eng'.media = eng.media
                   /\ eng.status \in {"Stopped", "Paused"}
                      => eng'.status \in {"Stopped", "Paused"}
<1>1. eng \in EngineState
  BY DEF IInv, TypeOK
<1>2. CASE (\E t \in CacheQueries : QueryCached(t)) \/ CacheExpires \/ SdlWriteError
           \/ (\E t \in Vanishing : FileVanishes(t)) \/ WakeUp
  BY <1>2 DEF QueryCached, CacheExpires, SdlWriteError, FileVanishes, WakeUp
<1>3. CASE NavigationTimeout \/ FadeProgress
  BY <1>3, <1>1 DEF NavigationTimeout, FadeProgress, EngineState
<1>4. CASE FadeOutFinished \/ PrepareForSleep
  BY <1>4, <1>1 DEF FadeOutFinished, PrepareForSleep, BackendPause, EngineState
<1>5. CASE FadeInFinished
  BY <1>5, <1>1 DEF FadeInFinished, EngineState
<1>6. CASE BackendStarted \/ BackendFailed \/ BackendEnded
  BY <1>6, <1>1 DEF BackendStarted, BackendFailed, BackendEnded, EngineState
<1>7. ~SwitchFadeOutFinished /\ ~LastProgressShot /\ ~HandleEnd
  BY DEF SwitchFadeOutFinished, LastProgressShot, HandleEnd
<1> HIDE DEF calm
<1>8. calm
  BY <1>2, <1>3, <1>4, <1>5, <1>6, <1>7 DEF EngineStep, calm
<1> QED BY <1>8 DEF calm

\* After a stop with nothing on its way only the user loads a track again.
THEOREM StoppingIsFinal == Spec => StopIsFinal
<1>1. IInv /\ [Next]_vars =>
        [/\ eng.media = NoTrack /\ ends = 0 /\ ~eng.shot /\ eng.pending = 0
         /\ EngineStep
         => eng'.media = NoTrack]_vars
  BY NothingOnItsWay DEF IInv, Sound
<1> QED BY <1>1, Invariance, PTL DEF Spec, StopIsFinal

\* No timer, animation or backend event starts a sound but the four that were
\* asked for.
THEOREM SoundIsAskedFor == Spec => NothingPlaysByItself
<1>1. IInv /\ [Next]_vars =>
        [/\ EngineStep
         /\ eng.status \in {"Stopped", "Paused"}
         /\ eng'.status \in {"Opening", "Playing"}
         => eng.shot \/ eng.pending # 0 \/ ends > 0 \/ eng.anim = "switchOut"]_vars
  <2> SUFFICES ASSUME IInv, EngineStep, ~eng.shot, eng.pending = 0, ~(ends > 0),
                      eng.anim # "switchOut", eng.status \in {"Stopped", "Paused"}
               PROVE  eng'.status \notin {"Opening", "Playing"}
    OBVIOUS
  <2>1. ends = 0
    BY DEF IInv, TypeOK
  <2> QED BY <2>1, NothingOnItsWay
<1> QED BY <1>1, Invariance, PTL DEF Spec, NothingPlaysByItself

-----------------------------------------------------------------------------
(* The cached answers. *)

\* Removing what is not in a queue changes nothing.
LEMMA WithoutNothing ==
  ASSUME NEW q \in Seq(Tracks), NEW S, \A i \in DOMAIN q : q[i] \notin S
  PROVE  Without(q, S) = q
<1> DEFINE n == Len(q)
           kept == {i \in DOMAIN q : q[i] \notin S}
           upTo(i) == Cardinality({j \in kept : j <= i})
           pick(k) == CHOOSE i \in kept : upTo(i) = k
<1>1. n \in Nat /\ kept = 1 .. n
  OBVIOUS
<1>2. Cardinality(kept) = n
  <2>1. Cardinality(1 .. n) = IF 1 > n THEN 0 ELSE n - 1 + 1
    BY <1>1, FS_Interval
  <2> HIDE DEF kept, n
  <2> QED BY <1>1, <2>1
<1>3. \A i \in kept : upTo(i) = i
  <2> TAKE i \in kept
  <2>1. {j \in kept : j <= i} = 1 .. i /\ i \in 1 .. n
    BY <1>1
  <2>2. Cardinality(1 .. i) = i
    BY <2>1, <1>1, FS_Interval
  <2> QED BY <2>1, <2>2
<1> HIDE DEF upTo
<1>4. \A k \in 1 .. n : pick(k) = k
  BY <1>1, <1>3
<1>5. Without(q, S) = [k \in 1 .. Cardinality(kept) |-> q[pick(k)]]
  BY DEF Without, upTo
<1> HIDE DEF kept, pick
<1> QED BY <1>2, <1>4, <1>5 DEF n

\* As long as no file is deleted, a step that keeps a valid answer keeps what it is
\* about, or has just computed it.
LEMMA CacheStep ==
  ASSUME IInv, CacheCoherent, Vanishing = {}, [Next]_vars
  PROVE  CacheCoherent'
<1>1. metaList \in Seq(Tracks) /\ cache \in CacheState
  BY DEF IInv, TypeOK
<1>2. ASSUME UNCHANGED <<metaList, playable, cache>> PROVE CacheCoherent'
  BY <1>2 DEF CacheCoherent, HasNext, HasPrevious, IndexOf, Rank, PlayableAt, PositionOf
<1>3. ASSUME cache' = Invalidated PROVE CacheCoherent'
  BY <1>3, <1>1 DEF CacheCoherent, Invalidated, CacheState
<1>4. ASSUME NEW t, QueryCached(t) PROVE CacheCoherent'
  <2>1. /\ cache'.next = HasNext(metaList, t) /\ cache'.previous = HasPrevious(metaList, t)
        /\ cache'.hash = t
    BY <1>4, Zenon DEF QueryCached
  <2>2. metaList' = metaList /\ playable' = playable
    BY <1>4 DEF QueryCached
  <2> QED BY <2>1, <2>2 DEF CacheCoherent, HasNext, HasPrevious, IndexOf, Rank, PlayableAt,
          PositionOf
<1>5. ASSUME NEW m \in Tracks, RemoveMeta(m) PROVE CacheCoherent'
  <2>1. CASE m \in Queued(metaList)
    BY <1>3, <1>5, <2>1 DEF RemoveMeta
  <2>2. CASE m \notin Queued(metaList)
    <3>1. \A i \in DOMAIN metaList : metaList[i] \notin {m}
      BY <2>2 DEF Queued
    <3>2. metaList' = metaList
      BY <1>1, <1>5, <3>1, WithoutNothing DEF RemoveMeta
    <3> QED BY <1>2, <1>5, <2>2, <3>2 DEF RemoveMeta, QueueAndEngine
  <2> QED BY <2>1, <2>2
<1>6. ASSUME NEW S, RemoveMetas(S) PROVE CacheCoherent'
  <2>1. /\ metaList' = Without(metaList, S) /\ QueueAndEngine
        /\ cache' = IF Without(metaList, S) = metaList THEN cache ELSE Invalidated
    BY <1>6 DEF RemoveMetas
  <2> QED BY <2>1, <1>2, <1>3 DEF QueueAndEngine
<1>7. ASSUME NEW q, NEW m, NEW kind, PlayPlaylist(q, m, kind) PROVE CacheCoherent'
  <2> DEFINE same == kind # "album" /\ q = metaList
                     /\ eng.media \in Queued(metaList) \cup {NoTrack}
  <2>1. /\ metaList' = q /\ QueueAndEngine
        /\ cache' = IF same THEN cache ELSE Invalidated
    BY <1>7 DEF PlayPlaylist
  <2> QED BY <2>1, <1>2, <1>3 DEF QueueAndEngine
<1>8. ASSUME NEW m, AddMeta(m) PROVE CacheCoherent'
  BY <1>3, <1>8 DEF AddMeta
<1>9. ASSUME NEW q, MoveMetas(q) PROVE CacheCoherent'
  BY <1>3, <1>9 DEF MoveMetas
<1>10. CASE ClearPlayList \/ CacheExpires
  BY <1>3, <1>10 DEF ClearPlayList, CacheExpires
<1>11. CASE OnlyEngine \/ UNCHANGED vars
  BY <1>2, <1>11 DEF OnlyEngine, vars
<1>12. CASE UserStep
  BY <1>12, <1>2, <1>5, <1>6, <1>7, <1>8, <1>9, <1>10, <1>11
     DEF UserStep, PlayNextMeta, PlayPreMeta, Navigate, UserPlay, UserPause, PauseNow,
         UserStop, PlayPause, MprisPlay, SelectMeta, PlayImported, SetPlaybackMode,
         SetFadeInOut
<1>13. CASE EngineStep
  BY <1>13, <1>2, <1>4, <1>10, <1>11
     DEF EngineStep, NavigationTimeout, FadeProgress, FadeOutFinished, FadeInFinished,
         SwitchFadeOutFinished, LastProgressShot, BackendStarted, BackendFailed,
         BackendEnded, SdlWriteError, HandleEnd, PrepareForSleep, WakeUp
<1> QED BY <1>11, <1>12, <1>13 DEF Next

\* hasNextPlayableMeta() never answers from a queue that has changed since, as
\* long as no file is deleted.
THEOREM CachedAnswerIsCurrent ==
  ASSUME Vanishing = {}
  PROVE  Spec => []CacheCoherent
<1>1. Init => CacheCoherent
  BY DEF Init, CacheCoherent, NoCache
<1>2. IInv /\ CacheCoherent /\ [Next]_vars => CacheCoherent'
  BY CacheStep
<1> QED BY <1>1, <1>2, Invariance, PTL DEF Spec

-----------------------------------------------------------------------------
(* That no fade leaves the volume down, whichever stops or cancels which: the  *)
(* proof of LevelRestored, for either value of the setting that switches       *)
(* fading on, as long as it is not changed.                                    *)

\* The setting stays as it is.
OneSetting == \A a, b \in FadeSettings : a = b

\* Without fading nothing ever moves the level.
Untouched(r) == ~fadeInOut => r.anim = "none" /\ r.factor = "full"

\* The level is full, with or without an animation that is about to lower it.
Full(r) == r.factor = "full" /\ (~fadeInOut => r.anim = "none")

\* LevelRestored of a record, and what it takes to keep it.
Level(r) ==
    /\ r.anim = "none" /\ r.status # "Stopped" => r.factor = "full"
    /\ Untouched(r)

LevelInv == fadeInOut \in FadeSettings /\ Level(eng)

-----------------------------------------------------------------------------
(* What the methods do to the level. *)

LEMMA FullIsLevel ==
  ASSUME NEW r, Full(r)
  PROVE  Level(r) /\ Untouched(r)
BY DEF Full, Level, Untouched

LEMMA CancelLevel ==
  ASSUME NEW r, Sound(r)
  PROVE  LET x == CancelManualNavigation(r)
             y == CancelTrackSwitchFade(r)
         IN  /\ x.factor = r.factor /\ x.status = r.status /\ x.anim = r.anim
             /\ y.factor = r.factor /\ y.status = r.status /\ y.anim \in {r.anim, "none"}
BY DEF CancelManualNavigation, CancelTrackSwitchFade, Sound, EngineState

\* Loading a track stops the backend, and leaves the level.
LEMMA SetMediaMetaLevel ==
  ASSUME NEW r, Sound(r), NEW m \in MaybeTrack, NEW keep \in BOOLEAN
  PROVE  LET x == SetMediaMeta(r, m, keep)
         IN  x.factor = r.factor /\ x.status = "Stopped" /\ x.anim \in {r.anim, "none"}
<1> DEFINE calm == CancelManualNavigation(r)
           cancelled == IF keep THEN r ELSE CancelTrackSwitchFade(calm)
           flag == r.flag /\ r.media = NoTrack
<1>1. Sound(calm) /\ calm.factor = r.factor /\ calm.anim = r.anim
  BY CancelManualNavigationKeeps, CancelLevel DEF Keeps
<1>2. /\ cancelled.factor = r.factor /\ cancelled.anim \in {r.anim, "none"}
      /\ cancelled \in EngineState
  <2>1. CASE keep
    BY <2>1 DEF Sound
  <2>2. CASE ~keep
    <3>1. cancelled = CancelTrackSwitchFade(calm)
      BY <2>2
    <3> HIDE DEF calm, cancelled
    <3> QED BY <1>1, <3>1, CancelTrackSwitchFadeKeeps, CancelLevel DEF Keeps, Sound
  <2> QED BY <2>1, <2>2
<1>3. SetMediaMeta(r, m, keep) =
        [cancelled EXCEPT !.flag = flag, !.media = m, !.status = "Stopped"]
  BY DEF SetMediaMeta
<1> HIDE DEF cancelled, flag, calm
<1> QED BY <1>2, <1>3 DEF EngineState

LEMMA SetMediaMetaUntouched ==
  ASSUME NEW r, Sound(r), NEW m \in MaybeTrack, NEW keep \in BOOLEAN, Untouched(r)
  PROVE  Level(SetMediaMeta(r, m, keep))
BY SetMediaMetaLevel DEF Level, Untouched

LEMMA PauseFull ==
  ASSUME NEW r, Sound(r), Untouched(r)
  PROVE  Full(Pause(r))
<1> DEFINE quiet == Halt(r, "fadeIn")
<1>1. quiet \in EngineState /\ (r.anim = "none" => quiet.anim = "none")
  BY HaltKeeps DEF Keeps, Sound, Halt
<1>2. CASE fadeInOut
  <2>1. Pause(r) \in {Start(quiet, "fadeOut", "full"),
                      [BackendPause(quiet) EXCEPT !.factor = "full"]}
    BY <1>2 DEF Pause
  <2> HIDE DEF quiet
  <2> QED BY <1>1, <1>2, <2>1 DEF Full, Start, BackendPause, EngineState
<1>3. CASE ~fadeInOut
  <2>1. Pause(r) = [BackendPause(r) EXCEPT !.factor = "full"]
    BY <1>3 DEF Pause
  <2> QED BY <1>3, <2>1 DEF Full, Untouched, BackendPause, Sound, EngineState
<1> QED BY <1>2, <1>3

LEMMA LastProgressFull ==
  ASSUME NEW r, Sound(r), Full(r)
  PROVE  Full(LastProgress(r))
<1>1. Full(Pause(r)) /\ Sound(Pause(r))
  BY PauseFull, PauseKeeps, FullIsLevel DEF Keeps
<1>2. LastProgress(r) \in {r, [Pause(r) EXCEPT !.shot = TRUE, !.flag = FALSE]}
  BY DEF LastProgress
<1> QED BY <1>1, <1>2 DEF Full, Sound, EngineState

LEMMA BackendPlayLevel ==
  ASSUME NEW r, Sound(r)
  PROVE  BackendPlay(r).factor = r.factor /\ BackendPlay(r).anim = r.anim
BY DEF BackendPlay, Sound, EngineState

LEMMA PlayLoadedFull ==
  ASSUME NEW r, Sound(r), NEW q \in Seq(Tracks), Full(r)
  PROVE  Full(PlayLoaded(r, q))
<1>1. CASE r.media # NoTrack
  BY <1>1, BackendPlayLevel DEF PlayLoaded, Full
<1>2. CASE r.media = NoTrack /\ q # <<>>
  <2> DEFINE loaded == SetMediaMeta(r, Head(q), FALSE)
             started == BackendPlay(loaded)
  <2>1. Head(q) \in MaybeTrack /\ Head(q) # NoTrack
    BY <1>2, QueuedType, TracksAssumption DEF MaybeTrack
  <2>2. Sound(loaded) /\ loaded.media # NoTrack /\ Full(loaded)
    BY <2>1, SetMediaMetaKeeps, SetMediaMetaLevel DEF Keeps, Full
  <2>3. Sound(started) /\ Full(started)
    <3> HIDE DEF loaded
    <3> QED BY <2>2, BackendPlayKeeps, BackendPlayLevel DEF Keeps, Full
  <2>4. PlayLoaded(r, q) = LastProgress(started)
    BY <1>2 DEF PlayLoaded
  <2> HIDE DEF loaded, started
  <2> QED BY <2>3, <2>4, LastProgressFull
<1>3. CASE r.media = NoTrack /\ q = <<>>
  BY <1>3 DEF PlayLoaded
<1> QED BY <1>1, <1>2, <1>3

\* play() always leaves the level full.
LEMMA PlayFull ==
  ASSUME NEW r, Sound(r), NEW q \in Seq(Tracks), Untouched(r)
  PROVE  Full(Play(r, q))
<1> DEFINE ready == IF fadeInOut THEN [Halt(r, "fadeOut") EXCEPT !.factor = "full"] ELSE r
           begun == PlayLoaded(ready, q)
<1>1. Sound(ready) /\ Full(ready)
  BY HaltKeeps DEF Keeps, Sound, EngineState, Full, Untouched
<1>2. Sound(begun) /\ Full(begun)
  <2> HIDE DEF ready
  <2> QED BY <1>1, PlayLoadedKeeps, PlayLoadedFull DEF Keeps
<1>3. Play(r, q) = LastProgress(begun)
  BY DEF Play
<1> HIDE DEF begun
<1> QED BY <1>2, <1>3, LastProgressFull

LEMMA ResumeLevel ==
  ASSUME NEW r, Sound(r), NEW q \in Seq(Tracks), Untouched(r)
  PROVE  Level(Resume(r, q))
<1> DEFINE low == [r EXCEPT !.factor = "reduced"]
           ready == IF fadeInOut THEN Halt(low, "fadeOut") ELSE r
           begun == PlayLoaded(ready, q)
<1>1. Sound(low)
  BY DEF Sound, EngineState
<1>2. Sound(ready)
  <2> HIDE DEF low
  <2> QED BY <1>1, HaltKeeps DEF Keeps
<1>3. Sound(begun)
  <2> HIDE DEF ready
  <2> QED BY <1>2, PlayLoadedKeeps DEF Keeps
<1>4. CASE fadeInOut
  <2>1. Resume(r, q) = IF begun.anim # "fadeIn" THEN Start(begun, "fadeIn", "reduced")
                       ELSE begun
    BY <1>4 DEF Resume
  <2> HIDE DEF begun
  <2>2. Resume(r, q).anim = "fadeIn"
    BY <1>3, <2>1 DEF Start, Sound, EngineState
  <2> QED BY <1>4, <2>2 DEF Level, Untouched
<1>5. CASE ~fadeInOut
  <2>1. Full(r) /\ Resume(r, q) = PlayLoaded(r, q)
    BY <1>5 DEF Resume, Untouched, Full
  <2> QED BY <2>1, PlayLoadedFull, FullIsLevel
<1> QED BY <1>4, <1>5

LEMMA StopLevel ==
  ASSUME NEW r, Sound(r), Untouched(r)
  PROVE  Level(Stop(r))
<1> DEFINE still == [CancelTrackSwitchFade(r) EXCEPT !.status = "Stopped"]
<1>1. Sound(still)
  BY CancelTrackSwitchFadeKeeps DEF Keeps, Sound, EngineState, Statuses
<1>2. Untouched(still)
  BY CancelTrackSwitchFadeKeeps, CancelLevel DEF Untouched, Keeps, Sound, EngineState
<1>3. Stop(r) = SetMediaMeta(still, NoTrack, FALSE)
  BY DEF Stop
<1> HIDE DEF still
<1> QED BY <1>1, <1>2, <1>3, SetMediaMetaUntouched DEF MaybeTrack

LEMMA SwitchOrStopLevel ==
  ASSUME NEW r, Sound(r), NEW q \in Seq(Tracks), NEW m \in MaybeTrack,
         NEW play \in BOOLEAN, NEW keep \in BOOLEAN, Untouched(r)
  PROVE  Level(SwitchOrStop(r, q, m, play, keep))
<1> DEFINE free == CancelTrackSwitchFade(r)
           there == SetMediaMeta(free, m, keep)
           fading == [Start(free, "switchOut", "full") EXCEPT
                        !.target = [track |-> m, play |-> play, keep |-> keep]]
<1>1. CASE m = NoTrack
  BY <1>1, StopLevel DEF SwitchOrStop
<1>2. CASE m # NoTrack
  <2>1. Sound(free) /\ Untouched(free)
    BY CancelTrackSwitchFadeKeeps, CancelLevel DEF Keeps, Untouched
  <2>2. Sound(there) /\ Level(there)
    <3> HIDE DEF free
    <3> QED BY <1>2, <2>1, SetMediaMetaKeeps, SetMediaMetaUntouched DEF Keeps
  <2>3. Level(Play(there, q))
    <3> HIDE DEF there
    <3> QED BY <2>2, PlayFull, FullIsLevel DEF Level
  <2>4. fadeInOut => Level(fading)
    <3> HIDE DEF free
    <3>1. fading.anim = "switchOut"
      BY <2>1 DEF Start, Sound, EngineState
    <3> HIDE DEF fading
    <3> QED BY <3>1 DEF Level, Untouched
  <2>5. \/ fadeInOut /\ SwitchOrStop(r, q, m, play, keep) = fading
        \/ SwitchOrStop(r, q, m, play, keep) \in {there, Play(there, q)}
    BY <1>2 DEF SwitchOrStop, SwitchTo
  <2> HIDE DEF there, fading
  <2> QED BY <2>2, <2>3, <2>4, <2>5
<1> QED BY <1>1, <1>2

LEMMA AutoAdvanceLevel ==
  ASSUME NEW r, Sound(r), NEW q \in Seq(Tracks), NEW cur, NEW play \in BOOLEAN, Untouched(r),
         NEW x \in AutoAdvance(r, q, cur, play)
  PROVE  Level(x)
<1>1. PICK m \in AutoTargets(q, cur) : x = SwitchOrStop(r, q, m, play, FALSE)
  BY DEF AutoAdvance
<1> QED BY <1>1, TargetsType, SwitchOrStopLevel

LEMMA ExecuteManualNavigationLevel ==
  ASSUME NEW r, Sound(r), NEW q \in Seq(Tracks), Level(r),
         NEW x \in ExecuteManualNavigation(r, q)
  PROVE  Level(x)
<1> DEFINE taken == [r EXCEPT !.pending = 0]
<1>1. Sound(taken) /\ Level(taken)
  BY DEF Sound, EngineState, Level, Untouched
<1>2. CASE x = taken
  BY <1>1, <1>2
<1>3. CASE x # taken
  <2>1. PICK m \in NavigationTargets(q, r.media, r.pending) :
              x = SwitchOrStop(taken, q, m, TRUE, TRUE)
    BY <1>3 DEF ExecuteManualNavigation
  <2>2. m \in MaybeTrack
    BY TargetsType
  <2> HIDE DEF taken
  <2> QED BY <2>1, <2>2, <1>1, SwitchOrStopLevel DEF Level
<1> QED BY <1>2, <1>3

LEMMA RequestManualNavigationLevel ==
  ASSUME NEW r, Sound(r), NEW q \in Seq(Tracks), NEW steps \in Int, Level(r),
         NEW x \in RequestManualNavigation(r, q, steps)
  PROVE  Level(x)
<1> DEFINE asked == [r EXCEPT !.pending = r.pending + steps]
<1>1. Sound(asked) /\ Level(asked)
  <2>1. r.pending + steps \in Int
    BY DEF Sound, EngineState
  <2> QED BY <2>1 DEF Sound, EngineState, Level, Untouched
<1>2. CASE r.navTimer
  BY <1>1, <1>2 DEF RequestManualNavigation
<1>3. CASE ~r.navTimer
  <2>1. PICK y \in ExecuteManualNavigation(asked, q) : x = [y EXCEPT !.navTimer = TRUE]
    BY <1>3 DEF RequestManualNavigation
  <2> HIDE DEF asked
  <2>2. Sound(y) /\ Level(y)
    BY <1>1, ExecuteManualNavigationKeeps, ExecuteManualNavigationLevel
  <2> QED BY <2>1, <2>2 DEF Sound, EngineState, Level, Untouched
<1> QED BY <1>2, <1>3

-----------------------------------------------------------------------------
(* The invariant. *)

\* What a handler has to show that leaves the setting alone.
LEMMA LevelKept ==
  ASSUME LevelInv, UNCHANGED fadeInOut, Level(eng')
  PROVE  LevelInv'
BY DEF LevelInv, Level, Untouched

LEMMA UserStepLevel ==
  ASSUME IInv, LevelInv, OneSetting, UserStep
  PROVE  LevelInv'
<1>1. metaList \in Seq(Tracks) /\ Sound(eng) /\ Level(eng) /\ Untouched(eng)
  BY DEF IInv, TypeOK, LevelInv, Level
<1>2. ASSUME OnlyEngine \/ QueueAndEngine, Level(eng') PROVE LevelInv'
  BY <1>2, LevelKept DEF OnlyEngine, QueueAndEngine
<1> DEFINE calm == CancelManualNavigation(eng)
<1>3. Sound(calm) /\ Level(calm) /\ Untouched(calm)
  BY <1>1, CancelManualNavigationKeeps, CancelLevel DEF Keeps, Level, Untouched
<1>4. Level(BackendPause(eng))
  BY <1>1 DEF BackendPause, Sound, EngineState, Level, Untouched
<1>5. Level(Play(eng, metaList)) /\ Level(Pause(eng)) /\ Level(Resume(eng, metaList))
  BY <1>1, PlayFull, PauseFull, ResumeLevel, FullIsLevel
<1>6. ASSUME NEW steps \in Int, eng' \in RequestManualNavigation(eng, metaList, steps)
      PROVE  Level(eng')
  BY <1>6, <1>1, RequestManualNavigationLevel
<1> HIDE DEF calm
<1>7. CASE PlayNextMeta \/ PlayPreMeta
  <2>1. 1 \in Int /\ -1 \in Int
    OBVIOUS
  <2> QED BY <1>7, <2>1, <1>2, <1>6 DEF PlayNextMeta, PlayPreMeta, Navigate
<1>8. CASE UserPlay \/ UserPause \/ PauseNow
  BY <1>8, <1>2, <1>4, <1>5 DEF UserPlay, UserPause, PauseNow
<1>9. CASE UserStop
  BY <1>9, <1>1, <1>2, StopLevel DEF UserStop
<1>10. CASE PlayPause
  <2>1. \/ eng' = Resume(eng, metaList)
        \/ eng' = Pause(eng)
        \/ eng' = Play(eng, metaList)
        \/ eng' \in RequestManualNavigation(eng, metaList, 1)
    BY <1>10 DEF PlayPause
  <2>2. OnlyEngine
    BY <1>10 DEF PlayPause
  <2> QED BY <2>1, <2>2, <1>2, <1>5, <1>6
<1>11. CASE MprisPlay
  <2>1. \/ eng' = Resume(eng, metaList)
        \/ eng' = BackendPause(eng)
        \/ eng' = Play(eng, metaList)
        \/ eng' \in RequestManualNavigation(eng, metaList, 1)
    BY <1>11 DEF MprisPlay
  <2>2. OnlyEngine
    BY <1>11 DEF MprisPlay
  <2> QED BY <2>1, <2>2, <1>2, <1>4, <1>5, <1>6
<1>12. ASSUME NEW m \in Tracks, SelectMeta(m) PROVE LevelInv'
  <2>1. m \in MaybeTrack
    BY DEF MaybeTrack
  <2> QED BY <1>12, <2>1, <1>1, <1>2, SetMediaMetaUntouched DEF SelectMeta
<1>13. ASSUME NEW m \in Tracks, PlayImported(m) PROVE LevelInv'
  <2> DEFINE loaded == IF m # eng.media /\ m \in Queued(metaList)
                       THEN SetMediaMeta(eng, m, FALSE) ELSE eng
  <2>1. m \in MaybeTrack
    BY DEF MaybeTrack
  <2>2. Sound(loaded) /\ Untouched(loaded)
    BY <2>1, <1>1, SetMediaMetaKeeps, SetMediaMetaUntouched DEF Keeps, Level
  <2>3. eng' = Play(loaded, metaList) /\ OnlyEngine
    BY <1>13 DEF PlayImported
  <2> HIDE DEF loaded
  <2> QED BY <2>2, <2>3, <1>1, <1>2, PlayFull, FullIsLevel
<1>14. ASSUME NEW m \in Tracks, AddMeta(m) \/ RemoveMeta(m) PROVE LevelInv'
  BY <1>14, <1>2, <1>3 DEF AddMeta, RemoveMeta, calm
<1>15. ASSUME NEW S \in SUBSET Tracks, RemoveMetas(S) PROVE LevelInv'
  <2> DEFINE q == Without(metaList, S)
             anchor == RemovalAnchor(metaList, S, eng.media)
             going == (eng.status = "Playing")
  <2>1. q \in Seq(Tracks) /\ going \in BOOLEAN
    BY <1>1, WithoutType
  <2>2. \/ eng' = Stop(calm)
        \/ eng' \in AutoAdvance(calm, q, anchor, going)
        \/ eng' = calm
    BY <1>15 DEF RemoveMetas, calm
  <2>3. QueueAndEngine
    BY <1>15 DEF RemoveMetas
  <2> HIDE DEF q, anchor, going
  <2> QED BY <2>1, <2>2, <2>3, <1>2, <1>3, StopLevel, AutoAdvanceLevel
<1>16. CASE ClearPlayList
  <2>1. eng' \in {Stop(calm), calm} /\ QueueAndEngine
    BY <1>16 DEF ClearPlayList, calm
  <2> QED BY <2>1, <1>2, <1>3, StopLevel
<1>17. ASSUME NEW q \in Queues, MoveMetas(q) PROVE LevelInv'
  BY <1>17, <1>2, <1>3 DEF MoveMetas, calm
<1>18. ASSUME NEW q \in Queues, NEW m \in MaybeTrack, NEW kind, PlayPlaylist(q, m, kind)
       PROVE  LevelInv'
  <2> DEFINE same == kind # "album" /\ q = metaList
                     /\ eng.media \in Queued(metaList) \cup {NoTrack}
             playFlag == eng.media # m /\ eng.media \notin Queued(q)
             queued == IF same THEN eng
                       ELSE IF playFlag /\ eng.media # NoTrack THEN Stop(calm) ELSE calm
             chosen == CASE m \notin {NoTrack, eng.media} -> SetMediaMeta(queued, m, FALSE)
                         [] m = NoTrack /\ kind = "musicResult" ->
                               SetMediaMeta(queued, Head(q), FALSE)
                         [] OTHER -> queued
  <2>1. eng' = Play(chosen, q) /\ q # <<>> /\ QueueAndEngine
    BY <1>18 DEF PlayPlaylist, calm
  <2>2. q \in Seq(Tracks)
    BY QueuesAssumption
  <2>3. Sound(queued) /\ Untouched(queued)
    BY <1>1, <1>3, StopKeeps, StopLevel DEF Keeps, Level
  <2>4. Sound(chosen) /\ Untouched(chosen)
    <3>1. Head(q) \in MaybeTrack
      BY <2>1, <2>2, QueuedType DEF MaybeTrack
    <3>2. \/ chosen = SetMediaMeta(queued, m, FALSE)
          \/ chosen = SetMediaMeta(queued, Head(q), FALSE)
          \/ chosen = queued
      OBVIOUS
    <3> HIDE DEF queued, chosen
    <3> QED BY <3>1, <3>2, <2>3, SetMediaMetaKeeps, SetMediaMetaUntouched DEF Keeps, Level
  <2> HIDE DEF chosen
  <2> QED BY <2>1, <2>2, <2>4, <1>2, PlayFull, FullIsLevel
<1>19. ASSUME NEW mode \in Modes, SetPlaybackMode(mode) PROVE LevelInv'
  BY <1>19, <1>1, LevelKept DEF SetPlaybackMode
<1>20. ASSUME NEW on \in FadeSettings, SetFadeInOut(on) PROVE LevelInv'
  BY <1>20 DEF SetFadeInOut, OneSetting, LevelInv
<1> QED BY <1>7, <1>8, <1>9, <1>10, <1>11, <1>12, <1>13, <1>14, <1>15, <1>16, <1>17, <1>18,
           <1>19, <1>20 DEF UserStep

LEMMA EngineStepLevel ==
  ASSUME IInv, LevelInv, EngineStep
  PROVE  LevelInv'
<1>1. metaList \in Seq(Tracks) /\ Sound(eng) /\ Level(eng) /\ Untouched(eng)
  BY DEF IInv, TypeOK, LevelInv, Level
<1>2. ASSUME OnlyEngine, Level(eng') PROVE LevelInv'
  BY <1>2, LevelKept DEF OnlyEngine
<1>3. ASSUME NEW t \in CacheQueries, QueryCached(t) PROVE LevelInv'
  BY <1>3, <1>1, LevelKept DEF QueryCached
<1>4. CASE CacheExpires \/ SdlWriteError \/ (\E t \in Vanishing : FileVanishes(t)) \/ WakeUp
  BY <1>4, <1>1, LevelKept DEF CacheExpires, SdlWriteError, FileVanishes, WakeUp
<1>5. CASE NavigationTimeout
  <2>1. OnlyEngine /\ (\/ eng' = [eng EXCEPT !.navTimer = FALSE]
                       \/ eng' \in ExecuteManualNavigation(eng, metaList))
    BY <1>5 DEF NavigationTimeout
  <2>2. Level([eng EXCEPT !.navTimer = FALSE])
    BY <1>1 DEF Level, Untouched, Sound, EngineState
  <2> QED BY <2>1, <2>2, <1>1, <1>2, ExecuteManualNavigationLevel
\* An animation that runs tells that fading is on.
<1>6. CASE FadeProgress
  BY <1>6, <1>1, <1>2 DEF FadeProgress, Level, Untouched, Sound, EngineState
<1>7. CASE FadeOutFinished
  BY <1>7, <1>1, <1>2 DEF FadeOutFinished, BackendPause, Level, Untouched, Sound, EngineState
<1>8. CASE FadeInFinished
  BY <1>8, <1>1, <1>2 DEF FadeInFinished, Level, Untouched, Sound, EngineState
<1>9. CASE SwitchFadeOutFinished
  <2> DEFINE over == [eng EXCEPT !.anim = "none", !.target = NoTarget,
                                 !.factor = "reduced"]
             loaded == SetMediaMeta(over, eng.target.track, eng.target.keep)
             started == BackendPlay(loaded)
             risen == Start(started, "switchIn", "reduced")
  <2>1. /\ eng.target.track \in MaybeTrack /\ eng.target.track # NoTrack
        /\ eng.target.keep \in BOOLEAN /\ fadeInOut
    BY <1>9, <1>1, TracksAssumption DEF SwitchFadeOutFinished, Sound, EngineState, Target,
       MaybeTrack, Untouched
  <2>2. Sound(over)
    BY <1>1 DEF Sound, EngineState, Animations, NoTarget, Target, MaybeTrack
  <2>3. Sound(loaded) /\ loaded.status = "Stopped" /\ loaded.media # NoTrack
    <3> HIDE DEF over
    <3> QED BY <2>1, <2>2, SetMediaMetaKeeps, SetMediaMetaLevel DEF Keeps
  <2>4. Level(loaded)
    <3> HIDE DEF loaded
    <3> QED BY <2>1, <2>3 DEF Level, Untouched
  <2>5. risen.anim = "switchIn"
    <3>1. Sound(started)
      <4> HIDE DEF loaded
      <4> QED BY <2>3, BackendPlayKeeps DEF Keeps
    <3> HIDE DEF started
    <3> QED BY <3>1 DEF Start, Sound, EngineState
  <2>6. eng' \in {loaded, risen} /\ OnlyEngine
    BY <1>9 DEF SwitchFadeOutFinished
  <2> HIDE DEF loaded, risen
  <2>7. Level(risen)
    BY <2>1, <2>5 DEF Level, Untouched
  <2> QED BY <2>4, <2>6, <2>7, <1>2
<1>10. CASE LastProgressShot
  <2> DEFINE over == [eng EXCEPT !.shot = FALSE]
  <2>1. Sound(over) /\ Untouched(over)
    BY <1>1 DEF Sound, EngineState, Untouched
  <2>2. eng' = Play(over, metaList) /\ OnlyEngine
    BY <1>10 DEF LastProgressShot
  <2> HIDE DEF over
  <2> QED BY <2>1, <2>2, <1>1, <1>2, PlayFull, FullIsLevel
<1>11. CASE BackendStarted \/ BackendFailed
  BY <1>11, <1>1, <1>2 DEF BackendStarted, BackendFailed, Level, Untouched, Sound, EngineState
<1>12. CASE BackendEnded
  BY <1>12, <1>1, LevelKept DEF BackendEnded, Level, Untouched, Sound, EngineState
<1>13. CASE HandleEnd
  BY <1>13, <1>1, LevelKept, AutoAdvanceLevel DEF HandleEnd
<1>14. CASE PrepareForSleep
  <2>1. Level(BackendPause(eng))
    BY <1>1 DEF BackendPause, Sound, EngineState, Level, Untouched
  <2> QED BY <1>14, <2>1, LevelKept DEF PrepareForSleep
<1> QED BY <1>3, <1>4, <1>5, <1>6, <1>7, <1>8, <1>9, <1>10, <1>11, <1>12, <1>13, <1>14
        DEF EngineStep

\* As long as the setting is not changed, what sounds without an animation has its
\* full level, whichever fade stopped or cancelled another one.
THEOREM LevelIsRestored ==
  ASSUME OneSetting
  PROVE  Spec => []LevelRestored
<1>1. Init => LevelInv
  BY DEF Init, LevelInv, Level, Untouched
<1>2. IInv /\ LevelInv /\ [Next]_vars => LevelInv'
  <2> SUFFICES ASSUME IInv, LevelInv, [Next]_vars PROVE LevelInv'
    OBVIOUS
  <2>1. CASE UNCHANGED vars
    BY <2>1 DEF vars, LevelInv, Level, Untouched
  <2> QED BY <2>1, UserStepLevel, EngineStepLevel DEF Next
<1>3. LevelInv => LevelRestored
  BY DEF LevelInv, Level, LevelRestored
<1> QED BY <1>1, <1>2, <1>3, Invariance, PTL DEF Spec

=============================================================================
