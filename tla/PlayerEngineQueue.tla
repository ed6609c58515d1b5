-------------------------- MODULE PlayerEngineQueue --------------------------
(* Where the engine goes in its queue: the proofs of PlayerEngine's properties   *)
(* about what follows an ended track, a removed track and presses of Next and    *)
(* Previous, for queues of any length.  They count ranks, as the code does, and  *)
(* the properties speak of positions: the lemmas on ranks say how the two meet.  *)
EXTENDS PlayerEngineProofs

-----------------------------------------------------------------------------
(* Ranks. *)

\* The playable positions of a queue are finitely many positions of it.
LEMMA PlayableType ==
  ASSUME NEW q \in Seq(Tracks)
  PROVE  /\ IsFiniteSet(PlayableAt(q)) /\ Cardinality(PlayableAt(q)) \in Nat
         /\ PlayableAt(q) \in SUBSET (1 .. Len(q)) /\ Len(q) \in Nat
         /\ PlayableAt(q) \in SUBSET Nat
         /\ \A i \in PlayableAt(q) : q[i] \in Tracks /\ q[i] \in playable
<1>1. PlayableAt(q) \in SUBSET (1 .. Len(q)) /\ Len(q) \in Nat
  BY DEF PlayableAt
<1>2. IsFiniteSet(1 .. Len(q))
  BY <1>1, FS_Interval
<1>3. IsFiniteSet(PlayableAt(q))
  BY <1>1, <1>2, FS_Subset
<1>4. \A i \in PlayableAt(q) : q[i] \in Tracks /\ q[i] \in playable
  BY DEF PlayableAt
<1> QED BY <1>1, <1>3, <1>4, FS_CardinalityType

LEMMA RankType ==
  ASSUME NEW q \in Seq(Tracks), NEW i
  PROVE  /\ Rank(q, i) \in Nat
         /\ IsFiniteSet({j \in PlayableAt(q) : j < i})
         /\ Rank(q, i) <= Cardinality(PlayableAt(q))
<1> DEFINE before == {j \in PlayableAt(q) : j < i}
<1>1. before \subseteq PlayableAt(q)
  OBVIOUS
<1>2. IsFiniteSet(before) /\ Cardinality(before) <= Cardinality(PlayableAt(q))
  <2> HIDE DEF before
  <2> QED BY <1>1, PlayableType, FS_Subset
<1>3. Cardinality(before) \in Nat
  BY <1>2, FS_CardinalityType
<1> QED BY <1>2, <1>3 DEF Rank

\* Positions with nothing playable between them have the same rank.
LEMMA RankSame ==
  ASSUME NEW q \in Seq(Tracks), NEW i \in Int, NEW k \in Int, i <= k,
         \A j \in PlayableAt(q) : ~(i <= j /\ j < k)
  PROVE  Rank(q, k) = Rank(q, i)
<1>1. {j \in PlayableAt(q) : j < k} = {j \in PlayableAt(q) : j < i}
  <2>1. \A j \in PlayableAt(q) : j \in Nat
    BY PlayableType
  <2> QED BY <2>1
<1> QED BY <1>1 DEF Rank

\* The rank grows by one behind a playable position.
LEMMA RankNext ==
  ASSUME NEW q \in Seq(Tracks), NEW i \in PlayableAt(q), NEW k \in Int, i < k,
         \A j \in PlayableAt(q) : ~(i < j /\ j < k)
  PROVE  Rank(q, k) = Rank(q, i) + 1
<1> DEFINE before == {j \in PlayableAt(q) : j < i}
<1>1. i \in Nat /\ \A j \in PlayableAt(q) : j \in Nat
  BY PlayableType
<1>2. {j \in PlayableAt(q) : j < k} = before \cup {i}
  <2>1. \A j \in PlayableAt(q) : j < k <=> j < i \/ j = i
    BY <1>1
  <2> QED BY <2>1, Zenon
<1>3. i \notin before /\ IsFiniteSet(before)
  BY <1>1, RankType
<1> HIDE DEF before
<1>4. Cardinality(before \cup {i}) = Cardinality(before) + 1
  BY <1>3, FS_AddElement
<1> QED BY <1>2, <1>4 DEF Rank, before

\* Ranks grow with the positions, and strictly behind a playable one.
LEMMA RankGrows ==
  ASSUME NEW q \in Seq(Tracks), NEW i \in PlayableAt(q), NEW k \in Int, i < k
  PROVE  Rank(q, i) < Rank(q, k)
<1> DEFINE before == {j \in PlayableAt(q) : j < i}
           upTo == {j \in PlayableAt(q) : j < k}
<1>1. i \in Nat /\ \A j \in PlayableAt(q) : j \in Nat
  BY PlayableType
<1>2. before \cup {i} \subseteq upTo
  <2>1. \A j \in PlayableAt(q) : j < i \/ j = i => j < k
    BY <1>1
  <2> QED BY <2>1, Zenon
<1>3. i \notin before /\ IsFiniteSet(before) /\ IsFiniteSet(upTo)
  <2>1. ~(i < i)
    BY <1>1
  <2> QED BY <2>1, RankType
<1> HIDE DEF before, upTo
<1>4. Cardinality(before \cup {i}) = Cardinality(before) + 1
  BY <1>3, FS_AddElement
<1>5. Cardinality(before \cup {i}) <= Cardinality(upTo)
  BY <1>2, <1>3, FS_Subset
<1>6. Cardinality(before) \in Nat /\ Cardinality(upTo) \in Nat
  BY <1>3, FS_CardinalityType
<1> QED BY <1>4, <1>5, <1>6 DEF Rank, before, upTo

\* What is playable has the ranks below the number of playable tracks, each once.
LEMMA RankOfPlayable ==
  ASSUME NEW q \in Seq(Tracks), NEW i \in PlayableAt(q)
  PROVE  /\ Rank(q, i) \in 0 .. Cardinality(PlayableAt(q)) - 1
         /\ \A j \in PlayableAt(q) : Rank(q, j) = Rank(q, i) => j = i
<1> DEFINE end == Len(q) + 1
<1>1. /\ Cardinality(PlayableAt(q)) \in Nat /\ Len(q) \in Nat
      /\ \A j \in PlayableAt(q) : j \in Nat /\ j <= Len(q)
  BY PlayableType
<1>2. Rank(q, i) < Rank(q, end)
  BY <1>1, RankGrows
<1>3. /\ Rank(q, i) \in Nat /\ Rank(q, end) \in Nat
      /\ Rank(q, end) <= Cardinality(PlayableAt(q))
  BY RankType
<1>4. ASSUME NEW j \in PlayableAt(q), Rank(q, j) = Rank(q, i) PROVE j = i
  <2>1. i \in Int /\ j \in Int
    BY <1>1
  <2>2. ~(i < j) /\ ~(j < i)
    BY <2>1, <1>4, <1>3, RankGrows
  <2> QED BY <2>1, <2>2
<1> HIDE DEF end
<1> QED BY <1>1, <1>2, <1>3, <1>4

\* Below a first position all have rank 0, above the last one the highest.
LEMMA RankOfEnds ==
  ASSUME NEW q \in Seq(Tracks), NEW i \in Int
  PROVE  /\ (\A j \in PlayableAt(q) : ~(j < i)) => Rank(q, i) = 0
         /\ (\A j \in PlayableAt(q) : j < i) => Rank(q, i) = Cardinality(PlayableAt(q))
         /\ i \in PlayableAt(q) /\ (\A j \in PlayableAt(q) : ~(i < j))
            => Rank(q, i) = Cardinality(PlayableAt(q)) - 1
<1> DEFINE before(k) == {j \in PlayableAt(q) : j < k}
<1>1. ASSUME \A j \in PlayableAt(q) : ~(j < i) PROVE Rank(q, i) = 0
  <2>1. before(i) = {}
    BY <1>1, Zenon
  <2> QED BY <2>1, FS_EmptySet DEF Rank
<1>2. ASSUME NEW k \in Int, \A j \in PlayableAt(q) : j < k
      PROVE  Rank(q, k) = Cardinality(PlayableAt(q))
  <2>1. before(k) = PlayableAt(q)
    BY <1>2, Zenon
  <2> QED BY <2>1 DEF Rank
<1>3. ASSUME i \in PlayableAt(q), \A j \in PlayableAt(q) : ~(i < j)
      PROVE  Rank(q, i) = Cardinality(PlayableAt(q)) - 1
  <2>1. \A j \in PlayableAt(q) : j \in Nat /\ j < i + 1
    BY <1>3, PlayableType
  <2>2. i + 1 \in Int /\ i < i + 1 /\ Rank(q, i + 1) = Cardinality(PlayableAt(q))
    BY <2>1, <1>2
  <2>3. Rank(q, i + 1) = Rank(q, i) + 1
    BY <1>3, <2>1, <2>2, RankNext
  <2>4. Rank(q, i) \in Nat
    BY RankType
  <2> QED BY <2>2, <2>3, <2>4
<1> QED BY <1>1, <1>2, <1>3

\* Every rank below the number of playable tracks is that of a playable position.
LEMMA RankTaken ==
  ASSUME NEW q \in Seq(Tracks), NEW k \in 0 .. Cardinality(PlayableAt(q)) - 1
  PROVE  \E i \in PlayableAt(q) : Rank(q, i) = k
<1> DEFINE K == PlayableAt(q)
<1>1. K \in SUBSET (1 .. Len(q)) /\ Len(q) \in Nat /\ Cardinality(K) \in Nat /\ K \in SUBSET Nat
  BY PlayableType
<1>2. k + 1 \in 1 .. Cardinality(K) /\ k \in Nat
  BY <1>1
<1> HIDE DEF K
<1>3. PICK i \in K : Cardinality({j \in K : j <= i}) = k + 1
  BY <1>1, <1>2, RankReached
<1>4. {j \in K : j <= i} = {j \in K : j < i + 1} /\ i \in Nat
  <2>1. \A j \in K : j <= i <=> j < i + 1
    BY <1>1
  <2> QED BY <2>1, <1>1
<1>5. Rank(q, i + 1) = k + 1
  BY <1>3, <1>4 DEF Rank, K
<1>6. Rank(q, i + 1) = Rank(q, i) + 1
  <2>1. i \in PlayableAt(q) /\ i + 1 \in Int /\ i < i + 1
    BY <1>4 DEF K
  <2>2. \A j \in PlayableAt(q) : ~(i < j /\ j < i + 1)
    BY <1>1, <1>4 DEF K
  <2> QED BY <2>1, <2>2, RankNext
<1>7. Rank(q, i) \in Nat
  BY RankType
<1> QED BY <1>2, <1>5, <1>6, <1>7 DEF K

\* The track of a playable position's rank is the one at it.
LEMMA TrackOfRank ==
  ASSUME NEW q \in Seq(Tracks), NEW i \in PlayableAt(q)
  PROVE  PlayableOfRank(q, Rank(q, i)) = {q[i]}
BY RankOfPlayable DEF PlayableOfRank

\* A nonempty set of playable positions has a lowest and a highest one.
LEMMA Extremes ==
  ASSUME NEW q \in Seq(Tracks), NEW S \in SUBSET PlayableAt(q), S # {}
  PROVE  /\ \E i \in S : \A j \in S : i <= j
         /\ \E i \in S : \A j \in S : j <= i
         /\ \A i, k \in S : (\A j \in S : i <= j) /\ (\A j \in S : k <= j) => i = k
         /\ \A i, k \in S : (\A j \in S : j <= i) /\ (\A j \in S : j <= k) => i = k
<1>1. S \in SUBSET Nat /\ Len(q) \in Nat /\ \A j \in S : j <= Len(q)
  BY PlayableType
<1>2. \E i \in S : \A j \in S : i <= j
  BY <1>1, LeastNatural
<1> DEFINE mirror == {Len(q) - j : j \in S}
<1>3. \E i \in S : \A j \in S : j <= i
  <2>1. mirror \in SUBSET Nat /\ mirror # {}
    BY <1>1
  <2> HIDE DEF mirror
  <2>2. PICK m \in mirror : \A k \in mirror : m <= k
    BY <2>1, LeastNatural
  <2>3. PICK i \in S : m = Len(q) - i
    BY <2>2 DEF mirror
  <2>4. \A j \in S : m <= Len(q) - j
    BY <2>2 DEF mirror
  <2>5. \A j \in S : j <= i
    BY <2>3, <2>4, <1>1
  <2> QED BY <2>5
<1>4. \A i, k \in S : i <= k /\ k <= i => i = k
  BY <1>1
<1> QED BY <1>2, <1>3, <1>4
-----------------------------------------------------------------------------
(* What follows a track. *)

\* A track of a queue has a position there, the one of a playable track counts.
LEMMA PositionFacts ==
  ASSUME NEW q \in Seq(Tracks), NEW t
  PROVE  /\ t \in Queued(q) => /\ PositionOf(q, t) \in 1 .. Len(q)
                               /\ q[PositionOf(q, t)] = t
         /\ t \in Queued(q) /\ t \in playable => PositionOf(q, t) \in PlayableAt(q)
         /\ PositionOf(q, t) \in PlayableAt(q) /\ t \in Queued(q)
            => IndexOf(q, t) = Rank(q, PositionOf(q, t))
         /\ t \notin Queued(q) \/ t \notin playable => IndexOf(q, t) = -1
<1>1. ASSUME t \in Queued(q)
      PROVE  PositionOf(q, t) \in DOMAIN q /\ q[PositionOf(q, t)] = t
  <2>1. \E i \in DOMAIN q : q[i] = t
    BY <1>1 DEF Queued
  <2> QED BY <2>1 DEF PositionOf
<1>2. ASSUME t \in Queued(q), PositionOf(q, t) \in PlayableAt(q)
      PROVE  IndexOf(q, t) = Rank(q, PositionOf(q, t))
  BY <1>1, <1>2 DEF IndexOf
<1>3. ASSUME t \notin Queued(q) \/ t \notin playable
      PROVE  IndexOf(q, t) = -1
  BY <1>3 DEF IndexOf, Queued, PlayableAt
<1>4. DOMAIN q = 1 .. Len(q)
  OBVIOUS
<1> QED BY <1>1, <1>2, <1>3, <1>4 DEF PlayableAt

\* The playable positions behind track t.
Later(q, t) == {i \in PlayableAt(q) : i > PositionOf(q, t)}
FirstOf(S) == CHOOSE i \in S : \A j \in S : i <= j

LEMMA FirstIsLeast ==
  ASSUME NEW q \in Seq(Tracks), NEW S \in SUBSET PlayableAt(q), S # {}
  PROVE  /\ FirstOf(S) \in S /\ \A j \in S : FirstOf(S) <= j
         /\ \A i \in S : (\A j \in S : i <= j) => i = FirstOf(S)
<1>1. FirstOf(S) \in S /\ \A j \in S : FirstOf(S) <= j
  BY Extremes DEF FirstOf
<1> QED BY <1>1, Extremes

\* The first playable position has rank 0.
LEMMA FirstRank ==
  ASSUME NEW q \in Seq(Tracks), PlayableAt(q) # {}
  PROVE  PlayableOfRank(q, 0) = {q[FirstOf(PlayableAt(q))]}
<1> DEFINE i == FirstOf(PlayableAt(q))
<1>1. i \in PlayableAt(q) /\ \A j \in PlayableAt(q) : i <= j
  BY FirstIsLeast
<1>2. i \in Int /\ \A j \in PlayableAt(q) : j \in Int
  BY <1>1, PlayableType
<1> HIDE DEF i
<1>3. Rank(q, i) = 0
  BY <1>1, <1>2, RankOfEnds
<1> QED BY <1>1, <1>3, TrackOfRank DEF i

\* The rank of the first playable position behind a track, which the track need not
\* be playable for.
LEMMA LaterRank ==
  ASSUME NEW q \in Seq(Tracks), NEW t \in Queued(q), Later(q, t) # {}
  PROVE  LET f == FirstOf(Later(q, t))
         IN  /\ f \in Later(q, t) /\ f \in PlayableAt(q)
             /\ Rank(q, f) = IF PositionOf(q, t) \in PlayableAt(q)
                             THEN Rank(q, PositionOf(q, t)) + 1
                             ELSE Rank(q, PositionOf(q, t))
<1> DEFINE f == FirstOf(Later(q, t))
           p == PositionOf(q, t)
<1>1. f \in Later(q, t) /\ \A j \in Later(q, t) : f <= j
  <2>1. Later(q, t) \in SUBSET PlayableAt(q)
    BY DEF Later
  <2> QED BY <2>1, FirstIsLeast
<1>2. /\ f \in PlayableAt(q) /\ p < f
      /\ \A j \in PlayableAt(q) : j > p => f <= j
  BY <1>1 DEF Later
<1>3. f \in Int /\ p \in Int /\ \A j \in PlayableAt(q) : j \in Int
  BY <1>2, PlayableType, PositionFacts
<1> HIDE DEF f, p
<1>4. \A j \in PlayableAt(q) : ~(p < j /\ j < f)
  BY <1>2, <1>3
<1>5. CASE p \in PlayableAt(q)
  BY <1>2, <1>3, <1>4, <1>5, RankNext, <1>1 DEF f, p
<1>6. CASE p \notin PlayableAt(q)
  <2>1. \A j \in PlayableAt(q) : ~(p <= j /\ j < f)
    BY <1>3, <1>4, <1>6
  <2>2. p <= f
    BY <1>2, <1>3
  <2> QED BY <1>2, <1>3, <1>6, <2>1, <2>2, RankSame, <1>1 DEF f, p
<1> QED BY <1>5, <1>6

\* In the modes that go forward, the first playable track behind one of the queue
\* follows it, if there is one.
LEMMA LaterFollows ==
  ASSUME NEW q \in Seq(Tracks), NEW t \in Queued(q), Later(q, t) # {},
         playbackMode \in {"RepeatNull", "RepeatAll"}
  PROVE  AutoTargets(q, t) = {q[FirstOf(Later(q, t))]}
<1> DEFINE f == FirstOf(Later(q, t))
           p == PositionOf(q, t)
           n == Cardinality(PlayableAt(q))
           from == AdvanceFrom(q, t)
<1>1. /\ f \in Later(q, t) /\ f \in PlayableAt(q)
      /\ Rank(q, f) = IF p \in PlayableAt(q) THEN Rank(q, p) + 1 ELSE Rank(q, p)
  BY LaterRank
<1>2. CASE playbackMode = "RepeatNull"
  <2>1. {i \in Later(q, t) : \A k \in Later(q, t) : i <= k} = {f}
    <3>1. Later(q, t) \in SUBSET PlayableAt(q)
      BY DEF Later
    <3>2. /\ f \in Later(q, t) /\ \A j \in Later(q, t) : f <= j
          /\ \A i \in Later(q, t) : (\A j \in Later(q, t) : i <= j) => i = f
      BY <3>1, FirstIsLeast
    <3> HIDE DEF f
    <3> QED BY <3>2
  <2>2. AutoTargets(q, t) =
          {q[i] : i \in {j \in Later(q, t) : \A k \in Later(q, t) : j <= k}}
    BY <1>2 DEF AutoTargets, Later
  <2> QED BY <2>1, <2>2
<1>3. CASE playbackMode = "RepeatAll"
  <2>1. Rank(q, f) \in 0 .. n - 1 /\ n \in Nat /\ Rank(q, p) \in Nat
    BY <1>1, RankOfPlayable, RankType, PlayableType
  <2>2. p \in 1 .. Len(q) /\ q[p] = t
    BY PositionFacts
  <2>3. from = Rank(q, f) - 1
    <3>1. CASE p \in PlayableAt(q)
      <4>1. IndexOf(q, t) = Rank(q, p) /\ IndexOf(q, t) # -1
        BY <3>1, <2>1, PositionFacts
      <4>2. from = IndexOf(q, t)
        BY <4>1 DEF AdvanceFrom
      <4> HIDE DEF from, f, p, n
      <4> QED BY <3>1, <4>1, <4>2, <1>1, <2>1
    <3>2. CASE p \notin PlayableAt(q)
      <4>1. t \notin playable
        BY <3>2, <2>2 DEF PlayableAt
      <4>2. IndexOf(q, t) = -1
        BY <4>1, PositionFacts
      <4>3. \E i \in PlayableAt(q) : i > p
        BY <1>1 DEF Later
      <4>4. from = Rank(q, p) - 1
        BY <4>2, <4>3 DEF AdvanceFrom
      <4> QED BY <4>4, <1>1, <3>2
    <3> QED BY <3>1, <3>2
  <2>4. AutoTargets(q, t) =
          LET k == IF from = n - 1 THEN 0 ELSE from + 1
          IN  PlayableOfRank(q, IF k = -1 \/ k >= n THEN 0 ELSE k)
    BY <1>3, <2>1 DEF AutoTargets
  <2> HIDE DEF from, n, p
  <2>5. from # n - 1 /\ from + 1 = Rank(q, f) /\ ~(Rank(q, f) = -1 \/ Rank(q, f) >= n)
    BY <2>1, <2>3
  <2>6. AutoTargets(q, t) = PlayableOfRank(q, Rank(q, f))
    BY <2>4, <2>5
  <2> QED BY <2>6, <1>1, TrackOfRank
<1> QED BY <1>2, <1>3

\* Behind the last playable track, RepeatAll begins again, also for a track that has
\* been deleted: there the index in the whole queue takes the place of that among the
\* playable tracks, and is cut off since it is too large.
LEMMA BeginsAgain ==
  ASSUME NEW q \in Seq(Tracks), NEW t, PlayableAt(q) # {}, playbackMode = "RepeatAll",
         t \in Queued(q) => Later(q, t) = {}
  PROVE  AutoTargets(q, t) = {q[FirstOf(PlayableAt(q))]}
<1> DEFINE p == PositionOf(q, t)
           n == Cardinality(PlayableAt(q))
           from == AdvanceFrom(q, t)
<1>1. n \in Nat /\ n > 0
  BY PlayableType, FS_EmptySet
<1>2. from \in Int /\ (from = -1 \/ from = n - 1 \/ from + 1 >= n)
  <2>1. CASE t \notin Queued(q)
    <3>1. IndexOf(q, t) = -1
      BY <2>1, PositionFacts
    <3>2. from = -1
      BY <2>1, <3>1 DEF AdvanceFrom
    <3> QED BY <3>2
  <2>2. CASE t \in Queued(q)
    <3>1. p \in 1 .. Len(q) /\ q[p] = t /\ \A j \in PlayableAt(q) : ~(j > p) /\ j \in Nat
      BY <2>2, PositionFacts, PlayableType DEF Later
    <3>2. CASE p \in PlayableAt(q)
      <4>1. p \in Int /\ \A j \in PlayableAt(q) : ~(p < j)
        BY <3>1
      <4>2. Rank(q, p) = n - 1
        BY <3>2, <4>1, RankOfEnds
      <4>3. IndexOf(q, t) = n - 1
        BY <2>2, <3>2, <4>2, PositionFacts
      <4>4. IndexOf(q, t) # -1
        BY <4>3, <1>1
      <4>5. from = IndexOf(q, t)
        BY <4>4 DEF AdvanceFrom
      <4> HIDE DEF from, n
      <4> QED BY <4>3, <4>5, <1>1
    <3>3. CASE p \notin PlayableAt(q)
      <4>1. t \notin playable
        BY <3>1, <3>3 DEF PlayableAt
      <4>2. IndexOf(q, t) = -1
        BY <4>1, PositionFacts
      <4>3. from = p - 1
        BY <2>2, <3>1, <4>2 DEF AdvanceFrom
      <4>4. n <= p
        <5>1. PlayableAt(q) \subseteq 1 .. p
          BY <3>1, PlayableType
        <5>2. IsFiniteSet(1 .. p) /\ Cardinality(1 .. p) = p
          BY <3>1, FS_Interval
        <5> QED BY <5>1, <5>2, FS_Subset
      <4> HIDE DEF from, p, n
      <4> QED BY <3>1, <4>3, <4>4, <1>1
    <3> QED BY <3>2, <3>3
  <2> QED BY <2>1, <2>2
<1>3. AutoTargets(q, t) =
        LET k == IF from = n - 1 THEN 0 ELSE from + 1
        IN  PlayableOfRank(q, IF k = -1 \/ k >= n THEN 0 ELSE k)
  BY <1>1 DEF AutoTargets
<1> HIDE DEF from, n, p
<1>4. AutoTargets(q, t) = PlayableOfRank(q, 0)
  BY <1>1, <1>2, <1>3
<1> QED BY <1>4, FirstRank

\* RepeatSingle plays a playable track again.
LEMMA SameAgain ==
  ASSUME NEW q \in Seq(Tracks), NEW t \in Queued(q), t \in playable,
         playbackMode = "RepeatSingle"
  PROVE  AutoTargets(q, t) = {t}
<1> DEFINE p == PositionOf(q, t)
           n == Cardinality(PlayableAt(q))
<1>1. p \in PlayableAt(q) /\ q[p] = t /\ IndexOf(q, t) = Rank(q, p)
  BY PositionFacts
<1>2. Rank(q, p) \in 0 .. n - 1 /\ n \in Nat
  BY <1>1, RankOfPlayable, PlayableType
<1>3. AdvanceFrom(q, t) = Rank(q, p)
  <2>1. IndexOf(q, t) # -1
    BY <1>1, <1>2
  <2> QED BY <2>1, <1>1 DEF AdvanceFrom
<1>4. AutoTargets(q, t) =
        PlayableOfRank(q, IF AdvanceFrom(q, t) = -1 \/ AdvanceFrom(q, t) >= n THEN 0
                          ELSE AdvanceFrom(q, t))
  BY <1>2 DEF AutoTargets
<1> HIDE DEF n, p
<1>5. AutoTargets(q, t) = PlayableOfRank(q, Rank(q, p))
  BY <1>2, <1>3, <1>4
<1> QED BY <1>1, <1>5, TrackOfRank

\* Shuffle draws another playable track, in a queue without repetition.
LEMMA AnotherDrawn ==
  ASSUME NEW q \in Seq(Tracks), \A i, j \in DOMAIN q : q[i] = q[j] => i = j,
         NEW t \in Queued(q), t \in playable, Cardinality(PlayableAt(q)) > 1,
         playbackMode = "Shuffle", NEW m \in AutoTargets(q, t)
  PROVE  m # t /\ m \in playable
<1> DEFINE p == PositionOf(q, t)
           n == Cardinality(PlayableAt(q))
<1>1. p \in PlayableAt(q) /\ q[p] = t /\ IndexOf(q, t) = Rank(q, p)
  BY PositionFacts
<1>2. Rank(q, p) \in 0 .. n - 1 /\ n \in Nat
  BY <1>1, RankOfPlayable, PlayableType
<1>3. AdvanceFrom(q, t) = Rank(q, p)
  <2>1. IndexOf(q, t) # -1
    BY <1>1, <1>2
  <2> QED BY <2>1, <1>1 DEF AdvanceFrom
<1>4. n # 1 /\ n # 0
  BY <1>2
<1>5. PICK k : k # Rank(q, p) /\ m \in PlayableOfRank(q, k)
  BY <1>3, <1>4 DEF AutoTargets
<1>6. PICK i \in PlayableAt(q) : Rank(q, i) = k /\ m = q[i]
  BY <1>5 DEF PlayableOfRank
<1>7. i \in DOMAIN q /\ p \in DOMAIN q /\ i # p
  BY <1>1, <1>5, <1>6 DEF PlayableAt
<1> QED BY <1>1, <1>6, <1>7 DEF PlayableAt

-----------------------------------------------------------------------------
(* What a switch leaves in the engine. *)

\* The track that record r plays, or that a fade is about to put in its place.
UpcomingOf(r) == IF r.anim = "switchOut" THEN r.target.track ELSE r.media

\* Playing a loaded track starts no switch.
LEMMA PlayArrives ==
  ASSUME NEW r, Sound(r), NEW q \in Seq(Tracks), r.media # NoTrack, r.anim # "switchOut"
  PROVE  Play(r, q).media = r.media /\ Play(r, q).anim # "switchOut"
<1> DEFINE ready == IF fadeInOut THEN [Halt(r, "fadeOut") EXCEPT !.factor = "full"] ELSE r
           begun == PlayLoaded(ready, q)
<1>1. Sound(ready) /\ ready.media = r.media /\ ready.anim # "switchOut"
  BY HaltKeeps DEF Keeps, Halt, Sound, EngineState, Animations
<1> HIDE DEF ready
<1>2. Sound(begun) /\ begun.media = r.media /\ begun.anim # "switchOut"
  <2>1. begun = BackendPlay(ready)
    BY <1>1 DEF PlayLoaded
  <2>2. Sound(begun)
    BY <1>1, PlayLoadedKeeps DEF Keeps
  <2> QED BY <1>1, <2>1, <2>2 DEF BackendPlay, Sound, EngineState
<1> HIDE DEF begun
<1>3. Pause(begun).media = begun.media /\ Pause(begun).anim # "switchOut"
  BY <1>2 DEF Pause, Halt, Start, BackendPause, Sound, EngineState, Animations
<1>4. Sound(Pause(begun))
  BY <1>2, PauseKeeps DEF Keeps
<1>5. LastProgress(begun).media = begun.media /\ LastProgress(begun).anim # "switchOut"
  BY <1>2, <1>3, <1>4 DEF LastProgress, Sound, EngineState
<1>6. Play(r, q) = LastProgress(begun)
  BY DEF Play, begun, ready
<1> QED BY <1>2, <1>5, <1>6

\* A switch to a track loads it, or fades the current one out with that target.
LEMMA SwitchArrives ==
  ASSUME NEW r, Sound(r), NEW q \in Seq(Tracks), NEW m \in Tracks,
         NEW play \in BOOLEAN, NEW keep \in BOOLEAN
  PROVE  LET x == SwitchTo(r, q, m, play, keep)
         IN  \/ x.anim # "switchOut" /\ x.media = m
             \/ /\ x.anim = "switchOut"
                /\ x.target = [track |-> m, play |-> play, keep |-> keep]
<1> DEFINE free == CancelTrackSwitchFade(r)
           there == SetMediaMeta(free, m, keep)
           goal == [track |-> m, play |-> play, keep |-> keep]
           x == SwitchTo(r, q, m, play, keep)
<1>1. Sound(free) /\ free.anim \notin {"switchOut", "switchIn"}
  BY CancelTrackSwitchFadeKeeps DEF Keeps
<1>2. m # NoTrack /\ m \in MaybeTrack
  BY TracksAssumption DEF MaybeTrack
<1> HIDE DEF free
<1>3. CASE fadeInOut /\ r.status = "Playing"
  <2>1. x = [Start(free, "switchOut", "full") EXCEPT !.target = goal]
    BY <1>3 DEF SwitchTo, free
  <2>2. Start(free, "switchOut", "full") \in EngineState
    BY <1>1 DEF Start, Sound, EngineState, Animations, NoTarget, Target, MaybeTrack
  <2> HIDE DEF x, goal
  <2>3. x.anim = "switchOut" /\ x.target = goal
    BY <1>1, <2>1 DEF Start, Sound, EngineState
  <2> QED BY <2>3 DEF x, goal
<1>4. CASE ~(fadeInOut /\ r.status = "Playing")
  <2>1. Sound(there) /\ there.media = m
    BY <1>1, <1>2, SetMediaMetaKeeps DEF Keeps
  <2>2. there.anim # "switchOut"
    <3> DEFINE calm == CancelManualNavigation(free)
               cancelled == IF keep THEN free ELSE CancelTrackSwitchFade(calm)
               flag == free.flag /\ free.media = NoTrack
    <3>1. Sound(calm) /\ calm.anim = free.anim
      BY <1>1, CancelManualNavigationKeeps DEF Keeps, CancelManualNavigation, Sound, EngineState
    <3> HIDE DEF calm
    <3>2. Sound(cancelled) /\ cancelled.anim # "switchOut"
      BY <1>1, <3>1, CancelTrackSwitchFadeKeeps DEF Keeps
    <3>3. there = [cancelled EXCEPT !.flag = flag, !.media = m, !.status = "Stopped"]
      BY DEF SetMediaMeta, calm
    <3> HIDE DEF cancelled, flag, there
    <3> QED BY <3>2, <3>3 DEF Sound, EngineState
  <2>3. x = IF play THEN Play(there, q) ELSE there
    BY <1>4 DEF SwitchTo, free
  <2> HIDE DEF there, x
  <2>4. x.media = m /\ x.anim # "switchOut"
    BY <2>1, <2>2, <2>3, <1>2, PlayArrives
  <2> QED BY <2>4 DEF x
<1> QED BY <1>3, <1>4

\* Whatever an automatic advance chooses is upcoming.
LEMMA UpcomingAfter ==
  ASSUME NEW r, Sound(r), NEW q \in Seq(Tracks), NEW m \in MaybeTrack, NEW play \in BOOLEAN
  PROVE  UpcomingOf(SwitchOrStop(r, q, m, play, FALSE)) = m
<1>1. CASE m = NoTrack
  <2>1. SwitchOrStop(r, q, m, play, FALSE) = Stop(r)
    BY <1>1 DEF SwitchOrStop
  <2>2. Sound(Stop(r)) /\ Stop(r).media = NoTrack
    <3> DEFINE still == [CancelTrackSwitchFade(r) EXCEPT !.status = "Stopped"]
    <3>1. Sound(still)
      BY CancelTrackSwitchFadeKeeps DEF Keeps, Sound, EngineState, Statuses
    <3> HIDE DEF still
    <3>2. NoTrack \in MaybeTrack
      BY DEF MaybeTrack
    <3> QED BY <3>1, <3>2, SetMediaMetaKeeps, StopKeeps DEF Keeps, Stop, still
  <2>3. Stop(r).anim # "switchOut"
    BY <2>2 DEF Sound
  <2> QED BY <1>1, <2>1, <2>2, <2>3 DEF UpcomingOf
<1>2. CASE m # NoTrack
  <2> DEFINE x == SwitchTo(r, q, m, play, FALSE)
  <2>1. m \in Tracks /\ SwitchOrStop(r, q, m, play, FALSE) = x
    BY <1>2 DEF SwitchOrStop, MaybeTrack
  <2>2. \/ x.anim # "switchOut" /\ x.media = m
        \/ /\ x.anim = "switchOut"
           /\ x.target = [track |-> m, play |-> play, keep |-> FALSE]
    BY <2>1, SwitchArrives, Zenon
  <2> HIDE DEF x
  <2>3. [track |-> m, play |-> play, keep |-> FALSE].track = m
    OBVIOUS
  <2> QED BY <2>1, <2>2, <2>3 DEF UpcomingOf
<1> QED BY <1>1, <1>2

-----------------------------------------------------------------------------
(* The queue without repetition. *)

NoRepeats(q) == \A i, j \in DOMAIN q : q[i] = q[j] => i = j

\* Removing tracks from a queue repeats none of the others.
LEMMA WithoutNoRepeats ==
  ASSUME NEW q \in Seq(Tracks), NEW S, NoRepeats(q)
  PROVE  NoRepeats(Without(q, S))
<1> DEFINE kept == {i \in DOMAIN q : q[i] \notin S}
           upTo(i) == Cardinality({j \in kept : j <= i})
           pick(k) == CHOOSE i \in kept : upTo(i) = k
<1>1. Len(q) \in Nat /\ kept \in SUBSET (1 .. Len(q)) /\ kept \subseteq DOMAIN q
  OBVIOUS
<1>2. Cardinality(kept) \in Nat
  <2>1. IsFiniteSet(1 .. Len(q))
    BY <1>1, FS_Interval
  <2> HIDE DEF kept
  <2>2. IsFiniteSet(kept)
    BY <2>1, <1>1, FS_Subset
  <2> QED BY <2>2, FS_CardinalityType
<1>3. \A k \in 1 .. Cardinality(kept) : pick(k) \in kept /\ upTo(pick(k)) = k
  <2> TAKE k \in 1 .. Cardinality(kept)
  <2>1. \E i \in kept : upTo(i) = k
    <3> HIDE DEF kept
    <3> QED BY <1>1, RankReached
  <2> HIDE DEF kept, upTo
  <2> QED BY <2>1
<1>4. Without(q, S) = [k \in 1 .. Cardinality(kept) |-> q[pick(k)]]
  BY DEF Without
<1> HIDE DEF kept, upTo, pick
<1>5. ASSUME NEW k \in 1 .. Cardinality(kept), NEW l \in 1 .. Cardinality(kept),
             q[pick(k)] = q[pick(l)]
      PROVE  k = l
  <2>1. pick(k) = pick(l)
    BY <1>5, <1>3, <1>1 DEF NoRepeats
  <2> QED BY <2>1, <1>3
<1> QED BY <1>2, <1>4, <1>5 DEF NoRepeats

\* What a step may do to the queue.
LEMMA QueueSteps ==
  ASSUME [Next]_vars
  PROVE  \/ metaList' = metaList
         \/ \E m \in Tracks : m \notin Queued(metaList) /\ metaList' = Append(metaList, m)
         \/ \E S : metaList' = Without(metaList, S)
         \/ metaList' = <<>>
         \/ metaList' \in Queues
<1>1. CASE OnlyEngine \/ UNCHANGED vars
  BY <1>1 DEF OnlyEngine, vars
<1>2. CASE UserStep
  BY <1>2, <1>1
     DEF UserStep, PlayNextMeta, PlayPreMeta, Navigate, UserPlay, UserPause, PauseNow,
         UserStop, PlayPause, MprisPlay, SelectMeta, PlayImported, SetPlaybackMode,
         SetFadeInOut, AddMeta, RemoveMeta, RemoveMetas, ClearPlayList, MoveMetas, PlayPlaylist
<1>3. CASE EngineStep
  BY <1>3, <1>1
     DEF EngineStep, QueryCached, CacheExpires, NavigationTimeout, FadeProgress,
         FadeOutFinished, FadeInFinished, SwitchFadeOutFinished, LastProgressShot,
         BackendStarted, BackendFailed, BackendEnded, SdlWriteError, HandleEnd,
         FileVanishes, PrepareForSleep, WakeUp
<1> QED BY <1>1, <1>2, <1>3 DEF Next

LEMMA QueueInvariance == Spec => [](IInv /\ NoRepeats(metaList))
<1>1. Init => NoRepeats(metaList)
  BY QueuesAssumption DEF Init, NoRepeats
<1>2. IInv /\ NoRepeats(metaList) /\ [Next]_vars => NoRepeats(metaList')
  <2> SUFFICES ASSUME IInv, NoRepeats(metaList), [Next]_vars PROVE NoRepeats(metaList')
    OBVIOUS
  <2>1. metaList \in Seq(Tracks)
    BY DEF IInv, TypeOK
  <2>2. ASSUME NEW m \in Tracks, m \notin Queued(metaList)
        PROVE  NoRepeats(Append(metaList, m))
    BY <2>1, <2>2 DEF NoRepeats, Queued
  <2>3. \A S : NoRepeats(Without(metaList, S))
    BY <2>1, WithoutNoRepeats
  <2>4. NoRepeats(<<>>) /\ \A q \in Queues : NoRepeats(q)
    BY QueuesAssumption DEF NoRepeats
  <2> QED BY <2>2, <2>3, <2>4, QueueSteps
<1>3. NoRepeats(metaList)' <=> NoRepeats(metaList')
  BY DEF NoRepeats
<1> QED BY <1>1, <1>2, <1>3, Invariance, PTL DEF Spec

-----------------------------------------------------------------------------
(* The end of a track. *)

LEMMA EndStep ==
  ASSUME IInv, NoRepeats(metaList), HandleEnd, eng.media \in Queued(metaList)
  PROVE  LET q == metaList
             t == eng.media
         IN  /\ playbackMode \in {"RepeatNull", "RepeatAll"} /\ Later(q, t) # {}
                => Upcoming' = q[FirstOf(Later(q, t))]
             /\ playbackMode = "RepeatNull" /\ Later(q, t) = {} => Upcoming' = NoTrack
             /\ playbackMode = "RepeatSingle" /\ t \in playable => Upcoming' = t
             /\ playbackMode = "RepeatAll" /\ PlayableAt(q) = {} => Upcoming' = NoTrack
             /\ playbackMode = "RepeatAll" /\ PlayableAt(q) # {} /\ Later(q, t) = {}
                => Upcoming' = q[FirstOf(PlayableAt(q))]
             /\ /\ playbackMode = "Shuffle" /\ Cardinality(PlayableAt(q)) > 1
                /\ t \in playable
                => Upcoming' # t /\ Upcoming' \in playable
<1> DEFINE q == metaList
           t == eng.media
<1>1. q \in Seq(Tracks) /\ Sound(eng)
  BY DEF IInv, TypeOK
<1>2. PICK m \in AutoTargets(q, t) : eng' = SwitchOrStop(eng, q, m, TRUE, FALSE)
  BY DEF HandleEnd, AutoAdvance
<1>3. Upcoming' = m
  <2>1. m \in MaybeTrack
    BY <1>1, TargetsType
  <2>2. UpcomingOf(eng') = m
    BY <1>1, <1>2, <2>1, UpcomingAfter
  <2> QED BY <2>2 DEF Upcoming, UpcomingOf
<1>4. ASSUME playbackMode \in {"RepeatNull", "RepeatAll"}, Later(q, t) # {}
      PROVE  m = q[FirstOf(Later(q, t))]
  BY <1>1, <1>2, <1>4, LaterFollows
<1>5. ASSUME playbackMode = "RepeatNull", Later(q, t) = {} PROVE m = NoTrack
  BY <1>2, <1>5 DEF AutoTargets, Later
<1>6. ASSUME playbackMode = "RepeatSingle", t \in playable PROVE m = t
  BY <1>1, <1>2, <1>6, SameAgain
<1>7. ASSUME playbackMode = "RepeatAll", PlayableAt(q) = {} PROVE m = NoTrack
  <2>1. Cardinality(PlayableAt(q)) = 0
    BY <1>7, FS_EmptySet
  <2> QED BY <1>2, <1>7, <2>1 DEF AutoTargets
<1>8. ASSUME playbackMode = "RepeatAll", PlayableAt(q) # {}, Later(q, t) = {}
      PROVE  m = q[FirstOf(PlayableAt(q))]
  BY <1>1, <1>2, <1>8, BeginsAgain
<1>9. ASSUME playbackMode = "Shuffle", Cardinality(PlayableAt(q)) > 1, t \in playable
      PROVE  m # t /\ m \in playable
  BY <1>1, <1>2, <1>9, AnotherDrawn DEF NoRepeats
<1> QED BY <1>3, <1>4, <1>5, <1>6, <1>7, <1>8, <1>9

\* At the end of a track of the queue the mode decides what follows (playNextMeta):
\* the next playable track, none or the first one at the end, the same one again, or
\* another one.  It holds for queues of any length with any files deleted.
THEOREM ModeDecidesWhatFollows == Spec => EndFollowsMode
<1>1. IInv /\ NoRepeats(metaList) /\ [Next]_vars =>
        [HandleEnd /\ eng.media \in Queued(metaList) =>
          LET later == {i \in PlayableAt(metaList) : i > PositionOf(metaList, eng.media)}
              first == CHOOSE i \in later : \A j \in later : i <= j
          IN  CASE playbackMode = "RepeatNull" ->
                      Upcoming' = IF later = {} THEN NoTrack ELSE metaList[first]
                [] playbackMode = "RepeatSingle" ->
                      eng.media \in playable => Upcoming' = eng.media
                [] playbackMode = "RepeatAll" ->
                      IF PlayableAt(metaList) = {} THEN Upcoming' = NoTrack
                      ELSE IF later # {} THEN Upcoming' = metaList[first]
                      ELSE Upcoming' = NeighbourOf(metaList, NoTrack, 1)
                [] OTHER ->
                      Cardinality(PlayableAt(metaList)) > 1 /\ eng.media \in playable
                      => Upcoming' # eng.media /\ Upcoming' \in playable]_vars
  <2> SUFFICES ASSUME IInv, NoRepeats(metaList), HandleEnd, eng.media \in Queued(metaList)
               PROVE  LET later == Later(metaList, eng.media)
                      IN  CASE playbackMode = "RepeatNull" ->
                                 Upcoming' = IF later = {} THEN NoTrack
                                             ELSE metaList[FirstOf(later)]
                            [] playbackMode = "RepeatSingle" ->
                                 eng.media \in playable => Upcoming' = eng.media
                            [] playbackMode = "RepeatAll" ->
                                 IF PlayableAt(metaList) = {} THEN Upcoming' = NoTrack
                                 ELSE IF later # {} THEN Upcoming' = metaList[FirstOf(later)]
                                 ELSE Upcoming' = NeighbourOf(metaList, NoTrack, 1)
                            [] OTHER ->
                                 Cardinality(PlayableAt(metaList)) > 1 /\ eng.media \in playable
                                 => Upcoming' # eng.media /\ Upcoming' \in playable
    BY DEF Later, FirstOf
  <2>1. playbackMode \in {"RepeatNull", "RepeatSingle", "RepeatAll", "Shuffle"}
    BY DEF IInv, TypeOK, PlaybackModes
  <2>2. PlayableAt(metaList) # {} =>
          NeighbourOf(metaList, NoTrack, 1) = metaList[FirstOf(PlayableAt(metaList))]
    <3>1. metaList \in Seq(Tracks) /\ NoTrack \notin Queued(metaList)
      BY QueuedType, TracksAssumption DEF IInv, TypeOK
    <3>2. IndexOf(metaList, NoTrack) = -1
      BY <3>1, PositionFacts
    <3>3. {i \in PlayableAt(metaList) : i > 0} = PlayableAt(metaList)
      BY <3>1, PlayableType
    <3>4. NeighbourOf(metaList, NoTrack, 1) =
            LET after == {i \in PlayableAt(metaList) : i > 0}
            IN  metaList[FirstOf(IF after = {} THEN PlayableAt(metaList) ELSE after)]
      BY <3>2 DEF NeighbourOf, FirstOf
    <3> QED BY <3>3, <3>4
  <2>3. Later(metaList, eng.media) # {} => PlayableAt(metaList) # {}
    BY DEF Later
  <2> QED BY <2>1, <2>2, <2>3, EndStep
<1> QED BY <1>1, QueueInvariance, PTL DEF Spec, EndFollowsMode

-----------------------------------------------------------------------------
(* The removal of the current track. *)

\* A queue without the track at p: what stood behind it moves up.
LEMMA WithoutOne ==
  ASSUME NEW q \in Seq(Tracks), NoRepeats(q), NEW p \in 1 .. Len(q)
  PROVE  Without(q, {q[p]}) = [k \in 1 .. Len(q) - 1 |-> IF k < p THEN q[k] ELSE q[k + 1]]
<1> DEFINE n == Len(q)
           kept == {i \in DOMAIN q : q[i] \notin {q[p]}}
           upTo(i) == {j \in kept : j <= i}
           pick(k) == CHOOSE i \in kept : Cardinality(upTo(i)) = k
<1>1. n \in Nat /\ p \in 1 .. n /\ DOMAIN q = 1 .. n
  OBVIOUS
<1>2. kept = (1 .. n) \ {p}
  BY <1>1 DEF NoRepeats
<1>3. Without(q, {q[p]}) = [k \in 1 .. Cardinality(kept) |-> q[pick(k)]]
  BY DEF Without
<1> HIDE DEF n, kept
<1>4. ASSUME NEW i \in Nat PROVE IsFiniteSet(1 .. i) /\ Cardinality(1 .. i) = i
  BY FS_Interval
<1>5. ASSUME NEW i \in Nat, p <= i
      PROVE  Cardinality((1 .. i) \ {p}) = i - 1
  <2>1. p \in 1 .. i
    BY <1>1, <1>5
  <2>2. Cardinality((1 .. i) \ {p}) = Cardinality(1 .. i) - 1
    BY <2>1, <1>4, FS_RemoveElement
  <2> QED BY <2>2, <1>4
<1>6. Cardinality(kept) = n - 1
  BY <1>1, <1>2, <1>5
<1>7. ASSUME NEW i \in kept
      PROVE  Cardinality(upTo(i)) = IF i < p THEN i ELSE i - 1
  <2>1. i \in 1 .. n /\ i # p
    BY <1>2
  <2>2. CASE i < p
    <3>1. upTo(i) = 1 .. i
      BY <1>1, <1>2, <2>1, <2>2
    <3>2. i \in Nat /\ Cardinality(1 .. i) = i
      BY <2>1, <1>1, <1>4
    <3> HIDE DEF upTo
    <3> QED BY <3>1, <3>2, <2>2
  <2>3. CASE ~(i < p)
    <3>1. upTo(i) = (1 .. i) \ {p}
      BY <1>1, <1>2, <2>1, <2>3
    <3>2. p <= i /\ i \in Nat
      BY <1>1, <2>1, <2>3
    <3>3. Cardinality((1 .. i) \ {p}) = i - 1
      BY <3>2, <1>5
    <3> HIDE DEF upTo
    <3> QED BY <3>1, <3>3, <2>3
  <2> QED BY <2>2, <2>3
<1> HIDE DEF upTo
<1>8. ASSUME NEW k \in 1 .. n - 1
      PROVE  pick(k) = IF k < p THEN k ELSE k + 1
  <2> DEFINE goal == IF k < p THEN k ELSE k + 1
  <2>1. goal \in kept /\ Cardinality(upTo(goal)) = k
    <3>1. goal \in kept /\ (IF goal < p THEN goal ELSE goal - 1) = k
      BY <1>1, <1>2
    <3> HIDE DEF goal
    <3> QED BY <3>1, <1>7
  <2>2. \A i \in kept : Cardinality(upTo(i)) = k => i = goal
    BY <1>1, <1>2, <1>7
  <2> HIDE DEF goal
  <2> QED BY <2>1, <2>2 DEF goal
<1> HIDE DEF pick
<1>9. \A k \in 1 .. n - 1 : q[pick(k)] = IF k < p THEN q[k] ELSE q[k + 1]
  BY <1>8
<1> QED BY <1>3, <1>6, <1>9 DEF n

\* Removing the track at p keeps the order of the playable ones behind it.
LEMMA RemovalShifts ==
  ASSUME NEW q \in Seq(Tracks), NoRepeats(q), NEW p \in 1 .. Len(q),
         NEW f \in PlayableAt(q), p < f,
         \A j \in PlayableAt(q) : p < j => f <= j
  PROVE  LET r == Without(q, {q[p]})
         IN  /\ r \in Seq(Tracks) /\ NoRepeats(r) /\ r # <<>>
             /\ f - 1 \in PlayableAt(r) /\ r[f - 1] = q[f]
             /\ \A k \in PlayableAt(r) : p <= k => f - 1 <= k
             /\ p > 1 => p - 1 \in DOMAIN r /\ r[p - 1] = q[p - 1]
             /\ Queued(r) = Queued(q) \ {q[p]}
<1> DEFINE r == Without(q, {q[p]})
<1>1. r = [k \in 1 .. Len(q) - 1 |-> IF k < p THEN q[k] ELSE q[k + 1]]
  BY WithoutOne
<1>2. r \in Seq(Tracks) /\ NoRepeats(r)
  BY WithoutType, WithoutNoRepeats
<1>3. f \in 2 .. Len(q) /\ q[f] \in playable /\ Len(q) \in Nat /\ DOMAIN q = 1 .. Len(q)
  BY PlayableType
<1>4. DOMAIN r = 1 .. Len(q) - 1
  BY <1>1
<1>5. \A k \in DOMAIN r : r[k] = IF k < p THEN q[k] ELSE q[k + 1]
  BY <1>1, <1>4
<1> HIDE DEF r
<1>6. f - 1 \in DOMAIN r /\ r[f - 1] = q[f]
  BY <1>3, <1>4, <1>5
<1>7. f - 1 \in PlayableAt(r) /\ r # <<>>
  BY <1>6, <1>3 DEF PlayableAt
<1>8. ASSUME NEW k \in PlayableAt(r), p <= k PROVE f - 1 <= k
  <2>1. k \in DOMAIN r /\ r[k] \in playable
    BY DEF PlayableAt
  <2>2. k + 1 \in DOMAIN q /\ q[k + 1] \in playable /\ p < k + 1
    BY <2>1, <1>3, <1>4, <1>5, <1>8
  <2>3. f <= k + 1
    BY <2>2 DEF PlayableAt
  <2> QED BY <2>1, <2>3, <1>3, <1>4
<1>9. p > 1 => p - 1 \in DOMAIN r /\ r[p - 1] = q[p - 1]
  BY <1>3, <1>4, <1>5
<1>10. Queued(r) = Queued(q) \ {q[p]}
  <2>1. ASSUME NEW k \in DOMAIN r PROVE r[k] \in Queued(q) \ {q[p]}
    <3>1. /\ k \in DOMAIN q /\ k + 1 \in DOMAIN q
          /\ k < p => r[k] = q[k] /\ k # p
          /\ ~(k < p) => r[k] = q[k + 1] /\ k + 1 # p
      BY <1>3, <1>4, <1>5
    <3> QED BY <3>1 DEF Queued, NoRepeats
  <2>2. ASSUME NEW i \in DOMAIN q, i # p PROVE q[i] \in Queued(r)
    <3>1. CASE i < p
      BY <3>1, <1>3, <1>4, <1>5 DEF Queued
    <3>2. CASE ~(i < p)
      <4>1. i - 1 \in DOMAIN r /\ r[i - 1] = q[i]
        BY <2>2, <3>2, <1>3, <1>4, <1>5
      <4> QED BY <4>1 DEF Queued
    <3> QED BY <3>1, <3>2
  <2> QED BY <2>1, <2>2 DEF Queued
<1> QED BY <1>2, <1>6, <1>7, <1>8, <1>9, <1>10 DEF r

\* The position of a track in a queue without repetition.
LEMMA PositionUnique ==
  ASSUME NEW q \in Seq(Tracks), NoRepeats(q), NEW i \in DOMAIN q
  PROVE  PositionOf(q, q[i]) = i /\ q[i] \in Queued(q)
<1>1. q[i] \in Queued(q)
  BY DEF Queued
<1>2. PositionOf(q, q[i]) \in DOMAIN q /\ q[PositionOf(q, q[i])] = q[i]
  BY <1>1, PositionFacts
<1> QED BY <1>1, <1>2 DEF NoRepeats

LEMMA RemovalStep ==
  ASSUME IInv, NoRepeats(metaList), NEW m \in Queued(metaList), RemoveMetas({m}),
         \/ playbackMode = "RepeatAll"
         \/ playbackMode = "RepeatNull" /\ m # Head(metaList)
  PROVE  RemovalGoesOnWithNext({m})
<1> DEFINE q == metaList
           later == {i \in PlayableAt(q) : i > PositionOf(q, m) /\ q[i] \notin {m}}
           f == CHOOSE i \in later : \A j \in later : i <= j
           p == PositionOf(q, m)
           r == Without(q, {m})
           calm == CancelManualNavigation(eng)
           going == (eng.status = "Playing")
<1> SUFFICES ASSUME eng.media = m, later # {} PROVE Upcoming' = q[f]
  BY DEF RemovalGoesOnWithNext
<1>1. q \in Seq(Tracks) /\ Sound(eng)
  BY DEF IInv, TypeOK
<1>2. p \in 1 .. Len(q) /\ q[p] = m
  BY <1>1, PositionFacts
<1>3. f \in PlayableAt(q) /\ p < f /\ \A j \in PlayableAt(q) : p < j => f <= j
  <2>1. f \in later /\ \A j \in later : f <= j
    <3>1. later \in SUBSET PlayableAt(q)
      OBVIOUS
    <3>2. f = FirstOf(later)
      BY DEF FirstOf
    <3> HIDE DEF later, f
    <3> QED BY <1>1, <3>1, <3>2, FirstIsLeast
  <2>2. \A j \in PlayableAt(q) : p < j => q[j] \notin {m}
    <3> SUFFICES ASSUME NEW j \in PlayableAt(q), p < j PROVE q[j] # m
      OBVIOUS
    <3>1. j \in DOMAIN q /\ j # p
      BY <1>1, <1>2, PlayableType
    <3> QED BY <3>1, <1>1, PositionUnique
  <2>3. f \in PlayableAt(q) /\ p < f
    BY <1>1, <1>2, <2>1, PlayableType
  <2>4. ASSUME NEW j \in PlayableAt(q), p < j PROVE f <= j
    <3>1. j > p
      BY <1>1, <1>2, <2>4, PlayableType
    <3> QED BY <3>1, <2>1, <2>2, <2>4
  <2> QED BY <2>3, <2>4
<1> HIDE DEF later, f
<1>4. /\ r \in Seq(Tracks) /\ NoRepeats(r) /\ r # <<>>
      /\ f - 1 \in PlayableAt(r) /\ r[f - 1] = q[f]
      /\ \A k \in PlayableAt(r) : p <= k => f - 1 <= k
      /\ p > 1 => p - 1 \in DOMAIN r /\ r[p - 1] = q[p - 1]
      /\ Queued(r) = Queued(q) \ {q[p]}
  BY <1>1, <1>2, <1>3, RemovalShifts
<1>5. RemovalAnchor(q, {m}, m) = IF p > 1 THEN q[p - 1] ELSE m
  <2> DEFINE removed == {i \in DOMAIN q : q[i] \in {m}}
  <2>1. removed = {p} /\ {m} \subseteq Queued(q)
    <3>1. \A i \in DOMAIN q : q[i] = m <=> i = p
      BY <1>1, <1>2, PositionUnique
    <3> QED BY <3>1, <1>2
  <2>2. RemovalAnchor(q, {m}, m) = IF FirstOf(removed) > 1 THEN q[FirstOf(removed) - 1] ELSE m
    <3>1. m \in Queued(q)
      OBVIOUS
    <3>2. RemovalAnchor(q, {m}, m) =
            LET first == IF {m} \subseteq Queued(q) THEN FirstOf(removed) ELSE 1
            IN  IF m \in Queued(q) /\ first > 1 THEN q[first - 1] ELSE m
      BY DEF RemovalAnchor, FirstOf
    <3> HIDE DEF removed, q
    <3> QED BY <2>1, <3>1, <3>2
  <2>3. FirstOf({p}) = p
    BY <1>2 DEF FirstOf
  <2> HIDE DEF p, removed
  <2> QED BY <2>1, <2>2, <2>3
<1> DEFINE anchor == RemovalAnchor(q, {m}, m)
<1>6. eng' \in AutoAdvance(calm, r, anchor, going)
  BY <1>4 DEF RemoveMetas
<1> HIDE DEF r, p, anchor
<1>7. AutoTargets(r, anchor) = {q[f]}
  <2>1. CASE p > 1
    <3>1. /\ anchor = r[p - 1] /\ p - 1 \in DOMAIN r
          /\ PositionOf(r, anchor) = p - 1 /\ anchor \in Queued(r)
      BY <2>1, <1>4, <1>5, PositionUnique DEF anchor
    <3>2. f - 1 \in Later(r, anchor) /\ \A k \in Later(r, anchor) : f - 1 <= k
      <4>1. f \in Nat /\ \A k \in PlayableAt(r) : k \in Nat
        BY <1>1, <1>3, <1>4, PlayableType
      <4> QED BY <4>1, <3>1, <1>2, <1>3, <1>4 DEF Later
    <3>3. FirstOf(Later(r, anchor)) = f - 1
      <4>1. Later(r, anchor) \in SUBSET PlayableAt(r)
        BY DEF Later
      <4> QED BY <4>1, <3>2, <1>4, FirstIsLeast
    <3>4. AutoTargets(r, anchor) = {r[FirstOf(Later(r, anchor))]}
      BY <1>4, <3>1, <3>2, LaterFollows
    <3> QED BY <3>3, <3>4, <1>4
  <2>2. CASE ~(p > 1)
    <3>1. p = 1 /\ anchor = m
      BY <2>2, <1>2, <1>5 DEF anchor
    <3>2. anchor \notin Queued(r) /\ playbackMode = "RepeatAll"
      BY <3>1, <1>1, <1>2, <1>4
    <3>3. f - 1 \in PlayableAt(r) /\ \A k \in PlayableAt(r) : f - 1 <= k
      <4>1. \A k \in PlayableAt(r) : 1 <= k
        BY <1>4, PlayableType
      <4> QED BY <4>1, <3>1, <1>4
    <3>4. FirstOf(PlayableAt(r)) = f - 1
      BY <3>3, <1>4, FirstIsLeast
    <3>5. AutoTargets(r, anchor) = {r[FirstOf(PlayableAt(r))]}
      BY <3>2, <3>3, <1>4, BeginsAgain
    <3> QED BY <3>4, <3>5, <1>4
  <2> QED BY <2>1, <2>2
<1> HIDE DEF calm, going
<1>8. PICK t \in AutoTargets(r, anchor) : eng' = SwitchOrStop(calm, r, t, going, FALSE)
  BY <1>6 DEF AutoAdvance
<1>9. UpcomingOf(eng') = t
  <2>1. Sound(calm) /\ going \in BOOLEAN
    BY <1>1, CancelManualNavigationKeeps DEF calm, going, Keeps
  <2>2. t \in MaybeTrack
    BY <1>4, TargetsType
  <2>3. r \in Seq(Tracks)
    BY <1>4
  <2>4. UpcomingOf(SwitchOrStop(calm, r, t, going, FALSE)) = t
    BY ONLY <2>1, <2>2, <2>3, UpcomingAfter
  <2> QED BY <2>4, <1>8
<1> QED BY <1>7, <1>8, <1>9 DEF Upcoming, UpcomingOf

\* Removing the current track alone goes on with the nearest playable track behind it
\* (removeMetasFromPlayList, which counts from the track before it), for queues of any
\* length; in RepeatNull, unless it is the first.
THEOREM RemovalGoesOn == Spec => RemovalKeepsPlace
<1>1. IInv /\ NoRepeats(metaList) =>
        [\A m \in Tracks :
          /\ m \in Queued(metaList) /\ RemoveMetas({m})
          /\ \/ playbackMode = "RepeatAll"
             \/ playbackMode = "RepeatNull" /\ m # Head(metaList)
          => RemovalGoesOnWithNext({m})]_vars
  BY RemovalStep
<1> QED BY <1>1, QueueInvariance, PTL DEF Spec, RemovalKeepsPlace

-----------------------------------------------------------------------------
(* Remainders. *)

LEMMA ModFacts ==
  ASSUME NEW n \in Nat \ {0}, NEW a \in Int
  PROVE  a % n \in 0 .. n - 1 /\ a \div n \in Int /\ a = n * (a \div n) + (a % n)
OBVIOUS

\* Quotient and remainder are unique.
LEMMA RemainderUnique ==
  ASSUME NEW n \in Nat \ {0}, NEW d \in Int, NEW e \in Int,
         NEW v \in 0 .. n - 1, NEW w \in 0 .. n - 1, n * d + v = n * e + w
  PROVE  v = w
<1>1. d = e \/ d >= e + 1 \/ e >= d + 1
  OBVIOUS
<1>2. CASE d = e
  BY <1>2
<1>3. CASE d >= e + 1
  <2>1. n * (d - e) >= n
    BY <1>3
  <2> QED BY <2>1
<1>4. CASE e >= d + 1
  <2>1. n * (e - d) >= n
    BY <1>4
  <2> QED BY <2>1
<1> QED BY <1>1, <1>2, <1>3, <1>4

\* What executeManualNavigation() computes with C++'s truncating % is the remainder
\* between 0 and n, for negative numbers too.
LEMMA WrapFacts ==
  ASSUME NEW n \in Nat \ {0}, NEW a \in Int
  PROVE  Wrap(a, n) \in 0 .. n - 1 /\ \E d \in Int : a = n * d + Wrap(a, n)
<1>1. CASE a >= 0
  <2>1. a % n \in 0 .. n - 1 /\ a \div n \in Int /\ a = n * (a \div n) + (a % n)
    BY ModFacts
  <2>2. Wrap(a, n) = a % n
    BY <1>1, <2>1 DEF Wrap, CRem
  <2> QED BY <2>1, <2>2
<1>2. CASE ~(a >= 0)
  <2> DEFINE b == -a
             w == b % n
             d == b \div n
  <2>1. b \in Int
    BY <1>2
  <2> HIDE DEF b
  <2>2. w \in 0 .. n - 1 /\ d \in Int /\ b = n * d + w
    BY <2>1, ModFacts
  <2>3. Wrap(a, n) = IF w = 0 THEN 0 ELSE n - w
    <3>1. CRem(a, n) = -w
      BY <1>2 DEF CRem, b
    <3> HIDE DEF w
    <3> QED BY <2>2, <3>1 DEF Wrap
  <2> HIDE DEF w, d
  <2>4. a = n * (-d) - w
    BY <2>1, <2>2 DEF b
  <2>5. n * (-d) - w = IF w = 0 THEN n * (-d) + 0 ELSE n * ((-d) - 1) + (n - w)
    BY <2>2
  <2>6. (-d) \in Int /\ (-d) - 1 \in Int
    BY <2>2
  <2>7. CASE w = 0
    <3>1. Wrap(a, n) = 0 /\ a = n * (-d) + 0 /\ 0 \in 0 .. n - 1
      BY <2>2, <2>3, <2>4, <2>5, <2>7
    <3> QED BY <3>1, <2>6, Zenon
  <2>8. CASE w # 0
    <3>1. Wrap(a, n) = n - w /\ a = n * ((-d) - 1) + (n - w) /\ n - w \in 0 .. n - 1
      BY <2>2, <2>3, <2>4, <2>5, <2>8
    <3> QED BY <3>1, <2>6, Zenon
  <2> QED BY <2>7, <2>8
<1> QED BY <1>1, <1>2

\* One step more or less goes around the ends.
LEMMA WrapSteps ==
  ASSUME NEW n \in Nat \ {0}, NEW a \in Int
  PROVE  /\ a \in 0 .. n - 1 => Wrap(a, n) = a
         /\ Wrap(a + 1, n) = IF Wrap(a, n) = n - 1 THEN 0 ELSE Wrap(a, n) + 1
         /\ Wrap(a - 1, n) = IF Wrap(a, n) = 0 THEN n - 1 ELSE Wrap(a, n) - 1
<1> DEFINE w == Wrap(a, n)
<1>1. w \in 0 .. n - 1
  BY WrapFacts
<1>2. PICK d \in Int : a = n * d + w
  BY WrapFacts
<1>3. ASSUME NEW b \in Int, NEW v \in 0 .. n - 1, NEW e \in Int, b = n * e + v
      PROVE  Wrap(b, n) = v
  <2>1. PICK c \in Int : b = n * c + Wrap(b, n)
    BY WrapFacts
  <2>2. Wrap(b, n) \in 0 .. n - 1
    BY WrapFacts
  <2>3. n * e + v = n * c + Wrap(b, n)
    BY <1>3, <2>1, Zenon
  <2> QED BY <2>2, <2>3, RemainderUnique, Zenon
<1> HIDE DEF w
<1>4. a \in 0 .. n - 1 => Wrap(a, n) = a
  <2>1. a = n * 0 + a
    OBVIOUS
  <2> QED BY <2>1, <1>3
<1>5. Wrap(a + 1, n) = IF w = n - 1 THEN 0 ELSE w + 1
  <2>1. CASE w = n - 1
    <3>1. a + 1 = n * (d + 1) + 0 /\ 0 \in 0 .. n - 1 /\ d + 1 \in Int /\ a + 1 \in Int
      BY <1>2, <2>1
    <3> QED BY <3>1, <2>1, <1>3
  <2>2. CASE w # n - 1
    <3>1. a + 1 = n * d + (w + 1) /\ w + 1 \in 0 .. n - 1 /\ a + 1 \in Int
      BY <1>1, <1>2, <2>2
    <3> QED BY <3>1, <2>2, <1>3
  <2> QED BY <2>1, <2>2
<1>6. Wrap(a - 1, n) = IF w = 0 THEN n - 1 ELSE w - 1
  <2>1. CASE w = 0
    <3>1. /\ a - 1 = n * (d - 1) + (n - 1) /\ n - 1 \in 0 .. n - 1
          /\ d - 1 \in Int /\ a - 1 \in Int
      BY <1>2, <2>1
    <3> QED BY <3>1, <2>1, <1>3
  <2>2. CASE w # 0
    <3>1. a - 1 = n * d + (w - 1) /\ w - 1 \in 0 .. n - 1 /\ a - 1 \in Int
      BY <1>1, <1>2, <2>2
    <3> QED BY <3>1, <2>2, <1>3
  <2> QED BY <2>1, <2>2
<1> QED BY <1>4, <1>5, <1>6 DEF w

-----------------------------------------------------------------------------
(* Presses of Next and Previous. *)

PosOfRank(q, k) == CHOOSE i \in PlayableAt(q) : Rank(q, i) = k

LEMMA PosFacts ==
  ASSUME NEW q \in Seq(Tracks), NEW k \in 0 .. Cardinality(PlayableAt(q)) - 1
  PROVE  /\ PosOfRank(q, k) \in PlayableAt(q) /\ Rank(q, PosOfRank(q, k)) = k
         /\ \A i \in PlayableAt(q) : Rank(q, i) = k => i = PosOfRank(q, k)
<1>1. PosOfRank(q, k) \in PlayableAt(q) /\ Rank(q, PosOfRank(q, k)) = k
  BY RankTaken DEF PosOfRank
<1> QED BY <1>1, RankOfPlayable

LastOf(S) == CHOOSE i \in S : \A j \in S : j <= i

LEMMA LastIsGreatest ==
  ASSUME NEW q \in Seq(Tracks), NEW S \in SUBSET PlayableAt(q), S # {}
  PROVE  LastOf(S) \in S /\ \A j \in S : j <= LastOf(S)
BY Extremes DEF LastOf

\* The ranks of the first and the last playable position.
LEMMA EndRanks ==
  ASSUME NEW q \in Seq(Tracks), PlayableAt(q) # {}
  PROVE  LET n == Cardinality(PlayableAt(q))
         IN  /\ n \in Nat \ {0}
             /\ FirstOf(PlayableAt(q)) = PosOfRank(q, 0)
             /\ LastOf(PlayableAt(q)) = PosOfRank(q, n - 1)
<1> DEFINE n == Cardinality(PlayableAt(q))
           f == FirstOf(PlayableAt(q))
           l == LastOf(PlayableAt(q))
<1>1. n \in Nat \ {0}
  BY PlayableType, FS_EmptySet
<1>2. f \in PlayableAt(q) /\ \A j \in PlayableAt(q) : f <= j
  BY FirstIsLeast
<1>3. l \in PlayableAt(q) /\ \A j \in PlayableAt(q) : j <= l
  BY LastIsGreatest
<1> HIDE DEF f, l
<1>4. \A j \in PlayableAt(q) : j \in Nat
  BY PlayableType
<1>5. Rank(q, f) = 0
  BY <1>2, <1>4, RankOfEnds
<1>6. Rank(q, l) = n - 1
  BY <1>3, <1>4, RankOfEnds
<1>7. 0 \in 0 .. n - 1 /\ n - 1 \in 0 .. n - 1
  BY <1>1
<1> QED BY <1>1, <1>2, <1>3, <1>5, <1>6, <1>7, PosFacts DEF f, l

\* The neighbour of a playable track has the rank before or after, around the ends.
LEMMA NeighbourRank ==
  ASSUME NEW q \in Seq(Tracks), NoRepeats(q), NEW i \in PlayableAt(q), NEW step \in Int
  PROVE  LET n == Cardinality(PlayableAt(q))
             r == Rank(q, i)
         IN  NeighbourOf(q, q[i], step) =
               q[PosOfRank(q, IF step > 0 THEN IF r = n - 1 THEN 0 ELSE r + 1
                              ELSE IF r = 0 THEN n - 1 ELSE r - 1)]
<1> DEFINE n == Cardinality(PlayableAt(q))
           r == Rank(q, i)
           after == {j \in PlayableAt(q) : j > i}
           before == {j \in PlayableAt(q) : j < i}
<1>1. \A j \in PlayableAt(q) : j \in Nat /\ Rank(q, j) \in 0 .. n - 1
  BY PlayableType, RankOfPlayable
<1>2. PositionOf(q, q[i]) = i /\ IndexOf(q, q[i]) = r /\ r # -1
  <2>1. PositionOf(q, q[i]) = i /\ q[i] \in Queued(q)
    BY PositionUnique DEF PlayableAt
  <2>2. IndexOf(q, q[i]) = r
    BY <2>1, PositionFacts
  <2> QED BY <2>1, <2>2, <1>1
<1>3. n \in Nat \ {0} /\ FirstOf(PlayableAt(q)) = PosOfRank(q, 0)
      /\ LastOf(PlayableAt(q)) = PosOfRank(q, n - 1)
  BY EndRanks
<1>4. NeighbourOf(q, q[i], step) =
        IF step > 0 THEN q[FirstOf(IF after = {} THEN PlayableAt(q) ELSE after)]
        ELSE q[LastOf(IF before = {} THEN PlayableAt(q) ELSE before)]
  BY <1>2 DEF NeighbourOf, FirstOf, LastOf
<1>5. FirstOf(IF after = {} THEN PlayableAt(q) ELSE after) =
        PosOfRank(q, IF r = n - 1 THEN 0 ELSE r + 1)
  <2>1. CASE after = {}
    <3>1. \A j \in PlayableAt(q) : ~(i < j)
      BY <1>1, <2>1
    <3>2. r = n - 1
      BY <1>1, <3>1, RankOfEnds
    <3> QED BY <2>1, <3>2, <1>3
  <2>2. CASE after # {}
    <3> DEFINE f == FirstOf(after)
    <3>1. f \in after /\ \A j \in after : f <= j
      <4>1. after \in SUBSET PlayableAt(q)
        OBVIOUS
      <4> HIDE DEF after
      <4> QED BY <4>1, <2>2, FirstIsLeast
    <3> HIDE DEF f
    <3>2. f \in PlayableAt(q) /\ i < f /\ \A j \in PlayableAt(q) : ~(i < j /\ j < f)
      BY <1>1, <3>1
    <3>3. Rank(q, f) = r + 1
      BY <1>1, <3>2, RankNext
    <3>4. r # n - 1 /\ r + 1 \in 0 .. n - 1
      BY <1>1, <1>3, <3>2, <3>3
    <3>5. f = PosOfRank(q, r + 1)
      BY <3>2, <3>3, <3>4, PosFacts
    <3> QED BY <2>2, <3>4, <3>5 DEF f
  <2> QED BY <2>1, <2>2
<1>6. LastOf(IF before = {} THEN PlayableAt(q) ELSE before) =
        PosOfRank(q, IF r = 0 THEN n - 1 ELSE r - 1)
  <2>1. CASE before = {}
    <3>1. \A j \in PlayableAt(q) : ~(j < i)
      BY <2>1
    <3>2. r = 0
      BY <1>1, <3>1, RankOfEnds
    <3> QED BY <2>1, <3>2, <1>3
  <2>2. CASE before # {}
    <3> DEFINE l == LastOf(before)
    <3>1. l \in before /\ \A j \in before : j <= l
      <4>1. before \in SUBSET PlayableAt(q)
        OBVIOUS
      <4> HIDE DEF before
      <4> QED BY <4>1, <2>2, LastIsGreatest
    <3> HIDE DEF l
    <3>2. l \in PlayableAt(q) /\ l < i /\ \A j \in PlayableAt(q) : ~(l < j /\ j < i)
      BY <1>1, <3>1
    <3>3. r = Rank(q, l) + 1
      BY <1>1, <3>2, RankNext
    <3>4. r # 0 /\ r - 1 = Rank(q, l) /\ r - 1 \in 0 .. n - 1
      BY <1>1, <3>2, <3>3
    <3>5. l = PosOfRank(q, r - 1)
      BY <3>2, <3>4, PosFacts
    <3> QED BY <2>2, <3>4, <3>5 DEF l
  <2> QED BY <2>1, <2>2
<1> HIDE DEF after, before, n, r
<1> QED BY <1>4, <1>5, <1>6 DEF n, r

\* Where counting from track t in the direction of `steps` starts: at its rank, or, for
\* a track that is not among the playable ones, beyond the end.
Base(q, t, steps) == IF IndexOf(q, t) # -1 THEN IndexOf(q, t)
                     ELSE IF steps > 0 THEN -1 ELSE 0

\* k presses on from there.
Counted(q, t, steps, k) ==
    q[PosOfRank(q, Wrap(IF steps > 0 THEN Base(q, t, steps) + k ELSE Base(q, t, steps) - k,
                        Cardinality(PlayableAt(q))))]

\* A track that has an index is a playable one of the queue.
LEMMA IndexedTrack ==
  ASSUME NEW q \in Seq(Tracks), NEW t, IndexOf(q, t) # -1
  PROVE  /\ PositionOf(q, t) \in PlayableAt(q) /\ q[PositionOf(q, t)] = t
         /\ IndexOf(q, t) = Rank(q, PositionOf(q, t))
         /\ IndexOf(q, t) \in 0 .. Cardinality(PlayableAt(q)) - 1
<1>1. t \in Queued(q) /\ t \in playable
  BY PositionFacts
<1>2. /\ PositionOf(q, t) \in PlayableAt(q) /\ q[PositionOf(q, t)] = t
      /\ IndexOf(q, t) = Rank(q, PositionOf(q, t))
  BY <1>1, PositionFacts
<1> QED BY <1>2, RankOfPlayable

LEMMA BaseType ==
  ASSUME NEW q \in Seq(Tracks), NEW t, NEW steps
  PROVE  Base(q, t, steps) \in Int
BY IndexedTrack DEF Base

\* The neighbour of the track k presses on is the one k + 1 presses on, ...
LEMMA NextPress ==
  ASSUME NEW q \in Seq(Tracks), NoRepeats(q), PlayableAt(q) # {}, NEW t,
         NEW steps \in Int, NEW k \in Nat
  PROVE  NeighbourOf(q, Counted(q, t, steps, k), steps) = Counted(q, t, steps, k + 1)
<1> DEFINE n == Cardinality(PlayableAt(q))
           b == Base(q, t, steps)
           at(j) == IF steps > 0 THEN b + j ELSE b - j
           w == Wrap(at(k), n)
           i == PosOfRank(q, w)
<1>1. n \in Nat \ {0}
  BY EndRanks
<1>2. b \in Int
  BY BaseType
<1> HIDE DEF b, n
<1>3. at(k) \in Int /\ at(k + 1) = IF steps > 0 THEN at(k) + 1 ELSE at(k) - 1
  BY <1>2
<1> HIDE DEF at
<1>4. w \in 0 .. n - 1
  BY <1>1, <1>3, WrapFacts
<1>5. Wrap(at(k + 1), n) = IF steps > 0 THEN IF w = n - 1 THEN 0 ELSE w + 1
                           ELSE IF w = 0 THEN n - 1 ELSE w - 1
  <2>1. /\ Wrap(at(k) + 1, n) = IF w = n - 1 THEN 0 ELSE w + 1
        /\ Wrap(at(k) - 1, n) = IF w = 0 THEN n - 1 ELSE w - 1
    BY <1>1, <1>3, WrapSteps
  <2> HIDE DEF w
  <2> QED BY <2>1, <1>3
<1> HIDE DEF w
<1>6. i \in PlayableAt(q) /\ Rank(q, i) = w
  BY <1>4, PosFacts DEF n
<1> HIDE DEF i
<1>7. NeighbourOf(q, q[i], steps) =
        q[PosOfRank(q, IF steps > 0 THEN IF w = n - 1 THEN 0 ELSE w + 1
                       ELSE IF w = 0 THEN n - 1 ELSE w - 1)]
  BY <1>6, NeighbourRank DEF n
<1>8. Counted(q, t, steps, k) = q[i]
  BY DEF Counted, b, n, at, w, i
<1>9. Counted(q, t, steps, k + 1) = q[PosOfRank(q, Wrap(at(k + 1), n))]
  BY DEF Counted, b, n, at
<1> QED BY <1>5, <1>7, <1>8, <1>9

\* ... and that of the track itself is one press on.
LEMMA FirstPress ==
  ASSUME NEW q \in Seq(Tracks), NoRepeats(q), PlayableAt(q) # {}, NEW t, NEW steps \in Int
  PROVE  /\ NeighbourOf(q, t, steps) = Counted(q, t, steps, 1)
         /\ IndexOf(q, t) # -1 => Counted(q, t, steps, 0) = t
<1> DEFINE n == Cardinality(PlayableAt(q))
<1>1. /\ n \in Nat \ {0} /\ FirstOf(PlayableAt(q)) = PosOfRank(q, 0)
      /\ LastOf(PlayableAt(q)) = PosOfRank(q, n - 1)
  BY EndRanks
<1>2. CASE IndexOf(q, t) # -1
  <2> DEFINE p == PositionOf(q, t)
             x == IndexOf(q, t)
  <2>1. p \in PlayableAt(q) /\ q[p] = t /\ x = Rank(q, p) /\ x \in 0 .. n - 1
    BY <1>2, IndexedTrack
  <2>2. Base(q, t, steps) = x
    BY <1>2 DEF Base
  <2> HIDE DEF n, x, p
  <2>3. Wrap(x, n) = x /\ x + 0 = x /\ x - 0 = x
    <3>1. x \in Int /\ x + 0 = x /\ x - 0 = x
      BY <2>1, <1>1
    <3> QED BY <3>1, <2>1, <1>1, WrapSteps
  <2>4. PosOfRank(q, x) = p
    BY <2>1, PosFacts DEF n
  <2>5. Counted(q, t, steps, 0) = t
    BY <2>1, <2>2, <2>3, <2>4 DEF Counted, n
  <2>6. 0 \in Nat /\ 0 + 1 = 1
    OBVIOUS
  <2>7. NeighbourOf(q, Counted(q, t, steps, 0), steps) = Counted(q, t, steps, 0 + 1)
    BY <2>6, NextPress
  <2> QED BY <2>5, <2>6, <2>7
<1>3. CASE IndexOf(q, t) = -1
  <2> DEFINE after == {i \in PlayableAt(q) : i > 0}
             before == {i \in PlayableAt(q) : i < 0}
  <2>1. after = PlayableAt(q) /\ before = {}
    BY PlayableType
  <2>2. NeighbourOf(q, t, steps) =
          IF steps > 0 THEN q[FirstOf(IF after = {} THEN PlayableAt(q) ELSE after)]
          ELSE q[LastOf(IF before = {} THEN PlayableAt(q) ELSE before)]
    BY <1>3 DEF NeighbourOf, FirstOf, LastOf
  <2> HIDE DEF after, before, n
  <2>3. NeighbourOf(q, t, steps) =
          q[PosOfRank(q, IF steps > 0 THEN 0 ELSE n - 1)]
    BY <1>1, <2>1, <2>2
  <2>4. Wrap(0, n) = 0 /\ Wrap(0 - 1, n) = n - 1 /\ -1 + 1 = 0
    BY <1>1, WrapSteps
  <2>5. Counted(q, t, steps, 1) = q[PosOfRank(q, IF steps > 0 THEN 0 ELSE n - 1)]
    BY <1>3, <2>4 DEF Counted, Base, n
  <2> QED BY <1>3, <2>3, <2>5
<1> QED BY <1>2, <1>3

\* The recursion over presses in closed form.
LEMMA WalkedTo ==
  ASSUME NEW q \in Seq(Tracks), NoRepeats(q), PlayableAt(q) # {}, NEW t, NEW steps \in Int
  PROVE  /\ Walked(q, t, 0) = t
         /\ steps # 0 \/ IndexOf(q, t) # -1
            => Walked(q, t, steps) = q[PosOfRank(q, Wrap(Base(q, t, steps) + steps,
                                                         Cardinality(PlayableAt(q))))]
<1>1. ASSUME NEW s \in Int, NEW k \in Nat, k = IF s < 0 THEN -s ELSE s
      PROVE  Walked(q, t, s) = IF k = 0 THEN t ELSE Counted(q, t, s, k)
  <2> DEFINE body(g) == [j \in Nat |-> IF j = 0 THEN t ELSE NeighbourOf(q, g[j - 1], s)]
             walk == CHOOSE g : g = body(g)
             f == [j \in Nat |-> IF j = 0 THEN t ELSE Counted(q, t, s, j)]
  <2>1. Walked(q, t, s) = walk[k]
    BY <1>1 DEF Walked
  <2>2. f = body(f)
    <3>1. ASSUME NEW j \in Nat, j # 0
          PROVE  f[j] = NeighbourOf(q, f[j - 1], s)
      <4>1. CASE j = 1
        BY <4>1, FirstPress
      <4>2. CASE j # 1
        <5>1. j - 1 \in Nat /\ j - 1 # 0 /\ (j - 1) + 1 = j
          BY <3>1, <4>2
        <5>2. NeighbourOf(q, Counted(q, t, s, j - 1), s) = Counted(q, t, s, j)
          BY <5>1, NextPress
        <5> QED BY <3>1, <5>1, <5>2
      <4> QED BY <4>1, <4>2
    <3>2. f[0] = t
      OBVIOUS
    <3>3. f = [j \in Nat |-> f[j]]
      OBVIOUS
    <3> HIDE DEF f
    <3>4. \A j \in Nat : f[j] = IF j = 0 THEN t ELSE NeighbourOf(q, f[j - 1], s)
      BY <3>1, <3>2
    <3> QED BY <3>3, <3>4
  <2>3. walk = body(walk)
    BY <2>2
  <2> HIDE DEF walk
  <2>4. walk[0] = t /\ \A j \in Nat : j # 0 => walk[j] = NeighbourOf(q, walk[j - 1], s)
    BY <2>3
  <2>5. f[0] = t /\ \A j \in Nat : j # 0 => f[j] = NeighbourOf(q, f[j - 1], s)
    BY <2>2
  <2> HIDE DEF f, body
  <2>6. walk[k] = f[k]
    <3> DEFINE differ == {j \in Nat : walk[j] # f[j]}
    <3>1. SUFFICES ASSUME differ # {} PROVE FALSE
      BY <1>1
    <3>2. PICK j \in differ : \A l \in differ : j <= l
      BY <3>1, LeastNatural
    <3>3. j \in Nat /\ j # 0
      BY <3>2, <2>4, <2>5
    <3>4. j - 1 \in Nat /\ j - 1 \notin differ
      BY <3>2, <3>3
    <3> QED BY <3>2, <3>3, <3>4, <2>4, <2>5
  <2> QED BY <1>1, <2>1, <2>6 DEF f
<1>2. Walked(q, t, 0) = t
  <2>1. 0 \in Int /\ 0 \in Nat /\ 0 = IF 0 < 0 THEN -0 ELSE 0
    OBVIOUS
  <2> QED BY <2>1, <1>1
<1>3. ASSUME steps # 0 \/ IndexOf(q, t) # -1
      PROVE  Walked(q, t, steps) = q[PosOfRank(q, Wrap(Base(q, t, steps) + steps,
                                                       Cardinality(PlayableAt(q))))]
  <2> DEFINE k == IF steps < 0 THEN -steps ELSE steps
             b == Base(q, t, steps)
  <2>1. k \in Nat /\ b \in Int /\ (steps = 0 <=> k = 0)
    BY BaseType
  <2>2. Walked(q, t, steps) = Counted(q, t, steps, k)
    <3>1. CASE k = 0
      <4>1. steps = 0 /\ IndexOf(q, t) # -1
        BY <3>1, <2>1, <1>3
      <4> QED BY <4>1, <3>1, <1>2, FirstPress
    <3>2. CASE k # 0
      BY <3>2, <2>1, <1>1
    <3> QED BY <3>1, <3>2
  <2>3. (IF steps > 0 THEN b + k ELSE b - k) = b + steps
    BY <2>1
  <2> HIDE DEF k
  <2> QED BY <2>2, <2>3 DEF Counted
<1> QED BY <1>2, <1>3

\* In the cyclic modes a batch of presses goes where single presses lead.
LEMMA BatchTarget ==
  ASSUME NEW q \in Seq(Tracks), NoRepeats(q), PlayableAt(q) # {}, NEW t,
         NEW steps \in Int, steps # 0, playbackMode \in {"RepeatAll", "RepeatSingle"},
         NEW m \in NavigationTargets(q, t, steps)
  PROVE  m = Walked(q, t, steps) /\ m \in Tracks
<1> DEFINE n == Cardinality(PlayableAt(q))
           b == Base(q, t, steps)
           w == Wrap(b + steps, n)
<1>1. n \in Nat \ {0} /\ b \in Int
  BY EndRanks, BaseType
<1>2. w \in 0 .. n - 1
  <2>1. b + steps \in Int
    BY <1>1
  <2> HIDE DEF b, n
  <2> QED BY <1>1, <2>1, WrapFacts
<1>3. NavigationTargets(q, t, steps) = PlayableOfRank(q, w)
  BY DEF NavigationTargets, Base
<1>4. PosOfRank(q, w) \in PlayableAt(q) /\ Rank(q, PosOfRank(q, w)) = w
  BY <1>2, PosFacts
<1>5. PlayableOfRank(q, w) = {q[PosOfRank(q, w)]}
  BY <1>4, TrackOfRank
<1>6. q[PosOfRank(q, w)] \in Tracks
  BY <1>4, PlayableType
<1> QED BY <1>3, <1>5, <1>6, WalkedTo

\* One press more, when those that wait are counted from a playable track.
LEMMA PressMore ==
  ASSUME NEW q \in Seq(Tracks), NoRepeats(q), PlayableAt(q) # {}, NEW t,
         NEW steps \in Int, steps = 0 \/ IndexOf(q, t) # -1, NEW press \in {-1, 1}
  PROVE  Walked(q, t, steps + press) = NeighbourOf(q, Walked(q, t, steps), press)
<1> DEFINE n == Cardinality(PlayableAt(q))
           x == IndexOf(q, t)
<1>1. n \in Nat \ {0} /\ press \in Int /\ steps + press \in Int
  BY EndRanks
<1>2. CASE IndexOf(q, t) # -1
  <2> DEFINE w == Wrap(x + steps, n)
             i == PosOfRank(q, w)
  <2>1. x \in Int /\ x + steps \in Int
    BY <1>2, IndexedTrack
  <2>2. Walked(q, t, steps) = q[i]
    BY <1>2, WalkedTo DEF Base
  <2>3. Walked(q, t, steps + press) = q[PosOfRank(q, Wrap(x + (steps + press), n))]
    BY <1>1, <1>2, WalkedTo DEF Base
  <2>4. x + (steps + press) = IF press > 0 THEN (x + steps) + 1 ELSE (x + steps) - 1
    BY <2>1
  <2> HIDE DEF n, x
  <2>5. w \in 0 .. n - 1
    BY <1>1, <2>1, WrapFacts
  <2>6. Wrap(x + (steps + press), n) = IF press > 0 THEN IF w = n - 1 THEN 0 ELSE w + 1
                                       ELSE IF w = 0 THEN n - 1 ELSE w - 1
    <3> DEFINE y == x + steps
    <3>1. y \in Int
      BY <2>1
    <3> HIDE DEF y
    <3>2. /\ Wrap(y + 1, n) = IF Wrap(y, n) = n - 1 THEN 0 ELSE Wrap(y, n) + 1
          /\ Wrap(y - 1, n) = IF Wrap(y, n) = 0 THEN n - 1 ELSE Wrap(y, n) - 1
      BY <1>1, <3>1, WrapSteps
    <3> QED BY <2>4, <3>2 DEF y
  <2> HIDE DEF w
  <2>7. i \in PlayableAt(q) /\ Rank(q, i) = w
    BY <2>5, PosFacts DEF n
  <2> HIDE DEF i
  <2>8. NeighbourOf(q, q[i], press) =
          q[PosOfRank(q, IF press > 0 THEN IF w = n - 1 THEN 0 ELSE w + 1
                         ELSE IF w = 0 THEN n - 1 ELSE w - 1)]
    BY <1>1, <2>7, NeighbourRank DEF n
  <2> QED BY <2>2, <2>3, <2>6, <2>8
<1>3. CASE IndexOf(q, t) = -1
  <2>1. steps = 0 /\ steps + press = press /\ press # 0
    BY <1>3
  <2>2. Walked(q, t, steps) = t
    BY <2>1, WalkedTo
  <2>3. NeighbourOf(q, t, press) = Counted(q, t, press, 1)
    BY <1>1, FirstPress
  <2>4. Walked(q, t, press) = Counted(q, t, press, 1)
    <3>1. (IF press > 0 THEN Base(q, t, press) + 1 ELSE Base(q, t, press) - 1)
            = Base(q, t, press) + press
      BY <1>1, BaseType
    <3>2. Walked(q, t, press) = q[PosOfRank(q, Wrap(Base(q, t, press) + press, n))]
      BY <1>1, <2>1, WalkedTo
    <3> QED BY <3>1, <3>2 DEF Counted
  <2> QED BY <2>1, <2>2, <2>3, <2>4
<1> QED BY <1>2, <1>3

\* Where record r has arrived or is being taken to by hand.
HeadingOf(r) == IF r.anim = "switchOut" /\ r.target.keep THEN r.target.track ELSE r.media

\* Applying a batch goes where the presses lead.
LEMMA BatchArrives ==
  ASSUME NEW r, Sound(r), NEW q \in Seq(Tracks), NoRepeats(q), PlayableAt(q) # {},
         playbackMode \in {"RepeatAll", "RepeatSingle"}, r.pending # 0,
         NEW x \in ExecuteManualNavigation(r, q)
  PROVE  HeadingOf(x) = Walked(q, r.media, r.pending) /\ x.pending = 0
<1> DEFINE taken == [r EXCEPT !.pending = 0]
<1>1. Sound(taken) /\ r.pending \in Int
  BY DEF Sound, EngineState
<1>2. PICK m \in NavigationTargets(q, r.media, r.pending) :
            x = SwitchOrStop(taken, q, m, TRUE, TRUE)
  BY DEF ExecuteManualNavigation
<1>3. m = Walked(q, r.media, r.pending) /\ m \in Tracks
  BY <1>1, BatchTarget
<1>4. x = SwitchTo(taken, q, m, TRUE, TRUE)
  BY <1>2, <1>3, TracksAssumption DEF SwitchOrStop
<1> HIDE DEF taken
<1> DEFINE goal == [track |-> m, play |-> TRUE, keep |-> TRUE]
<1>5. \/ x.anim # "switchOut" /\ x.media = m
      \/ x.anim = "switchOut" /\ x.target = goal
  BY <1>1, <1>3, <1>4, SwitchArrives, Zenon
<1>6. goal.track = m /\ goal.keep
  OBVIOUS
<1> HIDE DEF goal
<1>7. HeadingOf(x) = m
  BY <1>5, <1>6 DEF HeadingOf
<1> QED BY <1>3, <1>7, ExecuteManualNavigationKeeps

LEMMA SelectedAfter ==
  ASSUME OnlyEngine
  PROVE  Selected' = Walked(metaList, HeadingOf(eng'), eng'.pending)
BY DEF OnlyEngine, Selected, Heading, HeadingOf, Walked, NeighbourOf, IndexOf, Rank,
       PlayableAt, PositionOf

\* A press, taken at once or merged with others.
LEMMA PressStep ==
  ASSUME IInv, NoRepeats(metaList), eng.anim = "switchOut" => eng.navTimer,
         playbackMode \in {"RepeatAll", "RepeatSingle"}, PlayableAt(metaList) # {},
         eng.pending = 0 \/ IndexOf(metaList, Heading) # -1,
         NEW press \in {-1, 1}, Navigate(press)
  PROVE  Selected' = NeighbourOf(metaList, Selected, press)
<1> DEFINE q == metaList
           asked == [eng EXCEPT !.pending = eng.pending + press]
<1>1. /\ q \in Seq(Tracks) /\ Sound(eng) /\ eng.pending \in Int
      /\ eng.pending # 0 => eng.navTimer
  BY DEF IInv, TypeOK, NoStrandedNavigation, EngineState
<1>2. OnlyEngine /\ eng' \in RequestManualNavigation(eng, q, press)
  BY DEF Navigate
<1>3. Selected' = Walked(q, HeadingOf(eng'), eng'.pending)
  BY <1>2, SelectedAfter
<1>4. Selected = Walked(q, Heading, eng.pending)
  BY DEF Selected
<1>5. Walked(q, Heading, eng.pending + press) = NeighbourOf(q, Selected, press)
  BY <1>1, <1>4, PressMore
<1>6. /\ asked \in EngineState /\ Sound(asked) /\ asked.pending = eng.pending + press
      /\ asked.media = eng.media /\ HeadingOf(asked) = Heading
  BY <1>1 DEF Sound, EngineState, HeadingOf, Heading
<1>7. CASE eng.navTimer
  <2>1. eng' = asked
    BY <1>2, <1>7 DEF RequestManualNavigation
  <2> QED BY <2>1, <1>3, <1>5, <1>6
<1>8. CASE ~eng.navTimer
  <2>1. PICK x \in ExecuteManualNavigation(asked, q) : eng' = [x EXCEPT !.navTimer = TRUE]
    BY <1>2, <1>8 DEF RequestManualNavigation
  <2>2. eng.pending = 0 /\ Heading = eng.media
    BY <1>1, <1>8 DEF Heading
  <2> HIDE DEF asked
  <2>3. asked.pending # 0 /\ asked.pending = press
    BY <1>6, <2>2
  <2>4. HeadingOf(x) = Walked(q, asked.media, asked.pending) /\ x.pending = 0
    BY <1>1, <1>6, <2>1, <2>3, BatchArrives
  <2>5. Sound(x)
    BY <1>1, <1>6, <2>1, ExecuteManualNavigationKeeps
  <2>6. HeadingOf(eng') = HeadingOf(x) /\ eng'.pending = 0
    BY <2>1, <2>4, <2>5 DEF HeadingOf, Sound, EngineState
  <2>7. Selected' = HeadingOf(x)
    BY <1>1, <1>3, <2>6, WalkedTo
  <2>8. eng.pending + press = press
    BY <2>2
  <2> QED BY <1>5, <1>6, <2>2, <2>3, <2>4, <2>7, <2>8
<1> QED BY <1>7, <1>8

\* The timer that applies a batch.
LEMMA TimeoutStep ==
  ASSUME IInv, NoRepeats(metaList), NavigationTimeout,
         playbackMode \in {"RepeatAll", "RepeatSingle"}, PlayableAt(metaList) # {}
  PROVE  Selected' = Selected
<1> DEFINE q == metaList
<1>1. q \in Seq(Tracks) /\ Sound(eng) /\ eng.pending \in Int
  BY DEF IInv, TypeOK, EngineState
<1>2. OnlyEngine /\ Heading = eng.media /\ ~(eng.anim = "switchOut" /\ eng.target.keep)
  BY DEF NavigationTimeout, Heading
<1>3. Selected' = Walked(q, HeadingOf(eng'), eng'.pending)
  BY <1>2, SelectedAfter
<1>4. CASE eng.pending = 0
  <2>1. eng' = [eng EXCEPT !.navTimer = FALSE]
    BY <1>4 DEF NavigationTimeout
  <2>2. HeadingOf(eng') = Heading /\ eng'.pending = eng.pending
    BY <1>1, <2>1 DEF HeadingOf, Heading, Sound, EngineState
  <2> QED BY <1>3, <2>2 DEF Selected
<1>5. CASE eng.pending # 0
  <2>1. eng' \in ExecuteManualNavigation(eng, q)
    BY <1>5 DEF NavigationTimeout
  <2>2. HeadingOf(eng') = Walked(q, eng.media, eng.pending) /\ eng'.pending = 0
    BY <1>1, <1>5, <2>1, BatchArrives
  <2>3. Selected' = HeadingOf(eng')
    BY <1>1, <1>3, <2>2, WalkedTo
  <2> QED BY <1>2, <2>2, <2>3 DEF Selected
<1> QED BY <1>4, <1>5

\* The end of the fade-out of a switch by hand.
LEMMA FadeEndStep ==
  ASSUME IInv, SwitchFadeOutFinished, eng.target.keep
  PROVE  Selected' = Selected
<1> DEFINE over == [eng EXCEPT !.anim = "none", !.target = NoTarget, !.factor = "reduced"]
           m == eng.target.track
           flag == over.flag /\ over.media = NoTrack
           loaded == [over EXCEPT !.flag = flag, !.media = m, !.status = "Stopped"]
           risen == Start(BackendPlay(loaded), "switchIn", "reduced")
<1>1. Sound(eng) /\ eng.anim = "switchOut" /\ m \in MaybeTrack
  BY DEF IInv, TypeOK, SwitchFadeOutFinished, EngineState, Target
<1>2. over \in EngineState /\ over.anim = "none" /\ over.pending = eng.pending
  BY <1>1 DEF Sound, EngineState, Animations, NoTarget, Target, MaybeTrack
<1>3. SetMediaMeta(over, m, eng.target.keep) = loaded
  BY DEF SetMediaMeta
<1>4. OnlyEngine /\ eng' \in {loaded, risen}
  BY <1>3 DEF SwitchFadeOutFinished
<1> HIDE DEF over, flag
<1>5. /\ loaded \in EngineState /\ loaded.anim = "none" /\ loaded.pending = eng.pending
      /\ loaded.media = m
  <2>1. flag \in BOOLEAN
    BY DEF flag
  <2> QED BY <1>1, <1>2, <2>1 DEF EngineState, Statuses
<1> HIDE DEF loaded
<1>6. risen.anim = "switchIn" /\ risen.pending = eng.pending /\ risen.media = m
  BY <1>5 DEF BackendPlay, Start, EngineState
<1> HIDE DEF risen
<1>7. HeadingOf(eng') = m /\ eng'.pending = eng.pending
  BY <1>4, <1>5, <1>6 DEF HeadingOf
<1>8. Heading = m
  BY <1>1 DEF Heading
<1> QED BY <1>4, <1>7, <1>8, SelectedAfter DEF Selected

\* In the cyclic modes merged presses select the track that as many single presses would,
\* around the ends of the queue, past what cannot be played, while a switch fades out and
\* when it ends (requestManualNavigation, executeManualNavigation), for queues of any
\* length and any number of presses.
THEOREM MergedPressesAddUp == Spec => PressesAddUp
<1>1. IInv /\ NoRepeats(metaList) /\ [Next]_vars =>
        [(eng.anim = "switchOut" => eng.navTimer) => PressCounts]_vars
  <2> SUFFICES ASSUME IInv, NoRepeats(metaList), eng.anim = "switchOut" => eng.navTimer
               PROVE  PressCounts
    OBVIOUS
  <2>1. 1 \in {-1, 1} /\ -1 \in {-1, 1}
    OBVIOUS
  <2> QED BY <2>1, PressStep, TimeoutStep, FadeEndStep DEF PressCounts, PlayNextMeta, PlayPreMeta
<1> QED BY <1>1, QueueInvariance, PTL DEF Spec, PressesAddUp
=============================================================================
