--------------------------- MODULE PlaylistsProofs ---------------------------
(* Theorems of Playlists, for every number of tracks and of playlists.       *)
EXTENDS Playlists, SequenceTheorems, FunctionTheorems, FiniteSetTheorems, WellFoundedInduction,
        TLAPS

-----------------------------------------------------------------------------
(* Going through a set of positions from the first to the last. *)

\* A nonempty set of naturals has a least element.
LEMMA LeastNatural ==
  ASSUME NEW T \in SUBSET Nat, T # {}
  PROVE  \E m \in T : \A k \in T : m <= k
<1> DEFINE below(m) == 0 .. m - 1
           segments == {below(m) : m \in T}
           smaller == StrictSubsetOrdering(Nat)
<1>1. segments \subseteq FiniteSubsetsOf(Nat) /\ segments # {}
  <2>1. \A m \in Nat : below(m) \in FiniteSubsetsOf(Nat)
    BY FS_Interval DEF FiniteSubsetsOf
  <2> QED BY <2>1
<1>2. IsWellFoundedOn(smaller, FiniteSubsetsOf(Nat))
  BY FS_StrictSubsetOrderingWellFounded
<1>3. PICK x \in segments : \A y \in segments : ~(<<y, x>> \in smaller)
  <2> HIDE DEF segments, smaller
  <2> QED BY <1>1, <1>2, WFMin
<1>4. PICK m \in T : x = below(m)
  BY <1>3
<1>5. ASSUME NEW k \in T, ~(m <= k) PROVE FALSE
  <2>1. k \in below(m) /\ k \notin below(k)
    BY <1>5
  <2>2. below(k) \subseteq below(m) /\ below(k) # below(m)
    BY <2>1, <1>5
  <2>3. <<below(k), x>> \in smaller
    BY <2>2, <1>4 DEF StrictSubsetOrdering
  <2> QED BY <2>3, <1>3
<1> QED BY <1>5

\* f goes through the positions of I, from the first to the last.
GoesThrough(f, m, I) ==
    /\ f \in [1 .. m -> I]
    /\ \A a, b \in 1 .. m : a < b => f[a] < f[b]
    /\ \A i \in I : \E a \in 1 .. m : f[a] = i

\* Every set of positions can be gone through, ...
LEMMA Through ==
  ASSUME NEW n \in Nat, NEW I \in SUBSET (1 .. n)
  PROVE  \E m \in Nat : \E f : GoesThrough(f, m, I)
<1> DEFINE can(J) == \E m \in Nat : \E f : GoesThrough(f, m, J)
           bad == {k \in Nat : \E J \in SUBSET (1 .. k) : ~can(J)}
<1>1. SUFFICES ASSUME bad # {} PROVE FALSE
  OBVIOUS
<1>2. PICK k \in bad : \A l \in bad : k <= l
  <2> HIDE DEF bad
  <2>1. bad \in SUBSET Nat
    BY DEF bad
  <2> QED BY <1>1, <2>1, LeastNatural
<1>3. PICK J \in SUBSET (1 .. k) : ~can(J)
  BY <1>2
<1>4. k \in Nat
  BY <1>2
<1>5. CASE k = 0
  <2>1. J = {}
    BY <1>3, <1>5
  <2>2. GoesThrough([a \in 1 .. 0 |-> 0], 0, J)
    BY <2>1 DEF GoesThrough
  <2> QED BY <2>2, <1>3
<1>6. CASE k # 0
  <2> DEFINE K == J \ {k}
  <2>1. /\ k - 1 \in Nat /\ k - 1 \notin bad /\ K \in SUBSET (1 .. k - 1)
        /\ \A i \in K : i \in Int /\ i < k
    BY <1>2, <1>3, <1>4, <1>6
  <2>2. PICK m \in Nat : \E g : GoesThrough(g, m, K)
    BY <2>1
  <2>3. PICK f : GoesThrough(f, m, K)
    BY <2>2
  <2>4. CASE k \notin J
    BY <2>3, <2>4, <1>3
  <2>5. CASE k \in J
    <3> DEFINE g == [a \in 1 .. m + 1 |-> IF a = m + 1 THEN k ELSE f[a]]
    <3>1. \A a \in 1 .. m + 1 : a = m + 1 \/ a \in 1 .. m
      OBVIOUS
    <3>2. g \in [1 .. m + 1 -> J]
      BY <2>3, <2>5, <3>1 DEF GoesThrough
    <3>3. ASSUME NEW a \in 1 .. m + 1, NEW b \in 1 .. m + 1, a < b PROVE g[a] < g[b]
      <4>1. a \in 1 .. m /\ f[a] \in K
        BY <3>3, <2>3 DEF GoesThrough
      <4>2. f[a] < k /\ f[a] \in Int
        BY <4>1, <2>1, <1>4
      <4> QED BY <4>1, <4>2, <3>1, <3>3, <2>3 DEF GoesThrough
    <3>4. ASSUME NEW i \in J PROVE \E a \in 1 .. m + 1 : g[a] = i
      <4>1. CASE i = k
        <5>1. m + 1 \in 1 .. m + 1
          OBVIOUS
        <5> QED BY <4>1, <5>1
      <4>2. CASE i # k
        <5>1. PICK a \in 1 .. m : f[a] = i
          BY <4>2, <2>3 DEF GoesThrough
        <5>2. a \in 1 .. m + 1 /\ a # m + 1
          OBVIOUS
        <5> QED BY <5>1, <5>2
      <4> QED BY <4>1, <4>2
    <3> HIDE DEF g
    <3>5. GoesThrough(g, m + 1, J) /\ m + 1 \in Nat
      BY <3>2, <3>3, <3>4 DEF GoesThrough
    <3> QED BY <3>5, <1>3
  <2> QED BY <2>4, <2>5
<1> QED BY <1>5, <1>6

\* ... and in one way only.
LEMMA OneWay ==
  ASSUME NEW I \in SUBSET Nat, NEW m \in Nat, NEW f, NEW g,
         GoesThrough(f, m, I), GoesThrough(g, m, I)
  PROVE  f = g
<1> DEFINE differ == {a \in 1 .. m : f[a] # g[a]}
<1>1. SUFFICES ASSUME differ # {} PROVE FALSE
  BY DEF GoesThrough
<1>2. PICK a \in differ : \A b \in differ : a <= b
  <2>1. differ \in SUBSET Nat
    OBVIOUS
  <2> HIDE DEF differ
  <2> QED BY <1>1, <2>1, LeastNatural
<1>3. a \in 1 .. m /\ f[a] \in I /\ g[a] \in I /\ f[a] \in Nat /\ g[a] \in Nat /\ f[a] # g[a]
  BY <1>2 DEF GoesThrough
<1>4. ASSUME NEW c \in 1 .. m, f[c] = g[a] PROVE a < c
  <2>1. c # a
    BY <1>3, <1>4
  <2>2. ~(c < a)
    <3>1. SUFFICES ASSUME c < a PROVE FALSE
      OBVIOUS
    <3>2. f[c] = g[c] /\ g[c] < g[a]
      BY <3>1, <1>2, <1>3 DEF GoesThrough
    <3> QED BY <3>2, <1>3, <1>4
  <2> QED BY <2>1, <2>2, <1>3
<1>5. ASSUME NEW c \in 1 .. m, g[c] = f[a] PROVE a < c
  <2>1. c # a
    BY <1>3, <1>5
  <2>2. ~(c < a)
    <3>1. SUFFICES ASSUME c < a PROVE FALSE
      OBVIOUS
    <3>2. f[c] = g[c] /\ f[c] < f[a]
      BY <3>1, <1>2, <1>3 DEF GoesThrough
    <3> QED BY <3>2, <1>3, <1>5
  <2> QED BY <2>1, <2>2, <1>3
<1>6. f[a] < g[a]
  <2>1. PICK c \in 1 .. m : f[c] = g[a]
    BY <1>3 DEF GoesThrough
  <2> QED BY <2>1, <1>3, <1>4 DEF GoesThrough
<1>7. g[a] < f[a]
  <2>1. PICK c \in 1 .. m : g[c] = f[a]
    BY <1>3 DEF GoesThrough
  <2> QED BY <2>1, <1>3, <1>5 DEF GoesThrough
<1> QED BY <1>3, <1>6, <1>7

\* The entries of a sequence at the positions f goes through.
Via(s, f, m) == [k \in 1 .. m |-> s[f[k]]]

LEMMA ViaFacts ==
  ASSUME NEW X, NEW s, NEW f, NEW m \in Nat, \A k \in 1 .. m : s[f[k]] \in X
  PROVE  /\ Via(s, f, m) \in Seq(X) /\ Len(Via(s, f, m)) = m
         /\ \A k \in 1 .. m : Via(s, f, m)[k] = s[f[k]]
BY DEF Via

\* So At() and Of() follow any way through the positions there is.
LEMMA AtThrough ==
  ASSUME NEW s, NEW I \in SUBSET Nat, NEW m \in Nat, NEW f, GoesThrough(f, m, I)
  PROVE  At(s, I) = Via(s, f, m)
<1> DEFINE D == 1 .. m
           o == Ordered(I)
<1>1. IsFiniteSet(D) /\ Cardinality(D) = m
  BY FS_Interval
<1>2. ASSUME NEW g \in [D -> I], \A a, b \in D : a < b => g[a] < g[b]
      PROVE  \A a, b \in D : g[a] = g[b] => a = b
  <2> SUFFICES ASSUME NEW a \in D, NEW b \in D, g[a] = g[b] PROVE a = b
    OBVIOUS
  <2>1. g[a] \in Nat /\ g[b] \in Nat
    OBVIOUS
  <2>2. ~(a < b) /\ ~(b < a)
    BY <1>2, <2>1
  <2> QED BY <2>2
<1>3. f \in [D -> I] /\ \A a, b \in D : a < b => f[a] < f[b]
  BY DEF GoesThrough
<1>4. \A i \in I : \E a \in D : f[a] = i
  BY DEF GoesThrough
<1> HIDE DEF D
<1>5. IsFiniteSet(I) /\ Cardinality(I) = m
  <2>1. f \in Bijection(D, I)
    BY <1>2, <1>3, <1>4, Fun_IsBij
  <2>2. ExistsBijection(D, I)
    BY <2>1 DEF ExistsBijection
  <2> QED BY <1>1, <2>2, FS_Bijection
<1>6. o \in [D -> I] /\ \A a, b \in D : a < b => o[a] < o[b]
  <2>1. \E g \in [D -> I] : \A a, b \in DOMAIN g : a < b => g[a] < g[b]
    BY <1>3
  <2>2. o = CHOOSE g \in [D -> I] : \A a, b \in DOMAIN g : a < b => g[a] < g[b]
    BY <1>5 DEF Ordered, D
  <2> HIDE DEF o
  <2>3. o \in [D -> I] /\ \A a, b \in DOMAIN o : a < b => o[a] < o[b]
    BY <2>1, <2>2
  <2> QED BY <2>3
<1> HIDE DEF o
<1>7. \A i \in I : \E a \in D : o[a] = i
  <2>1. o \in Injection(D, I)
    BY <1>2, <1>6, Fun_IsInj
  <2>2. o \in Surjection(D, I)
    BY <2>1, <1>1, <1>5, FS_Injection
  <2> QED BY <2>2, Fun_SurjectionProperties
<1>8. o = f
  <2>1. GoesThrough(o, m, I)
    BY <1>6, <1>7 DEF GoesThrough, D
  <2> QED BY <2>1, OneWay
<1>9. At(s, I) = [k \in DOMAIN o |-> s[o[k]]]
  BY DEF At, o
<1> QED BY <1>3, <1>8, <1>9 DEF D, Via

\* A set of positions of a sequence has a way through.
LEMMA WayThrough ==
  ASSUME NEW X, NEW s \in Seq(X), NEW I \in SUBSET DOMAIN s
  PROVE  \E m \in Nat : \E f : /\ GoesThrough(f, m, I)
                              /\ At(s, I) = Via(s, f, m)
<1>1. Len(s) \in Nat /\ I \in SUBSET (1 .. Len(s)) /\ I \in SUBSET Nat
  OBVIOUS
<1>2. PICK m \in Nat : \E f : GoesThrough(f, m, I)
  BY <1>1, Through
<1>3. PICK f : GoesThrough(f, m, I)
  BY <1>2
<1>4. At(s, I) = Via(s, f, m)
  BY <1>1, <1>3, AtThrough
<1> QED BY <1>3, <1>4

\* What At() gives is a sequence of the entries at the positions; it repeats nothing if
\* they differ.
LEMMA AtType ==
  ASSUME NEW X, NEW s \in Seq(X), NEW I \in SUBSET DOMAIN s
  PROVE  /\ At(s, I) \in Seq(X)
         /\ ToSet(At(s, I)) = {s[i] : i \in I}
         /\ (\A i, j \in I : s[i] = s[j] => i = j) => NoRepeats(At(s, I))
<1>1. PICK m \in Nat : \E f : GoesThrough(f, m, I) /\ At(s, I) = Via(s, f, m)
  BY WayThrough
<1>2. PICK f : GoesThrough(f, m, I) /\ At(s, I) = Via(s, f, m)
  BY <1>1
<1> DEFINE r == At(s, I)
<1>3. /\ r = [k \in 1 .. m |-> s[f[k]]] /\ \A k \in 1 .. m : f[k] \in I
      /\ \A i \in I : \E a \in 1 .. m : f[a] = i
      /\ \A a, b \in 1 .. m : a < b => f[a] < f[b]
  BY <1>2 DEF GoesThrough, Via
<1> HIDE DEF r
<1>4. \A i \in I : s[i] \in X /\ i \in Nat
  OBVIOUS
<1>5. r \in Seq(X)
  BY <1>3, <1>4
<1>6. ToSet(r) = {s[i] : i \in I}
  <2>1. ToSet(r) = {s[f[k]] : k \in 1 .. m}
    BY <1>3 DEF ToSet
  <2> QED BY <2>1, <1>3
<1>7. ASSUME \A i, j \in I : s[i] = s[j] => i = j PROVE NoRepeats(r)
  <2> SUFFICES ASSUME NEW a \in 1 .. m, NEW b \in 1 .. m, r[a] = r[b] PROVE a = b
    BY <1>3 DEF NoRepeats
  <2>1. f[a] = f[b] /\ f[a] \in Nat
    BY <1>3, <1>4, <1>7
  <2>2. ~(a < b) /\ ~(b < a)
    BY <2>1, <1>3
  <2> QED BY <2>2
<1> QED BY <1>5, <1>6, <1>7 DEF r

-----------------------------------------------------------------------------
(* The entries of a sequence that are in a set. *)

Places(s, T) == {i \in DOMAIN s : s[i] \in T}

LEMMA OfType ==
  ASSUME NEW X, NEW s \in Seq(X), NEW T
  PROVE  /\ Of(s, T) \in Seq(X)
         /\ ToSet(Of(s, T)) = ToSet(s) \cap T
         /\ NoRepeats(s) => NoRepeats(Of(s, T))
<1> DEFINE I == {i \in DOMAIN s : s[i] \in T}
<1>1. {s[i] : i \in I} = ToSet(s) \cap T
  BY DEF ToSet
<1>2. NoRepeats(s) => \A i, j \in I : s[i] = s[j] => i = j
  BY DEF NoRepeats
<1>3. I \in SUBSET DOMAIN s /\ Of(s, T) = At(s, I)
  BY DEF Of
<1> HIDE DEF I
<1> QED BY <1>1, <1>2, <1>3, AtType

\* Any way through the positions in question gives them.
LEMMA OfThrough ==
  ASSUME NEW X, NEW s \in Seq(X), NEW T, NEW m \in Nat, NEW f,
         GoesThrough(f, m, Places(s, T))
  PROVE  Of(s, T) = Via(s, f, m)
<1>1. Places(s, T) \in SUBSET Nat /\ Of(s, T) = At(s, Places(s, T))
  BY DEF Of, Places
<1> QED BY <1>1, AtThrough

LEMMA OfWay ==
  ASSUME NEW X, NEW s \in Seq(X), NEW T
  PROVE  \E m \in Nat : \E f : /\ GoesThrough(f, m, Places(s, T))
                              /\ Of(s, T) = Via(s, f, m)
<1>1. Places(s, T) \in SUBSET DOMAIN s /\ Of(s, T) = At(s, Places(s, T))
  BY DEF Of, Places
<1> QED BY <1>1, WayThrough

\* What has only entries of T is left as it is, and of what has none nothing is left.
LEMMA OfAll ==
  ASSUME NEW X, NEW s \in Seq(X), NEW T
  PROVE  /\ ToSet(s) \subseteq T => Of(s, T) = s
         /\ ToSet(s) \cap T = {} => Of(s, T) = <<>>
<1> DEFINE I == Places(s, T)
           f == [k \in DOMAIN s |-> k]
           e == [k \in 1 .. 0 |-> 0]
<1>1. Len(s) \in Nat /\ DOMAIN s = 1 .. Len(s) /\ s = [k \in 1 .. Len(s) |-> s[k]]
  OBVIOUS
<1>2. ASSUME ToSet(s) \subseteq T PROVE Of(s, T) = s
  <2>1. I = 1 .. Len(s)
    BY <1>1, <1>2 DEF ToSet, Places
  <2>2. GoesThrough(f, Len(s), I)
    BY <1>1, <2>1 DEF GoesThrough
  <2>3. Of(s, T) = Via(s, f, Len(s))
    <3> HIDE DEF f
    <3> QED BY <1>1, <2>2, OfThrough
  <2> QED BY <1>1, <2>3 DEF Via
<1>3. ASSUME ToSet(s) \cap T = {} PROVE Of(s, T) = <<>>
  <2>1. I = {}
    BY <1>3 DEF ToSet, Places
  <2>2. GoesThrough(e, 0, I)
    BY <2>1 DEF GoesThrough
  <2>3. Of(s, T) = Via(s, e, 0)
    <3> HIDE DEF e
    <3> QED BY <2>2, OfThrough
  <2> QED BY <2>3 DEF Via
<1> QED BY <1>2, <1>3

\* Of two sequences in a row, the entries of the one and then those of the other.
LEMMA OfConcat ==
  ASSUME NEW X, NEW s \in Seq(X), NEW t \in Seq(X), NEW T
  PROVE  Of(s \o t, T) = Of(s, T) \o Of(t, T)
<1> DEFINE I == Places(s, T)
           J == Places(t, T)
           n == Len(s)
           c == s \o t
           K == Places(c, T)
<1>1. PICK m \in Nat : \E f : GoesThrough(f, m, I) /\ Of(s, T) = Via(s, f, m)
  BY OfWay
<1>2. PICK f : GoesThrough(f, m, I) /\ Of(s, T) = Via(s, f, m)
  BY <1>1
<1>3. PICK l \in Nat : \E g : GoesThrough(g, l, J) /\ Of(t, T) = Via(t, g, l)
  BY OfWay
<1>4. PICK g : GoesThrough(g, l, J) /\ Of(t, T) = Via(t, g, l)
  BY <1>3
<1> DEFINE h == [k \in 1 .. m + l |-> IF k <= m THEN f[k] ELSE n + g[k - m]]
<1>5. /\ n \in Nat /\ c \in Seq(X) /\ Len(c) = n + Len(t)
      /\ \A i \in 1 .. n : c[i] = s[i]
      /\ \A i \in 1 .. Len(t) : c[n + i] = t[i]
  BY ConcatProperties
<1> HIDE DEF c
<1>6. /\ \A k \in 1 .. m : f[k] \in 1 .. n /\ s[f[k]] \in T
      /\ \A a, b \in 1 .. m : a < b => f[a] < f[b]
      /\ \A i \in I : \E a \in 1 .. m : f[a] = i
  BY <1>2 DEF GoesThrough, Places
<1>7. /\ \A k \in 1 .. l : g[k] \in 1 .. Len(t) /\ t[g[k]] \in T
      /\ \A a, b \in 1 .. l : a < b => g[a] < g[b]
      /\ \A i \in J : \E a \in 1 .. l : g[a] = i
  BY <1>4 DEF GoesThrough, Places
<1>8. \A k \in 1 .. m + l : \/ k \in 1 .. m /\ h[k] = f[k]
                            \/ k > m /\ k - m \in 1 .. l /\ h[k] = n + g[k - m]
  OBVIOUS
<1>9. \A i \in 1 .. n + Len(t) : \/ i \in 1 .. n /\ c[i] = s[i]
                                 \/ i - n \in 1 .. Len(t) /\ c[i] = t[i - n]
  <2> TAKE i \in 1 .. n + Len(t)
  <2>1. i \in 1 .. n \/ (i - n \in 1 .. Len(t) /\ n + (i - n) = i)
    BY <1>5
  <2> QED BY <1>5, <2>1
<1>10. DOMAIN c = 1 .. n + Len(t) /\ DOMAIN s = 1 .. n /\ DOMAIN t = 1 .. Len(t)
       /\ Len(t) \in Nat
  BY <1>5
<1> HIDE DEF n
<1>11. h \in [1 .. m + l -> K]
  <2> SUFFICES ASSUME NEW k \in 1 .. m + l PROVE h[k] \in K
    OBVIOUS
  <2> HIDE DEF h
  <2>1. CASE k \in 1 .. m /\ h[k] = f[k]
    <3>1. f[k] \in 1 .. n + Len(t) /\ c[f[k]] = s[f[k]]
      BY <2>1, <1>5, <1>6, <1>10
    <3> QED BY <2>1, <3>1, <1>6, <1>10 DEF Places
  <2>2. CASE k - m \in 1 .. l /\ h[k] = n + g[k - m]
    <3>1. h[k] \in 1 .. n + Len(t) /\ c[h[k]] = t[g[k - m]]
      BY <2>2, <1>5, <1>7, <1>10
    <3> QED BY <2>2, <3>1, <1>7, <1>10 DEF Places
  <2> QED BY <2>1, <2>2, <1>8
<1> HIDE DEF h
<1>12. ASSUME NEW a \in 1 .. m + l, NEW b \in 1 .. m + l, a < b PROVE h[a] < h[b]
  <2>1. CASE b \in 1 .. m /\ h[b] = f[b]
    <3>1. a \in 1 .. m /\ h[a] = f[a]
      BY <2>1, <1>8, <1>12
    <3> QED BY <2>1, <3>1, <1>6, <1>12
  <2>2. CASE b > m /\ b - m \in 1 .. l /\ h[b] = n + g[b - m]
    <3>1. CASE a \in 1 .. m /\ h[a] = f[a]
      BY <2>2, <3>1, <1>5, <1>6, <1>7
    <3>2. CASE a > m /\ a - m \in 1 .. l /\ h[a] = n + g[a - m]
      <4>1. g[a - m] < g[b - m] /\ g[a - m] \in Int /\ g[b - m] \in Int
        <5>1. a - m < b - m
          BY <1>12
        <5> QED BY <5>1, <2>2, <3>2, <1>7
      <4> QED BY <4>1, <2>2, <3>2, <1>5
    <3> QED BY <3>1, <3>2, <1>8
  <2> QED BY <2>1, <2>2, <1>8
<1>13. ASSUME NEW i \in K PROVE \E a \in 1 .. m + l : h[a] = i
  <2>1. i \in 1 .. n + Len(t) /\ c[i] \in T
    BY <1>10 DEF Places
  <2>2. CASE i \in 1 .. n /\ c[i] = s[i]
    <3>1. PICK a \in 1 .. m : f[a] = i
      BY <2>1, <2>2, <1>6, <1>10 DEF Places
    <3>2. a \in 1 .. m + l /\ h[a] = f[a]
      BY <1>8
    <3> QED BY <3>1, <3>2
  <2>3. CASE i - n \in 1 .. Len(t) /\ c[i] = t[i - n]
    <3>1. PICK a \in 1 .. l : g[a] = i - n
      BY <2>1, <2>3, <1>7, <1>10 DEF Places
    <3>2. m + a \in 1 .. m + l /\ (m + a) - m = a /\ ~(m + a \in 1 .. m)
      OBVIOUS
    <3>3. h[m + a] = n + g[a]
      BY <3>2, <1>8
    <3>4. n + (i - n) = i
      BY <2>1, <1>5, <1>10
    <3> QED BY <3>1, <3>2, <3>3, <3>4
  <2> QED BY <2>1, <2>2, <2>3, <1>9
<1>14. m + l \in Nat /\ GoesThrough(h, m + l, K)
  BY <1>11, <1>12, <1>13 DEF GoesThrough
<1>15. Of(c, T) = Via(c, h, m + l)
  BY <1>5, <1>14, OfThrough
<1>16. \A k \in 1 .. m + l : \/ k \in 1 .. m /\ c[h[k]] = s[f[k]]
                             \/ /\ k > m /\ k - m \in 1 .. l
                                /\ c[h[k]] = t[g[k - m]]
  <2> TAKE k \in 1 .. m + l
  <2>1. CASE k \in 1 .. m /\ h[k] = f[k]
    <3>1. c[f[k]] = s[f[k]]
      BY <2>1, <1>5, <1>6
    <3> QED BY <2>1, <3>1
  <2>2. CASE k > m /\ k - m \in 1 .. l /\ h[k] = n + g[k - m]
    <3>1. c[n + g[k - m]] = t[g[k - m]]
      BY <2>2, <1>5, <1>7
    <3> QED BY <2>2, <3>1
  <2> QED BY <2>1, <2>2, <1>8
<1> DEFINE p == Via(s, f, m)
           q == Via(t, g, l)
<1>17. /\ p \in Seq(X) /\ q \in Seq(X) /\ Len(p) = m /\ Len(q) = l
       /\ \A k \in 1 .. m : p[k] = s[f[k]]
       /\ \A k \in 1 .. l : q[k] = t[g[k]]
  <2>1. \A k \in 1 .. m : s[f[k]] \in X
    BY <1>6, ElementOfSeq DEF n
  <2>2. \A k \in 1 .. l : t[g[k]] \in X
    BY <1>7, ElementOfSeq
  <2>3. m \in Nat /\ l \in Nat
    BY <1>6, <1>7
  <2>4. p \in Seq(X) /\ Len(p) = m /\ \A k \in 1 .. m : p[k] = s[f[k]]
    BY <2>1, <2>3, ViaFacts
  <2>5. q \in Seq(X) /\ Len(q) = l /\ \A k \in 1 .. l : q[k] = t[g[k]]
    BY <2>2, <2>3, ViaFacts
  <2> QED BY <2>4, <2>5
<1> HIDE DEF p, q
<1> DEFINE d == p \o q
<1>18. d \in Seq(X) /\ Len(d) = m + l
  BY <1>17, ConcatProperties
<1>19. \A k \in 1 .. m + l : d[k] = IF k <= m THEN p[k] ELSE q[k - m]
  BY <1>17, ConcatProperties
<1> HIDE DEF d
<1>20. d = Via(c, h, m + l)
  <2>1. \A k \in 1 .. m + l : d[k] = c[h[k]]
    <3> TAKE k \in 1 .. m + l
    <3>1. CASE k \in 1 .. m
      <4>1. c[h[k]] = s[f[k]]
        BY <3>1, <1>16
      <4>2. d[k] = p[k]
        BY <3>1, <1>19
      <4> QED BY <3>1, <4>1, <4>2, <1>17
    <3>2. CASE k > m
      <4>1. k - m \in 1 .. l /\ c[h[k]] = t[g[k - m]]
        BY <3>2, <1>16
      <4>2. d[k] = q[k - m]
        BY <3>2, <1>19
      <4> QED BY <4>1, <4>2, <1>17
    <3> QED BY <3>1, <3>2
  <2>2. d = [k \in 1 .. m + l |-> d[k]]
    BY <1>18
  <2> QED BY <2>1, <2>2 DEF Via
<1> QED BY <1>2, <1>4, <1>15, <1>20 DEF p, q, c, d

\* The entries of B among those of A are those of both.
LEMMA OfOf ==
  ASSUME NEW X, NEW s \in Seq(X), NEW A, NEW B
  PROVE  Of(Of(s, A), B) = Of(s, A \cap B)
<1> DEFINE I == Places(s, A)
           r == Of(s, A)
           J == Places(r, B)
           K == Places(s, A \cap B)
<1>1. PICK m \in Nat : \E f : GoesThrough(f, m, I) /\ r = Via(s, f, m)
  BY OfWay
<1>2. PICK f : GoesThrough(f, m, I) /\ r = Via(s, f, m)
  BY <1>1
<1>3. r \in Seq(X) /\ DOMAIN r = 1 .. m /\ \A k \in 1 .. m : r[k] = s[f[k]]
  <2>1. r \in Seq(X)
    BY OfType
  <2> HIDE DEF r
  <2> QED BY <1>2, <2>1 DEF Via
<1>4. /\ \A k \in 1 .. m : f[k] \in I
      /\ \A a, b \in 1 .. m : a < b => f[a] < f[b]
      /\ \A i \in I : \E a \in 1 .. m : f[a] = i
  BY <1>2 DEF GoesThrough
<1> HIDE DEF r
<1>5. PICK l \in Nat : \E g : GoesThrough(g, l, J) /\ Of(r, B) = Via(r, g, l)
  BY <1>3, OfWay
<1>6. PICK g : GoesThrough(g, l, J) /\ Of(r, B) = Via(r, g, l)
  BY <1>5
<1>7. /\ \A k \in 1 .. l : g[k] \in J
      /\ \A a, b \in 1 .. l : a < b => g[a] < g[b]
      /\ \A i \in J : \E a \in 1 .. l : g[a] = i
  BY <1>6 DEF GoesThrough
<1> DEFINE h == [k \in 1 .. l |-> f[g[k]]]
<1>8. h \in [1 .. l -> K]
  <2>1. \A k \in 1 .. l : g[k] \in 1 .. m /\ r[g[k]] \in B /\ f[g[k]] \in I
    BY <1>3, <1>4, <1>7 DEF Places
  <2> QED BY <2>1, <1>3 DEF Places
<1>9. ASSUME NEW a \in 1 .. l, NEW b \in 1 .. l, a < b PROVE h[a] < h[b]
  BY <1>3, <1>4, <1>7, <1>9 DEF Places
<1>10. ASSUME NEW i \in K PROVE \E a \in 1 .. l : h[a] = i
  <2>1. PICK k \in 1 .. m : f[k] = i
    BY <1>4 DEF Places
  <2>2. k \in J
    BY <2>1, <1>3 DEF Places
  <2> QED BY <2>1, <2>2, <1>7
<1>11. Of(s, A \cap B) = Via(s, h, l)
  <2>1. GoesThrough(h, l, K)
    BY <1>8, <1>9, <1>10 DEF GoesThrough
  <2> HIDE DEF h
  <2> QED BY <2>1, OfThrough
<1>12. \A k \in 1 .. l : r[g[k]] = s[h[k]]
  BY <1>3, <1>7 DEF Places
<1> QED BY <1>6, <1>11, <1>12 DEF r, Via

-----------------------------------------------------------------------------
(* Taking an entry out. *)

\* Two sequences in a row.
Row(X, r, s, t) == s \in Seq(X) /\ t \in Seq(X) /\ r = s \o t

LEMMA RowFacts ==
  ASSUME NEW X, NEW r, NEW s, NEW t, Row(X, r, s, t)
  PROVE  /\ s \in Seq(X) /\ t \in Seq(X) /\ r \in Seq(X) /\ Len(r) = Len(s) + Len(t)
         /\ \A k \in Int : 1 <= k /\ k <= Len(s) => r[k] = s[k]
         /\ \A k \in Int : Len(s) < k /\ k <= Len(r) => r[k] = t[k - Len(s)]
<1>1. /\ r \in Seq(X) /\ Len(r) = Len(s) + Len(t) /\ Len(s) \in Nat /\ Len(t) \in Nat
      /\ \A k \in 1 .. Len(s) + Len(t) : r[k] = IF k <= Len(s) THEN s[k] ELSE t[k - Len(s)]
  BY ConcatProperties DEF Row
<1> QED BY <1>1 DEF Row

LEMMA RowOf ==
  ASSUME NEW X, NEW r, NEW s, NEW t, Row(X, r, s, t), NEW T
  PROVE  Of(r, T) = Of(s, T) \o Of(t, T)
BY OfConcat DEF Row

LEMMA RemoveAtFacts ==
  ASSUME NEW X, NEW s \in Seq(X), NEW i \in 1 .. Len(s)
  PROVE  /\ RemoveAt(s, i) \in Seq(X)
         /\ Len(RemoveAt(s, i)) = Len(s) - 1
         /\ \A k \in 1 .. Len(s) - 1 : RemoveAt(s, i)[k] = IF k < i THEN s[k] ELSE s[k + 1]
         /\ \A T : s[i] \notin T => Of(RemoveAt(s, i), T) = Of(s, T)
<1> DEFINE n == Len(s)
           a == SubSeq(s, 1, i - 1)
           b == SubSeq(s, i + 1, n)
           mid == <<s[i]>>
           r == RemoveAt(s, i)
<1>1. n \in Nat /\ i \in 1 .. n /\ \A k \in 1 .. n : s[k] \in X
  BY ElementOfSeq
<1>2. /\ a \in Seq(X) /\ Len(a) = i - 1 /\ \A k \in 1 .. i - 1 : a[k] = s[k]
      /\ b \in Seq(X) /\ Len(b) = n - i /\ \A k \in 1 .. n - i : b[k] = s[i + k]
  <2> HIDE DEF n
  <2>1. \A k \in 1 .. i - 1 : s[k] \in X
    BY <1>1
  <2>2. \A k \in i + 1 .. n : s[k] \in X
    BY <1>1
  <2> QED BY <1>1, <2>1, <2>2, SubSeqProperties
<1>3. mid \in Seq(X) /\ Len(mid) = 1 /\ mid[1] = s[i]
  BY <1>1
<1>4. r = a \o b
  BY DEF RemoveAt
<1> HIDE DEF a, b, mid, r
<1>5. r \in Seq(X) /\ Len(r) = n - 1
  BY <1>1, <1>2, <1>4, ConcatProperties
<1>6. \A k \in 1 .. n - 1 : r[k] = IF k < i THEN s[k] ELSE s[k + 1]
  <2> TAKE k \in 1 .. n - 1
  <2> HIDE DEF n
  <2>1. r[k] = IF k <= i - 1 THEN a[k] ELSE b[k - (i - 1)]
    BY <1>1, <1>2, <1>4, ConcatProperties
  <2>2. CASE k < i
    BY <2>1, <2>2, <1>1, <1>2
  <2>3. CASE ~(k < i)
    <3>1. k - (i - 1) \in 1 .. n - i /\ i + (k - (i - 1)) = k + 1 /\ ~(k <= i - 1)
      BY <2>3, <1>1
    <3> QED BY <2>1, <2>3, <3>1, <1>2
  <2> QED BY <2>2, <2>3
<1>7. a \in Seq(X) /\ b \in Seq(X) /\ mid \in Seq(X)
  BY <1>2, <1>3
<1> DEFINE eb == mid \o b
           aeb == a \o eb
<1> HIDE DEF eb, aeb
<1>8. Row(X, eb, mid, b) /\ Row(X, r, a, b)
  BY <1>4, <1>7 DEF Row, eb
<1>9. Row(X, aeb, a, eb)
  BY <1>7, <1>8, RowFacts DEF Row, aeb
<1>10. /\ eb \in Seq(X) /\ Len(eb) = 1 + (n - i) /\ eb[1] = s[i]
      /\ \A k \in 2 .. 1 + (n - i) : eb[k] = b[k - 1]
  <2>1. /\ eb \in Seq(X) /\ Len(eb) = Len(mid) + Len(b)
        /\ \A k \in Int : 1 <= k /\ k <= Len(mid) => eb[k] = mid[k]
        /\ \A k \in Int : Len(mid) < k /\ k <= Len(eb) => eb[k] = b[k - Len(mid)]
    BY <1>8, RowFacts
  <2> HIDE DEF n
  <2> QED BY <1>1, <1>2, <1>3, <2>1
<1>11. /\ aeb \in Seq(X) /\ Len(aeb) = n
      /\ \A k \in 1 .. n : aeb[k] = IF k <= i - 1 THEN a[k] ELSE eb[k - (i - 1)]
  <2>2. /\ aeb \in Seq(X) /\ Len(aeb) = Len(a) + Len(eb)
        /\ \A k \in Int : 1 <= k /\ k <= Len(a) => aeb[k] = a[k]
        /\ \A k \in Int : Len(a) < k /\ k <= Len(aeb) => aeb[k] = eb[k - Len(a)]
    BY <1>9, RowFacts
  <2> HIDE DEF n
  <2> QED BY <1>1, <1>2, <1>10, <2>2
<1>12. s = aeb
  <2>1. \A k \in 1 .. n : s[k] = aeb[k]
    <3> TAKE k \in 1 .. n
    <3> HIDE DEF n
    <3>1. CASE k < i
      <4>1. k \in 1 .. i - 1 /\ k <= i - 1
        BY <3>1, <1>1
      <4> QED BY <4>1, <1>2, <1>11
    <3>2. CASE k = i
      <4>1. k - (i - 1) = 1 /\ ~(k <= i - 1)
        BY <3>2, <1>1
      <4> QED BY <3>2, <4>1, <1>10, <1>11
    <3>3. CASE k > i
      <4>1. /\ k - (i - 1) \in 2 .. 1 + (n - i) /\ ~(k <= i - 1)
            /\ (k - (i - 1)) - 1 \in 1 .. n - i /\ i + ((k - (i - 1)) - 1) = k
        BY <3>3, <1>1
      <4>2. aeb[k] = eb[k - (i - 1)] /\ eb[k - (i - 1)] = b[(k - (i - 1)) - 1]
        BY <4>1, <1>10, <1>11
      <4> QED BY <4>1, <4>2, <1>2
    <3> QED BY <3>1, <3>2, <3>3, <1>1
  <2> QED BY <1>11, <2>1, SeqEqual
<1>13. ASSUME NEW T, s[i] \notin T PROVE Of(r, T) = Of(s, T)
  <2>1. Of(r, T) = Of(a, T) \o Of(b, T)
    BY <1>8, RowOf
  <2>2. Of(eb, T) = Of(mid, T) \o Of(b, T)
    BY <1>8, RowOf
  <2>3. Of(s, T) = Of(a, T) \o Of(eb, T)
    BY <1>9, <1>12, RowOf
  <2>4. Of(mid, T) = <<>>
    <3>1. ToSet(mid) \cap T = {}
      BY <1>3, <1>13 DEF ToSet
    <3> QED BY <3>1, <1>3, OfAll
  <2>5. Of(b, T) \in Seq(X)
    BY <1>2, OfType
  <2>6. <<>> \o Of(b, T) = Of(b, T)
    BY <2>5, ConcatEmptySeq
  <2> QED BY <2>1, <2>2, <2>3, <2>4, <2>6
<1> QED BY <1>5, <1>6, <1>13 DEF r

\* The entry is there once at most.
Single(s, e) == \A i, j \in DOMAIN s : s[i] = e /\ s[j] = e => i = j

\* What is left has entries of the sequence, and repeats nothing if that does not.
LEMMA RemoveAtLeaves ==
  ASSUME NEW X, NEW s \in Seq(X), NEW i \in 1 .. Len(s)
  PROVE  /\ ToSet(RemoveAt(s, i)) \subseteq ToSet(s)
         /\ Single(s, s[i]) => s[i] \notin ToSet(RemoveAt(s, i))
         /\ NoRepeats(s) => /\ NoRepeats(RemoveAt(s, i))
                            /\ ToSet(RemoveAt(s, i)) = ToSet(s) \ {s[i]}
<1> DEFINE n == Len(s)
           r == RemoveAt(s, i)
           at(k) == IF k < i THEN k ELSE k + 1
<1>1. /\ r \in Seq(X) /\ DOMAIN r = 1 .. n - 1 /\ n \in Nat /\ DOMAIN s = 1 .. n
      /\ \A k \in 1 .. n - 1 : r[k] = s[at(k)]
  <2> HIDE DEF r
  <2>1. /\ r \in Seq(X) /\ Len(r) = n - 1
        /\ \A k \in 1 .. n - 1 : r[k] = IF k < i THEN s[k] ELSE s[k + 1]
    BY RemoveAtFacts DEF r
  <2> QED BY <2>1
<1>2. /\ \A k \in 1 .. n - 1 : at(k) \in 1 .. n /\ at(k) # i
      /\ \A k, l \in 1 .. n - 1 : at(k) = at(l) => k = l
      /\ \A j \in 1 .. n : j # i => \E k \in 1 .. n - 1 : at(k) = j
  <2>1. \A k \in 1 .. n - 1 : at(k) \in 1 .. n /\ at(k) # i
    BY <1>1
  <2>2. \A k, l \in 1 .. n - 1 : at(k) = at(l) => k = l
    BY <1>1
  <2>3. ASSUME NEW j \in 1 .. n, j # i PROVE \E k \in 1 .. n - 1 : at(k) = j
    <3>1. CASE j < i
      <4>1. j \in 1 .. n - 1 /\ at(j) = j
        BY <3>1, <1>1
      <4> QED BY <4>1
    <3>2. CASE j > i
      <4>1. j - 1 \in 1 .. n - 1 /\ at(j - 1) = j
        BY <3>2, <1>1
      <4> QED BY <4>1
    <3> QED BY <3>1, <3>2, <2>3
  <2> QED BY <2>1, <2>2, <2>3
<1> HIDE DEF at, r, n
<1>3. ToSet(r) \subseteq ToSet(s)
  BY <1>1, <1>2 DEF ToSet
<1>4. ASSUME NoRepeats(s) PROVE NoRepeats(r) /\ ToSet(r) = ToSet(s) \ {s[i]}
  <2>1. \A k \in 1 .. n - 1 : s[at(k)] # s[i]
    BY <1>1, <1>2, <1>4 DEF NoRepeats, n
  <2>2. NoRepeats(r)
    BY <1>1, <1>2, <1>4 DEF NoRepeats
  <2>3. ToSet(s) \ {s[i]} \subseteq ToSet(r)
    <3> SUFFICES ASSUME NEW j \in 1 .. n, s[j] # s[i] PROVE s[j] \in ToSet(r)
      BY <1>1 DEF ToSet
    <3>1. PICK k \in 1 .. n - 1 : at(k) = j
      BY <1>2
    <3>2. r[k] = s[j] /\ k \in DOMAIN r
      BY <1>1, <3>1
    <3> QED BY <3>2 DEF ToSet
  <2>4. s[i] \notin ToSet(r)
    BY <1>1, <2>1 DEF ToSet
  <2> QED BY <1>3, <2>2, <2>3, <2>4
<1>5. ASSUME Single(s, s[i]) PROVE s[i] \notin ToSet(r)
  <2>1. \A k \in 1 .. n - 1 : s[at(k)] # s[i]
    BY <1>1, <1>2, <1>5 DEF Single, n
  <2> QED BY <1>1, <2>1 DEF ToSet
<1> QED BY <1>3, <1>4, <1>5 DEF r

\* A place that is selected for an entry has it.
LEMMA FirstPlace ==
  ASSUME NEW X, NEW s \in Seq(X), NEW e
  PROVE  LET i == SelectInSeq(s, LAMBDA h : h = e)
         IN  \/ i = 0 /\ e \notin ToSet(s)
             \/ i \in 1 .. Len(s) /\ s[i] = e
<1> DEFINE I == {i \in 1 .. Len(s) : s[i] = e}
<1>1. SelectInSeq(s, LAMBDA h : h = e) = IF I # {} THEN Min(I) ELSE 0
  BY DEF SelectInSeq
<1>2. CASE I = {}
  <2>1. e \notin ToSet(s)
    BY <1>2 DEF ToSet
  <2> HIDE DEF I
  <2> QED BY <1>1, <1>2, <2>1
<1>3. CASE I # {}
  <2>1. I \in SUBSET Nat
    OBVIOUS
  <2>2. Min(I) \in I /\ \A k \in I : Min(I) <= k
    <3> HIDE DEF I
    <3>1. \E i \in I : \A k \in I : i <= k
      BY <1>3, <2>1, LeastNatural
    <3> QED BY <3>1 DEF Min
  <2> QED BY <1>1, <1>3, <2>2
<1> QED BY <1>2, <1>3

LEMMA LastPlace ==
  ASSUME NEW X, NEW s \in Seq(X), NEW e
  PROVE  LET i == SelectLastInSeq(s, LAMBDA h : h = e)
         IN  \/ i = 0 /\ e \notin ToSet(s)
             \/ i \in 1 .. Len(s) /\ s[i] = e
<1> DEFINE n == Len(s)
           I == {i \in 1 .. n : s[i] = e}
<1>1. SelectLastInSeq(s, LAMBDA h : h = e) = IF I # {} THEN Max(I) ELSE 0
  BY DEF SelectLastInSeq
<1>2. CASE I = {}
  <2>1. e \notin ToSet(s)
    BY <1>2 DEF ToSet
  <2> HIDE DEF I
  <2> QED BY <1>1, <1>2, <2>1
<1>3. CASE I # {}
  <2> DEFINE J == {n - i : i \in I}
  <2>1. n \in Nat /\ \A i \in I : i \in Nat /\ i <= n
    OBVIOUS
  <2>2. Max(I) \in I
    <3> HIDE DEF I, n
    <3>1. J \in SUBSET Nat /\ J # {}
      <4>1. \A i \in I : n - i \in Nat
        BY <2>1
      <4> QED BY <1>3, <4>1
    <3>2. PICK j \in J : \A k \in J : j <= k
      <4> HIDE DEF J
      <4> QED BY <3>1, LeastNatural
    <3>3. PICK i \in I : j = n - i
      BY <3>2
    <3>4. ASSUME NEW k \in I PROVE i >= k
      <4>1. n - i <= n - k
        BY <3>2, <3>3
      <4> QED BY <4>1, <2>1
    <3> QED BY <3>4 DEF Max
  <2> QED BY <1>1, <1>3, <2>2
<1> QED BY <1>2, <1>3

\* The place something is dropped on, if there is one.
LEMMA DropPlace ==
  ASSUME NEW X, NEW s \in Seq(X), NEW next
  PROVE  LET at == SelectLastInSeq(s, LAMBDA h : next # NoTrack /\ h = next)
         IN  \/ at = 0 /\ (next = NoTrack \/ next \notin ToSet(s))
             \/ at \in 1 .. Len(s) /\ s[at] = next /\ next # NoTrack
<1> DEFINE at == SelectLastInSeq(s, LAMBDA h : next # NoTrack /\ h = next)
           I == {i \in 1 .. Len(s) : next # NoTrack /\ s[i] = next}
<1>1. at = IF I # {} THEN Max(I) ELSE 0
  BY DEF SelectLastInSeq
<1>2. CASE next = NoTrack
  <2>1. I = {}
    BY <1>2
  <2> HIDE DEF I, at
  <2>2. at = 0
    BY <1>1, <2>1
  <2> QED BY <1>2, <2>2 DEF at
<1>3. CASE next # NoTrack
  <2> DEFINE p == SelectLastInSeq(s, LAMBDA h : h = next)
             J == {i \in 1 .. Len(s) : s[i] = next}
  <2>1. p = IF J # {} THEN Max(J) ELSE 0
    BY DEF SelectLastInSeq
  <2>2. I = J
    BY <1>3
  <2>3. \/ p = 0 /\ next \notin ToSet(s)
        \/ p \in 1 .. Len(s) /\ s[p] = next
    BY LastPlace
  <2> HIDE DEF I, J, p, at
  <2>4. at = p
    BY <1>1, <2>1, <2>2
  <2> QED BY <1>3, <2>3, <2>4 DEF at
<1> QED BY <1>2, <1>3

\* r is s without one of its entries e, if it has any.
Less(X, r, s, e) ==
    /\ r \in Seq(X) /\ ToSet(r) \subseteq ToSet(s)
    /\ e \notin ToSet(s) => r = s
    /\ Single(s, e) => e \notin ToSet(r)
    /\ NoRepeats(s) => NoRepeats(r) /\ ToSet(r) = ToSet(s) \ {e}
    /\ \A T : e \notin T => Of(r, T) = Of(s, T)

LEMMA RemoveAtLess ==
  ASSUME NEW X, NEW s \in Seq(X), NEW i \in 1 .. Len(s)
  PROVE  Less(X, RemoveAt(s, i), s, s[i])
<1>1. RemoveAt(s, i) \in Seq(X) /\ \A T : s[i] \notin T => Of(RemoveAt(s, i), T) = Of(s, T)
  BY RemoveAtFacts
<1>2. /\ ToSet(RemoveAt(s, i)) \subseteq ToSet(s)
      /\ Single(s, s[i]) => s[i] \notin ToSet(RemoveAt(s, i))
      /\ NoRepeats(s) => /\ NoRepeats(RemoveAt(s, i))
                         /\ ToSet(RemoveAt(s, i)) = ToSet(s) \ {s[i]}
  BY RemoveAtLeaves
<1>3. s[i] \in ToSet(s)
  BY DEF ToSet
<1> QED BY <1>1, <1>2, <1>3 DEF Less

\* An entry that is not there is not taken out.
LEMMA NothingLess ==
  ASSUME NEW X, NEW s \in Seq(X), NEW e, e \notin ToSet(s)
  PROVE  Less(X, s, s, e)
BY DEF Less

LEMMA RemoveFirstLess ==
  ASSUME NEW X, NEW s \in Seq(X), NEW e
  PROVE  Less(X, RemoveFirst(s, e), s, e)
<1> DEFINE i == SelectInSeq(s, LAMBDA h : h = e)
<1>1. \/ i = 0 /\ e \notin ToSet(s)
      \/ i \in 1 .. Len(s) /\ s[i] = e
  BY FirstPlace
<1>2. RemoveFirst(s, e) = IF \E k \in 1 .. Len(s) : s[k] = e THEN RemoveAt(s, i) ELSE s
  BY DEF RemoveFirst
<1> HIDE DEF i
<1>3. CASE i = 0 /\ e \notin ToSet(s)
  <2>1. ~\E k \in 1 .. Len(s) : s[k] = e
    BY <1>3 DEF ToSet
  <2> QED BY <2>1, <1>2, <1>3, NothingLess
<1>4. CASE i \in 1 .. Len(s) /\ s[i] = e
  <2>1. RemoveFirst(s, e) = RemoveAt(s, i)
    BY <1>2, <1>4
  <2> QED BY <2>1, <1>4, RemoveAtLess
<1> QED BY <1>1, <1>3, <1>4

LEMMA WithoutLastLess ==
  ASSUME NEW X, NEW s \in Seq(X), NEW e
  PROVE  Less(X, WithoutLast(s, e), s, e)
<1> DEFINE i == SelectLastInSeq(s, LAMBDA h : h = e)
<1>1. \/ i = 0 /\ e \notin ToSet(s)
      \/ i \in 1 .. Len(s) /\ s[i] = e
  BY LastPlace
<1>2. WithoutLast(s, e) = IF i = 0 THEN s ELSE RemoveAt(s, i)
  BY DEF WithoutLast
<1> HIDE DEF i
<1>3. CASE i = 0 /\ e \notin ToSet(s)
  BY <1>2, <1>3, NothingLess
<1>4. CASE i \in 1 .. Len(s) /\ s[i] = e
  <2>1. WithoutLast(s, e) = RemoveAt(s, i)
    BY <1>2, <1>4
  <2> QED BY <2>1, <1>4, RemoveAtLess
<1> QED BY <1>1, <1>3, <1>4

\* The parts of a playlist.
LEMMA PlaylistParts ==
  ASSUME NEW list \in Playlist
  PROVE  list.sort \in Seq(Hashes) /\ list.custom \in Seq(Hashes) /\ list.order \in Orders
BY DEF Playlist

\* The same place is taken out of both sequences of a playlist.
LEMMA WithoutTrackFacts ==
  ASSUME NEW list \in Playlist, NEW t
  PROVE  LET new == WithoutTrack(list, t)
         IN  /\ new \in Playlist /\ new.order = list.order
             /\ Less(Hashes, new.sort, list.sort, t)
             /\ list.custom = list.sort => new.custom = new.sort
<1> DEFINE i == SelectInSeq(list.sort, LAMBDA h : h = t)
           custom == IF i <= Len(list.custom) THEN RemoveAt(list.custom, i) ELSE list.custom
           new == [list EXCEPT !.sort = RemoveAt(list.sort, i), !.custom = custom]
<1>1. list.sort \in Seq(Hashes) /\ list.custom \in Seq(Hashes) /\ list.order \in Orders
  BY PlaylistParts
<1>2. \/ i = 0 /\ t \notin ToSet(list.sort)
      \/ i \in 1 .. Len(list.sort) /\ list.sort[i] = t
  BY <1>1, FirstPlace
<1>3. WithoutTrack(list, t) = IF i = 0 THEN list ELSE new
  BY DEF WithoutTrack
<1> HIDE DEF i
<1>4. CASE i = 0 /\ t \notin ToSet(list.sort)
  <2>1. Less(Hashes, list.sort, list.sort, t)
    BY <1>1, <1>4, NothingLess
  <2> QED BY <2>1, <1>3, <1>4
<1>5. CASE i \in 1 .. Len(list.sort) /\ list.sort[i] = t
  <2>1. Less(Hashes, RemoveAt(list.sort, i), list.sort, t)
    BY <1>1, <1>5, RemoveAtLess
  <2>2. RemoveAt(list.sort, i) \in Seq(Hashes)
    BY <2>1 DEF Less
  <2>3. custom \in Seq(Hashes)
    <3>1. CASE i <= Len(list.custom)
      <4>1. i \in 1 .. Len(list.custom)
        BY <1>1, <1>5, <3>1
      <4> QED BY <1>1, <3>1, <4>1, RemoveAtFacts
    <3> QED BY <1>1, <3>1
  <2>4. list.custom = list.sort => custom = RemoveAt(list.sort, i)
    BY <1>1, <1>5
  <2> HIDE DEF custom
  <2>5. /\ new \in Playlist /\ new.sort = RemoveAt(list.sort, i) /\ new.custom = custom
        /\ new.order = list.order
    <3>1. new = [list EXCEPT !.sort = RemoveAt(list.sort, i), !.custom = custom]
      OBVIOUS
    <3> HIDE DEF new
    <3> QED BY <2>2, <2>3, <3>1 DEF Playlist
  <2>6. WithoutTrack(list, t) = new
    BY <1>3, <1>5
  <2> HIDE DEF new
  <2> QED BY <2>1, <2>4, <2>5, <2>6
<1> QED BY <1>2, <1>4, <1>5

-----------------------------------------------------------------------------
(* What depends on the entries alone. *)

LEMMA OfSame ==
  ASSUME NEW s, NEW A, NEW B, \A x \in ToSet(s) : x \in A <=> x \in B
  PROVE  Of(s, A) = Of(s, B)
<1>1. {i \in DOMAIN s : s[i] \in A} = {i \in DOMAIN s : s[i] \in B}
  BY DEF ToSet
<1> QED BY <1>1 DEF Of

\* What is once among the entries of T is there once.
LEMMA OfSingle ==
  ASSUME NEW X, NEW s \in Seq(X), NEW T, NoRepeats(Of(s, T)), NEW e \in T
  PROVE  Single(s, e)
<1> SUFFICES ASSUME NEW i \in DOMAIN s, NEW j \in DOMAIN s, s[i] = e, s[j] = e
             PROVE  i = j
  BY DEF Single
<1>1. PICK m \in Nat : \E f : GoesThrough(f, m, Places(s, T)) /\ Of(s, T) = Via(s, f, m)
  BY OfWay
<1>2. PICK f : GoesThrough(f, m, Places(s, T)) /\ Of(s, T) = Via(s, f, m)
  BY <1>1
<1>3. i \in Places(s, T) /\ j \in Places(s, T)
  BY DEF Places
<1>4. PICK a \in 1 .. m : f[a] = i
  BY <1>2, <1>3 DEF GoesThrough
<1>5. PICK b \in 1 .. m : f[b] = j
  BY <1>2, <1>3 DEF GoesThrough
<1> DEFINE v == Via(s, f, m)
<1>6. DOMAIN v = 1 .. m /\ v[a] = s[f[a]] /\ v[b] = s[f[b]]
  BY DEF Via
<1> HIDE DEF v
<1>7. NoRepeats(v)
  BY <1>2 DEF v
<1>8. a = b
  BY <1>4, <1>5, <1>6, <1>7 DEF NoRepeats
<1> QED BY <1>4, <1>5, <1>8

\* Every entry once, at its first place.
LEMMA OnceFacts ==
  ASSUME NEW X, NEW s \in Seq(X)
  PROVE  /\ Once(s) \in Seq(X) /\ ToSet(Once(s)) = ToSet(s) /\ NoRepeats(Once(s))
         /\ NoRepeats(s) => Once(s) = s
<1> DEFINE I == {i \in DOMAIN s : \A j \in 1 .. i - 1 : s[j] # s[i]}
           id == [k \in DOMAIN s |-> k]
<1>1. Once(s) = At(s, I) /\ I \in SUBSET DOMAIN s
  BY DEF Once
<1>2. DOMAIN s = 1 .. Len(s) /\ Len(s) \in Nat
  OBVIOUS
<1>3. \A i, j \in I : s[i] = s[j] => i = j
  <2> SUFFICES ASSUME NEW i \in I, NEW j \in I, s[i] = s[j] PROVE i = j
    OBVIOUS
  <2>1. i \in 1 .. Len(s) /\ j \in 1 .. Len(s)
    BY <1>2
  <2>2. ~(j < i)
    <3>1. j < i => j \in 1 .. i - 1
      BY <2>1
    <3> QED BY <3>1
  <2>3. ~(i < j)
    <3>1. i < j => i \in 1 .. j - 1
      BY <2>1
    <3> QED BY <3>1
  <2> QED BY <2>1, <2>2, <2>3
<1>4. {s[i] : i \in I} = ToSet(s)
  <2>1. ASSUME NEW k \in DOMAIN s PROVE \E i \in I : s[i] = s[k]
    <3> DEFINE same == {i \in DOMAIN s : s[i] = s[k]}
    <3>1. same \in SUBSET Nat /\ k \in same
      BY <1>2
    <3>2. PICK i \in same : \A l \in same : i <= l
      <4> HIDE DEF same
      <4> QED BY <3>1, LeastNatural
    <3>3. ASSUME NEW j \in 1 .. i - 1 PROVE s[j] # s[i]
      <4>1. j \in DOMAIN s /\ ~(i <= j)
        BY <1>2, <3>2
      <4> QED BY <4>1, <3>2
    <3> QED BY <3>2, <3>3
  <2> HIDE DEF I
  <2>2. {s[i] : i \in I} \subseteq ToSet(s)
    BY <1>1 DEF ToSet
  <2> QED BY <2>1, <2>2 DEF ToSet
<1>5. ASSUME NoRepeats(s) PROVE Once(s) = s
  <2>1. I = 1 .. Len(s)
    BY <1>2, <1>5 DEF NoRepeats
  <2>2. GoesThrough(id, Len(s), I) /\ I \in SUBSET Nat
    BY <1>2, <2>1 DEF GoesThrough
  <2>3. At(s, I) = Via(s, id, Len(s))
    <3> HIDE DEF I, id
    <3> QED BY <1>2, <2>2, AtThrough
  <2>4. s = [k \in 1 .. Len(s) |-> s[k]]
    OBVIOUS
  <2>5. Via(s, id, Len(s)) = [k \in 1 .. Len(s) |-> s[k]]
    BY <1>2 DEF Via
  <2> QED BY <1>1, <2>3, <2>4, <2>5
<1> HIDE DEF I
<1>6. Once(s) \in Seq(X) /\ ToSet(Once(s)) = {s[i] : i \in I} /\ NoRepeats(Once(s))
  BY <1>1, <1>3, AtType
<1> QED BY <1>4, <1>5, <1>6

-----------------------------------------------------------------------------
(* Putting sequences together. *)

LEMMA ContainsFacts ==
  ASSUME NEW X, NEW s \in Seq(X), NEW e
  PROVE  Contains(s, e) <=> e \in ToSet(s)
BY DEF Contains, ToSet

\* Two in a row have the entries of both, once if each has them once and they share none.
LEMMA RowEntries ==
  ASSUME NEW X, NEW r, NEW s, NEW t, Row(X, r, s, t)
  PROVE  /\ ToSet(r) = ToSet(s) \cup ToSet(t)
         /\ NoRepeats(s) /\ NoRepeats(t) /\ ToSet(s) \cap ToSet(t) = {} => NoRepeats(r)
         /\ NoRepeats(r) => NoRepeats(s) /\ NoRepeats(t) /\ ToSet(s) \cap ToSet(t) = {}
<1> DEFINE n == Len(s)
           l == Len(t)
<1>1. /\ DOMAIN s = 1 .. n /\ DOMAIN t = 1 .. l /\ DOMAIN r = 1 .. n + l
      /\ n \in Nat /\ l \in Nat
      /\ \A k \in 1 .. n : r[k] = s[k]
      /\ \A k \in 1 .. l : r[n + k] = t[k]
  <2>1. /\ s \in Seq(X) /\ t \in Seq(X) /\ r \in Seq(X) /\ Len(r) = n + l
        /\ \A k \in Int : 1 <= k /\ k <= n => r[k] = s[k]
        /\ \A k \in Int : n < k /\ k <= Len(r) => r[k] = t[k - n]
    BY RowFacts
  <2>2. n \in Nat /\ l \in Nat
    BY <2>1
  <2>3. /\ DOMAIN s = 1 .. n /\ DOMAIN t = 1 .. l /\ DOMAIN r = 1 .. n + l
    BY <2>1
  <2> HIDE DEF n, l
  <2>4. \A k \in 1 .. n : r[k] = s[k]
    BY <2>1, <2>2
  <2>5. ASSUME NEW k \in 1 .. l PROVE r[n + k] = t[k]
    <3>1. n < n + k /\ n + k <= n + l /\ (n + k) - n = k /\ n + k \in Int
      BY <2>2
    <3> QED BY <2>1, <3>1
  <2> QED BY <2>2, <2>3, <2>4, <2>5
<1>2. \A k \in 1 .. n + l : k \in 1 .. n \/ (k - n \in 1 .. l /\ n + (k - n) = k)
  BY <1>1
<1>3. \A k \in 1 .. l : n + k \in 1 .. n + l /\ n + k \notin 1 .. n
  BY <1>1
<1>4. \A k \in 1 .. n : k \in 1 .. n + l
  BY <1>1
<1> HIDE DEF n, l
<1>5. ToSet(r) = ToSet(s) \cup ToSet(t)
  <2>1. ToSet(r) \subseteq ToSet(s) \cup ToSet(t)
    <3> SUFFICES ASSUME NEW k \in 1 .. n + l PROVE r[k] \in ToSet(s) \cup ToSet(t)
      BY <1>1 DEF ToSet
    <3>1. CASE k \in 1 .. n
      BY <3>1, <1>1 DEF ToSet
    <3>2. CASE k - n \in 1 .. l /\ n + (k - n) = k
      <4>1. r[k] = t[k - n]
        BY <3>2, <1>1
      <4> QED BY <3>2, <4>1, <1>1 DEF ToSet
    <3> QED BY <3>1, <3>2, <1>2
  <2>2. ToSet(s) \subseteq ToSet(r)
    BY <1>1, <1>4 DEF ToSet
  <2>3. ToSet(t) \subseteq ToSet(r)
    <3> SUFFICES ASSUME NEW k \in 1 .. l PROVE t[k] \in ToSet(r)
      BY <1>1 DEF ToSet
    <3>1. n + k \in DOMAIN r /\ r[n + k] = t[k]
      BY <1>1, <1>3
    <3> QED BY <3>1 DEF ToSet
  <2> QED BY <2>1, <2>2, <2>3
<1>6. ASSUME NoRepeats(s), NoRepeats(t), ToSet(s) \cap ToSet(t) = {} PROVE NoRepeats(r)
  <2>1. \A a \in 1 .. n : \A b \in 1 .. l : s[a] # t[b]
    BY <1>1, <1>6 DEF ToSet
  <2> SUFFICES ASSUME NEW i \in 1 .. n + l, NEW j \in 1 .. n + l, r[i] = r[j] PROVE i = j
    BY <1>1 DEF NoRepeats
  <2>2. CASE i \in 1 .. n /\ j \in 1 .. n
    BY <2>2, <1>1, <1>6 DEF NoRepeats
  <2>3. CASE i \in 1 .. n /\ (j - n \in 1 .. l /\ n + (j - n) = j)
    <3>1. r[j] = t[j - n] /\ r[i] = s[i]
      BY <2>3, <1>1
    <3> QED BY <2>1, <2>3, <3>1
  <2>4. CASE (i - n \in 1 .. l /\ n + (i - n) = i) /\ j \in 1 .. n
    <3>1. r[i] = t[i - n] /\ r[j] = s[j]
      BY <2>4, <1>1
    <3> QED BY <2>1, <2>4, <3>1
  <2>5. CASE i - n \in 1 .. l /\ n + (i - n) = i /\ j - n \in 1 .. l /\ n + (j - n) = j
    <3>1. r[i] = t[i - n] /\ r[j] = t[j - n]
      BY <2>5, <1>1
    <3>2. i - n = j - n
      BY <2>5, <3>1, <1>1, <1>6 DEF NoRepeats
    <3> QED BY <2>5, <3>2
  <2> QED BY <2>2, <2>3, <2>4, <2>5, <1>2
<1>7. ASSUME NoRepeats(r) PROVE NoRepeats(s) /\ NoRepeats(t) /\ ToSet(s) \cap ToSet(t) = {}
  <2>1. NoRepeats(s)
    BY <1>1, <1>4, <1>7 DEF NoRepeats
  <2>2. NoRepeats(t)
    <3> SUFFICES ASSUME NEW i \in 1 .. l, NEW j \in 1 .. l, t[i] = t[j] PROVE i = j
      BY <1>1 DEF NoRepeats
    <3>1. n + i = n + j
      BY <1>1, <1>3, <1>7 DEF NoRepeats
    <3> QED BY <1>1, <3>1
  <2>3. ASSUME NEW i \in 1 .. n, NEW j \in 1 .. l, s[i] = t[j] PROVE FALSE
    <3>1. i = n + j
      BY <1>1, <1>3, <1>4, <1>7, <2>3 DEF NoRepeats
    <3> QED BY <1>3, <3>1
  <2> QED BY <1>1, <2>1, <2>2, <2>3 DEF ToSet
<1> QED BY <1>5, <1>6, <1>7

\* An entry at the end.
LEMMA AppendFacts ==
  ASSUME NEW X, NEW s \in Seq(X), NEW e \in X
  PROVE  /\ Row(X, Append(s, e), s, <<e>>) /\ Append(s, e) \in Seq(X)
<1>1. <<e>> \in Seq(X)
  OBVIOUS
<1>2. Append(s, e) = s \o <<e>> /\ Append(s, e) \in Seq(X)
  BY AppendIsConcat
<1> QED BY <1>1, <1>2 DEF Row

LEMMA AppendEntries ==
  ASSUME NEW X, NEW s \in Seq(X), NEW e \in X
  PROVE  /\ ToSet(Append(s, e)) = ToSet(s) \cup {e}
         /\ NoRepeats(Append(s, e)) <=> NoRepeats(s) /\ e \notin ToSet(s)
<1> DEFINE r == Append(s, e)
           t == <<e>>
<1>1. t \in Seq(X) /\ ToSet(t) = {e} /\ NoRepeats(t)
  BY DEF ToSet, NoRepeats
<1>2. Row(X, r, s, t)
  BY AppendFacts
<1> HIDE DEF r, t
<1>3. /\ ToSet(r) = ToSet(s) \cup ToSet(t)
      /\ NoRepeats(s) /\ NoRepeats(t) /\ ToSet(s) \cap ToSet(t) = {} => NoRepeats(r)
      /\ NoRepeats(r) => NoRepeats(s) /\ NoRepeats(t) /\ ToSet(s) \cap ToSet(t) = {}
  BY <1>2, RowEntries
<1>4. ToSet(r) = ToSet(s) \cup {e} /\ (NoRepeats(r) <=> NoRepeats(s) /\ e \notin ToSet(s))
  BY <1>1, <1>3
<1> QED BY <1>4 DEF r

\* Of two that have the same entries of T, the same is true with the same entry at their
\* ends, and with an entry that is not in T at the end of one.
LEMMA AppendOf ==
  ASSUME NEW X, NEW s \in Seq(X), NEW e \in X, NEW T
  PROVE  Of(Append(s, e), T) = IF e \in T THEN Append(Of(s, T), e) ELSE Of(s, T)
<1> DEFINE r == Append(s, e)
           t == <<e>>
           o == Of(s, T)
<1>1. t \in Seq(X) /\ ToSet(t) = {e}
  BY DEF ToSet
<1>2. Row(X, r, s, t)
  BY AppendFacts
<1>3. o \in Seq(X)
  BY OfType
<1>4. Of(r, T) = o \o Of(t, T)
  <2> HIDE DEF r, t
  <2> QED BY <1>2, RowOf
<1> HIDE DEF r, o
<1>5. CASE e \in T
  <2>1. Of(t, T) = t
    BY <1>1, <1>5, OfAll
  <2>2. o \o t = Append(o, e)
    BY <1>3, AppendIsConcat
  <2> QED BY <1>4, <1>5, <2>1, <2>2 DEF r, o
<1>6. CASE e \notin T
  <2>1. Of(t, T) = <<>>
    BY <1>1, <1>6, OfAll
  <2>2. o \o <<>> = o
    BY <1>3, ConcatEmptySeq
  <2> QED BY <1>4, <1>6, <2>1, <2>2 DEF r, o
<1> QED BY <1>5, <1>6

\* A sequence in two, before and from one of its places.
LEMMA SplitFacts ==
  ASSUME NEW X, NEW s \in Seq(X), NEW i \in 1 .. Len(s)
  PROVE  /\ Row(X, s, SubSeq(s, 1, i - 1), SubSeq(s, i, Len(s)))
         /\ Len(SubSeq(s, 1, i - 1)) = i - 1
<1> DEFINE n == Len(s)
           a == SubSeq(s, 1, i - 1)
           b == SubSeq(s, i, n)
           c == a \o b
<1>1. n \in Nat /\ i \in 1 .. n /\ \A k \in 1 .. n : s[k] \in X
  BY ElementOfSeq
<1>2. /\ a \in Seq(X) /\ Len(a) = i - 1 /\ \A k \in 1 .. i - 1 : a[k] = s[k]
      /\ b \in Seq(X) /\ Len(b) = n - i + 1 /\ \A k \in 1 .. n - i + 1 : b[k] = s[i + k - 1]
  <2> HIDE DEF n
  <2>1. \A k \in 1 .. i - 1 : s[k] \in X
    BY <1>1
  <2>2. \A k \in i .. n : s[k] \in X
    BY <1>1
  <2> QED BY <1>1, <2>1, <2>2, SubSeqProperties
<1> HIDE DEF a, b
<1>3. /\ c \in Seq(X) /\ Len(c) = n
      /\ \A k \in 1 .. n : c[k] = IF k <= i - 1 THEN a[k] ELSE b[k - (i - 1)]
  <2> HIDE DEF n
  <2>1. Row(X, c, a, b)
    BY <1>2 DEF Row
  <2> HIDE DEF c
  <2>2. /\ c \in Seq(X) /\ Len(c) = Len(a) + Len(b)
        /\ \A k \in Int : 1 <= k /\ k <= Len(a) => c[k] = a[k]
        /\ \A k \in Int : Len(a) < k /\ k <= Len(c) => c[k] = b[k - Len(a)]
    BY <2>1, RowFacts
  <2>3. Len(a) = i - 1 /\ Len(c) = n
    BY <1>1, <1>2, <2>2
  <2>4. \A k \in Int : 1 <= k /\ k <= i - 1 => c[k] = a[k]
    BY <2>2, <2>3
  <2>5. \A k \in Int : i - 1 < k /\ k <= n => c[k] = b[k - (i - 1)]
    BY <2>2, <2>3
  <2>6. ASSUME NEW k \in 1 .. n PROVE c[k] = IF k <= i - 1 THEN a[k] ELSE b[k - (i - 1)]
    <3>1. k \in Int /\ 1 <= k /\ k <= n /\ i - 1 \in Int
      BY <1>1
    <3>2. CASE k <= i - 1
      BY <2>4, <3>1, <3>2
    <3>3. CASE i - 1 < k
      BY <2>5, <3>1, <3>3
    <3> QED BY <3>1, <3>2, <3>3
  <2> QED BY <2>2, <2>3, <2>6
<1>4. \A k \in 1 .. n : s[k] = c[k]
  <2> TAKE k \in 1 .. n
  <2> HIDE DEF n, c
  <2>1. CASE k <= i - 1
    <3>1. k \in 1 .. i - 1
      BY <2>1, <1>1
    <3>2. a[k] = s[k]
      BY <3>1, <1>2
    <3>3. c[k] = a[k]
      BY <2>1, <1>3
    <3> QED BY <3>2, <3>3
  <2>2. CASE ~(k <= i - 1)
    <3>1. k - (i - 1) \in 1 .. n - i + 1 /\ i + (k - (i - 1)) - 1 = k
      BY <2>2, <1>1
    <3>2. b[k - (i - 1)] = s[k]
      BY <3>1, <1>2
    <3>3. c[k] = b[k - (i - 1)]
      BY <2>2, <1>3
    <3> QED BY <3>2, <3>3
  <2> QED BY <2>1, <2>2
<1> HIDE DEF c
<1>5. s = c
  BY <1>3, <1>4, SeqEqual
<1> QED BY <1>2, <1>5 DEF Row, a, b, c

-----------------------------------------------------------------------------
(* Moving. *)

\* Of nothing, and of two without any of the entries.
LEMMA RowOfNone ==
  ASSUME NEW X, NEW r, NEW s, NEW t, Row(X, r, s, t), NEW T
  PROVE  /\ Of(s, T) = <<>> => Of(r, T) = Of(t, T)
         /\ Of(t, T) = <<>> => Of(r, T) = Of(s, T)
<1> DEFINE p == Of(s, T)
           q == Of(t, T)
<1>1. Of(r, T) = p \o q
  BY RowOf
<1>2. p \in Seq(X) /\ q \in Seq(X)
  <2>1. s \in Seq(X) /\ t \in Seq(X)
    BY RowFacts
  <2> QED BY <2>1, OfType
<1> HIDE DEF p, q
<1>3. <<>> \o q = q /\ p \o <<>> = p
  BY <1>2, ConcatEmptySeq
<1> QED BY <1>1, <1>3 DEF p, q

\* r is a \o b with moved between a and b.
Between(X, r, a, moved, b) == \E c : Row(X, c, a, moved) /\ Row(X, r, c, b)

LEMMA BetweenEntries ==
  ASSUME NEW X, NEW r, NEW a, NEW moved, NEW b, Between(X, r, a, moved, b),
         NEW rest, Row(X, rest, a, b), ToSet(rest) \cap ToSet(moved) = {}
  PROVE  /\ r \in Seq(X) /\ ToSet(r) = ToSet(rest) \cup ToSet(moved)
         /\ NoRepeats(rest) /\ NoRepeats(moved) => NoRepeats(r)
         /\ \A T : ToSet(moved) \subseteq T /\ ToSet(rest) \cap T = {} => Of(r, T) = moved
         /\ \A T : ToSet(rest) \subseteq T /\ ToSet(moved) \cap T = {} => Of(r, T) = rest
<1>1. PICK c : Row(X, c, a, moved) /\ Row(X, r, c, b)
  BY DEF Between
<1>2. /\ a \in Seq(X) /\ b \in Seq(X) /\ c \in Seq(X) /\ moved \in Seq(X)
      /\ r \in Seq(X) /\ rest \in Seq(X)
  BY <1>1, RowFacts
<1>3. /\ ToSet(rest) = ToSet(a) \cup ToSet(b) /\ ToSet(c) = ToSet(a) \cup ToSet(moved)
      /\ ToSet(r) = ToSet(c) \cup ToSet(b)
  BY <1>1, RowEntries
<1>4. ASSUME NoRepeats(rest), NoRepeats(moved) PROVE NoRepeats(r)
  <2>1. NoRepeats(a) /\ NoRepeats(b) /\ ToSet(a) \cap ToSet(b) = {}
    BY <1>4, RowEntries
  <2>2. ToSet(a) \cap ToSet(moved) = {} /\ ToSet(b) \cap ToSet(moved) = {}
    BY <1>3
  <2>3. NoRepeats(c)
    BY <1>1, <1>4, <2>1, <2>2, RowEntries
  <2>4. ToSet(c) \cap ToSet(b) = {}
    BY <1>3, <2>1, <2>2
  <2> QED BY <1>1, <2>1, <2>3, <2>4, RowEntries
<1>5. ASSUME NEW T, ToSet(moved) \subseteq T, ToSet(rest) \cap T = {}
      PROVE  Of(r, T) = moved
  <2>1. ToSet(a) \cap T = {} /\ ToSet(b) \cap T = {}
    BY <1>3, <1>5
  <2>2. Of(a, T) = <<>> /\ Of(b, T) = <<>> /\ Of(moved, T) = moved
    BY <1>2, <1>5, <2>1, OfAll
  <2>3. Of(c, T) = moved
    BY <1>1, <2>2, RowOfNone
  <2>4. Of(r, T) = Of(c, T)
    BY <1>1, <2>2, RowOfNone
  <2> QED BY <2>3, <2>4
<1>6. ASSUME NEW T, ToSet(rest) \subseteq T, ToSet(moved) \cap T = {}
      PROVE  Of(r, T) = rest
  <2>1. Of(moved, T) = <<>> /\ Of(rest, T) = rest
    BY <1>2, <1>6, OfAll
  <2>2. Of(c, T) = Of(a, T)
    BY <1>1, <2>1, RowOfNone
  <2>3. Of(r, T) = Of(c, T) \o Of(b, T)
    BY <1>1, RowOf
  <2>4. Of(rest, T) = Of(a, T) \o Of(b, T)
    BY RowOf
  <2> QED BY <2>1, <2>2, <2>3, <2>4
<1> QED BY <1>2, <1>3, <1>4, <1>5, <1>6

\* r is the rest in two parts with moved between them: behind all, if next is none; right
\* before next if that is one of the rest and not the last.
MovedTo(X, r, moved, rest, next, a, b) ==
    /\ Row(X, rest, a, b) /\ Between(X, r, a, moved, b)
    /\ next = NoTrack => r = rest \o moved
    /\ next \in ToSet(rest) /\ next \notin {NoTrack, Last(rest)}
       => \E at \in 1 .. Len(rest) : rest[at] = next /\ Len(a) = at - 1

\* What is moved is between two parts of the rest, ...
LEMMA MovedBetween ==
  ASSUME NEW X, NEW s \in Seq(X), NEW S, NEW next
  PROVE  \E a, b : MovedTo(X, Moved(s, S, next), Of(s, S), Of(s, ToSet(s) \ S), next, a, b)
<1> DEFINE moved == Of(s, S)
           rest == Of(s, ToSet(s) \ S)
           at == SelectLastInSeq(rest, LAMBDA h : next # NoTrack /\ h = next)
           r == Moved(s, S, next)
           a == SubSeq(rest, 1, at - 1)
           b == SubSeq(rest, at, Len(rest))
<1>1. moved \in Seq(X) /\ rest \in Seq(X)
  BY OfType
<1>2. r = IF at = 0 \/ at = Len(rest) THEN rest \o moved ELSE a \o moved \o b
  BY DEF Moved
<1>3. \/ at = 0 /\ (next = NoTrack \/ next \notin ToSet(rest))
      \/ at \in 1 .. Len(rest) /\ rest[at] = next /\ next # NoTrack
  <2> HIDE DEF rest
  <2> QED BY <1>1, DropPlace
<1> HIDE DEF moved, rest, at, r
<1>4. CASE at = 0 \/ at = Len(rest)
  <2>1. Row(X, rest, rest, <<>>)
    <3>1. rest \o <<>> = rest
      BY <1>1, ConcatEmptySeq
    <3> QED BY <1>1, <3>1 DEF Row
  <2>2. Row(X, r, rest, moved)
    BY <1>1, <1>2, <1>4 DEF Row
  <2>3. Row(X, r, r, <<>>)
    <3>1. r \in Seq(X)
      BY <2>2, RowFacts
    <3>2. r \o <<>> = r
      BY <3>1, ConcatEmptySeq
    <3> QED BY <3>1, <3>2 DEF Row
  <2>4. Between(X, r, rest, moved, <<>>)
    BY <2>2, <2>3 DEF Between
  <2>5. ~(next \in ToSet(rest) /\ next \notin {NoTrack, Last(rest)})
    BY <1>1, <1>3, <1>4 DEF Last
  <2>6. r = rest \o moved
    BY <1>2, <1>4
  <2>7. MovedTo(X, r, moved, rest, next, rest, <<>>)
    BY <2>1, <2>4, <2>5, <2>6 DEF MovedTo
  <2> QED BY <2>7 DEF r, rest, moved
<1>5. CASE ~(at = 0 \/ at = Len(rest))
  <2>1. at \in 1 .. Len(rest) /\ rest[at] = next /\ next # NoTrack
    BY <1>3, <1>5
  <2>2. Row(X, rest, a, b) /\ Len(a) = at - 1
    BY <1>1, <2>1, SplitFacts
  <2> HIDE DEF a, b
  <2>3. a \in Seq(X) /\ b \in Seq(X) /\ r = (a \o moved) \o b
    BY <1>2, <1>5, <2>2, RowFacts
  <2>4. Row(X, a \o moved, a, moved)
    BY <1>1, <2>3 DEF Row
  <2> DEFINE c == a \o moved
  <2>5. Row(X, c, a, moved)
    BY <2>4
  <2>6. r = c \o b
    BY <2>3
  <2> HIDE DEF c
  <2>7. c \in Seq(X)
    BY <2>5, RowFacts
  <2>8. Between(X, r, a, moved, b)
    BY <2>3, <2>5, <2>6, <2>7 DEF Between, Row
  <2>9. MovedTo(X, r, moved, rest, next, a, b)
    BY <2>1, <2>2, <2>8 DEF MovedTo
  <2> QED BY <2>9 DEF r, rest, moved
<1> QED BY <1>4, <1>5

\* ... so a move keeps what there is, and the order within what is moved and without.
Rearranged(X, r, s, S) ==
    /\ r \in Seq(X) /\ ToSet(r) = ToSet(s)
    /\ NoRepeats(s) => NoRepeats(r)
    /\ Of(r, S) = Of(s, S)
    /\ Of(r, ToSet(s) \ S) = Of(s, ToSet(s) \ S)

LEMMA MovedFacts ==
  ASSUME NEW X, NEW s \in Seq(X), NEW S, NEW next
  PROVE  Rearranged(X, Moved(s, S, next), s, S)
<1> DEFINE O == ToSet(s) \ S
           moved == Of(s, S)
           rest == Of(s, O)
           r == Moved(s, S, next)
<1>1. PICK a, b : Row(X, rest, a, b) /\ Between(X, r, a, moved, b)
  <2>1. PICK a, b : MovedTo(X, r, moved, rest, next, a, b)
    BY MovedBetween
  <2> QED BY <2>1 DEF MovedTo
<1>2. /\ ToSet(moved) = ToSet(s) \cap S /\ ToSet(rest) = ToSet(s) \cap O
      /\ NoRepeats(s) => NoRepeats(moved) /\ NoRepeats(rest)
  BY OfType
<1> HIDE DEF moved, rest, r
<1>3. ToSet(rest) \cap ToSet(moved) = {}
  BY <1>2
<1>4. /\ r \in Seq(X) /\ ToSet(r) = ToSet(rest) \cup ToSet(moved)
      /\ NoRepeats(rest) /\ NoRepeats(moved) => NoRepeats(r)
      /\ \A T : ToSet(moved) \subseteq T /\ ToSet(rest) \cap T = {} => Of(r, T) = moved
      /\ \A T : ToSet(rest) \subseteq T /\ ToSet(moved) \cap T = {} => Of(r, T) = rest
  BY <1>1, <1>3, BetweenEntries
<1>5. Of(r, S) = moved
  BY <1>2, <1>4
<1>6. Of(r, O) = rest
  BY <1>2, <1>4
<1>7. ToSet(r) = ToSet(s)
  BY <1>2, <1>4
<1>8. Rearranged(X, r, s, S)
  BY <1>2, <1>4, <1>5, <1>6, <1>7 DEF Rearranged, rest, moved
<1> QED BY <1>8 DEF r

\* What is dropped at the end is behind the rest.
LEMMA MovedToEnd ==
  ASSUME NEW X, NEW s \in Seq(X), NEW S
  PROVE  Moved(s, S, NoTrack) = Of(s, ToSet(s) \ S) \o Of(s, S)
<1> DEFINE r == Moved(s, S, NoTrack)
           moved == Of(s, S)
           rest == Of(s, ToSet(s) \ S)
<1>1. PICK a, b : MovedTo(X, r, moved, rest, NoTrack, a, b)
  BY MovedBetween
<1> HIDE DEF r, moved, rest
<1>2. r = rest \o moved
  BY <1>1 DEF MovedTo
<1> QED BY <1>2 DEF r, moved, rest

\* What is dropped before one of the rest, other than the last, is right before it.
LEMMA MovedInPlace ==
  ASSUME NEW X, NEW s \in Seq(X), NoRepeats(s), NEW S, NEW next, next \notin S,
         next # NoTrack, next # Last(Of(s, ToSet(s) \ S)),
         NEW i \in DOMAIN Moved(s, S, next), Moved(s, S, next)[i] = next
  PROVE  LET n == Len(Of(s, S))
         IN  i > n /\ SubSeq(Moved(s, S, next), i - n, i - 1) = Of(s, S)
<1> DEFINE moved == Of(s, S)
           O == ToSet(s) \ S
           rest == Of(s, O)
           r == Moved(s, S, next)
           n == Len(moved)
<1>1. PICK a, b : MovedTo(X, r, moved, rest, next, a, b)
  BY MovedBetween
<1>2. /\ moved \in Seq(X) /\ rest \in Seq(X) /\ r \in Seq(X) /\ NoRepeats(r)
      /\ ToSet(rest) = ToSet(s) \cap O /\ ToSet(r) = ToSet(s)
  <2>1. moved \in Seq(X) /\ rest \in Seq(X) /\ ToSet(rest) = ToSet(s) \cap O
    BY OfType
  <2>2. Rearranged(X, r, s, S)
    BY MovedFacts
  <2> HIDE DEF r
  <2> QED BY <2>1, <2>2 DEF Rearranged
<1>3. i \in DOMAIN r /\ r[i] = next /\ next \notin {NoTrack, Last(rest)}
  OBVIOUS
<1> HIDE DEF moved, rest, r
<1>4. /\ Row(X, rest, a, b) /\ Between(X, r, a, moved, b)
      /\ next \in ToSet(rest) /\ next \notin {NoTrack, Last(rest)}
         => \E at \in 1 .. Len(rest) : rest[at] = next /\ Len(a) = at - 1
  BY <1>1 DEF MovedTo
<1>5. next \in ToSet(rest)
  <2>1. next \in ToSet(r)
    BY <1>3 DEF ToSet
  <2> QED BY <1>2, <2>1
<1>6. PICK at \in 1 .. Len(rest) : rest[at] = next /\ Len(a) = at - 1
  BY <1>4, <1>3, <1>5
<1>7. PICK c : Row(X, c, a, moved) /\ Row(X, r, c, b)
  BY <1>4 DEF Between
<1>8. /\ Len(rest) \in Nat /\ n \in Nat /\ Len(rest) = Len(a) + Len(b)
      /\ Len(b) \in Nat /\ Len(c) = Len(a) + n /\ Len(r) = Len(c) + Len(b)
  <2>1. b \in Seq(X)
    BY <1>4, RowFacts
  <2>2. Len(rest) = Len(a) + Len(b) /\ Len(c) = Len(a) + Len(moved) /\ Len(r) = Len(c) + Len(b)
    BY <1>4, <1>7, RowFacts
  <2> QED BY <1>2, <2>1, <2>2
<1>9. at \in Nat /\ at >= 1 /\ Len(a) = at - 1 /\ Len(b) >= 1 /\ at <= Len(rest)
  BY <1>6, <1>8
<1>10. i = at + n
  <2>1. rest[at] = b[1]
    <3>1. \A k \in Int : Len(a) < k /\ k <= Len(rest) => rest[k] = b[k - Len(a)]
      BY <1>4, RowFacts
    <3>2. at - Len(a) = 1 /\ Len(a) < at
      BY <1>9
    <3> QED BY <1>9, <3>1, <3>2
  <2>2. r[at + n] = b[1]
    <3>1. \A k \in Int : Len(c) < k /\ k <= Len(r) => r[k] = b[k - Len(c)]
      BY <1>7, RowFacts
    <3>2. /\ at + n \in Int /\ (at + n) - Len(c) = 1 /\ Len(c) < at + n
          /\ at + n <= Len(r)
      BY <1>8, <1>9
    <3> QED BY <3>1, <3>2
  <2>3. at + n \in DOMAIN r
    <3>1. at + n \in 1 .. Len(r)
      BY <1>8, <1>9
    <3> QED BY <1>2, <3>1
  <2> QED BY <1>2, <1>3, <1>6, <2>1, <2>2, <2>3 DEF NoRepeats
<1>11. \A k \in 1 .. n : r[(at - 1) + k] = moved[k]
  <2> TAKE k \in 1 .. n
  <2> DEFINE j == (at - 1) + k
  <2>1. /\ j \in Int /\ Len(a) < j /\ j <= Len(c) /\ 1 <= j /\ j - Len(a) = k
    <3>1. k \in Int /\ 1 <= k /\ k <= n
      BY <1>8
    <3>2. at \in Int /\ at >= 1 /\ Len(a) = at - 1 /\ Len(c) = (at - 1) + n
      BY <1>8, <1>9
    <3> QED BY <3>1, <3>2, <1>8
  <2> HIDE DEF j
  <2>2. r[j] = c[j]
    BY <1>7, <2>1, RowFacts
  <2>3. c[j] = moved[j - Len(a)]
    BY <1>7, <2>1, RowFacts
  <2> QED BY <2>1, <2>2, <2>3 DEF j
<1>12. SubSeq(r, at, at + n - 1) = moved
  <2> DEFINE p == SubSeq(r, at, at + n - 1)
  <2>1. /\ p \in Seq(X) /\ Len(p) = n
        /\ \A k \in 1 .. n : p[k] = r[at + k - 1]
    <3>1. \A k \in at .. at + n - 1 : r[k] \in X
      <4>1. \A k \in at .. at + n - 1 : k \in 1 .. Len(r)
        BY <1>8, <1>9
      <4> QED BY <1>2, <4>1, ElementOfSeq
    <3>2. at + n - 1 \in Int /\ at \in Int
      BY <1>8, <1>9
    <3>3. IF at <= at + n - 1 THEN Len(p) = (at + n - 1) - at + 1 ELSE Len(p) = 0
      BY <3>1, <3>2, SubSeqProperties
    <3>4. p \in Seq(X) /\ \A k \in 1 .. (at + n - 1) - at + 1 : p[k] = r[at + k - 1]
      BY <3>1, <3>2, SubSeqProperties
    <3>5. (at + n - 1) - at + 1 = n
      BY <1>8, <1>9
    <3> HIDE DEF p
    <3>6. Len(p) = n
      BY <1>8, <1>9, <3>3
    <3> QED BY <3>4, <3>5, <3>6
  <2> HIDE DEF p
  <2>2. \A k \in 1 .. n : p[k] = moved[k]
    <3> TAKE k \in 1 .. n
    <3>1. at + k - 1 = (at - 1) + k
      BY <1>8, <1>9
    <3> QED BY <1>11, <2>1, <3>1
  <2>3. p = moved
    BY <1>2, <2>1, <2>2, SeqEqual
  <2> QED BY <2>3 DEF p
<1>13. i > n /\ i - n = at /\ i - 1 = at + n - 1
  BY <1>8, <1>9, <1>10
<1> QED BY <1>12, <1>13 DEF r, moved

-----------------------------------------------------------------------------
(* Of a finite number of tracks. *)

\* A sequence of all that is in a finite set.
LEMMA SeqsOf ==
  ASSUME NEW S, IsFiniteSet(S), NEW s \in SetToSeqs(S)
  PROVE  s \in Seq(S) /\ NoRepeats(s)
<1>1. Cardinality(S) \in Nat
  BY FS_CardinalityType
<1>2. s \in [1 .. Cardinality(S) -> S]
      /\ \A i, j \in 1 .. Cardinality(S) : i # j => s[i] # s[j]
  BY DEF SetToSeqs
<1> QED BY <1>1, <1>2 DEF NoRepeats

LEMMA SomeSeqOf ==
  ASSUME NEW S, IsFiniteSet(S)
  PROVE  SetToSeq(S) \in Seq(S)
<1>1. Cardinality(S) \in Nat
  BY FS_CardinalityType
<1>2. PICK f \in [1 .. Cardinality(S) -> S] : IsInjective(f)
  <2>1. PICK f : f \in Bijection(1 .. Cardinality(S), S)
    BY FS_CardinalityType DEF ExistsBijection
  <2> QED BY <2>1, Fun_IsBij, Fun_IsInj DEF Bijection, Injection
<1>3. SetToSeq(S) \in [1 .. Cardinality(S) -> S]
  BY <1>2 DEF SetToSeq
<1> QED BY <1>1, <1>3

LEMMA KnownIsFinite == TypeOK => IsFiniteSet(known) /\ known \subseteq Hashes
BY TracksAssumption, FS_Subset DEF TypeOK, Hashes

\* A playlist shows tracks of the library.
LEMMA MetasType ==
  ASSUME TypeOK, NEW l \in DOMAIN lists
  PROVE  PlaylistMetas(l) \in Seq(Hashes) /\ ToSet(PlaylistMetas(l)) \subseteq known
<1>1. Names(lists[l]) \in Seq(Hashes)
  BY PlaylistParts DEF Names, TypeOK
<1>2. /\ KnownOf(Names(lists[l])) \in Seq(Hashes)
      /\ ToSet(KnownOf(Names(lists[l]))) \subseteq known
  BY <1>1, OfType DEF KnownOf
<1>3. SetToSeq(known) \in Seq(Hashes) /\ ToSet(SetToSeq(known)) \subseteq known
  <2>1. SetToSeq(known) \in Seq(known) /\ known \subseteq Hashes
    BY KnownIsFinite, SomeSeqOf
  <2> DEFINE s == SetToSeq(known)
  <2> HIDE DEF s
  <2>2. s \in Seq(known)
    BY <2>1 DEF s
  <2>3. s \in Seq(Hashes) /\ ToSet(s) \subseteq known
    BY <2>1, <2>2 DEF ToSet
  <2> QED BY <2>3 DEF s
<1> QED BY <1>2, <1>3 DEF PlaylistMetas

-----------------------------------------------------------------------------
(* Types. *)

ListsOK(f) ==
    /\ FixedLists \subseteq DOMAIN f /\ DOMAIN f \subseteq AllLists
    /\ \A l \in DOMAIN f : f[l] \in Playlist

LEMMA NewPlaylistType == NewPlaylist \in Playlist
BY DEF NewPlaylist, Playlist, Orders

LEMMA AscendingType == Ascending \in Seq(Tracks) /\ Ascending \in Seq(Hashes)
<1>1. Ascending \in Seq(Tracks)
  BY TracksAssumption, SeqsOf
<1> QED BY <1>1 DEF Hashes

LEMMA ReverseType ==
  ASSUME NEW X, NEW s \in Seq(X)
  PROVE  Reverse(s) \in Seq(X)
<1>1. \A i \in 1 .. Len(s) : s[(Len(s) - i) + 1] \in X
  BY ElementOfSeq
<1> QED BY <1>1 DEF Reverse

LEMMA InitType == Init => TypeOK
<1> SUFFICES ASSUME Init PROVE TypeOK
  OBVIOUS
<1>1. known \subseteq Tracks /\ imports \in 0 .. MaxImports
  BY BoundsAssumption DEF Init
<1>2. DOMAIN lists = FixedLists /\ \A l \in FixedLists : lists[l] \in Playlist
  <2>1. Of(Ascending, known) \in Seq(Hashes)
    BY AscendingType, OfType
  <2> DEFINE all == [sort |-> Of(Ascending, known), custom |-> <<>>, order |-> "asc"]
  <2>2. all \in Playlist
    BY <2>1 DEF Playlist, Orders
  <2>3. lists = [l \in FixedLists |-> IF l = "all" THEN all ELSE NewPlaylist]
    BY DEF Init, Library
  <2> HIDE DEF all
  <2> QED BY <2>2, <2>3, NewPlaylistType
<1>3. /\ FixedLists \subseteq DOMAIN lists /\ DOMAIN lists \subseteq AllLists
      /\ \A l \in DOMAIN lists : lists[l] \in Playlist
  BY <1>2 DEF AllLists
<1>4. current \in DOMAIN lists
  BY <1>2, ListsAssumption DEF Init
<1>5. queue \in Seq(Hashes) /\ arriving \in Seq(Event)
  BY DEF Init
<1> QED BY <1>1, <1>3, <1>4, <1>5 DEF TypeOK

-----------------------------------------------------------------------------
(* What the operations do to the playlists. *)

\* f is lists, but for the playlist l.
Updated(f, l, s, c, o) ==
    /\ ListsOK(f) /\ DOMAIN f = DOMAIN lists
    /\ f[l].sort = s /\ f[l].custom = c /\ f[l].order = o
    /\ \A x \in DOMAIN lists : x # l => f[x] = lists[x]

LEMMA ListsUpdate ==
  ASSUME TypeOK, NEW l \in DOMAIN lists, NEW s \in Seq(Hashes), NEW c \in Seq(Hashes),
         NEW f, f = [lists EXCEPT ![l].sort = s, ![l].custom = c]
  PROVE  Updated(f, l, s, c, lists[l].order)
<1>1. DOMAIN f = DOMAIN lists /\ \A x \in DOMAIN lists : x # l => f[x] = lists[x]
  OBVIOUS
<1>2. lists[l] \in Playlist
  BY DEF TypeOK
<1>3. f[l] = [lists[l] EXCEPT !.sort = s, !.custom = c]
  OBVIOUS
<1>4. f[l] \in Playlist /\ f[l].sort = s /\ f[l].custom = c /\ f[l].order = lists[l].order
  BY <1>2, <1>3 DEF Playlist
<1>5. ListsOK(f)
  BY <1>1, <1>4 DEF TypeOK, ListsOK
<1> QED BY <1>1, <1>4, <1>5 DEF Updated

LEMMA TypeAfter ==
  ASSUME TypeOK, ListsOK(lists'), known' \subseteq Tracks, queue' \in Seq(Hashes),
         current' \in DOMAIN lists' \cup {"", "album"}, arriving' \in Seq(Event),
         imports' \in 0 .. MaxImports
  PROVE  TypeOK'
BY DEF TypeOK, ListsOK

\* A track is added to a playlist and to "play", or to "play" and the queue, or to none.
LEMMA AddOutcome ==
  ASSUME TypeOK, NEW t \in Tracks, NEW l \in AllLists, AddMetasToPlayList(t, l)
  PROVE  /\ ListsOK(lists') /\ DOMAIN lists' = DOMAIN lists
         /\ \A x \in DOMAIN lists :
               /\ lists'[x].order = lists[x].order
               /\ x # "play" => lists'[x] = lists[x] \/ lists'[x].custom = lists'[x].sort
         /\ \/ queue' = queue /\ lists'["play"].sort = lists["play"].sort
            \/ /\ queue' = Append(queue, t) /\ t \notin ToSet(lists["play"].sort)
               /\ lists'["play"].sort = Append(lists["play"].sort, t)
<1> DEFINE isNew == ~Contains(lists[l].sort, t)
           sort == IF isNew THEN Append(lists[l].sort, t) ELSE lists[l].sort
           toPlay == /\ isNew /\ current = l /\ l # "play"
                     /\ ~Contains(lists["play"].sort, t)
           listed == [lists[l] EXCEPT !.sort = sort, !.custom = sort]
           played == [lists["play"] EXCEPT !.sort = Append(lists["play"].sort, t)]
<1>1. /\ l \in DOMAIN lists \ {"all"} /\ t \in Hashes /\ "play" \in DOMAIN lists
      /\ lists[l] \in Playlist /\ lists["play"] \in Playlist
  BY ListsAssumption DEF AddMetasToPlayList, TypeOK, Hashes
<1>2. lists' = [x \in DOMAIN lists |->
                  CASE x = l -> listed
                    [] x = "play" /\ toPlay -> played
                    [] OTHER -> lists[x]]
  BY DEF AddMetasToPlayList
<1>3. queue' = IF toPlay \/ (isNew /\ l = "play") THEN Append(queue, t) ELSE queue
  BY DEF AddMetasToPlayList
<1>4. lists[l].sort \in Seq(Hashes) /\ lists["play"].sort \in Seq(Hashes)
      /\ lists["play"].custom \in Seq(Hashes)
  BY <1>1, PlaylistParts
<1>5. sort \in Seq(Hashes) /\ Append(lists["play"].sort, t) \in Seq(Hashes)
  BY <1>1, <1>4, AppendFacts
<1>6. isNew <=> t \notin ToSet(lists[l].sort)
  BY <1>4, ContainsFacts
<1>7. toPlay => t \notin ToSet(lists["play"].sort)
  BY <1>4, ContainsFacts
<1>8. isNew => sort = Append(lists[l].sort, t)
  OBVIOUS
<1>9. ~isNew => sort = lists[l].sort
  OBVIOUS
<1> HIDE DEF sort
<1>10. /\ listed \in Playlist /\ listed.sort = sort /\ listed.custom = sort
       /\ listed.order = lists[l].order
  BY <1>1, <1>5 DEF Playlist
<1>11. /\ played \in Playlist /\ played.sort = Append(lists["play"].sort, t)
       /\ played.order = lists["play"].order
  BY <1>1, <1>4, <1>5 DEF Playlist
<1>12. toPlay => l # "play" /\ isNew
  OBVIOUS
<1> HIDE DEF listed, played, toPlay, isNew
<1>13. /\ DOMAIN lists' = DOMAIN lists /\ lists'[l] = listed
       /\ l # "play" => lists'["play"] = IF toPlay THEN played ELSE lists["play"]
       /\ \A x \in DOMAIN lists : x # l /\ x # "play" => lists'[x] = lists[x]
  <2>1. DOMAIN lists' = DOMAIN lists
    BY <1>2
  <2>2. lists'[l] = listed
    BY <1>1, <1>2, <1>12
  <2>3. l # "play" => lists'["play"] = IF toPlay THEN played ELSE lists["play"]
    BY <1>1, <1>2
  <2>4. \A x \in DOMAIN lists : x # l /\ x # "play" => lists'[x] = lists[x]
    BY <1>2
  <2> QED BY <2>1, <2>2, <2>3, <2>4
<1>14. \A x \in DOMAIN lists : lists'[x] \in Playlist /\ lists'[x].order = lists[x].order
  BY <1>1, <1>10, <1>11, <1>13 DEF TypeOK
<1>15. ListsOK(lists')
  BY <1>13, <1>14 DEF TypeOK, ListsOK
<1>16. \A x \in DOMAIN lists :
          x # "play" => lists'[x] = lists[x] \/ lists'[x].custom = lists'[x].sort
  BY <1>10, <1>13
<1>17. \/ queue' = queue /\ lists'["play"].sort = lists["play"].sort
       \/ /\ queue' = Append(queue, t) /\ t \notin ToSet(lists["play"].sort)
          /\ lists'["play"].sort = Append(lists["play"].sort, t)
  <2>1. CASE l = "play"
    BY <2>1, <1>3, <1>6, <1>8, <1>9, <1>10, <1>12, <1>13
  <2>2. CASE l # "play"
    BY <2>2, <1>3, <1>7, <1>11, <1>13
  <2> QED BY <2>1, <2>2
<1> QED BY <1>13, <1>14, <1>15, <1>16, <1>17

\* The queue r is the queue q without the track, if that was there once and was to be
\* taken out, and has the others as they were.
Lost(r, q, t, taken) ==
    /\ r \in Seq(Hashes)
    /\ Single(q, t) /\ (taken \/ t \notin ToSet(q)) => t \notin ToSet(r)
    /\ \A T : t \notin T => Of(r, T) = Of(q, T)

LEMMA LostOnce ==
  ASSUME NEW r, NEW q, NEW t, Less(Hashes, r, q, t), NEW taken
  PROVE  Lost(r, q, t, taken)
BY DEF Less, Lost

LEMMA LostTwice ==
  ASSUME NEW r, NEW p, NEW q, NEW t, Less(Hashes, p, q, t), Less(Hashes, r, p, t), NEW taken
  PROVE  Lost(r, q, t, taken)
<1>1. Single(q, t) => t \notin ToSet(p)
  BY DEF Less
<1>2. t \notin ToSet(p) => r = p
  BY DEF Less
<1>3. r \in Seq(Hashes) /\ \A T : t \notin T => Of(r, T) = Of(q, T)
  BY DEF Less
<1> QED BY <1>1, <1>2, <1>3 DEF Lost

\* The track is taken out of one playlist, and, of "play", out of the queue.
LEMMA RemoveOneOutcome ==
  ASSUME TypeOK, NEW t \in Tracks, NEW l \in AllLists, RemoveFromOne(t, l)
  PROVE  /\ l \in DOMAIN lists \ {"all"}
         /\ \E c \in Seq(Hashes) : \E s :
               /\ Updated(lists', l, s, c, lists[l].order) /\ Less(Hashes, s, lists[l].sort, t)
               /\ lists[l].custom = lists[l].sort => c = s
         /\ IF l = "play" THEN Lost(queue', queue, t, TRUE) ELSE queue' = queue
<1>1. l \in DOMAIN lists \ {"all"} /\ lists[l] \in Playlist
  BY DEF RemoveFromOne, TypeOK
<1>2. lists[l].sort \in Seq(Hashes) /\ lists[l].custom \in Seq(Hashes) /\ queue \in Seq(Hashes)
  BY <1>1, PlaylistParts DEF TypeOK
<1> DEFINE s == RemoveFirst(lists[l].sort, t)
           c == RemoveFirst(lists[l].custom, t)
           there == Contains(lists[l].sort, t)
           q == WithoutLast(queue, t)
<1>3. Less(Hashes, s, lists[l].sort, t) /\ Less(Hashes, c, lists[l].custom, t)
  BY <1>2, RemoveFirstLess
<1>4. s \in Seq(Hashes) /\ c \in Seq(Hashes)
  BY <1>3 DEF Less
<1>5. lists' = IF ~there THEN lists ELSE [lists EXCEPT ![l].sort = s, ![l].custom = c]
  BY DEF RemoveFromOne
<1>6. lists[l].custom = lists[l].sort => c = s
  OBVIOUS
<1>7. \E d \in Seq(Hashes) : \E r :
         /\ Updated(lists', l, r, d, lists[l].order) /\ Less(Hashes, r, lists[l].sort, t)
         /\ lists[l].custom = lists[l].sort => d = r
  <2>1. CASE there
    <3> HIDE DEF s, c, there
    <3>1. Updated(lists', l, s, c, lists[l].order)
      BY <2>1, <1>1, <1>4, <1>5, ListsUpdate
    <3> QED BY <3>1, <1>3, <1>4, <1>6
  <2>2. CASE ~there
    <3>1. t \notin ToSet(lists[l].sort)
      BY <2>2, <1>2, ContainsFacts
    <3>2. Less(Hashes, lists[l].sort, lists[l].sort, t)
      BY <3>1, <1>2, NothingLess
    <3> HIDE DEF there
    <3>3. Updated(lists', l, lists[l].sort, lists[l].custom, lists[l].order)
      BY <2>2, <1>5 DEF Updated, ListsOK, TypeOK
    <3> QED BY <3>2, <3>3, <1>2
  <2> QED BY <2>1, <2>2
<1>8. IF l = "play" THEN Lost(queue', queue, t, TRUE) ELSE queue' = queue
  <2>1. CASE l # "play"
    BY <2>1 DEF RemoveFromOne
  <2>2. CASE l = "play"
    <3>1. queue' = IF there THEN RemoveFirst(q, t) ELSE q
      BY <2>2 DEF RemoveFromOne
    <3>2. Less(Hashes, q, queue, t)
      BY <1>2, WithoutLastLess
    <3> HIDE DEF q, there
    <3>3. q \in Seq(Hashes)
      BY <3>2 DEF Less
    <3>4. Less(Hashes, RemoveFirst(q, t), q, t)
      BY <3>3, RemoveFirstLess
    <3> QED BY <2>2, <3>1, <3>2, <3>4, LostOnce, LostTwice
  <2> QED BY <2>1, <2>2
<1> QED BY <1>1, <1>7, <1>8

\* The track is taken out of all playlists, and, if it is in "play", out of the queue.
LEMMA RemoveAllOutcome ==
  ASSUME TypeOK, NEW t \in Tracks, NEW from \in AllLists \cup {"album"}, NEW direct \in BOOLEAN,
         RemoveFromAll(t, from, direct)
  PROVE  /\ ListsOK(lists') /\ DOMAIN lists' = DOMAIN lists /\ known' = known \ {t}
         /\ \A l \in DOMAIN lists :
               /\ lists'[l].order = lists[l].order
               /\ Less(Hashes, lists'[l].sort, lists[l].sort, t)
               /\ lists[l].custom = lists[l].sort => lists'[l].custom = lists'[l].sort
         /\ Lost(queue', queue, t, t \in ToSet(lists["play"].sort))
<1>1. DOMAIN lists' = DOMAIN lists /\ known' = known \ {t}
      /\ \A l \in DOMAIN lists : lists'[l] = WithoutTrack(lists[l], t)
  BY DEF RemoveFromAll
<1>2. ASSUME NEW l \in DOMAIN lists
      PROVE  /\ lists'[l] \in Playlist /\ lists'[l].order = lists[l].order
             /\ Less(Hashes, lists'[l].sort, lists[l].sort, t)
             /\ lists[l].custom = lists[l].sort => lists'[l].custom = lists'[l].sort
  <2>1. lists[l] \in Playlist
    BY DEF TypeOK
  <2>2. lists'[l] = WithoutTrack(lists[l], t)
    BY <1>1
  <2> QED BY <2>1, <2>2, WithoutTrackFacts
<1>3. ListsOK(lists')
  BY <1>1, <1>2 DEF TypeOK, ListsOK
<1> DEFINE first == IF direct THEN WithoutLast(queue, t) ELSE queue
           there == Contains(lists["play"].sort, t)
           taken == t \in ToSet(lists["play"].sort)
<1>4. "play" \in DOMAIN lists /\ queue \in Seq(Hashes) /\ lists["play"].sort \in Seq(Hashes)
  BY ListsAssumption, PlaylistParts DEF TypeOK
<1>5. there <=> taken
  BY <1>4, ContainsFacts
<1>6. queue' = IF there THEN RemoveFirst(first, t) ELSE first
  BY DEF RemoveFromAll
<1>7. CASE direct
  <2>1. first = WithoutLast(queue, t)
    BY <1>7
  <2> HIDE DEF first, there
  <2>2. Less(Hashes, first, queue, t)
    BY <2>1, <1>4, WithoutLastLess
  <2>3. first \in Seq(Hashes)
    BY <2>2 DEF Less
  <2>4. Less(Hashes, RemoveFirst(first, t), first, t)
    BY <2>3, RemoveFirstLess
  <2>5. Lost(queue', queue, t, taken)
    <3> HIDE DEF taken
    <3> QED BY <1>6, <2>2, <2>4, LostOnce, LostTwice
  <2> QED BY <2>5, <1>1, <1>2, <1>3
<1>8. CASE ~direct
  <2>1. first = queue
    BY <1>8
  <2> HIDE DEF first
  <2>2. CASE there
    <3>1. queue' = RemoveFirst(queue, t)
      BY <1>6, <2>1, <2>2
    <3> HIDE DEF there
    <3>2. Less(Hashes, queue', queue, t)
      BY <1>4, <3>1, RemoveFirstLess
    <3>3. Lost(queue', queue, t, taken)
      <4> HIDE DEF taken
      <4> QED BY <3>2, LostOnce
    <3> QED BY <3>3, <1>1, <1>2, <1>3
  <2>3. CASE ~there
    <3>1. queue' = queue
      BY <1>6, <2>1, <2>3
    <3>2. Lost(queue', queue, t, taken)
      BY <3>1, <2>3, <1>4, <1>5 DEF Lost
    <3> QED BY <3>2, <1>1, <1>2, <1>3
  <2> QED BY <2>2, <2>3
<1> QED BY <1>7, <1>8

\* f is like g, but for a playlist.
LEMMA ListsReplace ==
  ASSUME NEW f, NEW g, ListsOK(g), DOMAIN f = DOMAIN g, NEW l \in DOMAIN g,
         f[l] \in Playlist, \A x \in DOMAIN g : x # l => f[x] = g[x]
  PROVE  ListsOK(f)
<1>1. \A x \in DOMAIN g : f[x] \in Playlist
  <2> TAKE x \in DOMAIN g
  <2>1. CASE x = l
    BY <2>1
  <2>2. CASE x # l
    <3>1. g[x] \in Playlist
      BY DEF ListsOK
    <3> QED BY <2>2, <3>1
  <2> QED BY <2>1, <2>2
<1> QED BY <1>1 DEF ListsOK

\* A playlist other than "play" gets another order.
Resorted(l) ==
    /\ ListsOK(lists') /\ DOMAIN lists' = DOMAIN lists /\ l \in DOMAIN lists \ {"play"}
    /\ \A x \in DOMAIN lists : x # l => lists'[x] = lists[x]
    /\ lists'[l].order = "custom" => lists[l].order # "custom" /\ l # "all"
    /\ queue' = queue

LEMMA SortOutcome ==
  ASSUME TypeOK, NEW l \in AllLists, SortPlaylist(l) \/ CustomSort(l)
  PROVE  Resorted(l)
<1>1. l \in DOMAIN lists \ {"play"} /\ lists[l] \in Playlist /\ queue' = queue
  BY DEF SortPlaylist, CustomSort, TypeOK
<1>2. CASE CustomSort(l)
  <2>1. lists' = [lists EXCEPT ![l].order = "custom"] /\ l # "all" /\ lists[l].order # "custom"
    BY <1>2 DEF CustomSort
  <2>2. DOMAIN lists' = DOMAIN lists /\ \A x \in DOMAIN lists : x # l => lists'[x] = lists[x]
    BY <2>1
  <2>3. lists'[l] = [lists[l] EXCEPT !.order = "custom"]
    BY <1>1, <2>1
  <2>4. lists'[l] \in Playlist
    BY <1>1, <2>3 DEF Playlist, Orders
  <2>5. ListsOK(lists')
    <3>1. ListsOK(lists)
      BY DEF TypeOK, ListsOK
    <3> QED BY <3>1, <2>2, <2>4, <1>1, ListsReplace
  <2> QED BY <1>1, <2>1, <2>2, <2>5 DEF Resorted
<1>3. CASE SortPlaylist(l)
  <2> DEFINE order == IF lists[l].order = "asc" THEN "des" ELSE "asc"
             sorted == Of(IF order = "asc" THEN Ascending ELSE Reverse(Ascending),
                          ToSet(lists[l].sort))
             unknown == [i \in 1 .. Len(lists[l].sort) - Len(sorted) |-> NoTrack]
             sort == IF order = "asc" THEN unknown \o sorted ELSE sorted \o unknown
  <2>1. lists' = [lists EXCEPT ![l].order = order, ![l].sort = sort]
    BY <1>3 DEF SortPlaylist
  <2>2. sorted \in Seq(Hashes)
    <3>1. Ascending \in Seq(Hashes) /\ Reverse(Ascending) \in Seq(Hashes)
      BY AscendingType, ReverseType
    <3> QED BY <3>1, OfType
  <2>3. unknown \in Seq(Hashes)
    <3> HIDE DEF sorted
    <3>1. Len(lists[l].sort) \in Nat /\ Len(sorted) \in Nat
      BY <1>1, <2>2, PlaylistParts
    <3> DEFINE m == Len(lists[l].sort) - Len(sorted)
    <3>2. CASE m >= 0
      BY <3>1, <3>2 DEF Hashes
    <3>3. CASE m < 0
      <4>1. unknown = <<>>
        BY <3>1, <3>3
      <4> HIDE DEF unknown
      <4> QED BY <4>1
    <3> QED BY <3>1, <3>2, <3>3
  <2> HIDE DEF sorted, unknown
  <2>4. sort \in Seq(Hashes)
    BY <2>2, <2>3, ConcatProperties
  <2>5. order \in Orders /\ order # "custom"
    BY DEF Orders
  <2> HIDE DEF order, sort
  <2>6. DOMAIN lists' = DOMAIN lists /\ \A x \in DOMAIN lists : x # l => lists'[x] = lists[x]
    BY <2>1
  <2>7. lists'[l] = [lists[l] EXCEPT !.order = order, !.sort = sort]
    BY <1>1, <2>1
  <2>8. lists'[l] \in Playlist /\ lists'[l].order = order
    BY <1>1, <2>4, <2>5, <2>7 DEF Playlist
  <2>9. ListsOK(lists')
    <3>1. ListsOK(lists)
      BY DEF TypeOK, ListsOK
    <3> QED BY <3>1, <2>6, <2>8, <1>1, ListsReplace
  <2> QED BY <1>1, <2>5, <2>6, <2>8, <2>9 DEF Resorted
<1> QED BY <1>2, <1>3, Zenon

\* A playlist in the user's own order gets what was moved in it.
LEMMA MoveOutcome ==
  ASSUME TypeOK, NEW S \in Selections, NEW l \in AllLists, NEW next \in Hashes,
         MoveMetasPlayList(S, l, next)
  PROVE  LET sort == Moved(lists[l].sort, S, next)
         IN  /\ l \in DOMAIN lists \ {"all"} /\ sort \in Seq(Hashes)
             /\ ToSet(sort) = ToSet(lists[l].sort)
             /\ NoRepeats(lists[l].sort) => NoRepeats(sort)
             /\ Updated(lists', l, sort, sort, lists[l].order)
             /\ queue' = IF l = "play" THEN KnownOf(sort) ELSE queue
<1> DEFINE sort == Moved(lists[l].sort, S, next)
<1>1. l \in DOMAIN lists \ {"all"} /\ lists[l].sort \in Seq(Hashes)
  BY PlaylistParts DEF MoveMetasPlayList, TypeOK
<1>2. /\ sort \in Seq(Hashes) /\ ToSet(sort) = ToSet(lists[l].sort)
      /\ NoRepeats(lists[l].sort) => NoRepeats(sort)
  <2>1. Rearranged(Hashes, sort, lists[l].sort, S)
    BY <1>1, MovedFacts
  <2> HIDE DEF sort
  <2> QED BY <2>1 DEF Rearranged
<1>3. /\ lists' = [lists EXCEPT ![l].sort = sort, ![l].custom = sort]
      /\ queue' = IF l = "play" THEN KnownOf(sort) ELSE queue
  BY DEF MoveMetasPlayList
<1> HIDE DEF sort
<1>4. Updated(lists', l, sort, sort, lists[l].order)
  BY <1>1, <1>2, <1>3, ListsUpdate
<1> QED BY <1>1, <1>2, <1>3, <1>4 DEF sort

\* "play" gets what is loaded into the queue.
LEMMA LoadOutcome ==
  ASSUME TypeOK, NEW metas \in Seq(Hashes), Load(metas)
  PROVE  /\ queue' = metas
         /\ Updated(lists', "play", Once(metas), Once(metas), lists["play"].order)
<1> DEFINE once == Once(metas)
<1>1. once \in Seq(Hashes) /\ "play" \in DOMAIN lists
  BY OnceFacts, ListsAssumption DEF TypeOK
<1>2. /\ lists' = [lists EXCEPT !["play"].sort = once, !["play"].custom = once]
      /\ queue' = metas
  BY DEF Load
<1> HIDE DEF once
<1>3. Updated(lists', "play", once, once, lists["play"].order)
  BY <1>1, <1>2, ListsUpdate
<1> QED BY <1>2, <1>3 DEF once

\* What is played is loaded, or it was in the queue already.
LEMMA PlayOutcome ==
  ASSUME TypeOK, \/ \E l \in AllLists : PlayPlaylist(l)
                 \/ \E S \in Selections : \E metas \in SetToSeqs(S) : PlayAlbum(metas)
  PROVE  /\ current' \in DOMAIN lists \cup {"album"}
         /\ UNCHANGED <<known, arriving, imports>>
         /\ \/ UNCHANGED <<queue, lists>>
            \/ \E metas \in Seq(Hashes) :
                  /\ Load(metas) /\ ToSet(metas) \subseteq known
<1>1. ASSUME NEW l \in AllLists, PlayPlaylist(l)
      PROVE  /\ current' \in DOMAIN lists /\ UNCHANGED <<known, arriving, imports>>
             /\ \/ UNCHANGED <<queue, lists>>
                \/ \E metas \in Seq(Hashes) : Load(metas) /\ ToSet(metas) \subseteq known
  <2>1. l \in DOMAIN lists /\ current' = l /\ UNCHANGED <<known, arriving, imports>>
    BY <1>1 DEF PlayPlaylist
  <2>2. PlaylistMetas(l) \in Seq(Hashes) /\ ToSet(PlaylistMetas(l)) \subseteq known
    BY <2>1, MetasType
  <2>3. UNCHANGED <<queue, lists>> \/ Load(PlaylistMetas(l))
    BY <1>1 DEF PlayPlaylist
  <2> QED BY <2>1, <2>2, <2>3
<1>2. ASSUME NEW S \in Selections, NEW metas \in SetToSeqs(S), PlayAlbum(metas)
      PROVE  /\ current' = "album" /\ UNCHANGED <<known, arriving, imports>>
             /\ metas \in Seq(Hashes) /\ Load(metas) /\ ToSet(metas) \subseteq known
  <2>1. IsFiniteSet(S) /\ S \subseteq Hashes
    BY TracksAssumption, FS_Subset DEF Selections, Hashes
  <2>2. metas \in Seq(S)
    BY <2>1, SeqsOf
  <2>3. metas \in Seq(Hashes)
    BY <2>1, <2>2
  <2> QED BY <1>2, <2>3 DEF PlayAlbum
<1> QED BY <1>1, <1>2

\* What an import hands over is appended where it goes and is not yet.
LEMMA SlotOutcome ==
  ASSUME TypeOK, SlotAddOneMeta
  PROVE  \E hash \in known' \cup {NoTrack} :
            /\ known \subseteq known' /\ known' \subseteq Tracks
            /\ arriving' \in Seq(Event) /\ UNCHANGED <<current, imports>>
            /\ ListsOK(lists') /\ DOMAIN lists' = DOMAIN lists
            /\ \A l \in DOMAIN lists :
                  /\ lists'[l].order = lists[l].order
                  /\ \/ lists'[l] = lists[l]
                     \/ /\ hash \notin ToSet(lists[l].sort)
                        /\ lists'[l].sort = Append(lists[l].sort, hash)
                        /\ lists'[l].custom = Append(lists[l].custom, hash)
            /\ \/ queue' = queue /\ lists'["play"] = lists["play"]
               \/ /\ queue' = Append(queue, hash)
                  /\ lists'["play"] = lists["play"] => hash \in ToSet(lists["play"].sort)
<1> DEFINE e == Head(arriving)
           isNew == "all" \in e.lists /\ e.track \notin known
           hash == IF isNew \/ e.track \in known THEN e.track ELSE NoTrack
           goes(l) == l \in e.lists /\ ~Contains(lists[l].sort, hash)
           put(l) == [lists[l] EXCEPT !.sort = Append(lists[l].sort, hash),
                                      !.custom = Append(lists[l].custom, hash)]
<1>1. /\ arriving \in Seq(Event) /\ arriving # <<>> /\ e \in Event
      /\ arriving' = Tail(arriving) /\ arriving' \in Seq(Event)
  BY HeadTailProperties DEF SlotAddOneMeta, TypeOK
<1>2. e.track \in Tracks /\ known \subseteq Tracks
  BY <1>1 DEF Event, TypeOK
<1>3. /\ known' = IF isNew THEN known \cup {e.track} ELSE known
      /\ queue' = IF "play" \in e.lists THEN Append(queue, hash) ELSE queue
      /\ UNCHANGED <<current, imports>>
  BY DEF SlotAddOneMeta
<1>4. lists' = [l \in DOMAIN lists |-> IF goes(l) THEN put(l) ELSE lists[l]]
  BY DEF SlotAddOneMeta
<1> HIDE DEF e
<1>5. hash \in known' \cup {NoTrack} /\ known \subseteq known' /\ known' \subseteq Tracks
  BY <1>2, <1>3
<1>6. hash \in Hashes
  BY <1>2 DEF Hashes
<1> HIDE DEF hash, isNew
<1>7. ASSUME NEW l \in DOMAIN lists
      PROVE  /\ put(l) \in Playlist /\ put(l).order = lists[l].order
             /\ put(l).sort = Append(lists[l].sort, hash)
             /\ put(l).custom = Append(lists[l].custom, hash)
             /\ goes(l) => hash \notin ToSet(lists[l].sort)
             /\ ~goes(l) /\ l \in e.lists => hash \in ToSet(lists[l].sort)
  <2>1. lists[l] \in Playlist
    BY DEF TypeOK
  <2>2. lists[l].sort \in Seq(Hashes) /\ lists[l].custom \in Seq(Hashes)
    BY <2>1, PlaylistParts
  <2>3. Append(lists[l].sort, hash) \in Seq(Hashes) /\ Append(lists[l].custom, hash) \in Seq(Hashes)
    BY <1>6, <2>2, AppendFacts
  <2>4. Contains(lists[l].sort, hash) <=> hash \in ToSet(lists[l].sort)
    BY <2>2, ContainsFacts
  <2> DEFINE new == put(l)
  <2>5. /\ new \in Playlist /\ new.order = lists[l].order
        /\ new.sort = Append(lists[l].sort, hash) /\ new.custom = Append(lists[l].custom, hash)
    BY <2>1, <2>3 DEF Playlist
  <2> HIDE DEF new
  <2> QED BY <2>4, <2>5 DEF new
<1>8. "play" \in DOMAIN lists
  BY ListsAssumption DEF TypeOK
<1>9. goes("play") => "play" \in e.lists
  OBVIOUS
<1> HIDE DEF goes, put
<1>10. ASSUME NEW l \in DOMAIN lists
       PROVE  /\ lists'[l] \in Playlist /\ lists'[l].order = lists[l].order
              /\ \/ lists'[l] = lists[l]
                 \/ /\ hash \notin ToSet(lists[l].sort)
                    /\ lists'[l].sort = Append(lists[l].sort, hash)
                    /\ lists'[l].custom = Append(lists[l].custom, hash)
  <2>1. CASE goes(l)
    <3>1. lists'[l] = put(l)
      BY <1>4, <2>1
    <3> QED BY <2>1, <3>1, <1>7
  <2>2. CASE ~goes(l)
    <3>1. lists'[l] = lists[l] /\ lists[l] \in Playlist
      BY <1>4, <2>2 DEF TypeOK
    <3> QED BY <3>1
  <2> QED BY <2>1, <2>2
<1>11. DOMAIN lists' = DOMAIN lists
  BY <1>4
<1>12. ListsOK(lists')
  BY <1>10, <1>11 DEF TypeOK, ListsOK
<1>13. \/ queue' = queue /\ lists'["play"] = lists["play"]
       \/ /\ queue' = Append(queue, hash)
          /\ lists'["play"] = lists["play"] => hash \in ToSet(lists["play"].sort)
  <2>1. CASE "play" \in e.lists /\ goes("play")
    <3>1. lists'["play"].sort = Append(lists["play"].sort, hash)
      BY <1>4, <1>7, <1>8, <2>1
    <3>2. lists["play"].sort \in Seq(Hashes)
      BY <1>8, PlaylistParts DEF TypeOK
    <3>3. hash \in ToSet(Append(lists["play"].sort, hash))
      <4> DEFINE s == lists["play"].sort
                 r == Append(s, hash)
      <4> HIDE DEF s
      <4>1. s \in Seq(Hashes)
        BY <3>2 DEF s
      <4>2. ToSet(r) = ToSet(s) \cup {hash}
        BY <1>6, <4>1, AppendEntries
      <4> HIDE DEF r
      <4>3. hash \in ToSet(r)
        BY <4>2
      <4> QED BY <4>3 DEF r, s
    <3> QED BY <1>3, <2>1, <3>1, <3>3
  <2>2. CASE "play" \in e.lists /\ ~goes("play")
    BY <1>3, <1>7, <1>8, <2>2
  <2>3. CASE "play" \notin e.lists
    <3>1. lists'["play"] = lists["play"]
      BY <1>4, <1>8, <1>9, <2>3
    <3> QED BY <1>3, <2>3, <3>1
  <2> QED BY <2>1, <2>2, <2>3
<1> QED BY <1>1, <1>3, <1>5, <1>10, <1>11, <1>12, <1>13

\* "play" and the queue are emptied.
LEMMA ClearOutcome ==
  ASSUME TypeOK, ClearPlay
  PROVE  queue' = <<>> /\ Updated(lists', "play", <<>>, <<>>, lists["play"].order)
<1>1. "play" \in DOMAIN lists
  BY ListsAssumption DEF TypeOK
<1>2. /\ lists' = [lists EXCEPT !["play"].sort = <<>>, !["play"].custom = <<>>]
      /\ queue' = <<>>
  BY DEF ClearPlay
<1>3. <<>> \in Seq(Hashes)
  OBVIOUS
<1> QED BY <1>1, <1>2, <1>3, ListsUpdate

\* A playlist that was not there is new, and what was there is as it was.
LEMMA ListOutcome ==
  ASSUME TypeOK, NEW l \in UserLists, AddPlayList(l) \/ DeletePlaylist(l)
  PROVE  /\ ListsOK(lists') /\ queue' = queue /\ UNCHANGED <<known, arriving, imports>>
         /\ \A x \in DOMAIN lists \cap DOMAIN lists' : lists'[x] = lists[x]
         /\ current' \in DOMAIN lists' \cup {"", "album"}
<1>1. FixedLists \subseteq DOMAIN lists /\ DOMAIN lists \subseteq AllLists
      /\ \A x \in DOMAIN lists : lists[x] \in Playlist
  BY DEF TypeOK
<1>2. CASE AddPlayList(l)
  <2>1. lists' = [x \in DOMAIN lists \cup {l} |-> IF x = l THEN NewPlaylist ELSE lists[x]]
        /\ l \notin DOMAIN lists
        /\ UNCHANGED <<known, current, queue, arriving, imports>>
    BY <1>2 DEF AddPlayList
  <2>2. DOMAIN lists' = DOMAIN lists \cup {l} /\ l \in AllLists
    BY <2>1 DEF AllLists
  <2>3. /\ \A x \in DOMAIN lists : lists'[x] = lists[x]
        /\ lists'[l] \in Playlist
    BY <2>1, NewPlaylistType
  <2>4. ListsOK(lists')
    BY <1>1, <2>2, <2>3 DEF ListsOK
  <2>5. current' \in DOMAIN lists' \cup {"", "album"}
    BY <2>1, <2>2 DEF TypeOK
  <2> QED BY <2>1, <2>3, <2>4, <2>5
<1>3. CASE DeletePlaylist(l)
  <2>1. /\ lists' = [x \in DOMAIN lists \ {l} |-> lists[x]]
        /\ current' = IF current = l THEN "" ELSE current
        /\ UNCHANGED <<known, queue, arriving, imports>>
    BY <1>3 DEF DeletePlaylist
  <2>2. DOMAIN lists' = DOMAIN lists \ {l} /\ l \notin FixedLists
    BY <2>1, ListsAssumption
  <2>3. \A x \in DOMAIN lists' : lists'[x] = lists[x]
    BY <2>1
  <2>4. ListsOK(lists')
    BY <1>1, <2>2, <2>3 DEF ListsOK
  <2>5. current' \in DOMAIN lists' \cup {"", "album"}
    BY <2>1, <2>2 DEF TypeOK
  <2> QED BY <2>1, <2>3, <2>4, <2>5
<1> QED BY <1>2, <1>3

\* A playlist that is read from the database has what it showed, every track once.
LEMMA RestartOutcome ==
  ASSUME TypeOK, Restart
  PROVE  /\ ListsOK(lists') /\ DOMAIN lists' = DOMAIN lists /\ queue' = lists'["play"].sort
         /\ \A l \in DOMAIN lists :
               /\ NoRepeats(lists'[l].sort) /\ ToSet(lists'[l].sort) \subseteq known
               /\ lists'[l].order = lists[l].order
               /\ lists[l].order = "custom" => lists'[l].custom = lists'[l].sort
<1>1. /\ lists' = [l \in DOMAIN lists |-> Reloaded(l)]
      /\ queue' = lists'["play"].sort
  BY DEF Restart
<1>2. ASSUME NEW l \in DOMAIN lists
      PROVE  /\ lists'[l] \in Playlist
             /\ NoRepeats(lists'[l].sort) /\ ToSet(lists'[l].sort) \subseteq known
             /\ lists'[l].order = lists[l].order
             /\ lists[l].order = "custom" => lists'[l].custom = lists'[l].sort
  <2> DEFINE metas == PlaylistMetas(l)
             sort == Once(metas)
             custom == IF lists[l].order = "custom" THEN sort ELSE <<>>
             new == [sort |-> sort, order |-> lists[l].order, custom |-> custom]
  <2>1. metas \in Seq(Hashes) /\ ToSet(metas) \subseteq known
    BY MetasType
  <2> HIDE DEF metas
  <2>2. sort \in Seq(Hashes) /\ ToSet(sort) = ToSet(metas) /\ NoRepeats(sort)
    BY <2>1, OnceFacts
  <2>3. lists[l].order \in Orders
    BY PlaylistParts DEF TypeOK
  <2>4. lists'[l] = new
    BY <1>1 DEF Reloaded, metas
  <2> HIDE DEF sort
  <2>5. custom \in Seq(Hashes)
    BY <2>2
  <2>6. new \in Playlist
    BY <2>2, <2>3, <2>5 DEF Playlist
  <2>7. /\ new.sort = sort /\ new.order = lists[l].order
        /\ lists[l].order = "custom" => new.custom = sort
    OBVIOUS
  <2> HIDE DEF new
  <2> QED BY <2>1, <2>2, <2>4, <2>6, <2>7
<1>3. DOMAIN lists' = DOMAIN lists
  BY <1>1
<1>4. ListsOK(lists')
  BY <1>2, <1>3 DEF TypeOK, ListsOK
<1> QED BY <1>1, <1>2, <1>3, <1>4

LEMMA OneMoreImport ==
  ASSUME NEW i \in 0 .. MaxImports, i < MaxImports
  PROVE  i + 1 \in 0 .. MaxImports
BY BoundsAssumption

LEMMA ImportType ==
  ASSUME TypeOK, NEW t \in Tracks, NEW target \in AllLists \cup {""}, ImportMetas(t, target)
  PROVE  /\ arriving' \in Seq(Event) /\ imports' \in 0 .. MaxImports
         /\ UNCHANGED <<known, lists, current, queue>>
<1>1. imports < MaxImports /\ imports' = imports + 1 /\ UNCHANGED <<known, lists, current, queue>>
  BY DEF ImportMetas
<1>2. target \in DOMAIN lists \cup {""} /\ DOMAIN lists \subseteq AllLists
      /\ "play" \in AllLists /\ "all" \in AllLists
  BY ListsAssumption DEF ImportMetas, TypeOK, AllLists
<1>3. \E L \in SUBSET AllLists : arriving' = Append(arriving, [track |-> t, lists |-> L])
  <2> DEFINE toPlay == {l \in {"play"} :
                          /\ current = (IF target = "" THEN "all" ELSE target)
                          /\ (IF target = "" THEN "all" ELSE target) # "play"}
  <2>1. CASE /\ t \notin known
             /\ arriving' = Append(arriving,
                    [track |-> t, lists |-> {"all"} \cup ({target} \ {""}) \cup toPlay])
    <3>1. {"all"} \cup ({target} \ {""}) \cup toPlay \in SUBSET AllLists
      BY <1>2
    <3> HIDE DEF toPlay
    <3> QED BY <2>1, <3>1
  <2>2. CASE target # "" /\ arriving' = Append(arriving, [track |-> t, lists |-> {target}])
    <3>1. {target} \in SUBSET AllLists
      BY <1>2, <2>2
    <3> QED BY <2>2, <3>1
  <2> QED BY <2>1, <2>2 DEF ImportMetas
<1>4. PICK L \in SUBSET AllLists : arriving' = Append(arriving, [track |-> t, lists |-> L])
  BY <1>3
<1> DEFINE e == [track |-> t, lists |-> L]
<1>5. e \in Event
  BY DEF Event
<1> HIDE DEF e
<1>6. arriving' \in Seq(Event)
  <2>1. arriving' = Append(arriving, e)
    BY <1>4 DEF e
  <2> QED BY <1>5, <2>1, AppendProperties DEF TypeOK
<1>7. imports' \in 0 .. MaxImports
  <2>1. imports \in 0 .. MaxImports
    BY DEF TypeOK
  <2> QED BY <1>1, <2>1, OneMoreImport
<1> QED BY <1>1, <1>6, <1>7

-----------------------------------------------------------------------------
(* The invariant. *)

LEMMA UpdatedType ==
  ASSUME NEW f, NEW l, NEW s, NEW c, NEW o, Updated(f, l, s, c, o)
  PROVE  ListsOK(f) /\ DOMAIN f = DOMAIN lists
BY DEF Updated

\* Steps of the operations that leave the imports alone.
LEMMA QuietStep ==
  ASSUME TypeOK, ListsOK(lists'), DOMAIN lists' = DOMAIN lists, known' \subseteq known,
         queue' \in Seq(Hashes), current' \in DOMAIN lists \cup {"", "album"},
         UNCHANGED <<arriving, imports>>
  PROVE  TypeOK'
<1>1. known' \subseteq Tracks /\ arriving' \in Seq(Event) /\ imports' \in 0 .. MaxImports
  BY DEF TypeOK
<1> QED BY <1>1, TypeAfter

LEMMA TypeStep == TypeOK /\ [Next]_vars => TypeOK'
<1> SUFFICES ASSUME TypeOK, [Next]_vars PROVE TypeOK'
  OBVIOUS
<1>1. queue \in Seq(Hashes) /\ known \subseteq Tracks /\ current \in DOMAIN lists \cup {"", "album"}
      /\ "play" \in DOMAIN lists
  BY ListsAssumption DEF TypeOK
<1>2. ASSUME NEW t \in Tracks, NEW l \in AllLists, AddMetasToPlayList(t, l) PROVE TypeOK'
  <2>1. /\ ListsOK(lists') /\ DOMAIN lists' = DOMAIN lists
        /\ queue' = queue \/ queue' = Append(queue, t)
    BY <1>2, AddOutcome
  <2>2. Append(queue, t) \in Seq(Hashes)
    BY <1>1, AppendFacts DEF Hashes
  <2>3. UNCHANGED <<known, current, arriving, imports>>
    BY <1>2 DEF AddMetasToPlayList
  <2> QED BY <1>1, <2>1, <2>2, <2>3, QuietStep
<1>3. ASSUME NEW t \in Tracks, NEW l \in AllLists, RemoveFromOne(t, l) PROVE TypeOK'
  <2>1. /\ \E s, c : Updated(lists', l, s, c, lists[l].order)
        /\ IF l = "play" THEN Lost(queue', queue, t, TRUE) ELSE queue' = queue
    BY <1>3, RemoveOneOutcome
  <2>2. ListsOK(lists') /\ DOMAIN lists' = DOMAIN lists
    BY <2>1, UpdatedType
  <2>3. queue' \in Seq(Hashes)
    BY <1>1, <2>1 DEF Lost
  <2>4. UNCHANGED <<known, arriving, imports>> /\ current' \in {current, ""}
    BY <1>3 DEF RemoveFromOne, CurrentWithout
  <2> QED BY <1>1, <2>2, <2>3, <2>4, QuietStep
<1>4. ASSUME NEW t \in Tracks, NEW from \in AllLists \cup {"album"}, NEW direct \in BOOLEAN,
             RemoveFromAll(t, from, direct)
      PROVE  TypeOK'
  <2>1. /\ ListsOK(lists') /\ DOMAIN lists' = DOMAIN lists /\ known' = known \ {t}
        /\ Lost(queue', queue, t, t \in ToSet(lists["play"].sort))
    BY <1>4, RemoveAllOutcome
  <2>2. queue' \in Seq(Hashes)
    BY <2>1 DEF Lost
  <2>3. UNCHANGED <<arriving, imports>> /\ current' \in {current, ""}
    <3>1. /\ UNCHANGED <<arriving, imports>>
          /\ \E empty \in BOOLEAN : current' = CurrentWithout(from, empty)
      <4> DEFINE empty == from = "album" \/ lists'[from].sort = <<>>
      <4>1. current' = CurrentWithout(from, empty) /\ UNCHANGED <<arriving, imports>>
        BY <1>4 DEF RemoveFromAll
      <4>2. empty \in BOOLEAN
        OBVIOUS
      <4> HIDE DEF empty
      <4> QED BY <4>1, <4>2
    <3> QED BY <3>1 DEF CurrentWithout
  <2> QED BY <1>1, <2>1, <2>2, <2>3, QuietStep
<1>5. ASSUME NEW l \in AllLists, SortPlaylist(l) \/ CustomSort(l) PROVE TypeOK'
  <2>1. ListsOK(lists') /\ DOMAIN lists' = DOMAIN lists /\ queue' = queue
    <3>1. Resorted(l)
      BY <1>5, SortOutcome, Zenon
    <3> QED BY <3>1 DEF Resorted
  <2>2. UNCHANGED <<known, current, arriving, imports>>
    BY <1>5 DEF SortPlaylist, CustomSort
  <2> QED BY <1>1, <2>1, <2>2, QuietStep
<1>6. ASSUME \/ \E l \in AllLists : PlayPlaylist(l)
             \/ \E S \in Selections : \E metas \in SetToSeqs(S) : PlayAlbum(metas)
      PROVE  TypeOK'
  <2>1. /\ current' \in DOMAIN lists \cup {"album"} /\ UNCHANGED <<known, arriving, imports>>
        /\ \/ UNCHANGED <<queue, lists>>
           \/ \E metas \in Seq(Hashes) : Load(metas)
    BY <1>6, PlayOutcome
  <2>2. CASE UNCHANGED <<queue, lists>>
    <3>1. ListsOK(lists') /\ DOMAIN lists' = DOMAIN lists
      BY <2>2 DEF TypeOK, ListsOK
    <3> QED BY <1>1, <2>1, <2>2, <3>1, QuietStep
  <2>3. CASE \E metas \in Seq(Hashes) : Load(metas)
    <3>1. PICK metas \in Seq(Hashes) : Load(metas)
      BY <2>3
    <3>2. queue' = metas /\ ListsOK(lists') /\ DOMAIN lists' = DOMAIN lists
      BY <3>1, LoadOutcome, UpdatedType
    <3> QED BY <1>1, <2>1, <3>2, QuietStep
  <2> QED BY <2>1, <2>2, <2>3
<1>7. ASSUME NEW S \in Selections, NEW l \in AllLists, NEW next \in Hashes,
             MoveMetasPlayList(S, l, next)
      PROVE  TypeOK'
  <2> DEFINE sort == Moved(lists[l].sort, S, next)
  <2>1. /\ sort \in Seq(Hashes) /\ Updated(lists', l, sort, sort, lists[l].order)
        /\ queue' = IF l = "play" THEN KnownOf(sort) ELSE queue
    BY <1>7, MoveOutcome
  <2> HIDE DEF sort
  <2>2. ListsOK(lists') /\ DOMAIN lists' = DOMAIN lists
    BY <2>1, UpdatedType
  <2>3. queue' \in Seq(Hashes)
    BY <1>1, <2>1, OfType DEF KnownOf
  <2>4. UNCHANGED <<known, current, arriving, imports>>
    BY <1>7 DEF MoveMetasPlayList
  <2> QED BY <1>1, <2>2, <2>3, <2>4, QuietStep
<1>8. ASSUME NEW t \in Tracks, NEW target \in AllLists \cup {""}, ImportMetas(t, target)
      PROVE  TypeOK'
  BY <1>8, ImportType DEF TypeOK
<1>9. ASSUME NEW l \in UserLists, AddPlayList(l) \/ DeletePlaylist(l) PROVE TypeOK'
  <2>1. /\ ListsOK(lists') /\ queue' = queue /\ UNCHANGED <<known, arriving, imports>>
        /\ current' \in DOMAIN lists' \cup {"", "album"}
    BY <1>9, ListOutcome
  <2> QED BY <2>1 DEF TypeOK, ListsOK
<1>10. ASSUME ClearPlay PROVE TypeOK'
  <2>1. queue' = <<>> /\ ListsOK(lists') /\ DOMAIN lists' = DOMAIN lists
    BY <1>10, ClearOutcome, UpdatedType
  <2>2. UNCHANGED <<known, current, arriving, imports>>
    BY <1>10 DEF ClearPlay
  <2>3. queue' \in Seq(Hashes)
    BY <2>1
  <2> QED BY <1>1, <2>1, <2>2, <2>3, QuietStep
<1>11. ASSUME SlotAddOneMeta PROVE TypeOK'
  <2>1. PICK hash \in known' \cup {NoTrack} :
            /\ known' \subseteq Tracks /\ arriving' \in Seq(Event)
            /\ UNCHANGED <<current, imports>>
            /\ ListsOK(lists') /\ DOMAIN lists' = DOMAIN lists
            /\ queue' = queue \/ queue' = Append(queue, hash)
    BY <1>11, SlotOutcome
  <2>2. hash \in Hashes
    BY <2>1 DEF Hashes
  <2>3. queue' \in Seq(Hashes)
    BY <1>1, <2>1, <2>2, AppendFacts
  <2>4. current' \in DOMAIN lists' \cup {"", "album"} /\ imports' \in 0 .. MaxImports
    BY <1>1, <2>1 DEF TypeOK
  <2> QED BY <2>1, <2>3, <2>4, TypeAfter
<1>12. ASSUME Restart PROVE TypeOK'
  <2>1. /\ ListsOK(lists') /\ DOMAIN lists' = DOMAIN lists /\ queue' = lists'["play"].sort
    BY <1>12, RestartOutcome
  <2>2. queue' \in Seq(Hashes)
    BY <1>1, <2>1, PlaylistParts DEF ListsOK
  <2>3. /\ current' \in DOMAIN lists \cup {"album"} /\ arriving' = <<>>
        /\ UNCHANGED <<known, imports>>
    BY <1>12 DEF Restart
  <2>4. known' \subseteq Tracks /\ imports' \in 0 .. MaxImports
    BY <2>3 DEF TypeOK
  <2>5. arriving' \in Seq(Event)
    BY <2>3
  <2>6. current' \in DOMAIN lists' \cup {"", "album"}
    BY <2>1, <2>3
  <2> QED BY <2>1, <2>2, <2>4, <2>5, <2>6, TypeAfter
<1>13. CASE UNCHANGED vars
  BY <1>13 DEF vars, TypeOK
<1> QED
  BY <1>2, <1>3, <1>4, <1>5, <1>6, <1>7, <1>8, <1>9, <1>10, <1>11, <1>12, <1>13 DEF Next

\* Every variable of the playlists has its type: each list has hashes only, also in the
\* part of it that is not shown.
THEOREM PlaylistsTyped == Spec => []TypeOK
<1>1. TypeOK /\ [Next]_vars => TypeOK'
  BY TypeStep
<1> QED BY InitType, <1>1, PTL DEF Spec

\* moveMetasPlayList() loses and doubles nothing, whatever is moved before whatever, and
\* puts it where it was dropped, other than before the last track that remains.
THEOREM MovesKeep == Spec => []MoveKeepsOthers
<1>1. TypeOK => MoveKeepsOthers
  <2> DEFINE entries == known \cup {NoTrack}
  <2> SUFFICES ASSUME TypeOK, NEW hashes \in SetToSeqs(entries), NEW S \in Selections,
                      NEW next \in Hashes
      PROVE  LET rest == Of(hashes, entries \ S)
                 after == Moved(hashes, S, next)
             IN  /\ Of(after, S) = Of(hashes, S) /\ Of(after, entries \ S) = rest
                 /\ next = NoTrack => after = rest \o Of(hashes, S)
                 /\ \A i \in DOMAIN after :
                       after[i] = next /\ next \notin S \cup {NoTrack, Last(rest)}
                       => LET n == Len(Of(hashes, S))
                          IN  i > n /\ SubSeq(after, i - n, i - 1) = Of(hashes, S)
    BY DEF MoveKeepsOthers
  <2> DEFINE after == Moved(hashes, S, next)
             O == ToSet(hashes) \ S
  <2>1. IsFiniteSet(entries)
    BY KnownIsFinite, FS_AddElement
  <2>2. hashes \in Seq(entries) /\ NoRepeats(hashes)
    <3> HIDE DEF entries
    <3> QED BY <2>1, SeqsOf
  <2> HIDE DEF entries
  <2>3. ToSet(hashes) \subseteq entries
    BY <2>2 DEF ToSet
  <2>4. /\ ToSet(after) = ToSet(hashes) /\ Of(after, S) = Of(hashes, S)
        /\ Of(after, O) = Of(hashes, O)
    <3>1. hashes \in Seq(entries)
      BY <2>2
    <3>2. Rearranged(entries, after, hashes, S)
      BY <3>1, MovedFacts
    <3> HIDE DEF after
    <3> QED BY <3>2 DEF Rearranged
  <2>5. Of(hashes, O) = Of(hashes, entries \ S)
    BY <2>3, OfSame
  <2>6. Of(after, O) = Of(after, entries \ S)
    <3> HIDE DEF after
    <3> QED BY <2>3, <2>4, OfSame
  <2>7. ASSUME NEW i \in DOMAIN after, after[i] = next, next \notin S,
               next # NoTrack, next # Last(Of(hashes, entries \ S))
        PROVE  LET n == Len(Of(hashes, S))
               IN  i > n /\ SubSeq(after, i - n, i - 1) = Of(hashes, S)
    BY <2>2, <2>5, <2>7, MovedInPlace
  <2>8. ASSUME next = NoTrack PROVE after = Of(hashes, entries \ S) \o Of(hashes, S)
    BY <2>2, <2>5, <2>8, MovedToEnd
  <2> QED BY <2>4, <2>5, <2>6, <2>7, <2>8
<1> QED BY <1>1, PlaylistsTyped, PTL

\* Without the user's own order of "all", which has none, every playlist that is shown as
\* it is lists what is shown; and "play" lists tracks of the library, each once.
AllIsSorted == lists["all"].order # "custom"
PlayListsOnce ==
    /\ NoRepeats(lists["play"].sort)
    /\ ToSet(lists["play"].sort) \subseteq known \cup {NoTrack}

Inv == TypeOK /\ AllIsSorted /\ PlayListsOnce

LEMMA InitInv == Init => Inv
<1> SUFFICES ASSUME Init PROVE Inv
  OBVIOUS
<1> DEFINE all == [sort |-> Of(Ascending, known), custom |-> <<>>, order |-> "asc"]
<1>1. "all" \in FixedLists /\ "play" \in FixedLists
  BY ListsAssumption
<1>2. lists = [l \in FixedLists |-> IF l = "all" THEN all ELSE NewPlaylist]
  BY DEF Init, Library
<1>3. all.order = "asc"
  OBVIOUS
<1> HIDE DEF all
<1>4. lists["all"] = all /\ lists["play"] = NewPlaylist
  BY <1>1, <1>2
<1>5. lists["play"].sort = <<>>
  BY <1>4 DEF NewPlaylist
<1>6. PlayListsOnce
  BY <1>5 DEF PlayListsOnce, NoRepeats, ToSet
<1> QED BY <1>3, <1>4, <1>6, InitType DEF Inv, AllIsSorted

\* An operation that leaves "play" alone and takes nothing from the library.
LEMMA PlayStays ==
  ASSUME PlayListsOnce, lists'["play"].sort = lists["play"].sort, known \subseteq known'
  PROVE  PlayListsOnce'
BY DEF PlayListsOnce

LEMMA InvStep == Inv /\ [Next]_vars => Inv'
<1> SUFFICES ASSUME Inv, [Next]_vars PROVE Inv'
  OBVIOUS
<1>1. /\ TypeOK /\ TypeOK' /\ AllIsSorted /\ PlayListsOnce
      /\ "all" \in DOMAIN lists /\ "play" \in DOMAIN lists
      /\ lists["play"].sort \in Seq(Hashes)
  <2>1. TypeOK /\ TypeOK' /\ AllIsSorted /\ PlayListsOnce
    BY TypeStep DEF Inv
  <2>2. "all" \in DOMAIN lists /\ "play" \in DOMAIN lists /\ lists["play"] \in Playlist
    BY <2>1, ListsAssumption DEF TypeOK
  <2> QED BY <2>1, <2>2, PlaylistParts
<1>2. SUFFICES AllIsSorted' /\ PlayListsOnce'
  BY <1>1 DEF Inv
<1>3. ASSUME NEW t \in Tracks, NEW l \in AllLists, AddMetasToPlayList(t, l)
      PROVE  AllIsSorted' /\ PlayListsOnce'
  <2>1. /\ lists'["all"].order = lists["all"].order
        /\ \/ lists'["play"].sort = lists["play"].sort
           \/ /\ t \notin ToSet(lists["play"].sort)
              /\ lists'["play"].sort = Append(lists["play"].sort, t)
    BY <1>1, <1>3, AddOutcome
  <2>2. known' = known /\ t \in known
    BY <1>3 DEF AddMetasToPlayList
  <2>3. CASE lists'["play"].sort = lists["play"].sort
    BY <1>1, <2>1, <2>2, <2>3, PlayStays DEF AllIsSorted
  <2>4. CASE /\ t \notin ToSet(lists["play"].sort)
             /\ lists'["play"].sort = Append(lists["play"].sort, t)
    <3> DEFINE s == lists["play"].sort
               r == Append(s, t)
    <3>1. /\ s \in Seq(Hashes) /\ t \in Hashes
          /\ NoRepeats(s) /\ ToSet(s) \subseteq known \cup {NoTrack}
      BY <1>1 DEF PlayListsOnce, Hashes
    <3> HIDE DEF s
    <3>2. ToSet(r) = ToSet(s) \cup {t} /\ (NoRepeats(r) <=> NoRepeats(s) /\ t \notin ToSet(s))
      BY <3>1, AppendEntries
    <3>3. lists'["play"].sort = r /\ t \notin ToSet(s)
      BY <2>4 DEF s
    <3> HIDE DEF r
    <3> QED BY <1>1, <2>1, <2>2, <3>1, <3>2, <3>3 DEF PlayListsOnce, AllIsSorted
  <2> QED BY <2>1, <2>3, <2>4
<1>4. ASSUME NEW t \in Tracks, NEW l \in AllLists, RemoveFromOne(t, l)
      PROVE  AllIsSorted' /\ PlayListsOnce'
  <2>1. /\ l \in DOMAIN lists \ {"all"}
        /\ \E c, s : /\ Updated(lists', l, s, c, lists[l].order)
                     /\ Less(Hashes, s, lists[l].sort, t)
    BY <1>1, <1>4, RemoveOneOutcome
  <2>2. PICK c, s : /\ Updated(lists', l, s, c, lists[l].order)
                    /\ Less(Hashes, s, lists[l].sort, t)
    BY <2>1
  <2>3. AllIsSorted' /\ known' = known
    BY <1>1, <1>4, <2>1, <2>2 DEF AllIsSorted, Updated, RemoveFromOne
  <2>4. CASE l # "play"
    <3>1. lists'["play"] = lists["play"]
      BY <1>1, <2>2, <2>4 DEF Updated
    <3> QED BY <1>1, <2>3, <3>1, PlayStays
  <2>5. CASE l = "play"
    <3>1. lists'["play"].sort = s /\ Less(Hashes, s, lists["play"].sort, t)
      BY <2>2, <2>5 DEF Updated
    <3> QED BY <1>1, <2>3, <3>1 DEF PlayListsOnce, Less
  <2> QED BY <2>3, <2>4, <2>5
<1>5. ASSUME NEW t \in Tracks, NEW from \in AllLists \cup {"album"}, NEW direct \in BOOLEAN,
             RemoveFromAll(t, from, direct)
      PROVE  AllIsSorted' /\ PlayListsOnce'
  <2>1. /\ known' = known \ {t}
        /\ \A l \in DOMAIN lists : /\ lists'[l].order = lists[l].order
                                   /\ Less(Hashes, lists'[l].sort, lists[l].sort, t)
    BY <1>1, <1>5, RemoveAllOutcome
  <2>2. AllIsSorted' /\ Less(Hashes, lists'["play"].sort, lists["play"].sort, t)
    BY <1>1, <2>1 DEF AllIsSorted
  <2>3. NoTrack # t
    BY TracksAssumption
  <2> QED BY <1>1, <2>1, <2>2, <2>3 DEF PlayListsOnce, Less
<1>6. ASSUME NEW l \in AllLists, SortPlaylist(l) \/ CustomSort(l)
      PROVE  AllIsSorted' /\ PlayListsOnce'
  <2>1. /\ l \in DOMAIN lists \ {"play"}
        /\ \A x \in DOMAIN lists : x # l => lists'[x] = lists[x]
        /\ lists'[l].order = "custom" => l # "all"
    BY <1>1, <1>6, SortOutcome DEF Resorted
  <2>2. known' = known /\ lists'["play"] = lists["play"]
    BY <1>1, <1>6, <2>1 DEF SortPlaylist, CustomSort
  <2>3. AllIsSorted'
    BY <1>1, <2>1 DEF AllIsSorted
  <2> QED BY <1>1, <2>2, <2>3, PlayStays
<1>7. ASSUME \/ \E l \in AllLists : PlayPlaylist(l)
             \/ \E S \in Selections : \E metas \in SetToSeqs(S) : PlayAlbum(metas)
      PROVE  AllIsSorted' /\ PlayListsOnce'
  <2>1. /\ UNCHANGED known
        /\ \/ UNCHANGED <<queue, lists>>
           \/ \E metas \in Seq(Hashes) : Load(metas) /\ ToSet(metas) \subseteq known
    BY <1>1, <1>7, PlayOutcome
  <2>2. CASE UNCHANGED lists
    BY <1>1, <2>1, <2>2, PlayStays DEF AllIsSorted
  <2>3. CASE \E metas \in Seq(Hashes) : Load(metas) /\ ToSet(metas) \subseteq known
    <3>1. PICK metas \in Seq(Hashes) : Load(metas) /\ ToSet(metas) \subseteq known
      BY <2>3
    <3>2. Updated(lists', "play", Once(metas), Once(metas), lists["play"].order)
      BY <1>1, <3>1, LoadOutcome
    <3>3. ToSet(Once(metas)) = ToSet(metas) /\ NoRepeats(Once(metas))
      BY OnceFacts
    <3>4. AllIsSorted' /\ lists'["play"].sort = Once(metas)
      BY <1>1, <3>2 DEF AllIsSorted, Updated
    <3> QED BY <2>1, <3>1, <3>3, <3>4 DEF PlayListsOnce
  <2> QED BY <2>1, <2>2, <2>3
<1>8. ASSUME NEW S \in Selections, NEW l \in AllLists, NEW next \in Hashes,
             MoveMetasPlayList(S, l, next)
      PROVE  AllIsSorted' /\ PlayListsOnce'
  <2> DEFINE sort == Moved(lists[l].sort, S, next)
  <2>1. /\ l \in DOMAIN lists \ {"all"} /\ ToSet(sort) = ToSet(lists[l].sort)
        /\ NoRepeats(lists[l].sort) => NoRepeats(sort)
        /\ Updated(lists', l, sort, sort, lists[l].order)
    BY <1>1, <1>8, MoveOutcome
  <2> HIDE DEF sort
  <2>2. known' = known /\ AllIsSorted'
    BY <1>1, <1>8, <2>1 DEF AllIsSorted, Updated, MoveMetasPlayList
  <2>3. CASE l # "play"
    <3>1. lists'["play"] = lists["play"]
      BY <1>1, <2>1, <2>3 DEF Updated
    <3> QED BY <1>1, <2>2, <3>1, PlayStays
  <2>4. CASE l = "play"
    <3>1. lists'["play"].sort = sort
      BY <2>1, <2>4 DEF Updated
    <3> QED BY <1>1, <2>1, <2>2, <2>4, <3>1 DEF PlayListsOnce
  <2> QED BY <2>3, <2>4, <2>2
<1>9. ASSUME NEW t \in Tracks, NEW target \in AllLists \cup {""}, ImportMetas(t, target)
      PROVE  AllIsSorted' /\ PlayListsOnce'
  <2>1. UNCHANGED <<known, lists>>
    BY <1>1, <1>9, ImportType
  <2> QED BY <1>1, <2>1, PlayStays DEF AllIsSorted
<1>10. ASSUME NEW l \in UserLists, AddPlayList(l) \/ DeletePlaylist(l)
       PROVE  AllIsSorted' /\ PlayListsOnce'
  <2>1. /\ \A x \in DOMAIN lists \cap DOMAIN lists' : lists'[x] = lists[x]
        /\ known' = known /\ ListsOK(lists')
    BY <1>1, <1>10, ListOutcome
  <2>2. lists'["all"] = lists["all"] /\ lists'["play"] = lists["play"]
    BY <1>1, <2>1, ListsAssumption DEF ListsOK
  <2> QED BY <1>1, <2>1, <2>2, PlayStays DEF AllIsSorted
<1>11. ASSUME ClearPlay PROVE AllIsSorted' /\ PlayListsOnce'
  <2>1. Updated(lists', "play", <<>>, <<>>, lists["play"].order)
    BY <1>1, <1>11, ClearOutcome
  <2>2. lists'["play"].sort = <<>> /\ AllIsSorted'
    BY <1>1, <2>1 DEF Updated, AllIsSorted
  <2> QED BY <2>2 DEF PlayListsOnce, NoRepeats, ToSet
<1>12. ASSUME SlotAddOneMeta PROVE AllIsSorted' /\ PlayListsOnce'
  <2>1. PICK hash \in known' \cup {NoTrack} :
            /\ known \subseteq known' /\ known' \subseteq Tracks
            /\ \A l \in DOMAIN lists :
                  /\ lists'[l].order = lists[l].order
                  /\ \/ lists'[l] = lists[l]
                     \/ /\ hash \notin ToSet(lists[l].sort)
                        /\ lists'[l].sort = Append(lists[l].sort, hash)
    BY <1>1, <1>12, SlotOutcome
  <2>2. AllIsSorted' /\ \/ lists'["play"] = lists["play"]
                        \/ /\ hash \notin ToSet(lists["play"].sort)
                           /\ lists'["play"].sort = Append(lists["play"].sort, hash)
    BY <1>1, <2>1 DEF AllIsSorted
  <2>3. CASE lists'["play"] = lists["play"]
    BY <1>1, <2>1, <2>2, <2>3, PlayStays
  <2>4. CASE /\ hash \notin ToSet(lists["play"].sort)
             /\ lists'["play"].sort = Append(lists["play"].sort, hash)
    <3> DEFINE s == lists["play"].sort
               r == Append(s, hash)
    <3>1. /\ s \in Seq(Hashes) /\ hash \in Hashes /\ NoRepeats(s)
          /\ ToSet(s) \subseteq known \cup {NoTrack}
      BY <1>1, <2>1 DEF PlayListsOnce, Hashes
    <3> HIDE DEF s
    <3>2. ToSet(r) = ToSet(s) \cup {hash}
          /\ (NoRepeats(r) <=> NoRepeats(s) /\ hash \notin ToSet(s))
      BY <3>1, AppendEntries
    <3>3. lists'["play"].sort = r /\ hash \notin ToSet(s)
      BY <2>4 DEF s
    <3> HIDE DEF r
    <3> QED BY <2>1, <2>2, <3>1, <3>2, <3>3 DEF PlayListsOnce
  <2> QED BY <2>2, <2>3, <2>4
<1>13. ASSUME Restart PROVE AllIsSorted' /\ PlayListsOnce'
  <2>1. \A l \in DOMAIN lists :
           /\ NoRepeats(lists'[l].sort) /\ ToSet(lists'[l].sort) \subseteq known
           /\ lists'[l].order = lists[l].order
    BY <1>1, <1>13, RestartOutcome
  <2>2. known' = known
    BY <1>13 DEF Restart
  <2> QED BY <1>1, <2>1, <2>2 DEF AllIsSorted, PlayListsOnce
<1>14. CASE UNCHANGED vars
  BY <1>1, <1>14 DEF vars, AllIsSorted, PlayListsOnce
<1> QED
  BY <1>3, <1>4, <1>5, <1>6, <1>7, <1>8, <1>9, <1>10, <1>11, <1>12, <1>13, <1>14 DEF Next

LEMMA InvAlways == Spec => []Inv
<1> QED BY InitInv, InvStep, PTL DEF Spec

-----------------------------------------------------------------------------
(* What is played. *)

\* playPlaylist() leaves what the playlist shows in the queue: if it leaves the queue as
\* it is, every track of the playlist is in the library, and the queue has the same.
THEOREM ShownIsPlayed == Spec => PlaysWhatIsShown
<1>1. ASSUME Inv, NEW l \in DOMAIN lists, PlayPlaylist(l) PROVE queue' = PlaylistMetas(l)
  <2>1. TypeOK /\ AllIsSorted /\ lists[l] \in Playlist
    BY <1>1 DEF Inv, TypeOK
  <2>2. CASE Load(PlaylistMetas(l))
    BY <2>2 DEF Load
  <2>3. CASE queue # <<>> /\ IsPlaylistQueueMatched(l) /\ UNCHANGED <<queue, lists>>
    <3> DEFINE names == Names(lists[l])
    <3>1. names \in Seq(Hashes)
      BY <2>1, PlaylistParts DEF Names
    <3>2. ToSet(names) \subseteq known /\ queue = names /\ queue # <<>> /\ queue' = queue
      BY <2>3 DEF IsPlaylistQueueMatched
    <3>3. ~(l = "all" /\ lists[l].sort = <<>>)
      BY <2>1, <3>2 DEF AllIsSorted, Names
    <3>4. PlaylistMetas(l) = Of(names, known)
      BY <3>3 DEF PlaylistMetas, KnownOf
    <3> HIDE DEF names
    <3>5. Of(names, known) = names
      BY <3>1, <3>2, OfAll
    <3> QED BY <3>2, <3>4, <3>5
  <2> QED BY <1>1, <2>2, <2>3 DEF PlayPlaylist
<1>2. Inv /\ [Next]_vars
      => [\A l \in DOMAIN lists : PlayPlaylist(l) => queue' = PlaylistMetas(l)]_vars
  BY <1>1
<1> QED BY <1>2, InvAlways, PTL DEF Spec, PlaysWhatIsShown

-----------------------------------------------------------------------------
(* What the user's own order shows. *)

\* What CustomOrderShows says of a step.
ShowsStill ==
    \A l \in (DOMAIN lists \cap DOMAIN lists') \ {"play"} :
        /\ lists[l].order = "custom" /\ lists[l].custom = lists[l].sort
        /\ lists'[l].order = "custom"
        => lists'[l].custom = lists'[l].sort

\* An operation on one playlist.
LEMMA ShowsUpdated ==
  ASSUME NEW l, NEW s, NEW c, NEW o, Updated(lists', l, s, c, o),
         l = "play" \/ (lists[l].custom = lists[l].sort => c = s)
  PROVE  ShowsStill
BY DEF Updated, ShowsStill

\* No operation but sorting makes a playlist in the user's own order show something else
\* than it lists: each keeps the two sequences in step, taking a track out by its place
\* in the one included.
THEOREM OwnOrderShows == Spec => CustomOrderShows
<1>1. ASSUME TypeOK, [Next]_vars PROVE ShowsStill
  <2>1. ASSUME NEW t \in Tracks, NEW l \in AllLists, AddMetasToPlayList(t, l) PROVE ShowsStill
    <3>1. /\ DOMAIN lists' = DOMAIN lists
          /\ \A x \in DOMAIN lists :
               x # "play" => lists'[x] = lists[x] \/ lists'[x].custom = lists'[x].sort
      BY <1>1, <2>1, AddOutcome
    <3> QED BY <3>1 DEF ShowsStill
  <2>2. ASSUME NEW t \in Tracks, NEW l \in AllLists, RemoveFromOne(t, l) PROVE ShowsStill
    <3>1. PICK c, s : /\ Updated(lists', l, s, c, lists[l].order)
                      /\ lists[l].custom = lists[l].sort => c = s
      BY <1>1, <2>2, RemoveOneOutcome
    <3> QED BY <3>1, ShowsUpdated
  <2>3. ASSUME NEW t \in Tracks, NEW from \in AllLists \cup {"album"}, NEW direct \in BOOLEAN,
               RemoveFromAll(t, from, direct)
        PROVE  ShowsStill
    <3>1. /\ DOMAIN lists' = DOMAIN lists
          /\ \A l \in DOMAIN lists :
               lists[l].custom = lists[l].sort => lists'[l].custom = lists'[l].sort
      BY <1>1, <2>3, RemoveAllOutcome
    <3> QED BY <3>1 DEF ShowsStill
  <2>4. ASSUME NEW l \in AllLists, SortPlaylist(l) \/ CustomSort(l) PROVE ShowsStill
    <3>1. /\ DOMAIN lists' = DOMAIN lists /\ l \in DOMAIN lists
          /\ \A x \in DOMAIN lists : x # l => lists'[x] = lists[x]
          /\ lists'[l].order = "custom" => lists[l].order # "custom"
      BY <1>1, <2>4, SortOutcome DEF Resorted
    <3> QED BY <3>1 DEF ShowsStill
  <2>5. ASSUME \/ \E l \in AllLists : PlayPlaylist(l)
               \/ \E S \in Selections : \E metas \in SetToSeqs(S) : PlayAlbum(metas)
        PROVE  ShowsStill
    <3>1. \/ UNCHANGED <<queue, lists>>
          \/ \E metas \in Seq(Hashes) : Load(metas)
      BY <1>1, <2>5, PlayOutcome
    <3>2. CASE UNCHANGED <<queue, lists>>
      BY <3>2 DEF ShowsStill
    <3>3. CASE \E metas \in Seq(Hashes) : Load(metas)
      <4>1. PICK metas \in Seq(Hashes) : Load(metas)
        BY <3>3
      <4>2. Updated(lists', "play", Once(metas), Once(metas), lists["play"].order)
        BY <1>1, <4>1, LoadOutcome
      <4> QED BY <4>2, ShowsUpdated
    <3> QED BY <3>1, <3>2, <3>3
  <2>6. ASSUME NEW S \in Selections, NEW l \in AllLists, NEW next \in Hashes,
               MoveMetasPlayList(S, l, next)
        PROVE  ShowsStill
    <3> DEFINE sort == Moved(lists[l].sort, S, next)
    <3>1. Updated(lists', l, sort, sort, lists[l].order)
      BY <1>1, <2>6, MoveOutcome
    <3> HIDE DEF sort
    <3> QED BY <3>1, ShowsUpdated
  <2>7. ASSUME NEW t \in Tracks, NEW target \in AllLists \cup {""}, ImportMetas(t, target)
        PROVE  ShowsStill
    BY <1>1, <2>7, ImportType DEF ShowsStill
  <2>8. ASSUME NEW l \in UserLists, AddPlayList(l) \/ DeletePlaylist(l) PROVE ShowsStill
    <3>1. \A x \in DOMAIN lists \cap DOMAIN lists' : lists'[x] = lists[x]
      BY <1>1, <2>8, ListOutcome
    <3> QED BY <3>1 DEF ShowsStill
  <2>9. ASSUME ClearPlay PROVE ShowsStill
    <3>1. Updated(lists', "play", <<>>, <<>>, lists["play"].order)
      BY <1>1, <2>9, ClearOutcome
    <3> QED BY <3>1, ShowsUpdated
  <2>10. ASSUME SlotAddOneMeta PROVE ShowsStill
    <3>1. PICK hash \in known' \cup {NoTrack} :
            /\ DOMAIN lists' = DOMAIN lists
            /\ \A l \in DOMAIN lists :
                  \/ lists'[l] = lists[l]
                  \/ /\ lists'[l].sort = Append(lists[l].sort, hash)
                     /\ lists'[l].custom = Append(lists[l].custom, hash)
      BY <1>1, <2>10, SlotOutcome
    <3> QED BY <3>1 DEF ShowsStill
  <2>11. ASSUME Restart PROVE ShowsStill
    <3>1. /\ DOMAIN lists' = DOMAIN lists
          /\ \A l \in DOMAIN lists :
                lists[l].order = "custom" => lists'[l].custom = lists'[l].sort
      BY <1>1, <2>11, RestartOutcome
    <3> QED BY <3>1 DEF ShowsStill
  <2>12. CASE UNCHANGED vars
    BY <2>12 DEF vars, ShowsStill
  <2> QED
    BY <1>1, <2>1, <2>2, <2>3, <2>4, <2>5, <2>6, <2>7, <2>8, <2>9, <2>10, <2>11, <2>12 DEF Next
<1>2. TypeOK /\ [Next]_vars => [ShowsStill]_vars
  BY <1>1
<1>3. Spec => [][ShowsStill]_vars
  BY <1>2, PlaylistsTyped, PTL DEF Spec
<1> QED BY <1>3 DEF CustomOrderShows, ShowsStill

-----------------------------------------------------------------------------
(* The queue and "play". *)

\* The two have the same tracks in the same order.
Follows(q, s) == Of(q, Tracks) = Of(s, Tracks)

LEMMA FollowsAppend ==
  ASSUME NEW q \in Seq(Hashes), NEW s \in Seq(Hashes), NEW e \in Hashes, Follows(q, s)
  PROVE  Follows(Append(q, e), Append(s, e))
<1>1. Of(Append(q, e), Tracks) = IF e \in Tracks THEN Append(Of(q, Tracks), e) ELSE Of(q, Tracks)
  BY AppendOf
<1>2. Of(Append(s, e), Tracks) = IF e \in Tracks THEN Append(Of(s, Tracks), e) ELSE Of(s, Tracks)
  BY AppendOf
<1> QED BY <1>1, <1>2 DEF Follows

\* Adding again what "play" has does not repeat it in the queue only if it is no track.
LEMMA FollowsRepeat ==
  ASSUME NEW q \in Seq(Hashes), NEW s \in Seq(Hashes), NEW e \in Hashes, Follows(q, s),
         e \in ToSet(s), NoRepeats(Append(q, e))
  PROVE  Follows(Append(q, e), s)
<1>1. e \notin ToSet(q)
  BY AppendEntries
<1>2. ToSet(Of(q, Tracks)) = ToSet(q) \cap Tracks /\ ToSet(Of(s, Tracks)) = ToSet(s) \cap Tracks
  BY OfType
<1>3. e \notin Tracks
  BY <1>1, <1>2 DEF Follows
<1>4. Of(Append(q, e), Tracks) = IF e \in Tracks THEN Append(Of(q, Tracks), e) ELSE Of(q, Tracks)
  BY AppendOf
<1> QED BY <1>3, <1>4 DEF Follows

\* A track that is taken out of "play" is in the queue as often as there, once at most,
\* and is taken out of it.
LEMMA FollowsLost ==
  ASSUME NEW q \in Seq(Hashes), NEW s \in Seq(Hashes), NEW t \in Tracks, Follows(q, s),
         NoRepeats(s), NEW r, NEW u, Less(Hashes, u, s, t), NEW taken, Lost(r, q, t, taken),
         t \in ToSet(s) => taken
  PROVE  Follows(r, u)
<1> DEFINE others == Tracks \ {t}
<1>1. u \in Seq(Hashes) /\ r \in Seq(Hashes) /\ Of(u, others) = Of(s, others)
      /\ Of(r, others) = Of(q, others)
  BY DEF Less, Lost
<1>2. NoRepeats(Of(s, Tracks)) /\ ToSet(Of(s, Tracks)) = ToSet(s) \cap Tracks
      /\ ToSet(Of(q, Tracks)) = ToSet(q) \cap Tracks
  BY OfType
<1>3. NoRepeats(Of(q, Tracks)) /\ (t \in ToSet(q) <=> t \in ToSet(s))
  BY <1>2 DEF Follows
<1>4. Single(q, t) /\ Single(s, t)
  BY <1>2, <1>3, OfSingle
<1>5. t \notin ToSet(r) /\ t \notin ToSet(u)
  BY <1>3, <1>4 DEF Lost, Less
<1>6. Of(r, Tracks) = Of(r, others) /\ Of(u, Tracks) = Of(u, others)
  BY <1>5, OfSame
<1>7. Of(q, others) = Of(s, others)
  <2>1. Of(Of(q, Tracks), others) = Of(q, Tracks \cap others)
    BY OfOf
  <2>2. Of(Of(s, Tracks), others) = Of(s, Tracks \cap others)
    BY OfOf
  <2>3. Tracks \cap others = others
    OBVIOUS
  <2> HIDE DEF others
  <2> QED BY <2>1, <2>2, <2>3 DEF Follows
<1> QED BY <1>1, <1>6, <1>7 DEF Follows

\* No operation brings the queue and "play" apart, unless it puts a track into the queue
\* twice: what is taken out of the one is taken out of the other, what is moved in the one
\* is moved in the other, and what is added to the one is added to the other.
THEOREM OnlyRepeats == Spec => OnlyRepeatsDivide
<1>1. ASSUME Inv, Inv', [Next]_vars, QueueFollowsPlay, NoRepeats(queue')
      PROVE  QueueFollowsPlay'
  <2> DEFINE s == lists["play"].sort
             u == lists'["play"].sort
  <2>1. /\ TypeOK /\ PlayListsOnce /\ "play" \in DOMAIN lists /\ Follows(queue, s)
        /\ s \in Seq(Hashes) /\ queue \in Seq(Hashes)
    <3>1. TypeOK /\ PlayListsOnce /\ "play" \in DOMAIN lists /\ lists["play"] \in Playlist
      BY <1>1, ListsAssumption DEF Inv, TypeOK
    <3> QED BY <1>1, <3>1, PlaylistParts DEF TypeOK, QueueFollowsPlay, Follows
  <2>2. NoRepeats(s) /\ ToSet(s) \subseteq known \cup {NoTrack}
    BY <2>1 DEF PlayListsOnce
  <2>3. SUFFICES Follows(queue', u)
    BY DEF QueueFollowsPlay, Follows
  <2> HIDE DEF s, u
  <2>4. ASSUME queue' = queue, lists'["play"] = lists["play"] PROVE Follows(queue', u)
    BY <2>1, <2>4 DEF s, u
  <2>5. ASSUME NEW t \in Tracks, NEW l \in AllLists, AddMetasToPlayList(t, l)
        PROVE  Follows(queue', u)
    <3>1. \/ queue' = queue /\ u = s
          \/ queue' = Append(queue, t) /\ u = Append(s, t)
      BY <2>1, <2>5, AddOutcome DEF s, u
    <3>2. t \in Hashes
      BY DEF Hashes
    <3> QED BY <2>1, <3>1, <3>2, FollowsAppend
  <2>6. ASSUME NEW t \in Tracks, NEW l \in AllLists, RemoveFromOne(t, l)
        PROVE  Follows(queue', u)
    <3>1. PICK c, r : /\ Updated(lists', l, r, c, lists[l].order)
                      /\ Less(Hashes, r, lists[l].sort, t)
                      /\ IF l = "play" THEN Lost(queue', queue, t, TRUE) ELSE queue' = queue
      BY <2>1, <2>6, RemoveOneOutcome
    <3>2. CASE l # "play"
      BY <2>1, <2>4, <3>1, <3>2 DEF Updated
    <3>3. CASE l = "play"
      <4>1. u = r /\ Less(Hashes, u, s, t) /\ Lost(queue', queue, t, TRUE)
        BY <3>1, <3>3 DEF Updated, s, u
      <4> QED BY <2>1, <2>2, <4>1, FollowsLost
    <3> QED BY <3>2, <3>3
  <2>7. ASSUME NEW t \in Tracks, NEW from \in AllLists \cup {"album"}, NEW direct \in BOOLEAN,
               RemoveFromAll(t, from, direct)
        PROVE  Follows(queue', u)
    <3>1. Less(Hashes, u, s, t) /\ Lost(queue', queue, t, t \in ToSet(s))
      BY <2>1, <2>7, RemoveAllOutcome DEF s, u
    <3> QED BY <2>1, <2>2, <3>1, FollowsLost
  <2>8. ASSUME NEW l \in AllLists, SortPlaylist(l) \/ CustomSort(l) PROVE Follows(queue', u)
    <3>1. /\ l \in DOMAIN lists \ {"play"} /\ queue' = queue
          /\ \A x \in DOMAIN lists : x # l => lists'[x] = lists[x]
      BY <2>1, <2>8, SortOutcome DEF Resorted
    <3> QED BY <2>1, <2>4, <3>1
  <2>9. ASSUME \/ \E l \in AllLists : PlayPlaylist(l)
               \/ \E S \in Selections : \E metas \in SetToSeqs(S) : PlayAlbum(metas)
        PROVE  Follows(queue', u)
    <3>1. UNCHANGED <<queue, lists>> \/ \E metas \in Seq(Hashes) : Load(metas)
      BY <2>1, <2>9, PlayOutcome
    <3>2. CASE \E metas \in Seq(Hashes) : Load(metas)
      <4>1. PICK metas \in Seq(Hashes) : Load(metas)
        BY <3>2
      <4>2. /\ queue' = metas
            /\ Updated(lists', "play", Once(metas), Once(metas), lists["play"].order)
        BY <2>1, <4>1, LoadOutcome
      <4>3. u = Once(metas)
        BY <4>2 DEF Updated, u
      <4>4. Once(metas) = metas
        BY <1>1, <4>2, OnceFacts
      <4> QED BY <4>2, <4>3, <4>4 DEF Follows
    <3> QED BY <2>4, <3>1, <3>2
  <2>10. ASSUME NEW S \in Selections, NEW l \in AllLists, NEW next \in Hashes,
                MoveMetasPlayList(S, l, next)
         PROVE  Follows(queue', u)
    <3> DEFINE sort == Moved(lists[l].sort, S, next)
    <3>1. /\ sort \in Seq(Hashes) /\ ToSet(sort) = ToSet(lists[l].sort)
          /\ Updated(lists', l, sort, sort, lists[l].order)
          /\ queue' = IF l = "play" THEN KnownOf(sort) ELSE queue
      BY <2>1, <2>10, MoveOutcome
    <3> HIDE DEF sort
    <3>2. CASE l # "play"
      BY <2>1, <2>4, <3>1, <3>2 DEF Updated
    <3>3. CASE l = "play"
      <4>1. u = sort /\ queue' = Of(sort, known) /\ ToSet(sort) = ToSet(s)
        BY <3>1, <3>3 DEF Updated, KnownOf, s, u
      <4>2. Of(Of(sort, known), Tracks) = Of(sort, known \cap Tracks)
        BY <3>1, OfOf
      <4>3. Of(sort, known \cap Tracks) = Of(sort, Tracks)
        <5>1. \A x \in ToSet(sort) : x \in known \cap Tracks <=> x \in Tracks
          BY <2>2, <4>1, TracksAssumption
        <5> QED BY <5>1, OfSame
      <4> QED BY <4>1, <4>2, <4>3 DEF Follows
    <3> QED BY <3>2, <3>3
  <2>11. ASSUME NEW t \in Tracks, NEW target \in AllLists \cup {""}, ImportMetas(t, target)
         PROVE  Follows(queue', u)
    <3>1. UNCHANGED <<lists, queue>>
      BY <2>1, <2>11, ImportType
    <3> QED BY <2>4, <3>1
  <2>12. ASSUME NEW l \in UserLists, AddPlayList(l) \/ DeletePlaylist(l) PROVE Follows(queue', u)
    <3>1. /\ \A x \in DOMAIN lists \cap DOMAIN lists' : lists'[x] = lists[x]
          /\ queue' = queue /\ ListsOK(lists')
      BY <2>1, <2>12, ListOutcome
    <3>2. "play" \in DOMAIN lists'
      BY <3>1, ListsAssumption DEF ListsOK
    <3> QED BY <2>1, <2>4, <3>1, <3>2
  <2>13. ASSUME ClearPlay PROVE Follows(queue', u)
    <3>1. queue' = <<>> /\ u = <<>>
      BY <2>1, <2>13, ClearOutcome DEF Updated, u
    <3> QED BY <3>1 DEF Follows
  <2>14. ASSUME SlotAddOneMeta PROVE Follows(queue', u)
    <3>1. PICK hash \in known' \cup {NoTrack} :
            /\ known' \subseteq Tracks
            /\ lists'["play"] = lists["play"] \/ u = Append(s, hash)
            /\ \/ queue' = queue /\ lists'["play"] = lists["play"]
               \/ /\ queue' = Append(queue, hash)
                  /\ lists'["play"] = lists["play"] => hash \in ToSet(s)
      BY <2>1, <2>14, SlotOutcome DEF s, u
    <3>2. hash \in Hashes
      BY <3>1 DEF Hashes
    <3>3. CASE queue' = queue /\ lists'["play"] = lists["play"]
      BY <2>4, <3>3
    <3>4. CASE queue' = Append(queue, hash) /\ u = Append(s, hash)
      BY <2>1, <3>2, <3>4, FollowsAppend
    <3>5. CASE queue' = Append(queue, hash) /\ lists'["play"] = lists["play"]
      <4>1. u = s /\ hash \in ToSet(s)
        <5>1. u = s
          BY <3>5 DEF s, u
        <5>2. hash \in ToSet(s)
          <6>1. CASE /\ queue' = Append(queue, hash)
                     /\ lists'["play"] = lists["play"] => hash \in ToSet(s)
            BY <3>5, <6>1
          <6>2. CASE queue' = queue
            <7>1. Len(Append(queue, hash)) = Len(queue) + 1 /\ Len(queue) \in Nat
              BY <2>1, <3>2, AppendProperties
            <7> QED BY <3>5, <6>2, <7>1
          <6> QED BY <3>1, <6>1, <6>2
        <5> QED BY <5>1, <5>2
      <4>2. NoRepeats(Append(queue, hash))
        BY <1>1, <3>5
      <4>3. Follows(Append(queue, hash), s)
        BY <2>1, <3>2, <4>1, <4>2, FollowsRepeat
      <4> QED BY <3>5, <4>1, <4>3
    <3> QED BY <3>1, <3>3, <3>4, <3>5
  <2>15. ASSUME Restart PROVE Follows(queue', u)
    <3>1. queue' = u
      BY <2>1, <2>15, RestartOutcome DEF u
    <3> QED BY <3>1 DEF Follows
  <2>16. CASE UNCHANGED vars
    BY <2>4, <2>16 DEF vars
  <2> QED
    BY <1>1, <2>5, <2>6, <2>7, <2>8, <2>9, <2>10, <2>11, <2>12, <2>13, <2>14, <2>15, <2>16
    DEF Next
<1>2. Inv /\ Inv' /\ [Next]_vars
      => [QueueFollowsPlay /\ NoRepeats(queue') => QueueFollowsPlay']_vars
  BY <1>1
<1> QED BY <1>2, InvAlways, PTL DEF Spec, OnlyRepeatsDivide
=============================================================================
