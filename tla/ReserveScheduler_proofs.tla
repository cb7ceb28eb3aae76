----------------------- MODULE ReserveScheduler_proofs -----------------------
(***************************************************************************)
(* The reserve plugin, for every set of nodes, Pods and sizes and every    *)
(* capacity: what Filter lets through, and what the two writers take away. *)
(*                                                                         *)
(* The sums and the filtered lists are recursive functions of the lists'   *)
(* lengths.  What they compute is proved by induction, for sets of natural *)
(* numbers (NaturalsAre): the set of those for which the claim holds.      *)
(***************************************************************************)
EXTENDS ReserveScheduler, WellFoundedInduction, FiniteSetTheorems, TLAPS

-----------------------------------------------------------------------------
(***************************************************************************)
(* Induction                                                               *)
(***************************************************************************)
LEMMA NaturalsAre ==
    ASSUME NEW S \in SUBSET Nat, 0 \in S, \A n \in S : n + 1 \in S
    PROVE  S = Nat
<1> SUFFICES ASSUME Nat \ S # {} PROVE FALSE
  OBVIOUS
<1> DEFINE less == {pair \in Nat \X Nat : pair[1] < pair[2]}
           T    == Nat \ S
<1>1. IsWellFoundedOn(less, Nat)
  BY NatLessThanWellFounded DEF OpToRel
<1>2. \E m \in T : \A n \in T : ~(<<n, m>> \in less)
  <2>1. T \subseteq Nat /\ T # {}
    OBVIOUS
  <2> HIDE DEF T, less
  <2> QED
    BY <1>1, <2>1, WFMin
<1>3. PICK m \in T : \A n \in T : ~(n < m)
  BY <1>2
<1>4. m - 1 \in Nat /\ m - 1 \in S
  BY <1>3
<1> QED
  BY <1>3, <1>4

-----------------------------------------------------------------------------
(***************************************************************************)
(* The sum of reservations                                                 *)
(***************************************************************************)
Size(list, S, i) == IF list[i] \in S THEN list[i].size ELSE 0

IsHeld(list, S, f, n) ==
    /\ f \in [0 .. n -> Nat]
    /\ f[0] = 0
    /\ \A i \in 1 .. n : f[i] = f[i - 1] + Size(list, S, i)

LEMMA SizeType ==
    ASSUME NEW list \in Seq(Reservation), NEW S, NEW i \in 1 .. Len(list)
    PROVE  Size(list, S, i) \in Nat
<1>1. list[i] \in Reservation
  OBVIOUS
<1>2. list[i].size \in Nat
  BY <1>1, ReserveAssumption DEF Reservation
<1> QED
  BY <1>2 DEF Size

LEMMA HeldExists ==
    ASSUME NEW list \in Seq(Reservation), NEW S, NEW n \in 0 .. Len(list)
    PROVE  \E f : IsHeld(list, S, f, n)
<1> DEFINE T == {m \in Nat : m <= Len(list) => \E f : IsHeld(list, S, f, m)}
<1>1. 0 \in T
  <2>1. IsHeld(list, S, [i \in 0 .. 0 |-> 0], 0)
    BY DEF IsHeld
  <2> QED
    BY <2>1
<1>2. ASSUME NEW m \in T
      PROVE  m + 1 \in T
  <2> SUFFICES ASSUME m + 1 <= Len(list)
               PROVE  \E f : IsHeld(list, S, f, m + 1)
    OBVIOUS
  <2>1. m <= Len(list)
    OBVIOUS
  <2>2. PICK f : IsHeld(list, S, f, m)
    BY <2>1
  <2>3. Size(list, S, m + 1) \in Nat
    BY SizeType
  <2> DEFINE g == [i \in 0 .. m + 1 |-> IF i = m + 1 THEN f[m] + Size(list, S, m + 1) ELSE f[i]]
  <2>4. IsHeld(list, S, g, m + 1)
    <3>1. g \in [0 .. m + 1 -> Nat]
      BY <2>2, <2>3 DEF IsHeld
    <3>2. g[0] = 0
      BY <2>2 DEF IsHeld
    <3>3. ASSUME NEW i \in 1 .. m + 1
          PROVE  g[i] = g[i - 1] + Size(list, S, i)
      <4>1. CASE i = m + 1
        BY <4>1
      <4>2. CASE i # m + 1
        BY <2>2, <4>2 DEF IsHeld
      <4> QED
        BY <4>1, <4>2
    <3> HIDE DEF g
    <3> QED
      BY <3>1, <3>2, <3>3 DEF IsHeld
  <2> QED
    BY <2>4
<1>3. T = Nat
  <2> HIDE DEF T
  <2>1. T \in SUBSET Nat
    BY DEF T
  <2> QED
    BY <1>1, <1>2, <2>1, NaturalsAre
<1>4. n \in T
  BY <1>3
<1> QED
  BY <1>4

LEMMA HeldIs ==
    ASSUME NEW list \in Seq(Reservation), NEW S
    PROVE  IsHeld(list, S, Held(list, S), Len(list))
<1> DEFINE body(f) == [i \in 0 .. Len(list) |->
                          IF i = 0 THEN 0
                          ELSE f[i - 1] + (IF list[i] \in S THEN list[i].size ELSE 0)]
<1>1. Held(list, S) = CHOOSE f : f = body(f)
  BY DEF Held
<1>2. \E f : f = body(f)
  <2>0. Len(list) \in 0 .. Len(list)
    OBVIOUS
  <2>1. PICK f : IsHeld(list, S, f, Len(list))
    BY <2>0, HeldExists
  <2>2. f = [i \in 0 .. Len(list) |-> f[i]]
    BY <2>1 DEF IsHeld
  <2>3. ASSUME NEW i \in 0 .. Len(list)
        PROVE  f[i] = IF i = 0 THEN 0 ELSE f[i - 1] + Size(list, S, i)
    <3>1. CASE i = 0
      BY <2>1, <3>1 DEF IsHeld
    <3>2. CASE i \in 1 .. Len(list)
      BY <2>1, <3>2 DEF IsHeld
    <3> QED
      BY <3>1, <3>2
  <2>4. f = body(f)
    BY <2>2, <2>3 DEF Size
  <2> QED
    BY <2>4
<1> DEFINE h == Held(list, S)
<1>3. h = body(h)
  BY <1>1, <1>2
<1> HIDE DEF h
<1>4. h[0] = 0 /\ \A i \in 1 .. Len(list) : h[i] = h[i - 1] + Size(list, S, i)
  <2>1. \A i \in 0 .. Len(list) : h[i] = body(h)[i]
    BY <1>3
  <2> QED
    BY <2>1 DEF Size
<1> DEFINE T == {m \in Nat : m <= Len(list) => h[m] \in Nat}
<1>5. 0 \in T
  BY <1>4
<1>6. \A m \in T : m + 1 \in T
  BY <1>4, SizeType
<1>7. T = Nat
  <2>1. T \in SUBSET Nat
    OBVIOUS
  <2> HIDE DEF T
  <2> QED
    BY <1>5, <1>6, <2>1, NaturalsAre
<1>8. \A m \in 0 .. Len(list) : m \in T => h[m] \in Nat
  OBVIOUS
<1>9. h \in [0 .. Len(list) -> Nat]
  <2>1. \A m \in 0 .. Len(list) : h[m] \in Nat
    BY <1>7, <1>8
  <2> QED
    BY <1>3, <2>1
<1>10. IsHeld(list, S, h, Len(list))
  BY <1>4, <1>9 DEF IsHeld
<1> QED
  BY <1>10 DEF h

\* A larger set of reservations holds no less, after any number of entries.
LEMMA HeldMonotone ==
    ASSUME NEW list \in Seq(Reservation), NEW S, NEW T, S \subseteq T,
           NEW n \in 0 .. Len(list)
    PROVE  Held(list, S)[n] <= Held(list, T)[n]
<1> DEFINE f == Held(list, S)
           g == Held(list, T)
           P == {m \in Nat : m <= Len(list) => f[m] <= g[m]}
<1>1. IsHeld(list, S, f, Len(list)) /\ IsHeld(list, T, g, Len(list))
  BY HeldIs
<1>2. \A i \in 1 .. Len(list) :
          Size(list, S, i) \in Nat /\ Size(list, T, i) \in Nat
          /\ Size(list, S, i) <= Size(list, T, i)
  <2>1. ASSUME NEW i \in 1 .. Len(list)
        PROVE  Size(list, S, i) \in Nat /\ Size(list, T, i) \in Nat
               /\ (Size(list, S, i) = 0 \/ Size(list, S, i) = Size(list, T, i))
    BY SizeType DEF Size
  <2> QED
    BY <2>1
<1> HIDE DEF f, g
<1>3. 0 \in P
  BY <1>1 DEF IsHeld
<1>4. ASSUME NEW m \in P, m + 1 <= Len(list)
      PROVE  f[m + 1] <= g[m + 1]
  <2>1. f[m + 1] = f[m] + Size(list, S, m + 1) /\ g[m + 1] = g[m] + Size(list, T, m + 1)
    BY <1>1, <1>4 DEF IsHeld
  <2>2. f[m] \in Nat /\ g[m] \in Nat /\ f[m] <= g[m]
    BY <1>1, <1>4 DEF IsHeld
  <2>3. /\ Size(list, S, m + 1) \in Nat /\ Size(list, T, m + 1) \in Nat
        /\ Size(list, S, m + 1) <= Size(list, T, m + 1)
    BY <1>2, <1>4
  <2> QED
    BY <2>1, <2>2, <2>3
<1>5. P = Nat
  <2>1. P \in SUBSET Nat /\ \A m \in P : m + 1 \in P
    BY <1>4
  <2> HIDE DEF P
  <2> QED
    BY <1>3, <2>1, NaturalsAre
<1>6. n \in P
  BY <1>5
<1> QED
  BY <1>6 DEF f, g

\* The loop of Filter compares the sum only at the entries of others.  The last of
\* them is compared with everything others hold.
LEMMA LastComparison ==
    ASSUME NEW list \in Seq(Reservation), NEW S, NEW T, S \subseteq T,
           NEW n \in 0 .. Len(list)
    PROVE  \/ Held(list, S)[n] = 0
           \/ \E i \in 1 .. n : list[i] \in S /\ Held(list, S)[n] <= Held(list, T)[i]
<1> DEFINE f == Held(list, S)
           g == Held(list, T)
           Q(m) == f[m] = 0 \/ \E i \in 1 .. m : list[i] \in S /\ f[m] <= g[i]
           P == {m \in Nat : m <= Len(list) => Q(m)}
<1>1. IsHeld(list, S, f, Len(list)) /\ IsHeld(list, T, g, Len(list))
  BY HeldIs
<1>2. \A m \in 0 .. Len(list) : f[m] <= g[m]
  BY HeldMonotone
<1> HIDE DEF f, g
<1>3. 0 \in P
  BY <1>1 DEF IsHeld
<1>4. ASSUME NEW m \in P, m + 1 <= Len(list)
      PROVE  Q(m + 1)
  <2>1. CASE list[m + 1] \in S
    <3>1. f[m + 1] <= g[m + 1] /\ m + 1 \in 1 .. m + 1
      BY <1>2, <1>4
    <3> QED
      BY <2>1, <3>1
  <2>2. CASE list[m + 1] \notin S
    <3>1. f[m + 1] = f[m]
      <4>1. f[m + 1] = f[m] + Size(list, S, m + 1) /\ f[m] \in Nat
        BY <1>1, <1>4 DEF IsHeld
      <4> QED
        BY <2>2, <4>1 DEF Size
    <3>2. Q(m)
      BY <1>4
    <3>3. 1 .. m \subseteq 1 .. m + 1
      BY <1>4
    <3> QED
      BY <3>1, <3>2, <3>3
  <2> QED
    BY <2>1, <2>2
<1>5. P = Nat
  <2>1. P \in SUBSET Nat /\ \A m \in P : m + 1 \in P
    BY <1>4
  <2> HIDE DEF P
  <2> QED
    BY <1>3, <2>1, NaturalsAre
<1>6. n \in P
  BY <1>5
<1>7. Q(n)
  BY <1>6
<1> QED
  BY <1>7 DEF f, g

-----------------------------------------------------------------------------
(***************************************************************************)
(* The filtered list                                                       *)
(***************************************************************************)
OneMore(list, S, kept, i) == IF list[i] \in S THEN Append(kept, list[i]) ELSE kept

IsFiltered(list, S, f, n) ==
    /\ f \in [0 .. n -> Seq(Reservation)]
    /\ f[0] = << >>
    /\ \A i \in 1 .. n : f[i] = OneMore(list, S, f[i - 1], i)

LEMMA OneMoreType ==
    ASSUME NEW list \in Seq(Reservation), NEW S, NEW i \in 1 .. Len(list),
           NEW kept \in Seq(Reservation)
    PROVE  /\ OneMore(list, S, kept, i) \in Seq(Reservation)
           /\ ToSet(kept) \subseteq ToSet(OneMore(list, S, kept, i))
           /\ list[i] \in S => list[i] \in ToSet(OneMore(list, S, kept, i))
           /\ ToSet(OneMore(list, S, kept, i)) \subseteq ToSet(kept) \cup {list[i]}
<1>1. list[i] \in Reservation
  OBVIOUS
<1>2. CASE list[i] \in S
  <2> DEFINE longer == Append(kept, list[i])
  <2>1. /\ longer \in Seq(Reservation) /\ Len(longer) = Len(kept) + 1
        /\ longer[Len(kept) + 1] = list[i]
        /\ \A j \in 1 .. Len(kept) : longer[j] = kept[j]
    BY <1>1
  <2>2. DOMAIN longer = 1 .. Len(kept) + 1 /\ DOMAIN kept = 1 .. Len(kept)
    BY <2>1
  <2> HIDE DEF longer
  <2>3. list[i] \in ToSet(longer)
    BY <2>1, <2>2 DEF ToSet
  <2>4. ToSet(kept) \subseteq ToSet(longer)
    BY <2>1, <2>2 DEF ToSet
  <2>5. ToSet(longer) \subseteq ToSet(kept) \cup {list[i]}
    BY <2>1, <2>2 DEF ToSet
  <2>6. OneMore(list, S, kept, i) = longer
    BY <1>2 DEF OneMore, longer
  <2> QED
    BY <2>1, <2>3, <2>4, <2>5, <2>6
<1>3. CASE list[i] \notin S
  BY <1>3 DEF OneMore
<1> QED
  BY <1>2, <1>3

LEMMA FilteredExists ==
    ASSUME NEW list \in Seq(Reservation), NEW S, NEW n \in 0 .. Len(list)
    PROVE  \E f : IsFiltered(list, S, f, n)
<1> DEFINE T == {m \in Nat : m <= Len(list) => \E f : IsFiltered(list, S, f, m)}
<1>1. 0 \in T
  <2>1. IsFiltered(list, S, [i \in 0 .. 0 |-> << >>], 0)
    BY DEF IsFiltered
  <2> QED
    BY <2>1
<1>2. ASSUME NEW m \in T
      PROVE  m + 1 \in T
  <2> SUFFICES ASSUME m + 1 <= Len(list)
               PROVE  \E f : IsFiltered(list, S, f, m + 1)
    OBVIOUS
  <2>1. m <= Len(list)
    OBVIOUS
  <2>2. PICK f : IsFiltered(list, S, f, m)
    BY <2>1
  <2> DEFINE last == OneMore(list, S, f[m], m + 1)
  <2>3. last \in Seq(Reservation)
    <3>1. f[m] \in Seq(Reservation) /\ m + 1 \in 1 .. Len(list)
      BY <2>2 DEF IsFiltered
    <3> QED
      BY <3>1, OneMoreType
  <2> HIDE DEF last
  <2> DEFINE g == [i \in 0 .. m + 1 |-> IF i = m + 1 THEN last ELSE f[i]]
  <2>4. IsFiltered(list, S, g, m + 1)
    <3>1. g \in [0 .. m + 1 -> Seq(Reservation)]
      BY <2>2, <2>3 DEF IsFiltered
    <3>2. g[0] = << >>
      BY <2>2 DEF IsFiltered
    <3>3. ASSUME NEW i \in 1 .. m + 1
          PROVE  g[i] = OneMore(list, S, g[i - 1], i)
      <4>1. CASE i = m + 1
        BY <4>1 DEF last
      <4>2. CASE i # m + 1
        BY <2>2, <4>2 DEF IsFiltered
      <4> QED
        BY <4>1, <4>2
    <3> HIDE DEF g
    <3> QED
      BY <3>1, <3>2, <3>3 DEF IsFiltered
  <2> QED
    BY <2>4
<1>3. T = Nat
  <2> HIDE DEF T
  <2>1. T \in SUBSET Nat
    BY DEF T
  <2> QED
    BY <1>1, <1>2, <2>1, NaturalsAre
<1>4. n \in T
  BY <1>3
<1> QED
  BY <1>4

\* What is filtered keeps every entry that is in the set, and has no other.
LEMMA FilteredKeeps ==
    ASSUME NEW list \in Seq(Reservation), NEW S
    PROVE  /\ Filtered(list, S) \in Seq(Reservation)
           /\ ToSet(list) \cap S \subseteq ToSet(Filtered(list, S))
           /\ ToSet(Filtered(list, S)) \subseteq ToSet(list)
<1> DEFINE body(f) == [i \in 0 .. Len(list) |->
                          IF i = 0 THEN << >>
                          ELSE IF list[i] \in S THEN Append(f[i - 1], list[i])
                               ELSE f[i - 1]]
           h == CHOOSE f : f = body(f)
<1>1. Filtered(list, S) = h[Len(list)]
  BY DEF Filtered
<1>2. \E f : f = body(f)
  <2>0. Len(list) \in 0 .. Len(list)
    OBVIOUS
  <2>1. PICK f : IsFiltered(list, S, f, Len(list))
    BY <2>0, FilteredExists
  <2>2. f = [i \in 0 .. Len(list) |-> f[i]]
    BY <2>1 DEF IsFiltered
  <2>3. ASSUME NEW i \in 0 .. Len(list)
        PROVE  f[i] = IF i = 0 THEN << >> ELSE OneMore(list, S, f[i - 1], i)
    <3>1. CASE i = 0
      BY <2>1, <3>1 DEF IsFiltered
    <3>2. CASE i \in 1 .. Len(list)
      BY <2>1, <3>2 DEF IsFiltered
    <3> QED
      BY <3>1, <3>2
  <2>4. f = body(f)
    BY <2>2, <2>3 DEF OneMore
  <2> QED
    BY <2>4
<1>3. h = body(h)
  BY <1>2
<1> HIDE DEF h
<1>4. h[0] = << >> /\ \A i \in 1 .. Len(list) : h[i] = OneMore(list, S, h[i - 1], i)
  <2>1. \A i \in 0 .. Len(list) : h[i] = body(h)[i]
    BY <1>3
  <2> QED
    BY <2>1 DEF OneMore
<1> HIDE DEF body
<1> DEFINE Q(m) == /\ h[m] \in Seq(Reservation)
                   /\ \A j \in 1 .. m : list[j] \in S => list[j] \in ToSet(h[m])
                   /\ ToSet(h[m]) \subseteq ToSet(list)
           T == {m \in Nat : m <= Len(list) => Q(m)}
<1>5. 0 \in T
  <2>1. h[0] \in Seq(Reservation)
    BY <1>4
  <2>2. 1 .. 0 = {}
    OBVIOUS
  <2>3. ToSet(h[0]) = {}
    BY <1>4 DEF ToSet
  <2> QED
    BY <2>1, <2>2, <2>3
<1>6. ASSUME NEW m \in T, m + 1 <= Len(list)
      PROVE  Q(m + 1)
  <2>1. Q(m) /\ m + 1 \in 1 .. Len(list)
    BY <1>6
  <2>2. h[m + 1] = OneMore(list, S, h[m], m + 1)
    BY <1>4, <2>1
  <2>3. /\ h[m + 1] \in Seq(Reservation)
        /\ ToSet(h[m]) \subseteq ToSet(h[m + 1])
        /\ list[m + 1] \in S => list[m + 1] \in ToSet(h[m + 1])
        /\ ToSet(h[m + 1]) \subseteq ToSet(h[m]) \cup {list[m + 1]}
    <3> DEFINE longer == OneMore(list, S, h[m], m + 1)
    <3>1. /\ longer \in Seq(Reservation)
          /\ ToSet(h[m]) \subseteq ToSet(longer)
          /\ list[m + 1] \in S => list[m + 1] \in ToSet(longer)
          /\ ToSet(longer) \subseteq ToSet(h[m]) \cup {list[m + 1]}
      BY <2>1, OneMoreType
    <3>2. h[m + 1] = longer
      BY <2>2
    <3> HIDE DEF longer
    <3> QED
      BY <3>1, <3>2
  <2>3a. list[m + 1] \in ToSet(list)
    BY <2>1 DEF ToSet
  <2>4. \A j \in 1 .. m + 1 : j \in 1 .. m \/ j = m + 1
    OBVIOUS
  <2> QED
    BY <2>1, <2>3, <2>3a, <2>4
<1>7. T = Nat
  <2>1. T \in SUBSET Nat /\ \A m \in T : m + 1 \in T
    BY <1>6
  <2> HIDE DEF T
  <2> QED
    BY <1>5, <2>1, NaturalsAre
<1>8. Q(Len(list))
  <2>1. Len(list) \in T
    BY <1>7
  <2> QED
    BY <2>1
<1>9. ToSet(list) = {list[j] : j \in 1 .. Len(list)}
  BY DEF ToSet
<1> QED
  BY <1>1, <1>8, <1>9

-----------------------------------------------------------------------------
(***************************************************************************)
(* Types                                                                   *)
(***************************************************************************)
Lists    == UNION {[S -> Seq(Reservation)] : S \in SUBSET Nodes}
Contents == UNION {[S -> Seq(Reservation) \cup {Bad}] : S \in SUBSET Nodes}
ConfigMap == [exists : BOOLEAN, rv : Nat, data : Contents]

CmType == cm \in ConfigMap
MapType == map \in Lists
SeenType == /\ seen \in [rv : Int, exists : BOOLEAN]
            /\ seen.rv \in -1 .. cm.rv
            /\ seen.rv = -1 => map = << >>

Write == [data : Lists, tries : 0 .. MaxTries, base : Nat, pod : Pods \cup {NoPod}]

WriterType == /\ writer \in [Writers -> Write]
              /\ \A w \in Writers : writer[w].base <= cm.rv

RestType == /\ placed \in [Pods -> Nodes \cup {NoNode}]
            /\ cycle \in Pods \cup {NoPod}
            /\ now \in 1 .. MaxTime /\ edits \in Nat /\ faults \in Nat

TypeInv == CmType /\ MapType /\ SeenType /\ WriterType /\ RestType

\* The lists the plugin goes through are lists of reservations.
LEMMA OnType ==
    ASSUME MapType, NEW n \in Nodes
    PROVE  On(n) \in Seq(Reservation)
BY DEF On, MapType, Lists

-----------------------------------------------------------------------------
(***************************************************************************)
(* Filter                                                                  *)
(***************************************************************************)
\* What Filter admits leaves room for all that others hold.
LEMMA FilterProtects ==
    ASSUME MapType, NEW p \in Pods, NEW n \in Nodes, FilterPasses(p, n)
    PROVE  Free(n) - Held(On(n), Others(p))[Len(On(n))] >= Need(p)
<1> DEFINE list == On(n)
<1>1. list \in Seq(Reservation)
  BY OnType
<1>2. Others(p) \subseteq Live
  BY DEF Others
<1> HIDE DEF list
<1>3. Len(list) \in 0 .. Len(list) /\ DOMAIN list = 1 .. Len(list)
  BY <1>1
<1> DEFINE held == Held(list, Others(p))
           total == Held(list, Live)
<1> SUFFICES Free(n) - held[Len(list)] >= Need(p)
  BY DEF list
<1>4. held[Len(list)] \in Nat /\ \A i \in 0 .. Len(list) : total[i] \in Nat
  <2>1. IsHeld(list, Others(p), held, Len(list)) /\ IsHeld(list, Live, total, Len(list))
    BY <1>1, HeldIs
  <2> QED
    BY <1>3, <2>1 DEF IsHeld
<1>5. \/ held[Len(list)] = 0
      \/ \E i \in 1 .. Len(list) : list[i] \in Others(p) /\ held[Len(list)] <= total[i]
  BY <1>1, <1>2, <1>3, LastComparison
<1>6. Free(n) \in Int
  <2>1. {q \in Pods : placed[q] = n} \in SUBSET Pods
    OBVIOUS
  <2>2. Cardinality({q \in Pods : placed[q] = n}) \in Nat
    BY <2>1, FS_Subset, FS_CardinalityType, ReserveAssumption
  <2> QED
    BY <2>2, ReserveAssumption DEF Free
<1>7. Need(p) <= Free(n) /\ \A i \in 1 .. Len(list) :
          list[i] \in Others(p) => Free(n) - total[i] >= Need(p)
  BY <1>3 DEF FilterPasses, Enough, list
<1>8. Need(p) = 1
  BY DEF Need
<1> HIDE DEF held, total
<1>9. CASE held[Len(list)] = 0
  BY <1>6, <1>7, <1>8, <1>9
<1>10. CASE \E i \in 1 .. Len(list) :
               list[i] \in Others(p) /\ held[Len(list)] <= total[i]
  <2>1. PICK i \in 1 .. Len(list) : list[i] \in Others(p) /\ held[Len(list)] <= total[i]
    BY <1>10
  <2>2. Free(n) - total[i] >= 1
    BY <1>7, <1>8, <2>1
  <2>3. total[i] \in Nat
    BY <1>4
  <2> QED
    BY <1>4, <1>6, <1>8, <2>1, <2>2, <2>3
<1> QED
  BY <1>5, <1>9, <1>10

-----------------------------------------------------------------------------
(***************************************************************************)
(* The type invariant                                                      *)
(***************************************************************************)
LEMMA EmptyTypes == << >> \in Lists /\ << >> \in Contents
<1>1. << >> = [n \in {} |-> 0]
  OBVIOUS
<1>2. << >> \in [{} -> Seq(Reservation)] /\ << >> \in [{} -> Seq(Reservation) \cup {Bad}]
  BY <1>1
<1> QED
  BY <1>2 DEF Lists, Contents

LEMMA ListsAreContents ==
    ASSUME NEW data \in Lists
    PROVE  data \in Contents
BY DEF Lists, Contents

LEMMA RestrictionType ==
    ASSUME NEW f, NEW S, NEW T, \A n \in S : f[n] \in T
    PROVE  [n \in S |-> f[n]] \in [S -> T]
OBVIOUS

\* What is loaded is well formed; a ConfigMap without malformed entries is loaded whole.
LEMMA LoadedIs ==
    ASSUME NEW data \in Contents, NEW new \in Loaded(data)
    PROVE  /\ new \in Lists
           /\ (\A n \in DOMAIN data : data[n] # Bad) => new = data
<1> DEFINE good == {n \in DOMAIN data : data[n] # Bad}
<1>1. PICK S \in SUBSET good : /\ new = [n \in S |-> data[n]]
                               /\ good = DOMAIN data => S = good
  <2>1. PICK S \in IF good = DOMAIN data THEN {good} ELSE SUBSET good :
            new = [n \in S |-> data[n]]
    BY DEF Loaded
  <2>2. S \in SUBSET good /\ (good = DOMAIN data => S = good)
    BY <2>1
  <2> QED
    BY <2>1, <2>2
<1>2. PICK N \in SUBSET Nodes : data \in [N -> Seq(Reservation) \cup {Bad}]
  BY DEF Contents
<1>3. S \in SUBSET Nodes /\ \A n \in S : data[n] \in Seq(Reservation)
  BY <1>1, <1>2
<1>4. new \in [S -> Seq(Reservation)]
  <2>1. new = [n \in S |-> data[n]]
    BY <1>1
  <2>2. [n \in S |-> data[n]] \in [S -> Seq(Reservation)]
    BY <1>3, RestrictionType
  <2> QED
    BY <2>1, <2>2
<1>5. new \in Lists
  BY <1>3, <1>4 DEF Lists
<1>6. ASSUME \A n \in DOMAIN data : data[n] # Bad
      PROVE  new = data
  <2>1. good = DOMAIN data
    BY <1>6
  <2>2. new = [n \in DOMAIN data |-> data[n]]
    <3> HIDE DEF good
    <3>1. S = DOMAIN data /\ new = [n \in S |-> data[n]]
      BY <1>1, <2>1
    <3> QED
      BY <3>1
  <2>3. data = [n \in DOMAIN data |-> data[n]]
    BY <1>2
  <2> QED
    BY <2>2, <2>3
<1> QED
  BY <1>5, <1>6

LEMMA KeptType ==
    ASSUME MapType, NEW S
    PROVE  /\ Kept(S) \in Lists
           /\ \A n \in Nodes : /\ Entries(map, n) \cap S \subseteq Entries(Kept(S), n)
                             /\ Entries(Kept(S), n) \subseteq Entries(map, n)
<1>1. PICK N \in SUBSET Nodes : map \in [N -> Seq(Reservation)]
  BY DEF MapType, Lists
<1>2. \A n \in N : /\ Filtered(map[n], S) \in Seq(Reservation)
                   /\ ToSet(map[n]) \cap S \subseteq ToSet(Filtered(map[n], S))
                   /\ ToSet(Filtered(map[n], S)) \subseteq ToSet(map[n])
  BY <1>1, FilteredKeeps
<1>3. Kept(S) = [n \in N |-> Filtered(map[n], S)]
  BY <1>1 DEF Kept
<1>4. Kept(S) \in [N -> Seq(Reservation)]
  BY <1>2, <1>3
<1>5. ASSUME NEW n \in Nodes
      PROVE  /\ Entries(map, n) \cap S \subseteq Entries(Kept(S), n)
             /\ Entries(Kept(S), n) \subseteq Entries(map, n)
  <2>1. CASE n \in N
    BY <1>1, <1>2, <1>3, <2>1 DEF Entries
  <2>2. CASE n \notin N
    BY <1>1, <1>3, <2>2 DEF Entries
  <2> QED
    BY <2>1, <2>2
<1> QED
  BY <1>4, <1>5 DEF Lists

\* A user's new list of reservations is one.
LEMMA AddedType ==
    ASSUME CmType, NEW n \in Nodes, NEW r \in Reservation,
           NEW list \in {<<r>> \o Entry(n), Entry(n) \o <<r>>}
    PROVE  [m \in DOMAIN cm.data \cup {n} |-> IF m = n THEN list ELSE cm.data[m]]
               \in Contents
<1>1. cm.data \in Contents
  BY DEF CmType, ConfigMap
<1>2. PICK N \in SUBSET Nodes : cm.data \in [N -> Seq(Reservation) \cup {Bad}]
  BY <1>1 DEF Contents
<1>3. Entry(n) \in Seq(Reservation)
  BY <1>2 DEF Entry
<1>4. list \in Seq(Reservation)
  <2>1. <<r>> \in Seq(Reservation)
    OBVIOUS
  <2>2. \A a, b \in Seq(Reservation) : a \o b \in Seq(Reservation)
    OBVIOUS
  <2> HIDE DEF Entry
  <2> QED
    BY <1>3, <2>1, <2>2
<1> DEFINE M == DOMAIN cm.data \cup {n}
<1>5. M \in SUBSET Nodes
  BY <1>2
<1>6. [m \in M |-> IF m = n THEN list ELSE cm.data[m]] \in [M -> Seq(Reservation) \cup {Bad}]
  BY <1>2, <1>4
<1> QED
  BY <1>5, <1>6 DEF Contents

\* A new version of the ConfigMap leaves what the plugin knows behind.
LEMMA NewVersion ==
    ASSUME TypeInv, cm' \in ConfigMap, cm'.rv = cm.rv + 1, UNCHANGED <<seen, map>>,
           WriterType
    PROVE  /\ CmType' /\ MapType' /\ SeenType'
           /\ seen'.rv # cm'.rv
           /\ \A w \in Writers : writer[w].base < cm'.rv
<1>1. cm.rv \in Nat
  BY DEF TypeInv, CmType, ConfigMap
<1>2. seen.rv \in Int /\ seen.rv <= cm.rv /\ seen.rv >= -1
  BY <1>1 DEF TypeInv, SeenType
<1>3. \A w \in Writers : writer[w].base \in Nat /\ writer[w].base <= cm.rv
  BY DEF WriterType, Write
<1>4. SeenType'
  BY <1>1, <1>2 DEF TypeInv, SeenType
<1>5. seen'.rv # cm'.rv
  BY <1>1, <1>2
<1>6. \A w \in Writers : writer[w].base < cm'.rv
  BY <1>1, <1>3
<1> QED
  BY <1>4, <1>5, <1>6 DEF TypeInv, CmType, MapType

LEMMA NewContent ==
    ASSUME NEW c \in ConfigMap, NEW data \in Contents, NEW there \in BOOLEAN
    PROVE  LET new == [c EXCEPT !.exists = there, !.rv = @ + 1, !.data = data]
           IN  /\ new \in ConfigMap /\ new.rv = c.rv + 1
               /\ new.data = data /\ new.exists = there
<1> DEFINE new == [c EXCEPT !.exists = there, !.rv = @ + 1, !.data = data]
<1> DEFINE new1 == [c EXCEPT !.exists = there]
           new2 == [new1 EXCEPT !.rv = c.rv + 1]
           new3 == [new2 EXCEPT !.data = data]
<1>1. c.rv + 1 \in Nat
  BY DEF ConfigMap
<1>2. new1 \in ConfigMap /\ new1.exists = there /\ new1.rv = c.rv
  BY DEF ConfigMap
<1> HIDE DEF new1
<1>3. new2 \in ConfigMap /\ new2.exists = there /\ new2.rv = c.rv + 1
  BY <1>1, <1>2 DEF ConfigMap
<1> HIDE DEF new2
<1>4. new3 \in ConfigMap /\ new3.exists = there /\ new3.rv = c.rv + 1 /\ new3.data = data
  BY <1>3 DEF ConfigMap
<1>5. new = new3
  BY <1>2 DEF new1, new2
<1> QED
  BY <1>4, <1>5, Zenon DEF new

LEMMA StoredType ==
    ASSUME CmType, NEW data \in Contents, Store(data)
    PROVE  cm' \in ConfigMap /\ cm'.rv = cm.rv + 1 /\ cm'.data = data /\ cm'.exists
BY NewContent DEF CmType, Store

LEMMA NoWriteType == NoWrite \in Write
<1>1. MaxTries \in Nat
  BY ReserveAssumption
<1> QED
  BY <1>1, EmptyTypes DEF NoWrite, Write

\* What a user does to the ConfigMap.
UserActs ==
    \/ \E n \in Nodes : UserSpoils(n) \/ \E r \in Reservation : UserAdds(n, r)
    \/ UserDeletes

LEMMA UserStep ==
    ASSUME TypeInv, UserActs
    PROVE  /\ cm' \in ConfigMap /\ cm'.rv = cm.rv + 1
           /\ UNCHANGED <<seen, map, writer, placed, cycle, now, faults>>
           /\ edits' \in Nat
<1>0. cm \in ConfigMap /\ cm.data \in Contents
  BY DEF TypeInv, CmType, ConfigMap
<1>1. edits \in Nat
  BY DEF TypeInv, RestType
<1>2. ASSUME NEW n \in Nodes, UserSpoils(n)
      PROVE  cm' \in ConfigMap /\ cm'.rv = cm.rv + 1
  <2>1. PICK N \in SUBSET Nodes : cm.data \in [N -> Seq(Reservation) \cup {Bad}]
    BY <1>0 DEF Contents
  <2>2. [cm.data EXCEPT ![n] = Bad] \in [N -> Seq(Reservation) \cup {Bad}]
    BY <2>1
  <2>3. [cm.data EXCEPT ![n] = Bad] \in Contents
    BY <2>2 DEF Contents
  <2> QED
    BY <1>2, <2>3, StoredType DEF UserSpoils, TypeInv
<1>3. ASSUME NEW n \in Nodes, NEW r \in Reservation, UserAdds(n, r)
      PROVE  cm' \in ConfigMap /\ cm'.rv = cm.rv + 1
  <2>1. PICK list \in {<<r>> \o Entry(n), Entry(n) \o <<r>>} :
          Store([m \in DOMAIN cm.data \cup {n} |-> IF m = n THEN list ELSE cm.data[m]])
    BY <1>3 DEF UserAdds
  <2>2. CmType
    BY DEF TypeInv
  <2>3. [m \in DOMAIN cm.data \cup {n} |-> IF m = n THEN list ELSE cm.data[m]] \in Contents
    BY <2>2, AddedType
  <2> QED
    BY <2>1, <2>2, <2>3, StoredType
<1>4. ASSUME UserDeletes
      PROVE  cm' \in ConfigMap /\ cm'.rv = cm.rv + 1
  <2>1. cm' = [cm EXCEPT !.exists = FALSE, !.rv = @ + 1, !.data = << >>]
    BY <1>4 DEF UserDeletes
  <2>2. << >> \in Contents
    BY EmptyTypes
  <2> QED
    BY <1>0, <2>1, <2>2, NewContent
<1>5. Edit /\ UNCHANGED <<seen, map, writer, placed, cycle, now, faults>>
  BY DEF UserActs, UserSpoils, UserAdds, UserDeletes
<1>6. edits' \in Nat
  BY <1>1, <1>5 DEF Edit
<1> QED
  BY <1>2, <1>3, <1>4, <1>5, <1>6 DEF UserActs

\* What a writer begins with, and what an attempt of updateCM does to it.
LEMMA BegunType ==
    ASSUME TypeInv, NEW w \in Writers, NEW S, NEW p \in Pods \cup {NoPod},
           Begin(w, Kept(S), p), UNCHANGED <<cm, seen>>
    PROVE  WriterType'
<1>1. writer \in [Writers -> Write] /\ \A v \in Writers : writer[v].base <= cm.rv
  BY DEF TypeInv, WriterType
<1>2. CASE Kept(S) = map
  BY <1>1, <1>2 DEF Begin, WriterType
<1>3. CASE Kept(S) # map
  <2>1. Kept(S) \in Lists
    BY KeptType DEF TypeInv
  <2>2. seen.rv # -1
    <3>1. ASSUME map = << >>
          PROVE  Kept(S) = map
      <4>1. DOMAIN map = {}
        BY <3>1
      <4>2. Kept(S) = [n \in {} |-> 0]
        BY <4>1 DEF Kept
      <4> QED
        BY <3>1, <4>2
    <3> QED
      BY <1>3, <3>1 DEF TypeInv, SeenType
  <2>3. seen.rv \in Nat /\ seen.rv <= cm.rv
    BY <2>2 DEF TypeInv, SeenType, CmType, ConfigMap
  <2> DEFINE new == [data |-> Kept(S), tries |-> MaxTries, base |-> seen.rv, pod |-> p]
  <2>4. new \in Write /\ new.base <= cm.rv
    BY <2>1, <2>3, ReserveAssumption DEF Write
  <2>5. writer' = [writer EXCEPT ![w] = new]
    BY <1>3 DEF Begin
  <2> HIDE DEF new
  <2>6. writer' \in [Writers -> Write] /\ \A v \in Writers : writer'[v].base <= cm.rv
    BY <1>1, <2>4, <2>5
  <2> QED
    BY <2>6 DEF WriterType
<1> QED
  BY <1>2, <1>3

LEMMA AttemptIs ==
    ASSUME TypeInv, NEW w \in Writers, UpdateCM(w)
    PROVE  /\ writer' \in [Writers -> Write]
           /\ \A v \in Writers \ {w} : writer'[v] = writer[v]
           /\ \/ writer'[w] = NoWrite
              \/ /\ writer'[w].data = writer[w].data /\ writer'[w].base = writer[w].base
                 /\ cm' = cm
           /\ faults' \in Nat
<1>1. writer \in [Writers -> Write] /\ NoWrite \in Write /\ faults \in Nat
  BY NoWriteType DEF TypeInv, WriterType, RestType
<1>2. ASSUME writer' = [writer EXCEPT ![w] = NoWrite]
      PROVE  /\ writer' \in [Writers -> Write]
             /\ \A v \in Writers \ {w} : writer'[v] = writer[v]
             /\ writer'[w] = NoWrite
  BY <1>1, <1>2
<1>3. ASSUME /\ writer[w].tries > 1 /\ UNCHANGED cm
             /\ writer' = [writer EXCEPT ![w] = TriedAgain(writer[w])]
      PROVE  /\ writer' \in [Writers -> Write]
             /\ \A v \in Writers \ {w} : writer'[v] = writer[v]
             /\ writer'[w].data = writer[w].data /\ writer'[w].base = writer[w].base
             /\ cm' = cm
  <2> DEFINE new == TriedAgain(writer[w])
  <2>1. writer[w] \in Write /\ writer[w].tries \in 0 .. MaxTries
    BY <1>1 DEF Write
  <2>1a. writer[w].tries - 1 \in 0 .. MaxTries
    BY <1>3, <2>1, ReserveAssumption
  <2>2. new \in Write /\ new.data = writer[w].data /\ new.base = writer[w].base
    BY <2>1, <2>1a DEF Write, TriedAgain
  <2>3. writer' = [writer EXCEPT ![w] = new] /\ cm' = cm
    BY <1>3
  <2> HIDE DEF new
  <2> QED
    BY <1>1, <2>2, <2>3
<1>4. \/ writer' = [writer EXCEPT ![w] = NoWrite]
      \/ /\ writer[w].tries > 1 /\ UNCHANGED cm
         /\ writer' = [writer EXCEPT ![w] = TriedAgain(writer[w])]
  <2>1. CASE Accepted(w)
    BY <2>1 DEF Accepted
  <2>2. CASE Refused(w) /\ writer[w].tries > 1
    BY <2>2 DEF Refused
  <2>3. CASE Refused(w) /\ ~(writer[w].tries > 1)
    BY <2>3 DEF Refused
  <2> QED
    BY <2>1, <2>2, <2>3 DEF UpdateCM
<1>5. faults' = faults \/ (faults > 0 /\ faults' = faults - 1)
  BY DEF UpdateCM, Accepted, Refused, Fault
<1>6. faults' \in Nat
  BY <1>1, <1>5
<1>7. \/ writer'[w] = NoWrite
      \/ /\ writer'[w].data = writer[w].data /\ writer'[w].base = writer[w].base
         /\ cm' = cm
  BY <1>2, <1>3, <1>4
<1>8. writer' \in [Writers -> Write] /\ \A v \in Writers \ {w} : writer'[v] = writer[v]
  BY <1>2, <1>3, <1>4
<1> QED
  BY <1>6, <1>7, <1>8

\* What an attempt does to the ConfigMap.
LEMMA WrittenIs ==
    ASSUME TypeInv, NEW w \in Writers, UpdateCM(w)
    PROVE  \/ UNCHANGED <<cm, since, served>>
           \/ /\ cm' \in ConfigMap /\ cm'.rv = cm.rv + 1 /\ cm'.data = writer[w].data
              /\ IF Complete(w) THEN UNCHANGED <<since, served>> ELSE Anew
<1>1. CASE Refused(w)
  BY <1>1 DEF Refused
<1>2. CASE Accepted(w)
  <2>1. writer[w].data \in Contents
    BY ListsAreContents DEF TypeInv, WriterType, Write
  <2>2. cm' \in ConfigMap /\ cm'.rv = cm.rv + 1 /\ cm'.data = writer[w].data
    BY <1>2, <2>1, StoredType DEF Accepted, TypeInv
  <2> QED
    BY <1>2, <2>2 DEF Accepted
<1> QED
  BY <1>1, <1>2 DEF UpdateCM

LEMMA RestartWriters ==
    writer' = [w \in Writers |-> NoWrite] /\ CmType /\ UNCHANGED cm => WriterType'
<1> SUFFICES ASSUME writer' = [w \in Writers |-> NoWrite], CmType, UNCHANGED cm
             PROVE  WriterType'
  OBVIOUS
<1>1. writer' \in [Writers -> Write]
  BY NoWriteType
<1>2. cm'.rv \in Nat
  BY DEF CmType, ConfigMap
<1>3. \A w \in Writers : writer'[w].base <= cm'.rv
  BY <1>2 DEF NoWrite
<1> QED
  BY <1>1, <1>3 DEF WriterType

LEMMA TypeInit == Init => TypeInv
<1> SUFFICES ASSUME Init PROVE TypeInv
  OBVIOUS
<1>1. CmType /\ cm.rv = 0
  BY EmptyTypes DEF Init, CmType, ConfigMap
<1>2. MapType /\ SeenType
  BY <1>1, EmptyTypes DEF Init, MapType, SeenType
<1>3. WriterType
  <2>1. writer = [w \in Writers |-> NoWrite]
    BY DEF Init
  <2>2. writer \in [Writers -> Write]
    BY <2>1, NoWriteType
  <2>3. \A w \in Writers : writer[w].base <= cm.rv
    BY <1>1, <2>1 DEF NoWrite
  <2> QED
    BY <2>2, <2>3 DEF WriterType
<1>4. RestType
  BY ReserveAssumption DEF Init, RestType
<1> QED
  BY <1>1, <1>2, <1>3, <1>4 DEF TypeInv

LEMMA TypeNext == TypeInv /\ [Next]_vars => TypeInv'
<1> SUFFICES ASSUME TypeInv, [Next]_vars PROVE TypeInv'
  OBVIOUS
<1>1. CmType /\ MapType /\ SeenType /\ WriterType /\ RestType
  BY DEF TypeInv
<1>2. CASE UserActs
  <2>1. /\ cm' \in ConfigMap /\ cm'.rv = cm.rv + 1
        /\ UNCHANGED <<seen, map, writer, placed, cycle, now, faults>>
        /\ edits' \in Nat
    BY <1>2, UserStep
  <2>2. CmType' /\ MapType' /\ SeenType' /\ \A w \in Writers : writer[w].base < cm'.rv
    BY <1>1, <2>1, NewVersion
  <2>3. WriterType'
    <3>1. cm'.rv \in Nat
      BY <2>1 DEF ConfigMap
    <3>2. \A w \in Writers : writer[w].base \in Nat
      BY <1>1 DEF WriterType, Write
    <3> QED
      BY <1>1, <2>1, <2>2, <3>1, <3>2 DEF WriterType
  <2>4. RestType'
    BY <1>1, <2>1 DEF RestType
  <2> QED
    BY <2>2, <2>3, <2>4 DEF TypeInv
<1>3. CASE Tick
  <2>1. RestType'
    BY <1>1, <1>3, ReserveAssumption DEF Tick, RestType
  <2>2. UNCHANGED <<cm, seen, map, writer>>
    BY <1>3 DEF Tick
  <2> QED
    BY <1>1, <2>1, <2>2 DEF TypeInv, CmType, MapType, SeenType, WriterType
<1>4. CASE Sync
  <2>1. cm \in ConfigMap /\ cm.rv \in Nat /\ cm.exists \in BOOLEAN /\ cm.data \in Contents
    BY <1>1 DEF CmType, ConfigMap
  <2>2. MapType'
    BY <1>4, <2>1, LoadedIs DEF Sync, MapType
  <2>3. SeenType'
    <3>1. seen' = [rv |-> cm.rv, exists |-> cm.exists] /\ cm' = cm
      BY <1>4 DEF Sync
    <3>2. seen' \in [rv : Int, exists : BOOLEAN] /\ seen'.rv = cm.rv
      BY <2>1, <3>1
    <3> QED
      BY <2>1, <3>1, <3>2 DEF SeenType
  <2>4. UNCHANGED <<cm, writer, placed, cycle, now, edits, faults>>
    BY <1>4 DEF Sync
  <2> QED
    BY <1>1, <2>2, <2>3, <2>4 DEF TypeInv, CmType, WriterType, RestType
<1>5. CASE \E p \in Pods : Unplace(p) \/ \E n \in Nodes : Filter(p, n)
  <2>1. RestType'
    BY <1>1, <1>5 DEF RestType, Unplace, Filter, Fault
  <2>2. UNCHANGED <<cm, seen, map, writer>>
    BY <1>5 DEF Unplace, Filter
  <2> QED
    BY <1>1, <2>1, <2>2 DEF TypeInv, CmType, MapType, SeenType, WriterType
<1>6. CASE Reserve \/ CleanExpired
  <2>1. UNCHANGED <<cm, seen, map, placed, now, edits, faults>> /\ cycle' \in {cycle, NoPod}
    BY <1>6 DEF Reserve, CleanExpired
  <2>2. WriterType'
    <3>1. CASE Reserve
      <4>1. cycle \in Pods \cup {NoPod}
        BY <1>1 DEF RestType
      <4> QED
        BY <2>1, <3>1, <4>1, BegunType DEF Reserve, Writers
    <3>2. CASE CleanExpired
      BY <2>1, <3>2, BegunType DEF CleanExpired, Writers
    <3> QED
      BY <1>6, <3>1, <3>2
  <2>3. RestType'
    BY <1>1, <2>1 DEF RestType
  <2> QED
    BY <1>1, <2>1, <2>2, <2>3 DEF TypeInv, CmType, MapType, SeenType
<1>7. ASSUME NEW w \in Writers, UpdateCM(w)
      PROVE  TypeInv'
  <2>1. /\ writer' \in [Writers -> Write]
        /\ \A v \in Writers \ {w} : writer'[v] = writer[v]
        /\ writer'[w] = NoWrite \/ writer'[w].base = writer[w].base
    BY <1>7, AttemptIs
  <2>2. UNCHANGED <<seen, map, placed, cycle, now, edits>> /\ faults' \in Nat
    BY <1>7, AttemptIs DEF UpdateCM
  <2>3. /\ CmType' /\ SeenType' /\ cm'.rv \in Nat
        /\ \A v \in Writers : writer[v].base <= cm'.rv
    <3>1. CASE cm' = cm
      BY <1>1, <2>2, <3>1 DEF CmType, ConfigMap, SeenType, WriterType
    <3>2. CASE cm' \in ConfigMap /\ cm'.rv = cm.rv + 1
      <4>1. CmType' /\ SeenType' /\ \A v \in Writers : writer[v].base < cm'.rv
        BY <1>1, <2>2, <3>2, NewVersion
      <4>2. cm'.rv \in Nat /\ \A v \in Writers : writer[v].base \in Nat
        BY <1>1, <3>2 DEF ConfigMap, WriterType, Write
      <4> QED
        BY <4>1, <4>2
    <3> QED
      BY <1>7, <3>1, <3>2, WrittenIs
  <2>4. \A v \in Writers : writer'[v].base <= cm'.rv
    <3>1. NoWrite.base = 0
      BY DEF NoWrite
    <3> QED
      BY <2>1, <2>3, <3>1
  <2> QED
    BY <1>1, <2>1, <2>2, <2>3, <2>4 DEF TypeInv, MapType, WriterType, RestType
<1>8. CASE Restart
  <2>1. /\ map' = << >> /\ cm' = cm /\ seen' = [rv |-> -1, exists |-> FALSE]
        /\ writer' = [w \in Writers |-> NoWrite]
    BY <1>8 DEF Restart
  <2>2. CmType' /\ MapType' /\ WriterType'
    BY <1>1, <2>1, EmptyTypes, RestartWriters DEF CmType, MapType
  <2>3. SeenType'
    <3>1. seen' \in [rv : Int, exists : BOOLEAN] /\ seen'.rv = -1
      BY <2>1
    <3>2. cm'.rv \in Nat
      BY <1>1, <2>1 DEF CmType, ConfigMap
    <3> QED
      BY <2>1, <3>1, <3>2 DEF SeenType
  <2>4. RestType'
    BY <1>1, <1>8 DEF RestType, Restart, Fault
  <2> QED
    BY <2>2, <2>3, <2>4 DEF TypeInv
<1>9. CASE UNCHANGED vars
  BY <1>1, <1>9 DEF TypeInv, CmType, MapType, SeenType, WriterType, RestType, vars
<1> QED
  BY <1>2, <1>3, <1>4, <1>5, <1>6, <1>7, <1>8, <1>9 DEF Next, UserActs

\* The history variables.
HistoryType == since \in 0 .. cm.rv /\ served \in SUBSET Pods

LEMMA HistoryInit == Init => HistoryType
BY DEF Init, HistoryType

\* A new version of the ConfigMap makes the history start anew or leaves it alone.
LEMMA NewHistory ==
    ASSUME TypeInv, HistoryType, cm'.rv = cm.rv + 1, Anew \/ UNCHANGED <<since, served>>
    PROVE  HistoryType'
<1>1. cm.rv \in Nat /\ since \in Nat /\ since <= cm.rv
  BY DEF TypeInv, CmType, ConfigMap, HistoryType
<1>2. since' \in 0 .. cm'.rv
  BY <1>1 DEF Anew
<1> QED
  BY <1>2 DEF Anew, HistoryType

LEMMA HistoryNext == TypeInv /\ HistoryType /\ [Next]_vars => HistoryType'
<1> SUFFICES ASSUME TypeInv, HistoryType, [Next]_vars PROVE HistoryType'
  OBVIOUS
<1>1. CASE UNCHANGED <<cm, since, served>>
  BY <1>1 DEF HistoryType
<1>2. CASE UserActs
  <2>1. Anew
    BY <1>2 DEF UserActs, UserSpoils, UserAdds, UserDeletes, Edit
  <2> QED
    BY <1>2, <2>1, UserStep, NewHistory
<1>3. CASE Reserve
  <2>1. UNCHANGED <<cm, since>> /\ cycle \in Pods /\ served' \in {served, served \cup {cycle}}
    BY <1>3 DEF Reserve, TypeInv, RestType
  <2> QED
    BY <2>1 DEF HistoryType
<1>4. ASSUME NEW w \in Writers, UpdateCM(w)
      PROVE  HistoryType'
  BY <1>1, <1>4, WrittenIs, NewHistory
<1> QED
  BY <1>1, <1>2, <1>3, <1>4
     DEF Next, UserActs, Tick, Sync, Unplace, Filter, CleanExpired, Restart, vars

\* The types the runs check follow.
LEMMA TypesAreOK == TypeInv /\ HistoryType => TypeOK
<1> SUFFICES ASSUME TypeInv, HistoryType PROVE TypeOK
  OBVIOUS
<1>1. cm.exists \in BOOLEAN /\ cm.rv \in Nat /\ cm.data \in Contents
  BY DEF TypeInv, CmType, ConfigMap
<1>2. /\ DOMAIN cm.data \subseteq Nodes
      /\ \A n \in DOMAIN cm.data : cm.data[n] = Bad \/ cm.data[n] \in Seq(Reservation)
  BY <1>1 DEF Contents
<1>3. DOMAIN map \subseteq Nodes /\ \A n \in DOMAIN map : map[n] \in Seq(Reservation)
  BY DEF TypeInv, MapType, Lists
<1>4. seen.rv \in -1 .. cm.rv /\ seen.exists \in BOOLEAN
  BY DEF TypeInv, SeenType
<1>5. /\ DOMAIN writer = Writers
      /\ \A w \in Writers : /\ writer[w].tries \in 0 .. MaxTries
                            /\ writer[w].base \in 0 .. cm.rv
                            /\ writer[w].pod \in Pods \cup {NoPod}
  BY <1>1 DEF TypeInv, WriterType, Write
<1>6. since \in 0 .. cm.rv /\ served \subseteq Pods
  BY DEF HistoryType
<1> QED
  BY <1>1, <1>2, <1>3, <1>4, <1>5, <1>6 DEF TypeOK, TypeInv, RestType

LEMMA TypeAlways == Spec => [](TypeInv /\ HistoryType)
BY TypeInit, TypeNext, HistoryInit, HistoryNext, PTL DEF Spec

\* Types: the plugin's map, and the copies its writers hold, are lists of reservations
\* whatever users write into the ConfigMap, and no writer knows a version of it that
\* is still to come.
THEOREM ReserveTypeCorrect == Spec => []TypeOK
BY TypeAlways, TypesAreOK, PTL

\* Filter leaves the others room: the running sum over the list of reservations,
\* whatever their order, lets none slip.
THEOREM OthersKeepTheirRoom == Spec => FilterProtectsOthers
<1> DEFINE Protected == \A p \in Pods, n \in Nodes :
                            placed[p] = NoNode /\ placed'[p] = n =>
                                Free(n) - Held(On(n), Others(p))[Len(On(n))] >= Need(p)
<1>1. TypeInv /\ [Next]_vars => [Protected]_vars
  <2> SUFFICES ASSUME TypeInv, Next, NEW p \in Pods, NEW n \in Nodes,
                      placed[p] = NoNode, placed'[p] = n
               PROVE  Free(n) - Held(On(n), Others(p))[Len(On(n))] >= Need(p)
    OBVIOUS
  <2>1. placed \in [Pods -> Nodes \cup {NoNode}] /\ n # NoNode
    BY ReserveAssumption DEF TypeInv, RestType
  <2>2. \E q \in Pods, m \in Nodes : Filter(q, m)
    <3>1. placed' # placed
      BY <2>1
    <3>2. CASE \E q \in Pods : Unplace(q)
      BY <2>1, <3>2 DEF Unplace
    <3>3. CASE Restart
      BY <2>1, <3>3 DEF Restart
    <3> QED
      BY <3>1, <3>2, <3>3 DEF Next, UserSpoils, UserAdds, UserDeletes, Tick, Sync,
                              Reserve, CleanExpired, UpdateCM
  <2>3. Filter(p, n)
    BY <2>1, <2>2 DEF Filter
  <2> QED
    BY <2>3, FilterProtects DEF Filter, TypeInv
<1> QED
  BY <1>1, TypeAlways, PTL DEF Spec, FilterProtectsOthers

-----------------------------------------------------------------------------
(***************************************************************************)
(* What is written                                                         *)
(***************************************************************************)
\* The ConfigMap, and the copies of it made since the history began: the plugin's map
\* and the writers' data.  Wherever two of them differ, what only one of them has is
\* released.  A map may lag and a writer may try again for long, so all pairs count:
\* the one that is written is the next content of the ConfigMap.
Trying == {w \in Writers : writer[w] # NoWrite /\ writer[w].base >= since}

Copies == {cm.data} \cup {m \in {map} : seen.rv >= since} \cup {writer[w].data : w \in Trying}

CopyInv ==
    AllGood => \A c, d \in Copies : \A n \in Nodes :
                  \A r \in Entries(c, n) \ Entries(d, n) : Released(r)

LEMMA ListEntries ==
    ASSUME NEW data \in Lists, NEW n, NEW r \in Entries(data, n)
    PROVE  r \in Reservation
<1>1. PICK N \in SUBSET Nodes : data \in [N -> Seq(Reservation)]
  BY DEF Lists
<1>2. n \in N /\ r \in ToSet(data[n]) /\ data[n] \in Seq(Reservation)
  BY <1>1 DEF Entries
<1> QED
  BY <1>2 DEF ToSet

LEMMA CopiesType ==
    ASSUME TypeInv, AllGood
    PROVE  Copies \subseteq Lists
<1>1. PICK N \in SUBSET Nodes : cm.data \in [N -> Seq(Reservation) \cup {Bad}]
  BY DEF TypeInv, CmType, ConfigMap, Contents
<1>2. cm.data \in [N -> Seq(Reservation)]
  BY <1>1 DEF AllGood
<1>3. cm.data \in Lists
  BY <1>2 DEF Lists
<1>4. map \in Lists /\ \A w \in Writers : writer[w].data \in Lists
  BY DEF TypeInv, MapType, WriterType, Write
<1> QED
  BY <1>3, <1>4 DEF Copies, Trying

LEMMA CopyInit == Init => CopyInv
<1> SUFFICES ASSUME Init PROVE \A c, d \in Copies : c = d
  BY DEF CopyInv
<1>1. Trying = {}
  BY DEF Init, Trying
<1> QED
  BY <1>1 DEF Init, Copies

\* A step that makes no new copy keeps the invariant.
LEMMA FewerCopies ==
    ASSUME TypeInv, CopyInv, AllGood' => AllGood /\ Copies' \subseteq Copies,
           now' \in Int, now' >= now, served \subseteq served'
    PROVE  CopyInv'
<1> SUFFICES ASSUME AllGood', NEW c \in Copies', NEW d \in Copies', NEW n \in Nodes,
                    NEW r \in Entries(c, n) \ Entries(d, n)
             PROVE  Released(r)'
  BY DEF CopyInv, Entries
<1>1. c \in Copies /\ d \in Copies /\ AllGood
  OBVIOUS
<1>2. Released(r)
  BY <1>1 DEF CopyInv
<1>3. r.expire \in Int /\ now \in Int
  BY <1>1, CopiesType, ListEntries DEF TypeInv, RestType, Reservation
<1>4. CASE r.pod \in served
  BY <1>4 DEF Released
<1>5. CASE r.expire <= now
  <2>1. r.expire <= now'
    BY <1>3, <1>5
  <2> QED
    BY <2>1 DEF Released
<1> QED
  BY <1>2, <1>4, <1>5 DEF Released

\* When the history starts anew, only the ConfigMap counts.
LEMMA AloneAnew ==
    ASSUME TypeInv, Anew, cm' \in ConfigMap, cm'.rv = cm.rv + 1, UNCHANGED <<seen, map>>,
           \A w \in Writers : writer'[w] = NoWrite \/ writer'[w].base = writer[w].base
    PROVE  CopyInv'
<1>1. since' = cm'.rv /\ cm'.rv \in Nat
  BY DEF Anew, ConfigMap
<1>2. SeenType' /\ seen'.rv # cm'.rv /\ \A w \in Writers : writer[w].base < cm'.rv
  BY NewVersion DEF TypeInv
<1>3. ~(seen'.rv >= since')
  BY <1>1, <1>2 DEF SeenType
<1>4. \A w \in Writers : writer[w].base \in Nat
  BY DEF TypeInv, WriterType, Write
<1>5. Trying' = {}
  BY <1>1, <1>2, <1>4 DEF Trying, NoWrite
<1>6. Copies' = {cm'.data}
  BY <1>3, <1>5 DEF Copies
<1> QED
  BY <1>6 DEF CopyInv

\* A writer begins with a copy of the plugin's map that leaves out what is not in S.
LEMMA BegunCopy ==
    ASSUME TypeInv, CopyInv, NEW w \in Writers, NEW S, NEW p,
           Begin(w, Kept(S), p), UNCHANGED <<cm, seen, map, now, since>>,
           served \subseteq served',
           writer' # writer /\ seen.rv >= since => \A r \in Reservation \ S : Released(r)'
    PROVE  CopyInv'
<1>1. writer \in [Writers -> Write] /\ now \in Int
  BY DEF TypeInv, WriterType, RestType
<1>2. NoWrite' = NoWrite /\ (AllGood' <=> AllGood)
  BY DEF NoWrite, AllGood
<1>3. CASE Kept(S) = map \/ ~(seen.rv >= since) \/ writer' = writer
  <2> DEFINE new == [data |-> Kept(S), tries |-> MaxTries, base |-> seen.rv, pod |-> p]
  <2>1. writer' = writer \/ writer' = [writer EXCEPT ![w] = new]
    BY DEF Begin
  <2>2. new.base = seen.rv
    OBVIOUS
  <2> HIDE DEF new
  <2>3. \A v \in Trying' : v \in Trying /\ writer'[v] = writer[v]
    <3>1. CASE writer' = writer
      BY <1>2, <3>1 DEF Trying
    <3>2. CASE writer' = [writer EXCEPT ![w] = new] /\ ~(seen.rv >= since)
      BY <1>1, <1>2, <2>2, <3>2 DEF Trying
    <3> QED
      BY <1>3, <2>1, <3>1, <3>2 DEF Begin
  <2>4. Copies' \subseteq Copies
    BY <2>3 DEF Copies
  <2> QED
    BY <1>1, <1>2, <2>4, FewerCopies
<1>4. CASE Kept(S) # map /\ seen.rv >= since /\ writer' # writer
  <2> DEFINE new == [data |-> Kept(S), tries |-> MaxTries, base |-> seen.rv, pod |-> p]
  <2>1. writer' = [writer EXCEPT ![w] = new]
    BY <1>4 DEF Begin
  <2>2. new.data = Kept(S)
    OBVIOUS
  <2> HIDE DEF new
  <2>3. \A v \in Trying' : writer'[v].data \in Copies \/ writer'[v].data = Kept(S)
    BY <1>1, <1>2, <2>1, <2>2 DEF Trying, Copies
  <2>4. Copies' \subseteq Copies \cup {Kept(S)} /\ map \in Copies
    BY <1>4, <2>3 DEF Copies
  <2> SUFFICES ASSUME AllGood, NEW c \in Copies', NEW d \in Copies', NEW n \in Nodes,
                      NEW r \in Entries(c, n) \ Entries(d, n)
               PROVE  Released(r)'
    BY <1>2 DEF CopyInv, Entries
  <2>5. /\ Entries(map, n) \cap S \subseteq Entries(Kept(S), n)
        /\ Entries(Kept(S), n) \subseteq Entries(map, n)
    BY KeptType DEF TypeInv
  <2>6. \A x : Released(x) => Released(x)'
    BY DEF Released
  <2>7. \A b \in Copies, a \in Copies : \A x \in Entries(b, n) \ Entries(a, n) : Released(x)
    BY DEF CopyInv
  <2>8. PICK a \in Copies : r \in Entries(a, n)
    BY <2>4, <2>5
  <2>9. CASE d \in Copies
    BY <2>6, <2>7, <2>8, <2>9
  <2>10. CASE d = Kept(S)
    <3>1. CASE r \notin Entries(map, n)
      BY <2>4, <2>6, <2>7, <2>8, <3>1
    <3>2. CASE r \in Entries(map, n)
      <4>1. r \in Reservation
        BY <3>2, ListEntries DEF TypeInv, MapType
      <4>2. r \notin S
        BY <2>5, <2>10, <3>2
      <4> QED
        BY <1>4, <4>1, <4>2
    <3> QED
      BY <3>1, <3>2
  <2> QED
    BY <2>4, <2>9, <2>10
<1> QED
  BY <1>3, <1>4

LEMMA CopyNext == TypeInv /\ HistoryType /\ CopyInv /\ [Next]_vars => CopyInv'
<1> SUFFICES ASSUME TypeInv, HistoryType, CopyInv, [Next]_vars PROVE CopyInv'
  OBVIOUS
<1>0. NoWrite' = NoWrite /\ now \in Int /\ cm \in ConfigMap /\ cm.data \in Contents
  BY DEF NoWrite, TypeInv, RestType, CmType, ConfigMap
<1>1. CASE UNCHANGED <<cm, seen, map, writer, since, served>> /\ now' \in Int /\ now' >= now
  <2>1. (AllGood' <=> AllGood) /\ Copies' = Copies
    BY <1>0, <1>1 DEF AllGood, Copies, Trying
  <2> QED
    BY <1>1, <2>1, FewerCopies
<1>2. CASE UserActs
  <2>1. Anew /\ cm' \in ConfigMap /\ cm'.rv = cm.rv + 1 /\ UNCHANGED <<seen, map, writer>>
    BY <1>2, UserStep DEF UserActs, UserSpoils, UserAdds, UserDeletes, Edit
  <2> QED
    BY <2>1, AloneAnew
<1>3. CASE Sync
  <2>1. UNCHANGED <<cm, writer, now, since, served>> /\ map' \in Loaded(cm.data)
    BY <1>3 DEF Sync
  <2>2. AllGood => map' = cm.data
    BY <1>0, <2>1, LoadedIs DEF AllGood
  <2>3. AllGood' <=> AllGood
    BY <2>1 DEF AllGood
  <2>4. Trying' = Trying
    BY <1>0, <2>1 DEF Trying
  <2>5. AllGood => Copies' \subseteq Copies
    BY <2>1, <2>2, <2>4 DEF Copies
  <2> QED
    BY <1>0, <2>1, <2>3, <2>5, FewerCopies
<1>4. CASE Reserve
  <2> DEFINE S == {r \in Reservation : NotOf(cycle, r)}
  <2>1. /\ Begin("reserve", Kept(S), cycle) /\ UNCHANGED <<cm, seen, map, now, since>>
        /\ served' = IF seen.rv >= since /\ writer' # writer THEN served \cup {cycle}
                                                             ELSE served
        /\ "reserve" \in Writers
    BY <1>4 DEF Reserve, Writers
  <2>2. writer' # writer /\ seen.rv >= since => \A r \in Reservation \ S : Released(r)'
    BY <2>1 DEF NotOf, Released
  <2> HIDE DEF S
  <2> QED
    BY <2>1, <2>2, BegunCopy
<1>5. CASE CleanExpired
  <2> DEFINE S == {r \in Reservation : NotOver(r)}
  <2>1. /\ Begin("clean", Kept(S), NoPod) /\ UNCHANGED <<cm, seen, map, now, since, served>>
        /\ "clean" \in Writers
    BY <1>5 DEF CleanExpired, Writers
  <2>2. \A r \in Reservation \ S : Released(r)'
    <3>1. \A r \in Reservation : r.expire \in Int
      BY DEF Reservation
    <3> QED
      BY <1>0, <2>1, <3>1 DEF NotOver, Released
  <2> HIDE DEF S
  <2> QED
    BY <2>1, <2>2, BegunCopy
<1>6. ASSUME NEW w \in Writers, UpdateCM(w)
      PROVE  CopyInv'
  <2>1. /\ \A v \in Writers \ {w} : writer'[v] = writer[v]
        /\ \/ writer'[w] = NoWrite
           \/ writer'[w].data = writer[w].data /\ writer'[w].base = writer[w].base
    BY <1>6, AttemptIs
  <2>2. now' = now /\ UNCHANGED <<seen, map>> /\ writer[w] # NoWrite
    BY <1>6 DEF UpdateCM
  <2>3. ASSUME UNCHANGED <<since, served>>
        PROVE  /\ \A v \in Trying' : v \in Trying /\ writer'[v].data = writer[v].data
               /\ {m \in {map'} : seen'.rv >= since'} = {m \in {map} : seen.rv >= since}
    BY <1>0, <2>1, <2>2, <2>3 DEF Trying
  <2>4. CASE UNCHANGED <<cm, since, served>>
    <3>1. (AllGood' <=> AllGood) /\ Copies' \subseteq Copies
      BY <2>3, <2>4 DEF AllGood, Copies
    <3> QED
      BY <1>0, <2>2, <2>4, <3>1, FewerCopies
  <2>5. CASE /\ cm' \in ConfigMap /\ cm'.rv = cm.rv + 1 /\ cm'.data = writer[w].data
             /\ IF Complete(w) THEN UNCHANGED <<since, served>> ELSE Anew
    <3>1. CASE ~Complete(w)
      BY <2>1, <2>2, <2>5, <3>1, AloneAnew
    <3>2. CASE Complete(w)
      <4>1. w \in Trying /\ AllGood
        BY <2>2, <3>2 DEF Complete, Trying
      <4>2. Copies' \subseteq Copies
        BY <2>3, <2>5, <3>2, <4>1 DEF Copies
      <4> QED
        BY <1>0, <2>2, <2>5, <3>2, <4>1, <4>2, FewerCopies
    <3> QED
      BY <3>1, <3>2
  <2> QED
    BY <1>6, <2>4, <2>5, WrittenIs
<1>7. CASE Restart
  <2>1. /\ \A w \in Writers : writer'[w] = NoWrite
        /\ UNCHANGED <<cm, now, since, served>> /\ seen'.rv = -1
    BY <1>7 DEF Restart
  <2>2. ~(seen'.rv >= since')
    <3>1. since \in Nat
      BY <1>0 DEF HistoryType, ConfigMap
    <3> QED
      BY <2>1, <3>1
  <2>3. Trying' = {}
    BY <1>0, <2>1 DEF Trying
  <2>4. (AllGood' <=> AllGood) /\ Copies' \subseteq Copies
    BY <2>1, <2>2, <2>3 DEF AllGood, Copies
  <2> QED
    BY <1>0, <2>1, <2>4, FewerCopies
<1>8. CASE Tick
  BY <1>0, <1>1, <1>8 DEF Tick
<1>9. CASE \/ UNCHANGED vars
          \/ \E p \in Pods : Unplace(p) \/ \E n \in Nodes : Filter(p, n)
  BY <1>0, <1>1, <1>9 DEF Unplace, Filter, vars
<1> QED
  BY <1>2, <1>3, <1>4, <1>5, <1>6, <1>7, <1>8, <1>9 DEF Next, UserActs

\* However often a write was tried, and whatever the plugin's other writer wrote since
\* its copy was made: it takes away what is over and what placed Pods had reserved, and
\* nothing else, unless a user's write came between or an entry was malformed.
THEOREM OthersAreNotRemoved == Spec => WritesRemoveOnlyTheirOwn
<1> DEFINE Inv == TypeInv /\ HistoryType /\ CopyInv
           Removes == \A w \in Writers :
               /\ writer[w] # NoWrite /\ writer'[w] = NoWrite
               /\ cm'.exists /\ cm'.rv = cm.rv + 1
               /\ Complete(w)
               => \A n \in Nodes :
                     \A r \in Entries(cm.data, n) \ Entries(cm'.data, n) : Released(r)
<1>1. Inv /\ [Next]_vars => [Removes]_vars
  <2> SUFFICES ASSUME TypeInv, CopyInv, Next, NEW w \in Writers,
                      writer[w] # NoWrite, writer'[w] = NoWrite, cm'.rv = cm.rv + 1,
                      Complete(w), NEW n \in Nodes,
                      NEW r \in Entries(cm.data, n) \ Entries(cm'.data, n)
               PROVE  Released(r)
    OBVIOUS
  <2>1. cm' # cm
    BY DEF TypeInv, CmType, ConfigMap
  <2>2. writer' # writer
    OBVIOUS
  <2>3. PICK v \in Writers : UpdateCM(v)
    BY <2>1, <2>2 DEF Next, UserSpoils, UserAdds, UserDeletes, Tick, Sync, Unplace, Filter,
                      Reserve, CleanExpired, Restart
  <2>4. v = w
    BY <2>3, AttemptIs
  <2>5. cm'.data = writer[w].data
    BY <2>1, <2>3, <2>4, WrittenIs
  <2>6. cm.data \in Copies /\ writer[w].data \in Copies /\ AllGood
    BY DEF Copies, Trying, Complete
  <2> QED
    BY <2>5, <2>6 DEF CopyInv
<1>2. (Init => Inv) /\ (Inv /\ [Next]_vars => Inv')
  BY TypeInit, TypeNext, HistoryInit, HistoryNext, CopyInit, CopyNext
<1> QED
  BY <1>1, <1>2, PTL DEF Spec, WritesRemoveOnlyTheirOwn

=============================================================================
