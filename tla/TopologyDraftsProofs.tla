------------------------ MODULE TopologyDraftsProofs ------------------------
(***************************************************************************)
(* Theorems about TopologyDrafts: drafts never lead back to a machine      *)
(* (NoWayRound), a release is one state of the tables unless a single-node *)
(* preview was saved over its bundle's row (OneStateIsReleased), it is     *)
(* ordered downstream first where every machine has one place in the       *)
(* chains (DownstreamIsFirst), and a single-node deployment writes what    *)
(* the tables say when it commits (CommitIsCurrent).                       *)
(*                                                                         *)
(* The first half is about the operators: a valid graph has at most one    *)
(* link out of an inbound, so its walks pass every machine once and end,   *)
(* the depth falls by one with every hop, and DeploymentOrder sorts by     *)
(* that depth.  Walks are infinite in the number of hops, so the library's *)
(* induction theorems, which take an operator, do not serve: what holds of *)
(* every hop is shown by the least number for which it would not.          *)
(*                                                                         *)
(* The second half is the inductive invariant: whatever was read before,   *)
(* a preview under way, a row, a request, says what the tables say as long *)
(* as the revisions kept with it stand: those of graph and material for a  *)
(* chain, those of draft and material for a single node.                   *)
(***************************************************************************)
EXTENDS TopologyDrafts, FiniteSetTheorems, WellFoundedInduction, TLAPS

-----------------------------------------------------------------------------
(* Induction: the least number, the smallest and the greatest member.      *)

LEMMA LeastNumber ==
  ASSUME NEW B \in SUBSET Nat, B # {}
  PROVE  \E n \in B : \A m \in B : n <= m
<1>1. PICK n \in B : \A m \in B : ~(<<m, n>> \in OpToRel(<, Nat))
  BY NatLessThanWellFounded, WFMin, Zenon
<1>2. \A m \in B : <<m, n>> \in Nat \X Nat
  OBVIOUS
<1>3. \A m \in B : ~(m < n)
  BY <1>1, <1>2, Zenon DEF OpToRel
<1> QED
  BY <1>3

LEMMA Smallest ==
  ASSUME NEW S, IsFiniteSet(S), NEW Bad \in SUBSET SUBSET S, Bad # {}
  PROVE  \E T \in Bad : \A U \in Bad : ~(U \subseteq T /\ U # T)
<1>1. Bad \subseteq FiniteSubsetsOf(S)
  BY FS_Subset DEF FiniteSubsetsOf
<1>2. PICK T \in Bad : \A U \in Bad : <<U, T>> \notin StrictSubsetOrdering(S)
  BY <1>1, FS_StrictSubsetOrderingWellFounded, WFMin, Zenon
<1> QED
  BY <1>2 DEF StrictSubsetOrdering

\* A relation that puts any two members of a set in one order.
Orders(before, S) ==
  /\ \A x, y \in S : x # y => <<x, y>> \in before \/ <<y, x>> \in before
  /\ \A x, y, z \in S : <<x, y>> \in before /\ <<y, z>> \in before => <<x, z>> \in before

LEMMA Greatest ==
  ASSUME NEW S, IsFiniteSet(S), S # {}, NEW before, Orders(before, S)
  PROVE  \E x \in S : \A y \in S : y # x => <<y, x>> \in before
<1> DEFINE Good(T) == \E x \in T : \A y \in T : y # x => <<y, x>> \in before
           Bad == {T \in SUBSET S : T # {} /\ ~Good(T)}
<1>1. SUFFICES ASSUME Bad # {} PROVE FALSE
  OBVIOUS
<1>2. Bad \in SUBSET SUBSET S
  OBVIOUS
<1> HIDE DEF Bad
<1>3. \E T \in Bad : \A U \in Bad : ~(U \subseteq T /\ U # T)
  BY <1>1, <1>2, Smallest
<1> USE DEF Bad
<1>4. PICK T \in Bad : \A U \in Bad : ~(U \subseteq T /\ U # T)
  BY <1>3
<1>5. PICK a \in T : TRUE
  BY <1>4
<1> DEFINE U == T \ {a}
<1>6. U \subseteq T /\ U # T /\ U \in SUBSET S
  BY <1>5
<1>7. CASE U = {}
  <2>1. \A y \in T : y = a
    BY <1>7
  <2> QED
    BY <2>1, <1>4, <1>5
<1>8. CASE U # {}
  <2>1. Good(U)
    BY <1>4, <1>6, <1>8
  <2>2. PICK x \in U : \A y \in U : y # x => <<y, x>> \in before
    BY <2>1
  <2>3. x \in S /\ a \in S /\ x # a /\ x \in T /\ T = U \cup {a}
    BY <1>5
  <2>4. CASE <<a, x>> \in before
    <3>1. \A y \in T : y # x => <<y, x>> \in before
      BY <2>2, <2>3, <2>4
    <3> QED
      BY <3>1, <2>3, <1>4
  <2>5. CASE <<x, a>> \in before
    <3>1. \A y \in U : <<y, a>> \in before
      <4>1. \A y \in U : y \in S
        OBVIOUS
      <4> QED
        BY <2>2, <2>3, <2>5, <4>1 DEF Orders
    <3> QED
      BY <3>1, <2>3, <1>4, <1>5
  <2> QED
    BY <2>3, <2>4, <2>5 DEF Orders
<1> QED
  BY <1>7, <1>8

\* Lists, as SetToSeqs has them: every member once.
Sorted(s, before) == \A j, k \in DOMAIN s : j < k => <<s[j], s[k]>> \in before

LEMMA SortedExists ==
  ASSUME NEW S, IsFiniteSet(S), NEW before, Orders(before, S)
  PROVE  \E s \in SetToSeqs(S) : Sorted(s, before)
<1> DEFINE Good(T) == \E s \in SetToSeqs(T) : Sorted(s, before)
           Bad == {T \in SUBSET S : ~Good(T)}
<1>1. SUFFICES ASSUME Bad # {} PROVE FALSE
  OBVIOUS
<1>2. Bad \in SUBSET SUBSET S
  OBVIOUS
<1> HIDE DEF Bad
<1>3. \E T \in Bad : \A U \in Bad : ~(U \subseteq T /\ U # T)
  BY <1>1, <1>2, Smallest
<1> USE DEF Bad
<1>4. PICK T \in Bad : \A U \in Bad : ~(U \subseteq T /\ U # T)
  BY <1>3
<1>5. IsFiniteSet(T) /\ Orders(before, T)
  BY FS_Subset DEF Orders
<1>6. CASE T = {}
  <2>1. Cardinality(T) = 0
    BY <1>6, FS_EmptySet
  <2>2. [k \in 1..0 |-> k] \in SetToSeqs(T)
    BY <2>1, <1>6 DEF SetToSeqs
  <2> QED
    BY <2>2, <1>4 DEF Sorted
<1>7. CASE T # {}
  <2>1. PICK x \in T : \A y \in T : y # x => <<y, x>> \in before
    BY <1>5, <1>7, Greatest
  <2> DEFINE U == T \ {x}
             n == Cardinality(T)
  <2>2. Good(U)
    BY <1>4, <2>1
  <2>3. IsFiniteSet(U) /\ n \in Nat /\ Cardinality(U) = n - 1 /\ n # 0
    BY <1>5, <1>7, <2>1, FS_RemoveElement, FS_CardinalityType, FS_EmptySet
  <2>4. PICK s \in SetToSeqs(U) : Sorted(s, before)
    BY <2>2
  <2> HIDE DEF n
  <2>5. s \in [1..(n - 1) -> U] /\ \A j, k \in 1..(n - 1) : j # k => s[j] # s[k]
    BY <2>3, <2>4 DEF SetToSeqs
  <2> DEFINE t == [k \in 1..n |-> IF k = n THEN x ELSE s[k]]
  <2>6. t \in [1..n -> T]
    <3>1. \A k \in 1..n : k # n => k \in 1..(n - 1)
      BY <2>3
    <3> QED
      BY <2>1, <2>5, <3>1
  <2>7. \A j, k \in 1..n : j # k => t[j] # t[k]
    <3> SUFFICES ASSUME NEW j \in 1..n, NEW k \in 1..n, j # k PROVE t[j] # t[k]
      OBVIOUS
    <3>1. \A i \in 1..n : i # n => i \in 1..(n - 1) /\ t[i] = s[i] /\ s[i] \in U
      BY <2>3, <2>5
    <3>2. t[n] = x /\ x \notin U
      BY <2>3
    <3> HIDE DEF t, U
    <3> QED
      BY <3>1, <3>2, <2>5
  <2>8. Sorted(t, before)
    <3> SUFFICES ASSUME NEW j \in 1..n, NEW k \in 1..n, j < k PROVE <<t[j], t[k]>> \in before
      BY DEF Sorted
    <3>1. j \in 1..(n - 1) /\ t[j] = s[j] /\ s[j] \in U
      BY <2>3, <2>5
    <3>2. CASE k = n
      BY <3>1, <3>2, <2>1
    <3>3. CASE k # n
      BY <3>1, <3>3, <2>3, <2>4, <2>5 DEF Sorted
    <3> QED
      BY <3>2, <3>3
  <2>9. t \in SetToSeqs(T)
    BY <2>6, <2>7 DEF SetToSeqs, n
  <2> QED
    BY <2>8, <2>9, <1>4
<1> QED
  BY <1>6, <1>7

LEMMA Listed ==
  ASSUME NEW S, IsFiniteSet(S), NEW s \in SetToSeqs(S)
  PROVE  /\ s \in Seq(S) /\ Len(s) = Cardinality(S) /\ Len(s) \in Nat /\ Range(s) = S
         /\ \A j, k \in 1..Len(s) : j # k => s[j] # s[k]
<1> DEFINE n == Cardinality(S)
<1>1. n \in Nat
  BY FS_CardinalityType
<1>2. s \in [1..n -> S] /\ \A j, k \in 1..n : j # k => s[j] # s[k]
  BY DEF SetToSeqs
<1>3. IsFiniteSet(1..n) /\ Cardinality(1..n) = n
  BY <1>1, FS_Interval
<1>4. s \in Injection(1..n, S)
  BY <1>2 DEF Injection, IsInjective
<1>5. s \in Surjection(1..n, S)
  BY <1>3, <1>4, FS_Injection
<1> HIDE DEF n
<1>6. Range(s) = S
  BY <1>2, <1>5 DEF Surjection, Range
<1>7. s \in Seq(S) /\ Len(s) = n
  BY <1>1, <1>2
<1> QED
  BY <1>1, <1>2, <1>6, <1>7 DEF n

LEMMA InOrderIs ==
  ASSUME NEW S, IsFiniteSet(S), NEW before, Orders(before, S)
  PROVE  InOrder(S, before) \in SetToSeqs(S) /\ Sorted(InOrder(S, before), before)
<1>1. \E s \in SetToSeqs(S) : Sorted(s, before)
  BY SortedExists
<1> QED
  BY <1>1 DEF InOrder, Sorted

LEMMA MaxIs ==
  ASSUME NEW S \in SUBSET Int, IsFiniteSet(S), S # {}
  PROVE  Max(S) \in S /\ \A x \in S : x <= Max(S)
<1> DEFINE before == {p \in S \X S : p[1] < p[2]}
<1>1. Orders(before, S)
  BY DEF Orders
<1> HIDE DEF before
<1>2. \E x \in S : \A y \in S : y # x => <<y, x>> \in before
  BY <1>1, Greatest
<1> USE DEF before
<1>3. \A x, y \in S : <<y, x>> \in before => x >= y
  OBVIOUS
<1>4. \A x \in S : x >= x
  OBVIOUS
<1> HIDE DEF before
<1>5. \E x \in S : \A y \in S : x >= y
  BY <1>2, <1>3, <1>4
<1>6. Max(S) \in S /\ \A y \in S : Max(S) >= y
  BY <1>5 DEF Max
<1> QED
  BY <1>6

-----------------------------------------------------------------------------
(* What the walks of the validators visit.                                 *)

IsWay(g, links, i, k) == g = [j \in 0..k |-> IF j = 0 THEN i ELSE Step(links, g[j - 1])]

LEMMA HopIsWay == \A links, i, k : Hop(links, i, k) = (CHOOSE g : IsWay(g, links, i, k))[k]
  BY DEF Hop, IsWay

LEMMA WayUnique ==
  ASSUME NEW links, NEW i, NEW k \in Nat, NEW m \in Nat, k <= m, NEW g, NEW h,
         IsWay(g, links, i, k), IsWay(h, links, i, m)
  PROVE  g[k] = h[k]
<1> DEFINE B == {j \in 0..k : g[j] # h[j]}
<1>1. SUFFICES ASSUME B # {} PROVE FALSE
  OBVIOUS
<1>2. B \in SUBSET Nat
  OBVIOUS
<1> HIDE DEF B
<1>3. \E n \in B : \A j \in B : n <= j
  BY <1>1, <1>2, LeastNumber
<1> USE DEF B
<1>4. PICK n \in B : \A j \in B : n <= j
  BY <1>3
<1>5. CASE n = 0
  BY <1>4, <1>5 DEF IsWay
<1>6. CASE n # 0
  <2>1. n - 1 \in 0..k /\ n \in 0..k /\ n \in 0..m /\ n - 1 \notin B
    BY <1>4, <1>6
  <2>2. g[n - 1] = h[n - 1]
    BY <2>1
  <2>3. g[n] = Step(links, g[n - 1]) /\ h[n] = Step(links, h[n - 1])
    BY <2>1, <1>6 DEF IsWay
  <2> QED
    BY <2>2, <2>3, <1>4
<1> QED
  BY <1>5, <1>6

LEMMA WayExists ==
  ASSUME NEW links, NEW i
  PROVE  \A k \in Nat : \E g : IsWay(g, links, i, k)
<1> DEFINE B == {k \in Nat : ~\E g : IsWay(g, links, i, k)}
<1>1. SUFFICES ASSUME B # {} PROVE FALSE
  OBVIOUS
<1>2. B \in SUBSET Nat
  OBVIOUS
<1> HIDE DEF B
<1>3. \E n \in B : \A j \in B : n <= j
  BY <1>1, <1>2, LeastNumber
<1> USE DEF B
<1>4. PICK n \in B : \A j \in B : n <= j
  BY <1>3
<1>5. CASE n = 0
  <2>1. IsWay([j \in 0..0 |-> i], links, i, 0)
    BY DEF IsWay
  <2> QED
    BY <2>1, <1>4, <1>5
<1>6. CASE n # 0
  <2>1. n - 1 \in Nat /\ n - 1 \notin B
    BY <1>4, <1>6
  <2>2. PICK g : IsWay(g, links, i, n - 1)
    BY <2>1
  <2> DEFINE h == [j \in 0..n |-> IF j = 0 THEN i ELSE Step(links, g[j - 1])]
  <2>3. \A j \in 0..(n - 1) : g[j] = IF j = 0 THEN i ELSE Step(links, g[j - 1])
    BY <2>2 DEF IsWay
  <2>4. \A j \in 0..(n - 1) : h[j] = g[j]
    BY <2>3, <2>1
  <2>5. \A j \in 0..n : j # 0 => j - 1 \in 0..(n - 1)
    BY <2>1
  <2>6. \A j \in 0..n : h[j] = IF j = 0 THEN i ELSE Step(links, h[j - 1])
    <3>1. \A j \in 0..n : h[j] = IF j = 0 THEN i ELSE Step(links, g[j - 1])
      OBVIOUS
    <3> HIDE DEF h
    <3> QED
      BY <3>1, <2>4, <2>5
  <2>7. h = [j \in 0..n |-> h[j]]
    OBVIOUS
  <2> HIDE DEF h
  <2>8. IsWay(h, links, i, n)
    BY <2>6, <2>7 DEF IsWay
  <2> QED
    BY <2>8, <1>4
<1> QED
  BY <1>5, <1>6

LEMMA HopZero == \A links, i : Hop(links, i, 0) = i
<1> SUFFICES ASSUME NEW links, NEW i PROVE Hop(links, i, 0) = i
  OBVIOUS
<1> DEFINE g == CHOOSE g : IsWay(g, links, i, 0)
<1>1. IsWay(g, links, i, 0)
  BY WayExists
<1>2. Hop(links, i, 0) = g[0]
  BY HopIsWay
<1> HIDE DEF g
<1>3. g[0] = i
  BY <1>1 DEF IsWay
<1> QED
  BY <1>2, <1>3

LEMMA HopNext ==
  ASSUME NEW links, NEW i, NEW k \in Nat
  PROVE  Hop(links, i, k + 1) = Step(links, Hop(links, i, k))
<1> DEFINE g == CHOOSE g : IsWay(g, links, i, k)
           h == CHOOSE h : IsWay(h, links, i, k + 1)
<1>1. IsWay(g, links, i, k) /\ IsWay(h, links, i, k + 1)
  <2>1. k + 1 \in Nat
    OBVIOUS
  <2> QED
    BY <2>1, WayExists
<1>2. Hop(links, i, k) = g[k] /\ Hop(links, i, k + 1) = h[k + 1]
  BY HopIsWay
<1> HIDE DEF g, h
<1>3. g[k] = h[k]
  BY <1>1, WayUnique
<1>4. h[k + 1] = Step(links, h[(k + 1) - 1])
  BY <1>1 DEF IsWay
<1>5. (k + 1) - 1 = k
  OBVIOUS
<1> QED
  BY <1>2, <1>3, <1>4, <1>5

LEMMA NoneIsTheEnd == \A links : Step(links, None) = None
  BY DEF Step

LEMMA HopShift ==
  ASSUME NEW links, NEW i, NEW j \in Nat
  PROVE  \A k \in Nat : Hop(links, i, j + k) = Hop(links, Hop(links, i, j), k)
<1> DEFINE B == {k \in Nat : Hop(links, i, j + k) # Hop(links, Hop(links, i, j), k)}
<1>1. SUFFICES ASSUME B # {} PROVE FALSE
  OBVIOUS
<1>2. B \in SUBSET Nat
  OBVIOUS
<1> HIDE DEF B
<1>3. \E n \in B : \A k \in B : n <= k
  BY <1>1, <1>2, LeastNumber
<1> USE DEF B
<1>4. PICK n \in B : \A k \in B : n <= k
  BY <1>3
<1>5. CASE n = 0
  <2>1. j + 0 = j
    OBVIOUS
  <2> QED
    BY <2>1, <1>4, <1>5, HopZero
<1>6. CASE n # 0
  <2> DEFINE k == n - 1
  <2>1. k \in Nat /\ k \notin B /\ n = k + 1 /\ j + n = (j + k) + 1 /\ j + k \in Nat
    BY <1>4, <1>6
  <2> HIDE DEF k
  <2>2. Hop(links, i, (j + k) + 1) = Step(links, Hop(links, i, j + k))
    BY <2>1, HopNext
  <2>3. Hop(links, Hop(links, i, j), k + 1) = Step(links, Hop(links, Hop(links, i, j), k))
    BY <2>1, HopNext
  <2>4. Hop(links, i, j + k) = Hop(links, Hop(links, i, j), k)
    BY <2>1
  <2> QED
    BY <2>1, <2>2, <2>3, <2>4, <1>4
<1> QED
  BY <1>5, <1>6

LEMMA NothingAfterNone ==
  ASSUME NEW links
  PROVE  \A k \in Nat : Hop(links, None, k) = None
<1> DEFINE B == {k \in Nat : Hop(links, None, k) # None}
<1>1. SUFFICES ASSUME B # {} PROVE FALSE
  OBVIOUS
<1>2. B \in SUBSET Nat
  OBVIOUS
<1> HIDE DEF B
<1>3. \E n \in B : \A k \in B : n <= k
  BY <1>1, <1>2, LeastNumber
<1> USE DEF B
<1>4. PICK n \in B : \A k \in B : n <= k
  BY <1>3
<1>5. CASE n = 0
  BY <1>4, <1>5, HopZero
<1>6. CASE n # 0
  <2> DEFINE k == n - 1
  <2>1. k \in Nat /\ k \notin B /\ n = k + 1
    BY <1>4, <1>6
  <2> HIDE DEF k
  <2>2. Hop(links, None, k) = None
    BY <2>1
  <2> QED
    BY <2>1, <2>2, HopNext, NoneIsTheEnd, <1>4
<1> QED
  BY <1>5, <1>6

-----------------------------------------------------------------------------
(* Graphs that the validators let pass.                                    *)

Draft(inb, links) ==
  /\ DOMAIN inb \subseteq Ids /\ links \subseteq Links
  /\ ValidateDraftGraph(inb, links)

LEMMA LinkIs ==
  ASSUME NEW l \in Links
  PROVE  l = <<l[1], l[2], l[3]>> /\ l[1] \in Nodes /\ l[2] \in Ids /\ l[3] \in Ids
  BY GraphIsTyped

LEMMA OneLink ==
  ASSUME NEW inb, NEW links, Draft(inb, links), NEW l \in links
  PROVE  From(links, l[2]) = {l}
<1>1. IsFiniteSet(Links)
  <2>1. IsFiniteSet(Ids \X Ids)
    BY GraphIsTyped, FS_Product
  <2>2. IsFiniteSet(Nodes \X (Ids \X Ids))
    BY <2>1, GraphIsTyped, FS_Product
  <2> DEFINE f == [m \in Links |-> <<m[1], <<m[2], m[3]>>>>]
  <2>3. f \in Injection(Links, Nodes \X (Ids \X Ids))
    <3>1. \A m \in Links : f[m] \in Nodes \X (Ids \X Ids)
      BY LinkIs
    <3>2. \A m, o \in Links : m[1] = o[1] /\ m[2] = o[2] /\ m[3] = o[3] => m = o
      BY LinkIs
    <3>3. \A m, o \in Links : f[m] = f[o] => m = o
      BY <3>2
    <3> HIDE DEF f
    <3>4. f \in [Links -> Nodes \X (Ids \X Ids)]
      BY <3>1 DEF f
    <3> QED
      BY <3>3, <3>4 DEF Injection, IsInjective
  <2> HIDE DEF f
  <2> QED
    BY <2>2, <2>3, FS_Injection
<1> DEFINE out == From(links, l[2])
<1>2. out \in SUBSET Links /\ l \in out
  BY DEF Draft, From
<1>3. IsFiniteSet(out)
  BY <1>1, <1>2, FS_Subset
<1>4. Cardinality(out) <= 1
  BY DEF Draft, ValidateDraftGraph, WellFormed
<1> HIDE DEF out
<1>5. Cardinality(out) \in Nat /\ Cardinality(out) # 0
  BY <1>2, <1>3, FS_CardinalityType, FS_EmptySet
<1>6. \E m : out = {m}
  <2>1. Cardinality(out) = 1
    BY <1>4, <1>5
  <2> QED
    BY <1>3, <2>1, FS_Singleton
<1> QED
  BY <1>2, <1>6 DEF out

\* One hop leads along the one link there is.
LEMMA StepIs ==
  ASSUME NEW inb, NEW links, Draft(inb, links), NEW i \in DOMAIN inb
  PROVE  /\ \A l \in links : l[2] = i => Step(links, i) = l[3]
         /\ (\A l \in links : l[2] # i) => Step(links, i) = None
         /\ Step(links, i) \in DOMAIN inb \cup {None}
<1>1. i # None
  BY GraphIsTyped DEF Draft
<1>2. ASSUME NEW l \in links, l[2] = i
      PROVE  Step(links, i) = l[3] /\ l[3] \in DOMAIN inb
  <2>1. From(links, i) = {l}
    BY <1>2, OneLink
  <2>2. l[3] \in DOMAIN inb
    BY DEF Draft, ValidateDraftGraph, WellFormed
  <2> QED
    BY <1>1, <2>1, <2>2 DEF Step
<1>3. ASSUME \A l \in links : l[2] # i PROVE Step(links, i) = None
  <2>1. From(links, i) = {}
    BY <1>3 DEF From
  <2> QED
    BY <2>1 DEF Step
<1> QED
  BY <1>2, <1>3

LEMMA HopIn ==
  ASSUME NEW inb, NEW links, Draft(inb, links), NEW i \in DOMAIN inb
  PROVE  \A k \in Nat : Hop(links, i, k) \in DOMAIN inb \cup {None}
<1> DEFINE B == {k \in Nat : Hop(links, i, k) \notin DOMAIN inb \cup {None}}
<1>1. SUFFICES ASSUME B # {} PROVE FALSE
  OBVIOUS
<1>2. B \in SUBSET Nat
  OBVIOUS
<1> HIDE DEF B
<1>3. \E n \in B : \A k \in B : n <= k
  BY <1>1, <1>2, LeastNumber
<1> USE DEF B
<1>4. PICK n \in B : \A k \in B : n <= k
  BY <1>3
<1>5. CASE n = 0
  BY <1>4, <1>5, HopZero
<1>6. CASE n # 0
  <2> DEFINE k == n - 1
  <2>1. k \in Nat /\ k \notin B /\ n = k + 1
    BY <1>4, <1>6
  <2> HIDE DEF k
  <2>2. Hop(links, i, n) = Step(links, Hop(links, i, k))
    BY <2>1, HopNext
  <2>3. Hop(links, i, k) \in DOMAIN inb \cup {None}
    BY <2>1
  <2>4. Hop(links, i, n) \in DOMAIN inb \cup {None}
    BY <2>2, <2>3, StepIs, NoneIsTheEnd
  <2> QED
    BY <2>4, <1>4
<1> QED
  BY <1>5, <1>6

LEMMA PastTheEnd ==
  ASSUME NEW links, NEW i, NEW k \in Nat, NEW m \in Nat, k <= m, Hop(links, i, k) = None
  PROVE  Hop(links, i, m) = None
<1> DEFINE d == m - k
<1>1. d \in Nat /\ m = k + d
  OBVIOUS
<1> HIDE DEF d
<1>2. Hop(links, i, k + d) = Hop(links, Hop(links, i, k), d)
  BY <1>1, HopShift
<1>3. Hop(links, None, d) = None
  BY <1>1, NothingAfterNone
<1> QED
  BY <1>1, <1>2, <1>3

\* A walk meets no machine twice, hence ends before it has met more than there are.
LEMMA WalkEnds ==
  ASSUME NEW inb, NEW links, Draft(inb, links), NEW i \in DOMAIN inb
  PROVE  Hop(links, i, Cardinality(Ids)) = None
<1> DEFINE n == Cardinality(Ids)
           f == [j \in 0..n |-> Hop(links, i, j)]
<1>1. n \in Nat
  BY GraphIsTyped, FS_CardinalityType
<1>2. SUFFICES ASSUME Hop(links, i, n) # None PROVE FALSE
  OBVIOUS
<1> HIDE DEF n
<1>3. \A j \in 0..n : Hop(links, i, j) # None
  BY <1>1, <1>2, PastTheEnd
<1>4. \A j \in 0..n : Hop(links, i, j) \in Ids
  <2>1. \A j \in 0..n : j \in Nat
    OBVIOUS
  <2> QED
    BY <1>3, <2>1, HopIn DEF Draft
<1>5. \A j \in 0..n : j \in Walk(links, i)
  BY <1>3 DEF Walk, n
<1>6. ~Reenters(links, i)
  BY DEF Draft, ValidateDraftGraph
<1>7. \A j, k \in 0..n : j < k => Hop(links, i, j) # Hop(links, i, k)
  BY <1>5, <1>6 DEF Reenters
<1>8. f \in [0..n -> Ids]
  BY <1>4
<1>9. \A j, k \in 0..n : j # k => f[j] # f[k]
  BY <1>7
<1>10. IsFiniteSet(0..n) /\ Cardinality(0..n) = n + 1
  BY <1>1, FS_Interval
<1>11. IsFiniteSet(Ids) /\ Cardinality(Ids) < Cardinality(0..n)
  BY <1>1, <1>10, GraphIsTyped DEF n
<1> HIDE DEF f
<1>12. \E j, k \in 0..n : j # k /\ f[j] = f[k]
  BY <1>8, <1>10, <1>11, FS_PigeonHole
<1> QED
  BY <1>9, <1>12

LEMMA DepthIs ==
  ASSUME NEW inb, NEW links, Draft(inb, links), NEW i \in DOMAIN inb
  PROVE  /\ Depth(links, i) \in 1..Cardinality(Ids)
         /\ Walk(links, i) = 0..(Depth(links, i) - 1)
         /\ \A k \in Nat : Hop(links, i, k) # None <=> k < Depth(links, i)
<1> DEFINE n == Cardinality(Ids)
           B == {k \in Nat : Hop(links, i, k) = None}
<1>1. n \in Nat
  BY GraphIsTyped, FS_CardinalityType
<1>2. n \in B
  BY <1>1, WalkEnds
<1>3. B \in SUBSET Nat /\ B # {}
  BY <1>2
<1> HIDE DEF B
<1>4. PICK d \in B : \A k \in B : d <= k
  BY <1>3, LeastNumber
<1> USE DEF B
<1>5. d \in Nat /\ d <= n /\ Hop(links, i, d) = None
  BY <1>2, <1>4
<1>6. d # 0
  <2>1. i # None
    BY GraphIsTyped DEF Draft
  <2> QED
    BY <2>1, <1>5, HopZero
<1>7. \A k \in Nat : Hop(links, i, k) # None <=> k < d
  <2>1. \A k \in Nat : d <= k => Hop(links, i, k) = None
    BY <1>5, PastTheEnd
  <2>2. \A k \in Nat : Hop(links, i, k) = None => d <= k
    BY <1>4
  <2> QED
    BY <1>5, <2>1, <2>2
<1>8. Walk(links, i) = 0..(d - 1)
  <2> HIDE DEF B
  <2>1. Walk(links, i) = {k \in 0..n : Hop(links, i, k) # None}
    BY DEF Walk
  <2> HIDE DEF n
  <2> QED
    BY <2>1, <1>1, <1>5, <1>6, <1>7
<1>9. Cardinality(0..(d - 1)) = d
  BY <1>5, <1>6, FS_Interval
<1>10. Depth(links, i) = d
  BY <1>8, <1>9 DEF Depth
<1> QED
  BY <1>1, <1>5, <1>6, <1>7, <1>8, <1>10

LEMMA DepthAlong ==
  ASSUME NEW inb, NEW links, Draft(inb, links), NEW i \in DOMAIN inb, NEW j \in Walk(links, i)
  PROVE  /\ Hop(links, i, j) \in DOMAIN inb
         /\ Depth(links, Hop(links, i, j)) = Depth(links, i) - j
<1> DEFINE h == Hop(links, i, j)
           d == Depth(links, i)
           e == Depth(links, h)
<1>1. d \in Nat /\ j \in Nat /\ j < d /\ h # None
  BY DepthIs DEF Walk
<1>2. h \in DOMAIN inb
  BY <1>1, HopIn
<1>3. e \in Nat
  BY <1>2, DepthIs
<1>4. \A k \in Nat : j + k \in Nat /\ Hop(links, i, j + k) = Hop(links, h, k)
  BY <1>1, HopShift
<1>5. \A k \in Nat : Hop(links, i, k) # None <=> k < d
  BY DepthIs
<1>6. \A k \in Nat : Hop(links, h, k) # None <=> k < e
  BY <1>2, DepthIs
<1> HIDE DEF h, d, e
<1>7. \A k \in Nat : j + k < d <=> k < e
  BY <1>4, <1>5, <1>6
<1>8. ~(e < d - j)
  BY <1>7, <1>1, <1>3
<1>9. ~(d - j < e)
  <2>1. d - j \in Nat /\ ~(j + (d - j) < d)
    BY <1>1
  <2> QED
    BY <2>1, <1>7
<1>10. e = d - j
  BY <1>1, <1>3, <1>8, <1>9
<1> QED
  BY <1>2, <1>10 DEF h, d, e

\* What SaveGraph asks of a graph is that its walks leave every machine for good.
NoWayBack(links) ==
  \A i \in Ids : \E ahead \in SUBSET {j \in Ids : NodeOf[j] # NodeOf[i]} :
    \A l \in links : l[2] \in ahead \cup {i} => l[3] \in ahead

LEMMA DraftHasNoWayBack ==
  ASSUME NEW inb, NEW links, Draft(inb, links)
  PROVE  NoWayBack(links)
<1> SUFFICES ASSUME NEW i \in Ids
             PROVE  \E ahead \in SUBSET {j \in Ids : NodeOf[j] # NodeOf[i]} :
                      \A l \in links : l[2] \in ahead \cup {i} => l[3] \in ahead
  BY DEF NoWayBack
<1>1. CASE i \notin DOMAIN inb
  <2>1. \A l \in links : l[2] \notin {} \cup {i}
    BY <1>1 DEF Draft, ValidateDraftGraph, WellFormed
  <2> QED
    BY <2>1
<1>2. CASE i \in DOMAIN inb
  <2> DEFINE d == Depth(links, i)
             ahead == {Hop(links, i, k) : k \in 1..(d - 1)}
  <2>1. d \in Nat /\ Walk(links, i) = 0..(d - 1) /\ d # 0
    BY <1>2, DepthIs
  <2>2. \A k \in 0..(d - 1) : Hop(links, i, k) \in DOMAIN inb
    BY <2>1, <1>2, DepthAlong
  <2>3. \A k \in 1..(d - 1) : NodeOf[Hop(links, i, k)] # NodeOf[i]
    <3>1. Hop(links, i, 0) = i
      BY HopZero
    <3>2. ~Reenters(links, i)
      BY <1>2 DEF Draft, ValidateDraftGraph
    <3> HIDE DEF d
    <3>3. \A k \in 1..(d - 1) : 0 < k /\ k \in Walk(links, i) /\ 0 \in Walk(links, i)
      BY <2>1
    <3> QED
      BY <3>1, <3>2, <3>3 DEF Reenters
  <2>4. ahead \in SUBSET {j \in Ids : NodeOf[j] # NodeOf[i]}
    <3> HIDE DEF d
    <3>1. \A k \in 1..(d - 1) : k \in 0..(d - 1)
      OBVIOUS
    <3> QED
      BY <2>2, <2>3, <3>1 DEF Draft
  <2>5. ASSUME NEW k \in 0..(d - 1), NEW l \in links, l[2] = Hop(links, i, k)
        PROVE  l[3] \in ahead
    <3>1. l[3] \in DOMAIN inb /\ l[3] # None
      BY GraphIsTyped DEF Draft, ValidateDraftGraph, WellFormed
    <3>2. Hop(links, i, k + 1) = l[3]
      BY <2>2, <2>5, StepIs, HopNext
    <3>3. k + 1 \in Nat
      OBVIOUS
    <3>4. k + 1 < d
      BY <3>1, <3>2, <3>3, <1>2, DepthIs
    <3>5. k + 1 \in 1..(d - 1)
      BY <3>4, <2>1
    <3> HIDE DEF d
    <3> QED
      BY <3>2, <3>5
  <2>6. \A l \in links : l[2] \in ahead \cup {i} => l[3] \in ahead
    <3>1. i = Hop(links, i, 0) /\ 0 \in 0..(d - 1)
      BY HopZero, <2>1
    <3> HIDE DEF d
    <3>2. \A k \in 1..(d - 1) : k \in 0..(d - 1)
      OBVIOUS
    <3>3. \A j \in ahead \cup {i} : \E k \in 0..(d - 1) : j = Hop(links, i, k)
      BY <3>1, <3>2
    <3> HIDE DEF ahead
    <3> QED
      BY <3>3, <2>5
  <2> HIDE DEF ahead
  <2> QED
    BY <2>4, <2>6
<1> QED
  BY <1>1, <1>2

-----------------------------------------------------------------------------
(* The order of deployment.                                                *)

Places(inb, links) == {NodeOf[Hop(links, p[1], p[2])] : p \in Visits(links, Chained(inb))}
Entries(inb) == {i \in Chained(inb) : inb[i].role = "entry"}

LEMMA VisitIs ==
  ASSUME NEW inb, NEW links, Draft(inb, links), NEW starts \in SUBSET DOMAIN inb,
         NEW p \in Visits(links, starts)
  PROVE  /\ p[1] \in starts /\ p[2] \in Walk(links, p[1]) /\ p[2] \in 0..Cardinality(Ids)
         /\ Hop(links, p[1], p[2]) \in DOMAIN inb
         /\ Depth(links, p[1]) - p[2] = Depth(links, Hop(links, p[1], p[2]))
<1>1. p[1] \in starts /\ p[2] \in Walk(links, p[1]) /\ p[2] \in 0..Cardinality(Ids)
  BY DEF Visits
<1> QED
  BY <1>1, DepthAlong

LEMMA PlacesAreNodes ==
  ASSUME NEW inb, NEW links, Draft(inb, links)
  PROVE  /\ Places(inb, links) \subseteq {NodeOf[i] : i \in DOMAIN inb}
         /\ Places(inb, links) \subseteq Nodes
<1>1. Chained(inb) \in SUBSET DOMAIN inb
  BY DEF Chained
<1>2. \A p \in Visits(links, Chained(inb)) : Hop(links, p[1], p[2]) \in DOMAIN inb
  BY <1>1, VisitIs
<1>3. DOMAIN inb \subseteq Ids /\ \A i \in Ids : NodeOf[i] \in Nodes
  BY GraphIsTyped DEF Draft
<1> QED
  BY <1>2, <1>3 DEF Places

\* Both ends of a link are places of a chain.
LEMMA LinksArePlaced ==
  ASSUME NEW inb, NEW links, Draft(inb, links), NEW l \in links
  PROVE  /\ l[2] \in Chained(inb) /\ l[3] \in DOMAIN inb
         /\ NodeOf[l[2]] \in Places(inb, links) /\ NodeOf[l[3]] \in Places(inb, links)
         /\ Depth(links, l[2]) = Depth(links, l[3]) + 1
<1>1. l[2] \in Chained(inb) /\ l[2] \in DOMAIN inb /\ l[3] \in DOMAIN inb /\ l[3] # None
  BY GraphIsTyped DEF Draft, ValidateDraftGraph, WellFormed, Chained
<1>2. Hop(links, l[2], 0) = l[2] /\ Hop(links, l[2], 1) = l[3]
  <2>1. Hop(links, l[2], 0 + 1) = Step(links, Hop(links, l[2], 0))
    BY HopNext
  <2>2. 0 + 1 = 1
    OBVIOUS
  <2> QED
    BY <2>1, <2>2, <1>1, StepIs, HopZero
<1>3. l[2] # None
  BY <1>1, GraphIsTyped DEF Draft
<1>4. 0 \in Walk(links, l[2]) /\ 1 \in Walk(links, l[2])
  <2>1. 0 < Depth(links, l[2]) /\ 1 < Depth(links, l[2]) /\ Depth(links, l[2]) \in Nat
    BY <1>1, <1>2, <1>3, DepthIs
  <2>2. Walk(links, l[2]) = 0..(Depth(links, l[2]) - 1)
    BY <1>1, DepthIs
  <2> QED
    BY <2>1, <2>2
<1>5. \A k \in Walk(links, l[2]) : <<l[2], k>> \in Visits(links, Chained(inb))
  BY <1>1 DEF Visits, Walk
<1>6. <<l[2], 0>> \in Visits(links, Chained(inb)) /\ <<l[2], 1>> \in Visits(links, Chained(inb))
  BY <1>4, <1>5
<1>7. \A p \in Visits(links, Chained(inb)) : NodeOf[Hop(links, p[1], p[2])] \in Places(inb, links)
  BY DEF Places
<1>8. NodeOf[l[2]] \in Places(inb, links) /\ NodeOf[l[3]] \in Places(inb, links)
  BY <1>2, <1>6, <1>7
<1>9. Depth(links, l[3]) = Depth(links, l[2]) - 1
  BY <1>1, <1>2, <1>4, DepthAlong
<1>10. Depth(links, l[2]) \in Nat /\ Depth(links, l[3]) \in Nat
  BY <1>1, DepthIs
<1> QED
  BY <1>1, <1>8, <1>9, <1>10

\* The distance of a machine, as a bound of what its visits have left.
LEMMA DistanceIs ==
  ASSUME NEW inb, NEW links, Draft(inb, links), NEW n
  PROVE  /\ Distance(inb, links, n) \in Nat
         /\ \A p \in Visits(links, Entries(inb)) : NodeOf[Hop(links, p[1], p[2])] = n =>
              Depth(links, Hop(links, p[1], p[2])) - 1 <= Distance(inb, links, n)
         /\ \/ Distance(inb, links, n) = 0
            \/ \E p \in Visits(links, Entries(inb)) :
                 /\ NodeOf[Hop(links, p[1], p[2])] = n
                 /\ Distance(inb, links, n) = Depth(links, Hop(links, p[1], p[2])) - 1
<1> DEFINE here == {p \in Visits(links, Entries(inb)) : NodeOf[Hop(links, p[1], p[2])] = n}
           left == {Depth(links, p[1]) - 1 - p[2] : p \in here}
           m == Cardinality(Ids)
<1>1. Entries(inb) \in SUBSET DOMAIN inb
  BY DEF Entries, Chained
<1>2. Distance(inb, links, n) = Max({0} \cup left)
  BY DEF Distance, Entries
<1>3. m \in Nat
  BY GraphIsTyped, FS_CardinalityType
<1> HIDE DEF m
<1>4. ASSUME NEW p \in here
      PROVE  /\ Depth(links, p[1]) - 1 - p[2] = Depth(links, Hop(links, p[1], p[2])) - 1
             /\ Depth(links, Hop(links, p[1], p[2])) - 1 \in 0..m
  <2> DEFINE h == Hop(links, p[1], p[2])
  <2>1. /\ p[1] \in DOMAIN inb /\ p[2] \in Nat
        /\ h \in DOMAIN inb /\ Depth(links, p[1]) - p[2] = Depth(links, h)
    BY <1>1, VisitIs
  <2>2. Depth(links, h) \in 1..m /\ Depth(links, p[1]) \in Nat
    BY <2>1, DepthIs DEF m
  <2> HIDE DEF h
  <2>3. Depth(links, h) \in Nat /\ Depth(links, h) <= m /\ 1 <= Depth(links, h)
    BY <2>2, <1>3
  <2>4. Depth(links, p[1]) - 1 - p[2] = Depth(links, h) - 1
    BY <2>1, <2>2, <2>3
  <2> QED
    BY <2>3, <2>4, <1>3 DEF h
<1> HIDE DEF here
<1>5. left \subseteq 0..m
  BY <1>4
<1>6. {0} \cup left \subseteq 0..m
  BY <1>5, <1>3
<1>7. IsFiniteSet({0} \cup left)
  <2>1. IsFiniteSet(0..m)
    BY <1>3, FS_Interval
  <2> QED
    BY <2>1, <1>6, FS_Subset
<1>8. {0} \cup left \in SUBSET Int /\ {0} \cup left # {}
  BY <1>6
<1> HIDE DEF left
<1>9. /\ Distance(inb, links, n) \in {0} \cup left
      /\ \A x \in {0} \cup left : x <= Distance(inb, links, n)
  BY <1>2, <1>7, <1>8, MaxIs
<1>10. Distance(inb, links, n) \in Nat
  BY <1>6, <1>9, <1>3
<1> USE DEF left
<1>11. \A p \in here : Depth(links, Hop(links, p[1], p[2])) - 1 <= Distance(inb, links, n)
  BY <1>4, <1>9
<1>12. \/ Distance(inb, links, n) = 0
       \/ \E p \in here : Distance(inb, links, n) = Depth(links, Hop(links, p[1], p[2])) - 1
  BY <1>4, <1>9
<1> QED
  BY <1>10, <1>11, <1>12 DEF here

LEMMA OrderIs ==
  ASSUME NEW inb, NEW links, Draft(inb, links)
  PROVE  LET order == DeploymentOrder(inb, links) IN
         /\ order \in SetToSeqs(Places(inb, links))
         /\ \A j, k \in DOMAIN order :
              j < k => Distance(inb, links, order[j]) <= Distance(inb, links, order[k])
<1> DEFINE places == Places(inb, links)
           before == {p \in places \X places :
                        \/ Distance(inb, links, p[1]) < Distance(inb, links, p[2])
                        \/ Distance(inb, links, p[1]) = Distance(inb, links, p[2]) /\ p[1] < p[2]}
           order == DeploymentOrder(inb, links)
<1>1. order = InOrder(places, before)
  BY DEF DeploymentOrder, Places
<1>2. places \in SUBSET Nodes /\ IsFiniteSet(places) /\ Nodes \subseteq Int
  BY PlacesAreNodes, GraphIsTyped, FS_Subset
<1>3. \A n : Distance(inb, links, n) \in Nat
  BY DistanceIs
<1> HIDE DEF places, order
<1>4. Orders(before, places)
  <2>1. \A x, y \in places : x # y => <<x, y>> \in before \/ <<y, x>> \in before
    BY <1>2, <1>3
  <2>2. \A x, y, z \in places : <<x, y>> \in before /\ <<y, z>> \in before => <<x, z>> \in before
    BY <1>2, <1>3
  <2> QED
    BY <2>1, <2>2 DEF Orders
<1>5. \A x, y : <<x, y>> \in before => Distance(inb, links, x) <= Distance(inb, links, y)
  BY <1>3
<1> HIDE DEF before
<1>6. order \in SetToSeqs(places) /\ Sorted(order, before)
  BY <1>1, <1>2, <1>4, InOrderIs
<1> QED
  BY <1>5, <1>6 DEF Sorted, order, places

Full(inb, links) == Draft(inb, links) /\ ValidateGraph(inb, links)

\* Every relay is passed by a chain that some entry starts.
LEMMA EntryReaches ==
  ASSUME NEW inb, NEW links, Full(inb, links), NEW i \in Chained(inb)
  PROVE  \E p \in Visits(links, Entries(inb)) : Hop(links, p[1], p[2]) = i
<1> DEFINE Reached(j) == \E p \in Visits(links, Entries(inb)) : Hop(links, p[1], p[2]) = j
           n == Cardinality(Ids)
           B == {n - Depth(links, j) : j \in {k \in Chained(inb) : ~Reached(k)}}
<1>1. SUFFICES ASSUME B # {} PROVE FALSE
  OBVIOUS
<1>2. Draft(inb, links) /\ Chained(inb) \subseteq DOMAIN inb
  BY DEF Full, Chained
<1>3. n \in Nat /\ \A j \in DOMAIN inb : Depth(links, j) \in 1..n
  BY <1>2, DepthIs, GraphIsTyped, FS_CardinalityType
<1> HIDE DEF n, Reached
<1>4. B \in SUBSET Nat
  BY <1>2, <1>3
<1> HIDE DEF B
<1>5. \E m \in B : \A k \in B : m <= k
  BY <1>1, <1>4, LeastNumber
<1> USE DEF B
<1>6. PICK j \in Chained(inb) : /\ ~Reached(j)
                                /\ \A k \in Chained(inb) : ~Reached(k) =>
                                     n - Depth(links, j) <= n - Depth(links, k)
  BY <1>5
<1>7. j # None /\ j \in DOMAIN inb /\ inb[j].role \in {"entry", "relay"}
  BY <1>2, GraphIsTyped DEF Draft, Chained
<1>8. CASE inb[j].role = "entry"
  <2>1. 0 \in Walk(links, j)
    <3>1. Depth(links, j) - 1 \in Nat /\ Walk(links, j) = 0..(Depth(links, j) - 1)
      BY <1>2, <1>3, <1>7, DepthIs
    <3> QED
      BY <3>1
  <2>2. <<j, 0>> \in Visits(links, Entries(inb))
    BY <2>1, <1>6, <1>8 DEF Visits, Entries, Walk
  <2>3. Hop(links, j, 0) = j
    BY HopZero
  <2> QED
    BY <2>2, <2>3, <1>6 DEF Reached
<1>9. CASE inb[j].role = "relay"
  <2>1. PICK l \in links : l[3] = j
    BY <1>6, <1>9 DEF Full, ValidateGraph, To
  <2>2. l[2] \in Chained(inb) /\ Depth(links, l[2]) = Depth(links, j) + 1
    BY <2>1, <1>2, LinksArePlaced
  <2>3. Reached(l[2])
    <3>1. SUFFICES ASSUME ~Reached(l[2]) PROVE FALSE
      OBVIOUS
    <3>2. n - Depth(links, j) <= n - Depth(links, l[2])
      BY <3>1, <2>2, <1>6
    <3> QED
      BY <3>2, <2>2, <1>3, <1>7
  <2>4. PICK p \in Visits(links, Entries(inb)) : Hop(links, p[1], p[2]) = l[2]
    BY <2>3 DEF Reached
  <2>5. /\ p[1] \in Entries(inb) /\ p[1] \in DOMAIN inb /\ p[2] \in Nat
        /\ p[2] < Depth(links, p[1])
        /\ Depth(links, p[1]) - p[2] = Depth(links, l[2])
    <3>1. Entries(inb) \in SUBSET DOMAIN inb
      BY DEF Entries, Chained
    <3>2. /\ p[1] \in Entries(inb) /\ p[2] \in Walk(links, p[1])
          /\ Depth(links, p[1]) - p[2] = Depth(links, l[2])
      BY <3>1, <2>4, <1>2, VisitIs
    <3> QED
      BY <3>1, <3>2, <1>2, DepthIs DEF Walk
  <2>6. p[2] + 1 \in Walk(links, p[1])
    <3>1. Depth(links, p[1]) \in Nat /\ Depth(links, j) \in Nat /\ Depth(links, j) # 0
      BY <2>5, <1>3, <1>7
    <3>2. p[2] + 1 \in 0..(Depth(links, p[1]) - 1)
      BY <3>1, <2>2, <2>5
    <3> QED
      BY <3>2, <2>5, <1>2, DepthIs
  <2>7. Hop(links, p[1], p[2] + 1) = j
    <3>1. Step(links, l[2]) = j
      BY <2>1, <2>2, <1>2, StepIs
    <3> QED
      BY <3>1, <2>4, <2>5, HopNext
  <2>8. <<p[1], p[2] + 1>> \in Visits(links, Entries(inb))
    BY <2>5, <2>6 DEF Visits, Walk
  <2> QED
    BY <2>7, <2>8, <1>6 DEF Reached
<1> QED
  BY <1>7, <1>8, <1>9

\* Where no machine starts a link at one inbound and ends one at another, a link leads to a
\* machine that is nearer to the landings.
LEMMA Downstream ==
  ASSUME NEW inb, NEW links, Full(inb, links), NEW l \in links,
         \A a, b \in links : a[2] # b[3] => NodeOf[a[2]] # NodeOf[b[3]]
  PROVE  Distance(inb, links, NodeOf[l[3]]) < Distance(inb, links, NodeOf[l[2]])
<1> DEFINE i == l[2]
           j == l[3]
<1>1. Draft(inb, links)
  BY DEF Full
<1>2. /\ i \in Chained(inb) /\ i \in DOMAIN inb /\ j \in DOMAIN inb
      /\ Depth(links, i) = Depth(links, j) + 1
  BY <1>1, LinksArePlaced DEF Chained
<1>3. \A h \in DOMAIN inb : Depth(links, h) \in Nat /\ Depth(links, h) # 0
  <2>1. \A d \in 1..Cardinality(Ids) : d \in Nat /\ d # 0
    BY GraphIsTyped, FS_CardinalityType
  <2> QED
    BY <1>1, <2>1, DepthIs
<1>4. Depth(links, i) - 1 <= Distance(inb, links, NodeOf[i])
  <2>1. PICK p \in Visits(links, Entries(inb)) : Hop(links, p[1], p[2]) = i
    BY <1>2, EntryReaches
  <2> QED
    BY <2>1, <1>1, DistanceIs
<1>5. ASSUME NEW h \in DOMAIN inb, NodeOf[h] = NodeOf[j]
      PROVE  Depth(links, h) <= Depth(links, j)
  <2>1. CASE h = j
    BY <2>1, <1>2, <1>3
  <2>2. CASE h # j
    <3>1. \A a \in links : a[2] # h
      BY <1>5, <2>2
    <3>2. Step(links, h) = None
      BY <3>1, <1>1, StepIs
    <3>3. Hop(links, h, 0 + 1) = Step(links, Hop(links, h, 0))
      BY HopNext
    <3>4. Hop(links, h, 1) = None
      BY <3>2, <3>3, HopZero
    <3>5. ~(1 < Depth(links, h))
      BY <3>4, <1>1, DepthIs
    <3> QED
      BY <3>5, <1>2, <1>3
  <2> QED
    BY <2>1, <2>2
<1>6. Distance(inb, links, NodeOf[j]) <= Depth(links, j) - 1
  <2>1. CASE Distance(inb, links, NodeOf[j]) = 0
    BY <2>1, <1>2, <1>3
  <2>2. ASSUME NEW p \in Visits(links, Entries(inb)),
               NodeOf[Hop(links, p[1], p[2])] = NodeOf[j],
               Distance(inb, links, NodeOf[j]) = Depth(links, Hop(links, p[1], p[2])) - 1
        PROVE  Distance(inb, links, NodeOf[j]) <= Depth(links, j) - 1
    <3>1. Entries(inb) \in SUBSET DOMAIN inb
      BY DEF Entries, Chained
    <3>2. Hop(links, p[1], p[2]) \in DOMAIN inb
      BY <3>1, <1>1, VisitIs
    <3>3. Depth(links, Hop(links, p[1], p[2])) <= Depth(links, j)
      BY <3>2, <2>2, <1>5
    <3> QED
      BY <3>2, <3>3, <2>2, <1>2, <1>3
  <2> QED
    BY <2>1, <2>2, <1>1, DistanceIs
<1>7. Distance(inb, links, NodeOf[i]) \in Nat /\ Distance(inb, links, NodeOf[j]) \in Nat
  BY <1>1, DistanceIs
<1> HIDE DEF i, j
<1>8. Distance(inb, links, NodeOf[j]) < Distance(inb, links, NodeOf[i])
  BY <1>2, <1>3, <1>4, <1>6, <1>7
<1> QED
  BY <1>8 DEF i, j

LEMMA ComponentIs ==
  ASSUME NEW links \in SUBSET Links, NEW root \in Nodes
  PROVE  LET part == Component(links, root) IN
         /\ part \subseteq Nodes /\ root \in part
         /\ \A l \in links : Touches(l, part) => l[1] \in part /\ NodeOf[l[3]] \in part
<1> DEFINE part == Component(links, root)
           Closed(s) == root \in s /\ \A l \in links : Touches(l, s) => l[1] \in s /\ NodeOf[l[3]] \in s
<1>1. part = {n \in Nodes : \A s \in SUBSET Nodes : Closed(s) => n \in s}
  BY DEF Component
<1> HIDE DEF part
<1>2. part \subseteq Nodes /\ root \in part
  BY <1>1
<1>3. ASSUME NEW l \in links, Touches(l, part)
      PROVE  l[1] \in part /\ NodeOf[l[3]] \in part
  <2>1. l[1] \in Nodes /\ NodeOf[l[3]] \in Nodes
    BY LinkIs, GraphIsTyped
  <2>2. ASSUME NEW s \in SUBSET Nodes, Closed(s)
        PROVE  l[1] \in s /\ NodeOf[l[3]] \in s
    <3>1. part \subseteq s
      BY <1>1, <2>2
    <3>2. Touches(l, s)
      BY <3>1, <1>3 DEF Touches
    <3> QED
      BY <3>2, <2>2
  <2> HIDE DEF Closed
  <2> QED
    BY <1>1, <2>1, <2>2
<1> QED
  BY <1>2, <1>3 DEF part

Distinct(s) == \A j, k \in DOMAIN s : j # k => s[j] # s[k]

LEMMA PositionIs ==
  ASSUME NEW s, Distinct(s), NEW k \in DOMAIN s
  PROVE  Position(s, s[k]) = k
  BY DEF Position, Distinct

\* The order of a preview: the chains by distance, then the other machines.
LEMMA WholeOrder ==
  ASSUME NEW inb, NEW links, Full(inb, links), NEW all \in SUBSET Nodes, Places(inb, links) \subseteq all
  PROVE  LET chain == DeploymentOrder(inb, links)
             order == chain \o Ascending(all \ Range(chain))
         IN /\ order \in Seq(Nodes) /\ Distinct(order) /\ Range(order) = all
            /\ \A l \in links :
                 (\A a, b \in links : a[2] # b[3] => NodeOf[a[2]] # NodeOf[b[3]])
                   => Position(order, NodeOf[l[3]]) < Position(order, NodeOf[l[2]])
<1> DEFINE places == Places(inb, links)
           chain == DeploymentOrder(inb, links)
           rest == all \ Range(chain)
           tail == Ascending(rest)
           order == chain \o tail
           before == {p \in rest \X rest : p[1] < p[2]}
<1>1. Draft(inb, links) /\ places \subseteq Nodes /\ IsFiniteSet(places)
  BY PlacesAreNodes, GraphIsTyped, FS_Subset DEF Full
<1>2. /\ chain \in SetToSeqs(places)
      /\ \A j, k \in DOMAIN chain :
           j < k => Distance(inb, links, chain[j]) <= Distance(inb, links, chain[k])
  BY <1>1, OrderIs
<1>3. tail \in SetToSeqs(rest) /\ IsFiniteSet(rest)
  <2>1. rest \in SUBSET Nodes /\ IsFiniteSet(rest) /\ Nodes \subseteq Int
    BY GraphIsTyped, FS_Subset
  <2> HIDE DEF rest
  <2>2. Orders(before, rest)
    BY <2>1 DEF Orders
  <2>3. tail = InOrder(rest, before)
    BY DEF Ascending
  <2> HIDE DEF before, tail
  <2> QED
    BY <2>1, <2>2, <2>3, InOrderIs
<1> HIDE DEF chain, tail, places
<1>4. /\ chain \in Seq(places) /\ Len(chain) \in Nat /\ Range(chain) = places
      /\ \A j, k \in 1..Len(chain) : j # k => chain[j] # chain[k]
  BY <1>1, <1>2, Listed
<1>5. /\ tail \in Seq(rest) /\ Len(tail) \in Nat /\ Range(tail) = rest
      /\ \A j, k \in 1..Len(tail) : j # k => tail[j] # tail[k]
  BY <1>3, Listed
<1> HIDE DEF rest
<1>6. rest = all \ places
  BY <1>4 DEF rest
<1>7. chain \in Seq(Nodes) /\ tail \in Seq(Nodes)
  BY <1>1, <1>4, <1>5, <1>6
<1>8. /\ order \in Seq(Nodes) /\ Len(order) = Len(chain) + Len(tail)
      /\ \A k \in 1..Len(order) : order[k] = IF k <= Len(chain) THEN chain[k] ELSE tail[k - Len(chain)]
  BY <1>7
<1>9. DOMAIN chain = 1..Len(chain) /\ DOMAIN tail = 1..Len(tail) /\ DOMAIN order = 1..Len(order)
  BY <1>7, <1>8
<1> HIDE DEF order
<1>10. \A k \in 1..Len(order) :
         \/ k \in 1..Len(chain) /\ order[k] = chain[k] /\ order[k] \in places
         \/ k - Len(chain) \in 1..Len(tail) /\ order[k] = tail[k - Len(chain)] /\ order[k] \notin places
  BY <1>4, <1>5, <1>6, <1>8
<1>11. Distinct(order)
  <2> SUFFICES ASSUME NEW j \in 1..Len(order), NEW k \in 1..Len(order), j # k
               PROVE  order[j] # order[k]
    BY <1>9 DEF Distinct
  <2>1. CASE j \in 1..Len(chain) /\ k \in 1..Len(chain) /\ order[j] = chain[j] /\ order[k] = chain[k]
    BY <2>1, <1>4
  <2>2. CASE /\ j - Len(chain) \in 1..Len(tail) /\ order[j] = tail[j - Len(chain)]
             /\ k - Len(chain) \in 1..Len(tail) /\ order[k] = tail[k - Len(chain)]
    <3>1. j - Len(chain) # k - Len(chain)
      BY <1>4
    <3> QED
      BY <2>2, <3>1, <1>5
  <2> QED
    BY <2>1, <2>2, <1>10
<1>12. Range(order) = all
  <2>1. ASSUME NEW n \in places PROVE \E k \in 1..Len(order) : order[k] = n
    <3>1. PICK k \in 1..Len(chain) : chain[k] = n
      BY <1>4, <1>9 DEF Range
    <3>2. k \in 1..Len(order) /\ order[k] = n
      BY <3>1, <1>4, <1>5, <1>8
    <3> QED
      BY <3>2
  <2>2. ASSUME NEW n \in rest PROVE \E k \in 1..Len(order) : order[k] = n
    <3>1. PICK k \in 1..Len(tail) : tail[k] = n
      BY <1>5, <1>9 DEF Range
    <3>2. k + Len(chain) \in 1..Len(order) /\ order[k + Len(chain)] = n
      <4>1. (k + Len(chain)) - Len(chain) = k /\ ~(k + Len(chain) <= Len(chain))
        BY <1>4
      <4> QED
        BY <3>1, <4>1, <1>4, <1>5, <1>8
    <3> QED
      BY <3>2
  <2>3. \A k \in 1..Len(order) : order[k] \in all
    <3>1. \A k \in 1..Len(tail) : tail[k] \in rest
      BY <1>5, <1>9 DEF Range
    <3>2. places \subseteq all
      BY DEF places
    <3> QED
      BY <1>10, <1>6, <3>1, <3>2
  <2> QED
    BY <2>1, <2>2, <2>3, <1>6, <1>9 DEF Range
<1>13. ASSUME NEW l \in links, \A a, b \in links : a[2] # b[3] => NodeOf[a[2]] # NodeOf[b[3]]
       PROVE  Position(order, NodeOf[l[3]]) < Position(order, NodeOf[l[2]])
  <2>1. NodeOf[l[2]] \in places /\ NodeOf[l[3]] \in places
    BY <1>1, LinksArePlaced DEF places
  <2>2. PICK j \in 1..Len(chain), k \in 1..Len(chain) : chain[j] = NodeOf[l[3]] /\ chain[k] = NodeOf[l[2]]
    BY <2>1, <1>4, <1>9 DEF Range
  <2>3. /\ j \in DOMAIN order /\ order[j] = NodeOf[l[3]]
        /\ k \in DOMAIN order /\ order[k] = NodeOf[l[2]]
    BY <2>2, <1>4, <1>5, <1>8, <1>9
  <2>4. Position(order, NodeOf[l[3]]) = j /\ Position(order, NodeOf[l[2]]) = k
    BY <2>3, <1>11, PositionIs
  <2>5. Distance(inb, links, NodeOf[l[3]]) < Distance(inb, links, NodeOf[l[2]])
    BY <1>13, Downstream
  <2>6. \A n : Distance(inb, links, n) \in Nat
    BY <1>1, DistanceIs
  <2>7. j # k
    BY <2>2, <2>5, <2>6
  <2>8. ~(k < j)
    <3>1. SUFFICES ASSUME k < j PROVE FALSE
      OBVIOUS
    <3>2. Distance(inb, links, chain[k]) <= Distance(inb, links, chain[j])
      BY <1>2, <1>9, <3>1
    <3>3. Distance(inb, links, NodeOf[l[2]]) <= Distance(inb, links, NodeOf[l[3]])
      BY <2>2, <3>2
    <3> QED
      BY <2>5, <2>6, <3>3
  <2> QED
    BY <2>4, <2>7, <2>8
<1>14. /\ order \in Seq(Nodes) /\ Distinct(order) /\ Range(order) = all
       /\ \A l \in links :
            (\A a, b \in links : a[2] # b[3] => NodeOf[a[2]] # NodeOf[b[3]])
              => Position(order, NodeOf[l[3]]) < Position(order, NodeOf[l[2]])
  BY <1>8, <1>11, <1>12, <1>13
<1> QED
  BY <1>14 DEF order, tail, rest, chain

-----------------------------------------------------------------------------
(* The inductive invariant.                                                *)

\* What the tables keep.
Typed ==
  /\ nodes \subseteq Nodes /\ graphRevision \in Nat /\ materialRevision \in Nat
  /\ inbounds = [i \in Ids |-> inbounds[i]] /\ \A i \in Existing : NodeOf[i] \in nodes
  /\ drafts = [n \in Nodes |-> drafts[n]]
  /\ \A n \in Nodes :
       /\ drafts[n].revision \in Nat /\ drafts[n].edges \subseteq Edges(n)
       /\ drafts[n].edges # {} => n \in nodes
  /\ rows = [n \in Nodes |-> rows[n]] /\ running = [n \in Nodes |-> running[n]]

Present(graph, material) == graph = graphRevision /\ material = materialRevision

\* Every node once, and downstream first where no machine is passed twice.
Rolled(r) ==
  /\ r.order \in Seq(Nodes) /\ Distinct(r.order) /\ DOMAIN r.configs = Range(r.order)
  /\ OnePlace(r) => DownstreamOf(r)

\* What the drafts say of these nodes now, and leads to them.
Complete(ns, edges) ==
  \A n \in ns : /\ edges[n] = drafts[n].edges
                /\ \A e \in edges[n] : e[2] \in Existing /\ NodeOf[e[2]] \in ns

Starts(edges) == UNION {{e[1] : e \in edges[n]} : n \in DOMAIN edges}
Ends(edges) == UNION {{e[2] : e \in edges[n]} : n \in DOMAIN edges}
Ordered(order, edges) ==
  /\ order \in Seq(Nodes) /\ Distinct(order) /\ DOMAIN edges = Range(order)
  /\ (\A i \in Starts(edges), j \in Ends(edges) : i # j => NodeOf[i] # NodeOf[j])
       => \A n \in DOMAIN edges : \A e \in edges[n] :
            NodeOf[e[1]] = n => Position(order, NodeOf[e[2]]) < Position(order, n)

\* A configuration is made of the edges of its node.
MadeOf(config, n, edges) ==
  /\ \A e \in edges : NodeOf[e[1]] = n /\ \E c \in config.edges : c.from = e[1] /\ c.to = e[2]
  /\ \A c \in config.edges : \E e \in edges : c.from = e[1] /\ c.to = e[2]

\* The preview under way is what the tables say, as long as they have not moved.
PlanRuns(b) ==
  /\ b \in [root : Roots, graph : 0..graphRevision, material : 0..materialRevision,
            order : {b.order}, edges : {b.edges}, generation : {b.generation}, configs : {b.configs}]
  /\ Ordered(b.order, b.edges)
  /\ b.configs \in Seq(Range(b.configs)) /\ Len(b.configs) <= Len(b.order)
  /\ \A k \in 1..Len(b.configs) : MadeOf(b.configs[k], b.order[k], b.edges[b.order[k]])
PlanSays(b) ==
  /\ Complete(Range(b.order), b.edges)
  /\ \A k \in 1..Len(b.configs) : b.configs[k] = Config(b.order[k], b.edges[b.order[k]])
SoundPlan(b) == PlanRuns(b) /\ (Present(b.graph, b.material) => PlanSays(b))
Planned == building # None => SoundPlan(building)

\* So is a preview that was saved.
BundleSays(b) ==
  /\ Complete(Range(b.order), [n \in Nodes |-> drafts[n].edges])
  /\ \A n \in Range(b.order) : b.configs[n] = Config(n, drafts[n].edges)
SoundBundle(b, material) ==
  b.graph \in 0..graphRevision /\ Rolled(b) /\ (Present(b.graph, material) => BundleSays(b))

\* What the single-node road stored is what the tables say, as long as neither material nor draft
\* have moved: that its links lead to inbounds no form changes is part of it.
Firm(i) == i \in Existing /\ inbounds[i].role # "entry"
Stands(n, material, draft, config) ==
  material = materialRevision =>
    /\ draft <= drafts[n].revision
    /\ draft = drafts[n].revision =>
         config = Config(n, drafts[n].edges) /\ \A e \in drafts[n].edges : Firm(e[2])
SoundSimple(n, material, simple) ==
  simple # << >> =>
    simple[1].draft \in Nat /\ Stands(n, material, simple[1].draft, simple[1].config)

\* The row of both roads: what the single-node road saved last leaves the chain's bundle with a
\* revision it was not made at.
SoundRow(n) ==
  rows[n] # None =>
    /\ rows[n] \in [material : 0..materialRevision, simple : {rows[n].simple},
                    fresh : BOOLEAN, bundle : {rows[n].bundle}]
    /\ SoundSimple(n, rows[n].material, rows[n].simple)
    /\ rows[n].bundle # None =>
         /\ Rolled(rows[n].bundle)
         /\ rows[n].simple = << >> => SoundBundle(rows[n].bundle, rows[n].material)
Saved == \A n \in Nodes : SoundRow(n)

\* What a single-node preview has read stands as the row it is to fill.
SoundRequest(q) ==
  /\ q.node \in Roots
  /\ q.step = "save" =>
       /\ q.material \in 0..materialRevision /\ q.draft \in Nat
       /\ Stands(q.node, q.material, q.draft, q.config)
Requested ==
  /\ single # None => SoundRequest(single)
  /\ deploying # None => deploying.node \in Roots

Driven == release # None => Rolled(release)

IInv == Typed /\ NeverReenters /\ Planned /\ Saved /\ Requested /\ Driven

-----------------------------------------------------------------------------
(* Tables: how steps move what a configuration is made of.                 *)

Moves == materialRevision' = materialRevision + 1 /\ graphRevision' \in {graphRevision, graphRevision + 1}
Draws ==
  /\ UNCHANGED <<nodes, address, materialRevision>> /\ graphRevision' = graphRevision + 1
  /\ \A n \in Nodes :
       \/ drafts'[n].revision = drafts[n].revision + 1
       \/ drafts'[n] = drafts[n] /\ \A i \in Ids : NodeOf[i] = n => inbounds'[i] = inbounds[i]
  /\ \A i \in Ids : Firm(i) => inbounds'[i] = inbounds[i]
Rests == UNCHANGED <<nodes, address, inbounds, drafts, graphRevision, materialRevision>>
Steps == Moves \/ Draws \/ Rests

LEMMA FewerLinks ==
  ASSUME NEW links, NEW fewer \in SUBSET links, NoWayBack(links)
  PROVE  NoWayBack(fewer)
  BY DEF NoWayBack

LEMMA NeverReentersIs == /\ NeverReenters <=> NoWayBack(LinksOf(drafts))
                         /\ NeverReenters' <=> NoWayBack(LinksOf(drafts'))
  BY DEF NeverReenters, NoWayBack

LEMMA GraphIsDraft ==
  ASSUME NEW inb, NEW S \in SUBSET Ids, NEW links \in SUBSET Links,
         ValidateDraftGraph(Restrict(inb, S), links)
  PROVE  Draft(Restrict(inb, S), links)
  BY DEF Draft, Restrict

LEMMA InitTables == Init => Typed /\ NeverReenters
<1> SUFFICES ASSUME Init PROVE Typed /\ NeverReenters
  OBVIOUS
<1>1. PICK roles \in Founders, links \in SUBSET Links :
        /\ inbounds = [i \in Ids |->
                         IF roles[i] \in {Unborn, Gone} THEN roles[i]
                         ELSE [role |-> roles[i], revision |-> 1,
                               mode |-> IF From(links, i) # {} THEN "chain" ELSE DefaultMode(roles[i])]]
        /\ drafts = [n \in Nodes |->
                       LET edges == {<<l[2], l[3]>> : l \in {k \in links : k[1] = n}}
                       IN [revision |-> IF edges = {} THEN 0 ELSE 1, edges |-> edges]]
        /\ ValidateDraftGraph(Restrict(inbounds, Existing), links)
  BY DEF Init
<1>2. LinksOf(drafts) \subseteq links
  <2> SUFFICES ASSUME NEW l \in Links, <<l[2], l[3]>> \in drafts[l[1]].edges PROVE l \in links
    BY DEF LinksOf
  <2>1. drafts[l[1]].edges = {<<k[2], k[3]>> : k \in {k \in links : k[1] = l[1]}}
    BY <1>1, LinkIs
  <2>2. PICK k \in links : k[1] = l[1] /\ <<k[2], k[3]>> = <<l[2], l[3]>>
    BY <2>1
  <2>3. k = l
    <3>1. k = <<k[1], k[2], k[3]>> /\ l = <<l[1], l[2], l[3]>>
      BY LinkIs
    <3> QED
      BY <2>2, <3>1
  <2> QED
    BY <2>3
<1>3. Existing \in SUBSET Ids
  BY DEF Existing
<1>4. NeverReenters
  <2>1. ValidateDraftGraph(Restrict(inbounds, Existing), links)
    BY <1>1
  <2>2. Draft(Restrict(inbounds, Existing), links)
    BY <1>3, <2>1, GraphIsDraft
  <2>3. NoWayBack(links)
    BY <2>2, DraftHasNoWayBack
  <2> QED
    BY <1>2, <2>3, FewerLinks, NeverReentersIs
<1>5. inbounds = [i \in Ids |-> inbounds[i]] /\ \A i \in Existing : NodeOf[i] \in nodes
  <2>1. \A i \in Ids : NodeOf[i] \in Nodes
    BY GraphIsTyped
  <2>2. nodes = Nodes
    BY DEF Init
  <2>3. inbounds = [i \in Ids |-> inbounds[i]]
    BY <1>1
  <2> QED
    BY <2>1, <2>2, <2>3 DEF Existing
<1>6. \A n \in Nodes : /\ drafts[n].revision \in Nat /\ drafts[n].edges \subseteq Edges(n)
                       /\ drafts[n].edges # {} => n \in nodes
  <2> SUFFICES ASSUME NEW n \in Nodes
               PROVE  /\ drafts[n].revision \in Nat /\ drafts[n].edges \subseteq Edges(n)
                      /\ drafts[n].edges # {} => n \in nodes
    OBVIOUS
  <2> DEFINE edges == {<<l[2], l[3]>> : l \in {k \in links : k[1] = n}}
  <2>1. drafts[n] = [revision |-> IF edges = {} THEN 0 ELSE 1, edges |-> edges]
    BY <1>1
  <2>2. edges \subseteq Edges(n)
    BY DEF Edges
  <2>3. n \in nodes
    BY DEF Init
  <2> HIDE DEF edges
  <2> QED
    BY <2>1, <2>2, <2>3
<1>7. drafts = [n \in Nodes |-> drafts[n]]
  BY <1>1
<1> QED
  BY <1>4, <1>5, <1>6, <1>7 DEF Typed, Init

LEMMA ExistingIs == Existing' = {i \in Ids : inbounds'[i] \notin {Unborn, Gone}}
  BY DEF Existing

LEMMA SaveTables ==
  ASSUME Typed, Save
  PROVE  Typed' /\ NeverReenters' /\ Steps
<1>1. PICK edges \in Forms :
        \E is \in SUBSET {i \in Existing : inbounds[i].role = "entry" /\ NodeOf[i] \in DOMAIN edges} :
          \E modes \in [is -> Modes] : SaveGraph(edges, modes)
  BY DEF Save
<1>2. PICK modes : /\ SaveGraph(edges, modes)
                   /\ \A i \in DOMAIN modes : inbounds[i].role = "entry"
  BY <1>1
<1> DEFINE set == [i \in Ids |-> IF i \notin DOMAIN modes THEN inbounds[i]
                                 ELSE [inbounds[i] EXCEPT !.mode = modes[i], !.revision = @ + 1]]
           drawn == [n \in Nodes |-> IF n \notin DOMAIN edges THEN drafts[n]
                                     ELSE [revision |-> drafts[n].revision + 1, edges |-> edges[n]]]
<1>3. /\ DOMAIN edges \subseteq nodes
      /\ \A i \in DOMAIN modes : i \in Existing /\ NodeOf[i] \in DOMAIN edges
      /\ ValidateDraftGraph(Restrict(set, Existing), LinksOf(drawn))
      /\ drafts' = drawn /\ inbounds' = set /\ graphRevision' = graphRevision + 1
      /\ UNCHANGED <<nodes, address, materialRevision, rows, running>>
  BY <1>2 DEF SaveGraph
<1>4. \A n \in DOMAIN edges : edges[n] \subseteq Edges(n)
  BY DEF Forms
<1>5. NeverReenters'
  <2>1. LinksOf(drawn) \in SUBSET Links /\ Existing \in SUBSET Ids
    BY DEF LinksOf, Existing
  <2> HIDE DEF set, drawn
  <2>2. Draft(Restrict(set, Existing), LinksOf(drawn))
    BY <1>3, <2>1, GraphIsDraft
  <2> QED
    BY <1>3, <2>2, DraftHasNoWayBack, NeverReentersIs
<1>6. \A n \in Nodes : /\ drafts'[n].revision \in Nat /\ drafts'[n].edges \subseteq Edges(n)
                       /\ drafts'[n].edges # {} => n \in nodes
  <2> SUFFICES ASSUME NEW n \in Nodes
               PROVE  /\ drafts'[n].revision \in Nat /\ drafts'[n].edges \subseteq Edges(n)
                      /\ drafts'[n].edges # {} => n \in nodes
    OBVIOUS
  <2>1. CASE n \in DOMAIN edges
    <3>1. drafts'[n] = [revision |-> drafts[n].revision + 1, edges |-> edges[n]]
      BY <1>3, <2>1
    <3>2. drafts[n].revision \in Nat
      BY DEF Typed
    <3>3. n \in nodes /\ edges[n] \subseteq Edges(n)
      BY <2>1, <1>3, <1>4
    <3>4. drafts'[n].revision = drafts[n].revision + 1 /\ drafts'[n].edges = edges[n]
      BY <3>1
    <3> QED
      BY <3>2, <3>3, <3>4
  <2>2. CASE n \notin DOMAIN edges
    <3>1. drafts'[n] = drafts[n]
      BY <1>3, <2>2
    <3> QED
      BY <3>1 DEF Typed
  <2> QED
    BY <2>1, <2>2
<1>7. \A i \in Existing' : NodeOf[i] \in nodes
  <2> SUFFICES ASSUME NEW i \in Ids, inbounds'[i] \notin {Unborn, Gone} PROVE NodeOf[i] \in nodes
    BY ExistingIs
  <2>1. CASE i \in DOMAIN modes
    BY <2>1, <1>3 DEF Typed
  <2>2. CASE i \notin DOMAIN modes
    <3>1. inbounds'[i] = inbounds[i]
      BY <1>3, <2>2
    <3> QED
      BY <3>1 DEF Typed, Existing
  <2> QED
    BY <2>1, <2>2
<1>8. inbounds' = [i \in Ids |-> inbounds'[i]] /\ drafts' = [n \in Nodes |-> drafts'[n]]
  BY <1>3
<1>9. Typed'
  <2>1. /\ nodes' = nodes /\ rows' = rows /\ running' = running /\ materialRevision' = materialRevision
        /\ graphRevision' = graphRevision + 1
    BY <1>3
  <2>2. \A n \in Nodes : Edges(n)' = Edges(n)
    BY DEF Edges
  <2> HIDE DEF set, drawn
  <2> QED
    BY <2>1, <2>2, <1>6, <1>7, <1>8 DEF Typed
<1>10. ASSUME NEW n \in Nodes
       PROVE  \/ drafts'[n].revision = drafts[n].revision + 1
              \/ drafts'[n] = drafts[n] /\ \A i \in Ids : NodeOf[i] = n => inbounds'[i] = inbounds[i]
  <2>1. CASE n \in DOMAIN edges
    BY <2>1, <1>3
  <2>2. CASE n \notin DOMAIN edges
    BY <2>2, <1>3
  <2> QED
    BY <2>1, <2>2
<1>11. \A i \in Ids : Firm(i) => inbounds'[i] = inbounds[i]
  <2> SUFFICES ASSUME NEW i \in Ids, Firm(i) PROVE inbounds'[i] = inbounds[i]
    OBVIOUS
  <2>1. i \notin DOMAIN modes
    BY <1>2 DEF Firm
  <2> QED
    BY <2>1, <1>3
<1>12. Steps
  BY <1>3, <1>10, <1>11 DEF Steps, Draws
<1> QED
  BY <1>5, <1>9, <1>12

\* Inbounds and nodes change one at a time.
LEMMA EditTables ==
  ASSUME Typed, NeverReenters, Edit
  PROVE  Typed' /\ NeverReenters' /\ Steps
<1>1. \A i \in Ids : NodeOf[i] \in Nodes
  BY GraphIsTyped
<1>2. \A n \in Nodes : Edges(n)' = Edges(n)
  BY DEF Edges
<1>3. UNCHANGED drafts => NeverReenters'
  BY NeverReentersIs
<1>4. ASSUME NEW n \in Nodes, UpdateNode(n)
      PROVE  Typed' /\ NeverReenters' /\ Steps
  <2>1. /\ materialRevision' = materialRevision + 1
        /\ UNCHANGED <<nodes, capable, inbounds, drafts, graphRevision, rows, running>>
    BY <1>4 DEF UpdateNode, BumpMaterial
  <2>2. Typed'
    BY <2>1, <1>2, ExistingIs DEF Typed, Existing
  <2> QED
    BY <2>1, <2>2, <1>3 DEF Steps, Moves
<1>5. ASSUME NEW n \in Nodes, DeleteNode(n)
      PROVE  Typed' /\ NeverReenters' /\ Steps
  <2>1. /\ materialRevision' = materialRevision + 1
        /\ nodes' = nodes \ {n}
        /\ inbounds' = [i \in Ids |-> IF i \in On(n) THEN Gone ELSE inbounds[i]]
        /\ drafts' = [drafts EXCEPT ![n] = [revision |-> 0, edges |-> {}]]
        /\ rows' = [rows EXCEPT ![n] = None] /\ running' = [running EXCEPT ![n] = None]
        /\ UNCHANGED <<address, generation, capable, graphRevision>>
    BY <1>5 DEF DeleteNode, BumpMaterial
  <2>2. drafts = [m \in Nodes |-> drafts[m]] /\ rows = [m \in Nodes |-> rows[m]]
        /\ running = [m \in Nodes |-> running[m]]
    BY DEF Typed
  <2>3. \A m \in Nodes : drafts'[m] = IF m = n THEN [revision |-> 0, edges |-> {}] ELSE drafts[m]
    BY <2>1, <2>2
  <2>4. \A m \in Nodes : /\ drafts'[m].revision \in Nat /\ drafts'[m].edges \subseteq Edges(m)
                         /\ drafts'[m].edges # {} => m \in nodes'
    BY <2>1, <2>3 DEF Typed
  <2>5. \A i \in Existing' : NodeOf[i] \in nodes'
    <3> SUFFICES ASSUME NEW i \in Ids, inbounds'[i] \notin {Unborn, Gone} PROVE NodeOf[i] \in nodes'
      BY ExistingIs
    <3>1. i \notin On(n) /\ inbounds'[i] = inbounds[i]
      BY <2>1
    <3>2. i \in Existing
      BY <3>1 DEF Existing
    <3> QED
      BY <3>1, <3>2, <2>1 DEF Typed, On
  <2>6. /\ inbounds' = [i \in Ids |-> inbounds'[i]] /\ drafts' = [m \in Nodes |-> drafts'[m]]
        /\ rows' = [m \in Nodes |-> rows'[m]] /\ running' = [m \in Nodes |-> running'[m]]
    BY <2>1, <2>2
  <2>7. Typed'
    BY <2>1, <2>4, <2>5, <2>6, <1>2 DEF Typed
  <2>8. NeverReenters'
    <3>1. \A l \in Links : drafts'[l[1]].edges \subseteq drafts[l[1]].edges
      BY <2>3, LinkIs
    <3>2. LinksOf(drafts') \subseteq LinksOf(drafts)
      BY <3>1 DEF LinksOf
    <3> QED
      BY <3>2, FewerLinks, NeverReentersIs
  <2> QED
    BY <2>1, <2>7, <2>8 DEF Steps, Moves
<1>6. ASSUME NEW n \in Legacy, Heartbeat(n)
      PROVE  Typed' /\ NeverReenters' /\ Steps
  <2>1. UNCHANGED <<nodes, address, inbounds, drafts, graphRevision, materialRevision, rows, running>>
    BY <1>6 DEF Heartbeat
  <2>2. Typed'
    BY <2>1, <1>2 DEF Typed, Existing
  <2> QED
    BY <2>1, <2>2, <1>3 DEF Steps, Rests
<1>7. ASSUME NEW i \in Ids, NEW role \in Roles, CreateInbound(i, role)
      PROVE  Typed' /\ NeverReenters' /\ Steps
  <2>1. /\ materialRevision' = materialRevision + 1 /\ NodeOf[i] \in nodes
        /\ inbounds' = [inbounds EXCEPT ![i] = [role |-> role, mode |-> DefaultMode(role), revision |-> 1]]
        /\ UNCHANGED <<nodes, address, generation, capable, drafts, graphRevision, rows, running>>
    BY <1>7 DEF CreateInbound, BumpMaterial
  <2>2. \A j \in Existing' : NodeOf[j] \in nodes'
    <3> SUFFICES ASSUME NEW j \in Ids, inbounds'[j] \notin {Unborn, Gone}, j # i PROVE NodeOf[j] \in nodes'
      BY ExistingIs, <2>1
    <3>1. inbounds'[j] = inbounds[j]
      BY <2>1 DEF Typed
    <3> QED
      BY <3>1, <2>1 DEF Typed, Existing
  <2>3. inbounds' = [j \in Ids |-> inbounds'[j]]
    BY <2>1 DEF Typed
  <2>4. Typed'
    BY <2>1, <2>2, <2>3, <1>2 DEF Typed
  <2> QED
    BY <2>1, <2>4, <1>3 DEF Steps, Moves
<1>8. ASSUME NEW i \in Ids, NEW role \in Roles, NEW mode \in Modes, UpdateInbound(i, role, mode)
      PROVE  Typed' /\ NeverReenters' /\ Steps
  <2>1. /\ materialRevision' = materialRevision + 1 /\ i \in Existing /\ graphRevision' = graphRevision + 1
        /\ inbounds' = [inbounds EXCEPT ![i] = [role |-> role, mode |-> mode, revision |-> @.revision + 1]]
        /\ UNCHANGED <<nodes, address, capable, drafts, rows, running>>
    BY <1>8 DEF UpdateInbound, BumpMaterial
  <2>2. \A j \in Existing' : NodeOf[j] \in nodes'
    <3> SUFFICES ASSUME NEW j \in Ids, inbounds'[j] \notin {Unborn, Gone} PROVE NodeOf[j] \in nodes'
      BY ExistingIs
    <3>1. j = i \/ inbounds'[j] = inbounds[j]
      BY <2>1 DEF Typed
    <3> QED
      BY <3>1, <2>1 DEF Typed, Existing
  <2>3. inbounds' = [j \in Ids |-> inbounds'[j]]
    BY <2>1 DEF Typed
  <2>4. Typed'
    BY <2>1, <2>2, <2>3, <1>2 DEF Typed
  <2> QED
    BY <2>1, <2>4, <1>3 DEF Steps, Moves
<1>9. ASSUME NEW i \in Ids, DeleteInbound(i)
      PROVE  Typed' /\ NeverReenters' /\ Steps
  <2>1. /\ materialRevision' = materialRevision + 1
        /\ inbounds' = [inbounds EXCEPT ![i] = Gone]
        /\ UNCHANGED <<nodes, address, capable, drafts, graphRevision, rows, running>>
    BY <1>9 DEF DeleteInbound, BumpMaterial
  <2>2. \A j \in Existing' : NodeOf[j] \in nodes'
    <3> SUFFICES ASSUME NEW j \in Ids, inbounds'[j] \notin {Unborn, Gone} PROVE NodeOf[j] \in nodes'
      BY ExistingIs
    <3>1. inbounds'[j] = inbounds[j]
      BY <2>1 DEF Typed
    <3> QED
      BY <3>1, <2>1 DEF Typed, Existing
  <2>3. inbounds' = [j \in Ids |-> inbounds'[j]]
    BY <2>1 DEF Typed
  <2>4. Typed'
    BY <2>1, <2>2, <2>3, <1>2 DEF Typed
  <2> QED
    BY <2>1, <2>4, <1>3 DEF Steps, Moves
<1> QED
  BY <1>4, <1>5, <1>6, <1>7, <1>8, <1>9 DEF Edit

\* Neither road touches the tables that configurations are made of.
LEMMA RoadTables ==
  ASSUME Typed, NeverReenters, Chain \/ Simple
  PROVE  Typed' /\ NeverReenters' /\ Steps /\ Rests
<1>1. Roots \subseteq Nodes
  BY GraphIsTyped
<1>2. /\ UNCHANGED <<nodes, address, inbounds, drafts, graphRevision, materialRevision>>
      /\ rows' = [n \in Nodes |-> rows'[n]] /\ running' = [n \in Nodes |-> running'[n]]
  <2>1. rows = [n \in Nodes |-> rows[n]] /\ running = [n \in Nodes |-> running[n]]
    BY DEF Typed
  <2>2. CASE Chain
    BY <2>1, <2>2 DEF Chain, PreviewSnapshot, ResolveNode, PreviewSave, CreateRelease, EndRelease, tables
  <2>3. CASE Simple
    BY <2>1, <2>3 DEF Simple, SimpleCheck, SimpleRead, SimpleSave, SimpleRefuse,
                    DeployCheck, DeployRead, SimpleCommit, DeployRefuse, tables
  <2> QED
    BY <2>2, <2>3
<1>3. Typed'
  BY <1>2 DEF Typed, Existing, Edges
<1>4. NeverReenters'
  BY <1>2, NeverReentersIs
<1> QED
  BY <1>2, <1>3, <1>4 DEF Steps, Rests

-----------------------------------------------------------------------------
(* What is not written stays true.                                         *)

LEMMA StepsGrow ==
  ASSUME Typed, Typed', Steps
  PROVE  /\ graphRevision \in Nat /\ graphRevision' \in Nat /\ graphRevision <= graphRevision'
         /\ materialRevision \in Nat /\ materialRevision' \in Nat /\ materialRevision <= materialRevision'
         /\ Rests \/ graphRevision < graphRevision' \/ materialRevision < materialRevision'
<1>1. graphRevision \in Nat /\ graphRevision' \in Nat /\ materialRevision \in Nat /\ materialRevision' \in Nat
  BY DEF Typed
<1> QED
  BY <1>1 DEF Steps, Moves, Draws, Rests

LEMMA RestsSame ==
  ASSUME Rests
  PROVE  /\ \A n, e : Config(n, e)' = Config(n, e)
         /\ \A ns, e : Complete(ns, e)' <=> Complete(ns, e)
         /\ \A n \in Nodes : Config(n, drafts[n].edges)' = Config(n, drafts[n].edges)
  BY DEF Rests, Config, Complete, On, Existing, Material

LEMMA PlanStays ==
  ASSUME Typed, Typed', Steps, NEW b, SoundPlan(b)
  PROVE  SoundPlan(b)'
<1>1. PlanRuns(b)
  BY DEF SoundPlan
<1>2. PlanRuns(b)'
  <2>1. b \in [root : Roots, graph : 0..graphRevision, material : 0..materialRevision,
               order : {b.order}, edges : {b.edges}, generation : {b.generation}, configs : {b.configs}]
    BY <1>1 DEF PlanRuns
  <2>2. 0..graphRevision \subseteq 0..graphRevision' /\ 0..materialRevision \subseteq 0..materialRevision'
    BY StepsGrow
  <2>3. b \in [root : Roots, graph : 0..graphRevision', material : 0..materialRevision',
               order : {b.order}, edges : {b.edges}, generation : {b.generation}, configs : {b.configs}]
    BY <2>1, <2>2
  <2> QED
    BY <1>1, <2>3 DEF PlanRuns, Ordered, MadeOf
<1>3. Present(b.graph, b.material)' => PlanSays(b)'
  <2>1. b.graph \in 0..graphRevision /\ b.material \in 0..materialRevision
    BY <1>1 DEF PlanRuns
  <2>2. CASE Rests
    <3>1. Present(b.graph, b.material)' <=> Present(b.graph, b.material)
      BY <2>2 DEF Present, Rests
    <3>2. PlanSays(b)' <=> PlanSays(b)
      BY <2>2, RestsSame DEF PlanSays
    <3> QED
      BY <3>1, <3>2 DEF SoundPlan
  <2>3. CASE graphRevision < graphRevision' \/ materialRevision < materialRevision'
    BY <2>1, <2>3, StepsGrow DEF Present
  <2> QED
    BY <2>2, <2>3, StepsGrow
<1> QED
  BY <1>2, <1>3 DEF SoundPlan

LEMMA PlanSame ==
  ASSUME Rests
  PROVE  \A b : SoundPlan(b) => SoundPlan(b)'
<1> SUFFICES ASSUME NEW b, SoundPlan(b) PROVE SoundPlan(b)'
  OBVIOUS
<1>1. graphRevision' = graphRevision /\ materialRevision' = materialRevision
  BY DEF Rests
<1>2. PlanRuns(b)'
  BY <1>1 DEF SoundPlan, PlanRuns, Ordered, MadeOf
<1>3. Present(b.graph, b.material)' => PlanSays(b)'
  BY <1>1, RestsSame DEF SoundPlan, PlanSays, Present
<1> QED
  BY <1>2, <1>3 DEF SoundPlan

LEMMA BundleStays ==
  ASSUME Typed, Typed', Steps, NEW b, NEW material \in 0..materialRevision, SoundBundle(b, material)
  PROVE  SoundBundle(b, material)'
<1>1. b.graph \in 0..graphRevision'
  BY StepsGrow DEF SoundBundle
<1>2. Present(b.graph, material)' => BundleSays(b)'
  <2>1. CASE Rests
    <3>1. Present(b.graph, material)' <=> Present(b.graph, material)
      BY <2>1 DEF Present, Rests
    <3>2. drafts' = drafts
      BY <2>1 DEF Rests
    <3>3. BundleSays(b) => BundleSays(b)'
      <4> SUFFICES ASSUME BundleSays(b), SoundBundle(b, material) PROVE BundleSays(b)'
        OBVIOUS
      <4>1. Range(b.order) \subseteq Nodes
        BY DEF SoundBundle, Rolled, Range
      <4>2. \A n \in Range(b.order) : b.configs[n] = Config(n, drafts[n].edges)'
        BY <2>1, <4>1, RestsSame DEF BundleSays
      <4>3. Complete(Range(b.order), [n \in Nodes |-> drafts[n].edges])'
        BY <2>1, <3>2, RestsSame DEF BundleSays
      <4> QED
        BY <4>2, <4>3 DEF BundleSays
    <3> QED
      BY <3>1, <3>3 DEF SoundBundle
  <2>2. CASE graphRevision < graphRevision' \/ materialRevision < materialRevision'
    BY <2>2, StepsGrow DEF Present, SoundBundle
  <2> QED
    BY <2>1, <2>2, StepsGrow
<1> QED
  BY <1>1, <1>2 DEF SoundBundle, Rolled

LEMMA StandsStays ==
  ASSUME Typed, Typed', Steps, NEW n \in Nodes, NEW material \in 0..materialRevision,
         NEW draft \in Nat, NEW config, Stands(n, material, draft, config)
  PROVE  Stands(n, material, draft, config)'
<1> SUFFICES ASSUME material = materialRevision'
             PROVE  /\ draft <= drafts'[n].revision
                    /\ draft = drafts'[n].revision =>
                         /\ config = Config(n, drafts[n].edges)'
                         /\ \A e \in drafts'[n].edges : Firm(e[2])'
  BY DEF Stands
<1>1. material = materialRevision /\ materialRevision' = materialRevision
  BY StepsGrow
<1>2. /\ draft <= drafts[n].revision
      /\ draft = drafts[n].revision =>
           config = Config(n, drafts[n].edges) /\ \A e \in drafts[n].edges : Firm(e[2])
  BY <1>1 DEF Stands
<1>3. drafts[n].revision \in Nat /\ drafts'[n].revision \in Nat
  BY DEF Typed
<1>4. CASE Rests
  <2>1. drafts' = drafts /\ Config(n, drafts[n].edges)' = Config(n, drafts[n].edges)
    BY <1>4, RestsSame DEF Rests
  <2>2. \A i : Firm(i)' <=> Firm(i)
    BY <1>4 DEF Rests, Firm, Existing
  <2> QED
    BY <2>1, <2>2, <1>2
<1>5. CASE Draws
  <2>1. CASE drafts'[n].revision = drafts[n].revision + 1
    BY <2>1, <1>2, <1>3
  <2>2. CASE drafts'[n] = drafts[n] /\ \A i \in Ids : NodeOf[i] = n => inbounds'[i] = inbounds[i]
    <3> SUFFICES ASSUME draft = drafts[n].revision
                 PROVE  /\ config = Config(n, drafts[n].edges)'
                        /\ \A e \in drafts[n].edges : Firm(e[2])'
      BY <1>2, <2>2
    <3>1. \A e \in drafts[n].edges : Firm(e[2])
      BY <1>2
    <3>2. \A i \in Ids : Firm(i) => inbounds'[i] = inbounds[i] /\ Firm(i)'
      BY <1>5 DEF Draws, Firm, Existing
    <3>3. \A e \in drafts[n].edges : e[2] \in Ids
      BY <3>1 DEF Firm, Existing
    <3>4. address' = address /\ On(n)' = On(n) /\ \A i \in On(n) : inbounds'[i] = inbounds[i]
      BY <1>5, <2>2 DEF Draws, On, Existing
    <3>5. \A i \in Ids : inbounds'[i] = inbounds[i] => Material(i)' = Material(i)
      BY <3>4 DEF Material
    <3>6. On(n) \subseteq Ids
      BY DEF On, Existing
    <3> DEFINE says == [i \in On(n) |-> [role |-> inbounds[i].role, material |-> Material(i)]]
               leads == {[from |-> e[1], to |-> e[2], material |-> Material(e[2])] : e \in drafts[n].edges}
    <3>7. says' = says
      BY <3>4, <3>5, <3>6
    <3>8. \A e \in drafts[n].edges : Material(e[2])' = Material(e[2])
      BY <3>1, <3>2, <3>3, <3>5
    <3>9. leads' = leads
      BY <3>8, <2>2
    <3>10. Config(n, drafts[n].edges)' = Config(n, drafts[n].edges)
      BY <3>7, <3>9 DEF Config
    <3> QED
      BY <3>1, <3>2, <3>3, <3>10, <1>2
  <2> QED
    BY <2>1, <2>2, <1>5 DEF Draws
<1>6. ~Moves
  BY <1>1, StepsGrow DEF Moves
<1> QED
  BY <1>4, <1>5, <1>6 DEF Steps

LEMMA SimpleStays ==
  ASSUME Typed, Typed', Steps, NEW n \in Nodes, NEW material \in 0..materialRevision,
         NEW simple, SoundSimple(n, material, simple)
  PROVE  SoundSimple(n, material, simple)'
<1> SUFFICES ASSUME simple # << >>
             PROVE  /\ simple[1].draft \in Nat
                    /\ Stands(n, material, simple[1].draft, simple[1].config)'
  BY DEF SoundSimple
<1>1. simple[1].draft \in Nat /\ Stands(n, material, simple[1].draft, simple[1].config)
  BY DEF SoundSimple
<1> QED
  BY <1>1, StandsStays

\* A row stays, goes, or has served a release.
Kept ==
  \A n \in Nodes : \/ rows'[n] \in {None, rows[n]}
                   \/ rows[n] # None /\ rows'[n] = [rows[n] EXCEPT !.fresh = FALSE]

LEMMA RowStays ==
  ASSUME Typed, Typed', Steps, Saved, NEW n \in Nodes, rows'[n] # None,
         rows'[n] \in {rows[n], [rows[n] EXCEPT !.fresh = FALSE]}, rows[n] # None
  PROVE  SoundRow(n)'
<1> DEFINE row == rows[n]
<1>1. /\ row \in [material : 0..materialRevision, simple : {row.simple},
                  fresh : BOOLEAN, bundle : {row.bundle}]
      /\ SoundSimple(n, row.material, row.simple)
      /\ row.bundle # None =>
           /\ Rolled(row.bundle)
           /\ row.simple = << >> => SoundBundle(row.bundle, row.material)
  BY DEF Saved, SoundRow
<1>2. /\ rows'[n].material = row.material /\ rows'[n].simple = row.simple
      /\ rows'[n].bundle = row.bundle /\ rows'[n].fresh \in BOOLEAN
      /\ rows'[n] \in [material : 0..materialRevision, simple : {rows'[n].simple},
                       fresh : BOOLEAN, bundle : {rows'[n].bundle}]
  BY <1>1
<1>3. 0..materialRevision \subseteq 0..materialRevision' /\ row.material \in 0..materialRevision
  BY <1>1, StepsGrow
<1>4. PICK material, simple, bundle : material = row.material /\ simple = row.simple /\ bundle = row.bundle
  OBVIOUS
<1> HIDE DEF row
<1>5. SoundSimple(n, material, simple)'
  BY <1>1, <1>3, <1>4, SimpleStays
<1>6. bundle # None =>
        Rolled(bundle)' /\ (simple = << >> => SoundBundle(bundle, material)')
  <2>1. Rolled(bundle) => Rolled(bundle)'
    BY DEF Rolled, OnePlace, DownstreamOf, Sources, Targets
  <2>2. SoundBundle(bundle, material) => SoundBundle(bundle, material)'
    BY <1>3, <1>4, BundleStays
  <2> QED
    BY <2>1, <2>2, <1>1, <1>4
<1>7. rows'[n] \in [material : 0..materialRevision', simple : {rows'[n].simple},
                    fresh : BOOLEAN, bundle : {rows'[n].bundle}]
  BY <1>2, <1>3
<1> QED
  BY <1>2, <1>4, <1>5, <1>6, <1>7 DEF SoundRow

LEMMA SavedStays ==
  ASSUME Typed, Typed', Steps, Saved, Kept
  PROVE  Saved'
<1> SUFFICES ASSUME NEW n \in Nodes PROVE SoundRow(n)'
  BY DEF Saved
<1>1. CASE rows'[n] = None
  BY <1>1 DEF SoundRow
<1>2. CASE rows'[n] # None
  BY <1>2, RowStays DEF Kept
<1> QED
  BY <1>1, <1>2

LEMMA DriveStays ==
  ASSUME Driven, release' \in {None, release}
  PROVE  Driven'
  BY DEF Driven

\* A request waits while others step.
LEMMA RequestStays ==
  ASSUME Typed, Typed', Steps, Requested, single' \in {single, None},
         deploying' \in {deploying, None} \/ deploying'.node \in Roots
  PROVE  Requested'
<1>0. deploying' # None => deploying'.node \in Roots
  BY DEF Requested
<1> SUFFICES ASSUME single' # None
             PROVE  SoundRequest(single)'
  BY <1>0 DEF Requested
<1>1. PICK q : q = single /\ q = single'
  OBVIOUS
<1>2. SoundRequest(q)
  BY <1>1 DEF Requested
<1>3. q.node \in Nodes /\ 0..materialRevision \subseteq 0..materialRevision'
  <2>1. 0..materialRevision \subseteq 0..materialRevision'
    BY StepsGrow
  <2> QED
    BY <2>1, <1>2, GraphIsTyped DEF SoundRequest
<1>4. SoundRequest(q)'
  BY <1>2, <1>3, StandsStays DEF SoundRequest
<1> QED
  BY <1>1, <1>4

-----------------------------------------------------------------------------
(* The steps.                                                              *)

LEMMA EditStep ==
  ASSUME IInv, Edit \/ Save
  PROVE  IInv'
<1>1. Typed /\ NeverReenters /\ Planned /\ Saved /\ Requested /\ Driven
  BY DEF IInv
<1>2. Typed' /\ NeverReenters' /\ Steps
  BY <1>1, SaveTables, EditTables
<1>3. /\ building' = building /\ single' = single /\ deploying' = deploying /\ release' = release
      /\ rows' = rows \/ \E n \in Nodes : rows' = [rows EXCEPT ![n] = None]
  <2>1. CASE Edit
    BY <2>1 DEF Edit, UpdateNode, DeleteNode, Heartbeat, CreateInbound, UpdateInbound,
                    DeleteInbound, requests
  <2>2. CASE Save
    BY <2>2 DEF Save, SaveGraph, requests
  <2> QED
    BY <2>1, <2>2
<1>4. Kept
  BY <1>1, <1>3 DEF Kept, Typed
<1>5. Planned'
  BY <1>1, <1>2, <1>3, PlanStays DEF Planned
<1>6. Saved' /\ Requested' /\ Driven'
  BY <1>1, <1>2, <1>3, <1>4, SavedStays, RequestStays, DriveStays
<1> QED
  BY <1>2, <1>5, <1>6 DEF IInv

\* What a preview reads at first is an order of the machines that its links connect.
LEMMA SnapshotIsPlan ==
  ASSUME Typed, NEW root \in Roots, PreviewSnapshot(root)
  PROVE  SoundPlan(building')
<1> DEFINE links == LinksOf(drafts)
           selected == Component(links, root)
           here == {i \in Existing : NodeOf[i] \in selected}
           part == {l \in links : NodeOf[l[3]] \in selected}
           inb == Restrict(inbounds, here)
           all == selected \cap nodes
           chain == DeploymentOrder(inb, part)
           order == chain \o Ascending(all \ Range(chain))
           edges == [n \in Range(order) |-> drafts[n].edges]
<1>1. /\ root \in nodes /\ ValidateGraph(inb, part) /\ Range(order) \subseteq capable \cap nodes
      /\ building' = [root |-> root, graph |-> graphRevision, material |-> materialRevision,
                      order |-> order, edges |-> edges,
                      generation |-> [n \in Range(order) |-> generation[n]], configs |-> <<>>]
  BY DEF PreviewSnapshot
<1>2. /\ links \in SUBSET Links /\ part \in SUBSET links /\ here \in SUBSET Ids
      /\ \A i \in here : i \in Existing /\ NodeOf[i] \in all
  BY DEF LinksOf, Existing, Typed
<1>3. /\ selected \subseteq Nodes /\ root \in selected
      /\ \A l \in links : Touches(l, selected) => l[1] \in selected /\ NodeOf[l[3]] \in selected
  BY <1>2, ComponentIs, GraphIsTyped
<1>4. DOMAIN inb = here
  BY DEF Restrict
<1> HIDE DEF selected, here, inb
<1>5. Full(inb, part)
  <2>1. ValidateDraftGraph(inb, part)
    BY <1>1 DEF ValidateGraph
  <2> QED
    BY <1>1, <1>2, <1>4, <2>1 DEF Full, Draft
<1>6. Places(inb, part) \subseteq all
  <2>1. Places(inb, part) \subseteq {NodeOf[i] : i \in DOMAIN inb}
    BY <1>5, PlacesAreNodes DEF Full
  <2> HIDE DEF all, part
  <2> QED
    BY <2>1, <1>2, <1>4
<1>7. all \in SUBSET Nodes
  BY <1>3
<1> HIDE DEF all
<1>8. /\ order \in Seq(Nodes) /\ Distinct(order) /\ Range(order) = all
      /\ \A l \in part :
           (\A a, b \in part : a[2] # b[3] => NodeOf[a[2]] # NodeOf[b[3]])
             => Position(order, NodeOf[l[3]]) < Position(order, NodeOf[l[2]])
  BY <1>5, <1>6, <1>7, WholeOrder
<1> HIDE DEF order
<1>9. ASSUME NEW n \in all, NEW e \in edges[n]
      PROVE  \E l \in part : e = <<l[2], l[3]>> /\ l[1] = n
  <2>1. n \in Nodes /\ n \in selected /\ edges[n] = drafts[n].edges
    BY <1>7, <1>8 DEF all
  <2>2. PICK l \in Links : l[1] = n /\ e = <<l[2], l[3]>>
    BY <1>9, <2>1 DEF Typed, Edges
  <2>3. l \in links
    BY <2>1, <2>2, <1>9 DEF LinksOf
  <2>4. NodeOf[l[3]] \in selected
    BY <2>1, <2>2, <2>3, <1>3 DEF Touches
  <2> QED
    BY <2>2, <2>3, <2>4
<1>10. \A l \in part : l[1] \in all /\ <<l[2], l[3]>> \in edges[l[1]]
  <2> SUFFICES ASSUME NEW l \in part PROVE l[1] \in all /\ <<l[2], l[3]>> \in edges[l[1]]
    OBVIOUS
  <2>1. l \in Links /\ NodeOf[l[3]] \in selected /\ <<l[2], l[3]>> \in drafts[l[1]].edges
    BY DEF LinksOf
  <2>2. l[1] \in selected /\ l[1] \in Nodes
    BY <2>1, <1>2, <1>3, LinkIs DEF Touches
  <2>3. l[1] \in nodes
    BY <2>1, <2>2 DEF Typed
  <2> QED
    BY <2>1, <2>2, <2>3, <1>8 DEF all
<1>11. DOMAIN edges = all /\ \A n \in all : edges[n] = drafts[n].edges
  BY <1>8
<1>12. \A l \in part : l[3] \in here
  BY <1>4, <1>5 DEF Full, Draft, ValidateDraftGraph, WellFormed
<1> HIDE DEF edges, part, links
<1>13. Ordered(order, edges)
  <2> SUFFICES ASSUME \A i \in Starts(edges), j \in Ends(edges) : i # j => NodeOf[i] # NodeOf[j],
                      NEW n \in all, NEW e \in edges[n], NodeOf[e[1]] = n
               PROVE  Position(order, NodeOf[e[2]]) < Position(order, n)
    BY <1>8, <1>11 DEF Ordered
  <2>1. \A l \in part : l[2] \in Starts(edges) /\ l[3] \in Ends(edges)
    <3> SUFFICES ASSUME NEW l \in part PROVE l[2] \in Starts(edges) /\ l[3] \in Ends(edges)
      OBVIOUS
    <3> DEFINE x == <<l[2], l[3]>>
    <3>1. l[1] \in DOMAIN edges /\ x \in edges[l[1]] /\ x[1] = l[2] /\ x[2] = l[3]
      BY <1>10, <1>11
    <3> HIDE DEF x
    <3> QED
      BY <3>1 DEF Starts, Ends
  <2>2. PICK l \in part : e = <<l[2], l[3]>>
    BY <1>9
  <2>3. Position(order, NodeOf[l[3]]) < Position(order, NodeOf[l[2]])
    BY <2>1, <1>8
  <2> QED
    BY <2>2, <2>3
<1>14. Complete(all, edges)
  <2> SUFFICES ASSUME NEW n \in all, NEW e \in edges[n]
               PROVE  e[2] \in Existing /\ NodeOf[e[2]] \in all
    BY <1>11 DEF Complete
  <2>1. PICK l \in part : e = <<l[2], l[3]>>
    BY <1>9
  <2> QED
    BY <2>1, <1>12, <1>2
<1>15. building'.configs = <<>> /\ building'.order = order /\ building'.edges = edges
       /\ building'.root \in Roots /\ building'.graph = graphRevision
       /\ building'.material = materialRevision
  BY <1>1
<1>16. PlanRuns(building')
  <2>1. graphRevision \in 0..graphRevision /\ materialRevision \in 0..materialRevision
    BY DEF Typed
  <2>2. building' \in [root : Roots, graph : 0..graphRevision, material : 0..materialRevision,
                       order : {building'.order}, edges : {building'.edges},
                       generation : {building'.generation}, configs : {building'.configs}]
    BY <1>1, <1>15, <2>1
  <2>3. Len(<<>>) = 0 /\ <<>> \in Seq(Range(<<>>)) /\ Len(order) \in Nat
    BY <1>8
  <2>4. /\ building'.configs \in Seq(Range(building'.configs)) /\ Len(building'.configs) <= Len(building'.order)
        /\ 1..Len(building'.configs) = {}
    BY <1>15, <2>3
  <2>5. Ordered(building'.order, building'.edges)
    BY <1>13, <1>15
  <2> QED
    BY <2>2, <2>4, <2>5 DEF PlanRuns
<1>17. PlanSays(building')
  <2>1. 1..Len(building'.configs) = {}
    BY <1>15
  <2> QED
    BY <1>8, <1>14, <1>15, <2>1 DEF PlanSays
<1> QED
  BY <1>15, <1>16, <1>17 DEF SoundPlan

LEMMA SnapshotStep ==
  ASSUME IInv, NEW root \in Roots, PreviewSnapshot(root)
  PROVE  IInv'
<1>1. Typed /\ NeverReenters /\ Planned /\ Saved /\ Requested /\ Driven
  BY DEF IInv
<1>2. Typed' /\ NeverReenters' /\ Steps /\ Rests
  BY <1>1, RoadTables DEF Chain
<1>3. UNCHANGED <<rows, single, deploying, release>>
  BY DEF PreviewSnapshot, requests
<1>4. SoundPlan(building')
  BY <1>1, SnapshotIsPlan
<1>5. Planned'
  BY <1>2, <1>4, PlanSame DEF Planned
<1>6. Saved' /\ Driven' /\ Requested'
  BY <1>1, <1>2, <1>3, SavedStays, DriveStays, RequestStays DEF Kept
<1> QED
  BY <1>2, <1>5, <1>6 DEF IInv

\* The next machine is resolved from the tables as they are now.
LEMMA ResolvedIsPlan ==
  ASSUME SoundPlan(building), ResolveNode, building' # None
  PROVE  SoundPlan(building')
<1> DEFINE b == building
           k == Len(b.configs) + 1
           n == b.order[k]
           config == Config(n, b.edges[n])
<1>1. /\ k <= Len(b.order) /\ Resolvable(n, b.edges[n])
      /\ building' = [b EXCEPT !.configs = Append(b.configs, config)]
  <2>1. Len(b.configs) < Len(b.order)
        /\ building' = IF Resolvable(n, b.edges[n]) THEN [b EXCEPT !.configs = Append(@, config)] ELSE None
    BY DEF ResolveNode
  <2>2. b.configs \in Seq(Range(b.configs)) /\ b.order \in Seq(Nodes)
    BY DEF SoundPlan, PlanRuns, Ordered
  <2>3. Len(b.configs) \in Nat /\ Len(b.order) \in Nat
    BY <2>2
  <2> QED
    BY <2>1, <2>3
<1>2. PlanRuns(b)
  BY DEF SoundPlan
<1>3. b \in [root : Roots, graph : 0..graphRevision, material : 0..materialRevision,
             order : {b.order}, edges : {b.edges}, generation : {b.generation}, configs : {b.configs}]
  BY <1>2 DEF PlanRuns
<1>4. MadeOf(config, n, b.edges[n])
  <2>1. \A e \in b.edges[n] : NodeOf[e[1]] = n
    BY <1>1 DEF Resolvable, On
  <2>2. config.edges = {[from |-> e[1], to |-> e[2], material |-> Material(e[2])] : e \in b.edges[n]}
    BY DEF Config
  <2> HIDE DEF config, n
  <2>3. ASSUME NEW e \in b.edges[n]
        PROVE  \E c \in config.edges : c.from = e[1] /\ c.to = e[2]
    <3> DEFINE c == [from |-> e[1], to |-> e[2], material |-> Material(e[2])]
    <3>1. c \in config.edges /\ c.from = e[1] /\ c.to = e[2]
      BY <2>2
    <3> QED
      BY <3>1
  <2>4. ASSUME NEW c \in config.edges
        PROVE  \E e \in b.edges[n] : c.from = e[1] /\ c.to = e[2]
    BY <2>2
  <2> QED
    BY <2>1, <2>3, <2>4 DEF MadeOf
<1> HIDE DEF config
<1>5. /\ building'.root = b.root /\ building'.graph = b.graph /\ building'.material = b.material
      /\ building'.order = b.order /\ building'.edges = b.edges /\ building'.generation = b.generation
      /\ building'.configs = Append(b.configs, config)
      /\ building' \in [root : Roots, graph : 0..graphRevision, material : 0..materialRevision,
                        order : {building'.order}, edges : {building'.edges},
                        generation : {building'.generation}, configs : {building'.configs}]
  BY <1>1, <1>3
<1> DEFINE configs == Append(b.configs, config)
<1>6. /\ configs \in Seq(Range(configs)) /\ Len(configs) = k /\ Len(b.configs) \in Nat
      /\ \A j \in 1..Len(b.configs) : configs[j] = b.configs[j]
      /\ configs[k] = config
  <2>1. b.configs \in Seq(Range(b.configs) \cup {config})
    BY <1>2 DEF PlanRuns
  <2>2. /\ configs \in Seq(Range(b.configs) \cup {config}) /\ Len(configs) = k /\ Len(b.configs) \in Nat
        /\ \A j \in 1..Len(b.configs) : configs[j] = b.configs[j]
        /\ configs[k] = config
    BY <2>1
  <2>3. DOMAIN configs = 1..Len(configs) /\ configs = [j \in 1..Len(configs) |-> configs[j]]
    BY <2>2
  <2> HIDE DEF configs
  <2>4. \A j \in 1..Len(configs) : configs[j] \in Range(configs)
    BY <2>3 DEF Range
  <2> HIDE DEF k
  <2>5. configs \in [1..Len(configs) -> Range(configs)] /\ Len(configs) \in Nat
    BY <2>2, <2>3, <2>4
  <2>6. configs \in Seq(Range(configs))
    BY <2>5
  <2> QED
    BY <2>2, <2>6
<1> HIDE DEF configs
<1>7. PlanRuns(building')
  <2>1. \A j \in 1..k : MadeOf(configs[j], b.order[j], b.edges[b.order[j]])
    <3> SUFFICES ASSUME NEW j \in 1..k PROVE MadeOf(configs[j], b.order[j], b.edges[b.order[j]])
      OBVIOUS
    <3>1. CASE j = k
      BY <3>1, <1>4, <1>6
    <3>2. CASE j \in 1..Len(b.configs)
      BY <3>2, <1>2, <1>6 DEF PlanRuns
    <3> QED
      BY <3>1, <3>2, <1>6
  <2> HIDE DEF k
  <2> QED
    BY <2>1, <1>1, <1>2, <1>5, <1>6 DEF PlanRuns, configs
<1>8. ASSUME Present(b.graph, b.material)
      PROVE  PlanSays(building')
  <2>1. PlanSays(b)
    BY <1>8 DEF SoundPlan
  <2>2. \A j \in 1..k : configs[j] = Config(b.order[j], b.edges[b.order[j]])
    <3> SUFFICES ASSUME NEW j \in 1..k PROVE configs[j] = Config(b.order[j], b.edges[b.order[j]])
      OBVIOUS
    <3>1. CASE j = k
      BY <3>1, <1>6 DEF config
    <3>2. CASE j \in 1..Len(b.configs)
      BY <3>2, <2>1, <1>6 DEF PlanSays
    <3> QED
      BY <3>1, <3>2, <1>6
  <2> HIDE DEF k
  <2> QED
    BY <2>1, <2>2, <1>5, <1>6 DEF PlanSays, configs
<1> QED
  BY <1>5, <1>7, <1>8 DEF SoundPlan

LEMMA ResolveStep ==
  ASSUME IInv, ResolveNode
  PROVE  IInv'
<1>1. Typed /\ NeverReenters /\ Planned /\ Saved /\ Requested /\ Driven
  BY DEF IInv
<1>2. Typed' /\ NeverReenters' /\ Steps /\ Rests
  BY <1>1, RoadTables DEF Chain
<1>3. UNCHANGED <<rows, single, deploying, release>> /\ building # None
  BY DEF ResolveNode, requests
<1>4. building' # None => SoundPlan(building')
  BY <1>1, <1>3, ResolvedIsPlan DEF Planned
<1>5. Planned'
  BY <1>2, <1>4, PlanSame DEF Planned
<1>6. Saved' /\ Driven' /\ Requested'
  BY <1>1, <1>2, <1>3, SavedStays, DriveStays, RequestStays DEF Kept
<1> QED
  BY <1>2, <1>5, <1>6 DEF IInv

\* The preview that is saved holds what the one under way held.
LEMMA PlanIsBundle ==
  ASSUME NEW b, SoundPlan(b), Len(b.configs) = Len(b.order), NEW bundle,
         bundle = [graph |-> b.graph, order |-> b.order, generation |-> b.generation,
                   configs |-> [n \in Range(b.order) |->
                     b.configs[CHOOSE k \in DOMAIN b.order : b.order[k] = n]]]
  PROVE  SoundBundle(bundle, b.material)
<1> DEFINE edges == b.edges
<1>1. PlanRuns(b) /\ (Present(b.graph, b.material) => PlanSays(b))
  BY DEF SoundPlan
<1>2. bundle.graph = b.graph /\ bundle.order = b.order
      /\ bundle.configs = [n \in Range(b.order) |-> b.configs[Position(b.order, n)]]
  BY DEF Position
<1>3. b.graph \in 0..graphRevision /\ Ordered(b.order, edges)
  BY <1>1 DEF PlanRuns
<1>4. ASSUME NEW n \in Range(b.order)
      PROVE  \E k \in 1..Len(b.configs) : n = b.order[k] /\ bundle.configs[n] = b.configs[k]
  <2>1. b.order \in Seq(Nodes) /\ Distinct(b.order)
    BY <1>3 DEF Ordered
  <2>2. DOMAIN b.order = 1..Len(b.configs)
    BY <2>1
  <2>3. PICK k \in DOMAIN b.order : b.order[k] = n
    BY DEF Range
  <2>4. Position(b.order, n) = k
    BY <2>1, <2>3, PositionIs
  <2> QED
    BY <1>2, <2>2, <2>3, <2>4
<1>5. DOMAIN bundle.configs = Range(b.order) /\ DOMAIN edges = Range(b.order)
  BY <1>2, <1>3 DEF Ordered
<1>6. \A n \in Range(b.order) : MadeOf(bundle.configs[n], n, edges[n])
  BY <1>1, <1>4 DEF PlanRuns
<1>7. /\ \A n \in DOMAIN edges : \A e \in edges[n] :
           NodeOf[e[1]] = n /\ \E c \in bundle.configs[n].edges : c.from = e[1] /\ c.to = e[2]
      /\ \A n \in DOMAIN edges : \A c \in bundle.configs[n].edges :
           \E e \in edges[n] : c.from = e[1] /\ c.to = e[2]
  BY <1>5, <1>6 DEF MadeOf
<1> HIDE DEF edges
<1>8. Starts(edges) \subseteq Sources(bundle) /\ Ends(edges) \subseteq Targets(bundle)
  <2>1. ASSUME NEW n \in DOMAIN edges, NEW e \in edges[n]
        PROVE  e[1] \in Sources(bundle) /\ e[2] \in Targets(bundle)
    <3>1. PICK c \in bundle.configs[n].edges : c.from = e[1] /\ c.to = e[2]
      BY <1>7
    <3>2. n \in DOMAIN bundle.configs
      BY <1>5
    <3> DEFINE from == {x.from : x \in bundle.configs[n].edges}
               to == {x.to : x \in bundle.configs[n].edges}
    <3>3. e[1] \in from /\ e[2] \in to
      BY <3>1
    <3>4. from \subseteq Sources(bundle) /\ to \subseteq Targets(bundle)
      BY <3>2 DEF Sources, Targets
    <3> QED
      BY <3>3, <3>4
  <2>2. ASSUME NEW i \in Starts(edges) PROVE i \in Sources(bundle)
    <3>1. PICK n \in DOMAIN edges : i \in {e[1] : e \in edges[n]}
      BY DEF Starts
    <3> QED
      BY <3>1, <2>1
  <2>3. ASSUME NEW i \in Ends(edges) PROVE i \in Targets(bundle)
    <3>1. PICK n \in DOMAIN edges : i \in {e[2] : e \in edges[n]}
      BY DEF Ends
    <3> QED
      BY <3>1, <2>1
  <2> QED
    BY <2>2, <2>3
<1>9. ASSUME OnePlace(bundle) PROVE DownstreamOf(bundle)
  <2> SUFFICES ASSUME NEW n \in DOMAIN bundle.configs, NEW c \in bundle.configs[n].edges
               PROVE  Position(b.order, NodeOf[c.to]) < Position(b.order, n)
    BY <1>2 DEF DownstreamOf
  <2>1. \A i \in Starts(edges), j \in Ends(edges) : i # j => NodeOf[i] # NodeOf[j]
    BY <1>8, <1>9 DEF OnePlace
  <2>2. n \in DOMAIN edges
    BY <1>5
  <2>3. PICK e \in edges[n] : c.from = e[1] /\ c.to = e[2]
    BY <1>7, <2>2
  <2>4. NodeOf[e[1]] = n
    BY <1>7, <2>2
  <2> QED
    BY <2>1, <2>2, <2>3, <2>4, <1>3 DEF Ordered
<1>10. Rolled(bundle)
  BY <1>2, <1>3, <1>5, <1>9 DEF Rolled, Ordered
<1>11. ASSUME Present(b.graph, b.material)
       PROVE  BundleSays(bundle)
  <2>1. PlanSays(b)
    BY <1>1, <1>11
  <2>2. Range(b.order) \subseteq Nodes
    BY <1>3 DEF Ordered, Range
  <2>3. Complete(Range(b.order), edges)
    BY <2>1 DEF PlanSays, edges
  <2>4. \A n \in Range(b.order) : edges[n] = drafts[n].edges
    BY <2>3 DEF Complete
  <2>5. Complete(Range(b.order), [n \in Nodes |-> drafts[n].edges])
    BY <2>2, <2>3, <2>4 DEF Complete
  <2>6. \A n \in Range(b.order) : bundle.configs[n] = Config(n, edges[n])
    BY <2>1, <1>4 DEF PlanSays, edges
  <2> QED
    BY <1>2, <2>4, <2>5, <2>6 DEF BundleSays
<1> QED
  BY <1>2, <1>3, <1>10, <1>11 DEF SoundBundle

LEMMA PreviewSaveStep ==
  ASSUME IInv, PreviewSave
  PROVE  IInv'
<1> DEFINE root == building.root
           bundle == [graph |-> building.graph, order |-> building.order,
                      generation |-> building.generation,
                      configs |-> [n \in Range(building.order) |->
                        building.configs[CHOOSE k \in DOMAIN building.order : building.order[k] = n]]]
           row == [material |-> building.material, simple |-> << >>, fresh |-> TRUE, bundle |-> bundle]
<1>1. Typed /\ NeverReenters /\ Planned /\ Saved /\ Requested /\ Driven
  BY DEF IInv
<1>2. Typed' /\ NeverReenters' /\ Steps /\ Rests
  BY <1>1, RoadTables DEF Chain
<1>3. /\ UNCHANGED <<single, deploying, release, materialRevision>>
      /\ building # None /\ building' = None /\ Len(building.configs) = Len(building.order)
      /\ rows' = [rows EXCEPT ![root] = row]
  BY DEF PreviewSave, requests
<1>4. SoundPlan(building) /\ PlanRuns(building)
  BY <1>1, <1>3 DEF Planned, SoundPlan
<1>5. SoundBundle(bundle, building.material)
  <2> HIDE DEF bundle
  <2> QED
    BY <1>3, <1>4, PlanIsBundle DEF bundle
<1> HIDE DEF bundle
<1>6. root \in Nodes /\ building.material \in 0..materialRevision
  BY <1>4, GraphIsTyped DEF PlanRuns
<1>8. \A n \in Nodes : rows'[n] = IF n = root THEN row ELSE rows[n]
  BY <1>1, <1>3 DEF Typed
<1>9. Saved'
  <2> SUFFICES ASSUME NEW n \in Nodes PROVE SoundRow(n)'
    BY DEF Saved
  <2>1. CASE n = root
    <3>1. rows'[n] = row /\ materialRevision' = materialRevision
      BY <2>1, <1>3, <1>8
    <3>2. row.bundle = bundle /\ row.material = building.material /\ row.simple = << >>
          /\ row \in [material : 0..materialRevision, simple : {row.simple},
                      fresh : BOOLEAN, bundle : {row.bundle}]
      BY <1>6
    <3>3. PICK b, material : b = bundle /\ material = building.material
      OBVIOUS
    <3> HIDE DEF row
    <3>4. SoundBundle(b, material)'
      BY <3>3, <1>5, <1>6, <1>1, <1>2, BundleStays
    <3>5. Rolled(b)'
      BY <3>4 DEF SoundBundle
    <3>6. rows'[n].bundle = b /\ rows'[n].material = material /\ rows'[n].simple = << >>
      BY <3>1, <3>2, <3>3
    <3>7. SoundSimple(n, material, << >>)'
      BY DEF SoundSimple
    <3>8. rows'[n] \in [material : 0..materialRevision', simple : {rows'[n].simple},
                        fresh : BOOLEAN, bundle : {rows'[n].bundle}]
      BY <3>1, <3>2
    <3> QED
      BY <3>4, <3>5, <3>6, <3>7, <3>8 DEF SoundRow
  <2>2. CASE n # root
    <3>1. rows'[n] = rows[n]
      BY <2>2, <1>8
    <3>2. rows[n] = None => SoundRow(n)'
      BY <3>1 DEF SoundRow
    <3> QED
      BY <3>1, <3>2, <1>1, <1>2, RowStays DEF SoundRow
  <2> QED
    BY <2>1, <2>2
<1>10. Requested'
  BY <1>1, <1>2, <1>3, RequestStays
<1> QED
  BY <1>1, <1>2, <1>3, <1>9, <1>10, DriveStays DEF IInv, Planned

\* A release is one state: what its machines are to run was read at one revision.
LEMMA BundleIsOneState ==
  ASSUME NEW b, NEW material, SoundBundle(b, material), Present(b.graph, material)
  PROVE  OneState(b)
<1>1. BundleSays(b) /\ Rolled(b)
  BY DEF SoundBundle
<1>2. DOMAIN b.configs = Range(b.order) /\ Range(b.order) \subseteq Nodes
  BY <1>1 DEF Rolled, Range
<1>3. \A n \in Range(b.order) : \A x \in drafts[n].edges : x[2] \in Existing /\ NodeOf[x[2]] \in Range(b.order)
  BY <1>1, <1>2 DEF BundleSays, Complete
<1> SUFFICES ASSUME NEW n \in Range(b.order), NEW e \in b.configs[n].edges
             PROVE  /\ NodeOf[e.to] \in Range(b.order)
                    /\ e.to \in DOMAIN b.configs[NodeOf[e.to]].inbounds
                    /\ e.material = b.configs[NodeOf[e.to]].inbounds[e.to].material
  BY <1>2 DEF OneState
<1>4. b.configs[n].edges = {[from |-> x[1], to |-> x[2], material |-> Material(x[2])] : x \in drafts[n].edges}
  <2>1. b.configs[n] = Config(n, drafts[n].edges)
    BY <1>1 DEF BundleSays
  <2> QED
    BY <2>1 DEF Config
<1>5. PICK x \in drafts[n].edges : e = [from |-> x[1], to |-> x[2], material |-> Material(x[2])]
  BY <1>4
<1>6. e.to = x[2] /\ e.material = Material(x[2])
  BY <1>5
<1> DEFINE m == NodeOf[x[2]]
<1>7. m \in Range(b.order) /\ x[2] \in On(m)
  BY <1>3 DEF On
<1> HIDE DEF m
<1>8. b.configs[m].inbounds = [i \in On(m) |-> [role |-> inbounds[i].role, material |-> Material(i)]]
  <2>1. b.configs[m] = Config(m, drafts[m].edges)
    BY <1>1, <1>7 DEF BundleSays
  <2> QED
    BY <2>1 DEF Config
<1>9. x[2] \in DOMAIN b.configs[m].inbounds /\ b.configs[m].inbounds[x[2]].material = Material(x[2])
  BY <1>7, <1>8
<1> QED
  BY <1>6, <1>7, <1>9 DEF m

LEMMA CreateReleaseStep ==
  ASSUME IInv, NEW root \in Roots, CreateRelease(root)
  PROVE  IInv'
<1> DEFINE bundle == rows[root].bundle
<1>1. Typed /\ NeverReenters /\ Planned /\ Saved /\ Requested /\ Driven /\ root \in Nodes
  BY GraphIsTyped DEF IInv
<1>2. Typed' /\ NeverReenters' /\ Steps /\ Rests
  BY <1>1, RoadTables DEF Chain
<1>3. /\ rows' = [rows EXCEPT ![root].fresh = FALSE] /\ rows[root] # None
      /\ release' = [order |-> bundle.order, configs |-> bundle.configs]
      /\ bundle # None /\ UNCHANGED <<building, single, deploying>>
  BY DEF CreateRelease, Current, requests
<1>4. Rolled(bundle)
  BY <1>1, <1>3 DEF Saved, SoundRow
<1>5. Kept
  BY <1>1, <1>3 DEF Kept, Typed
<1> HIDE DEF bundle
<1>6. Driven'
  <2>1. release'.order = bundle.order /\ release'.configs = bundle.configs
    BY <1>3
  <2> QED
    BY <2>1, <1>4 DEF Driven, Rolled, OnePlace, DownstreamOf, Sources, Targets
<1>7. Planned'
  BY <1>1, <1>2, <1>3, PlanSame DEF Planned
<1>8. Saved' /\ Requested'
  BY <1>1, <1>2, <1>3, <1>5, SavedStays, RequestStays
<1> QED
  BY <1>2, <1>6, <1>7, <1>8 DEF IInv

LEMMA EndReleaseStep ==
  ASSUME IInv, EndRelease
  PROVE  IInv'
<1>1. Typed /\ NeverReenters /\ Planned /\ Saved /\ Requested /\ Driven
  BY DEF IInv
<1>2. Typed' /\ NeverReenters' /\ Steps /\ Rests
  BY <1>1, RoadTables DEF Chain
<1>3. release' = None /\ UNCHANGED <<rows, building, single, deploying>>
  BY DEF EndRelease, requests
<1>4. Planned'
  BY <1>1, <1>2, <1>3, PlanSame DEF Planned
<1>5. Saved' /\ Requested' /\ Driven'
  BY <1>1, <1>2, <1>3, SavedStays, RequestStays, DriveStays DEF Kept
<1> QED
  BY <1>2, <1>4, <1>5 DEF IInv

\* Requests of the single-node road begin and end without a trace in the tables.
LEMMA SimpleRequestStep ==
  ASSUME IInv, \/ \E n \in Roots : SimpleCheck(n) \/ DeployCheck(n)
               \/ SimpleRefuse \/ DeployRead \/ DeployRefuse
  PROVE  IInv'
<1>1. Typed /\ NeverReenters /\ Planned /\ Saved /\ Requested /\ Driven
  BY DEF IInv
<1>2. Typed' /\ NeverReenters' /\ Steps /\ Rests
  BY <1>1, RoadTables DEF Simple
<1>3. UNCHANGED <<rows, building, release>>
  BY DEF SimpleCheck, DeployCheck, SimpleRefuse, DeployRead, DeployRefuse
<1>4. Planned' /\ Saved' /\ Driven'
  BY <1>1, <1>2, <1>3, PlanSame, SavedStays, DriveStays DEF Planned, Kept
<1>5. Requested'
  <2>1. CASE \E n \in Roots : SimpleCheck(n)
    <3>1. PICK n \in Roots : SimpleCheck(n)
      BY <2>1
    <3>2. single'.step = "read" /\ single'.node = n /\ deploying' = deploying
      BY <3>1 DEF SimpleCheck
    <3> QED
      BY <3>2, <1>1 DEF Requested, SoundRequest
  <2>2. CASE \E n \in Roots : DeployCheck(n)
    <3>1. single' = single /\ deploying'.node \in Roots
      BY <2>2 DEF DeployCheck
    <3> QED
      BY <3>1, <1>1, <1>2, RequestStays
  <2>3. CASE SimpleRefuse
    <3>1. single' = None /\ deploying' = deploying
      BY <2>3 DEF SimpleRefuse
    <3> QED
      BY <3>1, <1>1, <1>2, RequestStays
  <2>4. CASE DeployRead
    <3>1. single' = single /\ (deploying' = None \/ deploying'.node = deploying.node) /\ deploying # None
      BY <2>4 DEF DeployRead
    <3>2. deploying.node \in Roots
      BY <3>1, <1>1 DEF Requested
    <3> QED
      BY <3>1, <3>2, <1>1, <1>2, RequestStays
  <2>5. CASE DeployRefuse
    <3>1. single' = single /\ deploying' = None
      BY <2>5 DEF DeployRefuse
    <3> QED
      BY <3>1, <1>1, <1>2, RequestStays
  <2> QED
    BY <2>1, <2>2, <2>3, <2>4, <2>5
<1> QED
  BY <1>2, <1>4, <1>5 DEF IInv

\* What Preview reads stands.
LEMMA SimpleReadStep ==
  ASSUME IInv, SimpleRead
  PROVE  IInv'
<1> DEFINE n == single.node
           edges == drafts[n].edges
<1>1. Typed /\ NeverReenters /\ Planned /\ Saved /\ Requested /\ Driven
  BY DEF IInv
<1>2. Typed' /\ NeverReenters' /\ Steps /\ Rests
  BY <1>1, RoadTables DEF Simple
<1>3. /\ UNCHANGED <<rows, building, release, deploying, materialRevision>> /\ single # None
      /\ single' = IF SimpleResolvable(n, edges)
                   THEN [step |-> "save", node |-> n, material |-> materialRevision,
                         draft |-> drafts[n].revision, config |-> Config(n, edges)]
                   ELSE None
  BY DEF SimpleRead
<1>4. Planned' /\ Saved' /\ Driven'
  BY <1>1, <1>2, <1>3, PlanSame, SavedStays, DriveStays DEF Planned, Kept
<1>5. CASE single' = None
  BY <1>1, <1>2, <1>3, <1>4, <1>5, RequestStays DEF IInv
<1>6. CASE single' # None
  <2>1. SimpleResolvable(n, edges)
    BY <1>3, <1>6
  <2>2. \A e \in edges : Firm(e[2])
    BY <2>1 DEF SimpleResolvable, Resolvable, Firm
  <2>3. n \in Roots /\ n \in Nodes
    BY <1>1, <1>3, GraphIsTyped DEF Requested, SoundRequest
  <2>4. drafts[n].revision \in Nat /\ materialRevision \in 0..materialRevision
    BY <1>1, <2>3 DEF Typed
  <2>5. PICK node, material, draft, config :
          node = n /\ material = materialRevision /\ draft = drafts[n].revision /\ config = Config(n, edges)
    OBVIOUS
  <2>6. single' = [step |-> "save", node |-> node, material |-> material, draft |-> draft, config |-> config]
    BY <1>3, <2>1, <2>5
  <2>7. Stands(node, material, draft, config)
    BY <2>2, <2>4, <2>5 DEF Stands
  <2>8. Stands(node, material, draft, config)'
    BY <2>3, <2>4, <2>5, <2>7, <1>1, <1>2, StandsStays
  <2>9. SoundRequest(single)'
    <3>1. single'.node = node /\ single'.material = material /\ single'.draft = draft
          /\ single'.config = config
      BY <2>6
    <3>2. node \in Roots /\ material \in 0..materialRevision' /\ draft \in Nat
      BY <2>3, <2>4, <2>5, <1>3
    <3> QED
      BY <3>1, <3>2, <2>8 DEF SoundRequest
  <2>10. Requested'
    BY <2>9, <1>1, <1>3 DEF Requested
  <2> QED
    BY <1>2, <1>4, <2>10 DEF IInv
<1> QED
  BY <1>5, <1>6

\* The bundle of a chain stays in the row beside what was read on its own.
LEMMA SimpleSaveStep ==
  ASSUME IInv, SimpleSave
  PROVE  IInv'
<1>1. Typed /\ NeverReenters /\ Planned /\ Saved /\ Requested /\ Driven
  BY DEF IInv
<1>2. Typed' /\ NeverReenters' /\ Steps /\ Rests
  BY <1>1, RoadTables DEF Simple
<1>3. PICK q : q = single
  OBVIOUS
<1> DEFINE n == q.node
           kept == IF rows[n] = None THEN [bundle |-> None, fresh |-> FALSE] ELSE rows[n]
           simple == <<[draft |-> q.draft, config |-> q.config]>>
           row == [material |-> materialRevision, bundle |-> kept.bundle, fresh |-> kept.fresh, simple |-> simple]
<1>4. /\ q # None /\ q.step = "save" /\ q.material = materialRevision
      /\ rows' = [rows EXCEPT ![n] = row] /\ single' = None
      /\ UNCHANGED <<building, release, deploying, materialRevision>>
  BY <1>3 DEF SimpleSave, Savable
<1>5. Planned' /\ Driven' /\ Requested'
  BY <1>1, <1>2, <1>4, PlanSame, DriveStays DEF Planned, Requested
<1>6. n \in Nodes /\ q.draft \in Nat /\ q.material \in 0..materialRevision
      /\ Stands(n, q.material, q.draft, q.config)
  BY <1>1, <1>3, <1>4, GraphIsTyped DEF Requested, SoundRequest
<1>7. \A m \in Nodes : rows'[m] = IF m = n THEN row ELSE rows[m]
  BY <1>1, <1>4 DEF Typed
<1>8. kept.fresh \in BOOLEAN /\ (kept.bundle # None => Rolled(kept.bundle))
  BY <1>1, <1>6 DEF Saved, SoundRow
<1>9. SoundSimple(n, q.material, simple)
  <2>1. simple[1].draft = q.draft /\ simple[1].config = q.config
    OBVIOUS
  <2> HIDE DEF simple
  <2> QED
    BY <2>1, <1>6 DEF SoundSimple
<1>10. simple # << >>
  OBVIOUS
<1>11. PICK bundle, fresh : bundle = kept.bundle /\ fresh = kept.fresh
  OBVIOUS
<1> HIDE DEF kept, simple
<1>12. SoundRow(n)'
  <2>1. rows'[n] = [material |-> q.material, bundle |-> bundle, fresh |-> fresh, simple |-> simple]
    BY <1>4, <1>6, <1>7, <1>11
  <2>2. rows'[n].material = q.material /\ rows'[n].bundle = bundle /\ rows'[n].simple = simple
    BY <2>1
  <2>3. rows'[n] \in [material : 0..materialRevision', simple : {rows'[n].simple},
                      fresh : BOOLEAN, bundle : {rows'[n].bundle}]
    <3>1. q.material \in 0..materialRevision' /\ fresh \in BOOLEAN
      BY <1>4, <1>6, <1>8, <1>11
    <3> QED
      BY <2>1, <3>1
  <2>4. SoundSimple(n, q.material, simple)'
    <3>1. PICK text : text = simple
      OBVIOUS
    <3>2. SoundSimple(n, q.material, text)'
      BY <3>1, <1>1, <1>2, <1>6, <1>9, SimpleStays
    <3> QED
      BY <3>1, <3>2 DEF simple
  <2>5. bundle # None => Rolled(bundle)'
    BY <1>8, <1>11 DEF Rolled, OnePlace, DownstreamOf, Sources, Targets
  <2> HIDE DEF row
  <2> QED
    BY <2>2, <2>3, <2>4, <2>5, <1>10 DEF SoundRow
<1>13. Saved'
  <2> SUFFICES ASSUME NEW m \in Nodes, m # n PROVE SoundRow(m)'
    BY <1>12 DEF Saved
  <2>1. rows'[m] = rows[m]
    BY <1>7
  <2>2. rows[m] = None => SoundRow(m)'
    BY <2>1 DEF SoundRow
  <2> QED
    BY <2>1, <2>2, <1>1, <1>2, RowStays DEF SoundRow
<1> QED
  BY <1>2, <1>5, <1>13 DEF IInv

LEMMA SimpleCommitStep ==
  ASSUME IInv, SimpleCommit
  PROVE  IInv'
<1>1. Typed /\ NeverReenters /\ Planned /\ Saved /\ Requested /\ Driven
  BY DEF IInv
<1>2. Typed' /\ NeverReenters' /\ Steps /\ Rests
  BY <1>1, RoadTables DEF Simple
<1>3. /\ deploying' = None /\ UNCHANGED <<single, building, release>>
      /\ rows' = [rows EXCEPT ![deploying.node] = None]
  BY DEF SimpleCommit
<1>4. Kept
  BY <1>1, <1>3 DEF Kept, Typed
<1>5. Planned' /\ Saved' /\ Driven' /\ Requested'
  BY <1>1, <1>2, <1>3, <1>4, PlanSame, SavedStays, DriveStays, RequestStays DEF Planned
<1> QED
  BY <1>2, <1>5 DEF IInv

LEMMA Inductive ==
  ASSUME IInv, [Next]_vars
  PROVE  IInv'
<1>1. CASE Edit \/ Save
  BY <1>1, EditStep
<1>2. CASE Chain
  BY <1>2, SnapshotStep, CreateReleaseStep, ResolveStep, PreviewSaveStep, EndReleaseStep DEF Chain
<1>3. CASE Simple
  BY <1>3, SimpleRequestStep, SimpleReadStep, SimpleSaveStep, SimpleCommitStep DEF Simple
<1>4. CASE UNCHANGED vars
  <2>1. Typed /\ NeverReenters /\ Planned /\ Saved /\ Requested /\ Driven
    BY DEF IInv
  <2>2. /\ UNCHANGED <<nodes, address, inbounds, drafts, graphRevision, materialRevision>>
        /\ UNCHANGED <<rows, running, building, single, deploying, release>>
    BY <1>4 DEF vars
  <2>3. Rests /\ Steps
    BY <2>2 DEF Rests, Steps
  <2>4. Typed' /\ NeverReenters'
    BY <2>1, <2>2, NeverReentersIs DEF Typed, Existing, Edges
  <2>5. Planned'
    BY <2>1, <2>2, <2>3, PlanSame DEF Planned
  <2>6. Saved' /\ Driven' /\ Requested'
    BY <2>1, <2>2, <2>3, <2>4, SavedStays, DriveStays, RequestStays DEF Kept
  <2> QED
    BY <2>4, <2>5, <2>6 DEF IInv
<1> QED
  BY <1>1, <1>2, <1>3, <1>4 DEF Next

-----------------------------------------------------------------------------
(* The theorems.                                                           *)

(* However drafts, nodes, inbounds and agents change while previews, requests and releases are    *)
(* under way, what was read is what the tables say until one of the revisions that are stored     *)
(* beside it moves; only a chain's bundle whose row SavePreview has filled again promises less.   *)
THEOREM Invariance == Spec => []IInv
<1>1. Init => IInv
  <2> SUFFICES ASSUME Init PROVE IInv
    OBVIOUS
  <2>1. Typed /\ NeverReenters
    BY InitTables
  <2>2. building = None /\ single = None /\ deploying = None /\ release = None /\ \A n \in Nodes : rows[n] = None
    BY DEF Init
  <2> QED
    BY <2>1, <2>2 DEF IInv, Planned, Saved, SoundRow, Requested, Driven
<1>2. IInv /\ [Next]_vars => IInv'
  BY Inductive
<1> QED
  BY <1>1, <1>2, PTL DEF Spec

(* The drafts of SaveGraph never lead back to a machine they have left, whatever is edited around *)
(* them: the walks of the validators end.                                                         *)
THEOREM NoWayRound == Spec => []NeverReenters
<1>1. IInv => NeverReenters
  BY DEF IInv
<1> QED
  BY <1>1, Invariance, PTL

(* CreateTopologyRelease switches nodes to one state of the tables, however many edits came       *)
(* between the reads of PreviewChain that its bundle was put together from, unless SavePreview    *)
(* has given the bundle's row the material revision of a single-node preview.                     *)
THEOREM OneStateIsReleased == Spec => ReleaseIsOneState
<1>1. ASSUME IInv, NEW root \in Roots, CreateRelease(root), rows[root].simple = << >>
      PROVE  OneState(release')
  <2> DEFINE bundle == rows[root].bundle
  <2>1. /\ rows[root] # None /\ bundle # None
        /\ bundle.graph = graphRevision /\ rows[root].material = materialRevision
        /\ release' = [order |-> bundle.order, configs |-> bundle.configs]
    BY <1>1 DEF CreateRelease, Current
  <2>2. root \in Nodes
    BY GraphIsTyped
  <2>3. SoundBundle(bundle, materialRevision) /\ Present(bundle.graph, materialRevision)
    BY <1>1, <2>1, <2>2 DEF IInv, Saved, SoundRow, Present
  <2> HIDE DEF bundle
  <2>4. OneState(bundle)
    BY <2>3, BundleIsOneState
  <2>5. release'.configs = bundle.configs
    BY <2>1
  <2> QED
    BY <2>4, <2>5 DEF OneState
<1>2. IInv /\ [Next]_vars =>
        [\A root \in Roots :
           CreateRelease(root) /\ rows[root].simple = << >> => OneState(release')]_vars
  BY <1>1
<1> QED
  BY <1>2, Invariance, PTL DEF Spec, ReleaseIsOneState

LEMMA DistinctLength ==
  ASSUME NEW s \in Seq(Nodes), Distinct(s)
  PROVE  Len(s) = Cardinality(Range(s))
<1>1. Len(s) \in Nat /\ DOMAIN s = 1..Len(s) /\ s \in [1..Len(s) -> Range(s)]
  BY DEF Range
<1>2. s \in Bijection(1..Len(s), Range(s))
  BY <1>1 DEF Bijection, Injection, Surjection, IsInjective, Range, Distinct
<1>3. IsFiniteSet(1..Len(s)) /\ Cardinality(1..Len(s)) = Len(s)
  <2>1. 1 \in Int /\ Len(s) \in Int
    BY <1>1
  <2>2. Cardinality(1..Len(s)) = IF 1 > Len(s) THEN 0 ELSE Len(s) - 1 + 1
    BY <2>1, FS_Interval
  <2> QED
    BY <2>1, <2>2, <1>1, FS_Interval
<1> QED
  BY <1>2, <1>3, FS_Bijection DEF ExistsBijection

(* The order DeploymentOrder gives a release names every machine once, and where no machine       *)
(* starts a link at one inbound and ends one at another it names each after those it leads to.    *)
THEOREM DownstreamIsFirst == Spec => []OnePlaceDownstreamFirst
<1>1. IInv => OnePlaceDownstreamFirst
  <2> SUFFICES ASSUME IInv, release # None
               PROVE  /\ Len(release.order) = Cardinality(DOMAIN release.configs)
                      /\ OnePlace(release) => DownstreamOf(release)
    BY DEF OnePlaceDownstreamFirst
  <2>1. Rolled(release)
    BY DEF IInv, Driven
  <2> QED
    BY <2>1, DistinctLength DEF Rolled
<1> QED
  BY <1>1, Invariance, PTL

(* DeployPreview writes what draft and material say when it commits, although Deploy read and     *)
(* compared them before its transaction and the node may have joined a chain since.               *)
THEOREM CommitIsCurrent == Spec => SimpleDeployIsCurrent
<1>1. ASSUME IInv, SimpleCommit
      PROVE  running'[deploying.node] = Config(deploying.node, drafts[deploying.node].edges)
  <2> DEFINE n == deploying.node
  <2>1. deploying # None /\ Deployable(deploying) /\ running' = [running EXCEPT ![n] = deploying.config]
    BY <1>1 DEF SimpleCommit
  <2>2. n \in Nodes
    BY <1>1, <2>1, GraphIsTyped DEF IInv, Requested
  <2>3. /\ rows[n] # None /\ rows[n].material = materialRevision
        /\ rows[n].simple = <<[draft |-> deploying.draft, config |-> deploying.config]>>
        /\ drafts[n].revision = deploying.draft
    BY <2>1 DEF Deployable
  <2>4. rows[n].simple # << >> /\ rows[n].simple[1].draft = deploying.draft
        /\ rows[n].simple[1].config = deploying.config
    BY <2>3
  <2>5. Stands(n, materialRevision, deploying.draft, deploying.config)
    BY <1>1, <2>2, <2>3, <2>4 DEF IInv, Saved, SoundRow, SoundSimple
  <2>6. deploying.config = Config(n, drafts[n].edges)
    BY <2>3, <2>5 DEF Stands
  <2>7. running'[n] = deploying.config
    BY <1>1, <2>1, <2>2 DEF IInv, Typed
  <2> QED
    BY <2>6, <2>7
<1>2. IInv /\ [Next]_vars =>
        [SimpleCommit =>
           running'[deploying.node] = Config(deploying.node, drafts[deploying.node].edges)]_vars
  BY <1>1
<1> QED
  BY <1>2, Invariance, PTL DEF Spec, SimpleDeployIsCurrent

=============================================================================
