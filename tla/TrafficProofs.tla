----------------------------- MODULE TrafficProofs -----------------------------
(***************************************************************************)
(* Theorems about the traffic of a panel, for any users, nodes, workers,   *)
(* periods and bounds.  TrafficMetering: a byte is counted at most once    *)
(* (the refinement of ByteMeter), the panel and the agent never disagree   *)
(* about the pending report, and "collecting" is exact.  TrafficRollup:    *)
(* the split of a report over buckets keeps its bytes, and the figures a   *)
(* query shows are what was counted.                                       *)
(*                                                                         *)
(* Both add up what is in a finite set with a fold: the first part is      *)
(* about such sums.                                                        *)
(***************************************************************************)
EXTENDS TrafficMetering, TrafficRollup, FiniteSetTheorems, WellFoundedInduction, TLAPS

-----------------------------------------------------------------------------
(* Sums.  A fold picks one element after the other, so that what it computes *)
(* is fixed by an equation for every subset: IsSum.  What is shown of every  *)
(* finite set is shown by taking a smallest one of which it fails.           *)

Chosen(S) == CHOOSE x \in S : TRUE
IsSum(f, g, S) ==
  g = [s \in SUBSET S |-> IF s = {} THEN 0 ELSE f[Chosen(s)] + g[s \ {Chosen(s)}]]
SumOf(f, S) == (CHOOSE g : IsSum(f, g, S))[S]

LEMMA Smallest ==
  ASSUME NEW S, IsFiniteSet(S), NEW Bad \in SUBSET SUBSET S, Bad # {}
  PROVE  \E T \in Bad : \A U \in Bad : ~(U \subseteq T /\ U # T)
<1>1. Bad \subseteq FiniteSubsetsOf(S)
  BY FS_Subset DEF FiniteSubsetsOf
<1>2. PICK T \in Bad : \A U \in Bad : <<U, T>> \notin StrictSubsetOrdering(S)
  BY <1>1, FS_StrictSubsetOrderingWellFounded, WFMin, Zenon
<1> QED
  BY <1>2 DEF StrictSubsetOrdering

LEMMA LeastNumber ==
  ASSUME NEW B \in SUBSET Nat, B # {}
  PROVE  \E n \in B : \A m \in B : n <= m
<1>1. PICK n \in B : \A m \in B : ~(<<m, n>> \in OpToRel(<, Nat))
  BY NatLessThanWellFounded, WFMin, Zenon
<1>2. \A m \in B : <<m, n>> \in Nat \X Nat
  OBVIOUS
<1>3. \A m \in B : ~(m < n)
  BY <1>1, <1>2, Zenon DEF OpToRel
<1> QED
  BY <1>3

LEMMA ChosenIn == \A S : S # {} => Chosen(S) \in S
  BY DEF Chosen

LEMMA SumUnique ==
  ASSUME NEW f, NEW S, IsFiniteSet(S), NEW g, NEW h, IsSum(f, g, S), IsSum(f, h, S)
  PROVE  \A T \in SUBSET S : g[T] = h[T]
<1> DEFINE Bad == {T \in SUBSET S : g[T] # h[T]}
<1>1. SUFFICES ASSUME Bad # {} PROVE FALSE
  OBVIOUS
<1>2. Bad \in SUBSET SUBSET S
  OBVIOUS
<1> HIDE DEF Bad
<1>3. \E T \in Bad : \A U \in Bad : ~(U \subseteq T /\ U # T)
  BY <1>1, <1>2, Smallest
<1> USE DEF Bad
<1>4. PICK T \in Bad : \A U \in Bad : ~(U \subseteq T /\ U # T)
  BY <1>3
<1>5. CASE T = {}
  BY <1>5 DEF IsSum
<1>6. CASE T # {}
  <2>1. Chosen(T) \in T /\ T \ {Chosen(T)} \in SUBSET S /\ T \ {Chosen(T)} # T
    BY <1>6, ChosenIn
  <2>2. g[T \ {Chosen(T)}] = h[T \ {Chosen(T)}]
    BY <2>1, <1>4
  <2>3. g[T] = f[Chosen(T)] + g[T \ {Chosen(T)}] /\ h[T] = f[Chosen(T)] + h[T \ {Chosen(T)}]
    BY <1>6 DEF IsSum
  <2> QED
    BY <2>2, <2>3
<1> QED
  BY <1>5, <1>6

LEMMA SumWithin ==
  ASSUME NEW f, NEW S, NEW g, IsSum(f, g, S), NEW T \in SUBSET S
  PROVE  IsSum(f, [s \in SUBSET T |-> g[s]], T)
<1> DEFINE h == [s \in SUBSET T |-> g[s]]
<1>1. ASSUME NEW s \in SUBSET T
      PROVE  h[s] = IF s = {} THEN 0 ELSE f[Chosen(s)] + h[s \ {Chosen(s)}]
  <2>1. s \in SUBSET S /\ s \ {Chosen(s)} \in SUBSET T
    OBVIOUS
  <2>2. g[s] = IF s = {} THEN 0 ELSE f[Chosen(s)] + g[s \ {Chosen(s)}]
    BY <2>1 DEF IsSum
  <2> QED
    BY <2>1, <2>2
<1>2. h = [s \in SUBSET T |-> h[s]]
  OBVIOUS
<1> HIDE DEF h
<1>3. h = [s \in SUBSET T |-> IF s = {} THEN 0 ELSE f[Chosen(s)] + h[s \ {Chosen(s)}]]
  BY <1>1, <1>2
<1> QED
  BY <1>3 DEF IsSum, h

\* A smaller sum is part of a larger one.
LEMMA SumRestricted ==
  ASSUME NEW f, NEW S, IsFiniteSet(S), NEW g, IsSum(f, g, S),
         NEW T \in SUBSET S, NEW h, IsSum(f, h, T)
  PROVE  g[T] = h[T]
<1>1. IsSum(f, [s \in SUBSET T |-> g[s]], T)
  BY SumWithin
<1>2. IsFiniteSet(T)
  BY FS_Subset
<1>3. [s \in SUBSET T |-> g[s]][T] = h[T]
  <2>1. T \in SUBSET T
    OBVIOUS
  <2> QED
    BY <1>1, <1>2, <2>1, SumUnique
<1> QED
  BY <1>3

LEMMA SumExists ==
  ASSUME NEW f, NEW S, IsFiniteSet(S)
  PROVE  \E g : IsSum(f, g, S)
<1> DEFINE Good(T) == \E g : IsSum(f, g, T)
           Bad == {T \in SUBSET S : ~Good(T)}
<1>1. SUFFICES ASSUME Bad # {} PROVE FALSE
  OBVIOUS
<1>2. Bad \in SUBSET SUBSET S
  OBVIOUS
<1> HIDE DEF Bad
<1>3. \E T \in Bad : \A U \in Bad : ~(U \subseteq T /\ U # T)
  BY <1>1, <1>2, Smallest
<1> USE DEF Bad
<1>4. PICK T \in Bad : \A U \in Bad : ~(U \subseteq T /\ U # T)
  BY <1>3
<1> DEFINE At(u) == SumOf(f, u)
           h == [s \in SUBSET T |-> IF s = {} THEN 0 ELSE f[Chosen(s)] + At(s \ {Chosen(s)})]
<1>5. ASSUME NEW u \in SUBSET T, u # T PROVE h[u] = At(u)
  <2> DEFINE g == CHOOSE g : IsSum(f, g, u)
  <2>0. Good(u)
    BY <1>4, <1>5
  <2>1. IsSum(f, g, u) /\ At(u) = g[u]
    BY <2>0 DEF SumOf
  <2> HIDE DEF g
  <2>2. CASE u = {}
    <3>1. g[u] = 0
      BY <2>1, <2>2 DEF IsSum
    <3> QED
      BY <3>1, <2>1, <2>2
  <2>3. CASE u # {}
    <3> DEFINE w == u \ {Chosen(u)}
               k == CHOOSE k : IsSum(f, k, w)
    <3>1. w \in SUBSET T /\ w # T /\ w \in SUBSET u /\ u \in SUBSET S
      BY <1>5
    <3>2. Good(w)
      BY <1>4, <3>1
    <3>3. IsSum(f, k, w) /\ At(w) = k[w]
      BY <3>2 DEF SumOf
    <3> HIDE DEF k, w
    <3>4. g[w] = k[w]
      BY <3>1, <3>3, <2>1, FS_Subset, SumRestricted
    <3>5. g[u] = f[Chosen(u)] + g[w]
      BY <2>1, <2>3 DEF IsSum, w
    <3> QED
      BY <3>3, <3>4, <3>5, <2>1, <2>3 DEF w
  <2> QED
    BY <2>2, <2>3
<1>6. ASSUME NEW s \in SUBSET T, s # {} PROVE At(s \ {Chosen(s)}) = h[s \ {Chosen(s)}]
  <2>1. s \ {Chosen(s)} \in SUBSET T /\ s \ {Chosen(s)} # T
    BY <1>6, ChosenIn
  <2> QED
    BY <2>1, <1>5
<1>7. h = [s \in SUBSET T |-> IF s = {} THEN 0 ELSE f[Chosen(s)] + h[s \ {Chosen(s)}]]
  <2>1. \A s \in SUBSET T : h[s] = IF s = {} THEN 0 ELSE f[Chosen(s)] + At(s \ {Chosen(s)})
    OBVIOUS
  <2>2. h = [s \in SUBSET T |-> h[s]]
    OBVIOUS
  <2> HIDE DEF h, At
  <2>3. \A s \in SUBSET T : h[s] = IF s = {} THEN 0 ELSE f[Chosen(s)] + h[s \ {Chosen(s)}]
    BY <1>6, <2>1
  <2> QED
    BY <2>2, <2>3
<1> HIDE DEF h
<1>8. IsSum(f, h, T)
  BY <1>7 DEF IsSum
<1> QED
  BY <1>8, <1>4

\* Every solution of the equation computes the sum.
LEMMA SumIs ==
  ASSUME NEW f, NEW S, IsFiniteSet(S), NEW g, IsSum(f, g, S)
  PROVE  SumOf(f, S) = g[S]
<1> DEFINE h == CHOOSE h : IsSum(f, h, S)
<1>1. IsSum(f, h, S) /\ SumOf(f, S) = h[S]
  BY DEF SumOf
<1> HIDE DEF h
<1>2. S \in SUBSET S
  OBVIOUS
<1> QED
  BY <1>1, <1>2, SumUnique

LEMMA SumEmpty == \A f : SumOf(f, {}) = 0
<1>1. ASSUME NEW f PROVE SumOf(f, {}) = 0
  <2>1. PICK g : IsSum(f, g, {})
    BY FS_EmptySet, SumExists
  <2>2. g[{}] = 0
    BY <2>1 DEF IsSum
  <2> QED
    BY <2>1, <2>2, FS_EmptySet, SumIs
<1> QED
  BY <1>1

LEMMA SumEquation ==
  ASSUME NEW f, NEW S, IsFiniteSet(S), S # {}
  PROVE  SumOf(f, S) = f[Chosen(S)] + SumOf(f, S \ {Chosen(S)})
<1>1. PICK g : IsSum(f, g, S)
  BY SumExists
<1> DEFINE w == S \ {Chosen(S)}
<1>2. w \in SUBSET S /\ IsFiniteSet(w)
  BY FS_Subset
<1>3. g[S] = f[Chosen(S)] + g[w]
  BY <1>1 DEF IsSum
<1>4. SumOf(f, S) = g[S]
  BY <1>1, SumIs
<1>5. IsSum(f, [s \in SUBSET w |-> g[s]], w)
  BY <1>1, <1>2, SumWithin
<1> HIDE DEF w
<1>6. SumOf(f, w) = [s \in SUBSET w |-> g[s]][w]
  BY <1>2, <1>5, SumIs
<1>7. w \in SUBSET w
  OBVIOUS
<1> QED
  BY <1>3, <1>4, <1>6, <1>7 DEF w

LEMMA SumType ==
  ASSUME NEW f, NEW S, IsFiniteSet(S), \A x \in S : f[x] \in Nat
  PROVE  SumOf(f, S) \in Nat
<1> DEFINE Bad == {T \in SUBSET S : SumOf(f, T) \notin Nat}
<1>1. SUFFICES ASSUME Bad # {} PROVE FALSE
  OBVIOUS
<1>2. Bad \in SUBSET SUBSET S
  OBVIOUS
<1> HIDE DEF Bad
<1>3. \E T \in Bad : \A U \in Bad : ~(U \subseteq T /\ U # T)
  BY <1>1, <1>2, Smallest
<1> USE DEF Bad
<1>4. PICK T \in Bad : \A U \in Bad : ~(U \subseteq T /\ U # T)
  BY <1>3
<1>5. T # {}
  <2>1. SumOf(f, {}) = 0
    BY SumEmpty
  <2> QED
    BY <1>4, <2>1
<1>6. Chosen(T) \in T
  BY <1>5, ChosenIn
<1>7. SumOf(f, T) = f[Chosen(T)] + SumOf(f, T \ {Chosen(T)})
  BY <1>5, FS_Subset, SumEquation
<1>8. SumOf(f, T \ {Chosen(T)}) \in Nat /\ f[Chosen(T)] \in Nat /\ SumOf(f, T) \notin Nat
  BY <1>4, <1>6
<1> HIDE DEF Bad
<1> QED
  BY <1>7, <1>8

LEMMA SumRemove ==
  ASSUME NEW f, NEW S, IsFiniteSet(S), \A x \in S : f[x] \in Nat, NEW x \in S
  PROVE  SumOf(f, S) = SumOf(f, S \ {x}) + f[x]
<1> DEFINE Good(T) == \A y \in T : SumOf(f, T) = SumOf(f, T \ {y}) + f[y]
           Bad == {T \in SUBSET S : ~Good(T)}
<1>1. SUFFICES ASSUME Bad # {} PROVE FALSE
  OBVIOUS
<1>2. Bad \in SUBSET SUBSET S
  OBVIOUS
<1> HIDE DEF Bad
<1>3. \E T \in Bad : \A U \in Bad : ~(U \subseteq T /\ U # T)
  BY <1>1, <1>2, Smallest
<1> USE DEF Bad
<1>4. PICK T \in Bad : \A U \in Bad : ~(U \subseteq T /\ U # T)
  BY <1>3
<1>5. \A U \in SUBSET S : IsFiniteSet(U) /\ SumOf(f, U) \in Nat
  BY FS_Subset, SumType
<1>6. ASSUME NEW y \in T PROVE SumOf(f, T) = SumOf(f, T \ {y}) + f[y]
  <2> DEFINE c == Chosen(T)
  <2>1. c \in T
    BY ChosenIn
  <2>2. SumOf(f, T) = f[c] + SumOf(f, T \ {c})
    BY <1>5, <1>4, SumEquation, <1>6
  <2>3. CASE y = c
    BY <2>1, <2>2, <2>3, <1>5
  <2>4. CASE y # c
    <3> HIDE DEF c
    <3>1. Good(T \ {c}) /\ Good(T \ {y})
      BY <1>4, <2>1
    <3>2. SumOf(f, T \ {c}) = SumOf(f, (T \ {c}) \ {y}) + f[y]
      BY <3>1, <2>4
    <3>3. SumOf(f, T \ {y}) = SumOf(f, (T \ {y}) \ {c}) + f[c]
      BY <3>1, <2>1, <2>4
    <3>4. SumOf(f, (T \ {y}) \ {c}) = SumOf(f, (T \ {c}) \ {y})
      <4>1. (T \ {y}) \ {c} = (T \ {c}) \ {y}
        OBVIOUS
      <4> QED
        BY <4>1
    <3>5. SumOf(f, (T \ {c}) \ {y}) \in Nat /\ f[c] \in Nat /\ f[y] \in Nat
      BY <1>5, <2>1
    <3> QED
      BY <3>2, <3>3, <3>4, <3>5, <2>2
  <2> QED
    BY <2>3, <2>4
<1> QED
  BY <1>4, <1>6

\* Only what is not zero counts.
LEMMA SumSame ==
  ASSUME NEW f, NEW g, NEW S, IsFiniteSet(S), NEW T \in SUBSET S,
         \A x \in S : g[x] \in Nat, \A x \in T : f[x] = g[x],
         \A x \in S \ T : g[x] = 0
  PROVE  SumOf(f, T) = SumOf(g, S)
<1> DEFINE Good(U) == SumOf(f, U \cap T) = SumOf(g, U)
           Bad == {U \in SUBSET S : ~Good(U)}
<1>1. SUFFICES ASSUME Bad # {} PROVE FALSE
  <2>1. S \notin Bad /\ S \cap T = T
    BY <1>1
  <2> QED
    BY <2>1
<1>2. Bad \in SUBSET SUBSET S
  OBVIOUS
<1> HIDE DEF Bad
<1>3. \E U \in Bad : \A V \in Bad : ~(V \subseteq U /\ V # U)
  BY <1>1, <1>2, Smallest
<1> USE DEF Bad
<1>4. PICK U \in Bad : \A V \in Bad : ~(V \subseteq U /\ V # U)
  BY <1>3
<1>5. U # {}
  <2>1. SumOf(f, {}) = 0 /\ SumOf(g, {}) = 0 /\ {} \cap T = {}
    BY SumEmpty
  <2> QED
    BY <1>4, <2>1
<1>6. PICK x \in U : TRUE
  BY <1>5
<1> DEFINE V == U \ {x}
<1>7. Good(V) /\ ~Good(U) /\ x \in S /\ U \in SUBSET S
  BY <1>4
<1>8. IsFiniteSet(U) /\ IsFiniteSet(U \cap T)
  BY <1>7, FS_Subset
<1>9. SumOf(g, U) = SumOf(g, V) + g[x]
  BY <1>7, <1>8, SumRemove
<1>10. CASE x \in T
  <2>1. SumOf(f, U \cap T) = SumOf(f, (U \cap T) \ {x}) + f[x]
    BY <1>7, <1>8, <1>10, SumRemove
  <2>2. (U \cap T) \ {x} = V \cap T
    OBVIOUS
  <2> HIDE DEF V
  <2> QED
    BY <2>1, <2>2, <1>7, <1>9, <1>10
<1>11. CASE x \notin T
  <2>1. U \cap T = V \cap T /\ g[x] = 0
    BY <1>7, <1>11
  <2>2. SumOf(g, V) \in Nat
    BY <1>7, <1>8, FS_Subset, SumType
  <2> HIDE DEF V
  <2> QED
    BY <2>1, <2>2, <1>7, <1>9
<1> QED
  BY <1>10, <1>11

LEMMA SumEqual ==
  ASSUME NEW f, NEW g, NEW S, IsFiniteSet(S), \A x \in S : g[x] \in Nat /\ f[x] = g[x]
  PROVE  SumOf(f, S) = SumOf(g, S)
<1>1. S \in SUBSET S /\ \A x \in S \ S : g[x] = 0
  OBVIOUS
<1> QED
  BY <1>1, SumSame

LEMMA SumNonZero ==
  ASSUME NEW f, NEW S, IsFiniteSet(S), NEW T \in SUBSET S,
         \A x \in S : f[x] \in Nat, \A x \in S \ T : f[x] = 0
  PROVE  SumOf(f, T) = SumOf(f, S)
<1>1. \A g : (\A x \in S : g[x] \in Nat) /\ (\A x \in T : f[x] = g[x])
             /\ (\A x \in S \ T : g[x] = 0) => SumOf(f, T) = SumOf(g, S)
  BY SumSame
<1> QED
  BY <1>1

LEMMA SumZero ==
  ASSUME NEW f, NEW S, IsFiniteSet(S), \A x \in S : f[x] = 0
  PROVE  SumOf(f, S) = 0
<1>1. {} \in SUBSET S /\ (\A x \in {} : f[x] = f[x]) /\ (\A x \in S \ {} : f[x] = 0)
  OBVIOUS
<1>2. \A x \in S : f[x] \in Nat
  OBVIOUS
<1>3. SumOf(f, {}) = SumOf(f, S)
  BY <1>1, <1>2, SumSame
<1> QED
  BY <1>3, SumEmpty

LEMMA SumApart ==
  ASSUME NEW f, NEW S, IsFiniteSet(S), \A x \in S : f[x] \in Nat,
         NEW A \in SUBSET S, NEW B \in SUBSET S, A \cap B = {}
  PROVE  SumOf(f, A \union B) = SumOf(f, A) + SumOf(f, B)
<1> DEFINE Good(U) == SumOf(f, A \union U) = SumOf(f, A) + SumOf(f, U)
           Bad == {U \in SUBSET B : ~Good(U)}
<1>1. SUFFICES ASSUME Bad # {} PROVE FALSE
  OBVIOUS
<1>2. Bad \in SUBSET SUBSET B /\ IsFiniteSet(B)
  BY FS_Subset
<1> HIDE DEF Bad
<1>3. \E U \in Bad : \A V \in Bad : ~(V \subseteq U /\ V # U)
  BY <1>1, <1>2, Smallest
<1> USE DEF Bad
<1>4. PICK U \in Bad : \A V \in Bad : ~(V \subseteq U /\ V # U)
  BY <1>3
<1>5. \A T \in SUBSET S : IsFiniteSet(T) /\ SumOf(f, T) \in Nat
  BY FS_Subset, SumType
<1>6. U # {}
  <2>1. SUFFICES ASSUME U = {} PROVE FALSE
    OBVIOUS
  <2>2. A \union U = A
    BY <2>1
  <2>3. SumOf(f, U) = 0
    BY <2>1, SumEmpty
  <2>4. SumOf(f, A) \in Nat
    BY <1>5
  <2>5. SumOf(f, A \union U) # SumOf(f, A) + SumOf(f, U)
    BY <1>4
  <2> HIDE DEF Good, Bad
  <2> QED
    BY <2>2, <2>3, <2>4, <2>5
<1>7. PICK x \in U : TRUE
  BY <1>6
<1> DEFINE V == U \ {x}
<1>8. Good(V) /\ ~Good(U) /\ x \in S /\ x \notin A /\ U \in SUBSET S
  BY <1>4
<1>9. SumOf(f, U) = SumOf(f, V) + f[x]
  BY <1>5, <1>8, SumRemove
<1>10. SumOf(f, A \union U) = SumOf(f, A \union V) + f[x]
  <2>1. (A \union U) \ {x} = A \union V /\ x \in A \union U /\ A \union U \in SUBSET S
    BY <1>8
  <2> HIDE DEF V
  <2>2. SumOf(f, A \union U) = SumOf(f, (A \union U) \ {x}) + f[x]
    BY <1>5, <2>1, SumRemove
  <2> QED
    BY <2>1, <2>2
<1>11. SumOf(f, A) \in Nat /\ SumOf(f, V) \in Nat /\ f[x] \in Nat
  BY <1>5, <1>8
<1> HIDE DEF V, Bad
<1> QED
  BY <1>8, <1>9, <1>10, <1>11

LEMMA SumAdded ==
  ASSUME NEW f, NEW g, NEW h, NEW S, IsFiniteSet(S),
         \A x \in S : f[x] \in Nat /\ g[x] \in Nat /\ h[x] = f[x] + g[x]
  PROVE  SumOf(h, S) = SumOf(f, S) + SumOf(g, S)
<1> DEFINE Good(U) == SumOf(h, U) = SumOf(f, U) + SumOf(g, U)
           Bad == {U \in SUBSET S : ~Good(U)}
<1>1. SUFFICES ASSUME Bad # {} PROVE FALSE
  OBVIOUS
<1>2. Bad \in SUBSET SUBSET S
  OBVIOUS
<1> HIDE DEF Bad
<1>3. \E U \in Bad : \A V \in Bad : ~(V \subseteq U /\ V # U)
  BY <1>1, <1>2, Smallest
<1> USE DEF Bad
<1>4. PICK U \in Bad : \A V \in Bad : ~(V \subseteq U /\ V # U)
  BY <1>3
<1>5. U # {}
  <2>1. SUFFICES ASSUME U = {} PROVE FALSE
    OBVIOUS
  <2>2. SumOf(f, U) = 0
    BY <2>1, SumEmpty
  <2>3. SumOf(g, U) = 0
    BY <2>1, SumEmpty
  <2>4. SumOf(h, U) = 0
    BY <2>1, SumEmpty
  <2>5. SumOf(h, U) # SumOf(f, U) + SumOf(g, U)
    BY <1>4
  <2> HIDE DEF Good, Bad
  <2> QED
    BY <2>2, <2>3, <2>4, <2>5
<1>6. PICK x \in U : TRUE
  BY <1>5
<1> DEFINE V == U \ {x}
<1>7. Good(V) /\ ~Good(U) /\ x \in S /\ U \in SUBSET S /\ V \in SUBSET S
  BY <1>4
<1>8. IsFiniteSet(U) /\ IsFiniteSet(V)
  BY <1>7, FS_Subset
<1> HIDE DEF V, Bad
<1>9. /\ \A y \in U : f[y] \in Nat /\ g[y] \in Nat /\ h[y] \in Nat
      /\ \A y \in V : f[y] \in Nat /\ g[y] \in Nat
  BY <1>7
<1>10. SumOf(f, U) = SumOf(f, V) + f[x]
  BY <1>8, <1>9, SumRemove DEF V
<1>11. SumOf(g, U) = SumOf(g, V) + g[x]
  BY <1>8, <1>9, SumRemove DEF V
<1>12. SumOf(h, U) = SumOf(h, V) + h[x]
  BY <1>8, <1>9, SumRemove DEF V
<1>13. SumOf(f, V) \in Nat
  BY <1>8, <1>9, SumType
<1>14. SumOf(g, V) \in Nat
  BY <1>8, <1>9, SumType
<1> QED
  BY <1>7, <1>9, <1>10, <1>11, <1>12, <1>13, <1>14

\* A set may be summed part by part.
LEMMA SumOfParts ==
  ASSUME NEW f, NEW S, IsFiniteSet(S), \A x \in S : f[x] \in Nat,
         NEW J, IsFiniteSet(J), NEW part, \A j \in J : part[j] \in SUBSET S,
         \A j, k \in J : j # k => part[j] \cap part[k] = {},
         NEW h, \A j \in J : h[j] = SumOf(f, part[j])
  PROVE  SumOf(h, J) = SumOf(f, UNION {part[j] : j \in J})
<1> DEFINE All(T) == UNION {part[j] : j \in T}
           Good(T) == SumOf(h, T) = SumOf(f, All(T))
           Bad == {T \in SUBSET J : ~Good(T)}
<1>1. SUFFICES ASSUME Bad # {} PROVE FALSE
  OBVIOUS
<1>2. Bad \in SUBSET SUBSET J
  OBVIOUS
<1> HIDE DEF Bad
<1>3. \E T \in Bad : \A V \in Bad : ~(V \subseteq T /\ V # T)
  BY <1>1, <1>2, Smallest
<1> USE DEF Bad
<1>4. PICK T \in Bad : \A V \in Bad : ~(V \subseteq T /\ V # T)
  BY <1>3
<1>5. T # {}
  <2>1. SumOf(f, {}) = 0 /\ SumOf(h, {}) = 0 /\ All({}) = {}
    BY SumEmpty
  <2> QED
    BY <1>4, <2>1
<1>6. PICK x \in T : TRUE
  BY <1>5
<1> DEFINE V == T \ {x}
<1>7. Good(V) /\ ~Good(T) /\ x \in J /\ T \in SUBSET J /\ V \in SUBSET J
  BY <1>4
<1>8. IsFiniteSet(T)
  BY <1>7, FS_Subset
<1>9. \A j \in J : h[j] \in Nat
  <2> SUFFICES ASSUME NEW j \in J PROVE SumOf(f, part[j]) \in Nat
    OBVIOUS
  <2>1. IsFiniteSet(part[j]) /\ \A y \in part[j] : f[y] \in Nat
    BY FS_Subset
  <2> QED
    BY <2>1, SumType
<1>10. SumOf(h, T) = SumOf(h, V) + h[x]
  <2>1. \A j \in T : h[j] \in Nat
    BY <1>7, <1>9
  <2> QED
    BY <1>8, <2>1, SumRemove
<1>11. /\ All(T) = All(V) \union part[x]
       /\ All(V) \cap part[x] = {}
       /\ All(V) \in SUBSET S /\ part[x] \in SUBSET S
  BY <1>7
<1> HIDE DEF V, All
<1>12. SumOf(f, All(V) \union part[x]) = SumOf(f, All(V)) + SumOf(f, part[x])
  BY <1>11, SumApart
<1> QED
  BY <1>7, <1>10, <1>11, <1>12

\* What closed of TrafficMetering adds up.
SnapshotSum(S) == MapThenSumSet(LAMBDA e : e.snapshot, S)
SnapshotsOf(S) == [e \in S |-> e.snapshot]
SumsSnapshots(g, S) ==
  g = [s \in SUBSET S |-> IF s = {} THEN 0 ELSE Chosen(s).snapshot + g[s \ {Chosen(s)}]]

LEMMA SnapshotSumIsFold ==
  ASSUME NEW S
  PROVE  SnapshotSum(S) = (CHOOSE g : SumsSnapshots(g, S))[S]
BY DEF SnapshotSum, SumsSnapshots, MapThenSumSet, MapThenFoldSet, Chosen

LEMMA SnapshotSumIs ==
  ASSUME NEW S, IsFiniteSet(S)
  PROVE  SnapshotSum(S) = SumOf(SnapshotsOf(S), S)
<1> DEFINE f == SnapshotsOf(S)
<1>1. ASSUME NEW g PROVE SumsSnapshots(g, S) <=> IsSum(f, g, S)
  <2>1. \A s \in SUBSET S : s # {} => f[Chosen(s)] = Chosen(s).snapshot
    <3> SUFFICES ASSUME NEW s \in SUBSET S, s # {} PROVE f[Chosen(s)] = Chosen(s).snapshot
      OBVIOUS
    <3>1. Chosen(s) \in S
      BY ChosenIn
    <3> QED
      BY <3>1 DEF SnapshotsOf
  <2> HIDE DEF f
  <2>2. [s \in SUBSET S |-> IF s = {} THEN 0 ELSE f[Chosen(s)] + g[s \ {Chosen(s)}]]
        = [s \in SUBSET S |-> IF s = {} THEN 0 ELSE Chosen(s).snapshot + g[s \ {Chosen(s)}]]
    BY <2>1
  <2> QED
    BY <2>2 DEF IsSum, SumsSnapshots
<1> HIDE DEF f
<1> DEFINE h == CHOOSE g : SumsSnapshots(g, S)
<1>2. \E g : SumsSnapshots(g, S)
  BY <1>1, SumExists
<1>3. SumsSnapshots(h, S)
  BY <1>2
<1>4. SnapshotSum(S) = h[S]
  BY SnapshotSumIsFold
<1> HIDE DEF h
<1>5. IsSum(f, h, S)
  BY <1>1, <1>3
<1> QED
  BY <1>4, <1>5, SumIs DEF f

LEMMA SnapshotSumEmpty == SnapshotSum({}) = 0
BY SnapshotSumIs, SumEmpty, FS_EmptySet

LEMMA SnapshotSumType ==
  ASSUME NEW S, IsFiniteSet(S), \A e \in S : e.snapshot \in Nat
  PROVE  SnapshotSum(S) \in Nat
<1>1. \A e \in S : SnapshotsOf(S)[e] \in Nat
  BY DEF SnapshotsOf
<1> QED
  BY <1>1, SumType, SnapshotSumIs

LEMMA SnapshotSumRemove ==
  ASSUME NEW S, IsFiniteSet(S), \A e \in S : e.snapshot \in Nat, NEW x \in S
  PROVE  SnapshotSum(S) = SnapshotSum(S \ {x}) + x.snapshot
<1> DEFINE f == SnapshotsOf(S)
           h == SnapshotsOf(S \ {x})
<1>1. /\ \A e \in S : f[e] \in Nat
      /\ f[x] = x.snapshot
      /\ \A e \in S \ {x} : f[e] \in Nat /\ h[e] = f[e]
  BY DEF SnapshotsOf
<1>2. IsFiniteSet(S \ {x})
  BY FS_Subset
<1> HIDE DEF f, h
<1>3. SumOf(f, S) = SumOf(f, S \ {x}) + f[x]
  BY <1>1, SumRemove
<1>4. SumOf(h, S \ {x}) = SumOf(f, S \ {x})
  BY <1>1, <1>2, SumEqual
<1>5. SnapshotSum(S) = SumOf(f, S) /\ SnapshotSum(S \ {x}) = SumOf(h, S \ {x})
  BY <1>2, SnapshotSumIs DEF f, h
<1> QED
  BY <1>1, <1>3, <1>4, <1>5

-----------------------------------------------------------------------------
(* TrafficMetering: the inductive invariant.                                 *)

\* What a report says of a user: nothing is zero bytes.
Counted(r, u) == IF u \in DOMAIN r.samples THEN r.samples[u] ELSE 0

\* The panel has a row of the report, or does not take it any more.
Taken(r) == SameReport(r) # {} \/ r.start < now - Retention

IsReport(r) ==
    /\ r.epoch \in Nat /\ r.seq \in Nat \ {0} /\ r.start \in Int /\ r.end \in Nat
    /\ r.complete \in BOOLEAN
    /\ DOMAIN r.samples \subseteq Users
    /\ \A u \in DOMAIN r.samples : r.samples[u] \in Nat \ {0}
    /\ r.truth \in [Users -> Nat]

Pending == disk.pending # None

Typed ==
    /\ now \in Nat /\ coreStart \in Nat /\ coreStart <= now
    /\ carried \in [Users -> Nat] /\ core \in [Users -> Nat]
    /\ lifetime \in [Users -> Nat] /\ used \in [Users -> Nat] /\ quotaEpoch \in [Users -> Nat]
    /\ pc \in {"idle", "resend", "sample", "send"} /\ (pc = "sample" => ~Pending)
    /\ disk \in [epoch : Nat, seq : Nat, lastAt : Nat, uptime : Nat,
                 counters : [Users -> Nat], pending : sent \union {None}]
    /\ disk.lastAt <= now
    /\ \A r \in sent : IsReport(r)
    /\ node \in [epoch : Nat, seq : Nat, received : Nat,
                 status : {"unsupported", "collecting", "gap", "stale"}]

\* Reports are numbered without gaps; the pending one is the last.
Numbered ==
    /\ \A r \in sent : /\ r.epoch \in 1..disk.epoch
                       /\ r.epoch = disk.epoch => r.seq <= disk.seq
                       /\ r.start < r.end /\ r.end <= disk.lastAt
    /\ \A e \in 1..disk.epoch : \E r \in sent : r.epoch = e
    /\ \A r, s \in sent : r.epoch = s.epoch /\ r.seq = s.seq => r = s
    /\ Pending => /\ disk.pending.epoch = disk.epoch /\ disk.pending.seq = disk.seq
                  /\ \A r \in sent : r # disk.pending => r.end < disk.pending.end

\* Stop and wait: what is not pending is over.
Settled == \A r \in sent : r = disk.pending \/ Taken(r)

\* The panel's rows are reports that were sent, none beyond its position.
Tabled ==
    \A row \in rows : /\ row.report \in sent
                      /\ row.received \in Nat /\ row.received >= row.report.end
                      /\ row.report.epoch <= node.epoch
                      /\ row.report.epoch = node.epoch => row.report.seq <= node.seq

\* A cursor is the sample of a report that is over, and the user's account is not
\* ahead of it; without blur it is that of the last one accepted.
From(c, r) == c.epoch = r.epoch /\ c.user \in DOMAIN r.samples
                 /\ c.bytes = r.samples[c.user] /\ c.at = r.end
Sourced ==
    \A c \in cursors : \E r \in sent :
        /\ From(c, r) /\ Taken(r)
        /\ c.epoch = disk.epoch => lifetime[c.user] <= r.truth[c.user]
        /\ ~blurred /\ c.epoch = node.epoch => r.seq = node.seq

\* Counters never run ahead of what was carried, and accounts not of the next report.
Bounded ==
    /\ \A r \in sent, u \in Users : /\ r.truth[u] <= carried[u]
                                    /\ core[u] - Counted(r, u) <= carried[u] - r.truth[u]
    /\ \A u \in Users : lifetime[u] <= carried[u]
    /\ Pending =>
          /\ \A r \in sent, u \in Users :
                Counted(disk.pending, u) - Counted(r, u) <= disk.pending.truth[u] - r.truth[u]
          /\ ~Taken(disk.pending) => \A u \in Users : lifetime[u] <= disk.pending.truth[u]

\* The panel stands at the last report or at the one before it.
Positioned ==
    /\ disk.epoch = 0 => node.epoch = 0 /\ ~Pending
    /\ disk.epoch # 0 =>
          \/ node.epoch = disk.epoch /\ node.seq = disk.seq /\ (Pending => Taken(disk.pending))
          \/ Pending /\ node.epoch = disk.epoch /\ node.seq + 1 = disk.seq /\ node.seq > 0
          \/ Pending /\ disk.seq = 1 /\ node.epoch + 1 = disk.epoch
    /\ node.epoch # 0 =>
          \E r \in sent : r.epoch = node.epoch /\ r.seq = node.seq /\ metered = r.truth

\* Without blur the agent knows its core: what it counts is what was carried.
SameCore == disk.epoch # 0 /\ coreStart = disk.lastAt - disk.uptime
Exact ==
    ~blurred =>
      /\ disk.epoch # 0 => coreStart >= disk.lastAt - disk.uptime
      /\ SameCore => \A r \in sent : r.epoch = disk.epoch => \A u \in Users :
            /\ core[u] >= Counted(r, u)
            /\ core[u] - Counted(r, u) = carried[u] - r.truth[u]
      /\ Pending => \A r \in sent : r.epoch = disk.epoch => \A u \in Users :
            /\ Counted(disk.pending, u) >= Counted(r, u)
            /\ Counted(disk.pending, u) - Counted(r, u) = disk.pending.truth[u] - r.truth[u]

\* Resets are numbered per user; snapshots and the current period make up the lifetime.
Closed(u) == {e \in events : e.user = u}
Archived ==
    /\ IsFiniteSet(events)
    /\ \A e \in events : /\ e.user \in Users /\ e.snapshot \in Nat
                         /\ e.epoch \in Nat /\ e.epoch < quotaEpoch[e.user]
    /\ \A u \in Users : SnapshotSum(Closed(u)) + used[u] = lifetime[u]

IInv == /\ Typed /\ Numbered /\ Settled /\ Tabled /\ Sourced
        /\ Bounded /\ Positioned /\ Exact /\ Archived

-----------------------------------------------------------------------------
(* What steps have in common.                                              *)

\* No report looks like the absence of one.
LEMMA PendingIsSent == ASSUME Typed, Pending PROVE disk.pending \in sent /\ IsReport(disk.pending)
  BY DEF Typed, Pending

LEMMA RowIsReport ==
  ASSUME Numbered, Tabled, NEW r \in sent, NEW row \in SameReport(r)
  PROVE  row.report = r
  BY DEF Numbered, Tabled, SameReport

\* What is over stays over, whatever Cleanup removes.
LEMMA TakenStays ==
  ASSUME Typed, Numbered, Tabled, NEW r \in sent, Taken(r),
         now' \in Nat, now' >= now, \A row \in rows \ rows' : row.received < now' - Retention
  PROVE  Taken(r)'
<1> USE PeriodsArePositive
<1>1. IsReport(r) /\ now \in Nat
  BY DEF Typed
<1>2. CASE r.start < now - Retention
  BY <1>1, <1>2 DEF Taken, IsReport
<1>3. CASE SameReport(r) # {}
  <2>1. PICK row \in SameReport(r) : TRUE
    BY <1>3
  <2>2. row \in rows /\ row.report = r
    BY RowIsReport DEF SameReport
  <2>3. CASE row \in rows'
    BY <2>1, <2>3 DEF SameReport, Taken
  <2>4. CASE row \notin rows'
    <3>1. row.received < now' - Retention /\ row.received \in Nat /\ row.received >= r.end
      BY <2>2, <2>4 DEF Tabled
    <3>2. r.start < r.end
      BY DEF Numbered
    <3> QED
      BY <3>1, <3>2, <1>1 DEF Taken, IsReport
  <2> QED
    BY <2>3, <2>4
<1> QED
  BY <1>2, <1>3, Zenon DEF Taken

LEMMA Initially == Init => IInv
<1> SUFFICES ASSUME Init PROVE IInv
  OBVIOUS
<1> USE DEF Init, Pending
<1>1. Typed
  <2>1. disk \in [epoch : Nat, seq : Nat, lastAt : Nat, uptime : Nat,
                  counters : [Users -> Nat], pending : sent \union {None}]
    OBVIOUS
  <2>2. node \in [epoch : Nat, seq : Nat, received : Nat,
                  status : {"unsupported", "collecting", "gap", "stale"}]
    OBVIOUS
  <2>3. disk.lastAt = 0 /\ ~Pending
    OBVIOUS
  <2>4. /\ carried \in [Users -> Nat] /\ core \in [Users -> Nat] /\ lifetime \in [Users -> Nat]
        /\ used \in [Users -> Nat] /\ quotaEpoch \in [Users -> Nat]
    OBVIOUS
  <2> QED
    BY <2>1, <2>2, <2>3, <2>4 DEF Typed
<1>2. Numbered /\ Settled /\ Tabled /\ Sourced /\ Positioned /\ Exact
  BY DEF Numbered, Settled, Tabled, Sourced, Positioned, Exact, SameCore
<1>3. Bounded
  BY DEF Bounded
<1>4. Archived
  <2>1. \A u \in Users : Closed(u) = {}
    BY DEF Closed
  <2>2. SnapshotSum({}) = 0
    BY SnapshotSumEmpty
  <2> QED
    BY <2>1, <2>2, FS_EmptySet DEF Archived
<1> QED
  BY <1>1, <1>2, <1>3, <1>4 DEF IInv

LEMMA Unmoved == IInv /\ UNCHANGED vars => IInv'
<1> SUFFICES ASSUME IInv, UNCHANGED vars PROVE IInv'
  OBVIOUS
<1> USE DEF IInv, vars, Pending, SameReport, Taken
<1>1. Typed' /\ Numbered' /\ Settled' /\ Tabled'
  BY DEF Typed, Numbered, Settled, Tabled
<1>2. Sourced' /\ Bounded' /\ Positioned' /\ Exact'
  BY DEF Sourced, Bounded, Positioned, Exact, SameCore
<1>3. Archived'
  BY DEF Archived, Closed
<1> QED
  BY <1>1, <1>2, <1>3

-----------------------------------------------------------------------------
(* The node.                                                               *)

LEMMA CarryStep == ASSUME IInv, NEW v \in Users, Carry(v) PROVE IInv'
<1> USE DEF IInv, Carry, Pending, agentVars, panelVars, SameReport, Taken
<1>1. Typed' /\ carried[v] \in Nat /\ core[v] \in Nat
  BY DEF Typed
<1>2. \A u \in Users : \/ carried'[u] = carried[u] /\ core'[u] = core[u]
                       \/ carried'[u] = carried[u] + 1 /\ core'[u] = core[u] + 1
  BY DEF Typed
<1>3. \A r \in sent, u \in Users : r.truth[u] \in Nat /\ Counted(r, u) \in Nat
  BY DEF Typed, IsReport, Counted
<1>4. \A u \in Users : carried[u] \in Nat /\ core[u] \in Nat /\ lifetime[u] \in Nat
  BY DEF Typed
<1>5. Bounded'
  BY <1>2, <1>3, <1>4 DEF Bounded, Counted
<1>6. Exact'
  BY <1>2, <1>3, <1>4 DEF Exact, SameCore, Counted
<1>7. Numbered' /\ Settled' /\ Tabled' /\ Sourced' /\ Positioned' /\ Archived'
  BY DEF Numbered, Settled, Tabled, Sourced, From, Positioned, Archived, Closed
<1> QED
  BY <1>1, <1>5, <1>6, <1>7

LEMMA TickStep == ASSUME IInv, Tick PROVE IInv'
<1> USE DEF IInv, Tick, Pending, agentVars, panelVars, coreVars
<1>1. Typed' /\ now \in Nat /\ now' = now + 1
  BY DEF Typed
<1>2. \A r \in sent : Taken(r) => Taken(r)'
  BY <1>1, TakenStays
<1>3. Pending /\ Taken(disk.pending) => Taken(disk.pending)'
  BY <1>2, PendingIsSent
<1>4. Settled' /\ Sourced'
  BY <1>2 DEF Settled, Sourced, From
<1>5. Bounded' /\ Positioned'
  BY <1>3 DEF Bounded, Positioned, Counted
<1>6. Numbered' /\ Tabled' /\ Exact' /\ Archived'
  BY DEF Numbered, Tabled, Exact, SameCore, Archived, Closed, Counted
<1> QED
  BY <1>1, <1>4, <1>5, <1>6

\* A core that starts within the interval of its predecessor blurs the picture; any
\* other is told from it by its start.
LEMMA NewCoreStep ==
  ASSUME IInv, NewCore, UNCHANGED <<now, carried, disk, sent, panelVars>>,
         pc' \in {"idle", pc}
  PROVE  IInv'
<1> USE DEF IInv, NewCore, Pending, panelVars, SameReport, Taken
<1>1. Typed'
  BY DEF Typed
<1>2. \A r \in sent, u \in Users : /\ r.truth[u] \in Nat /\ Counted(r, u) \in Nat
                                   /\ carried[u] \in Nat /\ core[u] \in Nat /\ core'[u] = 0
  BY DEF Typed, IsReport, Counted
<1>3. Bounded'
  BY <1>2 DEF Bounded, Counted
<1>4. Sourced'
  BY DEF Sourced, From, Typed
<1>5. Exact'
  <2>1. SUFFICES ASSUME ~blurred' PROVE Exact'
    BY DEF Exact
  <2>2. ~blurred /\ coreStart # now /\ now >= disk.lastAt
    BY <2>1 DEF Typed
  <2>3. disk.epoch # 0 => coreStart' > disk.lastAt - disk.uptime
    BY <2>2 DEF Exact, Typed
  <2> QED
    BY <2>2, <2>3 DEF Exact, SameCore, Typed, Counted
<1>6. Numbered' /\ Settled' /\ Tabled' /\ Positioned' /\ Archived'
  BY DEF Numbered, Settled, Tabled, Positioned, Archived, Closed
<1> QED
  BY <1>1, <1>3, <1>4, <1>5, <1>6

-----------------------------------------------------------------------------
(* The agent.                                                              *)

\* Steps of the agent that change neither its file nor what was sent.
LEMMA WaitStep ==
  ASSUME IInv, Collect \/ NoAnswer \/ SampleFails
  PROVE  IInv'
<1> USE DEF IInv, Collect, NoAnswer, SampleFails, Pending, coreVars, panelVars, SameReport, Taken
<1>1. sent' = sent
  BY PendingIsSent DEF Typed
<1>2. Typed'
  BY <1>1 DEF Typed
<1>3. Numbered' /\ Settled' /\ Tabled' /\ Sourced' /\ Positioned' /\ Archived'
  BY <1>1 DEF Numbered, Settled, Tabled, Sourced, From, Positioned, Archived, Closed
<1>4. Bounded' /\ Exact'
  BY <1>1 DEF Bounded, Exact, SameCore, Counted
<1> QED
  BY <1>2, <1>3, <1>4

\* A fresh epoch is the next number.
LEMMA FreshIsNext == ASSUME Typed, Numbered PROVE FreshEpoch = disk.epoch + 1
<1>1. disk.epoch \in Nat
  BY DEF Typed
<1>2. {r.epoch : r \in sent} = 1..disk.epoch
  BY DEF Numbered
<1>3. Cardinality(1..disk.epoch) = disk.epoch
  BY <1>1, FS_Interval
<1>4. FreshEpoch = 1 + Cardinality(1..disk.epoch)
  BY <1>2, Zenon DEF FreshEpoch
<1> QED
  BY <1>1, <1>3, <1>4

\* What Sample puts into the file and sends.
Sampling(p) ==
    /\ ~Pending /\ disk'.pending = p /\ p # None /\ sent' = sent \union {p}
    /\ p.epoch = disk'.epoch /\ p.seq = disk'.seq /\ p.start \in Int /\ p.start < p.end
    /\ p.end = now /\ p.complete \in BOOLEAN
    /\ p.truth = carried /\ DOMAIN p.samples \subseteq Users
    /\ \A u \in DOMAIN p.samples : p.samples[u] # 0
    /\ \A u \in Users : Counted(p, u) = core[u]
    /\ disk'.lastAt = now /\ disk'.uptime = Uptime
    /\ disk.epoch # 0 => now > disk.lastAt
    /\ \/ p.epoch = disk.epoch + 1 /\ p.seq = 1
       \/ disk.epoch # 0 /\ p.epoch = disk.epoch /\ p.seq = disk.seq + 1 /\ ~CoreChanged

LEMMA SampleIs == ASSUME IInv, Sample PROVE Sampling(disk'.pending)
<1> USE DEF IInv
<1> DEFINE reset == CoreChanged
           start == IF reset THEN now - 1 ELSE disk.lastAt
           p == disk'.pending
<1>1. /\ disk.epoch \in Nat /\ disk.seq \in Nat /\ disk.lastAt \in Nat /\ now \in Nat
      /\ core \in [Users -> Nat] /\ FreshEpoch = disk.epoch + 1
  BY FreshIsNext DEF Typed
<1>2. ~reset => disk.epoch # 0
  BY DEF CoreChanged
<1>3. /\ p.epoch = (IF reset THEN FreshEpoch ELSE disk.epoch) /\ p.epoch = disk'.epoch
      /\ p.seq = (IF reset THEN 1 ELSE disk.seq + 1) /\ p.seq = disk'.seq
      /\ p.start = start /\ p.end = now /\ p.complete = ~reset
      /\ p.samples = [u \in Sampled |-> core[u]] /\ p.truth = carried
      /\ disk'.lastAt = now /\ disk'.uptime = Uptime /\ sent' = sent \union {p}
  BY DEF Sample, Report
<1>4. p.complete \in BOOLEAN
  BY <1>3
<1>5. p.start \in Int /\ p.start < p.end
  BY <1>1, <1>2, <1>3 DEF Sample
<1>6. /\ DOMAIN p.samples \subseteq Users /\ \A u \in Users : Counted(p, u) = core[u]
      /\ \A u \in DOMAIN p.samples : p.samples[u] # 0
  BY <1>3, <1>1 DEF Counted, Sampled
<1>7. p # None
  BY DEF Sample, Report, None
<1>8. ~Pending /\ (disk.epoch # 0 => now > disk.lastAt)
  BY DEF Sample, Typed
<1> HIDE DEF reset, start, p
<1>9. \/ p.epoch = disk.epoch + 1 /\ p.seq = 1
      \/ disk.epoch # 0 /\ p.epoch = disk.epoch /\ p.seq = disk.seq + 1 /\ ~CoreChanged
  BY <1>1, <1>2, <1>3 DEF reset
<1> QED
  BY <1>3, <1>4, <1>5, <1>6, <1>7, <1>8, <1>9 DEF Sampling, p

LEMMA SampleStep == ASSUME IInv, Sample PROVE IInv'
<1> DEFINE p == disk'.pending
<1>1. Sampling(p)
  BY SampleIs
<1>2. UNCHANGED <<now, coreVars, panelVars>> /\ pc' = "send"
  BY DEF Sample
<1>3. /\ disk.epoch \in Nat /\ disk.seq \in Nat /\ disk.lastAt \in Nat /\ now \in Nat
      /\ disk.lastAt <= now /\ coreStart \in Nat /\ coreStart <= now
      /\ carried \in [Users -> Nat] /\ core \in [Users -> Nat] /\ lifetime \in [Users -> Nat]
  BY DEF IInv, Typed
<1>4. IsReport(p)
  <2>1. \A u \in DOMAIN p.samples : p.samples[u] \in Nat \ {0}
    BY <1>1, <1>3 DEF Sampling, Counted
  <2>2. p.epoch \in Nat /\ p.seq \in Nat \ {0}
    BY <1>1, <1>3 DEF Sampling
  <2> QED
    BY <1>1, <1>3, <2>1, <2>2 DEF Sampling, IsReport
<1>5. disk' \in [epoch : Nat, seq : Nat, lastAt : Nat, uptime : Nat,
                 counters : [Users -> Nat], pending : sent' \union {None}]
  <2>1. \E e \in {disk'.epoch}, n \in {disk'.seq} :
           disk' = [epoch |-> e, seq |-> n, lastAt |-> now, uptime |-> Uptime,
                    counters |-> core, pending |-> p]
    BY DEF Sample
  <2>2. disk'.epoch \in Nat /\ disk'.seq \in Nat /\ Uptime \in Nat /\ p \in sent'
    BY <1>1, <1>3, <1>4 DEF Sampling, IsReport, Uptime
  <2> HIDE DEF p
  <2> QED
    BY <2>1, <2>2, <1>3
<1>6. \A r \in sent : /\ IsReport(r) /\ r.epoch \in 1..disk.epoch
                      /\ r.epoch = disk.epoch => r.seq <= disk.seq
                      /\ r.end <= disk.lastAt /\ r.end < now /\ r.start < r.end
                      /\ Taken(r)
  <2>1. \A r \in sent : disk.epoch # 0
    BY <1>3 DEF IInv, Numbered
  <2>2. \A r \in sent : IsReport(r) /\ r.end \in Nat
    BY DEF IInv, Typed, IsReport
  <2>3. \A r \in sent : Taken(r)
    BY <1>1, PendingIsSent DEF IInv, Settled, Sampling, Pending, Typed, IsReport, None
  <2>4. disk.epoch # 0 => now > disk.lastAt
    BY <1>1 DEF Sampling
  <2>5. \A r \in sent : /\ r.epoch \in 1..disk.epoch
                        /\ r.epoch = disk.epoch => r.seq <= disk.seq
                        /\ r.start < r.end /\ r.end <= disk.lastAt
    BY DEF IInv, Numbered
  <2> QED
    BY <1>3, <2>1, <2>2, <2>3, <2>4, <2>5
<1>7. p \notin sent
  BY <1>6, <1>1, <1>3 DEF Sampling, IsReport
<1> USE DEF Pending
<1>8. Typed'
  BY <1>1, <1>2, <1>3, <1>4, <1>5 DEF IInv, Typed, Sampling, coreVars, panelVars
<1>9. Numbered'
  <2>1. \A r \in sent' : /\ r.epoch \in 1..disk'.epoch
                         /\ r.epoch = disk'.epoch => r.seq <= disk'.seq
                         /\ r.start < r.end /\ r.end <= disk'.lastAt
    BY <1>1, <1>3, <1>4, <1>6 DEF Sampling, IsReport
  <2>2. \A e \in 1..disk'.epoch : \E r \in sent' : r.epoch = e
    BY <1>1, <1>3 DEF Sampling, IInv, Numbered
  <2>3. \A r, s \in sent' : r.epoch = s.epoch /\ r.seq = s.seq => r = s
    <3>1. \A r \in sent : ~(r.epoch = p.epoch /\ r.seq = p.seq)
      BY <1>1, <1>3, <1>6 DEF Sampling, IsReport
    <3> QED
      BY <3>1, <1>1 DEF Sampling, IInv, Numbered
  <2>4. \A r \in sent' : r # p => r.end < p.end
    BY <1>1, <1>6 DEF Sampling
  <2> QED
    BY <2>1, <2>2, <2>3, <2>4, <1>1 DEF Numbered, Sampling
<1>10. \A r : Taken(r)' <=> Taken(r)
  BY <1>2 DEF Taken, SameReport, panelVars
<1>11. Settled'
  BY <1>1, <1>6, <1>10 DEF Settled, Sampling
<1>12. Tabled'
  BY <1>1, <1>2 DEF IInv, Tabled, Sampling, panelVars
<1>13. Sourced'
  <2>1. SUFFICES ASSUME NEW c \in cursors
        PROVE  \E r \in sent' : /\ From(c, r) /\ Taken(r)'
                                /\ c.epoch = disk'.epoch => lifetime[c.user] <= r.truth[c.user]
                                /\ ~blurred /\ c.epoch = node.epoch => r.seq = node.seq
    BY <1>2 DEF Sourced, panelVars, coreVars, From
  <2>2. PICK r \in sent : /\ From(c, r) /\ Taken(r)
                          /\ c.epoch = disk.epoch => lifetime[c.user] <= r.truth[c.user]
                          /\ ~blurred /\ c.epoch = node.epoch => r.seq = node.seq
    BY DEF IInv, Sourced
  <2>3. c.epoch = disk'.epoch => c.epoch = disk.epoch
    <3>1. disk'.epoch \in {disk.epoch, disk.epoch + 1}
      BY <1>1 DEF Sampling
    <3>2. c.epoch = r.epoch /\ r.epoch \in 1..disk.epoch
      BY <2>2, <1>6 DEF From
    <3> QED
      BY <3>1, <3>2, <1>3
  <2> QED
    BY <2>2, <2>3, <1>1, <1>10 DEF Sampling
<1>14. Bounded'
  <2>1. \A r \in sent', u \in Users : r.truth[u] <= carried[u]
    BY <1>1, <1>3 DEF Sampling, IInv, Bounded
  <2>2. \A r \in sent', u \in Users : core[u] - Counted(r, u) <= carried[u] - r.truth[u]
    BY <1>1, <1>3 DEF Sampling, IInv, Bounded
  <2>3. \A u \in Users : lifetime[u] <= carried[u] /\ p.truth[u] = carried[u] /\ Counted(p, u) = core[u]
    BY <1>1 DEF Sampling, IInv, Bounded
  <2> HIDE DEF p
  <2>4. \A r \in sent', u \in Users : Counted(p, u) - Counted(r, u) <= p.truth[u] - r.truth[u]
    BY <2>2, <2>3
  <2> QED
    BY <2>1, <2>2, <2>3, <2>4, <1>2 DEF Bounded, panelVars, coreVars, Counted, p
<1>15. Positioned'
  <2>1. node' = node /\ metered' = metered /\ disk'.epoch # 0
    BY <1>1, <1>2, <1>3 DEF panelVars, Sampling
  <2>2. \/ disk.epoch = 0 /\ node.epoch = 0
        \/ node.epoch = disk.epoch /\ node.seq = disk.seq
    BY <1>1 DEF IInv, Positioned, Sampling
  <2>3. node.epoch # 0 => \E r \in sent' : r.epoch = node.epoch /\ r.seq = node.seq /\ metered = r.truth
    BY <1>1 DEF IInv, Positioned, Sampling
  <2>4. disk.epoch # 0 /\ node.epoch = disk.epoch => node.seq > 0
    BY <2>3, <1>6, <1>3, <1>4 DEF IInv, Positioned, IsReport
  <2>5. \/ node.epoch = disk'.epoch /\ node.seq + 1 = disk'.seq /\ node.seq > 0
        \/ disk'.seq = 1 /\ node.epoch + 1 = disk'.epoch
    BY <2>2, <2>4, <1>1, <1>3 DEF Sampling
  <2> QED
    BY <2>1, <2>3, <2>5, <1>1 DEF Positioned, Sampling
<1>16. Exact'
  <2>1. SUFFICES ASSUME ~blurred PROVE Exact'
    BY <1>2 DEF Exact, coreVars
  <2>2. coreStart = disk'.lastAt - disk'.uptime
    BY <1>1, <1>3 DEF Sampling, Uptime
  <2>3. ASSUME NEW r \in sent', r.epoch = disk'.epoch, NEW u \in Users
        PROVE  core[u] >= Counted(r, u) /\ core[u] - Counted(r, u) = carried[u] - r.truth[u]
    <3>1. CASE r = p
      BY <3>1, <1>1, <1>3 DEF Sampling
    <3>2. CASE r # p
      <4>1. r \in sent /\ disk.epoch # 0 /\ r.epoch = disk.epoch /\ ~CoreChanged
        BY <3>2, <2>3, <1>1, <1>3, <1>6 DEF Sampling
      <4>2. SameCore
        <5>1. coreStart >= disk.lastAt - disk.uptime
          BY <4>1, <2>1 DEF IInv, Exact
        <5>2. ~(Uptime - disk.uptime < now - disk.lastAt) /\ disk.uptime \in Nat
          BY <4>1 DEF CoreChanged, IInv, Typed
        <5> QED
          BY <4>1, <5>1, <5>2, <1>3 DEF SameCore, Uptime
      <4> QED
        BY <4>1, <4>2, <2>1 DEF IInv, Exact
    <3> QED
      BY <3>1, <3>2
  <2>4. \A u \in Users : p.truth[u] = carried[u] /\ Counted(p, u) = core[u]
    BY <1>1 DEF Sampling
  <2> HIDE DEF p
  <2>5. \A r \in sent' : r.epoch = disk'.epoch => \A u \in Users :
            Counted(p, u) >= Counted(r, u) /\ Counted(p, u) - Counted(r, u) = p.truth[u] - r.truth[u]
    BY <2>3, <2>4
  <2> QED
    BY <2>2, <2>3, <2>5, <1>2, <1>3 DEF Exact, SameCore, coreVars, Counted, p
<1>17. Archived'
  BY <1>2 DEF IInv, Archived, Closed, panelVars
<1> QED
  BY <1>8, <1>9, <1>11, <1>12, <1>13, <1>14, <1>15, <1>16, <1>17 DEF IInv

-----------------------------------------------------------------------------
(* The panel.                                                              *)

\* The agent hears of the acceptance of r, or it does not.
Heard(r) == (Waiting(r) /\ Answered) \/ UNCHANGED agentVars

LEMMA HeardIs ==
  ASSUME Typed, NEW r \in sent, Heard(r), sent' = sent
  PROVE  /\ disk' \in [epoch : Nat, seq : Nat, lastAt : Nat, uptime : Nat,
                       counters : [Users -> Nat], pending : sent' \union {None}]
         /\ disk'.epoch = disk.epoch /\ disk'.seq = disk.seq
         /\ disk'.lastAt = disk.lastAt /\ disk'.uptime = disk.uptime
         /\ disk'.pending = disk.pending \/ (disk.pending = r /\ ~Pending')
         /\ pc' \in {"idle", "resend", "sample", "send"} /\ (pc' = "sample" => ~Pending')
<1>1. CASE UNCHANGED agentVars
  BY <1>1 DEF agentVars, Typed, Pending
<1>2. CASE Waiting(r) /\ disk' = [disk EXCEPT !.pending = None]
           /\ pc' = IF pc = "resend" THEN "sample" ELSE "idle"
  BY <1>2 DEF Waiting, Typed, Pending
<1>3. CASE pc' = "idle" /\ UNCHANGED disk
  BY <1>3 DEF Typed, Pending
<1> QED
  BY <1>1, <1>2, <1>3 DEF Heard, Answered

LEMMA DuplicateStep == ASSUME IInv, NEW r \in sent, IngestDuplicate(r) PROVE IInv'
<1>1. /\ disk' \in [epoch : Nat, seq : Nat, lastAt : Nat, uptime : Nat,
                    counters : [Users -> Nat], pending : sent' \union {None}]
      /\ disk'.epoch = disk.epoch /\ disk'.seq = disk.seq
      /\ disk'.lastAt = disk.lastAt /\ disk'.uptime = disk.uptime
      /\ disk'.pending = disk.pending \/ (disk.pending = r /\ ~Pending')
      /\ pc' \in {"idle", "resend", "sample", "send"} /\ (pc' = "sample" => ~Pending')
  BY HeardIs DEF IngestDuplicate, Heard, IInv
<1>2. UNCHANGED <<now, coreVars, sent, panelVars>>
  BY DEF IngestDuplicate
<1>3. Taken(r)
  BY DEF IngestDuplicate, Duplicate, Taken
<1>4. \A s : Taken(s)' <=> Taken(s)
  BY <1>2 DEF Taken, SameReport, panelVars
<1>5. Pending' => Pending /\ disk'.pending = disk.pending
  BY <1>1 DEF Pending
<1>6. Typed'
  BY <1>1, <1>2 DEF IInv, Typed, coreVars, panelVars
<1>7. Numbered' /\ Settled' /\ Tabled'
  BY <1>1, <1>2, <1>3, <1>4, <1>5 DEF IInv, Numbered, Settled, Tabled, panelVars
<1>8. Sourced'
  BY <1>1, <1>2, <1>4 DEF IInv, Sourced, From, panelVars, coreVars
<1>9. Bounded'
  BY <1>1, <1>2, <1>4, <1>5 DEF IInv, Bounded, Counted, panelVars, coreVars
<1>10. Positioned'
  <2>1. Pending /\ ~Pending' => node.epoch = disk.epoch /\ node.seq = disk.seq
    <3>1. SUFFICES ASSUME Pending, ~Pending' PROVE node.epoch = disk.epoch /\ node.seq = disk.seq
      OBVIOUS
    <3>2. disk.pending = r /\ r.epoch = disk.epoch /\ r.seq = disk.seq /\ SameReport(r) # {}
      BY <1>1, <3>1 DEF IInv, Numbered, Pending, IngestDuplicate, Duplicate
    <3>3. disk.epoch <= node.epoch /\ (disk.epoch = node.epoch => disk.seq <= node.seq)
      BY <3>2 DEF IInv, Tabled, SameReport
    <3> QED
      BY <3>1, <3>3 DEF IInv, Positioned, Typed
  <2> QED
    BY <2>1, <1>1, <1>2, <1>4, <1>5 DEF IInv, Positioned, panelVars
<1>11. Exact'
  BY <1>1, <1>2, <1>5 DEF IInv, Exact, SameCore, Counted, coreVars
<1>12. Archived'
  BY <1>2 DEF IInv, Archived, Closed, panelVars
<1> QED
  BY <1>6, <1>7, <1>8, <1>9, <1>10, <1>11, <1>12 DEF IInv

\* Only the pending report can be counted, once; no account gets ahead of it.
LEMMA CountIs ==
  ASSUME IInv, NEW r \in sent, Count(r)
  PROVE  /\ r = disk.pending /\ Pending /\ IsReport(r) /\ ~Taken(r)
         /\ r.epoch = disk.epoch /\ r.seq = disk.seq
         /\ \A c \in cursors, s \in sent : From(c, s) /\ Taken(s) => s # r
         /\ \A u \in Users : Delta(r, u) \in Nat /\ lifetime[u] + Delta(r, u) <= r.truth[u]
         /\ \A u \in Users \ DOMAIN r.samples : Delta(r, u) = 0
<1>1. IsReport(r) /\ now \in Nat /\ Retention \in Nat
  BY PeriodsArePositive DEF IInv, Typed
<1>2. ~Taken(r)
  BY <1>1 DEF Count, Valid, InOrder, Taken, IsReport
<1>3. r = disk.pending /\ Pending
  BY <1>1, <1>2 DEF IInv, Settled, Pending, IsReport, None
<1>4. r.epoch = disk.epoch /\ r.seq = disk.seq
  BY <1>3 DEF IInv, Numbered
<1>5. \A u \in Users : lifetime[u] <= r.truth[u] /\ lifetime[u] \in Nat /\ r.truth[u] \in Nat
  BY <1>1, <1>2, <1>3 DEF IInv, Bounded, Typed, IsReport
<1>6. \A u \in Users \ DOMAIN r.samples : Delta(r, u) = 0
  BY DEF Delta
<1>7. ASSUME NEW u \in Users
      PROVE  Delta(r, u) \in Nat /\ lifetime[u] + Delta(r, u) <= r.truth[u]
  <2>1. CASE u \notin DOMAIN r.samples \/ CursorOf(r.epoch, u) = {}
    BY <2>1, <1>5 DEF Delta
  <2>2. CASE u \in DOMAIN r.samples /\ CursorOf(r.epoch, u) # {}
    <3>1. PICK c \in CursorOf(r.epoch, u) : Delta(r, u) = r.samples[u] - c.bytes
      BY <2>2 DEF Delta
    <3>2. c \in cursors /\ c.epoch = r.epoch /\ c.user = u
      BY DEF CursorOf
    <3>3. PICK s \in sent : From(c, s) /\ lifetime[u] <= s.truth[u]
      BY <3>2, <1>4 DEF IInv, Sourced
    <3>4. c.bytes = s.samples[u] /\ u \in DOMAIN s.samples /\ c.bytes \in Nat /\ r.samples[u] \in Nat
      BY <3>2, <3>3, <2>2, <1>1 DEF From, IInv, Typed, IsReport
    <3>5. r.samples[u] >= c.bytes
      BY <2>2, <3>1 DEF Count, SamplesValid
    <3>6. Counted(r, u) - Counted(s, u) <= r.truth[u] - s.truth[u]
      BY <1>3 DEF IInv, Bounded
    <3>7. s.truth[u] \in Nat
      BY DEF IInv, Typed, IsReport
    <3> QED
      BY <3>1, <3>3, <3>4, <3>5, <3>6, <3>7, <2>2, <1>5 DEF Counted
  <2> QED
    BY <2>1, <2>2
<1> QED
  BY <1>1, <1>2, <1>3, <1>4, <1>6, <1>7

LEMMA IngestStep == ASSUME IInv, NEW r \in sent, Ingest(r) PROVE IInv'
<1>1. /\ disk' \in [epoch : Nat, seq : Nat, lastAt : Nat, uptime : Nat,
                    counters : [Users -> Nat], pending : sent' \union {None}]
      /\ disk'.epoch = disk.epoch /\ disk'.seq = disk.seq
      /\ disk'.lastAt = disk.lastAt /\ disk'.uptime = disk.uptime
      /\ disk'.pending = disk.pending \/ (disk.pending = r /\ ~Pending')
      /\ pc' \in {"idle", "resend", "sample", "send"} /\ (pc' = "sample" => ~Pending')
  BY HeardIs DEF Ingest, Heard, IInv
<1>2. UNCHANGED <<now, coreVars, sent>> /\ Count(r)
  BY DEF Ingest
<1>3. /\ r = disk.pending /\ Pending /\ IsReport(r) /\ ~Taken(r)
      /\ r.epoch = disk.epoch /\ r.seq = disk.seq
      /\ \A c \in cursors, s \in sent : From(c, s) /\ Taken(s) => s # r
      /\ \A u \in Users : Delta(r, u) \in Nat /\ lifetime[u] + Delta(r, u) <= r.truth[u]
      /\ \A u \in Users \ DOMAIN r.samples : Delta(r, u) = 0
  BY <1>2, CountIs
<1>4. /\ rows' = rows \union {[report |-> r, received |-> now]}
      /\ lifetime' = [u \in Users |-> lifetime[u] + Delta(r, u)]
      /\ used' = [u \in Users |-> used[u] + Delta(r, u)]
      /\ node'.epoch = r.epoch /\ node'.seq = r.seq /\ metered' = r.truth
      /\ UNCHANGED <<quotaEpoch, events>>
  BY <1>2 DEF Count
<1>5. /\ \A u \in Users : lifetime'[u] = lifetime[u] + Delta(r, u) /\ used'[u] = used[u] + Delta(r, u)
      /\ \A u \in Users : lifetime[u] \in Nat /\ used[u] \in Nat
      /\ lifetime' \in [Users -> Nat] /\ used' \in [Users -> Nat]
  BY <1>3, <1>4 DEF IInv, Typed
<1>6. Taken(r)' /\ \A s \in sent : Taken(s) => Taken(s)'
  <2>1. [report |-> r, received |-> now] \in SameReport(r)'
    BY <1>4 DEF SameReport
  <2>2. \A s \in sent : SameReport(s) \subseteq SameReport(s)'
    BY <1>4 DEF SameReport
  <2> QED
    BY <1>2, <2>1, <2>2 DEF Taken
<1>7. Pending' => disk'.pending = r
  BY <1>1, <1>3
<1>8. Typed'
  <2>1. node' \in [epoch : Nat, seq : Nat, received : Nat,
                   status : {"unsupported", "collecting", "gap", "stale"}]
    BY <1>2, <1>3 DEF Count, IInv, Typed, IsReport
  <2> QED
    BY <2>1, <1>1, <1>2, <1>4, <1>5 DEF IInv, Typed, coreVars
<1>9. Numbered'
  BY <1>1, <1>2, <1>3, <1>7 DEF IInv, Numbered
<1>10. Settled'
  BY <1>2, <1>3, <1>6 DEF IInv, Settled
<1>11. Tabled'
  <2>1. \A row \in rows : /\ row.report \in sent /\ row.received \in Nat
                          /\ row.received >= row.report.end
                          /\ row.report.epoch <= disk.epoch
                          /\ row.report.epoch = disk.epoch => row.report.seq <= disk.seq
    BY DEF IInv, Tabled, Numbered, Typed
  <2>2. r.end <= now /\ now \in Nat
    BY <1>3 DEF IInv, Numbered, Typed, IsReport
  <2>3. ASSUME NEW row \in rows'
        PROVE  /\ row.report \in sent /\ row.received \in Nat /\ row.received >= row.report.end
               /\ row.report.epoch <= disk.epoch
               /\ row.report.epoch = disk.epoch => row.report.seq <= disk.seq
    <3>1. CASE row \in rows
      BY <3>1, <2>1
    <3>2. CASE row = [report |-> r, received |-> now]
      BY <3>2, <2>2, <1>3 DEF IsReport
    <3> QED
      BY <3>1, <3>2, <1>4
  <2> QED
    BY <2>3, <1>2, <1>3, <1>4 DEF Tabled
<1>12. Sourced'
  <2>1. SUFFICES ASSUME NEW c \in cursors'
        PROVE  \E s \in sent : /\ From(c, s) /\ Taken(s)'
                               /\ c.epoch = disk.epoch => lifetime'[c.user] <= s.truth[c.user]
                               /\ ~blurred /\ c.epoch = r.epoch => s.seq = r.seq
    BY <1>1, <1>2, <1>4 DEF Sourced, From, coreVars
  <2>2. \/ c \in cursors /\ (c.epoch # r.epoch \/ c.user \notin DOMAIN r.samples)
        \/ \E u \in DOMAIN r.samples :
              c = [epoch |-> r.epoch, user |-> u, bytes |-> r.samples[u], at |-> r.end]
    BY <1>2 DEF Count
  <2>3. ASSUME NEW u \in DOMAIN r.samples,
               c = [epoch |-> r.epoch, user |-> u, bytes |-> r.samples[u], at |-> r.end]
        PROVE  From(c, r) /\ lifetime'[c.user] <= r.truth[c.user]
    BY <2>3, <1>3, <1>5 DEF From, IsReport
  <2>4. CASE c \in cursors /\ (c.epoch # r.epoch \/ c.user \notin DOMAIN r.samples)
    <3>1. PICK s \in sent : /\ From(c, s) /\ Taken(s)
                            /\ c.epoch = disk.epoch => lifetime[c.user] <= s.truth[c.user]
                            /\ ~blurred /\ c.epoch = node.epoch => s.seq = node.seq
      BY <2>4 DEF IInv, Sourced
    <3>2. c.user \in Users /\ c.epoch = s.epoch /\ s # r /\ IsReport(s)
      BY <3>1, <2>4, <1>3 DEF From, IInv, Typed, IsReport
    <3>3. c.epoch = disk.epoch => lifetime'[c.user] <= s.truth[c.user]
      BY <3>1, <3>2, <2>4, <1>3, <1>5
    <3>4. ASSUME ~blurred, c.epoch = r.epoch PROVE FALSE
      <4>1. c.user \in DOMAIN s.samples /\ c.user \notin DOMAIN r.samples /\ s.epoch = disk.epoch
        BY <3>1, <3>2, <3>4, <2>4, <1>3 DEF From
      <4>2. Counted(r, c.user) >= Counted(s, c.user)
        BY <4>1, <3>2, <3>4, <1>3 DEF IInv, Exact
      <4>3. s.samples[c.user] \in Nat \ {0}
        BY <4>1, <3>2 DEF IsReport
      <4> QED
        BY <4>1, <4>2, <4>3, <3>2 DEF Counted, IsReport
    <3> QED
      BY <3>1, <3>3, <3>4, <1>6
  <2> QED
    BY <2>2, <2>3, <2>4, <1>6, Zenon
<1>13. Bounded'
  <2>1. \A u \in Users : lifetime'[u] <= r.truth[u] /\ r.truth[u] <= carried[u] /\ r.truth[u] \in Nat
    BY <1>3, <1>5 DEF IInv, Bounded, IsReport
  <2>2. \A u \in Users : lifetime'[u] <= carried[u] /\ lifetime'[u] \in Nat /\ carried[u] \in Nat
    BY <2>1, <1>5 DEF IInv, Typed
  <2>3. Pending' => disk'.pending = r /\ Taken(disk.pending)'
    BY <1>6, <1>7
  <2>4. \A s \in sent, u \in Users : Counted(r, u) - Counted(s, u) <= r.truth[u] - s.truth[u]
    BY <1>3 DEF IInv, Bounded
  <2>5. \A s \in sent, u \in Users : /\ s.truth[u] <= carried[u]
                                     /\ core[u] - Counted(s, u) <= carried[u] - s.truth[u]
    BY DEF IInv, Bounded
  <2> QED
    BY <2>2, <2>3, <2>4, <2>5, <1>2 DEF Bounded, Counted, coreVars
<1>14. Positioned'
  <2>1. disk.epoch # 0 /\ node'.epoch # 0
    BY <1>3, <1>4 DEF IInv, Numbered
  <2>2. Pending' => Taken(disk.pending)'
    BY <1>6, <1>7
  <2>3. \E s \in sent' : s.epoch = node'.epoch /\ s.seq = node'.seq /\ metered' = s.truth
    BY <1>2, <1>4
  <2> QED
    BY <2>1, <2>2, <2>3, <1>1, <1>3, <1>4 DEF Positioned
<1>15. Exact'
  <2>1. Pending' => disk'.pending = disk.pending /\ Pending
    BY <1>3, <1>7
  <2> QED
    BY <2>1, <1>1, <1>2 DEF IInv, Exact, SameCore, Counted, coreVars
<1>16. Archived'
  <2>1. \A u \in Users : Closed(u)' = Closed(u)
    BY <1>4 DEF Closed
  <2>2. ASSUME NEW u \in Users PROVE SnapshotSum(Closed(u))' + used'[u] = lifetime'[u]
    <3>1. Closed(u) \subseteq events /\ IsFiniteSet(Closed(u)) /\ \A e \in Closed(u) : e.snapshot \in Nat
      BY FS_Subset DEF Closed, IInv, Archived
    <3>2. SnapshotSum(Closed(u)) \in Nat
      BY <3>1, SnapshotSumType
    <3>3. SnapshotSum(Closed(u)) + used[u] = lifetime[u]
      BY DEF IInv, Archived
    <3>4. SnapshotSum(Closed(u))' = SnapshotSum(Closed(u))
      BY <2>1
    <3> QED
      BY <3>2, <3>3, <3>4, <1>3, <1>5
  <2> QED
    BY <2>2, <1>4 DEF IInv, Archived
<1> QED
  BY <1>8, <1>9, <1>10, <1>11, <1>12, <1>13, <1>14, <1>15, <1>16 DEF IInv


LEMMA CleanupStep == ASSUME IInv, Cleanup PROVE IInv'
<1>1. /\ UNCHANGED <<now, coreVars, agentVars, sent, used, lifetime, quotaEpoch, events, metered>>
      /\ rows' \subseteq rows /\ cursors' \subseteq cursors
      /\ \A row \in rows \ rows' : row.received < now' - Retention
      /\ node' \in {node, [node EXCEPT !.status = "stale"]}
  BY DEF Cleanup
<1>2. /\ disk' = disk /\ node'.epoch = node.epoch /\ node'.seq = node.seq
      /\ now' = now /\ sent' = sent /\ carried' = carried /\ core' = core
      /\ coreStart' = coreStart /\ blurred' = blurred /\ lifetime' = lifetime
      /\ used' = used /\ events' = events /\ quotaEpoch' = quotaEpoch /\ metered' = metered
      /\ pc' = pc
  BY <1>1 DEF IInv, Typed, agentVars, coreVars
<1>3. \A r \in sent : Taken(r) => Taken(r)'
  <2>1. now \in Nat
    BY DEF IInv, Typed
  <2> QED
    BY <1>1, <1>2, <2>1, TakenStays DEF IInv
<1>4. \A r \in sent : ~Taken(r) => ~Taken(r)'
  BY <1>1, <1>2 DEF Taken, SameReport
<1>5. Pending => disk.pending \in sent
  BY PendingIsSent DEF IInv
<1>6. Typed'
  <2>1. node' \in [epoch : Nat, seq : Nat, received : Nat,
                   status : {"unsupported", "collecting", "gap", "stale"}]
    BY <1>1 DEF IInv, Typed
  <2> QED
    BY <2>1, <1>2 DEF IInv, Typed, Pending
<1>7. Numbered' /\ Settled' /\ Tabled'
  BY <1>1, <1>2, <1>3 DEF IInv, Numbered, Settled, Tabled, Pending
<1>8. Sourced'
  BY <1>1, <1>2, <1>3 DEF IInv, Sourced, From
<1>9. Bounded'
  BY <1>2, <1>3, <1>5 DEF IInv, Bounded, Counted, Pending
<1>10. Positioned'
  BY <1>2, <1>3, <1>5 DEF IInv, Positioned, Pending
<1>11. Exact' /\ Archived'
  BY <1>2 DEF IInv, Exact, SameCore, Counted, Pending, Archived, Closed
<1> QED
  BY <1>6, <1>7, <1>8, <1>9, <1>10, <1>11 DEF IInv

\* A new event has a number of its own: it adds its snapshot to the sum.
LEMMA ResetIs ==
  ASSUME IInv, NEW u \in Users, NEW n, Reset(u, n)
  PROVE  /\ IsFiniteSet(events') /\ used' = [used EXCEPT ![u] = 0]
         /\ \A v \in Users : IsFiniteSet(Closed(v)) /\ \A e \in Closed(v) : e.snapshot \in Nat
         /\ SnapshotSum(Closed(u))' = SnapshotSum(Closed(u)) + used[u]
         /\ \A v \in Users \ {u} : SnapshotSum(Closed(v))' = SnapshotSum(Closed(v))
<1> DEFINE x == [user |-> u, epoch |-> n, snapshot |-> used[u]]
<1>1. events' = events \union {x} /\ n = quotaEpoch[u] /\ used' = [used EXCEPT ![u] = 0]
  BY DEF Reset
<1>2. /\ IsFiniteSet(events) /\ x \notin events
      /\ \A e \in events : e.snapshot \in Nat
  <2>1. quotaEpoch[u] \in Nat
    BY DEF IInv, Typed
  <2>2. \A e \in events : e.user = u => e.epoch \in Nat /\ e.epoch < quotaEpoch[u]
    BY DEF IInv, Archived
  <2> QED
    BY <1>1, <2>1, <2>2 DEF IInv, Archived
<1>3. IsFiniteSet(events')
  BY <1>1, <1>2, FS_AddElement
<1>4. ASSUME NEW v \in Users PROVE IsFiniteSet(Closed(v)) /\ \A e \in Closed(v) : e.snapshot \in Nat
  BY <1>2, FS_Subset DEF Closed
<1>5. ASSUME NEW v \in Users \ {u} PROVE SnapshotSum(Closed(v))' = SnapshotSum(Closed(v))
  <2>1. Closed(v)' = Closed(v)
    BY <1>1 DEF Closed
  <2> QED
    BY <2>1
<1>6. SnapshotSum(Closed(u))' = SnapshotSum(Closed(u)) + used[u]
  <2>1. Closed(u)' = Closed(u) \union {x} /\ x \notin Closed(u)
    BY <1>1, <1>2 DEF Closed
  <2>2. used[u] \in Nat /\ x.snapshot = used[u]
    BY DEF IInv, Typed
  <2> DEFINE S == Closed(u) \union {x}
  <2>3. IsFiniteSet(S) /\ \A e \in S : e.snapshot \in Nat
    BY <1>4, <2>2, FS_AddElement
  <2>4. x \in S /\ S \ {x} = Closed(u)
    BY <2>1
  <2> HIDE DEF S, x
  <2>5. SnapshotSum(S) = SnapshotSum(S \ {x}) + x.snapshot
    BY <2>3, <2>4, SnapshotSumRemove
  <2>6. SnapshotSum(Closed(u))' = SnapshotSum(S)
    BY <2>1 DEF S
  <2> QED
    BY <2>2, <2>4, <2>5, <2>6
<1> QED
  BY <1>1, <1>3, <1>4, <1>5, <1>6

LEMMA ResetStep ==
  ASSUME IInv, NEW u \in Users, NEW n, Reset(u, n)
  PROVE  IInv'
<1>1. /\ UNCHANGED <<now, coreVars, agentVars, sent, rows, cursors, node, lifetime, metered>>
      /\ events' = events \union {[user |-> u, epoch |-> n, snapshot |-> used[u]]}
      /\ n = quotaEpoch[u] /\ quotaEpoch' = [quotaEpoch EXCEPT ![u] = n + 1]
      /\ used' = [used EXCEPT ![u] = 0]
  BY DEF Reset
<1>2. /\ used \in [Users -> Nat] /\ quotaEpoch \in [Users -> Nat] /\ lifetime \in [Users -> Nat]
      /\ used' \in [Users -> Nat] /\ quotaEpoch' \in [Users -> Nat]
  BY <1>1 DEF IInv, Typed
<1>3. \A r : Taken(r)' <=> Taken(r)
  BY <1>1 DEF Taken, SameReport
<1>4. Typed'
  BY <1>1, <1>2 DEF IInv, Typed, Pending, agentVars, coreVars
<1>5. Numbered' /\ Settled' /\ Tabled'
  BY <1>1, <1>3 DEF IInv, Numbered, Settled, Tabled, Pending, agentVars
<1>6. Sourced' /\ Bounded' /\ Positioned'
  BY <1>1, <1>3 DEF IInv, Sourced, From, Bounded, Positioned, Pending, Counted, agentVars, coreVars
<1>7. Exact'
  BY <1>1 DEF IInv, Exact, SameCore, Counted, Pending, agentVars, coreVars
<1>8. Archived'
  <2>1. /\ IsFiniteSet(events')
        /\ \A v \in Users : IsFiniteSet(Closed(v)) /\ \A e \in Closed(v) : e.snapshot \in Nat
        /\ SnapshotSum(Closed(u))' = SnapshotSum(Closed(u)) + used[u]
        /\ \A v \in Users \ {u} : SnapshotSum(Closed(v))' = SnapshotSum(Closed(v))
    BY ResetIs
  <2>2. \A e \in events' : /\ e.user \in Users /\ e.snapshot \in Nat
                           /\ e.epoch \in Nat /\ e.epoch < quotaEpoch'[e.user]
    <3>1. \A e \in events : /\ e.user \in Users /\ e.snapshot \in Nat
                            /\ e.epoch \in Nat /\ e.epoch < quotaEpoch[e.user]
      BY DEF IInv, Archived
    <3>2. \A v \in Users : quotaEpoch'[v] = quotaEpoch[v] \/ (v = u /\ quotaEpoch'[v] = quotaEpoch[v] + 1)
      BY <1>1, <1>2
    <3>3. ASSUME NEW e \in events
          PROVE  /\ e.user \in Users /\ e.snapshot \in Nat
                 /\ e.epoch \in Nat /\ e.epoch < quotaEpoch'[e.user]
      BY <3>1, <3>2, <1>2
    <3>4. ASSUME NEW e, e = [user |-> u, epoch |-> n, snapshot |-> used[u]]
          PROVE  /\ e.user \in Users /\ e.snapshot \in Nat
                 /\ e.epoch \in Nat /\ e.epoch < quotaEpoch'[e.user]
      BY <3>4, <1>1, <1>2
    <3> QED
      BY <3>3, <3>4, <1>1
  <2>3. ASSUME NEW v \in Users PROVE SnapshotSum(Closed(v))' + used'[v] = lifetime'[v]
    <3>1. SnapshotSum(Closed(v)) \in Nat /\ SnapshotSum(Closed(v)) + used[v] = lifetime[v]
      BY <2>1, SnapshotSumType DEF IInv, Archived
    <3>2. lifetime'[v] = lifetime[v] /\ used'[v] = IF v = u THEN 0 ELSE used[v]
      BY <1>1, <1>2
    <3> QED
      BY <3>1, <3>2, <2>1, <1>2
  <2> QED
    BY <2>1, <2>2, <2>3 DEF Archived
<1> QED
  BY <1>4, <1>5, <1>6, <1>7, <1>8 DEF IInv

LEMMA RemoveStep == ASSUME IInv, NEW u \in Users, RemoveCredential(u) PROVE IInv'
<1>1. UNCHANGED <<now, coreVars, agentVars, sent, rows, cursors, node, used, lifetime,
                  quotaEpoch, events, metered>>
  BY DEF RemoveCredential
<1>2. Typed' /\ Numbered' /\ Settled' /\ Tabled'
  BY <1>1 DEF IInv, Typed, Numbered, Settled, Tabled, Taken, SameReport, Pending, agentVars, coreVars
<1>3. Sourced' /\ Bounded' /\ Positioned'
  BY <1>1 DEF IInv, Sourced, From, Bounded, Positioned, Taken, SameReport, Pending, Counted,
              agentVars, coreVars
<1>4. Exact' /\ Archived'
  BY <1>1 DEF IInv, Exact, SameCore, Counted, Archived, Closed, Pending, agentVars, coreVars
<1> QED
  BY <1>2, <1>3, <1>4 DEF IInv

LEMMA NextStep == ASSUME IInv, [Next]_vars PROVE IInv'
<1>1. CASE Agent
  BY <1>1, WaitStep, SampleStep DEF Agent
<1>2. CASE Panel
  BY <1>2, IngestStep, DuplicateStep, CleanupStep, ResetStep, RemoveStep DEF Panel
<1>3. CASE World
  <2>1. CASE CoreRestart
    BY <2>1, NewCoreStep DEF CoreRestart, agentVars
  <2>2. CASE AgentRestart
    BY <2>2, NewCoreStep DEF AgentRestart
  <2> QED
    BY <1>3, <2>1, <2>2, CarryStep, TickStep DEF World
<1>4. CASE UNCHANGED vars
  BY <1>4, Unmoved
<1> QED
  BY <1>1, <1>2, <1>3, <1>4 DEF Next

\* What the panel, the agent, the core and the network know of each other stays
\* consistent through every step of collectTraffic, Ingest, Cleanup and Reset, and
\* through every restart.
THEOREM Invariance == Spec => []IInv
<1>1. Init => IInv
  BY Initially
<1>2. IInv /\ [Next]_vars => IInv'
  BY NextStep
<1> QED
  BY <1>1, <1>2, PTL DEF Spec

-----------------------------------------------------------------------------
(* The refinement of ByteMeter.                                            *)

LEMMA ClosedIs == /\ closed = [u \in Users |-> SnapshotSum(Closed(u))]
                  /\ closed' = [u \in Users |-> SnapshotSum(Closed(u))']
  BY DEF closed, SnapshotSum, Closed

LEMMA ClosedStays == ASSUME UNCHANGED events PROVE UNCHANGED closed
<1>1. \A u \in Users : Closed(u)' = Closed(u)
  BY DEF Closed
<1>2. \A u \in Users : SnapshotSum(Closed(u))' = SnapshotSum(Closed(u))
  BY <1>1
<1> QED
  BY <1>2, ClosedIs

LEMMA MeterInitially == Init => Meter!Init
<1> SUFFICES ASSUME Init PROVE Meter!Init
  OBVIOUS
<1>1. ASSUME NEW u \in Users PROVE SnapshotSum(Closed(u)) = 0
  <2>1. Closed(u) = {}
    BY DEF Closed, Init
  <2> QED
    BY <2>1, SnapshotSumEmpty
<1>2. closed = [u \in Users |-> 0]
  BY <1>1, ClosedIs
<1> QED
  BY <1>2 DEF Init, Meter!Init

LEMMA CarryMeters == ASSUME IInv, NEW v \in Users, Carry(v) PROVE Meter!Carry
<1>1. carried \in [Users -> Nat] /\ carried' = [carried EXCEPT ![v] = @ + 1]
      /\ UNCHANGED <<lifetime, used, events>>
  BY DEF IInv, Typed, Carry, panelVars
<1>2. carried'[v] = carried[v] + 1 /\ \A u \in Users : carried'[u] >= carried[u]
  BY <1>1
<1>3. carried' # carried
  BY <1>1, <1>2
<1> QED
  BY <1>1, <1>2, <1>3, ClosedStays DEF Meter!Carry

LEMMA IngestMeters == ASSUME IInv, NEW r \in sent, Ingest(r) PROVE [Meter!Next]_Meter!vars
<1>1. Count(r) /\ UNCHANGED <<carried, events>>
  BY DEF Ingest, Count, coreVars
<1>2. /\ IsReport(r)
      /\ \A u \in Users : Delta(r, u) \in Nat /\ lifetime[u] + Delta(r, u) <= r.truth[u]
  BY <1>1, CountIs
<1>3. /\ lifetime' = [u \in Users |-> lifetime[u] + Delta(r, u)]
      /\ used' = [u \in Users |-> used[u] + Delta(r, u)]
  BY <1>1 DEF Count
<1>4. lifetime \in [Users -> Nat] /\ used \in [Users -> Nat] /\ carried \in [Users -> Nat]
  BY DEF IInv, Typed
<1>5. \A u \in Users : r.truth[u] <= carried[u] /\ r.truth[u] \in Nat
  BY <1>2 DEF IInv, Bounded, IsReport
<1>6. UNCHANGED closed
  BY <1>1, ClosedStays
<1>7. ASSUME NEW u \in Users
      PROVE  /\ lifetime'[u] >= lifetime[u] /\ lifetime'[u] <= carried[u]
             /\ used'[u] - used[u] = lifetime'[u] - lifetime[u]
             /\ lifetime'[u] = lifetime[u] => used'[u] = used[u]
  BY <1>2, <1>3, <1>4, <1>5
<1>8. CASE lifetime' = lifetime
  <2>1. used' = used
    BY <1>3, <1>4, <1>7, <1>8
  <2> QED
    BY <2>1, <1>1, <1>6, <1>8 DEF Meter!vars
<1>9. CASE lifetime' # lifetime
  BY <1>1, <1>6, <1>7, <1>9 DEF Meter!Next, Meter!Count
<1> QED
  BY <1>8, <1>9

LEMMA ResetMeters == ASSUME IInv, NEW u \in Users, NEW n, Reset(u, n) PROVE Meter!Reset(u)
<1>1. /\ used' = [used EXCEPT ![u] = 0]
      /\ SnapshotSum(Closed(u))' = SnapshotSum(Closed(u)) + used[u]
      /\ \A v \in Users \ {u} : SnapshotSum(Closed(v))' = SnapshotSum(Closed(v))
  BY ResetIs
<1>2. UNCHANGED <<carried, lifetime>>
  BY DEF Reset, coreVars
<1>3. closed' = [closed EXCEPT ![u] = @ + used[u]]
  BY <1>1, ClosedIs
<1> QED
  BY <1>1, <1>2, <1>3 DEF Meter!Reset

LEMMA MeterStep == ASSUME IInv, [Next]_vars PROVE [Meter!Next]_Meter!vars
<1>1. ASSUME UNCHANGED <<carried, lifetime, used, events>> PROVE UNCHANGED Meter!vars
  BY <1>1, ClosedStays DEF Meter!vars
<1>2. CASE Agent
  BY <1>1, <1>2 DEF Agent, Collect, NoAnswer, SampleFails, Sample, coreVars, panelVars
<1>3. CASE Panel
  <2>1. ASSUME NEW r \in sent, IngestDuplicate(r) PROVE UNCHANGED Meter!vars
    BY <1>1, <2>1 DEF IngestDuplicate, coreVars, panelVars
  <2>2. ASSUME Cleanup PROVE UNCHANGED Meter!vars
    BY <1>1, <2>2 DEF Cleanup, coreVars
  <2>3. ASSUME NEW u \in Users, RemoveCredential(u) PROVE UNCHANGED Meter!vars
    BY <1>1, <2>3 DEF RemoveCredential, coreVars
  <2> QED
    BY <1>3, <2>1, <2>2, <2>3, IngestMeters, ResetMeters DEF Panel, Meter!Next
<1>4. CASE World
  <2>1. ASSUME Tick \/ CoreRestart \/ AgentRestart PROVE UNCHANGED Meter!vars
    BY <1>1, <2>1 DEF Tick, CoreRestart, AgentRestart, panelVars, coreVars
  <2> QED
    BY <1>4, <2>1, CarryMeters DEF World, Meter!Next
<1>5. CASE UNCHANGED vars
  BY <1>1, <1>5 DEF vars
<1> QED
  BY <1>2, <1>3, <1>4, <1>5 DEF Next

\* Whatever is lost, repeated, delayed or restarted between collectTraffic and
\* Ingest, a byte is counted at most once, and Reset loses none of what was counted.
THEOREM Metering == Spec => MetersBytes
<1>1. Init => Meter!Init
  BY MeterInitially
<1>2. IInv /\ [Next]_vars => [Meter!Next]_Meter!vars
  BY MeterStep
<1> QED
  BY <1>1, <1>2, Invariance, PTL DEF Spec, MetersBytes, Meter!Spec

-----------------------------------------------------------------------------
(* The agent and the panel agree.                                          *)

LEMMA UnderstoodFromInvariant == IInv => PendingIsUnderstood
<1> DEFINE p == disk.pending
<1>1. SUFFICES ASSUME IInv, Pending, ~blurred, Valid(p), ~Duplicate(p)
               PROVE  /\ InOrder(p)
                      /\ \A u \in DOMAIN p.samples : \A c \in CursorOf(p.epoch, u) :
                            p.end > c.at /\ p.samples[u] >= c.bytes
  BY DEF PendingIsUnderstood, Pending
<1>2. p \in sent /\ IsReport(p) /\ p.epoch = disk.epoch /\ p.seq = disk.seq
  BY <1>1, PendingIsSent DEF IInv, Numbered
<1>3. SameReport(p) = {}
  BY <1>1, <1>2, RowIsReport DEF IInv, Duplicate
<1>4. ~Taken(p)
  BY <1>1, <1>2, <1>3, PeriodsArePositive DEF Taken, Valid, IInv, Typed, IsReport
<1>5. /\ disk.epoch \in Nat /\ disk.epoch # 0 /\ node.epoch \in Nat /\ node.seq \in Nat /\ disk.seq \in Nat
  BY <1>1, <1>2 DEF IInv, Typed, Numbered
<1>6. \/ node.epoch = disk.epoch /\ node.seq + 1 = disk.seq
      \/ disk.seq = 1 /\ node.epoch + 1 = disk.epoch
  BY <1>1, <1>4, <1>5 DEF IInv, Positioned
<1>7. InOrder(p)
  <2>1. \A row \in rows : row.report.epoch <= node.epoch /\ row.report.epoch \in Nat
    BY <1>1 DEF IInv, Tabled, Typed, IsReport
  <2> QED
    BY <2>1, <1>2, <1>3, <1>5, <1>6 DEF InOrder
<1>8. ASSUME NEW u \in DOMAIN p.samples, NEW c \in CursorOf(p.epoch, u)
      PROVE  p.end > c.at /\ p.samples[u] >= c.bytes
  <2>1. c \in cursors /\ c.epoch = p.epoch /\ c.user = u
    BY DEF CursorOf
  <2>2. PICK r \in sent : From(c, r) /\ Taken(r)
    BY <1>1, <2>1 DEF IInv, Sourced
  <2>3. r # p /\ r.epoch = disk.epoch /\ u \in DOMAIN r.samples /\ c.bytes = r.samples[u] /\ c.at = r.end
    BY <2>1, <2>2, <1>2, <1>4 DEF From
  <2>4. r.end < p.end
    BY <1>1, <2>3 DEF IInv, Numbered
  <2>5. u \in Users /\ Counted(p, u) >= Counted(r, u)
    BY <1>1, <1>2, <2>3 DEF IInv, Exact, IsReport
  <2>6. r.end \in Nat /\ p.end \in Nat /\ r.samples[u] \in Nat /\ p.samples[u] \in Nat
    BY <1>1, <1>2, <2>3 DEF IInv, Typed, IsReport
  <2> QED
    BY <2>3, <2>4, <2>5, <2>6 DEF Counted
<1> QED
  BY <1>7, <1>8

\* Report rows are cleaned up, crashes repeat reports and sequence numbers restart,
\* and none of them makes the pending report one that Ingest answers with a conflict.
THEOREM Understood == Spec => []PendingIsUnderstood
  BY Invariance, UnderstoodFromInvariant, PTL

\* A report without a gap follows the one whose samples the cursors hold, so the
\* differences to the cursors are what was carried between the two.
LEMMA CountIsExact ==
  ASSUME IInv, NEW r \in sent, Count(r), ~blurred, node'.status = "collecting", NEW u \in Users
  PROVE  lifetime'[u] - lifetime[u] = metered'[u] - metered[u]
<1>1. /\ r = disk.pending /\ Pending /\ IsReport(r) /\ r.epoch = disk.epoch /\ r.seq = disk.seq
      /\ Delta(r, u) \in Nat /\ (u \notin DOMAIN r.samples => Delta(r, u) = 0)
  BY CountIs
<1>2. ~Gap(r)
  BY DEF Count, IInv, Typed
<1>3. /\ r.epoch = node.epoch
      /\ u \in DOMAIN r.samples => CursorOf(r.epoch, u) # {}
  BY <1>2 DEF Gap
<1>4. node.epoch # 0
  BY <1>1, <1>3 DEF IInv, Numbered
<1>5. PICK last \in sent : last.epoch = node.epoch /\ last.seq = node.seq /\ metered = last.truth
  BY <1>4 DEF IInv, Positioned
<1>6. Counted(r, u) >= Counted(last, u) /\ Counted(r, u) - Counted(last, u) = r.truth[u] - last.truth[u]
  BY <1>1, <1>3, <1>5 DEF IInv, Exact
<1>7. IsReport(last) /\ lifetime[u] \in Nat /\ r.truth[u] \in Nat /\ last.truth[u] \in Nat
      /\ Counted(last, u) \in Nat /\ Counted(r, u) \in Nat
  BY <1>1 DEF IInv, Typed, IsReport, Counted
<1>8. lifetime'[u] = lifetime[u] + Delta(r, u) /\ metered' = r.truth
  BY DEF Count
<1>9. Delta(r, u) = Counted(r, u) - Counted(last, u)
  <2>1. CASE u \notin DOMAIN r.samples
    BY <2>1, <1>1, <1>6, <1>7 DEF Counted
  <2>2. CASE u \in DOMAIN r.samples
    <3>1. PICK c \in CursorOf(r.epoch, u) : Delta(r, u) = r.samples[u] - c.bytes
      BY <2>2, <1>3 DEF Delta
    <3>2. c \in cursors /\ c.epoch = node.epoch /\ c.user = u
      BY <1>3 DEF CursorOf
    <3>3. PICK s \in sent : From(c, s) /\ s.seq = node.seq
      BY <3>2 DEF IInv, Sourced
    <3>4. s = last
      BY <3>2, <3>3, <1>5 DEF From, IInv, Numbered
    <3> QED
      BY <3>1, <3>2, <3>3, <3>4, <2>2 DEF From, Counted
  <2> QED
    BY <2>1, <2>2
<1> QED
  BY <1>5, <1>6, <1>7, <1>8, <1>9

CollectingStep ==
    rows \subseteq rows' /\ rows # rows' /\ node'.status = "collecting" /\ ~blurred
        => \A u \in Users : lifetime'[u] - lifetime[u] = metered'[u] - metered[u]

LEMMA CollectingHolds == ASSUME IInv, [Next]_vars PROVE CollectingStep
<1>1. ASSUME rows' = rows \/ rows' \subseteq rows PROVE CollectingStep
  BY <1>1 DEF CollectingStep
<1>2. ASSUME NEW r \in sent, Ingest(r) PROVE CollectingStep
  BY <1>2, CountIsExact DEF CollectingStep, Ingest
<1>3. CASE Agent \/ World
  BY <1>1, <1>3 DEF Agent, Collect, NoAnswer, SampleFails, Sample, World, Carry, Tick, CoreRestart,
                    AgentRestart, panelVars
<1>4. CASE Panel
  BY <1>1, <1>2, <1>4 DEF Panel, IngestDuplicate, Cleanup, RemoveCredential, Reset, panelVars
<1>5. CASE UNCHANGED vars
  BY <1>1, <1>5 DEF vars
<1> QED
  BY <1>3, <1>4, <1>5 DEF Next

\* Quality "collecting" is never shown over bytes that were missed: a report that
\* Ingest takes without a gap counts exactly what was carried since the one before.
THEOREM Exactness == Spec => CollectingIsExact
<1>1. IInv /\ [Next]_vars => [CollectingStep]_vars
  BY CollectingHolds
<1> QED
  BY <1>1, Invariance, PTL DEF Spec, CollectingIsExact, CollectingStep

-----------------------------------------------------------------------------
(* TrafficRollup: buckets and periods.                                       *)

LEMMA Divided ==
  ASSUME NEW a \in Nat, NEW n \in Nat \ {0}
  PROVE  /\ a \div n \in Nat /\ a % n \in Nat /\ a % n < n
         /\ a = n * (a \div n) + (a % n)
OBVIOUS

LEMMA Multiple == \A n \in Nat \ {0}, k \in Nat : (n * k) % n = 0
OBVIOUS

LEMMA Factor ==
  ASSUME NEW n \in Nat \ {0}, NEW a \in Nat, a % n = 0
  PROVE  \E k \in Nat : a = n * k
<1>1. a \div n \in Nat /\ a = n * (a \div n) + (a % n)
  BY Divided
<1>2. a = n * (a \div n)
  BY <1>1
<1> QED
  BY <1>1, <1>2

LEMMA NextMultiple ==
  ASSUME NEW n \in Nat \ {0}, NEW a \in Nat, NEW b \in Nat, a % n = 0, b % n = 0, a < b
  PROVE  a + n <= b
<1> DEFINE k == a \div n
           m == b \div n
<1>1. k \in Nat /\ m \in Nat /\ a = n * k /\ b = n * m
  BY Divided
<1> HIDE DEF k, m
<1>2. k < m
  <2> SUFFICES ASSUME m <= k PROVE FALSE
    BY <1>1
  <2>1. n * m <= n * k
    BY <1>1
  <2> QED
    BY <2>1, <1>1
<1>3. n * (k + 1) <= n * m /\ n * (k + 1) = n * k + n
  BY <1>1, <1>2
<1> QED
  BY <1>1, <1>3

LEMMA MultipleOf ==
  ASSUME NEW n \in Nat \ {0}, NEW a \in Nat, NEW b \in Nat \ {0}, a % b = 0, b % n = 0
  PROVE  a % n = 0
<1> DEFINE k == b \div n
           m == a \div b
<1>1. k \in Nat /\ m \in Nat /\ b = n * k /\ a = b * m
  BY Divided
<1> HIDE DEF k, m
<1>2. a = n * (k * m) /\ k * m \in Nat
  BY <1>1
<1> QED
  BY <1>2, Multiple

LEMMA Starts ==
  ASSUME NEW t \in Nat, NEW n \in Nat \ {0}
  PROVE  /\ Start(t, n) \in Nat /\ Start(t, n) % n = 0
         /\ Start(t, n) <= t /\ t < Start(t, n) + n
<1>1. Start(t, n) = n * (t \div n)
  BY Divided DEF Start
<1>2. (n * (t \div n)) % n = 0
  BY Divided, Multiple
<1> QED
  BY <1>1, <1>2, Divided DEF Start

LEMMA Lengths ==
  ASSUME NEW g \in Grains
  PROVE  Length[g] \in Nat \ {0} /\ Length[g] % Width = 0 /\ Length[g] <= Day
<1>1. Width \in Nat \ {0} /\ Hour \in Nat \ {0} /\ Day \in Nat \ {0}
      /\ Hour % Width = 0 /\ Day % Hour = 0
  BY RetentionsFit
<1>2. Day % Width = 0
  BY <1>1, MultipleOf
<1>3. Hour <= Day
  <2>1. 0 % Hour = 0 /\ 0 < Day
    BY <1>1
  <2> QED
    BY <1>1, <2>1, NextMultiple
<1>4. Length[g] = Hour \/ Length[g] = Day
  BY DEF Length
<1> QED
  BY <1>1, <1>2, <1>3, <1>4

LEMMA BucketsAreFinite ==
  /\ IsFiniteSet(Buckets) /\ Buckets \subseteq Nat
         /\ \A S \in SUBSET Buckets : IsFiniteSet(S)
<1>1. IsFiniteSet(0..MaxClock) /\ Buckets \subseteq 0..MaxClock
  BY FS_Interval, RetentionsFit DEF Buckets
<1>2. ASSUME NEW S \in SUBSET Buckets PROVE IsFiniteSet(S)
  <2>1. S \in SUBSET (0..MaxClock)
    BY <1>1
  <2> QED
    BY <2>1, <1>1, FS_Subset
<1>3. Buckets \subseteq Nat
  BY DEF Buckets
<1> QED
  BY <1>2, <1>3

LEMMA JobsAreFinite ==
  IsFiniteSet(Jobs)
<1> DEFINE P == Grains \X (0..MaxClock)
           f == [p \in P |-> [grain |-> p[1], start |-> p[2]]]
<1>1. IsFiniteSet(Grains)
  <2>1. Grains = {"1h"} \union {"1d"}
    BY DEF Grains
  <2> QED
    BY <2>1, FS_Singleton, FS_Union
<1>2. IsFiniteSet(0..MaxClock)
  BY FS_Interval, RetentionsFit
<1>3. IsFiniteSet(P)
  BY <1>1, <1>2, FS_Product
<1>4. f \in [P -> Periods]
  BY DEF Periods
<1>5. \A j \in Periods : \E p \in P : f[p] = j
  <2> SUFFICES ASSUME NEW j \in Periods PROVE \E p \in P : f[p] = j
    OBVIOUS
  <2>1. PICK g \in Grains, s \in 0..MaxClock : j = [grain |-> g, start |-> s]
    BY DEF Periods
  <2>2. <<g, s>> \in P /\ f[<<g, s>>] = j
    BY <2>1
  <2> QED
    BY <2>2
<1> HIDE DEF P, f
<1>6. f \in Surjection(P, Periods)
  BY <1>4, <1>5 DEF Surjection
<1>7. IsFiniteSet(Periods)
  BY <1>3, <1>6, FS_Surjection
<1> QED
  BY <1>7, FS_Subset DEF Jobs

LEMMA JobIs ==
  ASSUME NEW j \in Jobs
  PROVE  /\ j.grain \in Grains /\ j.start \in 0..MaxClock
         /\ j = [grain |-> j.grain, start |-> j.start]
BY DEF Jobs, Periods

\* The periods a bucket touches are those it is inside of.
LEMMA TouchedIsAround ==
  ASSUME NEW b \in Buckets
  PROVE  /\ Touched(b) \subseteq Jobs
         /\ \A j \in Jobs : j \in Touched(b) <=> b \in Inside(j)
<1>1. b \in 0..MaxClock /\ MaxClock \in Nat
  BY RetentionsFit DEF Buckets
<1>2. ASSUME NEW g \in Grains
      PROVE  [grain |-> g, start |-> Start(b, Length[g])] \in Jobs
  <2> DEFINE s == Start(b, Length[g])
  <2>1. s \in Nat /\ s <= b /\ s % Length[g] = 0
    BY <1>1, Lengths, Starts
  <2>2. s \in 0..MaxClock
    BY <1>1, <2>1
  <2> HIDE DEF s
  <2>3. [grain |-> g, start |-> s] \in Periods
    BY <2>2 DEF Periods
  <2> QED
    BY <2>1, <2>3 DEF Jobs, s
<1>3. Touched(b) \subseteq Jobs
  BY <1>2 DEF Touched
<1>4. ASSUME NEW j \in Jobs PROVE j \in Touched(b) <=> b \in Inside(j)
  BY JobIs DEF Touched, Inside
<1> QED
  BY <1>3, <1>4

\* What a late report can still write lies in no period with a record that is old
\* enough to be deleted.
LEMMA LateIsNotOld ==
  ASSUME NEW j \in Jobs,
         NEW b \in Inside(j), NEW c \in Inside(j),
         NEW t \in Nat, c + Width > t - Late
  PROVE  ~(b < t - Keep["5m"])
<1> DEFINE g == j.grain
           s == Start(b, Length[g])
<1>1. /\ g \in Grains /\ b \in Nat /\ c \in Nat /\ b % Width = 0 /\ c % Width = 0
      /\ Start(c, Length[g]) = s
  BY JobIs DEF Inside, Buckets
<1>2. Width \in Nat \ {0} /\ Day \in Nat /\ Late \in Nat /\ Keep["5m"] \in Nat
      /\ Keep["5m"] >= Late + Day
  BY RetentionsFit
<1>3. Length[g] \in Nat \ {0} /\ Length[g] % Width = 0 /\ Length[g] <= Day
  BY <1>1, Lengths
<1>4. s \in Nat /\ s <= b /\ c < s + Length[g] /\ s % Length[g] = 0
  BY <1>1, <1>3, Starts
<1> HIDE DEF g, s
<1>5. s % Width = 0 /\ (s + Length[g]) % Width = 0
  <2>1. s % Width = 0
    BY <1>2, <1>3, <1>4, MultipleOf
  <2>2. PICK k \in Nat : s = Width * k
    BY <2>1, <1>2, <1>4, Factor
  <2>3. PICK m \in Nat : Length[g] = Width * m
    BY <1>2, <1>3, Factor
  <2>5. s + Length[g] = Width * (k + m) /\ k + m \in Nat
    BY <2>2, <2>3, <1>2
  <2> QED
    BY <2>1, <2>5, <1>2, Multiple
<1>6. c + Width <= s + Length[g]
  BY <1>1, <1>2, <1>3, <1>4, <1>5, NextMultiple
<1> QED
  BY <1>1, <1>2, <1>3, <1>4, <1>6

LEMMA SumIsSum == ASSUME NEW f, NEW S PROVE Sum(f, S) = SumOf(f, S)
BY DEF Sum, SumOf, MapThenSumSet, MapThenFoldSet, IsSum, Chosen
-----------------------------------------------------------------------------
(* Split: no share is negative, and together they are the bytes.             *)

SplitOver(from, to) == {b \in Buckets : b + Width > from /\ b < to}
PartOf(from, to, b) == (IF b + Width < to THEN b + Width ELSE to)
                         - (IF b > from THEN b ELSE from)
PortionOf(from, to, bytes, b) == (bytes * PartOf(from, to, b)) \div (to - from)
Portions(from, to, bytes, S) == [b \in S |-> PortionOf(from, to, bytes, b)]
SumsPortions(from, to, bytes, g, S) ==
  g = [s \in SUBSET S |-> IF s = {} THEN 0
                          ELSE PortionOf(from, to, bytes, Chosen(s)) + g[s \ {Chosen(s)}]]

LEMMA SplitIs ==
  ASSUME NEW from, NEW to, NEW bytes
  PROVE  Split(from, to, bytes) =
           LET last == Start(to - 1, Width)
               before == SplitOver(from, to) \ {last}
           IN [b \in SplitOver(from, to) |->
                 IF b # last THEN PortionOf(from, to, bytes, b)
                 ELSE bytes - (CHOOSE g : SumsPortions(from, to, bytes, g, before))[before]]
BY DEF Split, SplitOver, PartOf, PortionOf, SumsPortions, Chosen,
       MapThenSumSet, MapThenFoldSet

LEMMA PortionsAdd ==
  ASSUME NEW from, NEW to, NEW bytes, NEW S, IsFiniteSet(S)
  PROVE  (CHOOSE g : SumsPortions(from, to, bytes, g, S))[S]
           = SumOf(Portions(from, to, bytes, S), S)
<1> DEFINE f == Portions(from, to, bytes, S)
<1>1. ASSUME NEW g PROVE SumsPortions(from, to, bytes, g, S) <=> IsSum(f, g, S)
  <2>1. \A s \in SUBSET S : s # {} => f[Chosen(s)] = PortionOf(from, to, bytes, Chosen(s))
    <3> SUFFICES ASSUME NEW s \in SUBSET S, s # {}
                 PROVE  f[Chosen(s)] = PortionOf(from, to, bytes, Chosen(s))
      OBVIOUS
    <3>1. Chosen(s) \in S
      BY ChosenIn
    <3> QED
      BY <3>1 DEF Portions
  <2> HIDE DEF f
  <2>2. [s \in SUBSET S |-> IF s = {} THEN 0 ELSE f[Chosen(s)] + g[s \ {Chosen(s)}]]
        = [s \in SUBSET S |-> IF s = {} THEN 0
              ELSE PortionOf(from, to, bytes, Chosen(s)) + g[s \ {Chosen(s)}]]
    BY <2>1
  <2> QED
    BY <2>2 DEF IsSum, SumsPortions
<1> HIDE DEF f
<1> DEFINE h == CHOOSE g : SumsPortions(from, to, bytes, g, S)
<1>2. \E g : SumsPortions(from, to, bytes, g, S)
  BY <1>1, SumExists
<1>3. SumsPortions(from, to, bytes, h, S)
  BY <1>2
<1> HIDE DEF h
<1>4. IsSum(f, h, S)
  BY <1>1, <1>3
<1>5. SumOf(f, S) = h[S]
  BY <1>4, SumIs
<1> QED
  BY <1>5 DEF f, h

\* A bound of what has been handed out before a bucket: no more than the part of the
\* time that lies before it.
Clip(from, to, x) == IF x < from THEN from ELSE IF x < to THEN x ELSE to

LEMMA PortionBound ==
  ASSUME NEW from \in Nat, NEW to \in Nat, from < to, NEW bytes \in Nat,
         NEW b \in SplitOver(from, to)
  PROVE  /\ PortionOf(from, to, bytes, b) \in Nat
         /\ PortionOf(from, to, bytes, b) * (to - from)
              <= bytes * (Clip(from, to, b + Width) - Clip(from, to, b))
<1> DEFINE p == PartOf(from, to, b)
           n == to - from
<1>1. b \in Nat /\ Width \in Nat /\ b + Width > from /\ b < to
  BY BucketsAreFinite, RetentionsFit DEF SplitOver
<1>2. p \in Nat /\ p = Clip(from, to, b + Width) - Clip(from, to, b)
  BY <1>1 DEF PartOf, Clip
<1>3. n \in Nat \ {0}
  OBVIOUS
<1> HIDE DEF p, n
<1>4. bytes * p \in Nat
  BY <1>2
<1>5. /\ (bytes * p) \div n \in Nat
      /\ bytes * p = n * ((bytes * p) \div n) + ((bytes * p) % n)
      /\ (bytes * p) % n \in Nat
  BY <1>3, <1>4, Divided
<1> DEFINE q == (bytes * p) \div n
           r == (bytes * p) % n
<1>6. q \in Nat /\ r \in Nat /\ bytes * p = n * q + r
  BY <1>5
<1>7. PortionOf(from, to, bytes, b) = q
  BY DEF PortionOf, p, n
<1> HIDE DEF q, r
<1>8. q * n <= bytes * p
  BY <1>3, <1>4, <1>6
<1> QED
  BY <1>2, <1>6, <1>7, <1>8 DEF n

LEMMA HandedOut ==
  ASSUME NEW from \in Nat, NEW to \in Nat, from < to, NEW bytes \in Nat
  PROVE  LET f == Portions(from, to, bytes, SplitOver(from, to))
         IN \A k \in Nat :
              SumOf(f, {b \in SplitOver(from, to) : b < Width * k}) * (to - from)
                <= bytes * (Clip(from, to, Width * k) - from)
<1> DEFINE over == SplitOver(from, to)
           f == Portions(from, to, bytes, over)
           U(k) == {b \in over : b < Width * k}
           C(k) == Clip(from, to, Width * k)
           Good(k) == SumOf(f, U(k)) * (to - from) <= bytes * (C(k) - from)
           Bad == {k \in Nat : ~Good(k)}
<1>1. SUFFICES ASSUME Bad # {} PROVE FALSE
  BY DEF Portions
<1>2. PICK k \in Bad : \A m \in Bad : k <= m
  BY <1>1, LeastNumber
<1>3. Width \in Nat \ {0}
  BY RetentionsFit
<1>4. over \in SUBSET Buckets /\ over \subseteq Nat /\ \A S \in SUBSET over : IsFiniteSet(S)
  BY BucketsAreFinite DEF SplitOver
<1>5. \A b \in over : f[b] \in Nat /\ f[b] = PortionOf(from, to, bytes, b)
  BY PortionBound DEF Portions
<1>6. k # 0
  <2> SUFFICES ASSUME k = 0 PROVE FALSE
    OBVIOUS
  <2>1. U(0) = {}
    BY <1>3, <1>4
  <2>2. SumOf(f, U(0)) = 0
    BY <2>1, SumEmpty
  <2>3. C(0) = from
    BY <1>3 DEF Clip
  <2> HIDE DEF U, C, f
  <2>4. Good(0)
    BY <2>2, <2>3
  <2> QED
    BY <2>4, <1>2
<1> DEFINE i == k - 1
           c == Width * i
<1>7. i \in Nat /\ Good(i)
  <2>1. i \in Nat /\ i < k
    BY <1>2, <1>6
  <2> HIDE DEF Good, i
  <2> QED
    BY <2>1, <1>2
<1>8. c \in Nat /\ Width * k = c + Width /\ c % Width = 0
  <2>1. k = i + 1 /\ i \in Nat
    BY <1>2, <1>7
  <2> HIDE DEF i
  <2>2. Width * i \in Nat /\ Width * (i + 1) = Width * i + Width
    BY <1>3, <2>1
  <2>3. (Width * i) % Width = 0
    BY <1>3, <2>1, Multiple
  <2> QED
    BY <2>1, <2>2, <2>3
<1> HIDE DEF i
<1> DEFINE s == SumOf(f, U(i))
           x == Clip(from, to, c)
           y == Clip(from, to, c + Width)
           n == to - from
<1>9. s \in Nat /\ IsFiniteSet(U(i)) /\ IsFiniteSet(U(k))
  BY <1>4, <1>5, SumType
<1>10. x \in Nat /\ y \in Nat /\ from <= x /\ x <= y /\ y <= to /\ n \in Nat
  BY <1>3, <1>8 DEF Clip
<1>11. s * n <= bytes * (x - from)
  BY <1>7
<1>12. \A b \in U(k) : b \in U(i) \/ b = c
  <2> SUFFICES ASSUME NEW b \in over, b < c + Width, c < b PROVE FALSE
    BY <1>4, <1>8
  <2>1. b % Width = 0 /\ b \in Nat
    BY <1>4 DEF Buckets
  <2> QED
    BY <2>1, <1>3, <1>8, NextMultiple
<1>13. U(i) = U(k) \ {c}
  BY <1>3, <1>4, <1>8, <1>12
<1>14. C(k) = y
  BY <1>8
<1>15. CASE c \in over
  <2> DEFINE p == f[c]
  <2>1. c \in U(k)
    BY <1>3, <1>8, <1>15
  <2>2. SumOf(f, U(k)) = s + p
    <3> HIDE DEF f, U
    <3>0. \A b \in U(k) : f[b] \in Nat
      BY <1>5 DEF U
    <3>1. SumOf(f, U(k)) = SumOf(f, U(k) \ {c}) + f[c]
      BY <1>9, <2>1, <3>0, SumRemove
    <3> QED
      BY <3>1, <1>13
  <2>3. p \in Nat /\ p * n <= bytes * (y - x)
    BY <1>5, <1>15, PortionBound
  <2> HIDE DEF s, p, x, y, n
  <2>4. (s + p) * n = s * n + p * n
    BY <1>9, <1>10, <2>3
  <2>5. bytes * (x - from) + bytes * (y - x) = bytes * (y - from)
    BY <1>10
  <2>6. s * n \in Nat /\ p * n \in Nat /\ bytes * (x - from) \in Nat /\ bytes * (y - x) \in Nat
    BY <1>9, <1>10, <2>3
  <2>7. (s + p) * n <= bytes * (y - from)
    BY <1>11, <2>3, <2>4, <2>5, <2>6
  <2> HIDE DEF U, f, C
  <2>8. Good(k)
    BY <1>14, <2>2, <2>7 DEF n
  <2> QED
    BY <1>2, <2>8
<1>16. CASE c \notin over
  <2>1. U(k) = U(i)
    BY <1>13, <1>16
  <2> HIDE DEF s, x, y, n
  <2>2. bytes * (x - from) <= bytes * (y - from)
    BY <1>10
  <2>3. s * n \in Nat /\ bytes * (x - from) \in Nat /\ bytes * (y - from) \in Nat
    BY <1>9, <1>10
  <2>4. s * n <= bytes * (y - from)
    BY <1>11, <2>2, <2>3
  <2> HIDE DEF U, f, C
  <2>5. Good(k)
    BY <1>14, <2>1, <2>4 DEF n, s
  <2> QED
    BY <1>2, <2>5
<1> QED
  BY <1>15, <1>16

\* What Split makes of the bytes of a series: shares of the buckets it touches, none of
\* them negative although the last takes what rounding left, and no byte more or less.
THEOREM SplitKeepsBytes ==
  ASSUME NEW from \in Nat, NEW to \in 0..MaxClock, from < to, NEW bytes \in Nat
  PROVE  LET w == Split(from, to, bytes)
         IN /\ DOMAIN w \subseteq {b \in Buckets : b + Width > from /\ b < to}
            /\ \A b \in DOMAIN w : w[b] \in Nat
            /\ SumOf(w, DOMAIN w) = bytes
<1> DEFINE over == SplitOver(from, to)
           last == Start(to - 1, Width)
           before == over \ {last}
           f == Portions(from, to, bytes, over)
           w == Split(from, to, bytes)
           s == SumOf(f, before)
<1>1. Width \in Nat \ {0} /\ MaxClock \in Nat /\ to \in Nat /\ to - 1 \in Nat
  BY RetentionsFit
<1>2. last \in Nat /\ last <= to - 1 /\ to - 1 < last + Width /\ last % Width = 0
  BY <1>1, Starts
<1>3. last \in over
  <2> HIDE DEF last
  <2> QED
    BY <1>1, <1>2 DEF SplitOver, Buckets
<1>4. over \in SUBSET Buckets /\ over \subseteq Nat /\ IsFiniteSet(over) /\ IsFiniteSet(before)
  BY BucketsAreFinite DEF SplitOver
<1>5. \A b \in over : f[b] \in Nat /\ f[b] = PortionOf(from, to, bytes, b)
  BY <1>1, PortionBound DEF Portions
<1>6. w = [b \in over |-> IF b # last THEN f[b] ELSE bytes - s]
  <2>1. (CHOOSE g : SumsPortions(from, to, bytes, g, before))[before]
          = SumOf(Portions(from, to, bytes, before), before)
    BY <1>4, PortionsAdd
  <2>2. SumOf(Portions(from, to, bytes, before), before) = s
    <3>1. \A b \in before : Portions(from, to, bytes, before)[b] = f[b] /\ f[b] \in Nat
      BY <1>5 DEF Portions
    <3> HIDE DEF f, before
    <3> QED
      BY <1>4, <3>1, SumEqual
  <2> DEFINE sum == (CHOOSE g : SumsPortions(from, to, bytes, g, before))[before]
  <2>3. w = [b \in over |-> IF b # last THEN PortionOf(from, to, bytes, b) ELSE bytes - sum]
    BY SplitIs
  <2>4. sum = s
    BY <2>1, <2>2
  <2> HIDE DEF sum
  <2> HIDE DEF w, over, last, s, f
  <2> QED
    BY <2>3, <2>4, <1>5
<1>7. s \in Nat /\ s <= bytes
  <2>1. s \in Nat
    BY <1>4, <1>5, SumType
  <2>2. PICK k \in Nat : last = Width * k
    BY <1>1, <1>2, Factor
  <2>3. before = {b \in over : b < Width * k}
    <3> SUFFICES ASSUME NEW b \in over PROVE b # last <=> b < last
      BY <2>2
    <3>1. b \in Nat /\ b % Width = 0 /\ b < to
      BY <1>4 DEF Buckets, SplitOver
    <3>2. ~(last < b)
      <4> HIDE DEF last
      <4> SUFFICES ASSUME last < b PROVE FALSE
        OBVIOUS
      <4>1. last + Width <= b
        BY <3>1, <1>1, <1>2, NextMultiple
      <4> QED
        BY <4>1, <3>1, <1>1, <1>2
    <3> QED
      BY <3>1, <3>2, <1>2
  <2>4. s * (to - from) <= bytes * (Clip(from, to, last) - from)
    BY <1>1, <2>2, <2>3, HandedOut
  <2> DEFINE n == to - from
             x == Clip(from, to, last) - from
  <2>5. n \in Nat \ {0} /\ x \in Nat /\ x <= n
    BY <1>1, <1>2 DEF Clip
  <2>6. s * n <= bytes * x
    BY <2>4
  <2> HIDE DEF n, x, s
  <2>7. bytes * x <= bytes * n
    BY <2>5
  <2>8. s * n <= bytes * n
    <3>1. s * n \in Nat /\ bytes * x \in Nat /\ bytes * n \in Nat
      BY <2>1, <2>5
    <3> QED
      BY <2>6, <2>7, <3>1
  <2>9. s <= bytes
    <3> SUFFICES ASSUME bytes + 1 <= s PROVE FALSE
      BY <2>1
    <3>1. (bytes + 1) * n <= s * n /\ (bytes + 1) * n = bytes * n + n
      BY <2>1, <2>5
    <3>2. bytes * n \in Nat /\ s * n \in Nat
      BY <2>1, <2>5
    <3> QED
      BY <2>5, <2>8, <3>1, <3>2
  <2> QED
    BY <2>1, <2>9
<1> HIDE DEF w, s, f, over, last
<1>8. DOMAIN w = over /\ \A b \in over : w[b] \in Nat
  BY <1>5, <1>6, <1>7
<1>9. SumOf(w, over) = bytes
  <2>1. SumOf(w, over) = SumOf(w, before) + w[last]
    BY <1>3, <1>4, <1>8, SumRemove
  <2>2. SumOf(w, before) = SumOf(f, before)
    <3>1. \A b \in before : w[b] = f[b] /\ f[b] \in Nat
      BY <1>5, <1>6
    <3> HIDE DEF before
    <3> QED
      BY <1>4, <3>1, SumEqual
  <2>3. w[last] = bytes - s
    BY <1>3, <1>6
  <2> QED
    BY <2>1, <2>2, <2>3, <1>7 DEF s
<1> QED
  BY <1>8, <1>9 DEF w, over, SplitOver
-----------------------------------------------------------------------------
(* TrafficRollup: the inductive invariant.                                   *)

\* What the tables and the transactions keep.
Formed ==
    /\ clock \in 0..MaxClock
    /\ records \in [Buckets -> Nat \union {Absent}] /\ total \in [Buckets -> Nat]
    /\ jobs \in [Jobs -> Nat] /\ agg \in [Jobs -> Nat \union {Absent}]
    /\ tx = [n \in Nodes |-> tx[n]]
    /\ \A n \in Nodes :
          tx[n] \in
            [open : BOOLEAN, bytes : Nat, writes : {tx[n].writes}, marked : SUBSET ToMark(n)]
    /\ roll = [w \in Workers |-> roll[w]]
    /\ \A w \in Workers :
          /\ roll[w] \in [job : SUBSET Jobs, revision : Nat, sum : Nat \union {Absent},
                          step : {"idle", "picked", "summed"}]
          /\ roll[w].step # "idle" => \E j \in Jobs : roll[w].job = {j}
          /\ roll[w].step = "idle" => roll[w].job = {}

\* An open transaction writes buckets that are not older than a late report.
Recent(b) == b + Width > clock - Late
Written ==
    \A n \in Nodes :
       /\ \A b \in DOMAIN tx[n].writes :
             b \in Buckets /\ tx[n].writes[b] \in Nat /\ Recent(b)
       /\ ~tx[n].open => tx[n].writes = [b \in {} |-> 0]

\* Who recomputes a period keeps everyone else from it, hence its revision.
Held ==
    \A w \in Workers : \A j \in roll[w].job :
        /\ \A n \in Nodes : j \notin tx[n].marked
        /\ \A v \in Workers \ {w} : j \notin roll[v].job
        /\ jobs[j] = roll[w].revision /\ jobs[j] > 0

\* A record says what was committed, until it is deleted for its age, and that is
\* not while a period it belongs to is dirty.
Stored ==
    \A b \in Buckets : IF records[b] = Absent THEN total[b] = 0 \/ b < clock - Keep["5m"]
                                              ELSE records[b] = total[b]
Whole == \A j \in Jobs : jobs[j] > 0 =>
            \A b \in Inside(j) : records[b] = Absent => total[b] = 0

\* What was summed is still true, and an aggregate is of something.
Recomputed ==
    \A w \in Workers : \A j \in roll[w].job :
        roll[w].step = "summed" =>
           IF roll[w].sum = Absent THEN \A b \in Inside(j) : total[b] = 0
                                   ELSE roll[w].sum = Truth(j)
Shown == \A j \in Jobs :
            agg[j] \notin {Absent, 0} => \E b \in Inside(j) : total[b] # 0

RollInv ==
    /\ Formed /\ Written /\ Held /\ Stored /\ Whole /\ Recomputed /\ Shown /\ AggregatesAgree

\* An open transaction will charge the account what its buckets share, none of which
\* lies ahead of the clock; what was charged is what was committed.
Owed ==
    \A n \in Nodes : /\ tx[n].bytes = SumOf(tx[n].writes, DOMAIN tx[n].writes)
                     /\ \A b \in DOMAIN tx[n].writes : b < clock
Charged == /\ accounted = SumOf(total, Buckets)
           /\ \A b \in Buckets : total[b] # 0 => b < clock

ChargeInv == Owed /\ Charged

\* The sum over a period depends on what was committed for it.
LEMMA TruthType ==
  ASSUME Formed, NEW j \in Jobs
  PROVE  /\ IsFiniteSet(Inside(j)) /\ Inside(j) \subseteq Buckets
         /\ Truth(j) \in Nat /\ Truth(j) = SumOf(total, Inside(j))
         /\ (\A b \in Inside(j) : total[b] = 0) => Truth(j) = 0
<1>1. Inside(j) \in SUBSET Buckets
  BY DEF Inside
<1>2. IsFiniteSet(Inside(j))
  BY <1>1, BucketsAreFinite
<1>3. \A b \in Inside(j) : total[b] \in Nat
  BY <1>1 DEF Formed
<1>4. Truth(j) = SumOf(total, Inside(j))
  BY SumIsSum DEF Truth
<1>5. SumOf(total, Inside(j)) \in Nat
  BY <1>2, <1>3, SumType
<1>6. ASSUME \A b \in Inside(j) : total[b] = 0 PROVE SumOf(total, Inside(j)) = 0
  BY <1>2, <1>6, SumZero
<1> QED
  BY <1>1, <1>2, <1>4, <1>5, <1>6

LEMMA TruthStays ==
  ASSUME Formed, NEW j \in Jobs,
         \A b \in Inside(j) : total'[b] = total[b]
  PROVE  Truth(j)' = Truth(j)
<1>1. Truth(j)' = SumOf(total', Inside(j))
  BY SumIsSum DEF Truth, Inside
<1>2. \A b \in Inside(j) : total[b] \in Nat
  BY DEF Formed, Inside
<1>3. SumOf(total', Inside(j)) = SumOf(total, Inside(j))
  BY <1>2, TruthType, SumEqual
<1> QED
  BY <1>1, <1>3, TruthType

LEMMA MarkableAreJobs ==
  ASSUME Written, NEW n \in Nodes
  PROVE  ToMark(n) \subseteq Jobs
BY TouchedIsAround DEF Written, ToMark

LEMMA RollInit == RollupInit => RollInv
<1> SUFFICES ASSUME RollupInit PROVE RollInv
  OBVIOUS
<1> USE DEF RollupInit, NoTx, NoRoll
<1>1. Formed
  <2>1. clock \in 0..MaxClock
    BY RetentionsFit
  <2> QED
    BY <2>1 DEF Formed, Absent
<1>2. Written /\ Held /\ Stored /\ Whole /\ Recomputed /\ Shown
  BY DEF Written, Held, Stored, Whole, Recomputed, Shown
<1>3. AggregatesAgree
  <2> SUFFICES ASSUME NEW j \in Jobs PROVE Truth(j) = 0
    BY DEF AggregatesAgree
  <2>1. \A b \in Inside(j) : total[b] = 0
    BY DEF Inside
  <2> QED
    BY <2>1, <1>1, TruthType
<1> QED
  BY <1>1, <1>2, <1>3 DEF RollInv

-----------------------------------------------------------------------------
(* The steps, in the order of the model.                                     *)

LEMMA TickKeeps == ASSUME RollInv, ClockTick PROVE RollInv'
<1> USE DEF RollInv, ClockTick
<1>1. clock' = clock + 1 /\ clock' \in 0..MaxClock /\ clock \in Nat
  BY RetentionsFit DEF Formed
<1>2. Formed'
  BY <1>1 DEF Formed, ToMark
<1>3. Written'
  BY DEF Written
<1>4. Held' /\ Whole' /\ Shown'
  BY DEF Held, Whole, Shown
<1>5. Stored'
  <2>1. Buckets \subseteq Nat /\ Keep["5m"] \in Nat
    BY RetentionsFit DEF Buckets
  <2>2. \A b \in Buckets : b < clock - Keep["5m"] => b < clock' - Keep["5m"]
    BY <1>1, <2>1
  <2> HIDE DEF ClockTick
  <2>3. UNCHANGED <<records, total>>
    BY DEF ClockTick
  <2>4. SUFFICES ASSUME NEW b \in Buckets
                 PROVE  IF records'[b] = Absent THEN total'[b] = 0 \/ b < clock' - Keep["5m"]
                                                ELSE records'[b] = total'[b]
    BY DEF Stored, Buckets
  <2>5. IF records[b] = Absent THEN total[b] = 0 \/ b < clock - Keep["5m"]
                               ELSE records[b] = total[b]
    BY DEF Stored
  <2> QED
    BY <2>2, <2>3, <2>5 DEF Absent
<1>6. Recomputed'
  BY DEF Recomputed, Truth
<1>7. AggregatesAgree'
  <2>1. \A j \in Jobs : j.start \in Nat /\ Keep[j.grain] \in Nat
    BY JobIs, RetentionsFit DEF Grains
  <2>2. \A j \in Jobs : Truth(j)' = Truth(j)
    BY DEF Truth
  <2> QED
    BY <1>1, <2>1, <2>2 DEF AggregatesAgree
<1> QED
  BY <1>2, <1>3, <1>4, <1>5, <1>6, <1>7

\* Steps of an ingest transaction before its end move nothing but the transaction.
LEMMA TransactionKeeps ==
  ASSUME RollInv, UNCHANGED <<clock, records, jobs, agg, roll, total>>,
         tx' = [n \in Nodes |-> tx'[n]], Written',
         \A n \in Nodes :
            /\ tx'[n] \in
                  [open : BOOLEAN, bytes : Nat, writes : {tx'[n].writes}, marked : SUBSET ToMark(n)']
            /\ \A j \in tx'[n].marked \ tx[n].marked : ~Locked(j)
  PROVE  RollInv'
<1> USE DEF RollInv
<1>1. Formed'
  BY DEF Formed
<1>2. Held'
  <2> SUFFICES ASSUME NEW w \in Workers, NEW j \in roll[w].job, NEW n \in Nodes
               PROVE  j \notin tx'[n].marked
    BY DEF Held
  <2>1. j \notin tx[n].marked
    BY DEF Held
  <2>2. roll[w].job = {j}
    BY DEF Formed
  <2>3. Locked(j)
    BY <2>2 DEF Locked
  <2> QED
    BY <2>1, <2>3
<1>3. Stored' /\ Whole' /\ Shown'
  BY DEF Stored, Whole, Shown
<1>4. Recomputed' /\ AggregatesAgree'
  BY DEF Recomputed, AggregatesAgree, Truth
<1> QED
  BY <1>1, <1>2, <1>3, <1>4

LEMMA BeginKeeps ==
  ASSUME RollInv, NEW n \in Nodes,
         NEW from \in {t \in 0..clock : t >= clock - Late},
         NEW bytes \in Amounts, from < clock, Begin(n, from, clock, bytes)
  PROVE  RollInv'
<1> USE DEF RollInv, Begin
<1> DEFINE w == Split(from, clock, bytes)
<1>1. /\ from \in Nat /\ clock \in 0..MaxClock /\ bytes \in Nat /\ Late \in Nat /\ Width \in Nat
      /\ clock - Late <= from
  BY RetentionsFit DEF Formed
<1>2. DOMAIN w \subseteq {b \in Buckets : b + Width > from} /\ \A b \in DOMAIN w : w[b] \in Nat
  BY <1>1, SplitKeepsBytes
<1> HIDE DEF w
<1>3. tx' = [tx EXCEPT ![n] = [open |-> TRUE, bytes |-> bytes, writes |-> w, marked |-> {}]]
  BY DEF w
<1>4. /\ tx' = [m \in Nodes |-> tx'[m]]
      /\ tx'[n] = [open |-> TRUE, bytes |-> bytes, writes |-> w, marked |-> {}]
      /\ \A m \in Nodes \ {n} : tx'[m] = tx[m]
  BY <1>3 DEF Formed
<1>5. Written'
  <2>1. \A b \in DOMAIN w : b \in Nat /\ b \in Buckets /\ w[b] \in Nat /\ b + Width > from
    BY <1>2, BucketsAreFinite
  <2> HIDE DEF Begin
  <2>2. \A b \in DOMAIN w : b + Width > clock - Late
    BY <2>1, <1>1
  <2>3. \A b : Recent(b)' <=> Recent(b)
    BY DEF Recent, Begin
  <2> QED
    BY <2>1, <2>2, <2>3, <1>4 DEF Written, Recent
<1>6. \A m \in Nodes :
         /\ tx'[m] \in
              [open : BOOLEAN, bytes : Nat, writes : {tx'[m].writes}, marked : SUBSET ToMark(m)']
         /\ \A j \in tx'[m].marked \ tx[m].marked : ~Locked(j)
  <2>1. \A m \in Nodes \ {n} : ToMark(m)' = ToMark(m)
    BY <1>4 DEF ToMark
  <2>2. \A m \in Nodes :
           tx[m] \in
              [open : BOOLEAN, bytes : Nat, writes : {tx[m].writes}, marked : SUBSET ToMark(m)]
    BY DEF Formed
  <2>3. [open |-> TRUE, bytes |-> bytes, writes |-> w, marked |-> {}] \in
           [open : BOOLEAN, bytes : Nat, writes : {w}, marked : SUBSET ToMark(n)']
    BY <1>1
  <2> QED
    BY <1>4, <2>1, <2>2, <2>3
<1> QED
  BY <1>4, <1>5, <1>6, TransactionKeeps

LEMMA MarkKeeps ==
  ASSUME RollInv, NEW n \in Nodes, NEW j, Mark(n, j)
  PROVE  RollInv'
<1> USE DEF RollInv, Mark
<1>1. /\ tx' = [m \in Nodes |-> tx'[m]]
      /\ tx'[n] = [tx[n] EXCEPT !.marked = tx[n].marked \union {j}]
      /\ \A m \in Nodes \ {n} : tx'[m] = tx[m]
  BY DEF Formed
<1>2. /\ tx'[n].open = tx[n].open /\ tx'[n].writes = tx[n].writes
      /\ tx'[n].marked = tx[n].marked \union {j}
      /\ tx'[n] \in
           [open : BOOLEAN, bytes : Nat, writes : {tx[n].writes}, marked : SUBSET ToMark(n)]
  BY <1>1 DEF Formed
<1>3. Written'
  <2>1. \A b : Recent(b)' <=> Recent(b)
    BY DEF Recent
  <2> QED
    BY <1>1, <1>2, <2>1 DEF Written
<1>4. \A m \in Nodes : ToMark(m)' = ToMark(m)
  BY <1>1, <1>2 DEF ToMark
<1>5. \A m \in Nodes :
         /\ tx'[m] \in
              [open : BOOLEAN, bytes : Nat, writes : {tx'[m].writes}, marked : SUBSET ToMark(m)']
         /\ \A k \in tx'[m].marked \ tx[m].marked : ~Locked(k)
  BY <1>1, <1>2, <1>4 DEF Formed
<1> QED
  BY <1>1, <1>3, <1>5, TransactionKeeps

LEMMA AbortIngestKeeps ==
  ASSUME RollInv, NEW n \in Nodes, AbortIngest(n)
  PROVE  RollInv'
<1> USE DEF RollInv, AbortIngest
<1>1. /\ tx' = [m \in Nodes |-> tx'[m]]
      /\ tx'[n] = NoTx
      /\ \A m \in Nodes \ {n} : tx'[m] = tx[m]
  BY DEF Formed
<1>2. Written'
  <2>1. \A b : Recent(b)' <=> Recent(b)
    BY DEF Recent
  <2> QED
    BY <1>1, <2>1 DEF Written, NoTx
<1>3. \A m \in Nodes :
         /\ tx'[m] \in
              [open : BOOLEAN, bytes : Nat, writes : {tx'[m].writes}, marked : SUBSET ToMark(m)']
         /\ \A k \in tx'[m].marked \ tx[m].marked : ~Locked(k)
  BY <1>1 DEF Formed, ToMark, NoTx
<1> QED
  BY <1>1, <1>2, <1>3, TransactionKeeps

\* A commit marks every period it adds to, and those alone; none of their records
\* has been deleted for its age.
LEMMA CommitIngestIs ==
  ASSUME RollInv, NEW n \in Nodes, CommitIngest(n)
  PROVE  LET w == tx[n].writes IN
         /\ DOMAIN w \subseteq Buckets
         /\ \A b \in Buckets :
               /\ b \notin DOMAIN w => records'[b] = records[b] /\ total'[b] = total[b]
               /\ b \in DOMAIN w => records'[b] = total'[b] /\ w[b] \in Nat
                                    /\ total'[b] = w[b] + total[b]
         /\ \A j \in Jobs : j \in tx[n].marked =>
               \A b \in Inside(j) : ~(b < clock - Keep["5m"])
         /\ \A j \in Jobs : j \notin tx[n].marked =>
               \A b \in Inside(j) : records'[b] = records[b] /\ total'[b] = total[b]
<1> USE DEF RollInv
<1> DEFINE w == tx[n].writes
<1>1. /\ DOMAIN w \subseteq Buckets
      /\ \A b \in DOMAIN w : w[b] \in Nat /\ b + Width > clock - Late
  BY DEF Written, Recent
<1>2. tx[n].marked = UNION {Touched(b) : b \in DOMAIN w}
  BY DEF CommitIngest, ToMark
<1>3. clock \in Nat
  BY RetentionsFit DEF Formed
<1> HIDE DEF w
<1>4. \A b \in Buckets : /\ records'[b] = Added(records[b], n, b)
                         /\ total'[b] = Added(total[b], n, b)
  BY DEF CommitIngest
<1>5. \A b \in Buckets : b \notin DOMAIN w => records'[b] = records[b] /\ total'[b] = total[b]
  BY <1>4 DEF Added, w
<1>6. ASSUME NEW j \in Jobs, j \in tx[n].marked, NEW b \in Inside(j)
      PROVE  ~(b < clock - Keep["5m"])
  <2>1. PICK c \in DOMAIN w : j \in Touched(c)
    BY <1>2, <1>6
  <2>2. c \in Inside(j) /\ c + Width > clock - Late
    BY <2>1, <1>1, TouchedIsAround
  <2> QED
    BY <2>2, <1>3, <1>6, LateIsNotOld
<1>7. ASSUME NEW j \in Jobs, j \notin tx[n].marked, NEW b \in Inside(j)
      PROVE  records'[b] = records[b] /\ total'[b] = total[b]
  <2>1. b \in Buckets
    BY DEF Inside
  <2>2. b \notin DOMAIN w
    <3>1. j \in Touched(b)
      BY <2>1, TouchedIsAround
    <3> QED
      BY <3>1, <1>2, <1>7
  <2> QED
    BY <2>1, <2>2, <1>5
<1>8. ASSUME NEW b \in DOMAIN w
      PROVE  records'[b] = total'[b] /\ w[b] \in Nat /\ total'[b] = w[b] + total[b]
  <2> DEFINE j == [grain |-> "1h", start |-> Start(b, Length["1h"])]
  <2>1. j \in Touched(b) /\ b \in Buckets
    BY <1>1 DEF Touched, Grains
  <2> HIDE DEF j
  <2>2. j \in Jobs /\ b \in Inside(j) /\ j \in tx[n].marked
    BY <2>1, <1>2, TouchedIsAround
  <2>3. ~(b < clock - Keep["5m"])
    BY <2>2, <1>6
  <2>4. records[b] = Absent => total[b] = 0
    BY <2>1, <2>3 DEF Stored
  <2>5. records[b] # Absent => records[b] = total[b]
    BY <2>1 DEF Stored
  <2>6. total[b] \in Nat
    BY <2>1 DEF Formed
  <2>7. records'[b] = w[b] + (IF records[b] = Absent THEN 0 ELSE records[b])
    BY <2>1, <1>4 DEF Added, w
  <2>8. total'[b] = w[b] + (IF total[b] = Absent THEN 0 ELSE total[b])
    BY <2>1, <1>4 DEF Added, w
  <2> QED
    BY <2>4, <2>5, <2>6, <2>7, <2>8, <1>1 DEF Absent
<1> QED
  BY <1>1, <1>5, <1>6, <1>7, <1>8 DEF w

LEMMA CommitIngestKeeps ==
  ASSUME RollInv, NEW n \in Nodes, CommitIngest(n)
  PROVE  RollInv'
<1> USE DEF RollInv
<1> DEFINE w == tx[n].writes
<1>1. UNCHANGED <<clock, agg, roll>> /\ tx' = [tx EXCEPT ![n] = NoTx]
  BY DEF CommitIngest
<1>2. /\ tx' = [m \in Nodes |-> tx'[m]]
      /\ tx'[n] = NoTx
      /\ \A m \in Nodes \ {n} : tx'[m] = tx[m]
  BY <1>1 DEF Formed
<1>3. /\ DOMAIN w \subseteq Buckets
      /\ \A b \in Buckets :
            /\ b \notin DOMAIN w => records'[b] = records[b] /\ total'[b] = total[b]
            /\ b \in DOMAIN w => records'[b] = total'[b] /\ w[b] \in Nat
                                 /\ total'[b] = w[b] + total[b]
  BY CommitIngestIs
<1>4. \A j \in Jobs : j \in tx[n].marked => \A b \in Inside(j) : ~(b < clock - Keep["5m"])
  BY CommitIngestIs
<1>5. \A j \in Jobs : j \notin tx[n].marked =>
         \A b \in Inside(j) : records'[b] = records[b] /\ total'[b] = total[b]
  BY CommitIngestIs
<1> HIDE DEF w
<1>6. \A j \in Jobs : /\ j \in tx[n].marked => jobs'[j] = jobs[j] + 1
                      /\ j \notin tx[n].marked => jobs'[j] = jobs[j]
  BY DEF CommitIngest
<1>7. \A b \in Buckets : /\ total'[b] \in Nat /\ (total[b] # 0 => total'[b] # 0)
                         /\ records'[b] \in Nat \union {Absent}
  BY <1>3 DEF Formed
<1>8. ASSUME NEW j \in Jobs
      PROVE  /\ jobs[j] \in Nat /\ jobs'[j] \in Nat /\ Inside(j) \subseteq Buckets
             /\ jobs'[j] = 0 => j \notin tx[n].marked /\ jobs[j] = 0
  <2>1. jobs[j] \in Nat
    BY DEF Formed
  <2>2. \/ j \in tx[n].marked /\ jobs'[j] = jobs[j] + 1
        \/ j \notin tx[n].marked /\ jobs'[j] = jobs[j]
    BY <1>6
  <2> QED
    BY <2>1, <2>2 DEF Inside
<1>9. Formed'
  <2>1. records' \in [Buckets -> Nat \union {Absent}] /\ total' \in [Buckets -> Nat]
        /\ jobs' \in [Jobs -> Nat]
    BY <1>7, <1>8 DEF CommitIngest
  <2>2. \A m \in Nodes :
           tx'[m] \in
             [open : BOOLEAN, bytes : Nat, writes : {tx'[m].writes}, marked : SUBSET ToMark(m)']
    <3>1. \A m \in Nodes \ {n} : ToMark(m)' = ToMark(m)
      BY <1>2 DEF ToMark
    <3>2. \A m \in Nodes \ {n} :
             tx[m] \in
               [open : BOOLEAN, bytes : Nat, writes : {tx[m].writes}, marked : SUBSET ToMark(m)]
      BY DEF Formed
    <3>3. NoTx \in
            [open : BOOLEAN, bytes : Nat, writes : {NoTx.writes}, marked : SUBSET ToMark(n)']
      BY DEF NoTx
    <3> QED
      BY <1>2, <3>1, <3>2, <3>3
  <2> QED
    BY <2>1, <2>2, <1>1, <1>2 DEF Formed
<1>10. Written'
  <2>1. \A b : Recent(b)' <=> Recent(b)
    BY <1>1 DEF Recent
  <2> QED
    BY <1>2, <2>1 DEF Written, NoTx
<1>11. Held'
  <2> SUFFICES ASSUME NEW v \in Workers, NEW j \in roll[v].job
               PROVE  /\ \A m \in Nodes : j \notin tx'[m].marked
                      /\ \A u \in Workers \ {v} : j \notin roll[u].job
                      /\ jobs'[j] = roll[v].revision /\ jobs'[j] > 0
    BY <1>1 DEF Held
  <2>1. j \in Jobs /\ j \notin tx[n].marked
    BY DEF Held, Formed
  <2>2. \A m \in Nodes : j \notin tx'[m].marked
    BY <1>2 DEF Held, NoTx
  <2> QED
    BY <2>1, <2>2, <1>6 DEF Held
<1>12. Stored'
  <2> SUFFICES ASSUME NEW b \in Buckets
               PROVE  IF records'[b] = Absent THEN total'[b] = 0 \/ b < clock - Keep["5m"]
                                              ELSE records'[b] = total'[b]
    BY <1>1 DEF Stored
  <2>1. CASE b \notin DOMAIN w
    BY <2>1, <1>3 DEF Stored
  <2>2. CASE b \in DOMAIN w
    BY <2>2, <1>3, <1>7 DEF Absent
  <2> QED
    BY <2>1, <2>2
<1>13. Whole'
  <2> SUFFICES ASSUME NEW j \in Jobs, jobs'[j] > 0,
                      NEW b \in Inside(j), records'[b] = Absent
               PROVE  total'[b] = 0
    BY DEF Whole, Inside
  <2>1. b \in Buckets
    BY <1>8
  <2>2. b \notin DOMAIN w /\ records[b] = Absent /\ total'[b] = total[b]
    BY <2>1, <1>3, <1>7 DEF Absent
  <2>3. CASE j \in tx[n].marked
    BY <2>1, <2>2, <2>3, <1>4 DEF Stored
  <2>4. CASE j \notin tx[n].marked
    BY <2>2, <2>4, <1>6 DEF Whole
  <2> QED
    BY <2>3, <2>4
<1>14. \A j \in Jobs : j \notin tx[n].marked => Truth(j)' = Truth(j)
  BY <1>5, TruthStays
<1>15. Recomputed'
  <2> SUFFICES ASSUME NEW v \in Workers, NEW j \in roll[v].job, roll[v].step = "summed"
               PROVE  IF roll[v].sum = Absent THEN \A b \in Inside(j) : total'[b] = 0
                                              ELSE roll[v].sum = Truth(j)'
    BY <1>1 DEF Recomputed, Inside
  <2>1. j \in Jobs /\ j \notin tx[n].marked
    BY DEF Held, Formed
  <2> QED
    BY <2>1, <1>5, <1>14 DEF Recomputed
<1>16. Shown'
  <2> SUFFICES ASSUME NEW j \in Jobs, agg[j] \notin {Absent, 0}
               PROVE  \E b \in Inside(j) : total'[b] # 0
    BY <1>1 DEF Shown, Inside
  <2> QED
    BY <1>7, <1>8 DEF Shown
<1>17. AggregatesAgree'
  <2> SUFFICES ASSUME NEW j \in Jobs, jobs'[j] = 0, j.start >= clock - Keep[j.grain]
               PROVE  (IF agg[j] = Absent THEN 0 ELSE agg[j]) = Truth(j)'
    BY <1>1 DEF AggregatesAgree
  <2>1. j \notin tx[n].marked /\ jobs[j] = 0
    BY <1>8
  <2> QED
    BY <2>1, <1>14 DEF AggregatesAgree
<1> QED
  BY <1>9, <1>10, <1>11, <1>12, <1>13, <1>15, <1>16, <1>17

\* What a worker does before its commit changes nothing but its own transaction.
LEMMA WorkerKeeps ==
  ASSUME RollInv, UNCHANGED <<clock, records, jobs, agg, tx, total>>,
         NEW w \in Workers,
         roll' = [v \in Workers |-> roll'[v]],
         roll'[w] \in [job : SUBSET Jobs, revision : Nat, sum : Nat \union {Absent},
                       step : {"idle", "picked", "summed"}],
         roll'[w].step # "idle" => \E j \in Jobs : roll'[w].job = {j},
         roll'[w].step = "idle" => roll'[w].job = {},
         \A v \in Workers \ {w} : roll'[v] = roll[v],
         \A j \in roll'[w].job :
            /\ jobs[j] = roll'[w].revision /\ jobs[j] > 0
            /\ j \in roll[w].job \/ ~Locked(j)
            /\ roll'[w].step = "summed" =>
                  IF roll'[w].sum = Absent THEN \A b \in Inside(j) : total[b] = 0
                                           ELSE roll'[w].sum = Truth(j)
  PROVE  RollInv'
<1> USE DEF RollInv
<1>1. Formed'
  <2>1. \A n \in Nodes : ToMark(n)' = ToMark(n)
    BY DEF ToMark
  <2>2. \A n \in Nodes :
           tx'[n] \in
              [open : BOOLEAN, bytes : Nat, writes : {tx'[n].writes}, marked : SUBSET ToMark(n)']
    BY <2>1 DEF Formed
  <2>3. \A v \in Workers :
           /\ roll'[v] \in [job : SUBSET Jobs, revision : Nat, sum : Nat \union {Absent},
                            step : {"idle", "picked", "summed"}]
           /\ roll'[v].step # "idle" => \E j \in Jobs : roll'[v].job = {j}
           /\ roll'[v].step = "idle" => roll'[v].job = {}
    BY DEF Formed
  <2> QED
    BY <2>2, <2>3 DEF Formed
<1>2. ASSUME NEW j, ~Locked(j)
      PROVE  (\A n \in Nodes : j \notin tx[n].marked) /\ \A v \in Workers : j \notin roll[v].job
  <2>1. \A v \in Workers : roll[v].job = {} \/ \E k \in Jobs : roll[v].job = {k}
    BY DEF Formed
  <2> QED
    BY <2>1, <1>2 DEF Locked
<1>3. ASSUME NEW v \in Workers \ {w}, NEW j \in roll[v].job PROVE j \notin roll'[w].job
  BY <1>2, <1>3 DEF Held
<1>4. Held'
  <2> SUFFICES ASSUME NEW v \in Workers, NEW j \in roll'[v].job
               PROVE  /\ \A n \in Nodes : j \notin tx[n].marked
                      /\ \A u \in Workers \ {v} : j \notin roll'[u].job
                      /\ jobs[j] = roll'[v].revision /\ jobs[j] > 0
    BY DEF Held
  <2>1. CASE v = w
    <3>1. \A n \in Nodes : j \notin tx[n].marked
      BY <2>1, <1>2 DEF Held
    <3>2. \A u \in Workers \ {w} : j \notin roll[u].job
      BY <2>1, <1>2 DEF Held
    <3> QED
      BY <2>1, <3>1, <3>2
  <2>2. CASE v # w
    <3>1. j \in roll[v].job
      BY <2>2
    <3>2. \A u \in Workers \ {v} : u # w => j \notin roll'[u].job
      BY <3>1 DEF Held
    <3> QED
      BY <2>2, <3>1, <3>2, <1>3 DEF Held
  <2> QED
    BY <2>1, <2>2
<1>5. Written' /\ Stored' /\ Whole' /\ Shown'
  <2>1. \A b : Recent(b)' <=> Recent(b)
    BY DEF Recent
  <2> QED
    BY <2>1 DEF Written, Stored, Whole, Shown
<1>6. \A j : Truth(j)' = Truth(j) /\ Inside(j)' = Inside(j)
  BY DEF Truth, Inside
<1>7. Recomputed'
  <2> SUFFICES ASSUME NEW v \in Workers, NEW j \in roll'[v].job, roll'[v].step = "summed"
               PROVE  IF roll'[v].sum = Absent THEN \A b \in Inside(j) : total[b] = 0
                                               ELSE roll'[v].sum = Truth(j)
    BY <1>6 DEF Recomputed
  <2>1. CASE v = w
    BY <2>1
  <2>2. CASE v # w
    BY <2>2 DEF Recomputed
  <2> QED
    BY <2>1, <2>2
<1>8. AggregatesAgree'
  BY <1>6 DEF AggregatesAgree
<1> QED
  BY <1>1, <1>4, <1>5, <1>7, <1>8

LEMMA PickKeeps ==
  ASSUME RollInv, NEW w \in Workers, NEW j \in Jobs, Pick(w, j)
  PROVE  RollInv'
<1> USE DEF RollInv, Pick
<1>1. /\ roll' = [v \in Workers |-> roll'[v]]
      /\ roll'[w] = [job |-> {j}, revision |-> jobs[j], sum |-> Absent, step |-> "picked"]
      /\ \A v \in Workers \ {w} : roll'[v] = roll[v]
  BY DEF Formed
<1>2. jobs[j] \in Nat /\ jobs[j] > 0 /\ ~Locked(j)
  BY DEF Formed, Free
<1>3. /\ roll'[w] \in [job : SUBSET Jobs, revision : Nat, sum : Nat \union {Absent},
                       step : {"idle", "picked", "summed"}]
      /\ roll'[w].step # "idle" => \E k \in Jobs : roll'[w].job = {k}
      /\ roll'[w].step = "idle" => roll'[w].job = {}
      /\ \A k \in roll'[w].job :
            /\ jobs[k] = roll'[w].revision /\ jobs[k] > 0
            /\ k \in roll[w].job \/ ~Locked(k)
            /\ roll'[w].step # "summed"
  BY <1>1, <1>2
<1>4. UNCHANGED <<clock, records, jobs, agg, tx, total>>
  OBVIOUS
<1> HIDE DEF Pick
<1> QED
  BY <1>1, <1>3, <1>4, WorkerKeeps

\* No record of a dirty period is missing, so what is summed is all of it.
LEMMA RecomputeKeeps ==
  ASSUME RollInv, NEW w \in Workers, Recompute(w)
  PROVE  RollInv'
<1> USE DEF RollInv
<1>1. roll[w].step = "picked" /\ UNCHANGED <<clock, records, jobs, agg, tx, total>>
  BY DEF Recompute
<1>2. PICK j \in roll[w].job :
         roll' = [roll EXCEPT ![w].step = "summed",
                    ![w].sum = IF Present(j) = {} THEN Absent
                               ELSE Sum(records, Present(j))]
  BY DEF Recompute
<1>3. roll[w].job = {j} /\ j \in Jobs /\ jobs[j] = roll[w].revision /\ jobs[j] > 0
  BY <1>1 DEF Formed, Held
<1> DEFINE sum == IF Present(j) = {} THEN Absent ELSE Sum(records, Present(j))
<1>4. /\ IsFiniteSet(Inside(j)) /\ Inside(j) \subseteq Buckets
      /\ Truth(j) \in Nat /\ Truth(j) = SumOf(total, Inside(j))
  BY <1>3, TruthType
<1>5. \A b \in Inside(j) : records[b] = Absent => total[b] = 0
  BY <1>3 DEF Whole
<1>6. Present(j) = {} => \A b \in Inside(j) : total[b] = 0
  BY <1>5 DEF Present
<1>7. Sum(records, Present(j)) = Truth(j)
  <2>1. Present(j) \in SUBSET Inside(j)
    BY DEF Present
  <2>2. \A b \in Inside(j) : total[b] \in Nat
    BY <1>4 DEF Formed
  <2>3. \A b \in Present(j) : records[b] = total[b]
    BY <1>4 DEF Present, Stored
  <2>4. \A b \in Inside(j) \ Present(j) : total[b] = 0
    BY <1>5 DEF Present
  <2>5. SumOf(records, Present(j)) = SumOf(total, Inside(j))
    BY <2>1, <2>2, <2>3, <2>4, <1>4, SumSame
  <2> QED
    BY <2>5, <1>4, SumIsSum
<1>8. /\ sum \in Nat \union {Absent}
      /\ IF sum = Absent THEN \A b \in Inside(j) : total[b] = 0 ELSE sum = Truth(j)
  BY <1>4, <1>6, <1>7 DEF Absent
<1> HIDE DEF sum
<1>9. /\ roll' = [v \in Workers |-> roll'[v]]
      /\ roll'[w] = [job |-> roll[w].job, revision |-> roll[w].revision, sum |-> sum,
                     step |-> "summed"]
      /\ \A v \in Workers \ {w} : roll'[v] = roll[v]
  <2>1. roll' = [roll EXCEPT ![w].step = "summed", ![w].sum = sum]
    BY <1>2 DEF sum
  <2> QED
    BY <2>1 DEF Formed
<1>10. roll[w].revision \in Nat
  BY DEF Formed
<1>11. /\ roll'[w] \in [job : SUBSET Jobs, revision : Nat, sum : Nat \union {Absent},
                        step : {"idle", "picked", "summed"}]
       /\ roll'[w].step # "idle" => \E k \in Jobs : roll'[w].job = {k}
       /\ roll'[w].step # "idle"
  BY <1>3, <1>8, <1>9, <1>10
<1>12. \A k \in roll'[w].job :
            /\ jobs[k] = roll'[w].revision /\ jobs[k] > 0
            /\ k \in roll[w].job
            /\ IF roll'[w].sum = Absent THEN \A b \in Inside(k) : total[b] = 0
                                        ELSE roll'[w].sum = Truth(k)
  BY <1>3, <1>8, <1>9
<1> QED
  BY <1>1, <1>9, <1>11, <1>12, WorkerKeeps

LEMMA AbortRollKeeps ==
  ASSUME RollInv, NEW w \in Workers, AbortRoll(w)
  PROVE  RollInv'
<1> USE DEF RollInv, AbortRoll
<1>1. /\ roll' = [v \in Workers |-> roll'[v]]
      /\ roll'[w] = NoRoll
      /\ \A v \in Workers \ {w} : roll'[v] = roll[v]
  BY DEF Formed
<1>2. /\ NoRoll \in [job : SUBSET Jobs, revision : Nat, sum : Nat \union {Absent},
                     step : {"idle", "picked", "summed"}]
      /\ NoRoll.step = "idle" /\ NoRoll.job = {}
  BY DEF NoRoll
<1>3. UNCHANGED <<clock, records, jobs, agg, tx, total>>
  OBVIOUS
<1> HIDE DEF AbortRoll
<1> QED
  BY <1>1, <1>2, <1>3, WorkerKeeps

\* The mark goes as the aggregate is written: of what was summed, nothing has changed
\* since, for a transaction that writes the period needs the mark.
LEMMA CommitRollKeeps ==
  ASSUME RollInv, NEW w \in Workers, CommitRoll(w)
  PROVE  RollInv'
<1> USE DEF RollInv
<1>1. /\ roll[w].step = "summed" /\ roll' = [roll EXCEPT ![w] = NoRoll]
      /\ UNCHANGED <<clock, records, tx, total>>
  BY DEF CommitRoll
<1>2. PICK j \in roll[w].job :
         /\ agg' = IF roll[w].sum = Absent THEN agg ELSE [agg EXCEPT ![j] = roll[w].sum]
         /\ jobs' = IF jobs[j] = roll[w].revision THEN [jobs EXCEPT ![j] = 0] ELSE jobs
  BY DEF CommitRoll
<1>3. j \in Jobs /\ jobs[j] = roll[w].revision /\ roll[w].sum \in Nat \union {Absent}
  BY DEF Formed, Held
<1>4. IF roll[w].sum = Absent THEN \A b \in Inside(j) : total[b] = 0
                              ELSE roll[w].sum = Truth(j)
  BY <1>1 DEF Recomputed
<1>5. /\ roll' = [v \in Workers |-> roll'[v]]
      /\ roll'[w] = NoRoll
      /\ \A v \in Workers \ {w} : roll'[v] = roll[v]
  BY <1>1 DEF Formed
<1>6. jobs'[j] = 0 /\ \A k \in Jobs \ {j} : jobs'[k] = jobs[k]
  BY <1>2, <1>3 DEF Formed
<1>7. /\ \A k \in Jobs \ {j} : agg'[k] = agg[k]
      /\ roll[w].sum = Absent => agg'[j] = agg[j]
      /\ roll[w].sum # Absent => agg'[j] = roll[w].sum
  BY <1>2, <1>3 DEF Formed
<1>8. Formed'
  <2>1. jobs' \in [Jobs -> Nat] /\ agg' \in [Jobs -> Nat \union {Absent}]
    BY <1>2, <1>3 DEF Formed
  <2>2. \A n \in Nodes : ToMark(n)' = ToMark(n)
    BY <1>1 DEF ToMark
  <2>3. NoRoll \in [job : SUBSET Jobs, revision : Nat, sum : Nat \union {Absent},
                    step : {"idle", "picked", "summed"}]
        /\ NoRoll.step = "idle" /\ NoRoll.job = {}
    BY DEF NoRoll
  <2>4. \A v \in Workers :
           /\ roll'[v] \in [job : SUBSET Jobs, revision : Nat, sum : Nat \union {Absent},
                            step : {"idle", "picked", "summed"}]
           /\ roll'[v].step # "idle" => \E k \in Jobs : roll'[v].job = {k}
           /\ roll'[v].step = "idle" => roll'[v].job = {}
    BY <2>3, <1>5 DEF Formed
  <2> QED
    BY <2>1, <2>2, <2>4, <1>1, <1>5 DEF Formed
<1>9. Written'
  <2>1. \A b : Recent(b)' <=> Recent(b)
    BY <1>1 DEF Recent
  <2> QED
    BY <2>1, <1>1 DEF Written
<1>10. Held'
  <2> SUFFICES ASSUME NEW v \in Workers, NEW k \in roll'[v].job
               PROVE  /\ \A n \in Nodes : k \notin tx[n].marked
                      /\ \A u \in Workers \ {v} : k \notin roll'[u].job
                      /\ jobs'[k] = roll'[v].revision /\ jobs'[k] > 0
    BY <1>1 DEF Held
  <2>1. v # w /\ k \in roll[v].job
    BY <1>5 DEF NoRoll
  <2>2. k \in Jobs /\ k # j
    BY <2>1 DEF Held, Formed
  <2>3. \A u \in Workers \ {v} : k \notin roll'[u].job
    BY <2>1, <1>5 DEF Held, NoRoll
  <2> QED
    BY <2>1, <2>2, <2>3, <1>5, <1>6 DEF Held
<1>11. Stored'
  BY <1>1 DEF Stored
<1>12. Whole'
  <2> SUFFICES ASSUME NEW k \in Jobs, jobs'[k] > 0,
                      NEW b \in Inside(k), records[b] = Absent
               PROVE  total[b] = 0
    BY <1>1 DEF Whole, Inside
  <2> QED
    BY <1>6 DEF Whole
<1>13. \A k : Truth(k)' = Truth(k) /\ Inside(k)' = Inside(k)
  BY <1>1 DEF Truth, Inside
<1>14. Recomputed'
  <2> SUFFICES ASSUME NEW v \in Workers, NEW k \in roll'[v].job, roll'[v].step = "summed"
               PROVE  IF roll'[v].sum = Absent THEN \A b \in Inside(k) : total[b] = 0
                                               ELSE roll'[v].sum = Truth(k)
    BY <1>1, <1>13 DEF Recomputed
  <2>1. v # w /\ roll'[v] = roll[v]
    BY <1>5 DEF NoRoll
  <2> QED
    BY <2>1 DEF Recomputed
<1>15. Truth(j) # 0 => \E b \in Inside(j) : total[b] # 0
  BY <1>3, TruthType
<1>16. Shown'
  <2> SUFFICES ASSUME NEW k \in Jobs, agg'[k] \notin {Absent, 0}
               PROVE  \E b \in Inside(k) : total[b] # 0
    BY <1>1, <1>13 DEF Shown
  <2> QED
    BY <1>4, <1>7, <1>15 DEF Shown
<1>17. AggregatesAgree'
  <2> SUFFICES ASSUME NEW k \in Jobs, jobs'[k] = 0, k.start >= clock - Keep[k.grain]
               PROVE  (IF agg'[k] = Absent THEN 0 ELSE agg'[k]) = Truth(k)
    BY <1>1, <1>13 DEF AggregatesAgree
  <2>1. CASE k # j
    BY <2>1, <1>6, <1>7 DEF AggregatesAgree
  <2>2. CASE k = j /\ roll[w].sum = Absent
    <3>1. Truth(j) = 0 /\ ~ \E b \in Inside(j) : total[b] # 0
      BY <2>2, <1>3, <1>4, TruthType
    <3>2. agg[j] \in {Absent, 0}
      BY <3>1, <1>3 DEF Shown
    <3> QED
      BY <2>2, <3>1, <3>2, <1>7
  <2>3. CASE k = j /\ roll[w].sum # Absent
    BY <2>3, <1>4, <1>7
  <2> QED
    BY <2>1, <2>2, <2>3
<1> QED
  BY <1>8, <1>9, <1>10, <1>11, <1>12, <1>14, <1>16, <1>17

LEMMA CleanRecordsKeeps ==
  ASSUME RollInv, CleanRecords
  PROVE  RollInv'
<1> USE DEF RollInv
<1>1. UNCHANGED <<clock, jobs, agg, tx, roll, total>>
  BY DEF CleanRecords
<1>2. \A b \in Buckets : records'[b] = IF Expired(b) THEN Absent ELSE records[b]
  BY DEF CleanRecords
<1>3. Formed'
  <2>1. records' \in [Buckets -> Nat \union {Absent}]
    BY DEF CleanRecords, Formed
  <2>2. \A n \in Nodes : ToMark(n)' = ToMark(n)
    BY <1>1 DEF ToMark
  <2> QED
    BY <2>1, <2>2, <1>1 DEF Formed
<1>4. Written' /\ Held' /\ Shown'
  <2>1. \A b : Recent(b)' <=> Recent(b)
    BY <1>1 DEF Recent
  <2> QED
    BY <2>1, <1>1 DEF Written, Held, Shown, Inside
<1>5. Stored'
  <2> SUFFICES ASSUME NEW b \in Buckets
               PROVE  IF records'[b] = Absent THEN total[b] = 0 \/ b < clock - Keep["5m"]
                                              ELSE records'[b] = total[b]
    BY <1>1 DEF Stored
  <2> QED
    BY <1>2 DEF Stored, Expired
<1>6. Whole'
  <2> SUFFICES ASSUME NEW j \in Jobs, jobs[j] > 0,
                      NEW b \in Inside(j), records'[b] = Absent
               PROVE  total[b] = 0
    BY <1>1 DEF Whole, Inside
  <2>1. b \in Buckets /\ Start(b, Length[j.grain]) = j.start
    BY DEF Inside
  <2>2. Length[j.grain] \in {Hour, Day}
    BY JobIs DEF Length
  <2>3. ~Expired(b)
    BY <2>1, <2>2 DEF Expired
  <2> QED
    BY <2>1, <2>3, <1>2 DEF Whole
<1>7. \A j : Truth(j)' = Truth(j) /\ Inside(j)' = Inside(j)
  BY <1>1 DEF Truth, Inside
<1>8. Recomputed' /\ AggregatesAgree'
  BY <1>1, <1>7 DEF Recomputed, AggregatesAgree
<1> QED
  BY <1>3, <1>4, <1>5, <1>6, <1>8

LEMMA CleanAggregatesKeeps ==
  ASSUME RollInv, CleanAggregates
  PROVE  RollInv'
<1> USE DEF RollInv
<1>1. UNCHANGED <<clock, records, jobs, tx, roll, total>>
  BY DEF CleanAggregates
<1>2. \A j \in Jobs : agg'[j] = IF Outdated(j) THEN Absent ELSE agg[j]
  BY DEF CleanAggregates
<1>3. Formed'
  <2>1. agg' \in [Jobs -> Nat \union {Absent}]
    BY DEF CleanAggregates, Formed
  <2>2. \A n \in Nodes : ToMark(n)' = ToMark(n)
    BY <1>1 DEF ToMark
  <2> QED
    BY <2>1, <2>2, <1>1 DEF Formed
<1>4. Written' /\ Held' /\ Stored' /\ Whole'
  <2>1. \A b : Recent(b)' <=> Recent(b)
    BY <1>1 DEF Recent
  <2> QED
    BY <2>1, <1>1 DEF Written, Held, Stored, Whole, Inside
<1>5. \A j : Truth(j)' = Truth(j) /\ Inside(j)' = Inside(j)
  BY <1>1 DEF Truth, Inside
<1>6. Recomputed'
  BY <1>1, <1>5 DEF Recomputed
<1>7. Shown'
  <2> SUFFICES ASSUME NEW j \in Jobs, agg'[j] \notin {Absent, 0}
               PROVE  \E b \in Inside(j) : total[b] # 0
    BY <1>1, <1>5 DEF Shown
  <2> QED
    BY <1>2 DEF Shown
<1>8. AggregatesAgree'
  <2> SUFFICES ASSUME NEW j \in Jobs, jobs[j] = 0, j.start >= clock - Keep[j.grain]
               PROVE  (IF agg'[j] = Absent THEN 0 ELSE agg'[j]) = Truth(j)
    BY <1>1, <1>5 DEF AggregatesAgree
  <2>1. ~Outdated(j)
    <3>1. j.start \in Nat /\ clock \in Nat /\ Keep[j.grain] \in Nat
      BY JobIs, RetentionsFit DEF Formed, Grains
    <3> QED
      BY <3>1 DEF Outdated
  <2> QED
    BY <2>1, <1>2 DEF AggregatesAgree
<1> QED
  BY <1>3, <1>4, <1>6, <1>7, <1>8

LEMMA RollNext == RollInv /\ [RollupNext]_rollupVars => RollInv'
<1> SUFFICES ASSUME RollInv, [RollupNext]_rollupVars PROVE RollInv'
  OBVIOUS
<1>1. CASE ClockTick
  BY <1>1, TickKeeps
<1>2. CASE IngestBuckets
  <2>1. PICK n \in Nodes :
           \/ \E from \in {t \in 0..clock : t >= clock - Late}, bytes \in Amounts :
                 from < clock /\ Begin(n, from, clock, bytes)
           \/ \E j \in Jobs : Mark(n, j)
           \/ CommitIngest(n)
           \/ AbortIngest(n)
    BY <1>2 DEF IngestBuckets
  <2> QED
    BY <2>1, BeginKeeps, MarkKeeps, CommitIngestKeeps, AbortIngestKeeps
<1>3. CASE Rollup
  <2>1. PICK w \in Workers :
           \/ \E j \in Jobs : Pick(w, j)
           \/ Recompute(w)
           \/ CommitRoll(w)
           \/ AbortRoll(w)
    BY <1>3 DEF Rollup
  <2> QED
    BY <2>1, PickKeeps, RecomputeKeeps, CommitRollKeeps, AbortRollKeeps
<1>4. CASE CleanRecords
  BY <1>4, CleanRecordsKeeps
<1>5. CASE CleanAggregates
  BY <1>5, CleanAggregatesKeeps
<1>6. CASE UNCHANGED rollupVars
  <2> USE <1>6 DEF rollupVars, RollInv
  <2>1. Formed'
    BY DEF Formed, ToMark
  <2>2. Written' /\ Held' /\ Stored' /\ Whole' /\ Shown'
    BY DEF Written, Recent, Held, Stored, Whole, Shown
  <2>3. Recomputed' /\ AggregatesAgree'
    BY DEF Recomputed, AggregatesAgree, Truth
  <2> QED
    BY <2>1, <2>2, <2>3
<1> QED
  BY <1>1, <1>2, <1>3, <1>4, <1>5, <1>6 DEF RollupNext

\* Every bucket a query for records may name still has what was committed for it, and
\* every period a query for aggregates may name is one that AggregatesAgree is about.
LEMMA RecordsAnswer ==
  ASSUME RollInv, NEW from \in Nat, NEW to \in Nat, from >= clock - Keep["5m"]
  PROVE  Answer(from, to, "5m") = Sum(total, {b \in Buckets : b >= from /\ b < to})
<1> DEFINE S == {b \in Buckets : b >= from /\ b < to}
           T == {b \in Buckets : b >= from /\ b < to /\ records[b] # Absent}
<1>1. S \in SUBSET Buckets /\ T \in SUBSET S
  OBVIOUS
<1>2. IsFiniteSet(S)
  BY <1>1, BucketsAreFinite
<1>3. \A b \in S : total[b] \in Nat
  BY DEF RollInv, Formed
<1>4. \A b \in T : records[b] = total[b]
  BY DEF RollInv, Stored
<1>5. \A b \in S \ T : total[b] = 0
  <2> SUFFICES ASSUME NEW b \in S \ T PROVE total[b] = 0
    OBVIOUS
  <2>1. b \in Buckets /\ records[b] = Absent /\ b >= from
    OBVIOUS
  <2>2. b \in Nat /\ clock \in Nat /\ Keep["5m"] \in Nat
    BY <2>1, RetentionsFit DEF Buckets, RollInv, Formed
  <2>3. ~(b < clock - Keep["5m"])
    BY <2>1, <2>2
  <2> QED
    BY <2>1, <2>3 DEF RollInv, Stored
<1>6. Answer(from, to, "5m") = Sum(records, T)
  BY DEF Answer
<1> HIDE DEF S, T
<1>7. SumOf(records, T) = SumOf(total, S)
  BY <1>1, <1>2, <1>3, <1>4, <1>5, SumSame
<1> QED
  BY <1>6, <1>7, SumIsSum DEF S

LEMMA AggregatesAnswer ==
  ASSUME RollInv, NEW grain \in Grains, NEW from \in Nat, NEW to \in Nat,
         from >= clock - Keep[grain], \A j \in Jobs : jobs[j] = 0
  PROVE  Answer(from, to, grain)
           = Sum([j \in Jobs |-> Truth(j)],
                 {j \in Jobs : j.grain = grain /\ j.start >= from /\ j.start < to})
<1> DEFINE S == {j \in Jobs : j.grain = grain /\ j.start >= from /\ j.start < to}
           f == [j \in Jobs |-> IF agg[j] = Absent THEN 0 ELSE agg[j]]
           g == [j \in Jobs |-> Truth(j)]
<1>1. S \in SUBSET Jobs
  OBVIOUS
<1>2. IsFiniteSet(S)
  BY <1>1, JobsAreFinite, FS_Subset
<1>3. \A j \in S : g[j] \in Nat
  BY TruthType DEF RollInv
<1>4. \A j \in S : f[j] = g[j]
  <2> SUFFICES ASSUME NEW j \in S
               PROVE  (IF agg[j] = Absent THEN 0 ELSE agg[j]) = Truth(j)
    OBVIOUS
  <2>1. j \in Jobs /\ j.grain = grain /\ j.start >= from /\ jobs[j] = 0
    OBVIOUS
  <2>2. j.start \in Nat /\ clock \in Nat /\ Keep[grain] \in Nat
    BY <2>1, JobIs, RetentionsFit DEF RollInv, Formed, Grains
  <2>3. j.start >= clock - Keep[j.grain]
    BY <2>1, <2>2
  <2> QED
    BY <2>1, <2>3 DEF RollInv, AggregatesAgree
<1>5. Answer(from, to, grain) = Sum(f, S)
  BY DEF Answer, Grains
<1> HIDE DEF S, f, g
<1>6. SumOf(f, S) = SumOf(g, S)
  BY <1>2, <1>3, <1>4, SumEqual
<1> QED
  BY <1>5, <1>6, SumIsSum DEF S, g

LEMMA AnswersAgree == RollInv => QueryIsComplete
<1> SUFFICES ASSUME RollInv,
                    NEW grain \in {"5m", "1h", "1d"}, NEW from \in 0..clock,
                    NEW to \in {from + 1, clock}, Answerable(from, to, grain),
                    grain # "5m" => \A j \in Jobs : jobs[j] = 0
             PROVE  Answer(from, to, grain)
                      = IF grain = "5m"
                        THEN Sum(total, {b \in Buckets : b >= from /\ b < to})
                        ELSE Sum([j \in Jobs |-> Truth(j)],
                                 {j \in Jobs :
                                    j.grain = grain /\ j.start >= from /\ j.start < to})
  BY DEF QueryIsComplete
<1>1. clock \in Nat
  BY DEF RollInv, Formed
<1>2. from \in Nat /\ to \in Nat /\ from >= clock - Keep[grain]
  BY <1>1 DEF Answerable
<1>3. CASE grain = "5m"
  BY <1>2, <1>3, RecordsAnswer
<1>4. CASE grain # "5m"
  <2>1. grain \in Grains
    BY <1>4 DEF Grains
  <2> QED
    BY <2>1, <1>2, <1>4, AggregatesAnswer
<1> QED
  BY <1>3, <1>4

-----------------------------------------------------------------------------
(* TrafficRollup: the accounts.                                              *)

LEMMA NothingIsOwed ==
  NoTx.bytes = SumOf(NoTx.writes, DOMAIN NoTx.writes) /\ DOMAIN NoTx.writes = {}
<1>1. NoTx.bytes = 0 /\ DOMAIN NoTx.writes = {}
  BY DEF NoTx
<1>2. SumOf(NoTx.writes, {}) = 0
  BY SumEmpty
<1> QED
  BY <1>1, <1>2

LEMMA ChargeInit == RollupInit => ChargeInv
<1> SUFFICES ASSUME RollupInit PROVE ChargeInv
  OBVIOUS
<1>1. Owed
  <2>1. \A n \in Nodes : tx[n] = NoTx
    BY DEF RollupInit
  <2> QED
    BY <2>1, NothingIsOwed DEF Owed
<1>2. \A b \in Buckets : total[b] = 0
  BY DEF RollupInit
<1>3. SumOf(total, Buckets) = 0
  BY <1>2, BucketsAreFinite, SumZero
<1>4. accounted = 0
  BY DEF RollupInit
<1> QED
  BY <1>1, <1>2, <1>3, <1>4 DEF ChargeInv, Charged

LEMMA OwedStays ==
  ASSUME RollInv, Owed, clock' \in Nat, clock' >= clock,
         \A n \in Nodes : \/ tx'[n] = NoTx
                          \/ tx'[n].bytes = tx[n].bytes /\ tx'[n].writes = tx[n].writes
  PROVE  Owed'
<1>1. clock \in Nat
  BY DEF RollInv, Formed
<1>2. SUFFICES ASSUME NEW n \in Nodes
               PROVE  /\ tx'[n].bytes = SumOf(tx'[n].writes, DOMAIN tx'[n].writes)
                      /\ \A b \in DOMAIN tx'[n].writes : b < clock'
  BY DEF Owed
<1>3. CASE tx'[n] = NoTx
  BY <1>3, NothingIsOwed
<1>4. CASE tx'[n].bytes = tx[n].bytes /\ tx'[n].writes = tx[n].writes
  <2>1. \A b \in DOMAIN tx[n].writes : b < clock /\ b \in Nat
    BY BucketsAreFinite DEF Owed, RollInv, Written
  <2>2. \A b \in DOMAIN tx[n].writes : b < clock'
    BY <2>1, <1>1
  <2> QED
    BY <1>4, <2>2 DEF Owed
<1> QED
  BY <1>3, <1>4

LEMMA ChargedStays ==
  ASSUME RollInv, Charged, UNCHANGED <<accounted, total>>, clock' \in Nat, clock' >= clock
  PROVE  Charged'
<1>1. clock \in Nat /\ Buckets \subseteq Nat
  BY BucketsAreFinite DEF RollInv, Formed
<1>2. ASSUME NEW b \in Buckets, total[b] # 0 PROVE b < clock'
  <2>1. b < clock
    BY <1>2 DEF Charged
  <2> QED
    BY <1>1, <2>1
<1>3. accounted' = SumOf(total', Buckets)
  BY DEF Charged
<1> QED
  BY <1>2, <1>3 DEF Charged, Buckets

LEMMA BeginCharges ==
  ASSUME RollInv, ChargeInv, NEW n \in Nodes,
         NEW from \in {t \in 0..clock : t >= clock - Late},
         NEW bytes \in Amounts, from < clock, Begin(n, from, clock, bytes)
  PROVE  ChargeInv'
<1> DEFINE w == Split(from, clock, bytes)
<1>1. /\ from \in Nat /\ clock \in 0..MaxClock /\ bytes \in Nat
  BY RetentionsFit DEF RollInv, Formed
<1>2. /\ DOMAIN w \subseteq {b \in Buckets : b + Width > from /\ b < clock}
      /\ SumOf(w, DOMAIN w) = bytes
  BY <1>1, SplitKeepsBytes
<1>3. \A b \in DOMAIN w : b < clock
  BY <1>2
<1> HIDE DEF w
<1>4. /\ tx' = [tx EXCEPT ![n] =
                  [open |-> TRUE, bytes |-> bytes, writes |-> w, marked |-> {}]]
      /\ UNCHANGED <<clock, accounted, total>>
  BY DEF Begin, w
<1>5. /\ tx'[n].bytes = bytes /\ tx'[n].writes = w
      /\ \A m \in Nodes \ {n} : tx'[m] = tx[m]
  BY <1>4 DEF RollInv, Formed
<1>6. Owed'
  BY <1>2, <1>3, <1>4, <1>5 DEF ChargeInv, Owed
<1>7. Charged'
  BY <1>1, <1>4, ChargedStays DEF ChargeInv
<1> QED
  BY <1>6, <1>7 DEF ChargeInv

\* What the commit adds to the buckets is what it adds to the account.
LEMMA CommitCharges ==
  ASSUME RollInv, ChargeInv, NEW n \in Nodes, CommitIngest(n)
  PROVE  ChargeInv'
<1> DEFINE w == tx[n].writes
           g == [b \in Buckets |-> IF b \in DOMAIN w THEN w[b] ELSE 0]
<1>1. /\ UNCHANGED clock /\ clock \in Nat
      /\ accounted' = accounted + tx[n].bytes
      /\ tx' = [tx EXCEPT ![n] = NoTx]
  BY DEF CommitIngest, RollInv, Formed
<1>2. /\ DOMAIN w \subseteq Buckets
      /\ \A b \in Buckets :
            /\ b \notin DOMAIN w => total'[b] = total[b]
            /\ b \in DOMAIN w => w[b] \in Nat /\ total'[b] = w[b] + total[b]
  BY CommitIngestIs
<1>3. \A b \in Buckets : total[b] \in Nat
  BY DEF RollInv, Formed
<1>4. tx[n].bytes = SumOf(w, DOMAIN w) /\ \A b \in DOMAIN w : b < clock
  BY DEF ChargeInv, Owed
<1>5. accounted = SumOf(total, Buckets) /\ \A b \in Buckets : total[b] # 0 => b < clock
  BY DEF ChargeInv, Charged
<1>6. Owed'
  <2>1. \A m \in Nodes : tx'[m] = NoTx \/ tx'[m] = tx[m]
    BY <1>1 DEF RollInv, Formed
  <2> QED
    BY <1>1, <2>1, OwedStays DEF ChargeInv
<1> HIDE DEF w
<1>7. /\ \A b \in Buckets : g[b] \in Nat
      /\ \A b \in DOMAIN w : w[b] = g[b]
      /\ \A b \in Buckets \ DOMAIN w : g[b] = 0
      /\ \A b \in Buckets : total'[b] = total[b] + g[b]
  BY <1>2, <1>3
<1> HIDE DEF g
<1>8. SumOf(w, DOMAIN w) = SumOf(g, Buckets)
  <2>1. DOMAIN w \in SUBSET Buckets
    BY <1>2
  <2>2. IsFiniteSet(Buckets)
    BY BucketsAreFinite
  <2>3. \A b \in Buckets : g[b] \in Nat
    BY <1>7
  <2>4. \A b \in DOMAIN w : w[b] = g[b]
    BY <1>7
  <2>5. \A b \in Buckets \ DOMAIN w : g[b] = 0
    BY <1>7
  <2> QED
    BY <2>1, <2>2, <2>3, <2>4, <2>5, SumSame
<1>9. SumOf(total', Buckets) = SumOf(total, Buckets) + SumOf(g, Buckets)
  <2>1. IsFiniteSet(Buckets)
    BY BucketsAreFinite
  <2>2. \A b \in Buckets : total[b] \in Nat /\ g[b] \in Nat /\ total'[b] = total[b] + g[b]
    BY <1>3, <1>7
  <2> QED
    BY <2>1, <2>2, SumAdded
<1>10. \A b \in Buckets : total'[b] # 0 => b < clock
  BY <1>2, <1>4, <1>5
<1>11. Charged'
  <2>1. accounted' = SumOf(total', Buckets)
    BY <1>1, <1>4, <1>5, <1>8, <1>9
  <2> QED
    BY <2>1, <1>1, <1>10 DEF Charged, Buckets
<1> QED
  BY <1>6, <1>11 DEF ChargeInv

LEMMA ChargeNext == RollInv /\ ChargeInv /\ [RollupNext]_rollupVars => ChargeInv'
<1> SUFFICES ASSUME RollInv, ChargeInv, [RollupNext]_rollupVars PROVE ChargeInv'
  OBVIOUS
<1>1. clock \in Nat
  BY DEF RollInv, Formed
<1>2. ASSUME UNCHANGED <<accounted, total>>, clock' \in Nat, clock' >= clock,
             \A n \in Nodes : \/ tx'[n] = NoTx
                              \/ tx'[n].bytes = tx[n].bytes /\ tx'[n].writes = tx[n].writes
      PROVE  ChargeInv'
  BY <1>2, OwedStays, ChargedStays DEF ChargeInv
<1>3. CASE ClockTick
  <2>1. clock' = clock + 1 /\ UNCHANGED <<tx, accounted, total>>
    BY <1>3 DEF ClockTick
  <2>2. clock' \in Nat /\ clock' >= clock
    BY <2>1, <1>1
  <2> QED
    BY <2>1, <2>2, <1>2
<1>4. CASE IngestBuckets
  <2>1. PICK n \in Nodes :
           \/ \E from \in {t \in 0..clock : t >= clock - Late}, bytes \in Amounts :
                 from < clock /\ Begin(n, from, clock, bytes)
           \/ \E j \in Jobs : Mark(n, j)
           \/ CommitIngest(n)
           \/ AbortIngest(n)
    BY <1>4 DEF IngestBuckets
  <2>2. CASE \E from \in {t \in 0..clock : t >= clock - Late}, bytes \in Amounts :
                from < clock /\ Begin(n, from, clock, bytes)
    BY <2>2, BeginCharges
  <2>3. CASE \E j \in Jobs : Mark(n, j)
    <3>1. PICK j \in Jobs : Mark(n, j)
      BY <2>3
    <3>2. /\ tx' = [tx EXCEPT ![n].marked = tx[n].marked \union {j}]
          /\ UNCHANGED <<clock, accounted, total>>
      BY <3>1 DEF Mark
    <3>3. \A m \in Nodes : tx'[m].bytes = tx[m].bytes /\ tx'[m].writes = tx[m].writes
      BY <3>2 DEF RollInv, Formed
    <3> QED
      BY <3>2, <3>3, <1>1, <1>2
  <2>4. CASE CommitIngest(n)
    BY <2>4, CommitCharges
  <2>5. CASE AbortIngest(n)
    <3>1. tx' = [tx EXCEPT ![n] = NoTx] /\ UNCHANGED <<clock, accounted, total>>
      BY <2>5 DEF AbortIngest
    <3>2. \A m \in Nodes : tx'[m] = NoTx \/ tx'[m] = tx[m]
      BY <3>1 DEF RollInv, Formed
    <3> QED
      BY <3>1, <3>2, <1>1, <1>2
  <2> QED
    BY <2>1, <2>2, <2>3, <2>4, <2>5
<1>5. CASE Rollup \/ CleanRecords \/ CleanAggregates \/ UNCHANGED rollupVars
  <2>1. UNCHANGED <<clock, tx, accounted, total>>
    BY <1>5 DEF Rollup, Pick, Recompute, CommitRoll, AbortRoll, CleanRecords,
                CleanAggregates, rollupVars
  <2> QED
    BY <2>1, <1>1, <1>2
<1> QED
  BY <1>3, <1>4, <1>5 DEF RollupNext

\* The periods of a grain that began before now hold every byte, each of them once.
LEMMA PeriodsHoldAll ==
  ASSUME RollInv, ChargeInv, NEW grain \in Grains
  PROVE  Sum([j \in Jobs |-> Truth(j)],
             {j \in Jobs : j.grain = grain /\ j.start >= 0 /\ j.start < clock}) = accounted
<1> DEFINE S == {j \in Jobs : j.grain = grain /\ j.start >= 0 /\ j.start < clock}
           g == [j \in Jobs |-> Truth(j)]
           part == [j \in S |-> Inside(j)]
           U == UNION {part[j] : j \in S}
<1>1. S \in SUBSET Jobs
  OBVIOUS
<1>2. IsFiniteSet(S)
  BY <1>1, JobsAreFinite, FS_Subset
<1>3. \A j \in S : part[j] = Inside(j) /\ Inside(j) \in SUBSET Buckets
  BY DEF Inside
<1>4. \A j \in S : g[j] = SumOf(total, part[j])
  <2> SUFFICES ASSUME NEW j \in S PROVE Truth(j) = SumOf(total, Inside(j))
    BY <1>1
  <2> QED
    BY TruthType DEF RollInv
<1>5. ASSUME NEW j \in S, NEW k \in S, j # k PROVE Inside(j) \cap Inside(k) = {}
  <2> SUFFICES ASSUME NEW b \in Inside(j) \cap Inside(k) PROVE FALSE
    OBVIOUS
  <2>1. j.grain = k.grain /\ j \in Jobs /\ k \in Jobs
    OBVIOUS
  <2>2. j.start = k.start
    BY <2>1 DEF Inside
  <2>3. j = [grain |-> j.grain, start |-> j.start] /\ k = [grain |-> k.grain, start |-> k.start]
    BY <2>1, JobIs
  <2> QED
    BY <2>1, <2>2, <2>3, <1>5
<1>6. ASSUME NEW b \in Buckets, total[b] # 0 PROVE b \in U
  <2> DEFINE j == [grain |-> grain, start |-> Start(b, Length[grain])]
  <2>1. b \in Nat /\ clock \in Nat /\ b < clock
    BY <1>6, BucketsAreFinite DEF RollInv, Formed, ChargeInv, Charged
  <2>2. j.start \in Nat /\ j.start <= b
    BY <2>1, Lengths, Starts
  <2>3. j.start >= 0 /\ j.start < clock
    BY <2>1, <2>2
  <2>4. j \in Touched(b) /\ j.grain = grain
    BY DEF Touched
  <2> HIDE DEF j
  <2>5. j \in Jobs /\ b \in Inside(j)
    BY <2>4, TouchedIsAround
  <2>6. j \in S
    BY <2>3, <2>4, <2>5
  <2> QED
    BY <2>5, <2>6, <1>3
<1>7. \A b \in Buckets : total[b] \in Nat
  BY DEF RollInv, Formed
<1>8. U \in SUBSET Buckets
  BY <1>3
<1>9. \A j \in S : part[j] \in SUBSET Buckets
  BY <1>3
<1>10. \A j, k \in S : j # k => part[j] \cap part[k] = {}
  BY <1>3, <1>5
<1> HIDE DEF S, g, part
<1>11. SumOf(g, S) = SumOf(total, U)
  <2>1. IsFiniteSet(Buckets)
    BY BucketsAreFinite
  <2> QED
    BY <2>1, <1>2, <1>4, <1>7, <1>9, <1>10, SumOfParts
<1> HIDE DEF U
<1>12. SumOf(total, U) = SumOf(total, Buckets)
  <2>1. \A b \in Buckets \ U : total[b] = 0
    BY <1>6
  <2>2. IsFiniteSet(Buckets)
    BY BucketsAreFinite
  <2> QED
    BY <2>1, <2>2, <1>7, <1>8, SumNonZero
<1>13. accounted = SumOf(total, Buckets)
  BY DEF ChargeInv, Charged
<1>14. Sum(g, S) = accounted
  BY <1>11, <1>12, <1>13, SumIsSum
<1> QED
  BY <1>14 DEF S, g

LEMMA AnswersAreCharged == RollInv /\ ChargeInv => AccountsAgree
<1> SUFFICES ASSUME RollInv, ChargeInv,
                    NEW grain \in {"5m", "1h", "1d"}, Answerable(0, clock, grain),
                    grain # "5m" => \A j \in Jobs : jobs[j] = 0
             PROVE  Answer(0, clock, grain) = accounted
  BY DEF AccountsAgree
<1>1. clock \in Nat /\ 0 >= clock - Keep[grain]
  BY DEF RollInv, Formed, Answerable
<1>2. CASE grain = "5m"
  <2> DEFINE S == {b \in Buckets : b >= 0 /\ b < clock}
  <2>1. Answer(0, clock, "5m") = Sum(total, S)
    BY <1>1, <1>2, RecordsAnswer
  <2>2. S \in SUBSET Buckets
    OBVIOUS
  <2>3. \A b \in Buckets : total[b] \in Nat
    BY DEF RollInv, Formed
  <2>4. \A b \in Buckets \ S : total[b] = 0
    <3> SUFFICES ASSUME NEW b \in Buckets, total[b] # 0 PROVE b \in S
      OBVIOUS
    <3>1. b \in Nat /\ b < clock
      BY BucketsAreFinite DEF ChargeInv, Charged
    <3> QED
      BY <3>1
  <2> HIDE DEF S
  <2>5. IsFiniteSet(Buckets)
    BY BucketsAreFinite
  <2>6. SumOf(total, S) = SumOf(total, Buckets)
    BY <2>2, <2>3, <2>4, <2>5, SumNonZero
  <2>7. accounted = SumOf(total, Buckets)
    BY DEF ChargeInv, Charged
  <2> QED
    BY <1>2, <2>1, <2>6, <2>7, SumIsSum
<1>3. CASE grain # "5m"
  <2>1. grain \in Grains
    BY <1>3 DEF Grains
  <2>2. Answer(0, clock, grain)
          = Sum([j \in Jobs |-> Truth(j)],
                {j \in Jobs : j.grain = grain /\ j.start >= 0 /\ j.start < clock})
    BY <2>1, <1>1, <1>3, AggregatesAnswer
  <2> QED
    BY <2>1, <2>2, PeriodsHoldAll
<1> QED
  BY <1>2, <1>3

\* RollInv: records, dirty periods, aggregates and the transactions of Ingest and Rollup
\* agree with what was committed, through every interleaving, abort and cleanup.
THEOREM RollInvariant == RollupSpec => []RollInv
<1>1. RollupSpec => RollupInit /\ [][RollupNext]_(rollupVars)
  BY DEF RollupSpec
<1>2. RollupInit => RollInv
  BY RollInit
<1>3. RollInv /\ [RollupNext]_(rollupVars) => RollInv'
  BY RollNext
<1> QED
  BY <1>1, <1>2, <1>3, PTL

\* AggregatesAgree: a clean period that is not too old to be kept shows every byte
\* committed for it, in whatever order reports, roll-up and cleanup come.
THEOREM FiguresAgree == RollupSpec => []AggregatesAgree
<1>1. RollInv => AggregatesAgree
  BY DEF RollInv
<1> QED
  BY <1>1, RollInvariant, PTL

\* QueryIsComplete: a query that ParseQuery lets pass, with no period dirty, adds up
\* every byte of the periods it names.
THEOREM QueriesAreComplete == RollupSpec => []QueryIsComplete
<1>1. RollInv => QueryIsComplete
  BY AnswersAgree
<1> QED
  BY <1>1, RollInvariant, PTL

\* AccountsAgree: a query over all time that is answered, with no period dirty, shows
\* exactly the bytes the accounts were charged.
THEOREM FiguresAreCharged == RollupSpec => []AccountsAgree
<1>1. RollupSpec => RollupInit /\ [][RollupNext]_(rollupVars)
  BY DEF RollupSpec
<1>2. RollupInit => ChargeInv
  BY ChargeInit
<1>3. RollInv /\ ChargeInv /\ [RollupNext]_(rollupVars) => ChargeInv'
  BY ChargeNext
<1>4. RollInv /\ ChargeInv => AccountsAgree
  BY AnswersAreCharged
<1> QED
  BY <1>1, <1>2, <1>3, <1>4, RollInvariant, PTL
================================================================================
