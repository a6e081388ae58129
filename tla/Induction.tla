------------------------------ MODULE Induction ------------------------------
(***************************************************************************)
(* Induction and what it gives, said of sets and functions: every set of   *)
(* numbers has a least one, a function may be defined by recursion on its  *)
(* argument, a finite set in which any two elements are ordered has a      *)
(* first one and can be listed in order.  The library states these of      *)
(* operators, which a proof cannot supply; all that is needed of it here   *)
(* is that the subsets of a set are well-founded.                          *)
(***************************************************************************)
EXTENDS Integers, FiniteSets, FiniteSetTheorems, TLAPS

\* A set of natural numbers has a least one: initial segments 1 .. n are
\* ordered by inclusion, which is well-founded.
LEMMA Least ==
    ASSUME NEW S \in SUBSET Nat, S # {}
    PROVE  \E n \in S : \A m \in S : n <= m
<1> DEFINE T == {1 .. n : n \in S}
           R == StrictSubsetOrdering(Nat)
<1>1. IsWellFoundedOn(R, FiniteSubsetsOf(Nat))
    BY FS_StrictSubsetOrderingWellFounded
<1>2. T \subseteq FiniteSubsetsOf(Nat) /\ T # {}
    <2>1. \A n \in S : IsFiniteSet(1 .. n) /\ 1 .. n \subseteq Nat
        BY FS_Interval
    <2> QED
        BY <2>1 DEF FiniteSubsetsOf
<1>3. PICK x \in T : \A y \in T : <<y, x>> \notin R
    <2> HIDE DEF T, R
    <2> QED
        BY <1>1, <1>2, WFMin
<1>4. PICK n \in S : x = 1 .. n
    BY <1>3
<1>5. ASSUME NEW m \in S, m < n PROVE FALSE
    <2>1. 1 .. m \subseteq 1 .. n /\ n \in 1 .. n /\ n \notin 1 .. m
        BY <1>5
    <2>2. <<1 .. m, 1 .. n>> \in R
        BY <2>1 DEF StrictSubsetOrdering
    <2> QED
        BY <1>3, <1>4, <2>2
<1> QED
    BY <1>5

\* Induction over the natural numbers, of a set.
LEMMA Induct ==
    ASSUME NEW S, 0 \in S, \A n \in Nat : n \in S => n + 1 \in S
    PROVE  Nat \subseteq S
<1> DEFINE bad == Nat \ S
<1>1. SUFFICES ASSUME bad # {} PROVE FALSE
    OBVIOUS
<1>2. PICK n \in bad : \A m \in bad : n <= m
    <2>1. bad \subseteq Nat
        OBVIOUS
    <2> HIDE DEF bad
    <2> QED
        BY <1>1, <2>1, Least
<1>3. n # 0 /\ n - 1 \in Nat /\ n - 1 \notin bad
    BY <1>2
<1> QED
    BY <1>2, <1>3

\* f starts at start and goes on by step.
Runs(f, n, V, start, step) ==
    /\ f \in [0 .. n -> V]
    /\ f[0] = start /\ \A i \in 1 .. n : f[i] = step[i][f[i - 1]]

\* A function on 0 .. n may be defined by its first value and a step from each
\* value to the next.
LEMMA Recursion ==
    ASSUME NEW n \in Nat, NEW V, NEW start \in V, NEW step \in [1 .. n -> [V -> V]]
    PROVE  \E f : Runs(f, n, V, start, step)
<1> DEFINE Defined(f, k) == f[0] = start /\ \A i \in 1 .. k : f[i] = step[i][f[i - 1]]
           S == {k \in Nat : k <= n => \E f \in [0 .. k -> V] : Defined(f, k)}
<1>1. 0 \in S
    <2> DEFINE f == [i \in 0 .. 0 |-> start]
    <2>1. f \in [0 .. 0 -> V] /\ f[0] = start /\ 1 .. 0 = {}
        OBVIOUS
    <2> HIDE DEF f
    <2>2. Defined(f, 0)
        BY <2>1
    <2> QED
        BY <2>1, <2>2
<1>2. ASSUME NEW k \in Nat, k \in S PROVE k + 1 \in S
    <2>1. SUFFICES ASSUME k + 1 <= n PROVE \E f \in [0 .. k + 1 -> V] : Defined(f, k + 1)
        OBVIOUS
    <2>2. PICK f \in [0 .. k -> V] : Defined(f, k)
        BY <1>2, <2>1
    <2> DEFINE g == [i \in 0 .. k + 1 |-> IF i <= k THEN f[i] ELSE step[k + 1][f[k]]]
    <2>3. step[k + 1][f[k]] \in V
        BY <2>1
    <2>4. g \in [0 .. k + 1 -> V] /\ g[0] = start
        BY <2>2, <2>3
    <2>5. ASSUME NEW i \in 1 .. k + 1 PROVE g[i] = step[i][g[i - 1]]
        BY <2>2
    <2> QED
        BY <2>4, <2>5
<1>3. n \in S
    <2> HIDE DEF S
    <2> QED
        BY <1>1, <1>2, Induct
<1> QED
    BY <1>3 DEF Runs

\* R orders any two elements of S, one way only.
Orders(R, S) ==
    /\ \A x, y \in S : x # y => <<x, y>> \in R \/ <<y, x>> \in R
    /\ \A x, y \in S : ~(<<x, y>> \in R /\ <<y, x>> \in R)
    /\ \A x, y, z \in S : <<x, y>> \in R /\ <<y, z>> \in R => <<x, z>> \in R

\* A finite set has a first element.
LEMMA FirstOf ==
    ASSUME NEW S, IsFiniteSet(S), S # {}, NEW R, Orders(R, S)
    PROVE  \E x \in S : \A y \in S \ {x} : <<x, y>> \in R
<1> DEFINE Has(T) == \E x \in T : \A y \in T \ {x} : <<x, y>> \in R
           N == {n \in Nat : \A T \in SUBSET S : Cardinality(T) = n + 1 => Has(T)}
<1>1. \A T \in SUBSET S : IsFiniteSet(T) /\ Cardinality(T) \in Nat
    BY FS_Subset, FS_CardinalityType
<1>2. 0 \in N
    <2> SUFFICES ASSUME NEW T \in SUBSET S, Cardinality(T) = 1 PROVE Has(T)
        OBVIOUS
    <2>1. PICK x : T = {x}
        BY <1>1, FS_Singleton
    <2> QED
        BY <2>1
<1>3. ASSUME NEW n \in Nat, n \in N PROVE n + 1 \in N
    <2> SUFFICES ASSUME NEW T \in SUBSET S, Cardinality(T) = n + 2 PROVE Has(T)
        OBVIOUS
    <2>1. PICK z \in T : TRUE
        BY <1>1, FS_EmptySet
    <2>2. Cardinality(T \ {z}) = n + 1
        BY <1>1, <2>1, FS_RemoveElement
    <2>3. PICK x \in T \ {z} : \A y \in (T \ {z}) \ {x} : <<x, y>> \in R
        BY <1>3, <2>2
    <2>4. CASE <<x, z>> \in R
        BY <2>3, <2>4
    <2>5. CASE <<z, x>> \in R
        <3>1. ASSUME NEW y \in T \ {z} PROVE <<z, y>> \in R
            BY <2>3, <2>5 DEF Orders
        <3> QED
            BY <2>1, <3>1
    <2> QED
        BY <2>1, <2>3, <2>4, <2>5 DEF Orders
<1>4. Cardinality(S) # 0
    BY FS_EmptySet
<1>5. Cardinality(S) - 1 \in N
    <2>1. Cardinality(S) - 1 \in Nat
        BY <1>1, <1>4
    <2> HIDE DEF N
    <2> QED
        BY <1>2, <1>3, <2>1, Induct
<1> QED
    BY <1>1, <1>5
=============================================================================
