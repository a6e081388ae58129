-------------------------------- MODULE Score --------------------------------
(***************************************************************************)
(* How digest.py scores two sketches.  Scores are fractions <<n, d>> with  *)
(* d > 0, 1 standing for 100%; the code computes them in floating point    *)
(* and rounds only what it prints.  The margin of error is left out.       *)
(***************************************************************************)
EXTENDS Integers, FiniteSets

CONSTANTS
    PERMUTATIONS,  \* slots of a sketch
    SLOTS          \* values of a slot, 2^SLOT_BITS

ASSUME ScoreAssumption == PERMUTATIONS \in Nat \ {0} /\ SLOTS \in Nat \ {0, 1}

MAX_CONTAINMENT_RATIO == 4

Smaller(a, b) == IF a <= b THEN a ELSE b
Larger(a, b) == IF a <= b THEN b ELSE a

Leq(x, y) == x[1] * y[2] <= y[1] * x[2]
Equal(x, y) == Leq(x, y) /\ Leq(y, x)
One == <<1, 1>>

Agreed(a, b) == Cardinality({i \in 1 .. PERMUTATIONS : a.slots[i] = b.slots[i]})

\* Chance agreement comes off: (agreed - FLOOR) / (1 - FLOOR), at least 0.
Corrected(agreed) ==
    <<Larger(0, agreed * SLOTS - PERMUTATIONS), PERMUTATIONS * (SLOTS - 1)>>

\* Mutant: the row over the query, whichever is larger.
BoundUnsorted(l, r) == IF r > 0 THEN <<l, r>> ELSE One

\* No Jaccard index exceeds the smaller cardinality over the larger.
Bound(l, r) == IF Larger(l, r) > 0 THEN <<Smaller(l, r), Larger(l, r)>> ELSE One

\* Mutant: the bound is forgotten.
SimilarityUnbounded(a, b) == Corrected(Agreed(a, b))

\* score, of one row
Similarity(a, b) ==
    LET corrected == Corrected(Agreed(a, b))
        bound == Bound(a.cardinality, b.cardinality) IN
    IF Leq(corrected, bound) THEN corrected ELSE bound

Withheld == <<>>

\* _containment: the share of the left found in the right and the converse.
\* The code also cuts both at 100%, which only rounding can exceed.
Containment(jaccard, l, r) ==
    IF Smaller(l, r) = 0 \/ Larger(l, r) > Smaller(l, r) * MAX_CONTAINMENT_RATIO
    THEN Withheld
    ELSE LET shared == jaccard[1] * (l + r)
             all == jaccard[1] + jaccard[2] IN
         <<<<shared, all * l>>, <<shared, all * r>>>>

\* compare, of two digests of one target
Scores(left, right) ==
    LET similarity == Similarity(left, right) IN
    [similarity |-> similarity,
     containment |-> Containment(similarity, left.cardinality, right.cardinality)]
=============================================================================
