------------------------------- MODULE Sketch --------------------------------
(***************************************************************************)
(* The sketch of native/src/lib.rs: the smallest of the permuted values of *)
(* the keys, once for each of PERMUTATIONS permutations, of which the low  *)
(* bits are kept, four to a byte; and how digest.py reads them back.       *)
(*                                                                         *)
(* The arithmetic keeps its widths: with e bits to the modulus, BASE is    *)
(* 2^e (2^61) and a machine word holds values below BASE * HEADROOM (2^64, *)
(* 8 times as much).                                                       *)
(***************************************************************************)
EXTENDS Integers

CONSTANTS
    BASE, HEADROOM,  \* MODULUS + 1, and what a word holds beyond it
    PERMUTATIONS,    \* slots of a sketch, a multiple of the slots of a byte
    Coefficients     \* coefficients(): a multiplier and an offset for each

MODULUS == BASE - 1
WORD == BASE * HEADROOM
SLOTS == 4           \* 1 << SLOT_BITS
PER_BYTE == 4        \* u8::BITS / SLOT_BITS
BYTE == 256
SKETCH_BYTES == PERMUTATIONS \div PER_BYTE

Multipliers == 1 .. MODULUS - 1
Values == 0 .. MODULUS - 1

ASSUME SketchAssumption ==
    /\ BASE \in Nat /\ BASE >= 4 /\ HEADROOM \in Nat /\ HEADROOM >= 2
    /\ PERMUTATIONS \in Nat \ {0} /\ PERMUTATIONS % PER_BYTE = 0
    /\ Coefficients \in [1 .. PERMUTATIONS -> Multipliers \X Values]

\* x & MODULUS and x >> 61
Low(x) == x % BASE
High(x) == x \div BASE

\* One step of the reduction, as BASE and 1 are equal modulo MODULUS.
Fold(low, high) == (Low(low) + High(high)) % WORD

\* Mutant: the last subtraction is left out.
PermuteUnreduced(multiplier, offset, value) ==
    LET product == multiplier * value + offset
        folded == Fold(product % WORD, product)
    IN  Fold(folded, folded)

\* The product is twice as wide as a word, and cut to one for its low bits.
Permute(multiplier, offset, value) ==
    LET product == multiplier * value + offset
        folded == Fold(product % WORD, product)
        reduced == Fold(folded, folded)
    IN  IF reduced >= MODULUS THEN reduced - MODULUS ELSE reduced

\* The smallest value of each permutation, at first MODULUS.
Smallest(values) ==
    [i \in 1 .. PERMUTATIONS |->
        LET permuted == {MODULUS} \cup
                {Permute(Coefficients[i][1], Coefficients[i][2], v) : v \in values}
        IN  CHOOSE m \in permuted : \A n \in permuted : m <= n]

\* Byte j of the sketch: its slots shifted in from the right.
Packed(smallest, j) ==
    LET byte[k \in 0 .. PER_BYTE] ==
            IF k = 0 THEN 0
            ELSE ((byte[k - 1] * SLOTS) % BYTE) + (smallest[PER_BYTE * (j - 1) + k] % SLOTS)
    IN  byte[PER_BYTE]

\* The bytes follow each other in the text, and parse reads it as a number.
Body(smallest) ==
    LET number[j \in 0 .. SKETCH_BYTES] ==
            IF j = 0 THEN 0 ELSE number[j - 1] * BYTE + Packed(smallest, j)
    IN  number[SKETCH_BYTES]

\* Of the values of the keys.
SketchOf(values) == Body(Smallest(values))

\* Without the last n digits of the base: to_bytes, and >>
Shifted(x, base, n) ==
    LET rest[k \in 0 .. n] == IF k = 0 THEN x ELSE rest[k - 1] \div base
    IN  rest[n]

\* unpack: the bytes from the big end, and one column for each place in a byte.
Unpack(body) ==
    LET raw(j) == Shifted(body, BYTE, SKETCH_BYTES - j) % BYTE
        column(byte, place) == Shifted(byte, SLOTS, PER_BYTE - place) % SLOTS
    IN  [i \in 1 .. PERMUTATIONS |->
            column(raw(((i - 1) \div PER_BYTE) + 1), ((i - 1) % PER_BYTE) + 1)]
=============================================================================
