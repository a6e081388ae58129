----------------------------- MODULE MCShingles ------------------------------
(* Three mnemonics of which two share a root, lists compacted early, words *)
(* of 6 bits with 3 to the modulus, and two bytes of slots.                *)
EXTENDS Shingles

MCRoot == <<0, 127, 127>>
MCh64(k) == (11 * k + 5) % 64
MCCoefficients == <<<<1, 0>>, <<2, 3>>, <<3, 6>>, <<6, 6>>, <<6, 0>>, <<5, 1>>, <<4, 2>>, <<1, 5>>>>
=============================================================================
