------------------------------- MODULE MCKnown -------------------------------
(* Sketches of two slots that agree in none, one or two of them, and sizes  *)
(* on both sides of the 4x limit.                                           *)
EXTENDS Known

MCSlots == {<<0, 0>>, <<0, 1>>, <<1, 1>>}

MCSketches ==
    [target : {"pe64"}, cardinality : {4}, slots : MCSlots]
    \cup [target : {"pe64"}, cardinality : {1}, slots : {<<0, 0>>}]
    \cup [target : {"elf64"}, cardinality : {4}, slots : {<<0, 0>>, <<0, 1>>}]

MCGiven ==
    [target : {"pe64"}, cardinality : {0, 1, 4, 5}, slots : MCSlots]
    \cup [target : {"elf32"}, cardinality : {4}, slots : {<<0, 0>>}]

MCMinimums == {<<0, 1>>, <<1, 3>>}
=============================================================================
