------------------------------ MODULE MCExpand -------------------------------
(* Values for the constants of Expand.                                     *)
EXTENDS Expand, TLC

\* The working directory, and an entry of it before or after.
MCArguments == {<< <<>> >>, << <<>>, <<1>> >>, << <<1>>, <<>> >>}
MCSymmetry == Permutations(Files)
=============================================================================
