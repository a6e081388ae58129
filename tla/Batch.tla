-------------------------------- MODULE Batch --------------------------------
(***************************************************************************)
(* What eous promises of one batch of files: every file is settled at most *)
(* once and for good, the verdicts come out in the order the files were    *)
(* named, and the batch may be abandoned at any time.  Pool.tla is shown   *)
(* to implement this; Hash.tla builds the command line on top of it.       *)
(***************************************************************************)
EXTENDS Naturals, Sequences

CONSTANTS N, Kinds

Files == 1 .. N
Pending == "pending"

VARIABLES verdict,  \* what became of each file
          out,      \* the analyses handed to the caller, in order
          open      \* the generator still runs

vars == <<verdict, out, open>>

Init ==
    /\ verdict = [f \in Files |-> Pending]
    /\ out = <<>>
    /\ open = TRUE

\* A file is settled: a worker answered, crashed or overran.
Decide ==
    /\ open
    /\ \E f \in Files, k \in Kinds :
          verdict[f] = Pending /\ verdict' = [verdict EXCEPT ![f] = k]
    /\ UNCHANGED <<out, open>>

\* The next file in the caller's order is handed out, once it is settled.
Emit ==
    /\ open
    /\ Len(out) < N
    /\ LET f == Len(out) + 1 IN
          /\ verdict[f] # Pending
          /\ out' = Append(out, [of |-> f, kind |-> verdict[f]])
    /\ UNCHANGED <<verdict, open>>

\* The batch ends: complete, abandoned by the caller, or failed.
Close ==
    /\ open
    /\ open' = FALSE
    /\ UNCHANGED <<verdict, out>>

Next == Decide \/ Emit \/ Close

Spec == Init /\ [][Next]_vars
=============================================================================
