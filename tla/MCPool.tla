------------------------------- MODULE MCPool --------------------------------
(* Instances of the worker pool for TLC: three files on two workers.       *)
EXTENDS Pool

\* Everything that can go wrong short of the parent being killed.
MCAllFaults == {"die", "stillborn", "start", "unpickle", "interrupt", "close"}

\* All of it but Ctrl-C, which may end the batch at any line.
MCLiveFaults == {"die", "stillborn", "start", "unpickle", "close"}

\* What may end the parent or the batch; workers die of their alarms.
MCOrphanFaults == {"stillborn", "start", "unpickle", "interrupt", "parent"}
=============================================================================
