------------------------------ MODULE MCWorker -------------------------------
(* Values for the constants of Worker.                                     *)
EXTENDS Worker

MCPlatforms == {"linux", "windows", "macos"}
\* No hard limit, and one that the second budget exceeds.
MCHards == {Infinity, 4}
=============================================================================
