------------------------------ MODULE MCPlayer ------------------------------
(* Two sample formats, "std" and one with more bytes per second. *)
EXTENDS Player

MCFormats == {"std", "hires"}

\* 250 ms of either format: one chunk for the usual one, two of high resolution
MCPrebufferChunks == [f \in MCFormats |-> IF f = "std" THEN 1 ELSE 2]

MCNoSpeed == AllCommands \ {"setSpeed"}
=============================================================================
