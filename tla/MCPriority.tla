----------------------------- MODULE MCPriority -----------------------------
(***************************************************************************)
(* Instances of Priority for TLC.                                          *)
(***************************************************************************)
EXTENDS Priority

\* All priorities that are valid with MaxPrio = 2, and invalid ones on both
\* sides, of which 4 is above the initial highest_priority.
PrioArgsTried == {-1, 0, 1, 2, 4}
=============================================================================
