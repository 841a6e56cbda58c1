--------------------------- MODULE MC_PolicyReload ---------------------------
(* An instance of PolicyReload for TLC.  CatchesUp is a liveness property,  *)
(* so no symmetry is declared.                                              *)
EXTENDS PolicyReload, TLC

=============================================================================
