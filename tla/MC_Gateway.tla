----------------------------- MODULE MC_Gateway -----------------------------
(* Instance of Gateway for TLC.  The clients are interchangeable, and so    *)
(* are the keys.                                                           *)
EXTENDS Gateway, TLC

Symmetry == Permutations(Sessions) \cup Permutations(Keys)

=============================================================================
