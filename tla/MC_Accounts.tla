---------------------------- MODULE MC_Accounts ----------------------------
(* Instance of Accounts for TLC.  The processes are interchangeable, and so *)
(* are the names.                                                          *)
EXTENDS Accounts, TLC

Symmetry == Permutations(Procs) \cup Permutations(Names)

=============================================================================
