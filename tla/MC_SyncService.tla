--------------------------- MODULE MC_SyncService ---------------------------
(***************************************************************************)
(* Instances of SyncService for TLC.  The requests are interchangeable,    *)
(* and so are the run ids: nothing orders them.                            *)
(***************************************************************************)
EXTENDS SyncService, TLC

Symmetry == Permutations(Requests) \cup Permutations(RunIds)

=============================================================================
