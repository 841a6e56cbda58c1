------------------------- MODULE MC_SnapshotHistory -------------------------
(***************************************************************************)
(* SnapshotHistory on two markets, two ticks a day and ranges of two days. *)
(***************************************************************************)
EXTENDS SnapshotHistory

=============================================================================
