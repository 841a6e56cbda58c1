-------------------------- MODULE MC_SyncOverGraph --------------------------
(* Instance of SyncOverGraph for TLC.                                       *)
EXTENDS SyncOverGraph, TLC

=============================================================================
