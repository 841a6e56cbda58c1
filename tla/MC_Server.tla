----------------------------- MODULE MC_Server ------------------------------
(* Instance of Server for TLC.                                             *)
EXTENDS Server

=============================================================================
