---------------------------- MODULE MCOfflineQueue ----------------------------
(* Small phones for TLC. *)
EXTENDS OfflineQueue, TLC
=============================================================================
