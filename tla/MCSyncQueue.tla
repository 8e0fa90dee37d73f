---------------------------- MODULE MCSyncQueue ----------------------------
(* Model checking SyncQueue: one connect id reused by successive clients,  *)
(* or two clients whose messages interleave.                               *)
EXTENDS SyncQueue, TLC

(* Nothing tells one connect id from another. *)
Symmetry == Permutations(Client)
=============================================================================
