---------------------------- MODULE MCTransport ----------------------------
(* Model checking Transport and ClientTable with few ids and few numbers, so that
   both counters wrap. *)
EXTENDS Transport

(* Nothing tells one window or one byte order from another. *)
Symmetry == Permutations(Window) \cup Permutations(ByteOrder)
=============================================================================
