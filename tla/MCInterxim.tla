----------------------------- MODULE MCInterxim -----------------------------
(* Model checking Interxim: one client, or two that share the window and   *)
(* the dead key.                                                           *)
EXTENDS Interxim, TLC

(* Nothing tells one connection from another. *)
Symmetry == Permutations(Client)
=============================================================================
