----------------------------- MODULE Selection -----------------------------
(***************************************************************************)
(* The entries of a sequence at given positions, in their order.  It is    *)
(* SelectSeq, with the test replaced by the positions that pass it and the *)
(* recursion by counting, so that it can be reasoned about.                *)
(***************************************************************************)
EXTENDS Naturals, Sequences, FiniteSets

(* How many of the positions I are not behind i. *)
Rank(I, i) == Cardinality({j \in I : j <= i})

SelectAt(s, I) == [k \in 1 .. Cardinality(I) |-> s[CHOOSE i \in I : Rank(I, i) = k]]
=============================================================================
