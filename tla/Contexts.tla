------------------------------ MODULE Contexts ------------------------------
(***************************************************************************)
(* What an application may expect of its input contexts, whatever ids and  *)
(* records serve them: each context starts blank, keeps what is set on it  *)
(* and is touched by nobody else's requests.                               *)
(*                                                                         *)
(* ICTable implements this specification (see Abstract there).             *)
(***************************************************************************)
EXTENDS Naturals

CONSTANTS Context,    \* the contexts created, one after the other
          Attr,       \* attributes of an input context
          Value,      \* values an application gives them
          Unset       \* what an attribute holds until it is set

VARIABLES life,       \* life[x]: "new", "held" or "gone"
          values,     \* values[x]: the attributes of a held context
          shown       \* shown[x]: x wants the converter window

vars == <<life, values, shown>>

Blank == [a \in Attr |-> Unset]

Init == /\ life = [x \in Context |-> "new"]
        /\ values = [x \in Context |-> Blank]
        /\ shown = [x \in Context |-> FALSE]

Change(x, v) == values' = [values EXCEPT ![x] = [a \in Attr |->
                              IF a \in DOMAIN v THEN v[a] ELSE @[a]]]

Create(x, v) == /\ life[x] = "new"
                /\ life' = [life EXCEPT ![x] = "held"]
                /\ Change(x, v)
                /\ UNCHANGED shown

Set(x, v) == /\ life[x] = "held"
             /\ Change(x, v)
             /\ UNCHANGED <<life, shown>>

Show(x, wanted) == /\ life[x] = "held"
                   /\ shown' = [shown EXCEPT ![x] = wanted]
                   /\ UNCHANGED <<life, values>>

(* Destroyed by the application, or left behind by it. *)
Drop(x) == /\ life[x] = "held"
           /\ life' = [life EXCEPT ![x] = "gone"]
           /\ values' = [values EXCEPT ![x] = Blank]
           /\ shown' = [shown EXCEPT ![x] = FALSE]

Changes == UNION {[A -> Value] : A \in SUBSET Attr}

Next == \E x \in Context : \/ \E v \in Changes : Create(x, v) \/ Set(x, v)
                           \/ \E wanted \in BOOLEAN : Show(x, wanted)
                           \/ Drop(x)

Spec == Init /\ [][Next]_vars
=============================================================================
