------------------------------ MODULE ICTable ------------------------------
(***************************************************************************)
(* The table of input contexts (src/IC.c): a list of records searched from *)
(* the newest, a list of free records, and a 16-bit counter of ids.        *)
(*                                                                         *)
(* An application blocks on the reply of each request, and the server      *)
(* handles one request at a time: a request and its handler are one step.  *)
(* The records belong to no connection, so those of a client that          *)
(* disconnects or dies stay in the list for ever.                          *)
(***************************************************************************)
EXTENDS Naturals, Sequences, SequencesExt

CONSTANTS IdLimit,    \* number of different ids: 2^16, a CARD16
          MaxCreate,  \* bound: contexts created
          Attr,       \* the attributes GetIC reads back from the record
          Value,      \* values an application gives them
          Unset       \* what memset leaves in a record

ASSUME ICTableAssumption == /\ IdLimit \in Nat \ {0}
                            /\ MaxCreate \in Nat
                            /\ Unset \notin Value

VARIABLES ic_list,    \* the records in use, the newest first
          free_list,  \* the records DestroyIC gave back, the last one first
          icid,       \* the id given last
          contexts    \* contexts[x]: id and fate of the x-th context (history)

vars == <<ic_list, free_list, icid, contexts>>

-----------------------------------------------------------------------------
Blank == [a \in Attr |-> Unset]

(* Position of the newest record with this id, 0 if there is none. *)
FindIC(id) == SelectInSeq(ic_list, LAMBDA rec : rec.id = id)

(* The attributes named in a request; one request may name several. *)
Changes == UNION {[A -> Value] : A \in SUBSET Attr}

StoreIC(rec, v) == [rec EXCEPT !.values = [a \in Attr |->
                       IF a \in DOMAIN v THEN v[a] ELSE @[a]]]

(* Mutant: memset is forgotten. *)
StaleIC(id) == IF free_list = <<>>
               THEN [id |-> id, values |-> Blank, IC_SHOW |-> FALSE]
               ELSE [Head(free_list) EXCEPT !.id = id]

(* A record taken from free_list is cleared like one from malloc. *)
NewIC(id) == [id |-> id, values |-> Blank, IC_SHOW |-> FALSE]

NextId == (icid + 1) % IdLimit

(* DeleteIC, for the record at position i. *)
Unlink(i) == RemoveAt(ic_list, i)

Held == {x \in DOMAIN contexts : contexts[x].life = "held"}

Init == /\ ic_list = <<>>
        /\ free_list = <<>>
        /\ icid = 0
        /\ contexts = <<>>

-----------------------------------------------------------------------------
CreateIC ==
    /\ Len(contexts) < MaxCreate
    /\ icid' = NextId
    /\ \E v \in Changes : ic_list' = Cons(StoreIC(NewIC(NextId), v), ic_list)
    /\ free_list' = IF free_list = <<>> THEN <<>> ELSE Tail(free_list)
    /\ contexts' = Append(contexts, [id |-> NextId, life |-> "held"])

SetIC(x) ==
    LET i == FindIC(contexts[x].id)
    IN  /\ i # 0
        /\ \E v \in Changes : ic_list' = [ic_list EXCEPT ![i] = StoreIC(@, v)]
        /\ UNCHANGED <<free_list, icid, contexts>>

(* IC_SHOW, set by IxmTriggerNotifyHandler, cleared by a RealTrigger key. *)
SetShow(x) ==
    LET i == FindIC(contexts[x].id)
    IN  /\ i # 0
        /\ \E show \in BOOLEAN : ic_list' = [ic_list EXCEPT ![i].IC_SHOW = show]
        /\ UNCHANGED <<free_list, icid, contexts>>

DestroyIC(x) ==
    LET i == FindIC(contexts[x].id)
    IN  /\ IF i # 0
           THEN /\ ic_list' = Unlink(i)
                /\ free_list' = Cons(ic_list[i], free_list)
           ELSE UNCHANGED <<ic_list, free_list>>
        /\ contexts' = [contexts EXCEPT ![x].life = "destroyed"]
        /\ UNCHANGED icid

(* Its client closes, disconnects or dies: nothing deletes the record. *)
Abandon(x) ==
    /\ contexts' = [contexts EXCEPT ![x].life = "abandoned"]
    /\ UNCHANGED <<ic_list, free_list, icid>>

Requests == \E x \in Held : SetIC(x) \/ SetShow(x) \/ DestroyIC(x) \/ Abandon(x)

Next == CreateIC \/ Requests

Spec == Init /\ [][Next]_vars

(* No application holds a context while IdLimit others are created. *)
IdIsFree == \A x \in Held : contexts[x].id # NextId

FreshNext == (IdIsFree /\ CreateIC) \/ Requests

FreshSpec == Init /\ [][FreshNext]_vars

-----------------------------------------------------------------------------
(* Properties. *)

(* The record a context is served with, read through its id as GetIC does.  *)
Life(x) == IF x \notin DOMAIN contexts THEN "new"
           ELSE IF contexts[x].life = "held" THEN "held" ELSE "gone"
Record(x) == ic_list[FindIC(contexts[x].id)]

Abstract == INSTANCE Contexts WITH
    Context <- 1 .. MaxCreate,
    life <- [x \in 1 .. MaxCreate |-> Life(x)],
    values <- [x \in 1 .. MaxCreate |->
                  IF Life(x) = "held" THEN Record(x).values ELSE Blank],
    shown <- [x \in 1 .. MaxCreate |-> Life(x) = "held" /\ Record(x).IC_SHOW]

(* An application reads back what it set, and no context inherits the       *)
(* values or the IC_SHOW of the record it reuses nor suffers from requests  *)
(* on another, even after the ids have wrapped, unless an application still *)
(* holds the context whose id comes round (IdIsFree).  A context left       *)
(* behind by a dead client is no obstacle: the newer one is found first.    *)
ImplementsContexts == Abstract!Spec
=============================================================================
