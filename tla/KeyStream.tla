----------------------------- MODULE KeyStream -----------------------------
(***************************************************************************)
(* What the input method promises a client about the key events it         *)
(* forwards, whatever the synchronisation below does: every key of a       *)
(* connection is handled, once, in the order typed, and what a key         *)
(* produces reaches the client before anything a later key produces.       *)
(*                                                                         *)
(* SyncQueue implements this specification (see Stream there).             *)
(***************************************************************************)
EXTENDS Naturals, Sequences

CONSTANTS Client,     \* the connect ids
          MaxKey,     \* bound: keys forwarded during one connection
          MaxAnswer   \* bound: messages one key event is answered with

VARIABLES open,       \* open[c]: c names a connection
          typed,      \* typed[c]: number of keys forwarded so far
          waiting,    \* waiting[c]: keys forwarded and not handled, oldest first
          answers     \* answers[c]: for each message to the client, its key

vars == <<open, typed, waiting, answers>>

Init == /\ open = [c \in Client |-> FALSE]
        /\ typed = [c \in Client |-> 0]
        /\ waiting = [c \in Client |-> <<>>]
        /\ answers = [c \in Client |-> <<>>]

(* A connection starts with nothing typed and nothing on its way. *)
Open(c) == /\ ~open[c]
           /\ open' = [open EXCEPT ![c] = TRUE]
           /\ typed' = [typed EXCEPT ![c] = 0]
           /\ waiting' = [waiting EXCEPT ![c] = <<>>]
           /\ answers' = [answers EXCEPT ![c] = <<>>]

Type(c) == /\ open[c]
           /\ typed[c] < MaxKey
           /\ typed' = [typed EXCEPT ![c] = @ + 1]
           /\ waiting' = [waiting EXCEPT ![c] = Append(@, typed[c] + 1)]
           /\ UNCHANGED <<open, answers>>

(* The oldest waiting key is handled and answered with n messages. *)
Handle(c) ==
    /\ open[c]
    /\ waiting[c] # <<>>
    /\ waiting' = [waiting EXCEPT ![c] = Tail(@)]
    /\ \E n \in 0 .. MaxAnswer :
          answers' = [answers EXCEPT
                        ![c] = @ \o [i \in 1 .. n |-> Head(waiting[c])]]
    /\ UNCHANGED <<open, typed>>

(* The client reads the oldest answer. *)
Read(c) == /\ open[c]
           /\ answers[c] # <<>>
           /\ answers' = [answers EXCEPT ![c] = Tail(@)]
           /\ UNCHANGED <<open, typed, waiting>>

(* Closing a connection abandons what is left of it. *)
Close(c) == /\ open[c]
            /\ open' = [open EXCEPT ![c] = FALSE]
            /\ typed' = [typed EXCEPT ![c] = 0]
            /\ waiting' = [waiting EXCEPT ![c] = <<>>]
            /\ answers' = [answers EXCEPT ![c] = <<>>]

Next == \E c \in Client :
            Open(c) \/ Type(c) \/ Handle(c) \/ Read(c) \/ Close(c)

Spec == Init /\ [][Next]_vars
=============================================================================
