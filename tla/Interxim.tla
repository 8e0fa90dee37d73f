------------------------------ MODULE Interxim ------------------------------
(***************************************************************************)
(* The input method server as a whole (src/interxim.cpp, interface.cpp):   *)
(* trigger keys, the dead key in progress, the one converter window and    *)
(* the key event handler, on top of the message handling of IMdkit.        *)
(*                                                                         *)
(* In the Dynamic Event Flow a client forwards keys only between the       *)
(* XIM_SET_EVENT_MASK messages of IMPreeditStart and IMPreeditEnd.         *)
(* Outside, a trigger key makes it send XIM_TRIGGER_NOTIFY and wait for    *)
(* the reply; every other key goes to the application.                     *)
(*                                                                         *)
(* is_dead_key and the converter window are global, IC_SHOW is kept in the *)
(* input context, and the server keeps no record of a client's mask.  Each *)
(* member of Client is one connection with one input context, created with *)
(* it; the reuse of connect ids and of contexts is modelled in SyncQueue,  *)
(* ClientTable and ICTable.  A key is what the handler tells apart of it.  *)
(***************************************************************************)
EXTENDS Naturals, Sequences, FiniteSets, Selection

CONSTANTS Client,     \* the connections, each with its input context
          NoClient,   \* not a connection: no loop is running, no window was raised
          MaxKey,     \* bound: keys a client forwards
          MaxAsk,     \* bound: trigger and focus messages a client sends
          MaxText     \* bound: characters the converter's input field holds

ASSUME InterximAssumption == /\ NoClient \notin Client
                             /\ MaxKey \in Nat
                             /\ MaxAsk \in Nat
                             /\ MaxText \in Nat

VARIABLES
    link,        \* link[c]: the client's end of the connection
    forwarding,  \* forwarding[c]: the event mask the client last read
    waiting,     \* waiting[c]: the reply to a request is awaited
    owed,        \* owed[c]: messages read that ask for a SYNC_REPLY
    sent,        \* sent[c]: keys forwarded
    asked,       \* asked[c]: trigger and focus messages sent
    toServer,    \* toServer[c]: messages the server has not handled
    toClient,    \* toClient[c]: messages the client has not read
    sync,        \* sync[c]: Xi18nClient.sync
    pending,     \* pending[c]: Xi18nClient.pending
    draining,    \* the client whose ProcessQueue loop is running
    handled,     \* handled[c]: last key handled (history)
    contexts,    \* the clients whose input contexts are in ic_list
    is_dead_key, \* a dead key waits for the key to combine with
    icShow,      \* icShow[c]: IC_SHOW in the client's IC record, in the list or freed
    window,      \* gui: not created ("none"), hidden or shown
    raisedFor,   \* the client for which IxmShow was last called (history)
    text,        \* characters in the converter's input field
    crashed      \* the server has used a window it had not created

client == <<forwarding, waiting, owed, sent, asked>>
queue == <<sync, pending, draining, handled>>
converter == <<is_dead_key, icShow, window, raisedFor, text, crashed>>
vars == <<link, client, toServer, toClient, queue, contexts, converter>>

-----------------------------------------------------------------------------
(* Conversion_Keys are "return", RealTrigger_Keys "space", Forward_Keys     *)
(* "tab"; "release" is an event other than KeyPress.                        *)
Kinds == {"letter", "return", "space", "tab", "release"}

Keys == 1 .. MaxKey
Key == [op : {"FORWARD_EVENT"}, key : Keys, kind : Kinds]
OnKeys == {"space", "dead"}   \* Trigger_Keys: the first one, or another

ToServer == Key \cup [op : {"TRIGGER_NOTIFY"}, on : OnKeys]
                \cup [op : {"SYNC_REPLY", "SET_IC_FOCUS", "UNSET_IC_FOCUS", "DESTROY_IC",
                            "DISCONNECT"}]
ToClient == [op : {"FORWARD_EVENT", "COMMIT"}, key : Keys]
                \cup [op : {"SET_EVENT_MASK"}, forward : BOOLEAN]
                \cup [op : {"TRIGGER_NOTIFY_REPLY", "DESTROY_IC_REPLY"}]

(* A library waits for the answer to its request before it goes on. *)
Requests == {"TRIGGER_NOTIFY", "DESTROY_IC"}
Answers == {"TRIGGER_NOTIFY_REPLY", "DESTROY_IC_REPLY"}

Message(op) == [op |-> op]
About(op, k) == [op |-> op, key |-> k]
EventMask(forward) == [op |-> "SET_EVENT_MASK", forward |-> forward]
Commits(k, n) == [i \in 1 .. n |-> About("COMMIT", k)]

Init == /\ link = [c \in Client |-> "down"]
        /\ forwarding = [c \in Client |-> FALSE]
        /\ waiting = [c \in Client |-> FALSE]
        /\ owed = [c \in Client |-> 0]
        /\ sent = [c \in Client |-> 0]
        /\ asked = [c \in Client |-> 0]
        /\ toServer = [c \in Client |-> <<>>]
        /\ toClient = [c \in Client |-> <<>>]
        /\ sync = [c \in Client |-> FALSE]
        /\ pending = [c \in Client |-> <<>>]
        /\ draining = NoClient
        /\ handled = [c \in Client |-> 0]
        /\ contexts = {}
        /\ is_dead_key = FALSE
        /\ icShow = [c \in Client |-> FALSE]
        /\ window = "none"
        /\ raisedFor = NoClient
        /\ text = 0
        /\ crashed = FALSE

-----------------------------------------------------------------------------
(* The client library, as far as this protocol shows it. *)

Send(c, m) == toServer' = [toServer EXCEPT ![c] = Append(@, m)]

(* Connection, XIM_OPEN and XIM_CREATE_IC, each answered before the next. *)
NewClient(c) ==
    /\ link[c] = "down"
    /\ draining = NoClient /\ ~crashed
    /\ link' = [link EXCEPT ![c] = "up"]
    /\ contexts' = contexts \cup {c}
    /\ UNCHANGED <<client, toServer, toClient, queue, converter>>

(* XFilterEvent or XDestroyIC blocks the application while it waits. *)
Free(c) == link[c] = "up" /\ ~waiting[c]

(* The client has its context: it is known, and not about to be destroyed. *)
Holds(c) == /\ c \in contexts
            /\ \A i \in DOMAIN toServer[c] : toServer[c][i].op # "DESTROY_IC"

Press(c) ==
    /\ Free(c) /\ Holds(c)
    /\ forwarding[c]
    /\ sent[c] < MaxKey
    /\ sent' = [sent EXCEPT ![c] = @ + 1]
    /\ \E kind \in Kinds : Send(c, [op |-> "FORWARD_EVENT", key |-> sent[c] + 1, kind |-> kind])
    /\ UNCHANGED <<link, forwarding, waiting, owed, asked, toClient, queue, contexts, converter>>

Trigger(c) ==
    /\ Free(c) /\ Holds(c)
    /\ ~forwarding[c]
    /\ asked[c] < MaxAsk
    /\ asked' = [asked EXCEPT ![c] = @ + 1]
    /\ waiting' = [waiting EXCEPT ![c] = TRUE]
    /\ \E on \in OnKeys : Send(c, [op |-> "TRIGGER_NOTIFY", on |-> on])
    /\ UNCHANGED <<link, forwarding, owed, sent, toClient, queue, contexts, converter>>

Focus(c) ==
    /\ Free(c) /\ Holds(c)
    /\ asked[c] < MaxAsk
    /\ asked' = [asked EXCEPT ![c] = @ + 1]
    /\ \E op \in {"SET_IC_FOCUS", "UNSET_IC_FOCUS"} : Send(c, Message(op))
    /\ UNCHANGED <<link, forwarding, waiting, owed, sent, toClient, queue, contexts, converter>>

(* XDestroyIC.  The connection may go on without a context. *)
Destroy(c) ==
    /\ Free(c) /\ Holds(c)
    /\ waiting' = [waiting EXCEPT ![c] = TRUE]
    /\ Send(c, Message("DESTROY_IC"))
    /\ UNCHANGED <<link, forwarding, owed, sent, asked, toClient, queue, contexts, converter>>

Read(c) ==
    /\ link[c] = "up"
    /\ toClient[c] # <<>>
    /\ toClient' = [toClient EXCEPT ![c] = Tail(@)]
    /\ LET m == Head(toClient[c])
       IN  /\ waiting' = [waiting EXCEPT ![c] = @ /\ m.op \notin Answers]
           /\ forwarding' = [forwarding EXCEPT
                                ![c] = IF m.op = "SET_EVENT_MASK" THEN m.forward ELSE @]
           /\ owed' = [owed EXCEPT
                          ![c] = IF m.op \in {"FORWARD_EVENT", "COMMIT"} THEN @ + 1 ELSE @]
    /\ UNCHANGED <<link, sent, asked, toServer, queue, contexts, converter>>

Reply(c) ==
    /\ link[c] = "up"
    /\ \E n \in 1 .. owed[c] : owed' = [owed EXCEPT ![c] = @ - n]
    /\ Send(c, Message("SYNC_REPLY"))
    /\ UNCHANGED <<link, forwarding, waiting, sent, asked, toClient, queue, contexts, converter>>

Leave(c) ==
    /\ Free(c)
    /\ link' = [link EXCEPT ![c] = "leaving"]
    /\ Send(c, Message("DISCONNECT"))
    /\ UNCHANGED <<client, toClient, queue, contexts, converter>>

Die(c) ==
    /\ link[c] = "up"
    /\ link' = [link EXCEPT ![c] = "dead"]
    /\ UNCHANGED <<client, toServer, toClient, queue, contexts, converter>>

-----------------------------------------------------------------------------
(* IxmForwardEventHandler, for the key event e of client c. *)

Sends(c, msgs) == toClient' = [toClient EXCEPT ![c] = @ \o msgs]

(* IC.c: a record deleted keeps its state, as it is only unlinked. *)
FindIC(c) == c \in contexts
DeleteIC(c) == contexts' = contexts \ {c}

(* Mutant: no IMPreeditEnd after the dead key. *)
CommitDeadKeyOnly(c, e) ==
    /\ is_dead_key
    /\ e.kind # "release"
    /\ Sends(c, <<About("COMMIT", e.key)>>)
    /\ is_dead_key' = FALSE
    /\ UNCHANGED <<sync, icShow, window, text>>

(* A dead key is combined with the next key, whichever client it is from. *)
CommitDeadKey(c, e) ==
    /\ is_dead_key
    /\ e.kind # "release"
    /\ Sends(c, <<About("COMMIT", e.key), EventMask(FALSE)>>)
    /\ is_dead_key' = FALSE
    /\ UNCHANGED <<sync, icShow, window, text>>

(* Conversion_Keys flush the text; RealTrigger_Keys also close the window. *)
FlushText(c, e) ==
    /\ ~is_dead_key
    /\ e.kind \in {"return", "space"}
    /\ window # "none"
    /\ text' = 0
    /\ IF e.kind = "space"
       THEN /\ Sends(c, Append(Commits(e.key, text), EventMask(FALSE)))
            /\ icShow' = [icShow EXCEPT ![c] = @ /\ ~FindIC(c)]
            /\ window' = "hidden"
       ELSE /\ Sends(c, Commits(e.key, text))
            /\ UNCHANGED <<icShow, window>>
    /\ UNCHANGED <<sync, is_dead_key>>

(* Mutant: sync is not set. *)
HandBackUnsynced(c, e) ==
    /\ ~is_dead_key
    /\ e.kind = "tab"
    /\ Sends(c, <<About("FORWARD_EVENT", e.key)>>)
    /\ UNCHANGED <<sync, is_dead_key, icShow, window, text>>

(* Forward_Keys, and keys whose keycode is 0, go back to the client. *)
HandBack(c, e) ==
    /\ ~is_dead_key
    /\ e.kind = "tab"
    /\ Sends(c, <<About("FORWARD_EVENT", e.key)>>)
    /\ sync' = [sync EXCEPT ![c] = TRUE]
    /\ UNCHANGED <<is_dead_key, icShow, window, text>>

(* Mutant: the field's maximum is off by one. *)
EditTextBeyond(c, e) ==
    /\ ~is_dead_key
    /\ e.kind = "letter"
    /\ IF window = "none" THEN UNCHANGED text ELSE text' \in 0 .. MaxText + 1
    /\ UNCHANGED <<toClient, sync, is_dead_key, icShow, window>>

(* ProcessKey: the field edits its text and converts it, if there is one.   *)
(* What text comes out is left open; no length of it is special.            *)
EditText(c, e) ==
    /\ ~is_dead_key
    /\ e.kind = "letter"
    /\ IF window = "none" THEN UNCHANGED text ELSE text' \in 0 .. MaxText
    /\ UNCHANGED <<toClient, sync, is_dead_key, icShow, window>>

Ignore(c, e) == /\ e.kind = "release"
                /\ UNCHANGED <<toClient, sync, is_dead_key, icShow, window, text>>

Handle(c, e) == /\ ~crashed
                /\ handled' = [handled EXCEPT ![c] = e.key]
                /\ \/ CommitDeadKey(c, e)
                   \/ FlushText(c, e)
                   \/ HandBack(c, e)
                   \/ EditText(c, e)
                   \/ Ignore(c, e)
                /\ UNCHANGED <<contexts, raisedFor, crashed>>

(* IxmGetUnicodeBuffer does not ask, as IxmHide does, whether gui exists. *)
Crashes(e) == ~is_dead_key /\ e.kind \in {"return", "space"} /\ window = "none"

-----------------------------------------------------------------------------
(* The server. *)

Receives(c, op) == /\ draining = NoClient /\ ~crashed
                   /\ toServer[c] # <<>>
                   /\ Head(toServer[c]).op = op
                   /\ toServer' = [toServer EXCEPT ![c] = Tail(@)]

AddQueue(c) ==
    /\ Receives(c, "FORWARD_EVENT")
    /\ sync[c]
    /\ pending' = [pending EXCEPT ![c] = Append(@, Head(toServer[c]))]
    /\ UNCHANGED <<link, client, toClient, sync, draining, handled, contexts, converter>>

HandleForwardEvent(c) ==
    /\ Receives(c, "FORWARD_EVENT")
    /\ ~sync[c]
    /\ Handle(c, Head(toServer[c]))
    /\ UNCHANGED <<link, client, pending, draining>>

(* The condition of ProcessQueue's loop, with queue q: it runs, or not. *)
Loop(c, awaited, q) == IF ~awaited /\ q # <<>> THEN c ELSE NoClient

HandleSyncReply(c) ==
    /\ Receives(c, "SYNC_REPLY")
    /\ sync' = [sync EXCEPT ![c] = FALSE]
    /\ draining' = Loop(c, FALSE, pending[c])
    /\ UNCHANGED <<link, client, toClient, pending, handled, contexts, converter>>

ProcessQueue(c) ==
    /\ draining = c
    /\ Handle(c, Head(pending[c]))
    /\ pending' = [pending EXCEPT ![c] = Tail(@)]
    /\ draining' = Loop(c, sync'[c], Tail(pending[c]))
    /\ UNCHANGED <<link, client, toServer>>

Crash(c) ==
    /\ ~crashed
    /\ \/ /\ draining = c
          /\ Crashes(Head(pending[c]))
       \/ /\ draining = NoClient
          /\ toServer[c] # <<>> /\ Head(toServer[c]).op = "FORWARD_EVENT"
          /\ ~sync[c]
          /\ Crashes(Head(toServer[c]))
    /\ crashed' = TRUE
    /\ UNCHANGED <<link, client, toServer, toClient, queue, contexts,
                   is_dead_key, icShow, window, raisedFor, text>>

(* Mutants: the reply, or IMPreeditStart, is forgotten. *)
AnswerNoReply == <<EventMask(TRUE)>>
AnswerNoMask == <<Message("TRIGGER_NOTIFY_REPLY")>>

(* What TriggerNotifyMessageProc sends for flag ON (no off key is ever      *)
(* registered): the reply, then the mask of IMPreeditStart.                 *)
Answer == <<Message("TRIGGER_NOTIFY_REPLY"), EventMask(TRUE)>>

(* IxmShow, called for client c; the window is made when there is none yet. *)
IxmShow(c) == window' = "shown" /\ raisedFor' = c

(* The answer goes out before IxmTriggerNotifyHandler is called. *)
HandleTriggerNotify(c) ==
    /\ Receives(c, "TRIGGER_NOTIFY")
    /\ Sends(c, Answer)
    /\ IF Head(toServer[c]).on = "dead" /\ ~is_dead_key
       THEN /\ is_dead_key' = TRUE
            /\ UNCHANGED <<icShow, window, raisedFor>>
       ELSE /\ is_dead_key' = FALSE
            /\ icShow' = [icShow EXCEPT ![c] = @ \/ FindIC(c)]
            /\ IxmShow(c)
    /\ UNCHANGED <<link, client, queue, contexts, text, crashed>>

(* Mutant: IC_SHOW is not looked at. *)
HandleSetFocusAlways(c) ==
    /\ Receives(c, "SET_IC_FOCUS")
    /\ IF FindIC(c) THEN IxmShow(c) ELSE UNCHANGED <<window, raisedFor>>
    /\ UNCHANGED <<link, client, toClient, queue, contexts, is_dead_key, icShow, text, crashed>>

(* IxmShow if the context wants the window. *)
HandleSetFocus(c) ==
    /\ Receives(c, "SET_IC_FOCUS")
    /\ IF FindIC(c) /\ icShow[c] THEN IxmShow(c) ELSE UNCHANGED <<window, raisedFor>>
    /\ UNCHANGED <<link, client, toClient, queue, contexts, is_dead_key, icShow, text, crashed>>

(* IxmLower changes the stacking order only. *)
HandleUnsetFocus(c) ==
    /\ Receives(c, "UNSET_IC_FOCUS")
    /\ UNCHANGED <<link, client, toClient, queue, contexts, converter>>

(* The context goes; the window it may have on the screen stays, and so do  *)
(* a dead key and the keys in the queue.                                    *)
HandleDestroyIC(c) ==
    /\ Receives(c, "DESTROY_IC")
    /\ DeleteIC(c)
    /\ Sends(c, <<Message("DESTROY_IC_REPLY")>>)
    /\ UNCHANGED <<link, client, queue, converter>>

(* No input context is deleted, and is_dead_key stays as it is; the client  *)
(* has left and does not read on after XIM_DISCONNECT_REPLY.                *)
HandleDisconnect(c) ==
    /\ Receives(c, "DISCONNECT")
    /\ link' = [link EXCEPT ![c] = "gone"]
    /\ UNCHANGED <<client, toClient, queue, contexts, converter>>

-----------------------------------------------------------------------------
ClientStep(c) == \/ NewClient(c) \/ Press(c) \/ Trigger(c) \/ Focus(c)
                 \/ Destroy(c) \/ Read(c) \/ Reply(c) \/ Leave(c) \/ Die(c)

ServerStep(c) == \/ AddQueue(c)
                 \/ HandleForwardEvent(c)
                 \/ HandleSyncReply(c)
                 \/ ProcessQueue(c)
                 \/ Crash(c)
                 \/ HandleTriggerNotify(c)
                 \/ HandleSetFocus(c)
                 \/ HandleUnsetFocus(c)
                 \/ HandleDestroyIC(c)
                 \/ HandleDisconnect(c)

Next == \E c \in Client : ClientStep(c) \/ ServerStep(c)

Spec == Init /\ [][Next]_vars

(* As in SyncQueue: the event loop takes messages in their order of arrival *)
(* and a live client keeps reading and acknowledging, the latter as long as *)
(* it has the context that the messages are for.                            *)
Fairness == \A c \in Client : /\ SF_vars(ServerStep(c))
                              /\ WF_vars(Read(c))
                              /\ WF_vars(Holds(c) /\ Reply(c))

FairSpec == Spec /\ Fairness

-----------------------------------------------------------------------------
(* Properties. *)

TypeOK == /\ link \in [Client -> {"down", "up", "leaving", "dead", "gone"}]
          /\ forwarding \in [Client -> BOOLEAN]
          /\ waiting \in [Client -> BOOLEAN]
          /\ owed \in [Client -> Nat]
          /\ sent \in [Client -> 0 .. MaxKey]
          /\ asked \in [Client -> 0 .. MaxAsk]
          /\ toServer \in [Client -> Seq(ToServer)]
          /\ toClient \in [Client -> Seq(ToClient)]
          /\ sync \in [Client -> BOOLEAN]
          /\ pending \in [Client -> Seq(Key)]
          /\ draining \in Client \cup {NoClient}
          /\ handled \in [Client -> 0 .. MaxKey]
          /\ contexts \in SUBSET Client
          /\ is_dead_key \in BOOLEAN
          /\ icShow \in [Client -> BOOLEAN]
          /\ window \in {"none", "hidden", "shown"}
          /\ raisedFor \in Client \cup {NoClient}
          /\ text \in 0 .. MaxText
          /\ crashed \in BOOLEAN

Number(msgs, ops) == Cardinality({i \in DOMAIN msgs : msgs[i].op \in ops})

(* The mask in force once msgs are read, when it is f before them.          *)
MaskAfter(f, msgs) ==
    LET masks == {i \in DOMAIN msgs : msgs[i].op = "SET_EVENT_MASK"}
    IN  \/ masks = {} /\ f
        \/ \E i \in masks : msgs[i].forward /\ \A j \in masks : j <= i

(* The mask client c ends up with once it has read all that is on its way. *)
WillForward(c) == MaskAfter(forwarding[c], toClient[c])

(* A client is blocked by at most one request, and never without one on its *)
(* way to the server or its answer on the way back: the reply is sent       *)
(* exactly once, in all the paths of TriggerNotifyMessageProc and of        *)
(* DestroyICMessageProc.                                                    *)
RequestIsAnswered ==
    \A c \in Client : link[c] # "down" =>
        Number(toServer[c], Requests) + Number(toClient[c], Answers)
            = IF waiting[c] THEN 1 ELSE 0

(* The dead key in progress can be completed: some client forwards its keys *)
(* (or did so when it left or destroyed its context), so is_dead_key cannot *)
(* be set with every mask off, when no key would reach the branch that      *)
(* clears it.                                                               *)
DeadKeyIsConsumable == is_dead_key => \E c \in Client : WillForward(c)

(* The converter window is on the screen only if the context for which it   *)
(* was last raised has IC_SHOW, that is, asked for it and has not closed it *)
(* since: closing from one client and the focus changes of another do not   *)
(* bring back a window that was closed.  That context need not be there any *)
(* more: its record keeps IC_SHOW, and nothing hides the window, when it is *)
(* destroyed or its client leaves.                                          *)
WindowIsWanted == window = "shown" => raisedFor \in Client /\ icShow[raisedFor]

(* "The end of preediting must be notified from the IMserver to the         *)
(* IMlibrary" (interxim.cpp:382): a client is left forwarding its keys only *)
(* while the server has a use for them, its window or a dead key.           *)
PreeditHasReason ==
    \A c \in Client :
        link[c] = "up" /\ Holds(c) /\ WillForward(c) => icShow[c] \/ is_dead_key

(* "Use <CTRL>k or <RETURN> to flush the string buffer" (README:24): a      *)
(* conversion key is never handled while the buffer's window does not exist.*)
FlushHasBuffer == ~crashed

(* A client that sent a trigger or destroys its context gets out of the     *)
(* wait, however many of its keys the server still has to work off.         *)
RequestReleased ==
    \A c \in Client : waiting[c] ~> ~waiting[c] \/ link[c] # "up" \/ crashed

(* When the dead key is combined and the window closed, the application     *)
(* gets its keys back, if it still has the context they went to.            *)
KeysComeBack ==
    \A c \in Client :
        ~icShow[c] /\ ~is_dead_key ~>
            \/ ~forwarding[c] \/ icShow[c] \/ is_dead_key
            \/ ~Holds(c) \/ link[c] # "up" \/ crashed

(* Interxim handles keys the way SyncQueue says: its handler commits at     *)
(* most the text and a dead key, and everything else it exchanges with the  *)
(* client leaves the queue alone.                                           *)
KeyMessages(msgs, ops) == SelectAt(msgs, {i \in DOMAIN msgs : msgs[i].op \in ops})
Bare(m) == IF m.op = "FORWARD_EVENT" THEN About(m.op, m.key) ELSE m

Numbered(q) == [i \in DOMAIN q |-> q[i].key]
Queued(msgs) ==
    LET ms == KeyMessages(msgs, {"FORWARD_EVENT", "SYNC_REPLY", "DISCONNECT"})
    IN  [i \in DOMAIN ms |-> Bare(ms[i])]
Keyed(msgs) == KeyMessages(msgs, {"FORWARD_EVENT", "COMMIT"})

QueueLink == [c \in Client |-> IF link[c] = "gone" THEN "down" ELSE link[c]]
QueuePending == [c \in Client |-> Numbered(pending[c])]
QueueToServer == [c \in Client |-> Queued(toServer[c])]
QueueToClient == [c \in Client |-> Keyed(toClient[c])]

Queue == INSTANCE SyncQueue WITH
    MaxCommit <- MaxText + 1, link <- QueueLink, pending <- QueuePending,
    toServer <- QueueToServer, toClient <- QueueToClient

(* The composed server refines the queue discipline of SyncQueue.           *)
ImplementsSyncQueue == Queue!Spec
=============================================================================
