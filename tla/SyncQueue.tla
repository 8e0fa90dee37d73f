----------------------------- MODULE SyncQueue -----------------------------
(***************************************************************************)
(* How the server keeps the key events of a connection in order while it   *)
(* waits for the client to acknowledge an event it sent back               *)
(* (IMdkit/i18nPtHdr.c, i18nMethod.c, i18nUtil.c).                         *)
(*                                                                         *)
(* xi18n_forwardEvent hands a key back to the client and sets sync; until  *)
(* an XIM_SYNC_REPLY arrives the XIM_FORWARD_EVENTs of that client are     *)
(* appended to pending, and the reply lets ProcessQueue handle them.       *)
(* xi18n_commit asks for a reply too ("always sync") but does not set      *)
(* sync.  What a key event makes the handler do (nothing, commit strings,  *)
(* hand the key back) is left open here; Interxim says which.              *)
(*                                                                         *)
(* The server is one thread: WaitXIMProtocol runs _Xi18nMessageHandler to  *)
(* its end for one message at a time.  The loop of ProcessQueue sends      *)
(* messages its client can read while the loop goes on, so each iteration  *)
(* is a step, and no other message is handled until the loop has ended.    *)
(***************************************************************************)
EXTENDS Naturals, Sequences, Selection

CONSTANTS Client,     \* the connect ids
          NoClient,   \* not a connect id: no loop of ProcessQueue is running
          MaxKey,     \* bound: keys forwarded during one connection
          MaxCommit   \* bound: strings one key event commits

ASSUME SyncQueueAssumption == /\ NoClient \notin Client
                              /\ MaxKey \in Nat
                              /\ MaxCommit \in Nat

VARIABLES link,       \* link[c]: the client's end of the connection
          sync,       \* sync[c]: Xi18nClient.sync
          pending,    \* pending[c]: Xi18nClient.pending, the keys in it
          draining,   \* the client whose ProcessQueue loop is running
          toServer,   \* toServer[c]: messages the server has not handled
          toClient,   \* toClient[c]: messages the client has not read
          owed,       \* owed[c]: messages read that ask for a SYNC_REPLY
          sent,       \* sent[c]: keys forwarded during this connection
          handled     \* handled[c]: the last of them handled (history)

server == <<sync, pending, draining, handled>>
vars == <<link, sync, pending, draining, toServer, toClient, owed, sent, handled>>

-----------------------------------------------------------------------------
(* Messages carry the serial number of the key event they are about. *)

Keys == 1 .. MaxKey

ToServer == [op : {"FORWARD_EVENT"}, key : Keys]
                \cup [op : {"SYNC_REPLY", "DISCONNECT"}]
ToClient == [op : {"FORWARD_EVENT", "COMMIT"}, key : Keys]

ForwardEvent(k) == [op |-> "FORWARD_EVENT", key |-> k]
Commit(k) == [op |-> "COMMIT", key |-> k]
SyncReply == [op |-> "SYNC_REPLY"]
Disconnect == [op |-> "DISCONNECT"]

Commits(k, n) == [i \in 1 .. n |-> Commit(k)]

Init == /\ link = [c \in Client |-> "down"]
        /\ sync = [c \in Client |-> FALSE]
        /\ pending = [c \in Client |-> <<>>]
        /\ draining = NoClient
        /\ toServer = [c \in Client |-> <<>>]
        /\ toClient = [c \in Client |-> <<>>]
        /\ owed = [c \in Client |-> 0]
        /\ sent = [c \in Client |-> 0]
        /\ handled = [c \in Client |-> 0]

-----------------------------------------------------------------------------
(* The client library, as far as this protocol shows it. *)

(* Mutant: sync is not reset. *)
ClearPending(c) == pending' = [pending EXCEPT ![c] = <<>>] /\ UNCHANGED sync

(* _Xi18nNewClient clears the record, which may come from free_clients. *)
ClearRecord(c) == /\ sync' = [sync EXCEPT ![c] = FALSE]
                  /\ pending' = [pending EXCEPT ![c] = <<>>]

(* A new connection gets the record of connect id c. *)
NewClient(c) ==
    /\ draining = NoClient
    /\ link[c] = "down"
    /\ link' = [link EXCEPT ![c] = "up"]
    /\ ClearRecord(c)
    /\ toServer' = [toServer EXCEPT ![c] = <<>>]
    /\ toClient' = [toClient EXCEPT ![c] = <<>>]
    /\ owed' = [owed EXCEPT ![c] = 0]
    /\ sent' = [sent EXCEPT ![c] = 0]
    /\ handled' = [handled EXCEPT ![c] = 0]
    /\ UNCHANGED draining

Press(c) ==
    /\ link[c] = "up"
    /\ sent[c] < MaxKey
    /\ sent' = [sent EXCEPT ![c] = @ + 1]
    /\ toServer' = [toServer EXCEPT ![c] = Append(@, ForwardEvent(sent[c] + 1))]
    /\ UNCHANGED <<link, server, toClient, owed>>

(* Both messages to the client carry the synchronous flag. *)
Read(c) ==
    /\ link[c] = "up"
    /\ toClient[c] # <<>>
    /\ toClient' = [toClient EXCEPT ![c] = Tail(@)]
    /\ owed' = [owed EXCEPT ![c] = @ + 1]
    /\ UNCHANGED <<link, server, toServer, sent>>

(* One reply may stand for several messages read since the last one. *)
Reply(c) ==
    /\ link[c] = "up"
    /\ \E n \in 1 .. owed[c] : owed' = [owed EXCEPT ![c] = @ - n]
    /\ toServer' = [toServer EXCEPT ![c] = Append(@, SyncReply)]
    /\ UNCHANGED <<link, server, toClient, sent>>

Leave(c) ==
    /\ link[c] = "up"
    /\ link' = [link EXCEPT ![c] = "leaving"]
    /\ toServer' = [toServer EXCEPT ![c] = Append(@, Disconnect)]
    /\ UNCHANGED <<server, toClient, owed, sent>>

(* A client process that dies says nothing; the server keeps its record. *)
Die(c) ==
    /\ link[c] = "up"
    /\ link' = [link EXCEPT ![c] = "dead"]
    /\ UNCHANGED <<server, toServer, toClient, owed, sent>>

-----------------------------------------------------------------------------
(* The server. *)

Receives(c, op) == /\ draining = NoClient
                   /\ toServer[c] # <<>>
                   /\ Head(toServer[c]).op = op
                   /\ toServer' = [toServer EXCEPT ![c] = Tail(@)]

(* Mutant: every key handled sets sync, even if nothing is sent. *)
HandleAlwaysSyncs(c, k) ==
    /\ handled' = [handled EXCEPT ![c] = k]
    /\ sync' = [sync EXCEPT ![c] = TRUE]
    /\ \E n \in 0 .. MaxCommit : toClient' = [toClient EXCEPT ![c] = @ \o Commits(k, n)]

(* ForwardEventMessageProc and the handler it calls, for key k: strings    *)
(* are committed, or the key goes back and the client is to acknowledge.   *)
Handle(c, k) ==
    /\ handled' = [handled EXCEPT ![c] = k]
    /\ \/ \E n \in 0 .. MaxCommit :
             /\ toClient' = [toClient EXCEPT ![c] = @ \o Commits(k, n)]
             /\ UNCHANGED sync
       \/ /\ toClient' = [toClient EXCEPT ![c] = Append(@, ForwardEvent(k))]
          /\ sync' = [sync EXCEPT ![c] = TRUE]

(* Mutant: a key is put in front of the queue. *)
AddQueueFirst(c) ==
    /\ Receives(c, "FORWARD_EVENT")
    /\ sync[c]
    /\ pending' = [pending EXCEPT ![c] = <<Head(toServer[c]).key>> \o @]
    /\ UNCHANGED <<link, sync, draining, handled, toClient, owed, sent>>

(* Mutant: the key is queued under the next serial number. *)
AddQueueAsNext(c) ==
    /\ Receives(c, "FORWARD_EVENT")
    /\ sync[c]
    /\ pending' = [pending EXCEPT ![c] = Append(@, Head(toServer[c]).key + 1)]
    /\ UNCHANGED <<link, sync, draining, handled, toClient, owed, sent>>

AddQueue(c) ==
    /\ Receives(c, "FORWARD_EVENT")
    /\ sync[c]
    /\ pending' = [pending EXCEPT ![c] = Append(@, Head(toServer[c]).key)]
    /\ UNCHANGED <<link, sync, draining, handled, toClient, owed, sent>>

(* Mutant: sync is not looked at. *)
HandleForwardEventAtOnce(c) ==
    /\ Receives(c, "FORWARD_EVENT")
    /\ Handle(c, Head(toServer[c]).key)
    /\ UNCHANGED <<link, pending, draining, owed, sent>>

HandleForwardEvent(c) ==
    /\ Receives(c, "FORWARD_EVENT")
    /\ ~sync[c]
    /\ Handle(c, Head(toServer[c]).key)
    /\ UNCHANGED <<link, pending, draining, owed, sent>>

(* Mutants: ProcessQueue is not called, or its loop ignores sync. *)
LoopNever(c, awaited, q) == NoClient
LoopWhilePending(c, awaited, q) == IF q # <<>> THEN c ELSE NoClient

(* The condition of ProcessQueue's loop, with queue q: it runs, or not. *)
Loop(c, awaited, q) == IF ~awaited /\ q # <<>> THEN c ELSE NoClient

(* SyncReplyMessageProc, then the loop of ProcessQueue begins. *)
HandleSyncReply(c) ==
    /\ Receives(c, "SYNC_REPLY")
    /\ sync' = [sync EXCEPT ![c] = FALSE]
    /\ draining' = Loop(c, FALSE, pending[c])
    /\ UNCHANGED <<link, pending, handled, toClient, owed, sent>>

(* One iteration: the packet is unlinked after it has been handled. *)
ProcessQueue(c) ==
    /\ draining = c
    /\ Handle(c, Head(pending[c]))
    /\ pending' = [pending EXCEPT ![c] = Tail(@)]
    /\ draining' = Loop(c, sync'[c], Tail(pending[c]))
    /\ UNCHANGED <<link, toServer, owed, sent>>

(* The record goes to free_clients as it is, its pending packets with it;   *)
(* the client has left and does not read on after XIM_DISCONNECT_REPLY.     *)
HandleDisconnect(c) ==
    /\ Receives(c, "DISCONNECT")
    /\ link' = [link EXCEPT ![c] = "down"]
    /\ UNCHANGED <<server, toClient, owed, sent>>

-----------------------------------------------------------------------------
ClientStep(c) == NewClient(c) \/ Press(c) \/ Read(c) \/ Reply(c) \/ Leave(c) \/ Die(c)

ServerStep(c) == \/ AddQueue(c)
                 \/ HandleForwardEvent(c)
                 \/ HandleSyncReply(c)
                 \/ ProcessQueue(c)
                 \/ HandleDisconnect(c)

Next == \E c \in Client : ClientStep(c) \/ ServerStep(c)

Spec == Init /\ [][Next]_vars

(* The server takes X events in the order they arrive, so no message waits *)
(* for ever behind those of other clients; a live client keeps reading and *)
(* keeps acknowledging.  Nothing makes a user type, leave or die.          *)
Fairness == \A c \in Client : /\ SF_vars(ServerStep(c))
                              /\ WF_vars(Read(c))
                              /\ WF_vars(Reply(c))

FairSpec == Spec /\ Fairness

-----------------------------------------------------------------------------
(* Properties. *)

TypeOK == /\ link \in [Client -> {"down", "up", "leaving", "dead"}]
          /\ sync \in [Client -> BOOLEAN]
          /\ pending \in [Client -> Seq(Keys)]
          /\ draining \in Client \cup {NoClient}
          /\ toServer \in [Client -> Seq(ToServer)]
          /\ toClient \in [Client -> Seq(ToClient)]
          /\ owed \in [Client -> Nat]
          /\ sent \in [Client -> 0 .. MaxKey]
          /\ handled \in [Client -> 0 .. MaxKey]

(* The DISCONNECT of a connection is the last message of its channel.       *)
LeaveIsLast ==
    \A c \in Client :
        /\ link[c] = "down" => toServer[c] = <<>>
        /\ \A i \in DOMAIN toServer[c] :
              toServer[c][i].op = "DISCONNECT" =>
                  i = Len(toServer[c]) /\ link[c] = "leaving"

(* No key is stranded: a packet is in pending only while an acknowledgement *)
(* is awaited or the loop that empties the queue is running, and the loop   *)
(* goes on only with a packet left and no key handed back.  (The message    *)
(* handler looks at sync alone, so a key arriving with sync clear and the   *)
(* queue not empty would overtake the queue.)                               *)
QueueWaitsForSync ==
    /\ \A c \in Client :
          link[c] # "down" /\ pending[c] # <<>> => sync[c] \/ draining = c
    /\ draining # NoClient => /\ link[draining] # "down"
                              /\ ~sync[draining]
                              /\ pending[draining] # <<>>

(* No client waits for ever: while the server holds back the keys of a live *)
(* client, the event it handed back is still on its way, or the client owes *)
(* an acknowledgement, or one is on its way.  A connect id taken from       *)
(* free_clients must not inherit sync from its previous owner.              *)
SyncIsOwed ==
    \A c \in Client :
        link[c] = "up" /\ sync[c] =>
            \/ toClient[c] # <<>>
            \/ owed[c] > 0
            \/ \E i \in DOMAIN toServer[c] : toServer[c][i].op = "SYNC_REPLY"

(* The keys of a connection are exactly those handled, then those in        *)
(* pending, then those still in the channel, each once and in order.        *)
Forwards(c) == {i \in DOMAIN toServer[c] : toServer[c][i].op = "FORWARD_EVENT"}

Taken(c) == handled[c] + Len(pending[c])

InOrder(c) ==
    /\ Taken(c) <= sent[c]
    /\ \A i \in DOMAIN pending[c] : pending[c][i] = handled[c] + i
    /\ \A i \in Forwards(c) : toServer[c][i].key \in Taken(c) + 1 .. sent[c]
    /\ \A k \in Taken(c) + 1 .. sent[c] :
          \E i \in Forwards(c) : toServer[c][i].key = k
    /\ \A i, j \in Forwards(c) : i < j => toServer[c][i].key < toServer[c][j].key

KeysInOrder == \A c \in Client : link[c] # "down" => InOrder(c)

(* Every key a client forwards is handled, unless the client goes away.     *)
KeyHandled ==
    \A c \in Client : \A k \in 1 .. MaxKey :
        link[c] = "up" /\ sent[c] >= k ~> handled[c] >= k \/ link[c] # "up"

(* The abstract specification SyncQueue implements: a connection is open    *)
(* from the record's creation to its deletion, and the waiting keys are the *)
(* queue followed by the channel.                                           *)
KeysOf(msgs) == [i \in DOMAIN msgs |-> msgs[i].key]
WhenOpen(c, v, default) == IF link[c] = "down" THEN default ELSE v

Stream == INSTANCE KeyStream WITH
    MaxAnswer <- MaxCommit + 1,
    open <- [c \in Client |-> link[c] # "down"],
    typed <- [c \in Client |-> WhenOpen(c, sent[c], 0)],
    waiting <- [c \in Client |-> WhenOpen(c,
                  pending[c] \o KeysOf(SelectAt(toServer[c], Forwards(c))), <<>>)],
    answers <- [c \in Client |-> WhenOpen(c, KeysOf(toClient[c]), <<>>)]

(* Keys are handled once and in order, and what they produce reaches the    *)
(* client in that order, across queueing, draining, death and reconnection. *)
ImplementsKeyStream == Stream!Spec
=============================================================================
