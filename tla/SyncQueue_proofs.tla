-------------------------- MODULE SyncQueue_proofs --------------------------
(* Safety of SyncQueue, and that it implements KeyStream, for any set of   *)
(* clients and any bounds.                                                 *)
EXTENDS SyncQueue, Counting

USE SyncQueueAssumption

(* The inductive invariant.  LeaveIsLast keeps a closed connection silent,  *)
(* QueueWaitsForSync makes a key that is handled at once the next in order. *)
IInv == TypeOK /\ LeaveIsLast /\ QueueWaitsForSync /\ SyncIsOwed /\ KeysInOrder

-----------------------------------------------------------------------------
(* Facts about the channels and the queue, as sequences. *)

(* Committing n strings appends n messages to the client.                   *)
LEMMA CommitsType ==
    ASSUME NEW k \in Keys, NEW n \in Nat
    PROVE  Commits(k, n) \in Seq(ToClient)
  BY DEF Commits, Commit, ToClient

(* Handling a key of the right type keeps the types, and holds back the     *)
(* next key only with a message on its way to the client.                   *)
LEMMA HandleFacts ==
    ASSUME NEW c \in Client, NEW k \in Keys, TypeOK, Handle(c, k)
    PROVE  /\ handled' = [handled EXCEPT ![c] = k]
           /\ handled' \in [Client -> 0 .. MaxKey]
           /\ toClient' \in [Client -> Seq(ToClient)]
           /\ sync' \in [Client -> BOOLEAN]
           /\ \A d \in Client \ {c} : sync'[d] = sync[d] /\ toClient'[d] = toClient[d]
           /\ sync'[c] /\ ~sync[c] => toClient'[c] # <<>>
           /\ sync[c] /\ toClient[c] # <<>> => toClient'[c] # <<>>
<1> USE DEF TypeOK
<1>1. handled' = [handled EXCEPT ![c] = k] /\ handled' \in [Client -> 0 .. MaxKey]
  BY DEF Handle, Keys
<1>2. CASE \E n \in 0 .. MaxCommit :
              /\ toClient' = [toClient EXCEPT ![c] = @ \o Commits(k, n)]
              /\ UNCHANGED sync
  <2>1. PICK n \in 0 .. MaxCommit :
              /\ toClient' = [toClient EXCEPT ![c] = @ \o Commits(k, n)]
              /\ UNCHANGED sync
    BY <1>2
  <2>2. Commits(k, n) \in Seq(ToClient) /\ toClient[c] \in Seq(ToClient)
    BY CommitsType
  <2>3. /\ toClient[c] \o Commits(k, n) \in Seq(ToClient)
        /\ toClient[c] # <<>> => toClient[c] \o Commits(k, n) # <<>>
    BY <2>2
  <2>4. QED BY <1>1, <2>1, <2>3
<1>3. CASE /\ toClient' = [toClient EXCEPT ![c] = Append(@, ForwardEvent(k))]
           /\ sync' = [sync EXCEPT ![c] = TRUE]
  <2> DEFINE m == ForwardEvent(k)
             q == toClient[c]
  <2>1. m \in ToClient
    BY DEF ForwardEvent, ToClient
  <2>4. q \in Seq(ToClient)
    OBVIOUS
  <2>2. Append(q, m) \in Seq(ToClient) /\ Append(q, m) # <<>>
    <3> HIDE DEF m, q
    <3>1. QED BY <2>1, <2>4, AppendProperties, SMTT(30)
  <2>3. toClient' = [toClient EXCEPT ![c] = Append(q, m)]
    BY <1>3
  <2> HIDE DEF m, q
  <2>5. /\ toClient' \in [Client -> Seq(ToClient)] /\ toClient'[c] # <<>>
        /\ \A d \in Client \ {c} : toClient'[d] = toClient[d]
    BY <2>2, <2>3
  <2>6. /\ sync' \in [Client -> BOOLEAN]
        /\ \A d \in Client \ {c} : sync'[d] = sync[d]
    BY <1>3
  <2>7. QED BY <1>1, <2>5, <2>6
<1>4. QED BY <1>2, <1>3 DEF Handle

(* Reading a message from a client removes the head of its channel only;    *)
(* a closed connection has no message to read.                              *)
LEMMA ReceiveFacts ==
    ASSUME NEW c \in Client, NEW op, TypeOK, LeaveIsLast, Receives(c, op)
    PROVE  /\ toServer' \in [Client -> Seq(ToServer)]
           /\ \A d \in Client \ {c} : toServer'[d] = toServer[d]
           /\ Len(toServer[c]) \in Nat \ {0}
           /\ DOMAIN toServer[c] = 1 .. Len(toServer[c])
           /\ Head(toServer[c]) = toServer[c][1]
           /\ toServer[c][1] \in ToServer
           /\ toServer[c][1].op = op
           /\ Len(toServer'[c]) = Len(toServer[c]) - 1
           /\ DOMAIN toServer'[c] = 1 .. Len(toServer[c]) - 1
           /\ \A i \in 1 .. Len(toServer[c]) - 1 : toServer'[c][i] = toServer[c][i + 1]
           /\ link[c] # "down"
           /\ draining = NoClient
<1>1. toServer[c] \in Seq(ToServer) /\ toServer[c] # <<>>
  BY DEF TypeOK, Receives
<1>2. /\ Tail(toServer[c]) \in Seq(ToServer)
      /\ Head(toServer[c]) = toServer[c][1]
      /\ toServer[c][1] \in ToServer
      /\ Len(toServer[c]) \in Nat \ {0}
      /\ DOMAIN toServer[c] = 1 .. Len(toServer[c])
      /\ Len(Tail(toServer[c])) = Len(toServer[c]) - 1
      /\ DOMAIN Tail(toServer[c]) = 1 .. Len(toServer[c]) - 1
      /\ \A i \in 1 .. Len(toServer[c]) - 1 : Tail(toServer[c])[i] = toServer[c][i + 1]
  BY <1>1
<1>3. /\ toServer' = [toServer EXCEPT ![c] = Tail(toServer[c])]
      /\ Head(toServer[c]).op = op
      /\ draining = NoClient
  BY DEF Receives
<1>4. toServer'[c] = Tail(toServer[c])
  BY <1>3 DEF TypeOK
<1>5. toServer' \in [Client -> Seq(ToServer)]
  BY <1>2, <1>3 DEF TypeOK
<1>6. link[c] # "down"
  BY <1>1 DEF LeaveIsLast
<1>7. \A d \in Client \ {c} : toServer'[d] = toServer[d]
  BY <1>3 DEF TypeOK
<1>8. QED BY <1>2, <1>3, <1>4, <1>5, <1>6, <1>7

(* A message other than DISCONNECT is taken: the DISCONNECT stays last.     *)
LEMMA ReceiveKeepsLeave ==
    ASSUME NEW c \in Client, NEW op, TypeOK, LeaveIsLast, Receives(c, op),
           op # "DISCONNECT", link' = link
    PROVE  LeaveIsLast'
<1>1. /\ \A d \in Client \ {c} : toServer'[d] = toServer[d]
      /\ Len(toServer[c]) \in Nat \ {0}
      /\ DOMAIN toServer[c] = 1 .. Len(toServer[c])
      /\ Len(toServer'[c]) = Len(toServer[c]) - 1
      /\ DOMAIN toServer'[c] = 1 .. Len(toServer[c]) - 1
      /\ \A i \in 1 .. Len(toServer[c]) - 1 : toServer'[c][i] = toServer[c][i + 1]
      /\ link[c] # "down"
  BY ReceiveFacts
<1> SUFFICES ASSUME NEW d \in Client
             PROVE  /\ link[d] = "down" => toServer'[d] = <<>>
                    /\ \A i \in DOMAIN toServer'[d] :
                          toServer'[d][i].op = "DISCONNECT" =>
                              i = Len(toServer'[d]) /\ link[d] = "leaving"
  BY DEF LeaveIsLast
<1>2. CASE d = c
  <2> SUFFICES ASSUME NEW i \in 1 .. Len(toServer[c]) - 1,
                      toServer[c][i + 1].op = "DISCONNECT"
               PROVE  i = Len(toServer[c]) - 1 /\ link[c] = "leaving"
    BY <1>1, <1>2
  <2>1. i + 1 \in DOMAIN toServer[c] /\ i \in Nat
    BY <1>1
  <2>2. i + 1 = Len(toServer[c]) /\ link[c] = "leaving"
    BY <2>1 DEF LeaveIsLast
  <2>3. QED BY <2>1, <2>2
<1>3. CASE d # c
  BY <1>1, <1>3 DEF LeaveIsLast
<1>4. QED BY <1>2, <1>3

(* A message other than SYNC_REPLY is taken: the replies stay.              *)
LEMMA ReceiveKeepsReply ==
    ASSUME NEW c \in Client, NEW op, TypeOK, LeaveIsLast, Receives(c, op),
           op # "SYNC_REPLY", NEW d \in Client,
           NEW i \in DOMAIN toServer[d], toServer[d][i].op = "SYNC_REPLY"
    PROVE  \E j \in DOMAIN toServer'[d] : toServer'[d][j].op = "SYNC_REPLY"
<1>1. /\ \A e \in Client \ {c} : toServer'[e] = toServer[e]
      /\ Len(toServer[c]) \in Nat \ {0}
      /\ DOMAIN toServer[c] = 1 .. Len(toServer[c])
      /\ toServer[c][1].op = op
      /\ DOMAIN toServer'[c] = 1 .. Len(toServer[c]) - 1
      /\ \A j \in 1 .. Len(toServer[c]) - 1 : toServer'[c][j] = toServer[c][j + 1]
  BY ReceiveFacts
<1>2. CASE d = c
  <2>1. i - 1 \in 1 .. Len(toServer[c]) - 1 /\ (i - 1) + 1 = i
    BY <1>1, <1>2
  <2>2. toServer'[c][i - 1] = toServer[c][i]
    BY <1>1, <2>1
  <2>3. QED BY <1>1, <1>2, <2>1, <2>2
<1>3. CASE d # c
  BY <1>1, <1>3
<1>4. QED BY <1>2, <1>3

(* Sending a message to the server adds it at the end of one channel.       *)
LEMMA SendFacts ==
    ASSUME NEW c \in Client, NEW m \in ToServer, TypeOK,
           toServer' = [toServer EXCEPT ![c] = Append(@, m)]
    PROVE  /\ toServer' \in [Client -> Seq(ToServer)]
           /\ \A d \in Client \ {c} : toServer'[d] = toServer[d]
           /\ Len(toServer[c]) \in Nat
           /\ DOMAIN toServer[c] = 1 .. Len(toServer[c])
           /\ Len(toServer'[c]) = Len(toServer[c]) + 1
           /\ DOMAIN toServer'[c] = 1 .. Len(toServer[c]) + 1
           /\ \A i \in 1 .. Len(toServer[c]) : toServer'[c][i] = toServer[c][i]
           /\ toServer'[c][Len(toServer[c]) + 1] = m
<1>1. toServer[c] \in Seq(ToServer)
  BY DEF TypeOK
<1>2. /\ Append(toServer[c], m) \in Seq(ToServer)
      /\ Len(toServer[c]) \in Nat
      /\ DOMAIN toServer[c] = 1 .. Len(toServer[c])
      /\ Len(Append(toServer[c], m)) = Len(toServer[c]) + 1
      /\ DOMAIN Append(toServer[c], m) = 1 .. Len(toServer[c]) + 1
      /\ \A i \in 1 .. Len(toServer[c]) : Append(toServer[c], m)[i] = toServer[c][i]
      /\ Append(toServer[c], m)[Len(toServer[c]) + 1] = m
  BY <1>1
<1>3. toServer'[c] = Append(toServer[c], m)
  BY DEF TypeOK
<1>4. /\ toServer' \in [Client -> Seq(ToServer)]
      /\ \A d \in Client \ {c} : toServer'[d] = toServer[d]
  BY <1>2 DEF TypeOK
<1>5. QED BY <1>2, <1>3, <1>4

-----------------------------------------------------------------------------
(* How the order of the keys survives each kind of change. *)

QueueFollows(c) == \A i \in DOMAIN pending[c] : pending[c][i] = handled[c] + i

(* Nothing that order speaks of changes for client c, except that keys may  *)
(* move from the queue to the handled ones.                                 *)
LEMMA OrderKept ==
    ASSUME NEW c \in Client, InOrder(c),
           toServer'[c] = toServer[c], sent'[c] = sent[c],
           Taken(c)' = Taken(c), QueueFollows(c)'
    PROVE  InOrder(c)'
  BY DEF InOrder, QueueFollows, Forwards

(* The oldest forwarded key in the channel is the next in order.            *)
LEMMA HeadIsNext ==
    ASSUME NEW c \in Client, TypeOK, LeaveIsLast, InOrder(c),
           Receives(c, "FORWARD_EVENT")
    PROVE  /\ toServer[c][1].key = Taken(c) + 1
           /\ Taken(c) + 1 \in 1 .. sent[c]
           /\ Taken(c) \in Nat
<1>1. Taken(c) \in Nat /\ sent[c] \in Nat
  BY DEF TypeOK, Taken
<1>2. 1 \in Forwards(c)
  BY ReceiveFacts DEF Forwards
<1>3. toServer[c][1].key \in Taken(c) + 1 .. sent[c]
  BY <1>2 DEF InOrder
<1>4. PICK i \in Forwards(c) : toServer[c][i].key = Taken(c) + 1
  BY <1>1, <1>3 DEF InOrder
<1>5. i \in Nat /\ i >= 1
  BY ReceiveFacts DEF Forwards
<1>6. i = 1
  <2>1. SUFFICES ASSUME 1 < i PROVE FALSE
    BY <1>5
  <2>2. toServer[c][1].key < toServer[c][i].key
    BY <1>2, <1>4, <2>1 DEF InOrder
  <2>3. QED BY <1>1, <1>3, <1>4, <2>2
<1>7. QED BY <1>1, <1>3, <1>4, <1>6

(* Taking the head of the channel keeps the order when the key it carries,  *)
(* if it carries one, joins the keys already taken.                         *)
LEMMA OrderReceived ==
    ASSUME NEW c \in Client, NEW op, TypeOK, LeaveIsLast, InOrder(c),
           Receives(c, op), sent'[c] = sent[c], QueueFollows(c)',
           Taken(c)' = IF op = "FORWARD_EVENT" THEN Taken(c) + 1 ELSE Taken(c)
    PROVE  InOrder(c)'
<1>1. Taken(c) \in Nat /\ sent[c] \in Nat
  <2>1. /\ handled[c] \in 0 .. MaxKey /\ sent[c] \in 0 .. MaxKey
        /\ pending[c] \in Seq(Keys)
    BY Zenon DEF TypeOK
  <2>2. Len(pending[c]) \in Nat
    BY <2>1, LenProperties, Zenon
  <2>3. handled[c] + Len(pending[c]) \in Nat /\ sent[c] \in Nat
    BY <2>1, <2>2
  <2>4. QED BY <2>3, Zenon DEF Taken
<1>2. Forwards(c) \subseteq 1 .. Len(toServer[c])
  BY ReceiveFacts DEF Forwards
<1>3. ASSUME NEW i \in Nat
      PROVE  i \in Forwards(c)' <=> i >= 1 /\ i + 1 \in Forwards(c)
  <2>1. /\ Len(toServer[c]) \in Nat \ {0}
        /\ DOMAIN toServer[c] = 1 .. Len(toServer[c])
        /\ DOMAIN toServer'[c] = 1 .. Len(toServer[c]) - 1
        /\ \A j \in 1 .. Len(toServer[c]) - 1 : toServer'[c][j] = toServer[c][j + 1]
    BY ReceiveFacts
  <2>2. QED BY <2>1 DEF Forwards
<1>4. Forwards(c)' \subseteq Nat
  BY ReceiveFacts DEF Forwards
<1>5. \A i \in Forwards(c)' : toServer'[c][i] = toServer[c][i + 1]
  BY ReceiveFacts DEF Forwards
<1>6. op = "FORWARD_EVENT" => /\ toServer[c][1].key = Taken(c) + 1
                             /\ Taken(c) + 1 \in 1 .. sent[c]
                             /\ 1 \in Forwards(c)
  BY HeadIsNext, ReceiveFacts DEF Forwards
<1>7. op # "FORWARD_EVENT" => 1 \notin Forwards(c)
  BY ReceiveFacts DEF Forwards
<1>8. (Taken(c) <= sent[c])'
  BY <1>1, <1>6 DEF InOrder
<1>9. ASSUME NEW i \in Forwards(c)'
      PROVE  toServer'[c][i].key \in Taken(c)' + 1 .. sent'[c]
  <2>1. i \in Nat /\ i >= 1 /\ i + 1 \in Forwards(c)
    BY <1>3, <1>4
  <2>2. toServer[c][i + 1].key \in Taken(c) + 1 .. sent[c]
    BY <2>1 DEF InOrder
  <2>3. op = "FORWARD_EVENT" => Taken(c) + 1 < toServer[c][i + 1].key
    BY <1>6, <2>1 DEF InOrder
  <2>4. QED BY <1>1, <1>5, <2>2, <2>3
<1>10. ASSUME NEW k \in Taken(c)' + 1 .. sent'[c]
       PROVE  \E i \in Forwards(c)' : toServer'[c][i].key = k
  <2>1. k \in Taken(c) + 1 .. sent[c]
    BY <1>1
  <2>2. PICK i \in Forwards(c) : toServer[c][i].key = k
    BY <2>1 DEF InOrder
  <2>3. i \in Nat /\ i >= 1
    BY <1>2
  <2>4. i # 1
    BY <1>1, <1>6, <1>7, <2>2
  <2>5. i - 1 \in Forwards(c)'
    BY <1>3, <2>3, <2>4
  <2>6. toServer'[c][i - 1].key = k
    BY <1>5, <2>2, <2>3, <2>5
  <2>7. QED BY <2>5, <2>6
<1>11. ASSUME NEW i \in Forwards(c)', NEW j \in Forwards(c)', i < j
       PROVE  toServer'[c][i].key < toServer'[c][j].key
  <2>1. /\ i \in Nat /\ i + 1 \in Forwards(c)
        /\ j \in Nat /\ j + 1 \in Forwards(c)
    BY <1>3, <1>4
  <2>2. toServer[c][i + 1].key < toServer[c][j + 1].key
    BY <1>11, <2>1 DEF InOrder
  <2>3. QED BY <1>5, <2>2
<1>12. QED BY <1>8, <1>9, <1>10, <1>11 DEF InOrder, QueueFollows

(* A message the client adds keeps the order: a key is the next serial.     *)
LEMMA OrderSent ==
    ASSUME NEW c \in Client, NEW m \in ToServer, TypeOK, InOrder(c),
           toServer' = [toServer EXCEPT ![c] = Append(@, m)],
           UNCHANGED <<pending, handled>>,
           \/ m.op # "FORWARD_EVENT" /\ sent'[c] = sent[c]
           \/ m = ForwardEvent(sent[c] + 1) /\ sent'[c] = sent[c] + 1
    PROVE  InOrder(c)'
<1> DEFINE last == Len(toServer[c]) + 1
<1>1. Taken(c) \in Nat /\ sent[c] \in Nat /\ Taken(c)' = Taken(c) /\ Taken(c) <= sent[c]
  BY DEF TypeOK, Taken, InOrder
<1>2. /\ last \in Nat \ {0}
      /\ Forwards(c) \subseteq 1 .. last - 1
      /\ \A i \in Forwards(c) : toServer'[c][i] = toServer[c][i]
      /\ toServer'[c][last] = m
  <2>1. /\ Len(toServer[c]) \in Nat
        /\ DOMAIN toServer[c] = 1 .. Len(toServer[c])
        /\ \A i \in 1 .. Len(toServer[c]) : toServer'[c][i] = toServer[c][i]
        /\ toServer'[c][Len(toServer[c]) + 1] = m
    BY SendFacts
  <2>2. Forwards(c) \subseteq 1 .. Len(toServer[c])
    BY <2>1 DEF Forwards
  <2>3. QED BY <2>1, <2>2
<1>3. Forwards(c)' = IF m.op = "FORWARD_EVENT" THEN Forwards(c) \cup {last} ELSE Forwards(c)
  <2>1. /\ Len(toServer[c]) \in Nat
        /\ DOMAIN toServer[c] = 1 .. Len(toServer[c])
        /\ DOMAIN toServer'[c] = 1 .. Len(toServer[c]) + 1
        /\ \A i \in 1 .. Len(toServer[c]) : toServer'[c][i] = toServer[c][i]
        /\ toServer'[c][Len(toServer[c]) + 1] = m
    BY SendFacts
  <2>2. \A i : i \in Forwards(c)' <=>
                 i \in Forwards(c) \/ (i = last /\ m.op = "FORWARD_EVENT")
    BY <2>1 DEF Forwards
  <2>3. QED BY <2>2
<1>4. QueueFollows(c)'
  BY DEF InOrder, QueueFollows
<1>5. CASE m.op # "FORWARD_EVENT" /\ sent'[c] = sent[c]
  BY <1>1, <1>2, <1>3, <1>4, <1>5 DEF InOrder, QueueFollows
<1>6. CASE m = ForwardEvent(sent[c] + 1) /\ sent'[c] = sent[c] + 1
  <2>1. m.op = "FORWARD_EVENT" /\ toServer'[c][last].key = sent[c] + 1
    BY <1>2, <1>6 DEF ForwardEvent
  <2>2. Forwards(c)' = Forwards(c) \cup {last}
    BY <1>3, <2>1
  <2> HIDE DEF last
  <2> DEFINE F == Forwards(c)
             G == Forwards(c)'
             old == toServer[c]
             new == toServer'[c]
             lo == Taken(c)
             hi == sent[c]
  <2>3. /\ lo \in Nat /\ hi \in Nat /\ lo <= hi /\ last \in Nat \ {0}
        /\ F \subseteq 1 .. last - 1 /\ G = F \cup {last}
    BY <1>1, <1>2, <2>2, Zenon
  <2>4. /\ \A i \in F : new[i] = old[i]
        /\ new[last].key = hi + 1
        /\ \A i \in F : old[i].key \in lo + 1 .. hi
        /\ \A k \in lo + 1 .. hi : \E i \in F : old[i].key = k
        /\ \A i, j \in F : i < j => old[i].key < old[j].key
    BY <1>2, <2>1, Zenon DEF InOrder
  <2> HIDE DEF F, G, old, new, lo, hi
  <2>5. ASSUME NEW i \in G PROVE new[i].key \in lo + 1 .. hi + 1
    <3>1. CASE i \in F
      <4>1. old[i].key \in lo + 1 .. hi /\ new[i] = old[i]
        BY <2>4, <3>1, Zenon
      <4>2. QED BY <2>3, <4>1
    <3>2. CASE i = last
      BY <2>3, <2>4, <3>2
    <3>3. QED BY <2>3, <3>1, <3>2
  <2>6. ASSUME NEW k \in lo + 1 .. hi + 1
        PROVE  \E i \in G : new[i].key = k
    <3>1. CASE k = hi + 1
      BY <2>3, <2>4, <3>1
    <3>2. CASE k # hi + 1
      <4>1. k \in lo + 1 .. hi
        BY <2>3, <3>2
      <4>2. PICK i \in F : old[i].key = k
        BY <2>4, <4>1
      <4>3. i \in G /\ new[i].key = k
        BY <2>3, <2>4, <4>2, Zenon
      <4>4. QED BY <4>3
    <3>3. QED BY <3>1, <3>2
  <2>7. ASSUME NEW i \in G, NEW j \in G, i < j
        PROVE  new[i].key < new[j].key
    <3>1. i \in F
      <4>1. i \in 1 .. last /\ j \in 1 .. last
        BY <2>3
      <4>2. i # last
        BY <2>3, <2>7, <4>1
      <4>3. QED BY <2>3, <4>2
    <3>2. new[i] = old[i] /\ old[i].key \in lo + 1 .. hi
      BY <2>4, <3>1, Zenon
    <3>3. CASE j \in F
      BY <2>4, <2>7, <3>1, <3>2, <3>3
    <3>4. CASE j = last
      BY <2>3, <2>4, <3>2, <3>4
    <3>5. QED BY <2>3, <3>3, <3>4
  <2>8. /\ \A i \in Forwards(c)' : toServer'[c][i].key \in Taken(c) + 1 .. sent[c] + 1
        /\ \A k \in Taken(c) + 1 .. sent[c] + 1 :
              \E i \in Forwards(c)' : toServer'[c][i].key = k
        /\ \A i, j \in Forwards(c)' : i < j => toServer'[c][i].key < toServer'[c][j].key
    BY <2>5, <2>6, <2>7, Zenon DEF F, G, old, new, lo, hi
  <2>9. (Taken(c) <= sent[c])'
    BY <1>1, <1>6
  <2>10. QED BY <1>1, <1>4, <1>6, <2>8, <2>9, Zenon DEF InOrder, QueueFollows
<1>7. QED BY <1>5, <1>6

(* A connection whose queue, channel and counters stay as they are.         *)
LEMMA OrderUnchanged ==
    ASSUME NEW c \in Client, InOrder(c),
           toServer'[c] = toServer[c], sent'[c] = sent[c],
           pending'[c] = pending[c], handled'[c] = handled[c]
    PROVE  InOrder(c)'
<1>1. Taken(c)' = Taken(c)
  BY DEF Taken
<1>2. QueueFollows(c)'
  BY DEF QueueFollows, InOrder
<1>3. QED BY <1>1, <1>2, OrderKept

-----------------------------------------------------------------------------
(* Every step preserves the inductive invariant. *)

(* No client is connected at first.                                         *)
LEMMA InitInv == Init => IInv
<1> SUFFICES ASSUME Init PROVE IInv
  OBVIOUS
<1>1. TypeOK
  BY DEF Init, TypeOK
<1>2. LeaveIsLast /\ QueueWaitsForSync /\ SyncIsOwed /\ KeysInOrder
  BY DEF Init, LeaveIsLast, QueueWaitsForSync, SyncIsOwed, KeysInOrder
<1>3. QED BY <1>1, <1>2 DEF IInv

(* A new connection starts with a cleared record and empty channels.        *)
LEMMA NewClientInv ==
    ASSUME NEW c \in Client, IInv, NewClient(c) PROVE IInv'
<1> USE DEF IInv, NewClient, ClearRecord
<1>1. TypeOK'
  BY DEF TypeOK
<1>2. LeaveIsLast'
  BY DEF TypeOK, LeaveIsLast
<1>3. QueueWaitsForSync'
  BY DEF TypeOK, QueueWaitsForSync
<1>4. SyncIsOwed'
  BY DEF TypeOK, SyncIsOwed
<1>5. KeysInOrder'
  <2> SUFFICES ASSUME NEW d \in Client, link'[d] # "down" PROVE InOrder(d)'
    BY DEF KeysInOrder
  <2>1. CASE d = c
    <3>1. /\ toServer'[d] = <<>> /\ pending'[d] = <<>>
          /\ sent'[d] = 0 /\ handled'[d] = 0
      BY <2>1 DEF TypeOK
    <3>2. Taken(d)' = 0 /\ Forwards(d)' = {}
      BY <3>1 DEF Taken, Forwards
    <3>3. QED BY <3>1, <3>2 DEF InOrder
  <2>2. CASE d # c
    <3>1. /\ toServer'[d] = toServer[d] /\ pending'[d] = pending[d]
          /\ sent'[d] = sent[d] /\ handled'[d] = handled[d]
          /\ link'[d] = link[d]
      BY <2>2 DEF TypeOK
    <3>2. QED BY <3>1, OrderUnchanged DEF KeysInOrder
  <2>3. QED BY <2>1, <2>2
<1>6. QED BY <1>1, <1>2, <1>3, <1>4, <1>5

(* Forwarding a key appends the next serial number to the channel.          *)
LEMMA PressInv ==
    ASSUME NEW c \in Client, IInv, Press(c) PROVE IInv'
<1> USE DEF IInv
<1>1. sent[c] + 1 \in Keys /\ sent[c] \in Nat
  BY DEF Press, TypeOK, Keys
<1>2. ForwardEvent(sent[c] + 1) \in ToServer
  BY <1>1 DEF ForwardEvent, ToServer
<1> DEFINE m == ForwardEvent(sent[c] + 1)
<1>3. /\ toServer' = [toServer EXCEPT ![c] = Append(@, m)]
      /\ link[c] = "up"
      /\ sent' = [sent EXCEPT ![c] = @ + 1]
      /\ UNCHANGED <<link, sync, pending, draining, handled, toClient, owed>>
  BY DEF Press, server
<1>4. m.op = "FORWARD_EVENT"
  BY DEF ForwardEvent
<1> HIDE DEF m
<1>5. /\ toServer' \in [Client -> Seq(ToServer)]
      /\ \A d \in Client \ {c} : toServer'[d] = toServer[d]
      /\ Len(toServer[c]) \in Nat
      /\ DOMAIN toServer[c] = 1 .. Len(toServer[c])
      /\ Len(toServer'[c]) = Len(toServer[c]) + 1
      /\ DOMAIN toServer'[c] = 1 .. Len(toServer[c]) + 1
      /\ \A i \in 1 .. Len(toServer[c]) : toServer'[c][i] = toServer[c][i]
      /\ toServer'[c][Len(toServer[c]) + 1] = m
  BY <1>2, <1>3, SendFacts DEF m
<1>6. TypeOK'
  <2>1. sent' \in [Client -> 0 .. MaxKey]
    <3>1. sent \in [Client -> 0 .. MaxKey] /\ sent[c] + 1 \in 0 .. MaxKey
      BY <1>1 DEF TypeOK, Keys
    <3>2. QED BY <1>3, <3>1, Zenon
  <2>2. QED BY <1>3, <1>5, <2>1, Zenon DEF TypeOK
<1>7. LeaveIsLast'
  BY <1>3, <1>4, <1>5 DEF LeaveIsLast
<1>8. QueueWaitsForSync'
  BY <1>3 DEF QueueWaitsForSync
<1>9. SyncIsOwed'
  BY <1>3, <1>5 DEF SyncIsOwed
<1>10. KeysInOrder'
  <2> SUFFICES ASSUME NEW d \in Client, link'[d] # "down" PROVE InOrder(d)'
    BY DEF KeysInOrder
  <2>1. InOrder(d)
    BY <1>3 DEF KeysInOrder
  <2>2. CASE d = c
    <3>1. sent'[c] = sent[c] + 1
      BY <1>3 DEF TypeOK
    <3>2. QED BY <1>2, <1>3, <2>1, <2>2, <3>1, OrderSent DEF m
  <2>3. CASE d # c
    BY <1>3, <1>5, <2>1, <2>3, OrderUnchanged DEF TypeOK
  <2>4. QED BY <2>2, <2>3
<1>11. QED BY <1>6, <1>7, <1>8, <1>9, <1>10

(* A message the client has read becomes an acknowledgement it owes.        *)
LEMMA ReadInv ==
    ASSUME NEW c \in Client, IInv, Read(c) PROVE IInv'
<1> USE DEF IInv, Read, server
<1>1. toClient[c] \in Seq(ToClient)
  BY DEF TypeOK
<1>2. /\ toClient' = [toClient EXCEPT ![c] = Tail(toClient[c])]
      /\ Tail(toClient[c]) \in Seq(ToClient)
  BY <1>1
<1>3. /\ owed' \in [Client -> Nat] /\ owed'[c] > 0
      /\ \A d \in Client \ {c} : owed'[d] = owed[d] /\ toClient'[d] = toClient[d]
  <2>1. /\ owed \in [Client -> Nat] /\ owed' = [owed EXCEPT ![c] = owed[c] + 1]
        /\ toClient \in [Client -> Seq(ToClient)]
    BY Zenon DEF TypeOK
  <2>2. owed[c] + 1 \in Nat /\ owed[c] + 1 > 0
    BY <2>1
  <2>3. owed'[c] = owed[c] + 1 /\ \A d \in Client \ {c} : owed'[d] = owed[d]
    BY <2>1, Zenon
  <2>4. \A d \in Client \ {c} : toClient'[d] = toClient[d]
    BY <1>2, <2>1, Zenon
  <2>5. owed' \in [Client -> Nat]
    BY <2>1, <2>2, Zenon
  <2>6. QED BY <2>2, <2>3, <2>4, <2>5
<1>4. toClient' \in [Client -> Seq(ToClient)]
  BY <1>2 DEF TypeOK
<1>5. TypeOK'
  BY <1>3, <1>4 DEF TypeOK
<1>6. LeaveIsLast' /\ QueueWaitsForSync'
  BY DEF LeaveIsLast, QueueWaitsForSync
<1>7. SyncIsOwed'
  BY <1>3 DEF SyncIsOwed
<1>8. KeysInOrder'
  BY OrderUnchanged DEF KeysInOrder
<1>9. QED BY <1>5, <1>6, <1>7, <1>8

(* An acknowledgement the client owes goes onto its channel.                *)
LEMMA ReplyInv ==
    ASSUME NEW c \in Client, IInv, Reply(c) PROVE IInv'
<1> USE DEF IInv
<1>1. SyncReply \in ToServer /\ SyncReply.op = "SYNC_REPLY"
  BY DEF SyncReply, ToServer
<1>2. /\ toServer' = [toServer EXCEPT ![c] = Append(@, SyncReply)]
      /\ link[c] = "up"
      /\ UNCHANGED <<link, sync, pending, draining, handled, toClient, sent>>
  BY DEF Reply, server
<1>3. owed' \in [Client -> Nat] /\ \A d \in Client \ {c} : owed'[d] = owed[d]
  <2>1. PICK n \in 1 .. owed[c] : owed' = [owed EXCEPT ![c] = @ - n]
    BY DEF Reply
  <2>2. owed[c] \in Nat
    BY DEF TypeOK
  <2>3. owed[c] - n \in Nat
    BY <2>2
  <2>4. QED BY <2>1, <2>3 DEF TypeOK
<1>4. /\ toServer' \in [Client -> Seq(ToServer)]
      /\ \A d \in Client \ {c} : toServer'[d] = toServer[d]
      /\ Len(toServer[c]) \in Nat
      /\ DOMAIN toServer[c] = 1 .. Len(toServer[c])
      /\ Len(toServer'[c]) = Len(toServer[c]) + 1
      /\ DOMAIN toServer'[c] = 1 .. Len(toServer[c]) + 1
      /\ \A i \in 1 .. Len(toServer[c]) : toServer'[c][i] = toServer[c][i]
      /\ toServer'[c][Len(toServer[c]) + 1] = SyncReply
  BY <1>1, <1>2, SendFacts
<1>5. TypeOK'
  BY <1>2, <1>3, <1>4 DEF TypeOK
<1>6. LeaveIsLast'
  BY <1>1, <1>2, <1>4 DEF LeaveIsLast
<1>7. QueueWaitsForSync'
  BY <1>2 DEF QueueWaitsForSync
<1>8. SyncIsOwed'
  <2>1. /\ Len(toServer[c]) + 1 \in DOMAIN toServer'[c]
        /\ toServer'[c][Len(toServer[c]) + 1].op = "SYNC_REPLY"
    BY <1>1, <1>4
  <2>2. SyncIsOwed
    OBVIOUS
  <2>3. ASSUME NEW d \in Client \ {c}, link'[d] = "up" /\ sync'[d]
        PROVE  \/ toClient'[d] # <<>>
               \/ owed'[d] > 0
               \/ \E i \in DOMAIN toServer'[d] : toServer'[d][i].op = "SYNC_REPLY"
    BY <1>2, <1>3, <1>4, <2>2, <2>3 DEF SyncIsOwed
  <2>4. QED BY <2>1, <2>3, Zenon DEF SyncIsOwed
<1>9. KeysInOrder'
  <2> SUFFICES ASSUME NEW d \in Client, link'[d] # "down" PROVE InOrder(d)'
    BY DEF KeysInOrder
  <2>1. InOrder(d)
    BY <1>2 DEF KeysInOrder
  <2>2. CASE d = c
    BY <1>1, <1>2, <2>1, <2>2, OrderSent
  <2>3. CASE d # c
    BY <1>2, <1>4, <2>1, <2>3, OrderUnchanged
  <2>4. QED BY <2>2, <2>3
<1>10. QED BY <1>5, <1>6, <1>7, <1>8, <1>9

(* DISCONNECT is the last message a client sends.                           *)
LEMMA LeaveInv ==
    ASSUME NEW c \in Client, IInv, Leave(c) PROVE IInv'
<1> USE DEF IInv
<1>1. Disconnect \in ToServer /\ Disconnect.op = "DISCONNECT"
  BY DEF Disconnect, ToServer
<1>2. /\ toServer' = [toServer EXCEPT ![c] = Append(@, Disconnect)]
      /\ link[c] = "up"
      /\ link' = [link EXCEPT ![c] = "leaving"]
      /\ UNCHANGED <<sync, pending, draining, handled, toClient, owed, sent>>
  BY DEF Leave, server
<1>3. link'[c] = "leaving" /\ \A d \in Client \ {c} : link'[d] = link[d]
  BY <1>2 DEF TypeOK
<1>4. /\ toServer' \in [Client -> Seq(ToServer)]
      /\ \A d \in Client \ {c} : toServer'[d] = toServer[d]
      /\ Len(toServer[c]) \in Nat
      /\ DOMAIN toServer[c] = 1 .. Len(toServer[c])
      /\ Len(toServer'[c]) = Len(toServer[c]) + 1
      /\ DOMAIN toServer'[c] = 1 .. Len(toServer[c]) + 1
      /\ \A i \in 1 .. Len(toServer[c]) : toServer'[c][i] = toServer[c][i]
      /\ toServer'[c][Len(toServer[c]) + 1] = Disconnect
  BY <1>1, <1>2, SendFacts
<1>5. TypeOK'
  BY <1>2, <1>4 DEF TypeOK
<1>6. LeaveIsLast'
  BY <1>1, <1>2, <1>3, <1>4 DEF LeaveIsLast
<1>7. QueueWaitsForSync'
  BY <1>2, <1>3 DEF QueueWaitsForSync, TypeOK
<1>8. SyncIsOwed'
  BY <1>2, <1>3, <1>4 DEF SyncIsOwed
<1>9. KeysInOrder'
  <2> SUFFICES ASSUME NEW d \in Client, link'[d] # "down" PROVE InOrder(d)'
    BY DEF KeysInOrder
  <2>1. InOrder(d)
    BY <1>2, <1>3 DEF KeysInOrder
  <2>2. CASE d = c
    BY <1>1, <1>2, <2>1, <2>2, OrderSent
  <2>3. CASE d # c
    BY <1>2, <1>4, <2>1, <2>3, OrderUnchanged
  <2>4. QED BY <2>2, <2>3
<1>10. QED BY <1>5, <1>6, <1>7, <1>8, <1>9

(* A client that dies changes nothing the server sees.                      *)
LEMMA DieInv ==
    ASSUME NEW c \in Client, IInv, Die(c) PROVE IInv'
<1> USE DEF IInv, Die, server
<1>1. link'[c] = "dead" /\ \A d \in Client \ {c} : link'[d] = link[d]
  BY DEF TypeOK
<1>2. TypeOK'
  BY DEF TypeOK
<1>3. LeaveIsLast'
  BY <1>1 DEF LeaveIsLast
<1>4. QueueWaitsForSync' /\ SyncIsOwed'
  BY <1>1 DEF QueueWaitsForSync, SyncIsOwed, TypeOK
<1>5. KeysInOrder'
  BY <1>1, OrderUnchanged DEF KeysInOrder
<1>6. QED BY <1>2, <1>3, <1>4, <1>5

(* A key that joins pending stays behind those already there.               *)
LEMMA AddQueueInv ==
    ASSUME NEW c \in Client, IInv, AddQueue(c) PROVE IInv'
<1> USE DEF IInv
<1> DEFINE k == Head(toServer[c]).key
<1>1. /\ Receives(c, "FORWARD_EVENT")
      /\ sync[c]
      /\ pending' = [pending EXCEPT ![c] = Append(@, k)]
      /\ UNCHANGED <<link, sync, draining, handled, toClient, owed, sent>>
  BY DEF AddQueue
<1>2. /\ toServer' \in [Client -> Seq(ToServer)]
      /\ \A d \in Client \ {c} : toServer'[d] = toServer[d]
      /\ Len(toServer[c]) \in Nat \ {0}
      /\ DOMAIN toServer[c] = 1 .. Len(toServer[c])
      /\ Head(toServer[c]) = toServer[c][1]
      /\ toServer[c][1].op = "FORWARD_EVENT"
      /\ Len(toServer'[c]) = Len(toServer[c]) - 1
      /\ DOMAIN toServer'[c] = 1 .. Len(toServer[c]) - 1
      /\ \A i \in 1 .. Len(toServer[c]) - 1 : toServer'[c][i] = toServer[c][i + 1]
      /\ link[c] # "down"
      /\ draining = NoClient
  BY <1>1, ReceiveFacts
<1>3. InOrder(c) /\ sent[c] \in 0 .. MaxKey
  BY <1>2 DEF KeysInOrder, TypeOK
<1>4. k = Taken(c) + 1 /\ k \in 1 .. sent[c] /\ Taken(c) \in Nat
  BY <1>1, <1>2, <1>3, HeadIsNext
<1>5. k \in Keys
  BY <1>3, <1>4 DEF Keys
<1> HIDE DEF k
<1>6. pending[c] \in Seq(Keys)
  BY DEF TypeOK
<1>7. /\ Append(pending[c], k) \in Seq(Keys)
      /\ Len(Append(pending[c], k)) = Len(pending[c]) + 1
      /\ Len(pending[c]) \in Nat
      /\ DOMAIN pending[c] = 1 .. Len(pending[c])
      /\ DOMAIN Append(pending[c], k) = 1 .. Len(pending[c]) + 1
      /\ \A i \in 1 .. Len(pending[c]) : Append(pending[c], k)[i] = pending[c][i]
      /\ Append(pending[c], k)[Len(pending[c]) + 1] = k
  BY <1>5, <1>6
<1>8. /\ pending' \in [Client -> Seq(Keys)]
      /\ pending'[c] = Append(pending[c], k)
      /\ \A d \in Client \ {c} : pending'[d] = pending[d]
  BY <1>1, <1>7 DEF TypeOK
<1>9. TypeOK'
  BY <1>1, <1>2, <1>8 DEF TypeOK
<1>10. LeaveIsLast'
  BY <1>1, ReceiveKeepsLeave
<1>11. QueueWaitsForSync'
  BY <1>1, <1>2, <1>8 DEF QueueWaitsForSync
<1>12. SyncIsOwed'
  <2> SUFFICES ASSUME NEW d \in Client, link[d] = "up", sync[d],
                      toClient[d] = <<>>, ~ (owed[d] > 0)
               PROVE  \E i \in DOMAIN toServer'[d] : toServer'[d][i].op = "SYNC_REPLY"
    BY <1>1 DEF SyncIsOwed
  <2>1. PICK i \in DOMAIN toServer[d] : toServer[d][i].op = "SYNC_REPLY"
    BY DEF SyncIsOwed
  <2>2. QED BY <1>1, <2>1, ReceiveKeepsReply
<1>13. KeysInOrder'
  <2> SUFFICES ASSUME NEW d \in Client, link'[d] # "down" PROVE InOrder(d)'
    BY DEF KeysInOrder
  <2>1. CASE d = c
    <3>1. handled'[c] = handled[c] /\ handled[c] \in Nat
      BY <1>1 DEF TypeOK
    <3>2. Taken(c)' = Taken(c) + 1 /\ Taken(c) = handled[c] + Len(pending[c])
      BY <1>7, <1>8, <3>1 DEF Taken
    <3>3. \A i \in 1 .. Len(pending[c]) : pending[c][i] = handled[c] + i
      BY <1>3, <1>7 DEF InOrder
    <3>4. QueueFollows(c)'
      <4> SUFFICES ASSUME NEW i \in 1 .. Len(pending[c]) + 1
                   PROVE  pending'[c][i] = handled[c] + i
        BY <1>7, <1>8, <3>1 DEF QueueFollows
      <4>1. CASE i = Len(pending[c]) + 1
        BY <1>4, <1>7, <1>8, <3>1, <3>2, <4>1
      <4>2. CASE i \in 1 .. Len(pending[c])
        BY <1>7, <1>8, <3>3, <4>2
      <4>3. QED BY <1>7, <4>1, <4>2
    <3>5. sent'[c] = sent[c]
      BY <1>1
    <3>6. QED BY <1>1, <1>3, <2>1, <3>2, <3>4, <3>5, OrderReceived
  <2>2. CASE d # c
    BY <1>1, <1>2, <1>8, <2>2, OrderUnchanged DEF KeysInOrder
  <2>3. QED BY <2>1, <2>2
<1>14. QED BY <1>9, <1>10, <1>11, <1>12, <1>13

(* A key is handled at once only when none is in pending.                   *)
LEMMA HandleForwardEventInv ==
    ASSUME NEW c \in Client, IInv, HandleForwardEvent(c) PROVE IInv'
<1> USE DEF IInv
<1> DEFINE k == Head(toServer[c]).key
<1>1. /\ Receives(c, "FORWARD_EVENT")
      /\ ~sync[c]
      /\ Handle(c, k)
      /\ UNCHANGED <<link, pending, draining, owed, sent>>
  BY DEF HandleForwardEvent
<1>2. /\ toServer' \in [Client -> Seq(ToServer)]
      /\ \A d \in Client \ {c} : toServer'[d] = toServer[d]
      /\ Head(toServer[c]) = toServer[c][1]
      /\ link[c] # "down"
      /\ draining = NoClient
  BY <1>1, ReceiveFacts
<1>3. InOrder(c) /\ sent[c] \in 0 .. MaxKey
  BY <1>2 DEF KeysInOrder, TypeOK
<1>4. k = Taken(c) + 1 /\ k \in 1 .. sent[c] /\ Taken(c) \in Nat
  BY <1>1, <1>2, <1>3, HeadIsNext
<1>5. k \in Keys
  BY <1>3, <1>4 DEF Keys
<1> HIDE DEF k
<1>6. /\ handled' = [handled EXCEPT ![c] = k]
      /\ handled' \in [Client -> 0 .. MaxKey]
      /\ toClient' \in [Client -> Seq(ToClient)]
      /\ sync' \in [Client -> BOOLEAN]
      /\ \A d \in Client \ {c} : sync'[d] = sync[d] /\ toClient'[d] = toClient[d]
      /\ sync'[c] /\ ~sync[c] => toClient'[c] # <<>>
  BY <1>1, <1>5, HandleFacts
<1>7. pending[c] = <<>>
  BY <1>1, <1>2 DEF QueueWaitsForSync
<1>8. TypeOK'
  BY <1>1, <1>2, <1>6 DEF TypeOK
<1>9. LeaveIsLast'
  BY <1>1, ReceiveKeepsLeave
<1>10. QueueWaitsForSync'
  BY <1>1, <1>2, <1>6, <1>7 DEF QueueWaitsForSync
<1>11. SyncIsOwed'
  <2> SUFFICES ASSUME NEW d \in Client, link[d] = "up", sync'[d],
                      toClient'[d] = <<>>, ~ (owed[d] > 0)
               PROVE  \E i \in DOMAIN toServer'[d] : toServer'[d][i].op = "SYNC_REPLY"
    BY <1>1 DEF SyncIsOwed
  <2>1. d # c /\ sync[d] /\ toClient[d] = <<>>
    BY <1>1, <1>6
  <2>2. PICK i \in DOMAIN toServer[d] : toServer[d][i].op = "SYNC_REPLY"
    BY <2>1 DEF SyncIsOwed
  <2>3. QED BY <1>1, <2>2, ReceiveKeepsReply
<1>12. KeysInOrder'
  <2> SUFFICES ASSUME NEW d \in Client, link'[d] # "down" PROVE InOrder(d)'
    BY DEF KeysInOrder
  <2>1. CASE d = c
    <3>1. handled'[c] = k /\ pending'[c] = <<>> /\ handled[c] \in Nat
      BY <1>1, <1>6, <1>7 DEF TypeOK
    <3>2. Taken(c) = handled[c]
      BY <1>7, <3>1 DEF Taken
    <3>3. Taken(c)' = Taken(c) + 1
      BY <1>4, <3>1 DEF Taken
    <3>4. QueueFollows(c)'
      BY <3>1 DEF QueueFollows
    <3>5. sent'[c] = sent[c]
      BY <1>1
    <3>6. QED BY <1>1, <1>3, <2>1, <3>3, <3>4, <3>5, OrderReceived
  <2>2. CASE d # c
    BY <1>1, <1>2, <1>6, <2>2, OrderUnchanged DEF KeysInOrder, TypeOK
  <2>3. QED BY <2>1, <2>2
<1>13. QED BY <1>8, <1>9, <1>10, <1>11, <1>12

(* An acknowledgement clears sync and starts the loop if keys wait.         *)
LEMMA HandleSyncReplyInv ==
    ASSUME NEW c \in Client, IInv, HandleSyncReply(c) PROVE IInv'
<1> USE DEF IInv
<1>1. /\ Receives(c, "SYNC_REPLY")
      /\ sync' = [sync EXCEPT ![c] = FALSE]
      /\ draining' = IF pending[c] = <<>> THEN NoClient ELSE c
      /\ UNCHANGED <<link, pending, handled, toClient, owed, sent>>
  BY DEF HandleSyncReply, Loop
<1>2. /\ toServer' \in [Client -> Seq(ToServer)]
      /\ \A d \in Client \ {c} : toServer'[d] = toServer[d]
      /\ link[c] # "down"
      /\ draining = NoClient
  BY <1>1, ReceiveFacts
<1>3. /\ sync' \in [Client -> BOOLEAN]
      /\ ~sync'[c]
      /\ \A d \in Client \ {c} : sync'[d] = sync[d]
  BY <1>1 DEF TypeOK
<1>4. TypeOK'
  BY <1>1, <1>2, <1>3 DEF TypeOK
<1>5. LeaveIsLast'
  BY <1>1, ReceiveKeepsLeave
<1>6. QueueWaitsForSync'
  BY <1>1, <1>2, <1>3 DEF QueueWaitsForSync
<1>7. SyncIsOwed'
  BY <1>1, <1>2, <1>3 DEF SyncIsOwed
<1>8. KeysInOrder'
  <2> SUFFICES ASSUME NEW d \in Client, link'[d] # "down" PROVE InOrder(d)'
    BY DEF KeysInOrder
  <2>1. InOrder(d)
    BY <1>1 DEF KeysInOrder
  <2>2. CASE d = c
    <3>1. Taken(c)' = Taken(c) /\ QueueFollows(c)' /\ sent'[c] = sent[c]
      BY <1>1, <2>1, <2>2 DEF Taken, QueueFollows, InOrder
    <3>2. QED BY <1>1, <2>1, <2>2, <3>1, OrderReceived
  <2>3. CASE d # c
    BY <1>1, <1>2, <2>1, <2>3, OrderUnchanged
  <2>4. QED BY <2>2, <2>3
<1>9. QED BY <1>4, <1>5, <1>6, <1>7, <1>8

(* A record that is given back has no message left in its channel.          *)
LEMMA HandleDisconnectInv ==
    ASSUME NEW c \in Client, IInv, HandleDisconnect(c) PROVE IInv'
<1> USE DEF IInv
<1>1. /\ Receives(c, "DISCONNECT")
      /\ link' = [link EXCEPT ![c] = "down"]
      /\ UNCHANGED <<sync, pending, draining, handled, toClient, owed, sent>>
  BY DEF HandleDisconnect, server
<1>2. /\ toServer' \in [Client -> Seq(ToServer)]
      /\ \A d \in Client \ {c} : toServer'[d] = toServer[d]
      /\ Len(toServer[c]) \in Nat \ {0}
      /\ DOMAIN toServer[c] = 1 .. Len(toServer[c])
      /\ toServer[c][1].op = "DISCONNECT"
      /\ Len(toServer'[c]) = Len(toServer[c]) - 1
      /\ draining = NoClient
  BY <1>1, ReceiveFacts
<1>3. /\ link' \in [Client -> {"down", "up", "leaving", "dead"}]
      /\ link'[c] = "down"
      /\ \A d \in Client \ {c} : link'[d] = link[d]
  BY <1>1 DEF TypeOK
<1>4. toServer'[c] = <<>>
  <2>0. 1 \in DOMAIN toServer[c]
    BY <1>2
  <2>1. 1 = Len(toServer[c])
    BY <1>2, <2>0 DEF LeaveIsLast
  <2>2. toServer'[c] \in Seq(ToServer) /\ Len(toServer'[c]) = 0
    BY <1>2, <2>1
  <2>3. QED BY <2>2
<1>5. TypeOK'
  BY <1>1, <1>2, <1>3 DEF TypeOK
<1>6. LeaveIsLast'
  BY <1>2, <1>3, <1>4 DEF LeaveIsLast
<1>7. QueueWaitsForSync' /\ SyncIsOwed'
  <2>1. QueueWaitsForSync'
    BY <1>1, <1>2, <1>3 DEF QueueWaitsForSync
  <2>2. SyncIsOwed'
    BY <1>1, <1>2, <1>3 DEF SyncIsOwed
  <2>3. QED BY <2>1, <2>2
<1>8. KeysInOrder'
  BY <1>1, <1>2, <1>3, OrderUnchanged DEF KeysInOrder
<1>9. QED BY <1>5, <1>6, <1>7, <1>8

(* The loop handles the oldest key and stops at a hand-back or the end.     *)
LEMMA ProcessQueueInv ==
    ASSUME NEW c \in Client, IInv, ProcessQueue(c) PROVE IInv'
<1> USE DEF IInv
<1> DEFINE k == Head(pending[c])
<1>1. /\ draining = c
      /\ Handle(c, k)
      /\ pending' = [pending EXCEPT ![c] = Tail(@)]
      /\ draining' = IF ~sync'[c] /\ Tail(pending[c]) # <<>> THEN c ELSE NoClient
      /\ UNCHANGED <<link, toServer, owed, sent>>
  BY DEF ProcessQueue, Loop
<1>2. link[c] # "down" /\ ~sync[c] /\ pending[c] # <<>>
  BY <1>1 DEF QueueWaitsForSync
<1>3. InOrder(c) /\ handled[c] \in Nat
  BY <1>2 DEF KeysInOrder, TypeOK
<1>4. pending[c] \in Seq(Keys)
  BY DEF TypeOK
<1>5. /\ Tail(pending[c]) \in Seq(Keys)
      /\ k \in Keys /\ k = pending[c][1]
      /\ Len(pending[c]) \in Nat \ {0}
      /\ Len(Tail(pending[c])) = Len(pending[c]) - 1
      /\ DOMAIN pending[c] = 1 .. Len(pending[c])
      /\ DOMAIN Tail(pending[c]) = 1 .. Len(pending[c]) - 1
      /\ \A i \in 1 .. Len(pending[c]) - 1 : Tail(pending[c])[i] = pending[c][i + 1]
  BY <1>2, <1>4
<1> HIDE DEF k
<1>6. /\ handled' = [handled EXCEPT ![c] = k]
      /\ handled' \in [Client -> 0 .. MaxKey]
      /\ toClient' \in [Client -> Seq(ToClient)]
      /\ sync' \in [Client -> BOOLEAN]
      /\ \A d \in Client \ {c} : sync'[d] = sync[d] /\ toClient'[d] = toClient[d]
      /\ sync'[c] /\ ~sync[c] => toClient'[c] # <<>>
  BY <1>1, <1>5, HandleFacts
<1>7. /\ pending' \in [Client -> Seq(Keys)]
      /\ pending'[c] = Tail(pending[c])
      /\ \A d \in Client \ {c} : pending'[d] = pending[d]
  BY <1>1, <1>5 DEF TypeOK
<1>8. TypeOK'
  BY <1>1, <1>6, <1>7 DEF TypeOK
<1>9. LeaveIsLast'
  BY <1>1 DEF LeaveIsLast
<1>10. QueueWaitsForSync'
  BY <1>1, <1>2, <1>6, <1>7 DEF QueueWaitsForSync
<1>11. SyncIsOwed'
  BY <1>1, <1>2, <1>6 DEF SyncIsOwed
<1>12. KeysInOrder'
  <2> SUFFICES ASSUME NEW d \in Client, link'[d] # "down" PROVE InOrder(d)'
    BY DEF KeysInOrder
  <2>1. CASE d = c
    <3>1. \A i \in 1 .. Len(pending[c]) : pending[c][i] = handled[c] + i
      BY <1>3, <1>5 DEF InOrder
    <3>2. handled'[c] = handled[c] + 1
      <4>1. 1 \in 1 .. Len(pending[c])
        BY <1>5
      <4>2. k = handled[c] + 1
        BY <1>5, <3>1, <4>1
      <4>3. handled'[c] = k
        BY <1>6 DEF TypeOK
      <4>4. QED BY <4>2, <4>3
    <3>3. Taken(c)' = Taken(c)
      <4> DEFINE l == Len(pending[c])
                 h == handled[c]
      <4>1. l \in Nat /\ h \in Nat
        BY <1>3, <1>5
      <4>2. Taken(c) = h + l /\ Taken(c)' = (h + 1) + (l - 1)
        BY <1>5, <1>7, <3>2, Zenon DEF Taken
      <4> HIDE DEF l, h
      <4>3. (h + 1) + (l - 1) = h + l
        BY <4>1
      <4>4. QED BY <4>2, <4>3, Zenon
    <3>4. QueueFollows(c)'
      <4> SUFFICES ASSUME NEW i \in 1 .. Len(pending[c]) - 1
                   PROVE  pending[c][i + 1] = handled[c] + 1 + i
        BY <1>5, <1>7, <3>2 DEF QueueFollows
      <4>1. i + 1 \in 1 .. Len(pending[c])
        BY <1>5
      <4>2. pending[c][i + 1] = handled[c] + (i + 1)
        BY <3>1, <4>1
      <4>3. QED BY <1>3, <4>2
    <3>5. sent'[c] = sent[c] /\ toServer'[c] = toServer[c]
      BY <1>1
    <3>6. QED BY <1>3, <2>1, <3>3, <3>4, <3>5, OrderKept
  <2>2. CASE d # c
    BY <1>1, <1>6, <1>7, <2>2, OrderUnchanged DEF KeysInOrder, TypeOK
  <2>3. QED BY <2>1, <2>2
<1>13. QED BY <1>8, <1>9, <1>10, <1>11, <1>12

(* The invariant speaks of the variables only.                              *)
LEMMA StutterInv ==
    ASSUME IInv, UNCHANGED vars PROVE IInv'
<1> USE DEF IInv, vars
<1>1. TypeOK' /\ LeaveIsLast' /\ QueueWaitsForSync' /\ SyncIsOwed'
  BY DEF TypeOK, LeaveIsLast, QueueWaitsForSync, SyncIsOwed
<1>2. KeysInOrder'
  BY OrderUnchanged DEF KeysInOrder
<1>3. QED BY <1>1, <1>2

(* Every action preserves the invariant.                                    *)
LEMMA StepInv ==
    ASSUME IInv, [Next]_vars PROVE IInv'
<1>1. ASSUME NEW c \in Client, ClientStep(c) PROVE IInv'
  BY <1>1, NewClientInv, PressInv, ReadInv, ReplyInv, LeaveInv, DieInv DEF ClientStep
<1>2. ASSUME NEW c \in Client, ServerStep(c) PROVE IInv'
  BY <1>2, AddQueueInv, HandleForwardEventInv, HandleSyncReplyInv,
     ProcessQueueInv, HandleDisconnectInv DEF ServerStep
<1>3. CASE UNCHANGED vars
  BY <1>3, StutterInv
<1>4. QED BY <1>1, <1>2, <1>3 DEF Next

(* IInv is inductive: it holds initially and every action preserves it.     *)
THEOREM Inductive == Spec => []IInv
<1>1. Init => IInv
  BY InitInv
<1>2. IInv /\ [Next]_vars => IInv'
  BY StepInv
<1>3. QED BY <1>1, <1>2, PTL DEF Spec

(* The variables keep their types; in particular sent and handled stay      *)
(* within the serial numbers a connection may use.                          *)
THEOREM TypeCorrect == Spec => []TypeOK
<1>1. IInv => TypeOK
  BY DEF IInv
<1>2. QED BY <1>1, Inductive, PTL

(* No key is stranded in pending (AddQueue, ProcessQueue), with any number  *)
(* of clients and whatever each key event makes the handler send.           *)
THEOREM NoStrandedKey == Spec => []QueueWaitsForSync
<1>1. IInv => QueueWaitsForSync
  BY DEF IInv
<1>2. QED BY <1>1, Inductive, PTL

(* A live client whose keys are held back (sync) has an acknowledgement to  *)
(* make or on its way, also after its connect id was used by another.       *)
THEOREM NoLostReply == Spec => []SyncIsOwed
<1>1. IInv => SyncIsOwed
  BY DEF IInv
<1>2. QED BY <1>1, Inductive, PTL

(* _Xi18nMessageHandler, AddQueue and ProcessQueue handle the keys of a     *)
(* connection once each and in the order the client forwarded them.         *)
THEOREM OrderCorrect == Spec => []KeysInOrder
<1>1. IInv => KeysInOrder
  BY DEF IInv
<1>2. QED BY <1>1, Inductive, PTL

-----------------------------------------------------------------------------
(* The refinement of KeyStream. *)

WaitingAt(c) == pending[c] \o KeysOf(SelectAt(toServer[c], Forwards(c)))

(* Two lists of numbers, one after the other.                               *)
LEMMA NumbersConcat ==
    ASSUME NEW q \in Seq(Nat), NEW w \in Seq(Nat)
    PROVE  /\ q \o w \in Seq(Nat) /\ Len(q \o w) = Len(q) + Len(w)
           /\ \A i \in 1 .. Len(q) : (q \o w)[i] = q[i]
           /\ \A i \in 1 .. Len(w) : (q \o w)[Len(q) + i] = w[i]
<1>1. QED BY ConcatFacts

(* What order means for the mapping: the queue and the channel hold the     *)
(* keys sent and not handled, each once, the oldest first.                  *)
LEMMA OrderIsWaiting ==
    ASSUME NEW c \in Client, TypeOK, InOrder(c)
    PROVE  WaitingAt(c) = [i \in 1 .. sent[c] - handled[c] |-> handled[c] + i]
<1> DEFINE t == Taken(c)
           n == sent[c] - t
           I == Forwards(c)
           s == toServer[c]
           q == pending[c]
           h == handled[c]
<1>1. /\ s \in Seq(ToServer) /\ DOMAIN s = 1 .. Len(s)
      /\ q \in Seq(Keys) /\ Len(q) \in Nat /\ DOMAIN q = 1 .. Len(q)
      /\ h \in Nat /\ sent[c] \in Nat /\ t = h + Len(q)
  BY DEF TypeOK, Taken
<1>2. /\ t <= sent[c]
      /\ \A i \in DOMAIN q : q[i] = h + i
      /\ \A i \in I : s[i].key \in t + 1 .. sent[c]
      /\ \A k \in t + 1 .. sent[c] : \E i \in I : s[i].key = k
      /\ \A i, j \in I : i < j => s[i].key < s[j].key
  BY DEF InOrder
<1>3. I \in SUBSET DOMAIN s
  BY DEF Forwards
<1> HIDE DEF t, I, s, q, h
<1>4. n \in Nat /\ I \in SUBSET Nat /\ \A i \in I : i \in Nat
  BY <1>1, <1>2, <1>3
<1> DEFINE f == [k \in 1 .. n |-> CHOOSE i \in I : s[i].key = t + k]
<1>5. ASSUME NEW k \in 1 .. n PROVE f[k] \in I /\ f[k] \in Nat /\ s[f[k]].key = t + k
  <2>1. t + k \in t + 1 .. sent[c]
    BY <1>1, <1>2
  <2>2. f[k] \in I /\ s[f[k]].key = t + k
    BY <1>2, <2>1
  <2>3. QED BY <1>4, <2>2
<1>6. Enumerates(f, n, I)
  <2>1. f \in [1 .. n -> I]
    <3>1. \A k \in 1 .. n : \E i \in I : s[i].key = t + k
      BY <1>5
    <3>2. QED BY <3>1
  <2> HIDE DEF f
  <2>2. ASSUME NEW k \in 1 .. n, NEW l \in 1 .. n, k < l PROVE f[k] < f[l]
    <3>1. s[f[k]].key < s[f[l]].key
      BY <1>1, <1>5, <2>2
    <3>2. f[k] # f[l]
      <4>1. s[f[k]].key # s[f[l]].key
        <5>1. s[f[k]].key = t + k /\ s[f[l]].key = t + l
          BY <1>5
        <5>2. t + k # t + l
          BY <1>1, <2>2
        <5>3. QED BY <5>1, <5>2
      <4>2. QED BY <4>1
    <3>3. ~ (f[l] < f[k])
      <4>1. f[l] < f[k] => s[f[l]].key < s[f[k]].key
        BY <1>2, <1>5
      <4>2. s[f[k]].key = t + k /\ s[f[l]].key = t + l
        BY <1>5
      <4>3. QED BY <1>1, <2>2, <4>1, <4>2
    <3>4. f[k] \in Nat /\ f[l] \in Nat
      BY <1>5
    <3>5. QED BY <3>2, <3>3, <3>4
  <2>3. ASSUME NEW i \in I PROVE \E k \in 1 .. n : f[k] = i
    <3>1. s[i].key \in t + 1 .. sent[c]
      BY <1>2
    <3> DEFINE k == s[i].key - t
    <3>2. k \in 1 .. n /\ t + k = s[i].key
      BY <1>1, <1>2, <3>1
    <3> HIDE DEF k
    <3>3. f[k] \in I /\ f[k] \in Nat /\ s[f[k]].key = s[i].key /\ i \in Nat
      BY <1>4, <1>5, <3>2
    <3>4. ~ (f[k] < i)
      <4>1. f[k] < i => s[f[k]].key < s[i].key
        BY <1>2, <3>3
      <4>2. QED BY <1>1, <3>1, <3>3, <4>1
    <3>5. ~ (i < f[k])
      <4>1. i < f[k] => s[i].key < s[f[k]].key
        BY <1>2, <3>3
      <4>2. QED BY <1>1, <3>1, <3>3, <4>1
    <3>6. f[k] = i
      BY <3>3, <3>4, <3>5
    <3>7. QED BY <3>2, <3>6
  <2>4. QED BY <2>1, <2>2, <2>3 DEF Enumerates
<1> HIDE DEF f
<1>7. SelectAt(s, I) = Picked(s, f, n)
  <2>1. I \in SUBSET Nat /\ n \in Nat /\ Enumerates(f, n, I)
    BY <1>4, <1>6
  <2> HIDE DEF n, I, s
  <2>2. QED BY <2>1, SelectIs
<1> DEFINE w == KeysOf(SelectAt(s, I))
<1>8. w = [k \in 1 .. n |-> t + k]
  <2>1. w = [k \in 1 .. n |-> s[f[k]].key]
    BY <1>7 DEF KeysOf, Picked
  <2> HIDE DEF w
  <2>2. QED BY <1>5, <2>1
<1> HIDE DEF w
<1>9. /\ w \in Seq(Nat) /\ Len(w) = n /\ \A k \in 1 .. n : w[k] = t + k
  <2>1. t \in Nat
    BY <1>1
  <2> HIDE DEF n
  <2>2. QED BY <1>4, <1>8, <2>1
<1>10. q \in Seq(Nat)
  BY <1>1, <1>2, SMTT(20)
<1>11. /\ q \o w \in Seq(Nat) /\ Len(q \o w) = Len(q) + n
       /\ \A i \in 1 .. Len(q) : (q \o w)[i] = q[i]
       /\ \A i \in 1 .. n : (q \o w)[Len(q) + i] = w[i]
  <2>1. w \in Seq(Nat) /\ q \in Seq(Nat) /\ Len(w) = n
    BY <1>9, <1>10
  <2> HIDE DEF n, q
  <2>2. /\ q \o w \in Seq(Nat) /\ Len(q \o w) = Len(q) + Len(w)
        /\ \A i \in 1 .. Len(q) : (q \o w)[i] = q[i]
        /\ \A i \in 1 .. Len(w) : (q \o w)[Len(q) + i] = w[i]
    BY <2>1, NumbersConcat, Zenon
  <2>3. QED BY <2>1, <2>2, Zenon
<1>12. Len(q) + n = sent[c] - h
  BY <1>1
<1>13. ASSUME NEW i \in 1 .. sent[c] - h PROVE (q \o w)[i] = h + i
  <2>1. CASE i <= Len(q)
    <3>1. i \in 1 .. Len(q)
      BY <1>1, <2>1
    <3>2. (q \o w)[i] = q[i]
      BY <1>11, <3>1
    <3>3. q[i] = h + i
      BY <1>1, <1>2, <3>1
    <3>4. QED BY <3>2, <3>3
  <2>2. CASE ~ (i <= Len(q))
    <3>1. i - Len(q) \in 1 .. n /\ Len(q) + (i - Len(q)) = i /\ t + (i - Len(q)) = h + i
      BY <1>1, <1>12, <2>2
    <3>2. QED BY <1>9, <1>11, <3>1
  <2>3. QED BY <2>1, <2>2
<1> DEFINE u == q \o w
<1>14. u \in Seq(Nat) /\ Len(u) = sent[c] - h /\ \A i \in 1 .. sent[c] - h : u[i] = h + i
  BY <1>11, <1>12, <1>13
<1> HIDE DEF u
<1>15. u = [i \in 1 .. sent[c] - h |-> h + i]
  BY <1>14
<1>16. QED BY <1>15 DEF WaitingAt, u, w, q, s, I, h

(* The keys of a connection by their serial numbers, n of them after h.     *)
Numbers(h, n) == [i \in 1 .. n |-> h + i]

(* A key typed is the last of them, a key handled the first.                *)
LEMMA NumbersFacts ==
    ASSUME NEW h \in Nat, NEW n \in Nat
    PROVE  /\ Numbers(h, 0) = <<>>
           /\ Append(Numbers(h, n), (h + n) + 1) = Numbers(h, n + 1)
           /\ Numbers(h, n + 1) # <<>> /\ Head(Numbers(h, n + 1)) = h + 1
           /\ Tail(Numbers(h, n + 1)) = Numbers(h + 1, n)
<1>0. h + 1 \in Nat /\ n + 1 \in Nat
  OBVIOUS
<1>1. ASSUME NEW g \in Nat, NEW m \in Nat
      PROVE  /\ Numbers(g, m) \in Seq(Nat) /\ Len(Numbers(g, m)) = m
             /\ \A i \in 1 .. m : Numbers(g, m)[i] = g + i
  BY DEF Numbers
<1>2. Numbers(h, 0) = <<>>
  BY DEF Numbers
<1> DEFINE a == Numbers(h, n)
           b == Numbers(h, n + 1)
           d == Numbers(h + 1, n)
<1>3. /\ a \in Seq(Nat) /\ Len(a) = n /\ \A i \in 1 .. n : a[i] = h + i
      /\ b \in Seq(Nat) /\ Len(b) = n + 1 /\ \A i \in 1 .. n + 1 : b[i] = h + i
      /\ d \in Seq(Nat) /\ Len(d) = n /\ \A i \in 1 .. n : d[i] = (h + 1) + i
  BY <1>0, <1>1
<1> HIDE DEF a, b, d
<1>4. Append(a, (h + n) + 1) = b
  <2> DEFINE e == Append(a, (h + n) + 1)
  <2>1. /\ e \in Seq(Nat) /\ Len(e) = n + 1
        /\ \A i \in 1 .. n : e[i] = a[i]
        /\ e[n + 1] = (h + n) + 1
    BY <1>3
  <2> HIDE DEF e
  <2>2. \A i \in 1 .. n + 1 : e[i] = b[i]
    BY <1>3, <2>1
  <2>3. e = b
    BY <1>3, <2>1, <2>2, SeqEqual
  <2>4. QED BY <2>3 DEF e
<1>5. b # <<>> /\ Head(b) = h + 1
  BY <1>3
<1>6. Tail(b) = d
  <2>1. /\ Tail(b) \in Seq(Nat) /\ Len(Tail(b)) = n
        /\ \A i \in 1 .. n : Tail(b)[i] = b[i + 1]
    BY <1>3, <1>5
  <2>2. \A i \in 1 .. n : Tail(b)[i] = d[i]
    BY <1>3, <2>1
  <2>3. QED BY <1>3, <2>1, <2>2, SeqEqual
<1>7. QED BY <1>2, <1>4, <1>5, <1>6 DEF a, b, d

(* What KeyStream sees of each client.                                      *)
OpenOf == [c \in Client |-> link[c] # "down"]
TypedOf == [c \in Client |-> WhenOpen(c, sent[c], 0)]
WaitingOf == [c \in Client |-> WhenOpen(c, WaitingAt(c), <<>>)]
AnswersOf == [c \in Client |-> WhenOpen(c, KeysOf(toClient[c]), <<>>)]

(* While the keys are in order the mapping depends on no channel to the     *)
(* server.                                                                  *)
Seen(c) == /\ TypedOf[c] = IF link[c] = "down" THEN 0 ELSE sent[c]
           /\ WaitingOf[c] = IF link[c] = "down" THEN <<>>
                                 ELSE Numbers(handled[c], sent[c] - handled[c])
           /\ AnswersOf[c] = IF link[c] = "down" THEN <<>> ELSE KeysOf(toClient[c])

(* What KeyStream sees of a connection, by the order of its keys.           *)
LEMMA SeenIs == IInv => \A c \in Client : Seen(c)
<1> SUFFICES ASSUME IInv, NEW c \in Client PROVE Seen(c)
  OBVIOUS
<1>1. link[c] # "down" => WaitingAt(c) = Numbers(handled[c], sent[c] - handled[c])
  BY OrderIsWaiting DEF IInv, KeysInOrder, Numbers
<1>2. QED BY <1>1 DEF Seen, TypedOf, WaitingOf, AnswersOf, WhenOpen

(* The same of the next state.                                              *)
LEMMA SeenIsNext == IInv' => (\A c \in Client : Seen(c))'
  BY SeenIs, PTL

(* The five kinds of steps that KeyStream allows on a client.               *)
Opened(c) == /\ ~OpenOf[c] /\ OpenOf' = [OpenOf EXCEPT ![c] = TRUE]
             /\ TypedOf' = [TypedOf EXCEPT ![c] = 0]
             /\ WaitingOf' = [WaitingOf EXCEPT ![c] = <<>>]
             /\ AnswersOf' = [AnswersOf EXCEPT ![c] = <<>>]
Typed(c) == /\ OpenOf[c] /\ OpenOf' = OpenOf /\ TypedOf[c] < MaxKey
            /\ TypedOf' = [TypedOf EXCEPT ![c] = TypedOf[c] + 1]
            /\ WaitingOf' = [WaitingOf EXCEPT ![c] = Append(WaitingOf[c], TypedOf[c] + 1)]
            /\ AnswersOf' = AnswersOf
HandledOne(c) == /\ OpenOf[c] /\ OpenOf' = OpenOf /\ TypedOf' = TypedOf
                 /\ WaitingOf[c] # <<>>
                 /\ WaitingOf' = [WaitingOf EXCEPT ![c] = Tail(WaitingOf[c])]
                 /\ \E n \in 0 .. MaxCommit + 1 :
                       AnswersOf' = [AnswersOf EXCEPT ![c] =
                                       AnswersOf[c] \o [i \in 1 .. n |-> Head(WaitingOf[c])]]
ReadOne(c) == /\ OpenOf[c] /\ OpenOf' = OpenOf /\ TypedOf' = TypedOf
              /\ WaitingOf' = WaitingOf
              /\ AnswersOf[c] # <<>>
              /\ AnswersOf' = [AnswersOf EXCEPT ![c] = Tail(AnswersOf[c])]
Closed(c) == /\ OpenOf[c] /\ OpenOf' = [OpenOf EXCEPT ![c] = FALSE]
             /\ TypedOf' = [TypedOf EXCEPT ![c] = 0]
             /\ WaitingOf' = [WaitingOf EXCEPT ![c] = <<>>]
             /\ AnswersOf' = [AnswersOf EXCEPT ![c] = <<>>]

StreamVars == <<OpenOf, TypedOf, WaitingOf, AnswersOf>>

(* They are steps of KeyStream.                                             *)
LEMMA StreamSteps ==
    ASSUME NEW c \in Client,
           \/ Opened(c) \/ Typed(c) \/ HandledOne(c) \/ ReadOne(c) \/ Closed(c)
    PROVE  Stream!Next
<1> USE DEF OpenOf, TypedOf, WaitingOf, AnswersOf, WaitingAt
<1>1. CASE Opened(c)
  <2>1. Stream!Open(c)
    BY <1>1 DEF Opened, Stream!Open
  <2>2. QED BY <2>1, Zenon DEF Stream!Next
<1>2. CASE Typed(c)
  <2>1. Stream!Type(c)
    BY <1>2 DEF Typed, Stream!Type
  <2>2. QED BY <2>1, Zenon DEF Stream!Next
<1>3. CASE HandledOne(c)
  <2>1. Stream!Handle(c)
    BY <1>3 DEF HandledOne, Stream!Handle
  <2>2. QED BY <2>1, Zenon DEF Stream!Next
<1>4. CASE ReadOne(c)
  <2>1. Stream!Read(c)
    BY <1>4 DEF ReadOne, Stream!Read
  <2>2. QED BY <2>1, Zenon DEF Stream!Next
<1>5. CASE Closed(c)
  <2>1. Stream!Close(c)
    BY <1>5 DEF Closed, Stream!Close
  <2>2. QED BY <2>1, Zenon DEF Stream!Next
<1>6. QED BY <1>1, <1>2, <1>3, <1>4, <1>5

(* A step of one client shows nothing of another.                           *)
LEMMA OthersUnseen ==
    ASSUME IInv, IInv', NEW c \in Client,
           \A d \in Client \ {c} : /\ link'[d] = link[d] /\ sent'[d] = sent[d]
                                   /\ handled'[d] = handled[d] /\ toClient'[d] = toClient[d]
    PROVE  /\ OpenOf' = [OpenOf EXCEPT ![c] = link'[c] # "down"]
           /\ TypedOf' = [TypedOf EXCEPT ![c] = TypedOf'[c]]
           /\ WaitingOf' = [WaitingOf EXCEPT ![c] = WaitingOf'[c]]
           /\ AnswersOf' = [AnswersOf EXCEPT ![c] = AnswersOf'[c]]
<1>1. \A d \in Client : Seen(d) /\ Seen(d)'
  BY SeenIs, SeenIsNext
<1>2. ASSUME NEW d \in Client \ {c}
      PROVE  /\ TypedOf'[d] = TypedOf[d] /\ WaitingOf'[d] = WaitingOf[d]
             /\ AnswersOf'[d] = AnswersOf[d] /\ link'[d] = link[d]
  <2>1. KeysOf(toClient[d])' = KeysOf(toClient[d])
    BY DEF KeysOf
  <2>2. QED BY <1>1, <2>1 DEF Seen
<1>3. OpenOf' = [OpenOf EXCEPT ![c] = link'[c] # "down"]
  BY <1>2 DEF OpenOf
<1>4. TypedOf' = [TypedOf EXCEPT ![c] = TypedOf'[c]]
  BY <1>2 DEF TypedOf
<1>5. WaitingOf' = [WaitingOf EXCEPT ![c] = WaitingOf'[c]]
  BY <1>2 DEF WaitingOf
<1>6. AnswersOf' = [AnswersOf EXCEPT ![c] = AnswersOf'[c]]
  BY <1>2 DEF AnswersOf
<1>7. QED BY <1>3, <1>4, <1>5, <1>6

(* Nothing is seen of a step that leaves alone the keys sent and handled,   *)
(* the answers, and whether the connection is open.                         *)
LEMMA Unseen ==
    ASSUME IInv, IInv', sent' = sent, handled' = handled, toClient' = toClient,
           \A d \in Client : (link'[d] = "down") = (link[d] = "down")
    PROVE  UNCHANGED StreamVars
<1>1. \A d \in Client : Seen(d) /\ Seen(d)'
  BY SeenIs, SeenIsNext
<1>2. ASSUME NEW d \in Client
      PROVE  /\ TypedOf'[d] = TypedOf[d] /\ WaitingOf'[d] = WaitingOf[d]
             /\ AnswersOf'[d] = AnswersOf[d]
  <2>1. KeysOf(toClient[d])' = KeysOf(toClient[d])
    BY DEF KeysOf
  <2>2. QED BY <1>1, <2>1 DEF Seen
<1>3. OpenOf' = OpenOf
  BY DEF OpenOf
<1>4. TypedOf' = TypedOf
  BY <1>2 DEF TypedOf
<1>5. WaitingOf' = WaitingOf
  BY <1>2 DEF WaitingOf
<1>6. AnswersOf' = AnswersOf
  BY <1>2 DEF AnswersOf
<1>7. QED BY <1>3, <1>4, <1>5, <1>6 DEF StreamVars

(* The keys of messages read and sent.                                      *)
LEMMA AnswerFacts ==
    ASSUME NEW s \in Seq(ToClient)
    PROVE  /\ s # <<>> => KeysOf(s) # <<>> /\ KeysOf(Tail(s)) = Tail(KeysOf(s))
           /\ \A k \in Keys, n \in Nat : KeysOf(s \o Commits(k, n)) = KeysOf(s) \o [i \in 1 .. n |-> k]
           /\ \A k \in Keys :
                 KeysOf(Append(s, ForwardEvent(k))) = KeysOf(s) \o [i \in 1 .. 1 |-> k]
<1>1. \A m \in ToClient : m.key \in Keys
  BY DEF ToClient
<1>2. ASSUME NEW t \in Seq(ToClient)
      PROVE  /\ KeysOf(t) \in Seq(Keys) /\ Len(KeysOf(t)) = Len(t) /\ Len(t) \in Nat
             /\ \A i \in 1 .. Len(t) : KeysOf(t)[i] = t[i].key
  <2>1. DOMAIN t = 1 .. Len(t) /\ Len(t) \in Nat /\ \A i \in 1 .. Len(t) : t[i] \in ToClient
    OBVIOUS
  <2>2. \A i \in 1 .. Len(t) : t[i].key \in Keys
    BY <1>1, <2>1
  <2>3. KeysOf(t) = [i \in 1 .. Len(t) |-> t[i].key]
    BY <2>1 DEF KeysOf
  <2> DEFINE w == KeysOf(t)
  <2> HIDE DEF w
  <2>4. w = [i \in 1 .. Len(t) |-> t[i].key]
    BY <2>3 DEF w
  <2>5. w \in Seq(Keys) /\ Len(w) = Len(t) /\ \A i \in 1 .. Len(t) : w[i] = t[i].key
    BY <2>1, <2>2, <2>4
  <2>6. QED BY <2>1, <2>5 DEF w
<1> DEFINE a == KeysOf(s)
<1>3. a \in Seq(Keys) /\ Len(a) = Len(s) /\ Len(s) \in Nat /\ \A i \in 1 .. Len(s) : a[i] = s[i].key
  BY <1>2
<1>4. ASSUME s # <<>> PROVE KeysOf(s) # <<>> /\ KeysOf(Tail(s)) = Tail(KeysOf(s))
  <2> DEFINE t == Tail(s)
             b == KeysOf(t)
  <2>1. t \in Seq(ToClient) /\ Len(t) = Len(s) - 1 /\ \A i \in 1 .. Len(s) - 1 : t[i] = s[i + 1]
    BY <1>4
  <2>2. b \in Seq(Keys) /\ Len(b) = Len(t) /\ \A i \in 1 .. Len(t) : b[i] = t[i].key
    <3> HIDE DEF t
    <3>1. QED BY <1>2, <2>1
  <2> HIDE DEF a, b, t
  <2>3. Len(s) # 0
    BY <1>4
  <2>4. /\ a # <<>> /\ Tail(a) \in Seq(Keys) /\ Len(Tail(a)) = Len(s) - 1
        /\ \A i \in 1 .. Len(s) - 1 : Tail(a)[i] = a[i + 1]
    BY <1>3, <2>3
  <2>5. \A i \in 1 .. Len(s) - 1 : b[i] = Tail(a)[i]
    <3>1. \A i \in 1 .. Len(s) - 1 : i + 1 \in 1 .. Len(s)
      BY <1>3
    <3>2. QED BY <1>3, <2>1, <2>2, <2>4, <3>1
  <2>6. b = Tail(a)
    BY <2>1, <2>2, <2>4, <2>5, SeqEqual
  <2>7. QED BY <2>4, <2>6 DEF a, b, t
<1>5. ASSUME NEW k \in Keys, NEW n \in Nat, NEW t \in Seq(ToClient), Len(t) = n,
             \A i \in 1 .. n : t[i].key = k
      PROVE  KeysOf(s \o t) = KeysOf(s) \o [i \in 1 .. n |-> k]
  <2> DEFINE u == s \o t
             b == KeysOf(u)
             ks == [i \in 1 .. n |-> k]
             d == a \o ks
             l == Len(s)
  <2>1. /\ u \in Seq(ToClient) /\ Len(u) = l + n
        /\ \A i \in 1 .. l : u[i] = s[i]
        /\ \A i \in 1 .. n : u[l + i] = t[i]
    <3>1. /\ s \o t \in Seq(ToClient) /\ Len(s \o t) = Len(s) + Len(t)
          /\ \A i \in 1 .. Len(s) : (s \o t)[i] = s[i]
          /\ \A i \in 1 .. Len(t) : (s \o t)[Len(s) + i] = t[i]
      BY ConcatFacts
    <3>2. QED BY <1>5, <3>1, Zenon
  <2>2. b \in Seq(Keys) /\ Len(b) = l + n /\ \A i \in 1 .. l + n : b[i] = u[i].key
    <3> HIDE DEF u, l
    <3>1. QED BY <1>2, <2>1
  <2>3. ks \in Seq(Keys) /\ Len(ks) = n /\ \A i \in 1 .. n : ks[i] = k
    OBVIOUS
  <2> HIDE DEF a, b, u, ks
  <2>4. /\ d \in Seq(Keys) /\ Len(d) = l + n
        /\ \A i \in 1 .. l : d[i] = a[i]
        /\ \A i \in 1 .. n : d[l + i] = ks[i]
    <3>0. a \in Seq(Keys) /\ ks \in Seq(Keys)
      BY <1>3, <2>3
    <3>1. /\ a \o ks \in Seq(Keys) /\ Len(a \o ks) = Len(a) + Len(ks)
          /\ \A i \in 1 .. Len(a) : (a \o ks)[i] = a[i]
          /\ \A i \in 1 .. Len(ks) : (a \o ks)[Len(a) + i] = ks[i]
      BY <3>0, ConcatFacts
    <3>2. Len(a) = l /\ Len(ks) = n
      BY <1>3, <2>3
    <3>3. QED BY <3>1, <3>2, Zenon
  <2>5. l \in Nat /\ \A i \in 1 .. l : a[i] = s[i].key
    BY <1>3
  <2> HIDE DEF d, l
  <2>6. ASSUME NEW i \in 1 .. l + n PROVE b[i] = d[i]
    <3>1. CASE i \in 1 .. l
      <4>1. b[i] = u[i].key /\ u[i] = s[i] /\ d[i] = a[i] /\ a[i] = s[i].key
        BY <2>1, <2>2, <2>4, <2>5, <3>1
      <4>2. QED BY <4>1
    <3>2. CASE i \notin 1 .. l
      <4>1. i - l \in 1 .. n /\ l + (i - l) = i
        BY <2>5, <3>2
      <4>2. u[i] = t[i - l] /\ d[i] = ks[i - l]
        BY <2>1, <2>4, <4>1
      <4>3. u[i].key = k /\ d[i] = k
        BY <1>5, <2>3, <4>1, <4>2
      <4>4. QED BY <2>2, <4>3
    <3>3. QED BY <3>1, <3>2
  <2>7. b = d
    BY <2>2, <2>4, <2>6, SeqEqual
  <2>8. QED BY <2>7 DEF a, b, d, u, ks
<1>6. ASSUME NEW k \in Keys, NEW n \in Nat
      PROVE  KeysOf(s \o Commits(k, n)) = KeysOf(s) \o [i \in 1 .. n |-> k]
  <2> DEFINE w == Commits(k, n)
  <2>1. w = [i \in 1 .. n |-> Commit(k)] /\ w \in Seq(ToClient)
    BY CommitsType DEF Commits
  <2> HIDE DEF w
  <2>2. Commit(k).key = k
    BY DEF Commit
  <2>3. Len(w) = n /\ \A i \in 1 .. n : w[i].key = k
    BY <2>1, <2>2
  <2>4. KeysOf(s \o w) = KeysOf(s) \o [i \in 1 .. n |-> k]
    BY <1>5, <2>1, <2>3
  <2>5. QED BY <2>4 DEF w
<1>7. ASSUME NEW k \in Keys
      PROVE  KeysOf(Append(s, ForwardEvent(k))) = KeysOf(s) \o [i \in 1 .. 1 |-> k]
  <2> DEFINE m == ForwardEvent(k)
  <2>1. m \in ToClient /\ m.key = k
    BY DEF ForwardEvent, ToClient
  <2> HIDE DEF m
  <2>2. <<m>> \in Seq(ToClient) /\ Len(<<m>>) = 1 /\ \A i \in 1 .. 1 : <<m>>[i].key = k
    BY <2>1
  <2>3. s \o <<m>> = Append(s, m)
    BY <2>1, ConcatAppend
  <2>4. 1 \in Nat
    OBVIOUS
  <2>5. KeysOf(s \o <<m>>) = KeysOf(s) \o [i \in 1 .. 1 |-> k]
    BY <1>5, <2>2, <2>4
  <2>6. QED BY <2>3, <2>5 DEF m
<1>8. QED BY <1>4, <1>6, <1>7

(* ForwardEventMessageProc for the key after the last one handled: KeyStream*)
(* handles its oldest waiting key.                                          *)
LEMMA HandleStep ==
    ASSUME IInv, IInv', NEW c \in Client, NEW k \in Keys, Handle(c, k),
           link[c] # "down", k = handled[c] + 1, k <= sent[c],
           UNCHANGED <<link, sent>>
    PROVE  Stream!Next
<1>1. /\ handled' = [handled EXCEPT ![c] = k]
      /\ \A d \in Client \ {c} : toClient'[d] = toClient[d]
  BY HandleFacts DEF IInv
<1>2. /\ handled \in [Client -> 0 .. MaxKey] /\ toClient[c] \in Seq(ToClient)
      /\ toClient \in [Client -> Seq(ToClient)] /\ sent[c] \in Nat /\ handled[c] \in Nat
      /\ k \in Nat
  <2>1. sent[c] \in 0 .. MaxKey /\ handled[c] \in 0 .. MaxKey
    BY DEF IInv, TypeOK
  <2>2. sent[c] \in Nat /\ handled[c] \in Nat /\ k \in Nat
    BY <2>1 DEF Keys
  <2>3. QED BY <2>2 DEF IInv, TypeOK
<1>3. handled'[c] = k /\ \A d \in Client \ {c} : handled'[d] = handled[d]
  BY <1>1, <1>2
<1>4. /\ OpenOf' = [OpenOf EXCEPT ![c] = link'[c] # "down"]
      /\ TypedOf' = [TypedOf EXCEPT ![c] = TypedOf'[c]]
      /\ WaitingOf' = [WaitingOf EXCEPT ![c] = WaitingOf'[c]]
      /\ AnswersOf' = [AnswersOf EXCEPT ![c] = AnswersOf'[c]]
  BY <1>1, <1>3, OthersUnseen
<1>5. Seen(c) /\ Seen(c)'
  BY SeenIs, SeenIsNext
<1>6. OpenOf[c] /\ OpenOf' = OpenOf /\ TypedOf' = TypedOf
  <2>1. TypedOf'[c] = TypedOf[c]
    BY <1>5 DEF Seen
  <2>2. OpenOf[c] /\ OpenOf' = OpenOf
    BY DEF OpenOf
  <2>3. QED BY <1>4, <2>1, <2>2 DEF TypedOf
<1> DEFINE h == handled[c]
           n == sent[c] - k
<1>7. /\ WaitingOf[c] = Numbers(h, n + 1) /\ WaitingOf'[c] = Numbers(h + 1, n)
      /\ h \in Nat /\ n \in Nat
  <2>1. n \in Nat /\ sent[c] - h = n + 1
    BY <1>2
  <2>2. /\ WaitingOf[c] = Numbers(handled[c], sent[c] - handled[c])
        /\ WaitingOf'[c] = Numbers(handled'[c], sent'[c] - handled'[c])
    BY <1>5 DEF Seen
  <2>3. /\ WaitingOf[c] = Numbers(h, sent[c] - h)
        /\ WaitingOf'[c] = Numbers(h + 1, n)
    BY <1>3, <2>2
  <2>4. QED BY <1>2, <2>1, <2>3
<1> HIDE DEF h, n
<1>8. /\ WaitingOf[c] # <<>> /\ Head(WaitingOf[c]) = h + 1
      /\ WaitingOf'[c] = Tail(WaitingOf[c])
  <2>1. /\ Numbers(h, n + 1) # <<>> /\ Head(Numbers(h, n + 1)) = h + 1
        /\ Tail(Numbers(h, n + 1)) = Numbers(h + 1, n)
    BY <1>7, NumbersFacts
  <2>2. QED BY <1>7, <2>1, Zenon
<1>9. Head(WaitingOf[c]) = k
  BY <1>8 DEF h
<1>10. AnswersOf[c] = KeysOf(toClient[c]) /\ AnswersOf'[c] = KeysOf(toClient'[c])
  <2>1. KeysOf(toClient[c])' = KeysOf(toClient'[c])
    BY DEF KeysOf
  <2>2. QED BY <1>5, <2>1 DEF Seen
<1>11. \E j \in 0 .. MaxCommit + 1 : AnswersOf'[c] = AnswersOf[c] \o [i \in 1 .. j |-> k]
  <2>1. CASE \E j \in 0 .. MaxCommit : toClient' = [toClient EXCEPT ![c] = @ \o Commits(k, j)]
    <3>1. PICK j \in 0 .. MaxCommit : toClient' = [toClient EXCEPT ![c] = @ \o Commits(k, j)]
      BY <2>1
    <3>2. toClient'[c] = toClient[c] \o Commits(k, j) /\ j \in Nat /\ j \in 0 .. MaxCommit + 1
      BY <1>2, <3>1
    <3>3. KeysOf(toClient[c] \o Commits(k, j)) = KeysOf(toClient[c]) \o [i \in 1 .. j |-> k]
      BY <1>2, <3>2, AnswerFacts
    <3>4. AnswersOf'[c] = AnswersOf[c] \o [i \in 1 .. j |-> k]
      BY <1>10, <3>2, <3>3, Zenon
    <3>5. QED BY <3>2, <3>4
  <2>2. CASE toClient' = [toClient EXCEPT ![c] = Append(@, ForwardEvent(k))]
    <3>1. toClient'[c] = Append(toClient[c], ForwardEvent(k)) /\ 1 \in 0 .. MaxCommit + 1
      BY <1>2, <2>2
    <3>2. KeysOf(Append(toClient[c], ForwardEvent(k))) = KeysOf(toClient[c]) \o [i \in 1 .. 1 |-> k]
      BY <1>2, AnswerFacts
    <3>3. AnswersOf'[c] = AnswersOf[c] \o [i \in 1 .. 1 |-> k]
      BY <1>10, <3>1, <3>2, Zenon
    <3>4. QED BY <3>1, <3>3
  <2>3. QED BY <2>1, <2>2 DEF Handle
<1>12. HandledOne(c)
  <2>1. WaitingOf' = [WaitingOf EXCEPT ![c] = Tail(WaitingOf[c])]
    BY <1>4, <1>8
  <2>2. PICK j \in 0 .. MaxCommit + 1 : AnswersOf'[c] = AnswersOf[c] \o [i \in 1 .. j |-> k]
    BY <1>11
  <2>3. AnswersOf' = [AnswersOf EXCEPT ![c] =
                        AnswersOf[c] \o [i \in 1 .. j |-> Head(WaitingOf[c])]]
    BY <1>4, <1>9, <2>2, Zenon
  <2>4. QED BY <1>6, <1>8, <2>1, <2>3 DEF HandledOne
<1>13. QED BY <1>12, StreamSteps

(* A connection is opened, a key typed, an answer read.                     *)
LEMMA ClientSteps ==
    ASSUME IInv, IInv', NEW c \in Client, ClientStep(c)
    PROVE  Stream!Next \/ UNCHANGED StreamVars
<1>1. Seen(c) /\ Seen(c)'
  BY SeenIs, SeenIsNext
<1>2. /\ link \in [Client -> {"down", "up", "leaving", "dead"}]
      /\ sent \in [Client -> 0 .. MaxKey] /\ handled \in [Client -> 0 .. MaxKey]
      /\ toClient \in [Client -> Seq(ToClient)]
  BY DEF IInv, TypeOK
<1>3. sent[c] \in Nat /\ handled[c] \in Nat /\ toClient[c] \in Seq(ToClient)
  BY <1>2
<1>4. KeysOf(toClient[c])' = KeysOf(toClient'[c])
  BY DEF KeysOf
<1>5. CASE NewClient(c)
  <2>1. /\ link[c] = "down" /\ link' = [link EXCEPT ![c] = "up"]
        /\ sent' = [sent EXCEPT ![c] = 0] /\ handled' = [handled EXCEPT ![c] = 0]
        /\ toClient' = [toClient EXCEPT ![c] = <<>>]
    BY <1>5 DEF NewClient
  <2>2. /\ link'[c] = "up" /\ sent'[c] = 0 /\ handled'[c] = 0 /\ toClient'[c] = <<>>
        /\ \A d \in Client \ {c} : /\ link'[d] = link[d] /\ sent'[d] = sent[d]
                                /\ handled'[d] = handled[d] /\ toClient'[d] = toClient[d]
    BY <1>2, <2>1
  <2>3. /\ OpenOf' = [OpenOf EXCEPT ![c] = link'[c] # "down"]
        /\ TypedOf' = [TypedOf EXCEPT ![c] = TypedOf'[c]]
        /\ WaitingOf' = [WaitingOf EXCEPT ![c] = WaitingOf'[c]]
        /\ AnswersOf' = [AnswersOf EXCEPT ![c] = AnswersOf'[c]]
    BY <2>2, OthersUnseen
  <2>4. KeysOf(<<>>) = <<>> /\ Numbers(0, 0 - 0) = <<>>
    BY NumbersFacts DEF KeysOf
  <2>5. /\ TypedOf'[c] = 0 /\ WaitingOf'[c] = <<>> /\ AnswersOf'[c] = <<>>
    BY <1>1, <1>4, <2>2, <2>4 DEF Seen
  <2>6. ~OpenOf[c]
    BY <2>1 DEF OpenOf
  <2>7. Opened(c)
    BY <2>2, <2>3, <2>5, <2>6 DEF Opened
  <2>8. QED BY <2>7, StreamSteps
<1>6. CASE Press(c)
  <2>1. /\ link[c] = "up" /\ sent[c] < MaxKey /\ sent' = [sent EXCEPT ![c] = @ + 1]
        /\ link' = link /\ handled' = handled /\ toClient' = toClient
    BY <1>6 DEF Press, server
  <2>2. /\ sent'[c] = sent[c] + 1
        /\ \A d \in Client \ {c} : /\ link'[d] = link[d] /\ sent'[d] = sent[d]
                                /\ handled'[d] = handled[d] /\ toClient'[d] = toClient[d]
    BY <1>2, <2>1
  <2>3. /\ OpenOf' = [OpenOf EXCEPT ![c] = link'[c] # "down"]
        /\ TypedOf' = [TypedOf EXCEPT ![c] = TypedOf'[c]]
        /\ WaitingOf' = [WaitingOf EXCEPT ![c] = WaitingOf'[c]]
        /\ AnswersOf' = [AnswersOf EXCEPT ![c] = AnswersOf'[c]]
    BY <2>2, OthersUnseen
  <2>4. /\ TypedOf[c] = sent[c] /\ TypedOf'[c] = sent[c] + 1
        /\ WaitingOf[c] = Numbers(handled[c], sent[c] - handled[c])
        /\ WaitingOf'[c] = Numbers(handled[c], (sent[c] + 1) - handled[c])
        /\ AnswersOf'[c] = AnswersOf[c]
    BY <1>1, <1>4, <2>1, <2>2 DEF Seen
  <2>5. handled[c] <= sent[c]
    <3>1. Taken(c) <= sent[c]
      BY <2>1 DEF IInv, KeysInOrder, InOrder
    <3>2. pending[c] \in Seq(Keys)
      BY DEF IInv, TypeOK
    <3>3. QED BY <1>3, <3>1, <3>2 DEF Taken
  <2> DEFINE h == handled[c]
             n == sent[c] - handled[c]
  <2>6. /\ h \in Nat /\ n \in Nat /\ (h + n) + 1 = sent[c] + 1
        /\ (sent[c] + 1) - handled[c] = n + 1
    BY <1>3, <2>5
  <2>7. WaitingOf[c] = Numbers(h, n) /\ WaitingOf'[c] = Numbers(h, n + 1)
    BY <2>4, <2>6
  <2> HIDE DEF h, n
  <2>8. WaitingOf'[c] = Append(WaitingOf[c], TypedOf[c] + 1)
    <3>1. Append(Numbers(h, n), (h + n) + 1) = Numbers(h, n + 1)
      BY <2>6, NumbersFacts
    <3>2. TypedOf[c] + 1 = (h + n) + 1
      BY <2>4, <2>6
    <3>3. QED BY <2>7, <3>1, <3>2
  <2>9. OpenOf[c] /\ OpenOf' = OpenOf
    BY <2>1 DEF OpenOf
  <2>10. AnswersOf' = AnswersOf
    BY <2>3, <2>4 DEF AnswersOf
  <2>11. Typed(c)
    BY <2>1, <2>3, <2>4, <2>8, <2>9, <2>10 DEF Typed
  <2>12. QED BY <2>11, StreamSteps
<1>7. CASE Read(c)
  <2>1. /\ link[c] = "up" /\ toClient[c] # <<>>
        /\ toClient' = [toClient EXCEPT ![c] = Tail(@)]
        /\ link' = link /\ handled' = handled /\ sent' = sent
    BY <1>7 DEF Read, server
  <2>2. /\ toClient'[c] = Tail(toClient[c])
        /\ \A d \in Client \ {c} : /\ link'[d] = link[d] /\ sent'[d] = sent[d]
                                /\ handled'[d] = handled[d] /\ toClient'[d] = toClient[d]
    BY <1>2, <2>1
  <2>3. /\ OpenOf' = [OpenOf EXCEPT ![c] = link'[c] # "down"]
        /\ TypedOf' = [TypedOf EXCEPT ![c] = TypedOf'[c]]
        /\ WaitingOf' = [WaitingOf EXCEPT ![c] = WaitingOf'[c]]
        /\ AnswersOf' = [AnswersOf EXCEPT ![c] = AnswersOf'[c]]
    BY <2>2, OthersUnseen
  <2>4. /\ AnswersOf[c] = KeysOf(toClient[c]) /\ AnswersOf'[c] = KeysOf(Tail(toClient[c]))
        /\ TypedOf'[c] = TypedOf[c] /\ WaitingOf'[c] = WaitingOf[c]
    BY <1>1, <1>4, <2>1, <2>2 DEF Seen
  <2>5. KeysOf(toClient[c]) # <<>> /\ KeysOf(Tail(toClient[c])) = Tail(KeysOf(toClient[c]))
    BY <1>3, <2>1, AnswerFacts
  <2>6. OpenOf[c] /\ OpenOf' = OpenOf
    BY <2>1 DEF OpenOf
  <2>7. TypedOf' = TypedOf /\ WaitingOf' = WaitingOf
    BY <2>3, <2>4 DEF TypedOf, WaitingOf
  <2>8. ReadOne(c)
    BY <2>3, <2>4, <2>5, <2>6, <2>7 DEF ReadOne
  <2>9. QED BY <2>8, StreamSteps
<1>8. CASE Reply(c)
  <2>1. link' = link /\ handled' = handled /\ sent' = sent /\ toClient' = toClient
    BY <1>8 DEF Reply, server
  <2>2. QED BY <2>1, Unseen
<1>9. CASE Leave(c) \/ Die(c)
  <2>1. /\ handled' = handled /\ sent' = sent /\ toClient' = toClient
        /\ link[c] = "up" /\ \E l \in {"leaving", "dead"} : link' = [link EXCEPT ![c] = l]
    BY <1>9 DEF Leave, Die, server
  <2>2. \A d \in Client : (link'[d] = "down") = (link[d] = "down")
    BY <1>2, <2>1
  <2>3. QED BY <2>1, <2>2, Unseen
<1>10. QED BY <1>5, <1>6, <1>7, <1>8, <1>9 DEF ClientStep

(* A key is handled at once or from the queue, or a connection is closed.   *)
LEMMA ServerSteps ==
    ASSUME IInv, IInv', NEW c \in Client, ServerStep(c)
    PROVE  Stream!Next \/ UNCHANGED StreamVars
<1>1. TypeOK /\ LeaveIsLast
  BY DEF IInv
<1>2. \A d \in Client : sent[d] \in Nat /\ handled[d] \in Nat /\ pending[d] \in Seq(Keys)
  BY <1>1 DEF TypeOK
<1>3. CASE AddQueue(c)
  <2>1. link' = link /\ handled' = handled /\ sent' = sent /\ toClient' = toClient
    BY <1>3 DEF AddQueue
  <2>2. QED BY <2>1, Unseen
<1>4. CASE HandleSyncReply(c)
  <2>1. link' = link /\ handled' = handled /\ sent' = sent /\ toClient' = toClient
    BY <1>4 DEF HandleSyncReply
  <2>2. QED BY <2>1, Unseen
<1>5. CASE HandleForwardEvent(c)
  <2> DEFINE k == Head(toServer[c]).key
  <2>1. /\ Receives(c, "FORWARD_EVENT") /\ ~sync[c] /\ Handle(c, k)
        /\ UNCHANGED <<link, sent>>
    BY <1>5 DEF HandleForwardEvent
  <2>2. link[c] # "down" /\ draining = NoClient /\ Head(toServer[c]) = toServer[c][1]
    BY <1>1, <2>1, ReceiveFacts
  <2>3. InOrder(c)
    BY <2>2 DEF IInv, KeysInOrder
  <2>4. k = Taken(c) + 1 /\ Taken(c) + 1 \in 1 .. sent[c]
    BY <1>1, <2>1, <2>2, <2>3, HeadIsNext
  <2>5. pending[c] = <<>>
    BY <2>1, <2>2 DEF IInv, QueueWaitsForSync
  <2>6. Taken(c) = handled[c]
    BY <1>2, <2>5 DEF Taken
  <2>7. k \in Keys
    <3>1. sent[c] \in 0 .. MaxKey
      BY <1>1 DEF TypeOK
    <3>2. QED BY <2>4, <3>1 DEF Keys
  <2> HIDE DEF k
  <2>8. k = handled[c] + 1 /\ k <= sent[c]
    BY <1>2, <2>4, <2>6
  <2>9. QED BY <2>1, <2>2, <2>7, <2>8, HandleStep
<1>6. CASE ProcessQueue(c)
  <2> DEFINE k == Head(pending[c])
  <2>1. draining = c /\ Handle(c, k) /\ UNCHANGED <<link, sent>>
    BY <1>6 DEF ProcessQueue
  <2>2. link[c] # "down" /\ pending[c] # <<>>
    BY <2>1 DEF IInv, QueueWaitsForSync
  <2>3. InOrder(c)
    BY <2>2 DEF IInv, KeysInOrder
  <2>4. k \in Keys /\ k = pending[c][1] /\ 1 \in DOMAIN pending[c] /\ Len(pending[c]) \in Nat \ {0}
    BY <1>2, <2>2
  <2> HIDE DEF k
  <2>5. k = handled[c] + 1
    BY <2>3, <2>4 DEF InOrder
  <2>6. handled[c] + Len(pending[c]) <= sent[c]
    BY <2>3 DEF InOrder, Taken
  <2>7. k <= sent[c]
    BY <1>2, <2>4, <2>5, <2>6
  <2>8. QED BY <2>1, <2>2, <2>4, <2>5, <2>7, HandleStep
<1>7. CASE HandleDisconnect(c)
  <2>1. /\ link' = [link EXCEPT ![c] = "down"]
        /\ handled' = handled /\ sent' = sent /\ toClient' = toClient
    BY <1>7 DEF HandleDisconnect, server
  <2>2. link[c] # "down"
    BY <1>1, <1>7, ReceiveFacts DEF HandleDisconnect
  <2>3. /\ link'[c] = "down"
        /\ \A d \in Client \ {c} : /\ link'[d] = link[d] /\ sent'[d] = sent[d]
                                /\ handled'[d] = handled[d] /\ toClient'[d] = toClient[d]
    BY <1>1, <2>1 DEF TypeOK
  <2>4. /\ OpenOf' = [OpenOf EXCEPT ![c] = link'[c] # "down"]
        /\ TypedOf' = [TypedOf EXCEPT ![c] = TypedOf'[c]]
        /\ WaitingOf' = [WaitingOf EXCEPT ![c] = WaitingOf'[c]]
        /\ AnswersOf' = [AnswersOf EXCEPT ![c] = AnswersOf'[c]]
    BY <2>3, OthersUnseen
  <2>5. Seen(c)'
    BY SeenIsNext
  <2>6. TypedOf'[c] = 0 /\ WaitingOf'[c] = <<>> /\ AnswersOf'[c] = <<>>
    BY <2>3, <2>5 DEF Seen
  <2>7. OpenOf[c]
    BY <2>2 DEF OpenOf
  <2>8. Closed(c)
    BY <2>3, <2>4, <2>6, <2>7 DEF Closed
  <2>9. QED BY <2>8, StreamSteps
<1>8. QED BY <1>3, <1>4, <1>5, <1>6, <1>7 DEF ServerStep

(* The handlers of XIM_FORWARD_EVENT and XIM_SYNC_REPLY, AddQueue and       *)
(* ProcessQueue keep the promise of KeyStream: every key of a connection is *)
(* handled once, in the order typed, and what it produces reaches the       *)
(* client before anything a later key produces, across queueing, draining,  *)
(* death and the reuse of connect ids, for any number of clients and keys.  *)
THEOREM Implements == Spec => ImplementsKeyStream
<1>1. Init => Stream!Init
  <2> SUFFICES ASSUME Init PROVE Stream!Init
    OBVIOUS
  <2>1. \A c \in Client : link[c] = "down"
    BY DEF Init
  <2>2. QED BY <2>1 DEF Stream!Init, WhenOpen
<1>2. IInv /\ IInv' /\ [Next]_vars => [Stream!Next]_(Stream!vars)
  <2> SUFFICES ASSUME IInv, IInv', [Next]_vars
               PROVE  Stream!Next \/ UNCHANGED Stream!vars
    OBVIOUS
  <2>1. UNCHANGED StreamVars => UNCHANGED Stream!vars
    BY DEF StreamVars, Stream!vars, OpenOf, TypedOf, WaitingOf, AnswersOf, WaitingAt
  <2>2. CASE Next
    BY <2>1, <2>2, ClientSteps, ServerSteps DEF Next
  <2>3. CASE UNCHANGED vars
    <3>1. UNCHANGED StreamVars
      BY <2>3, Unseen DEF vars
    <3>2. QED BY <2>1, <3>1
  <2>4. QED BY <2>2, <2>3
<1>3. QED BY <1>1, <1>2, Inductive, PTL DEF Spec, ImplementsKeyStream, Stream!Spec
=============================================================================
