--------------------------- MODULE Interxim_proofs ---------------------------
(* Safety of Interxim, for any set of clients and any bounds.              *)
EXTENDS Interxim, Counting

USE InterximAssumption DEF Requests, Answers

-----------------------------------------------------------------------------
(* The masks on their way to a client. *)

IsMask(m) == m.op = "SET_EVENT_MASK"

(* A message put behind the others: a mask is the one to end up with.       *)
LEMMA MaskAppend ==
    ASSUME NEW R, NEW s \in Seq(R), NEW m \in R, NEW f \in BOOLEAN
    PROVE  /\ ~IsMask(m) => (MaskAfter(f, Append(s, m)) <=> MaskAfter(f, s))
           /\ IsMask(m) => (MaskAfter(f, Append(s, m)) <=> m.forward)
<1> DEFINE t == Append(s, m)
           l == Len(s)
<1>1. /\ l \in Nat /\ DOMAIN s = 1 .. l /\ DOMAIN t = 1 .. l + 1
      /\ t[l + 1] = m /\ \A i \in 1 .. l : t[i] = s[i]
  OBVIOUS
<1> HIDE DEF t, l
<1>2. ASSUME ~IsMask(m) PROVE MaskAfter(f, t) <=> MaskAfter(f, s)
  <2>1. {i \in DOMAIN t : t[i].op = "SET_EVENT_MASK"}
            = {i \in DOMAIN s : s[i].op = "SET_EVENT_MASK"}
    BY <1>1, <1>2 DEF IsMask
  <2>2. \A i \in {j \in DOMAIN s : s[j].op = "SET_EVENT_MASK"} : t[i] = s[i]
    BY <1>1
  <2>3. QED BY <2>1, <2>2 DEF MaskAfter
<1>3. ASSUME IsMask(m) PROVE MaskAfter(f, t) <=> m.forward
  <2> DEFINE masks == {i \in DOMAIN t : t[i].op = "SET_EVENT_MASK"}
  <2>1. l + 1 \in masks /\ \A i \in masks : i <= l + 1 /\ i \in Nat
    BY <1>1, <1>3 DEF IsMask
  <2> HIDE DEF masks
  <2>2. ASSUME NEW i \in masks, \A j \in masks : j <= i PROVE i = l + 1
    BY <1>1, <2>1, <2>2
  <2>3. masks # {} /\ t[l + 1].forward = m.forward
    BY <1>1, <2>1
  <2>4. (\E i \in masks : t[i].forward /\ \A j \in masks : j <= i) <=> m.forward
    BY <2>1, <2>2, <2>3
  <2>5. QED BY <2>3, <2>4 DEF MaskAfter, masks
<1>4. QED BY <1>2, <1>3 DEF t

(* The first message read: a mask is the one in force for the rest.         *)
LEMMA MaskTail ==
    ASSUME NEW R, NEW s \in Seq(R), s # <<>>, NEW f \in BOOLEAN, NEW g \in BOOLEAN,
           g = IF IsMask(Head(s)) THEN Head(s).forward ELSE f
    PROVE  MaskAfter(f, s) <=> MaskAfter(g, Tail(s))
<1> DEFINE t == Tail(s)
           l == Len(s)
           ms == {i \in DOMAIN s : s[i].op = "SET_EVENT_MASK"}
           mt == {i \in DOMAIN t : t[i].op = "SET_EVENT_MASK"}
<1>1. /\ l \in Nat \ {0} /\ DOMAIN s = 1 .. l /\ DOMAIN t = 1 .. l - 1
      /\ Head(s) = s[1] /\ \A i \in 1 .. l - 1 : t[i] = s[i + 1]
  OBVIOUS
<1> HIDE DEF t, l
<1>2. \A i \in mt : i + 1 \in ms /\ i \in Nat /\ t[i] = s[i + 1]
  BY <1>1
<1>3. \A i \in ms : i \in Nat /\ (i # 1 => i - 1 \in mt /\ s[i] = t[i - 1])
  <2> SUFFICES ASSUME NEW i \in ms PROVE i \in Nat /\ (i # 1 => i - 1 \in mt /\ s[i] = t[i - 1])
    OBVIOUS
  <2>1. i \in 1 .. l /\ s[i].op = "SET_EVENT_MASK"
    BY <1>1
  <2>2. ASSUME i # 1 PROVE i - 1 \in mt /\ s[i] = t[i - 1]
    <3>1. i - 1 \in 1 .. l - 1 /\ (i - 1) + 1 = i
      BY <1>1, <2>1, <2>2
    <3>2. t[i - 1] = s[i]
      BY <1>1, <3>1
    <3>3. QED BY <1>1, <2>1, <3>1, <3>2
  <2>3. QED BY <2>1, <2>2
<1>4. 1 \in ms <=> IsMask(Head(s))
  BY <1>1 DEF IsMask
<1>5. 0 \notin mt
  BY <1>1
<1> HIDE DEF ms, mt
<1>6. CASE mt # {}
  <2>1. ms # {}
    BY <1>2, <1>6
  <2>2. ASSUME NEW i \in mt, t[i].forward, \A j \in mt : j <= i
        PROVE  \E k \in ms : s[k].forward /\ \A j \in ms : j <= k
    <3>1. i + 1 \in ms /\ s[i + 1].forward
      BY <1>2, <2>2
    <3>2. ASSUME NEW j \in ms PROVE j <= i + 1
      <4>1. CASE j = 1
        BY <1>2, <4>1
      <4>2. CASE j # 1
        <5>1. j - 1 \in mt /\ j \in Nat
          BY <1>3, <4>2
        <5>2. j - 1 <= i /\ i \in Nat
          BY <1>2, <2>2, <5>1
        <5>3. QED BY <5>1, <5>2
      <4>3. QED BY <4>1, <4>2
    <3>3. QED BY <3>1, <3>2
  <2>3. ASSUME NEW k \in ms, s[k].forward, \A j \in ms : j <= k
        PROVE  \E i \in mt : t[i].forward /\ \A j \in mt : j <= i
    <3>1. PICK x \in mt : TRUE
      BY <1>6
    <3>2. x + 1 \in ms /\ x \in Nat /\ x # 0
      BY <1>2, <1>5
    <3>3. k # 1 /\ k \in Nat
      <4>1. x + 1 <= k /\ k \in Nat
        BY <1>3, <2>3, <3>2
      <4>2. QED BY <3>2, <4>1
    <3>4. k - 1 \in mt /\ t[k - 1].forward
      BY <1>3, <2>3, <3>3
    <3>5. ASSUME NEW j \in mt PROVE j <= k - 1
      <4>1. j + 1 <= k /\ j \in Nat
        BY <1>2, <2>3
      <4>2. QED BY <3>3, <4>1
    <3>6. QED BY <3>4, <3>5
  <2>4. (\E k \in ms : s[k].forward /\ \A j \in ms : j <= k)
            <=> (\E i \in mt : t[i].forward /\ \A j \in mt : j <= i)
    BY <2>2, <2>3
  <2>5. MaskAfter(f, s) <=> \E k \in ms : s[k].forward /\ \A j \in ms : j <= k
    BY <2>1, Zenon DEF MaskAfter, ms
  <2>6. MaskAfter(g, t) <=> \E i \in mt : t[i].forward /\ \A j \in mt : j <= i
    BY <1>6, Zenon DEF MaskAfter, mt
  <2>7. QED BY <2>4, <2>5, <2>6, Zenon DEF t
<1>7. CASE mt = {}
  <2>1. MaskAfter(g, t) <=> g
    BY <1>7 DEF MaskAfter, mt
  <2>2. \A i \in ms : i = 1
    BY <1>3, <1>7
  <2>3. CASE IsMask(Head(s))
    <3>1. ms = {1} /\ s[1].forward = g
      BY <1>1, <1>4, <2>2, <2>3
    <3>2. (\E i \in ms : s[i].forward /\ \A j \in ms : j <= i) <=> g
      BY <3>1
    <3>3. MaskAfter(f, s) <=> g
      BY <3>1, <3>2 DEF MaskAfter, ms
    <3>4. QED BY <2>1, <3>3 DEF t
  <2>4. CASE ~IsMask(Head(s))
    <3>1. ms = {} /\ f = g
      BY <1>4, <2>2, <2>4
    <3>2. MaskAfter(f, s) <=> f
      BY <3>1 DEF MaskAfter, ms
    <3>3. QED BY <2>1, <3>1, <3>2 DEF t
  <2>5. QED BY <2>3, <2>4
<1>8. QED BY <1>6, <1>7 DEF t

(* Messages that are no masks change nothing.                               *)
LEMMA MaskConcat ==
    ASSUME NEW R, NEW s \in Seq(R), NEW t \in Seq(R), NEW f \in BOOLEAN,
           \A i \in DOMAIN t : ~IsMask(t[i])
    PROVE  MaskAfter(f, s \o t) <=> MaskAfter(f, s)
<1> DEFINE u == s \o t
           l == Len(s)
<1>1. /\ l \in Nat /\ Len(t) \in Nat /\ DOMAIN s = 1 .. l /\ DOMAIN t = 1 .. Len(t)
      /\ DOMAIN u = 1 .. l + Len(t)
      /\ \A i \in 1 .. l : u[i] = s[i]
      /\ \A i \in 1 .. Len(t) : u[l + i] = t[i]
  BY ConcatFacts
<1> HIDE DEF u, l
<1>2. ASSUME NEW i \in DOMAIN u, IsMask(u[i]) PROVE i \in 1 .. l
  <2>1. ASSUME i \notin 1 .. l PROVE FALSE
    <3>1. i - l \in 1 .. Len(t) /\ l + (i - l) = i
      BY <1>1, <2>1
    <3>2. u[i] = t[i - l]
      BY <1>1, <3>1
    <3>3. QED BY <1>1, <1>2, <3>1, <3>2
  <2>2. QED BY <2>1
<1>3. {i \in DOMAIN u : u[i].op = "SET_EVENT_MASK"}
          = {i \in DOMAIN s : s[i].op = "SET_EVENT_MASK"}
  BY <1>1, <1>2 DEF IsMask
<1>4. \A i \in {j \in DOMAIN s : s[j].op = "SET_EVENT_MASK"} : u[i] = s[i]
  BY <1>1
<1>5. MaskAfter(f, u) <=> MaskAfter(f, s)
  BY <1>3, <1>4 DEF MaskAfter
<1>6. QED BY <1>5 DEF u

-----------------------------------------------------------------------------
(* The number of messages of some kinds on their way.                       *)

Of(R, ops) == {m \in R : m.op \in ops}

(* Number in the terms of the counting lemmas.                              *)
LEMMA NumberIsCount ==
    ASSUME NEW R, NEW s \in Seq(R), NEW ops
    PROVE  Number(s, ops) = Count(s, Of(R, ops)) /\ Number(s, ops) \in Nat
<1>1. \A i \in DOMAIN s : s[i] \in R
  OBVIOUS
<1>2. {i \in DOMAIN s : s[i].op \in ops} = At(s, Of(R, ops))
  BY <1>1 DEF At, Of
<1>3. Number(s, ops) = Count(s, Of(R, ops))
  BY <1>2, Zenon DEF Number, Count
<1>4. Count(s, Of(R, ops)) \in Nat
  BY CountType
<1>5. QED BY <1>3, <1>4

(* A message put behind the others.                                         *)
LEMMA NumberAppend ==
    ASSUME NEW R, NEW s \in Seq(R), NEW m \in R, NEW ops
    PROVE  /\ Append(s, m) \in Seq(R)
           /\ Number(Append(s, m), ops) = Number(s, ops) + (IF m.op \in ops THEN 1 ELSE 0)
<1>1. Append(s, m) \in Seq(R)
  OBVIOUS
<1>2. /\ Number(s, ops) = Count(s, Of(R, ops))
      /\ Number(Append(s, m), ops) = Count(Append(s, m), Of(R, ops))
  BY <1>1, NumberIsCount
<1>3. Count(Append(s, m), Of(R, ops)) = Count(s, Of(R, ops)) + (IF m \in Of(R, ops) THEN 1 ELSE 0)
  BY CountAppend
<1>4. m \in Of(R, ops) <=> m.op \in ops
  BY DEF Of
<1>5. QED BY <1>1, <1>2, <1>3, <1>4

(* The first message taken.                                                 *)
LEMMA NumberTail ==
    ASSUME NEW R, NEW s \in Seq(R), s # <<>>, NEW ops
    PROVE  /\ Tail(s) \in Seq(R) /\ Head(s) \in R
           /\ Number(s, ops) = Number(Tail(s), ops) + (IF Head(s).op \in ops THEN 1 ELSE 0)
<1>1. Tail(s) \in Seq(R) /\ Head(s) \in R
  OBVIOUS
<1>2. /\ Number(s, ops) = Count(s, Of(R, ops))
      /\ Number(Tail(s), ops) = Count(Tail(s), Of(R, ops))
  BY <1>1, NumberIsCount
<1>3. Count(s, Of(R, ops)) = Count(Tail(s), Of(R, ops)) + (IF Head(s) \in Of(R, ops) THEN 1 ELSE 0)
  BY CountTail
<1>4. Head(s) \in Of(R, ops) <=> Head(s).op \in ops
  BY <1>1 DEF Of
<1>5. QED BY <1>1, <1>2, <1>3, <1>4

(* Messages of other kinds put behind the others.                           *)
LEMMA NumberConcat ==
    ASSUME NEW R, NEW s \in Seq(R), NEW t \in Seq(R), NEW ops, \A i \in DOMAIN t : t[i].op \notin ops
    PROVE  s \o t \in Seq(R) /\ Number(s \o t, ops) = Number(s, ops)
<1>1. s \o t \in Seq(R)
  OBVIOUS
<1>2. /\ Number(s, ops) = Count(s, Of(R, ops)) /\ Number(s, ops) \in Nat
      /\ Number(s \o t, ops) = Count(s \o t, Of(R, ops))
  BY <1>1, NumberIsCount
<1>3. Count(s \o t, Of(R, ops)) = Count(s, Of(R, ops)) + Count(t, Of(R, ops))
  BY CountConcat
<1>4. \A i \in DOMAIN t : t[i] \notin Of(R, ops)
  BY DEF Of
<1>5. Count(t, Of(R, ops)) = 0
  BY <1>4, CountNone
<1>6. QED BY <1>1, <1>2, <1>3, <1>5

(* An empty channel.                                                        *)
LEMMA NumberEmpty == ASSUME NEW ops PROVE Number(<<>>, ops) = 0
<1>1. {i \in DOMAIN <<>> : <<>>[i].op \in ops} = {}
  OBVIOUS
<1>2. QED BY <1>1, FS_EmptySet DEF Number

(* None of these kinds is there when their number is 0.                     *)
LEMMA NumberNone ==
    ASSUME NEW R, NEW s \in Seq(R), NEW ops, Number(s, ops) = 0
    PROVE  \A i \in DOMAIN s : s[i].op \notin ops
<1> DEFINE S == {i \in DOMAIN s : s[i].op \in ops}
<1>1. IsFiniteSet(S)
  <2>1. DOMAIN s = 1 .. Len(s) /\ Len(s) \in Nat
    OBVIOUS
  <2>2. IsFiniteSet(1 .. Len(s))
    BY <2>1, FS_Interval
  <2>3. S \subseteq 1 .. Len(s)
    BY <2>1
  <2>4. QED BY <2>2, <2>3, FS_Subset
<1>2. S = {}
  BY <1>1, FS_EmptySet DEF Number
<1>3. QED BY <1>2

-----------------------------------------------------------------------------
(* The messages.                                                            *)

(* What a client sends is a message to the server.                          *)
LEMMA ToServerFacts ==
    /\ Key \subseteq ToServer
    /\ \A m \in ToServer : m.op = "FORWARD_EVENT" => m \in Key
    /\ \A op \in {"SYNC_REPLY", "SET_IC_FOCUS", "UNSET_IC_FOCUS", "DESTROY_IC", "DISCONNECT"} :
          Message(op) \in ToServer /\ Message(op).op = op
    /\ \A on \in OnKeys : [op |-> "TRIGGER_NOTIFY", on |-> on] \in ToServer
    /\ \A k \in Keys, kind \in Kinds :
          [op |-> "FORWARD_EVENT", key |-> k, kind |-> kind] \in Key
  BY DEF ToServer, Key, Message

(* What the server sends is a message to a client.                          *)
LEMMA ToClientFacts ==
    /\ \A k \in Keys : /\ About("COMMIT", k) \in ToClient
                       /\ About("COMMIT", k).op = "COMMIT"
                       /\ About("FORWARD_EVENT", k) \in ToClient
                       /\ About("FORWARD_EVENT", k).op = "FORWARD_EVENT"
    /\ \A b \in BOOLEAN : EventMask(b) \in ToClient /\ EventMask(b).forward = b
                             /\ EventMask(b).op = "SET_EVENT_MASK"
    /\ \A op \in Answers : Message(op) \in ToClient /\ Message(op).op = op
    /\ \A m \in ToClient : m.op = "SET_EVENT_MASK" => m.forward \in BOOLEAN
  BY DEF ToClient, About, EventMask, Message

(* The strings a flush commits.                                             *)
LEMMA CommitsFacts ==
    ASSUME NEW k \in Keys, NEW n \in Nat
    PROVE  /\ Commits(k, n) \in Seq(ToClient)
           /\ \A i \in DOMAIN Commits(k, n) : Commits(k, n)[i].op = "COMMIT"
<1>1. About("COMMIT", k) \in ToClient /\ About("COMMIT", k).op = "COMMIT"
  BY ToClientFacts
<1>2. QED BY <1>1 DEF Commits

-----------------------------------------------------------------------------
(* The inductive invariant.  A request is answered once also before its     *)
(* client is known, as nothing is on its way then; the loop of ProcessQueue *)
(* goes on only with a packet left, so what it handles is a key; a trigger  *)
(* finds the context it was sent for, so that IxmShow is called only after  *)
(* IC_SHOW was set.                                                         *)

Answered == \A c \in Client :
    Number(toServer[c], Requests) + Number(toClient[c], Answers)
        = IF waiting[c] THEN 1 ELSE 0

DrainsAKey == draining # NoClient => pending[draining] # <<>>

TriggersFound == \A c \in Client : \A i \in DOMAIN toServer[c] :
                    toServer[c][i].op = "TRIGGER_NOTIFY" => FindIC(c)

IInv == /\ TypeOK /\ DrainsAKey /\ Answered /\ TriggersFound
        /\ DeadKeyIsConsumable /\ WindowIsWanted

(* What any of the handler's paths does to the messages of its client, the  *)
(* dead key and the window.                                                 *)
Handled(c) ==
    /\ toClient' \in [Client -> Seq(ToClient)]
    /\ sync' \in [Client -> BOOLEAN] /\ is_dead_key' \in BOOLEAN
    /\ icShow' \in [Client -> BOOLEAN] /\ window' \in {"none", "hidden", "shown"}
    /\ text' \in 0 .. MaxText
    /\ UNCHANGED <<contexts, raisedFor>>
    /\ \A d \in Client \ {c} : toClient'[d] = toClient[d] /\ icShow'[d] = icShow[d]
    /\ Number(toClient'[c], Answers) = Number(toClient[c], Answers)
    /\ \/ /\ ~is_dead_key' /\ ~MaskAfter(forwarding[c], toClient'[c])
          /\ UNCHANGED <<icShow, window>>
       \/ /\ ~is_dead_key' /\ ~MaskAfter(forwarding[c], toClient'[c])
          /\ window' = "hidden"
       \/ /\ MaskAfter(forwarding[c], toClient'[c]) <=> MaskAfter(forwarding[c], toClient[c])
          /\ UNCHANGED <<is_dead_key, icShow, window>>

(* Messages the server sends reach the channel of that client only.         *)
LEMMA SendsFacts ==
    ASSUME TypeOK, NEW c \in Client, NEW msgs \in Seq(ToClient), Sends(c, msgs)
    PROVE  /\ toClient' \in [Client -> Seq(ToClient)]
           /\ toClient'[c] = toClient[c] \o msgs
           /\ \A d \in Client \ {c} : toClient'[d] = toClient[d]
<1>1. toClient \in [Client -> Seq(ToClient)] /\ toClient[c] \o msgs \in Seq(ToClient)
  BY DEF TypeOK
<1>2. toClient' = [toClient EXCEPT ![c] = toClient[c] \o msgs]
  BY DEF Sends
<1>3. QED BY <1>1, <1>2

(* Messages that are followed by the mask of IMPreeditEnd.                  *)
LEMMA EndsPreedit ==
    ASSUME TypeOK, NEW c \in Client, NEW msgs \in Seq(ToClient),
           \A i \in DOMAIN msgs : msgs[i].op = "COMMIT",
           Sends(c, Append(msgs, EventMask(FALSE)))
    PROVE  /\ toClient' \in [Client -> Seq(ToClient)]
           /\ \A d \in Client \ {c} : toClient'[d] = toClient[d]
           /\ Number(toClient'[c], Answers)
                  = Number(toClient[c], Answers)
           /\ ~MaskAfter(forwarding[c], toClient'[c])
<1> DEFINE m == EventMask(FALSE)
           s == toClient[c]
           u == s \o msgs
           f == forwarding[c]
<1>1. m \in ToClient /\ IsMask(m) /\ m.op = "SET_EVENT_MASK" /\ ~m.forward
  BY ToClientFacts DEF IsMask
<1>2. s \in Seq(ToClient) /\ f \in BOOLEAN
  BY DEF TypeOK
<1>3. Append(msgs, m) \in Seq(ToClient)
  <2> HIDE DEF m
  <2>1. QED BY <1>1
<1>4. /\ toClient' \in [Client -> Seq(ToClient)]
      /\ toClient'[c] = s \o Append(msgs, m)
      /\ \A d \in Client \ {c} : toClient'[d] = toClient[d]
  BY <1>3, SendsFacts
<1> HIDE DEF m, s, f
<1>5. u \in Seq(ToClient) /\ toClient'[c] = Append(u, m)
  BY <1>1, <1>2, <1>4, ConcatAppend
<1>6. Number(u, Answers) = Number(s, Answers)
  <2>1. \A i \in DOMAIN msgs : msgs[i].op \notin Answers
    OBVIOUS
  <2>2. QED BY <1>2, <2>1, NumberConcat
<1> HIDE DEF u
<1>7. ~MaskAfter(f, Append(u, m))
  BY <1>1, <1>2, <1>5, MaskAppend
<1>8. Number(Append(u, m), Answers) = Number(s, Answers)
  <2>1. Number(Append(u, m), Answers)
            = Number(u, Answers)
                + (IF m.op \in Answers THEN 1 ELSE 0)
    BY <1>1, <1>5, NumberAppend
  <2>2. Number(s, Answers) \in Nat
    BY <1>2, NumberIsCount
  <2>3. QED BY <1>1, <1>6, <2>1, <2>2
<1>9. QED BY <1>4, <1>5, <1>7, <1>8 DEF s, f

(* Messages without a mask or a reply.                                      *)
LEMMA SendsPlain ==
    ASSUME TypeOK, NEW c \in Client, NEW msgs \in Seq(ToClient),
           \A i \in DOMAIN msgs : msgs[i].op \in {"COMMIT", "FORWARD_EVENT"},
           Sends(c, msgs)
    PROVE  /\ toClient' \in [Client -> Seq(ToClient)]
           /\ \A d \in Client \ {c} : toClient'[d] = toClient[d]
           /\ Number(toClient'[c], Answers)
                  = Number(toClient[c], Answers)
           /\ MaskAfter(forwarding[c], toClient'[c]) <=> MaskAfter(forwarding[c], toClient[c])
<1>1. toClient[c] \in Seq(ToClient) /\ forwarding[c] \in BOOLEAN
  BY DEF TypeOK
<1>2. /\ \A i \in DOMAIN msgs : ~IsMask(msgs[i])
      /\ \A i \in DOMAIN msgs : msgs[i].op \notin Answers
  BY DEF IsMask
<1>3. Number(toClient[c] \o msgs, Answers)
          = Number(toClient[c], Answers)
  BY <1>1, <1>2, NumberConcat
<1>4. MaskAfter(forwarding[c], toClient[c] \o msgs) <=> MaskAfter(forwarding[c], toClient[c])
  BY <1>1, <1>2, MaskConcat
<1>5. QED BY <1>3, <1>4, SendsFacts

(* IxmForwardEventHandler, path by path.                                    *)
LEMMA HandleFacts ==
    ASSUME TypeOK, NEW c \in Client, NEW e \in Key, Handle(c, e)
    PROVE  Handled(c) /\ handled' \in [Client -> 0 .. MaxKey] /\ UNCHANGED crashed
<1>1. e.key \in Keys
  BY DEF Key
<1>2. handled' \in [Client -> 0 .. MaxKey] /\ UNCHANGED <<contexts, raisedFor, crashed>>
  BY <1>1, SMTT(30) DEF Handle, TypeOK, Keys
<1>3. /\ toClient \in [Client -> Seq(ToClient)] /\ sync \in [Client -> BOOLEAN]
      /\ is_dead_key \in BOOLEAN /\ icShow \in [Client -> BOOLEAN]
      /\ window \in {"none", "hidden", "shown"} /\ text \in 0 .. MaxText
  BY DEF TypeOK
<1> DEFINE commit == About("COMMIT", e.key)
<1>4. commit \in ToClient /\ commit.op = "COMMIT"
  BY <1>1, ToClientFacts
<1> HIDE DEF commit
<1>5. CASE CommitDeadKey(c, e)
  <2> DEFINE msgs == <<commit>>
  <2>1. /\ msgs \in Seq(ToClient) /\ \A i \in DOMAIN msgs : msgs[i].op = "COMMIT"
        /\ <<commit, EventMask(FALSE)>> = Append(msgs, EventMask(FALSE))
    <3>1. /\ msgs \in Seq(ToClient) /\ DOMAIN msgs = {1} /\ msgs[1] = commit
          /\ <<commit, EventMask(FALSE)>> = Append(msgs, EventMask(FALSE))
      BY <1>4, Single
    <3> HIDE DEF msgs
    <3>2. QED BY <1>4, <3>1
  <2> HIDE DEF msgs
  <2>2. /\ Sends(c, Append(msgs, EventMask(FALSE))) /\ is_dead_key' = FALSE
        /\ UNCHANGED <<sync, icShow, window, text>>
    BY <1>5, <2>1 DEF CommitDeadKey, commit
  <2>3. /\ toClient' \in [Client -> Seq(ToClient)]
        /\ \A d \in Client \ {c} : toClient'[d] = toClient[d]
        /\ Number(toClient'[c], Answers)
               = Number(toClient[c], Answers)
        /\ ~MaskAfter(forwarding[c], toClient'[c])
    BY <2>1, <2>2, EndsPreedit
  <2>4. QED BY <1>2, <1>3, <2>2, <2>3 DEF Handled
<1>6. CASE FlushText(c, e) /\ e.kind = "space"
  <2> DEFINE msgs == Commits(e.key, text)
  <2>1. /\ msgs \in Seq(ToClient) /\ \A i \in DOMAIN msgs : msgs[i].op = "COMMIT"
    <3>1. e.key \in Keys /\ text \in Nat
      BY <1>1, <1>3
    <3>2. QED BY <3>1, CommitsFacts, Zenon
  <2> HIDE DEF msgs
  <2>2. /\ Sends(c, Append(msgs, EventMask(FALSE)))
        /\ ~is_dead_key /\ UNCHANGED <<sync, is_dead_key>>
        /\ text' = 0 /\ window' = "hidden"
        /\ icShow' = [icShow EXCEPT ![c] = icShow[c] /\ ~FindIC(c)]
    BY <1>6 DEF FlushText, msgs
  <2>3. /\ toClient' \in [Client -> Seq(ToClient)]
        /\ \A d \in Client \ {c} : toClient'[d] = toClient[d]
        /\ Number(toClient'[c], Answers)
               = Number(toClient[c], Answers)
        /\ ~MaskAfter(forwarding[c], toClient'[c])
    BY <2>1, <2>2, EndsPreedit
  <2>4. /\ icShow' \in [Client -> BOOLEAN] /\ text' \in 0 .. MaxText
        /\ \A d \in Client \ {c} : icShow'[d] = icShow[d]
    BY <1>3, <2>2 DEF FindIC
  <2>5. QED BY <1>2, <1>3, <2>2, <2>3, <2>4 DEF Handled
<1>7. CASE FlushText(c, e) /\ e.kind # "space"
  <2> DEFINE msgs == Commits(e.key, text)
  <2>1. /\ msgs \in Seq(ToClient)
        /\ \A i \in DOMAIN msgs : msgs[i].op \in {"COMMIT", "FORWARD_EVENT"}
    <3>1. e.key \in Keys /\ text \in Nat
      BY <1>1, <1>3
    <3>2. QED BY <3>1, CommitsFacts, Zenon
  <2> HIDE DEF msgs
  <2>2. /\ Sends(c, msgs) /\ UNCHANGED <<sync, is_dead_key, icShow, window>> /\ text' = 0
    BY <1>7 DEF FlushText, msgs
  <2>3. /\ toClient' \in [Client -> Seq(ToClient)]
        /\ \A d \in Client \ {c} : toClient'[d] = toClient[d]
        /\ Number(toClient'[c], Answers)
               = Number(toClient[c], Answers)
        /\ MaskAfter(forwarding[c], toClient'[c]) <=> MaskAfter(forwarding[c], toClient[c])
    BY <2>1, <2>2, SendsPlain
  <2>4. QED BY <1>2, <1>3, <2>2, <2>3 DEF Handled
<1>8. CASE HandBack(c, e)
  <2> DEFINE msgs == <<About("FORWARD_EVENT", e.key)>>
  <2>1. /\ msgs \in Seq(ToClient)
        /\ \A i \in DOMAIN msgs : msgs[i].op \in {"COMMIT", "FORWARD_EVENT"}
    <3> DEFINE m == About("FORWARD_EVENT", e.key)
    <3>1. m \in ToClient /\ m.op = "FORWARD_EVENT"
      BY <1>1, ToClientFacts
    <3> HIDE DEF m
    <3>2. msgs \in Seq(ToClient) /\ DOMAIN msgs = {1} /\ msgs[1] = m
      BY <3>1, Single DEF m
    <3> HIDE DEF msgs
    <3>3. QED BY <3>1, <3>2
  <2> HIDE DEF msgs
  <2>2. /\ Sends(c, msgs) /\ UNCHANGED <<is_dead_key, icShow, window, text>>
        /\ sync' = [sync EXCEPT ![c] = TRUE]
    BY <1>8 DEF HandBack, msgs
  <2>3. /\ toClient' \in [Client -> Seq(ToClient)]
        /\ \A d \in Client \ {c} : toClient'[d] = toClient[d]
        /\ Number(toClient'[c], Answers)
               = Number(toClient[c], Answers)
        /\ MaskAfter(forwarding[c], toClient'[c]) <=> MaskAfter(forwarding[c], toClient[c])
    BY <2>1, <2>2, SendsPlain
  <2>4. sync' \in [Client -> BOOLEAN]
    BY <1>3, <2>2
  <2>5. QED BY <1>2, <1>3, <2>2, <2>3, <2>4 DEF Handled
<1>9. CASE EditText(c, e) \/ Ignore(c, e)
  <2>1. UNCHANGED <<toClient, sync, is_dead_key, icShow, window>> /\ text' \in 0 .. MaxText
    BY <1>3, <1>9 DEF EditText, Ignore
  <2>2. QED BY <1>2, <1>3, <2>1 DEF Handled
<1>10. QED BY <1>2, <1>5, <1>6, <1>7, <1>8, <1>9 DEF Handle

(* A message sent to the server.                                            *)
LEMMA SendFacts ==
    ASSUME TypeOK, NEW c \in Client, NEW m \in ToServer, Send(c, m)
    PROVE  /\ toServer' \in [Client -> Seq(ToServer)]
           /\ toServer'[c] = Append(toServer[c], m)
           /\ \A d \in Client \ {c} : toServer'[d] = toServer[d]
           /\ Number(toServer'[c], Requests)
                  = Number(toServer[c], Requests)
                        + (IF m.op \in Requests THEN 1 ELSE 0)
<1>1. toServer \in [Client -> Seq(ToServer)] /\ toServer[c] \in Seq(ToServer)
  BY DEF TypeOK
<1>2. toServer' = [toServer EXCEPT ![c] = Append(toServer[c], m)]
  BY DEF Send
<1>3. /\ Append(toServer[c], m) \in Seq(ToServer)
      /\ Number(Append(toServer[c], m), Requests)
             = Number(toServer[c], Requests)
                   + (IF m.op \in Requests THEN 1 ELSE 0)
  BY <1>1, NumberAppend
<1>4. QED BY <1>1, <1>2, <1>3

(* A message taken by the server.                                           *)
LEMMA ReceivesFacts ==
    ASSUME TypeOK, NEW c \in Client, NEW op, Receives(c, op)
    PROVE  /\ toServer' \in [Client -> Seq(ToServer)]
           /\ Head(toServer[c]) \in ToServer /\ Head(toServer[c]).op = op
           /\ toServer[c] # <<>> /\ toServer'[c] = Tail(toServer[c])
           /\ \A d \in Client \ {c} : toServer'[d] = toServer[d]
           /\ Number(toServer[c], Requests)
                  = Number(toServer'[c], Requests)
                        + (IF op \in Requests THEN 1 ELSE 0)
<1>1. toServer \in [Client -> Seq(ToServer)] /\ toServer[c] \in Seq(ToServer)
  BY DEF TypeOK
<1>2. /\ toServer' = [toServer EXCEPT ![c] = Tail(toServer[c])]
      /\ toServer[c] # <<>> /\ Head(toServer[c]).op = op
  BY DEF Receives
<1> DEFINE s == toServer[c]
<1> HIDE DEF s
<1>3. /\ Tail(s) \in Seq(ToServer) /\ Head(s) \in ToServer
      /\ Number(s, Requests)
             = Number(Tail(s), Requests)
                   + (IF Head(s).op \in Requests THEN 1 ELSE 0)
  BY <1>1, <1>2, NumberTail DEF s
<1>4. QED BY <1>1, <1>2, <1>3 DEF s

(* What Append adds is the last element, and nothing else.                  *)
LEMMA AppendElements ==
    ASSUME NEW R, NEW s \in Seq(R), NEW m \in R, NEW i \in DOMAIN Append(s, m)
    PROVE  (i \in DOMAIN s /\ Append(s, m)[i] = s[i]) \/ Append(s, m)[i] = m
<1> HIDE DEF Requests, Answers
<1>1. CASE i \in 1 .. Len(s)
  BY <1>1
<1>2. CASE i = Len(s) + 1
  BY <1>2
<1>3. i \in 1 .. Len(s) + 1
  OBVIOUS
<1>4. QED BY <1>1, <1>2, <1>3

(* What the server has taken, or another client sent, is no new trigger.    *)
LEMMA TriggersStep ==
    ASSUME TypeOK, TriggersFound, NEW c \in Client, contexts \subseteq contexts',
           \A d \in Client \ {c} : toServer'[d] = toServer[d],
           \/ toServer'[c] = toServer[c]
           \/ toServer[c] # <<>> /\ toServer'[c] = Tail(toServer[c])
           \/ \E m \in ToServer : /\ toServer'[c] = Append(toServer[c], m)
                                  /\ m.op = "TRIGGER_NOTIFY" => FindIC(c)
    PROVE  TriggersFound'
<1> DEFINE s == toServer[c]
<1>1. s \in Seq(ToServer) /\ \A d \in Client : FindIC(d) => FindIC(d)'
  BY DEF TypeOK, FindIC
<1>2. \A i \in DOMAIN s : s[i].op = "TRIGGER_NOTIFY" => FindIC(c)
  BY DEF TriggersFound
<1>3. ASSUME NEW i \in DOMAIN toServer'[c], toServer'[c][i].op = "TRIGGER_NOTIFY"
      PROVE  FindIC(c)
  <2>1. CASE toServer'[c] = s
    BY <1>2, <1>3, <2>1
  <2>2. CASE s # <<>> /\ toServer'[c] = Tail(s)
    <3> HIDE DEF s
    <3>1. i + 1 \in DOMAIN s /\ toServer'[c][i] = s[i + 1]
      BY <1>1, <1>3, <2>2
    <3>2. QED BY <1>2, <1>3, <3>1
  <2>3. CASE \E m \in ToServer : /\ toServer'[c] = Append(s, m)
                                 /\ m.op = "TRIGGER_NOTIFY" => FindIC(c)
    <3>1. PICK m \in ToServer : /\ toServer'[c] = Append(s, m)
                                /\ m.op = "TRIGGER_NOTIFY" => FindIC(c)
      BY <2>3
    <3> HIDE DEF s
    <3>2. (i \in DOMAIN s /\ toServer'[c][i] = s[i]) \/ toServer'[c][i] = m
      BY <1>1, <3>1, AppendElements
    <3>3. CASE i \in DOMAIN s /\ toServer'[c][i] = s[i]
      BY <1>2, <1>3, <3>3
    <3>4. CASE toServer'[c][i] = m
      BY <1>3, <3>1, <3>4
    <3>5. QED BY <3>2, <3>3, <3>4
  <2>4. QED BY <2>1, <2>2, <2>3
<1>4. ASSUME NEW d \in Client, NEW i \in DOMAIN toServer'[d],
             toServer'[d][i].op = "TRIGGER_NOTIFY"
      PROVE  FindIC(d)
  <2>1. CASE d = c
    BY <1>3, <1>4, <2>1
  <2>2. CASE d # c
    BY <1>4, <2>2 DEF TriggersFound
  <2>3. QED BY <2>1, <2>2
<1>5. QED BY <1>1, <1>4 DEF TriggersFound

(* The counts of the other clients stay as they are.                        *)
LEMMA AnsweredStep ==
    ASSUME Answered, NEW c \in Client,
           \A d \in Client \ {c} : /\ toServer'[d] = toServer[d]
                                   /\ toClient'[d] = toClient[d]
                                   /\ waiting'[d] = waiting[d],
           Number(toServer'[c], Requests)
               + Number(toClient'[c], Answers)
               = IF waiting'[c] THEN 1 ELSE 0
    PROVE  Answered'
<1>1. ASSUME NEW d \in Client
      PROVE  Number(toServer'[d], Requests)
                 + Number(toClient'[d], Answers)
                 = IF waiting'[d] THEN 1 ELSE 0
  <2>1. CASE d = c
    BY <2>1
  <2>2. CASE d # c
    BY <2>2 DEF Answered
  <2>3. QED BY <2>1, <2>2
<1>2. QED BY <1>1 DEF Answered

-----------------------------------------------------------------------------
(* The steps of a client.                                                   *)

(* What a client does with its own messages.  The mask it will end up with  *)
(* does not change, not even when it reads.                                 *)
ClientEffect(c) ==
    /\ TypeOK' /\ Answered' /\ TriggersFound'
    /\ UNCHANGED <<pending, draining, is_dead_key, icShow, window, raisedFor>>
    /\ \A d \in Client : WillForward(d)' <=> WillForward(d)

(* The invariant holds at first.                                            *)
LEMMA InitInv == Init => IInv
<1> SUFFICES ASSUME Init PROVE IInv
  OBVIOUS
<1>1. TypeOK
  <2>1. <<>> \in Seq(ToServer) /\ <<>> \in Seq(ToClient) /\ <<>> \in Seq(Key)
    OBVIOUS
  <2>2. 0 \in Nat /\ 0 \in 0 .. MaxKey /\ 0 \in 0 .. MaxAsk /\ 0 \in 0 .. MaxText
    OBVIOUS
  <2>3. /\ toServer \in [Client -> Seq(ToServer)]
        /\ toClient \in [Client -> Seq(ToClient)]
        /\ pending \in [Client -> Seq(Key)]
    BY <2>1, Zenon DEF Init
  <2>4. /\ link \in [Client -> {"down", "up", "leaving", "dead", "gone"}]
        /\ forwarding \in [Client -> BOOLEAN] /\ waiting \in [Client -> BOOLEAN]
        /\ sync \in [Client -> BOOLEAN] /\ icShow \in [Client -> BOOLEAN]
    BY DEF Init
  <2>5. /\ owed \in [Client -> Nat] /\ sent \in [Client -> 0 .. MaxKey]
        /\ asked \in [Client -> 0 .. MaxAsk] /\ handled \in [Client -> 0 .. MaxKey]
        /\ text \in 0 .. MaxText
    BY <2>2, Zenon DEF Init
  <2>6. QED BY <2>3, <2>4, <2>5 DEF Init, TypeOK
<1>2. ASSUME NEW c \in Client
      PROVE  Number(toServer[c], Requests)
                 + Number(toClient[c], Answers)
                 = IF waiting[c] THEN 1 ELSE 0
  <2>1. toServer[c] = <<>> /\ toClient[c] = <<>> /\ waiting[c] = FALSE
    BY DEF Init
  <2>2. /\ Number(toServer[c], Requests) = 0
        /\ Number(toClient[c], Answers) = 0
    BY <2>1, NumberEmpty, Zenon
  <2>3. QED BY <2>1, <2>2
<1>3. DrainsAKey /\ DeadKeyIsConsumable /\ WindowIsWanted /\ TriggersFound
  BY DEF Init, DrainsAKey, DeadKeyIsConsumable, WindowIsWanted, TriggersFound
<1>4. QED BY <1>1, <1>2, <1>3 DEF IInv, Answered

(* A counter below its bound is counted up for one client.                  *)
LEMMA OneMore ==
    ASSUME NEW N \in Nat, NEW f \in [Client -> 0 .. N], NEW c \in Client, f[c] < N
    PROVE  /\ f[c] + 1 \in 1 .. N
           /\ [f EXCEPT ![c] = f[c] + 1] \in [Client -> 0 .. N]
<1>1. f[c] \in 0 .. N
  OBVIOUS
<1>2. f[c] + 1 \in 1 .. N /\ f[c] + 1 \in 0 .. N
  BY <1>1
<1>3. QED BY <1>2

(* Sending: a request is the one thing that makes the client wait.          *)
LEMMA ClientSends ==
    ASSUME TypeOK, Answered, TriggersFound, NEW c \in Client,
           Press(c) \/ Trigger(c) \/ Focus(c) \/ Destroy(c) \/ Reply(c) \/ Leave(c)
    PROVE  ClientEffect(c)
<1> USE DEF TypeOK
<1> DEFINE n == Number(toServer[c], Requests)
           r == Number(toClient[c], Answers)
<1>1. n \in Nat /\ r \in Nat /\ n + r = (IF waiting[c] THEN 1 ELSE 0)
  BY NumberIsCount DEF Answered
<1>2. PICK m \in ToServer :
         /\ Send(c, m)
         /\ waiting' \in [Client -> BOOLEAN]
         /\ \A d \in Client \ {c} : waiting'[d] = waiting[d]
         /\ waiting'[c] = (waiting[c] \/ m.op \in Requests)
         /\ m.op \in Requests => ~waiting[c]
         /\ m.op = "TRIGGER_NOTIFY" => FindIC(c)
         /\ UNCHANGED <<forwarding, toClient, queue, contexts, converter>>
         /\ link' \in [Client -> {"down", "up", "leaving", "dead", "gone"}]
         /\ owed' \in [Client -> Nat]
         /\ sent' \in [Client -> 0 .. MaxKey] /\ asked' \in [Client -> 0 .. MaxAsk]
  <2>1. CASE Press(c)
    <3>1. PICK kind \in Kinds :
             Send(c, [op |-> "FORWARD_EVENT", key |-> sent[c] + 1, kind |-> kind])
      BY <2>1 DEF Press
    <3>2. sent[c] + 1 \in Keys /\ sent' \in [Client -> 0 .. MaxKey]
      <4>1. sent[c] < MaxKey /\ sent' = [sent EXCEPT ![c] = sent[c] + 1]
        BY <2>1, Zenon DEF Press
      <4>2. sent \in [Client -> 0 .. MaxKey] /\ MaxKey \in Nat
        OBVIOUS
      <4>3. sent[c] + 1 \in 1 .. MaxKey /\ sent' \in [Client -> 0 .. MaxKey]
        BY <4>1, <4>2, OneMore
      <4>4. QED BY <4>3 DEF Keys
    <3>3. [op |-> "FORWARD_EVENT", key |-> sent[c] + 1, kind |-> kind] \in ToServer
      BY <3>2, ToServerFacts
    <3>4. /\ UNCHANGED <<link, forwarding, waiting, owed, asked, toClient, queue, contexts,
                       converter>>
      BY <2>1 DEF Press
    <3>5. QED BY <3>1, <3>2, <3>3, <3>4
  <2>2. CASE Trigger(c)
    <3>1. PICK on \in OnKeys : Send(c, [op |-> "TRIGGER_NOTIFY", on |-> on])
      BY <2>2 DEF Trigger
    <3>2. [op |-> "TRIGGER_NOTIFY", on |-> on] \in ToServer
      BY ToServerFacts
    <3>3. /\ ~waiting[c] /\ waiting' = [waiting EXCEPT ![c] = TRUE]
          /\ asked[c] < MaxAsk /\ asked' = [asked EXCEPT ![c] = asked[c] + 1]
          /\ FindIC(c)
          /\ UNCHANGED <<link, forwarding, owed, sent, toClient, queue, contexts, converter>>
      BY <2>2, Zenon DEF Trigger, Free, Holds, FindIC
    <3>4. /\ waiting' \in [Client -> BOOLEAN] /\ waiting'[c] = TRUE
          /\ \A d \in Client \ {c} : waiting'[d] = waiting[d]
      BY <3>3
    <3>5. asked' \in [Client -> 0 .. MaxAsk]
      <4>1. asked \in [Client -> 0 .. MaxAsk] /\ MaxAsk \in Nat
        OBVIOUS
      <4>2. QED BY <3>3, <4>1, OneMore
    <3>6. QED BY <3>1, <3>2, <3>3, <3>4, <3>5
  <2>3. CASE Focus(c)
    <3>1. PICK op \in {"SET_IC_FOCUS", "UNSET_IC_FOCUS"} : Send(c, Message(op))
      BY <2>3 DEF Focus
    <3>2. Message(op) \in ToServer /\ Message(op).op \notin Requests
      BY ToServerFacts
    <3>3. /\ asked[c] < MaxAsk /\ asked' = [asked EXCEPT ![c] = asked[c] + 1]
          /\ UNCHANGED <<link, forwarding, waiting, owed, sent, toClient, queue, contexts,
                         converter>>
      BY <2>3, Zenon DEF Focus
    <3>4. asked' \in [Client -> 0 .. MaxAsk]
      <4>1. asked \in [Client -> 0 .. MaxAsk] /\ MaxAsk \in Nat
        OBVIOUS
      <4>2. QED BY <3>3, <4>1, OneMore
    <3>5. QED BY <3>1, <3>2, <3>3, <3>4
  <2>4. CASE Reply(c)
    <3>1. Message("SYNC_REPLY") \in ToServer /\ Message("SYNC_REPLY").op \notin Requests
      BY ToServerFacts
    <3>2. /\ Send(c, Message("SYNC_REPLY"))
          /\ UNCHANGED <<link, forwarding, waiting, sent, asked, toClient, queue, contexts,
                         converter>>
      BY <2>4, Zenon DEF Reply
    <3>3. owed' \in [Client -> Nat]
      <4>1. PICK k \in 1 .. owed[c] : owed' = [owed EXCEPT ![c] = owed[c] - k]
        BY <2>4, Zenon DEF Reply
      <4>2. owed[c] \in Nat /\ k \in 1 .. owed[c]
        OBVIOUS
      <4>3. owed[c] - k \in Nat
        <5> HIDE DEF TypeOK
        <5>1. QED BY <4>2
      <4>4. QED BY <4>1, <4>3
    <3>4. QED BY <3>1, <3>2, <3>3
  <2>5. CASE Leave(c)
    <3>1. Message("DISCONNECT") \in ToServer /\ Message("DISCONNECT").op \notin Requests
      BY ToServerFacts
    <3>2. /\ Send(c, Message("DISCONNECT"))
          /\ link' \in [Client -> {"down", "up", "leaving", "dead", "gone"}]
          /\ UNCHANGED <<forwarding, waiting, owed, sent, asked, toClient, queue, contexts,
                         converter>>
      BY <2>5 DEF Leave, client
    <3>3. QED BY <3>1, <3>2
  <2>6. CASE Destroy(c)
    <3>1. Message("DESTROY_IC") \in ToServer /\ Message("DESTROY_IC").op = "DESTROY_IC"
      BY ToServerFacts
    <3>2. /\ Send(c, Message("DESTROY_IC"))
          /\ ~waiting[c] /\ waiting' = [waiting EXCEPT ![c] = TRUE]
          /\ UNCHANGED <<link, forwarding, owed, sent, asked, toClient, queue, contexts,
                         converter>>
      BY <2>6, Zenon DEF Destroy, Free
    <3>3. /\ waiting' \in [Client -> BOOLEAN] /\ waiting'[c] = TRUE
          /\ \A d \in Client \ {c} : waiting'[d] = waiting[d]
      BY <3>2
    <3>4. QED BY <3>1, <3>2, <3>3
  <2>7. QED BY <2>1, <2>2, <2>3, <2>4, <2>5, <2>6
<1>3. /\ toServer' \in [Client -> Seq(ToServer)]
      /\ toServer'[c] = Append(toServer[c], m)
      /\ \A d \in Client \ {c} : toServer'[d] = toServer[d]
      /\ Number(toServer'[c], Requests)
             = n + (IF m.op \in Requests THEN 1 ELSE 0)
  BY <1>2, SendFacts
<1>4. TypeOK'
  BY <1>2, <1>3 DEF queue, converter
<1>5. Answered'
  <2>1. Number(toServer'[c], Requests) + Number(toClient'[c], Answers)
            = IF waiting'[c] THEN 1 ELSE 0
    <3>1. Number(toClient'[c], Answers) = r
      BY <1>2
    <3> HIDE DEF n, r
    <3>2. QED BY <1>1, <1>2, <1>3, <3>1, SMTT(30)
  <2>2. QED BY <1>2, <1>3, <2>1, AnsweredStep
<1>6. \A d \in Client : WillForward(d)' <=> WillForward(d)
  BY <1>2 DEF WillForward, MaskAfter
<1>7. TriggersFound'
  <2>1. contexts \subseteq contexts'
    BY <1>2
  <2>2. \E x \in ToServer : /\ toServer'[c] = Append(toServer[c], x)
                            /\ x.op = "TRIGGER_NOTIFY" => FindIC(c)
    BY <1>2, <1>3
  <2>3. QED BY <1>3, <2>1, <2>2, TriggersStep
<1>8. QED BY <1>2, <1>4, <1>5, <1>6, <1>7 DEF ClientEffect, queue, converter

(* Reading: the reply ends the wait, a mask takes effect.                   *)
LEMMA ClientReads ==
    ASSUME TypeOK, Answered, TriggersFound, NEW c \in Client, Read(c)
    PROVE  ClientEffect(c)
<1> USE DEF TypeOK
<1> DEFINE s == toClient[c]
           m == Head(s)
           n == Number(toServer[c], Requests)
           r == Number(s, Answers)
           t == Number(Tail(s), Answers)
           g == IF IsMask(m) THEN m.forward ELSE forwarding[c]
<1>1. s \in Seq(ToClient) /\ s # <<>> /\ m \in ToClient /\ forwarding[c] \in BOOLEAN
  BY DEF Read
<1>2. n \in Nat /\ r \in Nat /\ n + r = (IF waiting[c] THEN 1 ELSE 0)
  BY NumberIsCount DEF Answered
<1>3. /\ Tail(s) \in Seq(ToClient) /\ t \in Nat
      /\ r = t + (IF m.op \in Answers THEN 1 ELSE 0)
  <2> HIDE DEF s
  <2>1. Tail(s) \in Seq(ToClient)
    BY <1>1
  <2>2. t \in Nat
    BY <2>1, NumberIsCount
  <2>3. s \in Seq(ToClient) /\ s # <<>>
    BY <1>1
  <2>4. r = t + (IF m.op \in Answers THEN 1 ELSE 0)
    <3> HIDE DEF TypeOK, Answers, Requests
    <3>1. QED BY <2>3, NumberTail
  <2>5. QED BY <2>1, <2>2, <2>4
<1>4. g \in BOOLEAN
  <2>1. m.op = "SET_EVENT_MASK" => m.forward \in BOOLEAN
    BY <1>1, ToClientFacts
  <2> HIDE DEF m
  <2>2. QED BY <1>1, <2>1 DEF IsMask
<1>5. /\ toClient' = [toClient EXCEPT ![c] = Tail(s)]
      /\ waiting' = [waiting EXCEPT ![c] = waiting[c] /\ m.op \notin Answers]
      /\ forwarding' = [forwarding EXCEPT ![c] = g]
      /\ owed' \in [Client -> Nat]
      /\ UNCHANGED <<link, sent, asked, toServer, queue, contexts, converter>>
  <2>1. /\ toClient' = [toClient EXCEPT ![c] = Tail(s)]
        /\ waiting' = [waiting EXCEPT ![c] = waiting[c] /\ m.op \notin Answers]
        /\ forwarding' = [forwarding EXCEPT
                              ![c] = IF m.op = "SET_EVENT_MASK" THEN m.forward ELSE forwarding[c]]
        /\ owed' = [owed EXCEPT
                        ![c] = IF m.op \in {"FORWARD_EVENT", "COMMIT"}
                               THEN owed[c] + 1 ELSE owed[c]]
        /\ UNCHANGED <<link, sent, asked, toServer, queue, contexts, converter>>
    BY DEF Read
  <2> HIDE DEF m, s
  <2>2. forwarding' = [forwarding EXCEPT ![c] = g]
    BY <2>1, Zenon DEF IsMask
  <2>3. owed' \in [Client -> Nat]
    <3>1. owed \in [Client -> Nat]
      OBVIOUS
    <3> HIDE DEF TypeOK
    <3>2. QED BY <2>1, <3>1
  <2>4. QED BY <2>1, <2>2, <2>3, Zenon
<1>6. MaskAfter(forwarding[c], s) <=> MaskAfter(g, Tail(s))
  <2> HIDE DEF s, g
  <2>1. g = IF IsMask(Head(s)) THEN Head(s).forward ELSE forwarding[c]
    BY DEF g, s
  <2>2. QED BY <1>1, <1>4, <2>1, MaskTail
<1> HIDE DEF m, g
<1>7. /\ toClient' \in [Client -> Seq(ToClient)] /\ waiting' \in [Client -> BOOLEAN]
      /\ forwarding' \in [Client -> BOOLEAN]
      /\ toClient'[c] = Tail(s) /\ forwarding'[c] = g
      /\ waiting'[c] = (waiting[c] /\ m.op \notin Answers)
      /\ \A d \in Client \ {c} : /\ toClient'[d] = toClient[d]
                                 /\ waiting'[d] = waiting[d]
                                 /\ forwarding'[d] = forwarding[d]
  BY <1>3, <1>4, <1>5
<1>8. TypeOK'
  BY <1>5, <1>7 DEF queue, converter
<1>9. Answered'
  <2>1. Number(toServer'[c], Requests) + Number(toClient'[c], Answers)
            = IF waiting'[c] THEN 1 ELSE 0
    <3>1. /\ Number(toServer'[c], Requests) = n
          /\ Number(toClient'[c], Answers) = t
      BY <1>5, <1>7
    <3> HIDE DEF n, r, t
    <3>2. CASE m.op \in Answers
      <4>1. ~waiting'[c]
        BY <1>7, <3>2
      <4>2. r = t + 1 /\ n + r \in {0, 1}
        BY <1>2, <1>3, <3>2
      <4>3. n + t = 0
        BY <1>2, <1>3, <4>2
      <4>4. QED BY <3>1, <4>1, <4>3
    <3>3. CASE m.op \notin Answers
      <4>1. waiting'[c] <=> waiting[c]
        BY <1>7, <3>3
      <4>2. t = r
        BY <1>2, <1>3, <3>3
      <4>3. QED BY <1>2, <3>1, <4>1, <4>2
    <3>4. QED BY <3>2, <3>3
  <2>2. \A d \in Client \ {c} : toServer'[d] = toServer[d]
    BY <1>5
  <2>3. QED BY <1>7, <2>1, <2>2, AnsweredStep
<1>10. ASSUME NEW d \in Client PROVE WillForward(d)' <=> WillForward(d)
  <2>1. WillForward(d) <=> MaskAfter(forwarding[d], toClient[d])
    BY DEF WillForward
  <2>2. WillForward(d)' <=> MaskAfter(forwarding'[d], toClient'[d])
    BY DEF WillForward, MaskAfter
  <2>3. CASE d = c
    BY <1>6, <1>7, <2>1, <2>2, <2>3
  <2>4. CASE d # c
    BY <1>7, <2>1, <2>2, <2>4
  <2>5. QED BY <2>3, <2>4
<1>11. TriggersFound'
  BY <1>5 DEF TriggersFound, FindIC
<1>12. QED BY <1>5, <1>8, <1>9, <1>10, <1>11 DEF ClientEffect, queue, converter

-----------------------------------------------------------------------------
(* The steps of the server.                                                 *)

(* What TriggerNotifyMessageProc sends: one reply, and the mask to forward. *)
LEMMA AnswerFacts ==
    ASSUME TypeOK, NEW c \in Client, Sends(c, Answer)
    PROVE  /\ toClient' \in [Client -> Seq(ToClient)]
           /\ \A d \in Client \ {c} : toClient'[d] = toClient[d]
           /\ Number(toClient'[c], Answers)
                  = Number(toClient[c], Answers) + 1
           /\ MaskAfter(forwarding[c], toClient'[c])
<1> DEFINE r == Message("TRIGGER_NOTIFY_REPLY")
           m == EventMask(TRUE)
           s == toClient[c]
           t == Append(s, r)
           f == forwarding[c]
<1>1. /\ r \in ToClient /\ r.op = "TRIGGER_NOTIFY_REPLY"
      /\ m \in ToClient /\ m.op = "SET_EVENT_MASK" /\ m.forward /\ IsMask(m)
  BY ToClientFacts DEF IsMask
<1>2. s \in Seq(ToClient) /\ f \in BOOLEAN /\ toClient \in [Client -> Seq(ToClient)]
  BY DEF TypeOK
<1>3. Sends(c, <<r, m>>)
  BY DEF Answer
<1> HIDE DEF r, m, f
<1>4. <<r>> \in Seq(ToClient) /\ <<r, m>> = Append(<<r>>, m)
  BY <1>1, Single
<1>5. <<r, m>> \in Seq(ToClient)
  BY <1>1
<1>6. /\ toClient' \in [Client -> Seq(ToClient)]
      /\ toClient'[c] = s \o <<r, m>>
      /\ \A d \in Client \ {c} : toClient'[d] = toClient[d]
  BY <1>3, <1>5, SendsFacts
<1> HIDE DEF s
<1>7. t \in Seq(ToClient) /\ s \o <<r>> = t
  BY <1>1, <1>2, ConcatAppend
<1>8. s \o Append(<<r>>, m) = Append(s \o <<r>>, m)
  BY <1>1, <1>2, <1>4, ConcatAppend
<1>9. toClient'[c] = Append(t, m)
  BY <1>4, <1>6, <1>7, <1>8, Zenon
<1>10. Number(t, Answers) = Number(s, Answers) + 1
  <2>1. Number(t, Answers) = Number(s, Answers)
            + (IF r.op \in Answers THEN 1 ELSE 0)
    BY <1>1, <1>2, NumberAppend
  <2>2. QED BY <1>1, <2>1
<1> HIDE DEF t
<1>11. Number(Append(t, m), Answers) = Number(s, Answers) + 1
  <2>1. Number(Append(t, m), Answers) = Number(t, Answers)
            + (IF m.op \in Answers THEN 1 ELSE 0)
    BY <1>1, <1>7, NumberAppend
  <2>2. Number(t, Answers) \in Nat
    BY <1>7, NumberIsCount
  <2>3. QED BY <1>1, <1>10, <2>1, <2>2
<1>12. MaskAfter(f, Append(t, m))
  <2>1. MaskAfter(f, Append(t, m)) <=> m.forward
    BY <1>1, <1>2, <1>7, MaskAppend
  <2>2. QED BY <1>1, <2>1
<1>13. QED BY <1>6, <1>9, <1>11, <1>12 DEF s, f

(* A key handled, at once or from the queue: it takes no client's mask away *)
(* but with the dead key, and no context's window but by hiding it.         *)
LEMMA HandledInv ==
    ASSUME DeadKeyIsConsumable, WindowIsWanted,
           NEW c \in Client, Handled(c), UNCHANGED forwarding
    PROVE  DeadKeyIsConsumable' /\ WindowIsWanted'
<1>1. \A d \in Client : /\ WillForward(d) <=> MaskAfter(forwarding[d], toClient[d])
                        /\ WillForward(d)' <=> MaskAfter(forwarding[d], toClient'[d])
  BY DEF WillForward, MaskAfter
<1>2. \A d \in Client \ {c} : toClient'[d] = toClient[d]
  BY DEF Handled
<1>3. \A d \in Client \ {c} : WillForward(d)' <=> WillForward(d)
  BY <1>1, <1>2
<1>4. CASE ~is_dead_key' /\ (window' = "hidden" \/ UNCHANGED <<icShow, window>>)
  BY <1>4 DEF DeadKeyIsConsumable, WindowIsWanted, Handled
<1>5. CASE /\ MaskAfter(forwarding[c], toClient'[c]) <=> MaskAfter(forwarding[c], toClient[c])
           /\ UNCHANGED <<is_dead_key, icShow, window>>
  <2>1. \A d \in Client : WillForward(d)' <=> WillForward(d)
    BY <1>1, <1>3, <1>5
  <2>2. UNCHANGED raisedFor
    BY DEF Handled
  <2>3. QED BY <1>5, <2>1, <2>2, Zenon DEF DeadKeyIsConsumable, WindowIsWanted
<1>6. QED BY <1>4, <1>5 DEF Handled

(* A step of a client.                                                      *)
LEMMA ClientInv ==
    ASSUME IInv, NEW c \in Client, ClientStep(c)
    PROVE  IInv'
<1>1. CASE \/ Press(c) \/ Trigger(c) \/ Focus(c) \/ Destroy(c)
           \/ Reply(c) \/ Leave(c) \/ Read(c)
  <2>1. ClientEffect(c)
    BY <1>1, ClientSends, ClientReads DEF IInv
  <2>2. DrainsAKey'
    BY <2>1 DEF ClientEffect, IInv, DrainsAKey
  <2>3. DeadKeyIsConsumable' /\ WindowIsWanted'
    BY <2>1, Zenon DEF ClientEffect, IInv, DeadKeyIsConsumable, WindowIsWanted
  <2>4. QED BY <2>1, <2>2, <2>3 DEF ClientEffect, IInv
<1>2. CASE NewClient(c) \/ Die(c)
  <2>1. /\ link' \in [Client -> {"down", "up", "leaving", "dead", "gone"}]
        /\ contexts \subseteq contexts' /\ contexts' \subseteq Client
        /\ UNCHANGED <<client, toServer, toClient, queue, converter>>
    BY <1>2 DEF NewClient, Die, IInv, TypeOK
  <2>2. TypeOK'
    BY <2>1 DEF IInv, TypeOK, client, queue, converter
  <2>3. Answered' /\ DrainsAKey' /\ WindowIsWanted' /\ TriggersFound'
    BY <2>1 DEF IInv, Answered, DrainsAKey, WindowIsWanted, TriggersFound, FindIC, client,
                queue, converter
  <2>4. \A d \in Client : WillForward(d)' <=> WillForward(d)
    BY <2>1 DEF WillForward, MaskAfter, client
  <2>5. DeadKeyIsConsumable'
    BY <2>1, <2>4 DEF IInv, DeadKeyIsConsumable, converter
  <2>6. QED BY <2>2, <2>3, <2>5 DEF IInv
<1>3. QED BY <1>1, <1>2 DEF ClientStep

(* The loop of ProcessQueue goes on only with a packet left.                *)
LEMMA LoopFacts ==
    ASSUME NEW c \in Client, NEW awaited, NEW q
    PROVE  /\ Loop(c, awaited, q) \in {c, NoClient}
           /\ Loop(c, awaited, q) # NoClient => Loop(c, awaited, q) = c /\ q # <<>>
  BY DEF Loop

(* A key is taken from the channel, or from the queue, and handled.         *)
LEMMA HandlesInv ==
    ASSUME IInv, NEW c \in Client, HandleForwardEvent(c) \/ ProcessQueue(c)
    PROVE  IInv'
<1> USE DEF IInv
<1>1. PICK e \in Key :
         /\ Handle(c, e)
         /\ toServer' \in [Client -> Seq(ToServer)]
         /\ \A d \in Client \ {c} : toServer'[d] = toServer[d]
         /\ Number(toServer'[c], Requests) = Number(toServer[c], Requests)
         /\ \/ toServer'[c] = toServer[c]
            \/ toServer[c] # <<>> /\ toServer'[c] = Tail(toServer[c])
         /\ UNCHANGED <<link, client>>
         /\ pending' \in [Client -> Seq(Key)]
         /\ draining' \in Client \cup {NoClient}
         /\ DrainsAKey'
  <2>1. CASE HandleForwardEvent(c)
    <3> DEFINE e == Head(toServer[c])
               n == Number(toServer[c], Requests)
    <3>1. /\ Receives(c, "FORWARD_EVENT") /\ Handle(c, e)
          /\ UNCHANGED <<link, client, pending, draining>>
      BY <2>1 DEF HandleForwardEvent
    <3>2. /\ toServer' \in [Client -> Seq(ToServer)]
          /\ e \in ToServer /\ e.op = "FORWARD_EVENT"
          /\ toServer[c] # <<>> /\ toServer'[c] = Tail(toServer[c])
          /\ \A d \in Client \ {c} : toServer'[d] = toServer[d]
          /\ n = Number(toServer'[c], Requests)
                     + (IF "FORWARD_EVENT" \in Requests THEN 1 ELSE 0)
      BY <3>1, ReceivesFacts
    <3>3. e \in Key
      BY <3>2, ToServerFacts
    <3>4. toServer'[c] \in Seq(ToServer)
      BY <3>2
    <3>5. Number(toServer'[c], Requests) \in Nat
      BY <3>4, NumberIsCount
    <3>6. Number(toServer'[c], Requests) = n
      BY <3>2, <3>5
    <3>7. /\ pending' \in [Client -> Seq(Key)] /\ draining' \in Client \cup {NoClient}
          /\ DrainsAKey'
      BY <3>1 DEF TypeOK, DrainsAKey
    <3>8. QED BY <3>1, <3>2, <3>3, <3>6, <3>7
  <2>2. CASE ProcessQueue(c)
    <3> DEFINE e == Head(pending[c])
               q == Tail(pending[c])
    <3>1. /\ draining = c /\ Handle(c, e)
          /\ pending' = [pending EXCEPT ![c] = q]
          /\ draining' = Loop(c, sync'[c], q)
          /\ UNCHANGED <<link, client, toServer>>
      BY <2>2 DEF ProcessQueue
    <3>2. pending[c] \in Seq(Key) /\ pending[c] # <<>> /\ pending \in [Client -> Seq(Key)]
      BY <3>1 DEF DrainsAKey, TypeOK
    <3>3. e \in Key /\ q \in Seq(Key)
      BY <3>2
    <3> HIDE DEF e, q
    <3>4. pending' \in [Client -> Seq(Key)] /\ pending'[c] = q
      BY <3>1, <3>2, <3>3
    <3>5. draining' \in Client \cup {NoClient} /\ DrainsAKey'
      BY <3>1, <3>4, LoopFacts DEF DrainsAKey
    <3>6. toServer' \in [Client -> Seq(ToServer)]
      BY <3>1 DEF TypeOK
    <3>7. QED BY <3>1, <3>3, <3>4, <3>5, <3>6
  <2>3. QED BY <2>1, <2>2
<1>2. Handled(c) /\ handled' \in [Client -> 0 .. MaxKey] /\ UNCHANGED crashed
  BY <1>1, HandleFacts
<1>3. TypeOK'
  BY <1>1, <1>2 DEF TypeOK, Handled, client
<1>4. Answered'
  <2>1. Number(toServer'[c], Requests) + Number(toClient'[c], Answers)
            = Number(toServer[c], Requests) + Number(toClient[c], Answers)
    BY <1>1, <1>2 DEF Handled
  <2>2. UNCHANGED waiting
    BY <1>1 DEF client
  <2>3. Number(toServer'[c], Requests) + Number(toClient'[c], Answers)
            = IF waiting'[c] THEN 1 ELSE 0
    BY <2>1, <2>2 DEF Answered
  <2>4. \A d \in Client \ {c} : toServer'[d] = toServer[d] /\ toClient'[d] = toClient[d]
    BY <1>1, <1>2 DEF Handled
  <2>5. QED BY <2>2, <2>3, <2>4, AnsweredStep
<1>5. DeadKeyIsConsumable' /\ WindowIsWanted'
  BY <1>1, <1>2, HandledInv DEF client
<1>6. TriggersFound'
  <2>1. contexts \subseteq contexts'
    BY <1>2 DEF Handled
  <2>2. QED BY <1>1, <2>1, TriggersStep
<1>7. QED BY <1>1, <1>3, <1>4, <1>5, <1>6

(* A trigger key: the answer is on its way before the handler is called, so *)
(* the mask is on whatever the handler then sets.                           *)
LEMMA TriggerInv ==
    ASSUME IInv, NEW c \in Client, HandleTriggerNotify(c)
    PROVE  IInv' /\ WillForward(c)'
<1> DEFINE n == Number(toServer[c], Requests)
           r == Number(toClient[c], Answers)
<1>0. TypeOK
  BY DEF IInv
<1>1. /\ Receives(c, "TRIGGER_NOTIFY") /\ Sends(c, Answer)
      /\ UNCHANGED <<link, client, queue, contexts, text, crashed>>
      /\ \/ is_dead_key' = TRUE /\ UNCHANGED <<icShow, window, raisedFor>>
         \/ /\ is_dead_key' = FALSE
            /\ icShow' = [icShow EXCEPT ![c] = icShow[c] \/ FindIC(c)]
            /\ window' = "shown" /\ raisedFor' = c
  BY DEF HandleTriggerNotify, IxmShow
<1>2. /\ toServer' \in [Client -> Seq(ToServer)]
      /\ toServer[c] # <<>> /\ toServer'[c] = Tail(toServer[c])
      /\ Head(toServer[c]).op = "TRIGGER_NOTIFY"
      /\ \A d \in Client \ {c} : toServer'[d] = toServer[d]
      /\ n = Number(toServer'[c], Requests)
                 + (IF "TRIGGER_NOTIFY" \in Requests THEN 1 ELSE 0)
  BY <1>0, <1>1, ReceivesFacts
<1>3. /\ toClient' \in [Client -> Seq(ToClient)]
      /\ \A d \in Client \ {c} : toClient'[d] = toClient[d]
      /\ Number(toClient'[c], Answers) = r + 1
      /\ MaskAfter(forwarding[c], toClient'[c])
  BY <1>0, <1>1, AnswerFacts
<1>4. is_dead_key' \in BOOLEAN /\ icShow' \in [Client -> BOOLEAN]
      /\ window' \in {"none", "hidden", "shown"} /\ raisedFor' \in Client \cup {NoClient}
  BY <1>0, <1>1 DEF TypeOK, FindIC
<1>5. TypeOK'
  BY <1>0, <1>1, <1>2, <1>3, <1>4 DEF TypeOK, client, queue
<1>6. Answered'
  <2>1. /\ n \in Nat /\ r \in Nat /\ Number(toServer'[c], Requests) \in Nat
        /\ n + r = (IF waiting[c] THEN 1 ELSE 0)
    <3>1. toServer[c] \in Seq(ToServer) /\ toServer'[c] \in Seq(ToServer)
          /\ toClient[c] \in Seq(ToClient)
      BY <1>0, <1>2 DEF TypeOK
    <3>2. QED BY <3>1, NumberIsCount DEF IInv, Answered
  <2>2. n = Number(toServer'[c], Requests) + 1
    BY <1>2
  <2> HIDE DEF n, r
  <2>3. Number(toServer'[c], Requests) + Number(toClient'[c], Answers)
            = n + r
    BY <1>3, <2>1, <2>2
  <2>4. UNCHANGED waiting
    BY <1>1 DEF client
  <2>5. Number(toServer'[c], Requests) + Number(toClient'[c], Answers)
            = IF waiting'[c] THEN 1 ELSE 0
    BY <2>1, <2>3, <2>4
  <2>6. QED BY <1>2, <1>3, <2>4, <2>5, AnsweredStep DEF IInv
<1>7. WillForward(c)'
  <2>1. forwarding' = forwarding
    BY <1>1 DEF client
  <2>2. QED BY <1>3, <2>1 DEF WillForward, MaskAfter
<1>8. DeadKeyIsConsumable' /\ WindowIsWanted'
  <2>1. DeadKeyIsConsumable'
    BY <1>7, Zenon DEF DeadKeyIsConsumable
  <2>2. FindIC(c)
    <3>1. toServer[c] \in Seq(ToServer)
      BY <1>0 DEF TypeOK
    <3>2. 1 \in DOMAIN toServer[c] /\ toServer[c][1] = Head(toServer[c])
      BY <1>2, <3>1
    <3>3. QED BY <1>2, <3>2 DEF IInv, TriggersFound
  <2>3. WindowIsWanted'
    BY <1>0, <1>1, <2>2 DEF IInv, WindowIsWanted, TypeOK
  <2>4. QED BY <2>1, <2>3
<1>9. DrainsAKey'
  BY <1>1 DEF IInv, DrainsAKey, queue
<1>10. TriggersFound'
  <2>1. contexts \subseteq contexts'
    BY <1>1
  <2>2. QED BY <1>0, <1>2, <2>1, TriggersStep DEF IInv
<1>11. QED BY <1>5, <1>6, <1>7, <1>8, <1>9, <1>10 DEF IInv

(* XIM_DESTROY_IC: the reply, and a context less.  No trigger of it can be  *)
(* on its way, as its client waits for one answer at a time.                *)
LEMMA DestroyInv ==
    ASSUME IInv, NEW c \in Client, HandleDestroyIC(c)
    PROVE  /\ IInv' /\ UNCHANGED <<is_dead_key, icShow>>
           /\ \A d \in Client : WillForward(d)' <=> WillForward(d)
<1> DEFINE n == Number(toServer[c], Requests)
           r == Number(toClient[c], Answers)
           nn == Number(toServer'[c], Requests)
           m == Message("DESTROY_IC_REPLY")
           s == toClient[c]
<1>0. TypeOK
  BY DEF IInv
<1>1. /\ Receives(c, "DESTROY_IC") /\ Sends(c, <<m>>)
      /\ contexts' = contexts \ {c}
      /\ UNCHANGED <<link, client, queue, converter>>
  BY DEF HandleDestroyIC, DeleteIC
<1>2. /\ toServer' \in [Client -> Seq(ToServer)]
      /\ toServer[c] # <<>> /\ toServer'[c] = Tail(toServer[c])
      /\ \A d \in Client \ {c} : toServer'[d] = toServer[d]
      /\ n = nn + (IF "DESTROY_IC" \in Requests THEN 1 ELSE 0)
  BY <1>0, <1>1, ReceivesFacts
<1>3. m \in ToClient /\ m.op \in Answers /\ ~IsMask(m)
  BY ToClientFacts DEF IsMask
<1>4. s \in Seq(ToClient) /\ forwarding[c] \in BOOLEAN /\ toServer'[c] \in Seq(ToServer)
      /\ toServer[c] \in Seq(ToServer)
  BY <1>0, <1>2 DEF TypeOK
<1> HIDE DEF m
<1>5. /\ toClient' \in [Client -> Seq(ToClient)]
      /\ toClient'[c] = Append(s, m)
      /\ \A d \in Client \ {c} : toClient'[d] = toClient[d]
  <2>1. <<m>> \in Seq(ToClient) /\ s \o <<m>> = Append(s, m)
    BY <1>3, <1>4, ConcatAppend
  <2>2. QED BY <1>0, <1>1, <2>1, SendsFacts
<1>6. /\ n \in Nat /\ r \in Nat /\ nn \in Nat
      /\ n + r = (IF waiting[c] THEN 1 ELSE 0)
  BY <1>4, NumberIsCount DEF IInv, Answered
<1>7. Number(toClient'[c], Answers) = r + 1
  <2>1. Number(Append(s, m), Answers) = Number(s, Answers) + (IF m.op \in Answers THEN 1 ELSE 0)
    BY <1>3, <1>4, NumberAppend
  <2>2. QED BY <1>3, <1>5, <2>1
<1>8. MaskAfter(forwarding[c], toClient'[c]) <=> MaskAfter(forwarding[c], s)
  <2> HIDE DEF s
  <2>1. MaskAfter(forwarding[c], Append(s, m)) <=> MaskAfter(forwarding[c], s)
    BY <1>3, <1>4, MaskAppend
  <2>2. QED BY <1>5, <2>1
<1>9. TypeOK'
  BY <1>0, <1>1, <1>2, <1>5 DEF TypeOK, client, queue, converter
<1>10. n = nn + 1
  BY <1>2
<1> HIDE DEF n, r, nn
<1>11. Answered'
  <2>1. nn + (r + 1) = n + r
    BY <1>6, <1>10
  <2>2. UNCHANGED waiting
    BY <1>1 DEF client
  <2>3. Number(toServer'[c], Requests) + Number(toClient'[c], Answers)
            = IF waiting'[c] THEN 1 ELSE 0
    BY <1>6, <1>7, <2>1, <2>2 DEF nn
  <2>4. QED BY <1>2, <1>5, <2>2, <2>3, AnsweredStep DEF IInv
<1>12. TriggersFound'
  <2>1. nn = 0
    BY <1>6, <1>10
  <2>2. \A i \in DOMAIN toServer'[c] : toServer'[c][i].op \notin Requests
    BY <1>4, <2>1, NumberNone DEF nn
  <2>3. \A d \in Client \ {c} : FindIC(d)' <=> FindIC(d)
    BY <1>1 DEF FindIC
  <2>4. ASSUME NEW d \in Client, NEW i \in DOMAIN toServer'[d],
               toServer'[d][i].op = "TRIGGER_NOTIFY"
        PROVE  FindIC(d)'
    <3>1. d # c
      BY <2>2, <2>4
    <3>2. QED BY <1>2, <2>3, <2>4, <3>1 DEF IInv, TriggersFound
  <2>5. QED BY <2>4 DEF TriggersFound
<1>13. ASSUME NEW d \in Client PROVE WillForward(d)' <=> WillForward(d)
  <2>1. UNCHANGED forwarding
    BY <1>1 DEF client
  <2>2. /\ WillForward(d) <=> MaskAfter(forwarding[d], toClient[d])
        /\ WillForward(d)' <=> MaskAfter(forwarding[d], toClient'[d])
    BY <2>1 DEF WillForward, MaskAfter
  <2>3. CASE d = c
    BY <1>8, <2>2, <2>3 DEF s
  <2>4. CASE d # c
    BY <1>5, <2>2, <2>4
  <2>5. QED BY <2>3, <2>4
<1>14. UNCHANGED <<is_dead_key, icShow, window, raisedFor, pending, draining>>
  BY <1>1 DEF converter, queue
<1>15. DeadKeyIsConsumable' /\ WindowIsWanted' /\ DrainsAKey'
  BY <1>13, <1>14, Zenon DEF IInv, DeadKeyIsConsumable, WindowIsWanted, DrainsAKey
<1>16. QED BY <1>9, <1>11, <1>12, <1>13, <1>14, <1>15 DEF IInv

(* The other messages send nothing and leave the dead key alone.            *)
LEMMA TakesInv ==
    ASSUME IInv, NEW c \in Client,
           \/ AddQueue(c) \/ HandleSyncReply(c) \/ HandleSetFocus(c)
           \/ HandleUnsetFocus(c) \/ HandleDisconnect(c)
    PROVE  IInv'
<1>0. TypeOK
  BY DEF IInv
<1>1. PICK op \in {"FORWARD_EVENT", "SYNC_REPLY", "SET_IC_FOCUS", "UNSET_IC_FOCUS", "DISCONNECT"} :
         Receives(c, op)
  BY DEF AddQueue, HandleSyncReply, HandleSetFocus, HandleUnsetFocus, HandleDisconnect
<1>2. /\ UNCHANGED <<client, toClient, handled, contexts, is_dead_key, icShow, text, crashed>>
      /\ link' \in [Client -> {"down", "up", "leaving", "dead", "gone"}]
      /\ window' \in {"none", "hidden", "shown"} /\ raisedFor' \in Client \cup {NoClient}
      /\ WindowIsWanted'
  <2>1. CASE HandleSetFocus(c)
    BY <1>0, <2>1 DEF HandleSetFocus, IxmShow, TypeOK, IInv, WindowIsWanted, queue
  <2>2. CASE HandleDisconnect(c)
    BY <1>0, <2>2 DEF HandleDisconnect, TypeOK, IInv, WindowIsWanted, queue, converter
  <2>3. CASE AddQueue(c) \/ HandleSyncReply(c) \/ HandleUnsetFocus(c)
    BY <1>0, <2>3 DEF AddQueue, HandleSyncReply, HandleUnsetFocus, TypeOK, IInv,
                      WindowIsWanted, queue, converter
  <2>4. QED BY <2>1, <2>2, <2>3
<1>3. /\ toServer' \in [Client -> Seq(ToServer)]
      /\ Head(toServer[c]) \in ToServer /\ Head(toServer[c]).op = op
      /\ toServer[c] # <<>> /\ toServer'[c] = Tail(toServer[c])
      /\ \A d \in Client \ {c} : toServer'[d] = toServer[d]
      /\ Number(toServer[c], Requests)
             = Number(toServer'[c], Requests)
                   + (IF op \in Requests THEN 1 ELSE 0)
  BY <1>0, <1>1, ReceivesFacts
<1>4. Number(toServer'[c], Requests) = Number(toServer[c], Requests)
  <2>1. toServer'[c] \in Seq(ToServer)
    BY <1>3
  <2>2. Number(toServer'[c], Requests) \in Nat
    BY <2>1, NumberIsCount
  <2>3. QED BY <1>3, <2>2
<1>5. /\ pending' \in [Client -> Seq(Key)] /\ sync' \in [Client -> BOOLEAN]
      /\ draining' \in Client \cup {NoClient} /\ DrainsAKey'
  <2>1. CASE AddQueue(c)
    <3>1. /\ Receives(c, "FORWARD_EVENT") /\ UNCHANGED <<sync, draining>>
          /\ pending' = [pending EXCEPT ![c] = Append(pending[c], Head(toServer[c]))]
          /\ draining = NoClient
      BY <2>1 DEF AddQueue, Receives
    <3>2. Head(toServer[c]) \in Key
      BY <1>3, <3>1, ToServerFacts DEF Receives
    <3>3. pending \in [Client -> Seq(Key)] /\ Append(pending[c], Head(toServer[c])) \in Seq(Key)
      BY <1>0, <3>2 DEF TypeOK
    <3>4. pending' \in [Client -> Seq(Key)]
      BY <3>1, <3>3
    <3>5. QED BY <1>0, <3>1, <3>4 DEF TypeOK, DrainsAKey
  <2>2. CASE HandleSyncReply(c)
    <3>1. /\ sync' = [sync EXCEPT ![c] = FALSE] /\ UNCHANGED pending
          /\ draining' = Loop(c, FALSE, pending[c])
      BY <2>2 DEF HandleSyncReply
    <3>2. sync' \in [Client -> BOOLEAN] /\ pending' \in [Client -> Seq(Key)]
      BY <1>0, <3>1 DEF TypeOK
    <3>3. QED BY <3>1, <3>2, LoopFacts DEF DrainsAKey
  <2>3. CASE HandleSetFocus(c) \/ HandleUnsetFocus(c) \/ HandleDisconnect(c)
    <3>1. UNCHANGED queue
      BY <2>3 DEF HandleSetFocus, HandleUnsetFocus, HandleDisconnect
    <3>2. QED BY <1>0, <3>1 DEF queue, TypeOK, IInv, DrainsAKey
  <2>4. QED BY <2>1, <2>2, <2>3
<1>6. TypeOK'
  BY <1>0, <1>2, <1>3, <1>5 DEF TypeOK, client
<1>7. Answered'
  <2>1. UNCHANGED <<waiting, toClient>>
    BY <1>2 DEF client
  <2>2. Number(toServer'[c], Requests) + Number(toClient'[c], Answers)
            = IF waiting'[c] THEN 1 ELSE 0
    BY <1>4, <2>1 DEF IInv, Answered
  <2>3. QED BY <1>3, <2>1, <2>2, AnsweredStep DEF IInv
<1>8. \A d \in Client : WillForward(d)' <=> WillForward(d)
  BY <1>2 DEF WillForward, MaskAfter, client
<1>9. DeadKeyIsConsumable'
  BY <1>2, <1>8, Zenon DEF IInv, DeadKeyIsConsumable
<1>10. TriggersFound'
  <2>1. contexts \subseteq contexts'
    BY <1>2
  <2>2. QED BY <1>0, <1>3, <2>1, TriggersStep DEF IInv
<1>11. QED BY <1>2, <1>5, <1>6, <1>7, <1>9, <1>10 DEF IInv

(* A server that used a window it had not created takes no step more.       *)
LEMMA CrashInv ==
    ASSUME IInv, NEW c \in Client, Crash(c)
    PROVE  IInv' /\ UNCHANGED <<is_dead_key, icShow>>
           /\ \A d \in Client : WillForward(d)' <=> WillForward(d)
<1>1. /\ UNCHANGED <<link, client, toServer, toClient, queue, contexts,
                     is_dead_key, icShow, window, raisedFor, text>>
      /\ crashed' = TRUE
  BY DEF Crash
<1>2. TypeOK'
  BY <1>1 DEF IInv, TypeOK, client, queue
<1>3. Answered' /\ DrainsAKey' /\ WindowIsWanted' /\ TriggersFound'
  BY <1>1 DEF IInv, Answered, DrainsAKey, WindowIsWanted, TriggersFound, FindIC, client, queue
<1>4. \A d \in Client : WillForward(d)' <=> WillForward(d)
  BY <1>1 DEF WillForward, MaskAfter, client
<1>5. DeadKeyIsConsumable'
  BY <1>1, <1>4 DEF IInv, DeadKeyIsConsumable
<1>6. QED BY <1>1, <1>2, <1>3, <1>4, <1>5 DEF IInv

(* Nothing happens.                                                         *)
LEMMA StutterInv == IInv /\ UNCHANGED vars => IInv'
<1> SUFFICES ASSUME IInv, UNCHANGED vars PROVE IInv'
  OBVIOUS
<1>1. UNCHANGED <<link, client, toServer, toClient, queue, contexts, converter>>
  BY DEF vars
<1>2. TypeOK'
  BY <1>1 DEF IInv, TypeOK, client, queue, converter
<1>3. Answered' /\ DrainsAKey' /\ WindowIsWanted' /\ TriggersFound'
  BY <1>1 DEF IInv, Answered, DrainsAKey, WindowIsWanted, TriggersFound, FindIC, client, queue,
              converter
<1>4. \A d \in Client : WillForward(d)' <=> WillForward(d)
  BY <1>1 DEF WillForward, MaskAfter, client
<1>5. DeadKeyIsConsumable'
  BY <1>1, <1>4 DEF IInv, DeadKeyIsConsumable, converter
<1>6. QED BY <1>2, <1>3, <1>5 DEF IInv

-----------------------------------------------------------------------------
(* The theorems.                                                            *)

(* The invariant holds in every state the server and its clients reach.     *)
THEOREM Inductive == Spec => []IInv
<1>1. Init => IInv
  BY InitInv
<1>2. IInv /\ [Next]_vars => IInv'
  <2> SUFFICES ASSUME IInv, [Next]_vars PROVE IInv'
    OBVIOUS
  <2>1. ASSUME NEW c \in Client, ClientStep(c) PROVE IInv'
    BY <2>1, ClientInv
  <2>2. ASSUME NEW c \in Client, ServerStep(c) PROVE IInv'
    BY <2>2, HandlesInv, TriggerInv, DestroyInv, TakesInv, CrashInv DEF ServerStep
  <2>3. CASE UNCHANGED vars
    BY <2>3, StutterInv
  <2>4. QED BY <2>1, <2>2, <2>3 DEF Next
<1>3. QED BY <1>1, <1>2, PTL DEF Spec

(* Every variable keeps its type; the packet ProcessQueue handles is a key. *)
THEOREM TypeCorrect == Spec => []TypeOK
<1>1. IInv => TypeOK
  BY DEF IInv
<1>2. QED BY <1>1, Inductive, PTL

(* TriggerNotifyMessageProc (i18nPtHdr.c:1226-1318) and                     *)
(* DestroyICMessageProc (917-976) send their reply exactly once: a client   *)
(* waits for one answer at a time and never in vain.                        *)
THEOREM RequestsAnswered == Spec => []RequestIsAnswered
<1>1. IInv => RequestIsAnswered
  BY DEF IInv, Answered, RequestIsAnswered
<1>2. QED BY <1>1, Inductive, PTL

(* While a dead key is in progress some client forwards its keys, so that   *)
(* the branch that combines it can be reached (interxim.cpp:253-284).       *)
THEOREM DeadKeyConsumable == Spec => []DeadKeyIsConsumable
<1>1. IInv => DeadKeyIsConsumable
  BY DEF IInv
<1>2. QED BY <1>1, Inductive, PTL

(* The window is on the screen only while the context for which it was last *)
(* raised has IC_SHOW (interxim.cpp:367-371, 429-436), whoever else has     *)
(* closed it, changed the focus or destroyed a context meanwhile.           *)
THEOREM WindowWanted == Spec => []WindowIsWanted
<1>1. IInv => WindowIsWanted
  BY DEF IInv
<1>2. QED BY <1>1, Inductive, PTL

-----------------------------------------------------------------------------
(* With one client nobody else's trigger cancels the dead key and nobody    *)
(* else's key consumes it: the reason a client forwards its keys for is its *)
(* own.  (With two, a run of TLC shows the counterexample.)                 *)

OneClient == \A c, d \in Client : c = d

Reason == \A c \in Client : WillForward(c) => icShow[c] \/ is_dead_key

(* With one client, no step leaves it forwarding its keys for no reason.    *)
LEMMA ReasonInv ==
    ASSUME OneClient, IInv, Reason, [Next]_vars
    PROVE  Reason'
<1>1. ASSUME NEW c \in Client, ClientStep(c) PROVE Reason'
  <2>1. /\ UNCHANGED <<is_dead_key, icShow>>
        /\ \A d \in Client : WillForward(d)' <=> WillForward(d)
    <3>1. CASE NewClient(c) \/ Die(c)
      <4>1. UNCHANGED <<client, toClient, converter>>
        BY <3>1 DEF NewClient, Die
      <4>2. QED BY <4>1 DEF WillForward, MaskAfter, client, converter
    <3>2. CASE ~(NewClient(c) \/ Die(c))
      BY <1>1, <3>2, ClientSends, ClientReads DEF ClientStep, ClientEffect, IInv
    <3>3. QED BY <3>1, <3>2
  <2>2. QED BY <2>1, Zenon DEF Reason
<1>2. ASSUME NEW c \in Client, NEW e \in Key, Handle(c, e), UNCHANGED client PROVE Reason'
  <2>1. Handled(c)
    BY <1>2, HandleFacts DEF IInv
  <2>2. /\ WillForward(c) <=> MaskAfter(forwarding[c], toClient[c])
        /\ WillForward(c)' <=> MaskAfter(forwarding[c], toClient'[c])
    BY <1>2 DEF WillForward, MaskAfter, client
  <2>3. WillForward(c)' => WillForward(c) /\ UNCHANGED <<is_dead_key, icShow>>
    BY <2>1, <2>2 DEF Handled
  <2>4. WillForward(c)' => icShow'[c] \/ is_dead_key'
    BY <2>3 DEF Reason
  <2>5. \A d \in Client : d = c
    BY DEF OneClient
  <2>6. QED BY <2>4, <2>5, Zenon DEF Reason
<1>3. ASSUME NEW c \in Client, HandleForwardEvent(c) \/ ProcessQueue(c) PROVE Reason'
  <2>1. PICK e \in Key : Handle(c, e) /\ UNCHANGED client
    <3>1. CASE HandleForwardEvent(c)
      <4>1. /\ Receives(c, "FORWARD_EVENT") /\ Handle(c, Head(toServer[c])) /\ UNCHANGED client
        BY <3>1 DEF HandleForwardEvent
      <4>2. Head(toServer[c]) \in Key
        BY <4>1, ReceivesFacts, ToServerFacts DEF IInv
      <4>3. QED BY <4>1, <4>2
    <3>2. CASE ProcessQueue(c)
      <4>1. draining = c /\ Handle(c, Head(pending[c])) /\ UNCHANGED client
        BY <3>2 DEF ProcessQueue
      <4>2. pending[c] \in Seq(Key) /\ pending[c] # <<>>
        BY <4>1 DEF IInv, DrainsAKey, TypeOK
      <4>3. Head(pending[c]) \in Key
        BY <4>2
      <4>4. QED BY <4>1, <4>3
    <3>3. QED BY <1>3, <3>1, <3>2
  <2>2. QED BY <1>2, <2>1
<1>4. ASSUME NEW c \in Client, HandleTriggerNotify(c) PROVE Reason'
  <2>1. is_dead_key' = TRUE \/ icShow' = [icShow EXCEPT ![c] = icShow[c] \/ FindIC(c)]
    BY <1>4 DEF HandleTriggerNotify
  <2>2. FindIC(c)
    <3>1. toServer[c] \in Seq(ToServer) /\ toServer[c] # <<>>
          /\ Head(toServer[c]).op = "TRIGGER_NOTIFY"
      BY <1>4 DEF HandleTriggerNotify, Receives, IInv, TypeOK
    <3>2. 1 \in DOMAIN toServer[c] /\ toServer[c][1] = Head(toServer[c])
      BY <3>1
    <3>3. QED BY <3>1, <3>2 DEF IInv, TriggersFound
  <2>3. is_dead_key' \/ icShow'[c]
    BY <2>1, <2>2 DEF IInv, TypeOK
  <2>4. \A d \in Client : d = c
    BY DEF OneClient
  <2>5. QED BY <2>3, <2>4, Zenon DEF Reason
<1>5. ASSUME NEW c \in Client,
             \/ AddQueue(c) \/ HandleSyncReply(c) \/ HandleSetFocus(c)
             \/ HandleUnsetFocus(c) \/ HandleDisconnect(c) \/ Crash(c)
      PROVE  Reason'
  <2>1. UNCHANGED <<client, toClient, is_dead_key, icShow>>
    BY <1>5 DEF AddQueue, HandleSyncReply, HandleSetFocus, HandleUnsetFocus, HandleDisconnect,
                Crash, converter
  <2>2. \A d \in Client : WillForward(d)' <=> WillForward(d)
    BY <2>1 DEF WillForward, MaskAfter, client
  <2>3. QED BY <2>1, <2>2, Zenon DEF Reason
<1>6. ASSUME NEW c \in Client, HandleDestroyIC(c) PROVE Reason'
  <2>1. /\ UNCHANGED <<is_dead_key, icShow>>
        /\ \A d \in Client : WillForward(d)' <=> WillForward(d)
    BY <1>6, DestroyInv
  <2>2. QED BY <2>1, Zenon DEF Reason
<1>7. CASE UNCHANGED vars
  <2>1. UNCHANGED <<client, toClient, is_dead_key, icShow>>
    BY <1>7 DEF vars, converter
  <2>2. \A d \in Client : WillForward(d)' <=> WillForward(d)
    BY <2>1 DEF WillForward, MaskAfter, client
  <2>3. QED BY <2>1, <2>2, Zenon DEF Reason
<1>8. QED BY <1>1, <1>3, <1>4, <1>5, <1>6, <1>7 DEF Next, ServerStep

(* A client alone with the server forwards its keys only while its window   *)
(* or its dead key needs them (interxim.cpp:382).                           *)
THEOREM PreeditReason == ASSUME OneClient PROVE Spec => []PreeditHasReason
<1>1. Init => Reason
  <2> SUFFICES ASSUME Init, NEW c \in Client PROVE ~WillForward(c)
    BY DEF Reason
  <2>1. toClient[c] = <<>> /\ forwarding[c] = FALSE
    BY DEF Init
  <2>2. \A i \in DOMAIN toClient[c] : FALSE
    BY <2>1
  <2>3. QED BY <2>1, <2>2 DEF WillForward, MaskAfter
<1>2. IInv /\ Reason /\ [Next]_vars => Reason'
  BY ReasonInv
<1>3. Reason => PreeditHasReason
  BY DEF Reason, PreeditHasReason
<1>4. QED BY <1>1, <1>2, <1>3, Inductive, PTL DEF Spec

-----------------------------------------------------------------------------
(* The refinement of SyncQueue: what its variables are seen as.             *)

InQueue == {m \in ToServer : m.op \in {"FORWARD_EVENT", "SYNC_REPLY", "DISCONNECT"}}
InKeys == {m \in ToClient : m.op \in {"FORWARD_EVENT", "COMMIT"}}
bare == [m \in ToServer |-> Bare(m)]
number == [e \in Key |-> e.key]

(* The mapping in the terms of the lemmas on sequences.                     *)
LEMMA MappingIs ==
    /\ \A s \in Seq(ToServer) : Queued(s) = Mapped(Selected(s, InQueue), bare)
    /\ \A s \in Seq(ToClient) : Keyed(s) = Selected(s, InKeys)
    /\ \A q \in Seq(Key) : Numbered(q) = Mapped(q, number)
<1>1. ASSUME NEW s \in Seq(ToServer) PROVE Queued(s) = Mapped(Selected(s, InQueue), bare)
  <2> DEFINE ms == KeyMessages(s, {"FORWARD_EVENT", "SYNC_REPLY", "DISCONNECT"})
  <2>1. {i \in DOMAIN s : s[i].op \in {"FORWARD_EVENT", "SYNC_REPLY", "DISCONNECT"}}
            = At(s, InQueue)
    <3>1. \A i \in DOMAIN s : s[i] \in ToServer
      OBVIOUS
    <3>2. QED BY <3>1 DEF At, InQueue
  <2>2. ms = Selected(s, InQueue)
    BY <2>1, Zenon DEF KeyMessages, Selected
  <2> HIDE DEF ms
  <2>3. ms \in Seq(ToServer)
    BY <2>2, SelectedIs
  <2>4. \A i \in DOMAIN ms : bare[ms[i]] = Bare(ms[i])
    BY <2>3 DEF bare
  <2>5. Mapped(ms, bare) = [i \in DOMAIN ms |-> Bare(ms[i])]
    BY <2>4 DEF Mapped
  <2>6. Queued(s) = [i \in DOMAIN ms |-> Bare(ms[i])]
    BY DEF Queued, ms
  <2>7. QED BY <2>2, <2>5, <2>6
<1>2. ASSUME NEW s \in Seq(ToClient) PROVE Keyed(s) = Selected(s, InKeys)
  <2>1. {i \in DOMAIN s : s[i].op \in {"FORWARD_EVENT", "COMMIT"}} = At(s, InKeys)
    <3>1. \A i \in DOMAIN s : s[i] \in ToClient
      OBVIOUS
    <3>2. QED BY <3>1 DEF At, InKeys
  <2>2. QED BY <2>1, Zenon DEF Keyed, KeyMessages, Selected
<1>3. ASSUME NEW q \in Seq(Key) PROVE Numbered(q) = Mapped(q, number)
  <2>1. \A i \in DOMAIN q : number[q[i]] = q[i].key
    BY DEF number
  <2>2. QED BY <2>1 DEF Mapped, Numbered
<1>4. QED BY <1>1, <1>2, <1>3

(* A message sent to the server, and one taken there.                       *)
LEMMA QueuedFacts ==
    ASSUME NEW s \in Seq(ToServer)
    PROVE  /\ \A m \in ToServer :
                 /\ m \in InQueue => Queued(Append(s, m)) = Append(Queued(s), Bare(m))
                 /\ m \notin InQueue => Queued(Append(s, m)) = Queued(s)
           /\ s # <<>> /\ Head(s) \in InQueue =>
                 /\ Queued(s) # <<>> /\ Head(Queued(s)) = Bare(Head(s))
                 /\ Queued(Tail(s)) = Tail(Queued(s))
           /\ s # <<>> /\ Head(s) \notin InQueue => Queued(Tail(s)) = Queued(s)
           /\ s = <<>> => Queued(s) = <<>>
<1> DEFINE T == {Bare(m) : m \in ToServer}
           u == Selected(s, InQueue)
<1>1. bare \in [ToServer -> T] /\ \A m \in ToServer : bare[m] = Bare(m)
  BY DEF bare
<1> HIDE DEF T
<1>2. u \in Seq(ToServer) /\ Queued(s) = Mapped(u, bare)
  BY SelectedIs, MappingIs
<1> HIDE DEF u
<1>3. /\ \A m \in ToServer : Mapped(Append(u, m), bare) = Append(Mapped(u, bare), bare[m])
      /\ u # <<>> => /\ Mapped(u, bare) # <<>>
                     /\ Head(Mapped(u, bare)) = bare[Head(u)]
                     /\ Mapped(Tail(u), bare) = Tail(Mapped(u, bare))
      /\ u = <<>> => Mapped(u, bare) = <<>>
  <2>1. u \in Seq(ToServer) /\ bare \in [ToServer -> T]
    BY <1>1, <1>2
  <2>2. MapsEnds(u, bare, ToServer)
    BY <2>1, MappedFacts
  <2>3. QED BY <2>2, Zenon DEF MapsEnds
<1>4. ASSUME NEW m \in ToServer
      PROVE  /\ m \in InQueue => Queued(Append(s, m)) = Append(Queued(s), Bare(m))
             /\ m \notin InQueue => Queued(Append(s, m)) = Queued(s)
  <2>1. Append(s, m) \in Seq(ToServer)
    OBVIOUS
  <2>2. Queued(Append(s, m)) = Mapped(Selected(Append(s, m), InQueue), bare)
    BY <2>1, MappingIs
  <2>3. Selected(Append(s, m), InQueue) = IF m \in InQueue THEN Append(u, m) ELSE u
    BY SelectedAppend DEF u
  <2>4. Mapped(Append(u, m), bare) = Append(Mapped(u, bare), Bare(m))
    BY <1>1, <1>3
  <2>5. QED BY <1>2, <2>2, <2>3, <2>4, Zenon
<1>5. ASSUME s # <<>>, Head(s) \in InQueue
      PROVE  /\ Queued(s) # <<>> /\ Head(Queued(s)) = Bare(Head(s))
             /\ Queued(Tail(s)) = Tail(Queued(s))
  <2>1. Tail(s) \in Seq(ToServer) /\ Head(s) \in ToServer
    BY <1>5
  <2>2. u # <<>> /\ Head(u) = Head(s) /\ Tail(u) = Selected(Tail(s), InQueue)
    BY <1>5, SelectedTail DEF u
  <2>3. Queued(Tail(s)) = Mapped(Tail(u), bare)
    BY <2>1, <2>2, MappingIs
  <2>4. bare[Head(s)] = Bare(Head(s))
    BY <1>1, <2>1
  <2>5. QED BY <1>2, <1>3, <2>2, <2>3, <2>4, Zenon
<1>6. ASSUME s # <<>>, Head(s) \notin InQueue PROVE Queued(Tail(s)) = Queued(s)
  <2>1. Tail(s) \in Seq(ToServer)
    BY <1>6
  <2>2. u = Selected(Tail(s), InQueue)
    BY <1>6, SelectedTail DEF u
  <2>3. QED BY <1>2, <2>1, <2>2, MappingIs
<1>7. ASSUME s = <<>> PROVE Queued(s) = <<>>
  <2>1. u = <<>>
    BY <1>7, SelectedEmpty DEF u
  <2>2. QED BY <1>2, <1>3, <2>1
<1>8. QED BY <1>4, <1>5, <1>6, <1>7

(* Messages sent to the client, and one read there.                         *)
LEMMA KeyedFacts ==
    ASSUME NEW s \in Seq(ToClient)
    PROVE  /\ \A t \in Seq(ToClient) :
                 (\A i \in DOMAIN t : t[i] \in InKeys) => Keyed(s \o t) = Keyed(s) \o t
           /\ \A m \in ToClient :
                 /\ m \in InKeys => Keyed(Append(s, m)) = Append(Keyed(s), m)
                 /\ m \notin InKeys => Keyed(Append(s, m)) = Keyed(s)
           /\ s # <<>> /\ Head(s) \in InKeys =>
                 Keyed(s) # <<>> /\ Keyed(Tail(s)) = Tail(Keyed(s))
           /\ s # <<>> /\ Head(s) \notin InKeys => Keyed(Tail(s)) = Keyed(s)
           /\ s = <<>> => Keyed(s) = <<>>
           /\ Keyed(s) \o <<>> = Keyed(s)
<1>1. Keyed(s) = Selected(s, InKeys) /\ Selected(s, InKeys) \in Seq(ToClient)
  BY SelectedIs, MappingIs
<1>2. ASSUME NEW t \in Seq(ToClient), \A i \in DOMAIN t : t[i] \in InKeys
      PROVE  Keyed(s \o t) = Keyed(s) \o t
  <2>1. s \o t \in Seq(ToClient)
    OBVIOUS
  <2>2. Keyed(s \o t) = Selected(s \o t, InKeys)
    BY <2>1, MappingIs
  <2>3. Selected(s \o t, InKeys) = Selected(s, InKeys) \o t
    BY <1>2, SelectedConcat
  <2>4. QED BY <1>1, <2>2, <2>3, Zenon
<1>3. ASSUME NEW m \in ToClient
      PROVE  /\ m \in InKeys => Keyed(Append(s, m)) = Append(Keyed(s), m)
             /\ m \notin InKeys => Keyed(Append(s, m)) = Keyed(s)
  <2>1. Append(s, m) \in Seq(ToClient)
    OBVIOUS
  <2>2. Keyed(Append(s, m)) = Selected(Append(s, m), InKeys)
    BY <2>1, MappingIs
  <2>3. Selected(Append(s, m), InKeys)
            = IF m \in InKeys THEN Append(Selected(s, InKeys), m) ELSE Selected(s, InKeys)
    BY SelectedAppend
  <2>4. QED BY <1>1, <2>2, <2>3, Zenon
<1>4. ASSUME s # <<>>
      PROVE  /\ Head(s) \in InKeys => Keyed(s) # <<>> /\ Keyed(Tail(s)) = Tail(Keyed(s))
             /\ Head(s) \notin InKeys => Keyed(Tail(s)) = Keyed(s)
  <2>1. Tail(s) \in Seq(ToClient)
    BY <1>4
  <2>2. Keyed(Tail(s)) = Selected(Tail(s), InKeys)
    BY <2>1, MappingIs
  <2>3. QED BY <1>1, <1>4, <2>2, SelectedTail, Zenon
<1>5. s = <<>> => Keyed(s) = <<>>
  BY <1>1, SelectedEmpty
<1>6. Keyed(s) \o <<>> = Keyed(s)
  BY <1>1
<1>7. QED BY <1>2, <1>3, <1>4, <1>5, <1>6

(* A packet put into the queue, and one taken out.                          *)
LEMMA NumberedFacts ==
    ASSUME NEW q \in Seq(Key)
    PROVE  /\ \A e \in Key : Numbered(Append(q, e)) = Append(Numbered(q), e.key)
           /\ q # <<>> => /\ Numbered(q) # <<>> /\ Head(Numbered(q)) = Head(q).key
                          /\ Numbered(Tail(q)) = Tail(Numbered(q))
           /\ q = <<>> => Numbered(q) = <<>>
<1>1. number \in [Key -> Keys] /\ \A e \in Key : number[e] = e.key
  BY DEF number, Key
<1>2. Numbered(q) = Mapped(q, number)
  BY MappingIs
<1>3. /\ \A e \in Key : Mapped(Append(q, e), number) = Append(Mapped(q, number), number[e])
      /\ q # <<>> => /\ Mapped(q, number) # <<>>
                     /\ Head(Mapped(q, number)) = number[Head(q)]
                     /\ Mapped(Tail(q), number) = Tail(Mapped(q, number))
      /\ q = <<>> => Mapped(q, number) = <<>>
  <2>1. MapsEnds(q, number, Key)
    BY <1>1, MappedFacts
  <2>2. QED BY <2>1, Zenon DEF MapsEnds
<1>4. ASSUME NEW e \in Key PROVE Numbered(Append(q, e)) = Append(Numbered(q), e.key)
  <2>1. Append(q, e) \in Seq(Key)
    OBVIOUS
  <2>2. Numbered(Append(q, e)) = Mapped(Append(q, e), number)
    BY <2>1, MappingIs
  <2>3. QED BY <1>1, <1>2, <1>3, <2>2
<1>5. ASSUME q # <<>>
      PROVE  /\ Numbered(q) # <<>> /\ Head(Numbered(q)) = Head(q).key
             /\ Numbered(Tail(q)) = Tail(Numbered(q))
  <2>1. Tail(q) \in Seq(Key) /\ Head(q) \in Key
    BY <1>5
  <2>2. Numbered(Tail(q)) = Mapped(Tail(q), number)
    BY <2>1, MappingIs
  <2>3. number[Head(q)] = Head(q).key
    BY <1>1, <2>1
  <2>4. QED BY <1>2, <1>3, <1>5, <2>2, <2>3, Zenon
<1>6. QED BY <1>2, <1>3, <1>4, <1>5

-----------------------------------------------------------------------------
(* What a step does to one client is all SyncQueue sees of it.              *)

Kept(d) == /\ link'[d] = link[d] /\ sync'[d] = sync[d] /\ pending'[d] = pending[d]
           /\ toServer'[d] = toServer[d] /\ toClient'[d] = toClient[d]
           /\ owed'[d] = owed[d] /\ sent'[d] = sent[d] /\ handled'[d] = handled[d]

(* A step of one client, or of the server for one client, leaves the        *)
(* others alone.                                                            *)
LEMMA OthersKept ==
    ASSUME IInv, NEW c \in Client, ClientStep(c) \/ ServerStep(c)
    PROVE  \A d \in Client \ {c} : Kept(d)
<1> SUFFICES ASSUME NEW d \in Client \ {c} PROVE Kept(d)
  OBVIOUS
<1> USE DEF Kept
<1>1. TypeOK /\ d # c /\ d \in Client
  BY DEF IInv
<1>2. CASE NewClient(c) \/ Die(c)
  BY <1>1, <1>2 DEF NewClient, Die, TypeOK, client, queue
<1>3. CASE Press(c)
  BY <1>1, <1>3 DEF Press, Send, TypeOK, queue
<1>4. CASE Trigger(c) \/ Focus(c) \/ Destroy(c)
  BY <1>1, <1>4 DEF Trigger, Focus, Destroy, Send, TypeOK, queue
<1>5. CASE Read(c)
  BY <1>1, <1>5 DEF Read, TypeOK, queue
<1>6. CASE Reply(c)
  BY <1>1, <1>6 DEF Reply, Send, TypeOK, queue
<1>7. CASE Leave(c)
  BY <1>1, <1>7 DEF Leave, Send, TypeOK, client, queue
<1>8. ASSUME NEW e, Handle(c, e)
      PROVE  toClient'[d] = toClient[d] /\ sync'[d] = sync[d] /\ handled'[d] = handled[d]
  <2>1. handled'[d] = handled[d]
    BY <1>1, <1>8 DEF Handle, TypeOK
  <2>2. CASE CommitDeadKey(c, e)
    BY <1>1, <2>1, <2>2 DEF CommitDeadKey, Sends, TypeOK
  <2>3. CASE FlushText(c, e)
    BY <1>1, <2>1, <2>3 DEF FlushText, Sends, TypeOK
  <2>4. CASE HandBack(c, e)
    BY <1>1, <2>1, <2>4 DEF HandBack, Sends, TypeOK
  <2>5. CASE EditText(c, e) \/ Ignore(c, e)
    BY <1>1, <2>1, <2>5 DEF EditText, Ignore
  <2>6. QED BY <1>8, <2>2, <2>3, <2>4, <2>5 DEF Handle
<1>9. CASE HandleForwardEvent(c)
  BY <1>1, <1>8, <1>9 DEF HandleForwardEvent, Receives, TypeOK, client
<1>10. CASE ProcessQueue(c)
  BY <1>1, <1>8, <1>10 DEF ProcessQueue, TypeOK, client
<1>11. CASE AddQueue(c) \/ HandleSyncReply(c)
  BY <1>1, <1>11 DEF AddQueue, HandleSyncReply, Receives, TypeOK, client
<1>12. CASE HandleTriggerNotify(c) \/ HandleDestroyIC(c)
  BY <1>1, <1>12 DEF HandleTriggerNotify, HandleDestroyIC, Receives, Sends, TypeOK, client, queue
<1>13. CASE HandleSetFocus(c) \/ HandleUnsetFocus(c) \/ HandleDisconnect(c)
  BY <1>1, <1>13 DEF HandleSetFocus, HandleUnsetFocus, HandleDisconnect, Receives, TypeOK,
                     client, queue
<1>14. CASE Crash(c)
  BY <1>14 DEF Crash, client, queue
<1>15. QED BY <1>2, <1>3, <1>4, <1>5, <1>6, <1>7, <1>9, <1>10, <1>11, <1>12, <1>13, <1>14
           DEF ClientStep, ServerStep

(* The variables of SyncQueue change for that client only.                  *)
Moved(c) ==
    /\ QueueLink' = [QueueLink EXCEPT ![c] = QueueLink'[c]]
    /\ QueuePending' = [QueuePending EXCEPT ![c] = Numbered(pending'[c])]
    /\ QueueToServer' = [QueueToServer EXCEPT ![c] = Queued(toServer'[c])]
    /\ QueueToClient' = [QueueToClient EXCEPT ![c] = Keyed(toClient'[c])]
    /\ QueueLink'[c] = IF link'[c] = "gone" THEN "down" ELSE link'[c]
    /\ QueueLink[c] = IF link[c] = "gone" THEN "down" ELSE link[c]
    /\ QueuePending[c] = Numbered(pending[c])
    /\ QueueToServer[c] = Queued(toServer[c])
    /\ QueueToClient[c] = Keyed(toClient[c])
    /\ sync' = [sync EXCEPT ![c] = sync'[c]]
    /\ owed' = [owed EXCEPT ![c] = owed'[c]]
    /\ sent' = [sent EXCEPT ![c] = sent'[c]]
    /\ handled' = [handled EXCEPT ![c] = handled'[c]]
    /\ [QueueLink EXCEPT ![c] = QueueLink[c]] = QueueLink
    /\ [QueuePending EXCEPT ![c] = QueuePending[c]] = QueuePending
    /\ [QueueToServer EXCEPT ![c] = QueueToServer[c]] = QueueToServer
    /\ [QueueToClient EXCEPT ![c] = QueueToClient[c]] = QueueToClient

(* What is not the client's own stays as it was.                            *)
LEMMA MapOthers ==
    ASSUME TypeOK, TypeOK', NEW c \in Client, \A d \in Client \ {c} : Kept(d)
    PROVE  Moved(c)
<1>1. QueueLink' = [QueueLink EXCEPT ![c] = QueueLink'[c]]
  BY DEF QueueLink, Kept
<1>2. QueuePending' = [QueuePending EXCEPT ![c] = Numbered(pending'[c])]
  BY DEF QueuePending, Kept
<1>3. QueueToServer' = [QueueToServer EXCEPT ![c] = Queued(toServer'[c])]
  BY DEF QueueToServer, Kept
<1>4. QueueToClient' = [QueueToClient EXCEPT ![c] = Keyed(toClient'[c])]
  BY DEF QueueToClient, Kept
<1>5. /\ QueueLink'[c] = IF link'[c] = "gone" THEN "down" ELSE link'[c]
      /\ QueueLink[c] = IF link[c] = "gone" THEN "down" ELSE link[c]
      /\ QueuePending[c] = Numbered(pending[c])
      /\ QueueToServer[c] = Queued(toServer[c])
      /\ QueueToClient[c] = Keyed(toClient[c])
  BY DEF QueueLink, QueuePending, QueueToServer, QueueToClient
<1>6. sync' = [sync EXCEPT ![c] = sync'[c]] /\ owed' = [owed EXCEPT ![c] = owed'[c]]
  <2>1. /\ sync \in [Client -> BOOLEAN] /\ sync' \in [Client -> BOOLEAN]
        /\ owed \in [Client -> Nat] /\ owed' \in [Client -> Nat]
    BY DEF TypeOK
  <2>2. QED BY <2>1 DEF Kept
<1>7. sent' = [sent EXCEPT ![c] = sent'[c]] /\ handled' = [handled EXCEPT ![c] = handled'[c]]
  <2>1. /\ sent \in [Client -> 0 .. MaxKey] /\ sent' \in [Client -> 0 .. MaxKey]
        /\ handled \in [Client -> 0 .. MaxKey] /\ handled' \in [Client -> 0 .. MaxKey]
    BY DEF TypeOK
  <2>2. QED BY <2>1 DEF Kept
<1>8. /\ [QueueLink EXCEPT ![c] = QueueLink[c]] = QueueLink
      /\ [QueuePending EXCEPT ![c] = QueuePending[c]] = QueuePending
      /\ [QueueToServer EXCEPT ![c] = QueueToServer[c]] = QueueToServer
      /\ [QueueToClient EXCEPT ![c] = QueueToClient[c]] = QueueToClient
  BY DEF QueueLink, QueuePending, QueueToServer, QueueToClient
<1>9. QED BY <1>1, <1>2, <1>3, <1>4, <1>5, <1>6, <1>7, <1>8 DEF Moved

(* Before its first connection a client has nothing on its way, nothing in  *)
(* the queue and nothing counted: NewClient finds what SyncQueue clears.    *)
Fresh == \A c \in Client : link[c] = "down" =>
    /\ toServer[c] = <<>> /\ toClient[c] = <<>> /\ pending[c] = <<>> /\ sync[c] = FALSE
    /\ owed[c] = 0 /\ sent[c] = 0 /\ handled[c] = 0

(* No step leads back to link "down", and none touches a client that has    *)
(* not connected.                                                           *)
LEMMA FreshInv ==
    ASSUME IInv, Fresh, [Next]_vars
    PROVE  Fresh'
<1>1. ASSUME NEW c \in Client, ClientStep(c) \/ ServerStep(c), ~Crash(c)
      PROVE  Fresh'
  <2>1. \A d \in Client \ {c} : Kept(d)
    BY <1>1, OthersKept
  <2>2. link \in [Client -> {"down", "up", "leaving", "dead", "gone"}]
    BY DEF IInv, TypeOK
  <2>3. link'[c] # "down"
    <3>1. CASE ClientStep(c)
      <4>1. CASE NewClient(c)
        BY <2>2, <4>1 DEF NewClient
      <4>2. CASE Press(c) \/ Trigger(c) \/ Focus(c) \/ Destroy(c) \/ Read(c) \/ Reply(c)
        BY <4>2 DEF Press, Trigger, Focus, Destroy, Read, Reply, Free
      <4>3. CASE Leave(c) \/ Die(c)
        BY <2>2, <4>3 DEF Leave, Die
      <4>4. QED BY <3>1, <4>1, <4>2, <4>3 DEF ClientStep
    <3>2. CASE ServerStep(c)
      <4>1. CASE ProcessQueue(c)
        <5>1. draining = c /\ link' = link
          BY <4>1 DEF ProcessQueue
        <5>2. pending[c] # <<>>
          BY <5>1 DEF IInv, DrainsAKey
        <5>3. QED BY <5>1, <5>2 DEF Fresh
      <4>2. CASE ~ProcessQueue(c)
        <5>1. toServer[c] # <<>>
          BY <1>1, <3>2, <4>2 DEF ServerStep, AddQueue, HandleForwardEvent, HandleSyncReply,
             HandleTriggerNotify, HandleSetFocus, HandleUnsetFocus, HandleDestroyIC,
             HandleDisconnect, Receives
        <5>2. link[c] # "down"
          BY <5>1 DEF Fresh
        <5>3. link' = link \/ link' = [link EXCEPT ![c] = "gone"]
          BY <1>1, <3>2, <4>2 DEF ServerStep, AddQueue, HandleForwardEvent, HandleSyncReply,
             HandleTriggerNotify, HandleSetFocus, HandleUnsetFocus, HandleDestroyIC,
             HandleDisconnect
        <5>4. QED BY <2>2, <5>2, <5>3
      <4>3. QED BY <4>1, <4>2
    <3>3. QED BY <1>1, <3>1, <3>2
  <2>4. QED BY <2>1, <2>3 DEF Fresh, Kept
<1>2. CASE UNCHANGED <<link, client, toServer, toClient, queue>>
  BY <1>2 DEF Fresh, client, queue
<1>3. ASSUME NEW c \in Client, Crash(c) PROVE Fresh'
  BY <1>2, <1>3 DEF Crash
<1>4. CASE UNCHANGED vars
  BY <1>2, <1>4 DEF vars
<1>5. QED BY <1>1, <1>3, <1>4 DEF Next

-----------------------------------------------------------------------------
(* The same steps as SyncQueue sees them. *)

(* A message to the server.                                                 *)
LEMMA SendMaps ==
    ASSUME TypeOK, NEW c \in Client, NEW m \in ToServer, Send(c, m)
    PROVE  /\ m \in InQueue => Queued(toServer'[c]) = Append(Queued(toServer[c]), Bare(m))
           /\ m \notin InQueue => Queued(toServer'[c]) = Queued(toServer[c])
<1>1. toServer \in [Client -> Seq(ToServer)] /\ toServer[c] \in Seq(ToServer)
  BY DEF TypeOK
<1>2. toServer' = [toServer EXCEPT ![c] = Append(toServer[c], m)]
  BY DEF Send
<1>3. toServer'[c] = Append(toServer[c], m)
  BY <1>1, <1>2
<1>4. QED BY <1>1, <1>3, QueuedFacts

(* A message the server takes, with the queue or past it.                   *)
LEMMA ReceiveMaps ==
    ASSUME TypeOK, NEW c \in Client, NEW op, Receives(c, op)
    PROVE  /\ draining = NoClient
           /\ op = "FORWARD_EVENT" => Head(toServer[c]) \in Key
           /\ op \in {"FORWARD_EVENT", "SYNC_REPLY", "DISCONNECT"} =>
                 /\ Queued(toServer[c]) # <<>>
                 /\ Head(Queued(toServer[c])).op = op
                 /\ op = "FORWARD_EVENT" =>
                       Head(Queued(toServer[c])).key = Head(toServer[c]).key
                 /\ Queued(toServer'[c]) = Tail(Queued(toServer[c]))
           /\ op \notin {"FORWARD_EVENT", "SYNC_REPLY", "DISCONNECT"} =>
                 Queued(toServer'[c]) = Queued(toServer[c])
<1> DEFINE s == toServer[c]
           m == Head(s)
<1>1. /\ toServer \in [Client -> Seq(ToServer)] /\ s \in Seq(ToServer) /\ s # <<>>
      /\ draining = NoClient /\ m.op = op
      /\ toServer' = [toServer EXCEPT ![c] = Tail(s)]
  BY DEF TypeOK, Receives
<1>2. toServer'[c] = Tail(s)
  BY <1>1
<1> HIDE DEF s
<1>3. m \in ToServer
  BY <1>1
<1>4. /\ m \in InQueue => /\ Queued(s) # <<>> /\ Head(Queued(s)) = Bare(m)
                          /\ Queued(Tail(s)) = Tail(Queued(s))
      /\ m \notin InQueue => Queued(Tail(s)) = Queued(s)
  BY <1>1, QueuedFacts
<1> HIDE DEF m
<1>5. m \in InQueue <=> op \in {"FORWARD_EVENT", "SYNC_REPLY", "DISCONNECT"}
  BY <1>1, <1>3 DEF InQueue
<1>6. Bare(m).op = op /\ (op = "FORWARD_EVENT" => Bare(m).key = m.key)
  BY <1>1 DEF Bare, About
<1>7. op = "FORWARD_EVENT" => m \in Key
  BY <1>1, <1>3, ToServerFacts
<1>8. QED BY <1>1, <1>2, <1>4, <1>5, <1>6, <1>7 DEF s, m

(* Any path of IxmForwardEventHandler commits at most the text, or a dead   *)
(* key, or hands the key back: no more than SyncQueue lets a handler do.    *)
LEMMA HandleMaps ==
    ASSUME TypeOK, NEW c \in Client, NEW e \in Key, Handle(c, e)
    PROVE  /\ handled'[c] = e.key
           /\ \/ \E n \in 0 .. MaxText + 1 :
                    /\ Keyed(toClient'[c]) = Keyed(toClient[c]) \o Queue!Commits(e.key, n)
                    /\ sync' = sync
              \/ /\ Keyed(toClient'[c]) = Append(Keyed(toClient[c]), Queue!ForwardEvent(e.key))
                 /\ sync' = [sync EXCEPT ![c] = TRUE]
<1> DEFINE s == toClient[c]
           k == e.key
           commit == About("COMMIT", k)
<1>1. /\ k \in Keys /\ toClient \in [Client -> Seq(ToClient)] /\ s \in Seq(ToClient)
      /\ text \in 0 .. MaxText
  BY DEF Key, TypeOK
<1>2. handled'[c] = k
  BY DEF Handle, TypeOK
<1>3. /\ commit \in ToClient /\ commit \in InKeys
      /\ About("FORWARD_EVENT", k) \in ToClient /\ About("FORWARD_EVENT", k) \in InKeys
      /\ EventMask(FALSE) \in ToClient /\ EventMask(FALSE) \notin InKeys
  BY <1>1, ToClientFacts DEF InKeys
<1>4. ASSUME NEW msgs \in Seq(ToClient), Sends(c, msgs) PROVE toClient'[c] = s \o msgs
  BY <1>4, SendsFacts
<1>5. ASSUME NEW n \in Nat
      PROVE  /\ Commits(k, n) \in Seq(ToClient) /\ Commits(k, n) = Queue!Commits(k, n)
             /\ \A i \in DOMAIN Commits(k, n) : Commits(k, n)[i] \in InKeys
  <2>1. /\ Commits(k, n) \in Seq(ToClient)
        /\ \A i \in DOMAIN Commits(k, n) : Commits(k, n)[i].op = "COMMIT"
    BY <1>1, CommitsFacts
  <2>2. Commits(k, n) = Queue!Commits(k, n)
    BY DEF Commits, About, Queue!Commits, Queue!Commit
  <2> DEFINE w == Commits(k, n)
  <2> HIDE DEF w
  <2>3. \A i \in DOMAIN w : w[i] \in InKeys
    <3>1. w \in Seq(ToClient) /\ \A i \in DOMAIN w : w[i].op = "COMMIT"
      BY <2>1 DEF w
    <3>2. QED BY <3>1 DEF InKeys
  <2>4. QED BY <2>1, <2>2, <2>3 DEF w
<1> HIDE DEF s, k, commit
<1>6. ASSUME NEW n \in Nat, NEW t \in Seq(ToClient), t = Commits(k, n),
             Sends(c, t) \/ Sends(c, Append(t, EventMask(FALSE)))
      PROVE  Keyed(toClient'[c]) = Keyed(s) \o Queue!Commits(k, n)
  <2>1. Keyed(s \o t) = Keyed(s) \o t /\ t = Queue!Commits(k, n)
    <3>1. t = Queue!Commits(k, n) /\ \A i \in DOMAIN t : t[i] \in InKeys
      BY <1>5, <1>6
    <3>2. QED BY <1>1, <3>1, KeyedFacts
  <2>2. CASE Sends(c, t)
    BY <1>4, <2>1, <2>2
  <2>3. CASE Sends(c, Append(t, EventMask(FALSE)))
    <3> DEFINE m == EventMask(FALSE)
    <3>1. m \in ToClient /\ m \notin InKeys
      BY <1>3
    <3> HIDE DEF m
    <3>2. Append(t, m) \in Seq(ToClient) /\ s \o t \in Seq(ToClient)
      BY <1>1, <3>1
    <3>3. toClient'[c] = s \o Append(t, m)
      BY <1>4, <2>3, <3>2 DEF m
    <3>4. s \o Append(t, m) = Append(s \o t, m)
      BY <1>1, <3>1, ConcatAppend
    <3>5. Keyed(Append(s \o t, m)) = Keyed(s \o t)
      BY <3>1, <3>2, KeyedFacts
    <3>6. QED BY <2>1, <3>3, <3>4, <3>5
  <2>4. QED BY <1>6, <2>2, <2>3
<1>7. CASE CommitDeadKey(c, e)
  <2>1. <<commit>> = Commits(k, 1) /\ <<commit>> \in Seq(ToClient)
        /\ <<commit, EventMask(FALSE)>> = Append(<<commit>>, EventMask(FALSE))
    <3>1. <<commit>> = Commits(k, 1)
      BY DEF Commits, commit
    <3>2. QED BY <1>3, <3>1, Single
  <2>2. Sends(c, Append(<<commit>>, EventMask(FALSE))) /\ sync' = sync
    BY <1>7, <2>1 DEF CommitDeadKey, commit, k
  <2>3. 1 \in Nat /\ 1 \in 0 .. MaxText + 1
    OBVIOUS
  <2>4. Keyed(toClient'[c]) = Keyed(s) \o Queue!Commits(k, 1)
    BY <1>6, <2>1, <2>2, <2>3
  <2>5. QED BY <1>2, <2>2, <2>3, <2>4 DEF s, k
<1>8. CASE FlushText(c, e)
  <2>1. /\ Sends(c, Commits(k, text)) \/ Sends(c, Append(Commits(k, text), EventMask(FALSE)))
        /\ sync' = sync
    BY <1>8 DEF FlushText, k
  <2>2. text \in Nat /\ text \in 0 .. MaxText + 1
    BY <1>1
  <2>3. Commits(k, text) \in Seq(ToClient)
    BY <1>5, <2>2 DEF k
  <2>4. Keyed(toClient'[c]) = Keyed(s) \o Queue!Commits(k, text)
    BY <1>6, <2>1, <2>2, <2>3
  <2>5. QED BY <1>2, <2>1, <2>2, <2>4 DEF s, k
<1>9. CASE HandBack(c, e)
  <2> DEFINE m == About("FORWARD_EVENT", k)
  <2>1. m \in ToClient /\ m \in InKeys
    BY <1>3
  <2>2. Sends(c, <<m>>) /\ sync' = [sync EXCEPT ![c] = TRUE]
    BY <1>9 DEF HandBack, k
  <2>3. m = Queue!ForwardEvent(k)
    BY DEF About, Queue!ForwardEvent
  <2> HIDE DEF m
  <2>4. <<m>> \in Seq(ToClient) /\ s \o <<m>> = Append(s, m)
    BY <1>1, <2>1, ConcatAppend
  <2>5. toClient'[c] = Append(s, m)
    BY <1>4, <2>2, <2>4
  <2>6. Keyed(toClient'[c]) = Append(Keyed(s), m)
    BY <1>1, <2>1, <2>5, KeyedFacts
  <2>7. QED BY <1>2, <2>2, <2>3, <2>6 DEF s, k
<1>10. CASE EditText(c, e) \/ Ignore(c, e)
  <2>1. toClient' = toClient /\ sync' = sync
    BY <1>10 DEF EditText, Ignore
  <2>2. Queue!Commits(k, 0) = <<>> /\ 0 \in 0 .. MaxText + 1
    BY DEF Queue!Commits
  <2>3. Keyed(s) \o <<>> = Keyed(s)
    BY <1>1, KeyedFacts
  <2>4. Keyed(toClient'[c]) = Keyed(s) \o Queue!Commits(k, 0)
    BY <2>1, <2>2, <2>3 DEF s
  <2>5. QED BY <1>2, <2>1, <2>2, <2>4 DEF s, k
<1>11. QED BY <1>7, <1>8, <1>9, <1>10 DEF Handle

(* What did not change for the client did not change.                       *)
LEMMA UnmovedFacts ==
    ASSUME NEW c \in Client, Moved(c)
    PROVE  /\ link'[c] = link[c] => QueueLink' = QueueLink
           /\ pending'[c] = pending[c] => QueuePending' = QueuePending
           /\ Queued(toServer'[c]) = Queued(toServer[c]) => QueueToServer' = QueueToServer
           /\ Keyed(toClient'[c]) = Keyed(toClient[c]) => QueueToClient' = QueueToClient
<1>1. link'[c] = link[c] => QueueLink' = QueueLink
  BY DEF Moved
<1>2. pending'[c] = pending[c] => QueuePending' = QueuePending
  BY DEF Moved
<1>3. Queued(toServer'[c]) = Queued(toServer[c]) => QueueToServer' = QueueToServer
  BY DEF Moved
<1>4. Keyed(toClient'[c]) = Keyed(toClient[c]) => QueueToClient' = QueueToClient
  BY DEF Moved
<1>5. QED BY <1>1, <1>2, <1>3, <1>4

(* Each step of a client is a step of SyncQueue's client, or one it does    *)
(* not see: a trigger, a focus message, the end of a context, the reading   *)
(* of a mask or a reply.                                                    *)
LEMMA ClientMaps ==
    ASSUME IInv, Fresh, NEW c \in Client, Moved(c), ClientStep(c)
    PROVE  Queue!Next \/ UNCHANGED Queue!vars
<1>1. TypeOK
  BY DEF IInv
<1>2. /\ link'[c] = link[c] => QueueLink' = QueueLink
      /\ pending'[c] = pending[c] => QueuePending' = QueuePending
      /\ Queued(toServer'[c]) = Queued(toServer[c]) => QueueToServer' = QueueToServer
      /\ Keyed(toClient'[c]) = Keyed(toClient[c]) => QueueToClient' = QueueToClient
  BY UnmovedFacts
<1>3. ASSUME Queue!ClientStep(c) PROVE Queue!Next
  BY <1>3 DEF Queue!Next
<1>4. QueueLink[c] = "up" <=> link[c] = "up"
  BY DEF Moved
<1>5. CASE NewClient(c)
  <2>1. /\ link[c] = "down" /\ link' = [link EXCEPT ![c] = "up"] /\ draining = NoClient
        /\ sync' = sync /\ pending' = pending /\ toServer' = toServer /\ toClient' = toClient
        /\ owed' = owed /\ sent' = sent /\ handled' = handled /\ draining' = draining
    BY <1>5 DEF NewClient, client, queue
  <2>2. /\ QueuePending[c] = <<>> /\ QueueToServer[c] = <<>> /\ QueueToClient[c] = <<>>
        /\ sync[c] = FALSE /\ owed[c] = 0 /\ sent[c] = 0 /\ handled[c] = 0
    <3>1. /\ pending[c] = <<>> /\ toServer[c] = <<>> /\ toClient[c] = <<>>
          /\ sync[c] = FALSE /\ owed[c] = 0 /\ sent[c] = 0 /\ handled[c] = 0
      BY <2>1 DEF Fresh
    <3>2. Numbered(<<>>) = <<>> /\ Queued(<<>>) = <<>> /\ Keyed(<<>>) = <<>>
      <4>1. <<>> \in Seq(Key) /\ <<>> \in Seq(ToServer) /\ <<>> \in Seq(ToClient)
        OBVIOUS
      <4>2. QED BY <4>1, NumberedFacts, QueuedFacts, KeyedFacts
    <3>3. QED BY <3>1, <3>2 DEF Moved
  <2>3. QueueLink[c] = "down" /\ QueueLink' = [QueueLink EXCEPT ![c] = "up"]
    <3>1. link'[c] = "up"
      BY <1>1, <2>1 DEF TypeOK
    <3>2. QED BY <2>1, <3>1 DEF Moved
  <2>4. /\ QueuePending' = [QueuePending EXCEPT ![c] = <<>>]
        /\ QueueToServer' = [QueueToServer EXCEPT ![c] = <<>>]
        /\ QueueToClient' = [QueueToClient EXCEPT ![c] = <<>>]
    BY <1>2, <2>1, <2>2 DEF Moved
  <2>5. /\ sync' = [sync EXCEPT ![c] = FALSE] /\ owed' = [owed EXCEPT ![c] = 0]
        /\ sent' = [sent EXCEPT ![c] = 0] /\ handled' = [handled EXCEPT ![c] = 0]
    BY <2>1, <2>2 DEF Moved
  <2>6. Queue!NewClient(c)
    BY <2>1, <2>3, <2>4, <2>5 DEF Queue!NewClient, Queue!ClearRecord
  <2>7. QED BY <1>3, <2>6 DEF Queue!ClientStep
<1>6. CASE Press(c)
  <2>1. /\ link[c] = "up" /\ sent[c] < MaxKey /\ sent' = [sent EXCEPT ![c] = @ + 1]
        /\ link' = link /\ sync' = sync /\ pending' = pending /\ draining' = draining
        /\ handled' = handled /\ toClient' = toClient /\ owed' = owed
    BY <1>6 DEF Press, Free, queue
  <2>2. PICK kind \in Kinds :
            Send(c, [op |-> "FORWARD_EVENT", key |-> sent[c] + 1, kind |-> kind])
    BY <1>6 DEF Press
  <2> DEFINE m == [op |-> "FORWARD_EVENT", key |-> sent[c] + 1, kind |-> kind]
  <2>3. m \in ToServer /\ m \in InQueue
    <3>1. sent[c] \in 0 .. MaxKey /\ sent[c] < MaxKey /\ MaxKey \in Nat
      BY <1>1, <2>1 DEF TypeOK
    <3> HIDE DEF TypeOK, m
    <3>2. sent[c] + 1 \in Keys
      BY <3>1 DEF Keys
    <3> USE DEF m
    <3>3. QED BY <3>2 DEF ToServer, Key, InQueue
  <2>4. Bare(m) = Queue!ForwardEvent(sent[c] + 1)
    BY DEF Bare, About, Queue!ForwardEvent
  <2>5. Send(c, m)
    BY <2>2
  <2> HIDE DEF m
  <2>6. Queued(toServer'[c]) = Append(Queued(toServer[c]), Bare(m))
    BY <1>1, <2>3, <2>5, SendMaps
  <2>7. QueueToServer' =
            [QueueToServer EXCEPT ![c] = Append(@, Queue!ForwardEvent(sent[c] + 1))]
    BY <2>4, <2>6 DEF Moved
  <2>8. QueueLink' = QueueLink /\ QueuePending' = QueuePending /\ QueueToClient' = QueueToClient
    BY <1>2, <2>1
  <2>9. Queue!Press(c)
    BY <1>4, <2>1, <2>7, <2>8 DEF Queue!Press, Queue!server
  <2>10. QED BY <1>3, <2>9 DEF Queue!ClientStep
<1>7. CASE Trigger(c) \/ Focus(c) \/ Destroy(c)
  <2>1. PICK m \in ToServer : m \notin InQueue /\ Send(c, m)
    <3>1. \A on \in OnKeys : [op |-> "TRIGGER_NOTIFY", on |-> on] \in ToServer \ InQueue
      BY DEF ToServer, InQueue
    <3>2. \A op \in {"SET_IC_FOCUS", "UNSET_IC_FOCUS", "DESTROY_IC"} : Message(op) \in ToServer \ InQueue
      BY DEF ToServer, InQueue, Message
    <3>3. QED BY <1>7, <3>1, <3>2 DEF Trigger, Focus, Destroy
  <2>2. Queued(toServer'[c]) = Queued(toServer[c])
    BY <1>1, <2>1, SendMaps
  <2>3. /\ link' = link /\ sync' = sync /\ pending' = pending /\ draining' = draining
        /\ handled' = handled /\ toClient' = toClient /\ owed' = owed /\ sent' = sent
    BY <1>7 DEF Trigger, Focus, Destroy, queue
  <2>4. QED BY <1>2, <2>2, <2>3 DEF Queue!vars
<1>8. CASE Read(c)
  <2> DEFINE s == toClient[c]
             m == Head(s)
  <2>1. /\ link[c] = "up" /\ s # <<>> /\ s \in Seq(ToClient) /\ m \in ToClient
        /\ toClient' = [toClient EXCEPT ![c] = Tail(s)]
        /\ link' = link /\ sync' = sync /\ pending' = pending /\ draining' = draining
        /\ handled' = handled /\ toServer' = toServer /\ sent' = sent
    BY <1>1, <1>8 DEF Read, queue, TypeOK
  <2>2. /\ toClient'[c] = Tail(s)
        /\ owed' = [owed EXCEPT ![c] = IF m.op \in {"FORWARD_EVENT", "COMMIT"}
                                       THEN owed[c] + 1 ELSE owed[c]]
    BY <1>1, <1>8 DEF Read, TypeOK
  <2> HIDE DEF s
  <2>3. QueueLink' = QueueLink /\ QueuePending' = QueuePending /\ QueueToServer' = QueueToServer
    BY <1>2, <2>1
  <2>4. CASE m.op \in {"FORWARD_EVENT", "COMMIT"}
    <3>1. m \in InKeys
      BY <2>1, <2>4 DEF InKeys
    <3>2. Keyed(s) # <<>> /\ Keyed(toClient'[c]) = Tail(Keyed(s))
      BY <2>1, <2>2, <3>1, KeyedFacts
    <3>3. QueueToClient[c] # <<>> /\ QueueToClient' = [QueueToClient EXCEPT ![c] = Tail(@)]
      BY <3>2 DEF Moved, s
    <3>4. owed' = [owed EXCEPT ![c] = @ + 1]
      BY <2>2, <2>4
    <3>5. Queue!Read(c)
      BY <1>4, <2>1, <2>3, <3>3, <3>4 DEF Queue!Read, Queue!server
    <3>6. QED BY <1>3, <3>5 DEF Queue!ClientStep
  <2>5. CASE m.op \notin {"FORWARD_EVENT", "COMMIT"}
    <3>1. m \notin InKeys
      BY <2>5 DEF InKeys
    <3>2. Keyed(toClient'[c]) = Keyed(toClient[c])
      BY <2>1, <2>2, <3>1, KeyedFacts DEF s
    <3>3. owed' = owed
      BY <1>1, <2>2, <2>5 DEF TypeOK
    <3>4. QED BY <1>2, <2>1, <2>3, <3>2, <3>3 DEF Queue!vars
  <2>6. QED BY <2>4, <2>5
<1>9. CASE Reply(c)
  <2>1. /\ link[c] = "up" /\ \E n \in 1 .. owed[c] : owed' = [owed EXCEPT ![c] = @ - n]
        /\ Send(c, Message("SYNC_REPLY"))
        /\ link' = link /\ sync' = sync /\ pending' = pending /\ draining' = draining
        /\ handled' = handled /\ toClient' = toClient /\ sent' = sent
    BY <1>9 DEF Reply, queue
  <2>2. Message("SYNC_REPLY") \in ToServer /\ Message("SYNC_REPLY") \in InQueue
    BY DEF Message, ToServer, InQueue
  <2>3. Bare(Message("SYNC_REPLY")) = Queue!SyncReply
    BY DEF Bare, Message, Queue!SyncReply
  <2>4. Queued(toServer'[c]) = Append(Queued(toServer[c]), Queue!SyncReply)
    BY <1>1, <2>1, <2>2, <2>3, SendMaps
  <2>5. QueueToServer' = [QueueToServer EXCEPT ![c] = Append(@, Queue!SyncReply)]
    BY <2>4 DEF Moved
  <2>6. QueueLink' = QueueLink /\ QueuePending' = QueuePending /\ QueueToClient' = QueueToClient
    BY <1>2, <2>1
  <2>7. Queue!Reply(c)
    BY <1>4, <2>1, <2>5, <2>6 DEF Queue!Reply, Queue!server
  <2>8. QED BY <1>3, <2>7 DEF Queue!ClientStep
<1>10. CASE Leave(c)
  <2>1. /\ link[c] = "up" /\ link' = [link EXCEPT ![c] = "leaving"]
        /\ Send(c, Message("DISCONNECT"))
        /\ sync' = sync /\ pending' = pending /\ draining' = draining
        /\ handled' = handled /\ toClient' = toClient /\ owed' = owed /\ sent' = sent
    BY <1>10 DEF Leave, Free, queue, client
  <2>2. Message("DISCONNECT") \in ToServer /\ Message("DISCONNECT") \in InQueue
    BY DEF Message, ToServer, InQueue
  <2>3. Bare(Message("DISCONNECT")) = Queue!Disconnect
    BY DEF Bare, Message, Queue!Disconnect
  <2>4. Queued(toServer'[c]) = Append(Queued(toServer[c]), Queue!Disconnect)
    BY <1>1, <2>1, <2>2, <2>3, SendMaps
  <2>5. QueueToServer' = [QueueToServer EXCEPT ![c] = Append(@, Queue!Disconnect)]
    BY <2>4 DEF Moved
  <2>6. QueueLink' = [QueueLink EXCEPT ![c] = "leaving"]
    <3>1. link'[c] = "leaving"
      BY <1>1, <2>1 DEF TypeOK
    <3>2. QED BY <3>1 DEF Moved
  <2>7. QueuePending' = QueuePending /\ QueueToClient' = QueueToClient
    BY <1>2, <2>1
  <2>8. Queue!Leave(c)
    BY <1>4, <2>1, <2>5, <2>6, <2>7 DEF Queue!Leave, Queue!server
  <2>9. QED BY <1>3, <2>8 DEF Queue!ClientStep
<1>11. CASE Die(c)
  <2>1. /\ link[c] = "up" /\ link' = [link EXCEPT ![c] = "dead"]
        /\ sync' = sync /\ pending' = pending /\ draining' = draining /\ toServer' = toServer
        /\ handled' = handled /\ toClient' = toClient /\ owed' = owed /\ sent' = sent
    BY <1>11 DEF Die, queue, client
  <2>2. QueueLink' = [QueueLink EXCEPT ![c] = "dead"]
    <3>1. link'[c] = "dead"
      BY <1>1, <2>1 DEF TypeOK
    <3>2. QED BY <3>1 DEF Moved
  <2>3. /\ QueuePending' = QueuePending /\ QueueToClient' = QueueToClient
        /\ QueueToServer' = QueueToServer
    BY <1>2, <2>1
  <2>4. Queue!Die(c)
    BY <1>4, <2>1, <2>2, <2>3 DEF Queue!Die, Queue!server
  <2>5. QED BY <1>3, <2>4 DEF Queue!ClientStep
<1>12. QED BY <1>5, <1>6, <1>7, <1>8, <1>9, <1>10, <1>11 DEF ClientStep

(* The key event handler, seen by SyncQueue.                                *)
LEMMA HandlerMaps ==
    ASSUME TypeOK, NEW c \in Client, Moved(c), NEW e \in Key, Handle(c, e)
    PROVE  Queue!Handle(c, e.key)
<1>1. /\ handled'[c] = e.key
      /\ \/ \E n \in 0 .. MaxText + 1 :
               /\ Keyed(toClient'[c]) = Keyed(toClient[c]) \o Queue!Commits(e.key, n)
               /\ sync' = sync
         \/ /\ Keyed(toClient'[c]) = Append(Keyed(toClient[c]), Queue!ForwardEvent(e.key))
            /\ sync' = [sync EXCEPT ![c] = TRUE]
  BY HandleMaps
<1>2. handled' = [handled EXCEPT ![c] = e.key]
  BY <1>1 DEF Moved
<1>3. /\ QueueToClient' = [QueueToClient EXCEPT ![c] = Keyed(toClient'[c])]
      /\ QueueToClient[c] = Keyed(toClient[c])
  BY DEF Moved
<1>4. CASE \E n \in 0 .. MaxText + 1 :
              /\ Keyed(toClient'[c]) = Keyed(toClient[c]) \o Queue!Commits(e.key, n)
              /\ sync' = sync
  <2>1. PICK n \in 0 .. MaxText + 1 :
           /\ Keyed(toClient'[c]) = Keyed(toClient[c]) \o Queue!Commits(e.key, n)
           /\ sync' = sync
    BY <1>4
  <2>2. QueueToClient' = [QueueToClient EXCEPT ![c] = @ \o Queue!Commits(e.key, n)]
    BY <1>3, <2>1, Zenon
  <2>3. QED BY <1>2, <2>1, <2>2, Zenon DEF Queue!Handle
<1>5. CASE /\ Keyed(toClient'[c]) = Append(Keyed(toClient[c]), Queue!ForwardEvent(e.key))
           /\ sync' = [sync EXCEPT ![c] = TRUE]
  <2>1. QueueToClient' = [QueueToClient EXCEPT ![c] = Append(@, Queue!ForwardEvent(e.key))]
    BY <1>3, <1>5, Zenon
  <2>2. QED BY <1>2, <1>5, <2>1, Zenon DEF Queue!Handle
<1>6. QED BY <1>1, <1>4, <1>5, Zenon

(* A message the server takes, seen by SyncQueue.                           *)
LEMMA TakesMaps ==
    ASSUME TypeOK, NEW c \in Client, Moved(c),
           NEW op \in {"FORWARD_EVENT", "SYNC_REPLY", "DISCONNECT"}, Receives(c, op)
    PROVE  /\ Queue!Receives(c, op)
           /\ op = "FORWARD_EVENT" => /\ Head(toServer[c]) \in Key
                                      /\ Head(QueueToServer[c]).key = Head(toServer[c]).key
<1>1. /\ draining = NoClient
      /\ op = "FORWARD_EVENT" => Head(toServer[c]) \in Key
      /\ Queued(toServer[c]) # <<>>
      /\ Head(Queued(toServer[c])).op = op
      /\ op = "FORWARD_EVENT" => Head(Queued(toServer[c])).key = Head(toServer[c]).key
      /\ Queued(toServer'[c]) = Tail(Queued(toServer[c]))
  BY ReceiveMaps
<1>2. /\ QueueToServer[c] = Queued(toServer[c])
      /\ QueueToServer' = [QueueToServer EXCEPT ![c] = Queued(toServer'[c])]
  BY DEF Moved
<1>3. QueueToServer' = [QueueToServer EXCEPT ![c] = Tail(@)]
  BY <1>1, <1>2, Zenon
<1>4. QED BY <1>1, <1>2, <1>3, Zenon DEF Queue!Receives

(* Each step of the server is a step of SyncQueue's server, or one it does  *)
(* not see: triggers, focus changes, the end of a context and the crash.    *)
LEMMA ServerMaps ==
    ASSUME IInv, NEW c \in Client, Moved(c), ServerStep(c)
    PROVE  Queue!Next \/ UNCHANGED Queue!vars
<1>1. /\ TypeOK /\ pending[c] \in Seq(Key)
      /\ draining = c => pending[c] # <<>>
  BY DEF IInv, TypeOK, DrainsAKey
<1>2. /\ link'[c] = link[c] => QueueLink' = QueueLink
      /\ pending'[c] = pending[c] => QueuePending' = QueuePending
      /\ Queued(toServer'[c]) = Queued(toServer[c]) => QueueToServer' = QueueToServer
      /\ Keyed(toClient'[c]) = Keyed(toClient[c]) => QueueToClient' = QueueToClient
  BY UnmovedFacts
<1>3. ASSUME Queue!ServerStep(c) PROVE Queue!Next
  BY <1>3 DEF Queue!Next
<1>4. /\ QueuePending[c] = Numbered(pending[c])
      /\ QueuePending' = [QueuePending EXCEPT ![c] = Numbered(pending'[c])]
  BY DEF Moved
<1>5. /\ \A e \in Key : Numbered(Append(pending[c], e)) = Append(Numbered(pending[c]), e.key)
      /\ pending[c] # <<>> => /\ Numbered(pending[c]) # <<>>
                              /\ Head(Numbered(pending[c])) = Head(pending[c]).key
                              /\ Numbered(Tail(pending[c])) = Tail(Numbered(pending[c]))
      /\ pending[c] = <<>> => Numbered(pending[c]) = <<>>
  BY <1>1, NumberedFacts
<1>6. ASSUME NEW q \in Seq(Key), NEW awaited
      PROVE  Loop(c, awaited, q) = Queue!Loop(c, awaited, Numbered(q))
  <2>1. q = <<>> <=> Numbered(q) = <<>>
    BY NumberedFacts
  <2>2. QED BY <2>1 DEF Loop, Queue!Loop
<1>7. CASE AddQueue(c)
  <2> DEFINE e == Head(toServer[c])
  <2>1. /\ Receives(c, "FORWARD_EVENT") /\ sync[c]
        /\ pending' = [pending EXCEPT ![c] = Append(@, e)]
        /\ link' = link /\ sync' = sync /\ draining' = draining /\ handled' = handled
        /\ toClient' = toClient /\ owed' = owed /\ sent' = sent
    BY <1>7 DEF AddQueue, client
  <2>2. /\ Queue!Receives(c, "FORWARD_EVENT")
        /\ e \in Key /\ Head(QueueToServer[c]).key = e.key
    BY <1>1, <2>1, TakesMaps
  <2> HIDE DEF e
  <2>3. pending'[c] = Append(pending[c], e)
    BY <1>1, <2>1 DEF TypeOK
  <2>4. Numbered(pending'[c]) = Append(QueuePending[c], Head(QueueToServer[c]).key)
    BY <1>4, <1>5, <2>2, <2>3
  <2>5. QueuePending' =
            [QueuePending EXCEPT ![c] = Append(@, Head(QueueToServer[c]).key)]
    BY <1>4, <2>4, Zenon
  <2>6. QueueLink' = QueueLink /\ QueueToClient' = QueueToClient
    BY <1>2, <2>1
  <2>7. Queue!AddQueue(c)
    BY <2>1, <2>2, <2>5, <2>6 DEF Queue!AddQueue
  <2>8. QED BY <1>3, <2>7 DEF Queue!ServerStep
<1>8. CASE HandleForwardEvent(c)
  <2> DEFINE e == Head(toServer[c])
  <2>1. /\ Receives(c, "FORWARD_EVENT") /\ ~sync[c] /\ Handle(c, e)
        /\ link' = link /\ pending' = pending /\ draining' = draining
        /\ owed' = owed /\ sent' = sent
    BY <1>8 DEF HandleForwardEvent, client
  <2>2. /\ Queue!Receives(c, "FORWARD_EVENT")
        /\ e \in Key /\ Head(QueueToServer[c]).key = e.key
    BY <1>1, <2>1, TakesMaps
  <2> HIDE DEF e
  <2>3. Queue!Handle(c, Head(QueueToServer[c]).key)
    <3>1. Queue!Handle(c, e.key)
      BY <1>1, <2>1, <2>2, HandlerMaps
    <3>2. QED BY <2>2, <3>1
  <2>4. QueueLink' = QueueLink /\ QueuePending' = QueuePending
    BY <1>2, <2>1
  <2>5. Queue!HandleForwardEvent(c)
    BY <2>1, <2>2, <2>3, <2>4 DEF Queue!HandleForwardEvent
  <2>6. QED BY <1>3, <2>5 DEF Queue!ServerStep
<1>9. CASE HandleSyncReply(c)
  <2>1. /\ Receives(c, "SYNC_REPLY") /\ sync' = [sync EXCEPT ![c] = FALSE]
        /\ draining' = Loop(c, FALSE, pending[c])
        /\ link' = link /\ pending' = pending /\ handled' = handled
        /\ toClient' = toClient /\ owed' = owed /\ sent' = sent
    BY <1>9 DEF HandleSyncReply, client
  <2>2. Queue!Receives(c, "SYNC_REPLY")
    BY <1>1, <2>1, TakesMaps
  <2>3. draining' = Queue!Loop(c, FALSE, QueuePending[c])
    BY <1>1, <1>4, <1>6, <2>1
  <2>4. /\ QueueLink' = QueueLink /\ QueuePending' = QueuePending
        /\ QueueToClient' = QueueToClient
    BY <1>2, <2>1
  <2>5. Queue!HandleSyncReply(c)
    BY <2>1, <2>2, <2>3, <2>4 DEF Queue!HandleSyncReply
  <2>6. QED BY <1>3, <2>5 DEF Queue!ServerStep
<1>10. CASE ProcessQueue(c)
  <2> DEFINE e == Head(pending[c])
  <2>1. /\ draining = c /\ Handle(c, e) /\ pending' = [pending EXCEPT ![c] = Tail(@)]
        /\ draining' = Loop(c, sync'[c], Tail(pending[c]))
        /\ link' = link /\ toServer' = toServer /\ owed' = owed /\ sent' = sent
    BY <1>10 DEF ProcessQueue, client
  <2>2. pending[c] # <<>> /\ e \in Key /\ Tail(pending[c]) \in Seq(Key)
    BY <1>1, <2>1
  <2>3. e.key = Head(QueuePending[c])
    BY <1>4, <1>5, <2>2
  <2> HIDE DEF e
  <2>4. Queue!Handle(c, Head(QueuePending[c]))
    <3>1. Queue!Handle(c, e.key)
      BY <1>1, <2>1, <2>2, HandlerMaps
    <3>2. QED BY <2>3, <3>1
  <2>5. Numbered(Tail(pending[c])) = Tail(QueuePending[c])
    BY <1>4, <1>5, <2>2
  <2>6. pending'[c] = Tail(pending[c])
    BY <1>1, <2>1 DEF TypeOK
  <2>7. QueuePending' = [QueuePending EXCEPT ![c] = Tail(@)]
    BY <1>4, <2>5, <2>6, Zenon
  <2>8. draining' = Queue!Loop(c, sync'[c], Tail(QueuePending[c]))
    BY <1>6, <2>1, <2>2, <2>5
  <2>9. QueueLink' = QueueLink /\ QueueToServer' = QueueToServer
    BY <1>2, <2>1
  <2>10. Queue!ProcessQueue(c)
    BY <2>1, <2>4, <2>7, <2>8, <2>9 DEF Queue!ProcessQueue
  <2>11. QED BY <1>3, <2>10 DEF Queue!ServerStep
<1>11. CASE HandleDisconnect(c)
  <2>1. /\ Receives(c, "DISCONNECT") /\ link' = [link EXCEPT ![c] = "gone"]
        /\ sync' = sync /\ pending' = pending /\ draining' = draining /\ handled' = handled
        /\ toClient' = toClient /\ owed' = owed /\ sent' = sent
    BY <1>11 DEF HandleDisconnect, client, queue
  <2>2. Queue!Receives(c, "DISCONNECT")
    BY <1>1, <2>1, TakesMaps
  <2>3. QueueLink' = [QueueLink EXCEPT ![c] = "down"]
    <3>1. link'[c] = "gone"
      BY <1>1, <2>1 DEF TypeOK
    <3>2. QED BY <3>1 DEF Moved
  <2>4. QueuePending' = QueuePending /\ QueueToClient' = QueueToClient
    BY <1>2, <2>1
  <2>5. Queue!HandleDisconnect(c)
    BY <2>1, <2>2, <2>3, <2>4 DEF Queue!HandleDisconnect, Queue!server
  <2>6. QED BY <1>3, <2>5 DEF Queue!ServerStep
<1>12. CASE HandleTriggerNotify(c)
  <2> DEFINE reply == Message("TRIGGER_NOTIFY_REPLY")
             mask == EventMask(TRUE)
             s == toClient[c]
  <2>1. /\ Receives(c, "TRIGGER_NOTIFY") /\ Sends(c, <<reply, mask>>)
        /\ link' = link /\ sync' = sync /\ pending' = pending /\ draining' = draining
        /\ handled' = handled /\ owed' = owed /\ sent' = sent
    BY <1>12 DEF HandleTriggerNotify, Answer, client, queue
  <2>2. /\ reply \in ToClient \ InKeys /\ mask \in ToClient \ InKeys /\ s \in Seq(ToClient)
    BY <1>1 DEF Message, EventMask, ToClient, InKeys, TypeOK
  <2> HIDE DEF reply, mask
  <2>3. toClient'[c] = s \o <<reply, mask>>
    <3>1. <<reply, mask>> \in Seq(ToClient)
      BY <2>2
    <3>2. QED BY <1>1, <2>1, <3>1, SendsFacts
  <2> HIDE DEF s
  <2>4. s \o <<reply, mask>> = Append(Append(s, reply), mask)
    BY <2>2
  <2>5. Append(s, reply) \in Seq(ToClient)
    BY <2>2
  <2>6. Keyed(toClient'[c]) = Keyed(toClient[c])
    <3>1. Keyed(Append(s, reply)) = Keyed(s)
      BY <2>2, KeyedFacts
    <3>2. Keyed(Append(Append(s, reply), mask)) = Keyed(Append(s, reply))
      BY <2>2, <2>5, KeyedFacts
    <3>3. QED BY <2>3, <2>4, <3>1, <3>2 DEF s
  <2>7. Queued(toServer'[c]) = Queued(toServer[c])
    BY <1>1, <2>1, ReceiveMaps
  <2>8. QED BY <1>2, <2>1, <2>6, <2>7 DEF Queue!vars
<1>13. CASE HandleSetFocus(c) \/ HandleUnsetFocus(c)
  <2>1. /\ Receives(c, "SET_IC_FOCUS") \/ Receives(c, "UNSET_IC_FOCUS")
        /\ link' = link /\ sync' = sync /\ pending' = pending /\ draining' = draining
        /\ handled' = handled /\ toClient' = toClient /\ owed' = owed /\ sent' = sent
    BY <1>13 DEF HandleSetFocus, HandleUnsetFocus, client, queue
  <2>2. Queued(toServer'[c]) = Queued(toServer[c])
    BY <1>1, <2>1, ReceiveMaps
  <2>3. QED BY <1>2, <2>1, <2>2 DEF Queue!vars
<1>14. CASE Crash(c)
  <2>1. /\ link' = link /\ sync' = sync /\ pending' = pending /\ draining' = draining
        /\ toServer' = toServer
        /\ handled' = handled /\ toClient' = toClient /\ owed' = owed /\ sent' = sent
    BY <1>14 DEF Crash, client, queue
  <2>2. QED BY <1>2, <2>1 DEF Queue!vars
<1>15. CASE HandleDestroyIC(c)
  <2> DEFINE reply == Message("DESTROY_IC_REPLY")
             s == toClient[c]
  <2>1. /\ Receives(c, "DESTROY_IC") /\ Sends(c, <<reply>>)
        /\ link' = link /\ sync' = sync /\ pending' = pending /\ draining' = draining
        /\ handled' = handled /\ owed' = owed /\ sent' = sent
    BY <1>15 DEF HandleDestroyIC, client, queue
  <2>2. reply \in ToClient \ InKeys /\ s \in Seq(ToClient)
    BY <1>1 DEF Message, ToClient, InKeys, TypeOK
  <2> HIDE DEF reply
  <2>3. toClient'[c] = Append(s, reply)
    <3>1. <<reply>> \in Seq(ToClient) /\ s \o <<reply>> = Append(s, reply)
      BY <2>2, ConcatAppend
    <3>2. QED BY <1>1, <2>1, <3>1, SendsFacts
  <2>4. Keyed(toClient'[c]) = Keyed(toClient[c])
    BY <2>2, <2>3, KeyedFacts
  <2>5. Queued(toServer'[c]) = Queued(toServer[c])
    BY <1>1, <2>1, ReceiveMaps
  <2>6. QED BY <1>2, <2>1, <2>4, <2>5 DEF Queue!vars
<1>16. QED BY <1>7, <1>8, <1>9, <1>10, <1>11, <1>12, <1>13, <1>14, <1>15 DEF ServerStep

(* Interxim's handlers keep the queue discipline of SyncQueue: seen through *)
(* the mapping, every step of the composed server is a step of SyncQueue or *)
(* no step at all, for any number of clients, keys and characters.          *)
THEOREM Implements == Spec => ImplementsSyncQueue
<1>1. Init => Queue!Init /\ Fresh
  <2> SUFFICES ASSUME Init PROVE Queue!Init /\ Fresh
    OBVIOUS
  <2>1. \A c \in Client : /\ link[c] = "down" /\ pending[c] = <<>>
                          /\ toServer[c] = <<>> /\ toClient[c] = <<>>
    BY DEF Init
  <2>2. Numbered(<<>>) = <<>> /\ Queued(<<>>) = <<>> /\ Keyed(<<>>) = <<>>
    <3>1. <<>> \in Seq(Key) /\ <<>> \in Seq(ToServer) /\ <<>> \in Seq(ToClient)
      OBVIOUS
    <3>2. QED BY <3>1, NumberedFacts, QueuedFacts, KeyedFacts
  <2>3. /\ QueueLink = [c \in Client |-> "down"]
        /\ QueuePending = [c \in Client |-> <<>>]
        /\ QueueToServer = [c \in Client |-> <<>>]
        /\ QueueToClient = [c \in Client |-> <<>>]
    BY <2>1, <2>2 DEF QueueLink, QueuePending, QueueToServer, QueueToClient
  <2>4. Queue!Init
    BY <2>3 DEF Init, Queue!Init
  <2>5. Fresh
    BY DEF Init, Fresh
  <2>6. QED BY <2>4, <2>5
<1>2. IInv /\ Fresh /\ [Next]_vars => Fresh'
  BY FreshInv
<1>3. IInv /\ IInv' /\ Fresh /\ [Next]_vars => [Queue!Next]_(Queue!vars)
  <2> SUFFICES ASSUME IInv, IInv', Fresh, [Next]_vars
               PROVE  Queue!Next \/ UNCHANGED Queue!vars
    OBVIOUS
  <2>1. CASE Next
    <3>1. PICK c \in Client : ClientStep(c) \/ ServerStep(c)
      BY <2>1 DEF Next
    <3>2. Moved(c)
      <4>1. TypeOK /\ TypeOK'
        BY DEF IInv
      <4>2. \A d \in Client \ {c} : Kept(d)
        BY <3>1, OthersKept
      <4>3. QED BY <4>1, <4>2, MapOthers
    <3>3. QED BY <3>1, <3>2, ClientMaps, ServerMaps
  <2>2. CASE UNCHANGED vars
    BY <2>2 DEF vars, client, queue, Queue!vars, QueueLink, QueuePending, QueueToServer,
                QueueToClient
  <2>3. QED BY <2>1, <2>2
<1>4. QED BY <1>1, <1>2, <1>3, Inductive, PTL DEF Spec, ImplementsSyncQueue, Queue!Spec
=============================================================================
