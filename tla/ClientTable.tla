---------------------------- MODULE ClientTable ----------------------------
(***************************************************************************)
(* The table of connections (IMdkit/i18nUtil.c) and the part of the X      *)
(* transport that fills it and looks messages up in it (i18nX.c).          *)
(*                                                                         *)
(* A connecting library gets an accept window of its own; a message that   *)
(* comes in on it is attributed to the record with that window, and from   *)
(* there on to that record's connect id: the byte order, the queue of      *)
(* pending keys and the window of the reply are found by the id.  Ids are  *)
(* 16 bits wide; the record of a library that disconnects is used again,   *)
(* id and all, and that of a library that dies is never given back.        *)
(*                                                                         *)
(* One X event is handled at a time, to the end.  What the X server does   *)
(* (window ids) and what a library sends are left open: it may send on its *)
(* window any message, with or without the handshake of XIM_CONNECT.       *)
(***************************************************************************)
EXTENDS Naturals, Sequences, SequencesExt

CONSTANTS Window,      \* the accept windows the X server can give
          ByteOrder,   \* byte orders: 'l' and 'B'
          Unknown,     \* '?', the byte order before XIM_CONNECT
          IdLimit,     \* number of different connect ids: 2^16, a CARD16
          MaxRecord    \* bound: records allocated

ASSUME ClientTableAssumption == /\ Unknown \notin ByteOrder
                                /\ IdLimit \in Nat \ {0}
                                /\ MaxRecord \in Nat

VARIABLES clients,       \* address.clients, the newest first
          free_clients,  \* address.free_clients, the last one given back first
          connect_id,    \* the static counter of _Xi18nNewClient
          allocated,     \* records allocated so far (history)
          peer           \* peer[w]: byte order of the library w was created for,
                         \* Unknown if w does not exist

vars == <<clients, free_clients, connect_id, allocated, peer>>

-----------------------------------------------------------------------------
Ids == 0 .. IdLimit - 1

Init == /\ clients = <<>>
        /\ free_clients = <<>>
        /\ connect_id = 0
        /\ allocated = 0
        /\ peer = [w \in Window |-> Unknown]

(* Positions of the newest record with this id, or with this window. *)
FindClient(id) == SelectInSeq(clients, LAMBDA r : r.connect_id = id)
ClientOf(w) == SelectInSeq(clients, LAMBDA r : r.accept_win = w)

(* Mutant: an id less. *)
NextIdEarly == (connect_id + 1) % (IdLimit - 1)

NextId == (connect_id + 1) % IdLimit

(* Mutant: byte_order is not reset. *)
StaleRecord(rec, w) == [rec EXCEPT !.accept_win = w]

(* _Xi18nNewClient: only the connect id of a free record is kept.           *)
NewRecord(rec, w) == [rec EXCEPT !.byte_order = Unknown, !.accept_win = w]
Allocated(id, w) == [connect_id |-> id, byte_order |-> Unknown, accept_win |-> w]

(* Mutant: the list starts after the record, as if it were the first. *)
UnlinkHead(i) == SubSeq(clients, i + 1, Len(clients))

(* _Xi18nDeleteClient, for the record at position i. *)
Unlink(i) == RemoveAt(clients, i)

(* Mutant: the record is not put on free_clients. *)
Leak(i) == free_clients

GiveBack(i) == Cons(clients[i], free_clients)

(* ReadXConnectMessage: NewXClient takes the first free record, or else a   *)
(* new one with the next id, and creates the window.                        *)
NewXClient(w, order) ==
    /\ peer[w] = Unknown
    /\ peer' = [peer EXCEPT ![w] = order]
    /\ \/ /\ free_clients # <<>>
          /\ clients' = Cons(NewRecord(Head(free_clients), w), clients)
          /\ free_clients' = Tail(free_clients)
          /\ UNCHANGED <<connect_id, allocated>>
       \/ /\ free_clients = <<>>
          /\ allocated < MaxRecord
          /\ allocated' = allocated + 1
          /\ connect_id' = NextId
          /\ clients' = Cons(Allocated(NextId, w), clients)
          /\ UNCHANGED free_clients

(* ReadXIMMessage: XIM_CONNECT tells the byte order, the first time only. *)
ReadConnect(w) ==
    LET i == ClientOf(w)
    IN  /\ i # 0
        /\ clients' = [clients EXCEPT ![i].byte_order =
                          IF @ = Unknown THEN peer[w] ELSE @]
        /\ UNCHANGED <<free_clients, connect_id, allocated, peer>>

(* DisConnectMessageProc and Xi18nXDisconnect go by the id: the window and *)
(* its filter go with the record.  XIM_DISCONNECT fits into the X event, so *)
(* it is dropped as long as the byte order is not known.                    *)
HandleDisconnect(w) ==
    LET i == FindClient(clients[ClientOf(w)].connect_id)
    IN  /\ ClientOf(w) # 0
        /\ clients[ClientOf(w)].byte_order # Unknown
        /\ clients' = Unlink(i)
        /\ free_clients' = GiveBack(i)
        /\ peer' = [peer EXCEPT ![clients[i].accept_win] = Unknown]
        /\ UNCHANGED <<connect_id, allocated>>

Next == \E w \in Window : \/ \E order \in ByteOrder : NewXClient(w, order)
                          \/ ReadConnect(w)
                          \/ HandleDisconnect(w)

Spec == Init /\ [][Next]_vars

-----------------------------------------------------------------------------
(* Properties. *)

(* Every window the server listens on has exactly one record, and no record *)
(* is without its window: ReadXIMMessage finds a record for each message,   *)
(* and a connection that has gone leaves neither behind.                    *)
WindowsHaveRecords ==
    \A w \in Window :
        Cardinality({i \in DOMAIN clients : clients[i].accept_win = w})
            = IF peer[w] = Unknown THEN 0 ELSE 1

(* No record is lost or in use twice: whatever comes and goes, the records  *)
(* in the two lists carry the ids given out, as often as they were given.   *)
RecordsAreKept ==
    \A id \in Ids :
        Cardinality({i \in DOMAIN clients : clients[i].connect_id = id})
          + Cardinality({i \in DOMAIN free_clients : free_clients[i].connect_id = id})
            = Cardinality({n \in 1 .. allocated : n % IdLimit = id})

(* What is sent in answer to a message goes by the id found for its window. *)
(* It goes back to the sender until more records exist than ids, which      *)
(* takes 2^16 libraries that died or are connected.                         *)
AnsweredWindow(w) ==
    clients[FindClient(clients[ClientOf(w)].connect_id)].accept_win

AnswersSender ==
    allocated <= IdLimit =>
        \A w \in Window : peer[w] # Unknown => AnsweredWindow(w) = w

(* A message is never read in the byte order of the library that had the    *)
(* record before: a record knows the order of its own library or none.      *)
ByteOrderIsPeers ==
    \A i \in DOMAIN clients :
        clients[i].byte_order \in {Unknown, peer[clients[i].accept_win]}
=============================================================================
