-------------------------- MODULE Transport_proofs --------------------------
(***************************************************************************)
(* Safety of the table of connections (ClientTable), for any windows, any  *)
(* number of ids and any number of records, and then of Transport: what it *)
(* does with the connections is what ClientTable does, and the mail of     *)
(* each library is kept apart and in order, for any number of properties   *)
(* and of messages.                                                        *)
(***************************************************************************)
EXTENDS Transport, Counting

USE ClientTableAssumption

-----------------------------------------------------------------------------
(* The inductive invariant. *)

Record == [connect_id : Ids, byte_order : ByteOrder \cup {Unknown}, accept_win : Window]

TypeOK == /\ clients \in Seq(Record)
          /\ free_clients \in Seq(Record)
          /\ connect_id \in Ids
          /\ allocated \in Nat
          /\ peer \in [Window -> ByteOrder \cup {Unknown}]

(* No two records share a window, and the windows that exist are those of   *)
(* the records: WindowsHaveRecords, said position by position.              *)
OneRecord == \A i, j \in DOMAIN clients :
                 clients[i].accept_win = clients[j].accept_win => i = j
RecordHasWindow == \A i \in DOMAIN clients : peer[clients[i].accept_win] # Unknown
WindowHasRecord == \A w \in Window :
    peer[w] # Unknown => \E i \in DOMAIN clients : clients[i].accept_win = w

(* The counter is the number of records allocated, as a CARD16.             *)
CounterCounts == connect_id = allocated % IdLimit

IInv == /\ TypeOK
        /\ OneRecord /\ RecordHasWindow /\ WindowHasRecord
        /\ ByteOrderIsPeers
        /\ CounterCounts
        /\ RecordsAreKept

-----------------------------------------------------------------------------
(* The ids given out: 1, 2, ... as 16-bit numbers.                          *)

(* Quotient and remainder.                                                  *)
LEMMA ModOf ==
    ASSUME NEW n \in Nat \ {0}, NEW q \in Nat, NEW r \in 0 .. n - 1
    PROVE  (n * q + r) % n = r
  OBVIOUS

(* The quotient and the remainder of a division.                            *)
LEMMA DivMod ==
    ASSUME NEW a \in Nat, NEW n \in Nat \ {0}
    PROVE  /\ a = n * (a \div n) + (a % n)
           /\ a % n \in 0 .. n - 1
           /\ a \div n \in Nat
  OBVIOUS

(* The next id is the same whether the count of records is cut to the width *)
(* of an id before one is added, as in _Xi18nNewClient, or only afterwards. *)
LEMMA NextResidue ==
    ASSUME NEW a \in Nat, NEW n \in Nat \ {0}
    PROVE  ((a % n) + 1) % n = (a + 1) % n
<1> DEFINE q == a \div n
           r == a % n
<1>1. a = n * q + r /\ r \in 0 .. n - 1 /\ q \in Nat
  BY DivMod
<1> HIDE DEF q, r
<1>2. CASE r + 1 \in 0 .. n - 1
  <2>1. n * q \in Nat /\ a + 1 = n * q + (r + 1)
    BY <1>1
  <2>2. (n * q + (r + 1)) % n = r + 1
    BY <1>1, <1>2, ModOf
  <2>3. (r + 1) % n = r + 1
    BY <1>2
  <2>4. QED BY <2>1, <2>2, <2>3 DEF r
<1>3. CASE r + 1 = n
  <2>1. a + 1 = n * (q + 1) + 0
    BY <1>1, <1>3
  <2>2. (n * (q + 1) + 0) % n = 0
    BY <1>1, ModOf
  <2>3. (r + 1) % n = 0
    BY <1>3
  <2>4. QED BY <2>1, <2>2, <2>3 DEF r
<1>4. QED BY <1>1, <1>2, <1>3

(* As long as no more numbers than ids are given out, they stay distinct.   *)
LEMMA DistinctResidues ==
    ASSUME NEW n \in Nat \ {0}, NEW a \in 1 .. n, NEW b \in 1 .. n, a % n = b % n
    PROVE  a = b
  OBVIOUS

(* One more record allocated is one more use of its id.                     *)
GivenOut(n, id) == {m \in 1 .. n : m % IdLimit = id}

(* Allocating record n + 1 uses the id n + 1 modulo IdLimit once more.      *)
LEMMA GivenFacts ==
    ASSUME NEW n \in Nat, NEW id \in Ids
    PROVE  /\ IsFiniteSet(GivenOut(n, id)) /\ Cardinality(GivenOut(n, id)) \in Nat
           /\ Cardinality(GivenOut(n + 1, id)) = Cardinality(GivenOut(n, id))
                 + (IF (n + 1) % IdLimit = id THEN 1 ELSE 0)
<1>1. GivenOut(n, id) \in SUBSET (1 .. n) /\ IsFiniteSet(1 .. n)
  BY FS_Interval DEF GivenOut
<1>2. IsFiniteSet(GivenOut(n, id))
  BY <1>1, FS_Subset
<1>3. Cardinality(GivenOut(n, id)) \in Nat
  BY <1>2, FS_CardinalityType
<1>4. n + 1 \notin GivenOut(n, id)
  BY <1>1
<1>5. Cardinality(GivenOut(n, id) \cup {n + 1}) = Cardinality(GivenOut(n, id)) + 1
  BY <1>2, <1>4, FS_AddElement
<1>6. 1 .. n + 1 = (1 .. n) \cup {n + 1}
  OBVIOUS
<1>7. GivenOut(n + 1, id) = IF (n + 1) % IdLimit = id THEN GivenOut(n, id) \cup {n + 1}
                         ELSE GivenOut(n, id)
  BY <1>6 DEF GivenOut
<1>8. QED BY <1>2, <1>3, <1>5, <1>7

(* Up to IdLimit records, no id is used twice.                              *)
LEMMA GivenOnce ==
    ASSUME NEW n \in Nat, n <= IdLimit, NEW id \in Ids
    PROVE  Cardinality(GivenOut(n, id)) <= 1
<1>1. \A a, b \in GivenOut(n, id) : a = b
  <2> SUFFICES ASSUME NEW a \in GivenOut(n, id), NEW b \in GivenOut(n, id) PROVE a = b
    OBVIOUS
  <2>1. a \in 1 .. IdLimit /\ b \in 1 .. IdLimit /\ a % IdLimit = b % IdLimit
    BY DEF GivenOut
  <2>2. QED BY <2>1, DistinctResidues
<1>2. CASE GivenOut(n, id) = {}
  BY <1>2, FS_EmptySet
<1>3. CASE GivenOut(n, id) # {}
  <2>1. PICK a \in GivenOut(n, id) : TRUE
    BY <1>3
  <2>2. GivenOut(n, id) = {a}
    BY <1>1, <2>1
  <2>3. Cardinality({a}) = 1
    BY FS_Singleton
  <2>4. QED BY <2>2, <2>3
<1>4. QED BY <1>2, <1>3

-----------------------------------------------------------------------------
(* Looking up a record. *)

WithId(id) == {r \in Record : r.connect_id = id}

(* The positions of the records with an id, as the counting lemmas write    *)
(* them.                                                                    *)
LEMMA WithIdAt ==
    ASSUME NEW s \in Seq(Record), NEW id
    PROVE  {i \in DOMAIN s : s[i].connect_id = id} = At(s, WithId(id))
  BY DEF At, WithId

(* Either no record has the window, or the one found does.                  *)
LEMMA ClientOfFacts ==
    ASSUME TypeOK, NEW w
    PROVE  \/ ClientOf(w) = 0 /\ \A i \in DOMAIN clients : clients[i].accept_win # w
           \/ ClientOf(w) \in DOMAIN clients /\ clients[ClientOf(w)].accept_win = w
<1> DEFINE I == {i \in 1 .. Len(clients) : clients[i].accept_win = w}
<1>1. ClientOf(w) = IF I # {} THEN Min(I) ELSE 0
  BY DEF ClientOf, SelectInSeq
<1>2. DOMAIN clients = 1 .. Len(clients) /\ I \in SUBSET Nat
  BY DEF TypeOK
<1>3. I # {} => Min(I) \in I
  BY <1>2, MinFacts
<1>4. QED BY <1>1, <1>2, <1>3

(* The same for ids; the newest record with the id is found.                *)
LEMMA FindClientFacts ==
    ASSUME TypeOK, NEW id
    PROVE  \/ FindClient(id) = 0 /\ \A i \in DOMAIN clients : clients[i].connect_id # id
           \/ /\ FindClient(id) \in DOMAIN clients
              /\ clients[FindClient(id)].connect_id = id
<1> DEFINE I == {i \in 1 .. Len(clients) : clients[i].connect_id = id}
<1>1. FindClient(id) = IF I # {} THEN Min(I) ELSE 0
  BY DEF FindClient, SelectInSeq
<1>2. DOMAIN clients = 1 .. Len(clients) /\ I \in SUBSET Nat
  BY DEF TypeOK
<1>3. I # {} => Min(I) \in I
  BY <1>2, MinFacts
<1>4. QED BY <1>1, <1>2, <1>3

-----------------------------------------------------------------------------
(* What each change of the table keeps. *)

(* The records in both lists are the records given out, in terms of Count.  *)
Kept(s, t, n) == \A id \in Ids :
    Count(s, WithId(id)) + Count(t, WithId(id)) = Cardinality(GivenOut(n, id))

(* The sets RecordsAreKept is written with, as counts.                      *)
LEMMA KeptSets ==
    ASSUME NEW s \in Seq(Record), NEW t \in Seq(Record), NEW n \in Nat, NEW id \in Ids
    PROVE  /\ Cardinality({i \in DOMAIN s : s[i].connect_id = id}) = Count(s, WithId(id))
           /\ Cardinality({i \in DOMAIN t : t[i].connect_id = id}) = Count(t, WithId(id))
           /\ {m \in 1 .. n : m % IdLimit = id} = GivenOut(n, id)
  BY WithIdAt DEF GivenOut, Count

(* RecordsAreKept in terms of counts.                                       *)
LEMMA KeptIsCount ==
    ASSUME TypeOK PROVE RecordsAreKept <=> Kept(clients, free_clients, allocated)
<1>1. /\ clients \in Seq(Record) /\ free_clients \in Seq(Record) /\ allocated \in Nat
  BY DEF TypeOK
<1>2. ASSUME NEW id \in Ids
      PROVE  /\ Cardinality({i \in DOMAIN clients : clients[i].connect_id = id})
                    = Count(clients, WithId(id))
             /\ Cardinality({i \in DOMAIN free_clients : free_clients[i].connect_id = id})
                    = Count(free_clients, WithId(id))
             /\ {m \in 1 .. allocated : m % IdLimit = id} = GivenOut(allocated, id)
  BY <1>1, KeptSets
<1>3. QED BY <1>2 DEF RecordsAreKept, Kept

(* The same of the next state.                                              *)
LEMMA KeptIsCountNext ==
    ASSUME TypeOK' PROVE RecordsAreKept' <=> Kept(clients', free_clients', allocated')
<1>1. /\ clients' \in Seq(Record) /\ free_clients' \in Seq(Record) /\ allocated' \in Nat
  BY DEF TypeOK
<1>2. ASSUME NEW id \in Ids
      PROVE  /\ Cardinality({i \in DOMAIN clients' : clients'[i].connect_id = id})
                    = Count(clients', WithId(id))
             /\ Cardinality({i \in DOMAIN free_clients' : free_clients'[i].connect_id = id})
                    = Count(free_clients', WithId(id))
             /\ {m \in 1 .. allocated' : m % IdLimit = id} = GivenOut(allocated', id)
  BY <1>1, KeptSets
<1>3. QED BY <1>2 DEF RecordsAreKept, Kept

(* A new record in front, for a window that did not exist.                  *)
LEMMA RecordAdded ==
    ASSUME IInv, NEW w \in Window, NEW order \in ByteOrder, NEW r \in Record,
           peer[w] = Unknown, peer' = [peer EXCEPT ![w] = order],
           r.accept_win = w, r.byte_order = Unknown,
           clients' = Cons(r, clients)
    PROVE  /\ clients' \in Seq(Record)
           /\ peer' \in [Window -> ByteOrder \cup {Unknown}]
           /\ OneRecord' /\ RecordHasWindow' /\ WindowHasRecord' /\ ByteOrderIsPeers'
<1> USE DEF IInv
<1>1. clients \in Seq(Record) /\ peer \in [Window -> ByteOrder \cup {Unknown}]
  BY DEF TypeOK
<1>2. /\ clients' \in Seq(Record)
      /\ Len(clients') = Len(clients) + 1 /\ Len(clients) \in Nat
      /\ DOMAIN clients = 1 .. Len(clients)
      /\ DOMAIN clients' = 1 .. Len(clients) + 1
      /\ clients'[1] = r
      /\ \A k \in 1 .. Len(clients) : clients'[k + 1] = clients[k]
  <2>1. /\ clients' \in Seq(Record)
        /\ Len(clients') = Len(clients) + 1
        /\ clients'[1] = r
        /\ \A k \in 1 .. Len(clients) : clients'[k + 1] = clients[k]
    <3>1. clients' \in Seq(Record) /\ Prepended(clients', r, clients)
      BY <1>1, ConsFacts
    <3>2. QED BY <3>1, Zenon DEF Prepended
  <2>2. QED BY <1>1, <2>1
<1>3. /\ peer' \in [Window -> ByteOrder \cup {Unknown}]
      /\ peer'[w] = order /\ order # Unknown
      /\ \A v \in Window \ {w} : peer'[v] = peer[v]
  BY <1>1
<1>4. ASSUME NEW i \in DOMAIN clients'
      PROVE  \/ i = 1 /\ clients'[i] = r
             \/ /\ i # 1 /\ i - 1 \in DOMAIN clients /\ clients'[i] = clients[i - 1]
                /\ clients[i - 1].accept_win \in Window \ {w}
  <2>1. CASE i = 1
    BY <1>2, <2>1
  <2>2. CASE i # 1
    <3>1. i - 1 \in 1 .. Len(clients) /\ (i - 1) + 1 = i
      BY <1>2, <2>2
    <3>2. clients[i - 1] \in Record /\ clients[i - 1].accept_win # w
      BY <1>1, <1>2, <3>1 DEF RecordHasWindow
    <3>3. QED BY <1>2, <2>2, <3>1, <3>2 DEF Record
  <2>3. QED BY <2>1, <2>2
<1>5. OneRecord'
  <2> SUFFICES ASSUME NEW i \in DOMAIN clients', NEW j \in DOMAIN clients',
                      clients'[i].accept_win = clients'[j].accept_win
               PROVE  i = j
    BY DEF OneRecord
  <2>1. CASE i # 1 /\ j # 1
    <3>1. i - 1 = j - 1
      BY <1>4, <2>1 DEF OneRecord
    <3>2. QED BY <1>2, <3>1
  <2>2. QED BY <1>4, <2>1
<1>6. RecordHasWindow'
  BY <1>3, <1>4 DEF RecordHasWindow
<1>7. WindowHasRecord'
  <2> SUFFICES ASSUME NEW v \in Window, peer'[v] # Unknown
               PROVE  \E i \in DOMAIN clients' : clients'[i].accept_win = v
    BY DEF WindowHasRecord
  <2>1. CASE v = w
    BY <1>2, <2>1
  <2>2. CASE v # w
    <3>1. PICK i \in DOMAIN clients : clients[i].accept_win = v
      BY <1>3, <2>2 DEF WindowHasRecord
    <3>2. i + 1 \in DOMAIN clients' /\ clients'[i + 1] = clients[i]
      BY <1>2
    <3>3. QED BY <3>1, <3>2
  <2>3. QED BY <2>1, <2>2
<1>8. ByteOrderIsPeers'
  BY <1>3, <1>4 DEF ByteOrderIsPeers
<1>9. QED BY <1>2, <1>3, <1>5, <1>6, <1>7, <1>8

(* A record unlinked, and its window destroyed.                             *)
LEMMA RecordRemoved ==
    ASSUME IInv, NEW i \in DOMAIN clients,
           clients' = RemoveAt(clients, i),
           peer' = [peer EXCEPT ![clients[i].accept_win] = Unknown]
    PROVE  /\ clients' \in Seq(Record)
           /\ peer' \in [Window -> ByteOrder \cup {Unknown}]
           /\ OneRecord' /\ RecordHasWindow' /\ WindowHasRecord' /\ ByteOrderIsPeers'
<1> USE DEF IInv
<1> DEFINE from(k) == IF k < i THEN k ELSE k + 1
           w == clients[i].accept_win
<1>1. /\ clients \in Seq(Record) /\ peer \in [Window -> ByteOrder \cup {Unknown}]
      /\ DOMAIN clients = 1 .. Len(clients) /\ Len(clients) \in Nat
      /\ i \in 1 .. Len(clients) /\ w \in Window
  <2>1. clients \in Seq(Record) /\ peer \in [Window -> ByteOrder \cup {Unknown}]
    BY DEF TypeOK
  <2>2. DOMAIN clients = 1 .. Len(clients) /\ Len(clients) \in Nat
    BY <2>1
  <2>3. clients[i] \in Record
    BY <2>1
  <2>4. w \in Window
    BY <2>3 DEF Record
  <2>5. QED BY <2>1, <2>2, <2>4
<1>2. /\ clients' \in Seq(Record)
      /\ Len(clients') = Len(clients) - 1
      /\ \A k \in 1 .. Len(clients) - 1 : clients'[k] = IF k < i THEN clients[k] ELSE clients[k + 1]
  <2>1. clients' \in Seq(Record) /\ Shortened(clients', clients, i)
    BY <1>1, RemoveAtFacts
  <2>2. QED BY <2>1, Zenon DEF Shortened
<1>3. DOMAIN clients' = 1 .. Len(clients) - 1
  BY <1>2
<1>4. /\ peer' \in [Window -> ByteOrder \cup {Unknown}]
      /\ peer'[w] = Unknown
      /\ \A v \in Window \ {w} : peer'[v] = peer[v]
  BY <1>1
<1> HIDE DEF w
<1>5. ASSUME NEW k \in DOMAIN clients'
      PROVE  /\ from(k) \in DOMAIN clients /\ from(k) # i
             /\ clients'[k] = clients[from(k)]
             /\ clients[from(k)].accept_win \in Window \ {w}
  <2>1. /\ from(k) \in DOMAIN clients /\ from(k) # i
        /\ clients'[k] = clients[from(k)]
    BY <1>1, <1>2, <1>3
  <2>2. clients[from(k)] \in Record
    BY <1>1, <2>1
  <2>3. clients[from(k)].accept_win # w
    BY <1>1, <2>1 DEF OneRecord, w
  <2>4. QED BY <2>1, <2>2, <2>3 DEF Record
<1>6. \A k, l \in DOMAIN clients' : from(k) = from(l) => k = l
  BY <1>1, <1>3
<1>7. ASSUME NEW j \in DOMAIN clients, j # i
      PROVE  \E k \in DOMAIN clients' : clients'[k] = clients[j]
  <2>1. CASE j < i
    <3>1. j \in DOMAIN clients' /\ clients'[j] = clients[j]
      BY <1>1, <1>2, <1>3, <2>1
    <3>2. QED BY <3>1
  <2>2. CASE j > i
    <3>1. j - 1 \in 1 .. Len(clients) - 1 /\ ~ (j - 1 < i) /\ (j - 1) + 1 = j
      BY <1>1, <2>2
    <3>2. QED BY <1>2, <1>3, <3>1
  <2>3. QED BY <1>1, <1>7, <2>1, <2>2
<1> HIDE DEF from
<1>8. OneRecord'
  BY <1>5, <1>6 DEF OneRecord
<1>9. RecordHasWindow'
  BY <1>4, <1>5 DEF RecordHasWindow
<1>10. WindowHasRecord'
  <2> SUFFICES ASSUME NEW v \in Window, peer'[v] # Unknown
               PROVE  \E k \in DOMAIN clients' : clients'[k].accept_win = v
    BY DEF WindowHasRecord
  <2>1. v # w /\ peer[v] # Unknown
    BY <1>4
  <2>2. PICK j \in DOMAIN clients : clients[j].accept_win = v
    BY <2>1 DEF WindowHasRecord
  <2>3. QED BY <1>7, <2>1, <2>2 DEF w
<1>11. ByteOrderIsPeers'
  BY <1>4, <1>5 DEF ByteOrderIsPeers
<1>12. QED BY <1>2, <1>4, <1>8, <1>9, <1>10, <1>11

-----------------------------------------------------------------------------
(* Every step preserves the inductive invariant. *)

(* No library is connected at first.                                        *)
LEMMA InitInv == Init => IInv
<1> SUFFICES ASSUME Init PROVE IInv
  OBVIOUS
<1>1. TypeOK
  BY DEF Init, TypeOK, Ids
<1>2. OneRecord /\ RecordHasWindow /\ WindowHasRecord /\ ByteOrderIsPeers
  BY DEF Init, OneRecord, RecordHasWindow, WindowHasRecord, ByteOrderIsPeers
<1>3. CounterCounts
  BY DEF Init, CounterCounts
<1>4. RecordsAreKept
  <2>1. ASSUME NEW id \in Ids PROVE GivenOut(0, id) = {}
    BY DEF GivenOut
  <2>2. \A id \in Ids : Count(clients, WithId(id)) = 0 /\ Count(free_clients, WithId(id)) = 0
    BY CountEmpty DEF Init
  <2>3. \A id \in Ids : Cardinality(GivenOut(0, id)) = 0
    BY <2>1, FS_EmptySet
  <2>4. Kept(clients, free_clients, allocated)
    BY <2>2, <2>3 DEF Init, Kept
  <2>5. QED BY <1>1, <2>4, KeptIsCount
<1>5. QED BY <1>1, <1>2, <1>3, <1>4 DEF IInv

(* A library connects and gets the first free record.                       *)
LEMMA ReuseInv ==
    ASSUME IInv, NEW w \in Window, NEW order \in ByteOrder,
           peer[w] = Unknown, peer' = [peer EXCEPT ![w] = order],
           free_clients # <<>>,
           clients' = Cons(NewRecord(Head(free_clients), w), clients),
           free_clients' = Tail(free_clients),
           UNCHANGED <<connect_id, allocated>>
    PROVE  IInv'
<1> USE DEF IInv
<1> DEFINE old == Head(free_clients)
           r == NewRecord(old, w)
<1>1. /\ clients \in Seq(Record) /\ free_clients \in Seq(Record) /\ allocated \in Nat
      /\ old \in Record /\ Tail(free_clients) \in Seq(Record)
  BY DEF TypeOK
<1>2. /\ r \in Record /\ r.accept_win = w /\ r.byte_order = Unknown
      /\ r.connect_id = old.connect_id
  BY <1>1 DEF NewRecord, Record
<1> HIDE DEF r, old
<1>3. clients' = Cons(r, clients)
  BY DEF r, old
<1>4. /\ clients' \in Seq(Record)
      /\ peer' \in [Window -> ByteOrder \cup {Unknown}]
      /\ OneRecord' /\ RecordHasWindow' /\ WindowHasRecord' /\ ByteOrderIsPeers'
  BY <1>2, <1>3, RecordAdded
<1>5. TypeOK' /\ CounterCounts'
  BY <1>1, <1>4 DEF TypeOK, CounterCounts
<1>6. RecordsAreKept'
  <2>1. ASSUME NEW id \in Ids
        PROVE  Count(clients', WithId(id)) + Count(free_clients', WithId(id))
                  = Count(clients, WithId(id)) + Count(free_clients, WithId(id))
    <3>1. r \in WithId(id) <=> old \in WithId(id)
      BY <1>1, <1>2 DEF WithId
    <3>2. Count(clients', WithId(id))
            = Count(clients, WithId(id)) + (IF r \in WithId(id) THEN 1 ELSE 0)
      BY <1>1, <1>2, <1>3, CountCons
    <3>3. Count(free_clients, WithId(id))
            = Count(free_clients', WithId(id)) + (IF old \in WithId(id) THEN 1 ELSE 0)
      BY <1>1, CountTail DEF old
    <3>4. /\ Count(clients, WithId(id)) \in Nat
          /\ Count(free_clients', WithId(id)) \in Nat
      BY <1>1, CountType
    <3>5. QED BY <3>1, <3>2, <3>3, <3>4
  <2>2. Kept(clients, free_clients, allocated)
    BY KeptIsCount
  <2>3. Kept(clients', free_clients', allocated')
    BY <2>1, <2>2 DEF Kept
  <2>4. QED BY <1>5, <2>3, KeptIsCountNext
<1>7. QED BY <1>4, <1>5, <1>6

(* A library connects and a record is allocated for it.                     *)
LEMMA AllocateInv ==
    ASSUME IInv, NEW w \in Window, NEW order \in ByteOrder,
           peer[w] = Unknown, peer' = [peer EXCEPT ![w] = order],
           allocated' = allocated + 1,
           connect_id' = NextId,
           clients' = Cons(Allocated(NextId, w), clients),
           UNCHANGED free_clients
    PROVE  IInv'
<1> USE DEF IInv
<1> DEFINE r == Allocated(NextId, w)
<1>1. /\ clients \in Seq(Record) /\ free_clients \in Seq(Record)
      /\ allocated \in Nat /\ allocated' \in Nat
  BY DEF TypeOK
<1>2. NextId = (allocated + 1) % IdLimit /\ NextId \in Ids
  BY <1>1, NextResidue, DivMod DEF CounterCounts, NextId, Ids
<1>3. /\ r \in Record /\ r.accept_win = w /\ r.byte_order = Unknown
      /\ r.connect_id = NextId
  BY <1>2 DEF Allocated, Record
<1> HIDE DEF r
<1>4. clients' = Cons(r, clients)
  BY DEF r
<1>5. /\ clients' \in Seq(Record)
      /\ peer' \in [Window -> ByteOrder \cup {Unknown}]
      /\ OneRecord' /\ RecordHasWindow' /\ WindowHasRecord' /\ ByteOrderIsPeers'
  BY <1>3, <1>4, RecordAdded
<1>6. TypeOK' /\ CounterCounts'
  BY <1>1, <1>2, <1>5 DEF TypeOK, CounterCounts
<1>7. RecordsAreKept'
  <2>1. ASSUME NEW id \in Ids
        PROVE  Count(clients', WithId(id)) + Count(free_clients', WithId(id))
                  = Cardinality(GivenOut(allocated', id))
    <3>1. r \in WithId(id) <=> (allocated + 1) % IdLimit = id
      BY <1>2, <1>3 DEF WithId
    <3>2. Count(clients', WithId(id))
            = Count(clients, WithId(id)) + (IF r \in WithId(id) THEN 1 ELSE 0)
      BY <1>1, <1>3, <1>4, CountCons
    <3>3. Count(clients, WithId(id)) + Count(free_clients, WithId(id))
            = Cardinality(GivenOut(allocated, id))
      BY KeptIsCount DEF Kept
    <3>4. /\ Cardinality(GivenOut(allocated, id)) \in Nat
          /\ Cardinality(GivenOut(allocated + 1, id)) = Cardinality(GivenOut(allocated, id))
                 + (IF (allocated + 1) % IdLimit = id THEN 1 ELSE 0)
      BY <1>1, GivenFacts
    <3>5. Count(clients, WithId(id)) \in Nat /\ Count(free_clients, WithId(id)) \in Nat
      BY <1>1, CountType
    <3>6. QED BY <3>1, <3>2, <3>3, <3>4, <3>5
  <2>2. Kept(clients', free_clients', allocated')
    BY <2>1 DEF Kept
  <2>3. QED BY <1>6, <2>2, KeptIsCountNext
<1>8. QED BY <1>5, <1>6, <1>7

(* _Xi18nNewClient, with a record from free_clients or a new one.           *)
LEMMA NewXClientInv ==
    ASSUME IInv, NEW w \in Window, NEW order \in ByteOrder, NewXClient(w, order)
    PROVE  IInv'
  BY ReuseInv, AllocateInv DEF NewXClient

(* XIM_CONNECT sets the byte order of the record of its window only.        *)
LEMMA ReadConnectInv ==
    ASSUME IInv, NEW w \in Window, ReadConnect(w)
    PROVE  IInv'
<1> USE DEF IInv
<1> DEFINE i == ClientOf(w)
           b == IF clients[i].byte_order = Unknown THEN peer[w] ELSE clients[i].byte_order
           r == [clients[i] EXCEPT !.byte_order = b]
<1>1. i \in DOMAIN clients /\ clients[i].accept_win = w
  BY ClientOfFacts DEF ReadConnect
<1>2. /\ clients' = [clients EXCEPT ![i] = r]
      /\ UNCHANGED <<free_clients, connect_id, allocated, peer>>
  BY DEF ReadConnect
<1>3. /\ clients \in Seq(Record) /\ free_clients \in Seq(Record) /\ allocated \in Nat
      /\ peer \in [Window -> ByteOrder \cup {Unknown}]
  BY DEF TypeOK
<1> HIDE DEF i
<1>4. /\ clients[i] \in Record /\ r \in Record /\ r.accept_win = w
      /\ r.connect_id = clients[i].connect_id
      /\ r.byte_order = IF clients[i].byte_order = Unknown THEN peer[w]
                        ELSE clients[i].byte_order
  <2>1. clients[i] \in Record
    BY <1>1, <1>3
  <2>2. b \in ByteOrder \cup {Unknown}
    BY <1>3, <2>1 DEF Record
  <2> HIDE DEF b
  <2>3. r \in Record /\ r.accept_win = w /\ r.connect_id = clients[i].connect_id /\ r.byte_order = b
    BY <1>1, <2>1, <2>2 DEF Record
  <2>4. QED BY <2>1, <2>3 DEF b
<1> HIDE DEF r
<1>5. /\ clients' \in Seq(Record) /\ DOMAIN clients' = DOMAIN clients
      /\ clients'[i] = r
      /\ \A k \in DOMAIN clients \ {i} : clients'[k] = clients[k]
  BY <1>1, <1>2, <1>3, <1>4
<1>6. \A k \in DOMAIN clients : /\ clients'[k].accept_win = clients[k].accept_win
                                /\ clients'[k].connect_id = clients[k].connect_id
  BY <1>1, <1>4, <1>5
<1>7. TypeOK' /\ CounterCounts'
  BY <1>2, <1>5 DEF TypeOK, CounterCounts
<1>8. OneRecord' /\ RecordHasWindow' /\ WindowHasRecord'
  BY <1>2, <1>5, <1>6 DEF OneRecord, RecordHasWindow, WindowHasRecord
<1>9. ByteOrderIsPeers'
  <2> SUFFICES ASSUME NEW k \in DOMAIN clients
               PROVE  clients'[k].byte_order \in {Unknown, peer[clients'[k].accept_win]}
    BY <1>2, <1>5 DEF ByteOrderIsPeers
  <2>1. CASE k = i
    BY <1>1, <1>4, <1>5, <2>1 DEF ByteOrderIsPeers
  <2>2. CASE k # i
    BY <1>5, <2>2 DEF ByteOrderIsPeers
  <2>3. QED BY <2>1, <2>2
<1>10. RecordsAreKept'
  <2>1. \A id \in Ids : {k \in DOMAIN clients' : clients'[k].connect_id = id}
                            = {k \in DOMAIN clients : clients[k].connect_id = id}
    BY <1>5, <1>6
  <2>2. QED BY <1>2, <2>1 DEF RecordsAreKept
<1>11. QED BY <1>7, <1>8, <1>9, <1>10

(* The record found for the id of the sender goes to the free records.      *)
LEMMA HandleDisconnectInv ==
    ASSUME IInv, NEW w \in Window, HandleDisconnect(w)
    PROVE  IInv'
<1> USE DEF IInv
<1> DEFINE i == FindClient(clients[ClientOf(w)].connect_id)
           r == clients[i]
<1>1. ClientOf(w) \in DOMAIN clients
  BY ClientOfFacts DEF HandleDisconnect
<1>2. i \in DOMAIN clients
  BY <1>1, FindClientFacts
<1>3. /\ clients' = RemoveAt(clients, i)
      /\ free_clients' = Cons(r, free_clients)
      /\ peer' = [peer EXCEPT ![clients[i].accept_win] = Unknown]
      /\ UNCHANGED <<connect_id, allocated>>
  BY DEF HandleDisconnect, Unlink, GiveBack
<1> HIDE DEF i
<1>4. /\ clients \in Seq(Record) /\ free_clients \in Seq(Record) /\ allocated \in Nat
      /\ i \in 1 .. Len(clients) /\ r \in Record
  BY <1>2 DEF TypeOK
<1> HIDE DEF r
<1>5. /\ clients' \in Seq(Record)
      /\ peer' \in [Window -> ByteOrder \cup {Unknown}]
      /\ OneRecord' /\ RecordHasWindow' /\ WindowHasRecord' /\ ByteOrderIsPeers'
  BY <1>2, <1>3, RecordRemoved
<1>6. free_clients' \in Seq(Record)
  BY <1>3, <1>4, ConsFacts
<1>7. TypeOK' /\ CounterCounts'
  BY <1>3, <1>5, <1>6 DEF TypeOK, CounterCounts
<1>8. RecordsAreKept'
  <2>1. ASSUME NEW id \in Ids
        PROVE  Count(clients', WithId(id)) + Count(free_clients', WithId(id))
                  = Count(clients, WithId(id)) + Count(free_clients, WithId(id))
    <3>1. Count(clients, WithId(id))
            = Count(clients', WithId(id)) + (IF r \in WithId(id) THEN 1 ELSE 0)
      BY <1>3, <1>4, CountRemoveAt DEF r
    <3>2. Count(free_clients', WithId(id))
            = Count(free_clients, WithId(id)) + (IF r \in WithId(id) THEN 1 ELSE 0)
      BY <1>3, <1>4, CountCons
    <3>3. Count(clients', WithId(id)) \in Nat /\ Count(free_clients, WithId(id)) \in Nat
      BY <1>4, <1>5, CountType
    <3>4. QED BY <3>1, <3>2, <3>3
  <2>2. Kept(clients, free_clients, allocated)
    BY KeptIsCount
  <2>3. Kept(clients', free_clients', allocated')
    BY <1>3, <2>1, <2>2 DEF Kept
  <2>4. QED BY <1>7, <2>3, KeptIsCountNext
<1>9. QED BY <1>5, <1>7, <1>8

(* IInv is inductive: it holds initially and every action preserves it.     *)
THEOREM Inductive == Spec => []IInv
<1>1. Init => IInv
  BY InitInv
<1>2. IInv /\ [Next]_vars => IInv'
  <2> SUFFICES ASSUME IInv, [Next]_vars PROVE IInv'
    OBVIOUS
  <2>1. ASSUME NEW w \in Window, NEW order \in ByteOrder, NewXClient(w, order)
        PROVE  IInv'
    BY <2>1, NewXClientInv
  <2>2. ASSUME NEW w \in Window, ReadConnect(w) PROVE IInv'
    BY <2>2, ReadConnectInv
  <2>3. ASSUME NEW w \in Window, HandleDisconnect(w) PROVE IInv'
    BY <2>3, HandleDisconnectInv
  <2>4. CASE UNCHANGED vars
    BY <2>4 DEF vars, IInv, TypeOK, OneRecord, RecordHasWindow, WindowHasRecord,
                ByteOrderIsPeers, CounterCounts, RecordsAreKept
  <2>5. QED BY <2>1, <2>2, <2>3, <2>4 DEF Next
<1>3. QED BY <1>1, <1>2, PTL DEF Spec

(* The variables keep their types; an id fits into 16 bits.                 *)
THEOREM TypeCorrect == Spec => []TypeOK
<1>1. IInv => TypeOK
  BY DEF IInv
<1>2. QED BY <1>1, Inductive, PTL

(* NewXClient and Xi18nXDisconnect keep one record for every window that    *)
(* exists, and no other, even after ids have come round.                    *)
LEMMA WindowsCounted == IInv => WindowsHaveRecords
<1> SUFFICES ASSUME IInv, NEW w \in Window
             PROVE  Cardinality({i \in DOMAIN clients : clients[i].accept_win = w})
                        = IF peer[w] = Unknown THEN 0 ELSE 1
  BY DEF WindowsHaveRecords
<1> DEFINE I == {i \in DOMAIN clients : clients[i].accept_win = w}
<1>1. CASE peer[w] = Unknown
  <2>1. I = {}
    BY <1>1 DEF IInv, RecordHasWindow
  <2>2. QED BY <1>1, <2>1, FS_EmptySet
<1>2. CASE peer[w] # Unknown
  <2>1. PICK i \in DOMAIN clients : clients[i].accept_win = w
    BY <1>2 DEF IInv, WindowHasRecord
  <2>2. I = {i}
    BY <2>1 DEF IInv, OneRecord
  <2>3. QED BY <1>2, <2>2, FS_Singleton
<1>3. QED BY <1>1, <1>2

(* However often libraries connect, leave and die and records are reused,   *)
(* every window the server listens on has exactly one record and no record  *)
(* is without its window: ReadXIMMessage finds the record of any message.   *)
THEOREM OneRecordPerWindow == Spec => []WindowsHaveRecords
  BY WindowsCounted, Inductive, PTL

(* _Xi18nNewClient and _Xi18nDeleteClient neither lose a record nor use one *)
(* for two connections at a time.                                           *)
THEOREM NoRecordLost == Spec => []RecordsAreKept
<1>1. IInv => RecordsAreKept
  BY DEF IInv
<1>2. QED BY <1>1, Inductive, PTL

(* ReadXIMMessage never reads a message in the byte order of the library    *)
(* that had the record before.                                              *)
THEOREM OwnByteOrder == Spec => []ByteOrderIsPeers
<1>1. IInv => ByteOrderIsPeers
  BY DEF IInv
<1>2. QED BY <1>1, Inductive, PTL

(* Up to 2^16 records, no two records in use have the same id: those given  *)
(* out are all different, and none is lost or in use twice.                 *)
LEMMA IdsDiffer ==
    ASSUME IInv, allocated <= IdLimit,
           NEW i \in DOMAIN clients, NEW j \in DOMAIN clients,
           clients[i].connect_id = clients[j].connect_id
    PROVE  i = j
<1> DEFINE id == clients[i].connect_id
<1>1. /\ clients \in Seq(Record) /\ free_clients \in Seq(Record) /\ allocated \in Nat
      /\ clients[i] \in Record /\ clients[j] \in Record
  BY DEF IInv, TypeOK
<1>2. id \in Ids /\ clients[i] \in WithId(id) /\ clients[j] \in WithId(id)
  BY <1>1 DEF Record, WithId
<1>3. Kept(clients, free_clients, allocated)
  BY KeptIsCount DEF IInv
<1> HIDE DEF id
<1>4. Cardinality(GivenOut(allocated, id)) <= 1
  BY <1>1, <1>2, GivenOnce
<1>5. Count(clients, WithId(id)) \in Nat /\ Count(free_clients, WithId(id)) \in Nat
  BY <1>1, CountType
<1>6. Count(clients, WithId(id)) <= 1
  BY <1>2, <1>3, <1>4, <1>5 DEF Kept
<1>7. QED BY <1>1, <1>2, <1>6, CountAtMostOne

(* Xi18nXSend answers the library the message came from, as long as no more *)
(* records were made than there are ids.                                    *)
LEMMA AnswerGoesBack == IInv => AnswersSender
<1> SUFFICES ASSUME IInv, allocated <= IdLimit, NEW w \in Window, peer[w] # Unknown
             PROVE  AnsweredWindow(w) = w
  BY DEF AnswersSender
<1> DEFINE i == ClientOf(w)
           j == FindClient(clients[i].connect_id)
<1>1. TypeOK /\ \E k \in DOMAIN clients : clients[k].accept_win = w
  BY DEF IInv, WindowHasRecord
<1>2. i \in DOMAIN clients /\ clients[i].accept_win = w
  BY <1>1, ClientOfFacts
<1>3. j \in DOMAIN clients /\ clients[j].connect_id = clients[i].connect_id
  BY <1>1, <1>2, FindClientFacts
<1> HIDE DEF i, j
<1>4. j = i
  BY <1>2, <1>3, IdsDiffer
<1>5. QED BY <1>2, <1>4 DEF AnsweredWindow, i, j

(* While no more records were allocated than there are connect ids, the     *)
(* answer to a message goes back to the window it came from:                *)
(* _Xi18nFindClient finds no other record with the connect id that          *)
(* FindClient saw.                                                          *)
THEOREM AnswersReachSender == Spec => []AnswersSender
  BY AnswerGoesBack, Inductive, PTL

-----------------------------------------------------------------------------
USE TransportAssumption

-----------------------------------------------------------------------------
(* The connections. *)

(* Sending and reading messages leave the table of connections alone, so    *)
(* all that is proved of ClientTable holds here.                            *)
THEOREM ImplementsClientTable == TransportSpec => Spec
<1>1. TransportInit => Init
  BY DEF TransportInit
<1>2. [TransportNext]_allVars => [Next]_vars
  BY DEF TransportNext, Connection, Send, Receive, allVars, vars
<1>3. QED BY <1>1, <1>2, PTL DEF TransportSpec, Spec

(* What ClientTable guarantees holds with the messages under way.           *)
LEMMA TableInvariant == TransportSpec => []IInv
  BY ImplementsClientTable, Inductive, PTL

(* The mail of a record's window is sent to a window.                       *)
LEMMA AnswerGoesSomewhere ==
    ASSUME TypeOK, NEW w \in Window, ClientOf(w) # 0
    PROVE  AnsweredWindow(w) \in Window
<1> DEFINE i == ClientOf(w)
           j == FindClient(clients[i].connect_id)
<1>1. i \in DOMAIN clients
  BY ClientOfFacts
<1>2. j \in DOMAIN clients
  BY <1>1, FindClientFacts
<1> HIDE DEF i, j
<1>3. clients[j] \in Record
  BY <1>2 DEF TypeOK
<1>4. QED BY <1>3 DEF AnsweredWindow, i, j, Record

-----------------------------------------------------------------------------
(* The inductive invariant. *)

Mail == [n : Nat, long : Nat]
Event == [format : {8}, message : Mail] \cup [format : {32}, atom : Numbers]
Box == [events : Seq(Event), property : [Numbers -> Seq(Mail)],
        unread : Seq(Mail), clashed : BOOLEAN, misread : BOOLEAN]

MailTypeOK == /\ sequence \in 0 .. Round + 1
              /\ made \in [sent : Nat, long : Nat]
              /\ mail \in [Window -> Box]

(* d long messages ago, with s the count now, number n can have been given. *)
(* The numbers come round after Round + 2 messages; 0 comes twice in it.    *)
Since(n, d, s) ==
    IF n = 0 THEN IF s = 0 THEN d = 1 \/ d > Round ELSE d >= s
    ELSE IF s > n THEN d >= s - n ELSE d >= s + Round + 2 - n

HeldSince(box, long, s) == \A n \in Numbers : \A i \in DOMAIN box.property[n] :
                               Since(n, long - box.property[n][i].long, s)

HeldApart(box) ==
    \A n \in Numbers : \A i \in 1 .. Len(box.property[n]) - 1 :
        \/ box.property[n][i + 1].long - box.property[n][i].long > Round
        \/ n = 0 /\ box.property[n][i + 1].long = box.property[n][i].long + 1

(* There is an event for each message not read.  Until two messages met in a *)
(* property, each event brings the message next in turn, and no two events  *)
(* name the same property.                                                  *)
AsMany(box) == Len(box.events) = Len(box.unread)

Brings(box, i) ==
    LET e == box.events[i]
    IN  /\ e.format = 8 => e.message = box.unread[i]
        /\ e.format = 32 => box.property[e.atom] = <<box.unread[i]>>

InTurn(box) ==
    \/ box.clashed
    \/ /\ ~box.misread
       /\ \A i \in DOMAIN box.events : Brings(box, i)
       /\ \A i, j \in DOMAIN box.events :
             box.events[i].format = 32 /\ box.events[j].format = 32
               /\ box.events[i].atom = box.events[j].atom => i = j

MailInv == /\ MailTypeOK
           /\ \A w \in Window : /\ HeldSince(mail[w], made.long, sequence)
                                /\ HeldApart(mail[w])
                                /\ AsMany(mail[w])
                                /\ InTurn(mail[w])

-----------------------------------------------------------------------------
(* The numbers of the properties. *)

(* A number given is far from the messages that may still lie under it, and *)
(* the count goes on as Since says.                                         *)
LEMMA SinceNext ==
    ASSUME NEW n \in Numbers, NEW d \in Int, NEW s \in 0 .. Round + 1, Since(n, d, s)
    PROVE  /\ Since(n, d + 1, IF s > Round THEN 0 ELSE s + 1)
           /\ n = (IF s > Round THEN 0 ELSE s) => d > Round \/ (n = 0 /\ d = 1)
  BY DEF Since, Numbers

(* The number just given out is the most recent one.                        *)
LEMMA SinceGiven ==
    ASSUME NEW s \in 0 .. Round + 1, NEW g, NEW next,
           g = IF s > Round THEN 0 ELSE s, next = IF s > Round THEN 0 ELSE s + 1
    PROVE  Since(g, 1, next)
  BY DEF Since

(* What HeldSince says of one message.                                      *)
LEMMA HeldAt ==
    ASSUME NEW box, NEW long, NEW s, HeldSince(box, long, s),
           NEW n \in Numbers, NEW i \in DOMAIN box.property[n]
    PROVE  Since(n, long - box.property[n][i].long, s)
  BY DEF HeldSince

(* A library that is sent nothing: its messages grow older.                 *)
LEMMA HeldSinceNext ==
    ASSUME NEW box \in Box, NEW long \in Nat, NEW s \in 0 .. Round + 1, HeldSince(box, long, s)
    PROVE  HeldSince(box, long + 1, IF s > Round THEN 0 ELSE s + 1)
<1> SUFFICES ASSUME NEW n \in Numbers, NEW i \in DOMAIN box.property[n]
             PROVE  Since(n, (long + 1) - box.property[n][i].long, IF s > Round THEN 0 ELSE s + 1)
  BY DEF HeldSince
<1>1. box.property[n] \in Seq(Mail)
  BY DEF Box
<1>2. box.property[n][i].long \in Nat
  <2>1. box.property[n][i] \in Mail
    BY <1>1
  <2>2. QED BY <2>1 DEF Mail
<1> DEFINE d == long - box.property[n][i].long
<1>3. d \in Int /\ (long + 1) - box.property[n][i].long = d + 1
  BY <1>2
<1>4. Since(n, d, s)
  BY DEF HeldSince
<1> HIDE DEF d
<1>5. Since(n, d + 1, IF s > Round THEN 0 ELSE s + 1)
  BY <1>3, <1>4, SinceNext
<1>6. QED BY <1>3, <1>5

-----------------------------------------------------------------------------
(* What each step does to the mail of one library. *)

(* No mail, nothing to go wrong.                                            *)
LEMMA NoMailFacts ==
    ASSUME NEW long, NEW s
    PROVE  /\ NoMail \in Box
           /\ HeldSince(NoMail, long, s) /\ HeldApart(NoMail) /\ AsMany(NoMail) /\ InTurn(NoMail)
<1>1. NoMail \in Box
  BY DEF NoMail, Box
<1>2. \A n \in Numbers : NoMail.property[n] = <<>>
  BY DEF NoMail
<1>3. HeldSince(NoMail, long, s) /\ HeldApart(NoMail)
  BY <1>2 DEF HeldSince, HeldApart
<1>4. NoMail.events = <<>> /\ NoMail.unread = <<>> /\ NoMail.misread = FALSE
  BY DEF NoMail
<1>5. AsMany(NoMail) /\ InTurn(NoMail)
  BY <1>4 DEF AsMany, InTurn
<1>6. QED BY <1>1, <1>3, <1>5

(* A short message is put behind the events on their way.                   *)
LEMMA PutShortFacts ==
    ASSUME NEW box \in Box, NEW m \in Mail, NEW long, NEW s,
           HeldSince(box, long, s), HeldApart(box), AsMany(box), InTurn(box)
    PROVE  /\ PutShort(box, m) \in Box
           /\ HeldSince(PutShort(box, m), long, s)
           /\ HeldApart(PutShort(box, m))
           /\ AsMany(PutShort(box, m))
           /\ InTurn(PutShort(box, m))
<1> DEFINE new == PutShort(box, m)
           e == InEvent(m)
<1>1. /\ box.events \in Seq(Event) /\ box.unread \in Seq(Mail)
      /\ box.property \in [Numbers -> Seq(Mail)]
      /\ box.clashed \in BOOLEAN /\ box.misread \in BOOLEAN
  BY DEF Box
<1>2. e \in Event /\ e.format = 8 /\ e.message = m
  BY DEF InEvent, Event
<1>3. /\ new = [box EXCEPT !.events = Append(box.events, e), !.unread = Append(box.unread, m)]
  BY DEF PutShort
<1> HIDE DEF e
<1>4. /\ Append(box.events, e) \in Seq(Event) /\ Append(box.unread, m) \in Seq(Mail)
  BY <1>1, <1>2
<1>5. /\ new \in Box
      /\ new.events = Append(box.events, e) /\ new.unread = Append(box.unread, m)
      /\ new.property = box.property
      /\ new.clashed = box.clashed /\ new.misread = box.misread
  BY <1>3, <1>4 DEF Box
<1> HIDE DEF new
<1>6. HeldSince(new, long, s) /\ HeldApart(new)
  BY <1>5 DEF HeldSince, HeldApart
<1>7. InTurn(new)
  <2> SUFFICES ASSUME ~box.clashed
               PROVE  /\ ~new.misread
                      /\ \A i \in DOMAIN new.events : Brings(new, i)
                      /\ \A i, j \in DOMAIN new.events :
                            new.events[i].format = 32 /\ new.events[j].format = 32
                              /\ new.events[i].atom = new.events[j].atom => i = j
    BY <1>5 DEF InTurn
  <2> DEFINE l == Len(box.events)
  <2>1. /\ ~box.misread /\ Len(box.unread) = l
        /\ \A i \in DOMAIN box.events : Brings(box, i)
        /\ \A i, j \in DOMAIN box.events :
              box.events[i].format = 32 /\ box.events[j].format = 32
                /\ box.events[i].atom = box.events[j].atom => i = j
    BY DEF InTurn, AsMany
  <2>2. /\ l \in Nat /\ DOMAIN box.events = 1 .. l
        /\ DOMAIN new.events = 1 .. l + 1 /\ Len(new.events) = l + 1
        /\ \A i \in 1 .. l : new.events[i] = box.events[i]
        /\ new.events[l + 1] = e
    BY <1>1, <1>2, <1>5
  <2> HIDE DEF l
  <2>3. /\ Len(new.unread) = l + 1
        /\ \A i \in 1 .. l : new.unread[i] = box.unread[i]
        /\ new.unread[l + 1] = m
    BY <1>1, <1>5, <2>1
  <2>4. ASSUME NEW i \in DOMAIN new.events PROVE Brings(new, i)
    <3>1. CASE i \in 1 .. l
      <4>1. /\ Brings(box, i) /\ new.events[i] = box.events[i]
            /\ new.unread[i] = box.unread[i] /\ new.property = box.property
        BY <1>5, <2>1, <2>2, <2>3, <3>1
      <4>2. QED BY <4>1, Zenon DEF Brings
    <3>2. CASE i = l + 1
      BY <1>2, <2>2, <2>3, <3>2 DEF Brings
    <3>3. QED BY <2>2, <3>1, <3>2
  <2>5. ASSUME NEW i \in DOMAIN new.events, new.events[i].format = 32
        PROVE  i \in 1 .. l
    BY <1>2, <2>2, <2>5
  <2>6. QED BY <1>5, <2>1, <2>2, <2>3, <2>4, <2>5
<1>8. AsMany(new)
  BY <1>1, <1>5 DEF AsMany
<1>9. QED BY <1>5, <1>6, <1>7, <1>8 DEF new

(* A long message is appended to the property the count is at.              *)
LEMMA PutLongFacts ==
    ASSUME NEW box \in Box, NEW m \in Mail, NEW a \in [given : Numbers, next : Nat],
           NEW s \in 0 .. Round + 1,
           a.given = IF s > Round THEN 0 ELSE s,
           a.next = IF s > Round THEN 0 ELSE s + 1,
           HeldSince(box, m.long, s), HeldApart(box), AsMany(box), InTurn(box)
    PROVE  /\ PutLong(box, m, a) \in Box
           /\ HeldSince(PutLong(box, m, a), m.long + 1, a.next)
           /\ HeldApart(PutLong(box, m, a))
           /\ AsMany(PutLong(box, m, a))
           /\ InTurn(PutLong(box, m, a))
<1> DEFINE new == PutLong(box, m, a)
           g == a.given
           e == InProperty(g)
           held == box.property[g]
<1>1. /\ box.events \in Seq(Event) /\ box.unread \in Seq(Mail)
      /\ box.property \in [Numbers -> Seq(Mail)]
      /\ box.clashed \in BOOLEAN /\ box.misread \in BOOLEAN
      /\ g \in Numbers
  BY DEF Box
<1>2. e \in Event /\ e.format = 32 /\ e.atom = g
  BY <1>1 DEF InProperty, Event
<1>3. new = [box EXCEPT !.property = [box.property EXCEPT ![g] = Append(held, m)],
                        !.events = Append(box.events, e),
                        !.unread = Append(box.unread, m),
                        !.clashed = box.clashed \/ held # <<>>]
  BY DEF PutLong
<1> HIDE DEF e
<1>4. /\ Append(box.events, e) \in Seq(Event) /\ Append(box.unread, m) \in Seq(Mail)
      /\ [box.property EXCEPT ![g] = Append(held, m)] \in [Numbers -> Seq(Mail)]
      /\ held \in Seq(Mail)
  BY <1>1, <1>2
<1>5. /\ new \in Box
      /\ new.events = Append(box.events, e) /\ new.unread = Append(box.unread, m)
      /\ new.property = [box.property EXCEPT ![g] = Append(held, m)]
      /\ new.clashed = (box.clashed \/ held # <<>>)
      /\ new.misread = box.misread
  <2> DEFINE p == [box.property EXCEPT ![g] = Append(held, m)]
             c == box.clashed \/ held # <<>>
             es == Append(box.events, e)
             us == Append(box.unread, m)
  <2>1. /\ es \in Seq(Event) /\ us \in Seq(Mail) /\ p \in [Numbers -> Seq(Mail)] /\ c \in BOOLEAN
        /\ new = [box EXCEPT !.property = p, !.events = es, !.unread = us, !.clashed = c]
    BY <1>3, <1>4
  <2> HIDE DEF p, c, es, us, new
  <2>2. /\ new \in Box /\ new.events = es /\ new.unread = us
        /\ new.property = p /\ new.clashed = c /\ new.misread = box.misread
    BY <2>1 DEF Box
  <2>3. QED BY <2>2 DEF p, c, es, us
<1> HIDE DEF new
<1>6. /\ new.property[g] = Append(held, m)
      /\ \A n \in Numbers \ {g} : new.property[n] = box.property[n]
  BY <1>1, <1>5
<1>7. /\ Len(held) \in Nat /\ DOMAIN held = 1 .. Len(held)
      /\ DOMAIN new.property[g] = 1 .. Len(held) + 1
      /\ Len(new.property[g]) = Len(held) + 1
      /\ \A i \in 1 .. Len(held) : new.property[g][i] = held[i]
      /\ new.property[g][Len(held) + 1] = m
  BY <1>4, <1>6
<1>8. m.long \in Nat /\ \A i \in 1 .. Len(held) : held[i].long \in Nat
  <2>1. \A i \in 1 .. Len(held) : held[i] \in Mail
    BY <1>4
  <2>2. QED BY <2>1 DEF Mail
<1>9. HeldSince(box, m.long + 1, a.next)
  BY <1>8, HeldSinceNext
<1>10. HeldSince(new, m.long + 1, a.next)
  <2> SUFFICES ASSUME NEW n \in Numbers, NEW i \in DOMAIN new.property[n]
               PROVE  Since(n, (m.long + 1) - new.property[n][i].long, a.next)
    BY DEF HeldSince
  <2> DEFINE l == Len(held)
             q == new.property[g]
  <2>0. /\ l \in Nat /\ DOMAIN q = 1 .. l + 1 /\ q[l + 1] = m
        /\ \A k \in 1 .. l : q[k] = held[k]
        /\ DOMAIN held = 1 .. l
    BY <1>7
  <2>1. CASE n # g
    <3>1. new.property[n] = box.property[n]
      BY <1>6, <2>1
    <3>2. i \in DOMAIN box.property[n] /\ n \in Numbers
      BY <3>1, Zenon
    <3>3. Since(n, (m.long + 1) - box.property[n][i].long, a.next)
      BY <1>9, <3>2, HeldAt
    <3>4. QED BY <3>1, <3>3, Zenon
  <2> HIDE DEF l, q
  <2>2. CASE n = g /\ i \in 1 .. l
    <3>1. i \in DOMAIN box.property[g] /\ q[i] = held[i] /\ new.property[n] = q
      BY <2>0, <2>2 DEF q
    <3>2. Since(g, (m.long + 1) - held[i].long, a.next)
      BY <1>1, <1>9, <3>1, HeldAt
    <3>3. QED BY <2>2, <3>1, <3>2, Zenon
  <2>3. CASE n = g /\ i = l + 1
    <3>1. new.property[n][i] = m
      BY <2>0, <2>3 DEF q
    <3>2. (m.long + 1) - m.long = 1
      BY <1>8
    <3>3. Since(g, 1, a.next)
      BY SinceGiven
    <3>4. QED BY <2>3, <3>1, <3>2, <3>3, Zenon
  <2>4. i \in 1 .. l \/ i = l + 1 \/ n # g
    BY <2>0 DEF q
  <2>5. QED BY <2>1, <2>2, <2>3, <2>4
<1>11. HeldApart(new)
  <2> SUFFICES ASSUME NEW n \in Numbers, NEW i \in 1 .. Len(new.property[n]) - 1
               PROVE  \/ new.property[n][i + 1].long - new.property[n][i].long > Round
                      \/ n = 0 /\ new.property[n][i + 1].long = new.property[n][i].long + 1
    BY DEF HeldApart
  <2> DEFINE l == Len(held)
             q == new.property[g]
  <2>0. /\ l \in Nat /\ Len(q) = l + 1 /\ q[l + 1] = m
        /\ \A k \in 1 .. l : q[k] = held[k]
        /\ \A k \in 1 .. l - 1 :
              \/ held[k + 1].long - held[k].long > Round
              \/ g = 0 /\ held[k + 1].long = held[k].long + 1
    BY <1>1, <1>7 DEF HeldApart
  <2>1. CASE n # g
    BY <1>6, <2>1 DEF HeldApart
  <2> HIDE DEF l, q
  <2>2. CASE n = g /\ i # l
    <3>0. l \in Nat /\ Len(new.property[n]) = l + 1
      BY <2>0, <2>2 DEF q
    <3>1. i \in 1 .. l - 1 /\ i \in 1 .. l /\ i + 1 \in 1 .. l
      BY <2>2, <3>0
    <3>2. q[i] = held[i] /\ q[i + 1] = held[i + 1]
      BY <2>0, <3>1
    <3>3. \/ held[i + 1].long - held[i].long > Round
          \/ g = 0 /\ held[i + 1].long = held[i].long + 1
      BY <2>0, <3>1
    <3>4. new.property[n] = q /\ n = g
      BY <2>2 DEF q
    <3>5. QED BY <3>2, <3>3, <3>4, Zenon
  <2>3. CASE n = g /\ i = l
    <3>0. i \in 1 .. Len(new.property[n]) - 1 /\ Len(new.property[n]) = l + 1 /\ l \in Nat
      BY <2>0, <2>3 DEF q
    <3>1. i \in 1 .. l /\ i \in DOMAIN box.property[g]
      BY <1>7, <2>3, <3>0 DEF l
    <3> DEFINE d == m.long - held[i].long
    <3>2. d \in Int /\ Since(g, d, s) /\ m.long \in Nat /\ held[i].long \in Nat
      BY <1>1, <1>7, <1>8, <3>1, SMTT(30) DEF HeldSince, l
    <3>3. d > Round \/ (g = 0 /\ d = 1)
      <4> HIDE DEF d
      <4>1. QED BY <1>1, <3>2, SinceNext
    <3>4. q[i + 1] = m /\ q[i] = held[i] /\ new.property[n] = q /\ n = g
      BY <2>0, <2>3, <3>1 DEF q
    <3>5. d > Round \/ (g = 0 /\ m.long = held[i].long + 1)
      BY <3>2, <3>3
    <3>6. QED BY <3>4, <3>5, Zenon
  <2>4. QED BY <2>2, <2>3, <2>1
<1>12. InTurn(new)
  <2> SUFFICES ASSUME ~box.clashed, held = <<>>
               PROVE  /\ ~new.misread
                      /\ \A i \in DOMAIN new.events : Brings(new, i)
                      /\ \A i, j \in DOMAIN new.events :
                            new.events[i].format = 32 /\ new.events[j].format = 32
                              /\ new.events[i].atom = new.events[j].atom => i = j
    BY <1>5 DEF InTurn
  <2> DEFINE l == Len(box.events)
  <2>1. /\ ~box.misread /\ Len(box.unread) = l
        /\ \A i \in DOMAIN box.events : Brings(box, i)
        /\ \A i, j \in DOMAIN box.events :
              box.events[i].format = 32 /\ box.events[j].format = 32
                /\ box.events[i].atom = box.events[j].atom => i = j
    BY DEF InTurn, AsMany
  <2>2. /\ l \in Nat /\ DOMAIN box.events = 1 .. l
        /\ DOMAIN new.events = 1 .. l + 1 /\ Len(new.events) = l + 1
        /\ \A i \in 1 .. l : new.events[i] = box.events[i]
        /\ new.events[l + 1] = e
    BY <1>1, <1>2, <1>5, SMTT(30)
  <2> HIDE DEF l
  <2>3. /\ Len(new.unread) = l + 1
        /\ \A i \in 1 .. l : new.unread[i] = box.unread[i]
        /\ new.unread[l + 1] = m
    BY <1>1, <1>5, <2>1, SMTT(30)
  <2>4. new.property[g] = <<m>>
    BY <1>6
  <2>5. ASSUME NEW i \in 1 .. l, box.events[i].format = 32
        PROVE  /\ box.events[i].atom \in Numbers \ {g}
               /\ box.property[box.events[i].atom] = <<box.unread[i]>>
    <3>1. box.events[i] \in Event
      BY <1>1, <2>2
    <3>2. box.events[i].atom \in Numbers
      BY <2>5, <3>1 DEF Event
    <3>3. box.property[box.events[i].atom] = <<box.unread[i]>>
      BY <2>1, <2>2, <2>5 DEF Brings
    <3>4. <<box.unread[i]>> # <<>>
      OBVIOUS
    <3>5. QED BY <3>2, <3>3, <3>4
  <2>6. ASSUME NEW i \in DOMAIN new.events PROVE Brings(new, i)
    <3>1. CASE i \in 1 .. l
      <4>1. /\ Brings(box, i) /\ new.events[i] = box.events[i]
            /\ new.unread[i] = box.unread[i]
        BY <2>1, <2>2, <2>3, <3>1
      <4>2. box.events[i].format = 32 =>
                new.property[box.events[i].atom] = box.property[box.events[i].atom]
        BY <1>6, <2>5, <3>1
      <4>3. QED BY <4>1, <4>2 DEF Brings
    <3>2. CASE i = l + 1
      BY <1>2, <2>2, <2>3, <2>4, <3>2 DEF Brings
    <3>3. QED BY <2>2, <3>1, <3>2
  <2>7. ASSUME NEW i \in DOMAIN new.events, NEW j \in DOMAIN new.events,
               new.events[i].format = 32, new.events[j].format = 32,
               new.events[i].atom = new.events[j].atom
        PROVE  i = j
    <3>1. CASE i \in 1 .. l /\ j \in 1 .. l
      BY <2>1, <2>2, <2>7, <3>1, SMTT(30)
    <3>2. CASE i \in 1 .. l /\ j = l + 1
      BY <1>2, <2>2, <2>5, <2>7, <3>2
    <3>3. CASE i = l + 1 /\ j \in 1 .. l
      BY <1>2, <2>2, <2>5, <2>7, <3>3
    <3>4. QED BY <2>2, <3>1, <3>2, <3>3
  <2>8. QED BY <1>5, <2>1, <2>2, <2>3, <2>6, <2>7
<1>13. AsMany(new)
  BY <1>1, <1>5 DEF AsMany
<1>14. QED BY <1>5, <1>10, <1>11, <1>12, <1>13 DEF new

(* A library reads its next event.                                          *)
LEMMA ReadFacts ==
    ASSUME NEW box \in Box, NEW new \in Box, NEW long, NEW s,
           box.events # <<>>,
           new.events = Tail(box.events),
           new.property = IF Head(box.events).format = 8 THEN box.property
                          ELSE [box.property EXCEPT ![Head(box.events).atom] = <<>>],
           new.unread = Tail(box.unread),
           new.clashed = box.clashed,
           new.misread = (box.misread \/ Given(box, Head(box.events)) # <<Head(box.unread)>>),
           HeldSince(box, long, s), HeldApart(box), AsMany(box), InTurn(box)
    PROVE  HeldSince(new, long, s) /\ HeldApart(new) /\ AsMany(new) /\ InTurn(new)
<1> DEFINE e == box.events[1]
           l == Len(box.events)
<1>1. /\ box.events \in Seq(Event) /\ box.unread \in Seq(Mail)
      /\ box.property \in [Numbers -> Seq(Mail)]
      /\ box.clashed \in BOOLEAN /\ box.misread \in BOOLEAN
  BY DEF Box
<1>2. /\ l \in Nat \ {0} /\ Head(box.events) = e /\ e \in Event
      /\ DOMAIN box.events = 1 .. l
      /\ DOMAIN new.events = 1 .. l - 1 /\ Len(new.events) = l - 1
      /\ \A i \in 1 .. l - 1 : new.events[i] = box.events[i + 1]
  BY <1>1
<1> HIDE DEF l
<1>3. /\ Len(box.unread) = l /\ Head(box.unread) = box.unread[1]
      /\ Len(new.unread) = l - 1
      /\ \A i \in 1 .. l - 1 : new.unread[i] = box.unread[i + 1]
  <2>1. Len(box.unread) = l
    BY DEF AsMany, l
  <2>2. box.unread # <<>>
    BY <1>1, <1>2, <2>1
  <2>3. QED BY <1>1, <1>2, <2>1, <2>2
<1> HIDE DEF e
<1>4. e.format \in {8, 32} /\ (e.format = 32 => e.atom \in Numbers)
  BY <1>2 DEF Event
<1>5. \A n \in Numbers : new.property[n] \in {<<>>, box.property[n]}
  BY <1>1, <1>2, <1>4
<1>6. HeldSince(new, long, s)
  <2> SUFFICES ASSUME NEW n \in Numbers, NEW i \in DOMAIN new.property[n]
               PROVE  Since(n, long - new.property[n][i].long, s)
    BY DEF HeldSince
  <2>1. new.property[n] # <<>>
    OBVIOUS
  <2>2. new.property[n] = box.property[n]
    BY <1>5, <2>1
  <2>3. QED BY <2>2 DEF HeldSince
<1>7. HeldApart(new)
  <2> SUFFICES ASSUME NEW n \in Numbers, NEW i \in 1 .. Len(new.property[n]) - 1
               PROVE  \/ new.property[n][i + 1].long - new.property[n][i].long > Round
                      \/ n = 0 /\ new.property[n][i + 1].long = new.property[n][i].long + 1
    BY DEF HeldApart
  <2>1. new.property[n] # <<>>
    OBVIOUS
  <2>2. new.property[n] = box.property[n]
    BY <1>5, <2>1
  <2>3. QED BY <2>2 DEF HeldApart
<1>8. AsMany(new)
  BY <1>2, <1>3 DEF AsMany
<1>9. InTurn(new)
  <2> SUFFICES ASSUME ~box.clashed
               PROVE  /\ ~new.misread
                      /\ \A i \in DOMAIN new.events : Brings(new, i)
                      /\ \A i, j \in DOMAIN new.events :
                            new.events[i].format = 32 /\ new.events[j].format = 32
                              /\ new.events[i].atom = new.events[j].atom => i = j
    BY DEF InTurn
  <2>1. /\ ~box.misread
        /\ \A i \in DOMAIN box.events : Brings(box, i)
        /\ \A i, j \in DOMAIN box.events :
              box.events[i].format = 32 /\ box.events[j].format = 32
                /\ box.events[i].atom = box.events[j].atom => i = j
    BY DEF InTurn
  <2>2. Brings(box, 1)
    BY <1>2, <2>1
  <2>3. Given(box, e) = <<box.unread[1]>>
    <3>0. /\ e.format = 8 => e.message = box.unread[1]
          /\ e.format = 32 => box.property[e.atom] = <<box.unread[1]>>
      BY <2>2 DEF Brings, e
    <3>1. CASE e.format = 8
      BY <3>0, <3>1 DEF Given
    <3>2. CASE e.format = 32
      <4>1. box.property[e.atom] = <<box.unread[1]>>
        BY <3>0, <3>2
      <4>2. QED BY <3>2, <4>1 DEF Given
    <3>3. QED BY <1>4, <3>1, <3>2
  <2>4. ~new.misread
    BY <1>2, <1>3, <2>1, <2>3
  <2>5. ASSUME NEW i \in DOMAIN new.events PROVE Brings(new, i)
    <3>1. /\ i + 1 \in DOMAIN box.events /\ i + 1 # 1
          /\ new.events[i] = box.events[i + 1]
          /\ new.unread[i] = box.unread[i + 1]
      BY <1>2, <1>3
    <3>2. Brings(box, i + 1)
      BY <2>1, <3>1
    <3>3. ASSUME new.events[i].format = 32
          PROVE  new.property[new.events[i].atom] = box.property[new.events[i].atom]
      <4>1. new.events[i] \in Event
        BY <1>1, <3>1
      <4>2. new.events[i].atom \in Numbers
        BY <3>3, <4>1 DEF Event
      <4>3. e.format = 32 => e.atom # new.events[i].atom
        <5>1. /\ 1 \in DOMAIN box.events /\ box.events[1] = e
              /\ box.events[i + 1].format = 32
              /\ box.events[i + 1].atom = new.events[i].atom
          BY <1>2, <3>1, <3>3 DEF e
        <5>2. \A j, k \in DOMAIN box.events :
                 box.events[j].format = 32 /\ box.events[k].format = 32
                   /\ box.events[j].atom = box.events[k].atom => j = k
          BY <2>1
        <5> HIDE DEF e
        <5>3. QED BY <3>1, <5>1, <5>2
      <4>4. QED BY <1>1, <1>2, <1>4, <4>2, <4>3
    <3>4. QED BY <3>1, <3>2, <3>3 DEF Brings
  <2>6. ASSUME NEW i \in DOMAIN new.events, NEW j \in DOMAIN new.events,
               new.events[i].format = 32, new.events[j].format = 32,
               new.events[i].atom = new.events[j].atom
        PROVE  i = j
    <3>1. /\ i + 1 \in DOMAIN box.events /\ new.events[i] = box.events[i + 1]
          /\ j + 1 \in DOMAIN box.events /\ new.events[j] = box.events[j + 1]
          /\ i \in Nat /\ j \in Nat
      BY <1>2
    <3>2. i + 1 = j + 1
      BY <2>1, <2>6, <3>1
    <3>3. QED BY <3>1, <3>2
  <2>7. QED BY <2>4, <2>5, <2>6
<1>10. QED BY <1>6, <1>7, <1>8, <1>9

-----------------------------------------------------------------------------
(* Each action preserves the invariant. *)

(* Nothing has been sent at first.                                          *)
LEMMA InitMailInv == TransportInit => MailInv
<1> SUFFICES ASSUME TransportInit PROVE MailInv
  OBVIOUS
<1>1. /\ sequence = 0 /\ made = [sent |-> 0, long |-> 0]
      /\ mail = [w \in Window |-> NoMail]
  BY DEF TransportInit
<1>2. NoMail \in Box
  BY NoMailFacts
<1>3. MailTypeOK
  BY <1>1, <1>2 DEF MailTypeOK
<1>4. ASSUME NEW w \in Window
      PROVE  /\ HeldSince(mail[w], made.long, sequence) /\ HeldApart(mail[w])
             /\ AsMany(mail[w]) /\ InTurn(mail[w])
  <2>1. mail[w] = NoMail
    BY <1>1
  <2>2. QED BY <2>1, NoMailFacts
<1>5. QED BY <1>3, <1>4 DEF MailInv

(* An answer: the window it goes to gets one message more, and the others   *)
(* see at most the count go on.                                             *)
LEMMA SendInv ==
    ASSUME TypeOK, MailInv, NEW w \in Window, Send(w)
    PROVE  MailInv'
<1> DEFINE to == AnsweredWindow(w)
           m == Message
           a == MakeNewAtom
<1>1. to \in Window
  BY AnswerGoesSomewhere DEF Send
<1>2. /\ sequence \in 0 .. Round + 1
      /\ made \in [sent : Nat, long : Nat] /\ mail \in [Window -> Box]
  BY DEF MailInv, MailTypeOK
<1>3. m \in Mail /\ m.long = made.long
  BY <1>2 DEF Message, Mail
<1>4. /\ a \in [given : Numbers, next : Nat]
      /\ a.given = IF sequence > Round THEN 0 ELSE sequence
      /\ a.next = IF sequence > Round THEN 0 ELSE sequence + 1
      /\ a.next \in 0 .. Round + 1
  BY <1>2 DEF MakeNewAtom, Numbers
<1>5. \A x \in Window : /\ mail[x] \in Box
                        /\ HeldSince(mail[x], made.long, sequence) /\ HeldApart(mail[x])
                        /\ AsMany(mail[x]) /\ InTurn(mail[x])
  BY <1>2 DEF MailInv
<1>6. \/ /\ mail' = [mail EXCEPT ![to] = PutShort(mail[to], m)]
         /\ made' = [made EXCEPT !.sent = @ + 1]
         /\ sequence' = sequence
      \/ /\ mail' = [mail EXCEPT ![to] = PutLong(mail[to], m, a)]
         /\ made' = [made EXCEPT !.sent = @ + 1, !.long = @ + 1]
         /\ sequence' = a.next
  BY DEF Send
<1> HIDE DEF to, m, a
<1>7. CASE /\ mail' = [mail EXCEPT ![to] = PutShort(mail[to], m)]
           /\ made' = [made EXCEPT !.sent = @ + 1]
           /\ sequence' = sequence
  <2> DEFINE new == PutShort(mail[to], m)
  <2>1. /\ new \in Box
        /\ HeldSince(new, made.long, sequence) /\ HeldApart(new) /\ AsMany(new) /\ InTurn(new)
    BY <1>1, <1>3, <1>5, PutShortFacts
  <2> HIDE DEF new
  <2>2. mail' = [mail EXCEPT ![to] = new]
    BY <1>7 DEF new
  <2>3. /\ made' \in [sent : Nat, long : Nat] /\ made'.long = made.long
    BY <1>2, <1>7
  <2>4. MailTypeOK'
    BY <1>2, <1>7, <2>1, <2>2, <2>3 DEF MailTypeOK
  <2>5. ASSUME NEW x \in Window
        PROVE  /\ HeldSince(mail[x], made.long, sequence)' /\ HeldApart(mail[x])'
               /\ AsMany(mail[x])' /\ InTurn(mail[x])'
    <3>1. mail'[x] = IF x = to THEN new ELSE mail[x]
      BY <1>2, <2>2
    <3>2. /\ HeldSince(mail'[x], made.long, sequence) /\ HeldApart(mail'[x])
          /\ AsMany(mail'[x]) /\ InTurn(mail'[x])
      BY <1>5, <2>1, <3>1
    <3>3. HeldSince(mail'[x], made'.long, sequence')
      BY <1>7, <2>3, <3>2
    <3>4. QED BY <3>2, <3>3
  <2>6. QED BY <2>4, <2>5 DEF MailInv
<1>8. CASE /\ mail' = [mail EXCEPT ![to] = PutLong(mail[to], m, a)]
           /\ made' = [made EXCEPT !.sent = @ + 1, !.long = @ + 1]
           /\ sequence' = a.next
  <2> DEFINE new == PutLong(mail[to], m, a)
  <2>0. made.long \in Nat
    BY <1>2
  <2>1. /\ new \in Box
        /\ HeldSince(new, made.long + 1, a.next)
        /\ HeldApart(new) /\ AsMany(new) /\ InTurn(new)
    <3>1. HeldSince(mail[to], m.long, sequence)
      BY <1>1, <1>3, <1>5
    <3>2. /\ new \in Box
          /\ HeldSince(new, m.long + 1, a.next)
          /\ HeldApart(new) /\ AsMany(new) /\ InTurn(new)
      BY <1>1, <1>2, <1>3, <1>4, <1>5, <3>1, PutLongFacts
    <3>3. QED BY <1>3, <3>2
  <2> HIDE DEF new
  <2>2. mail' = [mail EXCEPT ![to] = new]
    BY <1>8 DEF new
  <2>3. made' \in [sent : Nat, long : Nat] /\ made'.long = made.long + 1
    <3>1. made' = [made EXCEPT !.sent = made.sent + 1, !.long = made.long + 1]
      BY <1>8
    <3>2. made.sent + 1 \in Nat /\ made.long + 1 \in Nat
      BY <1>2
    <3>3. QED BY <1>2, <3>1, <3>2
  <2>4. MailTypeOK'
    BY <1>2, <1>4, <1>8, <2>1, <2>2, <2>3 DEF MailTypeOK
  <2>5. ASSUME NEW x \in Window
        PROVE  /\ HeldSince(mail[x], made.long, sequence)' /\ HeldApart(mail[x])'
               /\ AsMany(mail[x])' /\ InTurn(mail[x])'
    <3>1. mail'[x] = IF x = to THEN new ELSE mail[x]
      BY <1>2, <2>2
    <3>2. HeldSince(mail[x], made.long + 1, a.next)
      <4>1. HeldSince(mail[x], made.long + 1, IF sequence > Round THEN 0 ELSE sequence + 1)
        BY <1>2, <1>5, <2>0, HeldSinceNext
      <4>2. QED BY <1>4, <4>1
    <3>3. /\ HeldSince(mail'[x], made.long + 1, a.next) /\ HeldApart(mail'[x])
          /\ AsMany(mail'[x]) /\ InTurn(mail'[x])
      BY <1>5, <2>1, <3>1, <3>2
    <3>4. HeldSince(mail'[x], made'.long, sequence')
      BY <1>8, <2>3, <3>3
    <3>5. QED BY <3>3, <3>4
  <2>6. QED BY <2>4, <2>5 DEF MailInv
<1>9. QED BY <1>6, <1>7, <1>8

(* A library reads.                                                         *)
LEMMA ReceiveInv ==
    ASSUME MailInv, NEW w \in Window, Receive(w)
    PROVE  MailInv'
<1> DEFINE box == mail[w]
           e == Head(box.events)
           new == mail'[w]
           p == IF e.format = 8 THEN box.property ELSE [box.property EXCEPT ![e.atom] = <<>>]
           r == box.misread \/ Given(box, e) # <<Head(box.unread)>>
<1>1. /\ sequence \in 0 .. Round + 1
      /\ made \in [sent : Nat, long : Nat] /\ mail \in [Window -> Box]
      /\ \A x \in Window : /\ HeldSince(mail[x], made.long, sequence) /\ HeldApart(mail[x])
                           /\ AsMany(mail[x]) /\ InTurn(mail[x])
  BY DEF MailInv, MailTypeOK
<1>2. /\ box.events # <<>>
      /\ UNCHANGED <<sequence, made>>
      /\ mail' = [mail EXCEPT ![w] = [box EXCEPT !.events = Tail(box.events),
                                                 !.property = p,
                                                 !.unread = Tail(box.unread),
                                                 !.misread = r]]
  BY DEF Receive
<1>3. /\ box \in Box /\ box.events \in Seq(Event) /\ box.unread \in Seq(Mail)
      /\ box.property \in [Numbers -> Seq(Mail)] /\ Len(box.events) = Len(box.unread)
  BY <1>1 DEF Box, AsMany
<1>4. p \in [Numbers -> Seq(Mail)] /\ r \in BOOLEAN
  <2>1. box.misread \in BOOLEAN
    BY <1>3 DEF Box
  <2>2. r \in BOOLEAN
    BY <2>1
  <2>3. <<>> \in Seq(Mail)
    OBVIOUS
  <2>4. p \in [Numbers -> Seq(Mail)]
    <3> HIDE DEF box, e
    <3>1. QED BY <1>3, <2>3
  <2>5. QED BY <2>2, <2>4
<1>5. Tail(box.events) \in Seq(Event) /\ Tail(box.unread) \in Seq(Mail)
  BY <1>2, <1>3
<1> HIDE DEF p, r
<1>6. new = [box EXCEPT !.events = Tail(box.events), !.property = p,
                        !.unread = Tail(box.unread), !.misread = r]
  BY <1>1, <1>2
<1>7. \A x \in Window \ {w} : mail'[x] = mail[x]
  BY <1>1, <1>2
<1>8. /\ new \in Box
      /\ new.events = Tail(box.events) /\ new.property = p /\ new.unread = Tail(box.unread)
      /\ new.clashed = box.clashed /\ new.misread = r
  <2> HIDE DEF box, new
  <2>1. QED BY <1>3, <1>4, <1>5, <1>6 DEF Box
<1>9. /\ HeldSince(new, made.long, sequence) /\ HeldApart(new) /\ AsMany(new) /\ InTurn(new)
  <2>1. /\ HeldSince(box, made.long, sequence) /\ HeldApart(box) /\ AsMany(box) /\ InTurn(box)
    BY <1>1
  <2> HIDE DEF box, new
  <2>2. QED BY <1>2, <1>3, <1>8, <2>1, ReadFacts DEF p, r
<1>10. MailTypeOK'
  <2>1. mail' \in [Window -> Box]
    <3>1. /\ DOMAIN mail' = Window /\ mail' = [x \in Window |-> mail'[x]]
      BY <1>1, <1>2
    <3>2. \A x \in Window : mail'[x] \in Box
      BY <1>1, <1>7, <1>8
    <3>3. QED BY <3>1, <3>2
  <2>2. QED BY <1>1, <1>2, <2>1 DEF MailTypeOK
<1>11. ASSUME NEW x \in Window
       PROVE  /\ HeldSince(mail[x], made.long, sequence)' /\ HeldApart(mail[x])'
              /\ AsMany(mail[x])' /\ InTurn(mail[x])'
  BY <1>1, <1>2, <1>7, <1>9
<1>12. QED BY <1>10, <1>11 DEF MailInv

(* A window that goes takes its mail with it.                               *)
LEMMA ConnectionInv ==
    ASSUME MailInv, Connection
    PROVE  MailInv'
<1>1. /\ sequence \in 0 .. Round + 1
      /\ made \in [sent : Nat, long : Nat] /\ mail \in [Window -> Box]
      /\ \A x \in Window : /\ HeldSince(mail[x], made.long, sequence) /\ HeldApart(mail[x])
                           /\ AsMany(mail[x]) /\ InTurn(mail[x])
  BY DEF MailInv, MailTypeOK
<1>2. /\ UNCHANGED <<sequence, made>>
      /\ mail' = [w \in Window |-> IF peer'[w] = Unknown THEN NoMail ELSE mail[w]]
  BY DEF Connection
<1>3. \A x \in Window : mail'[x] \in {NoMail, mail[x]}
  BY <1>2
<1>4. NoMail \in Box
  BY NoMailFacts
<1>5. MailTypeOK'
  BY <1>1, <1>2, <1>4 DEF MailTypeOK
<1>6. ASSUME NEW x \in Window
      PROVE  /\ HeldSince(mail[x], made.long, sequence)' /\ HeldApart(mail[x])'
             /\ AsMany(mail[x])' /\ InTurn(mail[x])'
  <2>1. CASE mail'[x] = mail[x]
    BY <1>1, <1>2, <2>1
  <2>2. CASE mail'[x] = NoMail
    BY <1>2, <2>2, NoMailFacts
  <2>3. QED BY <1>3, <2>1, <2>2
<1>7. QED BY <1>5, <1>6 DEF MailInv

-----------------------------------------------------------------------------
(* The theorems. *)

(* Together with what is proved of the connections, MailInv is inductive.   *)
THEOREM MailInductive == TransportSpec => [](TypeOK /\ MailInv)
<1>1. TransportSpec => []TypeOK
  <2>1. IInv => TypeOK
    BY DEF IInv
  <2>2. QED BY <2>1, TableInvariant, PTL
<1>2. TransportInit => MailInv
  BY InitMailInv
<1>3. TypeOK /\ MailInv /\ [TransportNext]_allVars => MailInv'
  <2> SUFFICES ASSUME TypeOK, MailInv, [TransportNext]_allVars PROVE MailInv'
    OBVIOUS
  <2>1. CASE Connection
    BY <2>1, ConnectionInv
  <2>2. CASE \E w \in Window : Send(w)
    BY <2>2, SendInv
  <2>3. CASE \E w \in Window : Receive(w)
    BY <2>3, ReceiveInv
  <2>4. CASE UNCHANGED allVars
    BY <2>4 DEF allVars, mailVars, MailInv, MailTypeOK
  <2>5. QED BY <2>1, <2>2, <2>3, <2>4 DEF TransportNext
<1>4. QED BY <1>1, <1>2, <1>3, PTL DEF TransportSpec

(* A library reads what was sent to it, once and in order, until a message  *)
(* is put into a property that holds one (i18nX.c:263-344).                 *)
THEOREM MailRead == TransportSpec => []MailIsRead
<1>1. MailInv => MailIsRead
  BY DEF MailInv, InTurn, MailIsRead, MailTypeOK, Box
<1>2. QED BY <1>1, MailInductive, PTL

(* Two messages meet in a property only after a round of long messages, or  *)
(* in property 0, which is given twice in a row (i18nX.c:252-261).          *)
THEOREM PropertiesApart == TransportSpec => []PropertiesAreApart
<1>1. MailInv => PropertiesAreApart
  BY DEF MailInv, HeldApart, PropertiesAreApart
<1>2. QED BY <1>1, MailInductive, PTL
=============================================================================
