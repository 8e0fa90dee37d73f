--------------------------- MODULE Contexts_proofs ---------------------------
(***************************************************************************)
(* Proof that the table of input contexts implements Contexts, for any     *)
(* number of contexts, ids, attributes and values, as long as no           *)
(* application holds a context while IdLimit others are created; and       *)
(* proofs about what goes into a record of a context over the wire, and    *)
(* comes out of it again, for lists of any length.                         *)
(***************************************************************************)
EXTENDS MCContexts, Counting

-----------------------------------------------------------------------------
(* ICTable: the table.                                                      *)
Ids == 0 .. IdLimit - 1

ICRecord == [id : Ids, values : [Attr -> Value \cup {Unset}], IC_SHOW : BOOLEAN]

TypeOK == /\ ic_list \in Seq(ICRecord)
          /\ free_list \in Seq(ICRecord)
          /\ icid \in Ids
          /\ contexts \in Seq([id : Ids, life : {"held", "destroyed", "abandoned"}])
          /\ Len(contexts) <= MaxCreate

(* A record serves each context that is held, and it serves no other.      *)
HeldIsFound == \A x \in Held : FindIC(contexts[x].id) # 0
HeldDiffer == \A x, y \in Held : contexts[x].id = contexts[y].id => x = y

IInv == TypeOK /\ HeldIsFound /\ HeldDiffer

-----------------------------------------------------------------------------
(* The search of FindIC, for any list of records.                          *)
Found(s, id) == SelectInSeq(s, LAMBDA r : r.id = id)

First(s, id, i) == /\ i \in DOMAIN s /\ s[i].id = id
                   /\ \A j \in DOMAIN s : s[j].id = id => i <= j

(* It finds the first record with the id, if there is one.                 *)
LEMMA FoundFacts ==
    ASSUME NEW R, NEW s \in Seq(R), NEW id
    PROVE  \/ Found(s, id) = 0 /\ \A i \in DOMAIN s : s[i].id # id
           \/ Found(s, id) # 0 /\ First(s, id, Found(s, id))
<1> DEFINE I == {i \in 1 .. Len(s) : s[i].id = id}
<1>1. Found(s, id) = IF I # {} THEN Min(I) ELSE 0
  BY DEF Found, SelectInSeq
<1>2. DOMAIN s = 1 .. Len(s) /\ I \in SUBSET Nat /\ 0 \notin I
  OBVIOUS
<1>3. I # {} => Min(I) \in I /\ \A i \in I : Min(I) <= i
  BY <1>2, MinFacts
<1>4. QED BY <1>1, <1>2, <1>3 DEF First

(* There is one first record.                                              *)
LEMMA FirstIsFound ==
    ASSUME NEW R, NEW s \in Seq(R), NEW id, NEW i, First(s, id, i)
    PROVE  Found(s, id) = i /\ i # 0
<1>1. DOMAIN s = 1 .. Len(s) /\ Len(s) \in Nat
  OBVIOUS
<1>2. First(s, id, Found(s, id))
  BY FoundFacts DEF First
<1>3. QED BY <1>1, <1>2 DEF First

(* A record put in front hides the older ones with its id, and only them.  *)
LEMMA FoundCons ==
    ASSUME NEW R, NEW s \in Seq(R), NEW r \in R, NEW id
    PROVE  /\ r.id = id => Found(Cons(r, s), id) = 1 /\ Cons(r, s)[1] = r
           /\ r.id # id /\ Found(s, id) # 0 =>
                  /\ Found(Cons(r, s), id) # 0
                  /\ Cons(r, s)[Found(Cons(r, s), id)] = s[Found(s, id)]
<1> DEFINE t == Cons(r, s)
           i == Found(s, id)
<1>1. /\ t \in Seq(R) /\ Len(t) = Len(s) + 1 /\ t[1] = r
      /\ \A k \in 1 .. Len(s) : t[k + 1] = s[k]
  <2>1. t \in Seq(R) /\ Prepended(t, r, s)
    BY ConsFacts
  <2>2. QED BY <2>1, Zenon DEF Prepended
<1> HIDE DEF t
<1>2. /\ Len(s) \in Nat /\ DOMAIN s = 1 .. Len(s) /\ DOMAIN t = 1 .. Len(s) + 1
  BY <1>1
<1>3. ASSUME r.id = id PROVE Found(t, id) = 1 /\ t[1] = r
  <2>1. First(t, id, 1)
    BY <1>1, <1>2, <1>3 DEF First
  <2>2. QED BY <1>1, <2>1, FirstIsFound
<1>4. ASSUME r.id # id, i # 0 PROVE Found(t, id) # 0 /\ t[Found(t, id)] = s[i]
  <2>1. First(s, id, i)
    BY <1>4, FoundFacts
  <2> HIDE DEF i
  <2>2. i \in 1 .. Len(s) /\ s[i].id = id /\ \A j \in 1 .. Len(s) : s[j].id = id => i <= j
    BY <1>2, <2>1 DEF First
  <2>3. i + 1 \in DOMAIN t /\ t[i + 1] = s[i]
    BY <1>1, <1>2, <2>2
  <2>4. ASSUME NEW j \in DOMAIN t, t[j].id = id PROVE i + 1 <= j
    <3>1. j # 1
      BY <1>1, <1>4, <2>4
    <3>2. j - 1 \in 1 .. Len(s) /\ (j - 1) + 1 = j
      BY <1>2, <3>1
    <3>3. s[j - 1].id = id
      BY <1>1, <2>4, <3>2
    <3>4. i <= j - 1
      BY <2>2, <3>2, <3>3
    <3>5. QED BY <1>2, <2>2, <3>2, <3>4
  <2>5. First(t, id, i + 1)
    BY <2>2, <2>3, <2>4 DEF First
  <2>6. QED BY <1>1, <2>3, <2>5, FirstIsFound
<1>5. QED BY <1>3, <1>4 DEF t

(* A record taken out is missed by nobody who is served by another id.     *)
LEMMA FoundRemoveAt ==
    ASSUME NEW R, NEW s \in Seq(R), NEW i \in 1 .. Len(s), NEW id,
           s[i].id # id, Found(s, id) # 0
    PROVE  /\ Found(RemoveAt(s, i), id) # 0
           /\ RemoveAt(s, i)[Found(RemoveAt(s, i), id)] = s[Found(s, id)]
<1> DEFINE t == RemoveAt(s, i)
           k == Found(s, id)
           n == IF k < i THEN k ELSE k - 1
<1>1. /\ t \in Seq(R) /\ Len(t) = Len(s) - 1
      /\ \A j \in 1 .. Len(s) - 1 : t[j] = IF j < i THEN s[j] ELSE s[j + 1]
  BY RemoveAtFacts DEF Shortened
<1> HIDE DEF t
<1>2. First(s, id, k)
  BY FoundFacts
<1> HIDE DEF k
<1>3. /\ Len(s) \in Nat /\ i \in Nat /\ DOMAIN s = 1 .. Len(s)
      /\ DOMAIN t = 1 .. Len(s) - 1
  BY <1>1
<1>4. /\ k \in 1 .. Len(s) /\ s[k].id = id /\ k # i
      /\ \A j \in 1 .. Len(s) : s[j].id = id => k <= j
  BY <1>2, <1>3 DEF First
<1>5. n \in 1 .. Len(s) - 1 /\ t[n] = s[k]
  <2>1. CASE k < i
    BY <1>1, <1>3, <1>4, <2>1
  <2>2. CASE ~ (k < i)
    <3>1. k - 1 \in 1 .. Len(s) - 1 /\ ~ (k - 1 < i) /\ (k - 1) + 1 = k
      BY <1>3, <1>4, <2>2
    <3>2. QED BY <1>1, <2>2, <3>1
  <2>3. QED BY <2>1, <2>2
<1>6. ASSUME NEW j \in 1 .. Len(s) - 1, t[j].id = id PROVE n <= j
  <2>1. CASE j < i
    <3>1. j \in 1 .. Len(s) /\ s[j].id = id
      BY <1>1, <1>3, <1>6, <2>1
    <3>2. QED BY <1>3, <1>4, <2>1, <3>1
  <2>2. CASE ~ (j < i)
    <3>1. j + 1 \in 1 .. Len(s) /\ s[j + 1].id = id
      BY <1>1, <1>3, <1>6, <2>2
    <3>2. k <= j + 1
      BY <1>4, <3>1
    <3>3. QED BY <1>3, <1>4, <2>2, <3>2
  <2>3. QED BY <2>1, <2>2
<1> HIDE DEF n
<1>7. First(t, id, n)
  BY <1>3, <1>4, <1>5, <1>6 DEF First
<1>8. QED BY <1>1, <1>5, <1>7, FirstIsFound DEF t, k

(* Records that keep their ids are found where they were.                  *)
LEMMA FoundSame ==
    ASSUME NEW R, NEW s \in Seq(R), NEW t \in Seq(R), NEW id, Len(t) = Len(s),
           \A i \in 1 .. Len(s) : t[i].id = s[i].id
    PROVE  Found(t, id) = Found(s, id)
<1>1. DOMAIN s = 1 .. Len(s) /\ DOMAIN t = 1 .. Len(s)
  OBVIOUS
<1>2. CASE Found(s, id) = 0
  <2>1. \A i \in DOMAIN s : s[i].id # id
    BY <1>2, FoundFacts
  <2>2. ~ First(t, id, Found(t, id))
    BY <1>1, <2>1 DEF First
  <2>3. QED BY <1>2, <2>2, FoundFacts
<1>3. CASE Found(s, id) # 0
  <2> DEFINE i == Found(s, id)
  <2>1. First(s, id, i)
    BY <1>3, FoundFacts
  <2> HIDE DEF i
  <2>2. First(t, id, i)
    BY <1>1, <2>1 DEF First
  <2>3. QED BY <2>2, FirstIsFound DEF i
<1>4. QED BY <1>2, <1>3

-----------------------------------------------------------------------------
(* What the contexts are served with, as Abstract sees it.                 *)
Number == 1 .. MaxCreate
LifeOf == [x \in Number |-> Life(x)]
ValuesOf == [x \in Number |-> IF Life(x) = "held" THEN Record(x).values ELSE Blank]
ShownOf == [x \in Number |-> Life(x) = "held" /\ Record(x).IC_SHOW]

Updated(values, v) == [a \in Attr |-> IF a \in DOMAIN v THEN v[a] ELSE values[a]]

(* The four kinds of steps that Abstract allows on a context x.            *)
Created(x, v) == /\ LifeOf[x] = "new" /\ LifeOf' = [LifeOf EXCEPT ![x] = "held"]
                 /\ ValuesOf' = [ValuesOf EXCEPT ![x] = Updated(ValuesOf[x], v)]
                 /\ ShownOf' = ShownOf
WasSet(x, v) == /\ LifeOf[x] = "held" /\ LifeOf' = LifeOf
                /\ ValuesOf' = [ValuesOf EXCEPT ![x] = Updated(ValuesOf[x], v)]
                /\ ShownOf' = ShownOf
WasShown(x, wanted) == /\ LifeOf[x] = "held" /\ LifeOf' = LifeOf
                       /\ ValuesOf' = ValuesOf
                       /\ ShownOf' = [ShownOf EXCEPT ![x] = wanted]
Dropped(x) == /\ LifeOf[x] = "held" /\ LifeOf' = [LifeOf EXCEPT ![x] = "gone"]
              /\ ValuesOf' = [ValuesOf EXCEPT ![x] = Blank]
              /\ ShownOf' = [ShownOf EXCEPT ![x] = FALSE]

(* They are steps of Abstract.                                             *)
LEMMA AbstractSteps ==
    ASSUME NEW x \in Number
    PROVE  /\ \A v \in Changes : Created(x, v) \/ WasSet(x, v) => Abstract!Next
           /\ \A wanted \in BOOLEAN : WasShown(x, wanted) => Abstract!Next
           /\ Dropped(x) => Abstract!Next
<1>1. ASSUME NEW v \in Changes, Created(x, v) PROVE Abstract!Create(x, v)
  BY <1>1 DEF Created, LifeOf, ValuesOf, ShownOf, Updated, Number,
              Abstract!Create, Abstract!Change
<1>2. ASSUME NEW v \in Changes, WasSet(x, v) PROVE Abstract!Set(x, v)
  BY <1>2 DEF WasSet, LifeOf, ValuesOf, ShownOf, Updated, Number,
              Abstract!Set, Abstract!Change
<1>3. ASSUME NEW wanted \in BOOLEAN, WasShown(x, wanted) PROVE Abstract!Show(x, wanted)
  BY <1>3 DEF WasShown, LifeOf, ValuesOf, ShownOf, Number, Abstract!Show
<1>4. ASSUME Dropped(x) PROVE Abstract!Drop(x)
  BY <1>4 DEF Dropped, LifeOf, ValuesOf, ShownOf, Number, Blank,
              Abstract!Drop, Abstract!Blank
<1>5. Changes = Abstract!Changes
  BY DEF Changes, Abstract!Changes
<1>6. QED BY <1>1, <1>2, <1>3, <1>4, <1>5 DEF Abstract!Next, Number

(* A context that is not touched: same life, and if held the same record.  *)
Same(y) == /\ Life(y)' = Life(y)
           /\ Life(y) = "held" => Record(y)' = Record(y)

(* What is seen of the others does not change.                             *)
LEMMA OthersSame ==
    ASSUME NEW x \in Number, \A y \in Number \ {x} : Same(y)
    PROVE  /\ LifeOf' = [LifeOf EXCEPT ![x] = Life(x)']
           /\ ValuesOf' = [ValuesOf EXCEPT ![x] =
                              IF Life(x)' = "held" THEN Record(x)'.values ELSE Blank]
           /\ ShownOf' = [ShownOf EXCEPT ![x] = Life(x)' = "held" /\ Record(x)'.IC_SHOW]
<1>1. Blank' = Blank /\ Number' = Number
  BY DEF Blank, Number
<1>2. LifeOf' = [LifeOf EXCEPT ![x] = Life(x)']
  BY <1>1 DEF LifeOf, Same
<1>3. ValuesOf' = [ValuesOf EXCEPT ![x] =
                      IF Life(x)' = "held" THEN Record(x)'.values ELSE Blank]
  BY <1>1 DEF ValuesOf, Same
<1>4. ShownOf' = [ShownOf EXCEPT ![x] = Life(x)' = "held" /\ Record(x)'.IC_SHOW]
  <2> DEFINE g(y) == Life(y) = "held" /\ Record(y).IC_SHOW
             h(y) == Life(y)' = "held" /\ Record(y)'.IC_SHOW
  <2>1. ShownOf = [y \in Number |-> g(y)] /\ ShownOf' = [y \in Number |-> h(y)]
    BY <1>1, Zenon DEF ShownOf
  <2>2. \A y \in Number \ {x} : h(y) = g(y)
    BY Zenon DEF Same
  <2> HIDE DEF g, h
  <2>3. ShownOf' = [ShownOf EXCEPT ![x] = h(x)]
    BY <2>1, <2>2, Zenon
  <2>4. QED BY <2>3, Zenon DEF h
<1>5. QED BY <1>2, <1>3, <1>4

-----------------------------------------------------------------------------
(* Storing attributes changes those alone.                                 *)
LEMMA StoreFacts ==
    ASSUME NEW r \in ICRecord, NEW v \in Changes
    PROVE  /\ StoreIC(r, v) \in ICRecord
           /\ StoreIC(r, v).id = r.id
           /\ StoreIC(r, v).values = Updated(r.values, v)
           /\ StoreIC(r, v).IC_SHOW = r.IC_SHOW
<1>1. PICK A \in SUBSET Attr : v \in [A -> Value]
  BY DEF Changes
<1>2. Updated(r.values, v) \in [Attr -> Value \cup {Unset}]
  BY <1>1 DEF Updated, ICRecord
<1>3. StoreIC(r, v) = [r EXCEPT !.values = Updated(r.values, v)]
  BY DEF StoreIC, Updated
<1> DEFINE w == Updated(r.values, v)
<1> HIDE DEF w
<1>4. [r EXCEPT !.values = w] = [id |-> r.id, values |-> w, IC_SHOW |-> r.IC_SHOW]
  BY DEF ICRecord
<1>5. r.id \in Ids /\ r.IC_SHOW \in BOOLEAN
  BY DEF ICRecord
<1>6. [id |-> r.id, values |-> w, IC_SHOW |-> r.IC_SHOW] \in ICRecord
  BY <1>2, <1>5 DEF ICRecord, w
<1>7. QED BY <1>3, <1>4, <1>6 DEF w

(* A new record is blank, and carries the next id.                         *)
LEMMA NewFacts ==
    ASSUME TypeOK
    PROVE  /\ NextId \in Ids /\ NewIC(NextId) \in ICRecord
           /\ NewIC(NextId).id = NextId /\ NewIC(NextId).values = Blank
           /\ NewIC(NextId).IC_SHOW = FALSE
<1>1. NextId \in Ids
  BY ICTableAssumption DEF NextId, Ids, TypeOK
<1>2. Blank \in [Attr -> Value \cup {Unset}]
  BY DEF Blank
<1> DEFINE n == NextId
<1> HIDE DEF n
<1>3. NewIC(n) = [id |-> n, values |-> Blank, IC_SHOW |-> FALSE]
  BY DEF NewIC
<1>4. n \in Ids => NewIC(n) \in ICRecord
  BY <1>2, <1>3 DEF ICRecord
<1>5. NewIC(n).id = n /\ NewIC(n).values = Blank /\ NewIC(n).IC_SHOW = FALSE
  BY <1>3
<1>6. QED BY <1>1, <1>4, <1>5 DEF n

(* The record of a context, by its position.                               *)
LEMMA RecordFacts ==
    ASSUME TypeOK, NEW y \in Number
    PROVE  /\ y \in Held <=> Life(y) = "held"
           /\ y \in Held => /\ y \in 1 .. Len(contexts)
                            /\ contexts[y].id \in Ids /\ contexts[y].life = "held"
           /\ FindIC(contexts[y].id) = Found(ic_list, contexts[y].id)
           /\ Record(y) = ic_list[Found(ic_list, contexts[y].id)]
<1>1. y \in Held <=> Life(y) = "held"
  BY DEF Held, Life
<1>2. y \in Held => /\ y \in 1 .. Len(contexts)
                   /\ contexts[y].id \in Ids /\ contexts[y].life = "held"
  <2>1. DOMAIN contexts = 1 .. Len(contexts)
    BY DEF TypeOK
  <2> DEFINE C == [id : Ids, life : {"held", "destroyed", "abandoned"}]
  <2>2. contexts \in Seq(C)
    BY DEF TypeOK
  <2>3. \A c \in C : c.id \in Ids
    OBVIOUS
  <2> HIDE DEF C
  <2>4. \A z \in 1 .. Len(contexts) : contexts[z] \in C
    BY <2>2
  <2>5. QED BY <2>1, <2>3, <2>4 DEF Held
<1>3. ASSUME NEW id PROVE FindIC(id) = Found(ic_list, id)
  BY DEF FindIC, Found, SelectInSeq
<1>4. QED BY <1>1, <1>2, <1>3 DEF Record

(* The same, after a step.                                                 *)
LEMMA RecordFactsNext ==
    ASSUME TypeOK', NEW y \in Number
    PROVE  /\ y \in Held' <=> Life(y)' = "held"
           /\ FindIC(contexts[y].id)' = Found(ic_list', contexts'[y].id)
           /\ Record(y)' = ic_list'[Found(ic_list', contexts'[y].id)]
<1>1. y \in Held' <=> Life(y)' = "held"
  BY DEF Held, Life
<1>2. FindIC(contexts[y].id)' = Found(ic_list', contexts'[y].id)
  BY DEF FindIC, Found, SelectInSeq
<1>3. QED BY <1>1, <1>2 DEF Record

(* Held contexts are numbered.                                             *)
LEMMA HeldFacts ==
    ASSUME TypeOK PROVE Held \subseteq Number
  BY ICTableAssumption DEF TypeOK, Held, Number

(* The same, after a step.                                                 *)
LEMMA HeldFactsNext ==
    ASSUME TypeOK' PROVE Held' \subseteq Number
  BY ICTableAssumption DEF TypeOK, Held, Number

-----------------------------------------------------------------------------
(* CreateIC: the new record is found first, and no other context has its   *)
(* id.                                                                     *)
LEMMA CreateStep ==
    ASSUME IInv, IdIsFree, CreateIC
    PROVE  IInv' /\ Abstract!Next
<1>0. PICK x \in Number : x = Len(contexts) + 1
  BY ICTableAssumption DEF CreateIC, IInv, TypeOK, Number
<1> DEFINE n == NextId
           c == [id |-> n, life |-> "held"]
           C == [id : Ids, life : {"held", "destroyed", "abandoned"}]
<1>1. PICK v \in Changes : ic_list' = Cons(StoreIC(NewIC(NextId), v), ic_list)
  BY DEF CreateIC
<1> DEFINE r == StoreIC(NewIC(NextId), v)
<1>2. /\ n \in Ids /\ r \in ICRecord /\ r.id = n
      /\ r.values = Updated(Blank, v) /\ r.IC_SHOW = FALSE
  BY NewFacts, StoreFacts DEF IInv
<1>3. /\ ic_list' = Cons(r, ic_list) /\ icid' = n
      /\ contexts' = Append(contexts, c)
      /\ free_list' = IF free_list = <<>> THEN <<>> ELSE Tail(free_list)
      /\ Len(contexts) < MaxCreate
  BY <1>1 DEF CreateIC
<1>4. \A y \in Held : contexts[y].id # n
  BY DEF IdIsFree
<1> HIDE DEF n, r
<1>5. /\ ic_list \in Seq(ICRecord) /\ free_list \in Seq(ICRecord)
      /\ contexts \in Seq(C) /\ MaxCreate \in Nat /\ c \in C
      /\ c.id = n /\ c.life = "held"
  BY <1>2, ICTableAssumption DEF IInv, TypeOK
<1> HIDE DEF C, c
<1>6. /\ contexts' \in Seq(C) /\ DOMAIN contexts' = 1 .. x /\ contexts'[x] = c
      /\ DOMAIN contexts = 1 .. Len(contexts) /\ Len(contexts) \in Nat
      /\ \A y \in 1 .. Len(contexts) : contexts'[y] = contexts[y]
      /\ Len(contexts') = x
  BY <1>0, <1>3, <1>5
<1>7. x \notin DOMAIN contexts /\ x \in DOMAIN contexts'
  BY <1>0, <1>6 DEF Number
<1>8. TypeOK'
  <2>1. ic_list' \in Seq(ICRecord)
    BY <1>2, <1>3, <1>5, ConsFacts
  <2>2. free_list' \in Seq(ICRecord)
    BY <1>3, <1>5
  <2>3. Len(contexts') <= MaxCreate
    BY <1>3, <1>5, <1>6
  <2>4. QED BY <1>2, <1>3, <1>6, <2>1, <2>2, <2>3 DEF TypeOK, C
<1>9. ASSUME NEW y \in Number \ {x}
      PROVE  /\ Life(y)' = Life(y) /\ (y \in Held' <=> y \in Held)
             /\ y \in Held => /\ contexts'[y].id = contexts[y].id
                              /\ Found(ic_list', contexts'[y].id) # 0
                              /\ Record(y)' = Record(y)
  <2>1. y \in DOMAIN contexts' <=> y \in DOMAIN contexts
    BY <1>0, <1>6 DEF Number
  <2>2. y \in DOMAIN contexts => contexts'[y] = contexts[y]
    BY <1>6
  <2>3. Life(y)' = Life(y)
    BY <2>1, <2>2 DEF Life
  <2>4. y \in Held' <=> y \in Held
    BY <2>1, <2>2 DEF Held
  <2>5. ASSUME y \in Held
        PROVE  /\ contexts'[y].id = contexts[y].id
               /\ Found(ic_list', contexts'[y].id) # 0
               /\ Record(y)' = Record(y)
    <3> DEFINE id == contexts[y].id
    <3>1. /\ contexts'[y].id = id /\ id # n
          /\ Found(ic_list, id) # 0
          /\ Record(y) = ic_list[Found(ic_list, id)]
          /\ Record(y)' = ic_list'[Found(ic_list', contexts'[y].id)]
      BY <1>4, <1>8, <2>2, <2>5, RecordFacts, RecordFactsNext DEF IInv, HeldIsFound, Held
    <3> HIDE DEF id
    <3>2. /\ Found(Cons(r, ic_list), id) # 0
          /\ Cons(r, ic_list)[Found(Cons(r, ic_list), id)] = ic_list[Found(ic_list, id)]
      BY <1>2, <1>5, <3>1, FoundCons
    <3>3. QED BY <1>3, <3>1, <3>2, Zenon DEF id
  <2>6. QED BY <2>3, <2>4, <2>5
<1>10. /\ Life(x) = "new" /\ Life(x)' = "held" /\ x \in Held'
       /\ contexts'[x].id = n
       /\ Found(ic_list', n) = 1 /\ Record(x)' = r
  <2>1. Found(ic_list', n) = 1 /\ ic_list'[1] = r
    BY <1>2, <1>3, <1>5, FoundCons
  <2>2. contexts'[x].id = n /\ contexts'[x].life = "held"
    BY <1>5, <1>6
  <2>3. Life(x) = "new" /\ Life(x)' = "held" /\ x \in Held'
    BY <1>7, <2>2 DEF Life, Held
  <2>4. Record(x)' = ic_list'[Found(ic_list', contexts'[x].id)]
    BY <1>8, RecordFactsNext
  <2>5. QED BY <2>1, <2>2, <2>3, <2>4
<1>11. Held' \subseteq Number /\ Held \subseteq Number /\ x \notin Held
  BY <1>7, <1>8, HeldFacts, HeldFactsNext DEF IInv, Held
<1>12. HeldIsFound'
  <2>1. ASSUME NEW y \in Held' PROVE FindIC(contexts[y].id)' # 0
    <3>1. FindIC(contexts[y].id)' = Found(ic_list', contexts'[y].id)
      BY <1>8, <1>11, RecordFactsNext
    <3>2. QED BY <1>9, <1>10, <1>11, <3>1
  <2>2. QED BY <2>1 DEF HeldIsFound
<1>13. HeldDiffer'
  <2>1. ASSUME NEW y \in Held', NEW z \in Held', contexts'[y].id = contexts'[z].id
        PROVE  y = z
    <3>1. y \in Number /\ z \in Number
      BY <1>11
    <3>2. y # x => y \in Held /\ contexts'[y].id = contexts[y].id
      BY <1>9, <3>1
    <3>3. z # x => z \in Held /\ contexts'[z].id = contexts[z].id
      BY <1>9, <3>1
    <3>4. QED BY <1>4, <1>10, <2>1, <3>2, <3>3 DEF IInv, HeldDiffer
  <2>2. QED BY <2>1 DEF HeldDiffer
<1>14. Created(x, v)
  <2>1. \A y \in Number \ {x} : Same(y)
    BY <1>9, RecordFacts DEF Same, IInv
  <2>2. /\ LifeOf' = [LifeOf EXCEPT ![x] = "held"]
        /\ ValuesOf' = [ValuesOf EXCEPT ![x] = r.values]
        /\ ShownOf' = [ShownOf EXCEPT ![x] = FALSE]
    BY <1>2, <1>7, <1>10, <2>1, OthersSame
  <2>3. LifeOf[x] = "new" /\ ValuesOf[x] = Blank
    BY <1>7, <1>10 DEF LifeOf, ValuesOf
  <2>4. ShownOf[x] = FALSE
    BY <1>7, <1>10 DEF ShownOf
  <2>5. [ShownOf EXCEPT ![x] = FALSE] = ShownOf
    BY <2>4, Zenon DEF ShownOf
  <2>6. QED BY <1>2, <2>2, <2>3, <2>5 DEF Created
<1>15. QED BY <1>7, <1>8, <1>12, <1>13, <1>14, AbstractSteps DEF IInv

-----------------------------------------------------------------------------
(* A held context is served with a record of its own.                      *)
LEMMA ServedFacts ==
    ASSUME IInv, NEW x \in Held
    PROVE  /\ x \in Number /\ Life(x) = "held"
           /\ FindIC(contexts[x].id) \in 1 .. Len(ic_list)
           /\ Record(x) = ic_list[FindIC(contexts[x].id)]
           /\ Record(x) \in ICRecord
           /\ Record(x).id = contexts[x].id
           /\ \A y \in Held : y # x => contexts[y].id # contexts[x].id
<1> DEFINE id == contexts[x].id
<1>1. x \in Number
  BY HeldFacts DEF IInv
<1>2. /\ Life(x) = "held" /\ FindIC(id) = Found(ic_list, id)
      /\ Record(x) = ic_list[Found(ic_list, id)]
  BY <1>1, RecordFacts DEF IInv
<1>3. FindIC(id) # 0
  BY DEF IInv, HeldIsFound
<1> HIDE DEF id
<1>4. ic_list \in Seq(ICRecord)
  BY DEF IInv, TypeOK
<1>5. First(ic_list, id, Found(ic_list, id))
  BY <1>2, <1>3, <1>4, FoundFacts
<1>6. /\ Found(ic_list, id) \in 1 .. Len(ic_list)
      /\ ic_list[Found(ic_list, id)].id = id
      /\ ic_list[Found(ic_list, id)] \in ICRecord
  BY <1>4, <1>5 DEF First
<1>7. \A y \in Held : y # x => contexts[y].id # id
  BY DEF IInv, HeldDiffer, id
<1>8. QED BY <1>1, <1>2, <1>6, <1>7 DEF id

(* SetIC and SetShow change the record of one context and keep its id: the *)
(* other contexts are served as before.                                    *)
LEMMA RecordChanged ==
    ASSUME IInv, NEW x \in Held, NEW r \in ICRecord, r.id = Record(x).id,
           ic_list' = [ic_list EXCEPT ![FindIC(contexts[x].id)] = r],
           UNCHANGED <<free_list, icid, contexts>>
    PROVE  IInv' /\ Life(x)' = "held" /\ Record(x)' = r /\ \A y \in Number \ {x} : Same(y)
<1> DEFINE i == FindIC(contexts[x].id)
<1>1. /\ x \in Number /\ i \in 1 .. Len(ic_list) /\ Record(x) = ic_list[i]
      /\ Record(x).id = contexts[x].id /\ Life(x) = "held"
      /\ \A y \in Held : y # x => contexts[y].id # contexts[x].id
  BY ServedFacts
<1>2. ic_list' = [ic_list EXCEPT ![i] = r] /\ contexts' = contexts
  OBVIOUS
<1> HIDE DEF i
<1>3. ic_list \in Seq(ICRecord)
  BY DEF IInv, TypeOK
<1>4. /\ ic_list' \in Seq(ICRecord) /\ Len(ic_list') = Len(ic_list)
      /\ ic_list'[i] = r
      /\ \A j \in 1 .. Len(ic_list) : j # i => ic_list'[j] = ic_list[j]
  <2>1. /\ [ic_list EXCEPT ![i] = r] \in Seq(ICRecord)
        /\ Len([ic_list EXCEPT ![i] = r]) = Len(ic_list)
        /\ \A j \in 1 .. Len(ic_list) :
              [ic_list EXCEPT ![i] = r][j] = IF j = i THEN r ELSE ic_list[j]
    BY <1>1, <1>3, ExceptSeq
  <2> DEFINE t == [ic_list EXCEPT ![i] = r]
  <2>2. ic_list' = t
    BY <1>2
  <2> HIDE DEF t
  <2>3. /\ t \in Seq(ICRecord) /\ Len(t) = Len(ic_list)
        /\ \A j \in 1 .. Len(ic_list) : t[j] = IF j = i THEN r ELSE ic_list[j]
    BY <2>1, Zenon DEF t
  <2>4. QED BY <1>1, <2>2, <2>3
<1>5. \A j \in 1 .. Len(ic_list) : ic_list'[j].id = ic_list[j].id
  BY <1>1, <1>4
<1>6. ASSUME NEW id PROVE Found(ic_list', id) = Found(ic_list, id)
  <2> DEFINE s == ic_list
             t == ic_list'
  <2>1. /\ s \in Seq(ICRecord) /\ t \in Seq(ICRecord) /\ Len(t) = Len(s)
        /\ \A j \in 1 .. Len(s) : t[j].id = s[j].id
    BY <1>3, <1>4, <1>5, Zenon
  <2>2. Found(t, id) = Found(s, id)
    <3> HIDE DEF s, t
    <3>1. QED BY <2>1, FoundSame, Zenon
  <2>3. QED BY <2>2
<1>7. TypeOK'
  BY <1>2, <1>4 DEF IInv, TypeOK
<1>8. /\ \A y \in Number : Life(y)' = Life(y)
      /\ Held' = Held /\ \A y \in Held : contexts'[y].id = contexts[y].id
  BY <1>2 DEF Life, Held
<1>9. Held \subseteq Number
  BY HeldFacts DEF IInv
<1>10. ASSUME NEW y \in Held
       PROVE  /\ FindIC(contexts[y].id)' # 0
              /\ Record(y)' = IF y = x THEN r ELSE Record(y)
  <2> DEFINE id == contexts[y].id
             j == Found(ic_list, id)
  <2>1. /\ FindIC(contexts[y].id)' = Found(ic_list', contexts'[y].id)
        /\ Record(y)' = ic_list'[Found(ic_list', contexts'[y].id)]
    BY <1>7, <1>9, RecordFactsNext
  <2>2. FindIC(contexts[y].id) = j
    BY <1>9, RecordFacts DEF IInv
  <2>3. /\ FindIC(contexts[y].id) \in 1 .. Len(ic_list)
        /\ Record(y) = ic_list[FindIC(contexts[y].id)] /\ Record(y).id = id
    BY ServedFacts
  <2>4. j \in 1 .. Len(ic_list) /\ Record(y) = ic_list[j] /\ Record(y).id = id
    BY <2>2, <2>3, Zenon
  <2>5. Found(ic_list', contexts'[y].id) = j
    BY <1>2, <1>6
  <2>6. y # x => j # i
    BY <1>1, <2>4
  <2>7. y = x => j = i
    BY <2>2 DEF i
  <2> HIDE DEF j, id
  <2>8. FindIC(contexts[y].id)' # 0 /\ Record(y)' = ic_list'[j]
    BY <2>1, <2>4, <2>5
  <2>9. QED BY <1>1, <1>4, <2>4, <2>6, <2>7, <2>8
<1>11. HeldIsFound'
  BY <1>8, <1>10 DEF HeldIsFound
<1>12. HeldDiffer'
  BY <1>8 DEF HeldDiffer, IInv
<1>13. \A y \in Number \ {x} : Same(y)
  <2>1. \A y \in Number : Life(y) = "held" => y \in Held
    BY RecordFacts DEF IInv
  <2>2. QED BY <1>8, <1>10, <2>1 DEF Same
<1>14. QED BY <1>1, <1>7, <1>8, <1>10, <1>11, <1>12, <1>13 DEF IInv

(* SetIC: the attributes named in the request, and no others.              *)
LEMMA SetStep ==
    ASSUME IInv, NEW x \in Held, SetIC(x) PROVE IInv' /\ Abstract!Next
<1>1. /\ x \in Number /\ Life(x) = "held" /\ Record(x) \in ICRecord
      /\ FindIC(contexts[x].id) \in 1 .. Len(ic_list)
      /\ Record(x) = ic_list[FindIC(contexts[x].id)]
  BY ServedFacts
<1>2. PICK v \in Changes : ic_list' = [ic_list EXCEPT ![FindIC(contexts[x].id)] =
                                         StoreIC(ic_list[FindIC(contexts[x].id)], v)]
  BY DEF SetIC
<1> DEFINE r == StoreIC(Record(x), v)
<1>3. ic_list' = [ic_list EXCEPT ![FindIC(contexts[x].id)] = r]
  BY <1>1, <1>2, Zenon
<1>4. /\ r \in ICRecord /\ r.id = Record(x).id
      /\ r.values = Updated(Record(x).values, v) /\ r.IC_SHOW = Record(x).IC_SHOW
  BY <1>1, StoreFacts
<1>5. UNCHANGED <<free_list, icid, contexts>>
  BY DEF SetIC
<1> HIDE DEF r
<1>6. IInv' /\ Life(x)' = "held" /\ Record(x)' = r /\ \A y \in Number \ {x} : Same(y)
  BY <1>3, <1>4, <1>5, RecordChanged
<1>7. /\ LifeOf' = [LifeOf EXCEPT ![x] = "held"]
      /\ ValuesOf' = [ValuesOf EXCEPT ![x] = r.values]
      /\ ShownOf' = [ShownOf EXCEPT ![x] = r.IC_SHOW]
  <2>1. r.IC_SHOW \in BOOLEAN
    BY <1>4 DEF ICRecord
  <2>2. (Life(x)' = "held" /\ Record(x)'.IC_SHOW) = r.IC_SHOW
    BY <1>6, <2>1
  <2>3. QED BY <1>1, <1>6, <2>2, OthersSame
<1>8. LifeOf[x] = "held" /\ ValuesOf[x] = Record(x).values
  BY <1>1 DEF LifeOf, ValuesOf
<1>9. ShownOf[x] = Record(x).IC_SHOW
  <2>1. Record(x).IC_SHOW \in BOOLEAN
    BY <1>1 DEF ICRecord
  <2>2. QED BY <1>1, <2>1 DEF ShownOf
<1>10. [LifeOf EXCEPT ![x] = "held"] = LifeOf
  BY <1>8 DEF LifeOf
<1>11. [ShownOf EXCEPT ![x] = r.IC_SHOW] = ShownOf
  BY <1>4, <1>9, Zenon DEF ShownOf
<1>12. WasSet(x, v)
  BY <1>4, <1>7, <1>8, <1>10, <1>11 DEF WasSet
<1>13. QED BY <1>1, <1>6, <1>12, AbstractSteps

(* SetShow: IC_SHOW alone.                                                 *)
LEMMA ShowStep ==
    ASSUME IInv, NEW x \in Held, SetShow(x) PROVE IInv' /\ Abstract!Next
<1>1. /\ x \in Number /\ Life(x) = "held" /\ Record(x) \in ICRecord
      /\ FindIC(contexts[x].id) \in 1 .. Len(ic_list)
      /\ Record(x) = ic_list[FindIC(contexts[x].id)]
  BY ServedFacts
<1> DEFINE i == FindIC(contexts[x].id)
<1>2. PICK show \in BOOLEAN : ic_list' = [ic_list EXCEPT ![i].IC_SHOW = show]
  BY DEF SetShow
<1> DEFINE r == [Record(x) EXCEPT !.IC_SHOW = show]
<1>3. ic_list' = [ic_list EXCEPT ![i] = r]
  <2>1. ic_list' = [ic_list EXCEPT ![i] = [ic_list[i] EXCEPT !.IC_SHOW = show]]
    BY <1>2
  <2>2. QED BY <1>1, <2>1, Zenon
<1>4. /\ r \in ICRecord /\ r.id = Record(x).id
      /\ r.values = Record(x).values /\ r.IC_SHOW = show
  BY <1>1 DEF ICRecord
<1>5. UNCHANGED <<free_list, icid, contexts>>
  BY DEF SetShow
<1> HIDE DEF r
<1>6. IInv' /\ Life(x)' = "held" /\ Record(x)' = r /\ \A y \in Number \ {x} : Same(y)
  BY <1>3, <1>4, <1>5, RecordChanged
<1>7. /\ LifeOf' = [LifeOf EXCEPT ![x] = "held"]
      /\ ValuesOf' = [ValuesOf EXCEPT ![x] = r.values]
      /\ ShownOf' = [ShownOf EXCEPT ![x] = show]
  <2>1. (Life(x)' = "held" /\ Record(x)'.IC_SHOW) = show
    BY <1>4, <1>6
  <2>2. QED BY <1>1, <1>6, <2>1, OthersSame
<1>8. LifeOf[x] = "held" /\ ValuesOf[x] = Record(x).values
  BY <1>1 DEF LifeOf, ValuesOf
<1>9. [LifeOf EXCEPT ![x] = "held"] = LifeOf
  BY <1>8 DEF LifeOf
<1>10. [ValuesOf EXCEPT ![x] = r.values] = ValuesOf
  BY <1>4, <1>8, Zenon DEF ValuesOf
<1>11. WasShown(x, show)
  BY <1>7, <1>8, <1>9, <1>10 DEF WasShown
<1>12. QED BY <1>1, <1>6, <1>11, AbstractSteps

-----------------------------------------------------------------------------
(* A context is given up: the others keep their ids and their records, if  *)
(* the list of records still serves them.                                  *)
LEMMA GivenUp ==
    ASSUME IInv, NEW x \in Held, NEW l \in {"destroyed", "abandoned"},
           contexts' = [contexts EXCEPT ![x].life = l],
           icid' = icid, ic_list' \in Seq(ICRecord), free_list' \in Seq(ICRecord),
           \A id : id # contexts[x].id /\ Found(ic_list, id) # 0 =>
               /\ Found(ic_list', id) # 0
               /\ ic_list'[Found(ic_list', id)] = ic_list[Found(ic_list, id)]
    PROVE  IInv' /\ Abstract!Next
<1> DEFINE C == [id : Ids, life : {"held", "destroyed", "abandoned"}]
           c == [id |-> contexts[x].id, life |-> l]
<1>1. /\ x \in Number /\ Life(x) = "held" /\ Held \subseteq Number
      /\ \A y \in Held : y # x => contexts[y].id # contexts[x].id
  BY ServedFacts, HeldFacts DEF IInv
<1>2. /\ contexts \in Seq(C) /\ x \in 1 .. Len(contexts) /\ DOMAIN contexts = 1 .. Len(contexts)
      /\ Len(contexts) <= MaxCreate
  BY DEF IInv, TypeOK, Held
<1>3. c \in C /\ c.life = l /\ contexts' = [contexts EXCEPT ![x] = c]
  <2>1. contexts[x] \in C
    <3> HIDE DEF C
    <3>1. QED BY <1>2
  <2>2. [contexts[x] EXCEPT !.life = l] = c
    BY <2>1
  <2>3. contexts' = [contexts EXCEPT ![x] = [contexts[x] EXCEPT !.life = l]]
    OBVIOUS
  <2>4. QED BY <2>1, <2>2, <2>3
<1> HIDE DEF C, c
<1>4. /\ contexts' \in Seq(C) /\ Len(contexts') = Len(contexts)
      /\ DOMAIN contexts' = 1 .. Len(contexts)
      /\ contexts'[x] = c
      /\ \A y \in 1 .. Len(contexts) : y # x => contexts'[y] = contexts[y]
  <2> DEFINE t == [contexts EXCEPT ![x] = c]
  <2>1. /\ t \in Seq(C) /\ Len(t) = Len(contexts)
        /\ \A j \in 1 .. Len(contexts) : t[j] = IF j = x THEN c ELSE contexts[j]
    BY <1>2, <1>3, ExceptSeq
  <2>2. contexts' = t
    BY <1>3
  <2> HIDE DEF t
  <2>3. DOMAIN t = 1 .. Len(contexts)
    BY <2>1
  <2>4. QED BY <1>2, <2>1, <2>2, <2>3
<1>5. TypeOK'
  BY <1>2, <1>4 DEF IInv, TypeOK, C
<1>6. l # "held"
  OBVIOUS
<1>7. Life(x)' = "gone"
  BY <1>2, <1>3, <1>4, <1>6 DEF Life
<1>8. Held' = Held \ {x} /\ \A y \in Held' : contexts'[y].id = contexts[y].id
  BY <1>2, <1>3, <1>4, <1>6 DEF Held
<1>9. \A y \in Number \ {x} : Life(y)' = Life(y)
  BY <1>2, <1>4 DEF Life
<1>10. ASSUME NEW y \in Held \ {x}
       PROVE  FindIC(contexts[y].id)' # 0 /\ Record(y)' = Record(y)
  <2> DEFINE id == contexts[y].id
  <2>1. contexts'[y].id = id /\ id # contexts[x].id /\ y \in Number
    BY <1>1, <1>8
  <2>2. FindIC(id) # 0
    BY DEF IInv, HeldIsFound
  <2>3. FindIC(id) = Found(ic_list, id) /\ Record(y) = ic_list[Found(ic_list, id)]
    BY <2>1, RecordFacts DEF IInv
  <2>4. /\ FindIC(contexts[y].id)' = Found(ic_list', contexts'[y].id)
        /\ Record(y)' = ic_list'[Found(ic_list', contexts'[y].id)]
    BY <1>5, <2>1, RecordFactsNext
  <2> HIDE DEF id
  <2>5. QED BY <2>1, <2>2, <2>3, <2>4
<1>11. HeldIsFound'
  BY <1>8, <1>10 DEF HeldIsFound
<1>12. HeldDiffer'
  BY <1>8 DEF HeldDiffer, IInv
<1>13. \A y \in Number \ {x} : Same(y)
  <2>1. \A y \in Number : Life(y) = "held" => y \in Held
    BY RecordFacts DEF IInv
  <2>2. QED BY <1>9, <1>10, <2>1 DEF Same
<1>14. /\ LifeOf' = [LifeOf EXCEPT ![x] = "gone"]
       /\ ValuesOf' = [ValuesOf EXCEPT ![x] = Blank]
       /\ ShownOf' = [ShownOf EXCEPT ![x] = FALSE]
  BY <1>1, <1>7, <1>13, OthersSame
<1>15. LifeOf[x] = "held"
  BY <1>1 DEF LifeOf
<1>16. Dropped(x)
  BY <1>14, <1>15 DEF Dropped
<1>17. QED BY <1>1, <1>5, <1>11, <1>12, <1>16, AbstractSteps DEF IInv

(* DestroyIC takes out the record of the context, which is always found.   *)
LEMMA DestroyStep ==
    ASSUME IInv, NEW x \in Held, DestroyIC(x) PROVE IInv' /\ Abstract!Next
<1> DEFINE i == FindIC(contexts[x].id)
           r == ic_list[i]
<1>1. /\ i \in 1 .. Len(ic_list) /\ r.id = contexts[x].id /\ r \in ICRecord
  BY ServedFacts
<1>2. i # 0
  BY <1>1
<1>3. /\ ic_list' = RemoveAt(ic_list, i) /\ free_list' = Cons(r, free_list)
      /\ contexts' = [contexts EXCEPT ![x].life = "destroyed"] /\ icid' = icid
  BY <1>2 DEF DestroyIC, Unlink
<1> HIDE DEF i
<1>4. ic_list \in Seq(ICRecord) /\ free_list \in Seq(ICRecord)
  BY DEF IInv, TypeOK
<1>5. ASSUME NEW id, id # contexts[x].id, Found(ic_list, id) # 0
      PROVE  /\ Found(ic_list', id) # 0
             /\ ic_list'[Found(ic_list', id)] = ic_list[Found(ic_list, id)]
  BY <1>1, <1>3, <1>4, <1>5, FoundRemoveAt
<1>6. ic_list' \in Seq(ICRecord)
  BY <1>1, <1>3, <1>4, RemoveAtFacts
<1>7. free_list' \in Seq(ICRecord)
  <2> HIDE DEF r
  <2>1. QED BY <1>1, <1>3, <1>4, ConsFacts
<1>8. QED BY <1>3, <1>5, <1>6, <1>7, GivenUp

(* Abandon leaves the lists alone.                                         *)
LEMMA AbandonStep ==
    ASSUME IInv, NEW x \in Held, Abandon(x) PROVE IInv' /\ Abstract!Next
<1>1. /\ contexts' = [contexts EXCEPT ![x].life = "abandoned"]
      /\ ic_list' = ic_list /\ free_list' = free_list /\ icid' = icid
  BY DEF Abandon
<1>2. ic_list' \in Seq(ICRecord) /\ free_list' \in Seq(ICRecord)
  BY <1>1 DEF IInv, TypeOK
<1>3. \A id : id # contexts[x].id /\ Found(ic_list, id) # 0 =>
          /\ Found(ic_list', id) # 0
          /\ ic_list'[Found(ic_list', id)] = ic_list[Found(ic_list, id)]
  BY <1>1
<1>4. QED BY <1>1, <1>2, <1>3, GivenUp

-----------------------------------------------------------------------------
(* The empty table serves nobody.                                          *)
LEMMA InitStep ==
    ASSUME Init PROVE IInv /\ Abstract!Init
<1>1. ic_list = <<>> /\ free_list = <<>> /\ icid = 0 /\ contexts = <<>>
  BY DEF Init
<1>2. Held = {}
  BY <1>1 DEF Held
<1>3. TypeOK
  BY <1>1, ICTableAssumption DEF TypeOK, Ids
<1>4. HeldIsFound /\ HeldDiffer
  BY <1>2 DEF HeldIsFound, HeldDiffer
<1>5. \A x \in Number : Life(x) = "new"
  BY <1>1 DEF Life
<1>6. QED BY <1>3, <1>4, <1>5 DEF IInv, Abstract!Init, Abstract!Blank, Blank, Number

(* A step that changes nothing is no step of Abstract either.              *)
LEMMA StutterStep ==
    ASSUME IInv, UNCHANGED vars PROVE IInv' /\ UNCHANGED Abstract!vars
<1>1. ic_list' = ic_list /\ free_list' = free_list /\ icid' = icid /\ contexts' = contexts
  BY DEF vars
<1>2. IInv'
  <2>1. TypeOK' /\ HeldDiffer'
    BY <1>1 DEF IInv, TypeOK, HeldDiffer, Held
  <2>2. Held' = Held /\ Held \subseteq Number
    BY <1>1, HeldFacts DEF IInv, Held
  <2>3. ASSUME NEW x \in Held PROVE FindIC(contexts[x].id)' # 0
    <3>1. FindIC(contexts[x].id) # 0
      BY DEF IInv, HeldIsFound
    <3>2. QED BY <1>1, <2>1, <2>2, <3>1, RecordFacts, RecordFactsNext DEF IInv
  <2>4. QED BY <2>1, <2>2, <2>3 DEF IInv, HeldIsFound
<1>3. UNCHANGED Abstract!vars
  BY <1>1 DEF Abstract!vars, Life, Record, FindIC, SelectInSeq
<1>4. QED BY <1>2, <1>3

(* Every step of FreshNext keeps the invariant and is a step of Abstract.  *)
LEMMA Step ==
    ASSUME IInv, [FreshNext]_vars
    PROVE  IInv' /\ [Abstract!Next]_(Abstract!vars)
<1>1. CASE IdIsFree /\ CreateIC
  BY <1>1, CreateStep
<1>2. CASE Requests
  <2>1. PICK x \in Held : SetIC(x) \/ SetShow(x) \/ DestroyIC(x) \/ Abandon(x)
    BY <1>2 DEF Requests
  <2>2. QED BY <2>1, SetStep, ShowStep, DestroyStep, AbandonStep
<1>3. CASE UNCHANGED vars
  BY <1>3, StutterStep
<1>4. QED BY <1>1, <1>2, <1>3 DEF FreshNext

(* However many contexts are created, destroyed and left behind, and       *)
(* however often the ids come round: every held context has a record in    *)
(* ic_list (SetIC, GetIC and DestroyIC find it), and no two held contexts  *)
(* share an id (IC.c:41-93), as long as no id comes round while held.      *)
THEOREM Inductive == FreshSpec => []IInv
<1>1. Init => IInv
  BY InitStep
<1>2. IInv /\ [FreshNext]_vars => IInv'
  BY Step
<1>3. QED BY <1>1, <1>2, PTL DEF FreshSpec

(* Each context is served as Contexts promises: it starts blank, keeps     *)
(* what is set on it, and nothing done to another context, nor the history *)
(* of the record it reuses, shows in it.                                   *)
THEOREM Implements == FreshSpec => ImplementsContexts
<1>1. Init => Abstract!Init
  BY InitStep
<1>2. IInv /\ [FreshNext]_vars => [Abstract!Next]_(Abstract!vars)
  BY Step
<1>3. QED BY <1>1, <1>2, Inductive, PTL DEF FreshSpec, ImplementsContexts, Abstract!Spec
-----------------------------------------------------------------------------
(* ICAttributes: the attributes.                                            *)
(* What is read of a message, and the record and the history of what was set. *)
Attribute == [name : AttrNames, value : Values]
Data == [data : Values \cup {Cleared}, swapped : BOOLEAN]
ReadAttribute == [name : AttrNames, value : Data]
Records == UNION {[D -> Data] : D \in SUBSET (Wire!Groups \X AttrNames)}
Histories == UNION {[D -> Values] : D \in SUBSET (Wire!Groups \X AttrNames)}

-----------------------------------------------------------------------------
(* What a field keeps when another is put.                                  *)
Puts(r, f, k, v, S) ==
    /\ r \in S
    /\ DOMAIN r = DOMAIN f \cup {k}
    /\ r[k] = v
    /\ \A x \in DOMAIN f \ {k} : r[x] = f[x]

(* A field that is put is there, and the others stay. *)
LEMMA PutFacts ==
    ASSUME NEW K, NEW V, NEW S, S = UNION {[D -> V] : D \in SUBSET K},
           NEW f \in S, NEW k \in K, NEW v \in V
    PROVE  Puts(Wire!Put(f, k, v), f, k, v, S)
<1> DEFINE r == Wire!Put(f, k, v)
           D == DOMAIN f \cup {k}
<1>1. PICK C \in SUBSET K : f \in [C -> V]
  OBVIOUS
<1>2. r = [x \in D |-> IF x = k THEN v ELSE f[x]]
  BY DEF Wire!Put
<1>3. D \in SUBSET K
  BY <1>1
<1> HIDE DEF r
<1>4. r \in [D -> V]
  BY <1>1, <1>2
<1>5. r \in S
  BY <1>3, <1>4
<1>6. QED BY <1>2, <1>5 DEF r, Puts

(* A record holds values in some fields.                                    *)
LEMMA RecordsAre == Records = UNION {[D -> Data] : D \in SUBSET (Wire!Groups \X AttrNames)}
  BY DEF Records

(* A history holds values in some fields. *)
LEMMA HistoriesAre ==
    Histories = UNION {[D -> Values] : D \in SUBSET (Wire!Groups \X AttrNames)}
  BY DEF Histories

(* What is told of the names of attributes.                                 *)
LEMMA NameFacts ==
    /\ \A m \in AttrNames : Wire!FieldOf(m) \in AttrNames
    /\ \A g \in Wire!Groups : Wire!Fields[g] \subseteq AttrNames
<1>1. \A m \in AttrNames : Wire!FieldOf(m) \in AttrNames
  BY DEF AttrNames, Wire!FieldOf, Wire!Default_ICattr
<1>2. \A g \in Wire!Groups : Wire!Fields[g] \subseteq AttrNames
  BY DEF AttrNames, Wire!Fields, Wire!Default_ICattr, Wire!Groups
<1>3. QED BY <1>1, <1>2

(* One list more.                                                           *)
Joined(s, g, l) == IF l.group = g THEN s \o l.attrs ELSE s

(* The attributes of a group, gathered list by list. *)
Gathers(st, lists, g, A) ==
    /\ st \in [0 .. Len(lists) -> Seq(A)]
    /\ st[0] = <<>>
    /\ \A k \in 1 .. Len(lists) : st[k] = Joined(st[k - 1], g, lists[k])
    /\ Wire!Together(lists, g) = st[Len(lists)]

(* The lists of a group are taken one by one, for a message of any length. *)
LEMMA TogetherSteps ==
    ASSUME NEW A, NEW L, NEW lists \in Seq(L), NEW g,
           \A l \in L : l.group = g => l.attrs \in Seq(A)
    PROVE  \E st : Gathers(st, lists, g, A)
<1> DEFINE n == Len(lists)
           T == Seq(A)
           base == <<>>
           step == [k \in 1 .. n |-> [t \in T |-> Joined(t, g, lists[k])]]
           E(it) == it = [I \in SUBSET (DOMAIN lists) |->
                             IF I = {} THEN base
                             ELSE LET k == Max(I) IN Joined(it[I \ {k}], g, lists[k])]
           J == CHOOSE it : E(it)
<1>1. n \in Nat /\ DOMAIN lists = 1 .. n
  OBVIOUS
<1>2. base \in T
  OBVIOUS
<1>3. \A k \in 1 .. n : \A t \in T : Joined(t, g, lists[k]) \in T
  BY <1>1 DEF Joined
<1>4. /\ step \in [1 .. n -> [T -> T]]
      /\ \A k \in 1 .. n : \A t \in T : step[k][t] = Joined(t, g, lists[k])
  BY <1>3
<1> HIDE DEF n, step, base, T
<1>5. PICK it \in [SUBSET (1 .. n) -> T] : Folds(it, n, base, step)
  BY <1>1, <1>2, <1>4, Folded
<1>6. \A I \in SUBSET (1 .. n) :
         I # {} => Max(I) \in 1 .. n /\ I \ {Max(I)} \in SUBSET (1 .. n)
  BY <1>1, MaxFacts
<1>7. E(it)
  <2>1. \A I \in SUBSET (1 .. n) :
           it[I] = IF I = {} THEN base
                   ELSE Joined(it[I \ {Max(I)}], g, lists[Max(I)])
    BY <1>4, <1>5, <1>6 DEF Folds
  <2>2. QED BY <1>1, <1>5, <2>1
<1>8. E(J)
  BY <1>7
<1>9. Wire!Together(lists, g) = J[DOMAIN lists]
  BY Zenon DEF Wire!Together, Joined, Wire!FoldLeft, Wire!MapThenFoldSet, Wire!Max, Max, base
<1> HIDE DEF J
<1>10. Unfolds(J, T, n, base, step)
  BY <1>1, <1>4, <1>6, <1>8 DEF Unfolds
<1> HIDE DEF E
<1>11. PICK st : Run(st, T, n, base, step) /\ J[1 .. n] = st[n]
  <2>1. n \in Nat /\ step \in [1 .. n -> [T -> T]]
    BY <1>1, <1>4
  <2>2. HasRun(J, T, n, base, step)
    BY <1>2, <1>10, <2>1, FoldRun, Zenon
  <2>3. QED BY <2>2 DEF HasRun
<1> USE DEF T
<1>12. Gathers(st, lists, g, A)
  <2>1. \A k \in 1 .. n : st[k] = Joined(st[k - 1], g, lists[k])
    BY <1>4, <1>11 DEF Run
  <2>2. Wire!Together(lists, g) = st[n]
    BY <1>1, <1>9, <1>11
  <2>3. QED BY <1>11, <2>1, <2>2 DEF Run, Gathers, n, base
<1>13. QED BY <1>12

(* One attribute in StoreIC.                                                *)
Stored(f, g, a) == IF a.name \in Wire!Fields[g]
                   THEN Wire!Put(f, <<g, Wire!FieldOf(a.name)>>, a.value) ELSE f

(* The record after each attribute. *)
Stores(st, f, g, attrs) ==
    /\ st \in [0 .. Len(attrs) -> Records]
    /\ st[0] = f
    /\ \A k \in 1 .. Len(attrs) : st[k] = Stored(st[k - 1], g, attrs[k])
    /\ Wire!Store(f, g, attrs) = st[Len(attrs)]

(* StoreIC takes the attributes one by one, for a list of any length. *)
LEMMA StoreSteps ==
    ASSUME NEW f \in Records, NEW g \in Wire!Groups, NEW attrs \in Seq(ReadAttribute)
    PROVE  \E st : Stores(st, f, g, attrs)
<1> DEFINE n == Len(attrs)
           T == Records
           base == f
           step == [k \in 1 .. n |-> [t \in T |-> Stored(t, g, attrs[k])]]
           E(it) == it = [I \in SUBSET (DOMAIN attrs) |->
                             IF I = {} THEN base
                             ELSE LET k == Max(I) IN Stored(it[I \ {k}], g, attrs[k])]
           J == CHOOSE it : E(it)
<1>1. n \in Nat /\ DOMAIN attrs = 1 .. n
  OBVIOUS
<1>2. base \in T
  OBVIOUS
<1>3. \A k \in 1 .. n : \A t \in T : Stored(t, g, attrs[k]) \in T
  <2> SUFFICES ASSUME NEW k \in 1 .. n, NEW t \in Records PROVE Stored(t, g, attrs[k]) \in Records
    OBVIOUS
  <2>1. attrs[k] \in ReadAttribute
    OBVIOUS
  <2>2. <<g, Wire!FieldOf(attrs[k].name)>> \in Wire!Groups \X AttrNames /\ attrs[k].value \in Data
    BY <2>1, NameFacts DEF ReadAttribute
  <2> DEFINE x == <<g, Wire!FieldOf(attrs[k].name)>>
             v == attrs[k].value
  <2> HIDE DEF x, v
  <2>3. x \in Wire!Groups \X AttrNames /\ v \in Data
    BY <2>2 DEF x, v
  <2>4. Puts(Wire!Put(t, x, v), t, x, v, Records)
    BY <2>3, PutFacts, RecordsAre
  <2>5. Wire!Put(t, x, v) \in Records
    BY <2>4 DEF Puts
  <2>6. QED BY <2>5 DEF Stored, x, v
<1>4. /\ step \in [1 .. n -> [T -> T]]
      /\ \A k \in 1 .. n : \A t \in T : step[k][t] = Stored(t, g, attrs[k])
  BY <1>3
<1> HIDE DEF n, step, base, T
<1>5. PICK it \in [SUBSET (1 .. n) -> T] : Folds(it, n, base, step)
  BY <1>1, <1>2, <1>4, Folded
<1>6. \A I \in SUBSET (1 .. n) :
         I # {} => Max(I) \in 1 .. n /\ I \ {Max(I)} \in SUBSET (1 .. n)
  BY <1>1, MaxFacts
<1>7. E(it)
  <2>1. \A I \in SUBSET (1 .. n) :
           it[I] = IF I = {} THEN base
                   ELSE Stored(it[I \ {Max(I)}], g, attrs[Max(I)])
    BY <1>4, <1>5, <1>6 DEF Folds
  <2>2. QED BY <1>1, <1>5, <2>1
<1>8. E(J)
  BY <1>7
<1>9. Wire!Store(f, g, attrs) = J[DOMAIN attrs]
  BY Zenon DEF Wire!Store, Stored, Wire!FoldLeft, Wire!MapThenFoldSet, Wire!Max, Max, base
<1> HIDE DEF J
<1>10. Unfolds(J, T, n, base, step)
  BY <1>1, <1>4, <1>6, <1>8 DEF Unfolds
<1> HIDE DEF E
<1>11. PICK st : Run(st, T, n, base, step) /\ J[1 .. n] = st[n]
  <2>1. n \in Nat /\ step \in [1 .. n -> [T -> T]]
    BY <1>1, <1>4
  <2>2. HasRun(J, T, n, base, step)
    BY <1>2, <1>10, <2>1, FoldRun, Zenon
  <2>3. QED BY <2>2 DEF HasRun
<1> USE DEF T
<1>12. Stores(st, f, g, attrs)
  <2>1. \A k \in 1 .. n : st[k] = Stored(st[k - 1], g, attrs[k])
    BY <1>4, <1>11 DEF Run
  <2>2. Wire!Store(f, g, attrs) = st[n]
    BY <1>1, <1>9, <1>11
  <2>3. QED BY <1>11, <2>1, <2>2 DEF Run, Stores, n, base
<1>13. QED BY <1>12

(* What the application takes for set after each attribute. *)
Gives(st, h, g, attrs) ==
    /\ st \in [0 .. Len(attrs) -> Histories]
    /\ st[0] = h
    /\ \A k \in 1 .. Len(attrs) : st[k] = Wire!Put(st[k - 1], <<g, attrs[k].name>>, attrs[k].value)
    /\ Wire!Give(h, g, attrs) = st[Len(attrs)]

(* The application takes its values for set one by one. *)
LEMMA GiveSteps ==
    ASSUME NEW h \in Histories, NEW g \in Wire!Groups, NEW attrs \in Seq(Attribute)
    PROVE  \E st : Gives(st, h, g, attrs)
<1> DEFINE n == Len(attrs)
           T == Histories
           base == h
           step == [k \in 1 .. n |-> [t \in T |-> Wire!Put(t, <<g, attrs[k].name>>, attrs[k].value)]]
           E(it) == it = [I \in SUBSET (DOMAIN attrs) |->
                             IF I = {} THEN base
                             ELSE LET k == Max(I) IN Wire!Put(it[I \ {k}], <<g, attrs[k].name>>, attrs[k].value)]
           J == CHOOSE it : E(it)
<1>1. n \in Nat /\ DOMAIN attrs = 1 .. n
  OBVIOUS
<1>2. base \in T
  OBVIOUS
<1>3. \A k \in 1 .. n : \A t \in T : Wire!Put(t, <<g, attrs[k].name>>, attrs[k].value) \in T
  <2> SUFFICES ASSUME NEW k \in 1 .. n, NEW t \in Histories
               PROVE  Wire!Put(t, <<g, attrs[k].name>>, attrs[k].value) \in Histories
    OBVIOUS
  <2>1. attrs[k] \in Attribute
    OBVIOUS
  <2>2. <<g, attrs[k].name>> \in Wire!Groups \X AttrNames /\ attrs[k].value \in Values
    BY <2>1 DEF Attribute
  <2> DEFINE x == <<g, attrs[k].name>>
             v == attrs[k].value
  <2> HIDE DEF x, v
  <2>3. x \in Wire!Groups \X AttrNames /\ v \in Values
    BY <2>2 DEF x, v
  <2>4. Puts(Wire!Put(t, x, v), t, x, v, Histories)
    BY <2>3, PutFacts, HistoriesAre
  <2>5. Wire!Put(t, x, v) \in Histories
    BY <2>4 DEF Puts
  <2>6. QED BY <2>5 DEF x, v
<1>4. /\ step \in [1 .. n -> [T -> T]]
      /\ \A k \in 1 .. n : \A t \in T : step[k][t] = Wire!Put(t, <<g, attrs[k].name>>, attrs[k].value)
  BY <1>3
<1> HIDE DEF n, step, base, T
<1>5. PICK it \in [SUBSET (1 .. n) -> T] : Folds(it, n, base, step)
  BY <1>1, <1>2, <1>4, Folded
<1>6. \A I \in SUBSET (1 .. n) :
         I # {} => Max(I) \in 1 .. n /\ I \ {Max(I)} \in SUBSET (1 .. n)
  BY <1>1, MaxFacts
<1>7. E(it)
  <2>1. \A I \in SUBSET (1 .. n) :
           it[I] = IF I = {} THEN base
                   ELSE Wire!Put(it[I \ {Max(I)}], <<g, attrs[Max(I)].name>>, attrs[Max(I)].value)
    BY <1>4, <1>5, <1>6 DEF Folds
  <2>2. QED BY <1>1, <1>5, <2>1
<1>8. E(J)
  BY <1>7
<1>9. Wire!Give(h, g, attrs) = J[DOMAIN attrs]
  BY Zenon DEF Wire!Give, Wire!FoldLeft, Wire!MapThenFoldSet, Wire!Max, Max, base
<1> HIDE DEF J
<1>10. Unfolds(J, T, n, base, step)
  BY <1>1, <1>4, <1>6, <1>8 DEF Unfolds
<1> HIDE DEF E
<1>11. PICK st : Run(st, T, n, base, step) /\ J[1 .. n] = st[n]
  <2>1. n \in Nat /\ step \in [1 .. n -> [T -> T]]
    BY <1>1, <1>4
  <2>2. HasRun(J, T, n, base, step)
    BY <1>2, <1>10, <2>1, FoldRun, Zenon
  <2>3. QED BY <2>2 DEF HasRun
<1> USE DEF T
<1>12. Gives(st, h, g, attrs)
  <2>1. \A k \in 1 .. n : st[k] = Wire!Put(st[k - 1], <<g, attrs[k].name>>, attrs[k].value)
    BY <1>4, <1>11 DEF Run
  <2>2. Wire!Give(h, g, attrs) = st[n]
    BY <1>1, <1>9, <1>11
  <2>3. QED BY <1>11, <2>1, <2>2 DEF Run, Gives, n, base
<1>13. QED BY <1>12

-----------------------------------------------------------------------------
(* The attributes that are read back: what an application sets comes to be in its
   record, and nothing else does. *)
Kept(g) == IF g = "preedit" THEN {"area", "areaNeeded", "foreground", "background",
                                  "spotLocation"}
           ELSE IF g = "status" THEN {"area", "areaNeeded", "foreground", "background"}
           ELSE {}

(* A spot is kept in the bytes of the application.                          *)
AsSet(n, v) == Wire!Datum(v, n = "spotLocation" /\ swap)

Agree(f, h, g) ==
    \A n \in Kept(g) : /\ <<g, n>> \in DOMAIN f <=> <<g, n>> \in DOMAIN h
                       /\ <<g, n>> \in DOMAIN f => f[<<g, n>>] = AsSet(n, h[<<g, n>>])

(* Nothing is put in the fields of another group.                           *)
SameBut(f, r, g) ==
    \A k \in (Wire!Groups \ {g}) \X AttrNames :
        /\ k \in DOMAIN r <=> k \in DOMAIN f
        /\ k \in DOMAIN f => r[k] = f[k]

(* What was put by the attributes of a group, in the record and in the history. *)
Moved(r, i, f, h, g) ==
    /\ r \in Records /\ i \in Histories
    /\ Agree(r, i, g) /\ SameBut(f, r, g) /\ SameBut(h, i, g)

(* An attribute that is kept has a field of its own.                        *)
LEMMA KeptFacts ==
    ASSUME NEW g \in Wire!Groups, NEW n \in Kept(g)
    PROVE  /\ n \in Wire!Fields[g] /\ n \in AttrNames
           /\ \A m \in AttrNames : Wire!FieldOf(m) = n <=> m = n
           /\ Wire!Default_ICattr[n] = "XPoint" <=> n = "spotLocation"
<1>1. n \in {"area", "areaNeeded", "foreground", "background", "spotLocation"}
  BY DEF Kept
<1>2. n \in Wire!Fields[g]
  BY DEF Kept, Wire!Fields, Wire!Groups
<1>3. n \in AttrNames
  BY <1>2, NameFacts
<1>4. \A m \in AttrNames : Wire!FieldOf(m) = n <=> m = n
  BY <1>1 DEF Wire!FieldOf
<1>5. Wire!Default_ICattr[n] = "XPoint" <=> n = "spotLocation"
  BY <1>1 DEF Wire!Default_ICattr
<1>6. QED BY <1>2, <1>3, <1>4, <1>5

(* What is read of a value that an application sends.                       *)
LEMMA ReadFacts ==
    ASSUME swap \in BOOLEAN, NEW a \in Attribute
    PROVE  LET r == Wire!ReadICValue(Wire!Sent(a))
           IN  /\ r \in ReadAttribute
               /\ r.name = a.name
               /\ \A g \in Wire!Groups :
                     a.name \in Kept(g) => r.value = AsSet(a.name, a.value)
<1> DEFINE s == Wire!Sent(a)
           r == Wire!ReadICValue(s)
           point == Wire!Default_ICattr[a.name] = "XPoint"
<1>1. s.name = a.name /\ s.value = Wire!Datum(a.value, swap)
  BY DEF Wire!Sent
<1>2. Wire!Token(s.value) = Wire!Datum(a.value, FALSE)
  <2>1. Wire!Token(s.value) = [data |-> a.value, swapped |-> (swap # swap)]
    BY <1>1 DEF Wire!Token, Wire!Datum
  <2>2. (swap # swap) = FALSE
    OBVIOUS
  <2>3. QED BY <2>1, <2>2 DEF Wire!Datum
<1> HIDE DEF s
<1>3. r.name = a.name /\ r = [name |-> r.name, value |-> r.value]
      /\ r.value = IF point THEN Wire!Datum(a.value, swap) ELSE Wire!Datum(a.value, FALSE)
  BY <1>1, <1>2 DEF Wire!ReadICValue
<1> HIDE DEF r, point
<1>4. Wire!Datum(a.value, swap) \in Data /\ Wire!Datum(a.value, FALSE) \in Data
  BY DEF Wire!Datum, Data, Attribute
<1>5. r \in ReadAttribute
  BY <1>3, <1>4 DEF ReadAttribute, Attribute
<1>6. ASSUME NEW g \in Wire!Groups, a.name \in Kept(g) PROVE r.value = AsSet(a.name, a.value)
  <2>1. point <=> a.name = "spotLocation"
    BY <1>6, KeptFacts DEF point
  <2>2. QED BY <1>3, <2>1 DEF AsSet, Wire!Datum
<1>7. QED BY <1>3, <1>5, <1>6 DEF r, s

(* What one more attribute a makes of the records f and of what the application takes
   for set. *)
StoredAlike(f, h, g, a) ==
    LET r == Stored(f, g, Wire!ReadICValue(Wire!Sent(a)))
        i == Wire!Put(h, <<g, a.name>>, a.value)
    IN  /\ Moved(r, i, f, h, g)
        /\ DOMAIN i = DOMAIN h \cup {<<g, a.name>>}

(* One attribute: it is stored where the application will look for it.      *)
LEMMA OneStored ==
    ASSUME swap \in BOOLEAN, NEW g \in Wire!Groups, NEW f \in Records, NEW h \in Histories,
           Agree(f, h, g), NEW a \in Attribute
    PROVE  StoredAlike(f, h, g, a)
<1> DEFINE b == Wire!ReadICValue(Wire!Sent(a))
           r == Stored(f, g, b)
           i == Wire!Put(h, <<g, a.name>>, a.value)
           x == <<g, Wire!FieldOf(a.name)>>
           y == <<g, a.name>>
<1>1. /\ b \in ReadAttribute /\ b.name = a.name /\ b.value \in Data
      /\ a.name \in AttrNames /\ a.value \in Values
      /\ a.name \in Kept(g) => b.value = AsSet(a.name, a.value)
  BY ReadFacts DEF ReadAttribute, Attribute
<1> HIDE DEF b
<1>2. x \in Wire!Groups \X AttrNames /\ y \in Wire!Groups \X AttrNames
  BY <1>1, NameFacts
<1> HIDE DEF x, y
<1>3. Puts(i, h, y, a.value, Histories)
  <2>1. Puts(Wire!Put(h, y, a.value), h, y, a.value, Histories)
    BY <1>1, <1>2, PutFacts, HistoriesAre
  <2>2. QED BY <2>1 DEF y
<1>4. a.name \in Wire!Fields[g] => Puts(r, f, x, b.value, Records)
  <2>1. Puts(Wire!Put(f, x, b.value), f, x, b.value, Records)
    BY <1>1, <1>2, PutFacts, RecordsAre
  <2>2. QED BY <1>1, <2>1 DEF Stored, x
<1>5. a.name \notin Wire!Fields[g] => r = f
  BY <1>1 DEF Stored
<1> HIDE DEF r, i
<1> USE DEF x, y
<1>6. r \in Records
  BY <1>4, <1>5 DEF Puts
<1>7. SameBut(h, i, g)
  BY <1>3 DEF SameBut, Puts
<1>8. SameBut(f, r, g)
  BY <1>4, <1>5 DEF SameBut, Puts
<1>9. ASSUME NEW n \in Kept(g)
      PROVE  /\ <<g, n>> \in DOMAIN r <=> <<g, n>> \in DOMAIN i
             /\ <<g, n>> \in DOMAIN r => r[<<g, n>>] = AsSet(n, i[<<g, n>>])
  <2>1. CASE a.name = n
    <3>1. a.name \in Wire!Fields[g] /\ x = <<g, n>>
      BY <1>1, <2>1, KeptFacts
    <3>2. QED BY <1>1, <1>3, <1>4, <2>1, <3>1 DEF Puts
  <2>2. CASE a.name # n
    <3>1. x # <<g, n>> /\ <<g, a.name>> # <<g, n>>
      BY <1>1, <2>2, KeptFacts
    <3>2. /\ <<g, n>> \in DOMAIN r <=> <<g, n>> \in DOMAIN f
          /\ <<g, n>> \in DOMAIN f => r[<<g, n>>] = f[<<g, n>>]
      BY <1>4, <1>5, <3>1 DEF Puts
    <3>3. /\ <<g, n>> \in DOMAIN i <=> <<g, n>> \in DOMAIN h
          /\ <<g, n>> \in DOMAIN h => i[<<g, n>>] = h[<<g, n>>]
      BY <1>3, <3>1 DEF Puts
    <3>4. QED BY <3>2, <3>3 DEF Agree
  <2>3. QED BY <2>1, <2>2
<1>10. Agree(r, i, g)
  BY <1>9 DEF Agree
<1>11. /\ Moved(r, i, f, h, g)
       /\ DOMAIN i = DOMAIN h \cup {<<g, a.name>>}
  BY <1>3, <1>6, <1>7, <1>8, <1>10 DEF Puts, Moved
<1>12. QED BY <1>11 DEF r, i, b, StoredAlike

(* The attributes that are given and the ones that are read, and no spot among those
   of the status. *)
Names(attrs) == {attrs[k].name : k \in DOMAIN attrs}
Reads(attrs) == [j \in DOMAIN attrs |-> Wire!ReadICValue(Wire!Sent(attrs[j]))]

(* What a list puts into the record is what the application takes for set.  *)
LEMMA GroupStored ==
    ASSUME swap \in BOOLEAN, NEW g \in Wire!Groups, NEW f \in Records, NEW h \in Histories,
           Agree(f, h, g), NEW attrs \in Seq(Attribute)
    PROVE  LET r == Wire!Store(f, g, Reads(attrs))
               i == Wire!Give(h, g, attrs)
           IN  /\ Moved(r, i, f, h, g)
               /\ \A k \in DOMAIN i : k \in DOMAIN h \/ k \in {g} \X Names(attrs)
<1> DEFINE n == Len(attrs)
           read == Reads(attrs)
<1>1. /\ n \in Nat /\ DOMAIN attrs = 1 .. n
      /\ \A k \in 1 .. n : attrs[k] \in Attribute
  OBVIOUS
<1>2. /\ \A k \in 1 .. n : read[k] = Wire!ReadICValue(Wire!Sent(attrs[k]))
      /\ \A k \in 1 .. n : read[k] \in ReadAttribute
      /\ DOMAIN read = 1 .. n
  BY <1>1, ReadFacts DEF Reads
<1>3. read \in Seq(ReadAttribute) /\ Len(read) = n
  <2>1. read = [k \in 1 .. n |-> read[k]]
    BY <1>1 DEF Reads
  <2> HIDE DEF read
  <2>2. read \in [1 .. n -> ReadAttribute]
    BY <1>2, <2>1
  <2>3. QED BY <1>1, <2>2
<1> HIDE DEF read
<1>4. PICK a : Stores(a, f, g, read)
  BY <1>3, StoreSteps
<1>5. PICK b : Gives(b, h, g, attrs)
  BY GiveSteps
<1> DEFINE Q(k) == /\ Moved(a[k], b[k], f, h, g)
                   /\ \A x \in DOMAIN b[k] : x \in DOMAIN h \/ x \in {g} \X Names(attrs)
           P == {k \in 0 .. n : Q(k)}
<1>6. 0 \in P
  <2>1. a[0] = f /\ b[0] = h
    BY <1>4, <1>5 DEF Stores, Gives
  <2>2. SameBut(f, f, g) /\ SameBut(h, h, g)
    BY DEF SameBut
  <2>3. QED BY <1>1, <2>1, <2>2 DEF Moved
<1>7. ASSUME NEW k \in 0 .. n - 1, k \in P PROVE k + 1 \in P
  <2> DEFINE m == k + 1
  <2>1. m \in 1 .. n /\ m - 1 = k /\ m \in 0 .. n
    BY <1>1
  <2> HIDE DEF m
  <2>2. /\ a[m] = Stored(a[k], g, Wire!ReadICValue(Wire!Sent(attrs[m])))
        /\ b[m] = Wire!Put(b[k], <<g, attrs[m].name>>, attrs[m].value)
    BY <1>2, <1>3, <1>4, <1>5, <2>1 DEF Stores, Gives
  <2>3. a[k] \in Records /\ b[k] \in Histories /\ Agree(a[k], b[k], g)
        /\ SameBut(f, a[k], g) /\ SameBut(h, b[k], g)
    BY <1>7 DEF Moved
  <2>4. /\ Moved(a[m], b[m], a[k], b[k], g)
        /\ DOMAIN b[m] = DOMAIN b[k] \cup {<<g, attrs[m].name>>}
    <3> DEFINE c == attrs[m]
    <3>1. c \in Attribute
      BY <1>1, <2>1
    <3> HIDE DEF c
    <3>2. /\ Moved(Stored(a[k], g, Wire!ReadICValue(Wire!Sent(c))),
                   Wire!Put(b[k], <<g, c.name>>, c.value), a[k], b[k], g)
          /\ DOMAIN Wire!Put(b[k], <<g, c.name>>, c.value) = DOMAIN b[k] \cup {<<g, c.name>>}
      <4>1. StoredAlike(a[k], b[k], g, c)
        BY <2>3, <3>1, OneStored, Zenon
      <4>2. QED BY <4>1 DEF StoredAlike
    <3>3. QED BY <2>2, <3>2 DEF c
  <2>5. SameBut(f, a[m], g) /\ SameBut(h, b[m], g)
    BY <2>3, <2>4 DEF SameBut, Moved
  <2>6. <<g, attrs[m].name>> \in {g} \X Names(attrs)
    BY <1>1, <2>1 DEF Names
  <2>7. m \in P
    BY <1>7, <2>1, <2>4, <2>5, <2>6 DEF Moved
  <2>8. QED BY <2>7 DEF m
<1>8. \A k \in 0 .. n : k \in P
  <2> HIDE DEF P
  <2>1. QED BY <1>1, <1>6, <1>7, Induction
<1>9. n \in P
  <2> HIDE DEF P
  <2>1. n \in 0 .. n
    BY <1>1
  <2>2. QED BY <1>8, <2>1
<1>10. Wire!Store(f, g, read) = a[n] /\ Wire!Give(h, g, attrs) = b[n]
  BY <1>3, <1>4, <1>5 DEF Stores, Gives
<1>11. QED BY <1>9, <1>10 DEF read

(* The fields of a group are not disturbed by another.                      *)
LEMMA AgreeElse ==
    ASSUME NEW g \in Wire!Groups, NEW j \in Wire!Groups, g # j, NEW f, NEW r, NEW h, NEW i,
           SameBut(f, r, g), SameBut(h, i, g), Agree(f, h, j)
    PROVE  Agree(r, i, j)
<1> SUFFICES ASSUME NEW n \in Kept(j)
             PROVE  /\ <<j, n>> \in DOMAIN r <=> <<j, n>> \in DOMAIN i
                    /\ <<j, n>> \in DOMAIN r => r[<<j, n>>] = AsSet(n, i[<<j, n>>])
  BY DEF Agree
<1>1. <<j, n>> \in (Wire!Groups \ {g}) \X AttrNames
  BY KeptFacts
<1>2. QED BY <1>1 DEF SameBut, Agree

(* A message that an application sends, and the attributes that it gives in a group. *)
Lists == [group : Wire!Groups, attrs : Seq(Attribute)]
GivenIn(g) == {a \in Attribute : g = "status" => a.name # "spotLocation"}

(* What a message that sets holds in a group, and how it is read. *)
LEMMA GivenFacts ==
    ASSUME NEW lists \in Changed, NEW g \in Wire!Groups
    PROVE  /\ Wire!Together(lists, g) \in Seq(GivenIn(g))
           /\ Wire!Together(lists, g) \in Seq(Attribute)
           /\ Wire!Gathered(lists, g) = Reads(Wire!Together(lists, g))
<1> DEFINE L == {l \in Lists : l.group = g => l.attrs \in Seq(GivenIn(g))}
<1>1. /\ lists \in Seq(Lists)
      /\ \A k \in DOMAIN lists : lists[k].group = "status" =>
            \A j \in DOMAIN lists[k].attrs : lists[k].attrs[j].name # "spotLocation"
  BY ContextsAssumption DEF Lists, Attribute
<1>2. DOMAIN lists = 1 .. Len(lists) /\ Len(lists) \in Nat
      /\ \A k \in 1 .. Len(lists) : lists[k] \in Lists
  BY <1>1
<1>3. ASSUME NEW k \in 1 .. Len(lists) PROVE lists[k] \in L
  <2> DEFINE s == lists[k].attrs
  <2>1. s \in Seq(Attribute) /\ lists[k] \in Lists
    BY <1>2 DEF Lists
  <2>2. ASSUME lists[k].group = g PROVE s \in Seq(GivenIn(g))
    <3>1. \A j \in DOMAIN s : g = "status" => s[j].name # "spotLocation"
      BY <1>1, <1>2, <2>2
    <3> HIDE DEF s
    <3>2. \A j \in 1 .. Len(s) : s[j] \in GivenIn(g)
      BY <2>1, <3>1 DEF GivenIn
    <3>3. s \in [1 .. Len(s) -> GivenIn(g)] /\ Len(s) \in Nat
      BY <2>1, <3>2
    <3>4. QED BY <3>3
  <2>3. QED BY <2>1, <2>2
<1>4. lists \in Seq(L)
  <2> HIDE DEF L
  <2>1. lists \in [1 .. Len(lists) -> L]
    BY <1>1, <1>2, <1>3
  <2>2. QED BY <1>2, <2>1
<1>5. \A l \in L : l.group = g => l.attrs \in Seq(GivenIn(g))
  OBVIOUS
<1> HIDE DEF L
<1>6. PICK st : Gathers(st, lists, g, GivenIn(g))
  BY <1>4, <1>5, TogetherSteps
<1>7. Wire!Together(lists, g) \in Seq(GivenIn(g))
  <2>1. Len(lists) \in 0 .. Len(lists)
    BY <1>2
  <2>2. QED BY <1>6, <2>1 DEF Gathers
<1>8. GivenIn(g) \subseteq Attribute
  BY DEF GivenIn
<1>9. Wire!Together(lists, g) \in Seq(Attribute)
  <2> DEFINE s == Wire!Together(lists, g)
  <2> HIDE DEF s
  <2>1. ASSUME s \in Seq(GivenIn(g)) PROVE s \in Seq(Attribute)
    BY <1>8, <2>1
  <2>2. QED BY <1>7, <2>1 DEF s
<1>10. Wire!Gathered(lists, g) = Reads(Wire!Together(lists, g))
  BY DEF Wire!Gathered, Reads
<1>11. QED BY <1>7, <1>9, <1>10

-----------------------------------------------------------------------------
(* What is in a record is what was set, and an answer tells of the record.  *)
FieldsInv ==
    /\ swap \in BOOLEAN
    /\ rec \in Records /\ set \in Histories
    /\ \A g \in Wire!Groups : Agree(rec, set, g)
    /\ <<"status", "spotLocation">> \notin DOMAIN set
    /\ \A g \in Wire!Groups : reply[g] = <<>> \/ \E names : reply[g] = Wire!Answers(g, names)

(* A record starts blank.                                                   *)
LEMMA FieldsInit == Wire!Init => FieldsInv
<1> SUFFICES ASSUME Wire!Init PROVE FieldsInv
  OBVIOUS
<1>1. swap \in BOOLEAN /\ rec = <<>> /\ set = <<>> /\ \A g \in Wire!Groups : reply[g] = <<>>
  BY DEF Wire!Init, Wire!NoReply
<1>2. DOMAIN rec = {} /\ DOMAIN set = {}
  BY <1>1
<1>3. rec \in Records /\ set \in Histories
  <2>1. <<>> \in [{} -> Data] /\ <<>> \in [{} -> Values]
    OBVIOUS
  <2>2. {} \in SUBSET (Wire!Groups \X AttrNames)
    OBVIOUS
  <2>3. QED BY <1>1, <2>1, <2>2 DEF Records, Histories
<1>4. \A g \in Wire!Groups : Agree(rec, set, g)
  BY <1>2 DEF Agree
<1>5. QED BY <1>1, <1>2, <1>3, <1>4 DEF FieldsInv

(* A message is stored, group by group.                                     *)
LEMMA ChangeFields == ASSUME FieldsInv, Wire!_Xi18nChangeIC PROVE FieldsInv'
<1>1. PICK lists \in Changed : rec' = Wire!StoreIC(rec, lists) /\ set' = Wire!Given(lists)
  BY DEF Wire!_Xi18nChangeIC
<1>2. swap' = swap /\ \A g \in Wire!Groups : reply'[g] = <<>>
  BY DEF Wire!_Xi18nChangeIC, Wire!NoReply
<1> DEFINE T(g) == Wire!Together(lists, g)
           r1 == Wire!Store(rec, "ic", Reads(T("ic")))
           h1 == Wire!Give(set, "ic", T("ic"))
           r2 == Wire!Store(r1, "preedit", Reads(T("preedit")))
           h2 == Wire!Give(h1, "preedit", T("preedit"))
           r3 == Wire!Store(r2, "status", Reads(T("status")))
           h3 == Wire!Give(h2, "status", T("status"))
<1>3. {"ic", "preedit", "status"} = Wire!Groups
  BY DEF Wire!Groups
<1>4. rec' = r3 /\ set' = h3
  BY <1>1, <1>3, GivenFacts DEF Wire!StoreIC, Wire!Given
<1>5. \A g \in Wire!Groups : T(g) \in Seq(Attribute)
  BY GivenFacts
<1>6. /\ swap \in BOOLEAN /\ rec \in Records /\ set \in Histories
      /\ Agree(rec, set, "ic") /\ Agree(rec, set, "preedit") /\ Agree(rec, set, "status")
  BY <1>3 DEF FieldsInv
<1> HIDE DEF T
<1>7. /\ Moved(r1, h1, rec, set, "ic")
      /\ \A k \in DOMAIN h1 : k \in DOMAIN set \/ k \in {"ic"} \X Names(T("ic"))
  BY <1>3, <1>5, <1>6, GroupStored
<1> HIDE DEF r1, h1
<1>8. /\ r1 \in Records /\ h1 \in Histories
      /\ Agree(r1, h1, "ic") /\ Agree(r1, h1, "preedit") /\ Agree(r1, h1, "status")
  BY <1>3, <1>6, <1>7, AgreeElse DEF Moved
<1>9. /\ Moved(r2, h2, r1, h1, "preedit")
      /\ \A k \in DOMAIN h2 : k \in DOMAIN h1 \/ k \in {"preedit"} \X Names(T("preedit"))
  BY <1>3, <1>5, <1>6, <1>8, GroupStored
<1> HIDE DEF r2, h2
<1>10. /\ r2 \in Records /\ h2 \in Histories
       /\ Agree(r2, h2, "ic") /\ Agree(r2, h2, "preedit") /\ Agree(r2, h2, "status")
  BY <1>3, <1>8, <1>9, AgreeElse DEF Moved
<1>11. /\ Moved(r3, h3, r2, h2, "status")
       /\ \A k \in DOMAIN h3 : k \in DOMAIN h2 \/ k \in {"status"} \X Names(T("status"))
  BY <1>3, <1>5, <1>6, <1>10, GroupStored
<1> HIDE DEF r3, h3
<1>12. /\ r3 \in Records /\ h3 \in Histories
       /\ Agree(r3, h3, "ic") /\ Agree(r3, h3, "preedit") /\ Agree(r3, h3, "status")
  BY <1>3, <1>10, <1>11, AgreeElse DEF Moved
<1>13. <<"status", "spotLocation">> \notin DOMAIN h3
  <2> DEFINE x == <<"status", "spotLocation">>
  <2>1. "spotLocation" \notin Names(T("status"))
    <3>1. T("status") \in Seq(GivenIn("status"))
      BY <1>3, GivenFacts DEF T
    <3>2. \A k \in DOMAIN T("status") : T("status")[k] \in GivenIn("status")
      BY <3>1
    <3>3. QED BY <3>2 DEF Names, GivenIn
  <2>2. x \notin {"ic"} \X Names(T("ic")) /\ x \notin {"preedit"} \X Names(T("preedit"))
    OBVIOUS
  <2>3. x \notin {"status"} \X Names(T("status"))
    BY <2>1
  <2>4. x \notin DOMAIN set
    BY DEF FieldsInv
  <2> HIDE DEF x
  <2>5. QED BY <1>7, <1>9, <1>11, <2>2, <2>3, <2>4 DEF x
<1>14. QED
  <2>1. \A g \in Wire!Groups : Agree(r3, h3, g)
    BY <1>3, <1>12
  <2>2. \A g \in Wire!Groups : Agree(rec, set, g)'
    BY <1>2, <1>4, <2>1 DEF Agree, AsSet
  <2>3. QED BY <1>2, <1>4, <1>6, <1>12, <1>13, <2>2 DEF FieldsInv

(* An answer is made of the record, which stays as it is.                   *)
LEMMA GetFields == ASSUME FieldsInv, Wire!_Xi18nGetIC PROVE FieldsInv'
<1>1. UNCHANGED <<rec, set, swap, word>>
  BY DEF Wire!_Xi18nGetIC
<1>2. PICK sorted \in {Wire!Sorted(Wire!Ids(query'))} :
         reply' = IF Wire!HasNoFont(sorted) THEN Wire!NoReply
                  ELSE [g \in Wire!Groups |-> Wire!Answers(g, sorted[g])]
  BY DEF Wire!_Xi18nGetIC
<1>3. ASSUME NEW g \in Wire!Groups
      PROVE  reply'[g] = <<>> \/ \E names : reply'[g] = Wire!Answers(g, names)
  <2>1. CASE Wire!HasNoFont(sorted)
    BY <1>2, <2>1 DEF Wire!NoReply
  <2>2. CASE ~Wire!HasNoFont(sorted)
    <3>1. reply'[g] = Wire!Answers(g, sorted[g])
      BY <1>2, <2>2
    <3>2. QED BY <3>1
  <2>3. QED BY <2>1, <2>2
<1>4. ASSUME NEW g, NEW names PROVE Wire!Answers(g, names)' = Wire!Answers(g, names)
  BY <1>1 DEF Wire!Answers, Wire!Told, Wire!Nested, Wire!Field, Wire!Long, Wire!Token
<1>5. \A g \in Wire!Groups :
         (reply[g] = <<>> \/ \E names : reply[g] = Wire!Answers(g, names))'
  BY <1>3, <1>4
<1>6. \A g \in Wire!Groups : Agree(rec, set, g)'
  BY <1>1 DEF FieldsInv, Agree, AsSet
<1>7. QED BY <1>1, <1>5, <1>6 DEF FieldsInv

(* The invariant is inductive.                                              *)
LEMMA FieldsStep == FieldsInv /\ [Wire!Next]_wireVars => FieldsInv'
<1> SUFFICES ASSUME FieldsInv, [Wire!Next]_wireVars PROVE FieldsInv'
  OBVIOUS
<1>1. CASE UNCHANGED wireVars
  <2>1. UNCHANGED <<rec, set, swap, word, reply>>
    BY <1>1 DEF wireVars
  <2>2. ASSUME NEW g, NEW names PROVE Wire!Answers(g, names)' = Wire!Answers(g, names)
    BY <2>1 DEF Wire!Answers, Wire!Told, Wire!Nested, Wire!Field, Wire!Long, Wire!Token
  <2>3. \A g \in Wire!Groups :
           (reply[g] = <<>> \/ \E names : reply[g] = Wire!Answers(g, names))'
    BY <2>1, <2>2 DEF FieldsInv
  <2>4. \A g \in Wire!Groups : Agree(rec, set, g)'
    BY <2>1 DEF FieldsInv, Agree, AsSet
  <2>5. QED BY <2>1, <2>3, <2>4 DEF FieldsInv
<1>2. CASE Wire!Next
  BY <1>2, ChangeFields, GetFields DEF Wire!Next
<1>3. QED BY <1>1, <1>2

(* An attribute that is kept is told as it was set.                         *)
LEMMA ToldAsSet ==
    ASSUME FieldsInv, NEW g \in {"preedit", "status"}, NEW n \in Kept(g),
           n = "spotLocation" => ~swap, n \in {"foreground", "background"} => word = 4
    PROVE  Wire!IsRead(Wire!Nested(n, Wire!Told(g, n)), Wire!WasSet(g, n))
<1> DEFINE told == Wire!Told(g, n)
           type == Wire!Default_ICattr[n]
<1>1. n \in {"area", "areaNeeded", "foreground", "background", "spotLocation"} /\ g # "ic"
      /\ g \in Wire!Groups /\ (n = "spotLocation" => g = "preedit")
  BY DEF Kept, Wire!Groups
<1>2. /\ n \in {"area", "areaNeeded"} => type = "XRectangle"
      /\ n = "spotLocation" => type = "XPoint"
      /\ n \in {"foreground", "background"} => type = "CARD32"
  BY DEF Wire!Default_ICattr
<1>3. told.value = Wire!Field(g, n) /\ (n \in {"foreground", "background"} => told.length = 4)
  <2>1. CASE n \in {"area", "areaNeeded"}
    BY <1>1, <2>1 DEF Wire!Told
  <2>2. CASE n = "spotLocation"
    BY <1>1, <2>2 DEF Wire!Told
  <2>3. CASE n \in {"foreground", "background"}
    BY <1>1, <2>3 DEF Wire!Told, Wire!Long
  <2>4. QED BY <1>1, <2>1, <2>2, <2>3
<1> HIDE DEF told, type
<1>4. Wire!Nested(n, told) = Wire!Token(Wire!Field(g, n))
  BY <1>1, <1>2, <1>3 DEF Wire!Nested, type
<1>5. swap \in BOOLEAN /\ Agree(rec, set, g)
  BY <1>1 DEF FieldsInv
<1>6. CASE <<g, n>> \in DOMAIN rec
  <2>1. Wire!Field(g, n) = Wire!Datum(set[<<g, n>>], n = "spotLocation" /\ swap)
        /\ Wire!WasSet(g, n) = set[<<g, n>>]
    BY <1>5, <1>6 DEF Agree, AsSet, Wire!Field, Wire!WasSet
  <2>2. (n = "spotLocation" /\ swap) = FALSE
    BY <1>5
  <2>3. Wire!Field(g, n) = Wire!Datum(set[<<g, n>>], FALSE)
    BY <2>1, <2>2
  <2>4. QED BY <1>4, <1>5, <2>1, <2>3 DEF told, Wire!Token, Wire!Datum, Wire!IsRead
<1>7. CASE <<g, n>> \notin DOMAIN rec
  <2>1. Wire!Field(g, n) = Wire!NoValue /\ Wire!WasSet(g, n) = Cleared
    BY <1>5, <1>7 DEF Agree, Wire!Field, Wire!WasSet
  <2>2. QED BY <1>4, <2>1 DEF told, Wire!Token, Wire!Datum, Wire!NoValue, Wire!IsRead
<1>8. QED BY <1>6, <1>7

(* The status has no spot, and none is told.                                *)
LEMMA NoSpotIsTold ==
    ASSUME FieldsInv
    PROVE  Wire!IsRead(Wire!Nested("spotLocation", Wire!Told("status", "spotLocation")),
                       Wire!WasSet("status", "spotLocation"))
<1>1. Wire!Told("status", "spotLocation") = [length |-> 0, value |-> Wire!NoValue]
  BY DEF Wire!Told
<1>2. Wire!Nested("spotLocation", Wire!Told("status", "spotLocation")) = Wire!Token(Wire!NoValue)
  BY <1>1 DEF Wire!Nested, Wire!Default_ICattr
<1>3. Wire!WasSet("status", "spotLocation") = Cleared
  BY DEF FieldsInv, Wire!WasSet
<1>4. QED BY <1>2, <1>3 DEF Wire!Token, Wire!Datum, Wire!NoValue, Wire!IsRead

(* What is true of the fields of a record is true of the answers.           *)
LEMMA FieldsAreRead == FieldsInv => ReadsBack
<1> SUFFICES ASSUME FieldsInv, NEW g \in {"preedit", "status"}
             PROVE  /\ Wire!AreAsSet(g, {"area", "areaNeeded"})
                    /\ ~swap => Wire!AreAsSet(g, {"spotLocation"})
                    /\ word = 4 => Wire!AreAsSet(g, {"foreground", "background"})
  BY DEF ReadsBack, Wire!ReadsBack
<1>1. g \in Wire!Groups /\ g # "ic"
  BY DEF Wire!Groups
<1>2. ASSUME NEW a \in Wire!Range(reply[g])
      PROVE  a.value = Wire!Nested(a.name, Wire!Told(g, a.name))
  <2>1. PICK k \in DOMAIN reply[g] : a = reply[g][k]
    BY <1>2 DEF Wire!Range
  <2>2. PICK names : reply[g] = Wire!Answers(g, names)
    BY <1>1, <2>1 DEF FieldsInv
  <2>3. k \in DOMAIN names
    BY <2>1, <2>2 DEF Wire!Answers
  <2>4. a = [name |-> names[k], length |-> Wire!Told(g, names[k]).length,
             value |-> Wire!Nested(names[k], Wire!Told(g, names[k]))]
    BY <1>1, <2>1, <2>2, <2>3 DEF Wire!Answers
  <2>5. QED BY <2>4
<1>3. Wire!AreAsSet(g, {"area", "areaNeeded"})
  <2>1. {"area", "areaNeeded"} \subseteq Kept(g)
    BY DEF Kept
  <2>2. QED BY <1>2, <2>1, ToldAsSet DEF Wire!AreAsSet
<1>4. ASSUME ~swap PROVE Wire!AreAsSet(g, {"spotLocation"})
  <2>1. CASE g = "preedit"
    <3>1. "spotLocation" \in Kept(g)
      BY <2>1 DEF Kept
    <3>2. QED BY <1>2, <1>4, <3>1, ToldAsSet DEF Wire!AreAsSet
  <2>2. CASE g = "status"
    BY <1>2, <2>2, NoSpotIsTold DEF Wire!AreAsSet
  <2>3. QED BY <2>1, <2>2
<1>5. ASSUME word = 4 PROVE Wire!AreAsSet(g, {"foreground", "background"})
  <2>1. {"foreground", "background"} \subseteq Kept(g)
    BY DEF Kept
  <2>2. QED BY <1>2, <1>5, <2>1, ToldAsSet DEF Wire!AreAsSet
<1>6. QED BY <1>3, <1>4, <1>5

-----------------------------------------------------------------------------
(* Asking: the names of attributes, those that are answered, and those that stand in
   the lists of an application. *)
Proper == {n \in AttrNames : ~Wire!IsSeparator(n)}
Plain == {n \in Proper : ~Wire!IsNestedList(n)}
Query == [group : Wire!Groups, attrs : Seq(Plain), open : BOOLEAN]

(* The groups while a message is sorted.                                    *)
Places == [list : Wire!Groups, ic : Seq(AttrNames), preedit : Seq(AttrNames),
           status : Seq(AttrNames)]
NoPlaces == [list |-> "ic", ic |-> <<>>, preedit |-> <<>>, status |-> <<>>]

(* A name is put behind those of the list that is open, and others stay.    *)
Extends(r, t, g, name) == /\ r[g] = Append(t[g], name)
                          /\ \A j \in Wire!Groups \ {g} : r[j] = t[j]

(* What one name does to the groups.                                        *)
Placing(r, t, name) ==
    /\ r \in Places
    /\ name \in Plain => r.list = t.list /\ Extends(r, t, t.list, name)
    /\ \A g \in {"preedit", "status"} : t.list = "ic" /\ <<name>> = Wire!Heading[g] =>
          r.list = g /\ \A j \in Wire!Groups : r[j] = t[j]
    /\ Wire!IsSeparator(name) => r.list = "ic" /\ Extends(r, t, "ic", name)

(* One name, case by case. *)
LEMMA PlaceFacts ==
    ASSUME NEW t \in Places, NEW name \in AttrNames
    PROVE  Placing(Wire!Place(t, name), t, name)
<1> DEFINE r == Wire!Place(t, name)
<1>1. /\ t.list \in {"ic", "preedit", "status"}
      /\ t.ic \in Seq(AttrNames) /\ t.preedit \in Seq(AttrNames) /\ t.status \in Seq(AttrNames)
      /\ t["ic"] = t.ic /\ t["preedit"] = t.preedit /\ t["status"] = t.status
      /\ Wire!Groups = {"ic", "preedit", "status"}
  BY DEF Places, Wire!Groups
<1>2. ASSUME NEW s \in Seq(AttrNames) PROVE Append(s, name) \in Seq(AttrNames)
  OBVIOUS
<1>3. Wire!IsSeparator(name) => ~Wire!IsNestedList(name)
  BY DEF Wire!IsSeparator, Wire!IsNestedList, Wire!Default_ICattr
<1>4. CASE t.list = "preedit" /\ ~Wire!IsSeparator(name)
  <2>1. r = [t EXCEPT !.preedit = Append(@, name)]
    BY <1>4 DEF Wire!Place
  <2>2. QED BY <1>1, <1>2, <1>4, <2>1 DEF Placing, Places, Extends, Plain, Proper
<1>5. CASE t.list = "status" /\ ~Wire!IsSeparator(name)
  <2>1. r = [t EXCEPT !.status = Append(@, name)]
    BY <1>5 DEF Wire!Place
  <2>2. QED BY <1>1, <1>2, <1>5, <2>1 DEF Placing, Places, Extends, Plain, Proper
<1>6. CASE t.list = "ic" /\ Wire!IsNestedList(name)
  <2>1. r = [t EXCEPT !.list = Wire!ListOf[name]] /\ ~Wire!IsSeparator(name)
    BY <1>3, <1>6 DEF Wire!Place
  <2>2. name \in {"preeditAttributes", "statusAttributes"}
    BY <1>6 DEF Wire!IsNestedList, Wire!Default_ICattr, AttrNames
  <2>3. /\ name = "preeditAttributes" => Wire!ListOf[name] = "preedit"
        /\ name = "statusAttributes" => Wire!ListOf[name] = "status"
    BY DEF Wire!ListOf
  <2>4. /\ <<name>> = Wire!Heading["preedit"] => name = "preeditAttributes"
        /\ <<name>> = Wire!Heading["status"] => name = "statusAttributes"
    BY DEF Wire!Heading
  <2>5. r \in Places
    BY <1>1, <2>1, <2>2, <2>3 DEF Places
  <2>6. \A j \in Wire!Groups : r[j] = t[j]
    BY <1>1, <2>1 DEF Places
  <2>7. r.list = Wire!ListOf[name]
    BY <2>1 DEF Places
  <2> HIDE DEF r
  <2>8. QED BY <1>6, <2>1, <2>2, <2>3, <2>4, <2>5, <2>6, <2>7 DEF Placing, Plain, r
<1>7. CASE (t.list = "ic" \/ Wire!IsSeparator(name)) /\ ~Wire!IsNestedList(name)
  <2>1. r = [t EXCEPT !.list = "ic", !.ic = Append(@, name)]
    BY <1>7 DEF Wire!Place
  <2>2. \A g \in {"preedit", "status"} : <<name>> # Wire!Heading[g]
    BY <1>7 DEF Wire!Heading, Wire!IsNestedList, Wire!Default_ICattr
  <2>3. r \in Places /\ r.list = "ic" /\ Extends(r, t, "ic", name)
    BY <1>1, <1>2, <2>1 DEF Places, Extends
  <2>4. name \in Plain => t.list = "ic"
    BY <1>7 DEF Plain, Proper
  <2> HIDE DEF r
  <2>5. QED BY <2>2, <2>3, <2>4 DEF Placing, r
<1>8. QED BY <1>1, <1>3, <1>4, <1>5, <1>6, <1>7

(* The groups after each name, from any that were there before. *)
Sorts(st, s, names) ==
    /\ st \in [0 .. Len(names) -> Places]
    /\ st[0] = s
    /\ \A k \in 1 .. Len(names) : st[k] = Wire!Place(st[k - 1], names[k])
    /\ Wire!FoldLeft(Wire!Place, s, names) = st[Len(names)]

(* GetICValue takes the names one by one, for a list of any length. *)
LEMMA PlaceSteps ==
    ASSUME NEW s \in Places, NEW names \in Seq(AttrNames)
    PROVE  \E st : Sorts(st, s, names)
<1> DEFINE n == Len(names)
           T == Places
           base == s
           step == [k \in 1 .. n |-> [t \in T |-> Wire!Place(t, names[k])]]
           E(it) == it = [I \in SUBSET (DOMAIN names) |->
                             IF I = {} THEN base
                             ELSE LET k == Max(I) IN Wire!Place(it[I \ {k}], names[k])]
           J == CHOOSE it : E(it)
<1>1. n \in Nat /\ DOMAIN names = 1 .. n
  OBVIOUS
<1>2. base \in T
  OBVIOUS
<1>3. \A k \in 1 .. n : \A t \in T : Wire!Place(t, names[k]) \in T
  <2> SUFFICES ASSUME NEW k \in 1 .. n, NEW t \in Places PROVE Wire!Place(t, names[k]) \in Places
    OBVIOUS
  <2>1. names[k] \in AttrNames
    OBVIOUS
  <2>2. QED BY <2>1, PlaceFacts DEF Placing
<1>4. /\ step \in [1 .. n -> [T -> T]]
      /\ \A k \in 1 .. n : \A t \in T : step[k][t] = Wire!Place(t, names[k])
  BY <1>3
<1> HIDE DEF n, step, base, T
<1>5. PICK it \in [SUBSET (1 .. n) -> T] : Folds(it, n, base, step)
  BY <1>1, <1>2, <1>4, Folded
<1>6. \A I \in SUBSET (1 .. n) :
         I # {} => Max(I) \in 1 .. n /\ I \ {Max(I)} \in SUBSET (1 .. n)
  BY <1>1, MaxFacts
<1>7. E(it)
  <2>1. \A I \in SUBSET (1 .. n) :
           it[I] = IF I = {} THEN base
                   ELSE Wire!Place(it[I \ {Max(I)}], names[Max(I)])
    BY <1>4, <1>5, <1>6 DEF Folds
  <2>2. QED BY <1>1, <1>5, <2>1
<1>8. E(J)
  BY <1>7
<1>9. Wire!FoldLeft(Wire!Place, s, names) = J[DOMAIN names]
  BY Zenon DEF Wire!FoldLeft, Wire!MapThenFoldSet, Wire!Max, Max, base
<1> HIDE DEF J
<1>10. Unfolds(J, T, n, base, step)
  BY <1>1, <1>4, <1>6, <1>8 DEF Unfolds
<1> HIDE DEF E
<1>11. PICK st : Run(st, T, n, base, step) /\ J[1 .. n] = st[n]
  <2>1. n \in Nat /\ step \in [1 .. n -> [T -> T]]
    BY <1>1, <1>4
  <2>2. HasRun(J, T, n, base, step)
    BY <1>2, <1>10, <2>1, FoldRun, Zenon
  <2>3. QED BY <2>2 DEF HasRun
<1> USE DEF T
<1>12. Sorts(st, s, names)
  <2>1. \A k \in 1 .. n : st[k] = Wire!Place(st[k - 1], names[k])
    BY <1>4, <1>11 DEF Run
  <2>2. Wire!FoldLeft(Wire!Place, s, names) = st[n]
    BY <1>1, <1>9, <1>11
  <2>3. QED BY <1>11, <2>1, <2>2 DEF Run, Sorts, n, base
<1>13. QED BY <1>12

(* The groups after a list of names.                                        *)
After(s, names) == Wire!FoldLeft(Wire!Place, s, names)

(* Two lists of names are sorted one after the other.                       *)
LEMMA SortConcat ==
    ASSUME NEW s \in Places, NEW a \in Seq(AttrNames), NEW b \in Seq(AttrNames)
    PROVE  /\ After(s, a) \in Places
           /\ After(s, a \o b) = After(After(s, a), b)
<1> DEFINE l == Len(a)
           m == Len(b)
           c == a \o b
<1>1. /\ l \in Nat /\ m \in Nat /\ c \in Seq(AttrNames) /\ Len(c) = l + m
      /\ \A k \in 1 .. l : c[k] = a[k]
      /\ \A k \in 1 .. m : c[l + k] = b[k]
  BY ConcatFacts
<1>2. PICK u : Sorts(u, s, a)
  BY PlaceSteps
<1>3. After(s, a) = u[l] /\ u[l] \in Places
  <2>1. l \in 0 .. l
    BY <1>1
  <2>2. QED BY <1>2, <2>1 DEF Sorts, After
<1>4. PICK v : Sorts(v, u[l], b)
  BY <1>3, PlaceSteps
<1>5. PICK w : Sorts(w, s, c)
  BY <1>1, PlaceSteps
<1> HIDE DEF l, m, c
<1>6. /\ u[0] = s /\ w[0] = s /\ v[0] = u[l]
      /\ \A k \in 1 .. l : u[k] = Wire!Place(u[k - 1], a[k])
      /\ \A k \in 1 .. m : v[k] = Wire!Place(v[k - 1], b[k])
      /\ \A k \in 1 .. l + m : w[k] = Wire!Place(w[k - 1], c[k])
  BY <1>1, <1>2, <1>4, <1>5 DEF Sorts, l, m
<1>7. \A k \in 0 .. l : w[k] = u[k]
  <2> DEFINE P == {k \in 0 .. l : w[k] = u[k]}
  <2>1. 0 \in P
    BY <1>1, <1>6
  <2>2. ASSUME NEW k \in 0 .. l - 1, k \in P PROVE k + 1 \in P
    <3>1. k + 1 \in 1 .. l /\ k + 1 \in 1 .. l + m /\ k + 1 \in 0 .. l /\ (k + 1) - 1 = k
      BY <1>1
    <3>2. w[k + 1] = Wire!Place(w[k], c[k + 1]) /\ u[k + 1] = Wire!Place(u[k], a[k + 1])
      BY <1>6, <3>1
    <3>3. c[k + 1] = a[k + 1] /\ w[k] = u[k]
      BY <1>1, <2>2, <3>1
    <3>4. QED BY <3>1, <3>2, <3>3
  <2>3. \A k \in 0 .. l : k \in P
    <3> HIDE DEF P
    <3>1. QED BY <1>1, <2>1, <2>2, Induction
  <2>4. QED BY <2>3
<1>8. \A k \in 0 .. m : w[l + k] = v[k]
  <2> DEFINE P == {k \in 0 .. m : w[l + k] = v[k]}
  <2>1. 0 \in P
    <3>1. l \in 0 .. l /\ 0 \in 0 .. m /\ l + 0 = l
      BY <1>1
    <3>2. QED BY <1>6, <1>7, <3>1
  <2>2. ASSUME NEW k \in 0 .. m - 1, k \in P PROVE k + 1 \in P
    <3>1. /\ k + 1 \in 1 .. m /\ k + 1 \in 0 .. m /\ (k + 1) - 1 = k
          /\ l + (k + 1) \in 1 .. l + m /\ (l + (k + 1)) - 1 = l + k
      BY <1>1
    <3>2. w[l + (k + 1)] = Wire!Place(w[l + k], c[l + (k + 1)])
      BY <1>6, <3>1
    <3>3. v[k + 1] = Wire!Place(v[k], b[k + 1])
      BY <1>6, <3>1
    <3>4. c[l + (k + 1)] = b[k + 1] /\ w[l + k] = v[k]
      BY <1>1, <2>2, <3>1
    <3>5. QED BY <3>1, <3>2, <3>3, <3>4
  <2>3. \A k \in 0 .. m : k \in P
    <3> HIDE DEF P
    <3>1. QED BY <1>1, <2>1, <2>2, Induction
  <2>4. QED BY <2>3
<1>9. After(s, c) = w[l + m]
  BY <1>1, <1>5 DEF Sorts, After
<1>10. After(u[l], b) = v[m]
  BY <1>4 DEF Sorts, After, m
<1>11. m \in 0 .. m
  BY <1>1
<1>12. QED BY <1>3, <1>8, <1>9, <1>10, <1>11 DEF c

(* No name changes nothing, and one name is placed.                         *)
LEMMA SortOne ==
    ASSUME NEW s \in Places
    PROVE  /\ After(s, <<>>) = s
           /\ \A name \in AttrNames : After(s, <<name>>) = Wire!Place(s, name)
<1>1. After(s, <<>>) = s
  <2>1. <<>> \in Seq(AttrNames) /\ Len(<<>>) = 0
    OBVIOUS
  <2>2. PICK st : Sorts(st, s, <<>>)
    BY <2>1, PlaceSteps
  <2>3. QED BY <2>1, <2>2 DEF Sorts, After
<1>2. ASSUME NEW name \in AttrNames PROVE After(s, <<name>>) = Wire!Place(s, name)
  <2> DEFINE names == <<name>>
  <2>1. names \in Seq(AttrNames) /\ Len(names) = 1 /\ names[1] = name
    OBVIOUS
  <2> HIDE DEF names
  <2>2. PICK st : Sorts(st, s, names)
    BY <2>1, PlaceSteps
  <2>3. 1 \in 1 .. Len(names) /\ 1 - 1 = 0
    BY <2>1
  <2>4. st[1] = Wire!Place(st[0], names[1]) /\ st[0] = s
    BY <2>2, <2>3 DEF Sorts
  <2>5. After(s, names) = st[1]
    BY <2>1, <2>2 DEF Sorts, After
  <2>6. QED BY <2>1, <2>4, <2>5 DEF names
<1>3. QED BY <1>1, <1>2

-----------------------------------------------------------------------------
(* The names of a group that are answers, without the separators.           *)
Kin(t, g) == Selected(t[g], Proper)

(* The names are told in the group g, after those that were there, and in no other. *)
Adds(t, s, g, names) == /\ Kin(t, g) = Kin(s, g) \o names
                        /\ \A j \in Wire!Groups \ {g} : Kin(t, j) = Kin(s, j)

(* A group holds names, before and after they are selected.                 *)
LEMMA KinType ==
    ASSUME NEW t \in Places, NEW g \in Wire!Groups
    PROVE  t[g] \in Seq(AttrNames) /\ Kin(t, g) \in Seq(AttrNames)
<1>1. t[g] \in Seq(AttrNames)
  BY DEF Places, Wire!Groups
<1>2. QED BY <1>1, SelectedIs DEF Kin

(* One name, plain, that of a list or a separator.                          *)
LEMMA KinPlace ==
    ASSUME NEW s \in Places, NEW name \in AttrNames
    PROVE  LET t == Wire!Place(s, name)
           IN  /\ t \in Places
               /\ name \in Plain => /\ t.list = s.list
                                    /\ Kin(t, s.list) = Append(Kin(s, s.list), name)
                                    /\ \A j \in Wire!Groups \ {s.list} : Kin(t, j) = Kin(s, j)
               /\ \A g \in {"preedit", "status"} :
                     s.list = "ic" /\ <<name>> = Wire!Heading[g] =>
                        t.list = g /\ \A j \in Wire!Groups : Kin(t, j) = Kin(s, j)
               /\ Wire!IsSeparator(name) =>
                     t.list = "ic" /\ \A j \in Wire!Groups : Kin(t, j) = Kin(s, j)
<1> DEFINE t == Wire!Place(s, name)
<1>1. Placing(t, s, name)
  BY PlaceFacts
<1> HIDE DEF t
<1>2. t \in Places
  BY <1>1 DEF Placing
<1>3. s.list \in Wire!Groups /\ "ic" \in Wire!Groups
  BY DEF Places, Wire!Groups
<1>4. ASSUME NEW g \in Wire!Groups, Extends(t, s, g, name)
      PROVE  /\ Kin(t, g) = IF name \in Proper THEN Append(Kin(s, g), name) ELSE Kin(s, g)
             /\ \A j \in Wire!Groups \ {g} : Kin(t, j) = Kin(s, j)
  <2>1. s[g] \in Seq(AttrNames)
    BY KinType
  <2>2. t[g] = Append(s[g], name)
    BY <1>4 DEF Extends
  <2>3. Selected(Append(s[g], name), Proper)
           = IF name \in Proper THEN Append(Selected(s[g], Proper), name)
                                ELSE Selected(s[g], Proper)
    BY <2>1, SelectedAppend
  <2>4. QED BY <1>4, <2>2, <2>3 DEF Kin, Extends
<1>5. ASSUME name \in Plain
      PROVE  /\ t.list = s.list
             /\ Kin(t, s.list) = Append(Kin(s, s.list), name)
             /\ \A j \in Wire!Groups \ {s.list} : Kin(t, j) = Kin(s, j)
  <2>1. t.list = s.list /\ Extends(t, s, s.list, name) /\ name \in Proper
    BY <1>1, <1>5 DEF Placing, Plain
  <2>2. QED BY <1>3, <1>4, <2>1
<1>6. ASSUME NEW g \in {"preedit", "status"}, s.list = "ic", <<name>> = Wire!Heading[g]
      PROVE  t.list = g /\ \A j \in Wire!Groups : Kin(t, j) = Kin(s, j)
  BY <1>1, <1>6 DEF Placing, Kin
<1>7. ASSUME Wire!IsSeparator(name)
      PROVE  t.list = "ic" /\ \A j \in Wire!Groups : Kin(t, j) = Kin(s, j)
  <2>1. t.list = "ic" /\ Extends(t, s, "ic", name) /\ name \notin Proper
    BY <1>1, <1>7 DEF Placing, Proper
  <2>2. Kin(t, "ic") = Kin(s, "ic") /\ \A j \in Wire!Groups \ {"ic"} : Kin(t, j) = Kin(s, j)
    BY <1>3, <1>4, <2>1
  <2>3. QED BY <2>1, <2>2
<1>8. QED BY <1>2, <1>5, <1>6, <1>7 DEF t

(* One plain name more is told in the group of the list that is open.       *)
LEMMA KinNext ==
    ASSUME NEW s \in Places, NEW t \in Places, NEW names \in Seq(AttrNames), NEW name \in Plain,
           NEW g \in Wire!Groups, t.list = g, Adds(t, s, g, names)
    PROVE  /\ Wire!Place(t, name).list = g
           /\ Adds(Wire!Place(t, name), s, g, Append(names, name))
<1> DEFINE u == Wire!Place(t, name)
           a == Kin(s, g)
<1>1. name \in AttrNames
  BY DEF Plain, Proper
<1>2. /\ u.list = t.list
      /\ Kin(u, t.list) = Append(Kin(t, t.list), name)
      /\ \A j \in Wire!Groups \ {t.list} : Kin(u, j) = Kin(t, j)
  BY <1>1, KinPlace
<1> HIDE DEF u
<1>3. /\ u.list = g
      /\ Kin(u, g) = Append(Kin(t, g), name)
      /\ \A j \in Wire!Groups \ {g} : Kin(u, j) = Kin(t, j)
  BY <1>2
<1>4. Kin(t, g) = a \o names /\ \A j \in Wire!Groups \ {g} : Kin(t, j) = Kin(s, j)
  BY DEF Adds
<1>5. a \in Seq(AttrNames)
  BY KinType
<1> HIDE DEF a
<1>6. Append(a \o names, name) = a \o Append(names, name)
  <2>1. \A r \in AttrNames : a \o Append(names, r) = Append(a \o names, r)
    BY <1>5, ConcatAppend
  <2>2. QED BY <1>1, <2>1
<1>7. Kin(u, g) = a \o Append(names, name)
  BY <1>3, <1>4, <1>6
<1>8. Adds(u, s, g, Append(names, name))
  BY <1>3, <1>4, <1>7 DEF Adds, a
<1>9. QED BY <1>3, <1>8 DEF u

(* Plain names are told in the group of the list that is open.              *)
LEMMA KinPlain ==
    ASSUME NEW s \in Places, NEW names \in Seq(Plain)
    PROVE  /\ After(s, names) \in Places
           /\ After(s, names).list = s.list
           /\ Adds(After(s, names), s, s.list, names)
<1> DEFINE n == Len(names)
           g == s.list
           first(k) == SubSeq(names, 1, k)
<1>1. /\ n \in Nat /\ \A k \in 1 .. n : names[k] \in Plain
      /\ Plain \subseteq AttrNames
  BY DEF Plain, Proper
<1>2. names \in Seq(AttrNames)
  BY <1>1
<1>3. PICK st : Sorts(st, s, names)
  BY <1>2, PlaceSteps
<1>4. g \in Wire!Groups /\ \A t \in Places : Kin(t, g) \in Seq(AttrNames)
  BY KinType DEF Places
<1>5. first(0) = <<>> /\ first(n) = names
  BY <1>2
<1>6. ASSUME NEW k \in 0 .. n - 1
      PROVE  first(k) \in Seq(AttrNames) /\ first(k + 1) = Append(first(k), names[k + 1])
  <2>1. k \in Nat /\ k + 1 \in 1 .. n
    BY <1>1
  <2>2. QED BY <1>2, <2>1
<1> HIDE DEF n, g, first
<1>7. /\ st[0] = s
      /\ \A k \in 0 .. n : st[k] \in Places
      /\ \A k \in 1 .. n : st[k] = Wire!Place(st[k - 1], names[k])
  BY <1>3 DEF Sorts, n
<1> DEFINE P == {k \in 0 .. n : st[k].list = g /\ Adds(st[k], s, g, first(k))}
<1>8. 0 \in P
  <2>1. Kin(s, g) \in Seq(AttrNames)
    BY <1>4
  <2>2. Kin(s, g) \o <<>> = Kin(s, g)
    BY <2>1
  <2>3. Adds(s, s, g, <<>>)
    BY <2>2 DEF Adds
  <2>4. 0 \in 0 .. n
    BY <1>1
  <2>5. QED BY <1>5, <1>7, <2>3, <2>4 DEF g
<1>9. ASSUME NEW k \in 0 .. n - 1, k \in P PROVE k + 1 \in P
  <2>1. k + 1 \in 1 .. n /\ k + 1 \in 0 .. n /\ (k + 1) - 1 = k /\ k \in 0 .. n
    BY <1>1
  <2> DEFINE m == k + 1
             t == st[k]
             a == first(k)
             c == names[m]
  <2>2. st[m] = Wire!Place(t, c) /\ t \in Places /\ c \in Plain
    BY <1>1, <1>7, <2>1
  <2>3. a \in Seq(AttrNames) /\ first(m) = Append(a, c)
    BY <1>6
  <2>4. t.list = g /\ Adds(t, s, g, a)
    BY <1>9
  <2>5. m \in 0 .. n
    BY <2>1
  <2> HIDE DEF m, t, a, c
  <2>6. st[m].list = g /\ Adds(st[m], s, g, first(m))
    BY <1>4, <2>2, <2>3, <2>4, KinNext
  <2>7. m \in P
    BY <2>5, <2>6
  <2>8. QED BY <2>7 DEF m
<1>10. \A k \in 0 .. n : k \in P
  <2> HIDE DEF P
  <2>1. QED BY <1>1, <1>8, <1>9, Induction
<1>11. st[n].list = g /\ Adds(st[n], s, g, names)
  <2>1. n \in 0 .. n
    BY <1>1
  <2>2. n \in P
    <3> HIDE DEF P
    <3>1. QED BY <1>10, <2>1
  <2>3. QED BY <1>5, <2>2
<1>12. After(s, names) = st[n] /\ st[n] \in Places
  <2>1. n \in 0 .. n
    BY <1>1
  <2>2. QED BY <1>3, <1>7, <2>1 DEF Sorts, After, n
<1>13. QED BY <1>11, <1>12 DEF g

-----------------------------------------------------------------------------
(* The name of a list opens it and is told nowhere.                         *)
LEMMA HeadingPlaced ==
    ASSUME NEW s \in Places, s.list = "ic", NEW g \in Wire!Groups
    PROVE  LET t == After(s, Wire!Heading[g])
           IN  t \in Places /\ t.list = g /\ \A j \in Wire!Groups : Kin(t, j) = Kin(s, j)
<1>1. CASE g = "ic"
  <2>1. Wire!Heading[g] = <<>>
    BY <1>1 DEF Wire!Heading
  <2>2. QED BY <1>1, <2>1, SortOne
<1>2. CASE g \in {"preedit", "status"}
  <2>1. PICK name \in AttrNames : Wire!Heading[g] = <<name>>
    BY <1>2 DEF Wire!Heading, AttrNames, Wire!Default_ICattr
  <2>2. After(s, <<name>>) = Wire!Place(s, name)
    BY SortOne
  <2>3. QED BY <1>2, <2>1, <2>2, KinPlace
<1>3. QED BY <1>1, <1>2 DEF Wire!Groups

(* A separator closes the list that is open and is told nowhere.            *)
LEMMA EndingPlaced ==
    ASSUME NEW s \in Places, NEW l \in Query, s.list = l.group
    PROVE  LET t == After(s, Wire!Ending(l))
           IN  /\ t \in Places /\ (~l.open => t.list = "ic")
               /\ \A j \in Wire!Groups : Kin(t, j) = Kin(s, j)
<1>1. CASE l.group = "ic" \/ l.open
  <2>1. Wire!Ending(l) = <<>>
    BY <1>1 DEF Wire!Ending
  <2>2. QED BY <1>1, <2>1, SortOne
<1>2. CASE ~(l.group = "ic" \/ l.open)
  <2> DEFINE name == "separatorofNestedList"
  <2>1. Wire!Ending(l) = <<name>>
    BY <1>2 DEF Wire!Ending
  <2>2. name \in AttrNames /\ Wire!IsSeparator(name)
    BY DEF AttrNames, Wire!Default_ICattr, Wire!IsSeparator
  <2>3. After(s, <<name>>) = Wire!Place(s, name)
    BY <2>2, SortOne
  <2> HIDE DEF name
  <2>4. QED BY <2>1, <2>2, <2>3, KinPlace
<1>3. QED BY <1>1, <1>2

(* The names that a message has for one list.                               *)
IdsOf(l) == Wire!Heading[l.group] \o (l.attrs \o Wire!Ending(l))

(* They are names of attributes.                                            *)
LEMMA IdsType ==
    ASSUME NEW l \in Query
    PROVE  /\ Wire!Heading[l.group] \in Seq(AttrNames)
           /\ l.attrs \in Seq(AttrNames) /\ l.attrs \in Seq(Plain)
           /\ Wire!Ending(l) \in Seq(AttrNames)
           /\ IdsOf(l) \in Seq(AttrNames)
<1>1. l.group \in Wire!Groups /\ l.attrs \in Seq(Plain)
  BY DEF Query
<1>2. Wire!Heading[l.group] \in Seq(AttrNames)
  <2>1. /\ "preeditAttributes" \in AttrNames /\ "statusAttributes" \in AttrNames
    BY DEF AttrNames, Wire!Default_ICattr
  <2>2. /\ <<>> \in Seq(AttrNames)
        /\ <<"preeditAttributes">> \in Seq(AttrNames)
        /\ <<"statusAttributes">> \in Seq(AttrNames)
    BY <2>1
  <2>3. \A g \in Wire!Groups :
           Wire!Heading[g] \in {<<>>, <<"preeditAttributes">>, <<"statusAttributes">>}
    BY DEF Wire!Heading, Wire!Groups
  <2>4. QED BY <1>1, <2>2, <2>3
<1>3. l.attrs \in Seq(AttrNames)
  BY <1>1 DEF Plain, Proper
<1>4. Wire!Ending(l) \in Seq(AttrNames)
  <2>1. "separatorofNestedList" \in AttrNames
    BY DEF AttrNames, Wire!Default_ICattr
  <2>2. QED BY <2>1 DEF Wire!Ending
<1>5. QED BY <1>1, <1>2, <1>3, <1>4 DEF IdsOf

(* One list of a message is told in its own group, in its order, and no other list is
   open behind it if it is ended.                                           *)
LEMMA ListPlaced ==
    ASSUME NEW s \in Places, s.list = "ic", NEW l \in Query
    PROVE  /\ After(s, IdsOf(l)) \in Places
           /\ Adds(After(s, IdsOf(l)), s, l.group, l.attrs)
           /\ ~l.open => After(s, IdsOf(l)).list = "ic"
<1> DEFINE g == l.group
           a == l.attrs
           h == Wire!Heading[g]
           e == Wire!Ending(l)
           t == After(s, h)
           u == After(t, a)
           v == After(u, e)
<1>1. g \in Wire!Groups
  BY DEF Query
<1>2. /\ h \in Seq(AttrNames) /\ a \in Seq(AttrNames) /\ a \in Seq(Plain)
      /\ e \in Seq(AttrNames)
  BY IdsType
<1>3. t \in Places /\ t.list = g /\ \A j \in Wire!Groups : Kin(t, j) = Kin(s, j)
  BY <1>1, HeadingPlaced
<1> HIDE DEF t
<1>4. u \in Places /\ u.list = t.list /\ Adds(u, t, t.list, a)
  BY <1>2, <1>3, KinPlain
<1> HIDE DEF u
<1>5. /\ v \in Places /\ (~l.open => v.list = "ic")
      /\ \A j \in Wire!Groups : Kin(v, j) = Kin(u, j)
  BY <1>3, <1>4, EndingPlaced
<1>6. After(s, IdsOf(l)) = v
  <2> HIDE DEF a, h, e
  <2>1. a \o e \in Seq(AttrNames)
    BY <1>2
  <2>2. After(s, h \o (a \o e)) = After(t, a \o e)
    BY <1>2, <2>1, SortConcat DEF t
  <2>3. After(t, a \o e) = After(u, e)
    BY <1>2, <1>3, SortConcat DEF u
  <2>4. QED BY <2>2, <2>3 DEF IdsOf, a, h, e
<1> HIDE DEF v
<1>7. Adds(v, s, g, a)
  BY <1>1, <1>3, <1>4, <1>5 DEF Adds
<1>8. QED BY <1>5, <1>6, <1>7

(* The names of a message, list by list. *)
Lines(st, lists) ==
    /\ st \in [0 .. Len(lists) -> Seq(AttrNames)]
    /\ st[0] = <<>>
    /\ \A k \in 1 .. Len(lists) : st[k] = st[k - 1] \o IdsOf(lists[k])
    /\ Wire!Ids(lists) = st[Len(lists)]

(* A message that asks is put together list by list. *)
LEMMA IdsSteps ==
    ASSUME NEW lists \in Seq(Query)
    PROVE  \E st : Lines(st, lists)
<1> DEFINE n == Len(lists)
           T == Seq(AttrNames)
           base == <<>>
           step == [k \in 1 .. n |-> [t \in T |-> t \o IdsOf(lists[k])]]
           E(it) == it = [I \in SUBSET (DOMAIN lists) |->
                             IF I = {} THEN base
                             ELSE LET k == Max(I) IN it[I \ {k}] \o IdsOf(lists[k])]
           J == CHOOSE it : E(it)
<1>1. n \in Nat /\ DOMAIN lists = 1 .. n
  OBVIOUS
<1>2. base \in T
  OBVIOUS
<1>3. \A k \in 1 .. n : \A t \in T : t \o IdsOf(lists[k]) \in T
  <2> SUFFICES ASSUME NEW k \in 1 .. n, NEW t \in Seq(AttrNames)
               PROVE  t \o IdsOf(lists[k]) \in Seq(AttrNames)
    OBVIOUS
  <2>1. lists[k] \in Query
    OBVIOUS
  <2>2. IdsOf(lists[k]) \in Seq(AttrNames)
    BY <2>1, IdsType
  <2>3. QED BY <2>2
<1>4. /\ step \in [1 .. n -> [T -> T]]
      /\ \A k \in 1 .. n : \A t \in T : step[k][t] = t \o IdsOf(lists[k])
  BY <1>3
<1> HIDE DEF n, step, base, T
<1>5. PICK it \in [SUBSET (1 .. n) -> T] : Folds(it, n, base, step)
  BY <1>1, <1>2, <1>4, Folded
<1>6. \A I \in SUBSET (1 .. n) :
         I # {} => Max(I) \in 1 .. n /\ I \ {Max(I)} \in SUBSET (1 .. n)
  BY <1>1, MaxFacts
<1>7. E(it)
  <2>1. \A I \in SUBSET (1 .. n) :
           it[I] = IF I = {} THEN base
                   ELSE it[I \ {Max(I)}] \o IdsOf(lists[Max(I)])
    BY <1>4, <1>5, <1>6 DEF Folds
  <2>2. QED BY <1>1, <1>5, <2>1
<1>8. E(J)
  BY <1>7
<1>9. Wire!Ids(lists) = J[DOMAIN lists]
  BY Zenon DEF Wire!Ids, IdsOf, Wire!FoldLeft, Wire!MapThenFoldSet, Wire!Max, Max, base
<1> HIDE DEF J
<1>10. Unfolds(J, T, n, base, step)
  BY <1>1, <1>4, <1>6, <1>8 DEF Unfolds
<1> HIDE DEF E
<1>11. PICK st : Run(st, T, n, base, step) /\ J[1 .. n] = st[n]
  <2>1. n \in Nat /\ step \in [1 .. n -> [T -> T]]
    BY <1>1, <1>4
  <2>2. HasRun(J, T, n, base, step)
    BY <1>2, <1>10, <2>1, FoldRun, Zenon
  <2>3. QED BY <2>2 DEF HasRun
<1> USE DEF T
<1>12. Lines(st, lists)
  <2>1. \A k \in 1 .. n : st[k] = st[k - 1] \o IdsOf(lists[k])
    BY <1>4, <1>11 DEF Run
  <2>2. Wire!Ids(lists) = st[n]
    BY <1>1, <1>9, <1>11
  <2>3. QED BY <1>11, <2>1, <2>2 DEF Run, Lines, n, base
<1>13. QED BY <1>12

(* A list without its separator has none behind it: it is all that is asked for. *)
Ended(lists) == \A k \in DOMAIN lists : lists[k].open => k = Len(lists)

(* What an application asks for is such a message.                          *)
LEMMA QueriesAre ==
    ASSUME NEW lists \in Queries PROVE lists \in Seq(Query) /\ Ended(lists)
<1>1. /\ lists \in Seq([group : Wire!Groups, attrs : Seq(AttrNames), open : BOOLEAN])
      /\ \A k \in DOMAIN lists :
            /\ \A j \in DOMAIN lists[k].attrs : /\ ~Wire!IsSeparator(lists[k].attrs[j])
                                                /\ ~Wire!IsNestedList(lists[k].attrs[j])
            /\ lists[k].open => Len(lists) = 1
  BY ContextsAssumption
<1>2. /\ Len(lists) \in Nat /\ DOMAIN lists = 1 .. Len(lists)
      /\ \A k \in DOMAIN lists :
            lists[k] \in [group : Wire!Groups, attrs : Seq(AttrNames), open : BOOLEAN]
  <2> DEFINE S == [group : Wire!Groups, attrs : Seq(AttrNames), open : BOOLEAN]
  <2>1. lists \in Seq(S)
    BY <1>1
  <2> HIDE DEF S
  <2>2. Len(lists) \in Nat /\ DOMAIN lists = 1 .. Len(lists) /\ \A k \in DOMAIN lists : lists[k] \in S
    BY <2>1
  <2>3. QED BY <2>2 DEF S
<1>3. ASSUME NEW k \in DOMAIN lists PROVE lists[k] \in Query
  <2>1. /\ lists[k].attrs \in Seq(AttrNames)
        /\ \A j \in DOMAIN lists[k].attrs : /\ ~Wire!IsSeparator(lists[k].attrs[j])
                                            /\ ~Wire!IsNestedList(lists[k].attrs[j])
    BY <1>1, <1>2
  <2> DEFINE a == lists[k].attrs
  <2> HIDE DEF a
  <2>2. /\ Len(a) \in Nat /\ DOMAIN a = 1 .. Len(a) /\ a = [j \in 1 .. Len(a) |-> a[j]]
        /\ \A j \in 1 .. Len(a) : a[j] \in AttrNames
    BY <2>1 DEF a
  <2>3. \A j \in 1 .. Len(a) : a[j] \in Plain
    BY <2>1, <2>2 DEF a, Plain, Proper
  <2>4. a \in Seq(Plain)
    BY <2>2, <2>3
  <2>5. lists[k].attrs \in Seq(Plain)
    BY <2>4 DEF a
  <2>6. lists[k] \in [group : Wire!Groups, attrs : Seq(AttrNames), open : BOOLEAN]
    BY <1>2
  <2>7. QED BY <2>5, <2>6 DEF Query
<1>4. lists \in Seq(Query)
  BY <1>1, <1>2, <1>3
<1>5. \A k \in DOMAIN lists : lists[k].open => k = Len(lists)
  BY <1>1, <1>2
<1>6. QED BY <1>4, <1>5 DEF Ended

(* One list more: what its group is told, and the others.                   *)
LEMMA OneMore ==
    ASSUME NEW u \in Places, u.list = "ic", NEW l \in Query, NEW t,
           t = After(u, IdsOf(l))
    PROVE  /\ t \in Places /\ (~l.open => t.list = "ic")
           /\ \A g \in Wire!Groups : Kin(t, g) = Joined(Kin(u, g), g, l)
<1>1. /\ t \in Places /\ (~l.open => t.list = "ic")
      /\ Adds(t, u, l.group, l.attrs)
  BY ListPlaced
<1>2. ASSUME NEW g \in Wire!Groups PROVE Kin(t, g) = Joined(Kin(u, g), g, l)
  <2>1. CASE l.group = g
    BY <1>1, <2>1 DEF Adds, Joined
  <2>2. CASE l.group # g
    BY <1>1, <2>2 DEF Adds, Joined
  <2>3. QED BY <2>1, <2>2
<1>3. QED BY <1>1, <1>2

(* Each group is told what the lists of the group hold, whatever stands between them. *)
LEMMA SortedIs ==
    ASSUME NEW lists \in Seq(Query), Ended(lists)
    PROVE  /\ Wire!Sorted(Wire!Ids(lists)) \in Places
           /\ \A g \in Wire!Groups :
                 Kin(Wire!Sorted(Wire!Ids(lists)), g) = Wire!Together(lists, g)
<1> DEFINE n == Len(lists)
           to == [g \in Wire!Groups |-> CHOOSE st : Gathers(st, lists, g, Plain)]
           u(x) == After(NoPlaces, x)
<1>1. n \in Nat /\ DOMAIN lists = 1 .. n /\ \A k \in 1 .. n : lists[k] \in Query
  OBVIOUS
<1>2. PICK w : Lines(w, lists)
  BY IdsSteps
<1>3. \A g \in Wire!Groups : Gathers(to[g], lists, g, Plain)
  <2>1. ASSUME NEW g \in Wire!Groups PROVE \E st : Gathers(st, lists, g, Plain)
    <3>1. \A l \in Query : l.group = g => l.attrs \in Seq(Plain)
      BY DEF Query
    <3>2. QED BY <3>1, TogetherSteps
  <2>2. QED BY <2>1
<1>4. NoPlaces \in Places /\ NoPlaces.list = "ic" /\ \A g \in Wire!Groups : Kin(NoPlaces, g) = <<>>
  <2>1. <<>> \in Seq(AttrNames)
    OBVIOUS
  <2>2. NoPlaces \in Places /\ NoPlaces.list = "ic"
    BY <2>1 DEF NoPlaces, Places, Wire!Groups
  <2>3. \A g \in Wire!Groups : NoPlaces[g] = <<>>
    BY DEF NoPlaces, Wire!Groups
  <2>4. QED BY <2>2, <2>3, SelectedEmpty DEF Kin
<1>5. /\ w[0] = <<>> /\ \A k \in 0 .. n : w[k] \in Seq(AttrNames)
      /\ \A k \in 1 .. n : w[k] = w[k - 1] \o IdsOf(lists[k])
      /\ Wire!Ids(lists) = w[n]
  BY <1>2 DEF Lines
<1>6. \A g \in Wire!Groups :
         /\ to[g][0] = <<>>
         /\ \A k \in 1 .. n : to[g][k] = Joined(to[g][k - 1], g, lists[k])
         /\ Wire!Together(lists, g) = to[g][n]
  BY <1>3 DEF Gathers
<1>7. \A k \in 1 .. n : lists[k].open => k = n
  BY <1>1 DEF Ended
<1> HIDE DEF n, to, u
<1> DEFINE P == {k \in 0 .. n : /\ u(w[k]) \in Places
                                /\ (k = 0 \/ ~lists[k].open) => u(w[k]).list = "ic"
                                /\ \A g \in Wire!Groups : Kin(u(w[k]), g) = to[g][k]}
<1>8. 0 \in P
  <2>1. u(w[0]) = NoPlaces
    BY <1>4, <1>5, SortOne DEF u
  <2>2. 0 \in 0 .. n
    BY <1>1
  <2>3. QED BY <1>4, <1>6, <2>1, <2>2
<1>9. ASSUME NEW k \in 0 .. n - 1, k \in P PROVE k + 1 \in P
  <2>1. /\ k + 1 \in 1 .. n /\ k + 1 \in 0 .. n /\ (k + 1) - 1 = k /\ k \in 0 .. n /\ k # n
        /\ k + 1 # 0
    BY <1>1
  <2> DEFINE m == k + 1
             s == u(w[k])
             t == u(w[m])
             l == lists[m]
  <2>2. l \in Query /\ w[m] = w[k] \o IdsOf(l) /\ w[k] \in Seq(AttrNames) /\ m \in 0 .. n /\ m # 0
    BY <1>1, <1>5, <2>1
  <2>3. s \in Places /\ \A g \in Wire!Groups : Kin(s, g) = to[g][k]
    BY <1>9
  <2>4. s.list = "ic"
    <3>1. k = 0 \/ k \in 1 .. n
      BY <2>1
    <3>2. k = 0 \/ ~lists[k].open
      BY <1>7, <2>1, <3>1
    <3>3. QED BY <1>9, <3>2
  <2>5. \A g \in Wire!Groups : to[g][m] = Joined(to[g][k], g, l)
    BY <1>6, <2>1
  <2> HIDE DEF m, l, s
  <2>6. t = After(s, IdsOf(l))
    <3>1. IdsOf(l) \in Seq(AttrNames)
      BY <2>2, IdsType
    <3> DEFINE a == w[k]
               b == IdsOf(l)
    <3>2. a \in Seq(AttrNames) /\ b \in Seq(AttrNames)
      BY <2>2, <3>1
    <3> HIDE DEF a, b
    <3>3. After(NoPlaces, a \o b) = After(After(NoPlaces, a), b)
      BY <1>4, <3>2, SortConcat
    <3>4. QED BY <2>2, <3>3 DEF u, s, a, b
  <2> HIDE DEF t
  <2>7. /\ t \in Places /\ (~l.open => t.list = "ic")
        /\ \A g \in Wire!Groups : Kin(t, g) = Joined(Kin(s, g), g, l)
    BY <2>2, <2>3, <2>4, <2>6, OneMore
  <2>8. \A g \in Wire!Groups : Kin(t, g) = to[g][m]
    BY <2>3, <2>5, <2>7
  <2>9. m \in P
    BY <2>2, <2>7, <2>8 DEF t, l
  <2>10. QED BY <2>9 DEF m
<1>10. \A k \in 0 .. n : k \in P
  <2> HIDE DEF P
  <2>1. QED BY <1>1, <1>8, <1>9, Induction
<1>11. u(w[n]) \in Places /\ \A g \in Wire!Groups : Kin(u(w[n]), g) = to[g][n]
  <2>1. n \in 0 .. n
    BY <1>1
  <2>2. n \in P
    <3> HIDE DEF P
    <3>1. QED BY <1>10, <2>1
  <2>3. QED BY <2>2
<1>12. Wire!Sorted(Wire!Ids(lists)) = u(w[n])
  BY <1>5, Zenon DEF Wire!Sorted, u, After, NoPlaces
<1>13. QED BY <1>6, <1>11, <1>12

-----------------------------------------------------------------------------
(* The two instances of Selection select the same.                          *)
LEMMA SameSelection == \A s, I : Wire!SelectAt(s, I) = SelectAt(s, I)
  BY Zenon DEF Wire!SelectAt, SelectAt, Wire!Rank, Rank, Wire!Cardinality, Cardinality

(* The names of an answer, without the separators, are those it was asked for. *)
LEMMA NamesAnswered ==
    ASSUME NEW names \in Seq(AttrNames), NEW g
    PROVE  LET ans == Wire!Answers(g, names)
           IN  Wire!Names(Wire!SelectAt(ans, Wire!Proper(ans))) = Selected(names, Proper)
<1> DEFINE ans == Wire!Answers(g, names)
           I == At(names, Proper)
<1>1. /\ DOMAIN ans = DOMAIN names
      /\ \A k \in DOMAIN names : ans[k].name = names[k] /\ names[k] \in AttrNames
  BY DEF Wire!Answers
<1>2. Wire!Proper(ans) = I
  <2> HIDE DEF ans
  <2>1. \A k : k \in Wire!Proper(ans) <=> k \in I
    BY <1>1 DEF Wire!Proper, At, Proper
  <2>2. Wire!Proper(ans) \subseteq DOMAIN ans /\ I \subseteq DOMAIN names
    BY DEF Wire!Proper, At
  <2>3. QED BY <2>1
<1>3. I \in SUBSET Nat /\ I \subseteq DOMAIN names
  BY DEF At
<1>4. PICK n \in Nat : \E f : Enumerates(f, n, I) /\ Selected(names, Proper) = Picked(names, f, n)
  BY SelectedIs
<1>5. PICK f : Enumerates(f, n, I) /\ Selected(names, Proper) = Picked(names, f, n)
  BY <1>4
<1> HIDE DEF ans, I
<1>6. SelectAt(ans, I) = Picked(ans, f, n)
  BY <1>3, <1>5, SelectIs
<1>7. \A k \in 1 .. n : f[k] \in DOMAIN names
  BY <1>3, <1>5 DEF Enumerates
<1>8. Wire!Names(Picked(ans, f, n)) = Picked(names, f, n)
  <2> DEFINE p == Picked(ans, f, n)
  <2>1. DOMAIN p = 1 .. n /\ \A k \in 1 .. n : p[k] = ans[f[k]]
    BY DEF Picked
  <2> HIDE DEF p
  <2>2. Wire!Names(p) = [k \in 1 .. n |-> p[k].name]
    BY <2>1 DEF Wire!Names
  <2>3. \A k \in 1 .. n : p[k].name = names[f[k]]
    BY <1>1, <1>7, <2>1
  <2>4. [k \in 1 .. n |-> p[k].name] = [k \in 1 .. n |-> names[f[k]]]
    BY <2>3
  <2>5. QED BY <2>2, <2>4 DEF p, Picked
<1>9. QED BY <1>2, <1>5, <1>6, <1>8, SameSelection DEF ans

(* No answer has no names.                                                  *)
LEMMA NoNames == Wire!Names(Wire!SelectAt(<<>>, Wire!Proper(<<>>))) = <<>>
<1>1. Wire!Proper(<<>>) = {} /\ At(<<>>, Proper) = {}
  BY DEF Wire!Proper, At
<1>2. SelectAt(<<>>, {}) = <<>>
  BY <1>1, SelectedEmpty DEF Selected
<1>3. Wire!SelectAt(<<>>, Wire!Proper(<<>>)) = <<>>
  BY <1>1, <1>2, SameSelection
<1>4. Wire!Names(<<>>) = <<>>
  BY DEF Wire!Names
<1>5. QED BY <1>3, <1>4

(* An answer is made for all that was asked for: the groups are as they were sorted. *)
AskedInv ==
    \/ crashed
    \/ reply = Wire!NoReply /\ query = <<>>
    \/ /\ query \in Queries
       /\ \A g \in Wire!Groups :
             reply[g] = Wire!Answers(g, Wire!Sorted(Wire!Ids(query))[g])

(* Each group is answered with the names that were asked for in it.         *)
LEMMA AskedIsAnswered == AskedInv => AttributesAreAnswered
<1> SUFFICES ASSUME AskedInv, ~crashed, NEW g \in Wire!Groups
             PROVE  Wire!Asked(g) = Wire!Names(Wire!SelectAt(reply[g], Wire!Proper(reply[g])))
  BY DEF AttributesAreAnswered, Wire!AttributesAreAnswered
<1>1. CASE reply = Wire!NoReply /\ query = <<>>
  <2>1. reply[g] = <<>>
    BY <1>1 DEF Wire!NoReply
  <2>2. Wire!Together(<<>>, g) = <<>>
    <3>1. PICK st : Gathers(st, <<>>, g, Plain)
      <4>1. <<>> \in Seq(Query) /\ \A l \in Query : l.group = g => l.attrs \in Seq(Plain)
        BY DEF Query
      <4>2. QED BY <4>1, TogetherSteps
    <3>2. Len(<<>>) = 0
      OBVIOUS
    <3>3. QED BY <3>1, <3>2 DEF Gathers
  <2>3. QED BY <1>1, <2>1, <2>2, NoNames DEF Wire!Asked
<1>2. CASE /\ query \in Queries
           /\ \A j \in Wire!Groups :
                 reply[j] = Wire!Answers(j, Wire!Sorted(Wire!Ids(query))[j])
  <2> DEFINE t == Wire!Sorted(Wire!Ids(query))
  <2>1. query \in Seq(Query) /\ Ended(query)
    BY <1>2, QueriesAre
  <2>2. t \in Places /\ Kin(t, g) = Wire!Together(query, g)
    BY <2>1, SortedIs
  <2>3. reply[g] = Wire!Answers(g, t[g])
    BY <1>2
  <2> HIDE DEF t
  <2>4. t[g] \in Seq(AttrNames)
    BY <2>2, KinType
  <2>5. Wire!Names(Wire!SelectAt(reply[g], Wire!Proper(reply[g]))) = Selected(t[g], Proper)
    BY <2>3, <2>4, NamesAnswered
  <2>6. QED BY <2>2, <2>5 DEF Kin, Wire!Asked
<1>3. QED BY <1>1, <1>2 DEF AskedInv

(* A new context has not been asked.                                        *)
LEMMA AskedInit == Wire!Init => AskedInv
  BY DEF Wire!Init, AskedInv

(* Setting clears the answer; an answer is made from the whole query.        *)
LEMMA AskedStep == AskedInv /\ [Wire!Next]_wireVars => AskedInv'
<1> SUFFICES ASSUME AskedInv, [Wire!Next]_wireVars PROVE AskedInv'
  OBVIOUS
<1>1. ASSUME UNCHANGED <<rec, swap, word>>, NEW g, NEW names
      PROVE  Wire!Answers(g, names)' = Wire!Answers(g, names)
  BY <1>1 DEF Wire!Answers, Wire!Told, Wire!Nested, Wire!Field, Wire!Long, Wire!Token
<1>2. CASE Wire!_Xi18nChangeIC
  BY <1>2 DEF Wire!_Xi18nChangeIC, AskedInv, Wire!NoReply
<1>3. CASE Wire!_Xi18nGetIC
  <2>1. query' \in Queries /\ UNCHANGED <<rec, swap, word>>
    BY <1>3 DEF Wire!_Xi18nGetIC
  <2>2. PICK sorted \in {Wire!Sorted(Wire!Ids(query'))} :
           /\ crashed' = Wire!HasNoFont(sorted)
           /\ reply' = IF Wire!HasNoFont(sorted) THEN Wire!NoReply
                       ELSE [g \in Wire!Groups |-> Wire!Answers(g, sorted[g])]
    BY <1>3 DEF Wire!_Xi18nGetIC
  <2>3. CASE Wire!HasNoFont(sorted)
    BY <2>2, <2>3 DEF AskedInv
  <2>4. CASE ~Wire!HasNoFont(sorted)
    <3>1. \A g \in Wire!Groups :
             reply'[g] = Wire!Answers(g, Wire!Sorted(Wire!Ids(query'))[g])
      BY <2>2, <2>4
    <3>2. Wire!Ids(query)' = Wire!Ids(query')
      OBVIOUS
    <3>3. \A names : Wire!Sorted(names)' = Wire!Sorted(names)
      OBVIOUS
    <3>4. \A g \in Wire!Groups :
             (reply[g] = Wire!Answers(g, Wire!Sorted(Wire!Ids(query))[g]))'
      BY <1>1, <2>1, <3>1, <3>2, <3>3
    <3>5. QED BY <2>1, <3>4 DEF AskedInv
  <2>5. QED BY <2>3, <2>4
<1>4. CASE UNCHANGED wireVars
  <2>1. UNCHANGED <<rec, swap, word, query, reply, crashed>>
    BY <1>4 DEF wireVars
  <2>2. QED BY <1>1, <2>1 DEF AskedInv, Wire!NoReply
<1>5. QED BY <1>2, <1>3, <1>4 DEF Wire!Next

-----------------------------------------------------------------------------
(* An application reads back what it set, in every field that the code tells as it is
   kept, for all messages for which the arrays of IC_SIZE entries have room. *)
THEOREM SetIsReadBack == ContextsSpec => []ReadsBack
<1>1. ContextsInit => FieldsInv
  BY FieldsInit DEF ContextsInit
<1>2. FieldsInv /\ [ContextsNext]_<<vars, wireVars>> => FieldsInv'
  <2> SUFFICES ASSUME FieldsInv, [ContextsNext]_<<vars, wireVars>> PROVE FieldsInv'
    OBVIOUS
  <2>1. [Wire!Next]_wireVars
    BY DEF ContextsNext
  <2>2. QED BY <2>1, FieldsStep
<1>3. QED BY <1>1, <1>2, FieldsAreRead, PTL DEF ContextsSpec

(* Every attribute that is asked for is answered, once and in its place, for all names
   for which the arrays of IC_SIZE entries have room; a list may lack its separator if
   it is all that is asked for. *)
THEOREM AskedAreAnswered == ContextsSpec => []AttributesAreAnswered
<1>1. ContextsInit => AskedInv
  BY AskedInit DEF ContextsInit
<1>2. AskedInv /\ [ContextsNext]_<<vars, wireVars>> => AskedInv'
  <2> SUFFICES ASSUME AskedInv, [ContextsNext]_<<vars, wireVars>> PROVE AskedInv'
    OBVIOUS
  <2>1. [Wire!Next]_wireVars
    BY DEF ContextsNext
  <2>2. QED BY <2>1, AskedStep
<1>3. QED BY <1>1, <1>2, AskedIsAnswered, PTL DEF ContextsSpec

(* Beside the attributes on the wire the table of contexts runs as FreshSpec has it, so
   that what is proved of it holds here. *)
THEOREM TableRuns == ContextsSpec => FreshSpec
<1>1. ContextsInit => Init
  BY DEF ContextsInit
<1>2. [ContextsNext]_<<vars, wireVars>> => [FreshNext]_vars
  BY DEF ContextsNext
<1>3. QED BY <1>1, <1>2, PTL DEF ContextsSpec, FreshSpec
=============================================================================
