--------------------------- MODULE Keyboard_proofs ---------------------------
(***************************************************************************)
(* Proofs about the input field of the converter window, for any keyboard  *)
(* map files, read through a buffer of any size, and for any keys.         *)
(***************************************************************************)
EXTENDS Keyboard, Counting

(* A piece of a list of numbers.                                            *)
LEMMA Piece ==
    ASSUME NEW q \in Seq(Nat), NEW m \in Nat \ {0}, NEW n \in Int, n <= Len(q)
    PROVE  /\ SubSeq(q, m, n) \in Seq(Nat)
           /\ Len(SubSeq(q, m, n)) = IF m <= n THEN n - m + 1 ELSE 0
<1>1. \A i \in m .. n : q[i] \in Nat
  OBVIOUS
<1>2. m \in Int
  OBVIOUS
<1>3. QED BY <1>1, <1>2, SubSeqProperties

(* One list of numbers behind another. *)
LEMMA Joined ==
    ASSUME NEW p \in Seq(Nat), NEW q \in Seq(Nat)
    PROVE  p \o q \in Seq(Nat) /\ Len(p \o q) = Len(p) + Len(q)
<1>1. QED BY ConcatProperties

(* Its elements. *)
LEMMA JoinedElements ==
    ASSUME NEW p \in Seq(Nat), NEW q \in Seq(Nat)
    PROVE  \A i \in 1 .. Len(p) + Len(q) : (p \o q)[i] = IF i <= Len(p) THEN p[i] ELSE q[i - Len(p)]
<1>1. QED BY ConcatProperties

(* The lesser and the greater of two numbers. *)
LEMMA TwoNumbers ==
    ASSUME NEW a \in Int, NEW b \in Int
    PROVE  /\ Min({a, b}) \in {a, b} /\ Min({a, b}) <= a /\ Min({a, b}) <= b
           /\ Max({a, b}) \in {a, b} /\ Max({a, b}) >= a /\ Max({a, b}) >= b
<1>1. CASE a <= b
  <2>1. /\ \A x \in {a, b} : a <= x
        /\ \A x \in {a, b} : b >= x
    BY <1>1
  <2>2. QED BY <2>1 DEF Min, Max
<1>2. CASE ~ (a <= b)
  <2>1. /\ \A x \in {a, b} : b <= x
        /\ \A x \in {a, b} : a >= x
    BY <1>2
  <2>2. QED BY <2>1 DEF Min, Max
<1>3. QED BY <1>1, <1>2

-----------------------------------------------------------------------------
(* KmapFile: what a line is read into.  An array, the place in it, the flags and the
   number; and the two sides of a line. *)
Flags == {"QUOTE", "AFTER_E", "COMMENT", "HEX_OCT", "HEX", "OCT", "DEC", "ESCAPE"}
Side == {x \in [bus : Seq(Nat), b : Nat] : x.b <= Len(x.bus)}
Writing == {w \in [bus : Seq(Nat), b : Nat, st : SUBSET Flags, u : Nat] : w.b <= Len(w.bus)}
Reading == [before : Side, after : Side, st : SUBSET Flags, u : Nat]

(* A character is stored in an array of characters, or just behind it. *)
LEMMA StoreType ==
    ASSUME NEW bus \in Seq(Nat), NEW b \in 0 .. Len(bus), NEW u \in Nat
    PROVE  /\ File!Store(bus, b, u) \in Seq(Nat)
           /\ Len(File!Store(bus, b, u)) >= b + 1
<1> DEFINE l == Len(bus)
           n == Max({l, b + 1})
<1>1. l \in Nat /\ b \in Nat /\ b <= l /\ \A i \in 1 .. l : bus[i] \in Nat
  OBVIOUS
<1>2. File!Store(bus, b, u) = [i \in 1 .. n |-> IF i = b + 1 THEN u ELSE bus[i]]
  BY Zenon DEF File!Store, File!Max, Max
<1> HIDE DEF l
<1>3. n \in {l, b + 1} /\ n >= l /\ n >= b + 1
  <2>1. l \in Int /\ b + 1 \in Int
    BY <1>1
  <2>2. QED BY <2>1, TwoNumbers, Zenon
<1> HIDE DEF n
<1>4. n \in Nat /\ \A i \in 1 .. n : i # b + 1 => i \in 1 .. l
  BY <1>1, <1>3
<1> DEFINE q == [i \in 1 .. n |-> IF i = b + 1 THEN u ELSE bus[i]]
<1>5. \A i \in 1 .. n : (IF i = b + 1 THEN u ELSE bus[i]) \in Nat
  BY <1>1, <1>4
<1>6. q \in [1 .. n -> Nat]
  BY <1>5
<1> HIDE DEF q
<1>7. q \in Seq(Nat) /\ Len(q) = n
  BY <1>4, <1>6
<1>8. QED BY <1>2, <1>3, <1>7 DEF q

(* What stands before the first of some positions. *)
LEMMA BeforeFirst ==
    ASSUME NEW q \in Seq(Nat), NEW I \in SUBSET (1 .. Len(q))
    PROVE  LET m == Min(I \cup {Len(q) + 1})
           IN  /\ m \in 1 .. Len(q) + 1
               /\ I # {} => m <= Len(q)
               /\ SubSeq(q, 1, m - 1) \in Seq(Nat)
               /\ Len(SubSeq(q, 1, m - 1)) = m - 1
<1> DEFINE m == Min(I \cup {Len(q) + 1})
<1>1. m \in I \cup {Len(q) + 1} /\ \A i \in I \cup {Len(q) + 1} : m <= i
  <2>1. Len(q) + 1 \in Nat /\ \A i \in I : i \in Nat
    OBVIOUS
  <2>2. I \cup {Len(q) + 1} \in SUBSET Nat /\ I \cup {Len(q) + 1} # {}
    BY <2>1
  <2>3. QED BY <2>2, MinFacts, Zenon
<1> HIDE DEF m
<1>2. m \in 1 .. Len(q) + 1 /\ (I # {} => m <= Len(q))
  <2> DEFINE l == Len(q)
  <2>1. l \in Nat /\ \A i \in I : i \in 1 .. l
    OBVIOUS
  <2>2. m \in I \cup {l + 1} /\ \A i \in I \cup {l + 1} : m <= i
    BY <1>1, Zenon
  <2> HIDE DEF l
  <2>3. m <= l + 1 /\ \A i \in I : m <= i
    BY <2>2, Zenon
  <2>4. m \in 1 .. l + 1
    <3>1. CASE m \in I
      BY <2>1, <3>1
    <3>2. CASE m = l + 1
      BY <2>1, <3>2
    <3>3. QED BY <2>2, <3>1, <3>2
  <2>5. ASSUME NEW i \in I PROVE m <= l
    <3>1. m <= i /\ i \in 1 .. l
      BY <2>1, <2>3
    <3>2. QED BY <2>1, <2>4, <3>1
  <2>6. m \in 1 .. l + 1 /\ (I # {} => m <= l)
    BY <2>4, <2>5, Zenon
  <2>7. QED BY <2>6 DEF l
<1>3. m - 1 \in Int /\ m - 1 <= Len(q) /\ (1 <= m - 1 \/ m - 1 = 0)
  BY <1>2
<1>4. SubSeq(q, 1, m - 1) \in Seq(Nat) /\ Len(SubSeq(q, 1, m - 1)) = m - 1
  <2>1. /\ SubSeq(q, 1, m - 1) \in Seq(Nat)
        /\ Len(SubSeq(q, 1, m - 1)) = IF 1 <= m - 1 THEN (m - 1) - 1 + 1 ELSE 0
    BY <1>3, Piece
  <2>2. QED BY <1>3, <2>1
<1>5. QED BY <1>2, <1>4 DEF m

(* The string in an array, and the line at the beginning of a text. *)
LEMMA StringType ==
    ASSUME NEW q \in Seq(Nat)
    PROVE  File!String(q) \in Seq(Nat)
<1>1. {i \in DOMAIN q : q[i] = 0} \in SUBSET (1 .. Len(q))
  OBVIOUS
<1>2. File!String(q) = SubSeq(q, 1, Min({i \in DOMAIN q : q[i] = 0} \cup {Len(q) + 1}) - 1)
  BY Zenon DEF File!String, File!Min, Min
<1>3. QED BY <1>1, <1>2, BeforeFirst

(* The line at the beginning of a text; it is shorter when there is a newline. *)
LEMMA LineType ==
    ASSUME NEW q \in Seq(Nat)
    PROVE  /\ File!Line(q) \in Seq(Nat)
           /\ Len(File!Line(q)) \in 0 .. Len(q)
           /\ File!NEWLINE \in Range(q) => Len(File!Line(q)) < Len(q)
<1> DEFINE I == {i \in DOMAIN q : q[i] = File!NEWLINE}
<1>1. I \in SUBSET (1 .. Len(q)) /\ (File!NEWLINE \in Range(q) => I # {})
  BY DEF Range
<1> HIDE DEF I
<1>2. LET m == Min(I \cup {Len(q) + 1})
      IN  /\ m \in 1 .. Len(q) + 1
          /\ I # {} => m <= Len(q)
          /\ SubSeq(q, 1, m - 1) \in Seq(Nat)
          /\ Len(SubSeq(q, 1, m - 1)) = m - 1
  BY <1>1, BeforeFirst
<1> DEFINE m == Min(I \cup {Len(q) + 1})
<1>3. File!Line(q) = SubSeq(q, 1, m - 1)
  BY Zenon DEF File!Line, File!Min, Min, I, m
<1> HIDE DEF m
<1>4. /\ m \in 1 .. Len(q) + 1 /\ (I # {} => m <= Len(q))
      /\ SubSeq(q, 1, m - 1) \in Seq(Nat)
      /\ Len(SubSeq(q, 1, m - 1)) = m - 1
  BY <1>2 DEF m
<1>5. QED BY <1>1, <1>3, <1>4

(* A digit has a value. *)
LEMMA HexType == ASSUME NEW p \in Nat PROVE File!from_hex(p) \in Nat
<1>1. QED BY DEF File!from_hex

(* A character is put at the place in an array, and the place moves on. *)
LEMMA StoredType ==
    ASSUME NEW w \in Writing, NEW u \in Nat
    PROVE  /\ File!Put(w, u) \in Writing
           /\ File!Terminate(w) \in Writing
<1>1. /\ w \in [bus : Seq(Nat), b : Nat, st : SUBSET Flags, u : Nat]
      /\ w.bus \in Seq(Nat) /\ w.b \in 0 .. Len(w.bus)
  BY DEF Writing
<1>2. ASSUME NEW v \in Nat
      PROVE  File!Store(w.bus, w.b, v) \in Seq(Nat) /\ Len(File!Store(w.bus, w.b, v)) >= w.b + 1
  BY <1>1, StoreType
<1> DEFINE r == File!Store(w.bus, w.b, u)
           z == File!Store(w.bus, w.b, 0)
<1>3. /\ r \in Seq(Nat) /\ Len(r) >= w.b + 1
      /\ z \in Seq(Nat) /\ Len(z) >= w.b + 1
  BY <1>2
<1>4. /\ File!Put(w, u) = [w EXCEPT !.bus = r, !.b = w.b + 1]
      /\ File!Terminate(w) = [w EXCEPT !.bus = z]
  BY DEF File!Put, File!Terminate
<1> HIDE DEF r, z
<1> DEFINE T == [bus : Seq(Nat), b : Nat, st : SUBSET Flags, u : Nat]
           x == [w EXCEPT !.bus = r, !.b = w.b + 1]
           y == [w EXCEPT !.bus = z]
<1>5. /\ w.b + 1 \in Nat /\ w.b + 1 <= Len(r) /\ w.b <= Len(z)
  BY <1>1, <1>3
<1>6. /\ x \in T /\ x.bus = r /\ x.b = w.b + 1
      /\ y \in T /\ y.bus = z /\ y.b = w.b
  BY <1>1, <1>3, <1>5
<1> HIDE DEF x, y
<1>7. x \in Writing /\ y \in Writing
  BY <1>5, <1>6 DEF Writing
<1>8. QED BY <1>4, <1>7 DEF x, y

(* What a character does to the side that it is written to. *)
LEMMA WithinType ==
    ASSUME NEW w \in Writing, NEW p \in Nat
    PROVE  File!Within(w, p) \in Writing
<1>1. File!from_hex(p) \in Nat
  BY HexType
<1>2. ASSUME NEW off \in SUBSET Flags, NEW on \in SUBSET Flags, NEW u \in Nat
      PROVE  /\ File!Flag(w, off, on) \in Writing
             /\ File!Flag(w, off, on).bus = w.bus /\ File!Flag(w, off, on).b = w.b
             /\ File!Number(w, off, on, u) \in Writing
  BY DEF File!Flag, File!Number, Writing
<1>3. ASSUME NEW v \in Writing, NEW u \in Nat PROVE File!Put(v, u) \in Writing
  BY StoredType
<1>4. ASSUME NEW flag \in Flags, NEW base \in Nat PROVE File!Digit(w, flag, base, p) \in Writing
  <2>1. base * w.u + File!from_hex(p) \in Nat /\ w.u \in Nat
    BY <1>1 DEF Writing
  <2>2. [w EXCEPT !.u = base * @ + File!from_hex(p)] \in Writing
    BY <2>1 DEF Writing
  <2>3. {flag} \in SUBSET Flags /\ {} \in SUBSET Flags
    OBVIOUS
  <2>4. File!Put(File!Flag(w, {flag}, {}), w.u) \in Writing
    BY <1>2, <1>3, <2>1, <2>3
  <2>5. QED BY <2>2, <2>4 DEF File!Digit
<1>5. /\ {} \in SUBSET Flags
      /\ \A flag \in Flags : {flag} \in SUBSET Flags
      /\ {"HEX_OCT", "OCT", "HEX", "DEC", "ESCAPE"} \subseteq Flags
      /\ 16 \in Nat /\ 8 \in Nat /\ 10 \in Nat /\ 0 \in Nat /\ File!ZERO \in Nat
  BY DEF Flags, File!ZERO
<1>6. /\ File!Number(w, {"HEX_OCT"}, {"OCT"}, File!from_hex(p)) \in Writing
      /\ File!Number(w, {"HEX_OCT"}, {"HEX"}, 0) \in Writing
      /\ File!Put(File!Flag(w, {"HEX_OCT"}, {}), File!ZERO) \in Writing
  <2>1. File!Flag(w, {"HEX_OCT"}, {}) \in Writing
    BY <1>2, <1>5
  <2>2. QED BY <1>1, <1>2, <1>3, <1>5, <2>1
<1>7. /\ File!Number(w, {"ESCAPE"}, {"OCT"}, 0) \in Writing
      /\ File!Number(w, {"ESCAPE"}, {"HEX"}, 0) \in Writing
      /\ File!Number(w, {"ESCAPE"}, {"DEC"}, File!from_hex(p)) \in Writing
      /\ File!Put(File!Number(w, {"ESCAPE"}, {}, 0), p) \in Writing
  <2>1. File!Number(w, {"ESCAPE"}, {}, 0) \in Writing
    BY <1>2, <1>5
  <2>2. QED BY <1>1, <1>2, <1>3, <1>5, <2>1
<1>8. /\ File!Digit(w, "HEX", 16, p) \in Writing
      /\ File!Digit(w, "OCT", 8, p) \in Writing
      /\ File!Digit(w, "DEC", 10, p) \in Writing
  <2>1. /\ "HEX" \in Flags /\ "OCT" \in Flags /\ "DEC" \in Flags
        /\ 16 \in Nat /\ 8 \in Nat /\ 10 \in Nat
    BY DEF Flags
  <2>2. QED BY <1>4, <2>1
<1>9. QED BY <1>6, <1>7, <1>8 DEF File!Within

(* A quotation mark ends a string, an equals sign its first side; another character
   begins a number or an escape, is put, or is passed over. *)
LEMMA OutsideType ==
    ASSUME NEW w \in Writing, NEW p \in Nat
    PROVE  File!Outside(w, p) \in Writing
<1>1. ASSUME NEW v \in Writing, NEW off \in SUBSET Flags, NEW on \in SUBSET Flags, NEW u \in Nat
      PROVE  /\ File!Flag(v, off, on) \in Writing
             /\ File!Number(v, off, on, u) \in Writing
  BY DEF File!Flag, File!Number, Writing
<1>2. ASSUME NEW v \in Writing, NEW u \in Nat
      PROVE  File!Put(v, u) \in Writing /\ File!Terminate(v) \in Writing
  BY StoredType
<1>3. /\ {} \in SUBSET Flags /\ {"QUOTE"} \in SUBSET Flags /\ {"AFTER_E"} \in SUBSET Flags
      /\ {"HEX_OCT"} \in SUBSET Flags /\ {"DEC"} \in SUBSET Flags /\ {"ESCAPE"} \in SUBSET Flags
  BY DEF Flags
<1>4. File!from_hex(p) \in Nat
  BY HexType
<1>5. [File!Terminate(w) EXCEPT !.st = {}] \in Writing
  <2>1. File!Terminate(w) \in Writing
    BY <1>2
  <2>2. QED BY <2>1 DEF Writing
<1>6. File!Terminate(File!Flag(w, {"QUOTE"}, {"AFTER_E"})) \in Writing
  BY <1>1, <1>2, <1>3
<1>7. /\ File!Flag(w, {}, {"HEX_OCT"}) \in Writing
      /\ File!Number(w, {}, {"DEC"}, File!from_hex(p)) \in Writing
      /\ File!Flag(w, {}, {"ESCAPE"}) \in Writing
      /\ File!Put(w, p) \in Writing
  BY <1>1, <1>2, <1>3, <1>4
<1>8. QED BY <1>5, <1>6, <1>7 DEF File!Outside

(* A character within a number or an escape, and otherwise. *)
LEMMA CleanType ==
    ASSUME NEW w \in Writing, NEW p \in Nat
    PROVE  File!clean(w, p) \in Writing
<1>1. File!Within(w, p) \in Writing
  BY WithinType
<1>2. File!Outside(File!Within(w, p), p) \in Writing
  BY <1>1, OutsideType
<1>3. QED BY <1>1, <1>2 DEF File!clean

(* A character of a line changes the side that it belongs to. *)
LEMMA CharacterType ==
    ASSUME NEW g \in Reading, NEW p \in Nat
    PROVE  File!Character(g, p) \in Reading
<1> DEFINE W(side) == [bus |-> g[side].bus, b |-> g[side].b, st |-> g.st, u |-> g.u]
           V(side) == File!clean(W(side), p)
           h(side) == [g EXCEPT ![side] = [bus |-> V(side).bus, b |-> V(side).b],
                                !.st = V(side).st, !.u = V(side).u]
           q == [g EXCEPT !.st = @ \cup (IF p = File!QUOTE THEN {"QUOTE"}
                                         ELSE IF p = File!SLASH THEN {"COMMENT"} ELSE {})]
<1>1. ASSUME NEW side \in {"before", "after"} PROVE h(side) \in Reading
  <2> DEFINE v == V(side)
  <2>1. g[side] \in Side /\ g.st \in SUBSET Flags /\ g.u \in Nat
    BY DEF Reading
  <2>2. W(side) \in Writing
    BY <2>1 DEF Side, Writing
  <2>3. v \in Writing
    BY <2>2, CleanType
  <2> HIDE DEF v
  <2>4. [bus |-> v.bus, b |-> v.b] \in Side /\ v.st \in SUBSET Flags /\ v.u \in Nat
    BY <2>3 DEF Side, Writing
  <2>5. [g EXCEPT ![side] = [bus |-> v.bus, b |-> v.b], !.st = v.st, !.u = v.u] \in Reading
    <3> DEFINE e == [bus |-> v.bus, b |-> v.b]
    <3> HIDE DEF e
    <3>1. e \in Side
      BY <2>4 DEF e
    <3>2. [g EXCEPT ![side] = e, !.st = v.st, !.u = v.u] \in Reading
      BY <2>4, <3>1 DEF Reading
    <3>3. QED BY <3>2 DEF e
  <2>6. QED BY <2>5 DEF v
<1>2. q \in Reading
  <2>1. {"QUOTE"} \subseteq Flags /\ {"COMMENT"} \subseteq Flags
    BY DEF Flags
  <2>2. QED BY <2>1 DEF Reading
<1>3. \/ File!Character(g, p) \in {h("before"), h("after")}
      \/ File!Character(g, p) \in {g, q}
  <2> HIDE DEF V
  <2>1. QED BY DEF File!Character, V
<1>4. QED BY <1>1, <1>2, <1>3

-----------------------------------------------------------------------------
(* The scanner after each character of a line. *)
Scans(st, g, str) ==
    /\ st \in [0 .. Len(str) -> Reading]
    /\ st[0] = g
    /\ File!Scan(g, str) = st[Len(str)]

(* A line is read character by character, however long it is. *)
LEMMA ScanSteps ==
    ASSUME NEW g \in Reading, NEW str \in Seq(Nat)
    PROVE  \E st : Scans(st, g, str)
<1> DEFINE n == Len(str)
           T == Reading
           base == g
           step == [k \in 1 .. n |-> [t \in T |-> File!Next_character(t, str[k])]]
           E(it) == it = [I \in SUBSET (DOMAIN str) |->
                             IF I = {} THEN base
                             ELSE LET k == Max(I) IN File!Next_character(it[I \ {k}], str[k])]
           J == CHOOSE it : E(it)
<1>1. n \in Nat /\ DOMAIN str = 1 .. n
  OBVIOUS
<1>2. base \in T
  OBVIOUS
<1>3. \A k \in 1 .. n : \A t \in T : File!Next_character(t, str[k]) \in T
  <2> SUFFICES ASSUME NEW k \in 1 .. n, NEW t \in Reading
               PROVE  File!Next_character(t, str[k]) \in Reading
    OBVIOUS
  <2>1. str[k] \in Nat
    OBVIOUS
  <2>2. File!Next_character(t, str[k]) = File!Character(t, str[k])
    BY Zenon DEF File!Next_character
  <2>3. QED BY <2>1, <2>2, CharacterType
<1>4. /\ step \in [1 .. n -> [T -> T]]
      /\ \A k \in 1 .. n : \A t \in T : step[k][t] = File!Next_character(t, str[k])
  BY <1>3
<1> HIDE DEF n, step, base, T
<1>5. PICK it \in [SUBSET (1 .. n) -> T] : Folds(it, n, base, step)
  BY <1>1, <1>2, <1>4, Folded
<1>6. \A I \in SUBSET (1 .. n) :
         I # {} => Max(I) \in 1 .. n /\ I \ {Max(I)} \in SUBSET (1 .. n)
  BY <1>1, MaxFacts
<1>7. E(it)
  <2>1. \A I \in SUBSET (1 .. n) :
           it[I] = IF I = {} THEN base
                   ELSE File!Next_character(it[I \ {Max(I)}], str[Max(I)])
    BY <1>4, <1>5, <1>6 DEF Folds
  <2>2. QED BY <1>1, <1>5, <2>1
<1>8. E(J)
  BY <1>7
<1>9. File!Scan(g, str) = J[DOMAIN str]
  BY Zenon DEF File!Scan, File!FoldLeft, File!MapThenFoldSet, File!Max, Max, base
<1> HIDE DEF J
<1>10. Unfolds(J, T, n, base, step)
  BY <1>1, <1>4, <1>6, <1>8 DEF Unfolds
<1> HIDE DEF E
<1>11. PICK st : Run(st, T, n, base, step) /\ J[1 .. n] = st[n]
  <2>1. n \in Nat /\ step \in [1 .. n -> [T -> T]]
    BY <1>1, <1>4
  <2>2. HasRun(J, T, n, base, step)
    BY <1>2, <1>10, <2>1, FoldRun, Zenon
  <2>3. QED BY <2>2 DEF HasRun
<1>12. Scans(st, g, str)
  BY <1>1, <1>9, <1>11 DEF Run, Scans, n, base, T
<1>13. QED BY <1>12

(* What get_line leaves in its two arrays.                                  *)
LEMMA GetLineType ==
    ASSUME NEW str \in Seq(Nat), before \in Seq(Nat), after \in Seq(Nat)
    PROVE  /\ File!get_line(str).before.bus \in Seq(Nat)
           /\ File!get_line(str).after.bus \in Seq(Nat)
<1> DEFINE left == [bus |-> File!Store(before, 0, 0), b |-> 0]
           right == [bus |-> File!Store(after, 0, 0), b |-> 0]
           g == [before |-> left, after |-> right, st |-> {}, u |-> 0]
<1>1. left \in Side /\ right \in Side
  <2>1. /\ File!Store(before, 0, 0) \in Seq(Nat) /\ Len(File!Store(before, 0, 0)) >= 0 + 1
        /\ File!Store(after, 0, 0) \in Seq(Nat) /\ Len(File!Store(after, 0, 0)) >= 0 + 1
    <3>1. 0 \in 0 .. Len(before) /\ 0 \in 0 .. Len(after) /\ 0 \in Nat
      OBVIOUS
    <3>2. QED BY <3>1, StoreType
  <2>2. QED BY <2>1 DEF Side
<1> HIDE DEF left, right
<1>2. g \in Reading
  BY <1>1 DEF Reading
<1>3. File!Line(str) \in Seq(Nat)
  BY LineType
<1> HIDE DEF g
<1>4. PICK st : Scans(st, g, File!Line(str))
  BY <1>2, <1>3, ScanSteps
<1> DEFINE l == Len(File!Line(str))
<1>5. l \in 0 .. l
  BY <1>3
<1>6. File!Scan(g, File!Line(str)) \in Reading
  <2>1. st \in [0 .. l -> Reading] /\ File!Scan(g, File!Line(str)) = st[l]
    BY <1>4 DEF Scans
  <2>2. QED BY <1>5, <2>1
<1>7. File!get_line(str) \in Reading
  BY <1>6 DEF File!get_line, g, left, right
<1>8. QED BY <1>7 DEF Reading, Side

-----------------------------------------------------------------------------
(* What is loaded while a file is read: lines with two sides, and the parts begin at
   lines that are there, or behind the last of them. *)
MapLine == [s : Seq(Nat), c : Seq(Nat)]

FileInv == /\ file \in Files
           /\ text \in Seq(Nat) /\ buf \in Seq(Nat)
           /\ pos \in Nat /\ Len(buf) <= pos
           /\ before \in Seq(Nat) /\ after \in Seq(Nat)
           /\ loaded \in Seq(MapLine)
           /\ offs \in [1 .. 5 -> 0 .. Len(loaded)]
           /\ parts \in Nat

(* At the beginning nothing is read. *)
LEMMA FileInit == ASSUME File!Init PROVE FileInv
<1>1. file \in Files /\ text \in Seq(Nat)
  BY TextAssumption DEF File!Init
<1>2. /\ pos = 0 /\ buf = <<>> /\ before = <<0>> /\ after = <<0>>
      /\ loaded = <<>> /\ offs = <<0, 0, 0, 0, 0>> /\ parts = 0
  BY DEF File!Init
<1>3. <<0>> \in Seq(Nat) /\ <<>> \in Seq(Nat) /\ <<>> \in Seq(MapLine) /\ Len(<<>>) = 0
  OBVIOUS
<1>4. offs \in [1 .. 5 -> 0 .. Len(loaded)]
  BY <1>2
<1>5. QED BY <1>1, <1>2, <1>3, <1>4 DEF FileInv

(* load_kmap takes the two sides of a line. *)
LEMMA TakeType ==
    ASSUME FileInv, NEW l \in Seq(Nat), NEW r \in Seq(Nat), File!Take(l, r)
    PROVE  /\ loaded' \in Seq(MapLine)
           /\ offs' \in [1 .. 5 -> 0 .. Len(loaded')]
           /\ parts' \in Nat
<1> DEFINE n == Len(loaded)
           a == Append(loaded, [s |-> l, c |-> r])
<1>1. /\ loaded \in Seq(MapLine) /\ offs \in [1 .. 5 -> 0 .. n] /\ parts \in Nat /\ n \in Nat
  BY DEF FileInv
<1>2. a \in Seq(MapLine) /\ Len(a) = n + 1
  <2>1. [s |-> l, c |-> r] \in MapLine
    BY DEF MapLine
  <2>2. QED BY <1>1, <2>1, AppendProperties
<1>3. \/ UNCHANGED <<loaded, offs, parts>>
      \/ /\ offs' = IF parts < 5 THEN [offs EXCEPT ![parts + 1] = n] ELSE offs
         /\ parts' = parts + 1 /\ loaded' = loaded
      \/ loaded' = a /\ UNCHANGED <<offs, parts>>
  BY DEF File!Take
<1>4. CASE UNCHANGED <<loaded, offs, parts>>
  BY <1>1, <1>4
<1>5. CASE /\ offs' = IF parts < 5 THEN [offs EXCEPT ![parts + 1] = n] ELSE offs
           /\ parts' = parts + 1 /\ loaded' = loaded
  <2> HIDE DEF n
  <2>1. n \in 0 .. n
    BY <1>1
  <2> DEFINE R == 0 .. n
  <2>2. n \in R /\ offs \in [1 .. 5 -> R]
    BY <1>1, <2>1
  <2> HIDE DEF R
  <2>3. [offs EXCEPT ![parts + 1] = n] \in [1 .. 5 -> R]
    BY <2>2
  <2>4. offs' \in [1 .. 5 -> R]
    BY <1>5, <2>2, <2>3
  <2>5. parts' \in Nat
    BY <1>1, <1>5
  <2>6. QED BY <1>1, <1>5, <2>4, <2>5 DEF n, R
<1>6. CASE loaded' = a /\ UNCHANGED <<offs, parts>>
  <2> HIDE DEF n, a
  <2>1. offs \in [1 .. 5 -> 0 .. n + 1]
    BY <1>1
  <2>2. QED BY <1>1, <1>2, <1>6, <2>1
<1>7. QED BY <1>3, <1>4, <1>5, <1>6

(* Reading a file keeps it, whatever the buffer cuts. *)
LEMMA FileStep == ASSUME FileInv, [File!Next]_fileVars PROVE FileInv'
<1>1. CASE File!Read
  <2> DEFINE m == Min({pos + BufferSize, Len(text)})
  <2>1. /\ buf' = SubSeq(text, pos + 1, m) /\ pos' = pos + Len(buf')
        /\ UNCHANGED <<file, text, before, after, loaded, offs, parts>>
    BY <1>1, Zenon DEF File!Read, File!Min, Min
  <2>2. m \in Int /\ m <= Len(text) /\ pos + 1 \in Nat \ {0}
    <3>1. pos + BufferSize \in Int /\ Len(text) \in Int /\ pos + 1 \in Nat \ {0}
      BY KeyboardAssumption DEF FileInv
    <3>2. QED BY <3>1, TwoNumbers
  <2> HIDE DEF m
  <2>3. buf' \in Seq(Nat) /\ Len(buf') \in Nat
    <3> DEFINE b == SubSeq(text, pos + 1, m)
    <3>1. b \in Seq(Nat)
      BY <2>2, Piece DEF FileInv
    <3> HIDE DEF b
    <3>2. Len(b) \in Nat
      BY <3>1
    <3>3. buf' = b
      BY <2>1 DEF b
    <3>4. QED BY <3>1, <3>2, <3>3
  <2>4. pos' \in Nat /\ Len(buf') <= pos'
    <3>1. pos' = pos + Len(buf') /\ pos \in Nat
      BY <2>1, Zenon DEF FileInv
    <3>2. QED BY <2>3, <3>1
  <2>5. QED BY <2>1, <2>3, <2>4 DEF FileInv
<1>2. CASE File!Eat
  <2> DEFINE g == File!get_line(buf)
             k == Len(File!Line(buf))
  <2>1. /\ before' = g.before.bus /\ after' = g.after.bus
        /\ File!Take(File!String(before'), File!String(after'))
        /\ buf' = SubSeq(buf, k + 2, Len(buf))
        /\ UNCHANGED <<file, text, pos>>
    BY <1>2 DEF File!Eat
  <2>2. before' \in Seq(Nat) /\ after' \in Seq(Nat)
    BY <2>1, GetLineType DEF FileInv
  <2>3. File!String(before') \in Seq(Nat) /\ File!String(after') \in Seq(Nat)
    BY <2>2, StringType
  <2>4. /\ loaded' \in Seq(MapLine) /\ offs' \in [1 .. 5 -> 0 .. Len(loaded')]
        /\ parts' \in Nat
    BY <2>1, <2>3, TakeType
  <2>5. k \in Nat /\ Len(buf) \in Nat /\ buf \in Seq(Nat) /\ pos \in Nat /\ Len(buf) <= pos
    BY LineType DEF FileInv
  <2> HIDE DEF k
  <2>6. buf' \in Seq(Nat) /\ Len(buf') \in Nat /\ Len(buf') <= Len(buf)
    <3>1. /\ SubSeq(buf, k + 2, Len(buf)) \in Seq(Nat)
          /\ Len(SubSeq(buf, k + 2, Len(buf)))
                = IF k + 2 <= Len(buf) THEN Len(buf) - (k + 2) + 1 ELSE 0
      BY <2>5, Piece
    <3>2. QED BY <2>1, <2>5, <3>1
  <2>7. Len(buf') <= pos' /\ pos' \in Nat
    BY <2>1, <2>5, <2>6
  <2>8. QED BY <2>1, <2>2, <2>4, <2>6, <2>7 DEF FileInv
<1>3. CASE File!GiveBack
  <2> DEFINE g == File!get_line(buf)
  <2>1. /\ before' = g.before.bus /\ after' = g.after.bus
        /\ buf' = <<>> /\ pos' = pos - Len(buf)
        /\ UNCHANGED <<file, text, loaded, offs, parts>>
    BY <1>3 DEF File!GiveBack
  <2>2. before' \in Seq(Nat) /\ after' \in Seq(Nat)
    BY <2>1, GetLineType DEF FileInv
  <2>3. buf' \in Seq(Nat) /\ Len(buf') = 0 /\ pos' \in Nat
    BY <2>1 DEF FileInv
  <2>4. QED BY <2>1, <2>2, <2>3 DEF FileInv
<1>4. CASE UNCHANGED fileVars
  BY <1>4 DEF fileVars, FileInv
<1>5. QED BY <1>1, <1>2, <1>3, <1>4 DEF File!Next

-----------------------------------------------------------------------------
(* Converter: a map, and the positions in the field.  Shift, pressed between the keys
   of a translation, may leave start one behind the cursor; it does not come behind
   the text. *)
KeyboardMap == {m \in [lines : Seq(MapLine), offset : [1 .. 5 -> Nat]] :
                   \A k \in 1 .. 5 : m.offset[k] <= Len(m.lines)}

FieldInv == /\ value \in Seq(Nat)
            /\ position \in 0 .. Len(value)
            /\ start \in 0 .. Len(value)
            /\ start <= position + 1
            /\ conv_nb \in Input
            /\ kmap \in [Input -> KeyboardMap]

Lines == 0 .. nb_seq(conv_nb) - 1

(* The lines of the chosen map, and of each of its parts. *)
LEMMA LineFacts ==
    ASSUME FieldInv
    PROVE  /\ nb_seq(conv_nb) \in Nat
           /\ \A i \in Lines : /\ s(conv_nb, i) \in Seq(Nat) /\ Len(s(conv_nb, i)) \in Nat
                               /\ c(conv_nb, i) \in Seq(Nat)
           /\ \A k \in 0 .. 4 : Part(k) \subseteq Lines
<1> DEFINE m == kmap[conv_nb]
           n == Len(m.lines)
<1>1. /\ m.lines \in Seq(MapLine) /\ m.offset \in [1 .. 5 -> Nat]
      /\ \A k \in 1 .. 5 : m.offset[k] <= n
  BY DEF FieldInv, KeyboardMap
<1>2. n \in Nat /\ \A i \in 1 .. n : m.lines[i] \in MapLine
  BY <1>1
<1>3. nb_seq(conv_nb) = n
  BY DEF nb_seq
<1>4. ASSUME NEW i \in Lines
      PROVE  s(conv_nb, i) \in Seq(Nat) /\ c(conv_nb, i) \in Seq(Nat)
  <2>1. i + 1 \in 1 .. n
    BY <1>2, <1>3 DEF Lines
  <2>2. m.lines[i + 1] \in MapLine
    BY <1>2, <2>1
  <2> DEFINE x == m.lines[i + 1]
  <2>3. s(conv_nb, i) = x.s /\ c(conv_nb, i) = x.c
    BY DEF s, c
  <2> HIDE DEF x
  <2>4. x \in MapLine
    BY <2>2 DEF x
  <2>5. QED BY <2>3, <2>4 DEF MapLine
<1>5. ASSUME NEW k \in 0 .. 4 PROVE Part(k) \subseteq Lines
  <2>1. \A j \in 0 .. 4 : multi_offset(conv_nb, j) \in Nat /\ multi_offset(conv_nb, j) <= n
    <3> SUFFICES ASSUME NEW j \in 0 .. 4
                 PROVE  m.offset[j + 1] \in Nat /\ m.offset[j + 1] <= n
      BY DEF multi_offset
    <3>1. j + 1 \in 1 .. 5
      OBVIOUS
    <3>2. QED BY <1>1, <3>1
  <2>2. Last_line(k) \in Nat /\ Last_line(k) <= n
    <3>1. k < 4 => k + 1 \in 0 .. 4
      OBVIOUS
    <3>2. QED BY <1>2, <1>3, <2>1, <3>1 DEF Last_line
  <2>3. multi_offset(conv_nb, k) \in Nat
    BY <2>1
  <2> HIDE DEF n
  <2>4. multi_offset(conv_nb, k) .. Last_line(k) - 1 \subseteq 0 .. n - 1
    BY <1>2, <2>2, <2>3
  <2>5. QED BY <1>3, <2>4 DEF Part, Lines
<1>6. \A i \in Lines : Len(s(conv_nb, i)) \in Nat
  BY <1>4
<1>7. QED BY <1>2, <1>3, <1>4, <1>5, <1>6

(* The greatest of some lines. *)
LEMMA GreatestLine ==
    ASSUME NEW n \in Nat, NEW I \in SUBSET (0 .. n - 1), I # {}
    PROVE  Max(I) \in I
<1> DEFINE U == {k \in 0 .. n : \A i \in I : i <= k}
           m == Min(U)
<1>1. U \in SUBSET Nat /\ U # {}
  <2>1. n \in U
    OBVIOUS
  <2>2. QED BY <2>1
<1>2. m \in U /\ \A k \in U : m <= k
  BY <1>1, MinFacts
<1> HIDE DEF m
<1>3. m \in 0 .. n /\ \A i \in I : i <= m
  BY <1>2
<1>4. m \in I
  <2> SUFFICES ASSUME m \notin I PROVE FALSE
    OBVIOUS
  <2>1. PICK i \in I : TRUE
    OBVIOUS
  <2>2. m # 0
    BY <1>3, <2>1
  <2>3. m - 1 \in 0 .. n /\ ~ (m <= m - 1)
    BY <1>3, <2>2
  <2>4. \A k \in I : k <= m - 1
    BY <1>3
  <2>5. QED BY <1>2, <2>3, <2>4
<1>5. \A i \in I : m >= i
  BY <1>3
<1>6. QED BY <1>4, <1>5 DEF Max

(* The total so far, after each line taken.                                 *)
Adds(st, f, m) ==
    /\ st \in [0 .. Len(m) -> Nat]
    /\ st[0] = 0
    /\ \A k \in 1 .. Len(m) : st[k] = st[k - 1] + f[m[k]]
    /\ Total(f, m) = st[Len(m)]

(* The lines that were taken are added up one after the other. *)
LEMMA TotalSteps ==
    ASSUME NEW L, NEW f \in [L -> Nat], NEW m \in Seq(L)
    PROVE  \E st : Adds(st, f, m)
<1> DEFINE n == Len(m)
           T == Nat
           base == 0
           step == [k \in 1 .. n |-> [t \in T |-> t + f[m[k]]]]
           E(it) == it = [I \in SUBSET (DOMAIN m) |->
                             IF I = {} THEN base
                             ELSE LET k == Max(I) IN it[I \ {k}] + f[m[k]]]
           J == CHOOSE it : E(it)
<1>1. n \in Nat /\ DOMAIN m = 1 .. n
  OBVIOUS
<1>2. base \in T
  OBVIOUS
<1>3. \A k \in 1 .. n : \A t \in T : t + f[m[k]] \in T
  <2> SUFFICES ASSUME NEW k \in 1 .. n, NEW t \in Nat PROVE t + f[m[k]] \in Nat
    OBVIOUS
  <2>1. f[m[k]] \in Nat
    OBVIOUS
  <2>2. QED BY <2>1
<1>4. /\ step \in [1 .. n -> [T -> T]]
      /\ \A k \in 1 .. n : \A t \in T : step[k][t] = t + f[m[k]]
  BY <1>3
<1> HIDE DEF n, step, base, T
<1>5. PICK it \in [SUBSET (1 .. n) -> T] : Folds(it, n, base, step)
  BY <1>1, <1>2, <1>4, Folded
<1>6. \A I \in SUBSET (1 .. n) :
         I # {} => Max(I) \in 1 .. n /\ I \ {Max(I)} \in SUBSET (1 .. n)
  BY <1>1, MaxFacts
<1>7. E(it)
  <2>1. \A I \in SUBSET (1 .. n) :
           it[I] = IF I = {} THEN base
                   ELSE it[I \ {Max(I)}] + f[m[Max(I)]]
    BY <1>4, <1>5, <1>6 DEF Folds
  <2>2. QED BY <1>1, <1>5, <2>1
<1>8. E(J)
  BY <1>7
<1>9. Total(f, m) = J[DOMAIN m]
  BY Zenon DEF Total, FoldLeft, MapThenFoldSet, base
<1> HIDE DEF J
<1>10. Unfolds(J, T, n, base, step)
  BY <1>1, <1>4, <1>6, <1>8 DEF Unfolds
<1> HIDE DEF E
<1>11. PICK st : Run(st, T, n, base, step) /\ J[1 .. n] = st[n]
  <2>1. n \in Nat /\ step \in [1 .. n -> [T -> T]]
    BY <1>1, <1>4
  <2>2. HasRun(J, T, n, base, step)
    BY <1>2, <1>10, <2>1, FoldRun, Zenon
  <2>3. QED BY <2>2 DEF HasRun
<1>12. Adds(st, f, m)
  <2>1. \A k \in 1 .. n : st[k] = st[k - 1] + f[m[k]]
    BY <1>4, <1>11 DEF Run
  <2>2. Total(f, m) = st[n]
    BY <1>1, <1>9, <1>11
  <2>3. QED BY <1>11, <2>1, <2>2 DEF Run, Adds, n, base, T
<1>13. QED BY <1>12

(* The total of nothing, and of one line more. *)
LEMMA TotalFacts ==
    ASSUME NEW L, NEW f \in [L -> Nat], NEW m \in Seq(L), NEW i \in L
    PROVE  /\ Total(f, m) \in Nat
           /\ m = <<>> => Total(f, m) = 0
           /\ Total(f, m \o <<i>>) = Total(f, m) + f[i]
<1> DEFINE n == Len(m)
           w == m \o <<i>>
<1>1. /\ n \in Nat /\ w \in Seq(L) /\ Len(w) = n + 1
      /\ \A k \in 1 .. n : w[k] = m[k]
      /\ w[n + 1] = i
  OBVIOUS
<1> HIDE DEF w
<1>2. PICK a : Adds(a, f, m)
  BY TotalSteps
<1>3. PICK b : Adds(b, f, w)
  BY <1>1, TotalSteps
<1>4. /\ a[0] = 0 /\ Total(f, m) = a[n] /\ \A k \in 0 .. n : a[k] \in Nat
      /\ \A k \in 1 .. n : a[k] = a[k - 1] + f[m[k]]
  BY <1>2 DEF Adds
<1>5. /\ b[0] = 0 /\ Total(f, w) = b[n + 1]
      /\ \A k \in 1 .. n + 1 : b[k] = b[k - 1] + f[w[k]]
  BY <1>1, <1>3 DEF Adds
<1> DEFINE P == {k \in 0 .. n : a[k] = b[k]}
<1>6. \A k \in 0 .. n : k \in P
  <2>1. 0 \in P
    BY <1>1, <1>4, <1>5
  <2>2. ASSUME NEW k \in 0 .. n - 1, k \in P PROVE k + 1 \in P
    <3>1. k + 1 \in 1 .. n /\ (k + 1) - 1 = k /\ k + 1 \in 1 .. n + 1 /\ k + 1 \in 0 .. n
      BY <1>1
    <3>2. a[k + 1] = a[k] + f[m[k + 1]] /\ b[k + 1] = b[k] + f[w[k + 1]]
      BY <1>4, <1>5, <3>1
    <3>3. w[k + 1] = m[k + 1]
      BY <1>1, <3>1
    <3>4. QED BY <2>2, <3>1, <3>2, <3>3
  <2>3. n \in Nat
    OBVIOUS
  <2> HIDE DEF P, n
  <2>4. QED BY <2>1, <2>2, <2>3, Induction
<1> HIDE DEF n
<1>7. a[n] = b[n] /\ n \in 0 .. n
  BY <1>1, <1>6
<1>8. b[n + 1] = b[n] + f[i]
  <2>1. n + 1 \in 1 .. n + 1 /\ (n + 1) - 1 = n
    BY <1>1
  <2>2. QED BY <1>1, <1>5, <2>1
<1>9. m = <<>> => n = 0
  BY DEF n
<1>10. QED BY <1>4, <1>5, <1>7, <1>8, <1>9 DEF w

-----------------------------------------------------------------------------
(* get_matches: a line that is taken for a part is not longer than what was typed and
   not yet taken, although what stands behind the cursor is compared too. *)
LEMMA TakenFits ==
    ASSUME FieldInv, NEW k \in 0 .. 4, NEW mem \in Seq(Nat), NEW l \in 0 .. Len(mem),
           NEW off \in Nat
    PROVE  \/ Taken(k, mem, l, off) = <<>>
           \/ \E i \in Lines : Taken(k, mem, l, off) = <<i>> /\ off + Len(s(conv_nb, i)) <= l
<1> DEFINE E == Exact(k, mem, l, off)
           P == Partial(k, mem, l, off)
           n == nb_seq(conv_nb)
<1>1. /\ n \in Nat /\ Part(k) \subseteq 0 .. n - 1
      /\ \A i \in 0 .. n - 1 : s(conv_nb, i) \in Seq(Nat) /\ Len(s(conv_nb, i)) \in Nat
  BY LineFacts DEF Lines
<1>2. E \subseteq 0 .. n - 1 /\ \A i \in E : Len(s(conv_nb, i)) = l - off
  BY <1>1 DEF Exact, Candidates, Begins
<1>3. ASSUME NEW i \in P PROVE i \in 0 .. n - 1 /\ Len(s(conv_nb, i)) < l - off
  <2> DEFINE t == s(conv_nb, i)
             typ == SubSeq(mem, off + 1, l)
             rest == From(mem, off)
             d == l - off
  <2>1. /\ i \in Begins(k, mem, off) /\ i \notin Candidates(k, mem, l, off)
        /\ IsPrefix(t, rest)
    BY <1>3 DEF Partial
  <2>2. i \in 0 .. n - 1 /\ t \in Seq(Nat) /\ Len(t) \in Nat
    BY <1>1, <2>1 DEF Begins
  <2>3. d \in Int /\ d >= 1 /\ ~ IsPrefix(typ, t)
    <3>1. ~ (d < 1 \/ IsPrefix(typ, t))
      BY <2>1 DEF Candidates
    <3>2. d \in Int
      OBVIOUS
    <3> HIDE DEF d, typ, t
    <3>3. QED BY <3>1, <3>2
  <2>4. SUFFICES ASSUME d <= Len(t) PROVE FALSE
    BY <2>2, <2>3
  <2>5. /\ typ \in Seq(Nat) /\ Len(typ) = d
        /\ \A j \in 1 .. d : typ[j] = mem[off + j]
    <3>1. \A j \in off + 1 .. l : mem[j] \in Nat
      OBVIOUS
    <3>2. off + 1 \in Int /\ l \in Int
      OBVIOUS
    <3>3. /\ typ \in Seq(Nat)
          /\ Len(typ) = IF off + 1 <= l THEN l - (off + 1) + 1 ELSE 0
          /\ \A j \in 1 .. l - (off + 1) + 1 : typ[j] = mem[(off + 1) + j - 1]
      BY <3>1, <3>2, SubSeqProperties
    <3>4. off + 1 <= l /\ l - (off + 1) + 1 = d
      BY <2>3
    <3>5. \A j \in 1 .. d : (off + 1) + j - 1 = off + j
      OBVIOUS
    <3> HIDE DEF typ, d
    <3>6. QED BY <3>3, <3>4, <3>5
  <2>6. \A j \in 1 .. Len(t) : t[j] = mem[off + j]
    <3> DEFINE e == Len(t)
    <3>1. e <= Len(rest) /\ SubSeq(t, 1, e) = SubSeq(rest, 1, e)
      BY <2>1 DEF IsPrefix
    <3>2. /\ rest \in Seq(Nat) /\ Len(rest) = IF off + 1 <= Len(mem) THEN Len(mem) - off ELSE 0
          /\ \A j \in 1 .. Len(mem) - off : rest[j] = mem[off + j]
      <4>1. \A j \in off + 1 .. Len(mem) : mem[j] \in Nat
        OBVIOUS
      <4>2. off + 1 \in Int /\ Len(mem) \in Int
        OBVIOUS
      <4>3. /\ rest \in Seq(Nat)
            /\ Len(rest) = IF off + 1 <= Len(mem) THEN Len(mem) - (off + 1) + 1 ELSE 0
            /\ \A j \in 1 .. Len(mem) - (off + 1) + 1 : rest[j] = mem[(off + 1) + j - 1]
        BY <4>1, <4>2, SubSeqProperties DEF From
      <4>4. \A j \in Nat : (off + 1) + j - 1 = off + j
        OBVIOUS
      <4> DEFINE h == Len(mem)
      <4>5. h \in Nat
        OBVIOUS
      <4> HIDE DEF rest, h
      <4>6. h - (off + 1) + 1 = h - off /\ (off + 1 <= h => h - off = h - (off + 1) + 1)
        BY <4>5
      <4>7. /\ rest \in Seq(Nat) /\ Len(rest) = IF off + 1 <= h THEN h - off ELSE 0
            /\ \A j \in 1 .. h - off : rest[j] = mem[off + j]
        <5>1. Len(rest) = IF off + 1 <= h THEN h - off ELSE 0
          BY <4>3, <4>6 DEF h
        <5>2. \A j \in 1 .. h - off : rest[j] = mem[(off + 1) + j - 1]
          BY <4>3, <4>6 DEF h
        <5>3. \A j \in 1 .. h - off : j \in Nat
          OBVIOUS
        <5>4. \A j \in 1 .. h - off : rest[j] = mem[off + j]
          BY <4>4, <5>2, <5>3
        <5>5. QED BY <4>3, <5>1, <5>4
      <4>8. QED BY <4>7 DEF h
    <3>3. \A j \in 1 .. e : SubSeq(t, 1, e)[j] = t[j]
      BY <2>2
    <3>4. \A j \in 1 .. e : SubSeq(rest, 1, e)[j] = rest[j]
      <4> HIDE DEF rest
      <4>1. e \in Nat /\ rest \in Seq(Nat) /\ e <= Len(rest)
        BY <2>2, <3>1, <3>2
      <4> HIDE DEF e
      <4>2. QED BY <4>1
    <3> HIDE DEF rest, e
    <3>5. \A j \in 1 .. e : j \in 1 .. Len(mem) - off
      <4>1. e \in Nat /\ Len(mem) \in Nat
        BY <2>2 DEF e
      <4>2. QED BY <3>1, <3>2, <4>1
    <3>6. QED BY <3>1, <3>2, <3>3, <3>4, <3>5 DEF e
  <2> HIDE DEF t, typ, d
  <2>7. SubSeq(typ, 1, d) = SubSeq(t, 1, d)
    <3>1. \A j \in 1 .. d : typ[j] = t[j]
      <4>1. \A j \in 1 .. d : j \in 1 .. Len(t)
        BY <2>2, <2>3, <2>4
      <4>2. QED BY <2>5, <2>6, <4>1
    <3>2. /\ SubSeq(typ, 1, d) \in Seq(Nat) /\ Len(SubSeq(typ, 1, d)) = d
          /\ \A j \in 1 .. d : SubSeq(typ, 1, d)[j] = typ[j]
      BY <2>3, <2>5
    <3>3. /\ SubSeq(t, 1, d) \in Seq(Nat) /\ Len(SubSeq(t, 1, d)) = d
          /\ \A j \in 1 .. d : SubSeq(t, 1, d)[j] = t[j]
      BY <2>2, <2>3, <2>4
    <3> DEFINE x == SubSeq(typ, 1, d)
               y == SubSeq(t, 1, d)
    <3>4. /\ x \in Seq(Nat) /\ y \in Seq(Nat) /\ Len(x) = Len(y)
          /\ \A j \in 1 .. Len(x) : x[j] = y[j]
      BY <3>1, <3>2, <3>3
    <3> HIDE DEF x, y
    <3>5. x = y
      BY <3>4, SeqEqual
    <3>6. QED BY <3>5 DEF x, y
  <2>8. IsPrefix(typ, t)
    BY <2>4, <2>5, <2>7 DEF IsPrefix
  <2>9. QED BY <2>3, <2>8
<1> HIDE DEF E, P, n
<1>4. CASE E # {}
  <2>1. Max(E) \in E
    BY <1>1, <1>2, <1>4, GreatestLine
  <2>2. Taken(k, mem, l, off) = <<Max(E)>>
    BY <1>4 DEF Taken, E
  <2> DEFINE x == Len(s(conv_nb, Max(E)))
  <2>3. x = l - off /\ Max(E) \in 0 .. n - 1
    BY <1>2, <2>1
  <2> HIDE DEF x
  <2>4. off + x <= l
    BY <2>3
  <2>5. Max(E) \in Lines /\ off + Len(s(conv_nb, Max(E))) <= l
    BY <2>3, <2>4 DEF Lines, n, x
  <2>6. QED BY <2>2, <2>5
<1>5. CASE E = {} /\ P # {}
  <2>1. P \in SUBSET (0 .. n - 1)
    BY <1>3
  <2>2. Max(P) \in P
    BY <1>1, <1>5, <2>1, GreatestLine
  <2>3. Taken(k, mem, l, off) = <<Max(P)>>
    BY <1>5 DEF Taken, E, P
  <2>4. Max(P) \in 0 .. n - 1 /\ Len(s(conv_nb, Max(P))) < l - off
    BY <1>3, <2>2
  <2>5. Max(P) \in Lines /\ off + Len(s(conv_nb, Max(P))) <= l
    <3> DEFINE x == Len(s(conv_nb, Max(P)))
    <3>1. x \in Nat /\ x < l - off
      BY <1>1, <2>4
    <3> HIDE DEF x
    <3>2. off + x <= l
      BY <3>1
    <3>3. QED BY <2>4, <3>2 DEF Lines, n, x
  <2>6. QED BY <2>3, <2>5
<1>6. CASE E = {} /\ P = {}
  BY <1>6 DEF Taken, E, P
<1>7. QED BY <1>4, <1>5, <1>6

(* What a search comes to, and what it knows on its way: the lines taken are together not
   longer than what was typed, and the next part is looked for behind them. *)
Outcome(l) == [nb : Nat, crashed : BOOLEAN, r : Seq(Nat), rem : 0 .. l]
Searching(l) ==
    {v \in [matches : Seq(Lines), off : Nat, ended : BOOLEAN, result : Outcome(l)] :
        Lengths(v.matches) <= v.off /\ Lengths(v.matches) <= l}

(* The lengths of the lines taken. *)
LEMMA LengthsType ==
    ASSUME FieldInv, NEW w \in Seq(Lines)
    PROVE  /\ Lengths(w) \in Nat
           /\ w = <<>> => Lengths(w) = 0
           /\ \A i \in Lines : Lengths(w \o <<i>>) = Lengths(w) + Len(s(conv_nb, i))
<1> DEFINE f == [j \in Lines |-> Len(s(conv_nb, j))]
<1>1. f \in [Lines -> Nat] /\ \A i \in Lines : f[i] = Len(s(conv_nb, i))
  BY LineFacts
<1>2. \A u : Lengths(u) = Total(f, u)
  BY Zenon DEF Lengths, Lines
<1> HIDE DEF f
<1>3. PICK st : Adds(st, f, w)
  BY <1>1, TotalSteps
<1>4. Total(f, w) \in Nat /\ (w = <<>> => Total(f, w) = 0)
  <2> DEFINE n == Len(w)
  <2>1. n \in 0 .. n /\ (w = <<>> => n = 0)
    OBVIOUS
  <2>2. st \in [0 .. n -> Nat] /\ st[0] = 0 /\ Total(f, w) = st[n]
    BY <1>3 DEF Adds
  <2> HIDE DEF n
  <2>3. QED BY <2>1, <2>2
<1>5. ASSUME NEW i \in Lines PROVE Total(f, w \o <<i>>) = Total(f, w) + f[i]
  BY <1>1, TotalFacts
<1>6. QED BY <1>1, <1>2, <1>4, <1>5

(* The characters that the lines taken stand for. *)
LEMMA ConvertedType ==
    ASSUME FieldInv, NEW w \in Seq(Lines), w # <<>>
    PROVE  Converted(w) \in Seq(Nat)
<1> DEFINE f == [j \in Lines |-> First(c(conv_nb, j))]
<1>1. f \in [Lines -> Nat]
  <2>1. ASSUME NEW j \in Lines PROVE First(c(conv_nb, j)) \in Nat
    <3> DEFINE x == c(conv_nb, j)
    <3>1. x \in Seq(Nat)
      BY LineFacts
    <3> HIDE DEF x
    <3>2. First(x) \in Nat
      BY <3>1 DEF First, NUL
    <3>3. QED BY <3>2 DEF x
  <2>2. QED BY <2>1
<1>2. Sum(w) = Total(f, w)
  BY Zenon DEF Sum, Lines
<1> HIDE DEF f
<1>3. w[1] \in Lines
  OBVIOUS
<1>4. Sum(w) \in Nat
  <2>1. Total(f, w) \in Nat
    BY <1>1, <1>3, TotalFacts
  <2>2. QED BY <1>2, <2>1
<1>5. c(conv_nb, w[1]) \in Seq(Nat)
  BY <1>3, LineFacts
<1>6. <<Sum(w)>> \in Seq(Nat) /\ <<>> \in Seq(Nat)
  BY <1>4
<1>7. QED BY <1>5, <1>6 DEF Converted

(* The lines taken, with the one of the next part. *)
Fits(w, off, l) ==
    /\ w \in Seq(Lines)
    /\ Lengths(w) <= l
    /\ w # <<>> => Lengths(w) <= off + Len(s(conv_nb, Last(w)))

(* One line more, or none. *)
LEMMA OneMore ==
    ASSUME FieldInv, NEW w \in Seq(Lines), NEW off \in Nat, NEW l \in Nat,
           Lengths(w) <= off, Lengths(w) <= l, NEW taken,
           \/ taken = <<>>
           \/ \E i \in Lines : taken = <<i>> /\ off + Len(s(conv_nb, i)) <= l
    PROVE  Fits(w \o taken, off, l)
<1>1. Lengths(w) \in Nat
  BY LengthsType
<1>2. CASE taken = <<>>
  <2>1. w \o taken = w
    BY <1>2
  <2>2. ASSUME w # <<>> PROVE Lengths(w) <= off + Len(s(conv_nb, Last(w)))
    <3>1. Last(w) \in Lines
      BY <2>2 DEF Last
    <3> DEFINE x == Len(s(conv_nb, Last(w)))
               y == Lengths(w)
    <3>2. x \in Nat /\ y \in Nat /\ y <= off
      BY <1>1, <3>1, LineFacts
    <3> HIDE DEF x, y
    <3>3. y <= off + x
      BY <3>2
    <3>4. QED BY <3>3 DEF x, y
  <2>3. QED BY <2>1, <2>2 DEF Fits
<1>3. ASSUME NEW i \in Lines, taken = <<i>>, off + Len(s(conv_nb, i)) <= l
      PROVE  Fits(w \o taken, off, l)
  <2> DEFINE u == w \o <<i>>
             x == Len(s(conv_nb, i))
             y == Lengths(w)
  <2>1. u \in Seq(Lines) /\ Last(u) = i
    BY DEF Last
  <2>2. Lengths(u) = y + x
    BY LengthsType
  <2>3. x \in Nat /\ y \in Nat /\ y <= off /\ off + x <= l
    BY <1>1, <1>3, LineFacts
  <2> HIDE DEF u, x, y
  <2>4. y + x <= l /\ y + x <= off + x
    BY <2>3
  <2>5. Lengths(u) <= l /\ Lengths(u) <= off + Len(s(conv_nb, Last(u)))
    BY <2>1, <2>2, <2>4 DEF x
  <2>6. QED BY <1>3, <2>1, <2>5 DEF Fits, u
<1>4. QED BY <1>2, <1>3

(* One part of a search. *)
LEMMA SearchStep ==
    ASSUME FieldInv, NEW mem \in Seq(Nat), NEW l \in 0 .. Len(mem), NEW k \in 0 .. 4,
           NEW v \in Searching(l)
    PROVE  Search(v, k, mem, l) \in Searching(l)
<1> DEFINE n == Cardinality(Candidates(k, mem, l, v.off))
           taken == Taken(k, mem, l, v.off)
           more == v.matches \o taken
           nbm == IF n = 0 /\ taken # <<>> THEN 1 ELSE n
           T == [matches : Seq(Lines), off : Nat, ended : BOOLEAN, result : Outcome(l)]
<1>1. /\ v \in T
      /\ v.matches \in Seq(Lines) /\ v.off \in Nat /\ v.result \in Outcome(l)
      /\ Lengths(v.matches) <= v.off /\ Lengths(v.matches) <= l
      /\ l \in Nat
  BY DEF Searching
<1>2. n \in Nat
  <2>1. Candidates(k, mem, l, v.off) \subseteq Lines
    BY LineFacts DEF Candidates, Begins
  <2>2. IsFiniteSet(Lines)
    <3>1. nb_seq(conv_nb) - 1 \in Int /\ 0 \in Int
      BY LineFacts
    <3>2. QED BY <3>1, FS_Interval, Zenon DEF Lines
  <2>3. QED BY <2>1, <2>2, FS_Subset, FS_CardinalityType
<1>3. Fits(more, v.off, l)
  <2>1. \/ taken = <<>>
        \/ \E i \in Lines : taken = <<i>> /\ v.off + Len(s(conv_nb, i)) <= l
    BY <1>1, TakenFits, Zenon
  <2> HIDE DEF taken
  <2>2. QED BY <1>1, <2>1, OneMore
<1>4. ASSUME NEW x \in Outcome(l) PROVE Ended(v, x) \in Searching(l)
  <2>1. Ended(v, x) \in T /\ Ended(v, x).matches = v.matches /\ Ended(v, x).off = v.off
    BY <1>1 DEF Ended
  <2>2. QED BY <1>1, <2>1 DEF Searching
<1>5. /\ \A i \in Nat : NoMatch(i) \in Outcome(l)
      /\ [NoMatch(0) EXCEPT !.crashed = TRUE] \in Outcome(l)
      /\ nbm \in Nat /\ 11 \in Nat
  <2>1. <<>> \in Seq(Nat) /\ 0 \in 0 .. l
    BY <1>1
  <2> HIDE DEF n, taken
  <2>2. QED BY <1>2, <2>1 DEF NoMatch, Outcome
<1>6. more # <<>> => Found(more, l) \in Outcome(l)
  <2> HIDE DEF more
  <2>1. SUFFICES ASSUME more # <<>> PROVE Found(more, l) \in Outcome(l)
    OBVIOUS
  <2>2. more \in Seq(Lines) /\ Lengths(more) <= l
    BY <1>3 DEF Fits
  <2>3. Converted(more) \in Seq(Nat) /\ Lengths(more) \in Nat
    BY <2>1, <2>2, ConvertedType, LengthsType
  <2>4. l - Lengths(more) \in 0 .. l
    BY <1>1, <2>2, <2>3
  <2>5. QED BY <2>3, <2>4 DEF Found, Outcome
<1>7. more # <<>> => [v EXCEPT !.matches = more, !.off = @ + Len(s(conv_nb, Last(more)))]
                        \in Searching(l)
  <2> HIDE DEF more
  <2>1. SUFFICES ASSUME more # <<>>
                 PROVE [v EXCEPT !.matches = more, !.off = @ + Len(s(conv_nb, Last(more)))]
                           \in Searching(l)
    OBVIOUS
  <2>2. /\ more \in Seq(Lines) /\ Lengths(more) <= l
        /\ Lengths(more) <= v.off + Len(s(conv_nb, Last(more)))
    BY <1>3, <2>1 DEF Fits
  <2>3. Last(more) \in Lines
    BY <2>1, <2>2 DEF Last
  <2> DEFINE x == v.off + Len(s(conv_nb, Last(more)))
             g == [v EXCEPT !.matches = more, !.off = x]
  <2>4. x \in Nat
    BY <1>1, <2>3, LineFacts
  <2>5. Lengths(more) <= x
    BY <2>2
  <2> HIDE DEF x
  <2>6. g \in T /\ g.matches = more /\ g.off = x
    BY <1>1, <2>2, <2>4
  <2> HIDE DEF g
  <2>7. g \in Searching(l)
    BY <2>2, <2>5, <2>6 DEF Searching
  <2>8. QED BY <2>7 DEF g, x
<1>8. \/ Search(v, k, mem, l) = v
      \/ \E x \in {NoMatch(11), NoMatch(nbm), [NoMatch(0) EXCEPT !.crashed = TRUE]} :
            Search(v, k, mem, l) = Ended(v, x)
      \/ more # <<>> /\ Search(v, k, mem, l) = Ended(v, Found(more, l))
      \/ /\ more # <<>>
         /\ Search(v, k, mem, l)
               = [v EXCEPT !.matches = more, !.off = @ + Len(s(conv_nb, Last(more)))]
  BY Zenon DEF Search, Behind
<1> HIDE DEF n, taken, more, nbm
<1>9. \A x \in {NoMatch(11), NoMatch(nbm), [NoMatch(0) EXCEPT !.crashed = TRUE]} :
         x \in Outcome(l)
  BY <1>5
<1>10. QED BY <1>4, <1>6, <1>7, <1>8, <1>9

(* The parts one after the other. *)
LEMMA MatchType ==
    ASSUME FieldInv, NEW mem \in Seq(Nat), NEW l \in 0 .. Len(mem)
    PROVE  Match(mem, l) \in Outcome(l)
<1> DEFINE five == <<0, 1, 2, 3, 4>>
           n == 5
           T == Searching(l)
           base == [matches |-> <<>>, off |-> 0, ended |-> FALSE, result |-> NoMatch(0)]
           step == [j \in 1 .. n |-> [t \in T |-> Search(t, five[j], mem, l)]]
           E(it) == it = [I \in SUBSET (DOMAIN five) |->
                             IF I = {} THEN base
                             ELSE LET k == Max(I) IN Search(it[I \ {k}], five[k], mem, l)]
           J == CHOOSE it : E(it)
<1>1. n \in Nat /\ DOMAIN five = 1 .. n /\ \A j \in 1 .. n : five[j] \in 0 .. 4
  OBVIOUS
<1>2. base \in T
  <2>1. l \in Nat /\ <<>> \in Seq(Lines) /\ <<>> \in Seq(Nat) /\ 0 \in 0 .. l
    OBVIOUS
  <2>2. Lengths(<<>>) = 0
    BY <2>1, LengthsType
  <2>3. NoMatch(0) \in Outcome(l)
    BY <2>1 DEF NoMatch, Outcome
  <2> HIDE DEF base
  <2>4. base.matches = <<>> /\ base.off = 0
    BY DEF base
  <2>5. base \in [matches : Seq(Lines), off : Nat, ended : BOOLEAN, result : Outcome(l)]
    BY <2>1, <2>3 DEF base
  <2>6. QED BY <2>1, <2>2, <2>4, <2>5 DEF Searching
<1>3. \A j \in 1 .. n : \A t \in T : Search(t, five[j], mem, l) \in T
  <2> SUFFICES ASSUME NEW j \in 1 .. n, NEW t \in Searching(l)
               PROVE  Search(t, five[j], mem, l) \in Searching(l)
    OBVIOUS
  <2>1. five[j] \in 0 .. 4
    BY <1>1
  <2> HIDE DEF five
  <2>2. QED BY <2>1, SearchStep
<1>4. /\ step \in [1 .. n -> [T -> T]]
      /\ \A j \in 1 .. n : \A t \in T : step[j][t] = Search(t, five[j], mem, l)
  BY <1>3
<1> HIDE DEF n, step, base, T
<1>5. PICK it \in [SUBSET (1 .. n) -> T] : Folds(it, n, base, step)
  BY <1>1, <1>2, <1>4, Folded
<1>6. \A I \in SUBSET (1 .. n) :
         I # {} => Max(I) \in 1 .. n /\ I \ {Max(I)} \in SUBSET (1 .. n)
  BY <1>1, MaxFacts
<1>7. E(it)
  <2>1. \A I \in SUBSET (1 .. n) :
           it[I] = IF I = {} THEN base
                   ELSE Search(it[I \ {Max(I)}], five[Max(I)], mem, l)
    BY <1>4, <1>5, <1>6 DEF Folds
  <2>2. QED BY <1>1, <1>5, <2>1
<1>8. E(J)
  BY <1>7
<1>9. Match(mem, l) = J[DOMAIN five].result
  BY Zenon DEF Match, FoldLeft, MapThenFoldSet, base, five
<1> HIDE DEF J
<1>10. Unfolds(J, T, n, base, step)
  BY <1>1, <1>4, <1>6, <1>8 DEF Unfolds
<1> HIDE DEF E, five
<1>11. PICK st : Run(st, T, n, base, step) /\ J[1 .. n] = st[n]
  <2>1. n \in Nat /\ step \in [1 .. n -> [T -> T]]
    BY <1>1, <1>4
  <2>2. HasRun(J, T, n, base, step)
    BY <1>2, <1>10, <2>1, FoldRun, Zenon
  <2>3. QED BY <2>2 DEF HasRun
<1>12. J[1 .. n] \in Searching(l)
  <2>1. st \in [0 .. n -> T] /\ n \in 0 .. n
    BY <1>1, <1>11 DEF Run
  <2>2. QED BY <1>11, <2>1 DEF T
<1>13. QED BY <1>1, <1>9, <1>12 DEF Searching

(* What is found rests on what was typed, whatever stands behind it. *)
LEMMA GetMatchesType ==
    ASSUME FieldInv, NEW mem \in Seq(Nat), NEW l \in Int, l <= Len(mem)
    PROVE  \/ get_matches(mem, l) = NoMatch(0)
           \/ l \in Nat /\ get_matches(mem, l) \in Outcome(l)
<1>1. CASE nb_seq(conv_nb) < 1 \/ l < 1
  BY <1>1 DEF get_matches
<1>2. CASE ~ (nb_seq(conv_nb) < 1 \/ l < 1)
  <2>1. l \in 0 .. Len(mem) /\ l \in Nat
    BY <1>2
  <2>2. Match(mem, l) \in Outcome(l)
    BY <2>1, MatchType
  <2>3. QED BY <1>2, <2>1, <2>2 DEF get_matches
<1>3. QED BY <1>1, <1>2

-----------------------------------------------------------------------------
(* How a key may leave the field: the cursor and start in the text, start at most one
   character behind the cursor. *)
Placed(f) == /\ f.value \in Seq(Nat)
             /\ f.position \in 0 .. Len(f.value)
             /\ f.start \in 0 .. Len(f.value)
             /\ f.start <= f.position + 1

(* What is found for the text from start to the cursor: what is left over is a part of it. *)
Found_in(g, at) == /\ g.nb \in Nat /\ g.r \in Seq(Nat) /\ Len(g.r) \in Nat /\ g.rem \in Nat
                   /\ g.nb = 1 => g.rem <= at - start /\ start <= at

(* The text from start, with the memory behind it, is what get_matches looks at. *)
LEMMA FoundType ==
    ASSUME FieldInv, NEW str \in Seq(Nat), NEW at \in 0 .. Len(str), NEW stale \in Stale,
           start <= Len(str), start <= at + 1
    PROVE  Found_in(get_matches(From(str, start) \o <<NUL>> \o stale, at - start), at)
<1> DEFINE mem == From(str, start) \o <<NUL>> \o stale
           l == at - start
           g == get_matches(mem, l)
           n == Len(str)
<1>1. /\ start \in Nat /\ at \in Nat /\ n \in Nat /\ l \in Int
      /\ at <= n /\ start <= n /\ start <= at + 1
  BY DEF FieldInv
<1>2. mem \in Seq(Nat) /\ l <= Len(mem)
  <2> DEFINE a == From(str, start)
  <2>1. a \in Seq(Nat) /\ Len(a) = IF start + 1 <= n THEN n - (start + 1) + 1 ELSE 0
    <3>1. start + 1 \in Nat \ {0} /\ n \in Int /\ n <= Len(str)
      BY <1>1
    <3>2. QED BY <3>1, Piece DEF From
  <2>2. <<NUL>> \in Seq(Nat) /\ stale \in Seq(Nat) /\ Len(<<NUL>>) = 1
    BY ConverterAssumption DEF NUL
  <2> HIDE DEF a
  <2>3. /\ a \o <<NUL>> \in Seq(Nat) /\ Len(a \o <<NUL>>) = Len(a) + 1
    BY <2>1, <2>2
  <2> DEFINE b == a \o <<NUL>>
  <2> HIDE DEF b
  <2>4. b \in Seq(Nat) /\ Len(b) = Len(a) + 1
    BY <2>3 DEF b
  <2>5. b \o stale \in Seq(Nat) /\ Len(b \o stale) = Len(b) + Len(stale)
    BY <2>2, <2>4, Joined
  <2> DEFINE z == Len(stale)
  <2>9. z \in Nat
    BY <2>2
  <2> HIDE DEF z
  <2>6. mem = b \o stale
    BY DEF a, b
  <2> HIDE DEF mem
  <2>7. n - start <= Len(a) /\ Len(a) \in Nat
    BY <1>1, <2>1
  <2>8. mem \in Seq(Nat) /\ Len(mem) = Len(a) + 1 + z
    BY <2>4, <2>5, <2>6 DEF z
  <2>10. QED BY <1>1, <2>7, <2>8, <2>9
<1> HIDE DEF mem
<1>3. g = NoMatch(0) \/ (l \in Nat /\ g \in Outcome(l))
  BY <1>1, <1>2, GetMatchesType
<1> HIDE DEF l
<1>4. Found_in(g, at)
  <2> HIDE DEF g
  <2>1. CASE g = NoMatch(0)
    BY <2>1 DEF NoMatch, Found_in
  <2>2. CASE l \in Nat /\ g \in Outcome(l)
    <3>1. g.nb \in Nat /\ g.r \in Seq(Nat) /\ g.rem \in 0 .. l
      BY <2>2 DEF Outcome
    <3>2. QED BY <1>1, <2>2, <3>1 DEF l, Found_in
  <2>3. QED BY <1>3, <2>1, <2>2
<1>5. QED BY <1>4 DEF g, mem, l

(* The conversion leaves the field so; start is not behind the cursor when a character was
   typed at start or later, or when the cursor is at the end of the text, where it stays. *)
LEMMA ConvertType ==
    ASSUME FieldInv, NEW str \in Seq(Nat), NEW at \in 0 .. Len(str), NEW stale \in Stale,
           start <= Len(str), start <= at + 1
    PROVE  /\ Placed(convert(str, at, stale))
           /\ start < at \/ at = Len(str) =>
                 convert(str, at, stale).start <= convert(str, at, stale).position
           /\ at = Len(str) =>
                 convert(str, at, stale).position = Len(convert(str, at, stale).value)
<1> DEFINE mem == From(str, start) \o <<NUL>> \o stale
           l == at - start
           g == get_matches(mem, l)
           f == convert(str, at, stale)
           end == start + Len(g.r)
           n == Len(str)
<1>1. /\ start \in Nat /\ at \in Nat /\ n \in Nat /\ l \in Int
      /\ at <= n /\ start <= n /\ start <= at + 1
  BY DEF FieldInv
<1>4. /\ g.nb \in Nat /\ g.r \in Seq(Nat) /\ Len(g.r) \in Nat /\ g.rem \in Nat
      /\ g.nb = 1 => g.rem <= at - start /\ start <= at
  <2>1. Found_in(g, at)
    BY <1>1, FoundType
  <2> HIDE DEF g
  <2>2. QED BY <2>1 DEF Found_in
<1> HIDE DEF mem, l
<1>5. f = IF start >= n THEN FieldAt(str, at, n)
          ELSE IF start > at THEN FieldAt(str, at, at)
          ELSE IF g.crashed THEN [FieldAt(str, at, start) EXCEPT !.crashed = TRUE]
          ELSE IF g.nb = 1
               THEN FieldAt(SubSeq(str, 1, start) \o g.r \o From(str, at - g.rem),
                            end + g.rem, end)
          ELSE FieldAt(str, at, IF g.nb = 0 THEN start + 1 ELSE start)
  BY Zenon DEF convert, mem, l
<1> HIDE DEF g, f, n
<1> DEFINE Goal(h) == /\ Placed(h)
                      /\ start < at \/ at = n => h.start <= h.position
                      /\ at = n => h.position = Len(h.value)
<1>6. ASSUME NEW x \in 0 .. n, x <= at + 1, start < at \/ at = n => x <= at
      PROVE  /\ Goal(FieldAt(str, at, x))
             /\ Goal([FieldAt(str, at, x) EXCEPT !.crashed = TRUE])
  <2>1. /\ FieldAt(str, at, x).value = str /\ FieldAt(str, at, x).position = at
        /\ FieldAt(str, at, x).start = x
        /\ [FieldAt(str, at, x) EXCEPT !.crashed = TRUE].value = str
        /\ [FieldAt(str, at, x) EXCEPT !.crashed = TRUE].position = at
        /\ [FieldAt(str, at, x) EXCEPT !.crashed = TRUE].start = x
    BY DEF FieldAt
  <2> HIDE DEF n
  <2>2. at \in 0 .. n /\ str \in Seq(Nat) /\ Len(str) = n
    BY <1>1 DEF n
  <2>3. QED BY <1>6, <2>1, <2>2 DEF Placed
<1>7. CASE start >= n
  <2>1. f = FieldAt(str, at, n) /\ n \in 0 .. n
    BY <1>1, <1>5, <1>7
  <2>2. n <= at + 1 /\ (start < at \/ at = n => n <= at)
    BY <1>1, <1>7
  <2>3. QED BY <1>6, <2>1, <2>2 DEF f, n
<1>8. CASE start < n /\ start > at
  <2>1. f = FieldAt(str, at, at) /\ at \in 0 .. n /\ at <= at + 1 /\ at <= at
    BY <1>1, <1>5, <1>8
  <2>2. QED BY <1>6, <2>1 DEF f, n
<1>9. CASE start < n /\ start <= at /\ g.crashed
  <2>1. f = [FieldAt(str, at, start) EXCEPT !.crashed = TRUE] /\ start \in 0 .. n
    BY <1>1, <1>5, <1>9
  <2>2. QED BY <1>1, <1>6, <1>9, <2>1 DEF f, n
<1>10. CASE start < n /\ start <= at /\ ~ g.crashed /\ g.nb # 1
  <2>1. \E x \in {start, start + 1} : f = FieldAt(str, at, x)
    BY <1>1, <1>5, <1>10
  <2>2. \A x \in {start, start + 1} : x \in 0 .. n /\ x <= at + 1
                                        /\ (start < at \/ at = n => x <= at)
    BY <1>1, <1>10
  <2>3. QED BY <1>6, <2>1, <2>2 DEF f, n
<1>11. CASE start < n /\ start <= at /\ ~ g.crashed /\ g.nb = 1
  <2> DEFINE a == SubSeq(str, 1, start)
             d == From(str, at - g.rem)
             t == a \o g.r \o d
  <2>1. f = FieldAt(t, end + g.rem, end)
    BY <1>1, <1>5, <1>11
  <2>2. a \in Seq(Nat) /\ Len(a) = start
    <3>1. 1 \in Nat \ {0} /\ start \in Int /\ start <= Len(str)
      BY <1>1 DEF n
    <3>2. a \in Seq(Nat) /\ Len(a) = IF 1 <= start THEN start - 1 + 1 ELSE 0
      BY <3>1, Piece
    <3> HIDE DEF a
    <3>3. QED BY <1>1, <3>2
  <2>3. d \in Seq(Nat) /\ Len(d) = n - (at - g.rem)
    <3>1. at - g.rem \in Nat /\ at - g.rem <= n
      BY <1>1, <1>4, <1>11
    <3> DEFINE p == at - g.rem
    <3>2. p \in Nat /\ p <= n
      BY <3>1
    <3> HIDE DEF p
    <3>3. p + 1 \in Nat \ {0} /\ n \in Int /\ n <= Len(str)
      BY <1>1, <3>2 DEF n
    <3>4. /\ SubSeq(str, p + 1, n) \in Seq(Nat)
          /\ Len(SubSeq(str, p + 1, n)) = IF p + 1 <= n THEN n - (p + 1) + 1 ELSE 0
      BY <3>3, Piece
    <3>5. Len(SubSeq(str, p + 1, n)) = n - p
      BY <1>1, <3>2, <3>4
    <3>6. d = SubSeq(str, p + 1, n)
      BY DEF From, p, n
    <3>7. QED BY <3>4, <3>5, <3>6 DEF p
  <2> HIDE DEF a, d
  <2>4. t \in Seq(Nat) /\ Len(t) = start + Len(g.r) + (n - (at - g.rem))
    <3> DEFINE b == a \o g.r
    <3>1. b \in Seq(Nat) /\ Len(b) = start + Len(g.r)
      BY <1>4, <2>2, Joined
    <3> HIDE DEF b
    <3>2. b \o d \in Seq(Nat) /\ Len(b \o d) = Len(b) + Len(d)
      BY <2>3, <3>1, Joined
    <3>3. t = b \o d
      BY DEF b
    <3> HIDE DEF t
    <3>4. QED BY <2>3, <3>1, <3>2, <3>3
  <2> HIDE DEF t
  <2>5. /\ end \in Nat /\ end + g.rem \in Nat /\ end <= end + g.rem
        /\ Len(t) = end + g.rem + (n - at)
    <3> DEFINE x == Len(g.r)
               y == g.rem
    <3>1. x \in Nat /\ y \in Nat /\ Len(t) = start + x + (n - (at - y)) /\ end = start + x
      BY <1>4, <2>4
    <3> HIDE DEF x, y, end
    <3>2. /\ end \in Nat /\ end + y \in Nat /\ end <= end + y
          /\ Len(t) = end + y + (n - at)
      BY <1>1, <3>1
    <3>3. QED BY <3>2 DEF y
  <2> HIDE DEF end
  <2>6. /\ end \in 0 .. Len(t) /\ end + g.rem \in 0 .. Len(t) /\ end <= end + g.rem + 1
        /\ at = n => end + g.rem = Len(t)
    <3> DEFINE x == Len(t)
               y == g.rem
    <3>1. y \in Nat /\ end \in Nat /\ x = end + y + (n - at)
      BY <1>4, <2>5
    <3> HIDE DEF x, y
    <3>2. /\ end \in 0 .. x /\ end + y \in 0 .. x /\ end <= end + y + 1
          /\ at = n => end + y = x
      BY <1>1, <3>1
    <3>3. QED BY <3>2 DEF x, y
  <2>7. /\ FieldAt(t, end + g.rem, end).value = t
        /\ FieldAt(t, end + g.rem, end).position = end + g.rem
        /\ FieldAt(t, end + g.rem, end).start = end
    BY DEF FieldAt
  <2>8. Goal(FieldAt(t, end + g.rem, end))
    BY <2>4, <2>5, <2>6, <2>7 DEF Placed
  <2>9. QED BY <2>1, <2>8 DEF f, n
<1>12. start >= n \/ (start < n /\ start > at) \/ (start < n /\ start <= at)
  BY <1>1
<1>13. QED BY <1>7, <1>8, <1>9, <1>10, <1>11, <1>12

-----------------------------------------------------------------------------
(* The invariant: what was read of the file, what is in the field, and that start is not
   behind the cursor when Shift is not pressed where the cursor is moved about. *)
NotBoth == \A f \in DOMAIN Typed : \/ "shift" \notin Typed[f]
                                   \/ Typed[f] \cap {"left", "right"} = {}
AtTheEnd == file \in DOMAIN Typed /\ Typed[file] \cap {"left", "right"} = {}
                => position = Len(value)
Ordered == NotBoth => start <= position /\ AtTheEnd

KeyboardInv == FileInv /\ FieldInv /\ Ordered

(* At the beginning nothing is read and the field is empty. *)
LEMMA BeginsInInv == KeyboardInit => KeyboardInv
<1> SUFFICES ASSUME KeyboardInit PROVE KeyboardInv
  OBVIOUS
<1>1. FileInv
  BY FileInit DEF KeyboardInit
<1>2. /\ value = <<>> /\ position = 0 /\ start = 0 /\ conv_nb \in Input
      /\ kmap = [n \in Input |-> NoMap]
  BY DEF KeyboardInit, Init
<1>3. NoMap \in KeyboardMap
  <2>1. <<0, 0, 0, 0, 0>> \in [1 .. 5 -> Nat] /\ \A k \in 1 .. 5 : <<0, 0, 0, 0, 0>>[k] <= 0
    OBVIOUS
  <2>2. <<>> \in Seq(MapLine) /\ Len(<<>>) = 0
    OBVIOUS
  <2>3. QED BY <2>1, <2>2 DEF NoMap, KeyboardMap
<1>4. value \in Seq(Nat) /\ Len(value) = 0
  BY <1>2
<1>5. kmap \in [Input -> KeyboardMap]
  BY <1>2, <1>3
<1>6. FieldInv
  BY <1>2, <1>4, <1>5 DEF FieldInv
<1>7. Ordered
  BY <1>2, <1>4 DEF Ordered, AtTheEnd
<1>8. QED BY <1>1, <1>6, <1>7 DEF KeyboardInv

(* What the conversion makes of the field is put into it. *)
LEMMA PutType ==
    ASSUME FieldInv, NEW f, Placed(f), Put(f)
    PROVE  FieldInv'
<1>1. /\ value' = f.value /\ position' = f.position /\ start' = f.start
      /\ UNCHANGED <<conv_nb, kmap>>
  BY DEF Put
<1>2. QED BY <1>1 DEF FieldInv, Placed

(* A character is inserted at the cursor, and what stands before it is converted. *)
LEMMA KeyStep ==
    ASSUME FieldInv, NEW ch \in Char, Key(ch)
    PROVE  /\ FieldInv'
           /\ start <= position => start' <= position'
           /\ position = Len(value) => start' <= position' /\ position' = Len(value')
<1> DEFINE a == SubSeq(value, 1, position)
           b == <<ch>>
           d == From(value, position)
           str == a \o b \o d
           at == position + 1
           n == Len(value)
<1>1. PICK stale \in Stale : Put(convert(str, at, stale))
  BY DEF Key
<1>2. /\ value \in Seq(Nat) /\ n \in Nat /\ position \in Nat /\ position <= n
      /\ start \in Nat /\ start <= n /\ start <= position + 1
  BY DEF FieldInv
<1>3. str \in Seq(Nat) /\ Len(str) = n + 1
  <2>1. a \in Seq(Nat) /\ Len(a) = position
    <3>1. 1 \in Nat \ {0} /\ position \in Int /\ position <= Len(value)
      BY <1>2
    <3>2. a \in Seq(Nat) /\ Len(a) = IF 1 <= position THEN position - 1 + 1 ELSE 0
      BY <1>2, <3>1, Piece
    <3> HIDE DEF a
    <3>3. QED BY <1>2, <3>2
  <2>2. b \in Seq(Nat) /\ Len(b) = 1
    BY ConverterAssumption
  <2>3. d \in Seq(Nat) /\ Len(d) = n - position
    <3>1. position + 1 \in Nat \ {0} /\ n \in Int /\ n <= Len(value)
      BY <1>2
    <3>2. d \in Seq(Nat) /\ Len(d) = IF position + 1 <= n THEN n - (position + 1) + 1 ELSE 0
      BY <1>2, <3>1, Piece DEF From
    <3> HIDE DEF d, n
    <3>3. QED BY <1>2, <3>2
  <2> HIDE DEF a, b, d
  <2>4. a \o b \in Seq(Nat) /\ Len(a \o b) = position + 1
    BY <2>1, <2>2, Joined
  <2> DEFINE e == a \o b
  <2> HIDE DEF e
  <2>5. e \in Seq(Nat) /\ Len(e) = position + 1
    BY <2>4 DEF e
  <2>6. e \o d \in Seq(Nat) /\ Len(e \o d) = Len(e) + Len(d)
    BY <2>3, <2>5, Joined
  <2>7. str = e \o d
    BY DEF e
  <2> HIDE DEF str, n
  <2>8. Len(e) + Len(d) = n + 1
    BY <1>2, <2>3, <2>5
  <2>9. QED BY <2>6, <2>7, <2>8, Zenon
<1> HIDE DEF str
<1>4. /\ at \in 0 .. Len(str) /\ start <= Len(str) /\ start <= at + 1
      /\ start <= position => start < at
      /\ position = n => at = Len(str)
  <2> HIDE DEF n
  <2>1. QED BY <1>2, <1>3
<1> HIDE DEF at, n
<1> DEFINE f == convert(str, at, stale)
<1>5. /\ Placed(f)
      /\ start < at \/ at = Len(str) => f.start <= f.position
      /\ at = Len(str) => f.position = Len(f.value)
  BY <1>3, <1>4, ConvertType
<1> HIDE DEF f
<1>6. Put(f)
  BY <1>1 DEF f
<1>7. FieldInv'
  BY <1>5, <1>6, PutType
<1>8. value' = f.value /\ position' = f.position /\ start' = f.start
  BY <1>6 DEF Put
<1>9. QED BY <1>4, <1>5, <1>7, <1>8 DEF n

(* A key without a text. *)
LEMMA SilentKeyStep ==
    ASSUME FieldInv, SilentKey
    PROVE  /\ FieldInv'
           /\ position = Len(value) => start' <= position' /\ position' = Len(value')
<1>1. PICK stale \in Stale : Put(convert(value, position, stale))
  BY DEF SilentKey
<1>2. /\ value \in Seq(Nat) /\ position \in 0 .. Len(value)
      /\ start <= Len(value) /\ start <= position + 1
  BY DEF FieldInv
<1> DEFINE f == convert(value, position, stale)
<1>3. /\ Placed(f)
      /\ position = Len(value) => f.start <= f.position /\ f.position = Len(f.value)
  BY <1>2, ConvertType
<1> HIDE DEF f
<1>4. Put(f)
  BY <1>1 DEF f
<1>5. FieldInv'
  BY <1>3, <1>4, PutType
<1>6. value' = f.value /\ position' = f.position /\ start' = f.start
  BY <1>4 DEF Put
<1>7. QED BY <1>3, <1>5, <1>6

(* The cursor moves within the text, and start with it. *)
LEMMA ArrowKeyStep ==
    ASSUME FieldInv, NEW key, ArrowKey(key)
    PROVE  FieldInv' /\ start' <= position' /\ key \in {"left", "right"}
<1> DEFINE n == Len(value)
<1>1. /\ value \in Seq(Nat) /\ n \in Nat /\ position \in 0 .. n
  BY DEF FieldInv
<1>2. position' \in 0 .. n /\ key \in {"left", "right"}
  <2>1. CASE key = "left" /\ position' = Max({position - 1, 0})
    <3>1. position - 1 \in Int /\ 0 \in Int
      BY <1>1
    <3>2. position' \in {position - 1, 0} /\ position' >= 0
      BY <2>1, <3>1, TwoNumbers
    <3> HIDE DEF n
    <3>3. QED BY <1>1, <2>1, <3>2
  <2>2. CASE key = "right" /\ position' = Min({position + 1, n})
    <3>1. position + 1 \in Int /\ n \in Int
      BY <1>1
    <3>2. position' \in {position + 1, n} /\ position' <= n
      BY <2>2, <3>1, TwoNumbers
    <3> HIDE DEF n
    <3>3. QED BY <1>1, <2>2, <3>2
  <2>3. QED BY <2>1, <2>2 DEF ArrowKey
<1>3. start' = position' /\ UNCHANGED <<value, conv_nb, kmap>>
  BY DEF ArrowKey
<1>4. start' <= position' /\ start' <= position' + 1
  <2> DEFINE p == position'
  <2>1. p \in Nat /\ start' = p
    BY <1>2, <1>3
  <2> HIDE DEF p
  <2>2. p <= p /\ p <= p + 1
    BY <2>1
  <2>3. QED BY <2>1, <2>2 DEF p
<1>5. FieldInv'
  BY <1>2, <1>3, <1>4 DEF FieldInv
<1>6. QED BY <1>2, <1>4, <1>5

(* What was read is a keyboard map. *)
LEMMA LoadedMap ==
    ASSUME FileInv
    PROVE  {[lines |-> loaded, offset |-> offs], NoMap} \subseteq KeyboardMap
<1> DEFINE n == Len(loaded)
<1>1. /\ loaded \in Seq(MapLine) /\ n \in Nat /\ offs \in [1 .. 5 -> 0 .. n]
  BY DEF FileInv
<1>2. [lines |-> loaded, offset |-> offs] \in KeyboardMap
  <2>1. offs \in [1 .. 5 -> Nat] /\ \A k \in 1 .. 5 : offs[k] <= n
    BY <1>1
  <2>2. QED BY <1>1, <2>1 DEF KeyboardMap
<1>3. NoMap \in KeyboardMap
  <2>1. <<0, 0, 0, 0, 0>> \in [1 .. 5 -> Nat] /\ \A k \in 1 .. 5 : <<0, 0, 0, 0, 0>>[k] <= 0
    OBVIOUS
  <2>2. <<>> \in Seq(MapLine) /\ Len(<<>>) = 0
    OBVIOUS
  <2>3. QED BY <2>1, <2>2 DEF NoMap, KeyboardMap
<1>4. QED BY <1>2, <1>3

(* No step leaves the invariant. *)
LEMMA StaysInInv == KeyboardInv /\ [KeyboardNext]_<<vars, fileVars>> => KeyboardInv'
<1> SUFFICES ASSUME KeyboardInv, [KeyboardNext]_<<vars, fileVars>> PROVE KeyboardInv'
  OBVIOUS
<1>1. FileInv /\ FieldInv /\ Ordered
  BY DEF KeyboardInv
<1>2. ASSUME UNCHANGED vars, file' = file PROVE FieldInv' /\ Ordered'
  <2>1. UNCHANGED <<value, position, start, conv_nb, kmap>>
    BY <1>2 DEF vars, field
  <2>2. QED BY <1>1, <1>2, <2>1 DEF FieldInv, Ordered, AtTheEnd
<1>3. CASE Load
  <2>1. File!Next /\ UNCHANGED vars
    BY <1>3 DEF Load
  <2>2. file' = file
    BY <2>1 DEF File!Next, File!Read, File!Eat, File!GiveBack
  <2>3. FileInv'
    BY <1>1, <2>1, FileStep
  <2>4. QED BY <1>2, <2>1, <2>2, <2>3 DEF KeyboardInv
<1>4. CASE Type
  <2>1. /\ file \in DOMAIN Typed
        /\ UNCHANGED fileVars
    BY <1>4 DEF Type
  <2>2. FileInv' /\ file' = file
    BY <1>1, <2>1, FileStep DEF fileVars
  <2>3. ASSUME UNCHANGED field PROVE Ordered'
    BY <1>1, <2>2, <2>3 DEF field, Ordered, AtTheEnd
  <2>4. CASE \E ch \in Char : Key(ch)
    <3>1. PICK ch \in Char : Key(ch)
      BY <2>4
    <3>2. /\ FieldInv'
          /\ start <= position => start' <= position'
          /\ position = Len(value) => start' <= position' /\ position' = Len(value')
      BY <1>1, <3>1, KeyStep
    <3>3. Ordered'
      BY <1>1, <2>2, <3>2 DEF Ordered, AtTheEnd
    <3>4. QED BY <2>2, <3>2, <3>3 DEF KeyboardInv
  <2>5. CASE \E n \in Input : Choose(n)
    <3>1. conv_nb' \in Input /\ UNCHANGED <<field, kmap>>
      BY <2>5 DEF Choose
    <3>2. FieldInv'
      BY <1>1, <3>1 DEF FieldInv, field
    <3>3. QED BY <2>2, <2>3, <3>1, <3>2 DEF KeyboardInv
  <2>6. CASE Flush
    <3>1. value' = <<>> /\ position' = 0 /\ start' = 0 /\ UNCHANGED <<conv_nb, kmap>>
      BY <2>6 DEF Flush
    <3>2. value' \in Seq(Nat) /\ Len(value') = 0
      BY <3>1
    <3>3. FieldInv' /\ Ordered'
      BY <1>1, <3>1, <3>2 DEF FieldInv, Ordered, AtTheEnd
    <3>4. QED BY <2>2, <3>3 DEF KeyboardInv
  <2>7. CASE "shift" \in Typed[file] /\ SilentKey
    <3>1. /\ FieldInv'
          /\ position = Len(value) => start' <= position' /\ position' = Len(value')
      BY <1>1, <2>7, SilentKeyStep
    <3>2. ASSUME NotBoth PROVE start' <= position' /\ AtTheEnd'
      <4>1. Typed[file] \cap {"left", "right"} = {}
        BY <2>1, <2>7, <3>2 DEF NotBoth
      <4>2. position = Len(value)
        BY <1>1, <2>1, <3>2, <4>1 DEF Ordered, AtTheEnd
      <4>3. QED BY <3>1, <4>2 DEF AtTheEnd
    <3>3. QED BY <2>2, <3>1, <3>2 DEF KeyboardInv, Ordered, NotBoth
  <2>8. CASE \E key \in Typed[file] : ArrowKey(key)
    <3>1. PICK key \in Typed[file] : ArrowKey(key)
      BY <2>8
    <3>2. FieldInv' /\ start' <= position' /\ key \in {"left", "right"}
      BY <1>1, <3>1, ArrowKeyStep
    <3>3. Typed[file] \cap {"left", "right"} # {}
      BY <3>1, <3>2
    <3>4. Ordered'
      BY <2>2, <3>2, <3>3 DEF Ordered, AtTheEnd
    <3>5. QED BY <2>2, <3>2, <3>4 DEF KeyboardInv
  <2>9. CASE reload({[lines |-> loaded, offset |-> offs], NoMap})
    <3> DEFINE maps == {[lines |-> loaded, offset |-> offs], NoMap}
    <3>1. kmap' \in [Input -> maps] /\ UNCHANGED <<field, conv_nb>>
      BY <2>9 DEF reload
    <3>2. maps \subseteq KeyboardMap
      BY <1>1, LoadedMap
    <3> HIDE DEF maps
    <3>3. kmap' \in [Input -> KeyboardMap]
      BY <3>1, <3>2
    <3>4. FieldInv'
      BY <1>1, <3>1, <3>3 DEF FieldInv, field
    <3>5. QED BY <2>2, <2>3, <3>1, <3>4 DEF KeyboardInv
  <2>10. QED BY <1>4, <2>4, <2>5, <2>6, <2>7, <2>8, <2>9 DEF Type, Edit
<1>5. CASE UNCHANGED <<vars, fileVars>>
  <2>1. FileInv' /\ file' = file
    BY <1>1, <1>5, FileStep DEF fileVars
  <2>2. QED BY <1>2, <1>5, <2>1 DEF KeyboardInv
<1>6. QED BY <1>3, <1>4, <1>5 DEF KeyboardNext

(* Whatever the file says, wherever the buffer cuts it and whatever stands in memory
   behind the text: the parts of the map begin at lines that were read, each line has two
   sides, the file offset is never taken back before the beginning, and the cursor and the
   start of the text to convert stay in the text (kmap.c:180-250, gui.cpp "convert" and
   "get_matches"). *)
THEOREM StaysInTheText == KeyboardSpec => [](FileInv /\ FieldInv)
<1>1. KeyboardInv => FileInv /\ FieldInv
  BY DEF KeyboardInv
<1>2. QED BY <1>1, BeginsInInv, StaysInInv, PTL DEF KeyboardSpec

(* Unless Shift is pressed where the cursor is moved about, start is not behind the cursor
   (gui.cpp "convert"). *)
THEOREM StartIsNotBehind == ASSUME NotBoth PROVE KeyboardSpec => []TypeOK
<1>1. KeyboardInv => TypeOK
  <2>1. SUFFICES ASSUME KeyboardInv PROVE TypeOK
    OBVIOUS
  <2>2. FieldInv /\ start <= position
    BY <2>1 DEF KeyboardInv, Ordered
  <2>3. QED BY <2>2 DEF FieldInv, TypeOK
<1>2. QED BY <1>1, BeginsInInv, StaysInInv, PTL DEF KeyboardSpec

-----------------------------------------------------------------------------
(* What a key leaves alone: the text before start, which is translated already, and the
   text behind the cursor. *)
Kept(str, at, from, new, to) ==
    /\ \A i \in 1 .. at : i <= from => new[i] = str[i]
    /\ Len(new) - to = Len(str) - at
    /\ \A i \in 1 .. Len(str) - at : new[to + i] = str[at + i]

(* The conversion replaces what stands between start and the cursor. *)
LEMMA ConvertKeeps ==
    ASSUME FieldInv, NEW str \in Seq(Nat), NEW at \in 0 .. Len(str), NEW stale \in Stale,
           start <= Len(str), start <= at + 1
    PROVE  Kept(str, at, start, convert(str, at, stale).value, convert(str, at, stale).position)
<1> DEFINE mem == From(str, start) \o <<NUL>> \o stale
           l == at - start
           g == get_matches(mem, l)
           f == convert(str, at, stale)
           end == start + Len(g.r)
           n == Len(str)
<1>1. /\ start \in Nat /\ at \in Nat /\ n \in Nat /\ l \in Int
      /\ at <= n /\ start <= n /\ start <= at + 1
  BY DEF FieldInv
<1>2. /\ g.nb \in Nat /\ g.r \in Seq(Nat) /\ Len(g.r) \in Nat /\ g.rem \in Nat
      /\ g.nb = 1 => g.rem <= at - start /\ start <= at
  <2>1. Found_in(g, at)
    BY <1>1, FoundType
  <2> HIDE DEF g
  <2>2. QED BY <2>1 DEF Found_in
<1>3. f = IF start >= n THEN FieldAt(str, at, n)
          ELSE IF start > at THEN FieldAt(str, at, at)
          ELSE IF g.crashed THEN [FieldAt(str, at, start) EXCEPT !.crashed = TRUE]
          ELSE IF g.nb = 1
               THEN FieldAt(SubSeq(str, 1, start) \o g.r \o From(str, at - g.rem),
                            end + g.rem, end)
          ELSE FieldAt(str, at, IF g.nb = 0 THEN start + 1 ELSE start)
  BY Zenon DEF convert, mem, l
<1> HIDE DEF mem, l, g, f
<1> DEFINE Goal(h) == Kept(str, at, start, h.value, h.position)
<1>4. CASE f.value = str /\ f.position = at
  BY <1>4 DEF Kept, f
<1>5. CASE start < n /\ start <= at /\ g.nb = 1
           /\ f = FieldAt(SubSeq(str, 1, start) \o g.r \o From(str, at - g.rem),
                          end + g.rem, end)
  <2> DEFINE a == SubSeq(str, 1, start)
             b == g.r
             d == From(str, at - g.rem)
             x == Len(b)
             y == g.rem
             p == at - y
  <2>1. /\ a \in Seq(Nat) /\ Len(a) = start
        /\ \A i \in 1 .. start : a[i] = str[i]
    <3>1. start \in Nat /\ start <= Len(str)
      BY <1>1
    <3>2. QED BY <3>1
  <2>2. b \in Seq(Nat) /\ x \in Nat /\ y \in Nat /\ p \in Nat /\ p <= n /\ y <= at - start
    BY <1>1, <1>2, <1>5
  <2>3. /\ d \in Seq(Nat) /\ Len(d) = n - p
        /\ \A i \in 1 .. n - p : d[i] = str[p + i]
    <3> HIDE DEF p
    <3>1. /\ \A i \in p + 1 .. n : str[i] \in Nat
          /\ p + 1 \in Int /\ n \in Int
      BY <1>1, <2>2
    <3>2. /\ SubSeq(str, p + 1, n) \in Seq(Nat)
          /\ Len(SubSeq(str, p + 1, n)) = IF p + 1 <= n THEN n - (p + 1) + 1 ELSE 0
          /\ \A i \in 1 .. n - (p + 1) + 1 : SubSeq(str, p + 1, n)[i] = str[(p + 1) + i - 1]
      BY <3>1, SubSeqProperties
    <3>3. d = SubSeq(str, p + 1, n)
      BY Zenon DEF From, p
    <3> HIDE DEF d, n
    <3>4. n - (p + 1) + 1 = n - p /\ (p + 1 <= n \/ n - p = 0)
      BY <1>1, <2>2
    <3>5. Len(d) = n - p
      BY <3>2, <3>3, <3>4
    <3>6. \A i \in 1 .. n - p : (p + 1) + i - 1 = p + i
      BY <2>2
    <3>7. \A i \in 1 .. n - p : d[i] = str[p + i]
      BY <3>2, <3>3, <3>4, <3>6
    <3>8. QED BY <3>2, <3>3, <3>5, <3>7
  <2>4. f.value = a \o b \o d /\ f.position = start + x + y
    <3>1. FieldAt(a \o b \o d, end + y, end).value = a \o b \o d
      BY Zenon DEF FieldAt
    <3>2. f = FieldAt(a \o b \o d, end + y, end)
      BY <1>5, Zenon
    <3>3. FieldAt(a \o b \o d, end + y, end).position = end + y
      BY DEF FieldAt
    <3>4. QED BY <3>1, <3>2, <3>3
  <2> HIDE DEF a, b, d, x, y, p, end
  <2> DEFINE w == f.value
  <2>5. /\ Len(w) = start + x + (n - p)
        /\ \A i \in 1 .. start : w[i] = str[i]
        /\ \A i \in 1 .. n - p : w[start + x + i] = str[p + i]
    <3> DEFINE e == a \o b
    <3>1. /\ e \in Seq(Nat) /\ Len(e) = start + x
          /\ \A i \in 1 .. Len(a) + Len(b) : e[i] = IF i <= Len(a) THEN a[i] ELSE b[i - Len(a)]
      BY <2>1, <2>2, ConcatProperties DEF x
    <3> HIDE DEF e
    <3>2. /\ Len(e \o d) = Len(e) + Len(d)
          /\ \A i \in 1 .. Len(e) + Len(d) :
                (e \o d)[i] = IF i <= Len(e) THEN e[i] ELSE d[i - Len(e)]
      <4>1. e \in Seq(Nat) /\ d \in Seq(Nat)
        BY <2>3, <3>1
      <4>2. Len(e \o d) = Len(e) + Len(d)
        BY <4>1, Joined
      <4>3. \A i \in 1 .. Len(e) + Len(d) :
                (e \o d)[i] = IF i <= Len(e) THEN e[i] ELSE d[i - Len(e)]
        BY <4>1, JoinedElements
      <4>4. QED BY <4>2, <4>3
    <3>3. w = e \o d
      BY <2>4 DEF e
    <3> HIDE DEF w, n
    <3>4. start + x \in Nat /\ n - p \in Nat /\ Len(b) = x
      BY <1>1, <2>2 DEF x
    <3>5. Len(w) = start + x + (n - p)
      BY <2>3, <3>1, <3>2, <3>3
    <3>6. ASSUME NEW i \in 1 .. start PROVE w[i] = str[i]
      <4>1. i \in 1 .. Len(a) + Len(b) /\ i <= Len(a) /\ i \in 1 .. Len(e) + Len(d) /\ i <= Len(e)
        BY <1>1, <2>1, <2>2, <2>3, <3>1, <3>4
      <4>2. QED BY <2>1, <3>1, <3>2, <3>3, <4>1
    <3>7. ASSUME NEW i \in 1 .. n - p PROVE w[start + x + i] = str[p + i]
      <4> DEFINE j == start + x + i
      <4>1. j \in 1 .. Len(e) + Len(d) /\ ~ (j <= Len(e)) /\ j - Len(e) = i
        BY <1>1, <2>1, <2>2, <2>3, <3>1, <3>4
      <4> HIDE DEF j
      <4>2. w[j] = d[i]
        BY <3>2, <3>3, <4>1
      <4>3. QED BY <2>3, <4>2 DEF j
    <3>8. QED BY <3>5, <3>6, <3>7
  <2> DEFINE q == f.position
  <2>6. q = start + x + y
    BY <2>4
  <2> HIDE DEF w, q, n
  <2>7. p = at - y
    BY DEF p
  <2>8. Len(w) - q = n - at
    <3> DEFINE z == Len(w)
    <3>1. z = start + x + (n - p)
      BY <2>5
    <3> HIDE DEF z
    <3>2. z - q = n - at
      BY <1>1, <2>2, <2>6, <2>7, <3>1
    <3>3. QED BY <3>2 DEF z
  <2>9. ASSUME NEW i \in 1 .. n - at PROVE w[q + i] = str[at + i]
    <3>1. y + i \in 1 .. n - p /\ start + x + (y + i) = q + i /\ p + (y + i) = at + i
      BY <1>1, <2>2, <2>6, <2>7
    <3>2. w[start + x + (y + i)] = str[p + (y + i)]
      BY <2>5, <3>1
    <3>3. QED BY <3>1, <3>2
  <2>10. \A i \in 1 .. at : i <= start => w[i] = str[i]
    <3>1. \A i \in 1 .. at : i <= start => i \in 1 .. start
      BY <1>1
    <3>2. QED BY <2>5, <3>1
  <2>11. QED BY <2>8, <2>9, <2>10 DEF Kept, w, q, n, f
<1>6. (f.value = str /\ f.position = at)
      \/ (start < n /\ start <= at /\ g.nb = 1
          /\ f = FieldAt(SubSeq(str, 1, start) \o g.r \o From(str, at - g.rem),
                         end + g.rem, end))
  <2>1. \A x : /\ FieldAt(str, at, x).value = str /\ FieldAt(str, at, x).position = at
               /\ [FieldAt(str, at, x) EXCEPT !.crashed = TRUE].value = str
               /\ [FieldAt(str, at, x) EXCEPT !.crashed = TRUE].position = at
    BY DEF FieldAt
  <2> DEFINE h == FieldAt(SubSeq(str, 1, start) \o g.r \o From(str, at - g.rem),
                          end + g.rem, end)
  <2>2. f = IF start >= n THEN FieldAt(str, at, n)
            ELSE IF start > at THEN FieldAt(str, at, at)
            ELSE IF g.crashed THEN [FieldAt(str, at, start) EXCEPT !.crashed = TRUE]
            ELSE IF g.nb = 1 THEN h
            ELSE FieldAt(str, at, IF g.nb = 0 THEN start + 1 ELSE start)
    BY <1>3, Zenon
  <2> HIDE DEF h, n
  <2>3. \/ \E x : f = FieldAt(str, at, x) \/ f = [FieldAt(str, at, x) EXCEPT !.crashed = TRUE]
        \/ ~ (start >= n) /\ ~ (start > at) /\ g.nb = 1 /\ f = h
    BY <2>2, Zenon
  <2>4. ASSUME NEW x, f = FieldAt(str, at, x) \/ f = [FieldAt(str, at, x) EXCEPT !.crashed = TRUE]
        PROVE  f.value = str /\ f.position = at
    BY <2>1, <2>4, Zenon
  <2>5. /\ ~ (start >= n) => start < n
        /\ ~ (start > at) => start <= at
    BY <1>1
  <2>6. QED BY <2>3, <2>4, <2>5, Zenon DEF h
<1>7. QED BY <1>4, <1>5, <1>6

KeepsTheRest == Kept(value, position, start, value', position')

(* A character is put between the text before the cursor and the text behind it. *)
LEMMA KeyKeeps == ASSUME FieldInv, NEW ch \in Char, Key(ch) PROVE KeepsTheRest
<1> DEFINE a == SubSeq(value, 1, position)
           b == <<ch>>
           d == From(value, position)
           str == a \o b \o d
           at == position + 1
           n == Len(value)
           h == n - position
<1>1. PICK stale \in Stale : Put(convert(str, at, stale))
  BY DEF Key
<1>2. /\ value \in Seq(Nat) /\ n \in Nat /\ position \in Nat /\ position <= n
      /\ start \in Nat /\ start <= n /\ start <= position + 1
      /\ h \in Nat
  BY DEF FieldInv
<1>3. /\ str \in Seq(Nat) /\ Len(str) = n + 1
      /\ \A i \in 1 .. position : str[i] = value[i]
      /\ \A i \in 1 .. h : str[at + i] = value[position + i]
  <2>1. /\ a \in Seq(Nat) /\ Len(a) = position
        /\ \A i \in 1 .. position : a[i] = value[i]
    <3>1. position \in Nat /\ position <= Len(value)
      BY <1>2
    <3>2. QED BY <1>2, <3>1
  <2>2. b \in Seq(Nat) /\ Len(b) = 1
    BY ConverterAssumption
  <2>3. /\ d \in Seq(Nat) /\ Len(d) = h
        /\ \A i \in 1 .. h : d[i] = value[position + i]
    <3>1. /\ \A i \in position + 1 .. n : value[i] \in Nat
          /\ position + 1 \in Int /\ n \in Int
      BY <1>2
    <3>2. /\ SubSeq(value, position + 1, n) \in Seq(Nat)
          /\ Len(SubSeq(value, position + 1, n))
                = IF position + 1 <= n THEN n - (position + 1) + 1 ELSE 0
          /\ \A i \in 1 .. n - (position + 1) + 1 :
                SubSeq(value, position + 1, n)[i] = value[(position + 1) + i - 1]
      BY <3>1, SubSeqProperties
    <3>3. d = SubSeq(value, position + 1, n)
      BY Zenon DEF From
    <3> HIDE DEF d, n
    <3>4. n - (position + 1) + 1 = h /\ (position + 1 <= n \/ h = 0)
      BY <1>2
    <3> HIDE DEF h
    <3>5. Len(d) = h
      BY <3>2, <3>3, <3>4
    <3>6. \A i \in 1 .. h : (position + 1) + i - 1 = position + i
      BY <1>2
    <3>7. \A i \in 1 .. h : d[i] = value[position + i]
      BY <3>2, <3>3, <3>4, <3>6
    <3>8. QED BY <3>2, <3>3, <3>5, <3>7
  <2> HIDE DEF a, b, d
  <2> DEFINE e == a \o b
  <2>4. /\ e \in Seq(Nat) /\ Len(e) = Len(a) + Len(b)
        /\ \A i \in 1 .. Len(a) + Len(b) : e[i] = IF i <= Len(a) THEN a[i] ELSE b[i - Len(a)]
    BY <2>1, <2>2, ConcatProperties
  <2> HIDE DEF e
  <2>11. Len(e) = position + 1
    BY <2>1, <2>2, <2>4
  <2>5. /\ e \o d \in Seq(Nat) /\ Len(e \o d) = Len(e) + Len(d)
        /\ \A i \in 1 .. Len(e) + Len(d) :
              (e \o d)[i] = IF i <= Len(e) THEN e[i] ELSE d[i - Len(e)]
    <3>1. e \in Seq(Nat) /\ d \in Seq(Nat)
      BY <2>3, <2>4
    <3>2. e \o d \in Seq(Nat) /\ Len(e \o d) = Len(e) + Len(d)
      BY <3>1, Joined
    <3>3. \A i \in 1 .. Len(e) + Len(d) :
              (e \o d)[i] = IF i <= Len(e) THEN e[i] ELSE d[i - Len(e)]
      BY <3>1, JoinedElements
    <3>4. QED BY <3>2, <3>3
  <2>6. str = e \o d
    BY DEF e
  <2> HIDE DEF str, n, h
  <2>7. Len(e) + Len(d) = n + 1
    BY <1>2, <2>3, <2>11 DEF h
  <2>8. ASSUME NEW i \in 1 .. position PROVE str[i] = value[i]
    <3>1. i \in 1 .. Len(a) + Len(b) /\ i <= Len(a) /\ i \in 1 .. Len(e) + Len(d) /\ i <= Len(e)
      BY <1>2, <2>1, <2>2, <2>3, <2>11
    <3>2. QED BY <2>1, <2>4, <2>5, <2>6, <3>1
  <2>9. ASSUME NEW i \in 1 .. h PROVE str[at + i] = value[position + i]
    <3> DEFINE j == at + i
    <3>1. j \in 1 .. Len(e) + Len(d) /\ ~ (j <= Len(e)) /\ j - Len(e) = i
      BY <1>2, <2>3, <2>11
    <3> HIDE DEF j
    <3>2. str[j] = d[i]
      BY <2>5, <2>6, <3>1
    <3>3. QED BY <2>3, <3>2 DEF j
  <2>10. QED BY <2>5, <2>6, <2>7, <2>8, <2>9
<1> HIDE DEF str
<1>4. /\ at \in 0 .. Len(str) /\ start <= Len(str) /\ start <= at + 1
      /\ Len(str) - at = h
  <2> HIDE DEF n
  <2>1. QED BY <1>2, <1>3
<1> HIDE DEF at
<1>5. Kept(str, at, start, convert(str, at, stale).value, convert(str, at, stale).position)
  BY <1>3, <1>4, ConvertKeeps
<1>6. /\ value' = convert(str, at, stale).value
      /\ position' = convert(str, at, stale).position
  BY <1>1 DEF Put
<1> HIDE DEF h
<1>7. /\ \A i \in 1 .. at : i <= start => value'[i] = str[i]
      /\ Len(value') - position' = h
      /\ \A i \in 1 .. h : value'[position' + i] = str[at + i]
  BY <1>4, <1>5, <1>6, Zenon DEF Kept
<1>8. \A i \in 1 .. position : i \in 1 .. at
  BY <1>2 DEF at
<1>9. /\ \A i \in 1 .. position : i <= start => value'[i] = value[i]
      /\ \A i \in 1 .. h : value'[position' + i] = value[position + i]
  BY <1>3, <1>7, <1>8
<1>10. QED BY <1>7, <1>9 DEF KeepsTheRest, Kept, h

(* A key without a text inserts nothing. *)
LEMMA SilentKeyKeeps == ASSUME FieldInv, SilentKey PROVE KeepsTheRest
<1>1. PICK stale \in Stale : Put(convert(value, position, stale))
  BY DEF SilentKey
<1>2. /\ value \in Seq(Nat) /\ position \in 0 .. Len(value)
      /\ start <= Len(value) /\ start <= position + 1
  BY DEF FieldInv
<1>3. Kept(value, position, start, convert(value, position, stale).value,
           convert(value, position, stale).position)
  BY <1>2, ConvertKeeps
<1>4. /\ value' = convert(value, position, stale).value
      /\ position' = convert(value, position, stale).position
  BY <1>1 DEF Put
<1>5. QED BY <1>3, <1>4, Zenon DEF KeepsTheRest

(* A key changes nothing but what stands between start and the cursor, whatever the
   keyboard map says: neither text that is translated already nor text behind the cursor
   (gui.cpp "convert"). *)
THEOREM KeysKeepTheRest ==
    KeyboardSpec => [][(\E ch \in Char : Key(ch)) \/ SilentKey => KeepsTheRest]_<<vars, fileVars>>
<1>1. KeyboardInv /\ [KeyboardNext]_<<vars, fileVars>>
         => [(\E ch \in Char : Key(ch)) \/ SilentKey => KeepsTheRest]_<<vars, fileVars>>
  BY KeyKeeps, SilentKeyKeeps DEF KeyboardInv
<1>2. QED BY <1>1, BeginsInInv, StaysInInv, PTL DEF KeyboardSpec
=============================================================================
