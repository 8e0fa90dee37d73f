------------------------------ MODULE FrameUse ------------------------------
(***************************************************************************)
(* One message written and read through the frame manager, one call at a   *)
(* time, in the order all handlers of i18nPtHdr.c, i18nIc.c and i18nClbk.c *)
(* use: counts and sizes, total size, buffer, tokens; and tokens, sizes,   *)
(* ends of lists.  Wire is the reference: what the protocol puts on the    *)
(* wire, computed from the contents without any frame manager.             *)
(*                                                                         *)
(* A message's shape tells the size of each BARRAY and the rounds of each  *)
(* list.  The field before a BARRAY holds its size, any other data a       *)
(* number of its own: 16 times that of its frame, plus the slot.           *)
(***************************************************************************)
EXTENDS Frames, FiniteSets

CONSTANTS Templates,  \* the templates under test
          Sizes,      \* bytes of a BARRAY
          Counts,     \* rounds of a list
          Unread      \* templates no one reads back: no size or count in them

VARIABLES frame,  \* the template of the message
          shape,  \* its contents
          wire,   \* its bytes, by the reference definition
          phase,  \* "prepare", "put", "read" or "again"
          todo,   \* calls still to be made
          fm,     \* the frame manager
          got     \* tokens read so far

vars == <<frame, shape, wire, phase, todo, fm, got>>

-----------------------------------------------------------------------------
Repeated(f, i) == i > 1 /\ f[i - 1].type = "ITER"
Starts(f) == SelectSeq([i \in DOMAIN f |-> i],
                       LAMBDA i : ~Repeated(f, i) /\ f[i].type # "PTR_ITEM")

RECURSIVE Shapes(_)
Shapes(f) ==
    LET of(i) == CASE f[i].type = "BARRAY" -> Sizes
                   [] f[i].type = "POINTER" -> Shapes(f[i + 1].frame)
                   [] f[i].type = "ITER" ->
                        LET round == IF f[i + 1].type = "POINTER"
                                     THEN Shapes(f[i + 2].frame) ELSE {<<>>}
                        IN  UNION {[1 .. n -> round] : n \in Counts}
        extend(all, i) == IF f[i].type \in Compound
                          THEN {(i :> v) @@ s : s \in all, v \in of(i)} ELSE all
    IN  FoldLeft(extend, {<<>>}, Starts(f))

LastN(seq, n) == SubSeq(seq, Len(seq) - n + 1, Len(seq))

Field(size, data, kind) == [size |-> size, data |-> data, kind |-> kind]
Total(fields) == FoldLeft(LAMBDA n, field : n + field.size, 0, fields)

(* The fields of the frame with number no, paddings included.               *)
RECURSIVE Wire(_, _, _), SlotWire(_, _, _, _)
SlotWire(f, s, no, i) ==
    LET earlier == SelectSeq(Starts(f), LAMBDA j : j < i)
        padded == LastN(earlier, f[i].number)
    IN  CASE f[i].type = "BIT" ->
               <<IF f[i + 1].type = "BARRAY" THEN Field(f[i].size, s[i + 1], "length")
                 ELSE Field(f[i].size, 16 * no + i, "data")>>
          [] f[i].type = "COUNTER" ->
               LET list == SlotWire(f, s, no, i + f[i].offset)
               IN  <<Field(f[i].size, IF f[i].bytes THEN Total(list)
                                      ELSE Len(s[i + f[i].offset]), "counter")>>
          [] f[i].type = "BARRAY" ->
               <<Field(s[i], IF s[i] = 0 THEN Null ELSE 16 * no + i, "array")>>
          [] f[i].type = "PADDING" ->
               LET n == FoldLeft(LAMBDA sum, j : sum + Total(SlotWire(f, s, no, j)), 0, padded)
               IN  <<Field((-n) % f[i].unit, 0, "pad")>>
          [] f[i].type = "POINTER" -> Wire(f[i + 1].frame, s[i], 16 * no + i)
          [] f[i].type = "ITER" ->
               FlattenSeq([k \in DOMAIN s[i] |->
                  IF f[i + 1].type = "POINTER"
                  THEN Wire(f[i + 2].frame, s[i][k], 16 * (16 * no + i) + k)
                  ELSE <<Field(f[i + 1].size, 16 * (16 * no + i) + k, "data")>>])
          [] OTHER -> <<>>

Wire(f, s, no) ==
    FlattenSeq([k \in DOMAIN Starts(f) |-> SlotWire(f, s, no, Starts(f)[k])])

(* The fields with their offsets, and what follows the last one. *)
Placed(fields) == [k \in DOMAIN fields |->
                      [at |-> Total(SubSeq(fields, 1, k - 1)), field |-> fields[k]]]
Tokens == SelectSeq(wire, LAMBDA field : field.kind # "pad")

(* The calls before writing: the count of each list, then its sizes.        *)
Call(op, n) == [op |-> op, n |-> n]

RECURSIVE Preparation(_, _)
Preparation(f, s) ==
    FlattenSeq([k \in DOMAIN Starts(f) |->
        LET i == Starts(f)[k]
        IN  CASE f[i].type = "BARRAY" -> <<Call("size", s[i])>>
              [] f[i].type = "POINTER" -> Preparation(f[i + 1].frame, s[i])
              [] f[i].type = "ITER" ->
                    <<Call("count", Len(s[i]))>>
                    \o (IF f[i + 1].type = "POINTER"
                        THEN FlattenSeq([r \in DOMAIN s[i] |-> Preparation(f[i + 2].frame, s[i][r])])
                        ELSE <<>>)
              [] OTHER -> <<>>])

(* The calls of a reader, who knows the template only.                      *)
Loop(body) == [op |-> "loop", body |-> body]
Token == [op |-> "token"]

RECURSIVE Script(_)
Script(f) ==
    FlattenSeq([k \in DOMAIN Starts(f) |->
        LET i == Starts(f)[k]
        IN  CASE f[i].type \in {"BIT", "COUNTER"} -> <<Token>>
              [] f[i].type = "BARRAY" -> <<[op |-> "array"]>>
              [] f[i].type = "POINTER" -> Script(f[i + 1].frame)
              [] f[i].type = "ITER" -> <<Loop(IF f[i + 1].type = "POINTER"
                                              THEN Script(f[i + 2].frame) ELSE <<Token>>)>>
              [] OTHER -> <<>>])

Init == /\ frame \in Templates
        /\ shape \in Shapes(frame)
        /\ wire = Wire(frame, shape, 0)
        /\ phase = "prepare"
        /\ todo = Preparation(frame, shape)
        /\ fm = FrameMgrInit(frame, <<>>, NO_VALUE)
        /\ got = <<>>

-----------------------------------------------------------------------------
Prepare == /\ phase = "prepare" /\ todo # <<>>
           /\ fm' = IF Head(todo).op = "count" THEN FrameMgrSetIterCount(fm, Head(todo).n)
                    ELSE FrameMgrSetSize(fm, Head(todo).n)
           /\ todo' = Tail(todo)
           /\ UNCHANGED <<frame, shape, wire, phase, got>>

Allocate == /\ phase = "prepare" /\ todo = <<>>
            /\ fm' = FrameMgrSetBuffer(fm, FrameMgrGetTotalSize(fm))
            /\ phase' = "put"
            /\ todo' = SelectSeq(Tokens, LAMBDA field : field.kind # "counter")
            /\ UNCHANGED <<frame, shape, wire, got>>

(* The length of a string is asked of the frame manager.                    *)
Put == /\ phase = "put" /\ todo # <<>>
       /\ fm' = FrameMgrPutToken(fm, IF Head(todo).kind = "length" THEN FrameMgrGetSize(fm)
                                     ELSE Head(todo).data).fm
       /\ todo' = Tail(todo)
       /\ UNCHANGED <<frame, shape, wire, phase, got>>

(* No reader is asked for a list that its counter says is empty: the frame  *)
(* manager hands out a first round all the same.                            *)
NoEmptyList == \A field \in Range(wire) : field.kind = "counter" => field.data # 0

Receive == /\ phase = "put" /\ todo = <<>>
           /\ frame \notin Unread /\ NoEmptyList
           /\ fm' = FrameMgrInit(frame, fm.area, fm.limit)
           /\ phase' = "read"
           /\ todo' = Script(frame)
           /\ UNCHANGED <<frame, shape, wire, got>>

Reading == phase \in {"read", "again"} /\ todo # <<>>

Get == /\ Reading /\ Head(todo).op \in {"token", "array"}
       /\ LET sized == IF Head(todo).op = "array" THEN FrameMgrSetSize(fm, Last(got)) ELSE fm
              r == FrameMgrGetToken(sized)
          IN  fm' = r.fm /\ got' = Append(got, r.data)
       /\ todo' = Tail(todo)
       /\ UNCHANGED <<frame, shape, wire, phase>>

LoopEnd == /\ Reading /\ Head(todo).op = "loop"
           /\ LET r == FrameMgrIsIterLoopEnd(fm)
              IN  /\ fm' = r.fm
                  /\ todo' = IF r.end THEN Tail(todo) ELSE Head(todo).body \o todo
           /\ UNCHANGED <<frame, shape, wire, phase, got>>

Reset == /\ phase = "read" /\ todo = <<>>
         /\ fm' = FrameMgrReset(fm)
         /\ phase' = "again"
         /\ todo' = Script(frame)
         /\ got' = <<>>
         /\ UNCHANGED <<frame, shape, wire>>

Next == Prepare \/ Allocate \/ Put \/ Receive \/ Get \/ LoopEnd \/ Reset

Spec == Init /\ [][Next]_vars

-----------------------------------------------------------------------------
(* Properties. *)

(* The size computed before the buffer is allocated covers every token and  *)
(* padding put into it later, and it is the message's.  The bytes written   *)
(* are those of the protocol: counters filled in before their list is put,  *)
(* paddings of the right sizes.  A counter of 0 after the last token is never put: the *)
(* buffer was cleared.  Messages are whole words, and fields of two and     *)
(* four bytes are aligned, which lets the reader fetch them through a       *)
(* CARD16 or CARD32 pointer.                                                *)
WritesTheMessage ==
    /\ phase # "prepare" => fm.idx <= fm.limit
    /\ phase = "put" /\ todo = <<>> =>
          /\ fm.limit = Total(wire)
          /\ fm.limit % 4 = 0
          /\ \A p \in Range(Placed(wire)) :
                p.field.kind # "pad" /\ p.field.size # 0 =>
                   IF p.at \in DOMAIN fm.area
                   THEN fm.area[p.at] = [size |-> p.field.size, data |-> p.field.data]
                   ELSE p.field.data = 0
          /\ \A p \in Range(Placed(wire)) :
                p.field.kind \notin {"pad", "array"} => p.at % p.field.size = 0

(* A reader that loops until the end of each list gets the tokens written,  *)
(* each once and in order, ends each loop where its list ends, though only  *)
(* bytes are counted, and can start all over.                               *)
ReadsTheMessage ==
    phase \in {"read", "again"} =>
        /\ IsPrefix(got, [k \in DOMAIN Tokens |-> Tokens[k].data])
        /\ todo = <<>> => Len(got) = Len(Tokens) /\ fm.iters = <<>>
=============================================================================
