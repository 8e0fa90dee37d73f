------------------------------ MODULE FrameMgr ------------------------------
(***************************************************************************)
(* The frame manager (IMdkit/FrameMgr.c): it writes and reads the messages *)
(* of the protocol along templates, the tables of i18nIMProto.c.           *)
(*                                                                         *)
(* A template is a sequence of slots, numbered from 1; _FRAME(POINTER) and *)
(* its _PTR are two slots, an ITER and the slot it repeats too.  A FrameMgr*)
(* is a value: each operation takes one and returns the next one.  The     *)
(* area is the set of fields written so far, each at its offset: a read    *)
(* that does not fall on a field of its width gets Garbage, whatever was   *)
(* in memory there.  Both sides swap bytes alike, so swapping is left out. *)
(*                                                                         *)
(* Recursive operators: only model-checked, see the README.                *)
(***************************************************************************)
EXTENDS Integers, Sequences, SequencesExt

CONSTANTS Garbage,    \* what a read outside of the message finds
          Null        \* the pointer a BARRAY of no bytes gives

NO_VALUE == -1
NO_VALID_FIELD == -2

-----------------------------------------------------------------------------
(* Slots.  A counter tells the bytes or the number of the list offset slots *)
(* after it; a padding fills the n items before it to a multiple of unit.   *)
Bit(w) == [type |-> "BIT", size |-> w]
ByteCounter(w, n) == [type |-> "COUNTER", size |-> w, offset |-> n, bytes |-> TRUE]
NumberCounter(w, n) == [type |-> "COUNTER", size |-> w, offset |-> n, bytes |-> FALSE]
Barray == [type |-> "BARRAY"]
Iter == [type |-> "ITER"]
Pointer == [type |-> "POINTER"]
Ptr(frame) == [type |-> "PTR_ITEM", frame |-> frame]
Pad(unit, n) == [type |-> "PADDING", unit |-> unit, number |-> n]
Eol == [type |-> "EOL"]

Compound == {"BARRAY", "ITER", "POINTER"}

(* An instance of a template, and an iteration over the slot that follows   *)
(* an ITER; cm holds the extra data of a slot, or of a round: the size of a *)
(* BARRAY, the Iter of an ITER, the FrameInst of a POINTER.                 *)
FrameInstInit(frame) == [template |-> frame, cur_no |-> 1, cm |-> <<>>]

IterInit(frame, count) == [template |-> frame,
                           max_count |-> IF count = NO_VALUE THEN 0 ELSE count,
                           allow_expansion |-> count = NO_VALUE,
                           cur_no |-> 0, cm |-> <<>>, start_counter |-> FALSE]

(* The first entry of a chain wins over later ones. *)
ChainMgrSetData(cm, i, d) == cm @@ (i :> d)

(* The extra data with index i of slot n, the one just made if there is none. *)
ChainMgrGetExtraData(template, cm, n, i) ==
    IF i \in DOMAIN cm THEN cm[i]
    ELSE CASE template[n].type = "ITER" ->
                IterInit(SubSeq(template, n + 1, Len(template)), NO_VALUE)
           [] template[n].type = "POINTER" -> FrameInstInit(template[n + 1].frame)
           [] OTHER -> NO_VALUE

InstData(fi, i) == ChainMgrGetExtraData(fi.template, fi.cm, i, i)
IterData(it, i) == ChainMgrGetExtraData(it.template, it.cm, 1, i)
Store(node, i, d) == [node EXCEPT !.cm = (i :> d) @@ @]

RECURSIVE Increment(_, _)
Increment(frame, i) == CASE frame[i].type = "POINTER" -> i + 2
                         [] frame[i].type = "ITER" -> Increment(frame, i + 1)
                         [] frame[i].type = "EOL" -> 0
                         [] OTHER -> i + 1

(* Mutant: the slot before is the item before. *)
DecrementSlot(frame, i) == i - 1

(* The item before slot i, looked up two slots back. *)
Decrement(frame, i) ==
    IF i <= 2 THEN i - 1
    ELSE CASE frame[i - 2].type \in {"POINTER", "ITER"} ->
                SelectLastInSubSeq(frame, 1, i - 3, LAMBDA s : s.type # "ITER") + 1
           [] frame[i - 2].type = "EOL" -> 0
           [] OTHER -> i - 1

-----------------------------------------------------------------------------
(* Sizes. *)

RECURSIVE ItemSize(_, _), FrameInstGetTotalSize(_), IterGetTotalSize(_),
          Before(_, _, _)

(* The bytes of the n items before slot i. *)
Before(fi, i, n) ==
    IF n = 0 THEN 0
    ELSE LET j == Decrement(fi.template, i)
         IN  ItemSize(fi, j) + Before(fi, j, n - 1)

PadSize(fi, i) == LET pad == fi.template[i]
                  IN  (-Before(fi, i, pad.number)) % pad.unit

(* _FrameInstGetItemSize.  A list or frame nobody gave data has no size.    *)
ItemSize(fi, i) ==
    CASE fi.template[i].type \in {"BIT", "COUNTER"} -> fi.template[i].size
      [] fi.template[i].type = "PADDING" -> PadSize(fi, i)
      [] fi.template[i].type \in Compound /\ i \notin DOMAIN fi.cm -> NO_VALUE
      [] fi.template[i].type = "BARRAY" -> fi.cm[i]
      [] fi.template[i].type = "ITER" -> IterGetTotalSize(fi.cm[i])
      [] fi.template[i].type = "POINTER" -> FrameInstGetTotalSize(fi.cm[i])
      [] OTHER -> NO_VALUE

FrameInstGetTotalSize(fi) ==
    LET from[i \in 1 .. Len(fi.template)] ==
            IF fi.template[i].type = "EOL" THEN 0
            ELSE ItemSize(fi, i) + from[Increment(fi.template, i)]
    IN  from[1]

IterGetTotalSize(it) ==
    LET kind == it.template[1]
        part(i) == CASE kind.type = "BARRAY" -> IterData(it, i)
                     [] kind.type = "POINTER" -> FrameInstGetTotalSize(IterData(it, i))
                     [] i \notin DOMAIN it.cm -> NO_VALUE
                     [] OTHER -> IterGetTotalSize(it.cm[i])
        rounds == 0 .. it.max_count - 1
    IN  CASE it.allow_expansion -> NO_VALUE
          [] kind.type = "BIT" -> it.max_count * kind.size
          [] \E i \in rounds : part(i) = NO_VALUE -> NO_VALUE
          [] OTHER -> MapThenSumSet(part, rounds)

(* The number of rounds of an Iter, when it is known. *)
IterGetIterCount(it) == IF it.allow_expansion THEN NO_VALUE ELSE it.max_count

-----------------------------------------------------------------------------
(* Telling sizes and counts before writing, and sizes while reading: each   *)
(* goes to the first BARRAY, or the first list, that has none yet.          *)

Done(node) == [node |-> node, ok |-> TRUE]
NoMoreData(node) == [node |-> node, ok |-> FALSE]

RECURSIVE FrameInstSetSize(_, _, _), IterSetSize(_, _, _), PartSetSize(_, _, _),
          FrameInstSetIterCount(_, _, _), IterSetIterCount(_, _, _)

PartSetSize(type, d, num) ==
    CASE type = "BARRAY" -> IF d = NO_VALUE THEN Done(num) ELSE NoMoreData(d)
      [] type = "ITER" -> IterSetSize(d, 0, num)
      [] type = "POINTER" -> FrameInstSetSize(d, 1, num)

(* From slot i on. *)
FrameInstSetSize(fi, i, num) ==
    LET type == fi.template[i].type
        next == Increment(fi.template, i)
        part == PartSetSize(type, InstData(fi, i), num)
    IN  CASE type = "EOL" -> NoMoreData(fi)
          [] type \notin Compound -> FrameInstSetSize(fi, next, num)
          [] part.ok -> Done(Store(fi, i, part.node))
          [] OTHER -> FrameInstSetSize(Store(fi, i, part.node), next, num)

(* From round i on; a list of unknown length gets one round more. *)
IterSetSize(it, i, num) ==
    LET type == it.template[1].type
        part == PartSetSize(type, IterData(it, i), num)
        more == PartSetSize(type, IterData([it EXCEPT !.cm = <<>>], i), num)
    IN  CASE type \notin Compound -> NoMoreData(it)
          [] i < it.max_count /\ part.ok -> Done(Store(it, i, part.node))
          [] i < it.max_count -> IterSetSize(Store(it, i, part.node), i + 1, num)
          [] it.allow_expansion ->
                [node |-> [it EXCEPT !.max_count = @ + 1,
                                     !.cm = ChainMgrSetData(@, i, more.node)],
                 ok |-> more.ok]
          [] OTHER -> NoMoreData(it)

FrameInstSetIterCount(fi, i, num) ==
    LET type == fi.template[i].type
        next == Increment(fi.template, i)
        part == IF type = "ITER" THEN IterSetIterCount(InstData(fi, i), 0, num)
                ELSE FrameInstSetIterCount(InstData(fi, i), 1, num)
    IN  CASE type = "EOL" -> NoMoreData(fi)
          [] type \notin {"ITER", "POINTER"} -> FrameInstSetIterCount(fi, next, num)
          [] part.ok -> Done(Store(fi, i, part.node))
          [] OTHER -> FrameInstSetIterCount(Store(fi, i, part.node), next, num)

(* A list whose length is known passes the count on to its own lists. *)
IterSetIterCount(it, i, num) ==
    LET type == it.template[1].type
        part == IF type = "ITER" THEN IterSetIterCount(IterData(it, i), 0, num)
                ELSE FrameInstSetIterCount(IterData(it, i), 1, num)
    IN  CASE it.allow_expansion ->
                Done([it EXCEPT !.max_count = num, !.allow_expansion = FALSE])
          [] i >= it.max_count \/ type \notin {"ITER", "POINTER"} -> NoMoreData(it)
          [] part.ok -> Done(Store(it, i, part.node))
          [] OTHER -> IterSetIterCount(Store(it, i, part.node), i + 1, num)

(* The size of the next BARRAY, from the current slot on. *)
RECURSIVE FrameInstGetSize(_, _), IterGetSize(_, _)
FrameInstGetSize(fi, i) ==
    LET type == fi.template[i].type
        size == CASE type = "BARRAY" -> InstData(fi, i)
                  [] type = "ITER" -> IterGetSize(InstData(fi, i), InstData(fi, i).cur_no)
                  [] type = "POINTER" -> FrameInstGetSize(InstData(fi, i), InstData(fi, i).cur_no)
                  [] OTHER -> NO_VALID_FIELD
    IN  CASE type = "EOL" -> NO_VALID_FIELD
          [] size # NO_VALID_FIELD -> size
          [] OTHER -> FrameInstGetSize(fi, Increment(fi.template, i))

IterGetSize(it, i) ==
    LET type == it.template[1].type
        size == CASE type = "ITER" -> IterGetSize(IterData(it, i), IterData(it, i).cur_no)
                  [] type = "POINTER" -> FrameInstGetSize(IterData(it, i), IterData(it, i).cur_no)
                  [] OTHER -> NO_VALID_FIELD
    IN  CASE i >= it.max_count -> NO_VALID_FIELD
          [] type = "BARRAY" -> IterData(it, i)
          [] size # NO_VALID_FIELD -> size
          [] OTHER -> IterGetSize(it, i + 1)

-----------------------------------------------------------------------------
(* Walking the template: the next primitive, an ITER or POINTER never is.   *)

Found(node, info) == [node |-> node, info |-> info]

(* The list a counter at slot i tells about. *)
CounterInfo(fi, i) ==
    [type |-> "COUNTER", size |-> fi.template[i].size,
     bytes |-> fi.template[i].bytes, iter |-> i + fi.template[i].offset]

SlotInfo(fi, i) ==
    CASE fi.template[i].type = "COUNTER" -> CounterInfo(fi, i)
      [] fi.template[i].type = "BARRAY" -> [type |-> "BARRAY", num |-> InstData(fi, i)]
      [] fi.template[i].type = "PADDING" -> [type |-> "PADDING", num |-> PadSize(fi, i)]
      [] OTHER -> fi.template[i]

RECURSIVE FrameInstGetNextType(_), IterGetNextType(_)
FrameInstGetNextType(fi) ==
    LET i == fi.cur_no
        type == fi.template[i].type
        past(f) == [f EXCEPT !.cur_no = Increment(fi.template, i)]
        part == IF type = "ITER" THEN IterGetNextType(InstData(fi, i))
                ELSE FrameInstGetNextType(InstData(fi, i))
        list == CounterInfo(fi, i).iter
    IN  CASE type = "COUNTER" ->
                Found(past(Store(fi, list, InstData(fi, list))), SlotInfo(fi, i))
          [] type \notin {"ITER", "POINTER"} -> Found(past(fi), SlotInfo(fi, i))
          [] part.info.type = "EOL" -> FrameInstGetNextType(past(Store(fi, i, part.node)))
          [] OTHER -> Found(Store(fi, i, part.node), part.info)

(* start_counter falls: the watch of the list's counter starts.             *)
IterGetNextType(it) ==
    LET i == it.cur_no
        type == it.template[1].type
        open == [it EXCEPT !.start_counter = FALSE,
                           !.max_count = IF i >= @ THEN i + 1 ELSE @]
        past(t) == [t EXCEPT !.cur_no = @ + 1]
        part == IF type = "ITER" THEN IterGetNextType(IterData(it, i))
                ELSE FrameInstGetNextType(IterData(it, i))
    IN  CASE i >= it.max_count /\ ~it.allow_expansion ->
                Found([it EXCEPT !.start_counter = FALSE], Eol)
          [] type = "BIT" -> Found(past(open), it.template[1])
          [] type = "BARRAY" -> Found(past(open), [type |-> "BARRAY", num |-> IterData(it, i)])
          [] part.info.type = "EOL" -> IterGetNextType(past(Store(open, i, part.node)))
          [] OTHER -> Found(Store(open, i, part.node), part.info)

(* The next primitive, left in place.  Where the code calls itself without  *)
(* having moved, on a list or frame that has ended, it never returns.       *)
Endless == [type |-> "ENDLESS"]

RECURSIVE FrameInstPeekNextType(_), IterPeekNextType(_)
FrameInstPeekNextType(fi) ==
    LET i == fi.cur_no
        type == fi.template[i].type
        part == IF type = "ITER" THEN IterPeekNextType(InstData(fi, i))
                ELSE FrameInstPeekNextType(InstData(fi, i))
    IN  CASE type \notin {"ITER", "POINTER"} -> SlotInfo(fi, i)
          [] part.type = "EOL" -> Endless
          [] OTHER -> part

IterPeekNextType(it) ==
    LET i == it.cur_no
        type == it.template[1].type
        part == IF type = "ITER" THEN IterPeekNextType(IterData(it, i))
                ELSE FrameInstPeekNextType(IterData(it, i))
    IN  CASE i >= it.max_count /\ ~it.allow_expansion -> Eol
          [] type = "BIT" -> it.template[1]
          [] type = "BARRAY" -> [type |-> "BARRAY", num |-> IterData(it, i)]
          [] part.type = "EOL" -> Endless
          [] OTHER -> part

(* Whether a list has ended; myself tells that it is this one and not one   *)
(* inside of it.  A round is over when its frame is.                        *)
RECURSIVE FrameInstIsIterLoopEnd(_), IterIsLoopEnd(_)
FrameInstIsIterLoopEnd(fi) ==
    LET i == fi.cur_no
        part == IterIsLoopEnd(fi.cm[i])
        next == Store(fi, i, part.node)
    IN  IF fi.template[i].type # "ITER" \/ i \notin DOMAIN fi.cm
        THEN [node |-> fi, end |-> FALSE]
        ELSE [node |-> IF part.end /\ part.myself
                       THEN [next EXCEPT !.cur_no = Increment(fi.template, i)] ELSE next,
              end |-> part.end]

IterIsLoopEnd(it) ==
    LET i == it.cur_no
        type == it.template[1].type
        AtEnd(t) == ~t.allow_expansion /\ t.cur_no = t.max_count
        part == IF type = "ITER" THEN IterIsLoopEnd(it.cm[i])
                ELSE FrameInstIsIterLoopEnd(it.cm[i])
        here == Store(it, i, part.node)
        past == [here EXCEPT !.cur_no = @ + 1]
        over == type = "POINTER" /\ ~part.end
                /\ part.node.template[part.node.cur_no].type = "EOL"
    IN  CASE AtEnd(it) -> [node |-> it, end |-> TRUE, myself |-> TRUE]
          [] type \notin {"ITER", "POINTER"} \/ i \notin DOMAIN it.cm ->
                [node |-> it, end |-> FALSE, myself |-> FALSE]
          [] over -> [node |-> past, end |-> AtEnd(past), myself |-> AtEnd(past)]
          [] OTHER -> [node |-> here, end |-> part.end, myself |-> FALSE]

(* From the start of the message again; sizes and counts stay.              *)
RECURSIVE FrameInstReset(_), IterReset(_)
FrameInstReset(fi) ==
    [fi EXCEPT !.cur_no = 1,
               !.cm = [i \in DOMAIN @ |->
                          CASE fi.template[i].type = "ITER" -> IterReset(@[i])
                            [] fi.template[i].type = "POINTER" -> FrameInstReset(@[i])
                            [] OTHER -> @[i]]]

IterReset(it) ==
    [it EXCEPT !.cur_no = 0,
               !.cm = [i \in DOMAIN @ |->
                          CASE it.template[1].type = "ITER" -> IterReset(@[i])
                            [] it.template[1].type = "POINTER" -> FrameInstReset(@[i])
                            [] OTHER -> @[i]]]

-----------------------------------------------------------------------------
(* The operations.  limit is the size of the buffer behind area, NO_VALUE   *)
(* while there is none; iters are the lists whose bytes are to be counted.  *)
(* Nobody sets a total size, skips tokens or looks at the status returned.  *)

FrameMgrInit(frame, area, limit) ==
    [fi |-> FrameInstInit(frame), area |-> area, limit |-> limit, idx |-> 0,
     iters |-> <<>>]

FrameMgrSetBuffer(fm, limit) ==
    IF fm.limit # NO_VALUE THEN fm ELSE [fm EXCEPT !.limit = limit]

FrameMgrSetSize(fm, num) == [fm EXCEPT !.fi = FrameInstSetSize(@, 1, num).node]
FrameMgrSetIterCount(fm, num) == [fm EXCEPT !.fi = FrameInstSetIterCount(@, 1, num).node]
FrameMgrGetTotalSize(fm) == FrameInstGetTotalSize(fm.fi)

FrameMgrGetSize(fm) ==
    LET size == FrameInstGetSize(fm.fi, fm.fi.cur_no)
    IN  IF size = NO_VALID_FIELD THEN NO_VALUE ELSE size

FrameMgrReset(fm) == [fm EXCEPT !.idx = 0, !.fi = FrameInstReset(@)]

Status(fm, status) == [fm |-> fm, status |-> status, data |-> Garbage]

Write(fm, size, data) ==
    [fm EXCEPT !.idx = @ + size,
               !.area = (fm.idx :> [size |-> size, data |-> data]) @@ @]

(* What a counter of this size holds of a number; no message has 2^32 bytes. *)
Truncate(n, size) == IF size < 4 THEN n % 2 ^ (8 * size) ELSE n

(* A counter, and a padding, goes before the data of the next token.        *)
RECURSIVE FrameMgrPutToken(_, _)
FrameMgrPutToken(fm, data) ==
    LET next == FrameInstGetNextType(fm.fi)
        Length(fi, info) == IF info.bytes THEN IterGetTotalSize(fi.cm[info.iter])
                            ELSE IterGetIterCount(fi.cm[info.iter])
        Counter(moved, size, n) ==
            IF n = NO_VALUE THEN Status(moved, "FmCannotCalc")
            ELSE [FrameMgrPutToken(Write(moved, size, Truncate(n, size)), data)
                     EXCEPT !.status = "FmSuccess"]
        Place(moved, info) ==
            CASE info.type = "COUNTER" -> Counter(moved, info.size, Length(moved.fi, info))
              [] info.type = "BIT" -> Status(Write(moved, info.size, data), "FmSuccess")
              [] info.type \in {"BARRAY", "PADDING"} /\ info.num = NO_VALUE ->
                    Status(moved, "FmInvalidCall")
              [] info.type = "BARRAY" ->
                    Status(IF info.num > 0 THEN Write(moved, info.num, data) ELSE moved,
                           "FmSuccess")
              [] info.type = "PADDING" ->
                    FrameMgrPutToken([moved EXCEPT !.idx = @ + info.num], data)
              [] OTHER -> Status(moved, "FmEOD")
    IN  Place([fm EXCEPT !.fi = next.node], next.info)

(* What is in memory at the current offset. *)
Peek(fm, size) ==
    IF fm.idx \in DOMAIN fm.area /\ fm.area[fm.idx].size = size
    THEN fm.area[fm.idx].data ELSE Garbage

Counting(fm, p) == ~fm.fi.cm[p.iter].start_counter

(* Mutant: a list is full one byte too late. *)
CounterIncrLate(fm, n) ==
    LET full == SelectInSeq(fm.iters, LAMBDA p : Counting(fm, p) /\ p.counter + n > p.end)
        counted(p) == IF Counting(fm, p) THEN [p EXCEPT !.counter = @ + n] ELSE p
    IN  IF full = 0 THEN [fm EXCEPT !.iters = [k \in DOMAIN @ |-> counted(@[k])]]
        ELSE [fm EXCEPT !.iters = RemoveAt(@, full),
                        !.fi.cm[fm.iters[full].iter].allow_expansion = FALSE]

(* n bytes were read: the first list that has all of its bytes gets its     *)
(* length (IterFixIteration) and is no longer watched; those after it do    *)
(* not count these bytes.                                                   *)
CounterIncr(fm, n) ==
    LET full == SelectInSeq(fm.iters, LAMBDA p : Counting(fm, p) /\ p.counter + n >= p.end)
        counted(k) == IF Counting(fm, fm.iters[k])
                      THEN [fm.iters[k] EXCEPT !.counter = @ + n] ELSE fm.iters[k]
    IN  IF full = 0 THEN [fm EXCEPT !.iters = [k \in DOMAIN @ |-> counted(k)]]
        ELSE [fm EXCEPT !.iters = RemoveAt([k \in DOMAIN @ |-> IF k < full THEN counted(k)
                                                               ELSE @[k]], full),
                        !.fi.cm[fm.iters[full].iter].allow_expansion = FALSE]

(* _FrameMgrAppendIter and IterSetStarter. *)
Watch(fm, iter, end) ==
    [fm EXCEPT !.iters = Append(@, [iter |-> iter, counter |-> 0, end |-> end]),
               !.fi.cm[iter].start_counter = TRUE]

Skip(fm, n) == CounterIncr([fm EXCEPT !.idx = @ + n], n)

RECURSIVE FrameMgrGetToken(_)
FrameMgrGetToken(fm) ==
    LET next == FrameInstGetNextType(fm.fi)
        Got(f, size) == [fm |-> Skip(f, size), status |-> "FmSuccess", data |-> Peek(f, size)]
        Take(moved, info) ==
            CASE info.type = "COUNTER" ->
                    Got(Watch(moved, info.iter, Peek(fm, info.size)), info.size)
              [] info.type = "BIT" -> Got(moved, info.size)
              [] info.type \in {"BARRAY", "PADDING"} /\ info.num = NO_VALUE ->
                    Status(moved, "FmInvalidCall")
              [] info.type = "BARRAY" ->
                    IF info.num > 0 THEN Got(moved, info.num)
                    ELSE [Status(moved, "FmSuccess") EXCEPT !.data = Null]
              [] info.type = "PADDING" -> FrameMgrGetToken(Skip(moved, info.num))
              [] OTHER -> Status(moved, "FmEOD")
    IN  Take([fm EXCEPT !.fi = next.node], next.info)

(* A padding between two rounds is read before the end is looked for again. *)
RECURSIVE FrameMgrIsIterLoopEnd(_)
FrameMgrIsIterLoopEnd(fm) ==
    LET Past(next) == Skip([fm EXCEPT !.fi = next.node], next.info.num)
        Look(part) ==
            CASE part.end -> [fm |-> [fm EXCEPT !.fi = part.node], end |-> TRUE]
              [] FrameInstPeekNextType(part.node).type = "PADDING" ->
                    FrameMgrIsIterLoopEnd(Past(FrameInstGetNextType(part.node)))
              [] OTHER -> [fm |-> [fm EXCEPT !.fi = part.node], end |-> FALSE]
    IN  Look(FrameInstIsIterLoopEnd(fm.fi))
=============================================================================
