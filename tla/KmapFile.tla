------------------------------- MODULE KmapFile -------------------------------
(***************************************************************************)
(* Reading a keyboard map file (src/kmap.c): load_kmap reads the file by   *)
(* the buffer, takes whole lines from it, gives back what is left of a     *)
(* line and reads again; get_line and clean find the two sides of a line.  *)
(*                                                                         *)
(* A character is its code.  The file is what an author meant, a sequence  *)
(* of lines of the kinds that doc/HOWTO-keymap.txt describes, written out  *)
(* as text; what is loaded is compared with what was meant.                *)
(***************************************************************************)
EXTENDS Integers, SequencesExt, FiniteSetsExt

CONSTANTS Files,       \* the files an author writes, sequences of lines
          EndsInLine,  \* whether the last line has a newline, a set of BOOLEAN
          BufferSize   \* characters read at a time, 1024 in the code

VARIABLES file,      \* the lines of the file
          text,      \* their text
          pos,       \* the file offset
          buf,       \* what was read and is not eaten
          state,     \* "reading", "eating" or "closed"
          before, after,  \* the static arrays of get_line
          loaded,      \* *seq and *conv
          offs,      \* offsets of the parts, and
          parts,     \* how many were begun
          multi      \* the first line announced parts

vars == <<file, text, pos, buf, state, before, after, loaded, offs, parts, multi>>

-----------------------------------------------------------------------------
(* Lines.  A map has two sides, each written in some way and meaning some code *)
(* points; the other lines are comments, the announcement of parts and their   *)
(* beginning and end.                                                          *)
NEWLINE == 10
BLANK == 32
QUOTE == 34
PLUS == 43
SLASH == 47
ZERO == 48
EQUALS == 61
BACKSLASH == 92
BEGIN == <<98, 101, 103, 105, 110>>
END == <<101, 110, 100>>

Quoted(str) == <<QUOTE>> \o str \o <<QUOTE>>
Written(l) ==
    CASE l.kind = "map" -> Quoted(l.left.written \o <<EQUALS>> \o l.right.written) \o l.comment
      [] l.kind = "comment" -> l.comment
      [] l.kind = "parts" -> Quoted(<<107, PLUS, 109>>)
      [] l.kind = "begin" -> Quoted(BEGIN \o <<BLANK, 107>>)
      [] l.kind = "end" -> Quoted(END \o <<BLANK, 107>>)
Text(f, ends) ==
    LET all == FlattenSeq([k \in DOMAIN f |-> Written(f[k]) \o <<NEWLINE>>])
    IN  IF ends \/ all = <<>> THEN all ELSE Front(all)

Init == /\ file \in Files
        /\ \E ends \in EndsInLine : text = Text(file, ends)
        /\ pos = 0 /\ buf = <<>>
        /\ state = "reading"
        /\ before = <<0>> /\ after = <<0>>
        /\ loaded = <<>> /\ offs = <<0, 0, 0, 0, 0>> /\ parts = 0 /\ multi = FALSE

-----------------------------------------------------------------------------
(* An array keeps what was written behind the end of its string. *)
Store(bus, b, u) == [i \in 1 .. Max({Len(bus), b + 1}) |-> IF i = b + 1 THEN u ELSE bus[i]]
String(bus) == SubSeq(bus, 1, Min({i \in DOMAIN bus : bus[i] = 0} \cup {Len(bus) + 1}) - 1)

from_hex(p) == IF p \in 48 .. 57 THEN p - 48
               ELSE IF p \in 65 .. 70 THEN p - 55
               ELSE IF p \in 97 .. 102 THEN p - 87 ELSE 16
IsX(p) == p \in {88, 120}

(* A side of a line: the array, where it is written, the flags and the number. *)
Flag(w, off, on) == [w EXCEPT !.st = (@ \ off) \cup on]
Number(w, off, on, u) == [Flag(w, off, on) EXCEPT !.u = u]
Put(w, u) == [w EXCEPT !.bus = Store(@, w.b, u), !.b = @ + 1]
Terminate(w) == [w EXCEPT !.bus = Store(@, w.b, 0)]

(* A number goes on with a digit of its base; anything else ends it. *)
Digit(w, flag, base, p) ==
    IF from_hex(p) < base THEN [w EXCEPT !.u = base * @ + from_hex(p)]
    ELSE Put(Flag(w, {flag}, {}), w.u)

Within(w, p) ==
    CASE "HEX_OCT" \in w.st ->
            IF from_hex(p) < 8 THEN Number(w, {"HEX_OCT"}, {"OCT"}, from_hex(p))
            ELSE IF IsX(p) THEN Number(w, {"HEX_OCT"}, {"HEX"}, 0)
            ELSE Put(Flag(w, {"HEX_OCT"}, {}), ZERO)
      [] "HEX" \in w.st -> Digit(w, "HEX", 16, p)
      [] "OCT" \in w.st -> Digit(w, "OCT", 8, p)
      [] "DEC" \in w.st -> Digit(w, "DEC", 10, p)
      [] "ESCAPE" \in w.st ->
            IF p = ZERO THEN Number(w, {"ESCAPE"}, {"OCT"}, 0)
            ELSE IF IsX(p) THEN Number(w, {"ESCAPE"}, {"HEX"}, 0)
            ELSE IF from_hex(p) < 16 THEN Number(w, {"ESCAPE"}, {"DEC"}, from_hex(p))
            ELSE Put(Number(w, {"ESCAPE"}, {}, 0), p)
      [] OTHER -> w

Outside(w, p) ==
    IF p = QUOTE THEN [Terminate(w) EXCEPT !.st = {}]
    ELSE IF p = EQUALS THEN Terminate(Flag(w, {"QUOTE"}, {"AFTER_E"}))
    ELSE IF p = ZERO THEN Flag(w, {}, {"HEX_OCT"})
    ELSE IF from_hex(p) < 10 THEN Number(w, {}, {"DEC"}, from_hex(p))
    ELSE IF p = BACKSLASH THEN Flag(w, {}, {"ESCAPE"})
    ELSE IF p # BLANK THEN Put(w, p) ELSE w

(* Mutant: the character that ends a number is lost. *)
clean_eats(w, p) ==
    IF w.st \cap {"HEX", "OCT", "DEC", "HEX_OCT", "ESCAPE"} # {} THEN Within(w, p)
    ELSE Outside(w, p)

(* What ends a number is looked at again, what follows an escape is not. *)
clean(w, p) ==
    LET v == Within(w, p)
    IN  IF v.st \cap {"HEX", "OCT", "DEC"} = {} /\ "ESCAPE" \notin w.st THEN Outside(v, p) ELSE v

Character(g, p) ==
    LET side == IF "QUOTE" \in g.st THEN "before" ELSE "after"
        w == clean([bus |-> g[side].bus, b |-> g[side].b, st |-> g.st, u |-> g.u], p)
    IN  IF g.st \cap {"QUOTE", "AFTER_E"} # {}
        THEN [g EXCEPT ![side] = [bus |-> w.bus, b |-> w.b], !.st = w.st, !.u = w.u]
        ELSE IF "COMMENT" \in g.st THEN g
        ELSE [g EXCEPT !.st = @ \cup (IF p = QUOTE THEN {"QUOTE"}
                                      ELSE IF p = SLASH THEN {"COMMENT"} ELSE {})]

(* The line at the beginning of a text, without its newline. *)
Line(str) == SubSeq(str, 1, Min({i \in DOMAIN str : str[i] = NEWLINE} \cup {Len(str) + 1}) - 1)
(* The set of one element makes TLC compute each character once. *)
Next_character(g, p) == CHOOSE h \in {Character(f, p) : f \in {g}} : TRUE
Scan(g, str) == FoldLeft(Next_character, g, str)

get_line(str) ==
    Scan([before |-> [bus |-> Store(before, 0, 0), b |-> 0],
          after |-> [bus |-> Store(after, 0, 0), b |-> 0], st |-> {}, u |-> 0], Line(str))

-----------------------------------------------------------------------------
strstr(str, sub) == \E i \in 0 .. Len(str) - Len(sub) : SubSeq(str, i + 1, i + Len(sub)) = sub

(* Mutant: a part begins behind its first line. *)
TakeBehind(l, r) ==
    IF ~multi /\ loaded = <<>> /\ strstr(l, <<PLUS>>) /\ r = <<>>
    THEN multi' = TRUE /\ UNCHANGED <<loaded, offs, parts>>
    ELSE /\ UNCHANGED multi
         /\ IF multi /\ r = <<>> /\ strstr(l, BEGIN)
            THEN /\ offs' = IF parts < 5 THEN [offs EXCEPT ![parts + 1] = Len(loaded) + 1] ELSE offs
                 /\ parts' = parts + 1
                 /\ UNCHANGED loaded
            ELSE /\ UNCHANGED <<offs, parts>>
                 /\ loaded' = IF (multi /\ r = <<>> /\ strstr(l, END)) \/ (l = <<>> /\ r = <<>>)
                            THEN loaded ELSE Append(loaded, [s |-> l, c |-> r])

(* What load_kmap does with the two sides of a line. *)
Take(l, r) ==
    IF ~multi /\ loaded = <<>> /\ strstr(l, <<PLUS>>) /\ r = <<>>
    THEN multi' = TRUE /\ UNCHANGED <<loaded, offs, parts>>
    ELSE /\ UNCHANGED multi
         /\ IF multi /\ r = <<>> /\ strstr(l, BEGIN)
            THEN /\ offs' = IF parts < 5 THEN [offs EXCEPT ![parts + 1] = Len(loaded)] ELSE offs
                 /\ parts' = parts + 1
                 /\ UNCHANGED loaded
            ELSE /\ UNCHANGED <<offs, parts>>
                 /\ loaded' = IF (multi /\ r = <<>> /\ strstr(l, END)) \/ (l = <<>> /\ r = <<>>)
                            THEN loaded ELSE Append(loaded, [s |-> l, c |-> r])

Read == /\ state = "reading"
        /\ buf' = SubSeq(text, pos + 1, Min({pos + BufferSize, Len(text)}))
        /\ pos' = pos + Len(buf')
        /\ state' = IF buf' = <<>> THEN "closed" ELSE "eating"
        /\ UNCHANGED <<file, text, before, after, loaded, offs, parts, multi>>

Eat == /\ state = "eating"
       /\ NEWLINE \in Range(buf)
       /\ LET g == get_line(buf)
          IN  /\ before' = g.before.bus
              /\ after' = g.after.bus
              /\ Take(String(before'), String(after'))
       /\ buf' = SubSeq(buf, Len(Line(buf)) + 2, Len(buf))
       /\ UNCHANGED <<file, text, pos, state>>

(* Mutant: a whole buffer is given back. *)
GiveBackBuffer ==
    /\ state = "eating"
    /\ NEWLINE \notin Range(buf)
    /\ LET g == get_line(buf) IN before' = g.before.bus /\ after' = g.after.bus
    /\ pos' = Max({pos - BufferSize, 0})
    /\ buf' = <<>>
    /\ state' = "reading"
    /\ UNCHANGED <<file, text, loaded, offs, parts, multi>>

(* No newline is left: get_line gives 0, and lseek takes back what was not eaten. *)
GiveBack ==
    /\ state = "eating"
    /\ NEWLINE \notin Range(buf)
    /\ LET g == get_line(buf) IN before' = g.before.bus /\ after' = g.after.bus
    /\ pos' = pos - Len(buf)
    /\ buf' = <<>>
    /\ state' = "reading"
    /\ UNCHANGED <<file, text, loaded, offs, parts, multi>>

Next == Read \/ Eat \/ GiveBack

-----------------------------------------------------------------------------
(* Properties. *)

Maps(f) == SelectSeq(f, LAMBDA l : l.kind = "map")
Meant(f) == [k \in DOMAIN Maps(f) |-> [s |-> Maps(f)[k].left.means, c |-> Maps(f)[k].right.means]]
Begun(f) == {k \in DOMAIN f : f[k].kind = "begin"}
OffsMeant ==
    [p \in 1 .. 5 |->
        LET at == {k \in Begun(file) : Cardinality({j \in Begun(file) : j <= k}) = p}
        IN  IF at = {} THEN 0 ELSE Len(Maps(SubSeq(file, 1, Min(at))))]

(* Wherever the buffer ends, each line is taken once and in order, and means what
   its author wrote: escapes, octal, decimal and hexadecimal numbers, blanks and
   comments; the parts begin where the author began them (doc/HOWTO-keymap.txt:10-45,
   kmap.c:57-250). *)
LoadedIsMeant == /\ IsPrefix(loaded, Meant(file))
                 /\ state = "closed" => loaded = Meant(file) /\ offs = OffsMeant

(* load_kmap comes to the end of the file. *)
Loaded == <>(state = "closed")
=============================================================================
