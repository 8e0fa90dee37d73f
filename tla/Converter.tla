------------------------------ MODULE Converter ------------------------------
(***************************************************************************)
(* The input field of the converter window (src/gui.cpp): keys are         *)
(* inserted at the cursor, and what stands between start and the cursor is *)
(* replaced when it matches a line of the chosen keyboard map.             *)
(*                                                                         *)
(* A keyboard map is a list of lines, the characters typed and the code    *)
(* points they stand for.  A map may have up to five parts: a translation  *)
(* is then one line of each part, its code point the sum of theirs.        *)
(*                                                                         *)
(* A character is a number, one unit of the field; the field, the cursor   *)
(* and FLTK's editing are the library's, as far as gui.cpp relies on them. *)
(* typed and earlier are history: the keys typed since the start of        *)
(* conversion was last placed, and the text that stood before them.  The   *)
(* maps come from files: see Keyboard.                                     *)
(***************************************************************************)
EXTENDS Integers, Sequences, FiniteSetsExt, SequencesExt

CONSTANTS Char,      \* characters that keys insert
          Input,     \* the inputs 0 .. 11
          Stale,     \* what may stand in memory behind the text, a set of sequences
          MaxText    \* bound: units in the field, and keys typed in a row

ASSUME ConverterAssumption == /\ Char \subseteq Nat \ {0}
                              /\ Stale \subseteq Seq(Nat)
                              /\ MaxText \in Nat

VARIABLES value,     \* the text of the field
          position,  \* the cursor, 0 .. Len(value)
          start,     \* where the text not yet converted begins
          conv_nb,   \* the chosen input
          kmap,      \* kmap[n]: sequence[n], converter[n] and multi_offset[n]
          crashed,   \* get_matches took an index it had not written
          typed, earlier

field == <<value, position, start>>
vars == <<field, conv_nb, kmap, crashed, typed, earlier>>

NUL == 0
s(n, i) == kmap[n].lines[i + 1].s    \* lines are counted from 0
c(n, i) == kmap[n].lines[i + 1].c
nb_seq(n) == Len(kmap[n].lines)
multi_offset(n, k) == kmap[n].offset[k + 1]

NoMap == [lines |-> <<>>, offset |-> <<0, 0, 0, 0, 0>>]

Init == /\ value = <<>> /\ position = 0 /\ start = 0
        /\ conv_nb \in Input
        /\ kmap = [n \in Input |-> NoMap]
        /\ crashed = FALSE
        /\ typed = <<>> /\ earlier = <<>>

-----------------------------------------------------------------------------
(* get_matches: b is the text from start, mem what is read through b, and l  *)
(* the distance to the cursor.                                               *)
First(str) == IF str = <<>> THEN NUL ELSE str[1]
From(str, off) == SubSeq(str, off + 1, Len(str))

(* The lines of part k. *)
Last_line(k) == IF k < 4 /\ multi_offset(conv_nb, k + 1) > 0
                THEN multi_offset(conv_nb, k + 1) ELSE nb_seq(conv_nb)
Part(k) == multi_offset(conv_nb, k) .. Last_line(k) - 1

(* The lines whose first character is the one at off, of which those that begin
   like what was typed may still be meant: the candidates. *)
Begins(k, mem, off) == {i \in Part(k) : First(s(conv_nb, i)) = mem[off + 1]}
Candidates(k, mem, l, off) ==
    {i \in Begins(k, mem, off) :
        l - off < 1 \/ IsPrefix(SubSeq(mem, off + 1, l), s(conv_nb, i))}
Exact(k, mem, l, off) ==
    {i \in Candidates(k, mem, l, off) : Len(s(conv_nb, i)) = l - off}

(* Lines that the text continues, as long as no candidate was met before them. *)
Partial(k, mem, l, off) ==
    {i \in Begins(k, mem, off) \ Candidates(k, mem, l, off) :
        /\ \A j \in Candidates(k, mem, l, off) : i < j
        /\ IsPrefix(s(conv_nb, i), From(mem, off))}

(* Mutant: the first of several lines that the text continues. *)
TakenFirst(k, mem, l, off) ==
    IF Exact(k, mem, l, off) # {} THEN <<Max(Exact(k, mem, l, off))>>
    ELSE IF Partial(k, mem, l, off) # {} THEN <<Min(Partial(k, mem, l, off))>>
    ELSE <<>>

(* The line taken for a part: the last exact one, or else the last partial one. *)
Taken(k, mem, l, off) ==
    IF Exact(k, mem, l, off) # {} THEN <<Max(Exact(k, mem, l, off))>>
    ELSE IF Partial(k, mem, l, off) # {} THEN <<Max(Partial(k, mem, l, off))>>
    ELSE <<>>

NoMatch(nb) == [nb |-> nb, crashed |-> FALSE, r |-> <<>>, rem |-> 0]

(* The sum of a number of each line taken. *)
Total(f, matches) == FoldLeft(LAMBDA n, i : n + f[i], 0, matches)
Sum(matches) == Total([i \in 0 .. nb_seq(conv_nb) - 1 |-> First(c(conv_nb, i))], matches)
Lengths(matches) == Total([i \in 0 .. nb_seq(conv_nb) - 1 |-> Len(s(conv_nb, i))], matches)

(* One line: its text.  Several: one character, the sum of their first ones. *)
Converted(matches) ==
    IF Len(matches) = 1 THEN c(conv_nb, matches[1])
    ELSE IF Sum(matches) = 0 THEN <<>> ELSE <<Sum(matches)>>

(* The search: the lines taken so far, where the next part is looked for, and what
   it came to when it has ended. *)
Found(matches, l) ==
    [nb |-> 1, crashed |-> FALSE, r |-> Converted(matches), rem |-> l - Lengths(matches)]
Ended(v, m) == [v EXCEPT !.ended = TRUE, !.result = m]

(* Mutant: all lengths are added, those before for a second time. *)
BehindAgain(off, matches) == off + Lengths(matches)

(* Where the next part is looked for. *)
Behind(off, matches) == off + Len(s(conv_nb, Last(matches)))

Search(v, k, mem, l) ==
    LET n == Cardinality(Candidates(k, mem, l, v.off))
        taken == Taken(k, mem, l, v.off)
        more == v.matches \o taken
        nbm == IF n = 0 /\ taken # <<>> THEN 1 ELSE n
    IN  IF v.ended THEN v
        ELSE IF n > 10 THEN Ended(v, NoMatch(11))
        ELSE IF Last_line(k) # nb_seq(conv_nb) /\ nbm = 1 THEN
             IF more = <<>> THEN Ended(v, [NoMatch(0) EXCEPT !.crashed = TRUE])
             ELSE [v EXCEPT !.matches = more, !.off = Behind(@, more)]
        ELSE IF nbm = 1 /\ more # <<>> THEN Ended(v, Found(more, l))
        ELSE IF nbm = 1 \/ (nbm = 0 /\ k > 0 /\ mem[v.off + 1] = NUL) THEN Ended(v, NoMatch(11))
        ELSE Ended(v, NoMatch(nbm))

(* The parts one after the other; the search ends with the last of them. *)
Match(mem, l) ==
    FoldLeft(LAMBDA v, k : Search(v, k, mem, l),
             [matches |-> <<>>, off |-> 0, ended |-> FALSE, result |-> NoMatch(0)],
             <<0, 1, 2, 3, 4>>).result

get_matches(mem, l) == IF nb_seq(conv_nb) < 1 \/ l < 1 THEN NoMatch(0) ELSE Match(mem, l)

-----------------------------------------------------------------------------
(* What becomes of the field when a key has been inserted. *)
FieldAt(text, pos, from) == [value |-> text, position |-> pos, start |-> from, crashed |-> FALSE]

(* Mutant: the text that could not be matched is looked at again with every key. *)
convert_stuck(text, pos, stale) ==
    LET m == get_matches(From(text, start) \o <<NUL>> \o stale, pos - start)
        end == start + Len(m.r)
    IN  IF start >= Len(text) THEN FieldAt(text, pos, Len(text))
        ELSE IF start > pos THEN FieldAt(text, pos, pos)
        ELSE IF m.crashed THEN [FieldAt(text, pos, start) EXCEPT !.crashed = TRUE]
        ELSE IF m.nb = 1
             THEN FieldAt(SubSeq(text, 1, start) \o m.r \o From(text, pos - m.rem),
                          end + m.rem, end)
        ELSE FieldAt(text, pos, start)

convert(text, pos, stale) ==
    LET m == get_matches(From(text, start) \o <<NUL>> \o stale, pos - start)
        end == start + Len(m.r)
    IN  IF start >= Len(text) THEN FieldAt(text, pos, Len(text))
        ELSE IF start > pos THEN FieldAt(text, pos, pos)
        ELSE IF m.crashed THEN [FieldAt(text, pos, start) EXCEPT !.crashed = TRUE]
        ELSE IF m.nb = 1
             THEN FieldAt(SubSeq(text, 1, start) \o m.r \o From(text, pos - m.rem),
                          end + m.rem, end)
        ELSE FieldAt(text, pos, IF m.nb = 0 THEN start + 1 ELSE start)

(* The history when start is placed anew. *)
Rebase == /\ earlier' = SubSeq(value', 1, Min({start', position'}))
          /\ typed' = SubSeq(value', start' + 1, position')

Put(f) == /\ value' = f.value
          /\ position' = f.position
          /\ start' = f.start
          /\ crashed' = f.crashed
          /\ UNCHANGED <<conv_nb, kmap>>

(* Gui::handle, FL_KEYDOWN, with a key that has a text, or none. *)
Key(ch) ==
    /\ ~crashed /\ Len(value) < MaxText /\ Len(typed) < MaxText
    /\ \E stale \in Stale :
         Put(convert(SubSeq(value, 1, position) \o <<ch>> \o From(value, position),
                     position + 1, stale))
    /\ typed' = Append(typed, ch)
    /\ UNCHANGED earlier

SilentKey ==
    /\ ~crashed
    /\ \E stale \in Stale : Put(convert(value, position, stale))
    /\ UNCHANGED <<typed, earlier>>

(* Arrow keys have an e_keysym: start follows the cursor. *)
ArrowKey(key) ==
    /\ ~crashed
    /\ \/ key = "left" /\ position' = Max({position - 1, 0})
       \/ key = "right" /\ position' = Min({position + 1, Len(value)})
    /\ start' = position'
    /\ UNCHANGED <<value, conv_nb, kmap, crashed>>
    /\ Rebase

(* A function key, or the menu: choice_cb. *)
Choose(n) ==
    /\ ~crashed
    /\ conv_nb' = n
    /\ UNCHANGED <<field, kmap, crashed>>
    /\ Rebase

(* Setup and reload: load_input for every input; the choice and the text stay. *)
reload(maps) ==
    /\ ~crashed
    /\ kmap' \in [Input -> maps]
    /\ UNCHANGED <<field, conv_nb, crashed>>
    /\ Rebase

(* Mutant: the text goes, the start of the text to convert stays. *)
FlushKeepsStart ==
    /\ ~crashed
    /\ value' = <<>> /\ position' = 0
    /\ UNCHANGED <<start, conv_nb, kmap, crashed>>
    /\ Rebase

(* get_unicode_buffer and reset_unicode_buffer: the text is committed. *)
Flush ==
    /\ ~crashed
    /\ value' = <<>> /\ position' = 0 /\ start' = 0
    /\ UNCHANGED <<conv_nb, kmap, crashed>>
    /\ Rebase

Edit == \/ \E ch \in Char : Key(ch)
        \/ \E n \in Input : Choose(n)
        \/ Flush

-----------------------------------------------------------------------------
(* Reference: the translation of a text, by the words of a keyboard map's      *)
(* author: the longest translation that the text begins with, then the rest;   *)
(* a character that begins none stands for itself.                             *)
Parts == {k \in 0 .. 4 : k = 0 \/ multi_offset(conv_nb, k) > 0}
Translations == {t \in [Parts -> 0 .. nb_seq(conv_nb) - 1] : \A k \in Parts : t[k] \in Part(k)}
Keys(t) == FlattenSeq([k \in 1 .. Cardinality(Parts) |-> s(conv_nb, t[k - 1])])
Meaning(t) ==
    LET sum == MapThenSumSet(LAMBDA k : First(c(conv_nb, t[k])), Parts)
    IN  IF Parts = {0} THEN c(conv_nb, t[0])
        ELSE IF sum = 0 THEN <<>> ELSE <<sum>>

Greedy(text) ==
    LET fit(k) == {t \in Translations : Keys(t) # <<>> /\ IsPrefix(Keys(t), From(text, k))}
        best(k) == CHOOSE t \in fit(k) :
                       \A u \in fit(k) : \/ Len(Keys(u)) < Len(Keys(t))
                                         \/ Len(Keys(u)) = Len(Keys(t)) /\ u[0] <= t[0]
        from[k \in 0 .. Len(text)] ==
            IF k = Len(text) THEN <<>>
            ELSE IF fit(k) = {} THEN <<text[k + 1]>> \o from[k + 1]
            ELSE Meaning(best(k)) \o from[k + Len(Keys(best(k)))]
    IN  from[0]

(* The translated text ends at start, the keys not translated yet follow it. *)
TranslatedUpTo(k) ==
    LET done == earlier \o Greedy(SubSeq(typed, 1, k))
    IN  /\ SubSeq(value, 1, position) = done \o From(typed, k)
        /\ start = Len(done)

-----------------------------------------------------------------------------
(* Properties. *)

(* The start of the text to convert and the cursor are in the text. *)
TypeOK == /\ position \in 0 .. Len(value)
          /\ start \in 0 .. position
          /\ conv_nb \in Input

(* What the field shows is the greedy translation of the keys typed, up to those
   that may still become part of a longer one, whatever was cut off by a commit,
   a movement or another keyboard map in between (doc/HOWTO-keymap.txt:53, gui.cpp
   "convert" and "get_matches"). *)
TextIsGreedy == ~crashed => \E k \in 0 .. Len(typed) : TranslatedUpTo(k)

(* The keys held back are never more than one translation is long: a text that
   matches nothing does not stop the conversion of what follows it. *)
HeldBack == IF nb_seq(conv_nb) = 0 THEN 0
            ELSE Max({Len(Keys(t)) : t \in Translations})
NotStuck == [][typed' # <<>> /\ Len(typed') > Len(typed) =>
                 position' - start' <= Max({HeldBack, position - start})]_vars

(* What a key translates is a translation: one line of each part, each behind the one
   before it and all of them in the text that was typed, and what is put in its
   place is their meaning; and no index is used that was not written: "If the
   translation can be broken down to (maximum 5) sub-translations [...] the resulting
   unicode number is the value of the sub-transaltions added up"
   (doc/HOWTO-keymap.txt:39-46, gui.cpp "get_matches").  *)
IsTranslation(text, r) ==
    \E t \in Translations : Keys(t) = text /\ r = Meaning(t)

PartsAreFound ==
    /\ ~crashed
    /\ \A ch \in Char, stale \in Stale :
           LET text == SubSeq(value, 1, position) \o <<ch>> \o From(value, position)
               m == get_matches(From(text, start) \o <<NUL>> \o stale, position + 1 - start)
           IN  m.nb = 1 => IsTranslation(SubSeq(text, start + 1, position + 1 - m.rem), m.r)
=============================================================================
