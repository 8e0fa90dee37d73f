---------------------------- MODULE ICAttributes ----------------------------
(***************************************************************************)
(* The attributes of one input context on the wire: how XIM_CREATE_IC,     *)
(* XIM_SET_IC_VALUES and XIM_GET_IC_VALUES (IMdkit/i18nIc.c) take them out *)
(* of a message and put them into an answer, and what src/IC.c keeps and   *)
(* tells of them.  ICTable is about which record a context is served with. *)
(*                                                                         *)
(* A datum is a value and whether its bytes are in the other order than    *)
(* the server's.  The application blocks on the reply: a request and its   *)
(* handler are one step.                                                   *)
(***************************************************************************)
EXTENDS Integers, Sequences, SequencesExt, Selection

CONSTANTS Cleared,   \* what memset leaves in a record
          Garbled,   \* the name of a font after its own length
          Mask,      \* KeyPressMask | KeyReleaseMask
          NameSize,  \* bytes of a base font name
          WordSizes, \* sizeof(long), 4 or 8
          Changed,   \* lists that an application sets
          Queries    \* lists of names that it asks for

VARIABLES rec,       \* rec[g, name]: the datum in a field of the record
          set,       \* set[g, name]: the value last given by the application
          swap,      \* the client has the other byte order
          word,      \* sizeof(long) of this build
          query,     \* the lists asked for last
          reply,     \* the answer: [name, length, value] in three groups
          crashed    \* a null pointer was used

vars == <<rec, set, swap, word, query, reply, crashed>>

-----------------------------------------------------------------------------
Default_ICattr == [inputStyle |-> "CARD32", clientWindow |-> "Window",
                   focusWindow |-> "Window", filterEvents |-> "CARD32",
                   preeditAttributes |-> "NEST", statusAttributes |-> "NEST",
                   fontSet |-> "XFontSet", area |-> "XRectangle",
                   areaNeeded |-> "XRectangle", colorMap |-> "CARD32",
                   stdColorMap |-> "CARD32", foreground |-> "CARD32",
                   background |-> "CARD32", backgroundPixmap |-> "CARD32",
                   spotLocation |-> "XPoint", lineSpace |-> "CARD32",
                   preeditState |-> "CARD32",
                   separatorofNestedList |-> "SeparatorOfNestedList"]

ListOf == [preeditAttributes |-> "preedit", statusAttributes |-> "status"]
Groups == {"ic", "preedit", "status"}

IsNestedList(name) == Default_ICattr[name] = "NEST"
IsSeparator(name) == name = "separatorofNestedList"

Datum(v, swapped) == [data |-> v, swapped |-> swapped]
NoValue == Datum(Cleared, FALSE)

(* A value that goes through the frame manager, in or out. *)
Token(d) == [d EXCEPT !.swapped = (@ # swap)]

-----------------------------------------------------------------------------
(* Setting.  A message is a sequence of lists; an attribute that is in neither of the
   two nested lists is a list of its own, in the group "ic". *)

(* An attribute as the application sends it, in its own byte order. *)
Sent(a) == [name |-> a.name, value |-> Datum(a.value, swap)]

(* SetPointAttribute reads a point and then copies the bytes as they came. *)
ReadICValue(a) ==
    [name |-> a.name,
     value |-> IF Default_ICattr[a.name] = "XPoint" THEN a.value ELSE Token(a.value)]

(* What the lists of a group hold, in the order of the message, and as it is read. *)
Together(lists, g) ==
    FoldLeft(LAMBDA s, l : IF l.group = g THEN s \o l.attrs ELSE s, <<>>, lists)
Gathered(lists, g) ==
    LET attrs == Together(lists, g)
    IN  [j \in DOMAIN attrs |-> ReadICValue(Sent(attrs[j]))]

(* The attributes for which a record has a place. *)
Fields == [ic |-> {"inputStyle", "clientWindow", "focusWindow"},
           preedit |-> {"area", "areaNeeded", "spotLocation", "colorMap", "stdColorMap",
                        "foreground", "background", "backgroundPixmap", "fontSet",
                        "lineSpace"},
           status |-> {"area", "areaNeeded", "colorMap", "stdColorMap", "foreground",
                       "background", "backgroundPixmap", "fontSet", "lineSpace"}]
FieldOf(name) == IF name = "stdColorMap" THEN "colorMap" ELSE name

Put(f, k, v) == [x \in DOMAIN f \cup {k} |-> IF x = k THEN v ELSE f[x]]

(* Mutant: the first value of an attribute is kept. *)
StoreFirst(r, g, attrs) ==
    FoldLeft(LAMBDA f, a : IF a.name \in Fields[g] /\ <<g, FieldOf(a.name)>> \notin DOMAIN f
                           THEN Put(f, <<g, FieldOf(a.name)>>, a.value) ELSE f,
             r, attrs)

(* StoreIC, for one group: later values go over earlier ones. *)
Store(r, g, attrs) ==
    FoldLeft(LAMBDA f, a : IF a.name \in Fields[g]
                           THEN Put(f, <<g, FieldOf(a.name)>>, a.value) ELSE f,
             r, attrs)

StoreIC(r, lists) ==
    Store(Store(Store(r, "ic", Gathered(lists, "ic")),
                "preedit", Gathered(lists, "preedit")),
          "status", Gathered(lists, "status"))

Field(g, name) == IF <<g, name>> \in DOMAIN rec THEN rec[g, name] ELSE NoValue

-----------------------------------------------------------------------------
(* Asking.  The names of a nested list follow the name of the list and go on to a
   separator, which is then looked at on its own. *)

Heading == [ic |-> <<>>, preedit |-> <<"preeditAttributes">>,
            status |-> <<"statusAttributes">>]

(* The library ends each list with a separator, unless it is all that is asked for. *)
Ending(l) == IF l.group = "ic" \/ l.open THEN <<>> ELSE <<"separatorofNestedList">>
Ids(lists) ==
    FoldLeft(LAMBDA s, l : s \o (Heading[l.group] \o (l.attrs \o Ending(l))), <<>>, lists)

(* Mutant: the last name of a list is looked at again in place of the separator. *)
PlaceAgain(s, name) ==
    IF s.list # "ic" /\ ~IsSeparator(name) THEN [s EXCEPT ![s.list] = Append(@, name)]
    ELSE IF s.list # "ic" /\ s[s.list] # <<>>
         THEN [s EXCEPT !.list = "ic", !.ic = @ \o <<Last(s[s.list]), name>>]
    ELSE IF IsNestedList(name) THEN [s EXCEPT !.list = ListOf[name]]
    ELSE [s EXCEPT !.list = "ic", !.ic = Append(@, name)]

(* One more name of the message is put into its group (GetICValue). *)
Place(s, name) ==
    IF s.list # "ic" /\ ~IsSeparator(name) THEN [s EXCEPT ![s.list] = Append(@, name)]
    ELSE IF IsNestedList(name) THEN [s EXCEPT !.list = ListOf[name]]
    ELSE [s EXCEPT !.list = "ic", !.ic = Append(@, name)]

Sorted(names) ==
    FoldLeft(Place, [list |-> "ic", ic |-> <<>>, preedit |-> <<>>, status |-> <<>>], names)

(* GetIC: the length and the value of an attribute; a font is its length and its name.
   An attribute that it does not tell keeps length 0. *)
Card32(v) == [length |-> 4, value |-> v]
Long(v) == [length |-> word, value |-> v]
Told(g, name) ==
    CASE g = "ic" /\ name = "filterEvents" -> Card32(Datum(Mask, FALSE))
      [] g # "ic" /\ name \in {"area", "areaNeeded"} -> [length |-> 8, value |-> Field(g, name)]
      [] g = "preedit" /\ name = "spotLocation" -> [length |-> 4, value |-> Field(g, name)]
      [] g # "ic" /\ name = "fontSet" -> [length |-> 2 + NameSize, value |-> Field(g, name)]
      [] g # "ic" /\ name \in {"foreground", "background"} -> Long(Field(g, name))
      [] g # "ic" /\ name = "lineSpace" -> Long(Datum(18, FALSE))
      [] OTHER -> [length |-> 0, value |-> NoValue]

(* CreateNestedList: a number is written only if it has 1, 2 or 4 bytes, and the
   name of a font with its length once more before it. *)
Nested(name, told) ==
    IF Default_ICattr[name] = "XFontSet" THEN Datum(Garbled, FALSE)
    ELSE IF Default_ICattr[name] \in {"XRectangle", "XPoint"} \/ told.length = 4
         THEN Token(told.value)
    ELSE NoValue

(* What is in no nested list is copied as it is. *)
Answers(g, names) ==
    [k \in DOMAIN names |->
        LET told == Told(g, names[k])
        IN  [name |-> names[k], length |-> told.length,
             value |-> IF g = "ic" THEN told.value ELSE Nested(names[k], told)]]

(* The length of the name of a font is asked for though there may be none. *)
HasNoFont(sorted) ==
    \E g \in {"preedit", "status"} : /\ "fontSet" \in Range(sorted[g])
                                     /\ <<g, "fontSet">> \notin DOMAIN rec

-----------------------------------------------------------------------------
(* The arrays in which the attributes of a message and the ids that are asked for are
   collected; their ends are not looked at. *)
IC_SIZE == 64
HasRoom(lists) == /\ Len(lists) <= IC_SIZE
                  /\ \A g \in Groups : Len(Together(lists, g)) <= IC_SIZE
HasRoomForIds(lists) == Len(Ids(lists)) <= IC_SIZE

NoReply == [g \in Groups |-> <<>>]

Init == /\ rec = <<>>
        /\ set = <<>>
        /\ swap \in BOOLEAN
        /\ word \in WordSizes
        /\ query = <<>>
        /\ reply = NoReply
        /\ crashed = FALSE

(* What the application takes for set: the last value it gave. *)
Give(h, g, attrs) == FoldLeft(LAMBDA f, a : Put(f, <<g, a.name>>, a.value), h, attrs)
Given(lists) == Give(Give(Give(set, "ic", Together(lists, "ic")),
                          "preedit", Together(lists, "preedit")),
                     "status", Together(lists, "status"))

(* For a new context the record was blank. *)
_Xi18nChangeIC ==
    /\ ~crashed
    /\ \E lists \in Changed : rec' = StoreIC(rec, lists) /\ set' = Given(lists)
    /\ query' = <<>>
    /\ reply' = NoReply
    /\ UNCHANGED <<swap, word, crashed>>

_Xi18nGetIC ==
    /\ ~crashed
    /\ query' \in Queries
    /\ \E sorted \in {Sorted(Ids(query'))} :
          /\ crashed' = HasNoFont(sorted)
          /\ reply' = IF HasNoFont(sorted) THEN NoReply
                      ELSE [g \in Groups |-> Answers(g, sorted[g])]
    /\ UNCHANGED <<rec, set, swap, word>>

Next == _Xi18nChangeIC \/ _Xi18nGetIC

Spec == Init /\ [][Next]_vars

-----------------------------------------------------------------------------
(* Properties. *)

(* What the application asked for in a group, and what it is told. *)
Asked(g) == Together(query, g)
Names(attrs) == [k \in DOMAIN attrs |-> attrs[k].name]
Proper(attrs) == {k \in DOMAIN attrs : ~IsSeparator(attrs[k].name)}

(* The answer tells each attribute that was asked for once, in its own group and
   order, wherever the nested lists stand in the message; only the separators
   come back as well (i18nIc.c:519-573, 844-888). *)
AttributesAreAnswered ==
    ~crashed => \A g \in Groups :
        Asked(g) = Names(SelectAt(reply[g], Proper(reply[g])))

(* The application reads bytes in its own order. *)
IsRead(d, v) == d.data = v /\ (v = Cleared \/ d.swapped = swap)
WasSet(g, name) == IF <<g, name>> \in DOMAIN set THEN set[g, name] ELSE Cleared

AreAsSet(g, names) ==
    \A a \in Range(reply[g]) : a.name \in names => IsRead(a.value, WasSet(g, a.name))

(* An application reads back the areas that it set, for preediting and for the status
   each its own; also the spot if its byte order is the server's, and the colours where
   a long has 4 bytes (i18nIc.c:316-490, IC.c:88-330). *)
ReadsBack ==
    \A g \in {"preedit", "status"} :
        /\ AreAsSet(g, {"area", "areaNeeded"})
        /\ ~swap => AreAsSet(g, {"spotLocation"})
        /\ word = 4 => AreAsSet(g, {"foreground", "background"})

(* "IMdkit is designed to encapsulate the difference in Byte Order between IMserver
   and clients" (IMdkit/doc/README:44-47): a location that a client has set is read
   back by it, whatever its byte order. *)
ByteOrderIsEncapsulated == AreAsSet("preedit", {"area", "areaNeeded", "spotLocation"})
=============================================================================
