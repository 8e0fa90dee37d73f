----------------------------- MODULE MCContexts -----------------------------
(* Input contexts: which record a context is served with (ICTable), and what goes into
   and out of a record over the wire (ICAttributes).  StoreIC and GetIC are given the
   record that was found and nothing else, so the two are not interleaved: each runs
   with the other at rest, the table in one build and for clients of one byte order. *)
EXTENDS ICTable

CONSTANTS Cleared, Garbled, Mask, NameSize, WordSizes, Changed, Queries

VARIABLES rec, set, swap, word, query, reply, crashed

wireVars == <<rec, set, swap, word, query, reply, crashed>>

Wire == INSTANCE ICAttributes

(* A list that asks may lack its separator if it is all that is asked for; only
   preediting has a spot; an attribute in no nested list is a list of its own; and a
   message is one for which the arrays have room. *)
AttrNames == DOMAIN Wire!Default_ICattr
Values == UNION {UNION {{l[k].attrs[j].value : j \in DOMAIN l[k].attrs} : k \in DOMAIN l} :
                    l \in Changed}
ASSUME ContextsAssumption ==
    /\ \A lists \in Changed :
          /\ lists \in Seq([group : Wire!Groups, attrs : Seq([name : AttrNames, value : Values])])
          /\ \A k \in DOMAIN lists :
                /\ lists[k].group = "ic" => Len(lists[k].attrs) = 1
                /\ lists[k].group = "status" =>
                      \A j \in DOMAIN lists[k].attrs : lists[k].attrs[j].name # "spotLocation"
          /\ Wire!HasRoom(lists)
    /\ \A lists \in Queries :
          /\ lists \in Seq([group : Wire!Groups, attrs : Seq(AttrNames), open : BOOLEAN])
          /\ \A k \in DOMAIN lists :
                /\ \A j \in DOMAIN lists[k].attrs :
                      /\ ~Wire!IsSeparator(lists[k].attrs[j])
                      /\ ~Wire!IsNestedList(lists[k].attrs[j])
                /\ lists[k].open => Len(lists) = 1
          /\ Wire!HasRoomForIds(lists)

ContextsInit == Init /\ Wire!Init
ContextsNext == \/ /\ Wire!Init /\ ~swap /\ word = 4
                   /\ FreshNext
                   /\ UNCHANGED wireVars
                \/ Init /\ Wire!Next /\ UNCHANGED vars
ContextsSpec == ContextsInit /\ [][ContextsNext]_<<vars, wireVars>>

(* ICAttributes: the answer tells each attribute that was asked for once, in its own
   group and order (i18nIc.c:519-573, 844-888). *)
AttributesAreAnswered == Wire!AttributesAreAnswered

(* ICAttributes: an application reads back the areas that it set, and in the cases that
   the code handles the spot and the colours (i18nIc.c:316-490, IC.c:88-330). *)
ReadsBack == Wire!ReadsBack

(* ICAttributes, and IMdkit/doc/README:44-47: a location that a client has set is read
   back by it, whatever its byte order. *)
ByteOrderIsEncapsulated == Wire!ByteOrderIsEncapsulated

-----------------------------------------------------------------------------
(* A message has one list or two of different groups; an attribute may be given twice
   in a list, and one that GetIC does not tell of may be asked for before others. *)
In(group, attrs) == [group |-> group, attrs |-> attrs]
Is(name, v) == [name |-> name, value |-> v]
PreeditSets == {<<>>, <<Is("area", 1), Is("area", 2)>>, <<Is("fontSet", 1)>>,
                <<Is("spotLocation", 1), Is("area", 1)>>}
StatusSets == {<<Is("area", 3)>>, <<Is("foreground", 1)>>}
MCChanged ==
    LET preedit == {In("preedit", a) : a \in PreeditSets}
        status == {In("status", a) : a \in StatusSets}
    IN  {<<l>> : l \in preedit \cup status \cup {In("ic", <<Is("inputStyle", 1)>>)}}
        \cup {<<l, m>> : l \in preedit, m \in status} \cup {<<m, l>> : l \in preedit, m \in status}

Of(group, names, open) == [group |-> group, attrs |-> names, open |-> open]
PreeditNames == {<<>>, <<"area", "spotLocation">>, <<"colorMap", "area">>,
                 <<"fontSet", "spotLocation">>}
StatusNames == {<<"area">>, <<"foreground", "lineSpace">>}
MCQueries ==
    LET preedit == {Of("preedit", n, FALSE) : n \in PreeditNames}
        others == {Of("status", n, FALSE) : n \in StatusNames}
                  \cup {Of("ic", <<n>>, FALSE) : n \in {"inputStyle", "filterEvents"}}
    IN  {<<l, m>> : l \in preedit, m \in others} \cup {<<m, l>> : l \in preedit, m \in others}
        \cup {<<Of("preedit", n, TRUE)>> : n \in PreeditNames}
=============================================================================
