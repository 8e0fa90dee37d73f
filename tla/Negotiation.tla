----------------------------- MODULE Negotiation -----------------------------
(***************************************************************************)
(* What a library and the server agree on before the first context: the    *)
(* handlers of XIM_OPEN, XIM_QUERY_EXTENSION, XIM_ENCODING_NEGOTIATION and *)
(* XIM_GET_IM_VALUES (IMdkit/i18nPtHdr.c), with the trigger keys           *)
(* (i18nUtil.c) and the tables that are announced (i18nAttr.c).            *)
(*                                                                         *)
(* A handler reads its message and writes its answer through the frame     *)
(* manager, call by call; an answer is an area of fields, as in FrameMgr,  *)
(* and the size of the buffer that was allocated for it.  The properties   *)
(* say what the protocol puts in the answer, without any frame manager.    *)
(*                                                                         *)
(* Names are numbers, LengthOf gives their bytes.  A library names at most *)
(* ten extensions or encodings: there are ten places for them.             *)
(***************************************************************************)
EXTENDS Frames

CONSTANTS LengthOf,    \* LengthOf[name]: bytes of a name, Null has none
          QueryInputStyle, \* the id of the one IM attribute
          Extension,   \* address.extension, a sequence of records
          IMAttr,      \* address.xim_attr
          ICAttr,      \* address.xic_attr
          EncodingLists,  \* what IMEncodingList may have been set to
          StyleLists,  \* what IMInputStyles may have been set to
          KeyLists,    \* what the trigger keys may have been set to
          Asked,       \* names and ids that a library asks for
          Details,     \* lists of detailed encodings that a library sends
          MaxAsked     \* bound: names or ids in one message

ASSUME NegotiationAssumption == MaxAsked \in 1 .. 10

VARIABLES encodings, styles, on_keys, off_keys,  \* values of the service
          request,   \* the message that came last
          reply,     \* the messages sent to answer it
          details,   \* detailed encodings that were read
          crashed    \* a name that is a null pointer was compared

values == <<encodings, styles, on_keys, off_keys>>
vars == <<values, request, reply, details, crashed>>

-----------------------------------------------------------------------------
(* Messages.  A field has a size and data; padding is not written.          *)
IM == 1    \* the input-method-ID, which is not looked at
Field(n, data) == [size |-> n, data |-> data, pad |-> FALSE]
Padding(n) == [size |-> (-n) % 4, data |-> Null, pad |-> TRUE]
Total(fields) == FoldLeft(LAMBDA n, f : n + f.size, 0, fields)

Area(fields) ==
    LET at(k) == Total(SubSeq(fields, 1, k - 1))
        written == {k \in DOMAIN fields : ~fields[k].pad /\ fields[k].size > 0}
    IN  [i \in {at(k) : k \in written} |->
            LET k == CHOOSE k \in written : at(k) = i
            IN  [size |-> fields[k].size, data |-> fields[k].data]]

Flat(seq, f(_)) == FlattenSeq([k \in DOMAIN seq |-> f(seq[k])])
Str(name) == <<Field(1, LengthOf[name]), Field(LengthOf[name], name)>>
List(fields) == <<Field(2, Total(fields))>> \o fields

(* What the library puts in its messages. *)
Lists == UNION {[1 .. n -> Asked] : n \in 0 .. MaxAsked}
QueryFields(names) ==
    LET strs == List(Flat(names, Str)) IN <<Field(2, IM)>> \o strs \o <<Padding(Total(strs) + 2)>>
EncodingFields(names, info) ==
    LET strs == List(Flat(names, Str))
        infos == Flat(info, LAMBDA n : <<Field(2, LengthOf[n]), Field(LengthOf[n], n),
                                           Padding(2 + LengthOf[n])>>)
    IN  <<Field(2, IM)>> \o strs \o <<Padding(Total(strs) + 2),
          Field(2, Total(infos)), Padding(2)>> \o infos
GetFields(ids) ==
    LET list == List(Flat(ids, LAMBDA id : <<Field(2, id)>>))
    IN  <<Field(2, IM)>> \o list \o <<Padding(Total(list) + 2)>>
OpenFields(name) == Str(name) \o <<Padding(1 + LengthOf[name])>>

NoRequest == [op |-> "NONE", asked |-> <<>>, area |-> <<>>]
Requests ==
    {[op |-> "OPEN", asked |-> <<name>>, area |-> Area(OpenFields(name))] : name \in Asked}
    \cup {[op |-> "QUERY", asked |-> q, area |-> Area(QueryFields(q))] : q \in Lists}
    \cup {[op |-> "ENCODING", asked |-> q, area |-> Area(EncodingFields(q, info))]
             : q \in Lists \ {<<>>}, info \in Details}
    \cup {[op |-> "ENCODING", asked |-> <<>>, area |-> Area(EncodingFields(<<>>, <<>>))]}
    \cup {[op |-> "GET", asked |-> q, area |-> Area(GetFields(q))] : q \in Lists \ {<<>>}}

Init == /\ encodings \in EncodingLists
        /\ styles \in StyleLists
        /\ on_keys \in KeyLists
        /\ off_keys \in KeyLists
        /\ request = NoRequest
        /\ reply = <<>>
        /\ details = <<>>
        /\ crashed = FALSE

-----------------------------------------------------------------------------
(* Reading.  A list of strings is read until its loop ends; a list of ids too. *)
RECURSIVE ReadStrings(_, _), ReadIds(_, _)
ReadStrings(fm, names) ==
    LET More(name) == ReadStrings(name.fm, Append(names, name.data))
        Name(length) == FrameMgrGetToken(FrameMgrSetSize(length.fm, length.data))
        Loop(r) == IF r.end THEN [fm |-> r.fm, got |-> names]
                   ELSE More(Name(FrameMgrGetToken(r.fm)))
    IN  Loop(FrameMgrIsIterLoopEnd(fm))

ReadIds(fm, ids) ==
    LET More(id) == ReadIds(id.fm, Append(ids, id.data))
        Loop(r) == IF r.end THEN [fm |-> r.fm, got |-> ids]
                   ELSE More(FrameMgrGetToken(r.fm))
    IN  Loop(FrameMgrIsIterLoopEnd(fm))

(* The input-method-ID and the counter of the list that follows. *)
Opened(template) == FrameMgrInit(template, request.area, NO_VALUE)
AfterIM(template) == FrameMgrGetToken(FrameMgrGetToken(Opened(template)).fm)

(* Writing: lists are announced, the buffer is allocated, tokens are put. *)
SetSizes(fm, sizes) == FoldLeft(FrameMgrSetSize, fm, sizes)
Allocated(fm) == FrameMgrSetBuffer(fm, FrameMgrGetTotalSize(fm))
Put(fm, data) == FrameMgrPutToken(fm, data).fm
PutAll(fm, tokens) == FoldLeft(Put, fm, tokens)
Sent(op, fm) == [op |-> op, area |-> fm.area, length |-> fm.limit]

NameSizes(list) == [k \in DOMAIN list |-> LengthOf[list[k].name]]

(* Entries with a string at the end, whose size the frame manager tells. *)
PutNamed(fm, list, tokens(_)) ==
    FoldLeft(LAMBDA f, e : LET size == FrameMgrGetSize(f)
                           IN  PutAll(f, tokens(e) \o <<size, e.name>>), fm, list)

-----------------------------------------------------------------------------
(* The extensions of the server that the library has named, all if it named none;
   each once, in the order of the server. *)
MakeExtensionList(names) ==
    IF names = <<>> THEN Extension
    ELSE SelectSeq(Extension, LAMBDA e : e.name \in Range(names))

QueryExtensionMessageProc ==
    LET init == FrameMgrInit(query_extension_reply_fr, <<>>, NO_VALUE)
        names == ReadStrings(AfterIM(query_extension_fr).fm, <<>>).got
    IN  /\ request.op = "QUERY" /\ reply = <<>>
        /\ \E list \in {MakeExtensionList(names)} :
              LET counted == FrameMgrSetIterCount(init, Len(list))
                  fm == Put(Allocated(SetSizes(counted, NameSizes(list))), IM)
              IN  reply' = <<Sent("QUERY_REPLY",
                                  PutNamed(fm, list, LAMBDA e : <<e.major, e.minor>>))>>
        /\ UNCHANGED <<values, request, details, crashed>>

-----------------------------------------------------------------------------
(* Mutant: the index is that of the server's list. *)
ChooseEncodingOfServer(names) ==
    LET known == {i \in DOMAIN encodings : encodings[i] \in Range(names)}
    IN  IF known = {} THEN 0 ELSE Max(known) - 1

(* The index, from 0, of the encoding that is the last of the server's among
   those named, and 0 if there is none. *)
ChooseEncoding(names) ==
    LET known == {i \in DOMAIN encodings : encodings[i] \in Range(names)}
    IN  IF known = {} THEN 0
        ELSE SelectInSeq(names, LAMBDA n : n = encodings[Max(known)]) - 1

(* A list without bytes is not read; what is read next has the size of its first
   round, a byte of the length of 0 that follows. *)
ReadIfAny(length) == IF length.data > 0 THEN ReadStrings(length.fm, <<>>)
                                        ELSE [fm |-> length.fm, got |-> <<>>]

(* A list of detailed encodings clears the names that were read before it. *)
EncodingNegotiationMessageProc ==
    /\ request.op = "ENCODING" /\ reply = <<>>
    /\ \E names \in {ReadIfAny(AfterIM(encoding_negotiation_fr))} :
          /\ \E info \in {FrameMgrGetToken(names.fm)} :
                /\ details' = ReadIfAny(info).got
                /\ crashed' = (info.data > 0 /\ encodings # <<>>)
          /\ LET fm == Allocated(FrameMgrInit(encoding_negotiation_reply_fr, <<>>, NO_VALUE))
             IN  reply' = <<Sent("ENCODING_REPLY",
                                 PutAll(fm, <<IM, 0, ChooseEncoding(names.got)>>))>>
    /\ UNCHANGED <<values, request>>

-----------------------------------------------------------------------------
(* GetIMValueFromName: count_styles, what fills the word, and the styles. *)
ValueLength == 2 * 2 + Len(styles) * 4

StylesValue ==
    LET counted == FrameMgrSetIterCount(FrameMgrInit(input_styles_fr, <<>>, NO_VALUE), Len(styles))
    IN  PutAll(Allocated(counted), <<Len(styles)>> \o styles)

(* MakeIMAttributeList passes over the ids that it does not know. *)
KnownIds(ids) == SelectSeq(ids, LAMBDA id : \E k \in DOMAIN IMAttr : IMAttr[k].id = id)

(* The value of an attribute is written on its own and copied. *)
GetIMValuesMessageProc ==
    LET init == FrameMgrInit(get_im_values_reply_fr, <<>>, NO_VALUE)
    IN  /\ request.op = "GET" /\ reply = <<>>
        /\ \E ids \in {KnownIds(ReadIds(AfterIM(get_im_values_fr).fm, <<>>).got)} :
              LET sized == SetSizes(FrameMgrSetIterCount(init, Len(ids)),
                                    [k \in DOMAIN ids |-> ValueLength])
                  tokens == Flat(ids, LAMBDA id : <<id, ValueLength, QueryInputStyle>>)
              IN  reply' = <<Sent("VALUE", StylesValue),
                             Sent("GET_REPLY", PutAll(Allocated(sized), <<IM>> \o tokens))>>
        /\ UNCHANGED <<values, request, details, crashed>>

-----------------------------------------------------------------------------
KeyTokens(keys) == Flat(keys, LAMBDA k : <<k.keysym, k.modifier, k.mask>>)

(* Trigger keys go before the answer, with an input-method-ID of 0. *)
SendTriggerKey ==
    LET init == FrameMgrInit(register_triggerkeys_fr, <<>>, NO_VALUE)
        counted == FrameMgrSetIterCount(FrameMgrSetIterCount(init, Len(on_keys)), Len(off_keys))
    IN  IF on_keys = <<>> /\ off_keys = <<>> THEN <<>>
        ELSE <<Sent("TRIGGERKEYS", PutAll(Allocated(counted),
                        <<0>> \o KeyTokens(on_keys) \o KeyTokens(off_keys)))>>

(* Mutant: the lengths of both lists are told first, then all sizes. *)
OpenReplyCounts ==
    LET init == FrameMgrInit(open_reply_fr, <<>>, NO_VALUE)
        ims == FrameMgrSetIterCount(init, Len(ICAttr))
    IN  SetSizes(FrameMgrSetIterCount(ims, Len(IMAttr)), NameSizes(IMAttr) \o NameSizes(ICAttr))

(* The two lists of attributes: the count of each and then its sizes. *)
OpenReplyPrepared ==
    LET init == FrameMgrInit(open_reply_fr, <<>>, NO_VALUE)
        ims == SetSizes(FrameMgrSetIterCount(init, Len(IMAttr)), NameSizes(IMAttr))
    IN  SetSizes(FrameMgrSetIterCount(ims, Len(ICAttr)), NameSizes(ICAttr))

OpenMessageProc ==
    LET fm == Put(Allocated(OpenReplyPrepared), IM)
        ims == PutNamed(fm, IMAttr, LAMBDA e : <<e.id, e.type>>)
    IN  /\ request.op = "OPEN" /\ reply = <<>>
        /\ reply' = SendTriggerKey \o <<Sent("OPEN_REPLY",
                                             PutNamed(ims, ICAttr, LAMBDA e : <<e.id, e.type>>))>>
        /\ UNCHANGED <<values, request, details, crashed>>

-----------------------------------------------------------------------------
(* The library sends a message when it has the answer to the one before. *)
Send == /\ request = NoRequest \/ reply # <<>>
        /\ ~crashed
        /\ request' \in Requests
        /\ reply' = <<>>
        /\ details' = <<>>
        /\ UNCHANGED <<values, crashed>>

Next == \/ Send
        \/ OpenMessageProc
        \/ QueryExtensionMessageProc
        \/ EncodingNegotiationMessageProc
        \/ GetIMValuesMessageProc

Spec == Init /\ [][Next]_vars

-----------------------------------------------------------------------------
(* Properties. *)

Answered(op) == request.op = op /\ reply # <<>>
(* The buffer was cleared: a counter of 0 with no token after it is not put. *)
IsMessage(m, fields) ==
    LET area == Area(fields)
    IN  /\ m.length = Total(fields)
        /\ DOMAIN m.area \subseteq DOMAIN area
        /\ \A i \in DOMAIN area : IF i \in DOMAIN m.area THEN m.area[i] = area[i]
                                  ELSE area[i].data = 0

NamedFields(e, ids) ==
    ids \o <<Field(2, LengthOf[e.name]), Field(LengthOf[e.name], e.name),
             Padding(2 + LengthOf[e.name])>>
ExtFields(e) == NamedFields(e, <<Field(2, e.major), Field(2, e.minor)>>)
AttrFields(e) == NamedFields(e, <<Field(2, e.id), Field(2, e.type)>>)

(* A library that names extensions is told those that the server has, each once
   with its opcodes, in a message as long as it says (i18nPtHdr.c:333-545). *)
ExtensionsAreAnswered ==
    Answered("QUERY") /\ request.asked # <<>> =>
        LET known == SelectSeq(Extension, LAMBDA e : e.name \in Range(request.asked))
        IN  IsMessage(reply[1], <<Field(2, IM)>> \o List(Flat(known, ExtFields)))

Chosen == reply[1].area[4].data
Common == Range(request.asked) \cap Range(encodings)

(* When library and server have an encoding in common, the index in the answer is
   that of one of those in the list that the library sent (i18nPtHdr.c:1320-1345,
   1366-1394). *)
ChosenIsCommon ==
    Answered("ENCODING") /\ details = <<>> =>
        (Common # {} => /\ Chosen + 1 \in DOMAIN request.asked
                        /\ request.asked[Chosen + 1] \in Common)

(* The trigger keys, if there are any, come before the answer to XIM_OPEN; both
   are what the protocol says, with the two lists of attributes apart
   (i18nPtHdr.c:158-269, i18nUtil.c:171-235). *)
OpenIsAnswered ==
    Answered("OPEN") =>
        LET keys(list) == Flat(list, LAMBDA k : <<Field(4, k.keysym), Field(4, k.modifier),
                                                  Field(4, k.mask)>>)
            ims == List(Flat(IMAttr, AttrFields))
            ics == Flat(ICAttr, AttrFields)
            counted(list) == <<Field(4, Total(keys(list)))>> \o keys(list)
        IN  /\ IsMessage(Last(reply), <<Field(2, IM)>> \o ims
                            \o <<Field(2, Total(ics)), Padding(2)>> \o ics)
            /\ Len(reply) = IF on_keys = <<>> /\ off_keys = <<>> THEN 1 ELSE 2
            /\ Len(reply) = 2 =>
                  LET all == <<Field(2, 0), Padding(2)>> \o counted(on_keys) \o counted(off_keys)
                  IN  IsMessage(reply[1], all)

(* The value of an attribute fills the room that its length gives it, and the
   answer has each attribute that was asked for and known (i18nPtHdr.c:581-830). *)
ValuesAreAnswered ==
    Answered("GET") =>
        LET value == <<Field(2, Len(styles)), Padding(2)>> \o Flat(styles, LAMBDA s : <<Field(4, s)>>)
            entry(id) == <<Field(2, id), Field(2, Total(value)), Field(Total(value), id)>>
        IN  /\ IsMessage(reply[1], value)
            /\ IsMessage(reply[2], <<Field(2, IM)>> \o List(Flat(KnownIds(request.asked), entry)))

(* Each answer is one message of the protocol with what was asked for in it, and
   fills the buffer that was allocated before its contents were known: an entry of
   another size than was told to the frame manager shifts all that follow it. *)
AnswersAreWhole == ExtensionsAreAnswered /\ OpenIsAnswered /\ ValuesAreAnswered
=============================================================================
