------------------------------- MODULE MCWire -------------------------------
(* What goes over the wire: either any one message is written and read (FrameUse),
   or the service answers the messages of a library (Negotiation).  A frame manager
   lives from FrameMgrInit to FrameMgrFree within one handler and nothing of it is
   kept, so the two are not interleaved: each runs with the other at rest.

   Two extensions of which one may be asked for, attributes with names of every
   length modulo four, and lists of keys, styles and encodings that may be empty. *)
EXTENDS Negotiation

CONSTANTS Templates, Sizes, Counts, Unread

VARIABLES frame, shape, wire, phase, todo, fm, got

useVars == <<frame, shape, wire, phase, todo, fm, got>>

Use == INSTANCE FrameUse

NoMessage == /\ frame = <<>> /\ shape = <<>> /\ wire = <<>>
             /\ phase = "rest" /\ todo = <<>> /\ fm = <<>> /\ got = <<>>
Unset == /\ encodings = <<>> /\ styles = <<>> /\ on_keys = <<>> /\ off_keys = <<>>
         /\ request = NoRequest /\ reply = <<>> /\ details = <<>> /\ crashed = FALSE

WireInit == \/ Init /\ NoMessage
            \/ Unset /\ Use!Init
WireNext == \/ frame # <<>> /\ Use!Next /\ UNCHANGED vars
            \/ frame = <<>> /\ Next /\ UNCHANGED useVars
WireSpec == WireInit /\ [][WireNext]_<<vars, useVars>>

(* FrameUse: the size computed before the buffer is allocated covers every token
   and padding put into it later, and the bytes written are those of the protocol,
   counters, paddings and alignment included (FrameMgr.c:1453, 2315). *)
WritesTheMessage == frame # <<>> => Use!WritesTheMessage

(* FrameUse: a reader that loops until the end of each list gets the tokens
   written, each once and in order (FrameMgr.c:1264). *)
ReadsTheMessage == frame # <<>> => Use!ReadsTheMessage

-----------------------------------------------------------------------------
(* The messages that hold strings and lists, and those that no one reads back. *)
Messages == {error_fr, open_fr, open_reply_fr, register_triggerkeys_fr,
             encoding_negotiation_fr, query_extension_fr, query_extension_reply_fr,
             get_im_values_fr, get_im_values_reply_fr, create_ic_fr, set_ic_values_fr,
             get_ic_values_fr, get_ic_values_reply_fr, commit_chars_fr, commit_both_fr,
             reset_ic_reply_fr, input_styles_fr, str_conversion_reply_fr,
             AuthFrames.auth_required_fr, AuthFrames.auth_reply_fr, CloseFrames.close_fr,
             PreeditFrames.preedit_draw_fr, StatusFrames.status_draw_text_fr}
NotRead == {error_fr, input_styles_fr,
            AuthFrames.auth_required_fr, AuthFrames.auth_reply_fr}

MCLengthOf == [name \in 0 .. 25 |-> name % 5]
MCExtension == <<[major |-> 128, minor |-> 51, name |-> 21],
                 [major |-> 128, minor |-> 52, name |-> 22]>>
MCIMAttr == <<[id |-> 21, type |-> 10, name |-> 23]>>
MCICAttr == <<[id |-> 31, type |-> 3, name |-> 24], [id |-> 32, type |-> 5, name |-> 21],
              [id |-> 33, type |-> 3, name |-> 22]>>
MCEncodingLists == {<<>>, <<22>>, <<22, 21>>, <<24, 22, 23>>}
MCStyleLists == {<<>>, <<7>>, <<7, 8>>}
MCKeyLists == {<<>>, <<[keysym |-> 40, modifier |-> 1, mask |-> 5]>>}
OneDetail == {<<>>, <<24>>}
=============================================================================
