------------------------------- MODULE Frames -------------------------------
(***************************************************************************)
(* The messages of the protocol, the templates of IMdkit/i18nIMProto.c,    *)
(* under their names there.  Those of two or three plain fields are        *)
(* gathered in the order of the file.                                      *)
(***************************************************************************)
EXTENDS FrameMgr

B8 == Bit(1)
B16 == Bit(2)
B32 == Bit(4)
ListOf(frame) == <<Iter, Pointer, Ptr(frame)>>
Ids == <<B16, B16, Eol>>    \* input-method-ID, input-context-ID

-----------------------------------------------------------------------------
(* Parts of messages.  xpcs_fr has no EOL: a walk runs off its end.         *)

ximattr_fr == <<B16, B16, B16, Barray, Pad(4, 2), Eol>>
xicattr_fr == <<B16, B16, B16, Barray, Pad(4, 2), Eol>>
ximattribute_fr == <<B16, B16, Barray, Pad(4, 1), Eol>>

xicattribute_fr == <<B16, B16, Barray, Pad(4, 1), Eol>>
ximtriggerkey_fr == <<B32, B32, B32, Eol>>
encodinginfo_fr == <<B16, Barray, Pad(4, 2), Eol>>
str_fr == <<B8, Barray, Eol>>
xpcs_fr == <<B16, Barray, Pad(4, 2)>>
ext_fr == <<B16, B16, B16, Barray, Pad(4, 2), Eol>>
inputstyle_fr == <<B32, Eol>>

(* Values of attributes, read and written on their own. *)
attr_head_fr == <<B16, B16, Eol>>
short_fr == <<B16, Eol>>
long_fr == <<B32, Eol>>
xrectangle_fr == <<B16, B16, B16, B16, Eol>>
xpoint_fr == <<B16, B16, Eol>>
fontset_fr == <<B16, Barray, Pad(4, 2), Eol>>
input_styles_fr == <<B16, Pad(4, 1)>> \o ListOf(inputstyle_fr) \o <<Eol>>

-----------------------------------------------------------------------------
(* Messages. *)

packet_header_fr == <<B8, B8, B16, Eol>>
error_fr == <<B16, B16, B16, B16, B16, B16, Barray, Pad(4, 1), Eol>>
connect_fr == <<B8, Pad(2, 1), B16, B16, ByteCounter(2, 1)>> \o ListOf(xpcs_fr) \o <<Eol>>
AuthFrames == [connect_reply_fr |-> Ids,
               auth_required_fr |-> <<B8, B8, Barray, Pad(4, 3), Eol>>,
               auth_reply_fr |-> <<B8, Barray, Pad(4, 2), Eol>>,
               auth_next_fr |-> <<B8, Barray, Pad(4, 2), Eol>>,
               auth_setup_fr |-> <<ByteCounter(2, 2), Pad(4, 1)>> \o ListOf(xpcs_fr) \o <<Eol>>,
               auth_ng_fr |-> <<Eol>>, disconnect_fr |-> <<Eol>>,
               disconnect_reply_fr |-> <<Eol>>]
open_fr == <<Pointer, Ptr(str_fr), Pad(4, 1), Eol>>
open_reply_fr == <<B16, ByteCounter(2, 1)>> \o ListOf(ximattr_fr)
                 \o <<ByteCounter(2, 2), Pad(4, 1)>> \o ListOf(xicattr_fr) \o <<Eol>>
CloseFrames == [close_fr |-> <<B16, Pad(4, 1), Eol>>, close_reply_fr |-> <<B16, Pad(4, 1), Eol>>]
register_triggerkeys_fr == <<B16, Pad(4, 1), ByteCounter(4, 1)>> \o ListOf(ximtriggerkey_fr)
                           \o <<ByteCounter(4, 1)>> \o ListOf(ximtriggerkey_fr) \o <<Eol>>
TriggerFrames == [trigger_notify_fr |-> <<B16, B16, B32, B32, B32, Eol>>,
                  trigger_notify_reply_fr |-> Ids,
                  set_event_mask_fr |-> <<B16, B16, B32, B32, Eol>>]

encoding_negotiation_fr == <<B16, ByteCounter(2, 1)>> \o ListOf(str_fr)
                           \o <<Pad(4, 1), ByteCounter(2, 2), Pad(4, 1)>>
                           \o ListOf(encodinginfo_fr) \o <<Eol>>
encoding_negotiation_reply_fr == <<B16, B16, B16, Pad(4, 1), Eol>>
query_extension_fr == <<B16, ByteCounter(2, 1)>> \o ListOf(str_fr) \o <<Pad(4, 1), Eol>>
query_extension_reply_fr == <<B16, ByteCounter(2, 1)>> \o ListOf(ext_fr) \o <<Eol>>
get_im_values_fr == <<B16, ByteCounter(2, 1), Iter, B16, Pad(4, 1), Eol>>
get_im_values_reply_fr == <<B16, ByteCounter(2, 1)>> \o ListOf(ximattribute_fr) \o <<Eol>>
create_ic_fr == <<B16, ByteCounter(2, 1)>> \o ListOf(xicattribute_fr) \o <<Eol>>
LifeFrames == [create_ic_reply_fr |-> Ids, destroy_ic_fr |-> Ids, destroy_ic_reply_fr |-> Ids]
set_ic_values_fr == <<B16, B16, ByteCounter(2, 2), Pad(4, 1)>>
                    \o ListOf(xicattribute_fr) \o <<Eol>>
set_ic_values_reply_fr == Ids
get_ic_values_fr == <<B16, B16, ByteCounter(2, 1), Iter, B16, Pad(4, 2), Eol>>
get_ic_values_reply_fr == <<B16, B16, ByteCounter(2, 2), Pad(4, 1)>>
                          \o ListOf(xicattribute_fr) \o <<Eol>>
KeyFrames == [set_ic_focus_fr |-> Ids, unset_ic_focus_fr |-> Ids,
              forward_event_fr |-> <<B16, B16, B16, B16, Eol>>,
              sync_fr |-> Ids, sync_reply_fr |-> Ids]
commit_chars_fr == <<B16, B16, B16, B16, Barray, Pad(4, 1), Eol>>
commit_both_fr == <<B16, B16, B16, Pad(4, 1), B32, B16, Barray, Pad(4, 2), Eol>>
reset_ic_fr == Ids
reset_ic_reply_fr == <<B16, B16, B16, Barray, Pad(4, 2), Eol>>
ConversionFrames == [geometry_fr |-> Ids,
                     str_conversion_fr |-> <<B16, B16, B32, B32, B32, B16, B16, Eol>>]
Feedback == <<B16, Barray, Pad(4, 2), ByteCounter(2, 2), Pad(4, 1), Iter, B32, Eol>>
str_conversion_reply_fr == <<B16, B16, B32>> \o Feedback
PreeditFrames == [preedit_start_fr |-> Ids, preedit_start_reply_fr |-> <<B16, B16, B32, Eol>>,
                  preedit_draw_fr |-> <<B16, B16, B32, B32, B32, B32>> \o Feedback,
                  preedit_caret_fr |-> <<B16, B16, B32, B32, B32, Eol>>,
                  preedit_caret_reply_fr |-> <<B16, B16, B32, Eol>>,
                  preedit_done_fr |-> Ids]
StatusFrames == [status_start_fr |-> Ids,
                 status_draw_text_fr |-> <<B16, B16, B32, B32>> \o Feedback,
                 status_draw_bitmap_fr |-> <<B16, B16, B32, B32, Eol>>,
                 status_done_fr |-> Ids]
ExtFrames == [ext_set_event_mask_fr |-> <<B16, B16, B32, B32, B32, B32, B32, Eol>>,
              ext_forward_keyevent_fr |-> <<B16, B16, B16, B16, B8, B8, B16, B32, B32, Eol>>,
              ext_move_fr |-> <<B16, B16, B16, B16, Eol>>]
=============================================================================
