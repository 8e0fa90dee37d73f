------------------------------ MODULE Transport ------------------------------
(***************************************************************************)
(* Messages from the server to the libraries over the X transport          *)
(* (IMdkit/i18nX.c), for the connections of ClientTable.                   *)
(*                                                                         *)
(* A message of up to XCM_DATA_LIMIT bytes travels in an X event.  A       *)
(* longer one is appended to a property of the library's window, and the   *)
(* event tells which.  The properties are named after the connect id and a *)
(* number that goes round; all the libraries share the count.              *)
(*                                                                         *)
(* A library reads as ReadXIMMessage does in the other direction: what the *)
(* property holds is fetched, deleted and taken for one message.           *)
(*                                                                         *)
(* mail[w] is what lies at the window of the library that w was created    *)
(* for.  unread, clashed and misread are history.                          *)
(***************************************************************************)
EXTENDS ClientTable

CONSTANTS Round,   \* the last number given, 20 in the code
          MaxSent  \* bound: messages sent

ASSUME TransportAssumption == Round \in Nat /\ MaxSent \in Nat

VARIABLES sequence,  \* the static counter of MakeNewAtom
          made,      \* numbers and messages given out (history)
          mail

mailVars == <<sequence, made, mail>>
allVars == <<vars, mailVars>>

Numbers == 0 .. Round
NoMail == [events |-> <<>>,                      \* X events to be read
           property |-> [n \in Numbers |-> <<>>],  \* the messages in "_server<id>_n"
           unread |-> <<>>,   \* the messages sent and not read
           clashed |-> FALSE, \* a property held two messages
           misread |-> FALSE] \* an event did not give the oldest message unread

TransportInit == /\ Init
                 /\ sequence = 0
                 /\ made = [sent |-> 0, long |-> 0]
                 /\ mail = [w \in Window |-> NoMail]

-----------------------------------------------------------------------------
(* Mutant: at its limit the count stands still. *)
MakeNewAtomCapped == IF sequence > Round THEN [given |-> Round, next |-> sequence]
                     ELSE [given |-> sequence, next |-> sequence + 1]

(* MakeNewAtom.  At the end of a round 0 is given without being counted. *)
MakeNewAtom == IF sequence > Round THEN [given |-> 0, next |-> 0]
               ELSE [given |-> sequence, next |-> sequence + 1]

InEvent(m) == [format |-> 8, message |-> m]
InProperty(n) == [format |-> 32, atom |-> n]
Message == [n |-> made.sent + 1, long |-> made.long]

(* Mutant: the event names the property that the next message will be in. *)
PutLongNext(box, m, atom) ==
    [box EXCEPT !.property[atom.given] = Append(@, m),
                !.events = Append(@, InProperty(atom.next % (Round + 1))),
                !.unread = Append(@, m),
                !.clashed = @ \/ box.property[atom.given] # <<>>]

PutLong(box, m, atom) ==
    [box EXCEPT !.property[atom.given] = Append(@, m),
                !.events = Append(@, InProperty(atom.given)),
                !.unread = Append(@, m),
                !.clashed = @ \/ box.property[atom.given] # <<>>]

PutShort(box, m) ==
    [box EXCEPT !.events = Append(@, InEvent(m)), !.unread = Append(@, m)]

(* Xi18nXSend, in answer to a message that came in on w: the window goes by the
   record with the connect id of the sender's record. *)
Send(w) ==
    /\ ClientOf(w) # 0 /\ made.sent < MaxSent
    /\ UNCHANGED vars
    /\ LET to == AnsweredWindow(w)
       IN  \/ /\ mail' = [mail EXCEPT ![to] = PutShort(@, Message)]
              /\ made' = [made EXCEPT !.sent = @ + 1]
              /\ UNCHANGED sequence
           \/ /\ mail' = [mail EXCEPT ![to] = PutLong(@, Message, MakeNewAtom)]
              /\ made' = [made EXCEPT !.sent = @ + 1, !.long = @ + 1]
              /\ sequence' = MakeNewAtom.next

(* What an event gives: the message it brings, or the first in the property. *)
Given(box, e) == IF e.format = 8 THEN <<e.message>>
                 ELSE IF box.property[e.atom] = <<>> THEN <<>>
                 ELSE <<Head(box.property[e.atom])>>

(* A library reads its next event; a property is deleted as it is read. *)
Receive(w) ==
    /\ mail[w].events # <<>>
    /\ LET e == Head(mail[w].events)
       IN  mail' = [mail EXCEPT
               ![w].events = Tail(@),
               ![w].property = IF e.format = 8 THEN @ ELSE [@ EXCEPT ![e.atom] = <<>>],
               ![w].unread = Tail(@),
               ![w].misread = @ \/ Given(mail[w], e) # <<Head(mail[w].unread)>>]
    /\ UNCHANGED <<vars, sequence, made>>

(* ClientTable: the windows of a library that has gone go with what lay there. *)
Connection ==
    /\ Next
    /\ mail' = [w \in Window |-> IF peer'[w] = Unknown THEN NoMail ELSE mail[w]]
    /\ UNCHANGED <<sequence, made>>

TransportNext == Connection \/ \E w \in Window : Send(w) \/ Receive(w)

TransportSpec == TransportInit /\ [][TransportNext]_allVars

-----------------------------------------------------------------------------
(* Properties. *)

(* A library reads what was sent to it, each message once and in order, unless a
   message was put into a property before it had read the one in there: whether a
   message is short or long makes no difference, and neither does what is sent to
   others (i18nX.c:263-344).  Waiting for the answer to a forwarded key, as the
   server does, relies on it. *)
MailIsRead == \A w \in Window : mail[w].misread => mail[w].clashed

(* Two messages meet in a property only when a round of long messages was sent, to
   whichever libraries, while the first lay there; but 0 is given to two in a row,
   at the end of each round (i18nX.c:252-261). *)
PropertiesAreApart ==
    \A w \in Window, n \in Numbers :
        LET held == mail[w].property[n]
        IN  \A i \in 1 .. Len(held) - 1 :
                \/ held[i + 1].long - held[i].long > Round
                \/ n = 0 /\ held[i + 1].long = held[i].long + 1
=============================================================================
