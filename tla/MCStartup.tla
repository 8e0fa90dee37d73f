----------------------------- MODULE MCStartup -----------------------------
(* How a service comes up: the calls that give it its values (IMValues), and the
   requests to the X server with which it takes its name (ServerName).  The values
   are those of one process and the selection is only one of the things that decide
   whether IMOpenIM succeeds, so the two share no state: each runs with the other at
   rest.  The requests are checked twice, on displays of their own: one whose servers
   are only ended, as interxim is, and one where they may also be closed.

   Three processes, two of the same name, one library that wants that name; two
   values, of which one is an address and names the protocol. *)
EXTENDS ServerName

CONSTANTS Value, Offered, XAddress, Xi18nModifiers, Empty, SetLists, GetLists,
          MayClose,  \* the servers of the second display that may call IMCloseIM
          MaxReopen  \* bound: calls of IMOpenIM there

VARIABLES ims, address, out, last

valueVars == <<ims, address, out, last>>

Values == INSTANCE IMValues

ASSUME StartupAssumption ==
    /\ Empty \notin Value
    /\ SetLists \cup GetLists \subseteq Seq([name : Offered, value : Value])
    /\ MayClose \subseteq Server /\ MaxReopen \in Nat

VARIABLES servers2, owner2, pc2, data2, met2, opened2, library2, notified2, request2

vars2 == <<servers2, owner2, pc2, data2, met2, opened2, library2, notified2, request2>>

Closing == INSTANCE ServerName WITH
    Closer <- MayClose, MaxOpen <- MaxReopen,
    servers <- servers2, owner <- owner2, pc <- pc2, data <- data2, met <- met2,
    opened <- opened2, library <- library2, notified <- notified2, request <- request2

AtRest == Init /\ servers = Absent
AtRest2 == Closing!Init /\ servers2 = Absent

StartupInit == /\ Values!Init
               /\ \/ Init /\ AtRest2
                  \/ AtRest /\ Closing!Init
StartupNext ==
    \/ AtRest /\ AtRest2 /\ Values!Next /\ UNCHANGED <<vars, vars2>>
    \/ AtRest2 /\ Values!Init /\ Next /\ UNCHANGED <<vars2, valueVars>>
    \/ AtRest /\ Values!Init /\ Closing!Next /\ UNCHANGED <<vars, valueVars>>
StartupSpec == StartupInit /\ [][StartupNext]_<<vars, vars2, valueVars>>

(* ServerName: a library that waits with no PropertyNotify in its queue waits for a
   server that is not there, also where servers are closed (i18nMethod.c:553-577). *)
NoServerIsMissed == Closing!NoMissedServer

(* IMValues: an open service has a locale and a transport that can be used, however
   it was opened (i18nMethod.c:321-336, 495-530). *)
ServiceIsComplete == Values!TypeOK

(* IMValues: a call to set registers what stands before the first value that is
   refused, says which that was, and registers nothing from there on
   (i18nMethod.c:181-320). *)
SetStopsAtRefused == Values!SetStopsAtRefused

(* IMValues: a call to get writes what is registered to the variables before the first
   value that was never set, and returns the name of that one; the values that are
   copied it writes to none, whatever it returns (i18nMethod.c:338-460). *)
GetReadsRegistered == Values!GetReadsRegistered

-----------------------------------------------------------------------------
CONSTANTS s1, s2, s3, kanji, hangul, lib

MCServer == {s1, s2, s3}
MCName == {kanji, hangul}
MCNameOf == [s \in MCServer |-> IF s = s3 THEN hangul ELSE kanji]
MCWanted == [c \in {lib} |-> kanji]
MCMayClose == {s2, s3}

(* Lists of up to two, and of three that may open a service.  To get values a list
   gives addresses, which do not tell its names apart. *)
MCSetLists ==
    LET arg == [name : Offered, value : Value]
    IN  UNION {[1 .. k -> arg] : k \in 1 .. 2}
        \cup {<<l, t, p>> : l \in {a \in arg : a.name = "locale"},
                           t \in {a \in arg : a.name = "serverTransport"}, p \in arg}
MCGetLists == UNION {[1 .. k -> [name : Offered, value : XAddress]] : k \in 1 .. 3}
=============================================================================
