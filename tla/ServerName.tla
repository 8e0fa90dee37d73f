----------------------------- MODULE ServerName -----------------------------
(***************************************************************************)
(* How a server becomes known on the display, and stops being known:       *)
(* xi18n_openIM and xi18n_closeIM of IMdkit/i18nMethod.c, with             *)
(* SetXi18nSelectionOwner and DeleteXi18nAtom, and the answers to the      *)
(* requests for its locale and transport.                                  *)
(*                                                                         *)
(* A server owns the selection "@server=name" and has that atom in the     *)
(* property XIM_SERVERS of the root window.  The two live in the X server, *)
(* the X server is never grabbed, and each request of a process is one     *)
(* step here: the requests of several server processes interleave.  A      *)
(* process may end between two requests; the X server then gives its       *)
(* selections up, and leaves the property as it is.                        *)
(*                                                                         *)
(* A library that wants a server waits for a PropertyNotify of the root    *)
(* window, reads the list, asks for the owner and then for the locale and  *)
(* the transport.  The library and the X server are modelled from what     *)
(* i18nMethod.c expects of them.                                           *)
(***************************************************************************)
EXTENDS Naturals, Sequences, SequencesExt

CONSTANTS Server,     \* processes, each with an im_window of its own
          Name,       \* names of input methods
          NameOf,     \* NameOf[s]: address.im_name, what server s is called
          Closer,     \* the servers that may call IMCloseIM
          Library,    \* libraries that look for a server
          Wanted,     \* Wanted[c]: the name library c looks for
          NoServer,   \* None, the owner of a selection nobody owns
          Absent,     \* the property does not exist
          Foreign,    \* the property has another type than XA_ATOM
          NoTarget,   \* nothing has been asked
          Garbage,    \* what an uninitialized buffer holds
          MaxOpen     \* bound: calls of IMOpenIM

ASSUME ServerNameAssumption == /\ NameOf \in [Server -> Name]
                               /\ Wanted \in [Library -> Name]
                               /\ Closer \subseteq Server
                               /\ NoServer \notin Server
                               /\ MaxOpen \in Nat
                               /\ {Absent, Foreign} \cap Seq(Name) = {}

VARIABLES servers,   \* the property XIM_SERVERS
          owner,     \* owner[n]: the owner of the selection "@server=n"
          pc,        \* pc[s]: the next request of server s, or where it rests
          data,      \* data[s]: the list server s has read
          met,       \* met[s]: servers of the same name that were open when s
                     \* read the list and have not ended since (history)
          opened,    \* calls of IMOpenIM so far
          library,   \* library[c]: what library c does
          notified,  \* notified[c]: a PropertyNotify is in its event queue
          request    \* request[c]: server, target and answer of its request

serverVars == <<pc, data, met, opened>>
libraryVars == <<library, request>>
vars == <<servers, owner, serverVars, notified, libraryVars>>

-----------------------------------------------------------------------------
Target == {"LOCALES", "TRANSPORT", "OTHER"}
Request == [server : Server \cup {NoServer}, target : Target \cup {NoTarget},
            answer : {<<"locale", s>> : s \in Server}
                     \cup {<<"transport", s>> : s \in Server}
                     \cup {<<Garbage, s>> : s \in Server} \cup {<<>>}]
NoRequest == [server |-> NoServer, target |-> NoTarget, answer |-> <<>>]

Phase == {"idle", "query", "claim", "register", "verify", "open", "failed",
          "delete", "closed"}

(* The atoms XGetWindowProperty returns, and whether one is among them. *)
Atoms == IF servers \in {Absent, Foreign} THEN <<>> ELSE servers
Listed(n, list) == \E i \in DOMAIN list : list[i] = n

Init == /\ servers \in {Absent, Foreign, <<>>}
                         \cup {<<n>> : n \in Name}
        /\ owner = [n \in Name |-> NoServer]
        /\ pc = [s \in Server |-> "idle"]
        /\ data = [s \in Server |-> <<>>]
        /\ met = [s \in Server |-> {}]
        /\ opened = 0
        /\ library = [c \in Library |-> "waiting"]
        /\ notified = [c \in Library |-> TRUE]
        /\ request = [c \in Library |-> NoRequest]

(* XChangeProperty, in any mode: the libraries hear of it. *)
ChangeProperty(list) == /\ servers' = list
                        /\ notified' = [c \in Library |-> TRUE]

-----------------------------------------------------------------------------
(* Mutant: a property that does not exist is kept as a list. *)
OpenReadUnchecked(s) ==
    /\ pc[s] \in {"idle", "closed"}
    /\ opened < MaxOpen
    /\ opened' = opened + 1
    /\ data' = [data EXCEPT ![s] = servers]
    /\ met' = [met EXCEPT ![s] = {}]
    /\ pc' = [pc EXCEPT ![s] = IF Listed(NameOf[s], Atoms) THEN "query" ELSE "claim"]
    /\ UNCHANGED <<servers, owner, notified, libraryVars>>

(* xi18n_openIM.  SetXi18nSelectionOwner reads the list first. *)
OpenRead(s) ==
    /\ pc[s] \in {"idle", "closed"}
    /\ opened < MaxOpen
    /\ opened' = opened + 1
    /\ data' = [data EXCEPT ![s] = Atoms]
    /\ met' = [met EXCEPT ![s] = {t \in Server \ {s} : /\ pc[t] = "open"
                                                       /\ NameOf[t] = NameOf[s]}]
    /\ pc' = [pc EXCEPT ![s] = CASE servers = Foreign -> "failed"
                                 [] Listed(NameOf[s], Atoms) -> "query"
                                 [] OTHER -> "claim"]
    /\ UNCHANGED <<servers, owner, notified, libraryVars>>

(* Mutant: an owner does not stop the server, as if forse were True. *)
QueryOwnerForced(s) ==
    /\ pc[s] = "query"
    /\ pc' = [pc EXCEPT ![s] = IF owner[NameOf[s]] = s THEN "register" ELSE "claim"]
    /\ UNCHANGED <<servers, owner, data, met, opened, notified, libraryVars>>

(* The name is listed: it may be taken only if it has no owner. *)
QueryOwner(s) ==
    /\ pc[s] = "query"
    /\ pc' = [pc EXCEPT ![s] = CASE owner[NameOf[s]] = s -> "register"
                                 [] owner[NameOf[s]] = NoServer -> "claim"
                                 [] OTHER -> "failed"]
    /\ UNCHANGED <<servers, owner, data, met, opened, notified, libraryVars>>

(* XSetSelectionOwner takes the selection, whoever owns it. *)
Claim(s) ==
    /\ pc[s] = "claim"
    /\ owner' = [owner EXCEPT ![NameOf[s]] = s]
    /\ pc' = [pc EXCEPT ![s] = "register"]
    /\ UNCHANGED <<servers, data, met, opened, notified, libraryVars>>

(* Mutant: a name that is listed needs no change of the property. *)
RegisterQuietly(s) ==
    /\ pc[s] = "register"
    /\ IF Listed(NameOf[s], data[s]) THEN UNCHANGED <<servers, notified>>
                                     ELSE ChangeProperty(<<NameOf[s]>> \o Atoms)
    /\ pc' = [pc EXCEPT ![s] = "verify"]
    /\ UNCHANGED <<owner, data, met, opened, libraryVars>>

(* Mutant: the list that was read is written back with the name. *)
RegisterReplaces(s) ==
    /\ pc[s] = "register"
    /\ ChangeProperty(IF Listed(NameOf[s], data[s]) THEN Atoms
                      ELSE <<NameOf[s]>> \o data[s])
    /\ pc' = [pc EXCEPT ![s] = "verify"]
    /\ UNCHANGED <<owner, data, met, opened, libraryVars>>

(* PropModePrepend of the name or, if it was listed, of no atom at all, which
   generates the PropertyNotify. *)
Register(s) ==
    /\ pc[s] = "register"
    /\ ChangeProperty(IF Listed(NameOf[s], data[s]) THEN Atoms
                      ELSE <<NameOf[s]>> \o Atoms)
    /\ pc' = [pc EXCEPT ![s] = "verify"]
    /\ UNCHANGED <<owner, data, met, opened, libraryVars>>

(* The last look at the owner; begin and the filter for SelectionRequest follow
   without a request that matters here.  If it fails the name stays listed. *)
Verify(s) ==
    /\ pc[s] = "verify"
    /\ pc' = [pc EXCEPT ![s] = IF owner[NameOf[s]] = s THEN "open" ELSE "failed"]
    /\ UNCHANGED <<servers, owner, data, met, opened, notified, libraryVars>>

-----------------------------------------------------------------------------
(* xi18n_closeIM.  The selection is not given up. *)
CloseRead(s) ==
    /\ s \in Closer
    /\ pc[s] = "open"
    /\ data' = [data EXCEPT ![s] = Atoms]
    /\ pc' = [pc EXCEPT ![s] = IF servers \in {Absent, Foreign} THEN "closed"
                                                                ELSE "delete"]
    /\ met' = [t \in Server |-> met[t] \ {s}]
    /\ UNCHANGED <<servers, owner, opened, notified, libraryVars>>

(* PropModeReplace by what was read without its first such atom, or
   PropModePrepend of nothing. *)
DeleteXi18nAtom(s) ==
    /\ pc[s] = "delete"
    /\ ChangeProperty(IF Listed(NameOf[s], data[s])
                      THEN RemoveFirst(data[s], NameOf[s])
                      ELSE Atoms)
    /\ pc' = [pc EXCEPT ![s] = "closed"]
    /\ UNCHANGED <<owner, data, met, opened, libraryVars>>

(* The process ends, what was sent to it is lost, and it may be started again. *)
End(s) ==
    /\ pc[s] # "idle"
    /\ pc' = [pc EXCEPT ![s] = "idle"]
    /\ data' = [data EXCEPT ![s] = <<>>]
    /\ met' = [t \in Server |-> IF t = s THEN {} ELSE met[t] \ {s}]
    /\ owner' = [n \in Name |-> IF owner[n] = s THEN NoServer ELSE owner[n]]
    /\ request' = [c \in Library |-> IF request[c].server = s
                                      THEN NoRequest ELSE request[c]]
    /\ UNCHANGED <<servers, opened, notified, library>>

-----------------------------------------------------------------------------
(* A library reads the list when it is notified, and then asks for the owner. *)
Look(c) ==
    /\ library[c] = "waiting"
    /\ notified[c]
    /\ notified' = [notified EXCEPT ![c] = FALSE]
    /\ library' = [library EXCEPT ![c] = IF Listed(Wanted[c], Atoms)
                                         THEN "asking" ELSE "waiting"]
    /\ UNCHANGED <<servers, owner, serverVars, request>>

AskOwner(c) ==
    /\ library[c] = "asking"
    /\ library' = [library EXCEPT ![c] = IF owner[Wanted[c]] = NoServer
                                         THEN "waiting" ELSE "found"]
    /\ UNCHANGED <<servers, owner, serverVars, notified, request>>

(* XConvertSelection: the X server sends a SelectionRequest to the owner. *)
Convert(c, target) ==
    /\ library[c] = "found"
    /\ owner[Wanted[c]] # NoServer
    /\ request' = [request EXCEPT ![c] = [server |-> owner[Wanted[c]],
                                          target |-> target, answer |-> <<>>]]
    /\ library' = [library EXCEPT ![c] = "converting"]
    /\ UNCHANGED <<servers, owner, serverVars, notified>>

(* ReturnSelectionNotify: a target that is neither of the two leaves the buffer
   as it was. *)
Answer(s, target) == CASE target = "LOCALES" -> <<"locale", s>>
                       [] target = "TRANSPORT" -> <<"transport", s>>
                       [] OTHER -> <<Garbage, s>>

(* The filter is there from the end of xi18n_openIM to xi18n_closeIM and takes
   the requests for the selection of its server. *)
IsForServer(s, c) == /\ request[c].server = s
                     /\ NameOf[s] = Wanted[c]
                     /\ pc[s] = "open"

WaitXSelectionRequest(s, c) ==
    /\ library[c] = "converting"
    /\ IsForServer(s, c)
    /\ request' = [request EXCEPT ![c].answer = Answer(s, request[c].target)]
    /\ library' = [library EXCEPT ![c] = "answered"]
    /\ UNCHANGED <<servers, owner, serverVars, notified>>

Next == \/ \E s \in Server : \/ OpenRead(s) \/ QueryOwner(s) \/ Claim(s)
                             \/ Register(s) \/ Verify(s)
                             \/ CloseRead(s) \/ DeleteXi18nAtom(s)
                             \/ End(s)
        \/ \E c \in Library : \/ Look(c) \/ AskOwner(c)
                              \/ \E target \in Target : Convert(c, target)
                              \/ \E s \in Server : WaitXSelectionRequest(s, c)

Spec == Init /\ [][Next]_vars

-----------------------------------------------------------------------------
(* Every variable holds a value of the kind the code gives it. *)
TypeOK ==
    /\ servers \in Seq(Name) \cup {Absent, Foreign}
    /\ owner \in [Name -> Server \cup {NoServer}]
    /\ pc \in [Server -> Phase]
    /\ data \in [Server -> Seq(Name)]
    /\ met \in [Server -> SUBSET Server]
    /\ opened \in 0 .. MaxOpen
    /\ library \in [Library -> {"waiting", "asking", "found", "converting",
                                "answered"}]
    /\ notified \in [Library -> BOOLEAN]
    /\ request \in [Library -> Request]

(* A server that is open is in the list of XIM_SERVERS (i18nMethod.c:495-583:
   prepending keeps what other servers added since the list was read). *)
AvailableIsListed ==
    \A s \in Server : pc[s] = "open" => Listed(NameOf[s], Atoms)

(* A server is never replaced as the owner of its selection by one that began
   to open after it was open: only servers that open at the same time can take
   a name from each other (i18nMethod.c:536-551). *)
OpenServerKeepsName ==
    [][\A s, t \in Server : \A n \in Name :
          owner[n] = t /\ owner'[n] = s /\ s # t => t \notin met[s]]_vars

(* A library that waits with no PropertyNotify in its queue waits for a server
   that is not there: the change of the property comes after the selection is
   taken, even when the list does not change (i18nMethod.c:553-577). *)
NoMissedServer ==
    \A c \in Library : library[c] = "waiting" /\ ~notified[c] =>
        \A s \in Server : ~ (/\ pc[s] = "open"
                             /\ owner[Wanted[c]] = s
                             /\ Listed(Wanted[c], Atoms))

=============================================================================
