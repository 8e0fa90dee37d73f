------------------------- MODULE ServerName_proofs -------------------------
(***************************************************************************)
(* Proofs about ServerName for any number of servers, names and libraries: *)
(* no library sleeps while its server is there; and, where no server is    *)
(* closed, a server that is open is listed, and keeps its name from the    *)
(* servers that begin to open after that.                                  *)
(***************************************************************************)
EXTENDS ServerName, Counting

(* No server is closed: interxim, the one caller in this repository, never
   calls IMCloseIM. *)
NoClose == Closer = {}

(* The phases in which a server goes by the list that it has read. *)
Reading == {"query", "claim", "register"}

Phases == \A s \in Server : pc[s] \notin {"delete", "closed"}

(* The list never loses a name, so what was read in it is still there. *)
ReadIsListed ==
    \A s \in Server : pc[s] \in Reading /\ Listed(NameOf[s], data[s])
                         => Listed(NameOf[s], Atoms)

RegisteredIsListed ==
    \A s \in Server : pc[s] \in {"verify", "open"} => Listed(NameOf[s], Atoms)

(* A server that met an open one has seen the name in the list, and has found
   that the open one is not the owner if it goes on to take the selection. *)
MetIsOpen ==
    \A s \in Server : \A t \in met[s] :
        /\ pc[t] = "open"
        /\ pc[s] \in Reading => Listed(NameOf[s], data[s])
        /\ pc[s] = "claim" => owner[NameOf[s]] # t

IInv == TypeOK /\ Phases /\ ReadIsListed /\ RegisteredIsListed /\ MetIsOpen

-----------------------------------------------------------------------------
(* What XGetWindowProperty returns is a list of names. *)
LEMMA AtomsType == ASSUME TypeOK PROVE Atoms \in Seq(Name)
  BY DEF TypeOK, Atoms

(* Prepending a name to the list keeps the names that are in it, and adds it. *)
LEMMA PrependListed ==
    ASSUME NEW n \in Name, NEW list \in Seq(Name)
    PROVE  /\ <<n>> \o list \in Seq(Name)
           /\ Listed(n, <<n>> \o list)
           /\ \A m \in Name : Listed(m, list) => Listed(m, <<n>> \o list)
  <1> DEFINE longer == <<n>> \o list
  <1>1. longer \in Seq(Name) /\ Len(longer) = Len(list) + 1 /\ longer[1] = n
    OBVIOUS
  <1>2. \A i \in 1 .. Len(list) : longer[i + 1] = list[i]
    OBVIOUS
  <1>3. DOMAIN longer = 1 .. (Len(list) + 1) /\ DOMAIN list = 1 .. Len(list)
    BY <1>1
  <1>4. Listed(n, longer)
    BY <1>1, <1>3 DEF Listed
  <1>5. ASSUME NEW m \in Name, Listed(m, list) PROVE Listed(m, longer)
    <2>1. PICK i \in 1 .. Len(list) : list[i] = m
      BY <1>3, <1>5 DEF Listed
    <2>2. i + 1 \in DOMAIN longer /\ longer[i + 1] = m
      BY <1>2, <1>3, <2>1
    <2> QED BY <2>2 DEF Listed
  <1> QED BY <1>1, <1>4, <1>5

(* Changing the property as SetXi18nSelectionOwner does keeps every name of the
   list, and has the name of the server in it afterwards. *)
LEMMA RegisterKeepsList ==
    ASSUME IInv, NEW s \in Server, Register(s)
    PROVE  /\ servers' \in Seq(Name)
           /\ Atoms' = servers'
           /\ Listed(NameOf[s], Atoms')
           /\ \A m \in Name : Listed(m, Atoms) => Listed(m, Atoms')
  <1>1. NameOf[s] \in Name /\ Atoms \in Seq(Name)
    BY AtomsType, ServerNameAssumption DEF IInv
  <1>2. \A list \in Seq(Name) : list \notin {Absent, Foreign}
    BY ServerNameAssumption
  <1>3. CASE Listed(NameOf[s], data[s])
    <2>1. servers' = Atoms
      BY <1>3 DEF Register, ChangeProperty
    <2>2. Atoms' = Atoms
      BY <1>1, <1>2, <2>1 DEF Atoms
    <2>3. Listed(NameOf[s], Atoms)
      BY <1>3 DEF IInv, ReadIsListed, Reading, Register
    <2> QED BY <1>1, <2>1, <2>2, <2>3
  <1>4. CASE ~Listed(NameOf[s], data[s])
    <2>1. servers' = <<NameOf[s]>> \o Atoms
      BY <1>4 DEF Register, ChangeProperty
    <2>2. servers' \in Seq(Name)
      BY <1>1, <2>1, PrependListed
    <2>3. Atoms' = servers'
      BY <1>2, <2>2 DEF Atoms
    <2> QED BY <1>1, <2>1, <2>2, <2>3, PrependListed
  <1> QED BY <1>3, <1>4

-----------------------------------------------------------------------------
(* The invariant holds at first.                                            *)
LEMMA InitInv == Init => IInv
  <1> SUFFICES ASSUME Init PROVE IInv
    OBVIOUS
  <1>1. servers \in Seq(Name) \cup {Absent, Foreign}
    <2>1. <<>> \in Seq(Name) /\ \A n \in Name : <<n>> \in Seq(Name)
      OBVIOUS
    <2> QED BY <2>1 DEF Init
  <1>2. request \in [Library -> Request]
    BY DEF Init, NoRequest, Request
  <1>3. TypeOK
    BY <1>1, <1>2, ServerNameAssumption DEF Init, TypeOK, Phase
  <1> QED BY <1>3 DEF Init, IInv, Phases, ReadIsListed, RegisteredIsListed,
                      MetIsOpen, Reading

(* A step of a library keeps the types. *)
LEMMA LibraryType ==
    ASSUME TypeOK, NEW c \in Library,
           Look(c) \/ AskOwner(c) \/ (\E target \in Target : Convert(c, target))
             \/ (\E s \in Server : WaitXSelectionRequest(s, c))
    PROVE  TypeOK'
  <1>1. UNCHANGED <<servers, owner, serverVars>>
    BY DEF Look, AskOwner, Convert, WaitXSelectionRequest
  <1>2. library' \in [Library -> {"waiting", "asking", "found", "converting",
                                  "answered"}]
    BY DEF TypeOK, Look, AskOwner, Convert, WaitXSelectionRequest
  <1>3. notified' \in [Library -> BOOLEAN]
    BY DEF TypeOK, Look, AskOwner, Convert, WaitXSelectionRequest
  <1>4. request' \in [Library -> Request]
    <2>1. CASE Look(c) \/ AskOwner(c)
      BY <2>1 DEF TypeOK, Look, AskOwner
    <2>2. ASSUME NEW target \in Target, Convert(c, target)
          PROVE  request' \in [Library -> Request]
      <3>1. owner[Wanted[c]] \in Server
        BY <2>2, ServerNameAssumption DEF TypeOK, Convert
      <3>2. [server |-> owner[Wanted[c]], target |-> target, answer |-> <<>>]
              \in Request
        BY <3>1 DEF Request
      <3> QED BY <2>2, <3>2 DEF TypeOK, Convert
    <2>3. ASSUME NEW s \in Server, WaitXSelectionRequest(s, c)
          PROVE  request' \in [Library -> Request]
      <3>1. request[c] \in Request
        BY DEF TypeOK
      <3>2. Answer(s, request[c].target) \in
              {<<"locale", t>> : t \in Server} \cup {<<"transport", t>> : t \in Server}
                \cup {<<Garbage, t>> : t \in Server}
        BY DEF Answer
      <3>3. [request[c] EXCEPT !.answer = Answer(s, request[c].target)] \in Request
        BY <3>1, <3>2 DEF Request
      <3>4. request' = [request EXCEPT ![c] =
                [request[c] EXCEPT !.answer = Answer(s, request[c].target)]]
        BY <2>3 DEF WaitXSelectionRequest
      <3> QED BY <3>3, <3>4 DEF TypeOK
    <2> QED BY <2>1, <2>2, <2>3
  <1> QED BY <1>1, <1>2, <1>3, <1>4 DEF TypeOK, serverVars

(* A step that leaves the list and the servers alone. *)
LEMMA LibraryStep ==
    ASSUME IInv, NEW c \in Library,
           Look(c) \/ AskOwner(c) \/ (\E target \in Target : Convert(c, target))
             \/ (\E s \in Server : WaitXSelectionRequest(s, c))
    PROVE  IInv'
  <1>1. UNCHANGED <<servers, owner, serverVars>>
    BY DEF Look, AskOwner, Convert, WaitXSelectionRequest
  <1>2. TypeOK'
    BY LibraryType DEF IInv
  <1> QED BY <1>1, <1>2 DEF IInv, Phases, ReadIsListed, RegisteredIsListed,
                            MetIsOpen, Atoms, serverVars

(* XIM_SERVERS is read at the start of IMOpenIM.                            *)
LEMMA OpenReadStep == ASSUME IInv, NEW s \in Server, OpenRead(s) PROVE IInv'
  <1>1. NameOf[s] \in Name /\ Atoms \in Seq(Name)
    BY AtomsType, ServerNameAssumption DEF IInv
  <1>2. Atoms' = Atoms /\ owner' = owner
    BY DEF OpenRead, Atoms
  <1>3. /\ data' = [data EXCEPT ![s] = Atoms]
        /\ met' = [met EXCEPT ![s] = {t \in Server \ {s} : /\ pc[t] = "open"
                                                           /\ NameOf[t] = NameOf[s]}]
    BY DEF OpenRead
  <1>4. /\ pc' \in [Server -> Phase]
        /\ pc'[s] \in {"failed", "query", "claim"}
        /\ pc'[s] = "claim" => ~Listed(NameOf[s], Atoms)
        /\ \A t \in Server \ {s} : pc'[t] = pc[t]
    BY DEF IInv, TypeOK, OpenRead, Phase
  <1>5. TypeOK'
    <2>1. opened' \in 0 .. MaxOpen
      BY ServerNameAssumption DEF IInv, TypeOK, OpenRead
    <2>2. data' \in [Server -> Seq(Name)] /\ met' \in [Server -> SUBSET Server]
      BY <1>1, <1>3 DEF IInv, TypeOK
    <2>3. UNCHANGED <<servers, owner, notified, library, request>>
      BY DEF OpenRead, libraryVars
    <2> QED BY <1>4, <2>1, <2>2, <2>3 DEF IInv, TypeOK
  <1>6. Phases'
    BY <1>4 DEF IInv, Phases
  <1>7. ReadIsListed'
    BY <1>2, <1>3, <1>4 DEF IInv, TypeOK, ReadIsListed, Reading
  <1>8. RegisteredIsListed'
    BY <1>2, <1>4 DEF IInv, RegisteredIsListed
  <1>9. MetIsOpen'
    <2> SUFFICES ASSUME NEW u \in Server, NEW t \in met'[u]
                 PROVE  /\ pc'[t] = "open"
                        /\ pc'[u] \in Reading => Listed(NameOf[u], data'[u])
                        /\ pc'[u] = "claim" => owner'[NameOf[u]] # t
      BY DEF MetIsOpen
    <2>1. CASE u = s
      <3>1. t \in Server \ {s} /\ pc[t] = "open" /\ NameOf[t] = NameOf[s]
        BY <1>3, <2>1 DEF IInv, TypeOK
      <3>2. Listed(NameOf[s], Atoms)
        BY <3>1 DEF IInv, RegisteredIsListed
      <3>3. data'[s] = Atoms
        BY <1>3 DEF IInv, TypeOK
      <3> QED BY <1>4, <2>1, <3>1, <3>2, <3>3
    <2>2. CASE u # s
      <3>1. t \in met[u] /\ data'[u] = data[u] /\ pc'[u] = pc[u]
        BY <1>3, <1>4, <2>2 DEF IInv, TypeOK
      <3>2. t \in Server /\ pc[t] = "open"
        BY <3>1 DEF IInv, TypeOK, MetIsOpen
      <3>3. t # s
        BY <3>2 DEF OpenRead
      <3> QED BY <1>2, <1>4, <3>1, <3>2, <3>3 DEF IInv, MetIsOpen
    <2> QED BY <2>1, <2>2
  <1> QED BY <1>5, <1>6, <1>7, <1>8, <1>9 DEF IInv

(* The owner of the server's own name is asked for.                         *)
LEMMA QueryOwnerStep == ASSUME IInv, NEW s \in Server, QueryOwner(s) PROVE IInv'
  <1>1. NameOf[s] \in Name
    BY ServerNameAssumption
  <1>2. UNCHANGED <<servers, owner, data, met, opened, notified, libraryVars>>
    BY DEF QueryOwner
  <1>3. /\ pc' \in [Server -> Phase]
        /\ pc[s] = "query"
        /\ pc'[s] \in {"register", "claim", "failed"}
        /\ pc'[s] = "claim" => owner[NameOf[s]] = NoServer
        /\ \A t \in Server \ {s} : pc'[t] = pc[t]
    BY DEF IInv, TypeOK, QueryOwner, Phase
  <1>4. TypeOK'
    BY <1>2, <1>3 DEF IInv, TypeOK, libraryVars
  <1>5. Phases' /\ ReadIsListed' /\ RegisteredIsListed'
    BY <1>2, <1>3 DEF IInv, Phases, ReadIsListed, RegisteredIsListed, Reading, Atoms
  <1>6. MetIsOpen'
    BY <1>2, <1>3, ServerNameAssumption DEF IInv, TypeOK, MetIsOpen, Reading
  <1> QED BY <1>4, <1>5, <1>6 DEF IInv

(* The selection is claimed.                                                *)
LEMMA ClaimStep == ASSUME IInv, NEW s \in Server, Claim(s) PROVE IInv'
  <1>1. NameOf[s] \in Name
    BY ServerNameAssumption
  <1>2. UNCHANGED <<servers, data, met, opened, notified, libraryVars>>
    BY DEF Claim
  <1>3. /\ pc' \in [Server -> Phase]
        /\ pc[s] = "claim" /\ pc'[s] = "register"
        /\ \A t \in Server \ {s} : pc'[t] = pc[t]
    BY DEF IInv, TypeOK, Claim, Phase
  <1>4. /\ owner' \in [Name -> Server \cup {NoServer}]
        /\ \A n \in Name : owner'[n] \in {owner[n], s}
    BY <1>1 DEF IInv, TypeOK, Claim
  <1>5. TypeOK'
    BY <1>2, <1>3, <1>4 DEF IInv, TypeOK, libraryVars
  <1>6. Phases' /\ ReadIsListed' /\ RegisteredIsListed'
    BY <1>2, <1>3 DEF IInv, Phases, ReadIsListed, RegisteredIsListed, Reading, Atoms
  <1>7. MetIsOpen'
    <2> SUFFICES ASSUME NEW u \in Server, NEW t \in met'[u]
                 PROVE  /\ pc'[t] = "open"
                        /\ pc'[u] \in Reading => Listed(NameOf[u], data'[u])
                        /\ pc'[u] = "claim" => owner'[NameOf[u]] # t
      BY DEF MetIsOpen
    <2>1. t \in Server /\ pc[t] = "open" /\ t # s /\ t \in met[u]
      BY <1>2, <1>3 DEF IInv, TypeOK, MetIsOpen
    <2>2. NameOf[u] \in Name
      BY ServerNameAssumption
    <2> QED BY <1>2, <1>3, <1>4, <2>1, <2>2 DEF IInv, MetIsOpen, Reading
  <1> QED BY <1>5, <1>6, <1>7 DEF IInv

(* The atom is put into XIM_SERVERS.                                        *)
LEMMA RegisterStep == ASSUME IInv, NEW s \in Server, Register(s) PROVE IInv'
  <1>1. UNCHANGED <<owner, data, met, opened, libraryVars>>
    BY DEF Register
  <1>2. /\ pc' \in [Server -> Phase]
        /\ pc[s] = "register" /\ pc'[s] = "verify"
        /\ \A t \in Server \ {s} : pc'[t] = pc[t]
    BY DEF IInv, TypeOK, Register, Phase
  <1>3. /\ servers' \in Seq(Name)
        /\ Listed(NameOf[s], Atoms')
        /\ \A m \in Name : Listed(m, Atoms) => Listed(m, Atoms')
    BY RegisterKeepsList
  <1>4. notified' \in [Library -> BOOLEAN]
    BY DEF Register, ChangeProperty
  <1>5. TypeOK'
    BY <1>1, <1>2, <1>3, <1>4 DEF IInv, TypeOK, libraryVars
  <1>6. \A t \in Server : NameOf[t] \in Name
    BY ServerNameAssumption
  <1>7. Phases' /\ ReadIsListed' /\ RegisteredIsListed'
    BY <1>1, <1>2, <1>3, <1>6
       DEF IInv, Phases, ReadIsListed, RegisteredIsListed, Reading
  <1>8. MetIsOpen'
    BY <1>1, <1>2 DEF IInv, TypeOK, MetIsOpen, Reading
  <1> QED BY <1>5, <1>7, <1>8 DEF IInv

(* The property is read back.                                               *)
LEMMA VerifyStep == ASSUME IInv, NEW s \in Server, Verify(s) PROVE IInv'
  <1>1. UNCHANGED <<servers, owner, data, met, opened, notified, libraryVars>>
    BY DEF Verify
  <1>2. /\ pc' \in [Server -> Phase]
        /\ pc[s] = "verify" /\ pc'[s] \in {"open", "failed"}
        /\ \A t \in Server \ {s} : pc'[t] = pc[t]
    BY DEF IInv, TypeOK, Verify, Phase
  <1>3. TypeOK'
    BY <1>1, <1>2 DEF IInv, TypeOK, libraryVars
  <1>4. Phases' /\ ReadIsListed' /\ RegisteredIsListed'
    BY <1>1, <1>2 DEF IInv, Phases, ReadIsListed, RegisteredIsListed, Reading, Atoms
  <1>5. MetIsOpen'
    BY <1>1, <1>2 DEF IInv, TypeOK, MetIsOpen, Reading
  <1> QED BY <1>3, <1>4, <1>5 DEF IInv

(* A server process ends.                                                   *)
LEMMA EndStep == ASSUME IInv, NEW s \in Server, End(s) PROVE IInv'
  <1>1. UNCHANGED <<servers, opened, notified, library>>
    BY DEF End
  <1>2. /\ pc' \in [Server -> Phase]
        /\ pc'[s] = "idle"
        /\ \A t \in Server \ {s} : pc'[t] = pc[t]
    BY DEF IInv, TypeOK, End, Phase
  <1>3. /\ data' \in [Server -> Seq(Name)]
        /\ \A t \in Server \ {s} : data'[t] = data[t]
    BY DEF IInv, TypeOK, End
  <1>4. /\ met' \in [Server -> SUBSET Server]
        /\ met'[s] = {}
        /\ \A t \in Server \ {s} : met'[t] = met[t] \ {s}
    BY DEF IInv, TypeOK, End
  <1>5. /\ owner' \in [Name -> Server \cup {NoServer}]
        /\ \A n \in Name : owner'[n] \in {owner[n], NoServer}
    BY DEF IInv, TypeOK, End
  <1>6. request' \in [Library -> Request]
    <2>1. NoRequest \in Request
      BY DEF NoRequest, Request
    <2> QED BY <2>1 DEF IInv, TypeOK, End
  <1>7. TypeOK'
    BY <1>1, <1>2, <1>3, <1>4, <1>5, <1>6 DEF IInv, TypeOK
  <1>8. Phases' /\ ReadIsListed' /\ RegisteredIsListed'
    BY <1>1, <1>2, <1>3 DEF IInv, Phases, ReadIsListed, RegisteredIsListed, Reading,
                            Atoms
  <1>9. MetIsOpen'
    <2> SUFFICES ASSUME NEW u \in Server, NEW t \in met'[u]
                 PROVE  /\ pc'[t] = "open"
                        /\ pc'[u] \in Reading => Listed(NameOf[u], data'[u])
                        /\ pc'[u] = "claim" => owner'[NameOf[u]] # t
      BY DEF MetIsOpen
    <2>1. u # s /\ t # s /\ t \in met[u] /\ t \in Server
      BY <1>4 DEF IInv, TypeOK
    <2>2. NameOf[u] \in Name
      BY ServerNameAssumption
    <2>3. pc'[t] = pc[t] /\ pc'[u] = pc[u] /\ data'[u] = data[u]
      BY <1>2, <1>3, <2>1
    <2>4. owner'[NameOf[u]] \in {owner[NameOf[u]], NoServer} /\ t # NoServer
      BY <1>5, <2>1, <2>2, ServerNameAssumption
    <2>5. /\ pc[t] = "open"
          /\ pc[u] \in Reading => Listed(NameOf[u], data[u])
          /\ pc[u] = "claim" => owner[NameOf[u]] # t
      BY <2>1 DEF IInv, MetIsOpen
    <2>6. Listed(NameOf[u], data[u]) => Listed(NameOf[u], data'[u])
      BY <2>3
    <2> QED BY <2>3, <2>4, <2>5, <2>6
  <1> QED BY <1>7, <1>8, <1>9 DEF IInv

-----------------------------------------------------------------------------
(* The invariant is inductive while no server closes.                       *)
LEMMA NextInv == ASSUME NoClose PROVE IInv /\ [Next]_vars => IInv'
  <1> SUFFICES ASSUME IInv, [Next]_vars PROVE IInv'
    OBVIOUS
  <1>1. ASSUME NEW s \in Server, OpenRead(s) PROVE IInv'
    BY <1>1, OpenReadStep
  <1>2. ASSUME NEW s \in Server, QueryOwner(s) PROVE IInv'
    BY <1>2, QueryOwnerStep
  <1>3. ASSUME NEW s \in Server, Claim(s) PROVE IInv'
    BY <1>3, ClaimStep
  <1>4. ASSUME NEW s \in Server, Register(s) PROVE IInv'
    BY <1>4, RegisterStep
  <1>5. ASSUME NEW s \in Server, Verify(s) PROVE IInv'
    BY <1>5, VerifyStep
  <1>6. ASSUME NEW s \in Server, CloseRead(s) \/ DeleteXi18nAtom(s) PROVE IInv'
    BY <1>6, NoClose DEF NoClose, CloseRead, DeleteXi18nAtom, IInv, Phases
  <1>7. ASSUME NEW s \in Server, End(s) PROVE IInv'
    BY <1>7, EndStep
  <1>8. ASSUME NEW c \in Library,
               Look(c) \/ AskOwner(c) \/ (\E target \in Target : Convert(c, target))
                 \/ (\E s \in Server : WaitXSelectionRequest(s, c))
        PROVE  IInv'
    BY <1>8, LibraryStep
  <1>9. CASE UNCHANGED vars
    BY <1>9 DEF vars, serverVars, libraryVars, IInv, TypeOK, Phases, ReadIsListed,
                RegisteredIsListed, MetIsOpen, Atoms
  <1>10. CASE Next
    <2>1. \/ \E s \in Server : \/ OpenRead(s) \/ QueryOwner(s) \/ Claim(s)
                               \/ Register(s) \/ Verify(s)
                               \/ CloseRead(s) \/ DeleteXi18nAtom(s)
                               \/ End(s)
          \/ \E c \in Library : \/ Look(c) \/ AskOwner(c)
                                \/ \E target \in Target : Convert(c, target)
                                \/ \E s \in Server : WaitXSelectionRequest(s, c)
      BY <1>10, Zenon DEF Next
    <2>2. CASE \E s \in Server : \/ OpenRead(s) \/ QueryOwner(s) \/ Claim(s)
                                 \/ Register(s) \/ Verify(s)
                                 \/ CloseRead(s) \/ DeleteXi18nAtom(s)
                                 \/ End(s)
      <3>1. PICK s \in Server : \/ OpenRead(s) \/ QueryOwner(s) \/ Claim(s)
                                \/ Register(s) \/ Verify(s)
                                \/ CloseRead(s) \/ DeleteXi18nAtom(s)
                                \/ End(s)
        BY <2>2, Zenon
      <3> QED BY <3>1, <1>1, <1>2, <1>3, <1>4, <1>5, <1>6, <1>7, Zenon
    <2>3. CASE \E c \in Library : \/ Look(c) \/ AskOwner(c)
                                  \/ \E target \in Target : Convert(c, target)
                                  \/ \E s \in Server : WaitXSelectionRequest(s, c)
      <3>1. PICK c \in Library : \/ Look(c) \/ AskOwner(c)
                                 \/ \E target \in Target : Convert(c, target)
                                 \/ \E s \in Server : WaitXSelectionRequest(s, c)
        BY <2>3, Zenon
      <3> QED BY <3>1, <1>8, Zenon
    <2> QED BY <2>1, <2>2, <2>3, Zenon
  <1> QED BY <1>9, <1>10

(* The inductive invariant holds of every behaviour without IMCloseIM. *)
THEOREM Invariance == ASSUME NoClose PROVE Spec => []IInv
  <1>1. Init => IInv
    BY InitInv
  <1>2. IInv /\ [Next]_vars => IInv'
    BY NextInv
  <1> QED BY <1>1, <1>2, PTL DEF Spec

(* Every server that is open is in the list of XIM_SERVERS, however the
   requests of the processes interleave (SetXi18nSelectionOwner). *)
THEOREM OpenServersAreListed == ASSUME NoClose PROVE Spec => []AvailableIsListed
  <1>1. IInv => AvailableIsListed
    BY DEF IInv, RegisteredIsListed, AvailableIsListed
  <1> QED BY <1>1, Invariance, PTL

(* A step that takes a selection from its owner is taken by a server that began
   to open before that owner was open. *)
LEMMA OwnerStep ==
    ASSUME NoClose, IInv, [Next]_vars, NEW s \in Server, NEW t \in Server,
           NEW n \in Name, owner[n] = t, owner'[n] = s, s # t
    PROVE  t \notin met[s]
  <1>1. owner' # owner
    OBVIOUS
  <1>2. PICK u \in Server : Claim(u) \/ End(u)
    BY <1>1 DEF Next, vars, OpenRead, QueryOwner, Register, Verify, CloseRead,
                DeleteXi18nAtom, Look, AskOwner, Convert, WaitXSelectionRequest
  <1>3. CASE End(u)
    BY <1>3, ServerNameAssumption DEF End, IInv, TypeOK
  <1>4. CASE Claim(u)
    <2>1. u = s /\ n = NameOf[s] /\ pc[s] = "claim"
      BY <1>4 DEF Claim, IInv, TypeOK
    <2> QED BY <2>1 DEF IInv, MetIsOpen
  <1> QED BY <1>2, <1>3, <1>4

(* A server that is open is never replaced as the owner of its selection by one
   that began to open after it (SetXi18nSelectionOwner). *)
THEOREM OpenServersKeepNames == ASSUME NoClose PROVE Spec => OpenServerKeepsName
  <1>1. IInv /\ [Next]_vars =>
          [\A s, t \in Server : \A n \in Name :
              owner[n] = t /\ owner'[n] = s /\ s # t => t \notin met[s]]_vars
    BY OwnerStep
  <1> QED BY <1>1, Invariance, PTL DEF Spec, OpenServerKeepsName
-----------------------------------------------------------------------------
(* With servers that are closed, too. *)

(* Any XChangeProperty leaves a list of names. *)
LEMMA ListType ==
    ASSUME TypeOK, NEW s \in Server, Register(s) \/ DeleteXi18nAtom(s)
    PROVE  servers' \in Seq(Name)
  <1>1. NameOf[s] \in Name /\ Atoms \in Seq(Name) /\ data[s] \in Seq(Name)
    BY AtomsType, ServerNameAssumption DEF TypeOK
  <1>2. <<NameOf[s]>> \o Atoms \in Seq(Name)
    BY <1>1, PrependListed
  <1>3. RemoveFirst(data[s], NameOf[s]) \in Seq(Name)
    <2> DEFINE list == data[s]
               n == NameOf[s]
               I == {i \in 1 .. Len(list) : list[i] = n}
    <2>1. CASE \E i \in 1 .. Len(list) : list[i] = n
      <3>1. RemoveFirst(list, n) = RemoveAt(list, SelectInSeq(list, LAMBDA v : v = n))
        BY <2>1, Zenon DEF RemoveFirst
      <3>2. SelectInSeq(list, LAMBDA v : v = n) = Min(I)
        BY <2>1 DEF SelectInSeq
      <3>3. I \in SUBSET Nat /\ I # {}
        BY <2>1
      <3>4. Min(I) \in I
        BY <3>3, MinFacts
      <3>5. Min(I) \in 1 .. Len(list)
        BY <3>4
      <3> HIDE DEF list, n, I
      <3>6. RemoveAt(list, Min(I)) \in Seq(Name)
        BY <1>1, <3>5, RemoveAtFacts DEF list
      <3> QED BY <3>1, <3>2, <3>6 DEF list, n
    <2>2. CASE ~ \E i \in 1 .. Len(list) : list[i] = n
      BY <1>1, <2>2 DEF RemoveFirst
    <2> QED BY <2>1, <2>2
  <1>4. servers' \in {Atoms, <<NameOf[s]>> \o Atoms, RemoveFirst(data[s], NameOf[s])}
    BY DEF Register, DeleteXi18nAtom, ChangeProperty
  <1> QED BY <1>1, <1>2, <1>3, <1>4

(* Every step of a server keeps the types. *)
LEMMA ServerType ==
    ASSUME TypeOK, NEW s \in Server,
           \/ OpenRead(s) \/ QueryOwner(s) \/ Claim(s) \/ Register(s) \/ Verify(s)
           \/ CloseRead(s) \/ DeleteXi18nAtom(s) \/ End(s)
    PROVE  TypeOK'
  <1>1. NameOf[s] \in Name /\ Atoms \in Seq(Name)
    BY AtomsType, ServerNameAssumption
  <1>2. CASE OpenRead(s)
    <2>1. opened' \in 0 .. MaxOpen
      BY <1>2, ServerNameAssumption DEF OpenRead, TypeOK
    <2>2. pc' \in [Server -> Phase]
      BY <1>2 DEF OpenRead, TypeOK, Phase
    <2>3. data' \in [Server -> Seq(Name)] /\ met' \in [Server -> SUBSET Server]
      BY <1>1, <1>2 DEF OpenRead, TypeOK
    <2> QED BY <1>2, <2>1, <2>2, <2>3 DEF OpenRead, TypeOK, libraryVars
  <1>3. CASE QueryOwner(s) \/ Claim(s) \/ Verify(s)
    <2>1. pc' \in [Server -> Phase]
      BY <1>3 DEF QueryOwner, Claim, Verify, TypeOK, Phase
    <2>2. owner' \in [Name -> Server \cup {NoServer}]
      <3>1. owner \in [Name -> Server \cup {NoServer}]
        BY DEF TypeOK
      <3>2. owner' = owner \/ owner' = [owner EXCEPT ![NameOf[s]] = s]
        BY <1>3 DEF QueryOwner, Claim, Verify
      <3> QED BY <1>1, <3>1, <3>2
    <2> QED BY <1>3, <2>1, <2>2 DEF QueryOwner, Claim, Verify, TypeOK, libraryVars
  <1>4. CASE Register(s) \/ DeleteXi18nAtom(s)
    <2>1. servers' \in Seq(Name)
      BY <1>4, ListType
    <2>2. pc' \in [Server -> Phase]
      BY <1>4 DEF Register, DeleteXi18nAtom, TypeOK, Phase
    <2>3. notified' \in [Library -> BOOLEAN]
      BY <1>4 DEF Register, DeleteXi18nAtom, ChangeProperty
    <2> QED BY <1>4, <2>1, <2>2, <2>3 DEF Register, DeleteXi18nAtom, TypeOK, libraryVars
  <1>5. CASE CloseRead(s)
    <2>1. pc' \in [Server -> Phase]
      BY <1>5 DEF CloseRead, TypeOK, Phase
    <2>2. data' \in [Server -> Seq(Name)] /\ met' \in [Server -> SUBSET Server]
      BY <1>1, <1>5 DEF CloseRead, TypeOK
    <2> QED BY <1>5, <2>1, <2>2 DEF CloseRead, TypeOK, libraryVars
  <1>6. CASE End(s)
    <2>1. pc' \in [Server -> Phase] /\ met' \in [Server -> SUBSET Server]
      BY <1>6 DEF End, TypeOK, Phase
    <2>2. data' \in [Server -> Seq(Name)]
      <3>1. <<>> \in Seq(Name)
        OBVIOUS
      <3> QED BY <1>6, <3>1 DEF End, TypeOK
    <2>3. owner' \in [Name -> Server \cup {NoServer}]
      BY <1>6 DEF End, TypeOK
    <2>4. request' \in [Library -> Request]
      <3>1. NoRequest \in Request
        BY DEF NoRequest, Request
      <3> QED BY <1>6, <3>1 DEF End, TypeOK
    <2> QED BY <1>6, <2>1, <2>2, <2>3, <2>4 DEF End, TypeOK
  <1> QED BY <1>2, <1>3, <1>4, <1>5, <1>6

(* The types hold of every behaviour, whoever may call IMCloseIM. *)
THEOREM TypeCorrect == Spec => []TypeOK
  <1>1. Init => TypeOK
    BY InitInv DEF IInv
  <1>2. TypeOK /\ [Next]_vars => TypeOK'
    <2> SUFFICES ASSUME TypeOK, [Next]_vars PROVE TypeOK'
      OBVIOUS
    <2>1. ASSUME NEW c \in Library,
                 Look(c) \/ AskOwner(c) \/ (\E target \in Target : Convert(c, target))
                   \/ (\E s \in Server : WaitXSelectionRequest(s, c))
          PROVE  TypeOK'
      BY <2>1, LibraryType
    <2>2. CASE UNCHANGED vars
      BY <2>2 DEF vars, serverVars, libraryVars, TypeOK
    <2> QED BY <2>1, <2>2, ServerType DEF Next
  <1> QED BY <1>1, <1>2, PTL DEF Spec

(* A library that waits, with no PropertyNotify in its queue, waits for a server
   that is not there yet: one that has registered, is listed and owns the name
   would have notified it.  This is NoMissedServer from the registration on. *)
NoneMissed ==
    \A c \in Library : library[c] = "waiting" /\ ~notified[c] =>
        \A s \in Server : ~ (/\ pc[s] \in {"verify", "open"}
                             /\ owner[Wanted[c]] = s
                             /\ Listed(Wanted[c], Atoms))

(* No step of a server makes it what a sleeping library waits for: the property is
   changed, and every library notified, after the selection has been taken. *)
LEMMA ServerMisses ==
    ASSUME TypeOK, NoneMissed, NEW s \in Server,
           \/ OpenRead(s) \/ QueryOwner(s) \/ Claim(s) \/ Register(s) \/ Verify(s)
           \/ CloseRead(s) \/ DeleteXi18nAtom(s) \/ End(s)
    PROVE  NoneMissed'
  <1>1. pc \in [Server -> Phase] /\ owner \in [Name -> Server \cup {NoServer}]
    BY DEF TypeOK
  <1>2. CASE Register(s) \/ DeleteXi18nAtom(s)
    BY <1>2 DEF Register, DeleteXi18nAtom, ChangeProperty, NoneMissed
  <1>3. ASSUME UNCHANGED <<servers, notified, library>>,
               \A n \in Name : \A t \in Server :
                  owner'[n] = t /\ pc'[t] \in {"verify", "open"} =>
                      owner[n] = t /\ pc[t] \in {"verify", "open"}
        PROVE  NoneMissed'
    <2>1. \A c \in Library : Wanted[c] \in Name
      BY ServerNameAssumption
    <2>2. Atoms' = Atoms
      BY <1>3 DEF Atoms
    <2> QED BY <1>3, <2>1, <2>2 DEF NoneMissed
  <1>4. CASE OpenRead(s) \/ QueryOwner(s) \/ Verify(s) \/ CloseRead(s)
    <2>1. UNCHANGED <<servers, notified, library, owner>>
      BY <1>4 DEF OpenRead, QueryOwner, Verify, CloseRead, libraryVars
    <2>2. \A t \in Server : pc'[t] \in {"verify", "open"} => pc[t] \in {"verify", "open"}
      BY <1>1, <1>4 DEF OpenRead, QueryOwner, Verify, CloseRead
    <2> QED BY <1>3, <2>1, <2>2
  <1>5. CASE Claim(s)
    <2>1. /\ UNCHANGED <<servers, notified, library>>
          /\ owner' = [owner EXCEPT ![NameOf[s]] = s]
          /\ pc' = [pc EXCEPT ![s] = "register"]
      BY <1>5 DEF Claim, libraryVars
    <2>2. ASSUME NEW n \in Name, NEW t \in Server,
                 owner'[n] = t, pc'[t] \in {"verify", "open"}
          PROVE  owner[n] = t /\ pc[t] \in {"verify", "open"}
      <3>1. t # s
        BY <1>1, <2>1, <2>2
      <3> QED BY <1>1, <2>1, <2>2, <3>1
    <2> QED BY <1>3, <2>1, <2>2
  <1>6. CASE End(s)
    <2>1. /\ UNCHANGED <<servers, notified, library>>
          /\ owner' = [n \in Name |-> IF owner[n] = s THEN NoServer ELSE owner[n]]
          /\ pc' = [pc EXCEPT ![s] = "idle"]
      BY <1>6 DEF End
    <2>2. ASSUME NEW n \in Name, NEW t \in Server,
                 owner'[n] = t, pc'[t] \in {"verify", "open"}
          PROVE  owner[n] = t /\ pc[t] \in {"verify", "open"}
      <3>1. t # s
        BY <1>1, <2>1, <2>2
      <3> QED BY <1>1, <2>1, <2>2, <3>1, ServerNameAssumption
    <2> QED BY <1>3, <2>1, <2>2
  <1> QED BY <1>2, <1>4, <1>5, <1>6

(* A library goes to sleep over a name that is not listed, or that nobody owns. *)
LEMMA LibraryMisses ==
    ASSUME TypeOK, NoneMissed, NEW c \in Library,
           Look(c) \/ AskOwner(c) \/ (\E target \in Target : Convert(c, target))
             \/ (\E s \in Server : WaitXSelectionRequest(s, c))
    PROVE  NoneMissed'
  <1>1. /\ pc' = pc /\ owner' = owner /\ Atoms' = Atoms
        /\ \A d \in Library \ {c} : library'[d] = library[d] /\ notified'[d] = notified[d]
    BY DEF Look, AskOwner, Convert, WaitXSelectionRequest, serverVars, Atoms, TypeOK
  <1>2. ASSUME library'[c] = "waiting", ~notified'[c], NEW s \in Server,
               pc[s] \in {"verify", "open"}, owner[Wanted[c]] = s, Listed(Wanted[c], Atoms)
        PROVE  FALSE
    <2>1. CASE Look(c)
      BY <1>2, <2>1 DEF Look, TypeOK
    <2>2. CASE AskOwner(c)
      BY <1>2, <2>2, ServerNameAssumption DEF AskOwner, TypeOK
    <2>3. CASE (\E target \in Target : Convert(c, target))
                  \/ (\E t \in Server : WaitXSelectionRequest(t, c))
      BY <1>2, <2>3 DEF Convert, WaitXSelectionRequest, TypeOK
    <2> QED BY <2>1, <2>2, <2>3
  <1> QED BY <1>1, <1>2 DEF NoneMissed

(* No library sleeps while its server is open, owns its name and is listed, even
   where servers are closed and the list is rewritten: SetXi18nSelectionOwner
   changes the property after it has taken the selection, and changes it even
   when the name is in it already. *)
THEOREM NoServerMissed == Spec => []NoMissedServer
  <1>1. Init => NoneMissed
    BY DEF Init, NoneMissed
  <1>2. TypeOK /\ NoneMissed /\ [Next]_vars => NoneMissed'
    <2> SUFFICES ASSUME TypeOK, NoneMissed, [Next]_vars PROVE NoneMissed'
      OBVIOUS
    <2>1. CASE UNCHANGED vars
      BY <2>1 DEF vars, serverVars, libraryVars, NoneMissed, Atoms
    <2>2. CASE Next
      BY <2>2, ServerMisses, LibraryMisses DEF Next
    <2> QED BY <2>1, <2>2
  <1>3. NoneMissed => NoMissedServer
    BY DEF NoneMissed, NoMissedServer
  <1> QED BY <1>1, <1>2, <1>3, TypeCorrect, PTL DEF Spec
=============================================================================
