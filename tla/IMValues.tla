------------------------------ MODULE IMValues ------------------------------
(***************************************************************************)
(* The values of an input method service: IMOpenIM, IMSetIMValues and      *)
(* IMGetIMValues (IMdkit/IMConn.c, IMValues.c) with ParseArgs, xi18n_setup *)
(* and CheckIMName of i18nMethod.c.                                        *)
(*                                                                         *)
(* A call gives a list of names and values, each registered as it is met:  *)
(* the list is left at the first that cannot be, with what came before it  *)
(* registered.  A value that was registered is kept for good, but for the  *)
(* protocol handler.  To get values, a caller gives the address of a       *)
(* variable with each name.                                                *)
(*                                                                         *)
(* Left out: memory that cannot be allocated, and calls without any name   *)
(* (the list is then a null pointer, which ParseArgs follows).             *)
(***************************************************************************)
EXTENDS Naturals, Sequences, SequencesExt

CONSTANTS Value,      \* what a caller gives as a value
          Offered,    \* the names that the callers use
          XAddress,   \* the values that start with "X/", after blanks
          Xi18nModifiers,  \* the values that are "Xi18n" or empty
          Empty,      \* what is read of a value that was never set
          SetLists,   \* the lists that a caller opens or sets with
          GetLists    \* and those that it gets with

(* The names of IMdkit.h that ParseArgs knows. *)
Required == {"locale", "serverTransport"}
Copied == Required \cup {"serverName"}
Guarded == {"serverName", "serverWindow", "onKeysList", "offKeysList",
            "encodingList", "filterEventMask", "protocolHandler"}
IMNames == Required \cup Guarded \cup {"inputStyles"}

VARIABLES ims,      \* the service is open
          address,  \* the values registered; its domain is imvalue_mask
          out,      \* out[n]: the caller's variable for the value of n
          last      \* a call and what it has returned, until the
             \* caller has looked at it (history)

vars == <<ims, address, out, last>>

Null == "NULL"
NamesOf(args) == {args[i].name : i \in DOMAIN args}
NoValue == [n \in {} |-> Empty]
NoCall == [call |-> "none", args |-> <<>>, ret |-> Null]

Init == /\ ims = FALSE
        /\ address = NoValue
        /\ out = [n \in Offered |-> Empty]
        /\ last = NoCall

-----------------------------------------------------------------------------
Register(values, p) == [n \in DOMAIN values \cup {p.name} |->
                           IF n = p.name THEN p.value ELSE values[n]]

(* Mutant: an argument that cannot be registered is passed over. *)
SetArgPassing(parsed, p) ==
    IF p.name \notin IMNames THEN parsed
    ELSE IF p.name \in DOMAIN parsed.values \ {"protocolHandler"}
         THEN [parsed EXCEPT !.ret = p.name]
    ELSE [parsed EXCEPT !.values = Register(@, p)]

(* One argument of ParseArgs to open or to set.  A name that it does not know is
   passed over. *)
SetArg(parsed, p) ==
    IF parsed.ret # Null \/ p.name \notin IMNames THEN parsed
    ELSE IF p.name \in DOMAIN parsed.values \ {"protocolHandler"}
         THEN [parsed EXCEPT !.ret = p.name]
    ELSE [parsed EXCEPT !.values = Register(@, p)]

SetArgs(values, args) ==
    FoldLeft(SetArg, [values |-> values, ret |-> Null], args)

(* Mutant: the locale is not looked for. *)
MandatoryAddress(parsed) ==
    IF parsed.ret = Null /\ "serverTransport" \notin DOMAIN parsed.values
    THEN [parsed EXCEPT !.ret = "serverTransport"] ELSE parsed

(* The values that must be there when the service is opened. *)
Mandatory(parsed) ==
    IF parsed.ret # Null THEN parsed
    ELSE IF "locale" \notin DOMAIN parsed.values THEN [parsed EXCEPT !.ret = "locale"]
    ELSE IF "serverTransport" \notin DOMAIN parsed.values
         THEN [parsed EXCEPT !.ret = "serverTransport"]
    ELSE parsed

(* Mutant: the guard of the mask is missing. *)
GetArgUnguarded(parsed, p) ==
    IF parsed.ret # Null \/ p.name \in Copied \/ p.name \notin IMNames THEN parsed
    ELSE [parsed EXCEPT !.out[p.name] =
             IF p.name \in DOMAIN address THEN address[p.name] ELSE Empty]

(* One argument of ParseArgs to get.  Input styles that were never set are an
   empty list.  The locale, the transport and the name are copied to the
   entry of the list of arguments, which is freed: the caller's variable is not
   written. *)
GetArg(parsed, p) ==
    IF parsed.ret # Null THEN parsed
    ELSE IF p.name \in Guarded \ DOMAIN address THEN [parsed EXCEPT !.ret = p.name]
    ELSE IF p.name \in Copied \/ p.name \notin IMNames THEN parsed
    ELSE [parsed EXCEPT !.out[p.name] =
             IF p.name \in DOMAIN address THEN address[p.name] ELSE Empty]

GetArgs(args) == FoldLeft(GetArg, [out |-> out, ret |-> Null], args)

-----------------------------------------------------------------------------
(* The first value given with IMModifiers, which tells the protocol: _GetIMS
   knows Xi18n, and takes it when there is none. *)
Modifiers(args) == SelectInSeq(args, LAMBDA p : p.name = "modifiers")
GetIMS(args) == \/ Modifiers(args) = 0
                \/ args[Modifiers(args)].value \in Xi18nModifiers

(* Only the X transport is built in. *)
CheckIMName(values) == values["serverTransport"] \in XAddress

(* The selection of the server may be another's: see ServerName.  Whatever goes
   wrong, the values are freed. *)
IMOpenIM(args) ==
    LET parsed == Mandatory(SetArgs(NoValue, args))
    IN  /\ ~ims
        /\ last = NoCall
        /\ \E selection \in BOOLEAN :
              ims' = (GetIMS(args) /\ parsed.ret = Null
                        /\ CheckIMName(parsed.values) /\ selection)
        /\ address' = IF ims' THEN parsed.values ELSE NoValue
        /\ last' = [call |-> "open", args |-> args, ret |-> parsed.ret]
        /\ UNCHANGED out

IMSetIMValues(args) ==
    LET parsed == SetArgs(address, args)
    IN  /\ ims
        /\ last = NoCall
        /\ address' = parsed.values
        /\ last' = [call |-> "set", args |-> args, ret |-> parsed.ret]
        /\ UNCHANGED <<ims, out>>

IMGetIMValues(args) ==
    LET parsed == GetArgs(args)
    IN  /\ ims
        /\ last = NoCall
        /\ out' = parsed.out
        /\ last' = [call |-> "get", args |-> args, ret |-> parsed.ret]
        /\ UNCHANGED <<ims, address>>

(* The caller has read its variables, which are of no use after that. *)
Return == /\ last # NoCall
          /\ out' = [n \in Offered |-> Empty]
          /\ last' = NoCall
          /\ UNCHANGED <<ims, address>>

(* xi18n_closeIM frees the service. *)
IMCloseIM == /\ ims
             /\ last = NoCall
             /\ ims' = FALSE
             /\ address' = NoValue
             /\ UNCHANGED <<out, last>>

Next == \/ \E args \in SetLists : IMOpenIM(args) \/ IMSetIMValues(args)
        \/ \E args \in GetLists : IMGetIMValues(args)
        \/ Return
        \/ IMCloseIM

Spec == Init /\ [][Next]_vars

-----------------------------------------------------------------------------
(* Every variable holds a value of the kind the code gives it; an open service
   has a locale and a transport that can be used. *)
TypeOK ==
    /\ ims \in BOOLEAN
    /\ DOMAIN address \subseteq IMNames
    /\ \A n \in DOMAIN address : address[n] \in Value
    /\ out \in [Offered -> Value \cup {Empty}]
    /\ ims => Required \subseteq DOMAIN address /\ CheckIMName(address)
    /\ ~ims => address = NoValue

(* The first position at which a name cannot be registered any more: it was
   registered before this call, or by it. *)
Refused(known, args) ==
    LET once(i) == args[i].name \in IMNames \ {"protocolHandler"}
    IN  {i \in DOMAIN args : /\ once(i)
                             /\ \/ args[i].name \in known
                                \/ \E j \in 1 .. i - 1 : args[j].name = args[i].name}
FirstOf(S, args) == CHOOSE i \in S \cup {Len(args) + 1} : \A j \in S : i <= j

(* What a call to set does with a list of which one value is refused: the call
   returns the name of the first that is, everything before it is registered, and
   nothing from there on (i18nMethod.c:181-320, IMValues.c:102-124). *)
SetStopsAtRefused ==
    [][last'.call = "set" /\ ims =>
          LET args == last'.args
              refused == Refused(DOMAIN address, args)
              first == FirstOf(refused, args)
          IN  /\ last'.ret = IF refused = {} THEN Null ELSE args[first].name
              /\ DOMAIN address' = DOMAIN address \cup
                     {args[i].name : i \in {j \in 1 .. first - 1 :
                                               args[j].name \in IMNames}}
              /\ \A i \in 1 .. first - 1 :
                    args[i].name \in IMNames \ {"protocolHandler"} =>
                        address'[args[i].name] = args[i].value]_vars

(* What a call to get does with a list: it returns the name of the first value that
   was never set, if there is one, and the variables of the names before that hold
   what is registered.  No other is written.  That takes in the locale, the
   transport and the server's name, whose copies are lost: NULL is returned, yet
   the caller has not got them (i18nMethod.c:338-460, IMValues.c:80-101). *)
GetReadsRegistered ==
    last.call = "get" =>
        LET args == last.args
            lost == {i \in DOMAIN args : args[i].name \in Guarded \ DOMAIN address}
            first == FirstOf(lost, args)
            before == {args[i].name : i \in 1 .. first - 1}
        IN  /\ last.ret = IF lost = {} THEN Null ELSE args[first].name
            /\ \A n \in Offered :
                  out[n] = IF n \in (before \cap DOMAIN address) \ Copied
                           THEN address[n] ELSE Empty
=============================================================================
