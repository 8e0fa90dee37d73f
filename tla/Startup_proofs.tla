--------------------------- MODULE Startup_proofs ---------------------------
(***************************************************************************)
(* Proofs about the values of a service (IMValues) and about the way it    *)
(* comes up (MCStartup).                                                   *)
(***************************************************************************)
EXTENDS MCStartup, ServerName_proofs

(* What can be registered, and a list of arguments on its way through ParseArgs. *)
Registered == UNION {[D -> Value] : D \in SUBSET Values!IMNames}
Rets == Values!IMNames \cup {Values!Null}
Arg == [name : Offered, value : Value]
Parsed == [values : Registered, ret : Rets]
Got == [out : [Offered -> Value \cup {Empty}], ret : Rets]

-----------------------------------------------------------------------------
(* A value that is registered is added or goes over the one before it.      *)
LEMMA RegisterFacts ==
    ASSUME NEW v \in Registered, NEW p \in Arg, p.name \in Values!IMNames
    PROVE  /\ Values!Register(v, p) \in Registered
           /\ DOMAIN Values!Register(v, p) = DOMAIN v \cup {p.name}
           /\ Values!Register(v, p)[p.name] = p.value
           /\ \A n \in DOMAIN v \ {p.name} : Values!Register(v, p)[n] = v[n]
<1> DEFINE r == Values!Register(v, p)
           D == DOMAIN v \cup {p.name}
<1>1. PICK E \in SUBSET Values!IMNames : v \in [E -> Value]
  BY DEF Registered
<1>2. r = [n \in D |-> IF n = p.name THEN p.value ELSE v[n]]
  BY DEF Values!Register
<1>3. D \in SUBSET Values!IMNames /\ p.value \in Value /\ \A n \in DOMAIN v : v[n] \in Value
  BY <1>1 DEF Arg
<1> HIDE DEF r
<1>4. r \in [D -> Value]
  BY <1>2, <1>3
<1>5. r \in Registered
  BY <1>3, <1>4 DEF Registered
<1>6. QED BY <1>2, <1>5 DEF r

(* A value that is registered and may not be set again.                     *)
Taken(t, p) == p.name \in DOMAIN t.values \ {"protocolHandler"}

(* What one argument does, case by case, and that it keeps the types. *)
LEMMA SetArgCases ==
    ASSUME NEW t \in Parsed, NEW p \in Arg
    PROVE  LET r == Values!SetArg(t, p)
           IN  /\ r \in Parsed
               /\ t.ret # Values!Null => r = t
               /\ p.name \notin Values!IMNames => r = t
               /\ t.ret = Values!Null /\ p.name \in Values!IMNames /\ Taken(t, p) =>
                     r.values = t.values /\ r.ret = p.name
               /\ t.ret = Values!Null /\ p.name \in Values!IMNames /\ ~Taken(t, p) =>
                     r.values = Values!Register(t.values, p) /\ r.ret = Values!Null
<1> DEFINE r == Values!SetArg(t, p)
<1>1. t.ret # Values!Null => r = t
  BY DEF Values!SetArg
<1>2. p.name \notin Values!IMNames => r = t
  BY DEF Values!SetArg
<1>3. ASSUME t.ret = Values!Null, p.name \in Values!IMNames, Taken(t, p)
      PROVE  r \in Parsed /\ r.values = t.values /\ r.ret = p.name
  <2>1. r = [t EXCEPT !.ret = p.name]
    BY <1>3 DEF Values!SetArg, Taken
  <2>2. QED BY <1>3, <2>1 DEF Parsed, Rets
<1>4. ASSUME t.ret = Values!Null, p.name \in Values!IMNames, ~Taken(t, p)
      PROVE  /\ r \in Parsed /\ r.values = Values!Register(t.values, p)
             /\ r.ret = Values!Null
  <2>1. r = [t EXCEPT !.values = Values!Register(@, p)]
    BY <1>4 DEF Values!SetArg, Taken
  <2>2. Values!Register(t.values, p) \in Registered
    BY <1>4, RegisterFacts DEF Parsed
  <2>3. QED BY <1>4, <2>1, <2>2 DEF Parsed
<1> HIDE DEF r
<1>5. QED BY <1>1, <1>2, <1>3, <1>4 DEF r

(* The states of ParseArgs, one after each argument.                        *)
SetSteps(st, v, args) ==
    /\ st \in [0 .. Len(args) -> Parsed]
    /\ st[0] = [values |-> v, ret |-> Values!Null]
    /\ \A k \in 1 .. Len(args) : st[k] = Values!SetArg(st[k - 1], args[k])
    /\ Values!SetArgs(v, args) = st[Len(args)]

(* ParseArgs takes the arguments one by one, for a list of any length. *)
LEMMA SetArgsSteps ==
    ASSUME NEW v \in Registered, NEW args \in Seq(Arg)
    PROVE  \E st : SetSteps(st, v, args)
<1> DEFINE n == Len(args)
           base == [values |-> v, ret |-> Values!Null]
           g == [k \in 1 .. n |-> [t \in Parsed |-> Values!SetArg(t, args[k])]]
           E(it) == it = [I \in SUBSET (DOMAIN args) |->
                             IF I = {} THEN base
                             ELSE LET k == Max(I) IN Values!SetArg(it[I \ {k}], args[k])]
           J == CHOOSE it : E(it)
<1>1. n \in Nat /\ DOMAIN args = 1 .. n /\ \A k \in 1 .. n : args[k] \in Arg
  OBVIOUS
<1>2. base \in Parsed
  BY DEF Parsed, Rets
<1>3. g \in [1 .. n -> [Parsed -> Parsed]]
  BY <1>1, SetArgCases
<1>4. \A k \in 1 .. n : \A t \in Parsed : g[k][t] = Values!SetArg(t, args[k])
  OBVIOUS
<1> HIDE DEF n, g, base
<1>5. PICK it \in [SUBSET (1 .. n) -> Parsed] : Folds(it, n, base, g)
  BY <1>1, <1>2, <1>3, Folded
<1>6. \A I \in SUBSET (1 .. n) :
         I # {} => Max(I) \in 1 .. n /\ I \ {Max(I)} \in SUBSET (1 .. n)
  BY <1>1, MaxFacts
<1>7. E(it)
  <2>1. \A I \in SUBSET (1 .. n) :
           it[I] = IF I = {} THEN base ELSE Values!SetArg(it[I \ {Max(I)}], args[Max(I)])
    BY <1>4, <1>5, <1>6 DEF Folds
  <2>2. QED BY <1>1, <1>5, <2>1
<1>8. E(J)
  BY <1>7
<1>9. Values!SetArgs(v, args) = J[DOMAIN args]
  BY Zenon DEF Values!SetArgs, Values!FoldLeft, Values!MapThenFoldSet, Values!Max, Max, base
<1> HIDE DEF J
<1>10. Unfolds(J, Parsed, n, base, g)
  BY <1>1, <1>4, <1>6, <1>8 DEF Unfolds
<1> HIDE DEF E
<1>11. PICK st : Run(st, Parsed, n, base, g) /\ J[1 .. n] = st[n]
  <2>1. HasRun(J, Parsed, n, base, g)
    BY <1>1, <1>2, <1>3, <1>10, FoldRun, Zenon
  <2>2. QED BY <2>1 DEF HasRun
<1>12. SetSteps(st, v, args)
  <2>1. \A k \in 1 .. n : st[k] = Values!SetArg(st[k - 1], args[k])
    BY <1>4, <1>11 DEF Run
  <2>2. Values!SetArgs(v, args) = st[n]
    BY <1>1, <1>9, <1>11
  <2>3. QED BY <1>11, <2>1, <2>2 DEF Run, SetSteps, n, base
<1>13. QED BY <1>12

(* The names that the code knows among the first m arguments.               *)
Upto(args, m) == {args[i].name : i \in {j \in 1 .. m : args[j].name \in Values!IMNames}}

(* The first m arguments were registered on top of v, and nothing else was. *)
Stored(values, v, args, m) ==
    /\ \A i \in 1 .. m : i \notin Values!Refused(DOMAIN v, args)
    /\ DOMAIN values = DOMAIN v \cup Upto(args, m)
    /\ \A i \in 1 .. m : args[i].name \in Values!IMNames \ {"protocolHandler"} =>
                            values[args[i].name] = args[i].value
    /\ \A n \in DOMAIN v \ {"protocolHandler"} : values[n] = v[n]

(* One more name.                                                           *)
LEMMA UptoNext ==
    ASSUME NEW args \in Seq(Arg), NEW m \in Nat, m + 1 \in 1 .. Len(args)
    PROVE  Upto(args, m + 1) = Upto(args, m) \cup
              (IF args[m + 1].name \in Values!IMNames THEN {args[m + 1].name} ELSE {})
<1>1. \A i : i \in 1 .. m + 1 <=> i \in 1 .. m \/ i = m + 1
  OBVIOUS
<1>2. QED BY <1>1 DEF Upto

(* An argument that is refused was registered before, and the other way round. *)
LEMMA RefusedIs ==
    ASSUME NEW args \in Seq(Arg), NEW v, NEW values, NEW m \in Nat, m + 1 \in 1 .. Len(args),
           Stored(values, v, args, m)
    PROVE  m + 1 \in Values!Refused(DOMAIN v, args) <=>
              /\ args[m + 1].name \in Values!IMNames
              /\ args[m + 1].name \in DOMAIN values \ {"protocolHandler"}
<1> DEFINE p == args[m + 1]
<1>1. m + 1 \in DOMAIN args /\ (m + 1) - 1 = m
  OBVIOUS
<1>2. m + 1 \in Values!Refused(DOMAIN v, args) <=>
         /\ p.name \in Values!IMNames \ {"protocolHandler"}
         /\ \/ p.name \in DOMAIN v
            \/ \E j \in 1 .. m : args[j].name = p.name
  BY <1>1 DEF Values!Refused
<1>3. DOMAIN values = DOMAIN v \cup Upto(args, m)
  BY DEF Stored
<1>4. p.name \in Values!IMNames =>
         (p.name \in Upto(args, m) <=> \E j \in 1 .. m : args[j].name = p.name)
  BY DEF Upto
<1> HIDE DEF p
<1>5. QED BY <1>2, <1>3, <1>4 DEF p

(* After each argument: everything was registered up to there, or up to the first
   that is refused, whose name the call returns.                            *)
SetState(t, v, args, k) ==
    /\ t.ret = Values!Null => Stored(t.values, v, args, k)
    /\ t.ret # Values!Null =>
          \E f \in 1 .. k : /\ f \in Values!Refused(DOMAIN v, args)
                            /\ t.ret = args[f].name
                            /\ Stored(t.values, v, args, f - 1)

(* One more argument keeps what is known of a call to set. *)
LEMMA SetStateNext ==
    ASSUME NEW args \in Seq(Arg), NEW v, NEW m \in Nat, m + 1 \in 1 .. Len(args),
           NEW t \in Parsed, SetState(t, v, args, m)
    PROVE  SetState(Values!SetArg(t, args[m + 1]), v, args, m + 1)
<1> DEFINE p == args[m + 1]
           r == Values!SetArg(t, p)
<1>1. p \in Arg /\ \A i : i \in 1 .. m + 1 <=> i \in 1 .. m \/ i = m + 1
  OBVIOUS
<1>2. /\ t.ret # Values!Null => r = t
      /\ p.name \notin Values!IMNames => r = t
      /\ t.ret = Values!Null /\ p.name \in Values!IMNames /\ Taken(t, p) =>
            r.values = t.values /\ r.ret = p.name
      /\ t.ret = Values!Null /\ p.name \in Values!IMNames /\ ~Taken(t, p) =>
            r.values = Values!Register(t.values, p) /\ r.ret = Values!Null
  BY <1>1, SetArgCases
<1>3. Upto(args, m + 1) = Upto(args, m) \cup
         (IF p.name \in Values!IMNames THEN {p.name} ELSE {})
  BY UptoNext
<1>4. CASE t.ret # Values!Null
  BY <1>1, <1>2, <1>4 DEF SetState
<1>5. CASE t.ret = Values!Null
  <2>1. Stored(t.values, v, args, m)
    BY <1>5 DEF SetState
  <2>2. m + 1 \in Values!Refused(DOMAIN v, args) <=> p.name \in Values!IMNames /\ Taken(t, p)
    BY <2>1, RefusedIs DEF Taken
  <2> HIDE DEF p, r
  <2>3. CASE p.name \notin Values!IMNames
    <3>1. Stored(t.values, v, args, m + 1)
      BY <1>1, <1>3, <2>1, <2>2, <2>3 DEF Stored, p
    <3>2. QED BY <1>2, <1>5, <2>3, <3>1 DEF SetState, r, p
  <2>4. CASE p.name \in Values!IMNames /\ Taken(t, p)
    <3>1. r.values = t.values /\ r.ret = p.name
      BY <1>2, <1>5, <2>4
    <3>2. r.ret # Values!Null
      BY <2>4, <3>1 DEF Values!IMNames, Values!Required, Values!Guarded, Values!Copied, Values!Null
    <3>3. m + 1 \in 1 .. m + 1 /\ (m + 1) - 1 = m
      OBVIOUS
    <3>4. QED BY <2>1, <2>2, <2>4, <3>1, <3>2, <3>3 DEF SetState, r, p
  <2>5. CASE p.name \in Values!IMNames /\ ~Taken(t, p)
    <3>1. r.values = Values!Register(t.values, p) /\ r.ret = Values!Null
      BY <1>2, <1>5, <2>5
    <3>2. /\ DOMAIN r.values = DOMAIN t.values \cup {p.name}
          /\ r.values[p.name] = p.value
          /\ \A n \in DOMAIN t.values \ {p.name} : r.values[n] = t.values[n]
      <4>1. t.values \in Registered
        BY DEF Parsed
      <4>2. p \in Arg /\ p.name \in Values!IMNames
        BY <1>1, <2>5 DEF p
      <4>3. /\ DOMAIN Values!Register(t.values, p) = DOMAIN t.values \cup {p.name}
            /\ Values!Register(t.values, p)[p.name] = p.value
            /\ \A n \in DOMAIN t.values \ {p.name} :
                  Values!Register(t.values, p)[n] = t.values[n]
        BY <4>1, <4>2, RegisterFacts
      <4>4. QED BY <3>1, <4>3
    <3>3. ASSUME NEW i \in 1 .. m, args[i].name \in Values!IMNames \ {"protocolHandler"}
          PROVE  r.values[args[i].name] = args[i].value
      <4>1. args[i].name \in DOMAIN t.values /\ t.values[args[i].name] = args[i].value
        BY <2>1, <3>3 DEF Stored, Upto
      <4>2. args[i].name # p.name
        BY <2>5, <3>3, <4>1 DEF Taken
      <4>3. QED BY <3>2, <4>1, <4>2
    <3>4. \A n \in DOMAIN v \ {"protocolHandler"} : r.values[n] = v[n]
      BY <2>1, <2>5, <3>2 DEF Stored, Taken
    <3>5. Stored(r.values, v, args, m + 1)
      BY <1>1, <1>3, <2>1, <2>2, <2>5, <3>2, <3>3, <3>4 DEF Stored, p
    <3>6. QED BY <3>1, <3>5 DEF SetState, r, p
  <2>6. QED BY <2>3, <2>4, <2>5
<1>6. QED BY <1>4, <1>5

(* So it is when the list has been gone through.                            *)
LEMMA SetArgsState ==
    ASSUME NEW args \in Seq(Arg), NEW v \in Registered
    PROVE  /\ Values!SetArgs(v, args) \in Parsed
           /\ SetState(Values!SetArgs(v, args), v, args, Len(args))
<1> DEFINE n == Len(args)
<1>1. PICK st : SetSteps(st, v, args)
  BY SetArgsSteps
<1>2. /\ n \in Nat /\ st \in [0 .. n -> Parsed]
      /\ st[0] = [values |-> v, ret |-> Values!Null]
      /\ \A k \in 1 .. n : st[k] = Values!SetArg(st[k - 1], args[k])
      /\ Values!SetArgs(v, args) = st[n]
  BY <1>1 DEF SetSteps
<1> DEFINE P == {k \in 0 .. n : SetState(st[k], v, args, k)}
<1>3. 0 \in P
  <2>1. Stored(v, v, args, 0)
    <3>1. Upto(args, 0) = {}
      BY DEF Upto
    <3>2. 1 .. 0 = {}
      OBVIOUS
    <3>3. QED BY <3>1, <3>2 DEF Stored
  <2>2. SetState(st[0], v, args, 0)
    BY <1>2, <2>1 DEF SetState
  <2> HIDE DEF n
  <2>3. QED BY <1>2, <2>2
<1>4. ASSUME NEW k \in 0 .. n - 1, k \in P PROVE k + 1 \in P
  <2>1. k \in Nat /\ k \in 0 .. n /\ k + 1 \in 1 .. n /\ k + 1 \in 0 .. n /\ (k + 1) - 1 = k
    BY <1>2
  <2>2. st[k] \in Parsed /\ st[k + 1] = Values!SetArg(st[k], args[k + 1])
    BY <1>2, <2>1
  <2>3. SetState(st[k + 1], v, args, k + 1)
    BY <1>4, <2>1, <2>2, SetStateNext
  <2> HIDE DEF n
  <2>4. QED BY <2>1, <2>3
<1> HIDE DEF P
<1>5. \A k \in 0 .. n : k \in P
  BY <1>2, <1>3, <1>4, Induction
<1>6. n \in 0 .. n
  BY <1>2
<1>7. SetState(st[n], v, args, n)
  BY <1>5, <1>6 DEF P
<1>8. QED BY <1>2, <1>6, <1>7

(* The first of the arguments that are refused.                             *)
LEMMA FirstIs ==
    ASSUME NEW args \in Seq(Arg), NEW S \in SUBSET (1 .. Len(args))
    PROVE  /\ S = {} => Values!FirstOf(S, args) = Len(args) + 1
           /\ \A f \in S : (\A i \in 1 .. f - 1 : i \notin S) => Values!FirstOf(S, args) = f
<1> DEFINE n == Len(args)
           I(i) == \A j \in S : i <= j
<1>1. n \in Nat /\ Values!FirstOf(S, args) = CHOOSE i \in S \cup {n + 1} : I(i)
  BY DEF Values!FirstOf
<1>2. ASSUME S = {} PROVE Values!FirstOf(S, args) = n + 1
  BY <1>1, <1>2
<1>3. ASSUME NEW f \in S, \A i \in 1 .. f - 1 : i \notin S
      PROVE  Values!FirstOf(S, args) = f
  <2>1. f \in 1 .. n /\ \A j \in S : j \in 1 .. n
    OBVIOUS
  <2> HIDE DEF n
  <2>2. I(f)
    BY <1>1, <1>3, <2>1
  <2>3. \A i \in S \cup {n + 1} : I(i) => i = f
    BY <1>1, <2>1, <2>2
  <2> HIDE DEF I
  <2>4. QED BY <1>1, <2>2, <2>3
<1>4. QED BY <1>2, <1>3

(* What a call to set has done.                                             *)
LEMMA SetArgsStops ==
    ASSUME NEW args \in Seq(Arg), NEW v \in Registered
    PROVE  LET r == Values!SetArgs(v, args)
               refused == Values!Refused(DOMAIN v, args)
               first == Values!FirstOf(refused, args)
           IN  /\ r.ret = IF refused = {} THEN Values!Null ELSE args[first].name
               /\ Stored(r.values, v, args, first - 1)
<1> DEFINE r == Values!SetArgs(v, args)
           refused == Values!Refused(DOMAIN v, args)
           first == Values!FirstOf(refused, args)
           n == Len(args)
<1>1. SetState(r, v, args, n) /\ n \in Nat
  BY SetArgsState
<1>2. refused \in SUBSET (1 .. n)
  BY DEF Values!Refused
<1>3. /\ refused = {} => first = n + 1
      /\ \A f \in refused : (\A i \in 1 .. f - 1 : i \notin refused) => first = f
  BY <1>2, FirstIs
<1>4. (n + 1) - 1 = n
  BY <1>1
<1> HIDE DEF r, refused, first, n
<1>5. CASE r.ret = Values!Null
  <2>1. Stored(r.values, v, args, n)
    BY <1>1, <1>5 DEF SetState
  <2>2. refused = {}
    BY <1>2, <2>1 DEF Stored, refused
  <2>3. QED BY <1>3, <1>4, <1>5, <2>1, <2>2 DEF r, refused, first
<1>6. CASE r.ret # Values!Null
  <2>1. PICK f \in 1 .. n : /\ f \in refused /\ r.ret = args[f].name
                            /\ Stored(r.values, v, args, f - 1)
    BY <1>1, <1>6 DEF SetState, refused
  <2>2. first = f
    BY <1>3, <2>1 DEF Stored, refused
  <2>3. QED BY <2>1, <2>2 DEF r, refused, first
<1>7. QED BY <1>5, <1>6

-----------------------------------------------------------------------------
(* Getting.  What one argument does, case by case.                          *)
LEMMA GetArgCases ==
    ASSUME NEW t \in Got, NEW p \in Arg, address \in Registered
    PROVE  LET r == Values!GetArg(t, p)
               known == DOMAIN address
           IN  /\ r \in Got
               /\ t.ret # Values!Null => r = t
               /\ t.ret = Values!Null /\ p.name \in Values!Guarded \ known =>
                     r.out = t.out /\ r.ret = p.name
               /\ t.ret = Values!Null /\ p.name \notin Values!Guarded \ known =>
                     /\ r.ret = Values!Null
                     /\ p.name \in known \ Values!Copied => r.out[p.name] = address[p.name]
                     /\ p.name \notin known \ Values!Copied =>
                           r.out[p.name] \in {t.out[p.name], Empty}
                     /\ \A n \in Offered \ {p.name} : r.out[n] = t.out[n]
<1> DEFINE r == Values!GetArg(t, p)
           known == DOMAIN address
           a == IF p.name \in known THEN address[p.name] ELSE Empty
<1>1. /\ t.out \in [Offered -> Value \cup {Empty}] /\ t.ret \in Rets
      /\ t = [out |-> t.out, ret |-> t.ret] /\ p.name \in Offered
  BY DEF Got, Arg
<1>2. known \subseteq Values!IMNames /\ \A n \in known : address[n] \in Value
  <2>1. PICK E \in SUBSET Values!IMNames : address \in [E -> Value]
    BY DEF Registered
  <2>2. QED BY <2>1
<1>3. t.ret # Values!Null => r = t
  BY DEF Values!GetArg
<1>4. ASSUME t.ret = Values!Null, p.name \in Values!Guarded \ known
      PROVE  r \in Got /\ r.out = t.out /\ r.ret = p.name
  <2>1. r = [t EXCEPT !.ret = p.name]
    BY <1>4 DEF Values!GetArg
  <2>2. p.name \in Rets
    BY <1>4 DEF Rets, Values!IMNames
  <2>3. QED BY <2>1, <2>2 DEF Got
<1>5. ASSUME t.ret = Values!Null, p.name \notin Values!Guarded \ known,
             p.name \in Values!Copied \/ p.name \notin Values!IMNames
      PROVE  r = t
  BY <1>5 DEF Values!GetArg
<1>6. ASSUME t.ret = Values!Null, p.name \notin Values!Guarded \ known,
             ~ (p.name \in Values!Copied \/ p.name \notin Values!IMNames)
      PROVE  /\ r \in Got /\ r.ret = Values!Null
             /\ r.out[p.name] = a
             /\ \A n \in Offered \ {p.name} : r.out[n] = t.out[n]
  <2>1. r = [t EXCEPT !.out[p.name] = a]
    BY <1>6 DEF Values!GetArg
  <2>2. a \in Value \cup {Empty}
    BY <1>2
  <2> HIDE DEF r, a
  <2>3. QED BY <1>1, <1>6, <2>1, <2>2 DEF Got
<1> HIDE DEF r, known
<1>7. QED BY <1>1, <1>2, <1>3, <1>4, <1>5, <1>6 DEF r, known

(* The states of the loop, one after each argument.                         *)
GetSteps(st, args) ==
    /\ st \in [0 .. Len(args) -> Got]
    /\ st[0] = [out |-> out, ret |-> Values!Null]
    /\ \A k \in 1 .. Len(args) : st[k] = Values!GetArg(st[k - 1], args[k])
    /\ Values!GetArgs(args) = st[Len(args)]

(* A call to get takes the arguments one by one, for a list of any length. *)
LEMMA GetArgsSteps ==
    ASSUME NEW args \in Seq(Arg), address \in Registered,
           out \in [Offered -> Value \cup {Empty}]
    PROVE  \E st : GetSteps(st, args)
<1> DEFINE n == Len(args)
           base == [out |-> out, ret |-> Values!Null]
           g == [k \in 1 .. n |-> [t \in Got |-> Values!GetArg(t, args[k])]]
           E(it) == it = [I \in SUBSET (DOMAIN args) |->
                             IF I = {} THEN base
                             ELSE LET k == Max(I) IN Values!GetArg(it[I \ {k}], args[k])]
           J == CHOOSE it : E(it)
<1>1. n \in Nat /\ DOMAIN args = 1 .. n /\ \A k \in 1 .. n : args[k] \in Arg
  OBVIOUS
<1>2. base \in Got
  BY DEF Got, Rets
<1>3. g \in [1 .. n -> [Got -> Got]]
  BY <1>1, GetArgCases
<1>4. \A k \in 1 .. n : \A t \in Got : g[k][t] = Values!GetArg(t, args[k])
  OBVIOUS
<1> HIDE DEF n, g, base
<1>5. PICK it \in [SUBSET (1 .. n) -> Got] : Folds(it, n, base, g)
  BY <1>1, <1>2, <1>3, Folded
<1>6. \A I \in SUBSET (1 .. n) :
         I # {} => Max(I) \in 1 .. n /\ I \ {Max(I)} \in SUBSET (1 .. n)
  BY <1>1, MaxFacts
<1>7. E(it)
  <2>1. \A I \in SUBSET (1 .. n) :
           it[I] = IF I = {} THEN base ELSE Values!GetArg(it[I \ {Max(I)}], args[Max(I)])
    BY <1>4, <1>5, <1>6 DEF Folds
  <2>2. QED BY <1>1, <1>5, <2>1
<1>8. E(J)
  BY <1>7
<1>9. Values!GetArgs(args) = J[DOMAIN args]
  BY Zenon DEF Values!GetArgs, Values!FoldLeft, Values!MapThenFoldSet, Values!Max, Max, base
<1> HIDE DEF J
<1>10. Unfolds(J, Got, n, base, g)
  BY <1>1, <1>4, <1>6, <1>8 DEF Unfolds
<1> HIDE DEF E
<1>11. PICK st : Run(st, Got, n, base, g) /\ J[1 .. n] = st[n]
  <2>1. HasRun(J, Got, n, base, g)
    BY <1>1, <1>2, <1>3, <1>10, FoldRun, Zenon
  <2>2. QED BY <2>1 DEF HasRun
<1>12. GetSteps(st, args)
  <2>1. \A k \in 1 .. n : st[k] = Values!GetArg(st[k - 1], args[k])
    BY <1>4, <1>11 DEF Run
  <2>2. Values!GetArgs(args) = st[n]
    BY <1>1, <1>9, <1>11
  <2>3. QED BY <1>11, <2>1, <2>2 DEF Run, GetSteps, n, base
<1>13. QED BY <1>12


(* The variables of the first m names hold what is registered of them, no other is
   written, and none of those names was never set. *)
Shown(args, m) == ({args[i].name : i \in 1 .. m} \cap DOMAIN address) \ Values!Copied
Lost(p) == p.name \in Values!Guarded \ DOMAIN address
Read(t, args, m) ==
    /\ \A i \in 1 .. m : ~Lost(args[i])
    /\ \A n \in Offered : t.out[n] = IF n \in Shown(args, m) THEN address[n] ELSE Empty

(* After each argument: all names up to here were read, or those up to the first
   that was never set, whose name the call returns. *)
GetState(t, args, k) ==
    \/ t.ret = Values!Null /\ Read(t, args, k)
    \/ \E f \in 1 .. k : Lost(args[f]) /\ t.ret = args[f].name /\ Read(t, args, f - 1)

(* One more argument keeps what is known of a call to get. *)
LEMMA GetStateNext ==
    ASSUME NEW args \in Seq(Arg), NEW m \in Nat, m + 1 \in 1 .. Len(args),
           NEW t \in Got, GetState(t, args, m), address \in Registered
    PROVE  GetState(Values!GetArg(t, args[m + 1]), args, m + 1)
<1> DEFINE p == args[m + 1]
           r == Values!GetArg(t, p)
           known == DOMAIN address
<1>1. /\ p \in Arg /\ p.name \in Offered
      /\ \A i : i \in 1 .. m + 1 <=> i \in 1 .. m \/ i = m + 1
      /\ (m + 1) - 1 = m
  <2>1. p \in Arg
    OBVIOUS
  <2>2. p.name \in Offered
    BY <2>1 DEF Arg
  <2> HIDE DEF p
  <2>3. \A i : i \in 1 .. m + 1 <=> i \in 1 .. m \/ i = m + 1
    OBVIOUS
  <2>4. QED BY <2>1, <2>2, <2>3
<1>2. /\ t.ret # Values!Null => r = t
      /\ t.ret = Values!Null /\ Lost(p) => r.out = t.out /\ r.ret = p.name
      /\ t.ret = Values!Null /\ ~Lost(p) =>
            /\ r.ret = Values!Null
            /\ p.name \in known \ Values!Copied => r.out[p.name] = address[p.name]
            /\ p.name \notin known \ Values!Copied =>
                  r.out[p.name] \in {t.out[p.name], Empty}
            /\ \A n \in Offered \ {p.name} : r.out[n] = t.out[n]
  BY <1>1, GetArgCases DEF Lost
<1>3. Lost(p) => p.name # Values!Null
  BY DEF Lost, Values!Guarded, Values!Null
<1>4. \A f \in 1 .. m : Lost(args[f]) => args[f].name # Values!Null
  BY DEF Lost, Values!Guarded, Values!Null
<1>5. Shown(args, m + 1) = IF p.name \in known \ Values!Copied
                           THEN Shown(args, m) \cup {p.name} ELSE Shown(args, m)
  BY <1>1 DEF Shown
<1> HIDE DEF r, known
<1>6. CASE t.ret # Values!Null
  <2>1. PICK f \in 1 .. m : Lost(args[f]) /\ t.ret = args[f].name /\ Read(t, args, f - 1)
    BY <1>6 DEF GetState
  <2>2. f \in 1 .. m + 1
    BY <1>1
  <2>3. r = t
    BY <1>2, <1>6
  <2>4. QED BY <2>1, <2>2, <2>3 DEF GetState, r
<1>7. CASE t.ret = Values!Null /\ Lost(p)
  <2>1. Read(t, args, m)
    BY <1>4, <1>7 DEF GetState
  <2>2. r.ret = p.name /\ r.out = t.out
    BY <1>2, <1>7
  <2>3. Read(r, args, (m + 1) - 1)
    BY <1>1, <2>1, <2>2 DEF Read
  <2>4. m + 1 \in 1 .. m + 1
    BY <1>1
  <2>5. QED BY <1>7, <2>2, <2>3, <2>4 DEF GetState, r
<1>8. CASE t.ret = Values!Null /\ ~Lost(p)
  <2>1. Read(t, args, m)
    BY <1>4, <1>8 DEF GetState
  <2>2. \A i \in 1 .. m + 1 : ~Lost(args[i])
    BY <1>1, <1>8, <2>1 DEF Read
  <2>3. ASSUME NEW n \in Offered
        PROVE  r.out[n] = IF n \in Shown(args, m + 1) THEN address[n] ELSE Empty
    <3>1. t.out[n] = IF n \in Shown(args, m) THEN address[n] ELSE Empty
      BY <2>1 DEF Read
    <3>2. CASE n # p.name
      BY <1>2, <1>5, <1>8, <3>1, <3>2
    <3>3. CASE n = p.name /\ n \in known \ Values!Copied
      BY <1>2, <1>5, <1>8, <3>3
    <3>4. CASE n = p.name /\ n \notin known \ Values!Copied
      <4>1. n \notin Shown(args, m)
        BY <3>4 DEF Shown, known
      <4>2. QED BY <1>2, <1>5, <1>8, <3>1, <3>4, <4>1
    <3>5. QED BY <3>2, <3>3, <3>4
  <2>4. Read(r, args, m + 1)
    BY <2>2, <2>3 DEF Read
  <2>5. r.ret = Values!Null
    BY <1>2, <1>8
  <2>6. QED BY <2>4, <2>5 DEF GetState, r
<1>9. QED BY <1>6, <1>7, <1>8

(* So it is when the list has been gone through.                            *)
LEMMA GetArgsState ==
    ASSUME NEW args \in Seq(Arg), address \in Registered,
           out = [n \in Offered |-> Empty]
    PROVE  /\ Values!GetArgs(args) \in Got
           /\ GetState(Values!GetArgs(args), args, Len(args))
<1> DEFINE n == Len(args)
<1>1. out \in [Offered -> Value \cup {Empty}] /\ \A x \in Offered : out[x] = Empty
  OBVIOUS
<1>2. PICK st : GetSteps(st, args)
  BY <1>1, GetArgsSteps
<1>3. /\ n \in Nat /\ st \in [0 .. n -> Got]
      /\ st[0] = [out |-> out, ret |-> Values!Null]
      /\ \A k \in 1 .. n : st[k] = Values!GetArg(st[k - 1], args[k])
      /\ Values!GetArgs(args) = st[n]
  BY <1>2 DEF GetSteps
<1> DEFINE P == {k \in 0 .. n : GetState(st[k], args, k)}
<1>4. 0 \in P
  <2>1. 1 .. 0 = {}
    OBVIOUS
  <2>2. GetState(st[0], args, 0)
    BY <1>1, <1>3, <2>1 DEF GetState, Read, Shown
  <2> HIDE DEF n
  <2>3. QED BY <1>3, <2>2
<1>5. ASSUME NEW k \in 0 .. n - 1, k \in P PROVE k + 1 \in P
  <2>1. k \in Nat /\ k \in 0 .. n /\ k + 1 \in 1 .. n /\ k + 1 \in 0 .. n /\ (k + 1) - 1 = k
    BY <1>3
  <2>2. st[k] \in Got /\ st[k + 1] = Values!GetArg(st[k], args[k + 1])
    BY <1>3, <2>1
  <2>3. GetState(st[k + 1], args, k + 1)
    BY <1>5, <2>1, <2>2, GetStateNext
  <2> HIDE DEF n
  <2>4. QED BY <2>1, <2>3
<1> HIDE DEF P
<1>6. \A k \in 0 .. n : k \in P
  BY <1>3, <1>4, <1>5, Induction
<1>7. n \in 0 .. n
  BY <1>3
<1>8. GetState(st[n], args, n)
  BY <1>6, <1>7 DEF P
<1>9. QED BY <1>3, <1>7, <1>8

-----------------------------------------------------------------------------
(* The invariant: a service has all that it needs, what a caller sees is what it
   has just asked for.                                                      *)
ValuesIInv ==
    /\ Values!TypeOK
    /\ address \in Registered
    /\ last.call # "get" => out = [n \in Offered |-> Empty]
    /\ Values!GetReadsRegistered

(* Calls are given lists of names and values.                               *)
LEMMA ArgsAreLists ==
    \A args \in SetLists \cup GetLists : args \in Seq(Arg)
BY StartupAssumption DEF Arg

(* Opening: the mandatory values are there, or the service is not opened.   *)
LEMMA Opens ==
    ASSUME ValuesIInv, NEW args \in SetLists, Values!IMOpenIM(args)
    PROVE  ValuesIInv'
<1> DEFINE parsed == Values!Mandatory(Values!SetArgs(Values!NoValue, args))
           r == Values!SetArgs(Values!NoValue, args)
<1>1. Values!NoValue \in Registered /\ Values!NoValue = [n \in {} |-> Empty]
  <2>1. Values!NoValue \in [{} -> Value]
    BY DEF Values!NoValue
  <2>2. QED BY <2>1 DEF Registered, Values!NoValue
<1>2. r \in Parsed
  BY <1>1, ArgsAreLists, SetArgsState
<1>3. parsed.values \in Registered /\ (parsed.ret = Values!Null => Values!Required \subseteq DOMAIN parsed.values)
  <2>1. CASE r.ret # Values!Null
    <3>1. parsed = r
      BY <2>1 DEF Values!Mandatory
    <3>2. QED BY <1>2, <2>1, <3>1 DEF Parsed
  <2>2. CASE r.ret = Values!Null /\ Values!Required \subseteq DOMAIN r.values
    <3>1. parsed = r
      BY <2>2 DEF Values!Mandatory, Values!Required
    <3>2. QED BY <1>2, <2>2, <3>1 DEF Parsed
  <2>3. CASE r.ret = Values!Null /\ "locale" \notin DOMAIN r.values
    <3>1. parsed = [r EXCEPT !.ret = "locale"]
      BY <2>3 DEF Values!Mandatory
    <3>2. QED BY <1>2, <3>1 DEF Parsed, Values!Null
  <2>4. CASE /\ r.ret = Values!Null /\ "locale" \in DOMAIN r.values
             /\ "serverTransport" \notin DOMAIN r.values
    <3>1. parsed = [r EXCEPT !.ret = "serverTransport"]
      BY <2>4 DEF Values!Mandatory
    <3>2. QED BY <1>2, <3>1 DEF Parsed, Values!Null
  <2>5. QED BY <2>1, <2>2, <2>3, <2>4 DEF Values!Required
<1>4. /\ ~ims /\ last = Values!NoCall
      /\ \E selection \in BOOLEAN :
            ims' = (Values!GetIMS(args) /\ parsed.ret = Values!Null
                      /\ Values!CheckIMName(parsed.values) /\ selection)
      /\ address' = IF ims' THEN parsed.values ELSE Values!NoValue
      /\ last'.call = "open"
      /\ out' = out
  BY DEF Values!IMOpenIM
<1> HIDE DEF parsed
<1>5. /\ ims' \in BOOLEAN
      /\ ims' => parsed.ret = Values!Null /\ Values!CheckIMName(parsed.values)
  BY <1>4
<1>6. address' \in Registered /\ (~ims' => address' = Values!NoValue)
      /\ (ims' => address' = parsed.values)
  BY <1>1, <1>3, <1>4, <1>5
<1>7. DOMAIN address' \subseteq Values!IMNames /\ \A n \in DOMAIN address' : address'[n] \in Value
  <2>1. PICK D \in SUBSET Values!IMNames : address' \in [D -> Value]
    BY <1>6 DEF Registered
  <2>2. QED BY <2>1
<1>8. out = [n \in Offered |-> Empty] /\ out \in [Offered -> Value \cup {Empty}]
  BY <1>4 DEF ValuesIInv, Values!NoCall
<1>9. Values!TypeOK'
  BY <1>3, <1>4, <1>5, <1>6, <1>7, <1>8 DEF Values!TypeOK, Values!CheckIMName, Values!NoValue
<1>10. QED BY <1>4, <1>6, <1>8, <1>9 DEF ValuesIInv, Values!GetReadsRegistered

(* Setting registers more, and never a locale or a transport again.         *)
LEMMA Sets ==
    ASSUME ValuesIInv, NEW args \in SetLists, Values!IMSetIMValues(args)
    PROVE  ValuesIInv'
<1> DEFINE r == Values!SetArgs(address, args)
           known == DOMAIN address
<1>1. address \in Registered /\ args \in Seq(Arg)
  BY ArgsAreLists DEF ValuesIInv
<1>2. r \in Parsed /\ SetState(r, address, args, Len(args))
  BY <1>1, SetArgsState
<1>3. /\ ims /\ last = Values!NoCall
      /\ address' = r.values /\ last'.call = "set"
      /\ UNCHANGED <<ims, out>>
  BY DEF Values!IMSetIMValues
<1>4. PICK m \in Nat : Stored(r.values, address, args, m) /\ m <= Len(args)
  <2>1. CASE r.ret = Values!Null
    BY <1>1, <1>2, <2>1 DEF SetState
  <2>2. CASE r.ret # Values!Null
    <3>1. PICK f \in 1 .. Len(args) : Stored(r.values, address, args, f - 1)
      BY <1>2, <2>2 DEF SetState
    <3>2. f - 1 \in Nat /\ f - 1 <= Len(args)
      BY <1>1
    <3>3. QED BY <3>1, <3>2
  <2>3. QED BY <2>1, <2>2
<1> HIDE DEF r
<1>5. /\ r.values \in Registered
      /\ DOMAIN r.values \subseteq Values!IMNames
      /\ \A n \in DOMAIN r.values : r.values[n] \in Value
  <2>1. r.values \in Registered
    BY <1>2 DEF Parsed
  <2>2. PICK D \in SUBSET Values!IMNames : r.values \in [D -> Value]
    BY <2>1 DEF Registered
  <2>3. QED BY <2>1, <2>2
<1>6. known \subseteq DOMAIN r.values
  BY <1>4 DEF Stored
<1>7. ims => /\ Values!Required \subseteq DOMAIN r.values
             /\ r.values["serverTransport"] = address["serverTransport"]
             /\ Values!CheckIMName(address)
  <2>1. ims => Values!Required \subseteq known /\ Values!CheckIMName(address)
    BY DEF ValuesIInv, Values!TypeOK
  <2>2. "serverTransport" \in Values!Required /\ "serverTransport" # "protocolHandler"
    BY DEF Values!Required
  <2>3. QED BY <1>4, <1>6, <2>1, <2>2 DEF Stored
<1>8. out = [n \in Offered |-> Empty] /\ out \in [Offered -> Value \cup {Empty}] /\ ims \in BOOLEAN
  BY <1>3 DEF ValuesIInv, Values!NoCall, Values!TypeOK
<1>9. Values!TypeOK'
  BY <1>3, <1>5, <1>7, <1>8 DEF Values!TypeOK, Values!CheckIMName
<1>10. QED BY <1>3, <1>5, <1>8, <1>9 DEF ValuesIInv, Values!GetReadsRegistered

(* Getting changes nothing but what the caller sees.                        *)
LEMMA Gets ==
    ASSUME ValuesIInv, NEW args \in GetLists, Values!IMGetIMValues(args)
    PROVE  ValuesIInv'
<1> DEFINE r == Values!GetArgs(args)
           known == DOMAIN address
<1>1. /\ ims /\ last = Values!NoCall
      /\ out' = r.out
      /\ last' = [call |-> "get", args |-> args, ret |-> r.ret]
      /\ UNCHANGED <<ims, address>>
  BY DEF Values!IMGetIMValues
<1>2. address \in Registered /\ args \in Seq(Arg) /\ out = [n \in Offered |-> Empty]
  BY <1>1, ArgsAreLists DEF ValuesIInv, Values!NoCall
<1>3. r \in Got /\ GetState(r, args, Len(args))
  BY <1>2, GetArgsState, StartupAssumption
<1> HIDE DEF r
<1>4. Values!TypeOK'
  BY <1>1, <1>3 DEF ValuesIInv, Values!TypeOK, Values!CheckIMName, Got, Values!NoValue
<1>5. Values!GetReadsRegistered'
  <2>1. DOMAIN args = 1 .. Len(args) /\ Len(args) \in Nat
    BY <1>2
  <2> DEFINE n == Len(args)
             lost == {i \in DOMAIN args : Lost(args[i])}
             first == Values!FirstOf(lost, args)
             Goal(ret, f) == /\ ret = IF lost = {} THEN Values!Null ELSE args[f].name
                             /\ Read(r, args, f - 1)
  <2>2. lost \in SUBSET (1 .. n) /\ n \in Nat
    BY <2>1
  <2>3. /\ lost = {} => first = n + 1
        /\ \A f \in lost : (\A i \in 1 .. f - 1 : i \notin lost) => first = f
    BY <1>2, <2>2, FirstIs
  <2>4. \A i \in 1 .. n : i \in lost <=> Lost(args[i])
    BY <2>1
  <2>5. GetState(r, args, n)
    BY <1>3
  <2> HIDE DEF n, lost, first
  <2>6. Goal(r.ret, first)
    <3>1. CASE r.ret = Values!Null /\ Read(r, args, n)
      <4>1. lost = {} /\ (n + 1) - 1 = n
        BY <2>2, <2>4, <3>1 DEF Read
      <4>2. QED BY <2>3, <3>1, <4>1
    <3>2. CASE \E f \in 1 .. n : Lost(args[f]) /\ r.ret = args[f].name /\ Read(r, args, f - 1)
      <4>1. PICK f \in 1 .. n : Lost(args[f]) /\ r.ret = args[f].name /\ Read(r, args, f - 1)
        BY <3>2
      <4>2. f \in lost /\ \A i \in 1 .. f - 1 : i \in 1 .. n
        BY <2>2, <2>4, <4>1
      <4>3. first = f
        BY <2>3, <2>4, <4>1, <4>2 DEF Read
      <4>4. QED BY <4>1, <4>2, <4>3
    <3>3. QED BY <2>5, <3>1, <3>2 DEF GetState
  <2>7. /\ last'.args = args /\ last'.ret = r.ret
        /\ lost = {i \in DOMAIN args : args[i].name \in Values!Guarded \ DOMAIN address'}
    BY <1>1 DEF lost, Lost
  <2>8. \A x \in Offered :
           out'[x] = IF x \in ({args[i].name : i \in 1 .. first - 1} \cap DOMAIN address')
                                  \ Values!Copied
                     THEN address'[x] ELSE Empty
    BY <1>1, <2>6 DEF Read, Shown
  <2>9. QED BY <2>6, <2>7, <2>8 DEF Values!GetReadsRegistered, first
<1>6. QED BY <1>1, <1>2, <1>4, <1>5 DEF ValuesIInv

(* The variables of the caller are given up, and a service is closed, between calls. *)
LEMMA Returns ==
    ASSUME ValuesIInv, Values!Return \/ Values!IMCloseIM
    PROVE  ValuesIInv'
<1>1. CASE Values!Return
  BY <1>1 DEF Values!Return, ValuesIInv, Values!TypeOK, Values!CheckIMName, Values!NoValue,
              Values!NoCall, Values!GetReadsRegistered
<1>2. CASE Values!IMCloseIM
  <2>1. Values!NoValue \in Registered
    <3>1. Values!NoValue \in [{} -> Value]
      BY DEF Values!NoValue
    <3>2. QED BY <3>1 DEF Registered
  <2>2. QED BY <1>2, <2>1 DEF Values!IMCloseIM, ValuesIInv, Values!TypeOK, Values!CheckIMName,
                  Values!NoValue, Values!NoCall, Values!GetReadsRegistered
<1>3. QED BY <1>1, <1>2

(* The invariant is inductive.                                              *)
LEMMA ValuesStep == ValuesIInv /\ [Values!Next]_valueVars => ValuesIInv'
<1> SUFFICES ASSUME ValuesIInv, [Values!Next]_valueVars PROVE ValuesIInv'
  OBVIOUS
<1>1. CASE UNCHANGED valueVars
  BY <1>1 DEF valueVars, ValuesIInv, Values!TypeOK, Values!CheckIMName, Values!NoValue,
              Values!GetReadsRegistered, Values!NamesOf
<1>2. CASE Values!Next
  BY <1>2, Opens, Sets, Gets, Returns DEF Values!Next
<1>3. QED BY <1>1, <1>2

(* It holds of a process that has not opened its service yet.              *)
LEMMA ValuesInit == Values!Init => ValuesIInv
<1> SUFFICES ASSUME Values!Init PROVE ValuesIInv
  OBVIOUS
<1>1. Values!NoValue \in Registered
  <2>1. Values!NoValue \in [{} -> Value]
    BY DEF Values!NoValue
  <2>2. QED BY <2>1 DEF Registered
<1>2. ims = FALSE /\ address = Values!NoValue /\ out = [n \in Offered |-> Empty]
  BY DEF Values!Init
<1>3. last.call = "none"
  BY DEF Values!Init, Values!NoCall
<1>4. DOMAIN address = {}
  BY <1>2 DEF Values!NoValue
<1>5. Values!TypeOK
  BY <1>2, <1>4 DEF Values!TypeOK
<1>6. Values!GetReadsRegistered
  BY <1>3 DEF Values!GetReadsRegistered
<1>7. QED BY <1>1, <1>2, <1>3, <1>5, <1>6 DEF ValuesIInv

(* What a call to set may do, as an action.                                 *)
LEMMA SetStep ==
    ASSUME ValuesIInv, [Values!Next]_valueVars
    PROVE  [last'.call = "set" /\ ims =>
              LET args == last'.args
                  refused == Values!Refused(DOMAIN address, args)
                  first == Values!FirstOf(refused, args)
              IN  /\ last'.ret = IF refused = {} THEN Values!Null ELSE args[first].name
                  /\ DOMAIN address' = DOMAIN address \cup
                         {args[i].name : i \in {j \in 1 .. first - 1 :
                                                   args[j].name \in Values!IMNames}}
                  /\ \A i \in 1 .. first - 1 :
                        args[i].name \in Values!IMNames \ {"protocolHandler"} =>
                            address'[args[i].name] = args[i].value]_valueVars
<1> SUFFICES ASSUME last'.call = "set", ims, Values!Next
             PROVE  LET args == last'.args
                        refused == Values!Refused(DOMAIN address, args)
                        first == Values!FirstOf(refused, args)
                    IN  /\ last'.ret = IF refused = {} THEN Values!Null ELSE args[first].name
                        /\ DOMAIN address' = DOMAIN address \cup Upto(args, first - 1)
                        /\ \A i \in 1 .. first - 1 :
                              args[i].name \in Values!IMNames \ {"protocolHandler"} =>
                                  address'[args[i].name] = args[i].value
  BY DEF Upto
<1>1. PICK args \in SetLists : Values!IMSetIMValues(args)
  <2>1. ASSUME NEW args \in SetLists, Values!IMOpenIM(args) PROVE FALSE
    BY <2>1 DEF Values!IMOpenIM
  <2>2. ASSUME NEW args \in GetLists, Values!IMGetIMValues(args) PROVE FALSE
    <3>1. last'.call = "get"
      BY <2>2 DEF Values!IMGetIMValues
    <3>2. QED BY <3>1
  <2>3. CASE Values!Return
    <3>1. last'.call = "none"
      BY <2>3 DEF Values!Return, Values!NoCall
    <3>2. QED BY <3>1
  <2>4. CASE Values!IMCloseIM
    <3>1. last'.call = "none"
      BY <2>4 DEF Values!IMCloseIM, Values!NoCall
    <3>2. QED BY <3>1
  <2>5. QED BY <2>1, <2>2, <2>3, <2>4 DEF Values!Next
<1>2. address \in Registered /\ args \in Seq(Arg)
  BY ArgsAreLists DEF ValuesIInv
<1>3. /\ address' = Values!SetArgs(address, args).values
      /\ last' = [call |-> "set", args |-> args, ret |-> Values!SetArgs(address, args).ret]
  BY <1>1 DEF Values!IMSetIMValues
<1>4. QED BY <1>2, <1>3, SetArgsStops DEF Stored

-----------------------------------------------------------------------------
(* Each part of the start runs with the others at rest, and the theorems of
   ServerName_proofs hold of both displays. *)
Closed == INSTANCE ServerName_proofs WITH
    Closer <- MayClose, MaxOpen <- MaxReopen,
    servers <- servers2, owner <- owner2, pc <- pc2, data <- data2, met <- met2,
    opened <- opened2, library <- library2, notified <- notified2, request <- request2

(* The assumption of ServerName, for the constants of the second display.   *)
LEMMA ClosedAssumption ==
    /\ NameOf \in [Server -> Name]
    /\ Wanted \in [Library -> Name]
    /\ MayClose \subseteq Server
    /\ NoServer \notin Server
    /\ MaxReopen \in Nat
    /\ {Absent, Foreign} \cap Seq(Name) = {}
  BY ServerNameAssumption, StartupAssumption

(* The second display starts as its proofs say ...                          *)
LEMMA ClosedInit == Closing!Init => Closed!Init
  BY DEF Closing!Init, Closed!Init, Closing!NoRequest, Closed!NoRequest

(* ... and takes the steps that they are about.                             *)
LEMMA ClosedNext == Closing!Next => Closed!Next
<1>1. \A s \in Server : Closing!OpenRead(s) => Closed!OpenRead(s)
  BY DEF Closing!OpenRead, Closed!OpenRead, Closing!Atoms, Closed!Atoms,
         Closing!Listed, Closed!Listed, Closing!libraryVars, Closed!libraryVars
<1>2. \A s \in Server : Closing!QueryOwner(s) => Closed!QueryOwner(s)
  BY DEF Closing!QueryOwner, Closed!QueryOwner, Closing!libraryVars,
         Closed!libraryVars
<1>3. \A s \in Server : Closing!Claim(s) => Closed!Claim(s)
  BY DEF Closing!Claim, Closed!Claim, Closing!libraryVars, Closed!libraryVars
<1>4. \A s \in Server : Closing!Register(s) => Closed!Register(s)
  BY DEF Closing!Register, Closed!Register, Closing!ChangeProperty,
         Closed!ChangeProperty, Closing!Atoms, Closed!Atoms, Closing!Listed,
         Closed!Listed, Closing!libraryVars, Closed!libraryVars
<1>5. \A s \in Server : Closing!Verify(s) => Closed!Verify(s)
  BY DEF Closing!Verify, Closed!Verify, Closing!libraryVars, Closed!libraryVars
<1>6. \A s \in Server : Closing!CloseRead(s) => Closed!CloseRead(s)
  BY DEF Closing!CloseRead, Closed!CloseRead, Closing!Atoms, Closed!Atoms,
         Closing!libraryVars, Closed!libraryVars
<1>7. \A s \in Server : Closing!DeleteXi18nAtom(s) => Closed!DeleteXi18nAtom(s)
  BY DEF Closing!DeleteXi18nAtom, Closed!DeleteXi18nAtom, Closing!ChangeProperty,
         Closed!ChangeProperty, Closing!Atoms, Closed!Atoms, Closing!Listed,
         Closed!Listed, Closing!libraryVars, Closed!libraryVars,
         Closing!RemoveFirst, Closed!RemoveFirst, Closing!RemoveAt,
         Closed!RemoveAt, Closing!Min, Closed!Min, Closing!SelectInSeq,
         Closed!SelectInSeq
<1>8. \A s \in Server : Closing!End(s) => Closed!End(s)
  BY DEF Closing!End, Closed!End, Closing!NoRequest, Closed!NoRequest
<1>9. \A c \in Library :
         Closing!Look(c) => Closed!Look(c)
  BY DEF Closing!Look, Closed!Look, Closing!Atoms, Closed!Atoms, Closing!Listed,
         Closed!Listed, Closing!serverVars, Closed!serverVars
<1>10. \A c \in Library :
         Closing!AskOwner(c) => Closed!AskOwner(c)
  BY DEF Closing!AskOwner, Closed!AskOwner, Closing!serverVars, Closed!serverVars
<1>11. \A c \in Library : \A t \in Closing!Target :
         Closing!Convert(c, t) => Closed!Convert(c, t)
  BY DEF Closing!Convert, Closed!Convert, Closing!serverVars, Closed!serverVars
<1>12. \A c \in Library : \A s \in Server :
         Closing!WaitXSelectionRequest(s, c) => Closed!WaitXSelectionRequest(s, c)
  BY DEF Closing!WaitXSelectionRequest, Closed!WaitXSelectionRequest,
         Closing!serverVars, Closed!serverVars, Closing!IsForServer,
         Closed!IsForServer, Closing!Answer, Closed!Answer
<1>13. Closing!Target = Closed!Target
  BY DEF Closing!Target, Closed!Target
<1>14. QED BY <1>1, <1>2, <1>3, <1>4, <1>5, <1>6, <1>7, <1>8, <1>9, <1>10, <1>11, <1>12,
              <1>13 DEF Closing!Next, Closed!Next

(* The start of a service is a behaviour of each of its parts: of the requests on the
   display of servers that only end, of those on the display of servers that are also
   closed, and of the calls that set and get the values. *)
THEOREM StartsByItsParts == StartupSpec => Spec /\ Closed!Spec /\ Values!Spec
<1>1. StartupInit => Init /\ Closed!Init /\ Values!Init
  BY ClosedInit DEF StartupInit, AtRest, AtRest2
<1>2. [StartupNext]_<<vars, vars2, valueVars>> =>
         [Next]_vars /\ [Closed!Next]_Closed!vars /\ [Values!Next]_Values!vars
  <2> SUFFICES ASSUME [StartupNext]_<<vars, vars2, valueVars>>
               PROVE  [Next]_vars /\ [Closed!Next]_Closed!vars /\ [Values!Next]_Values!vars
    OBVIOUS
  <2>1. vars2' = vars2 => Closed!vars' = Closed!vars
    BY DEF vars2, Closed!vars, Closed!serverVars, Closed!libraryVars
  <2>2. valueVars' = valueVars => Values!vars' = Values!vars
    BY DEF valueVars, Values!vars
  <2>3. QED BY <2>1, <2>2, ClosedNext DEF StartupNext
<1>3. QED BY <1>1, <1>2, PTL DEF StartupSpec, Spec, Closed!Spec, Values!Spec

(* The invariant of the values, for every start.                            *)
LEMMA ValuesInvariance == StartupSpec => []ValuesIInv
<1>1. ValuesIInv /\ [Values!Next]_Values!vars => ValuesIInv'
  BY ValuesStep DEF valueVars, Values!vars
<1>2. QED BY <1>1, ValuesInit, StartsByItsParts, PTL DEF Values!Spec

(* An open service has a locale and a transport that can be used, and every value
   that is registered is of a kind that is known, whatever lists it was opened and
   set with (i18nMethod.c:321-336, 495-530). *)
THEOREM ServicesAreComplete == StartupSpec => []ServiceIsComplete
<1>1. ValuesIInv => ServiceIsComplete
  BY DEF ValuesIInv, ServiceIsComplete
<1>2. QED BY <1>1, ValuesInvariance, PTL

(* A call to get writes what is registered to the variables before the first value
   that was never set, and returns the name of that one; it writes no other, and
   none for the values that it copies, whatever the list (i18nMethod.c:338-460). *)
THEOREM GettingReadsRegistered == StartupSpec => []GetReadsRegistered
<1>1. ValuesIInv => GetReadsRegistered
  BY DEF ValuesIInv, GetReadsRegistered
<1>2. QED BY <1>1, ValuesInvariance, PTL

(* A call to set registers what stands before the first value that is refused and
   nothing from there on, and returns the name of that value, whatever the list and
   whatever is registered already (i18nMethod.c:181-320). *)
THEOREM SettingStopsAtRefused == StartupSpec => SetStopsAtRefused
<1>1. QED BY SetStep, ValuesInvariance, StartsByItsParts, PTL
          DEF SetStopsAtRefused, Values!SetStopsAtRefused, Values!Spec, Values!vars, valueVars

(* No library sleeps while the server that it waits for is open, owns its name and is
   listed, whatever the servers of the second display do, closing included
   (i18nMethod.c:553-577). *)
THEOREM NoServerIsEverMissed == StartupSpec => []NoServerIsMissed
<1>1. Closed!Spec => []Closed!NoMissedServer
  BY Closed!NoServerMissed, ClosedAssumption DEF Closed!NoServerMissed
<1>2. Closed!NoMissedServer => NoServerIsMissed
  BY DEF Closed!NoMissedServer, NoServerIsMissed, Closing!NoMissedServer,
         Closed!Atoms, Closing!Atoms, Closed!Listed, Closing!Listed
<1>3. QED BY <1>1, <1>2, StartsByItsParts, PTL
=============================================================================
