----------------------------- MODULE MCKeyboard -----------------------------
(* Files of up to two lines of every kind that the HOWTO shows, files in two
   parts, and three files whose maps are typed with. *)
EXTENDS Keyboard

Side(written, means) == [written |-> written, means |-> means]
Map(left, right, comment) ==
    [kind |-> "map", left |-> left, right |-> right, comment |-> comment]
Other(kind) == [kind |-> kind, comment |-> <<47, 47, 34, 107, 61>>]

(* "\033 KE", "\"R", "0x20 ", "0x3D", "9 k", "0", "\x41k" and nothing. *)
Lefts == {Side(<<92, 48, 51, 51, 32, 75, 69>>, <<27, 75, 69>>),
          Side(<<92, 34, 82>>, <<34, 82>>),
          Side(<<48, 120, 50, 48, 32>>, <<32>>),
          Side(<<48, 120, 51, 68>>, <<61>>),
          Side(<<57, 32, 107>>, <<9, 107>>),
          Side(<<48>>, <<48>>),
          Side(<<92, 120, 52, 49, 107>>, <<65, 107>>),
          Side(<<>>, <<>>)}
Octal == Side(<<48, 49, 55>>, <<15>>)
(* "0x3063 0x51", " 65", "017" and "k k". *)
Rights == {Side(<<48, 120, 51, 48, 54, 51, 32, 48, 120, 53, 49>>, <<12387, 81>>),
           Side(<<32, 54, 53>>, <<65>>),
           Octal,
           Side(<<107, 32, 107>>, <<107, 107>>)}
Lines == {Map(l, Octal, <<>>) : l \in Lefts}
         \cup {Map(Side(<<75>>, <<75>>), r, <<44, 47, 47, 34, 107, 34>>) : r \in Rights}
         \cup {Other("comment")}
Plain == {Map(l, r, <<>>) : l \in {Side(<<107>>, <<107>>), Side(<<>>, <<>>)},
                            r \in {Side(<<48, 120, 51>>, <<3>>)}}
PartFiles == {<<Other("comment"), Other("parts"), Other("begin")>> \o a
                  \o <<Other("end"), Other("begin")>> \o b \o <<Other("end")>> :
              a \in UNION {[1 .. n -> Plain] : n \in 1 .. 2},
              b \in UNION {[1 .. n -> Plain] : n \in 0 .. 3}}

(* The maps that are typed, over the keys k, l and m.  A code is written "0x41". *)
k == 107
l == 108
m == 109
Code(n) == Side(<<48, 120, 52, 48 + n>>, <<64 + n>>)
Keys1(keys, n) == Map(Side(keys, keys), Code(n), <<>>)

(* Every line comes after the lines that it continues, and none is skipped. *)
Ordered == <<Keys1(<<k>>, 1), Keys1(<<k, l>>, 2), Keys1(<<k, l, k>>, 3), Keys1(<<l>>, 4)>>
(* Two lines with the same keys, and one that no other continues. *)
Doubled == <<Keys1(<<k, k, l>>, 1), Keys1(<<l>>, 2), Keys1(<<l>>, 3)>>
(* A letter and two digits in three parts, as in Unicode.kmap; a digit is one key, or
   two, when more than one of them begins with the first. *)
Zero(key) == Map(Side(<<key>>, <<key>>), Side(<<48, 120, 48>>, <<>>), <<>>)
Digits == <<Other("parts"), Other("begin"), Zero(m), Other("end"),
            Other("begin"), Keys1(<<k, k>>, 1), Keys1(<<k, l>>, 2), Keys1(<<l>>, 4),
            Other("end"),
            Other("begin"), Zero(k), Keys1(<<l>>, 1), Other("end")>>
(* The last line of VietnameseTelex.kmap, after another one. *)
Telex == LET vnd == Map(Side(<<36, 36>>, <<36, 36>>), Side(<<48, 120, 50, 48>>, <<32>>), <<>>)
         IN  <<vnd, vnd>>

MCTyped == Ordered :> {"left", "right"} @@ Doubled :> {"left", "right"} @@ Digits :> {"shift"}
MCFiles == UNION {[1 .. n -> Lines] : n \in 0 .. 2} \cup PartFiles \cup DOMAIN MCTyped
OnlyTelex == {Telex}
NoneTyped == [f \in {} |-> {}]
MCBehind == {<<NUL, NUL, NUL, NUL, NUL>>, <<k, k, k, k, k>>, <<l, m, l, m, l>>}
=============================================================================
