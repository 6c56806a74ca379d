----------------------------- MODULE MCIdentity -----------------------------
(***************************************************************************)
(* Small functions for Identity, in four families: values that go round a  *)
(* loop through phis, conversions, fields and loads; method values kept in *)
(* fields, with stores and calls before they are read back; method values  *)
(* kept in maps; and structs in structs, copied whole.                     *)
(***************************************************************************)
EXTENDS Identity, TLC

I(op, x, y, key, field, edges) ==
    [op |-> op, x |-> x, y |-> y, key |-> key, field |-> field, edges |-> edges]
Leaf(op) == I(op, NoValue, NoValue, NoValue, "", <<>>)
FieldAddr(x, field) == I("fieldaddr", x, NoValue, NoValue, field, <<>>)
Load(x) == I("load", x, NoValue, NoValue, "", <<>>)
Convert(x) == I("convert", x, NoValue, NoValue, "", <<>>)
Store(x, y) == I("store", x, y, NoValue, "", <<>>)
Copy(x, y) == I("copy", x, y, NoValue, "", <<>>)
Lookup(x, key) == I("lookup", x, NoValue, key, "", <<>>)
MapUpdate(x, key, y) == I("mapupdate", x, y, key, "", <<>>)
Phi(first, second) == I("phi", NoValue, NoValue, NoValue, "", <<first, second>>)

Program(instr, entry, head, tail) == [instr |-> instr, blocks |-> <<entry, head, tail>>]

\* Values that go round a loop.
Looping ==
    {Program(
        "prm" :> Leaf("param") @@ "new" :> Leaf("alloc") @@ "a1" :> FieldAddr(first, "f") @@
        "s1" :> Store("a1", "new") @@ "l1" :> Load("a1") @@
        "p" :> Phi(enters, back) @@ "t" :> made @@ "a2" :> FieldAddr(second, "f") @@
        "l2" :> Load("a2") @@
        "m" :> Phi(left, right) @@ "c3" :> Convert("m") @@ "s3" :> Store("a2", "t") @@
        "l3" :> Load("a2"),
        <<"prm", "new", "a1", "s1", "l1">>, <<"p", "t", "a2", "l2">>, <<"m", "c3", "s3", "l3">>) :
        first \in {"prm", "new"},
        enters \in {"prm", "new", "l1"}, back \in {"p", "c3", "t", "l3"},
        made \in {Leaf("trigger"), Leaf("alloc"), Convert("p")},
        second \in {"p", "t", "prm"},
        left \in {"p", "t", "l2"}, right \in {"p", "t"}}

Kept == {Store("fa", "c"), Store("fb", "d"), Store("fa", "prm"), Leaf("call")}

\* No kind of instruction but stores more than once.
Once(moves) ==
    \A i, j \in DOMAIN moves : moves[i].op = moves[j].op => i = j \/ moves[i].op = "store"

\* Method values kept in fields, and variables that hold a parameter.
Keeping ==
    {Program(
        "prm" :> Leaf("param") @@ "other" :> Leaf("param") @@ "new" :> Leaf("alloc") @@
        "var" :> Leaf("alloc") @@ "sv" :> Store("var", given) @@ "lv" :> Load("var") @@
        "c" :> Leaf("closure") @@ "d" :> Leaf("closure") @@ "made" :> Leaf("trigger") @@
        "fa" :> FieldAddr(first[1], first[2]) @@ "fb" :> FieldAddr(second[1], second[2]) @@
        "i1" :> moves[1] @@ "i2" :> moves[2] @@ "i3" :> moves[3] @@ "read" :> Load("fa") @@
        "p" :> Phi("prm", "prm") @@ "again" :> Load("fa") @@ "m" :> Phi("p", "p"),
        <<"prm", "other", "new", "var", "sv", "lv", "c", "d", "made", "fa", "fb">>
            \o <<"i1", "i2", "i3", "read">>,
        <<"p", "again">>, <<"m">>) :
        given \in {"prm", "new"},
        first \in {<<"prm", "f">>, <<"new", "f">>},
        second \in {<<"prm", "f">>, <<"prm", "g">>, <<"other", "f">>, <<"new", "g">>},
        moves \in {each \in Kept \X Kept \X {Store("fb", "d"), Leaf("call")} : Once(each)}}

Updates == {MapUpdate("m1", "k1", "c"), MapUpdate("m2", "k2", "d"), MapUpdate("m2", "k", "d"),
            MapUpdate("m1", "k", "c"), Leaf("call")}

\* Method values kept in maps.
Mapping ==
    {Program(
        "k1" :> Leaf("const") @@ "k2" :> Leaf("const") @@ "k" :> Leaf("param") @@
        "prm" :> Leaf("param") @@ "m1" :> first @@ "m2" :> second @@
        "c" :> Leaf("closure") @@ "d" :> Leaf("closure") @@
        "i1" :> one @@ "i2" :> two @@ "read" :> Lookup("m1", key) @@
        "p" :> Phi("c", "d") @@ "m" :> Phi("p", "c"),
        <<"k1", "k2", "k", "prm", "m1", "m2", "c", "d", "i1", "i2", "read">>, <<"p">>, <<"m">>) :
        first \in {Leaf("makemap"), Convert("prm")},
        second \in {Leaf("makemap"), Convert("prm")},
        one \in Updates, two \in Updates, key \in {"k1", "k2", "k"}}

\* One of two structs, each with a struct "s" in it, and in that a field "m", and
\* beside it a field "k".
Nested(first, second, moves, read) ==
    Program(
        "prm" :> Leaf("param") @@ "other" :> Leaf("param") @@ "new" :> Leaf("alloc") @@
        "c" :> Leaf("closure") @@ "d" :> Leaf("closure") @@
        "s1" :> FieldAddr(first, "s") @@ "m1" :> FieldAddr("s1", "m") @@
        "k1f" :> FieldAddr(first, "k") @@
        "s2" :> FieldAddr(second, "s") @@ "m2" :> FieldAddr("s2", "m") @@
        "i1" :> moves[1] @@ "i2" :> moves[2] @@ "i3" :> moves[3] @@
        "read" :> Load(read) @@ "p" :> Phi("s1", "s2") @@ "pm" :> FieldAddr("p", "m") @@
        "m" :> Phi("p", "s1"),
        <<"prm", "other", "new", "c", "d", "s1", "m1", "k1f", "s2", "m2">>
            \o <<"i1", "i2", "i3", "read">>,
        <<"p", "pm">>, <<"m">>)

\* Writes into them, part by part or whole.
Writes(first, second) ==
    {Store("m1", "c"), Store("m2", "d"), Store("k1f", "d"), Leaf("call"),
     Copy(first, second), Copy("s1", "s2"), Copy("s2", "s1")}

Nesting ==
    UNION {{Nested(which[1], which[2], moves, which[3]) :
               moves \in {each \in [1..3 -> Writes(which[1], which[2])] :
                             /\ Once(each)
                             /\ each[3] \in {Store("m1", "c"), Store("m2", "d"),
                                             Copy(which[1], which[2]), Copy("s1", "s2")}}} :
           which \in {<<"prm", "other", "m1">>, <<"prm", "other", "k1f">>, <<"new", "prm", "m1">>}}

All == Looping \union Keeping \union Mapping \union Nesting

\* All a register is made from.
RECURSIVE Behind(_, _, _)
Behind(instr, register, visited) ==
    LET next == MadeOf(instr, register)
    IN  IF register \in visited THEN {}
        ELSE next \union UNION {Behind(instr, each, visited \union {register}) : each \in next}

\* StepsEnd holds of them: what a field or a load is made from shows it.
MCPrograms ==
    {each \in All :
        \A register \in {r \in DOMAIN each.instr : each.instr[r].op \in {"fieldaddr", "load"}} :
            MadeWithin(each.instr, register, Behind(each.instr, register, {}))}

\* A list walked by its own link: n = n.next.
MCLists ==
    {each \in Looping : /\ each.instr["p"].edges = <<"new", "l3">>
                        /\ each.instr["a2"].x = "p"}

\* A value read before and after a store where it was.
MCStoring ==
    {each \in MCPrograms \intersect Looping : each.instr["a2"].x = "prm" /\ each.instr["a1"].x = "prm"}

\* A method value stored through what may be the field read, or may not.
MCAliasing ==
    {each \in Nesting :
        /\ each.instr["s1"].x = "prm"
        /\ \A i \in {"i1", "i2", "i3"} : each.instr[i] \in {Store("m2", "d"), Store("k1f", "d")}}

\* A method value stored in a struct that is then copied over.
MCCopying ==
    {each \in Nesting : /\ each.instr["i2"] = Store("m1", "c")
                        /\ each.instr["i1"] # Store("m2", "d")
                        /\ each.instr["i3"] # Store("m2", "d")}

\* A method value stored in an object that may be another when it is read.
MCMoving ==
    {Program(
        "prm" :> Leaf("param") @@ "c" :> Leaf("closure") @@
        "pf" :> FieldAddr("prm", "f") @@ "o1" :> Load("pf") @@ "k1f" :> FieldAddr("o1", "k") @@
        "i1" :> one @@ "i2" :> Store("k1f", "c") @@
        "o2" :> Load("pf") @@ "k2f" :> FieldAddr("o2", "k") @@ "read" :> Load("k2f") @@
        "p" :> Phi("prm", "prm") @@ "m" :> Phi("p", "p"),
        <<"prm", "c", "pf", "o1", "k1f", "i1", "i2", "o2", "k2f", "read">>, <<"p">>, <<"m">>) :
        one \in {Leaf("call"), Convert("c")}}

\* What the answers of identity.go and slot.go are wrong of.
MCLimits == MCLists \union MCStoring \union MCAliasing \union MCCopying \union MCMoving

\* The objects the parameters reach: two that hold each other, or themselves, and
\* a function in one of them.
Given0 == <<0, <<>>>>
Given3 == <<-3, <<>>>>
MCHeaps ==
    {<<0, <<"f">>>> :> first @@ <<0, <<"g">>>> :> Given3 @@
     <<-3, <<"f">>>> :> Given0 @@ <<-3, <<"g">>>> :> Nothing @@
     <<0, <<"s", "m">>>> :> <<-4, <<>>>> :
        first \in {Given0, Given3}}

Registers == UNION {DOMAIN each.instr : each \in All \union MCMoving}
MCArguments ==
    {[register \in Registers |->
        CASE register = "k1" -> <<-1, <<"k1">>>>
          [] register = "k2" -> <<-1, <<"k2">>>>
          [] register = "k" -> <<-1, <<key>>>>
          [] register = "other" -> other
          [] OTHER -> Given0] :
        key \in {"k1", "k2"}, other \in {Given0, Given3}}

=============================================================================
