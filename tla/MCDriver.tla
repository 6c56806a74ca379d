---- MODULE MCDriver ----
(***************************************************************************)
(* Driver over two families of runs: a workspace of two modules with the   *)
(* same package in each, imported by a third package of either, of a       *)
(* dependency or of no module; and packages loaded with their tests.       *)
(***************************************************************************)
EXTENDS Driver

CONSTANTS m1, m2, dependency,       \* modules
          x, y,                     \* paths in a module
          a, b, c, av, ax, am, n, nv, z    \* packages

Fn(module, path, name) == [module |-> module, path |-> path, name |-> name]
Close(module) == Fn(module, x, "close")
Sides(names) == [i \in DOMAIN names |-> sideOf(names[i])]

RuleOf(id, module, failures, implementations) ==
    [id |-> id, trigger |-> Fn(module, x, "open"),
     satisfiers |-> <<callOfValue, sideOf(Close(module))>>,
     failures |-> Sides(failures), implementations |-> Sides(implementations)]

OnModule == RuleOf("pair", Here, <<>>, <<>>)
Fail(module) == Fn(module, x, "fail")
OnFirst == RuleOf("first", m1, <<Fail(Here), Fail(m1)>>, <<>>)
OnTypes == RuleOf("types", m1, <<>>, <<Fn(Here, y, "T")>>)
\* A value of the first module every module has a function of its own to close.
OnClose == [RuleOf("close", m1, <<>>, <<>>) EXCEPT !.satisfiers = <<sideOf(Close(Here))>>]
RuleLists == {<<OnModule, OnFirst>>, <<OnTypes, OnModule>>, <<OnClose>>}

Plain(module, path, developed, imports, body) ==
    [module |-> module, path |-> path, developed |-> developed,
     imports |-> imports, body |-> body, variant |-> NoName, stem |-> NoName,
     generated |-> FALSE, files |-> {}, broken |-> {}]

Workspaces ==
    {[rules |-> rules, unbindable |-> unbindable, loaded |-> <<a, b, c>>, found |-> {},
      packages |-> a :> Plain(m1, x, TRUE, {}, bodies[1])
                @@ b :> Plain(m2, x, TRUE, imports[1], bodies[2])
                @@ c :> Plain(third[1], y, third[2], imports[2], bodies[3])] :
        rules \in RuleLists,
        unbindable \in {{}, {"pair"}, {"pair", "first"}},
        imports \in {<<{}, {a, b}>>, <<{a}, {b}>>, <<{a}, {a}>>},
        third \in {<<m1, TRUE>>, <<m2, TRUE>>, <<dependency, FALSE>>, <<NoModule, FALSE>>},
        bodies \in {NoName, Close(m1)} \X {a, Close(m2)} \X {a, b}}

\* A call names a package the caller imports.
Calls(r) == \A p \in DOMAIN r.packages :
    r.packages[p].body \in DOMAIN r.packages => r.packages[p].body \in r.packages[p].imports

\* Packages loaded with their tests: a, its test variant, its external tests
\* and its test main; b, without tests; the main package z.test; and n, whose path
\* the external tests of a have, with tests of its own or none.
Test(package, under, external, imports, files, broken) ==
    [Plain(m1, x, TRUE, imports, NoName) EXCEPT
        !.variant = [package |-> package, tested |-> under, external |-> external],
        !.files = files, !.broken = broken]
Loads ==
    {[rules |-> <<OnModule>>, unbindable |-> unbindable, found |-> found, loaded |-> loaded,
      packages |-> a :> [Plain(m1, x, TRUE, {}, Close(m1)) EXCEPT !.files = {"a"}, !.broken = broken]
                @@ av :> Test(a, a, FALSE, {}, {"a", "a_test"}, broken \cup inTests)
                @@ ax :> Test(IF n \in Range(loaded) THEN n ELSE NoName, a, TRUE,
                              {av}, {"x_test"}, {})
                @@ am :> [Plain(m1, y, TRUE, {av, ax}, NoName) EXCEPT
                            !.stem = a, !.generated = TRUE, !.files = {"main"}]
                @@ b :> [Plain(m1, y, TRUE, {a}, NoName) EXCEPT !.files = {"b"}]
                @@ n :> [Plain(m1, y, TRUE, {}, NoName) EXCEPT !.files = {"n"}]
                @@ nv :> Test(n, n, FALSE, {}, {"n", "n_test"}, inTests)
                @@ z :> [Plain(m1, y, TRUE, {}, NoName) EXCEPT !.stem = z, !.files = {"z"}]] :
        unbindable \in {{}, {"pair"}},
        found \in SUBSET {"a", "a_test", "z", "n"},
        loaded \in {<<a, b, z>>, <<a, av, ax, am, b, z>>, <<z, am, ax, av, a>>, <<av, b>>,
                    <<a, av, ax, am, n>>, <<n, nv, a, av, ax, am>>},
        broken \in {{}, {"a does not build"}},
        inTests \in {{}, {"a_test does not build"}}}

MCRuns == {r \in Workspaces : Calls(r)} \cup Loads
====
