---- MODULE MCVet ----
(***************************************************************************)
(* Vet over two families of projects: one package whose diagnostics meet   *)
(* every filter, and two packages, one importing the other, edited, failed *)
(* and interrupted.                                                        *)
(***************************************************************************)
EXTENDS Vet

File(go, test, generated, clause) ==
    [go |-> go, test |-> test, outside |-> FALSE, unreadable |-> FALSE,
     generated |-> generated, lines |-> <<"call", "other">>, clause |-> clause,
     silences |-> <<>>, nodes |-> {[line |-> 2, end |-> 3, column |-> 1]}]

\* A package of "a", its tests "a_test", the generated "gen", whose package
\* clause a directive maps to "a", and a template.
Files == [f \in {"a", "a_test", "gen", "view"} |->
    CASE f = "a"      -> File(TRUE, FALSE, FALSE, "a")
      [] f = "a_test" -> File(TRUE, TRUE, FALSE, "a_test")
      [] f = "gen"    -> File(TRUE, FALSE, TRUE, "a")
      [] f = "view"   -> File(FALSE, FALSE, FALSE, "view")]

Rule(linters, path, text, source) ==
    [linters |-> linters, path |-> path, pathExcept |-> Unwritten,
     text |-> text, source |-> source]
RuleLists == {list \in
    {<<>>,
     <<Rule({Linter}, {"a"}, Unwritten, {"call"})>>,
     <<Rule({}, {"a", "gen"}, {"open"}, Unwritten), Rule({Linter}, {"a"}, {"open"}, Unwritten),
       Rule({Linter}, Unwritten, {"leak"}, {"other"})>>,
     <<Rule({Linter}, {"gen"}, {"leak"}, Unwritten), [Rule({"other"}, Unwritten, {"leak"}, Unwritten)
         EXCEPT !.pathExcept = {"gen"}], Rule({Linter}, Unwritten, {"leak"}, {"call"})>>} :
    \A i \in DOMAIN list : validRule(list[i])}

Silences == {<<>>, <<[from |-> 1, to |-> 1, column |-> 1, linters |-> {}]>>,
             <<[from |-> 2, to |-> 2, column |-> 3, linters |-> {"other"}],
               [from |-> 1, to |-> 1, column |-> 2, linters |-> {Linter}]>>}

SettingOf(disabled, paths, except, rules, silences, unreadable, outside) ==
    [disabled |-> disabled, paths |-> paths, pathsExcept |-> except, rules |-> rules,
     files |-> [f \in DOMAIN Files |-> [Files[f] EXCEPT
        !.unreadable = f \in unreadable, !.outside = f \in outside,
        !.silences = IF f = "a" THEN silences ELSE <<>>]]]

Settings == {SettingOf(disabled, paths[1], paths[2], rules, silences, unreadable, outside) :
    disabled \in BOOLEAN,
    paths \in {<<{}, {}>>, <<{{"a_test"}}, {}>>, <<{}, {{"a"}, {"gen"}}>>},
    rules \in RuleLists, silences \in Silences,
    unreadable \in {{}, {"a"}, {"gen"}}, outside \in {{}, {"a_test"}}}

Diagnostic(compiled, line, mapped, message, fix) ==
    [compiled |-> Position(compiled, line), mapped |-> Position(mapped, line),
     message |-> message, fix |-> fix]
Lists == {
    <<Diagnostic("a", 1, "a", "open", 1), Diagnostic("a", 1, "a", "open", 2),
      Diagnostic("a", 2, "a", "open", 3), Diagnostic("a", 3, "view", "leak", 1)>>,
    <<Diagnostic("gen", 1, "gen", "leak", 1), Diagnostic("a_test", 2, "a_test", "leak", 1),
      Diagnostic("gen", 2, "view", "open", 1), Diagnostic("a", 2, "gen", "leak", 1),
      Diagnostic("a", 2, "a", "leak", 1)>>,
    <<Diagnostic("gen", 1, "a", "open", 1), Diagnostic("a", 1, "a", "open", 2),
      Diagnostic("view", 1, "view", "open", 1), Diagnostic("view", 1, "a", "open", 2),
      Diagnostic("a_test", 2, "a", "leak", 1)>>}

Version(fails, diagnostics) == [fails |-> fails, diagnostics |-> diagnostics]
Filters == {[setting |-> setting, tests |-> tests, imports |-> [p \in {"p"} |-> {}],
             versions |-> [p \in {"p"} |-> <<Version(FALSE, list), Version(FALSE, <<>>)>>]] :
    setting \in Settings, tests \in BOOLEAN, list \in Lists}

\* Code with a finding, clean, that cannot be analyzed.
Codes == {Version(FALSE, <<Diagnostic("a", 2, "a", "open", 1)>>), Version(FALSE, <<>>),
          Version(TRUE, <<>>)}
Edits == {[setting |-> SettingOf(FALSE, {}, {}, <<>>, <<>>, {}, {}), tests |-> TRUE,
           imports |-> ("p" :> {} @@ "q" :> {"p"}), versions |-> versions] :
    versions \in [{"p", "q"} -> Codes \X Codes]}

MCProjects == Filters \cup Edits
====
