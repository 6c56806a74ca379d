---- MODULE Filter ----
(***************************************************************************)
(* Where a diagnostic is placed, and what drops it before it is printed    *)
(* (report.go, exclusions.go, generated.go, nolint.go).                    *)
(*                                                                         *)
(* A setting s is the configuration and the files of the project:          *)
(*   paths, pathsExcept, rules   of linters.exclusions: a pattern is the   *)
(*             set of what it matches, Unwritten where there is none;      *)
(*   disabled  whether generated files are kept as any other;              *)
(*   files     for each file [go, test, outside, unreadable, generated,    *)
(*             lines, clause, silences, nodes]: outside, that no path      *)
(*             leads to it from the base; unreadable, that it no longer    *)
(*             reads as Go; lines, its text; clause, the file a line       *)
(*             directive maps its package clause to; silences, its         *)
(*             //nolint directives; nodes, its declarations.               *)
(* A diagnostic is where it is in the file compiled, where a line          *)
(* directive maps that, and its message.                                   *)
(***************************************************************************)
EXTENDS Lists

CONSTANTS
    Unwritten,
    Linter      \* the linter the findings are of

\* What a pattern is not written as.
ASSUME UnwrittenAssumption == Unwritten \notin STRING

Position(file, line) == [file |-> file, line |-> line]

\* A setting, whose patterns match files it has, and texts.
IsFile(file, files) == file \in
    [go : BOOLEAN, test : BOOLEAN, outside : BOOLEAN, unreadable : BOOLEAN,
     generated : BOOLEAN, lines : Seq(STRING), clause : files,
     silences : Seq([from : Nat, to : Nat, column : Nat, linters : SUBSET STRING]),
     nodes : SUBSET [line : Nat, end : Nat, column : Nat]]
IsRule(rule, files) == rule \in
    LET PathPattern == (SUBSET files) \cup {Unwritten}
        TextPattern == (SUBSET STRING) \cup {Unwritten}
    IN  [linters : SUBSET STRING, path : PathPattern, pathExcept : PathPattern,
         text : TextPattern, source : TextPattern]
IsSetting(s) ==
    /\ DOMAIN s = {"paths", "pathsExcept", "rules", "disabled", "files"}
    /\ s.rules \in Seq(Range(s.rules))
    /\ \A rule \in Range(s.rules) : IsRule(rule, DOMAIN s.files)
    /\ \A f \in DOMAIN s.files : IsFile(s.files[f], DOMAIN s.files)

\* A list of diagnostics, in the files of a setting.
IsList(s, diagnostics) ==
    /\ diagnostics \in Seq(Range(diagnostics))
    /\ \A d \in Range(diagnostics) : {d.compiled.file, d.mapped.file} \subseteq DOMAIN s.files

placed(s, d) ==
    IF \/ ~s.files[d.mapped.file].go
       \/ /\ d.mapped.file # d.compiled.file
          /\ s.files[d.compiled.file].go
          /\ s.files[d.compiled.file].clause = d.mapped.file
    THEN d.compiled ELSE d.mapped

finding(s, d) == [position |-> placed(s, d), message |-> d.message]

----------------------------------------------------------------------------
(* The filters, in the order they drop.                                    *)

excludes(s, file) ==
    \/ \E pattern \in s.paths : file \in pattern
    \/ s.pathsExcept # {} /\ \A pattern \in s.pathsExcept : file \notin pattern

located(s, found) == only(found, {f \in Range(found) :
    /\ ~s.files[f.position.file].outside
    /\ ~excludes(s, f.position.file)})

\* A file that cannot be read keeps every finding, in the other files too.
ungeneratedOrNone(s, found) ==
    IF s.disabled THEN found
    ELSE IF \E f \in Range(found) : s.files[f.position.file].unreadable THEN <<>>
    ELSE only(found, {f \in Range(found) : ~s.files[f.position.file].generated})
ungenerated(s, found) ==
    IF s.disabled \/ \E f \in Range(found) : s.files[f.position.file].unreadable
    THEN found
    ELSE only(found, {f \in Range(found) : ~s.files[f.position.file].generated})

\* The rules a configuration may write.
validRule(rule) ==
    /\ rule.path = Unwritten \/ rule.pathExcept = Unwritten
    /\ 2 <= Cardinality({c \in {"linters", "path", "text", "source"} :
                CASE c = "linters" -> rule.linters # {}
                  [] c = "path" -> {rule.path, rule.pathExcept} # {Unwritten}
                  [] OTHER -> rule[c] # Unwritten})

\* The line a source condition reads, if it can be read.
sourceLine(s, position) ==
    LET lines == s.files[position.file].lines
        number == IF position.line = 0 THEN 1 ELSE position.line
    IN  IF s.files[position.file].unreadable \/ number > Len(lines) THEN Unwritten
        ELSE lines[number]

ruleMatches(s, rule, f) ==
    /\ rule.text # Unwritten => f.message \in rule.text
    /\ rule.path # Unwritten => f.position.file \in rule.path
    /\ rule.pathExcept # Unwritten => f.position.file \notin rule.pathExcept
    /\ rule.linters # {} => Linter \in rule.linters
    /\ rule.source # Unwritten => sourceLine(s, f.position) \in rule.source

\* The rule that drops a finding: the first that matches it, or 0.
droppedBy(s, f) ==
    LET matching == {i \in DOMAIN s.rules : ruleMatches(s, s.rules[i], f)}
    IN  IF matching = {} THEN 0 ELSE Min(matching)

unmatched(s, found) == only(found, {f \in Range(found) : droppedBy(s, f) = 0})
usedRulesOfLast(s, found) ==
    IF found = <<>> THEN {} ELSE {droppedBy(s, Last(found))} \ {0}
usedRules(s, found) == {droppedBy(s, f) : f \in Range(found)} \ {0}
\* The rules warned of as unused.
unusedRules(s, found) == {i \in DOMAIN s.rules :
    i \notin usedRules(s, found) /\ s.rules[i].linters = {Linter}}

\* A directive drops findings on its lines, and, where a declaration starts in
\* its column on the line below, on those of the declaration.
grownOver(silences, nodes) ==
    LET above(node) == SelectInSeq(silences, LAMBDA d :
            d.to + 1 = node.line /\ d.column = node.column)
    IN  {[silences[above(node)] EXCEPT !.to = IF node.end > @ THEN node.end ELSE @] :
            node \in {n \in nodes : above(n) > 0}}
silencesIn(file) ==
    IF file.unreadable THEN {}
    ELSE Range(file.silences) \cup grownOver(file.silences, file.nodes)
covers(silence, line) ==
    /\ silence.from <= line /\ line <= silence.to
    /\ silence.linters = {} \/ Linter \in silence.linters
unsilenced(s, found) == only(found, {f \in Range(found) :
    ~\E silence \in silencesIn(s.files[f.position.file]) : covers(silence, f.position.line)})

reachRules(s, found) == ungenerated(s, located(s, found))
kept(s, found) == unsilenced(s, unmatched(s, reachRules(s, found)))

----------------------------------------------------------------------------
(* What the command prints of the diagnostics of its roots, each a list.   *)

goFindings(s, diagnostics) ==
    LET findings == [i \in DOMAIN diagnostics |-> finding(s, diagnostics[i])]
    IN  only(findings, {f \in Range(findings) : s.files[f.position.file].go})

\* The findings seen, and after them those of more that are none of these, each
\* once.
together(seen, more) ==
    LET after[n \in 0 .. Len(more)] ==
            IF n = 0 THEN seen
            ELSE IF more[n] \in Range(after[n - 1]) THEN after[n - 1]
            ELSE Append(after[n - 1], more[n])
    IN  after[Len(more)]

placedFindings(s, lists) ==
    LET after[n \in 0 .. Len(lists)] ==
            IF n = 0 THEN <<>> ELSE together(after[n - 1], goFindings(s, lists[n]))
    IN  after[Len(lists)]
report(s, lists) == kept(s, placedFindings(s, lists))
====
