---- MODULE Vet ----
(***************************************************************************)
(* The command as go vet's vet tool (vet.go), and the runs of go vet over  *)
(* a project that is edited between them.                                  *)
(*                                                                         *)
(* A project is chosen first:                                              *)
(*   setting    the configuration and the files, of Filter;                *)
(*   tests      run.tests;                                                 *)
(*   imports    of each package, the packages it imports;                  *)
(*   versions   of each package, what the analysis does with it as it is   *)
(*              written at first and once edited: [fails, diagnostics].    *)
(* A diagnostic also has what the analyzer says beside its message (fix).  *)
(*                                                                         *)
(* go vet, external, gives the tool one package at a time, after those it  *)
(* imports, with the facts of these it has; it keeps the facts of a        *)
(* package the tool reports nothing of and ends with status 0 on, by its   *)
(* code, that of what it imports and the facts it was given, and then does *)
(* not run the tool.  It may be interrupted.                               *)
(***************************************************************************)
EXTENDS Filter

CONSTANT Projects

\* A project has a number of packages, which import packages of it.
ASSUME ProjectsAssumption ==
    \A one \in Projects :
        /\ IsSetting(one.setting) /\ one.tests \in BOOLEAN
        /\ IsFiniteSet(DOMAIN one.imports)
        /\ \A p \in DOMAIN one.imports :
             /\ one.imports[p] \subseteq DOMAIN one.imports
             /\ \A n \in {1, 2} : IsList(one.setting, one.versions[p][n].diagnostics)

VARIABLES
    project,
    refused,    \* whether the configuration is one the tool refuses
    code,       \* the version of each package, 1 or 2
    cache,      \* the packages go vet keeps facts of, as keys
    phase,      \* "idle", "running", or "complete" once a run has ended
    seen,       \* the packages of this run go vet is done with
    facts,      \* those of them it has facts of
    errors,     \* those an error was printed of
    shown       \* what was printed of each package

vars == <<project, refused, code, cache, phase, seen, facts, errors, shown>>

Package == DOMAIN project.imports
\* The package and all it imports, at any remove: the least set closed so.
Needs(p) == {q \in Package : \A closed \in SUBSET Package :
    p \in closed /\ (\A r \in closed : project.imports[r] \subseteq closed) => q \in closed}
version(p) == project.versions[p][code[p]]

----------------------------------------------------------------------------
(* The tool.                                                               *)

reportedWithTests(s, tests, diagnostics) ==
    only(diagnostics, {d \in Range(diagnostics) : s.files[placed(s, d).file].go})
\* The diagnostics of a package the tool filters: those outside a Go file, and
\* those in the test files under run.tests false, are dropped first.
reported(s, tests, diagnostics) == only(diagnostics, {d \in Range(diagnostics) :
    /\ tests \/ ~s.files[d.compiled.file].test
    /\ s.files[placed(s, d).file].go})

\* Where unitchecker prints a position moved into a copy of its file without
\* line directives, or left where it is.
printedAt(s, d, position) ==
    IF d.mapped = position THEN d.mapped ELSE d.compiled

sameMessage(one, other) == one.message = other.message
same(one, other) == one = other

\* The diagnostics of the findings kept: each is the next one it is the same
\* as.
printedOf(s, d) == [position |-> printedAt(s, d, placed(s, d)), message |-> d.message,
                    fix |-> d.fix]
aligned(s, diagnostics, findings) ==
    LET after[n \in 0 .. Len(diagnostics)] ==
            IF n = 0 THEN [taken |-> 0, printed |-> <<>>]
            ELSE LET before == after[n - 1]
                 IN  IF /\ before.taken < Len(findings)
                        /\ same(findings[before.taken + 1], finding(s, diagnostics[n]))
                     THEN [taken |-> before.taken + 1,
                           printed |-> Append(before.printed, printedOf(s, diagnostics[n]))]
                     ELSE before
    IN  after
align(s, diagnostics, findings) == aligned(s, diagnostics, findings)[Len(diagnostics)].printed

foundIn(s, diagnostics) == [i \in DOMAIN diagnostics |-> finding(s, diagnostics[i])]
run(s, tests, diagnostics) ==
    LET list == reported(s, tests, diagnostics)
    IN  align(s, list, kept(s, foundIn(s, list)))

\* The status the tool ends with on an error.
statusInResult == 0
errorStatus == 1

----------------------------------------------------------------------------
(* The runs of go vet.                                                     *)

Init ==
    /\ project \in Projects
    /\ refused \in BOOLEAN
    /\ code = [p \in Package |-> 1]
    /\ cache = {}
    /\ phase = "idle"
    /\ seen = {} /\ facts = {} /\ errors = {}
    /\ shown = [p \in Package |-> <<>>]

key(p) == [package |-> p, code |-> [q \in Needs(p) |-> code[q]],
           facts |-> project.imports[p] \cap facts]

Start ==
    /\ phase # "running"
    /\ phase' = "running"
    /\ seen' = {} /\ facts' = {} /\ errors' = {}
    /\ shown' = [p \in Package |-> <<>>]
    /\ UNCHANGED <<project, refused, code, cache>>

Ready(p) ==
    /\ phase = "running"
    /\ p \notin seen
    /\ project.imports[p] \subseteq seen

Keep(p) == cache' = cache \cup {key(p)} /\ facts' = facts \cup {p}

Cached(p) ==
    /\ Ready(p)
    /\ key(p) \in cache
    /\ seen' = seen \cup {p} /\ facts' = facts \cup {p}
    /\ UNCHANGED <<project, refused, code, cache, phase, errors, shown>>

\* What the analysis finds in a package: without the facts of all it imports,
\* what it finds of it with them or nothing.
Analyzed(p) ==
    IF project.imports[p] \subseteq facts THEN {version(p).diagnostics}
    ELSE {version(p).diagnostics, <<>>}

\* The tool runs, and refuses the configuration, or fails, or reports.
Tool(p) ==
    /\ Ready(p)
    /\ key(p) \notin cache
    /\ seen' = seen \cup {p}
    /\ IF refused \/ version(p).fails
       THEN /\ errors' = errors \cup {p}
            /\ IF errorStatus = 0 THEN Keep(p) ELSE UNCHANGED <<cache, facts>>
            /\ UNCHANGED shown
       ELSE /\ \E diagnostics \in Analyzed(p) :
                LET printed == run(project.setting, project.tests, diagnostics)
                IN  /\ shown' = [shown EXCEPT ![p] = printed]
                    /\ IF printed = <<>> THEN Keep(p)
                       ELSE facts' = facts \cup {p} /\ UNCHANGED cache
            /\ UNCHANGED errors
    /\ UNCHANGED <<project, refused, code, phase>>

End ==
    /\ phase = "running" /\ seen = Package
    /\ phase' = "complete"
    /\ UNCHANGED <<project, refused, code, cache, seen, facts, errors, shown>>

Interrupt ==
    /\ phase = "running" /\ seen # {}
    /\ phase' = "idle"
    /\ UNCHANGED <<project, refused, code, cache, seen, facts, errors, shown>>

\* Between runs a package is edited, back too, or a configuration that was
\* refused is put right.
Edit(p) ==
    /\ phase # "running"
    /\ phase' = "idle"
    /\ code' = [code EXCEPT ![p] = 3 - @]
    /\ UNCHANGED <<project, refused, cache, seen, facts, errors, shown>>

PutRight ==
    /\ phase # "running" /\ refused
    /\ phase' = "idle" /\ refused' = FALSE
    /\ UNCHANGED <<project, code, cache, seen, facts, errors, shown>>

Next ==
    \/ Start \/ End \/ Interrupt \/ PutRight
    \/ \E p \in Package : Cached(p) \/ Tool(p) \/ Edit(p)

Spec == Init /\ [][Next]_vars

----------------------------------------------------------------------------
(* Properties.                                                             *)

Fails(p) == refused \/ version(p).fails

\* Whatever was run, interrupted, failed and edited before, a run that ends
\* shows the error of every package that has one, and of a package with none,
\* and that imports none with one, what a run from nothing would show
\* (vet.go:61): go vet never takes a failed package, or one with findings, for
\* one it is done with.
NothingHidden == phase = "complete" => \A p \in Package :
    /\ (p \in errors) = Fails(p)
    /\ (\A q \in Needs(p) : ~Fails(q)) =>
          shown[p] = run(project.setting, project.tests, version(p).diagnostics)

\* Of the diagnostics of a package the tool reports those the filter keeps the
\* finding of, with all the analyzer said of them, in their order, and each
\* where the command prints it (vet.go:198): identical findings, and those
\* dropped between two kept, shift none.
VetReportsKept == \A p \in Package :
    LET s == project.setting
        list == reported(s, project.tests, version(p).diagnostics)
        findings == Range(kept(s, foundIn(s, list)))
        expected == only(list, {d \in Range(list) : finding(s, d) \in findings})
    IN  run(s, project.tests, version(p).diagnostics) =
            [i \in DOMAIN expected |->
                [position |-> placed(s, expected[i]), message |-> expected[i].message,
                 fix |-> expected[i].fix]]

\* The diagnostics the command has of each package, which loads no test file
\* under run.tests false.
CommandList(p) == only(version(p).diagnostics, {d \in Range(version(p).diagnostics) :
    project.tests \/ ~project.setting.files[d.compiled.file].test})
CommandPrints == Range(report(project.setting,
    [i \in 1 .. Cardinality(Package) |-> CommandList(SetToSeq(Package)[i])]))

\* Every finding go vet shows in a run with no error is one the command
\* prints, and where every file can be read it shows them all (report.go:62):
\* a file that cannot be read keeps more in the command, which reads the
\* findings of every package at once.
CommandAgrees == phase = "complete" /\ errors = {} =>
    LET findings == UNION {{[position |-> d.position, message |-> d.message] :
                              d \in Range(shown[p])} : p \in Package}
    IN  /\ findings \subseteq CommandPrints
        /\ (\A f \in Range(project.setting.files) : ~f.unreadable) =>
              findings = CommandPrints

\* A file that cannot be read hides no finding: whatever is kept when every
\* file can be read is kept when some cannot (report.go:62, exclusions.go:133).
FailuresHideNothing == \A p \in Package :
    LET s == project.setting
        readable == [s EXCEPT !.files =
                       [f \in DOMAIN @ |-> [@[f] EXCEPT !.unreadable = FALSE]]]
        list == goFindings(s, version(p).diagnostics)
    IN  Range(kept(readable, list)) \subseteq Range(kept(s, list))

\* The rules the command warns of as unused drop nothing, together: without
\* them it prints the same (exclusions.go:100).
UnusedRulesIdle ==
    LET s == project.setting
        list == placedFindings(s, [i \in 1 .. Cardinality(Package) |->
                                      CommandList(SetToSeq(Package)[i])])
        unused == unusedRules(s, reachRules(s, list))
        used == only([i \in DOMAIN s.rules |-> i], DOMAIN s.rules \ unused)
    IN  kept([s EXCEPT !.rules = [i \in DOMAIN used |-> s.rules[used[i]]]], list) =
            kept(s, list)
====
