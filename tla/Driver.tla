---- MODULE Driver ----
(***************************************************************************)
(* A run of the command (driver.go, loading.go, report.go): what of the    *)
(* loaded packages it analyzes, the passes over them, and what it prints   *)
(* and exits with.  A run of Passes also has                               *)
(*   loaded   the packages go/packages loads, in order;                    *)
(* and a package of it                                                     *)
(*   variant  what go test builds it from, or NoName: the package whose    *)
(*            path it has, if there is one, the one whose tests it is      *)
(*            built for, and whether it is external, of the tests alone,   *)
(*            [package, tested, external];                                 *)
(*   stem     of a main package whose path ends in .test, what is before;  *)
(*   generated whether go test wrote it;                                   *)
(*   files    the files it holds; broken, the errors it loads with;        *)
(* and the run has found, the files a finding is in.                       *)
(***************************************************************************)
EXTENDS Passes

\* What go list loads: a list of packages, among them the test variants, of
\* packages that are none, whose files they hold, and the test mains go test
\* writes for what the variants test, which no package it loads shares the path
\* of: go/packages refuses two packages of one ID. External tests hold no file of
\* a package with the path they have, the one they test with _test after it.
ASSUME LoadsAssumption == \A r \in Runs :
    LET variants == {v \in Range(r.loaded) : r.packages[v].variant # NoName}
    IN  /\ IsList(r.loaded) /\ Range(r.loaded) \subseteq DOMAIN r.packages
        /\ IsFiniteSet(r.found) /\ NoName \notin DOMAIN r.packages
        /\ \A v \in variants :
             LET package == r.packages[v].variant.package
             IN  /\ r.packages[v].variant.tested # NoName
                 /\ package # NoName => package \in DOMAIN r.packages \ variants
                 /\ (package # NoName /\ ~r.packages[v].variant.external) =>
                       r.packages[package].files \subseteq r.packages[v].files
        /\ \A p \in Range(r.loaded) : r.packages[p].generated <=>
             /\ p \notin variants
             /\ \E v \in variants : r.packages[v].variant.tested = r.packages[p].stem

VARIABLES
    stage,      \* "load", "analyze" or "exited"
    roots,      \* the packages analyzed, in order
    problems,   \* the errors printed, in order
    printed,    \* the findings printed, in order: each a file here
    exit        \* the exit status

vars == <<run, heap, passes, stage, roots, problems, printed, exit>>

ExitClean == 0
ExitFailed == 1
ExitFindings == 3
Running == 99

----------------------------------------------------------------------------
(* What is loaded, and what of it is analyzed.                             *)

isVariant(p) == run.packages[p].variant # NoName
Variants == {p \in Range(run.loaded) : isVariant(p)}
tested == {run.packages[v].variant.package : v \in Variants}
mains == {run.packages[v].variant.tested : v \in Variants}
testMainAny(p) == run.packages[p].stem # NoName
testMain(p) == run.packages[p].stem \in mains

\* split: a package as it builds, and what golangci-lint analyzes.
plain == only(run.loaded, {p \in Range(run.loaded) : ~isVariant(p) /\ ~testMain(p)})
analyzed == only(run.loaded, {p \in Range(run.loaded) :
    isVariant(p) \/ (~testMain(p) /\ p \notin tested)})

\* The errors packages, and what they import, load with.
loadErrors(list) == UNION {run.packages[q].broken :
                             q \in UNION {SeenFrom[p] : p \in Range(list)}}

----------------------------------------------------------------------------
(* What the passes failed with.                                            *)

\* The errors the pass of p failed with: its own, or those of the passes it
\* waited on.
causesDirect(p) == {passes[p].error}
causes(p) ==
    LET told[q \in Packages] ==
            LET failed == {i \in ImportsOf(q) : passes[i].error # NoError}
            IN  IF failed = {} THEN {passes[q].error} ELSE UNION {told[i] : i \in failed}
    IN  told[p]

\* Those of the roots that failed, each once.
rootErrors == once([i \in DOMAIN roots |->
    IF passes[roots[i]].error = NoError THEN {} ELSE causes(roots[i])])

\* The findings of the roots, each once.
placedFindings == once([i \in DOMAIN roots |-> run.packages[roots[i]].files \cap run.found])

----------------------------------------------------------------------------
(* The actions.                                                            *)

Init ==
    /\ PassesInit
    /\ stage = "load" /\ roots = <<>> /\ problems = <<>> /\ printed = <<>>
    /\ exit = Running

Exit(status) == stage' = "exited" /\ exit' = status

\* A package that does not load stops the run: the errors of the packages as
\* they build, or, where they have none, those of their tests.
Load ==
    LET stops == IF loadErrors(plain) # {} THEN loadErrors(plain)
                 ELSE loadErrors(analyzed)
    IN  /\ stage = "load"
        /\ IF stops # {}
           THEN /\ Exit(ExitFailed) /\ problems' = SetToSeq(stops) /\ UNCHANGED roots
           ELSE /\ stage' = "analyze" /\ roots' = analyzed
                /\ UNCHANGED <<problems, exit>>
        /\ UNCHANGED <<run, heap, passes, printed>>

\* The checker runs the passes of the roots, and of all they import.
Reached == UNION {SeenFrom[p] : p \in Range(roots)}
Analyze ==
    /\ stage = "analyze"
    /\ \E p \in Reached : PassStep(p)
    /\ UNCHANGED <<stage, roots, problems, printed, exit>>

\* Once they have all ended the run prints the errors, or the findings.
Report ==
    /\ stage = "analyze"
    /\ \A p \in Reached : Ended(p)
    /\ IF rootErrors # <<>>
       THEN Exit(ExitFailed) /\ problems' = rootErrors /\ UNCHANGED printed
       ELSE /\ Exit(IF placedFindings # <<>> THEN ExitFindings ELSE ExitClean)
            /\ printed' = placedFindings /\ UNCHANGED problems
    /\ UNCHANGED <<run, heap, passes, roots>>

Stop == stage = "exited" /\ UNCHANGED vars

Next == Load \/ Analyze \/ Report \/ Stop

\* Only a run that exited has nothing left to do: a deadlock is a run whose
\* passes wait on each other.
Spec == Init /\ [][Next]_vars

----------------------------------------------------------------------------
(* Properties.                                                             *)

Written == {p \in Range(run.loaded) : ~run.packages[p].generated}

\* A package whose path the external tests of another have, and that has no
\* test variant of its own.
Shadowed(p) ==
    LET of == {v \in Variants : run.packages[v].variant.package = p}
    IN  of # {} /\ \A v \in of : run.packages[v].variant.external

\* What the run analyzes leaves out no file of the project (loading.go:102).
EveryFileAnalyzed == stage = "analyze" =>
    \A p \in Written :
        run.packages[p].files \subseteq UNION {run.packages[q].files : q \in Range(roots)}

\* The files the run analyzes are those of the project, tests included, but for
\* what only a shadowed package holds (EveryFileAnalyzed); and it analyzes no
\* package beside the test variant that holds its files, nor a test main go test
\* generates (loading.go:102).
SplitCovers == stage = "analyze" =>
    /\ UNION {run.packages[p].files : p \in Range(roots)} =
         UNION {run.packages[p].files : p \in {q \in Written : ~Shadowed(q)}}
    /\ \A p \in Range(roots) : ~run.packages[p].generated
    /\ \A v \in Range(roots) :
         isVariant(v) => run.packages[v].variant.package \notin Range(roots)

\* The run fails when a pass it needed failed, and only then, and prints the
\* error of every pass that ran and failed, once, whichever passes waited on
\* it (driver.go:123): a failure is never hidden by the packages that import
\* the one it is in, and no finding is printed of a run that failed. A run that
\* exits clean found nothing in the project, but for a shadowed package.
FailuresTold == stage = "exited" /\ roots # <<>> =>
    LET errors == {passes[p].error : p \in {q \in Reached : passes[q].stage = "failed"}}
    IN  /\ Range(problems) = errors /\ Len(problems) = Cardinality(errors)
        /\ (exit = ExitFailed) = (errors # {})
        /\ exit = ExitFailed => printed = <<>>
        /\ exit = ExitClean =>
             \A p \in Written : ~Shadowed(p) => run.packages[p].files \cap run.found = {}
====
