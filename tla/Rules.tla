------------------------------- MODULE Rules -------------------------------
(***************************************************************************)
(* A rule across the packages of a program: Validate checks it once        *)
(* against every package it names (src/paircheck/validate.go), and the     *)
(* pass of each package binds it against the packages that one imports     *)
(* (bindAll in src/paircheck/paircheck.go), which may be only some.        *)
(*                                                                         *)
(* The code relies on the two agreeing: a rule Validate accepts makes no   *)
(* pass fail, and every pass that applies it applies the same rule.        *)
(***************************************************************************)
EXTENDS Binding

CONSTANTS
    Cases,      \* the pairs [world, rule] the program may be
    Libraries   \* the packages there are to import

\* Every import is of a package there is, a function lists its parameters and
\* results, no package declares two types of one name, and a rule lists its
\* satisfiers and is opened by a function with a name.
ASSUME CasesAssumption ==
    \A each \in Cases :
        /\ each.world.imports \in [Libraries -> SUBSET Libraries]
        /\ \A function \in each.world.funcs :
              /\ function.params \in Seq(Range(function.params))
              /\ function.results \in Seq(Range(function.results))
        /\ \A one, other \in each.world.types :
              one.path = other.path /\ one.name = other.name => one = other
        /\ ~each.rule.trigger.called
        /\ each.rule.satisfiers \in Seq(Range(each.rule.satisfiers))

VARIABLES
    case,       \* what the packages declare, and the rule
    verdict,    \* what Validate said: "none" before it ran
    passed      \* what the pass of the last analyzed package made of the rule

rulesVars == <<case, verdict, passed>>

world == case.world
rule == case.rule

NothingPassed == [visible |-> {}, error |-> "", bound |-> {}]

----------------------------------------------------------------------------
(* Validate.                                                               *)

PathsNamed ==
    {side.name.path : side \in {each \in Sides(rule) : ~each.called}}
    \union {rule.implementations[i].path : i \in DOMAIN rule.implementations}
    \union {rule.failures[i].path : i \in DOMAIN rule.failures}

\* The packages Validate loads, with all they import.
Loaded == visiblePackages(world, PathsNamed)

checkFailure(name) ==
    LET functions == lookupFunc(world, Loaded, name)
    IN  CASE functions = {} -> "unknown function"
          [] \E function \in functions : failureIndex(function) < 0 -> "not a failure"
          [] OTHER -> ""

Problems ==
    {resolve(rule, world, Loaded, TRUE).error}
    \union {implementationProblem(rule, world, Loaded, rule.implementations[i]) :
               i \in DOMAIN rule.implementations}
    \union {checkFailure(rule.failures[i]) : i \in DOMAIN rule.failures}

Validate ==
    /\ verdict = "none"
    /\ verdict' = IF Problems = {""} THEN "accepted" ELSE "refused"
    /\ UNCHANGED <<case, passed>>

----------------------------------------------------------------------------
(* The pass of a package that imports some of the libraries.               *)

\* The rule and what it becomes for each implementation the pass sees.
ruleFor(visible, name) == appliedBy(rule, world, visible, name)

bindEach(visible, rules) ==
    {[rule |-> each, binding |-> bind(each, world, visible)] : each \in rules}

\* What a pass made of it: what an implementation failed with, or a binding.
passedAs(visible, failures, bound) ==
    LET errors == {each.binding.error : each \in bound} \ {"", "skipped"}
        told == IF failures # {} THEN failures ELSE errors
    IN  [visible |-> visible,
         error |-> IF told = {} THEN "" ELSE CHOOSE error \in told : TRUE,
         bound |-> {each \in bound : failures = {} /\ each.binding.error = ""}]

bindImplemented(visible, applied) ==
    passedAs(visible,
             {each.error : each \in applied} \ {""},
             bindEach(visible, {rule} \union
                 UNION {each.rules : each \in {a \in applied : a.error = ""}}))

bindAll(visible) ==
    bindImplemented(visible, {ruleFor(visible, rule.implementations[i]) : i \in DOMAIN rule.implementations})

check(imported) ==
    /\ verdict # "none"
    /\ passed = NothingPassed
    /\ passed' = bindAll(visiblePackages(world, imported))
    /\ UNCHANGED <<case, verdict>>

----------------------------------------------------------------------------

RulesInit ==
    /\ case \in Cases
    /\ verdict = "none"
    /\ passed = NothingPassed

RulesNext ==
    \/ Validate
    \/ \E imported \in SUBSET Libraries : check(imported)

RulesSpec == RulesInit /\ [][RulesNext]_rulesVars

\* A pass sees with a package all that one imports (bind.go, visiblePackages).
TypeOK ==
    /\ case \in Cases
    /\ verdict \in {"none", "accepted", "refused"}
    /\ passed.visible \in SUBSET Libraries
    /\ \A path \in passed.visible : world.imports[path] \subseteq passed.visible

----------------------------------------------------------------------------
(* What Validate settled: the rule and what it is for each implementation, *)
(* each with its binding over all the packages it names.                   *)

Accepted == verdict = "accepted"

AppliedEverywhere ==
    {appliedTo(rule, world, Loaded, typeName) : typeName \in
        UNION {TypesNamed(world, Loaded, rule.implementations[i].path,
                          rule.implementations[i].name) :
               i \in DOMAIN rule.implementations}}

Settling == {rule} \union AppliedEverywhere

\* A rule Validate accepts makes the pass of no package fail, whatever part
\* of the rule's packages that one imports (bind.go:51).
ValidatedNeverFails == Accepted => passed.error = ""

SettledAs(each, settled) ==
    /\ each.binding.triggerSlot = settled.triggerSlot
    /\ each.binding.valueType = settled.valueType
    /\ each.binding.failure = settled.failure
    /\ \A i \in DOMAIN each.rule.satisfiers :
          LET satisfier == each.rule.satisfiers[i]
              sees == satisfier.called \/ satisfier.name.path \in passed.visible
          IN  each.binding.satisfierSlots[i] =
                  IF sees THEN settled.satisfierSlots[i] ELSE slotNone

\* Every pass that binds the rule, or applies it to an implementation, binds
\* one Validate settled, with the same value in the same slot of every
\* function the pass sees (bind.go:51 and settle; paircheck.go, bindAll).
PassesAgree ==
    Accepted =>
        \A each \in passed.bound :
            /\ each.rule \in Settling
            /\ SettledAs(each, resolve(each.rule, world, Loaded, TRUE))

\* A pass that sees the trigger and every satisfier of the rule, or of what it
\* is for an implementation, applies it: it is never left out in silence
\* (implementation.go:206, ambiguous).
SeeingAllApplies ==
    (Accepted /\ passed # NothingPassed) =>
        \A settled \in Settling :
            seesAll(world, passed.visible, settled) =>
                \E each \in passed.bound : each.rule = settled

=============================================================================
