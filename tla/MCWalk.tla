------------------------------- MODULE MCWalk -------------------------------
(***************************************************************************)
(* Instances of PathWalk for TLC: families of paths, each with the rules,   *)
(* the instructions and the conditions its paths are made of.  A path       *)
(* belongs to one of the families of the run.                               *)
(***************************************************************************)
EXTENDS PathWalk

CONSTANTS
    err, phi, res, new, v, w, k,
    Families   \* those of the run, of the names below

VARIABLE family   \* that of the path

Rule(requireDefer, idempotent, deferFirst, onSuccess, openOnError, coverage) ==
    [requireDefer |-> requireDefer, idempotent |-> idempotent,
     deferFirst |-> deferFirst, onSuccess |-> onSuccess,
     openOnError |-> openOnError, coverage |-> coverage,
     escapes |-> {"returned", "stored", "passed"}]

Call(facts) == [op |-> "Call", is |-> facts]
Defer(facts) == [op |-> "Defer", is |-> facts, closure |-> None]
Store(addr, val) == [op |-> "Store", addr |-> addr, val |-> val]
Return(error) ==
    [op |-> "Return", carries |-> FALSE, error |-> error, decidedBy |-> {}]

Plain == {Call({}), [op |-> "Panic"], [op |-> "Other"]}

\* Counting: everything that opens, pays, defers or lets the value leave.
CountingRules ==
    {Rule(rd, id, df, FALSE, FALSE, cov) :
        rd \in BOOLEAN, id \in BOOLEAN, df \in BOOLEAN,
        cov \in {"any-path", "every-path", "none"}}
      \union {[Rule(FALSE, FALSE, df, FALSE, FALSE, "any-path")
                 EXCEPT !.escapes = {}] : df \in BOOLEAN}

CountingInstructions ==
    Plain
      \union {Call({f}) : f \in {"satisfier", "trigger", "passes", "builtin",
                                 "feeds", "discharged"}}
      \union {Call({"trigger", "satisfier"}), Call({"trigger", "discharged"})}
      \union {Defer({f}) : f \in DeferFacts}
      \union {[op |-> "Leave", way |-> way] : way \in {"stored", "passed"}}
      \union {[Return(None) EXCEPT !.carries = c] : c \in BOOLEAN}

CountingConditions == {[kind |-> "ne", of |-> err], [kind |-> "other"]}

\* The trigger's error: stored, displaced, copied and checked in every way.
ErrorRules ==
    {Rule(FALSE, FALSE, df, os, oe, "any-path") :
        df \in BOOLEAN, os \in BOOLEAN, oe \in BOOLEAN}

ErrorInstructions ==
    {Call({}), Call({"trigger"}), Call({"satisfier"}), Defer({"satisfier"}),
     Return(None)}
      \union {Store(addr, val) : addr \in Variable, val \in {res} \union Variable}
      \union {Store(addr, err) : addr \in Home}

ErrorConditions ==
    [kind : {"ne", "eq", "predicate", "unequal"}, of : Name \ Built]
      \union [kind : {"other"}]

\* On-success: failures built, stored, checked and returned, and closures.
SuccessRules ==
    {Rule(rd, FALSE, FALSE, TRUE, TRUE, "any-path") : rd \in BOOLEAN}

Plainly == Name \ ({err} \union Derived)

SuccessInstructions ==
    {Call({}), Call({"satisfier"}), Call({"trigger"}), Defer({"satisfier"}),
     [op |-> "Defer", is |-> {"closureAny"}, closure |-> k]}
      \union {Store(addr, val) : addr \in Variable, val \in Plainly}
      \union {[Return(x) EXCEPT !.decidedBy = d] :
                x \in Plainly \union {err, None}, d \in SUBSET Closure}

SuccessConditions ==
    [kind : {"ne", "eq", "predicate", "unequal"}, of : Plainly]

\* In loops the trigger's call is met again, and res, the error of another
\* call, defined again.
LoopRules ==
    {Rule(FALSE, FALSE, FALSE, os, oe, "any-path") : os \in BOOLEAN, oe \in BOOLEAN}

LoopInstructions ==
    {Call({"trigger", "again"}), Call({"satisfier"}), Defer({"satisfier"})}
      \union {Return(x) : x \in {None, res, v}}
      \union {Store(v, val) : val \in {err, res, new}}

LoopConditions == [kind : {"ne", "eq", "predicate"}, of : {err, res, v}]

\* A call that does not return, and one of a helper, under defer-first.
ExitRules == {Rule(FALSE, FALSE, TRUE, FALSE, FALSE, "any-path")}

ExitInstructions ==
    Plain \union {Call({"noreturn"}), Call({"discharged"}), Defer({"satisfier"})}

---------------------------------------------------------------------------
(* The families.                                                            *)

RulesOf(fam) ==
    CASE fam = "counting" -> CountingRules
      [] fam = "errors"   -> ErrorRules
      [] fam = "success"  -> SuccessRules
      [] fam = "exits"    -> ExitRules
      [] fam = "loops"    -> LoopRules

InstructionsOf(fam) ==
    CASE fam = "counting" -> CountingInstructions
      [] fam = "errors"   -> ErrorInstructions
      [] fam = "success"  -> SuccessInstructions
      [] fam = "exits"    -> ExitInstructions
      [] fam = "loops"    -> LoopInstructions

ConditionsOf(fam) ==
    CASE fam \in {"counting", "exits"} -> CountingConditions
      [] fam = "errors"   -> ErrorConditions
      [] fam = "success"  -> SuccessConditions
      [] fam = "loops"    -> LoopConditions

\* The names a path of the family reads; the others hold nil.
NamesOf(fam) ==
    CASE fam \in {"counting", "exits"} -> {err}
      [] fam = "errors"   -> Name \ Built
      [] fam = "success"  -> Name \ Derived
      [] fam = "loops"    -> {err, res, v}

MCRules == UNION {RulesOf(fam) : fam \in Families}
MCInstructions == UNION {InstructionsOf(fam) : fam \in Families}
MCConditions == UNION {ConditionsOf(fam) : fam \in Families}

\* Counting is what needs many obligations open at once.
BoundOf(fam) == IF fam = "counting" THEN MaxCount ELSE 2

MCInit ==
    /\ Init
    /\ family \in Families
    /\ protocol \in RulesOf(family)
    /\ \A x \in Name \ NamesOf(family) :
         contents[x].nonNil => x \in Built \/ contents[x].trigger

MCNext ==
    /\ \/ \E i \in InstructionsOf(family) :
            /\ Opens(i) => owed < BoundOf(family)
            /\ Defers(i) => covered < BoundOf(family)
            /\ Execute(i)
       \/ \E c \in ConditionsOf(family), position \in 1..2 :
            /\ Exposes(c, position) /\ ~exposed => shown < BoundOf(family)
            /\ Branch(c, position)
       \/ family = "loops" /\ \E x \in Value \ Derived : Redefine(x)
    /\ UNCHANGED family

MCSpec == MCInit /\ [][MCNext]_<<vars, family>>

\* Loads earlier than their use, where Fresh is not assumed.
MCLoad == \E x \in Variable : Load(x) /\ UNCHANGED family
LoadSpec == MCInit /\ [][MCNext \/ MCLoad]_<<vars, family>>
=============================================================================
