------------------------------- MODULE Flow -------------------------------
(***************************************************************************)
(* One step of paircheck's path search (src/paircheck/flow.go, with the     *)
(* ways out of transfer.go and the failures of success.go and failure.go).  *)
(*                                                                          *)
(* A search follows one value from the call that opened an obligation on    *)
(* it.  What an instruction is to that value - a satisfier on it, a call    *)
(* that passes it, a deferred closure that covers it - is answered by other *)
(* parts of the analyzer (identity, slots, summaries, closures); here those *)
(* answers are facts an instruction carries, in its field "is".  Everything *)
(* the search then does with them is in this module, as constant-level      *)
(* operators: PathWalk walks one path with them, Search a whole graph.      *)
(***************************************************************************)
EXTENDS Naturals, FiniteSets

CONSTANTS
    Value,         \* the error values (SSA registers) of the analyzed function
    Variable,      \* its addressable error variables, read through loads
    TriggerError,  \* the error the trigger call returned, a member of Value
    Derived,       \* values computed from TriggerError, a phi of it say
    Built,         \* values built as failures: errors.New(...), a global error
    Home,          \* variables TriggerError is stored into (failure.homes)
    Tracked,       \* the errors its returns can hand back (returnedErrors)
    Closure,       \* its deferred closures that call a satisfier
    None           \* no closure, no returned error

\* An operand that reads an error: the register, or a load of the variable.
Name == Value \union Variable

ASSUME NamesAssumption ==
    /\ Value \intersect Variable = {}
    /\ TriggerError \in Value
    /\ Derived \subseteq Value \ {TriggerError}
    /\ Built \subseteq Value \ {TriggerError}
    /\ Home \subseteq Variable
    /\ Tracked \subseteq Name
    /\ None \notin Name
    /\ None \notin Closure

saturated == 2

\* Where a definition has a mutated form, named for what it gets wrong, the
\* form precedes it: a run that replaces the one by the other has to fail.

raisedUnbounded(count) == count + 1

\* A count of obligations or of deferred satisfiers, one more.
raised(count) == IF count < saturated THEN count + 1 ELSE saturated

---------------------------------------------------------------------------
(* What a search is given: the rule it enforces, and the function's code.   *)

Protocol == [requireDefer : BOOLEAN, idempotent : BOOLEAN,
             deferFirst : BOOLEAN, onSuccess : BOOLEAN, openOnError : BOOLEAN,
             coverage : {"any-path", "every-path", "none"},
             escapes : SUBSET {"returned", "stored", "passed"}]

\* Two facts are ghosts that say nothing to the search: "noreturn", a call like
\* log.Fatal, which SSA follows with a panic; and "again", the trigger's own
\* call, which a loop comes back to.
CallFacts == {"satisfier", "trigger", "discharged", "passes", "builtin",
              "feeds", "noreturn", "again"}

DeferFacts == {"satisfier", "discharged", "passes", "closureAny",
               "closureEvery"}

\* A Leave lets the value out by one of the ways of transfer.go if it carries
\* it: a map update or a send stores it; a go statement or a closure that is
\* not only deferred passes it; so does a store into a variadic call's array.
Instruction ==
    [op : {"Call"}, is : SUBSET CallFacts]
      \union [op : {"Defer"}, is : SUBSET DeferFacts,
              closure : Closure \union {None}]
      \union [op : {"Store"}, addr : Variable, val : Name]
      \union [op : {"Leave"}, way : {"stored", "passed"}]
      \union [op : {"Return"}, carries : BOOLEAN, error : Name \union {None},
              decidedBy : SUBSET Closure]
      \union [op : {"Panic", "Other"}]

\* How a block ends in two ways: a comparison with nil (ne, eq), a predicate
\* true of failures only (errors.Is, x == io.EOF), its negation x != io.EOF,
\* or a condition on something else.
Condition == [kind : {"ne", "eq", "predicate", "unequal"}, of : Name]
               \union [kind : {"other"}]

Events == {"none", "trigger", "satisfier", "undeferred", "deferred", "exit",
           "abandon", "transfer"}

Leaks == {"none", "atExit", "beforeDefer", "onSuccess"}

Endings == {"none", "discharged", "open", "transferred", "abandoned"}

State == [open : 0..saturated, deferred : 0..saturated, uncertain : BOOLEAN,
          displaced : BOOLEAN, called : BOOLEAN, failed : SUBSET Tracked,
          closures : SUBSET Closure]

Start == [open |-> 1, deferred |-> 0, uncertain |-> FALSE,
          displaced |-> FALSE, called |-> FALSE, failed |-> {},
          closures |-> {}]

\* What one instruction makes of a state: it goes on from the new state, or
\* the path ends there with a leak or an ending.
Outcome == [state : State, goes : BOOLEAN, leak : Leaks, ending : Endings]

Goes(s) == [state |-> s, goes |-> TRUE, leak |-> "none", ending |-> "none"]

Ends(s, leak, ending) ==
    [state |-> s, goes |-> FALSE, leak |-> leak, ending |-> ending]

---------------------------------------------------------------------------
(* What an instruction does with the value.                                 *)

handsOver(p, i) == "passed" \in p.escapes /\ "passes" \in i.is

escaped(p, i) == i.op = "Leave" /\ i.way \in p.escapes

returns(p, i) == "returned" \in p.escapes /\ i.carries

called(p, i) ==
    IF "satisfier" \in i.is
    THEN IF p.requireDefer THEN "undeferred" ELSE "satisfier"
    ELSE IF "trigger" \in i.is
    THEN IF p.idempotent THEN "none" ELSE "trigger"
    ELSE IF "discharged" \in i.is
    THEN IF p.requireDefer THEN "undeferred" ELSE "satisfier"
    ELSE IF handsOver(p, i) THEN "transfer" ELSE "none"

closureDischarges(p, i) ==
    \/ p.coverage = "any-path" /\ "closureAny" \in i.is
    \/ p.coverage = "every-path" /\ "closureEvery" \in i.is

deferred(p, i) ==
    IF i.is \intersect {"satisfier", "discharged"} # {} \/ closureDischarges(p, i)
    THEN "deferred"
    ELSE IF handsOver(p, i) THEN "transfer" ELSE "none"

classify(p, i) ==
    CASE i.op = "Call"   -> called(p, i)
      [] i.op = "Defer"  -> deferred(p, i)
      [] i.op = "Return" -> IF returns(p, i) THEN "transfer" ELSE "exit"
      [] i.op = "Panic"  -> "abandon"
      [] OTHER           -> IF escaped(p, i) THEN "transfer" ELSE "none"

---------------------------------------------------------------------------
(* What the path knows of errors.                                           *)

\* failureOf is only asked for the error of a trigger whose rule does not
\* open on error: without it the search reads no check.
homes(p) == IF p.openOnError THEN {} ELSE Home

storedNever(p, s, i) == s

storedDisplaces(p, s, i) ==
    IF i.op = "Store" /\ i.addr \in homes(p)
    THEN [s EXCEPT !.displaced = TRUE]
    ELSE s

stored(p, s, i) ==
    IF i.op = "Store" /\ i.addr \in homes(p)
    THEN [s EXCEPT !.displaced = (i.val # TriggerError)]
    ELSE s

built(x) == x \in Built

fails(s, x) == x \in s.failed \/ built(x)

rememberedForever(p, s, i) ==
    IF i.op = "Store" /\ p.onSuccess /\ i.addr \in Tracked /\ fails(s, i.val)
    THEN [s EXCEPT !.failed = @ \union {i.addr}]
    ELSE s

remembered(p, s, i) ==
    IF i.op = "Store" /\ p.onSuccess /\ i.addr \in Tracked
    THEN [s EXCEPT !.failed = IF fails(s, i.val) THEN @ \union {i.addr}
                                                 ELSE @ \ {i.addr}]
    ELSE s

\* Only a search under on-success is given the deferred closures.
registered(p, s, i) ==
    IF i.op = "Defer" /\ p.onSuccess /\ i.closure # None
    THEN [s EXCEPT !.closures = @ \union {i.closure}]
    ELSE s

returnsError(s, ret) == ret.error # None

returnsUnknown(s, ret) == ret.error # None /\ ~fails(s, ret.error)

returnsFailure(s, ret) == ret.error # None /\ fails(s, ret.error)

closureDecides(s, ret) == s.closures \intersect ret.decidedBy # {}

---------------------------------------------------------------------------
(* The counts, and how a path ends.                                         *)

paidAll(s) == Ends([s EXCEPT !.open = 0, !.called = TRUE], "none", "discharged")

\* A satisfier pays one obligation, and ends the path with the last.
paid(s) ==
    LET next == [s EXCEPT !.open = @ - 1, !.called = TRUE]
    IN  IF next.open = 0 THEN Ends(next, "none", "discharged") ELSE Goes(next)

after(s, happened) ==
    CASE happened = "trigger"    -> Goes([s EXCEPT !.open = raised(@)])
      [] happened = "satisfier"  -> paid(s)
      [] happened = "undeferred" -> Goes([s EXCEPT !.called = TRUE])
      [] happened = "deferred"   -> Goes([s EXCEPT !.deferred = raised(@)])
      [] happened = "abandon"    -> Ends(s, "none", "abandoned")
      [] happened = "transfer"   -> Ends(s, "none", "transferred")
      [] OTHER                   -> Goes(s)

callsBeforeAnyDefer(p, s, i, happened) ==
    /\ p.deferFirst /\ ~s.uncertain
    /\ i.op = "Call" /\ happened # "abandon"
    /\ i.is \intersect {"satisfier", "builtin", "feeds"} = {}

\* discharges(call) of the code is "satisfier"; feedsDeferredSatisfier is
\* "feeds".  A summary's "discharged" call counts as any other call.
callsBeforeDefer(p, s, i, happened) ==
    /\ p.deferFirst /\ ~s.uncertain /\ s.deferred < s.open
    /\ i.op = "Call" /\ happened # "abandon"
    /\ i.is \intersect {"satisfier", "builtin", "feeds"} = {}

leakAt(p, s, ret) ==
    IF s.uncertain THEN "none"
    ELSE IF s.open > s.deferred THEN "atExit"
    ELSE IF /\ p.onSuccess /\ ~s.called
            /\ ~returnsFailure(s, ret) /\ ~closureDecides(s, ret)
    THEN "onSuccess"
    ELSE "none"

exit(p, s, ret) ==
    LET found == leakAt(p, s, ret)
    IN  Ends(s, found, IF found = "atExit" THEN "open"
                       ELSE IF s.open <= s.deferred THEN "discharged"
                       ELSE "none")

\* The body of advance's loop: every instruction first updates what the path
\* knows, and then happens to the value.
noted(p, s, i) == registered(p, remembered(p, stored(p, s, i), i), i)

step(p, s, i) ==
    LET known    == noted(p, s, i)
        happened == classify(p, i)
    IN  IF callsBeforeDefer(p, known, i, happened)
        THEN Ends(known, "beforeDefer", "none")
        ELSE IF happened = "exit" THEN exit(p, known, i)
        ELSE after(known, happened)

---------------------------------------------------------------------------
(* Past a branch.                                                           *)

\* isError(x), failure.is of the code: x is the trigger's error, or a load of a variable it was stored into
\* and nothing displaced it from.
isError(p, s, x) == x = TriggerError \/ (x \in homes(p) /\ ~s.displaced)

readBy(p, s, x) == isError(p, s, x) \/ x \in Derived

verdictOf(p, s, c) ==
    IF p.openOnError \/ c.kind = "other" THEN "none"
    ELSE IF c.kind = "ne" /\ isError(p, s, c.of) THEN "failed"
    ELSE IF c.kind = "eq" /\ isError(p, s, c.of) THEN "succeeded"
    ELSE IF readBy(p, s, c.of) THEN "unknown" ELSE "none"

\* proofOf: the successor (1 where the condition is true, 2 where it is false)
\* on which the checked error is not nil.  The other proves it nil only in a
\* comparison with nil.
failing(c) == IF c.kind \in {"ne", "predicate"} THEN 1 ELSE 2

nilOtherwise(c) == c.kind \in {"ne", "eq"}

along(s, c, position) ==
    IF c.kind = "other" \/ c.of \notin Tracked THEN s
    ELSE IF position = failing(c) THEN [s EXCEPT !.failed = @ \union {c.of}]
    ELSE IF nilOtherwise(c) THEN [s EXCEPT !.failed = @ \ {c.of}]
    ELSE s

\* The positions a branch is followed to.
followed(p, s, c) ==
    CASE verdictOf(p, s, c) = "failed"    -> {2}
      [] verdictOf(p, s, c) = "succeeded" -> {1}
      [] OTHER                            -> {1, 2}

\* The state on the successor at a position that is followed.
into(p, s, c, position) ==
    CASE verdictOf(p, s, c) \in {"failed", "succeeded"} ->
           [s EXCEPT !.uncertain = FALSE]
      [] verdictOf(p, s, c) = "unknown" -> [s EXCEPT !.uncertain = TRUE]
      [] OTHER -> IF p.onSuccess THEN along(s, c, position) ELSE s
===========================================================================
