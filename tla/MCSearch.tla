------------------------------ MODULE MCSearch ------------------------------
(***************************************************************************)
(* Functions for TLC to search: four shapes of control flow, their blocks   *)
(* filled in every way with one instruction each.                           *)
(***************************************************************************)
EXTENDS Search

CONSTANTS err, res, new, v, k

Rule(requireDefer, deferFirst, onSuccess) ==
    [requireDefer |-> requireDefer, idempotent |-> FALSE,
     deferFirst |-> deferFirst, onSuccess |-> onSuccess,
     openOnError |-> FALSE, coverage |-> "any-path",
     escapes |-> {"returned", "stored", "passed"}]

Trigger == [op |-> "Call", is |-> {"trigger"}]
Call(facts) == [op |-> "Call", is |-> facts]
Defer(facts, closure) == [op |-> "Defer", is |-> facts, closure |-> closure]
Store(val) == [op |-> "Store", addr |-> v, val |-> val]
Exit(error, decided) == [op |-> "Return", carries |-> FALSE, error |-> error,
                         decidedBy |-> decided]
Other == [op |-> "Other"]

Block(instrs, cond, succs) == [instrs |-> instrs, cond |-> cond, succs |-> succs]
Jump(i, succ) == Block(<<i>>, None, <<succ>>)
If(i, cond, yes, no) == Block(<<i>>, cond, <<yes, no>>)
Leaves(i) == Block(<<i>>, None, << >>)

\* b1 opens, one of two blocks runs, b4 returns.
Diamond(a, b, c, d, ret) ==
    <<Block(<<Trigger>>, c, <<2, 3>>), Jump(a, 4), Jump(b, 4),
      Block(<<ret>>, None, << >>)>>

\* The same with an early return from the first branch of a second check.
TwoChecks(a, b, c, d, ret) ==
    <<Block(<<Trigger>>, c, <<2, 3>>), Jump(a, 4), Jump(b, 4),
      If(Other, d, 5, 6), Leaves(ret), Leaves(ret)>>

\* A loop whose head decides whether to go round, from inside the obligation.
Loop(a, b, c, d, ret) ==
    <<Block(<<Trigger, a>>, None, <<2>>), If(Other, c, 3, 4), Jump(b, 2),
      Leaves(ret)>>

\* A loop with a check in its body, going back to the trigger.
Rounds(a, b, c, d, ret) ==
    <<Block(<<Trigger>>, c, <<2, 3>>), Jump(a, 4), Jump(b, 4),
      If(Other, d, 1, 5), Leaves(ret)>>

Shapes(a, b, c, d, ret) ==
    {Diamond(a, b, c, d, ret), TwoChecks(a, b, c, d, ret),
     Loop(a, b, c, d, ret), Rounds(a, b, c, d, ret)}

Functions(instrs, conds, rets) ==
    {[blocks |-> blocks, start |-> 1, index |-> 1] :
       blocks \in UNION {Shapes(a, b, c, d, ret) :
         a \in instrs, b \in instrs, c \in conds, d \in conds, ret \in rets}}

Nothing == [kind |-> "other"]

CountingPrograms ==
    Functions({Other, Call({}), Call({"satisfier"}), Call({"trigger"}),
               Defer({"satisfier"}, None), Call({"passes"}), [op |-> "Panic"]},
              {Nothing, [kind |-> "ne", of |-> err], [kind |-> "eq", of |-> v],
               [kind |-> "predicate", of |-> err]},
              {Exit(None, {})})

CountingProtocols ==
    {Rule(FALSE, FALSE, FALSE), Rule(TRUE, FALSE, FALSE), Rule(FALSE, TRUE, FALSE)}

SuccessPrograms ==
    Functions({Store(res), Store(new), Call({"satisfier"}),
               Defer({"closureAny"}, k)},
              {[kind |-> "ne", of |-> res], [kind |-> "eq", of |-> v],
               [kind |-> "predicate", of |-> res]},
              {Exit(v, {}), Exit(res, {k})})

SuccessProtocols ==
    {[Rule(FALSE, FALSE, TRUE) EXCEPT !.openOnError = TRUE]}

\* Each function with the rules its instructions are about.
MCPrograms == CountingPrograms \union SuccessPrograms
MCProtocols == CountingProtocols \union SuccessProtocols
MCInit ==
    /\ \/ program \in CountingPrograms /\ protocol \in CountingProtocols
       \/ program \in SuccessPrograms /\ protocol \in SuccessProtocols
    /\ Begins
MCSpec == MCInit /\ [][Next]_vars /\ WF_vars(Skip \/ Visit \/ Return)
=============================================================================
