----------------------------- MODULE Summaries -----------------------------
(***************************************************************************)
(* learnSummaries (src/paircheck/summary.go): what each function of a       *)
(* package does with the value it receives in a parameter.  The functions   *)
(* are read in the order they are declared, with what is known so far of    *)
(* those they call, again and again until a whole round learns nothing.     *)
(* Then the package runs: a function is called with an open value, and what *)
(* it really does with it is what its entry has to have said.               *)
(*                                                                          *)
(* A body is a set of paths, each a sequence of what it does with the       *)
(* value; follow reads the paths of Search, which searches them all.  One   *)
(* rule is followed, and one parameter of each function holds the value.    *)
(***************************************************************************)
EXTENDS Paths

CONSTANTS
    N,         \* the functions are 1..N, in the order they are declared
    Packages,  \* the packages a run chooses from: the body of each function,
               \* those whose parameter is their receiver, and the ways out
               \* that take the obligation along (transfer)
    MaxDepth   \* bound on the calls a run nests

Function == 1..N

\* What a path does with the value: "pay" it, call or defer a function of the
\* package with it, hand it to another function, nothing, or panic.
Act == [do : {"pay", "deferPay", "hand", "nothing", "panic"}]
         \union [do : {"call", "defer"}, callee : Function]

ASSUME SummariesAssumption ==
    /\ N \in Nat \ {0} /\ MaxDepth \in Nat \ {0}
    /\ \A p \in Packages :
         /\ p.body \in [Function -> SUBSET Seq(Act)]
         /\ p.method \subseteq Function
         /\ p.escapes \subseteq {"returned", "stored", "passed"}

VARIABLES
    package,  \* the package, and the rule's transfer
    entry,    \* what is recorded of each function
    reading,  \* the function the round reads next
    learned,  \* the round has recorded something
    phase,    \* learning, learned, running, returned or panicked
    root,     \* ghost: the function the run called
    stack,    \* ghost: its frames, the running one last
    settled,  \* ghost: the value was discharged
    left      \* ghost: the value was handed to a function of no package read

knowledge == <<entry, reading, learned>>
ghost == <<root, stack, settled, left>>
vars == <<package, knowledge, phase, ghost>>

---------------------------------------------------------------------------
(* Learning.                                                                *)

\* follow searches a helper under the rule without the keys that decide how a
\* caller must discharge the value.
helper(p) == [requireDefer |-> FALSE, idempotent |-> FALSE, deferFirst |-> FALSE,
              onSuccess |-> FALSE, openOnError |-> TRUE, coverage |-> "any-path",
              escapes |-> p.escapes]

factsUsed(p, known, callee) ==
    IF known[callee] = "discharged" THEN {"discharged"} ELSE {}

\* summarized and handsOver: what a call does with the value, by what known
\* says of its callee.  A receiver is not handed over.
facts(p, known, callee) ==
    IF known[callee] = "discharged" THEN {"discharged"}
    ELSE IF known[callee] = "kept" \/ callee \in p.method THEN {}
    ELSE {"passes"}

\* An act as the search of Flow sees it.
seen(p, known, act) ==
    CASE act.do = "pay"      -> [op |-> "Call", is |-> {"satisfier"}]
      [] act.do = "deferPay" -> [op |-> "Defer", is |-> {"satisfier"}, closure |-> None]
      [] act.do = "call"     -> [op |-> "Call", is |-> facts(p, known, act.callee)]
      [] act.do = "defer"    -> [op |-> "Defer", is |-> facts(p, known, act.callee),
                                 closure |-> None]
      [] act.do = "hand"     -> [op |-> "Call", is |-> {"passes"}]
      [] act.do = "panic"    -> [op |-> "Panic"]
      [] act.do = "nothing"  -> [op |-> "Other"]

exitReturn ==
    [op |-> "Return", carries |-> FALSE, error |-> None, decidedBy |-> {}]

\* How the search ends the path: see advance.
endingOf(p, known, path) ==
    run(helper(p), Start,
        Append([n \in DOMAIN path |-> seen(p, known, path[n])], exitReturn)).ending

ended(p, known, f) == {endingOf(p, known, path) : path \in p.body[f]}

followAny(p, known, f) ==
    IF "discharged" \in ended(p, known, f) THEN "discharged"
    ELSE IF "open" \in ended(p, known, f) THEN "kept" ELSE "none"

follow(p, known, f) ==
    LET ways == ended(p, known, f)
    IN  IF "transferred" \in ways THEN "none"
        ELSE IF "discharged" \in ways /\ "open" \notin ways THEN "discharged"
        ELSE IF "open" \in ways /\ "discharged" \notin ways THEN "kept"
        ELSE "none"

\* A method that keeps its receiver says nothing.
recorded(p, known, f) ==
    LET found == follow(p, known, f)
    IN  IF found = "kept" /\ f \in p.method THEN "none" ELSE found

learnParameterAgain(f) == recorded(package, entry, f)

\* learnParameter reads a function nothing is recorded of yet.
learnParameter(f) == IF entry[f] # "none" THEN "none" ELSE recorded(package, entry, f)

Learn ==
    /\ phase = "learning" /\ reading <= N
    /\ \E found \in {learnParameter(reading)} :
         /\ entry' = [entry EXCEPT ![reading] = IF found = "none" THEN @ ELSE found]
         /\ learned' = (learned \/ found # "none")
    /\ reading' = reading + 1
    /\ UNCHANGED <<package, phase, ghost>>

\* The next round, or the end of learning.
Again ==
    /\ phase = "learning" /\ reading = N + 1 /\ learned
    /\ reading' = 1 /\ learned' = FALSE
    /\ UNCHANGED <<package, entry, phase, ghost>>

SettleAtOnce ==
    /\ phase = "learning" /\ reading = N + 1
    /\ phase' = "learned"
    /\ UNCHANGED <<package, knowledge, ghost>>

Settle ==
    /\ phase = "learning" /\ reading = N + 1 /\ ~learned
    /\ phase' = "learned"
    /\ UNCHANGED <<package, knowledge, ghost>>

---------------------------------------------------------------------------
(* Running.                                                                 *)

Frame(path) == [todo |-> path, later |-> << >>]

Top == Last(stack)

Enter(f, path) ==
    /\ phase = "learned" /\ path \in package.body[f]
    /\ phase' = "running" /\ root' = f /\ stack' = <<Frame(path)>>
    /\ UNCHANGED <<package, knowledge, settled, left>>

\* The running frame goes on as rest, and a call pushes a frame of its own.
Called(rest, callee, path) ==
    /\ path \in package.body[callee] /\ Len(stack) < MaxDepth
    /\ stack' = Front(stack) \o <<rest, Frame(path)>>
    /\ UNCHANGED <<package, knowledge, phase, root, settled, left>>

\* What an act done now does to the value: a call, or its effect.
Happens(act, rest) ==
    IF act.do = "call"
    THEN \E path \in package.body[act.callee] : Called(rest, act.callee, path)
    ELSE /\ stack' = Append(Front(stack), rest)
         /\ settled' = (settled \/ act.do = "pay")
         /\ left' = (left \/ (act.do = "hand" /\ "passed" \in package.escapes))
         /\ phase' = IF act.do = "panic" THEN "panicked" ELSE phase
         /\ UNCHANGED <<package, knowledge, root>>

\* An act of the path: a defer keeps its call for the return.
Run ==
    /\ phase = "running" /\ Top.todo # << >>
    /\ LET act  == Head(Top.todo)
           rest == [Top EXCEPT !.todo = Tail(@)]
       IN  CASE act.do = "deferPay" ->
                  Happens([do |-> "nothing"],
                          [rest EXCEPT !.later = Append(@, [do |-> "pay"])])
             [] act.do = "defer" ->
                  Happens([do |-> "nothing"],
                          [rest EXCEPT !.later =
                             Append(@, [do |-> "call", callee |-> act.callee])])
             [] OTHER -> Happens(act, rest)

\* At the return the deferred calls run, the last one first.
RunDeferred ==
    /\ phase = "running" /\ Top.todo = << >> /\ Top.later # << >>
    /\ Happens(Last(Top.later), [Top EXCEPT !.later = Front(@)])

Leave ==
    /\ phase = "running" /\ Top.todo = << >> /\ Top.later = << >>
    /\ stack' = Front(stack)
    /\ phase' = IF Len(stack) = 1 THEN "returned" ELSE phase
    /\ UNCHANGED <<package, knowledge, root, settled, left>>

---------------------------------------------------------------------------
Init ==
    /\ package \in Packages
    /\ entry = [f \in Function |-> "none"] /\ reading = 1 /\ learned = FALSE
    /\ phase = "learning"
    /\ root = 1 /\ stack = << >> /\ settled = FALSE /\ left = FALSE

Learning == Learn \/ Again \/ Settle

Running ==
    \/ \E f \in Function : \E path \in package.body[f] : Enter(f, path)
    \/ Run \/ RunDeferred \/ Leave

Next == Learning \/ Running

\* learnSummaries is a loop with nothing to wait for.
Spec == Init /\ [][Next]_vars /\ WF_vars(Learning)

---------------------------------------------------------------------------
(* Properties.                                                              *)

\* A function recorded to discharge the value has discharged it whenever it
\* returns, through the functions it calls and defers, whatever their order and
\* whether they call each other (summary.go, follow): the caller's path may end
\* there.
DischargedSound ==
    phase = "returned" /\ entry[root] = "discharged" => settled

HandsOver == package.method = {} /\ "passed" \in package.escapes

\* A function recorded to keep the value has neither discharged it nor let it
\* leave on any path it returns by (summary.go, summary), where a call of a
\* function not known yet hands the value over: the caller still owes it.
KeptSound ==
    HandsOver /\ phase = "returned" /\ entry[root] = "kept" => ~settled /\ ~left

\* What is recorded of a function is so of every call of it (summary.go,
\* follow and summary): what a caller's path takes for discharged is
\* discharged, and what it goes on owing is still owed.
RecordedSound == DischargedSound /\ KeptSound

\* What is recorded of each function is what reading it says once everything is
\* learned: nothing is left to learn, and nothing recorded early is wrong by
\* then, so the order of the declarations does not matter (summary.go,
\* learnSummaries).
NothingLeft ==
    phase = "learned" => \A f \in Function : entry[f] = recorded(package, entry, f)

\* The same of a package that hands the value over in every call of a function
\* not known yet (summary.go, learnSummaries; transfer.go, handsOver).
NothingLeftHandingOver == HandsOver => NothingLeft

\* Learning ends, through functions that call each other in a circle
\* (summary.go, learnSummaries).
LearningEnds == <>(phase # "learning")
=============================================================================
