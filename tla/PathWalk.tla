------------------------------ MODULE PathWalk ------------------------------
(***************************************************************************)
(* One path of an analyzed function, walked by the search of Flow beside    *)
(* the program that really runs it.                                         *)
(*                                                                          *)
(* The search counts obligations up to two, reads the trigger's error       *)
(* through one flag and remembers failures as a set of names.  The program  *)
(* owes an exact number of satisfiers, and its variables hold errors that   *)
(* are nil or not.  The path is any sequence of instructions and branches;  *)
(* a branch goes where the errors say, and the search either follows it     *)
(* there or drops the path.  In a loop a register is defined again: the     *)
(* trigger's own call makes another error, any other instruction another    *)
(* value, and the search goes on with what it knew of the register.  The    *)
(* properties relate what the search says of the path to what the program   *)
(* owes on it.                                                              *)
(***************************************************************************)
EXTENDS Flow

CONSTANTS
    Protocols,     \* the rules a run chooses from
    Instructions,  \* the instructions a path is made of
    Conditions,    \* the conditions its blocks end in
    StoredAtOnce,  \* the trigger's error is stored into its homes as the
                   \* call returns, as err = open() does
    Fresh,         \* a variable is checked or returned as it is loaded, as
                   \* "if err != nil" does; otherwise a load may come earlier
    MaxCount       \* bound on the openings, the defers and the failures shown
                   \* of one path

ASSUME WalkAssumption ==
    /\ Protocols \subseteq Protocol
    /\ Instructions \subseteq Instruction
    /\ Conditions \subseteq Condition
    /\ \A i \in Instructions :
         /\ i.op = "Store" /\ i.val = TriggerError => i.addr \in Home
         /\ i.op = "Call" /\ "again" \in i.is => "trigger" \in i.is
    /\ StoredAtOnce \in BOOLEAN /\ Fresh \in BOOLEAN
    /\ MaxCount \in Nat

VARIABLES
    protocol,   \* the rule the search enforces
    outcome,    \* the search on this path: its state, and how it ended
    dropped,    \* the search did not follow the branch the program took
    last,       \* the instruction run last
    owed,       \* satisfiers the program still owes, if the trigger succeeded
    covered,    \* deferred satisfiers that will run as it returns
    overflowed, \* an obligation was opened that the search cannot count
    satisfied,  \* the program called a satisfier on the path
    contents,   \* what each register and variable holds
    loaded,     \* what the last load of each variable read
    exposed,    \* a check on the path showed that the trigger's last call failed
    shown,      \* calls of the trigger that a check showed to have failed
    renewed     \* names that may hold another value than the one the path
                \* learned of: their register, or one they were stored from,
                \* was defined again since

search == <<protocol, outcome, dropped>>
counts == <<owed, covered, overflowed, satisfied>>
errors == <<contents, loaded, exposed, shown, renewed>>
vars == <<search, last, counts, errors>>

\* An error value: whether it came from the trigger's last call through its
\* register, and whether it is not nil.
Content == [trigger : BOOLEAN, nonNil : BOOLEAN]

Reads(x) == IF x \in Value \/ Fresh THEN contents[x] ELSE loaded[x]

\* Of the trigger's last call.
TriggerFailed == contents[TriggerError].nonNil

Start0 == [op |-> "Other"]

\* A call that is followed by SSA's panic, because it does not return.
NoReturn(i) == i.op = "Call" /\ "noreturn" \in i.is

\* The trigger's own call, met again in a loop.
Again(i) == i.op = "Call" /\ "again" \in i.is

\* A call met again has returned, and its error is yet to be stored.
Due == StoredAtOnce /\ Home # {} /\ Again(last)

TypeOK ==
    /\ protocol \in Protocols
    /\ outcome \in Outcome
    /\ dropped \in BOOLEAN
    /\ last \in Instructions \union {Start0}
    /\ owed \in Nat /\ covered \in Nat
    /\ overflowed \in BOOLEAN /\ satisfied \in BOOLEAN /\ exposed \in BOOLEAN
    /\ contents \in [Name -> Content]
    /\ loaded \in [Variable -> Content]
    /\ shown \in Nat /\ renewed \subseteq Name

\* What the function's registers and variables hold as the trigger returns.
InitialContents ==
    {c \in [Name -> Content] :
        /\ \A x \in Name : c[x].trigger <=>
             (x = TriggerError \/ (StoredAtOnce /\ x \in Home))
        /\ \A x \in Name : c[x].trigger => c[x].nonNil = c[TriggerError].nonNil
        /\ \A x \in Built : c[x].nonNil}

Init ==
    /\ protocol \in Protocols
    /\ outcome = Goes(Start)
    /\ dropped = FALSE
    /\ last = Start0
    /\ owed = 1 /\ covered = 0
    /\ overflowed = FALSE /\ satisfied = FALSE /\ exposed = FALSE
    /\ shown = 0 /\ renewed = {}
    /\ contents \in InitialContents
    /\ loaded = [v \in Variable |-> contents[v]]

---------------------------------------------------------------------------
(* What an instruction does in the program.                                 *)

Pays(i) == i.op = "Call" /\ i.is \intersect {"satisfier", "discharged"} # {}

Opens(i) == i.op = "Call" /\ "trigger" \in i.is /\ "satisfier" \notin i.is

Defers(i) ==
    i.op = "Defer" /\ (i.is \intersect {"satisfier", "discharged"} # {}
                         \/ closureDischarges(protocol, i))

\* The leak defer-first reports is the panic the call may end in.
Panics(i) == step(protocol, outcome.state, i).leak = "beforeDefer"

\* Under requireDefer a satisfier called on the path pays nothing, under
\* idempotent a second opening owes nothing, and a call that panics does
\* neither.
owedAfter(i) ==
    IF Panics(i) THEN owed
    ELSE IF Opens(i) THEN IF protocol.idempotent THEN owed ELSE owed + 1
    ELSE IF Pays(i) /\ ~protocol.requireDefer THEN owed - 1 ELSE owed

\* The trigger called again makes another error in its register, and no other
\* name holds the trigger's error any longer.
CalledAgain(nonNil) ==
    [x \in Name |-> IF x = TriggerError THEN [trigger |-> TRUE, nonNil |-> nonNil]
                    ELSE [contents[x] EXCEPT !.trigger = FALSE]]

\* What the names may hold once the instruction ran.
ContentsAfter(i) ==
    IF Again(i) THEN {CalledAgain(nonNil) : nonNil \in BOOLEAN}
    ELSE IF i.op = "Store"
    THEN {[contents EXCEPT ![i.addr] = [trigger |-> i.val = TriggerError,
                                        nonNil  |-> Reads(i.val).nonNil]]}
    ELSE {contents}

Execute(i) ==
    /\ outcome.goes /\ ~dropped
    /\ NoReturn(last) => i.op = "Panic"
    /\ Due => i.op = "Store" /\ i.val = TriggerError
    /\ Opens(i) => owed < MaxCount
    /\ Defers(i) => covered < MaxCount
    /\ outcome' = step(protocol, outcome.state, i)
    /\ last' = i
    /\ owed' = owedAfter(i)
    /\ covered' = IF Defers(i) THEN covered + 1 ELSE covered
    /\ overflowed' = (overflowed \/ (owedAfter(i) > owed
                                       /\ outcome.state.open = saturated))
    /\ satisfied' = (satisfied \/ (Pays(i) /\ ~Opens(i)))
    /\ contents' \in ContentsAfter(i)
    /\ exposed' = (exposed /\ ~Again(i))
    /\ renewed' = IF Again(i) THEN renewed \union {TriggerError}
                  ELSE IF i.op # "Store" THEN renewed
                  ELSE IF i.val \in renewed THEN renewed \union {i.addr}
                  ELSE renewed \ {i.addr}
    /\ UNCHANGED <<protocol, dropped, loaded, shown>>

\* A loop comes back to what defines a register: a call, a phi.  The search
\* sees no event in it, and keeps what it knows of the register.
Redefine(x) ==
    /\ outcome.goes /\ ~dropped /\ ~NoReturn(last) /\ ~Due
    /\ x \in Value \ ({TriggerError} \union Built)
    /\ \E nonNil \in BOOLEAN :
         contents' = [contents EXCEPT ![x] = [trigger |-> FALSE, nonNil |-> nonNil]]
    /\ renewed' = renewed \union {x}
    /\ UNCHANGED <<search, last, counts, loaded, exposed, shown>>

\* A load whose register is used later.
Load(v) ==
    /\ ~Fresh /\ outcome.goes /\ ~dropped /\ ~NoReturn(last) /\ ~Due
    /\ loaded' = [loaded EXCEPT ![v] = contents[v]]
    /\ UNCHANGED <<search, last, counts, contents, exposed, shown, renewed>>

\* The successors the program may take: a predicate says nothing of an error
\* that is not nil.
Taken(c) ==
    IF c.kind = "other" \/ (~nilOtherwise(c) /\ Reads(c.of).nonNil) THEN {1, 2}
    ELSE IF Reads(c.of).nonNil THEN {failing(c)} ELSE {3 - failing(c)}

\* The branch shows that the trigger's last call failed.
Exposes(c, position) ==
    c.kind # "other" /\ Reads(c.of).trigger /\ position = failing(c)

Branch(c, position) ==
    /\ outcome.goes /\ ~dropped /\ ~NoReturn(last) /\ ~Due
    /\ position \in Taken(c)
    /\ Exposes(c, position) /\ ~exposed => shown < MaxCount
    /\ IF position \in followed(protocol, outcome.state, c)
       THEN /\ outcome' = Goes(into(protocol, outcome.state, c, position))
            /\ dropped' = FALSE
       ELSE /\ dropped' = TRUE
            /\ outcome' = outcome
    /\ exposed' = (exposed \/ Exposes(c, position))
    /\ shown' = IF Exposes(c, position) /\ ~exposed THEN shown + 1 ELSE shown
    /\ renewed' = IF c.kind # "other" /\ position = failing(c)
                  THEN renewed \ {c.of} ELSE renewed
    /\ UNCHANGED <<protocol, last, counts, contents, loaded>>

Next ==
    \/ \E i \in Instructions : Execute(i)
    \/ \E x \in Value : Redefine(x)
    \/ \E v \in Variable : Load(v)
    \/ \E c \in Conditions, position \in 1..2 : Branch(c, position)

Spec == Init /\ [][Next]_vars

---------------------------------------------------------------------------
(* Properties.                                                              *)

\* A path reported with the obligation open - at a return, or at a call made
\* before the defer - really owes more than its defers cover: counting only to
\* two, on both sides, never reports a path that is closed (flow.go, after,
\* leakAt and callsBeforeDefer).
LeakMeansOpen == outcome.leak \in {"atExit", "beforeDefer"} => owed > covered

\* Where the search calls a path discharged, the program owes no more than its
\* defers will pay, unless a third obligation was open at once, which the
\* search does not tell from a second (flow.go, saturated).
DischargeMeansClosed ==
    outcome.ending = "discharged" /\ ~overflowed => owed <= covered

\* The branch the search does not follow, after a check of the trigger's
\* error, is one the program takes only when the trigger's last call failed
\* (flow.go, successors): what that call opened, if it succeeded, is never lost.
DroppedOnlyOnFailure == dropped => TriggerFailed

\* Once a check on the path has shown that the trigger's last call failed there
\* is nothing of it to discharge, and the path is never reported, whatever was
\* stored, checked or opened since (flow.go, stored and successors).
CheckedFailureNeverReported ==
    exposed /\ ~protocol.openOnError => outcome.leak = "none"

\* What the path takes for a failure is not nil: a register or a variable in
\* the set "failed" holds an error now, after the checks and the stores of the
\* path, unless a loop defined again a register it learned this of
\* (success.go, remembered and along).
KnownFailuresHold ==
    \A x \in outcome.state.failed \ renewed : contents[x].nonNil

\* Under on-success, a return the search lets pass hands back an error that is
\* not nil, unless a satisfier was called on the path, a deferred closure
\* decides, or the path learned of the error on another turn of a loop: no
\* other successful return loses its write in silence.  And one it reports had
\* no satisfier called (flow.go, leakAt; success.go, fails).
OnSuccessOwed ==
    protocol.onSuccess /\ last.op = "Return" /\ ~outcome.state.uncertain =>
      /\ outcome.ending = "discharged" /\ outcome.leak = "none" =>
           \/ satisfied
           \/ last.error # None /\ (Reads(last.error).nonNil \/ last.error \in renewed)
           \/ outcome.state.closures \intersect last.decidedBy # {}
      /\ outcome.leak = "onSuccess" => ~satisfied

---------------------------------------------------------------------------
(* What the loops break: the search keeps one obligation and one error for   *)
(* every turn.                                                              *)

\* A path the search drops after a check owes nothing but to calls of the
\* trigger that checks showed to have failed (flow.go, successors).
DroppedOwesNothing == dropped => owed <= covered + shown

\* A path reported open owes more than the calls of the trigger that checks
\* showed to have failed (flow.go, successors and leakAt).
LeakNotOfFailures ==
    outcome.leak \in {"atExit", "beforeDefer"} /\ ~protocol.openOnError =>
      owed > covered + shown

\* On-success, in a loop as elsewhere: a return let pass hands back an error
\* that is not nil, or is paid (success.go, fails).
PassedReturnsFail ==
    (/\ protocol.onSuccess /\ last.op = "Return" /\ ~outcome.state.uncertain
     /\ outcome.ending = "discharged" /\ outcome.leak = "none") =>
      \/ satisfied
      \/ last.error # None /\ Reads(last.error).nonNil
      \/ outcome.state.closures \intersect last.decidedBy # {}

\* Under defer-first, a call of a helper that discharges the value on every
\* path is a satisfier, and no reason to report (flow.go, callsBeforeDefer).
HelperNotCounted ==
    outcome.leak = "beforeDefer" => "discharged" \notin last.is

\* Under defer-first, a call that does not return is no reason to report: the
\* path is abandoned there (flow.go:201, callsBeforeDefer).
NoReturnNotCounted == outcome.leak = "beforeDefer" => ~NoReturn(last)
=============================================================================
