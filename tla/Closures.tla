------------------------------ MODULE Closures ------------------------------
(***************************************************************************)
(* What a deferred closure is taken to do (src/paircheck/closure.go): call  *)
(* a satisfier on every path, or, under on-success, on every path where the *)
(* error its function returns is not a failure.  Both are searches of the   *)
(* closure's blocks; then the closure runs, and does what it really does.   *)
(*                                                                          *)
(* A block is one of Paths.  The closure reads and writes the variable      *)
(* Result, which its function returns the error from, if it captures it.    *)
(***************************************************************************)
EXTENDS Paths

CONSTANTS
    Bodies,  \* the closures a run chooses from, as sequences of blocks
    Result   \* the variable the function returns its error from

ASSUME ClosuresAssumption ==
    /\ Result \in Variable
    /\ \A body \in Bodies :
         /\ Len(body) \in Nat \ {0} /\ DOMAIN body = 1..Len(body)
         /\ \A b \in DOMAIN body : IsBlock(body[b], Len(body))

VARIABLES
    blocks, captures,  \* the closure, and whether it captures Result
    question,  \* "every-path", coversEveryPath, or "decides", decides
    pending,   \* the points still to visit, the last one first
    visited,
    answer,    \* "none" until the search returns
    at,        \* ghost: the block that runs, or 0 before and after
    holds,     \* ghost: the names that hold an error that is not nil
    satisfied, \* ghost: a satisfier was called
    ended      \* ghost: how the closure ended

asked == <<blocks, captures, question>>
work == <<pending, visited, answer>>
running == <<at, holds, satisfied, ended>>
vars == <<asked, work, running>>

---------------------------------------------------------------------------
satisfies(i) == i.op = "Call" /\ "satisfier" \in i.is

covered(b) == \E n \in DOMAIN b.instrs : satisfies(b.instrs[n])

leaves(b) == b.instrs # << >> /\ Last(b.instrs).op \in {"Return", "Panic"}

panics(b) == b.instrs # << >> /\ Last(b.instrs).op = "Panic"

failsAlongForever(b, position, failed) ==
    failed \/ (captures /\ b.cond # None /\ b.cond.kind # "other"
                 /\ position = failing(b.cond))

\* Whether a check at the end of b leaves the error known to be a failure on
\* the successor at position.
failsAlong(b, position, failed) ==
    IF ~captures \/ b.cond = None \/ b.cond.kind = "other" \/ b.cond.of # Result
    THEN failed
    ELSE position = failing(b.cond) \/ (failed /\ ~nilOtherwise(b.cond))

\* coversEveryPath keeps nothing of the error.
Point(block, failed) == [block |-> block, failed |-> failed /\ question = "decides"]

next(point) ==
    LET b == blocks[point.block]
    IN  [position \in DOMAIN b.succs |->
           Point(b.succs[position], failsAlong(b, position, point.failed))]

\* A point that answers no: what it leaves by needed a satisfier.
refusesReturns(point) ==
    /\ leaves(blocks[point.block]) /\ ~covered(blocks[point.block])
    /\ ~panics(blocks[point.block]) /\ ~point.failed

refuses(point) ==
    /\ leaves(blocks[point.block]) /\ ~covered(blocks[point.block])
    /\ question = "decides" => ~panics(blocks[point.block]) /\ ~point.failed

Init ==
    /\ blocks \in Bodies /\ captures \in BOOLEAN
    /\ question \in {"every-path", "decides"}
    /\ pending = <<Point(1, FALSE)>> /\ visited = {} /\ answer = "none"
    /\ at = 0 /\ holds \in SUBSET Name /\ satisfied = FALSE /\ ended = "none"
    /\ Built \subseteq holds

Again ==
    /\ answer = "none" /\ pending # << >> /\ Last(pending) \in visited
    /\ pending' = Front(pending)
    /\ UNCHANGED <<asked, visited, answer, running>>

VisitForgets ==
    /\ answer = "none" /\ pending # << >> /\ Last(pending) \notin visited
    /\ LET point == Last(pending)
           b     == blocks[point.block]
       IN  /\ visited' = {point}
           /\ answer' = IF refuses(point) THEN "no" ELSE "none"
           /\ pending' = Front(pending)
                           \o IF covered(b) \/ leaves(b) THEN << >> ELSE next(point)
    /\ UNCHANGED <<asked, running>>

Visit ==
    /\ answer = "none" /\ pending # << >> /\ Last(pending) \notin visited
    /\ LET point == Last(pending)
           b     == blocks[point.block]
       IN  /\ visited' = visited \union {point}
           /\ answer' = IF refuses(point) THEN "no" ELSE "none"
           /\ pending' = Front(pending)
                           \o IF covered(b) \/ leaves(b) THEN << >> ELSE next(point)
    /\ UNCHANGED <<asked, running>>

Return ==
    /\ answer = "none" /\ pending = << >>
    /\ answer' = "yes"
    /\ UNCHANGED <<asked, pending, visited, running>>

---------------------------------------------------------------------------
(* The run of a closure the search answered yes for.                        *)

Enter ==
    /\ answer = "yes" /\ at = 0 /\ ended = "none"
    /\ at' = 1
    /\ UNCHANGED <<asked, work, holds, satisfied, ended>>

\* The names that hold an error once an instruction ran, and once those of a
\* block did.
afterOne(h, i) ==
    IF i.op # "Store" THEN h
    ELSE IF i.val \in h THEN h \union {i.addr} ELSE h \ {i.addr}

afterEach(h, instrs) ==
    LET errors[n \in 0..Len(instrs)] ==
          IF n = 0 THEN h ELSE afterOne(errors[n - 1], instrs[n])
    IN  errors

held(b) == afterEach(holds, b.instrs)[Len(b.instrs)]

\* Where b may go on to, by the errors: a predicate says nothing of one.
Taken(b) ==
    IF b.cond = None \/ b.cond.kind = "other" \/ (~nilOtherwise(b.cond) /\ b.cond.of \in held(b))
    THEN DOMAIN b.succs
    ELSE IF b.cond.of \in held(b) THEN {failing(b.cond)} ELSE {3 - failing(b.cond)}

Run ==
    /\ at # 0
    /\ LET b == blocks[at]
       IN  /\ holds' = held(b)
           /\ satisfied' = (satisfied \/ covered(b))
           /\ IF leaves(b)
              THEN /\ at' = 0
                   /\ ended' = IF panics(b) THEN "panicked" ELSE "returned"
              ELSE /\ \E position \in Taken(b) : at' = b.succs[position]
                   /\ UNCHANGED ended
    /\ UNCHANGED <<asked, work>>

Next == Again \/ Visit \/ Return \/ Enter \/ Run

\* The searches are loops with nothing to wait for.
Spec == Init /\ [][Next]_vars /\ WF_vars(Again \/ Visit \/ Return)

---------------------------------------------------------------------------
(* Properties.                                                              *)

\* A closure that covers every path calls a satisfier whenever it ends, by a
\* panic too, through its branches and loops (closure.go, coversEveryPath).
EveryPathSound ==
    question = "every-path" /\ ended # "none" => satisfied

\* A closure that decides calls a satisfier whenever its function then returns
\* no failure: a visit with the error known to be a failure never stands for
\* one without (closure.go, decides).
DecidesSound ==
    question = "decides" /\ ended = "returned" /\ Result \notin holds => satisfied

\* Both searches answer, through the loops of the closure (closure.go).
Answers == <>(answer # "none")
=============================================================================
