------------------------------- MODULE Search -------------------------------
(***************************************************************************)
(* explore (src/paircheck/flow.go): the search of every path of a function  *)
(* from the call that opened an obligation, on the control-flow graph of    *)
(* the function, with the memo that keeps it finite.                        *)
(*                                                                          *)
(* A state already searched is not searched again knowing more failures,    *)
(* and is searched again knowing only those both know.  Whether that loses  *)
(* a leak, or invents one, is what the properties ask: a walker follows any *)
(* one path of the function exactly, with no memo, once the search is done. *)
(***************************************************************************)
EXTENDS Paths

CONSTANTS
    Programs,   \* the functions a run chooses from
    Protocols,  \* the rules
    Firsts,     \* the values of explore's parameter
    Lengths     \* how long the paths are that NothingInvented looks at

\* The search starts in block "start" after the instruction at "index".
ASSUME SearchAssumption ==
    /\ None \notin Condition
    /\ Protocols \subseteq Protocol
    /\ Firsts \subseteq BOOLEAN
    /\ \A f \in Programs : IsFunction(f)
    /\ Lengths \subseteq Nat

VARIABLES
    program, protocol, first,  \* what explore is given
    pending,   \* the states still to search, the last one first
    searched,  \* what was known of failures where each point was searched
    found,     \* the first leak met
    ended,     \* every way a path ended
    done,      \* explore has returned
    walker     \* ghost: one path, walked exactly

given == <<program, protocol, first>>
work == <<pending, searched, found, ended, done>>
vars == <<given, work, walker>>

---------------------------------------------------------------------------
coveredOnce(current) == pointOf(current) \in DOMAIN searched

coveredUnlessEmpty(current) ==
    /\ pointOf(current) \in DOMAIN searched
    /\ searched[pointOf(current)] # {}
    /\ searched[pointOf(current)] \subseteq knownAt(current)

\* Whether current is searched already, knowing no more than it does.
covered(current) ==
    /\ pointOf(current) \in DOMAIN searched
    /\ searched[pointOf(current)] \subseteq knownAt(current)

commonForgets(current) == current

commonNothing(current) == [current EXCEPT !.state.failed = {}]

\* current, knowing only what every search of its point knew.
common(current) ==
    IF pointOf(current) \in DOMAIN searched
    THEN [current EXCEPT !.state.failed = @ \intersect searched[pointOf(current)]]
    ELSE current

---------------------------------------------------------------------------
Begins ==
    /\ first \in Firsts
    /\ pending = <<Origin(program)>>
    /\ searched = << >>
    /\ found = "none" /\ ended = {} /\ done = FALSE
    /\ walker = Origin(program)

Init == program \in Programs /\ protocol \in Protocols /\ Begins

Skip ==
    /\ ~done /\ pending # << >>
    /\ covered(Last(pending))
    /\ pending' = Front(pending)
    /\ UNCHANGED <<given, searched, found, ended, done, walker>>

Visit ==
    /\ ~done /\ pending # << >>
    /\ ~covered(Last(pending))
    /\ LET current == common(Last(pending))
           out     == advanced(protocol, program, current)
       IN  /\ searched' = [x \in DOMAIN searched \union {pointOf(current)} |->
                              IF x = pointOf(current) THEN knownAt(current)
                              ELSE searched[x]]
           /\ found' = IF found = "none" THEN out.leak ELSE found
           /\ ended' = ended \union ({out.ending} \ {"none"})
           /\ done' = (first /\ found' # "none")
           /\ pending' = Front(pending) \o continued(protocol, program, current)
    /\ UNCHANGED <<given, walker>>

Return ==
    /\ ~done /\ pending = << >>
    /\ done' = TRUE
    /\ UNCHANGED <<given, pending, searched, found, ended, walker>>

\* Once explore has returned having searched everything, a path is walked.
Walk ==
    /\ done /\ (first => found = "none")
    /\ \E n \in DOMAIN continued(protocol, program, walker) :
         walker' = continued(protocol, program, walker)[n]
    /\ UNCHANGED <<given, work>>

Next == Skip \/ Visit \/ Return \/ Walk

\* explore is a loop with nothing to wait for: it runs on until it returns.
Spec == Init /\ [][Next]_vars /\ WF_vars(Skip \/ Visit \/ Return)

---------------------------------------------------------------------------
(* What explore promises: Worklist, of the nodes that are its states, each   *)
(* with the function and the rule it belongs to.                            *)

nodeOf(f, p, x) == [point |-> <<f, p, pointOf(x)>>, known |-> knownAt(x)]

stateOf(n) == [n.point[3] EXCEPT !.state.failed = n.known]

nodesAfter(n) ==
    LET next == continued(n.point[2], n.point[1], stateOf(n))
    IN  {nodeOf(n.point[1], n.point[2], next[k]) : k \in DOMAIN next}

outcomeOf(n) == advanced(n.point[2], n.point[1], stateOf(n))

pointsGiven ==
    {q \in Programs \X Protocols \X [block : Nat, index : Nat, state : State] :
       q[3] \in PointsOf(q[1]) /\ q[3].state.failed = {}}

startsAt(n) == stateOf(n) = Origin(n.point[1])
leaksAt(n) == outcomeOf(n).leak # "none"
endsAt(n) == {outcomeOf(n).ending} \ {"none"}

Promise == INSTANCE Worklist WITH
    Point    <- pointsGiven,
    Fact     <- Tracked,
    Starts   <- startsAt,
    Succ     <- nodesAfter,
    Leaks    <- leaksAt,
    Ends     <- endsAt,
    pending  <- {nodeOf(program, protocol, pending[n]) : n \in DOMAIN pending},
    searched <- [q \in {<<program, protocol, x>> : x \in DOMAIN searched} |->
                   searched[q[3]]],
    leaked   <- found # "none",
    ended    <- ended,
    walker   <- nodeOf(program, protocol, walker)

---------------------------------------------------------------------------
(* Properties.                                                              *)

\* The search has the shape Go gives it, and never holds an open count of
\* zero: a satisfier that pays the last obligation ends the path (flow.go,
\* after).
TypeOK ==
    /\ \A n \in DOMAIN pending :
         pending[n].state \in State /\ pending[n].state.open > 0
    /\ \A x \in DOMAIN searched :
         x.state.failed = {} /\ searched[x] \subseteq Tracked
    /\ found \in Leaks /\ ended \subseteq Endings /\ done \in BOOLEAN
    /\ walker.state \in State

\* No leak is missed: where explore finds none, no path of the function leaks,
\* although states were merged where failures differed and points skipped; and
\* a search that keeps every way a path ends, as the summary of a helper asks
\* for, keeps the ending of every path (flow.go, explore; summary.go, follow).
NothingMissed == Promise!NothingMissed

\* What Worklist_proofs asks of explore (Worklist, Monotone): from any point a
\* path reaches, knowing fewer failures loses no leak, changes no ending, and
\* leads to the same points knowing no more (flow.go, common).  Were there a
\* path that only a known failure opens, the states explore merges would miss
\* it.
LessFindsMore ==
    \A known \in SUBSET knownAt(walker) :
      LET less == [walker EXCEPT !.state.failed = known]
          out  == advanced(protocol, program, walker)
          outLess == advanced(protocol, program, less)
          next(x) == Range(continued(protocol, program, x))
      IN  /\ out.leak # "none" => outLess.leak # "none"
          /\ out.ending \in {"none", outLess.ending}
          /\ \A u \in next(walker) : \E w \in next(less) :
               pointOf(w) = pointOf(u) /\ knownAt(w) \subseteq knownAt(u)

\* The states the paths of the function reach after n blocks, without a memo,
\* each with exactly the failures its path knows.
reachedIn(p, f, n) ==
    LET reached[m \in 0..n] ==
          IF m = 0 THEN {Origin(f)}
          ELSE UNION {Range(continued(p, f, x)) : x \in reached[m - 1]}
    IN  reached[n]

\* Nothing is invented: a leak or an ending explore reports is that of some
\* path of the function, although a point may have been searched knowing fewer
\* failures than any path that reaches it (flow.go, explore; success.go,
\* proven.common).
NothingInvented ==
    done =>
      /\ found # "none" =>
           \E n \in Lengths : \E x \in reachedIn(protocol, program, n) :
             advanced(protocol, program, x).leak = found
      /\ \A ending \in ended :
           \E n \in Lengths : \E x \in reachedIn(protocol, program, n) :
             advanced(protocol, program, x).ending = ending

\* explore is a worklist: it visits what waits, skips only what was searched
\* knowing no more, and stops with work left only at a leak (flow.go, explore).
Implements == Promise!Spec

\* The search ends, through every loop of the function (flow.go, saturated and
\* explore).
Terminates == <>done
=============================================================================
