------------------------------ MODULE Worklist ------------------------------
(***************************************************************************)
(* What a search with a memo promises.  Nodes are points with the facts     *)
(* known there; searching one may leak, may note endings, and leads to      *)
(* others.  Nodes wait until they are searched, in any order; one is        *)
(* skipped when its point was searched knowing no more, and is otherwise    *)
(* searched knowing only what every search of its point knew.  explore      *)
(* (src/paircheck/flow.go) is one; its facts are the failures a path knows. *)
(*                                                                          *)
(* The one thing it needs is that knowing more loses a leak or adds none:   *)
(* Monotone, which the theorem of Worklist_proofs assumes and Search checks *)
(* of explore.                                                              *)
(***************************************************************************)
CONSTANTS
    Point, Fact,  \* the points, and the facts that may be known at one
    Starts(_),    \* whether a search may start from a node
    Succ(_),      \* the nodes a node leads to
    Leaks(_),     \* whether searching a node leaks
    Ends(_)       \* the endings searching a node notes

Node == [point : Point, known : SUBSET Fact]

\* Searching y finds all that searching x would: it is the same point, and
\* knows no more.
Below(y, x) == y.point = x.point /\ y.known \subseteq x.known

Nodes ==
    /\ \A x \in Node : Succ(x) \subseteq Node
    /\ \A x \in Node : Leaks(x) \in BOOLEAN

Monotone ==
    \A x, y \in Node :
      Below(y, x) =>
        /\ Leaks(x) => Leaks(y)
        /\ Ends(x) \subseteq Ends(y)
        /\ \A u \in Succ(x) : \E w \in Succ(y) : Below(w, u)

VARIABLES
    pending,   \* the nodes that wait
    searched,  \* what was known at each point when it was searched last
    leaked,    \* a search leaked
    ended,     \* every ending noted
    walker     \* ghost: a node of some path

vars == <<pending, searched, leaked, ended, walker>>

\* x is searched already, knowing no more than it does.
Covered(x) == x.point \in DOMAIN searched /\ searched[x.point] \subseteq x.known

\* x, knowing only what every search of its point knew.
Common(x) ==
    IF x.point \in DOMAIN searched
    THEN [point |-> x.point, known |-> x.known \intersect searched[x.point]]
    ELSE x

Init ==
    /\ walker \in Node /\ Starts(walker)
    /\ pending = {walker}
    /\ searched = << >>
    /\ leaked = FALSE /\ ended = {}

\* A node may wait more than once, and then waits on.
Rest(x) == {pending, pending \ {x}}

Skip(x) ==
    /\ Covered(x)
    /\ pending' \in Rest(x)
    /\ UNCHANGED <<searched, leaked, ended, walker>>

Visit(x) ==
    /\ ~Covered(x)
    /\ \E rest \in Rest(x) : pending' = rest \union Succ(Common(x))
    /\ searched' = [q \in DOMAIN searched \union {x.point} |->
                      IF q = x.point THEN Common(x).known ELSE searched[q]]
    /\ leaked' = (leaked \/ Leaks(Common(x)))
    /\ ended' = ended \union Ends(Common(x))
    /\ UNCHANGED walker

Walk ==
    /\ pending = {}
    /\ walker' \in Succ(walker)
    /\ UNCHANGED <<pending, searched, leaked, ended>>

Next == Walk \/ \E x \in pending : Skip(x) \/ Visit(x)

Spec == Init /\ [][Next]_vars

---------------------------------------------------------------------------
\* Once nothing waits, no node of any path leaks unless a leak was found, and
\* every ending of every path was noted (flow.go, explore).
NothingMissed ==
    pending = {} => /\ Leaks(walker) => leaked
                    /\ Ends(walker) \subseteq ended
=============================================================================
