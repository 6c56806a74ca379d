----------------------------- MODULE MCClosures -----------------------------
(***************************************************************************)
(* Closures for TLC: two branches one after the other, and a loop, their    *)
(* blocks filled in every way.                                              *)
(***************************************************************************)
EXTENDS Closures

CONSTANTS err, res, new, v

Block(instrs, cond, succs) == [instrs |-> instrs, cond |-> cond, succs |-> succs]
Satisfier == [op |-> "Call", is |-> {"satisfier"}]
Other == [op |-> "Other"]
Store(val) == [op |-> "Store", addr |-> v, val |-> val]
Exit == [op |-> "Return", carries |-> FALSE, error |-> None, decidedBy |-> {}]
Leaving == {<<Exit>>, <<[op |-> "Panic"]>>, <<Satisfier, Exit>>}

Checks == {[kind |-> "ne", of |-> v], [kind |-> "eq", of |-> v],
           [kind |-> "predicate", of |-> v], [kind |-> "unequal", of |-> v],
           [kind |-> "eq", of |-> res], [kind |-> "other"]}

\* A check, a block on each side, a second check, and two ways to leave.
Twice(acts) ==
    {<<Block(<<Other>>, c, <<2, 3>>), Block(<<a>>, None, <<4>>),
       Block(<<b>>, None, <<4>>), Block(<<Other>>, d, <<5, 6>>),
       Block(left, None, << >>), Block(right, None, << >>)>> :
       a \in acts, b \in acts, c \in Checks, d \in Checks,
       left \in Leaving, right \in Leaving}

\* A loop that checks at its head and again in its body.
Loop(acts) ==
    {<<Block(<<a>>, c, <<2, 4>>), Block(<<b>>, d, <<1, 3>>),
       Block(left, None, << >>), Block(right, None, << >>)>> :
       a \in acts, b \in acts, c \in Checks, d \in Checks,
       left \in Leaving, right \in Leaving}

Faithful == {Satisfier, Other, Store(new)}

FaithfulBodies == Twice(Faithful) \union Loop(Faithful)

\* The closure may also store what may be nil into the result.
AnyBodies == Loop({Other, Store(res)})
=============================================================================
