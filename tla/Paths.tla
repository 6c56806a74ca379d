------------------------------- MODULE Paths -------------------------------
(***************************************************************************)
(* The paths of a function: blocks of instructions, and what advance and    *)
(* successors (src/paircheck/flow.go) make of a block from a state of the   *)
(* search.  Constant level; Search explores them.                           *)
(***************************************************************************)
EXTENDS Flow, Sequences, SequencesExt

\* A block runs its instructions and continues into its successors: two of
\* them under a condition, one without, none past a return or a panic.
IsBlock(b, n) ==
    /\ b.instrs \in Seq(Instruction)
    /\ b.cond \in Condition \union {None}
    /\ b.succs \in Seq(1..n)
    /\ b.cond # None => Len(b.succs) = 2

IsFunction(f) ==
    /\ DOMAIN f.blocks = 1..Len(f.blocks)
    /\ \A b \in DOMAIN f.blocks : IsBlock(f.blocks[b], Len(f.blocks))
    /\ f.start \in DOMAIN f.blocks
    /\ f.index \in 0..Len(f.blocks[f.start].instrs)

\* A point of the graph: a block, the index of its next instruction, a state.
At(block, index, s) == [block |-> block, index |-> index, state |-> s]

blockOf(f, x) == f.blocks[x.block]

\* Where a search can be in a function, with an obligation open.
PointsOf(f) ==
    {x \in [block : DOMAIN f.blocks, index : Nat \ {0}, state : State] :
       x.index <= Len(blockOf(f, x).instrs) + 1 /\ x.state.open > 0}

Origin(f) == At(f.start, f.index + 1, Start)

\* What instructions make of a state, one after the other: what each makes of
\* it, until one of them ends the path.
outcomes(p, s, instrs) ==
    LET out[n \in 0..Len(instrs)] ==
          IF n = 0 THEN Goes(s)
          ELSE LET before == out[n - 1]
               IN  IF before.goes THEN step(p, before.state, instrs[n]) ELSE before
    IN  out

run(p, s, instrs) == outcomes(p, s, instrs)[Len(instrs)]

\* What advance makes of the block from where x resumes.
advanced(p, f, x) ==
    LET instrs == blockOf(f, x).instrs
    IN  run(p, x.state, SubSeq(instrs, x.index, Len(instrs)))

\* Both positions, the first one first, or the only one.
inOrder(positions) ==
    IF positions = {1, 2} THEN <<1, 2>>
    ELSE <<CHOOSE position \in positions : TRUE>>

\* The successors, in their order, each from its first instruction.
successors(p, f, x, s) ==
    LET b == blockOf(f, x)
        positions == inOrder(followed(p, s, b.cond))
    IN  IF b.cond = None
        THEN [n \in DOMAIN b.succs |-> At(b.succs[n], 1, s)]
        ELSE [n \in DOMAIN positions |->
                At(b.succs[positions[n]], 1, into(p, s, b.cond, positions[n]))]

\* The points advance returns to continue from.
continued(p, f, x) ==
    LET out == advanced(p, f, x)
    IN  IF out.goes THEN successors(p, f, x, out.state) ELSE << >>

\* A state without what it knows of failures, which searched is keyed by.
pointOf(x) == [x EXCEPT !.state.failed = {}]

knownAt(x) == x.state.failed
=============================================================================
