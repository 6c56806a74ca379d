---------------------------- MODULE Search_proofs ----------------------------
(***************************************************************************)
(* explore is a worklist, and so misses no leak and no ending, of any       *)
(* function and under any rule; and it invents none                         *)
(* (src/paircheck/flow.go).                                                 *)
(*                                                                          *)
(* In four parts.  Knowing less finds no less: two states that differ only  *)
(* in the failures they know are taken through an instruction, the          *)
(* instructions of a block, and its successors; the one that knows less     *)
(* goes where the other goes, ends as it ends, and leaks where it leaks.    *)
(* And a state that knows only what several know finds nothing that none of *)
(* them finds.  Then the memo: the strings of bytes its keys are made of,   *)
(* in the code, are sets, each spelled one way (src/paircheck/success.go).  *)
(* Then the search: its stack is read as the set of the nodes on it, and    *)
(* its memo as the facts its points were searched with; each action is then *)
(* a step of Worklist, or none, and what Worklist_proofs assumes of its     *)
(* nodes is what the first part shows.  Last, what the search reports: what *)
(* waits, and what is searched, stands for points that paths reach, so that *)
(* by the first part a path reports it too.                                 *)
(*                                                                          *)
(* The instructions of a block are any number, and so are the blocks of a   *)
(* path: both are by induction, on sets of numbers: SetInduction.           *)
(***************************************************************************)
EXTENDS Search, WellFoundedInduction, SequenceTheorems, TLAPS

Strings == INSTANCE Proven

\* The state t knows no more failures than s, and is otherwise the same.
KnowsLess(t, s) ==
    /\ s \in State /\ t \in State /\ t.failed \subseteq s.failed
    /\ t.open = s.open /\ t.deferred = s.deferred /\ t.uncertain = s.uncertain
    /\ t.displaced = s.displaced /\ t.called = s.called /\ t.closures = s.closures

\* A path taken from one of them, and from the other.
FindsNoLess(less, more) ==
    /\ less.goes = more.goes /\ more.goes \in BOOLEAN
    /\ less.ending = more.ending
    /\ more.leak # "none" => less.leak # "none"
    /\ more.goes => KnowsLess(less.state, more.state) /\ more.state.open > 0

---------------------------------------------------------------------------
(* One instruction.                                                         *)

\* What an instruction tells a state of errors, it tells one that knows less.
LEMMA NotedLess ==
    ASSUME NEW p \in Protocol, NEW i \in Instruction, NEW s, NEW t, KnowsLess(t, s)
    PROVE  /\ KnowsLess(noted(p, t, i), noted(p, s, i))
           /\ noted(p, s, i).open = s.open
  <1>1. KnowsLess(stored(p, t, i), stored(p, s, i)) /\ stored(p, s, i).open = s.open
    BY DEF stored, KnowsLess, State
  <1> DEFINE s1 == stored(p, s, i)
             t1 == stored(p, t, i)
  <1> HIDE DEF s1, t1
  <1>2. fails(t1, i.val) => fails(s1, i.val)
    BY <1>1 DEF fails, KnowsLess, s1, t1
  <1>3. KnowsLess(remembered(p, t1, i), remembered(p, s1, i))
          /\ remembered(p, s1, i).open = s.open
    BY <1>1, <1>2 DEF remembered, KnowsLess, State, s1, t1
  <1> DEFINE s2 == remembered(p, s1, i)
             t2 == remembered(p, t1, i)
  <1> HIDE DEF s2, t2
  <1>4. i.op = "Defer" /\ i.closure # None => i.closure \in Closure
    BY DEF Instruction
  <1>5. KnowsLess(registered(p, t2, i), registered(p, s2, i))
          /\ registered(p, s2, i).open = s.open
    BY <1>3, <1>4 DEF registered, KnowsLess, State, s2, t2
  <1> QED
    BY <1>5 DEF noted, s1, t1, s2, t2

\* Nor does it leak where the other does not, or go where it ends.
LEMMA StepLess ==
    ASSUME NEW p \in Protocol, NEW i \in Instruction, NEW s, NEW t,
           KnowsLess(t, s), s.open > 0
    PROVE  FindsNoLess(step(p, t, i), step(p, s, i))
  <1> DEFINE u == noted(p, t, i)
             v == noted(p, s, i)
             happened == classify(p, i)
  <1>1. KnowsLess(u, v) /\ v.open > 0
    BY NotedLess
  <1> HIDE DEF u, v, happened
  <1>2. callsBeforeDefer(p, u, i, happened) <=> callsBeforeDefer(p, v, i, happened)
    BY <1>1 DEF callsBeforeDefer, KnowsLess
  <1>3. FindsNoLess(Ends(u, "beforeDefer", "none"), Ends(v, "beforeDefer", "none"))
    BY DEF FindsNoLess, Ends
  <1>4. FindsNoLess(exit(p, u, i), exit(p, v, i))
    <2>1. /\ leakAt(p, v, i) # "none" => leakAt(p, u, i) # "none"
          /\ leakAt(p, v, i) = "atExit" <=> leakAt(p, u, i) = "atExit"
      BY <1>1 DEF leakAt, returnsFailure, closureDecides, fails, KnowsLess
    <2> QED
      BY <1>1, <2>1 DEF exit, Ends, FindsNoLess, KnowsLess
  <1>5. \A c \in 0..saturated : raised(c) \in 0..saturated /\ raised(c) > 0
    BY DEF raised, saturated
  <1>6. /\ v.open \in 0..saturated /\ v.open - 1 \in 0..saturated
        /\ v.open - 1 # 0 => v.open - 1 > 0
    BY <1>1 DEF KnowsLess, State, saturated
  <1>7. FindsNoLess(after(u, happened), after(v, happened))
    <2>1. CASE happened = "trigger"
      <3>1. KnowsLess([u EXCEPT !.open = raised(@)], [v EXCEPT !.open = raised(@)])
        BY <1>1, <1>5 DEF KnowsLess, State
      <3>2. [v EXCEPT !.open = raised(@)].open > 0
        BY <1>1, <1>5, <1>6 DEF KnowsLess, State
      <3> QED
        BY <2>1, <3>1, <3>2 DEF after, Goes, FindsNoLess
    <2>2. CASE happened = "satisfier"
      <3> DEFINE u1 == [u EXCEPT !.open = @ - 1, !.called = TRUE]
                 v1 == [v EXCEPT !.open = @ - 1, !.called = TRUE]
      <3>1. KnowsLess(u1, v1) /\ v1.open = v.open - 1
        BY <1>1, <1>6 DEF KnowsLess, State
      <3> HIDE DEF u1, v1
      <3>2. FindsNoLess(paid(u), paid(v))
        BY <1>6, <3>1 DEF paid, Goes, Ends, FindsNoLess, KnowsLess, u1, v1
      <3> QED
        BY <2>2, <3>2 DEF after
    <2>3. CASE happened = "undeferred"
      BY <1>1, <2>3 DEF after, Goes, FindsNoLess, KnowsLess, State
    <2>4. CASE happened = "deferred"
      <3>1. KnowsLess([u EXCEPT !.deferred = raised(@)], [v EXCEPT !.deferred = raised(@)])
        BY <1>1, <1>5 DEF KnowsLess, State
      <3>2. [v EXCEPT !.deferred = raised(@)].open > 0
        BY <1>1 DEF KnowsLess, State
      <3> QED
        BY <2>4, <3>1, <3>2 DEF after, Goes, FindsNoLess
    <2>5. CASE happened \in {"abandon", "transfer"}
      BY <2>5 DEF after, Ends, FindsNoLess
    <2>6. CASE happened \notin {"trigger", "satisfier", "undeferred", "deferred",
                                "abandon", "transfer"}
      BY <1>1, <2>6 DEF after, Goes, FindsNoLess
    <2> QED
      BY <2>1, <2>2, <2>3, <2>4, <2>5, <2>6
  <1> QED
    BY <1>2, <1>3, <1>4, <1>7 DEF step, u, v, happened

---------------------------------------------------------------------------
(* The instructions of a block.                                             *)

\* What holds of 0, and of the next number where it holds of one, holds of all.
LEMMA SetInduction ==
    ASSUME NEW S, 0 \in S, \A n \in Nat : n \in S => n + 1 \in S
    PROVE  Nat \subseteq S
  <1> DEFINE R == OpToRel(<, Nat)
             T == Nat \ S
  <1> SUFFICES ASSUME T # {} PROVE FALSE
    OBVIOUS
  <1>1. \A m, n \in Nat : m < n => <<m, n>> \in R
    BY DEF OpToRel
  <1>2. IsWellFoundedOn(R, Nat)
    BY NatLessThanWellFounded
  <1> HIDE DEF R
  <1>3. PICK n \in T : \A m \in T : <<m, n>> \notin R
    BY <1>2, WFMin
  <1>4. n # 0 /\ n \in Nat
    OBVIOUS
  <1>5. n - 1 \in Nat /\ n - 1 < n /\ (n - 1) + 1 = n
    BY <1>4
  <1>6. n - 1 \in T
    BY <1>4, <1>5
  <1> QED
    BY <1>1, <1>3, <1>4, <1>5, <1>6

\* What an instruction makes of what those before it made.
continuing(p, before, i) == IF before.goes THEN step(p, before.state, i) ELSE before

\* What the first m instructions make of a state.
IsRun(out, m, p, s, instrs) ==
    out = [n \in 0..m |-> IF n = 0 THEN Goes(s) ELSE continuing(p, out[n - 1], instrs[n])]

\* A run starts as given, and each instruction continues what those before it made.
LEMMA RunSteps ==
    ASSUME NEW m \in Nat, NEW p, NEW s, NEW instrs, NEW out, IsRun(out, m, p, s, instrs)
    PROVE  /\ out[0] = Goes(s)
           /\ \A n \in 1..m : out[n] = continuing(p, out[n - 1], instrs[n])
  <1>1. 0 \in 0..m /\ \A n \in 1..m : n \in 0..m /\ n # 0
    OBVIOUS
  <1> QED
    BY <1>1 DEF IsRun

\* Any number of instructions make something of a state.
LEMMA RunExists ==
    ASSUME NEW p, NEW s, NEW instrs
    PROVE  \A m \in Nat : \E out : IsRun(out, m, p, s, instrs)
  <1> DEFINE S == {m \in Nat : \E out : IsRun(out, m, p, s, instrs)}
  <1>1. 0 \in S
    <2> DEFINE out == [n \in 0..0 |-> Goes(s)]
    <2>1. IsRun(out, 0, p, s, instrs)
      BY DEF IsRun
    <2> QED
      BY <2>1
  <1>2. ASSUME NEW m \in Nat, m \in S
        PROVE  m + 1 \in S
    <2>1. PICK before : IsRun(before, m, p, s, instrs)
      BY <1>2
    <2> DEFINE out == [n \in 0..(m + 1) |->
                         IF n = m + 1 THEN continuing(p, before[m], instrs[m + 1])
                         ELSE before[n]]
    <2>2. out[0] = Goes(s)
      BY <2>1 DEF IsRun
    <2>3. ASSUME NEW n \in 0..(m + 1), n # 0
          PROVE  out[n] = continuing(p, out[n - 1], instrs[n])
      BY <2>1, <2>3 DEF IsRun
    <2>4. out = [n \in 0..(m + 1) |-> out[n]]
      OBVIOUS
    <2> HIDE DEF out
    <2>5. IsRun(out, m + 1, p, s, instrs)
      BY <2>2, <2>3, <2>4 DEF IsRun
    <2> QED
      BY <2>5
  <1> HIDE DEF S
  <1>3. Nat \subseteq S
    BY <1>1, <1>2, SetInduction
  <1> QED
    BY <1>3 DEF S

\* outcomes is what its instructions make of the state, one after the other.
LEMMA OutcomesRun ==
    ASSUME NEW p, NEW s, NEW instrs, Len(instrs) \in Nat
    PROVE  IsRun(outcomes(p, s, instrs), Len(instrs), p, s, instrs)
  <1>1. \E out : IsRun(out, Len(instrs), p, s, instrs)
    BY RunExists
  <1> QED
    BY <1>1 DEF IsRun, outcomes, continuing

\* A path through instructions that knows less finds no less.
LEMMA RunLess ==
    ASSUME NEW p \in Protocol, NEW instrs \in Seq(Instruction), NEW s, NEW t,
           KnowsLess(t, s), s.open > 0
    PROVE  FindsNoLess(run(p, t, instrs), run(p, s, instrs))
  <1> DEFINE less == outcomes(p, t, instrs)
             more == outcomes(p, s, instrs)
             S == {n \in Nat : n <= Len(instrs) => FindsNoLess(less[n], more[n])}
  <1>1. Len(instrs) \in Nat /\ \A n \in 1..Len(instrs) : instrs[n] \in Instruction
    OBVIOUS
  <1>2. /\ less[0] = Goes(t) /\ more[0] = Goes(s)
        /\ \A n \in 1..Len(instrs) :
             /\ less[n] = continuing(p, less[n - 1], instrs[n])
             /\ more[n] = continuing(p, more[n - 1], instrs[n])
    <2>1. /\ IsRun(less, Len(instrs), p, t, instrs)
          /\ IsRun(more, Len(instrs), p, s, instrs)
      BY <1>1, OutcomesRun
    <2> QED
      BY <1>1, <2>1, RunSteps
  <1> HIDE DEF less, more
  <1>3. 0 \in S
    <2>1. FindsNoLess(Goes(t), Goes(s))
      BY DEF FindsNoLess, Goes
    <2> QED
      BY <1>2, <2>1
  <1>4. ASSUME NEW n \in Nat, n \in S
        PROVE  n + 1 \in S
    <2> SUFFICES ASSUME n + 1 <= Len(instrs)
                 PROVE  FindsNoLess(less[n + 1], more[n + 1])
      OBVIOUS
    <2>1. FindsNoLess(less[n], more[n]) /\ n + 1 \in 1..Len(instrs) /\ (n + 1) - 1 = n
      BY <1>1, <1>4
    <2>2. /\ less[n + 1] = continuing(p, less[n], instrs[n + 1])
          /\ more[n + 1] = continuing(p, more[n], instrs[n + 1])
      BY <1>2, <2>1
    <2>3. CASE more[n].goes
      <3>1. FindsNoLess(step(p, less[n].state, instrs[n + 1]),
                        step(p, more[n].state, instrs[n + 1]))
        BY <1>1, <2>1, <2>3, StepLess DEF FindsNoLess
      <3> QED
        BY <2>1, <2>2, <2>3, <3>1 DEF continuing, FindsNoLess
    <2>4. CASE ~more[n].goes
      BY <2>1, <2>2, <2>4 DEF continuing, FindsNoLess
    <2> QED
      BY <2>3, <2>4
  <1> HIDE DEF S
  <1>5. Len(instrs) \in S
    BY <1>1, <1>3, <1>4, SetInduction
  <1> QED
    BY <1>5, <1>1 DEF S, run, less, more

---------------------------------------------------------------------------
(* The successors of a block.                                               *)

\* A branch is followed to positions that do not depend on the failures known.
LEMMA BranchLess ==
    ASSUME NEW p \in Protocol, NEW c \in Condition, NEW s, NEW t, KnowsLess(t, s)
    PROVE  /\ followed(p, t, c) = followed(p, s, c)
           /\ \A position \in {1, 2} :
                /\ KnowsLess(into(p, t, c, position), into(p, s, c, position))
                /\ into(p, s, c, position).open = s.open
  <1>1. verdictOf(p, t, c) = verdictOf(p, s, c)
    BY DEF verdictOf, readBy, isError, KnowsLess
  <1>2. ASSUME NEW position \in {1, 2}
        PROVE  /\ KnowsLess(along(t, c, position), along(s, c, position))
               /\ along(s, c, position).open = s.open
    BY DEF along, KnowsLess, State
  <1>3. ASSUME NEW u \in BOOLEAN
        PROVE  /\ KnowsLess([t EXCEPT !.uncertain = u], [s EXCEPT !.uncertain = u])
               /\ [s EXCEPT !.uncertain = u].open = s.open
    BY DEF KnowsLess, State
  <1> QED
    BY <1>1, <1>2, <1>3 DEF followed, into

\* What follows a branch is followed in order.
LEMMA BothInOrder ==
    ASSUME NEW p, NEW s, NEW c
    PROVE  inOrder(followed(p, s, c)) \in Seq({1, 2})
  <1>1. followed(p, s, c) \in {{1}, {2}, {1, 2}}
    BY DEF followed
  <1>2. inOrder({1, 2}) = <<1, 2>> /\ inOrder({1}) = <<1>> /\ inOrder({2}) = <<2>>
    BY DEF inOrder
  <1>3. <<1, 2>> \in Seq({1, 2}) /\ <<1>> \in Seq({1, 2}) /\ <<2>> \in Seq({1, 2})
    OBVIOUS
  <1> QED
    BY <1>1, <1>2, <1>3

\* The point y knows no more failures than x, and is otherwise the same.
LessAt(y, x) ==
    y.block = x.block /\ y.index = x.index /\ KnowsLess(y.state, x.state)

\* From points a search can be in a block goes on to points, and from one that
\* knows less to points that know less, at the same places.
LEMMA ContinuedLess ==
    ASSUME NEW p \in Protocol, NEW f, IsFunction(f),
           NEW x \in PointsOf(f), NEW y \in PointsOf(f), LessAt(y, x)
    PROVE  /\ FindsNoLess(advanced(p, f, y), advanced(p, f, x))
           /\ continued(p, f, x) \in Seq(PointsOf(f))
           /\ DOMAIN continued(p, f, y) = DOMAIN continued(p, f, x)
           /\ \A k \in DOMAIN continued(p, f, x) :
                /\ continued(p, f, y)[k] \in PointsOf(f)
                /\ LessAt(continued(p, f, y)[k], continued(p, f, x)[k])
  <1> DEFINE b == blockOf(f, x)
             less == advanced(p, f, y)
             more == advanced(p, f, x)
  <1>1. IsBlock(b, Len(f.blocks)) /\ b = blockOf(f, y)
    BY DEF PointsOf, IsFunction, LessAt, blockOf
  <1>2. FindsNoLess(less, more)
    <2>1. b.instrs \in Seq(Instruction) /\ x.index \in 1..(Len(b.instrs) + 1)
      BY <1>1 DEF IsBlock, PointsOf
    <2>2. SubSeq(b.instrs, x.index, Len(b.instrs)) \in Seq(Instruction)
      BY <2>1, SubSeqProperties
    <2>3. KnowsLess(y.state, x.state) /\ x.state.open > 0 /\ y.index = x.index
      BY DEF LessAt, PointsOf
    <2> QED
      BY <1>1, <2>2, <2>3, RunLess DEF advanced
  <1> HIDE DEF b, less, more
  <1>3. ASSUME NEW s, NEW n \in DOMAIN b.succs, s \in State, s.open > 0
        PROVE  At(b.succs[n], 1, s) \in PointsOf(f)
    <2>1. b.succs[n] \in DOMAIN f.blocks
      BY <1>1 DEF IsBlock, IsFunction
    <2>2. Len(f.blocks[b.succs[n]].instrs) \in Nat
      <3>1. IsBlock(f.blocks[b.succs[n]], Len(f.blocks))
        BY <2>1 DEF IsFunction
      <3> QED
        BY <3>1 DEF IsBlock
    <2> QED
      BY <1>3, <2>1, <2>2 DEF At, PointsOf, blockOf
  <1>4. CASE ~more.goes
    <2>1. continued(p, f, x) = << >> /\ continued(p, f, y) = << >>
      BY <1>2, <1>4 DEF continued, FindsNoLess, less, more
    <2> QED
      BY <1>2, <2>1 DEF less, more
  <1>5. CASE more.goes
    <2>1. /\ KnowsLess(less.state, more.state)
          /\ more.state.open > 0 /\ more.state \in State
          /\ less.state.open > 0 /\ less.state \in State
      BY <1>2, <1>5 DEF FindsNoLess, KnowsLess
    <2>2. /\ continued(p, f, x) = successors(p, f, x, more.state)
          /\ continued(p, f, y) = successors(p, f, y, less.state)
      BY <1>2, <1>5 DEF continued, FindsNoLess, less, more
    <2>3. CASE b.cond = None
      <3>1. /\ successors(p, f, x, more.state) = [n \in DOMAIN b.succs |-> At(b.succs[n], 1, more.state)]
            /\ successors(p, f, y, less.state) = [n \in DOMAIN b.succs |-> At(b.succs[n], 1, less.state)]
        BY <1>1, <2>3 DEF successors, b
      <3>2. DOMAIN b.succs = 1..Len(b.succs) /\ Len(b.succs) \in Nat
        BY <1>1 DEF IsBlock
      <3>3. \A n \in DOMAIN b.succs : LessAt(At(b.succs[n], 1, less.state), At(b.succs[n], 1, more.state))
        BY <2>1 DEF LessAt, At
      <3>4. successors(p, f, x, more.state) \in Seq(PointsOf(f))
        BY <1>3, <2>1, <3>1, <3>2
      <3>5. \A n \in DOMAIN b.succs : At(b.succs[n], 1, less.state) \in PointsOf(f)
        BY <1>3, <2>1
      <3> QED
        BY <1>2, <2>2, <3>1, <3>3, <3>4, <3>5 DEF less, more
    <2>4. CASE b.cond # None
      <3> DEFINE positions == inOrder(followed(p, more.state, b.cond))
                 entered(s, n) == At(b.succs[positions[n]], 1, into(p, s, b.cond, positions[n]))
      <3>1. b.cond \in Condition /\ DOMAIN b.succs = {1, 2}
        BY <1>1, <2>4 DEF IsBlock
      <3>2. positions \in Seq({1, 2})
        BY BothInOrder
      <3>3. followed(p, less.state, b.cond) = followed(p, more.state, b.cond)
        BY <2>1, <3>1, BranchLess
      <3>4. /\ successors(p, f, x, more.state) = [n \in DOMAIN positions |-> entered(more.state, n)]
            /\ successors(p, f, y, less.state) = [n \in DOMAIN positions |-> entered(less.state, n)]
        BY <1>1, <2>4, <3>3 DEF successors, b
      <3> HIDE DEF positions
      <3>5. ASSUME NEW n \in DOMAIN positions
            PROVE  /\ entered(more.state, n) \in PointsOf(f)
                   /\ entered(less.state, n) \in PointsOf(f)
                   /\ LessAt(entered(less.state, n), entered(more.state, n))
        <4>1. positions[n] \in {1, 2}
          BY <3>2
        <4> DEFINE u == into(p, less.state, b.cond, positions[n])
                   v == into(p, more.state, b.cond, positions[n])
        <4>2. KnowsLess(u, v) /\ v.open > 0
          <5>1. KnowsLess(less.state, more.state) /\ more.state.open > 0
            BY <2>1
          <5>2. KnowsLess(u, v) /\ v.open = more.state.open
            BY <3>1, <4>1, <5>1, BranchLess
          <5> QED
            BY <5>1, <5>2
        <4> HIDE DEF u, v
        <4>3. u \in State /\ u.open > 0 /\ v \in State
          BY <4>2 DEF KnowsLess
        <4>4. /\ At(b.succs[positions[n]], 1, v) \in PointsOf(f)
              /\ At(b.succs[positions[n]], 1, u) \in PointsOf(f)
          BY <1>3, <3>1, <4>1, <4>2, <4>3
        <4>5. LessAt(At(b.succs[positions[n]], 1, u), At(b.succs[positions[n]], 1, v))
          BY <4>2 DEF LessAt, At
        <4> QED
          BY <4>4, <4>5 DEF u, v
      <3> HIDE DEF entered
      <3>6. successors(p, f, x, more.state) \in Seq(PointsOf(f))
        BY <3>2, <3>4, <3>5
      <3> QED
        BY <1>2, <2>2, <3>4, <3>5, <3>6 DEF less, more
    <2> QED
      BY <2>3, <2>4
  <1> QED
    BY <1>4, <1>5

---------------------------------------------------------------------------
(* Merged states.  A state that knows only what several know stands for     *)
(* them: what it does not know, one of them does not.                       *)

\* The state t differs from s in nothing but the failures it knows.
Alike(t, s) ==
    /\ s \in State /\ t \in State
    /\ t.open = s.open /\ t.deferred = s.deferred /\ t.uncertain = s.uncertain
    /\ t.displaced = s.displaced /\ t.called = s.called /\ t.closures = s.closures

\* What s does not know, one of the states of Y does not.
StandsFor(s, Y) ==
    /\ Y # {} /\ \A t \in Y : Alike(t, s)
    /\ \A e : e \notin s.failed => \E t \in Y : e \notin t.failed

\* An outcome goes on and ends as all those it stands for, and leaks as one.
IsOneOf(out, outs) ==
    /\ outs # {} /\ out.goes \in BOOLEAN
    /\ \A o \in outs : (o.goes <=> out.goes) /\ o.ending = out.ending
    /\ out.leak # "none" => \E o \in outs : o.leak = out.leak
    /\ out.goes => out.state.open > 0 /\ StandsFor(out.state, {o.state : o \in outs})

\* What is alike knows no less than what knows nothing.
bottomOf(s) == [s EXCEPT !.failed = {}]

LEMMA AlikeAboveBottom ==
    ASSUME NEW s, NEW t
    PROVE  /\ Alike(t, s) <=> s \in State /\ t \in State /\ bottomOf(t) = bottomOf(s)
           /\ s \in State => KnowsLess(bottomOf(s), s)
           /\ KnowsLess(t, s) => Alike(t, s)
  BY DEF Alike, KnowsLess, bottomOf, State

LEMMA AlikeIsShared ==
    ASSUME NEW s, NEW t, NEW u, Alike(s, u), Alike(t, u)
    PROVE  Alike(t, s) /\ Alike(s, t)
  BY DEF Alike

\* Alike states are taken alike through an instruction.
LEMMA NotedAlike ==
    ASSUME NEW p \in Protocol, NEW i \in Instruction, NEW s, NEW t, Alike(t, s)
    PROVE  /\ Alike(noted(p, t, i), noted(p, s, i))
           /\ noted(p, s, i).open = s.open
  <1>1. KnowsLess(bottomOf(s), s) /\ KnowsLess(bottomOf(s), t)
    BY AlikeAboveBottom
  <1> DEFINE less == noted(p, bottomOf(s), i)
  <1>2. /\ KnowsLess(less, noted(p, s, i)) /\ KnowsLess(less, noted(p, t, i))
        /\ noted(p, s, i).open = s.open
    BY <1>1, NotedLess
  <1> HIDE DEF less
  <1> QED
    BY <1>2 DEF KnowsLess, Alike

\* What an instruction tells the state that stands for others, it tells them.
LEMMA NotedStands ==
    ASSUME NEW p \in Protocol, NEW i \in Instruction, NEW s, NEW Y, StandsFor(s, Y)
    PROVE  StandsFor(noted(p, s, i), {noted(p, t, i) : t \in Y})
  <1>1. Y # {} /\ \A t \in Y : Alike(noted(p, t, i), noted(p, s, i))
    BY NotedAlike DEF StandsFor
  <1> DEFINE told == i.op = "Store" /\ p.onSuccess /\ i.addr \in Tracked
             fact(u) == IF told
                        THEN IF fails(u, i.val) THEN u.failed \union {i.addr}
                                                ELSE u.failed \ {i.addr}
                        ELSE u.failed
  <1>2. ASSUME NEW u, u \in State
        PROVE  noted(p, u, i).failed = fact(u)
    <2>1. stored(p, u, i) \in State /\ stored(p, u, i).failed = u.failed
      BY <1>2 DEF stored, State
    <2> DEFINE w == stored(p, u, i)
    <2> HIDE DEF w
    <2>2. /\ remembered(p, w, i) \in State
          /\ remembered(p, w, i).failed = fact(w)
      BY <2>1 DEF remembered, fails, State, w
    <2>3. fact(w) = fact(u)
      BY <2>1 DEF fails, w
    <2> DEFINE r == remembered(p, w, i)
    <2> HIDE DEF r
    <2>4. registered(p, r, i).failed = r.failed
      BY <2>2 DEF registered, State, r
    <2> QED
      BY <2>2, <2>3, <2>4 DEF noted, w, r
  <1>3. ASSUME NEW e, e \notin noted(p, s, i).failed
        PROVE  \E t \in Y : e \notin noted(p, t, i).failed
    <2>1. s \in State /\ \A t \in Y : t \in State
      BY DEF StandsFor, Alike
    <2>2. e \notin fact(s)
      BY <1>2, <1>3, <2>1
    <2>3. \E t \in Y : e \notin fact(t)
      <3>1. CASE told /\ e = i.addr
        <4>1. ~fails(s, i.val)
          BY <2>2, <3>1
        <4>2. PICK t \in Y : i.val \notin t.failed
          BY <4>1 DEF fails, StandsFor
        <4>3. ~fails(t, i.val)
          BY <4>1, <4>2 DEF fails
        <4> QED
          BY <3>1, <4>2, <4>3
      <3>2. CASE ~told \/ e # i.addr
        <4>1. e \notin s.failed
          BY <2>2, <3>2
        <4> QED
          BY <3>2, <4>1 DEF StandsFor
      <3> QED
        BY <3>1, <3>2
    <2> QED
      BY <1>2, <2>1, <2>3
  <1> QED
    BY <1>1, <1>3 DEF StandsFor

\* The outcome of an instruction is that of one of the states it stands for.
LEMMA StepStands ==
    ASSUME NEW p \in Protocol, NEW i \in Instruction, NEW s, NEW Y,
           StandsFor(s, Y), s.open > 0
    PROVE  IsOneOf(step(p, s, i), {step(p, t, i) : t \in Y})
  <1> DEFINE v == noted(p, s, i)
             u(t) == noted(p, t, i)
             happened == classify(p, i)
             out == step(p, s, i)
             of(t) == step(p, t, i)
  <1>1. StandsFor(v, {u(t) : t \in Y}) /\ v.open > 0 /\ Y # {}
    <2>1. v.open = s.open
      BY NotedAlike DEF StandsFor
    <2>2. StandsFor(v, {u(t) : t \in Y})
      BY NotedStands
    <2>3. Y # {}
      BY DEF StandsFor
    <2> QED
      BY <2>1, <2>2, <2>3
  <1>2. ASSUME NEW t \in Y
        PROVE  /\ (of(t).goes <=> out.goes) /\ of(t).ending = out.ending
               /\ out.goes \in BOOLEAN
               /\ out.goes => /\ out.state.open > 0 /\ Alike(of(t).state, out.state)
    <2> DEFINE less == step(p, bottomOf(s), i)
    <2>1. KnowsLess(bottomOf(s), s) /\ KnowsLess(bottomOf(s), t) /\ t.open > 0
      BY AlikeAboveBottom DEF StandsFor, Alike
    <2>2. FindsNoLess(less, out) /\ FindsNoLess(less, of(t))
      BY <2>1, StepLess
    <2> HIDE DEF less, out, of
    <2> QED
      BY <2>2 DEF FindsNoLess, KnowsLess, Alike
  <1> HIDE DEF v, u, happened
  <1>3. \A t \in Y : Alike(u(t), v)
    BY <1>1 DEF StandsFor
  <1>4. ASSUME NEW t \in Y
        PROVE  callsBeforeDefer(p, u(t), i, happened) <=> callsBeforeDefer(p, v, i, happened)
    BY <1>3 DEF callsBeforeDefer, Alike
  <1>5. CASE callsBeforeDefer(p, v, i, happened)
    <2>1. out = Ends(v, "beforeDefer", "none") /\ \A t \in Y : of(t) = Ends(u(t), "beforeDefer", "none")
      BY <1>4, <1>5 DEF step, u, v, happened
    <2>2. ~out.goes /\ \A t \in Y : of(t).leak = out.leak
      BY <2>1 DEF Ends
    <2> QED
      BY <1>1, <1>2, <2>2 DEF IsOneOf
  <1>6. CASE ~callsBeforeDefer(p, v, i, happened) /\ happened = "exit"
    <2>1. out = exit(p, v, i) /\ \A t \in Y : of(t) = exit(p, u(t), i)
      BY <1>4, <1>6 DEF step, u, v, happened
    <2>2. ~out.goes /\ out.leak = leakAt(p, v, i) /\ \A t \in Y : of(t).leak = leakAt(p, u(t), i)
      BY <2>1 DEF exit, Ends
    <2>3. ASSUME leakAt(p, v, i) # "none"
          PROVE  \E t \in Y : leakAt(p, u(t), i) = leakAt(p, v, i)
      <3>1. CASE leakAt(p, v, i) = "onSuccess"
        <4>1. ~returnsFailure(v, i)
          BY <3>1 DEF leakAt
        <4>2. \E t \in Y : ~returnsFailure(u(t), i)
          <5>1. CASE i.error \in v.failed
            BY <1>1, <4>1, <5>1 DEF returnsFailure, fails
          <5>2. CASE i.error \notin v.failed
            <6>1. PICK t \in Y : i.error \notin u(t).failed
              BY <1>1, <5>2 DEF StandsFor
            <6> QED
              BY <4>1, <6>1 DEF returnsFailure, fails
          <5> QED
            BY <5>1, <5>2
        <4>3. PICK t \in Y : ~returnsFailure(u(t), i)
          BY <4>2
        <4>4. Alike(u(t), v)
          BY <1>3
        <4> QED
          BY <4>1, <4>3, <4>4 DEF leakAt, closureDecides, Alike
      <3>2. CASE leakAt(p, v, i) # "onSuccess"
        <4>1. PICK t \in Y : Alike(u(t), v)
          BY <1>1, <1>3
        <4> QED
          BY <2>3, <3>2, <4>1 DEF leakAt, Alike
      <3> QED
        BY <3>1, <3>2
    <2> QED
      BY <1>1, <1>2, <2>2, <2>3 DEF IsOneOf
  <1>7. CASE ~callsBeforeDefer(p, v, i, happened) /\ happened # "exit"
    <2>1. out = after(v, happened) /\ \A t \in Y : of(t) = after(u(t), happened)
      BY <1>4, <1>7 DEF step, u, v, happened
    <2>2. ASSUME NEW w PROVE after(w, happened).leak = "none"
                             /\ (w \in State /\ after(w, happened).goes
                                  => after(w, happened).state.failed = w.failed)
      BY DEF after, paid, Goes, Ends, State
    <2>3. out.leak = "none"
      BY <2>1, <2>2
    <2>4. ASSUME out.goes, NEW e, e \notin out.state.failed
          PROVE  \E t \in Y : e \notin of(t).state.failed
      <3>1. v \in State /\ \A t \in Y : u(t) \in State
        BY <1>1, <1>3 DEF Alike
      <3>2. e \notin v.failed
        BY <2>1, <2>2, <2>4, <3>1
      <3>3. PICK t \in Y : e \notin u(t).failed
        BY <1>1, <3>2 DEF StandsFor
      <3> QED
        BY <1>2, <2>1, <2>2, <2>4, <3>1, <3>3
    <2> HIDE DEF out, of
    <2>5. out.goes => StandsFor(out.state, {o.state : o \in {of(t) : t \in Y}})
      BY <1>1, <1>2, <2>4 DEF StandsFor
    <2> QED
      BY <1>1, <1>2, <2>3, <2>5 DEF IsOneOf, out, of
  <1> QED
    BY <1>5, <1>6, <1>7

\* A branch is followed alike from alike states, and what the state that
\* stands for others does not know past it, one of them does not.
LEMMA BranchAlike ==
    ASSUME NEW p \in Protocol, NEW c \in Condition, NEW s, NEW t, Alike(t, s)
    PROVE  /\ followed(p, t, c) = followed(p, s, c)
           /\ \A position \in {1, 2} : Alike(into(p, t, c, position), into(p, s, c, position))
  <1>1. KnowsLess(bottomOf(s), s) /\ KnowsLess(bottomOf(s), t)
    BY AlikeAboveBottom
  <1> DEFINE low == bottomOf(s)
  <1> HIDE DEF low
  <1>2. followed(p, low, c) = followed(p, s, c) /\ followed(p, low, c) = followed(p, t, c)
    BY <1>1, BranchLess DEF low
  <1>3. ASSUME NEW position \in {1, 2}
        PROVE  Alike(into(p, t, c, position), into(p, s, c, position))
    <2>1. /\ KnowsLess(into(p, low, c, position), into(p, s, c, position))
          /\ KnowsLess(into(p, low, c, position), into(p, t, c, position))
      BY <1>1, BranchLess DEF low
    <2> QED
      BY <2>1 DEF KnowsLess, Alike
  <1> QED
    BY <1>2, <1>3

LEMMA BranchStands ==
    ASSUME NEW p \in Protocol, NEW c \in Condition, NEW position \in {1, 2},
           NEW s, NEW Y, StandsFor(s, Y),
           NEW e, e \notin into(p, s, c, position).failed
    PROVE  \E t \in Y : e \notin into(p, t, c, position).failed
  <1>1. s \in State /\ \A t \in Y : t \in State
    BY DEF StandsFor, Alike
  <1>2. ASSUME NEW t \in Y PROVE verdictOf(p, t, c) = verdictOf(p, s, c)
    <2>1. Alike(t, s)
      BY DEF StandsFor
    <2> QED
      BY <2>1 DEF verdictOf, readBy, isError, Alike
  <1>3. PICK t \in Y : e \notin s.failed => e \notin t.failed
    BY DEF StandsFor
  <1>4. \A u \in {s, t} : u \in State
    BY <1>1
  <1>5. CASE e \in s.failed
    <2>1. c.kind # "other" /\ c.of \in Tracked /\ position # failing(c) /\ nilOtherwise(c) /\ e = c.of
      BY <1>1, <1>5 DEF into, along, State
    <2>2. into(p, t, c, position) = along(t, c, position)
      BY <1>1, <1>2, <1>5 DEF into, along, State
    <2> QED
      BY <1>4, <2>1, <2>2 DEF along, State
  <1>6. CASE e \notin s.failed
    <2>1. e \notin t.failed
      BY <1>3, <1>6
    <2> QED
      BY <1>2, <1>4, <1>6, <2>1 DEF into, along, State
  <1> QED
    BY <1>5, <1>6

\* So is the outcome of the instructions of a block.
LEMMA RunStands ==
    ASSUME NEW p \in Protocol, NEW instrs \in Seq(Instruction), NEW s, NEW Y,
           StandsFor(s, Y), s.open > 0
    PROVE  IsOneOf(run(p, s, instrs), {run(p, t, instrs) : t \in Y})
  <1> DEFINE out == outcomes(p, s, instrs)
             of(t) == outcomes(p, t, instrs)
             S == {n \in Nat : n <= Len(instrs) => IsOneOf(out[n], {of(t)[n] : t \in Y})}
  <1>1. Len(instrs) \in Nat /\ \A n \in 1..Len(instrs) : instrs[n] \in Instruction
    OBVIOUS
  <1>2. /\ out[0] = Goes(s)
        /\ \A n \in 1..Len(instrs) : out[n] = continuing(p, out[n - 1], instrs[n])
    <2>1. IsRun(out, Len(instrs), p, s, instrs)
      BY <1>1, OutcomesRun
    <2> HIDE DEF out
    <2> QED
      BY <1>1, <2>1, RunSteps
  <1>3. ASSUME NEW t \in Y
        PROVE  /\ of(t)[0] = Goes(t)
               /\ \A n \in 1..Len(instrs) : of(t)[n] = continuing(p, of(t)[n - 1], instrs[n])
    <2> DEFINE o == of(t)
    <2>1. IsRun(o, Len(instrs), p, t, instrs)
      BY <1>1, OutcomesRun
    <2> HIDE DEF o
    <2>2. /\ o[0] = Goes(t)
          /\ \A n \in 1..Len(instrs) : o[n] = continuing(p, o[n - 1], instrs[n])
      BY <1>1, <2>1, RunSteps
    <2> QED
      BY <2>2 DEF o
  <1> HIDE DEF out, of
  <1>4. 0 \in S
    <2> DEFINE starts == {of(t)[0] : t \in Y}
    <2>1. starts = {Goes(t) : t \in Y}
      BY <1>3
    <2>2. {o.state : o \in starts} = Y
      <3>1. \A t : Goes(t).state = t
        BY DEF Goes
      <3>2. {o.state : o \in starts} = {Goes(t).state : t \in Y}
        BY <2>1
      <3> QED
        BY <3>1, <3>2
    <2>3. IsOneOf(Goes(s), starts)
      <3>1. \A o \in starts : o.goes /\ o.ending = "none"
        BY <2>1 DEF Goes
      <3>2. starts # {}
        BY <2>1 DEF StandsFor
      <3> HIDE DEF starts
      <3> QED
        BY <2>2, <3>1, <3>2 DEF IsOneOf, Goes
    <2> QED
      BY <1>2, <2>3
  <1>5. ASSUME NEW n \in Nat, n \in S
        PROVE  n + 1 \in S
    <2> SUFFICES ASSUME n + 1 <= Len(instrs)
                 PROVE  IsOneOf(out[n + 1], {of(t)[n + 1] : t \in Y})
      OBVIOUS
    <2> DEFINE before == out[n]
               those == {of(t)[n] : t \in Y}
               i == instrs[n + 1]
    <2>1. IsOneOf(before, those) /\ n + 1 \in 1..Len(instrs) /\ (n + 1) - 1 = n
      BY <1>1, <1>5
    <2>2. i \in Instruction /\ out[n + 1] = continuing(p, before, i)
      BY <1>1, <1>2, <2>1
    <2>3. {of(t)[n + 1] : t \in Y} = {continuing(p, o, i) : o \in those}
      BY <1>3, <2>1
    <2> HIDE DEF before, those, i
    <2>4. CASE before.goes
      <3> DEFINE states == {o.state : o \in those}
      <3>1. StandsFor(before.state, states) /\ before.state.open > 0
        BY <2>1, <2>4 DEF IsOneOf
      <3>2. {continuing(p, o, i) : o \in those} = {step(p, t, i) : t \in states}
        BY <2>1, <2>4 DEF IsOneOf, continuing
      <3> HIDE DEF states
      <3>3. IsOneOf(step(p, before.state, i), {step(p, t, i) : t \in states})
        BY <2>2, <3>1, StepStands
      <3> QED
        BY <2>2, <2>3, <2>4, <3>2, <3>3 DEF continuing
    <2>5. CASE ~before.goes
      <3>1. {continuing(p, o, i) : o \in those} = those
        BY <2>1, <2>5 DEF IsOneOf, continuing
      <3> QED
        BY <2>1, <2>2, <2>3, <2>5, <3>1 DEF continuing
    <2> QED
      BY <2>4, <2>5
  <1> HIDE DEF S
  <1>6. Len(instrs) \in S
    BY <1>1, <1>4, <1>5, SetInduction
  <1> QED
    BY <1>1, <1>6 DEF S, run, out, of

\* The point x stands for those of X: they differ in nothing but the failures
\* they know, and what x does not know, one of them does not.
StandsAt(x, X) ==
    /\ X # {}
    /\ \A y \in X : y.block = x.block /\ y.index = x.index
    /\ StandsFor(x.state, {y.state : y \in X})

\* A point that stands for others leads to points that stand for those they
\* lead to; and ends as they do, and leaks as one of them.
LEMMA ContinuedStands ==
    ASSUME NEW p \in Protocol, NEW f, IsFunction(f),
           NEW x \in PointsOf(f), NEW X \in SUBSET PointsOf(f), StandsAt(x, X)
    PROVE  /\ IsOneOf(advanced(p, f, x), {advanced(p, f, y) : y \in X})
           /\ \A k \in DOMAIN continued(p, f, x) :
                /\ \A y \in X : k \in DOMAIN continued(p, f, y)
                /\ StandsAt(continued(p, f, x)[k], {continued(p, f, y)[k] : y \in X})
  <1> DEFINE b == blockOf(f, x)
             out == advanced(p, f, x)
             of(y) == advanced(p, f, y)
  <1>1. IsBlock(b, Len(f.blocks)) /\ \A y \in X : blockOf(f, y) = b /\ y.index = x.index
    BY DEF PointsOf, IsFunction, StandsAt, blockOf
  <1>2. IsOneOf(out, {of(y) : y \in X})
    <2> DEFINE instrs == SubSeq(b.instrs, x.index, Len(b.instrs))
               states == {y.state : y \in X}
    <2>1. b.instrs \in Seq(Instruction) /\ x.index \in 1..(Len(b.instrs) + 1)
      BY <1>1 DEF IsBlock, PointsOf
    <2>2. instrs \in Seq(Instruction)
      BY <2>1, SubSeqProperties
    <2>3. x.state.open > 0 /\ StandsFor(x.state, states)
      BY DEF PointsOf, StandsAt
    <2>4. out = run(p, x.state, instrs) /\ \A y \in X : of(y) = run(p, y.state, instrs)
      BY <1>1 DEF advanced
    <2> HIDE DEF instrs, out, of
    <2>5. {of(y) : y \in X} = {run(p, t, instrs) : t \in states}
      BY <2>4
    <2> HIDE DEF states
    <2> QED
      BY <2>2, <2>3, <2>4, <2>5, RunStands
  <1> HIDE DEF b, out, of
  <1>3. CASE ~out.goes
    <2>1. continued(p, f, x) = << >>
      BY <1>3 DEF continued, out
    <2> QED
      BY <1>2, <2>1 DEF out, of
  <1>4. CASE out.goes
    <2> DEFINE s == out.state
    <2>1. /\ s \in State /\ continued(p, f, x) = successors(p, f, x, s)
          /\ \A y \in X : /\ Alike(of(y).state, s)
                          /\ continued(p, f, y) = successors(p, f, y, of(y).state)
      BY <1>2, <1>4 DEF IsOneOf, StandsFor, Alike, continued, out, of
    <2>2. \A e : e \notin s.failed => \E y \in X : e \notin of(y).state.failed
      BY <1>2, <1>4 DEF IsOneOf, StandsFor
    <2> HIDE DEF s
    <2>3. ASSUME NEW k \in DOMAIN continued(p, f, x)
          PROVE  /\ \A y \in X : /\ k \in DOMAIN continued(p, f, y)
                                 /\ continued(p, f, y)[k].block = continued(p, f, x)[k].block
                                 /\ continued(p, f, y)[k].index = continued(p, f, x)[k].index
                                 /\ Alike(continued(p, f, y)[k].state, continued(p, f, x)[k].state)
                 /\ \A e : e \notin continued(p, f, x)[k].state.failed =>
                      \E y \in X : e \notin continued(p, f, y)[k].state.failed
      <3>1. CASE b.cond = None
        <4>1. continued(p, f, x) = [n \in DOMAIN b.succs |-> At(b.succs[n], 1, s)]
          BY <2>1, <3>1 DEF successors, b
        <4>2. \A y \in X : continued(p, f, y) = [n \in DOMAIN b.succs |-> At(b.succs[n], 1, of(y).state)]
          BY <1>1, <2>1, <3>1 DEF successors
        <4>3. continued(p, f, x)[k] = At(b.succs[k], 1, s) /\ k \in DOMAIN b.succs
          BY <2>3, <4>1
        <4>4. \A y \in X : /\ k \in DOMAIN continued(p, f, y)
                           /\ continued(p, f, y)[k] = At(b.succs[k], 1, of(y).state)
          BY <4>2, <4>3
        <4>5. \A u : /\ At(b.succs[k], 1, u).block = b.succs[k]
                     /\ At(b.succs[k], 1, u).index = 1 /\ At(b.succs[k], 1, u).state = u
          BY DEF At
        <4>6. /\ continued(p, f, x)[k].block = b.succs[k] /\ continued(p, f, x)[k].index = 1
              /\ continued(p, f, x)[k].state = s
          BY <4>3, <4>5
        <4>7. \A y \in X : /\ continued(p, f, y)[k].block = b.succs[k]
                           /\ continued(p, f, y)[k].index = 1
                           /\ continued(p, f, y)[k].state = of(y).state
          BY <4>4, <4>5
        <4>8. \A y \in X : Alike(of(y).state, s)
          BY <2>1
        <4> QED
          BY <2>2, <4>4, <4>6, <4>7, <4>8
      <3>2. CASE b.cond # None
        <4> DEFINE positions == inOrder(followed(p, s, b.cond))
                   position == positions[k]
                   entered(u) == into(p, u, b.cond, position)
        <4>1. b.cond \in Condition
          BY <1>1, <3>2 DEF IsBlock
        <4>2. \A y \in X : followed(p, of(y).state, b.cond) = followed(p, s, b.cond)
          BY <2>1, <4>1, BranchAlike
        <4>3. continued(p, f, x) =
                [n \in DOMAIN positions |->
                   At(b.succs[positions[n]], 1, into(p, s, b.cond, positions[n]))]
          BY <2>1, <3>2 DEF successors, b
        <4>4. \A y \in X : continued(p, f, y) =
                [n \in DOMAIN positions |->
                   At(b.succs[positions[n]], 1, into(p, of(y).state, b.cond, positions[n]))]
          BY <1>1, <2>1, <3>2, <4>2 DEF successors
        <4>5. position \in {1, 2}
          <5>1. positions \in Seq({1, 2})
            BY BothInOrder
          <5>2. k \in DOMAIN positions
            BY <2>3, <4>3
          <5> HIDE DEF positions
          <5> QED
            BY <5>1, <5>2
        <4>6. continued(p, f, x)[k] = At(b.succs[position], 1, entered(s)) /\ k \in DOMAIN positions
          BY <2>3, <4>3
        <4>7. \A y \in X : /\ k \in DOMAIN continued(p, f, y)
                           /\ continued(p, f, y)[k] = At(b.succs[position], 1, entered(of(y).state))
          BY <4>4, <4>6
        <4> HIDE DEF positions, position
        <4>8. \A y \in X : Alike(entered(of(y).state), entered(s))
          BY <2>1, <4>1, <4>5, BranchAlike
        <4>9. ASSUME NEW e, e \notin entered(s).failed
              PROVE  \E y \in X : e \notin entered(of(y).state).failed
          <5> DEFINE Y == {of(y).state : y \in X}
          <5>1. StandsFor(s, Y)
            <6>1. X # {}
              BY DEF StandsAt
            <6> QED
              BY <2>1, <2>2, <6>1 DEF StandsFor
          <5> HIDE DEF Y, entered
          <5>2. PICK t \in Y : e \notin into(p, t, b.cond, position).failed
            BY <4>1, <4>5, <4>9, <5>1, BranchStands DEF entered
          <5> QED
            BY <5>2 DEF Y, entered
        <4> HIDE DEF entered
        <4>10. \A u : /\ At(b.succs[position], 1, u).block = b.succs[position]
                      /\ At(b.succs[position], 1, u).index = 1
                      /\ At(b.succs[position], 1, u).state = u
          BY DEF At
        <4>11. /\ continued(p, f, x)[k].block = b.succs[position]
               /\ continued(p, f, x)[k].index = 1 /\ continued(p, f, x)[k].state = entered(s)
          BY <4>6, <4>10
        <4>12. \A y \in X : /\ continued(p, f, y)[k].block = b.succs[position]
                            /\ continued(p, f, y)[k].index = 1
                            /\ continued(p, f, y)[k].state = entered(of(y).state)
          BY <4>7, <4>10
        <4> QED
          BY <4>7, <4>8, <4>9, <4>11, <4>12
      <3> QED
        BY <3>1, <3>2
    <2>4. X # {}
      BY DEF StandsAt
    <2>5. \A k \in DOMAIN continued(p, f, x) :
            StandsAt(continued(p, f, x)[k], {continued(p, f, y)[k] : y \in X})
      BY <2>3, <2>4 DEF StandsAt, StandsFor
    <2> QED
      BY <1>2, <2>3, <2>5 DEF out, of
  <1> QED
    BY <1>3, <1>4

---------------------------------------------------------------------------
(* The strings of the memo: bytes and bits.                                 *)

\* The index of a bit of a byte.
indexOf(n, b) == 8 * (n - 1) + b

\* An index is its byte and its bit, and a bit of a byte is an index.
LEMMA IndexParts ==
    /\ \A index \in Nat : /\ Strings!byteOf(index) \in Nat \ {0} /\ Strings!bitOf(index) \in Strings!Bits
                          /\ index = indexOf(Strings!byteOf(index), Strings!bitOf(index))
    /\ \A n \in Nat \ {0}, b \in Strings!Bits :
         /\ indexOf(n, b) \in Nat
         /\ Strings!byteOf(indexOf(n, b)) = n /\ Strings!bitOf(indexOf(n, b)) = b
  <1>1. ASSUME NEW index \in Nat
        PROVE  /\ Strings!byteOf(index) \in Nat \ {0} /\ Strings!bitOf(index) \in Strings!Bits
               /\ index = indexOf(Strings!byteOf(index), Strings!bitOf(index))
    <2>1. /\ index \div 8 \in Nat /\ index % 8 \in 0..7
          /\ index = 8 * (index \div 8) + (index % 8)
      OBVIOUS
    <2> QED
      BY <2>1 DEF Strings!byteOf, Strings!bitOf, indexOf, Strings!Bits
  <1>2. ASSUME NEW n \in Nat \ {0}, NEW b \in Strings!Bits
        PROVE  /\ indexOf(n, b) \in Nat
               /\ Strings!byteOf(indexOf(n, b)) = n /\ Strings!bitOf(indexOf(n, b)) = b
    <2>1. 8 * (n - 1) + b \in Nat /\ b \in 0..7
      BY DEF Strings!Bits
    <2>2. (8 * (n - 1) + b) \div 8 = n - 1 /\ (8 * (n - 1) + b) % 8 = b
      BY <2>1
    <2> QED
      BY <2>1, <2>2 DEF Strings!byteOf, Strings!bitOf, indexOf
  <1> QED
    BY <1>1, <1>2

\* A string has bytes, and its bytes bits.
LEMMA StringParts ==
    ASSUME NEW p \in Seq(Strings!Byte)
    PROVE  Len(p) \in Nat /\ \A n \in 1..Len(p) : p[n] \subseteq Strings!Bits
  <1>1. \A n \in 1..Len(p) : p[n] \in Strings!Byte
    OBVIOUS
  <1> QED
    BY <1>1 DEF Strings!Byte

\* A string that holds all another holds includes it, if that one is spelled
\* as the search spells it; and one that includes another holds all it holds.
THEOREM IncludesIsSubset ==
    ASSUME NEW p \in Seq(Strings!Byte), NEW q \in Strings!Spelled
    PROVE  Strings!includes(p, q) <=> Strings!held(q) \subseteq Strings!held(p)
  <1>1. q \in Seq(Strings!Byte) /\ (q = << >> \/ q[Len(q)] # {})
    BY DEF Strings!Spelled
  <1>2. ASSUME Strings!includes(p, q), NEW index \in Nat, Strings!has(q, index)
        PROVE  Strings!has(p, index)
    <2>1. Strings!byteOf(index) \in 1..Len(q)
      BY <1>1, <1>2, IndexParts, StringParts DEF Strings!has
    <2> QED
      BY <1>1, <1>2, <2>1, StringParts DEF Strings!includes, Strings!has
  <1>3. ASSUME Strings!held(q) \subseteq Strings!held(p)
        PROVE  Strings!includes(p, q)
    <2>1. ASSUME NEW n \in 1..Len(q), NEW b \in q[n]
          PROVE  n <= Len(p) /\ b \in p[n]
      <3>1. b \in Strings!Bits /\ n \in Nat \ {0}
        BY <1>1, StringParts
      <3>2. /\ indexOf(n, b) \in Nat
            /\ Strings!byteOf(indexOf(n, b)) = n /\ Strings!bitOf(indexOf(n, b)) = b
        BY <3>1, IndexParts
      <3>3. Strings!has(q, indexOf(n, b))
        BY <1>1, <3>2 DEF Strings!has
      <3>4. Strings!has(p, indexOf(n, b))
        BY <1>3, <3>2, <3>3 DEF Strings!held
      <3> QED
        BY <3>2, <3>4 DEF Strings!has
    <2>2. Len(q) <= Len(p)
      <3>1. CASE q = << >>
        BY <3>1
      <3>2. CASE q # << >>
        <4>1. Len(q) \in 1..Len(q)
          BY <1>1, <3>2, EmptySeq
        <4>2. PICK b : b \in q[Len(q)]
          BY <1>1, <3>2
        <4> QED
          BY <2>1, <4>1, <4>2
      <3> QED
        BY <3>1, <3>2
    <2> QED
      BY <2>1, <2>2 DEF Strings!includes
  <1> QED
    BY <1>2, <1>3 DEF Strings!held

\* One set has one spelling, so that two states that deferred the same closures
\* are one key of the memo (success.go, proven; flow.go, state).
THEOREM OneSpelling ==
    ASSUME NEW p \in Strings!Spelled, NEW q \in Strings!Spelled, Strings!held(p) = Strings!held(q)
    PROVE  p = q
  <1>1. p \in Seq(Strings!Byte) /\ q \in Seq(Strings!Byte)
    BY DEF Strings!Spelled
  <1>2. Strings!includes(p, q) /\ Strings!includes(q, p)
    BY <1>1, IncludesIsSubset
  <1>3. Len(p) = Len(q)
    BY <1>1, <1>2, StringParts DEF Strings!includes
  <1>4. \A n \in 1..Len(p) : p[n] \subseteq q[n] /\ q[n] \subseteq p[n]
    BY <1>2, <1>3 DEF Strings!includes
  <1>5. \A n \in 1..Len(p) : p[n] = q[n]
    BY <1>4
  <1> QED
    BY <1>1, <1>3, <1>5, SeqEqual

---------------------------------------------------------------------------
(* What the operations hold, and that they spell it so.                     *)

\* with adds its index.
THEOREM WithAdds ==
    ASSUME NEW p \in Strings!Spelled, NEW index \in Nat
    PROVE  Strings!with(p, index) \in Strings!Spelled /\ Strings!held(Strings!with(p, index)) = Strings!held(p) \union {index}
  <1> DEFINE q == Strings!with(p, index)
             len == Strings!longer(Len(p), Strings!byteOf(index))
  <1>1. p \in Seq(Strings!Byte) /\ (p = << >> \/ p[Len(p)] # {})
    BY DEF Strings!Spelled
  <1>2. /\ Strings!byteOf(index) \in Nat \ {0} /\ Strings!bitOf(index) \in Strings!Bits /\ Len(p) \in Nat
        /\ len \in Nat \ {0} /\ len >= Len(p) /\ len >= Strings!byteOf(index)
        /\ len = Len(p) \/ len = Strings!byteOf(index)
    <2>1. Strings!byteOf(index) \in Nat \ {0} /\ Strings!bitOf(index) \in Strings!Bits /\ Len(p) \in Nat
      BY <1>1, IndexParts, StringParts
    <2> QED
      BY <2>1 DEF Strings!longer
  <1>3. \A n \in 1..len :
          q[n] = (IF n <= Len(p) THEN p[n] ELSE {})
                   \union (IF n = Strings!byteOf(index) THEN {Strings!bitOf(index)} ELSE {})
    BY DEF Strings!with
  <1>4. \A n \in 1..Len(p) : p[n] \subseteq Strings!Bits
    BY <1>1, StringParts
  <1>5. q \in Seq(Strings!Byte) /\ Len(q) = len
    <2>1. \A n \in 1..len : q[n] \in Strings!Byte
      BY <1>2, <1>3, <1>4 DEF Strings!Byte
    <2>2. q = [n \in 1..len |-> q[n]]
      BY DEF Strings!with
    <2> HIDE DEF q, len
    <2> QED
      BY <1>2, <2>1, <2>2
  <1> HIDE DEF q, len
  <1>6. q[len] # {}
    <2>1. len \in 1..len
      BY <1>2
    <2>2. CASE len = Strings!byteOf(index)
      BY <1>3, <2>1, <2>2
    <2>3. CASE len = Len(p)
      <3>1. p # << >>
        BY <1>2, <2>3
      <3> QED
        BY <1>1, <1>3, <2>1, <2>3, <3>1
    <2> QED
      BY <1>2, <2>2, <2>3
  <1>7. ASSUME NEW m \in Nat
        PROVE  Strings!has(q, m) <=> Strings!has(p, m) \/ m = index
    <2>1. Strings!byteOf(m) \in Nat \ {0} /\ Strings!bitOf(m) \in Strings!Bits
      BY IndexParts
    <2>2. m = index <=> Strings!byteOf(m) = Strings!byteOf(index) /\ Strings!bitOf(m) = Strings!bitOf(index)
      BY IndexParts
    <2>3. CASE Strings!byteOf(m) <= len
      BY <1>1, <1>2, <1>3, <1>5, <2>1, <2>2, <2>3 DEF Strings!has
    <2>4. CASE Strings!byteOf(m) > len
      BY <1>1, <1>2, <1>5, <2>1, <2>2, <2>4 DEF Strings!has
    <2> QED
      BY <1>2, <2>1, <2>3, <2>4
  <1> QED
    BY <1>5, <1>6, <1>7 DEF Strings!held, Strings!Spelled, q

\* Without the zero bytes it ends in, a string holds the same, and is spelled as
\* the search spells it.
LEMMA TrimKeeps ==
    ASSUME NEW p \in Seq(Strings!Byte)
    PROVE  Strings!trimRight(p) \in Strings!Spelled /\ Strings!held(Strings!trimRight(p)) = Strings!held(p)
  <1> DEFINE S == {n \in Nat : n <= Len(p) /\ \A m \in (n + 1)..Len(p) : p[m] = {}}
             R == OpToRel(<, Nat)
  <1>1. Len(p) \in S
    BY StringParts
  <1>2. \A m, n \in Nat : m < n => <<m, n>> \in R
    BY DEF OpToRel
  <1>3. IsWellFoundedOn(R, Nat)
    BY NatLessThanWellFounded
  <1>4. S \subseteq Nat
    OBVIOUS
  <1> HIDE DEF R, S
  <1>5. PICK n \in S : \A m \in S : <<m, n>> \notin R
    BY <1>1, <1>3, <1>4, WFMin
  <1>6. n \in Nat /\ n <= Len(p) /\ \A m \in (n + 1)..Len(p) : p[m] = {}
    BY <1>5 DEF S
  <1>7. n = 0 \/ p[n] # {}
    <2> SUFFICES ASSUME n # 0, p[n] = {} PROVE FALSE
      OBVIOUS
    <2>1. n - 1 \in Nat /\ n - 1 < n /\ n - 1 <= Len(p)
      BY <1>6, StringParts
    <2>2. \A m \in ((n - 1) + 1)..Len(p) : m = n \/ m \in (n + 1)..Len(p)
      BY <1>6, StringParts
    <2>3. n - 1 \in S
      BY <1>6, <2>1, <2>2 DEF S
    <2> QED
      BY <1>2, <1>5, <1>6, <2>1, <2>3
  <1>8. \E k \in 0..Len(p) : Strings!IsTrimmedAt(p, k)
    BY <1>6, <1>7, StringParts DEF Strings!IsTrimmedAt
  <1> DEFINE kept == CHOOSE k \in 0..Len(p) : Strings!IsTrimmedAt(p, k)
  <1>9. kept \in 0..Len(p) /\ Strings!IsTrimmedAt(p, kept)
    BY <1>8
  <1> HIDE DEF kept
  <1>10. kept \in Nat /\ kept <= Len(p) /\ Len(p) \in Nat
    BY <1>9, StringParts
  <1>11. /\ Strings!trimRight(p) \in Seq(Strings!Byte) /\ Len(Strings!trimRight(p)) = kept
         /\ \A m \in 1..kept : Strings!trimRight(p)[m] = p[m]
    <2>1. \A m \in 1..kept : p[m] \in Strings!Byte
      BY <1>10
    <2>2. Strings!trimRight(p) = SubSeq(p, 1, kept)
      BY DEF Strings!trimRight, kept
    <2> QED
      BY <1>10, <2>1, <2>2, SubSeqProperties
  <1>12. Strings!trimRight(p) \in Strings!Spelled
    <2>1. CASE kept = 0
      BY <1>11, <2>1, EmptySeq DEF Strings!Spelled
    <2>2. CASE kept # 0
      BY <1>9, <1>10, <1>11, <2>2 DEF Strings!IsTrimmedAt, Strings!Spelled
    <2> QED
      BY <2>1, <2>2
  <1>13. ASSUME NEW index \in Nat
         PROVE  Strings!has(Strings!trimRight(p), index) <=> Strings!has(p, index)
    <2>1. Strings!byteOf(index) \in Nat \ {0}
      BY IndexParts
    <2>2. CASE Strings!byteOf(index) <= kept
      BY <1>10, <1>11, <2>1, <2>2 DEF Strings!has
    <2>3. CASE Strings!byteOf(index) > kept
      BY <1>9, <1>10, <1>11, <2>1, <2>3 DEF Strings!has, Strings!IsTrimmedAt
    <2> QED
      BY <1>10, <2>1, <2>2, <2>3
  <1> QED
    BY <1>12, <1>13 DEF Strings!held

\* common holds what both hold.
THEOREM CommonIsBoth ==
    ASSUME NEW p \in Strings!Spelled, NEW q \in Strings!Spelled
    PROVE  Strings!common(p, q) \in Strings!Spelled /\ Strings!held(Strings!common(p, q)) = Strings!held(p) \intersect Strings!held(q)
  <1> DEFINE len == Strings!shorter(Len(p), Len(q))
             both == [n \in 1..len |-> p[n] \intersect q[n]]
  <1>1. p \in Seq(Strings!Byte) /\ q \in Seq(Strings!Byte)
    BY DEF Strings!Spelled
  <1>2. /\ len \in Nat /\ len <= Len(p) /\ len <= Len(q)
        /\ len = Len(p) \/ len = Len(q)
        /\ Len(p) \in Nat /\ Len(q) \in Nat
    BY <1>1, StringParts DEF Strings!shorter
  <1> HIDE DEF len
  <1>3. both \in Seq(Strings!Byte) /\ Len(both) = len
    <2>1. \A n \in 1..len : p[n] \intersect q[n] \in Strings!Byte
      BY <1>1, <1>2, StringParts DEF Strings!Byte
    <2> QED
      BY <1>2, <2>1
  <1>4. \A n \in 1..len : both[n] = p[n] \intersect q[n]
    OBVIOUS
  <1>5. Strings!common(p, q) = Strings!trimRight(both)
    BY DEF Strings!common, len
  <1> HIDE DEF both
  <1>6. ASSUME NEW index \in Nat
        PROVE  Strings!has(both, index) <=> Strings!has(p, index) /\ Strings!has(q, index)
    <2>1. Strings!byteOf(index) \in Nat \ {0}
      BY IndexParts
    <2>2. CASE Strings!byteOf(index) <= len
      <3>1. Strings!byteOf(index) \in 1..len
        BY <1>2, <2>1, <2>2
      <3>2. both[Strings!byteOf(index)] = p[Strings!byteOf(index)] \intersect q[Strings!byteOf(index)]
        BY <1>4, <3>1
      <3>3. Strings!byteOf(index) <= Len(p) /\ Strings!byteOf(index) <= Len(q) /\ Strings!byteOf(index) <= Len(both)
        BY <1>2, <1>3, <2>1, <2>2
      <3> QED
        BY <3>2, <3>3 DEF Strings!has
    <2>3. CASE Strings!byteOf(index) > len
      <3>1. ~(Strings!byteOf(index) <= Len(p) /\ Strings!byteOf(index) <= Len(q))
        BY <1>2, <2>1, <2>3
      <3>2. ~(Strings!byteOf(index) <= Len(both))
        BY <1>2, <1>3, <2>1, <2>3
      <3> QED
        BY <3>1, <3>2 DEF Strings!has
    <2> QED
      BY <1>2, <2>1, <2>2, <2>3
  <1> QED
    BY <1>3, <1>5, <1>6, TrimKeeps DEF Strings!held

\* without drops its index.
THEOREM WithoutDrops ==
    ASSUME NEW p \in Strings!Spelled, NEW index \in Nat
    PROVE  Strings!without(p, index) \in Strings!Spelled /\ Strings!held(Strings!without(p, index)) = Strings!held(p) \ {index}
  <1>1. p \in Seq(Strings!Byte)
    BY DEF Strings!Spelled
  <1>2. CASE ~Strings!has(p, index)
    BY <1>2 DEF Strings!without, Strings!held
  <1>3. CASE Strings!has(p, index)
    <2> DEFINE less == [p EXCEPT ![Strings!byteOf(index)] = @ \ {Strings!bitOf(index)}]
    <2>1. Strings!byteOf(index) \in 1..Len(p) /\ Len(p) \in Nat
      BY <1>1, <1>3, IndexParts, StringParts DEF Strings!has
    <2>2. /\ less \in Seq(Strings!Byte) /\ Len(less) = Len(p)
          /\ less[Strings!byteOf(index)] = p[Strings!byteOf(index)] \ {Strings!bitOf(index)}
          /\ \A n \in 1..Len(p) : n # Strings!byteOf(index) => less[n] = p[n]
      <3>1. p[Strings!byteOf(index)] \ {Strings!bitOf(index)} \in Strings!Byte
        BY <1>1, <2>1, StringParts DEF Strings!Byte
      <3> QED
        BY <1>1, <2>1, <3>1
    <2>3. Strings!without(p, index) = Strings!trimRight(less)
      BY <1>3 DEF Strings!without
    <2> HIDE DEF less
    <2>4. ASSUME NEW m \in Nat
          PROVE  Strings!has(less, m) <=> Strings!has(p, m) /\ m # index
      <3>1. Strings!byteOf(m) \in Nat \ {0}
        BY IndexParts
      <3>2. m = index <=> Strings!byteOf(m) = Strings!byteOf(index) /\ Strings!bitOf(m) = Strings!bitOf(index)
        BY IndexParts
      <3> QED
        BY <2>1, <2>2, <3>1, <3>2 DEF Strings!has
    <2> QED
      BY <2>2, <2>3, <2>4, TrimKeeps DEF Strings!held
  <1> QED
    BY <1>2, <1>3

---------------------------------------------------------------------------
(* What explore keeps.                                                      *)

Proved == INSTANCE Worklist_proofs WITH
    Point    <- pointsGiven,
    Fact     <- Tracked,
    Starts   <- startsAt,
    Succ     <- nodesAfter,
    Leaks    <- leaksAt,
    Ends     <- endsAt,
    pending  <- {nodeOf(program, protocol, pending[n]) : n \in DOMAIN pending},
    searched <- [q \in {<<program, protocol, x>> : x \in DOMAIN searched} |->
                   searched[q[3]]],
    leaked   <- found # "none",
    ended    <- ended,
    walker   <- nodeOf(program, protocol, walker)

ExploreInv ==
    /\ program \in Programs /\ protocol \in Protocols /\ first \in BOOLEAN
    /\ pending \in Seq(PointsOf(program))
    /\ DOMAIN searched \subseteq {pointOf(x) : x \in PointsOf(program)}
    /\ \A x \in DOMAIN searched : searched[x] \subseteq Tracked
    /\ walker \in PointsOf(program)
    /\ done => pending = << >> \/ (first /\ found # "none")

---------------------------------------------------------------------------
(* Points and nodes.                                                        *)

\* A point is what it is without its failures, and its failures.
LEMMA PointParts ==
    ASSUME NEW f, NEW x \in PointsOf(f)
    PROVE  /\ pointOf(x) \in PointsOf(f) /\ pointOf(x).state.failed = {}
           /\ knownAt(x) \subseteq Tracked
           /\ [pointOf(x) EXCEPT !.state.failed = knownAt(x)] = x
           /\ \A known \in SUBSET Tracked :
                /\ [x EXCEPT !.state.failed = known] \in PointsOf(f)
                /\ pointOf([x EXCEPT !.state.failed = known]) = pointOf(x)
                /\ knownAt([x EXCEPT !.state.failed = known]) = known
  BY DEF PointsOf, pointOf, knownAt, State, blockOf

\* A node is of one point, and leads where that point continues.
LEMMA NodeParts ==
    ASSUME NEW f \in Programs, NEW p \in Protocols, NEW x \in PointsOf(f)
    PROVE  /\ nodeOf(f, p, x) \in Promise!Node
           /\ stateOf(nodeOf(f, p, x)) = x
           /\ nodesAfter(nodeOf(f, p, x)) =
                {nodeOf(f, p, continued(p, f, x)[k]) : k \in DOMAIN continued(p, f, x)}
           /\ outcomeOf(nodeOf(f, p, x)) = advanced(p, f, x)
  <1>1. stateOf(nodeOf(f, p, x)) = x
    BY PointParts DEF stateOf, nodeOf
  <1>2. nodeOf(f, p, x).point[1] = f /\ nodeOf(f, p, x).point[2] = p
    BY DEF nodeOf
  <1>3. pointOf(x) \in [block : Nat, index : Nat, state : State]
    <2>1. DOMAIN f.blocks \subseteq Nat
      BY SearchAssumption DEF IsFunction
    <2> QED
      BY <2>1, PointParts DEF PointsOf
  <1>4. nodeOf(f, p, x) \in Promise!Node
    BY <1>3, PointParts DEF nodeOf, Promise!Node, pointsGiven
  <1> QED
    BY <1>1, <1>2, <1>4 DEF nodesAfter, outcomeOf

\* Every node is of a point.
LEMMA NodesAreOfPoints ==
    ASSUME NEW n \in Promise!Node
    PROVE  \E f \in Programs, p \in Protocols : \E x \in PointsOf(f) : n = nodeOf(f, p, x)
  <1>1. \E f \in Programs, p \in Protocols : \E y \in PointsOf(f) :
           n.point = <<f, p, y>> /\ y.state.failed = {}
    BY DEF Promise!Node, pointsGiven
  <1>2. PICK f \in Programs, p \in Protocols : \E y \in PointsOf(f) :
           n.point = <<f, p, y>> /\ y.state.failed = {}
    BY <1>1
  <1>3. PICK y \in PointsOf(f) : n.point = <<f, p, y>> /\ y.state.failed = {}
    BY <1>2
  <1> DEFINE x == [y EXCEPT !.state.failed = n.known]
  <1>4. n.known \subseteq Tracked /\ n = [point |-> n.point, known |-> n.known]
    BY DEF Promise!Node
  <1>5. x \in PointsOf(f) /\ pointOf(x) = pointOf(y) /\ knownAt(x) = n.known
    BY <1>4, PointParts
  <1>6. pointOf(y) = y
    BY <1>3 DEF pointOf, PointsOf, State
  <1> QED
    BY <1>3, <1>4, <1>5, <1>6 DEF nodeOf

\* A point knows less than another where they are the same but for what they
\* know, and it knows no more.
LEMMA LessIsBelow ==
    ASSUME NEW f, NEW x \in PointsOf(f), NEW y \in PointsOf(f)
    PROVE  LessAt(y, x) <=> pointOf(y) = pointOf(x) /\ knownAt(y) \subseteq knownAt(x)
  <1>1. pointOf(y) = pointOf(x) /\ knownAt(y) \subseteq knownAt(x) => LessAt(y, x)
    BY DEF pointOf, knownAt, LessAt, KnowsLess, PointsOf, State
  <1>2. LessAt(y, x) => pointOf(y) = pointOf(x) /\ knownAt(y) \subseteq knownAt(x)
    BY DEF pointOf, knownAt, LessAt, KnowsLess, PointsOf, State
  <1> QED
    BY <1>1, <1>2

\* One node is below another where the point of the one is the other's, and
\* knows no more.
LEMMA BelowIsLess ==
    ASSUME NEW f \in Programs, NEW p, NEW x \in PointsOf(f), NEW y \in PointsOf(f)
    PROVE  Proved!Below(nodeOf(f, p, y), nodeOf(f, p, x)) <=> LessAt(y, x)
  BY LessIsBelow DEF nodeOf, Proved!Below

\* The rules are rules, and the functions functions.
LEMMA Given ==
    ASSUME NEW f \in Programs, NEW p \in Protocols
    PROVE  p \in Protocol /\ IsFunction(f)
  BY SearchAssumption

\* A point knows no less than itself.
LEMMA LessAtItself ==
    ASSUME NEW f, NEW x \in PointsOf(f)
    PROVE  LessAt(x, x)
  BY DEF LessAt, KnowsLess, PointsOf

\* The points of a function are searched as points.
LEMMA ContinuedPoints ==
    ASSUME NEW f \in Programs, NEW p \in Protocols, NEW x \in PointsOf(f)
    PROVE  continued(p, f, x) \in Seq(PointsOf(f))
  BY Given, LessAtItself, ContinuedLess

\* Worklist_proofs assumes two things of nodes, and explore has both.
LEMMA NodesHold == Proved!Nodes
  <1>1. Proved!Node = Promise!Node
    BY DEF Proved!Node, Promise!Node
  <1>2. ASSUME NEW n \in Promise!Node
        PROVE  nodesAfter(n) \subseteq Promise!Node
    <2>1. PICK f \in Programs, p \in Protocols : \E x \in PointsOf(f) : n = nodeOf(f, p, x)
      BY NodesAreOfPoints
    <2>2. PICK x \in PointsOf(f) : n = nodeOf(f, p, x)
      BY <2>1
    <2>3. \A k \in DOMAIN continued(p, f, x) : continued(p, f, x)[k] \in PointsOf(f)
      BY ContinuedPoints
    <2> QED
      BY <2>2, <2>3, NodeParts
  <1>3. ASSUME NEW n PROVE leaksAt(n) \in BOOLEAN
    BY DEF leaksAt
  <1> QED
    BY <1>1, <1>2, <1>3 DEF Proved!Nodes

LEMMA MonotoneHolds == Proved!Monotone
  <1>1. Proved!Node = Promise!Node
    BY DEF Proved!Node, Promise!Node
  <1> SUFFICES ASSUME NEW m \in Promise!Node, NEW n \in Promise!Node, Proved!Below(n, m)
               PROVE  /\ leaksAt(m) => leaksAt(n)
                      /\ endsAt(m) \subseteq endsAt(n)
                      /\ \A u \in nodesAfter(m) : \E w \in nodesAfter(n) : Proved!Below(w, u)
    BY <1>1 DEF Proved!Monotone
  <1>2. PICK f \in Programs, p \in Protocols : \E x \in PointsOf(f) : m = nodeOf(f, p, x)
    BY NodesAreOfPoints
  <1>3. PICK x \in PointsOf(f) : m = nodeOf(f, p, x)
    BY <1>2
  <1>4. \E y \in PointsOf(f) : n = nodeOf(f, p, y)
    <2>1. n.point = m.point
      BY DEF Proved!Below
    <2>2. m.point[1] = f /\ m.point[2] = p
      BY <1>3 DEF nodeOf
    <2>3. \A g, q, y : nodeOf(g, q, y).point[1] = g /\ nodeOf(g, q, y).point[2] = q
      BY DEF nodeOf
    <2> QED
      BY <2>1, <2>2, <2>3, NodesAreOfPoints
  <1>5. PICK y \in PointsOf(f) : n = nodeOf(f, p, y)
    BY <1>4
  <1>6. LessAt(y, x)
    BY <1>3, <1>5, BelowIsLess
  <1>7. /\ FindsNoLess(advanced(p, f, y), advanced(p, f, x))
        /\ DOMAIN continued(p, f, y) = DOMAIN continued(p, f, x)
        /\ \A k \in DOMAIN continued(p, f, x) :
             /\ continued(p, f, x)[k] \in PointsOf(f)
             /\ continued(p, f, y)[k] \in PointsOf(f)
             /\ LessAt(continued(p, f, y)[k], continued(p, f, x)[k])
    BY <1>6, Given, ContinuedLess, ContinuedPoints
  <1>8. leaksAt(m) => leaksAt(n)
    BY <1>3, <1>5, <1>7, NodeParts DEF leaksAt, FindsNoLess
  <1>9. endsAt(m) \subseteq endsAt(n)
    BY <1>3, <1>5, <1>7, NodeParts DEF endsAt, FindsNoLess
  <1>10. ASSUME NEW u \in nodesAfter(m)
         PROVE  \E w \in nodesAfter(n) : Proved!Below(w, u)
    <2>1. PICK k \in DOMAIN continued(p, f, x) : u = nodeOf(f, p, continued(p, f, x)[k])
      BY <1>3, NodeParts
    <2>2. nodeOf(f, p, continued(p, f, y)[k]) \in nodesAfter(n)
      BY <1>5, <1>7, NodeParts
    <2>3. Proved!Below(nodeOf(f, p, continued(p, f, y)[k]), u)
      BY <1>7, <2>1, BelowIsLess
    <2> QED
      BY <2>2, <2>3
  <1> QED
    BY <1>8, <1>9, <1>10

---------------------------------------------------------------------------
(* The steps of explore are steps of a worklist.                            *)

\* The node of a point of what is searched.
here(x) == nodeOf(program, protocol, x)

\* The nodes of a sequence of them.
nodesOn(points) == {here(points[n]) : n \in DOMAIN points}

\* What waits, and what is searched, as Promise sees it.
waiting == nodesOn(pending)

memo == [q \in {<<program, protocol, x>> : x \in DOMAIN searched} |-> searched[q[3]]]

\* The memo says the same of a point and of its node.
LEMMA MemoParts ==
    ASSUME NEW x
    PROVE  /\ here(x).point \in DOMAIN memo <=> pointOf(x) \in DOMAIN searched
           /\ pointOf(x) \in DOMAIN searched => memo[here(x).point] = searched[pointOf(x)]
           /\ here(x).known = knownAt(x)
           /\ here(x).point = <<program, protocol, pointOf(x)>>
  BY DEF here, nodeOf, memo

\* What the stack holds without its last is all it holds, or all but that.
LEMMA RestWaits ==
    ASSUME pending \in Seq(PointsOf(program)), pending # << >>
    PROVE  /\ Last(pending) \in PointsOf(program) /\ here(Last(pending)) \in waiting
           /\ Front(pending) \in Seq(PointsOf(program))
           /\ nodesOn(Front(pending)) \in {waiting, waiting \ {here(Last(pending))}}
  <1> DEFINE len == Len(pending)
  <1>1. len \in Nat \ {0} /\ DOMAIN pending = 1..len /\ len - 1 \in Nat
    BY EmptySeq
  <1>2. Last(pending) = pending[len]
    BY DEF Last
  <1>3. /\ Front(pending) \in Seq(PointsOf(program)) /\ Len(Front(pending)) = len - 1
        /\ \A n \in 1..(len - 1) : Front(pending)[n] = pending[n]
    <2>1. \A n \in 1..(len - 1) : pending[n] \in PointsOf(program)
      BY <1>1
    <2> QED
      BY <1>1, <2>1, SubSeqProperties DEF Front
  <1>4. nodesOn(Front(pending)) = {here(pending[n]) : n \in 1..(len - 1)}
    <2>1. DOMAIN Front(pending) = 1..(len - 1)
      BY <1>1, <1>3
    <2> QED
      BY <1>3, <2>1 DEF nodesOn
  <1>5. waiting = {here(pending[n]) : n \in 1..(len - 1)} \union {here(pending[len])}
    <2>1. 1..len = 1..(len - 1) \union {len}
      BY <1>1
    <2> QED
      BY <1>1, <2>1 DEF waiting, nodesOn
  <1> QED
    BY <1>1, <1>2, <1>3, <1>4, <1>5

\* What one sequence holds after another, and what each holds.
LEMMA ConcatenationParts ==
    ASSUME NEW S, NEW s \in Seq(S), NEW t \in Seq(S)
    PROVE  nodesOn(s \o t) = nodesOn(s) \union nodesOn(t)
  <1>1. /\ DOMAIN s = 1..Len(s) /\ DOMAIN t = 1..Len(t) /\ Len(s) \in Nat /\ Len(t) \in Nat
        /\ DOMAIN (s \o t) = 1..(Len(s) + Len(t))
    OBVIOUS
  <1>2. \A n \in 1..Len(s) : n \in DOMAIN (s \o t) /\ (s \o t)[n] = s[n]
    BY <1>1
  <1>3. \A k \in 1..Len(t) : Len(s) + k \in DOMAIN (s \o t) /\ (s \o t)[Len(s) + k] = t[k]
    BY <1>1
  <1>4. ASSUME NEW n \in DOMAIN (s \o t)
        PROVE  \/ \E m \in DOMAIN s : (s \o t)[n] = s[m]
               \/ \E k \in DOMAIN t : (s \o t)[n] = t[k]
    <2>1. CASE n <= Len(s)
      BY <1>1, <1>2, <2>1
    <2>2. CASE n > Len(s)
      <3>1. n - Len(s) \in 1..Len(t) /\ Len(s) + (n - Len(s)) = n
        BY <1>1, <2>2
      <3> QED
        BY <1>1, <1>3, <3>1
    <2> QED
      BY <1>1, <2>1, <2>2
  <1> QED
    BY <1>1, <1>2, <1>3, <1>4 DEF nodesOn

\* A node is covered where its point is.
LEMMA CoveredHere ==
    ASSUME NEW x
    PROVE  covered(x) <=> /\ here(x).point \in DOMAIN memo
                         /\ memo[here(x).point] \subseteq here(x).known
  BY MemoParts DEF covered

\* What a point has in common with its searches is a point.
LEMMA CommonHere ==
    ASSUME ExploreInv, NEW x \in PointsOf(program)
    PROVE  /\ common(x) \in PointsOf(program)
           /\ pointOf(common(x)) = pointOf(x)
           /\ here(common(x)) =
                IF here(x).point \in DOMAIN memo
                THEN [point |-> here(x).point,
                      known |-> here(x).known \intersect memo[here(x).point]]
                ELSE here(x)
  <1>1. CASE pointOf(x) \in DOMAIN searched
    <2> DEFINE known == knownAt(x) \intersect searched[pointOf(x)]
    <2>1. known \in SUBSET Tracked
      BY PointParts
    <2>2. common(x) = [x EXCEPT !.state.failed = known]
      BY <1>1 DEF common, knownAt, PointsOf
    <2> HIDE DEF known
    <2>3. /\ common(x) \in PointsOf(program) /\ pointOf(common(x)) = pointOf(x)
          /\ knownAt(common(x)) = known
      BY <2>1, <2>2, PointParts
    <2>4. here(x).point \in DOMAIN memo /\ memo[here(x).point] = searched[pointOf(x)]
      BY <1>1, MemoParts
    <2>5. here(x).point = <<program, protocol, pointOf(x)>> /\ here(x).known = knownAt(x)
      BY MemoParts
    <2>6. here(common(x)) = [point |-> here(x).point, known |-> known]
      BY <2>3, <2>5 DEF here, nodeOf
    <2>7. known = here(x).known \intersect memo[here(x).point]
      BY <2>4, <2>5 DEF known
    <2> QED
      BY <2>3, <2>4, <2>6, <2>7
  <1>2. CASE pointOf(x) \notin DOMAIN searched
    BY <1>2, MemoParts DEF common
  <1> QED
    BY <1>1, <1>2

\* Skip leaves what is searched, and drops a node that is covered.
LEMMA SkipSteps ==
    ASSUME ExploreInv, Skip
    PROVE  ExploreInv' /\ Promise!Next
  <1> DEFINE x == Last(pending)
  <1>1. /\ pending # << >> /\ ~done /\ covered(x) /\ pending' = Front(pending)
        /\ UNCHANGED <<program, protocol, first, searched, found, ended, done, walker>>
    BY DEF Skip, given
  <1>2. /\ x \in PointsOf(program) /\ here(x) \in waiting
        /\ Front(pending) \in Seq(PointsOf(program))
        /\ nodesOn(Front(pending)) \in {waiting, waiting \ {here(x)}}
    BY <1>1, RestWaits DEF ExploreInv
  <1>3. ExploreInv'
    BY <1>1, <1>2 DEF ExploreInv
  <1>4. waiting' \in {waiting, waiting \ {here(x)}}
    BY <1>1, <1>2 DEF waiting, nodesOn, here
  <1>5. memo' = memo /\ here(walker)' = here(walker)
    BY <1>1 DEF memo, here
  <1>6. Promise!Skip(here(x))
    BY <1>1, <1>4, <1>5, CoveredHere
       DEF Promise!Skip, Promise!Covered, Promise!Rest, waiting, nodesOn, memo, here
  <1>7. here(x) \in {nodeOf(program, protocol, pending[n]) : n \in DOMAIN pending}
    BY <1>2 DEF waiting, nodesOn, here
  <1> QED
    BY <1>3, <1>6, <1>7 DEF Promise!Next

\* Visit searches what its node has in common with its point's searches.
LEMMA VisitSteps ==
    ASSUME ExploreInv, Visit
    PROVE  ExploreInv' /\ Promise!Next
  <1> DEFINE x == Last(pending)
             current == common(x)
             out == advanced(protocol, program, current)
             next == continued(protocol, program, current)
  <1>1. /\ pending # << >> /\ ~done /\ ~covered(x)
        /\ searched' = [y \in DOMAIN searched \union {pointOf(current)} |->
                          IF y = pointOf(current) THEN knownAt(current) ELSE searched[y]]
        /\ found' = IF found = "none" THEN out.leak ELSE found
        /\ ended' = ended \union ({out.ending} \ {"none"})
        /\ done' = (first /\ found' # "none")
        /\ pending' = Front(pending) \o next
        /\ UNCHANGED <<program, protocol, first, walker>>
    BY DEF Visit, given
  <1>2. /\ x \in PointsOf(program) /\ here(x) \in waiting
        /\ Front(pending) \in Seq(PointsOf(program))
        /\ nodesOn(Front(pending)) \in {waiting, waiting \ {here(x)}}
    BY <1>1, RestWaits DEF ExploreInv
  <1>3. program \in Programs /\ protocol \in Protocols
    BY DEF ExploreInv
  <1>4. /\ current \in PointsOf(program) /\ pointOf(current) = pointOf(x)
        /\ here(current) =
             IF here(x).point \in DOMAIN memo
             THEN [point |-> here(x).point,
                   known |-> here(x).known \intersect memo[here(x).point]]
             ELSE here(x)
    BY <1>2, CommonHere
  <1>5. next \in Seq(PointsOf(program))
    BY <1>3, <1>4, ContinuedPoints
  <1>6. /\ nodesAfter(here(current)) = nodesOn(next)
        /\ outcomeOf(here(current)) = out
    BY <1>3, <1>4, NodeParts DEF here, nodesOn
  <1> HIDE DEF x, current, out, next
  <1>7. /\ DOMAIN searched' = DOMAIN searched \union {pointOf(x)}
        /\ searched'[pointOf(x)] = knownAt(current)
        /\ \A y \in DOMAIN searched : y # pointOf(x) => searched'[y] = searched[y]
    BY <1>1, <1>4
  <1>8. ExploreInv'
    <2>1. knownAt(current) \subseteq Tracked /\ pointOf(x) \in {pointOf(y) : y \in PointsOf(program)}
      BY <1>2, <1>4, PointParts
    <2>2. pending' \in Seq(PointsOf(program))
      BY <1>1, <1>2, <1>5
    <2>3. \A y \in DOMAIN searched' : searched'[y] \subseteq Tracked
      BY <1>7, <2>1 DEF ExploreInv
    <2>4. DOMAIN searched' \subseteq {pointOf(y) : y \in PointsOf(program)}
      BY <1>7, <2>1 DEF ExploreInv
    <2> QED
      BY <1>1, <2>2, <2>3, <2>4 DEF ExploreInv
  <1>9. \E rest \in {waiting, waiting \ {here(x)}} :
          waiting' = rest \union nodesAfter(here(current))
    <2>1. waiting' = nodesOn(Front(pending) \o next)
      BY <1>1 DEF waiting, nodesOn, here
    <2> QED
      BY <1>2, <1>5, <1>6, <2>1, ConcatenationParts
  <1>10. memo' = [q \in DOMAIN memo \union {here(x).point} |->
                    IF q = here(x).point THEN here(current).known ELSE memo[q]]
    <2>1. here(x).point = <<program, protocol, pointOf(x)>> /\ here(current).known = knownAt(current)
      BY MemoParts
    <2>2. memo' = [q \in {<<program, protocol, y>> : y \in DOMAIN searched'} |-> searched'[q[3]]]
      BY <1>1 DEF memo
    <2>3. {<<program, protocol, y>> : y \in DOMAIN searched'} = DOMAIN memo \union {here(x).point}
      BY <1>7, <2>1 DEF memo
    <2>4. ASSUME NEW q \in DOMAIN memo \union {here(x).point}
          PROVE  searched'[q[3]] = IF q = here(x).point THEN here(current).known ELSE memo[q]
      BY <1>7, <2>1 DEF memo
    <2> QED
      BY <2>2, <2>3, <2>4
  <1>11. (found' # "none") <=> (found # "none" \/ leaksAt(here(current)))
    BY <1>1, <1>6 DEF leaksAt
  <1>12. ended' = ended \union endsAt(here(current)) /\ here(walker)' = here(walker)
    BY <1>1, <1>6 DEF endsAt, here
  <1>13. Promise!Common(here(x)) = here(current)
    BY <1>4 DEF Promise!Common, memo
  <1>14. ~Promise!Covered(here(x))
    BY <1>1, CoveredHere DEF Promise!Covered, memo
  <1>15. \E rest \in Promise!Rest(here(x)) :
           waiting' = rest \union nodesAfter(Promise!Common(here(x)))
    BY <1>9, <1>13 DEF Promise!Rest, waiting, nodesOn, here
  <1>16. PICK node : node = here(x)
    OBVIOUS
  <1>17. Promise!Visit(node)
    BY <1>10, <1>11, <1>12, <1>13, <1>14, <1>15, <1>16
       DEF Promise!Visit, waiting, nodesOn, memo, here
  <1>18. node \in {nodeOf(program, protocol, pending[n]) : n \in DOMAIN pending}
    BY <1>2, <1>16 DEF waiting, nodesOn, here
  <1>19. Promise!Next
    BY <1>17, <1>18 DEF Promise!Next
  <1> QED
    BY <1>8, <1>19

\* Once explore returned, nothing waits or a leak was found, and the walker goes
\* where its node leads.
LEMMA WalkSteps ==
    ASSUME ExploreInv, Walk
    PROVE  ExploreInv' /\ Promise!Next
  <1>1. /\ done /\ (first => found = "none") /\ program \in Programs /\ protocol \in Protocols
        /\ walker \in PointsOf(program)
        /\ UNCHANGED <<program, protocol, first, pending, searched, found, ended, done>>
    BY DEF Walk, given, work, ExploreInv
  <1>2. PICK n \in DOMAIN continued(protocol, program, walker) :
           walker' = continued(protocol, program, walker)[n]
    BY DEF Walk
  <1>3. walker' \in PointsOf(program)
    BY <1>1, <1>2, ContinuedPoints
  <1>4. ExploreInv'
    BY <1>1, <1>3 DEF ExploreInv
  <1>5. pending = << >>
    BY <1>1 DEF ExploreInv
  <1>6. waiting = {}
    BY <1>5 DEF waiting, nodesOn
  <1>7. here(walker)' \in nodesAfter(here(walker))
    BY <1>1, <1>2, NodeParts DEF here
  <1>8. waiting' = waiting /\ memo' = memo
    BY <1>1 DEF waiting, nodesOn, memo, here
  <1>9. Promise!Walk
    BY <1>1, <1>6, <1>7, <1>8 DEF Promise!Walk, waiting, nodesOn, memo, here
  <1> QED
    BY <1>4, <1>9 DEF Promise!Next

\* To return is no step of a worklist.
LEMMA ReturnSteps ==
    ASSUME ExploreInv, Return \/ UNCHANGED vars
    PROVE  ExploreInv' /\ UNCHANGED Promise!vars
  <1>1. /\ UNCHANGED <<program, protocol, first, pending, searched, found, ended, walker>>
        /\ done' = done \/ pending = << >>
    BY DEF Return, given, vars, work
  <1> QED
    BY <1>1 DEF ExploreInv, Promise!vars

\* explore begins as a worklist does.
LEMMA ExploreBegins ==
    ASSUME Init
    PROVE  ExploreInv /\ Promise!Init
  <1> DEFINE start == Origin(program)
  <1>1. /\ program \in Programs /\ protocol \in Protocols /\ first \in BOOLEAN
        /\ pending = <<start>> /\ searched = << >> /\ found = "none" /\ ended = {}
        /\ done = FALSE /\ walker = start
    BY SearchAssumption DEF Init, Begins
  <1>2. start \in PointsOf(program)
    <2>1. IsFunction(program)
      BY <1>1, SearchAssumption
    <2>2. /\ program.start \in DOMAIN program.blocks
          /\ program.index \in 0..Len(program.blocks[program.start].instrs)
          /\ Len(program.blocks[program.start].instrs) \in Nat
      BY <2>1 DEF IsFunction, IsBlock
    <2>3. Start \in State /\ Start.open > 0
      BY DEF Start, State, saturated
    <2> QED
      BY <2>2, <2>3 DEF Origin, At, PointsOf, blockOf
  <1> HIDE DEF start
  <1>3. ExploreInv
    <2>1. pending \in Seq(PointsOf(program))
      BY <1>1, <1>2
    <2>2. DOMAIN searched = {}
      BY <1>1
    <2> QED
      BY <1>1, <1>2, <2>1, <2>2 DEF ExploreInv
  <1>4. here(walker) \in Promise!Node /\ startsAt(here(walker))
    BY <1>1, <1>2, NodeParts DEF startsAt, here, nodeOf, start
  <1>5. waiting = {here(walker)} /\ memo = << >>
    <2>1. DOMAIN pending = {1} /\ pending[1] = walker
      BY <1>1
    <2>2. DOMAIN memo = {}
      BY <1>1 DEF memo
    <2> QED
      BY <2>1, <2>2 DEF waiting, nodesOn, memo
  <1>6. Promise!Init
    BY <1>1, <1>4, <1>5 DEF Promise!Init, waiting, nodesOn, memo, here
  <1> QED
    BY <1>3, <1>6

\* What explore keeps, and that its steps are a worklist's.
LEMMA ExploreSteps ==
    ASSUME ExploreInv, [Next]_vars
    PROVE  ExploreInv' /\ [Promise!Next]_(Promise!vars)
  <1>1. CASE Skip
    BY <1>1, SkipSteps
  <1>2. CASE Visit
    BY <1>2, VisitSteps
  <1>3. CASE Walk
    BY <1>3, WalkSteps
  <1>4. CASE Return \/ UNCHANGED vars
    BY <1>4, ReturnSteps
  <1> QED
    BY <1>1, <1>2, <1>3, <1>4 DEF Next

---------------------------------------------------------------------------
\* explore is a worklist, for every function, every rule and every value of its
\* parameter: it visits what waits, skips only what was searched knowing no
\* more, and stops with work left only at a leak (flow.go, explore).
THEOREM ExploreImplements == Spec => Implements
  <1>1. Init => ExploreInv /\ Promise!Init
    BY ExploreBegins
  <1>2. ExploreInv /\ [Next]_vars => ExploreInv' /\ [Promise!Next]_(Promise!vars)
    BY ExploreSteps
  <1> QED
    BY <1>1, <1>2, PTL DEF Spec, Implements, Promise!Spec

\* explore misses no leak and no ending of any path of any function, although it
\* merges states and skips points (flow.go, explore).
THEOREM ExploreMissesNothing == Spec => []NothingMissed
  <1>1. Init => ExploreInv /\ Proved!Init
    <2>1. Promise!Init => Proved!Init
      BY DEF Promise!Init, Proved!Init, Promise!Node, Proved!Node
    <2> QED
      BY <2>1, ExploreBegins
  <1>2. ExploreInv /\ [Next]_vars => ExploreInv' /\ [Proved!Next]_(Proved!vars)
    <2>1. [Promise!Next]_(Promise!vars) => [Proved!Next]_(Proved!vars)
      BY DEF Promise!Next, Promise!Walk, Promise!Skip, Promise!Visit, Promise!Covered,
             Promise!Common, Promise!Rest, Promise!vars,
             Proved!Next, Proved!Walk, Proved!Skip, Proved!Visit, Proved!Covered,
             Proved!Common, Proved!Rest, Proved!vars
    <2> QED
      BY <2>1, ExploreSteps
  <1>3. Proved!Spec => []Proved!NothingMissed
    BY NodesHold, MonotoneHolds, Proved!Searches
  <1>4. Proved!NothingMissed => NothingMissed
    BY DEF Proved!NothingMissed, NothingMissed, Promise!NothingMissed
  <1> QED
    BY <1>1, <1>2, <1>3, <1>4, PTL DEF Spec, Proved!Spec

\* From any point a path of any function reaches, knowing fewer failures loses
\* no leak, changes no ending, and leads to the same points knowing no more, so
\* that explore may merge the states of a point (flow.go, common).
THEOREM ExploreIsMonotone == Spec => []LessFindsMore
  <1>1. Spec => []ExploreInv
    <2>1. Init => ExploreInv
      BY ExploreBegins
    <2>2. ExploreInv /\ [Next]_vars => ExploreInv'
      BY ExploreSteps
    <2> QED
      BY <2>1, <2>2, PTL DEF Spec
  <1>2. ExploreInv => LessFindsMore
    <2> SUFFICES ASSUME ExploreInv, NEW known \in SUBSET knownAt(walker)
                 PROVE  LET less == [walker EXCEPT !.state.failed = known]
                            out  == advanced(protocol, program, walker)
                            outLess == advanced(protocol, program, less)
                            next(x) == Range(continued(protocol, program, x))
                        IN  /\ out.leak # "none" => outLess.leak # "none"
                            /\ out.ending \in {"none", outLess.ending}
                            /\ \A u \in next(walker) : \E w \in next(less) :
                                 pointOf(w) = pointOf(u) /\ knownAt(w) \subseteq knownAt(u)
      BY DEF LessFindsMore
    <2> DEFINE less == [walker EXCEPT !.state.failed = known]
               out  == advanced(protocol, program, walker)
               outLess == advanced(protocol, program, less)
    <2>1. /\ program \in Programs /\ protocol \in Protocol /\ IsFunction(program)
          /\ walker \in PointsOf(program)
      BY Given DEF ExploreInv
    <2>2. /\ less \in PointsOf(program)
          /\ pointOf(less) = pointOf(walker) /\ knownAt(less) = known
      BY <2>1, PointParts
    <2> HIDE DEF less
    <2>3. LessAt(less, walker)
      BY <2>1, <2>2, LessIsBelow
    <2>4. /\ FindsNoLess(outLess, out)
          /\ DOMAIN continued(protocol, program, less) = DOMAIN continued(protocol, program, walker)
          /\ \A k \in DOMAIN continued(protocol, program, walker) :
               /\ continued(protocol, program, walker)[k] \in PointsOf(program)
               /\ continued(protocol, program, less)[k] \in PointsOf(program)
               /\ LessAt(continued(protocol, program, less)[k],
                         continued(protocol, program, walker)[k])
      <3>1. continued(protocol, program, walker) \in Seq(PointsOf(program))
        BY <2>1, <2>2, <2>3, ContinuedLess
      <3>2. \A k \in DOMAIN continued(protocol, program, walker) :
              continued(protocol, program, walker)[k] \in PointsOf(program)
        BY <3>1
      <3> QED
        BY <2>1, <2>2, <2>3, <3>2, ContinuedLess
    <2>5. out.leak # "none" => outLess.leak # "none"
      BY <2>4 DEF FindsNoLess
    <2>6. out.ending = outLess.ending
      BY <2>4 DEF FindsNoLess
    <2>7. ASSUME NEW u \in Range(continued(protocol, program, walker))
          PROVE  \E w \in Range(continued(protocol, program, less)) :
                   pointOf(w) = pointOf(u) /\ knownAt(w) \subseteq knownAt(u)
      <3>1. PICK k \in DOMAIN continued(protocol, program, walker) :
               u = continued(protocol, program, walker)[k]
        BY DEF Range
      <3>2. continued(protocol, program, less)[k] \in Range(continued(protocol, program, less))
        BY <2>4, <3>1 DEF Range
      <3>3. LessAt(continued(protocol, program, less)[k], u)
        BY <2>4, <3>1
      <3>4. /\ continued(protocol, program, less)[k] \in PointsOf(program)
            /\ u \in PointsOf(program)
        BY <2>4, <3>1
      <3> QED
        BY <3>2, <3>3, <3>4, LessIsBelow
    <2> QED
      BY <2>5, <2>6, <2>7 DEF less
  <1> QED
    BY <1>1, <1>2, PTL

---------------------------------------------------------------------------
(* What the search reports is of some path.                                 *)

\* reachedIn's recursion, as far as m.
IsReached(r, m, p, f) ==
    r = [n \in 0..m |->
           IF n = 0 THEN {Origin(f)}
           ELSE UNION {Range(continued(p, f, x)) : x \in r[n - 1]}]

\* What m blocks reach is what those after the one before reach.
LEMMA ReachedSteps ==
    ASSUME NEW m \in Nat, NEW p, NEW f, NEW r, IsReached(r, m, p, f)
    PROVE  /\ r[0] = {Origin(f)}
           /\ \A n \in 1..m : r[n] = UNION {Range(continued(p, f, x)) : x \in r[n - 1]}
  <1>1. 0 \in 0..m /\ \A n \in 1..m : n \in 0..m /\ n # 0
    OBVIOUS
  <1> DEFINE next(n) == UNION {Range(continued(p, f, x)) : x \in r[n - 1]}
  <1>2. r = [n \in 0..m |-> IF n = 0 THEN {Origin(f)} ELSE next(n)]
    BY DEF IsReached
  <1> HIDE DEF next
  <1>3. r[0] = {Origin(f)} /\ \A n \in 1..m : r[n] = next(n)
    BY <1>1, <1>2
  <1> QED
    BY <1>3 DEF next

LEMMA ReachedExists ==
    ASSUME NEW p, NEW f
    PROVE  \A m \in Nat : \E r : IsReached(r, m, p, f)
  <1> DEFINE S == {m \in Nat : \E r : IsReached(r, m, p, f)}
             next(set) == UNION {Range(continued(p, f, x)) : x \in set}
  <1>1. 0 \in S
    <2> DEFINE r == [n \in 0..0 |-> {Origin(f)}]
    <2>1. r = [n \in 0..0 |-> IF n = 0 THEN {Origin(f)} ELSE next(r[n - 1])]
      OBVIOUS
    <2> HIDE DEF r
    <2>2. IsReached(r, 0, p, f)
      BY <2>1 DEF IsReached
    <2> QED
      BY <2>2
  <1>2. ASSUME NEW m \in Nat, m \in S
        PROVE  m + 1 \in S
    <2>1. PICK before : IsReached(before, m, p, f)
      BY <1>2
    <2> DEFINE r == [n \in 0..(m + 1) |-> IF n = m + 1 THEN next(before[m]) ELSE before[n]]
    <2> HIDE DEF next
    <2>2. /\ before[0] = {Origin(f)}
          /\ \A n \in 1..m : before[n] = next(before[n - 1])
      BY <2>1, ReachedSteps DEF next
    <2>3. r[0] = {Origin(f)}
      BY <2>2
    <2>4. ASSUME NEW n \in 0..(m + 1), n # 0
          PROVE  r[n] = next(r[n - 1])
      BY <2>2, <2>4
    <2>5. r = [n \in 0..(m + 1) |-> r[n]]
      OBVIOUS
    <2> HIDE DEF r
    <2>6. r = [n \in 0..(m + 1) |-> IF n = 0 THEN {Origin(f)} ELSE next(r[n - 1])]
      BY <2>3, <2>4, <2>5
    <2>7. IsReached(r, m + 1, p, f)
      BY <2>6 DEF IsReached, next
    <2> QED
      BY <2>7
  <1> HIDE DEF S
  <1>3. Nat \subseteq S
    BY <1>1, <1>2, SetInduction
  <1> QED
    BY <1>3 DEF S

\* The recursion has one answer, however far it is taken.
LEMMA ReachedOnce ==
    ASSUME NEW p, NEW f, NEW m \in Nat, NEW k \in Nat, NEW r, NEW q,
           IsReached(r, m, p, f), IsReached(q, k, p, f)
    PROVE  \A n \in Nat : n <= m /\ n <= k => r[n] = q[n]
  <1> DEFINE S == {n \in Nat : n <= m /\ n <= k => r[n] = q[n]}
             next(set) == UNION {Range(continued(p, f, x)) : x \in set}
  <1>1. /\ r[0] = {Origin(f)} /\ q[0] = {Origin(f)}
        /\ \A n \in 1..m : r[n] = next(r[n - 1])
        /\ \A n \in 1..k : q[n] = next(q[n - 1])
    BY ReachedSteps
  <1> HIDE DEF next
  <1>2. 0 \in S
    BY <1>1
  <1>3. ASSUME NEW n \in Nat, n \in S
        PROVE  n + 1 \in S
    <2> SUFFICES ASSUME n + 1 <= m, n + 1 <= k PROVE r[n + 1] = q[n + 1]
      OBVIOUS
    <2>1. n + 1 \in 1..m /\ n + 1 \in 1..k /\ (n + 1) - 1 = n /\ r[n] = q[n]
      BY <1>3
    <2> QED
      BY <1>1, <2>1
  <1> HIDE DEF S
  <1>4. Nat \subseteq S
    BY <1>2, <1>3, SetInduction
  <1> QED
    BY <1>4 DEF S

\* A path starts at the origin, and goes on where its points are continued.
LEMMA PathsGoOn ==
    ASSUME NEW p, NEW f
    PROVE  /\ reachedIn(p, f, 0) = {Origin(f)}
           /\ \A n \in Nat : \A x \in reachedIn(p, f, n) :
                \A k \in DOMAIN continued(p, f, x) :
                  continued(p, f, x)[k] \in reachedIn(p, f, n + 1)
  <1> DEFINE upTo(n) == CHOOSE r : IsReached(r, n, p, f)
  <1>1. ASSUME NEW n \in Nat
        PROVE  IsReached(upTo(n), n, p, f) /\ reachedIn(p, f, n) = upTo(n)[n]
    <2>1. \E r : IsReached(r, n, p, f)
      BY ReachedExists
    <2>2. IsReached(upTo(n), n, p, f)
      BY <2>1
    <2>3. reachedIn(p, f, n) = upTo(n)[n]
      BY DEF reachedIn, IsReached
    <2> QED
      BY <2>2, <2>3
  <1> HIDE DEF upTo
  <1>2. reachedIn(p, f, 0) = {Origin(f)}
    <2>1. 0 \in Nat
      OBVIOUS
    <2> QED
      BY <1>1, <2>1, ReachedSteps
  <1>3. ASSUME NEW n \in Nat, NEW x \in reachedIn(p, f, n), NEW k \in DOMAIN continued(p, f, x)
        PROVE  continued(p, f, x)[k] \in reachedIn(p, f, n + 1)
    <2>1. n + 1 \in Nat /\ n + 1 \in 1..(n + 1) /\ (n + 1) - 1 = n
      OBVIOUS
    <2> DEFINE r == upTo(n + 1)
    <2>2. IsReached(r, n + 1, p, f) /\ reachedIn(p, f, n + 1) = r[n + 1]
      BY <1>1, <2>1
    <2>3. r[n] = upTo(n)[n]
      BY <1>1, <2>1, <2>2, ReachedOnce
    <2> HIDE DEF r
    <2>4. r[n + 1] = UNION {Range(continued(p, f, y)) : y \in r[n]}
      <3> DEFINE m == n + 1
      <3>1. m \in Nat /\ m \in 1..m /\ m - 1 = n
        BY <2>1
      <3>2. IsReached(r, m, p, f)
        BY <2>2
      <3> HIDE DEF m
      <3>3. \A j \in 1..m : r[j] = UNION {Range(continued(p, f, y)) : y \in r[j - 1]}
        BY <3>1, <3>2, ReachedSteps
      <3> QED
        BY <3>1, <3>3 DEF m
    <2>5. x \in r[n] /\ continued(p, f, x)[k] \in Range(continued(p, f, x))
      BY <1>1, <2>3 DEF Range
    <2> QED
      BY <2>2, <2>4, <2>5
  <1> QED
    BY <1>2, <1>3

\* The points that paths of f reach under the rule p at the place, and with the
\* counts, of x.
ReachedAt(p, f, x) ==
    {y \in PointsOf(f) :
       pointOf(y) = pointOf(x) /\ \E n \in Nat : y \in reachedIn(p, f, n)}

\* A point stands for those that paths reach.
Met(p, f, x) ==
    /\ x \in PointsOf(f) /\ ReachedAt(p, f, x) # {}
    /\ \A e : e \notin knownAt(x) => \E y \in ReachedAt(p, f, x) : e \notin knownAt(y)

\* A leak, or an ending, of some path.
LeaksSomewhere(p, f, leak) ==
    \E n \in Nat : \E x \in reachedIn(p, f, n) :
      advanced(p, f, x).leak = leak

EndsSomewhere(p, f, ending) ==
    \E n \in Nat : \E x \in reachedIn(p, f, n) :
      advanced(p, f, x).ending = ending

\* A point as it was searched last.
asSearched(q) == [q EXCEPT !.state.failed = searched[q]]

\* What waits, and what is searched, stands for points paths reach; and what was
\* found, some path does.
MetInv ==
    /\ \A n \in DOMAIN pending : Met(protocol, program, pending[n])
    /\ \A q \in DOMAIN searched : Met(protocol, program, asSearched(q))
    /\ found # "none" => LeaksSomewhere(protocol, program, found)
    /\ \A ending \in ended : EndsSomewhere(protocol, program, ending)

\* A point that is met stands for points paths reach.
LEMMA MetStands ==
    ASSUME NEW p, NEW f, NEW x, Met(p, f, x)
    PROVE  StandsAt(x, ReachedAt(p, f, x)) /\ ReachedAt(p, f, x) \in SUBSET PointsOf(f)
  <1> DEFINE X == ReachedAt(p, f, x)
  <1>1. X # {} /\ \A y \in X : y \in PointsOf(f) /\ pointOf(y) = pointOf(x)
    BY DEF Met, ReachedAt
  <1>2. x \in PointsOf(f) /\ \A e : e \notin knownAt(x) => \E y \in X : e \notin knownAt(y)
    BY DEF Met
  <1> HIDE DEF X
  <1>3. ASSUME NEW y \in X
        PROVE  y.block = x.block /\ y.index = x.index /\ Alike(y.state, x.state)
    <2>1. y \in PointsOf(f) /\ x \in PointsOf(f) /\ pointOf(y) = pointOf(x)
      BY <1>1, <1>2
    <2> QED
      BY <2>1 DEF pointOf, PointsOf, Alike, State
  <1>4. StandsFor(x.state, {y.state : y \in X})
    BY <1>1, <1>2, <1>3 DEF StandsFor, knownAt
  <1>5. StandsAt(x, X)
    BY <1>1, <1>3, <1>4 DEF StandsAt
  <1> QED
    BY <1>1, <1>5 DEF X

\* It leads to points that are met; and ends, and leaks, as some path.
LEMMA MetGoesOn ==
    ASSUME NEW f \in Programs, NEW p \in Protocols, NEW x, Met(p, f, x)
    PROVE  /\ \A k \in DOMAIN continued(p, f, x) :
                Met(p, f, continued(p, f, x)[k])
           /\ advanced(p, f, x).leak # "none" =>
                LeaksSomewhere(p, f, advanced(p, f, x).leak)
           /\ EndsSomewhere(p, f, advanced(p, f, x).ending)
  <1> DEFINE X == ReachedAt(p, f, x)
             next(y) == continued(p, f, y)
             out(y) == advanced(p, f, y)
  <1>1. p \in Protocol /\ IsFunction(f)
    BY Given
  <1>2. StandsAt(x, X) /\ X \in SUBSET PointsOf(f) /\ x \in PointsOf(f)
    BY MetStands DEF Met
  <1>3. \A y \in X : \E n \in Nat : y \in reachedIn(p, f, n)
    BY DEF ReachedAt
  <1> HIDE DEF X
  <1>4. /\ IsOneOf(out(x), {out(y) : y \in X})
        /\ \A k \in DOMAIN next(x) :
             /\ \A y \in X : k \in DOMAIN next(y)
             /\ StandsAt(next(x)[k], {next(y)[k] : y \in X})
    BY <1>1, <1>2, ContinuedStands
  <1>5. \A y \in X \union {x} : \A k \in DOMAIN next(y) : next(y)[k] \in PointsOf(f)
    <2>1. \A y \in X \union {x} : next(y) \in Seq(PointsOf(f))
      BY <1>2, ContinuedPoints
    <2> HIDE DEF next
    <2> QED
      BY <2>1
  <1> HIDE DEF next, out
  <1>6. out(x).leak # "none" => LeaksSomewhere(p, f, out(x).leak)
    BY <1>3, <1>4 DEF IsOneOf, LeaksSomewhere, out
  <1>7. EndsSomewhere(p, f, out(x).ending)
    BY <1>3, <1>4 DEF IsOneOf, EndsSomewhere, out
  <1>8. ASSUME NEW k \in DOMAIN next(x)
        PROVE  Met(p, f, next(x)[k])
    <2> DEFINE z == next(x)[k]
               Z == {next(y)[k] : y \in X}
    <2>1. StandsAt(z, Z) /\ z \in PointsOf(f) /\ \A y \in X : k \in DOMAIN next(y)
      BY <1>4, <1>5
    <2>2. ASSUME NEW y \in X
          PROVE  next(y)[k] \in ReachedAt(p, f, z)
      <3>1. PICK n \in Nat : y \in reachedIn(p, f, n)
        BY <1>3
      <3>2. next(y)[k] \in reachedIn(p, f, n + 1) /\ n + 1 \in Nat
        <4>1. \A m \in Nat : \A w \in reachedIn(p, f, m) :
                \A j \in DOMAIN continued(p, f, w) :
                  continued(p, f, w)[j] \in reachedIn(p, f, m + 1)
          BY PathsGoOn
        <4>2. k \in DOMAIN continued(p, f, y)
          BY <2>1 DEF next
        <4> QED
          BY <3>1, <4>1, <4>2 DEF next
      <3>3. next(y)[k] \in PointsOf(f) /\ next(y)[k] \in Z
        BY <1>5, <2>1
      <3> DEFINE u == next(y)[k]
      <3> HIDE DEF u, z, Z
      <3>4. u.block = z.block /\ u.index = z.index /\ Alike(u.state, z.state)
        BY <2>1, <3>3 DEF StandsAt, StandsFor, u
      <3>5. pointOf(u) = pointOf(z)
        BY <2>1, <3>3, <3>4 DEF pointOf, PointsOf, Alike, State, u
      <3> QED
        BY <3>2, <3>3, <3>5 DEF ReachedAt, u
    <2>3. Z \subseteq ReachedAt(p, f, z) /\ X # {}
      BY <2>2, <1>2 DEF StandsAt
    <2> HIDE DEF z, Z
    <2>4. ReachedAt(p, f, z) # {}
      BY <2>1, <2>3 DEF StandsAt
    <2>5. \A e : e \notin knownAt(z) => \E y \in ReachedAt(p, f, z) : e \notin knownAt(y)
      BY <2>1, <2>3 DEF StandsAt, StandsFor, knownAt
    <2> QED
      BY <2>1, <2>4, <2>5 DEF Met, z
  <1> QED
    BY <1>6, <1>7, <1>8 DEF next, out

\* A point, knowing only what its searches knew, is met where they are.
LEMMA MetInCommon ==
    ASSUME ExploreInv, MetInv, NEW x, Met(protocol, program, x)
    PROVE  Met(protocol, program, common(x))
  <1>1. CASE pointOf(x) \in DOMAIN searched
    <2> DEFINE q == pointOf(x)
               c == common(x)
               u == asSearched(q)
    <2>1. Met(protocol, program, u) /\ x \in PointsOf(program)
      BY <1>1 DEF MetInv, Met
    <2>2. /\ c \in PointsOf(program) /\ pointOf(c) = q
          /\ knownAt(c) = knownAt(x) \intersect searched[q]
      <3>1. common(x) = [x EXCEPT !.state.failed = knownAt(x) \intersect searched[q]]
        BY <1>1, <2>1 DEF common, knownAt, PointsOf
      <3>2. knownAt(x) \intersect searched[q] \in SUBSET Tracked
        BY <2>1, PointParts
      <3> QED
        BY <2>1, <3>1, <3>2, PointParts
    <2>3. knownAt(u) = searched[q] /\ pointOf(u) = q
      <3>1. q \in PointsOf(program) /\ searched[q] \in SUBSET Tracked
        BY <1>1, <2>1, PointParts DEF ExploreInv
      <3>2. pointOf(q) = q
        BY <2>1 DEF pointOf, PointsOf, State
      <3> QED
        BY <3>1, <3>2, PointParts DEF asSearched
    <2> HIDE DEF q, c, u
    <2>4. ReachedAt(protocol, program, c) = ReachedAt(protocol, program, x) /\ ReachedAt(protocol, program, u) = ReachedAt(protocol, program, x)
      BY <2>2, <2>3 DEF ReachedAt, q
    <2>5. ASSUME NEW e, e \notin knownAt(c)
          PROVE  \E y \in ReachedAt(protocol, program, c) : e \notin knownAt(y)
      BY <2>1, <2>2, <2>3, <2>4, <2>5 DEF Met
    <2> QED
      BY <2>2, <2>4, <2>5 DEF Met, c
  <1>2. CASE pointOf(x) \notin DOMAIN searched
    BY <1>2 DEF common
  <1> QED
    BY <1>1, <1>2

\* The last of a sequence, and what is before it, are of the sequence.
LEMMA LastIsOfThem ==
    ASSUME NEW S, NEW s \in Seq(S), s # << >>
    PROVE  \E n \in DOMAIN s : Last(s) = s[n]
  <1>1. Len(s) \in Nat /\ Len(s) # 0
    BY EmptySeq
  <1> QED
    BY <1>1 DEF Last

LEMMA FrontIsOfThem ==
    ASSUME NEW S, NEW s \in Seq(S), s # << >>
    PROVE  \A n \in DOMAIN Front(s) : n \in DOMAIN s /\ Front(s)[n] = s[n]
  <1> DEFINE m == Len(s)
  <1>1. m \in Nat \ {0} /\ DOMAIN s = 1..m /\ m - 1 \in Nat
    BY EmptySeq
  <1>2. \A n \in 1..(m - 1) : s[n] \in S
    BY <1>1
  <1>3. DOMAIN Front(s) = 1..(m - 1) /\ \A n \in 1..(m - 1) : Front(s)[n] = s[n]
    <2>1. /\ Front(s) \in Seq(S) /\ Len(Front(s)) = m - 1
          /\ \A n \in 1..(m - 1) : Front(s)[n] = s[n]
      BY <1>1, <1>2, SubSeqProperties DEF Front
    <2> QED
      BY <2>1
  <1> HIDE DEF m
  <1> QED
    BY <1>1, <1>3

\* What is met on the stack but for its last, and what is put on it, is met.
LEMMA MetOnBoth ==
    ASSUME NEW p, NEW f, NEW S, NEW s \in Seq(S), s # << >>, NEW t \in Seq(S),
           \A n \in DOMAIN s : Met(p, f, s[n]), \A n \in DOMAIN t : Met(p, f, t[n])
    PROVE  \A n \in DOMAIN (Front(s) \o t) : Met(p, f, (Front(s) \o t)[n])
  <1> DEFINE r == Front(s)
  <1>1. r \in Seq(S)
    <2>1. Len(s) \in Nat /\ Len(s) # 0
      BY EmptySeq
    <2> QED
      BY <2>1, SubSeqProperties DEF Front
  <1>2. \A n \in DOMAIN r : Met(p, f, r[n])
    BY FrontIsOfThem
  <1> HIDE DEF r
  <1>3. /\ DOMAIN r = 1..Len(r) /\ DOMAIN t = 1..Len(t) /\ Len(r) \in Nat /\ Len(t) \in Nat
        /\ DOMAIN (r \o t) = 1..(Len(r) + Len(t))
    BY <1>1
  <1>4. ASSUME NEW n \in DOMAIN (r \o t)
        PROVE  \/ \E m \in DOMAIN r : (r \o t)[n] = r[m]
               \/ \E m \in DOMAIN t : (r \o t)[n] = t[m]
    <2>1. CASE n <= Len(r)
      BY <1>1, <1>3, <2>1
    <2>2. CASE n > Len(r)
      <3>1. n - Len(r) \in 1..Len(t) /\ (r \o t)[n] = t[n - Len(r)]
        BY <1>1, <1>3, <2>2
      <3> QED
        BY <1>3, <3>1
    <2> QED
      BY <1>3, <2>1, <2>2
  <1> HIDE DEF Met
  <1> QED
    BY <1>2, <1>4 DEF r

\* What explore meets stands for what paths reach, as it goes.
LEMMA MetSteps ==
    ASSUME ExploreInv, MetInv, [Next]_vars
    PROVE  MetInv'
  <1>1. program \in Programs /\ protocol \in Protocols
    BY DEF ExploreInv
  <1>2. CASE Visit
    <2> DEFINE x == Last(pending)
               current == common(x)
               out == advanced(protocol, program, current)
               next == continued(protocol, program, current)
    <2>1. /\ pending # << >>
          /\ searched' = [y \in DOMAIN searched \union {pointOf(current)} |->
                            IF y = pointOf(current) THEN knownAt(current) ELSE searched[y]]
          /\ found' = IF found = "none" THEN out.leak ELSE found
          /\ ended' = ended \union ({out.ending} \ {"none"})
          /\ pending' = Front(pending) \o next
          /\ UNCHANGED <<program, protocol>>
      BY <1>2 DEF Visit, given
    <2>2. Met(protocol, program, x)
      BY <2>1, LastIsOfThem DEF MetInv, ExploreInv
    <2>3. Met(protocol, program, current)
      BY <2>2, MetInCommon
    <2>4. /\ \A k \in DOMAIN next : Met(protocol, program, next[k])
          /\ out.leak # "none" => LeaksSomewhere(protocol, program, out.leak)
          /\ EndsSomewhere(protocol, program, out.ending)
      BY <1>1, <2>3, MetGoesOn
    <2>5. next \in Seq(PointsOf(program)) /\ current \in PointsOf(program)
      BY <1>1, <2>3, ContinuedPoints DEF Met
    <2> HIDE DEF x, current, out, next
    <2>6. \A n \in DOMAIN pending' : Met(protocol, program, pending'[n])
      <3>1. \A n \in DOMAIN (Front(pending) \o next) : Met(protocol, program, (Front(pending) \o next)[n])
        BY <2>1, <2>4, <2>5, MetOnBoth DEF ExploreInv, MetInv
      <3> QED
        BY <2>1, <3>1
    <2>7. \A q \in DOMAIN searched' : Met(protocol, program, [q EXCEPT !.state.failed = searched'[q]])
      <3> SUFFICES ASSUME NEW q \in DOMAIN searched'
                   PROVE  Met(protocol, program, [q EXCEPT !.state.failed = searched'[q]])
        OBVIOUS
      <3>1. [pointOf(current) EXCEPT !.state.failed = knownAt(current)] = current
        BY <2>5, PointParts
      <3>2. CASE q = pointOf(current)
        <4>1. searched'[q] = knownAt(current)
          BY <2>1, <3>2
        <4> QED
          BY <2>3, <3>1, <3>2, <4>1
      <3>3. CASE q # pointOf(current)
        <4>1. q \in DOMAIN searched /\ searched'[q] = searched[q]
          BY <2>1, <3>3
        <4> QED
          BY <4>1 DEF MetInv, asSearched
      <3> QED
        BY <3>2, <3>3
    <2>8. found' # "none" => LeaksSomewhere(protocol, program, found')
      BY <2>1, <2>4 DEF MetInv
    <2>9. \A ending \in ended' : EndsSomewhere(protocol, program, ending)
      BY <2>1, <2>4 DEF MetInv
    <2> QED
      BY <2>1, <2>6, <2>7, <2>8, <2>9
         DEF MetInv, asSearched
  <1>3. CASE Skip
    <2>1. /\ pending # << >> /\ pending' = Front(pending)
          /\ UNCHANGED <<program, protocol, searched, found, ended>>
      BY <1>3 DEF Skip, given
    <2>2. \A n \in DOMAIN Front(pending) : Met(protocol, program, Front(pending)[n])
      BY <2>1, FrontIsOfThem DEF MetInv, ExploreInv
    <2> QED
      BY <2>1, <2>2 DEF MetInv, asSearched
  <1>4. CASE Return \/ Walk \/ UNCHANGED vars
    <2>1. UNCHANGED <<program, protocol, pending, searched, found, ended>>
      BY <1>4 DEF Return, Walk, vars, given, work
    <2> QED
      BY <2>1 DEF MetInv, asSearched
  <1> QED
    BY <1>2, <1>3, <1>4 DEF Next

\* explore begins at a point every path starts from.
LEMMA MetBegins ==
    ASSUME Init, ExploreInv
    PROVE  MetInv
  <1>1. pending = <<Origin(program)>> /\ searched = << >> /\ found = "none" /\ ended = {}
    BY DEF Init, Begins
  <1> DEFINE start == Origin(program)
  <1>2. start \in reachedIn(protocol, program, 0)
    BY PathsGoOn
  <1>3. start \in PointsOf(program)
    BY <1>1 DEF ExploreInv
  <1>4. pending[1] = start /\ DOMAIN pending = {1} /\ DOMAIN searched = {}
    BY <1>1
  <1> HIDE DEF start
  <1>5. start \in ReachedAt(protocol, program, start)
    BY <1>2, <1>3 DEF ReachedAt
  <1>6. Met(protocol, program, start)
    BY <1>3, <1>5 DEF Met
  <1> QED
    BY <1>1, <1>4, <1>6 DEF MetInv

\* explore invents nothing: what it reports, some path of the function does,
\* although it may have searched a point knowing fewer failures than any path
\* that reaches it (flow.go, explore; success.go, proven.common).  The paths are
\* of any length: the hypothesis gives NothingInvented all of them to look at.
THEOREM ExploreInventsNothing == ASSUME Lengths = Nat PROVE Spec => []NothingInvented
  <1>1. Init => ExploreInv /\ MetInv
    BY ExploreBegins, MetBegins
  <1>2. ExploreInv /\ MetInv /\ [Next]_vars => ExploreInv' /\ MetInv'
    BY ExploreSteps, MetSteps
  <1>3. MetInv => NothingInvented
    BY DEF MetInv, NothingInvented, LeaksSomewhere, EndsSomewhere
  <1> QED
    BY <1>1, <1>2, <1>3, PTL DEF Spec

=============================================================================
