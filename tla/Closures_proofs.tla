--------------------------- MODULE Closures_proofs ---------------------------
(***************************************************************************)
(* What the searches of a deferred closure answer is so of every run of it, *)
(* whatever its blocks (src/paircheck/closure.go).                          *)
(*                                                                          *)
(* The invariant of a search: a point that was visited refuses nothing, and *)
(* those it continues into were visited or wait.  Once the search answers   *)
(* yes nothing waits, so the visited points are closed under the edges of   *)
(* the closure; and a run that has not called a satisfier stands at one.    *)
(* The instructions of a block are any number, so what they store is by     *)
(* induction on sets of numbers: SetInduction.                              *)
(***************************************************************************)
EXTENDS Closures, WellFoundedInduction, SequenceTheorems, TLAPS

\* The closure stores only failures into the error its function returns.
FaithfulStores == \A body \in Bodies : \A b \in DOMAIN body :
    \A n \in DOMAIN body[b].instrs :
        LET i == body[b].instrs[n]
        IN  i.op = "Store" /\ i.addr = Result => i.val \in Built

\* A body a run chooses from, its blocks and its points.
IsBody(body) ==
    /\ Len(body) \in Nat \ {0} /\ DOMAIN body = 1..Len(body)
    /\ \A b \in DOMAIN body : IsBlock(body[b], Len(body))

PointsHere == [block : DOMAIN blocks, failed : BOOLEAN]

\* What a sequence holds.
itemsOf(s) == {s[n] : n \in DOMAIN s}

waiting == itemsOf(pending)

\* A point that was visited refuses nothing, and goes on only to points that
\* were visited or wait.
Explored(point) ==
    /\ ~refuses(point)
    /\ ~covered(blocks[point.block]) /\ ~leaves(blocks[point.block]) =>
         \A position \in DOMAIN next(point) : next(point)[position] \in visited \union waiting

SearchInv ==
    /\ blocks \in Bodies /\ captures \in BOOLEAN /\ question \in {"every-path", "decides"}
    /\ pending \in Seq(PointsHere) /\ visited \subseteq PointsHere
    /\ answer \in {"none", "yes", "no"}
    /\ Point(1, FALSE) \in visited \union waiting
    /\ answer # "no" => \A point \in visited : Explored(point)
    /\ answer = "yes" => pending = << >>

\* A visited point stands for the run: what it knows to be a failure is one,
\* where the closure stores nothing else.
StandsFor(point) ==
    point.block = at /\ (FaithfulStores /\ point.failed => Result \in holds)

RunInv ==
    /\ at # 0 => answer = "yes" /\ at \in DOMAIN blocks
    /\ Built \subseteq holds
    /\ at # 0 /\ ~satisfied => \E point \in visited : StandsFor(point)
    /\ ended # "none" => at = 0
    /\ EveryPathSound

---------------------------------------------------------------------------
(* What the instructions of a block store.                                  *)

\* What holds of 0, and of the next number where it holds of one, holds of all.
LEMMA SetInduction ==
    ASSUME NEW S, 0 \in S, \A n \in Nat : n \in S => n + 1 \in S
    PROVE  Nat \subseteq S
  <1> DEFINE R == OpToRel(<, Nat)
             T == Nat \ S
  <1> SUFFICES ASSUME T # {} PROVE FALSE
    OBVIOUS
  <1>1. \A m, n \in Nat : m < n => <<m, n>> \in R
    BY DEF OpToRel
  <1>2. IsWellFoundedOn(R, Nat)
    BY NatLessThanWellFounded
  <1> HIDE DEF R
  <1>3. PICK n \in T : \A m \in T : <<m, n>> \notin R
    BY <1>2, WFMin
  <1>4. n # 0 /\ n \in Nat
    OBVIOUS
  <1>5. n - 1 \in Nat /\ n - 1 < n /\ (n - 1) + 1 = n
    BY <1>4
  <1>6. n - 1 \in T
    BY <1>4, <1>5
  <1> QED
    BY <1>1, <1>3, <1>4, <1>5, <1>6

\* What the first m instructions make of the names that hold an error.
IsTrace(errors, m, h, instrs) ==
    errors = [n \in 0..m |-> IF n = 0 THEN h ELSE afterOne(errors[n - 1], instrs[n])]

\* A trace starts as given, and each instruction stores after those before it.
LEMMA TraceSteps ==
    ASSUME NEW m \in Nat, NEW h, NEW instrs, NEW errors, IsTrace(errors, m, h, instrs)
    PROVE  /\ errors[0] = h
           /\ \A n \in 1..m : errors[n] = afterOne(errors[n - 1], instrs[n])
  <1>1. 0 \in 0..m /\ \A n \in 1..m : n \in 0..m /\ n # 0
    OBVIOUS
  <1> QED
    BY <1>1 DEF IsTrace

\* Any number of instructions have a trace.
LEMMA TraceExists ==
    ASSUME NEW h, NEW instrs
    PROVE  \A m \in Nat : \E errors : IsTrace(errors, m, h, instrs)
  <1> DEFINE S == {m \in Nat : \E errors : IsTrace(errors, m, h, instrs)}
  <1>1. 0 \in S
    <2> DEFINE errors == [n \in 0..0 |-> h]
    <2>1. IsTrace(errors, 0, h, instrs)
      BY DEF IsTrace
    <2> QED
      BY <2>1
  <1>2. ASSUME NEW m \in Nat, m \in S
        PROVE  m + 1 \in S
    <2>1. PICK before : IsTrace(before, m, h, instrs)
      BY <1>2
    <2> DEFINE errors == [n \in 0..(m + 1) |->
                            IF n = m + 1 THEN afterOne(before[m], instrs[m + 1])
                            ELSE before[n]]
    <2>2. errors[0] = h
      BY <2>1 DEF IsTrace
    <2>3. ASSUME NEW n \in 0..(m + 1), n # 0
          PROVE  errors[n] = afterOne(errors[n - 1], instrs[n])
      BY <2>1, <2>3 DEF IsTrace
    <2>4. errors = [n \in 0..(m + 1) |-> errors[n]]
      OBVIOUS
    <2> HIDE DEF errors
    <2>5. IsTrace(errors, m + 1, h, instrs)
      BY <2>2, <2>3, <2>4 DEF IsTrace
    <2> QED
      BY <2>5
  <1> HIDE DEF S
  <1>3. Nat \subseteq S
    BY <1>1, <1>2, SetInduction
  <1> QED
    BY <1>3 DEF S

\* afterEach is the trace of its instructions.
LEMMA AfterEachIsTrace ==
    ASSUME NEW h, NEW instrs, Len(instrs) \in Nat
    PROVE  IsTrace(afterEach(h, instrs), Len(instrs), h, instrs)
  <1>1. \E errors : IsTrace(errors, Len(instrs), h, instrs)
    BY TraceExists
  <1> QED
    BY <1>1 DEF IsTrace, afterEach

\* A global error is stored into by no block.
LEMMA BuiltStays ==
    ASSUME NEW h, NEW i \in Instruction, Built \subseteq h
    PROVE  Built \subseteq afterOne(h, i)
  <1>1. i.op = "Store" => i.addr \in Variable
    BY DEF Instruction
  <1>2. Built \intersect Variable = {}
    BY NamesAssumption
  <1> QED
    BY <1>1, <1>2 DEF afterOne

\* The blocks of a closure keep the errors that are built, and, where it stores
\* only failures into the error its function returns, that error a failure.
LEMMA HeldKeeps ==
    ASSUME NEW instrs \in Seq(Instruction), NEW h, Built \subseteq h
    PROVE  /\ Built \subseteq afterEach(h, instrs)[Len(instrs)]
           /\ (\A n \in DOMAIN instrs :
                 instrs[n].op = "Store" /\ instrs[n].addr = Result => instrs[n].val \in Built) =>
              (Result \in h => Result \in afterEach(h, instrs)[Len(instrs)])
  <1> DEFINE errors == afterEach(h, instrs)
             faithful == \A n \in DOMAIN instrs :
                 instrs[n].op = "Store" /\ instrs[n].addr = Result => instrs[n].val \in Built
             S == {n \in Nat : n <= Len(instrs) =>
                     /\ Built \subseteq errors[n]
                     /\ faithful /\ Result \in h => Result \in errors[n]}
  <1>1. /\ Len(instrs) \in Nat /\ DOMAIN instrs = 1..Len(instrs)
        /\ \A n \in 1..Len(instrs) : instrs[n] \in Instruction
    OBVIOUS
  <1>2. /\ errors[0] = h
        /\ \A n \in 1..Len(instrs) : errors[n] = afterOne(errors[n - 1], instrs[n])
    <2>1. IsTrace(errors, Len(instrs), h, instrs)
      BY <1>1, AfterEachIsTrace
    <2> QED
      BY <1>1, <2>1, TraceSteps
  <1> HIDE DEF errors, faithful
  <1>3. 0 \in S
    BY <1>2
  <1>4. ASSUME NEW n \in Nat, n \in S
        PROVE  n + 1 \in S
    <2> SUFFICES ASSUME n + 1 <= Len(instrs)
                 PROVE  /\ Built \subseteq errors[n + 1]
                        /\ faithful /\ Result \in h => Result \in errors[n + 1]
      OBVIOUS
    <2>1. /\ Built \subseteq errors[n] /\ (faithful /\ Result \in h => Result \in errors[n])
          /\ n + 1 \in 1..Len(instrs) /\ (n + 1) - 1 = n
      BY <1>1, <1>4
    <2>2. errors[n + 1] = afterOne(errors[n], instrs[n + 1])
      BY <1>2, <2>1
    <2>3. Built \subseteq errors[n + 1]
      BY <1>1, <2>1, <2>2, BuiltStays
    <2>4. ASSUME faithful, Result \in h
          PROVE  Result \in errors[n + 1]
      <3>1. /\ instrs[n + 1].op = "Store" /\ instrs[n + 1].addr = Result =>
                 instrs[n + 1].val \in errors[n]
            /\ Result \in errors[n]
        BY <1>1, <2>1, <2>4 DEF faithful
      <3> QED
        BY <2>2, <3>1 DEF afterOne
    <2> QED
      BY <2>3, <2>4
  <1> HIDE DEF S
  <1>5. Len(instrs) \in S
    BY <1>1, <1>3, <1>4, SetInduction
  <1> QED
    BY <1>1, <1>5 DEF S, errors, faithful

---------------------------------------------------------------------------
(* The search.                                                              *)

\* A body a run chooses from is one, and its blocks are blocks.
LEMMA BodyParts ==
    ASSUME blocks \in Bodies
    PROVE  /\ IsBody(blocks) /\ 1 \in DOMAIN blocks
           /\ \A b \in DOMAIN blocks :
                /\ blocks[b].instrs \in Seq(Instruction)
                /\ blocks[b].succs \in Seq(DOMAIN blocks)
                /\ blocks[b].cond \in Condition \union {None}
                /\ blocks[b].cond # None => DOMAIN blocks[b].succs = {1, 2}
  <1>1. IsBody(blocks)
    BY ClosuresAssumption DEF IsBody
  <1>2. 1 \in DOMAIN blocks
    BY <1>1 DEF IsBody
  <1>3. \A b \in DOMAIN blocks : IsBlock(blocks[b], Len(blocks)) /\ DOMAIN blocks = 1..Len(blocks)
    BY <1>1 DEF IsBody
  <1>4. \A b \in DOMAIN blocks : blocks[b].cond # None => DOMAIN blocks[b].succs = {1, 2}
    BY <1>3 DEF IsBlock
  <1> QED
    BY <1>1, <1>2, <1>3, <1>4 DEF IsBlock

\* What a point continues into are points, and as many as its block has
\* successors.
LEMMA NextParts ==
    ASSUME blocks \in Bodies, captures \in BOOLEAN, NEW point \in PointsHere
    PROVE  /\ next(point) \in Seq(PointsHere)
           /\ DOMAIN next(point) = DOMAIN blocks[point.block].succs
           /\ \A position \in DOMAIN next(point) :
                next(point)[position] =
                  Point(blocks[point.block].succs[position],
                        failsAlong(blocks[point.block], position, point.failed))
  <1> DEFINE b == blocks[point.block]
             entered(position) == Point(b.succs[position], failsAlong(b, position, point.failed))
  <1>1. b.succs \in Seq(DOMAIN blocks) /\ point.failed \in BOOLEAN
    BY BodyParts DEF PointsHere
  <1>2. ASSUME NEW position \in DOMAIN b.succs
        PROVE  entered(position) \in PointsHere
    <2>1. b.succs[position] \in DOMAIN blocks
      BY <1>1
    <2>2. (failsAlong(b, position, point.failed) /\ question = "decides") \in BOOLEAN
      OBVIOUS
    <2> QED
      BY <2>1, <2>2 DEF Point, PointsHere
  <1>3. next(point) = [position \in DOMAIN b.succs |-> entered(position)]
    BY DEF next
  <1> HIDE DEF b, entered
  <1>4. DOMAIN b.succs = 1..Len(b.succs) /\ Len(b.succs) \in Nat
    BY <1>1
  <1>5. next(point) \in Seq(PointsHere)
    BY <1>2, <1>3, <1>4
  <1> QED
    BY <1>3, <1>5 DEF b, entered

\* What waits is the last point and the rest.
LEMMA RestWaits ==
    ASSUME pending \in Seq(PointsHere), pending # << >>
    PROVE  /\ Last(pending) \in PointsHere /\ Front(pending) \in Seq(PointsHere)
           /\ waiting = itemsOf(Front(pending)) \union {Last(pending)}
  <1> DEFINE len == Len(pending)
  <1>1. len \in Nat \ {0} /\ DOMAIN pending = 1..len /\ len - 1 \in Nat
    BY EmptySeq
  <1>2. Last(pending) = pending[len]
    BY DEF Last
  <1>3. /\ Front(pending) \in Seq(PointsHere) /\ Len(Front(pending)) = len - 1
        /\ \A n \in 1..(len - 1) : Front(pending)[n] = pending[n]
    <2>1. \A n \in 1..(len - 1) : pending[n] \in PointsHere
      BY <1>1
    <2> QED
      BY <1>1, <2>1, SubSeqProperties DEF Front
  <1>4. DOMAIN Front(pending) = 1..(len - 1) /\ 1..len = 1..(len - 1) \union {len}
    BY <1>1, <1>3
  <1> QED
    BY <1>1, <1>2, <1>3, <1>4 DEF waiting, itemsOf

\* What one sequence holds after another, and what each holds.
LEMMA ConcatenationParts ==
    ASSUME NEW S, NEW s \in Seq(S), NEW t \in Seq(S)
    PROVE  /\ s \o t \in Seq(S)
           /\ itemsOf(s \o t) = itemsOf(s) \union itemsOf(t)
  <1>1. /\ DOMAIN s = 1..Len(s) /\ DOMAIN t = 1..Len(t) /\ Len(s) \in Nat /\ Len(t) \in Nat
        /\ DOMAIN (s \o t) = 1..(Len(s) + Len(t))
    OBVIOUS
  <1>2. \A n \in 1..Len(s) : n \in DOMAIN (s \o t) /\ (s \o t)[n] = s[n]
    BY <1>1
  <1>3. \A k \in 1..Len(t) : Len(s) + k \in DOMAIN (s \o t) /\ (s \o t)[Len(s) + k] = t[k]
    BY <1>1
  <1>4. ASSUME NEW n \in DOMAIN (s \o t)
        PROVE  \/ \E m \in DOMAIN s : (s \o t)[n] = s[m]
               \/ \E k \in DOMAIN t : (s \o t)[n] = t[k]
    <2>1. CASE n <= Len(s)
      BY <1>1, <1>2, <2>1
    <2>2. CASE n > Len(s)
      <3>1. n - Len(s) \in 1..Len(t) /\ Len(s) + (n - Len(s)) = n
        BY <1>1, <2>2
      <3> QED
        BY <1>1, <1>3, <3>1
    <2> QED
      BY <1>1, <2>1, <2>2
  <1> DEFINE u == s \o t
  <1>5. itemsOf(u) = itemsOf(s) \union itemsOf(t)
    <2> HIDE DEF u
    <2>1. \A n \in DOMAIN u : u[n] \in itemsOf(s) \union itemsOf(t)
      BY <1>4 DEF itemsOf, u
    <2>2. \A n \in DOMAIN s : s[n] \in itemsOf(u)
      BY <1>1, <1>2 DEF itemsOf, u
    <2>3. \A n \in DOMAIN t : t[n] \in itemsOf(u)
      BY <1>1, <1>3 DEF itemsOf, u
    <2> QED
      BY <2>1, <2>2, <2>3 DEF itemsOf
  <1>6. s \o t \in Seq(S)
    OBVIOUS
  <1> QED
    BY <1>5, <1>6

\* What the search is given, and what is said of one point, does not change.
LEMMA GivenKept ==
    ASSUME UNCHANGED asked
    PROVE  /\ blocks' = blocks /\ captures' = captures /\ question' = question
           /\ PointsHere' = PointsHere /\ Point(1, FALSE)' = Point(1, FALSE)
           /\ \A point : /\ refuses(point)' = refuses(point)
                         /\ next(point)' = next(point)
  <1>1. /\ blocks' = blocks /\ captures' = captures /\ question' = question
        /\ PointsHere' = PointsHere
    BY DEF asked, PointsHere
  <1>2. \A block, failed : Point(block, failed)' = Point(block, failed)
    BY <1>1 DEF Point
  <1>3. ASSUME NEW point
        PROVE  refuses(point)' = refuses(point)
    BY <1>1 DEF refuses
  <1>4. ASSUME NEW point
        PROVE  next(point)' = next(point)
    BY <1>1 DEF next, Point, failsAlong
  <1> QED
    BY <1>1, <1>2, <1>3, <1>4

\* A point visited before is dropped.
LEMMA AgainSearches ==
    ASSUME SearchInv, Again
    PROVE  SearchInv'
  <1> DEFINE rest == itemsOf(Front(pending))
  <1>1. /\ answer = "none" /\ pending # << >> /\ Last(pending) \in visited
        /\ pending' = Front(pending) /\ visited' = visited /\ answer' = answer
        /\ UNCHANGED asked
    BY DEF Again
  <1>2. Front(pending) \in Seq(PointsHere) /\ waiting = rest \union {Last(pending)}
    BY <1>1, RestWaits DEF SearchInv
  <1>3. waiting' = rest
    BY <1>1 DEF waiting
  <1>4. visited' \union waiting' = visited \union waiting
    BY <1>1, <1>2, <1>3
  <1> HIDE DEF rest
  <1>5. \A point \in visited' : Explored(point)'
    <2>1. \A point \in visited : Explored(point)
      BY <1>1 DEF SearchInv
    <2> QED
      BY <1>1, <1>4, <2>1, GivenKept DEF Explored
  <1> QED
    BY <1>1, <1>2, <1>4, <1>5, GivenKept DEF SearchInv

\* A point is visited: it refuses, or what it continues into waits.
LEMMA VisitSearches ==
    ASSUME SearchInv, Visit
    PROVE  SearchInv'
  <1> DEFINE point == Last(pending)
             b == blocks[point.block]
             more == IF covered(b) \/ leaves(b) THEN << >> ELSE next(point)
             rest == itemsOf(Front(pending))
             added == itemsOf(more)
  <1>1. /\ answer = "none" /\ pending # << >>
        /\ visited' = visited \union {point}
        /\ answer' = IF refuses(point) THEN "no" ELSE "none"
        /\ pending' = Front(pending) \o more
        /\ UNCHANGED asked
    BY DEF Visit
  <1>2. /\ point \in PointsHere /\ Front(pending) \in Seq(PointsHere)
        /\ waiting = rest \union {point}
    BY <1>1, RestWaits DEF SearchInv
  <1>3. more \in Seq(PointsHere)
    BY <1>2, NextParts DEF SearchInv
  <1> HIDE DEF point, more
  <1>4. pending' \in Seq(PointsHere) /\ waiting' = rest \union added
    <2>1. /\ Front(pending) \o more \in Seq(PointsHere)
          /\ itemsOf(Front(pending) \o more) = rest \union added
      BY <1>2, <1>3, ConcatenationParts
    <2> QED
      BY <1>1, <2>1 DEF waiting
  <1>5. visited \union waiting \subseteq visited' \union waiting'
    BY <1>1, <1>2, <1>4
  <1>6. ASSUME answer' # "no", NEW old \in visited'
        PROVE  Explored(old)'
    <2>1. ~refuses(point) /\ \A x \in visited : Explored(x)
      BY <1>1, <1>6 DEF SearchInv
    <2>2. CASE old \in visited
      <3>1. Explored(old)
        BY <2>1, <2>2
      <3> QED
        BY <1>1, <1>5, <3>1, GivenKept DEF Explored
    <2>3. CASE old = point
      <3>1. ~covered(b) /\ ~leaves(b) => more = next(old)
        BY <2>3 DEF more, point
      <3>2. ~covered(b) /\ ~leaves(b) =>
              \A position \in DOMAIN next(old) : next(old)[position] \in waiting'
        BY <1>4, <3>1 DEF itemsOf
      <3> QED
        BY <1>1, <2>1, <2>3, <3>2, GivenKept DEF Explored
    <2> QED
      BY <1>1, <2>2, <2>3
  <1>7. visited' \subseteq PointsHere
    BY <1>1, <1>2 DEF SearchInv
  <1>8. Point(1, FALSE) \in visited' \union waiting'
    BY <1>5 DEF SearchInv
  <1>9. answer' \in {"none", "no"}
    BY <1>1
  <1> HIDE DEF rest, added, b
  <1> QED
    BY <1>1, <1>4, <1>6, <1>7, <1>8, <1>9, GivenKept DEF SearchInv

\* The search answers, or the closure runs: nothing visited or waiting changes.
LEMMA SearchRests ==
    ASSUME SearchInv, UNCHANGED <<asked, pending, visited>>,
           answer' = answer \/ (answer = "none" /\ pending = << >> /\ answer' = "yes")
    PROVE  SearchInv'
  <1>1. waiting' = waiting
    BY DEF waiting
  <1>2. ASSUME answer' # "no", NEW point \in visited
        PROVE  Explored(point)'
    <2>1. Explored(point)
      BY <1>2 DEF SearchInv
    <2> QED
      BY <1>1, <2>1, GivenKept DEF Explored
  <1> QED
    BY <1>1, <1>2, GivenKept DEF SearchInv

---------------------------------------------------------------------------
(* The run.                                                                 *)

\* Where a block goes on to a check it takes for a failure, the error its
\* function returns is one, if the closure stores only failures into it.
LEMMA FailsAlongHolds ==
    ASSUME Built \subseteq holds, blocks \in Bodies, NEW point \in PointsHere,
           StandsFor(point), NEW position \in Taken(blocks[point.block]),
           FaithfulStores, failsAlong(blocks[point.block], position, point.failed)
    PROVE  Result \in held(blocks[point.block])
  <1> DEFINE b == blocks[point.block]
  <1>1. /\ point.block \in DOMAIN blocks /\ point.failed \in BOOLEAN
        /\ b.instrs \in Seq(Instruction) /\ b.cond \in Condition \union {None}
        /\ b.cond # None => DOMAIN b.succs = {1, 2}
    BY BodyParts DEF PointsHere
  <1>2. \A n \in DOMAIN b.instrs :
          b.instrs[n].op = "Store" /\ b.instrs[n].addr = Result => b.instrs[n].val \in Built
    BY <1>1 DEF FaithfulStores
  <1>3. point.failed => Result \in held(b)
    <2>1. point.failed => Result \in holds
      BY DEF StandsFor
    <2> QED
      BY <1>1, <1>2, <2>1, HeldKeeps DEF held
  <1> HIDE DEF b
  <1>4. CASE ~captures \/ b.cond = None \/ b.cond.kind = "other" \/ b.cond.of # Result
    BY <1>3, <1>4 DEF failsAlong, b
  <1>5. CASE b.cond # None /\ b.cond.kind # "other" /\ b.cond.of = Result /\ position = failing(b.cond)
    <2>1. failing(b.cond) # 3 - failing(b.cond)
      BY DEF failing
    <2> QED
      BY <1>1, <1>5, <2>1 DEF Taken, b
  <1>6. CASE b.cond # None /\ b.cond.kind # "other" /\ b.cond.of = Result /\ position # failing(b.cond)
    BY <1>3, <1>6 DEF failsAlong, b
  <1> QED
    BY <1>4, <1>5, <1>6

\* A point is of its block, and its error a failure only where it was said so.
LEMMA EnteredParts ==
    ASSUME NEW block, NEW failed
    PROVE  Point(block, failed).block = block /\ (Point(block, failed).failed => failed)
  BY Zenon DEF Point

\* A block that runs calls a satisfier, or leaves or goes on as the point that
\* stands for it does.
LEMMA RunKeeps ==
    ASSUME SearchInv, RunInv, FaithfulStores => DecidesSound, Run
    PROVE  RunInv' /\ (FaithfulStores => DecidesSound')
  <1> DEFINE b == blocks[at]
  <1>1. /\ at # 0 /\ answer = "yes" /\ at \in DOMAIN blocks /\ ended = "none"
        /\ blocks \in Bodies /\ captures \in BOOLEAN /\ pending = << >>
        /\ visited \subseteq PointsHere
        /\ Built \subseteq holds
    BY DEF Run, RunInv, SearchInv
  <1>2. /\ holds' = held(b) /\ satisfied' = (satisfied \/ covered(b))
        /\ IF leaves(b)
           THEN at' = 0 /\ ended' = IF panics(b) THEN "panicked" ELSE "returned"
           ELSE (\E position \in Taken(b) : at' = b.succs[position]) /\ ended' = ended
        /\ UNCHANGED <<asked, work>>
    BY DEF Run
  <1>3. visited' = visited /\ blocks' = blocks /\ answer' = answer /\ question' = question
    BY <1>2 DEF work, asked
  <1>4. /\ b.instrs \in Seq(Instruction) /\ b.succs \in Seq(DOMAIN blocks)
        /\ Taken(b) \subseteq DOMAIN b.succs
    <2>1. /\ b.instrs \in Seq(Instruction) /\ b.succs \in Seq(DOMAIN blocks)
          /\ b.cond # None => DOMAIN b.succs = {1, 2}
      BY <1>1, BodyParts
    <2>2. failing(b.cond) \in {1, 2} /\ 3 - failing(b.cond) \in {1, 2}
      BY DEF failing
    <2> QED
      BY <2>1, <2>2 DEF Taken
  <1>5. Built \subseteq holds'
    BY <1>1, <1>2, <1>4, HeldKeeps DEF held
  <1>6. CASE satisfied'
    <2>1. at' # 0 => at' \in DOMAIN blocks
      BY <1>2, <1>4
    <2> QED
      BY <1>1, <1>2, <1>3, <1>5, <1>6, <2>1 DEF RunInv, EveryPathSound, DecidesSound
  <1>7. CASE ~satisfied'
    <2>1. ~satisfied /\ ~covered(b)
      BY <1>2, <1>7
    <2>2. PICK point \in visited : StandsFor(point)
      BY <1>1, <2>1 DEF RunInv
    <2>3. /\ point.block = at /\ point \in PointsHere /\ point.failed \in BOOLEAN
          /\ Explored(point) /\ b = blocks[point.block]
      BY <1>1, <2>2 DEF StandsFor, SearchInv, PointsHere
    <2>4. CASE leaves(b)
      <3>1. question = "decides" /\ (panics(b) \/ point.failed)
        BY <2>1, <2>3, <2>4 DEF Explored, refuses
      <3>2. FaithfulStores /\ point.failed => Result \in held(b)
        <4>1. FaithfulStores => \A n \in DOMAIN b.instrs :
                b.instrs[n].op = "Store" /\ b.instrs[n].addr = Result => b.instrs[n].val \in Built
          BY <1>1 DEF FaithfulStores
        <4>2. FaithfulStores /\ point.failed => Result \in holds
          BY <2>2 DEF StandsFor
        <4> QED
          BY <1>1, <1>4, <4>1, <4>2, HeldKeeps DEF held
      <3>3. FaithfulStores /\ ~panics(b) => Result \in holds'
        BY <1>2, <3>1, <3>2
      <3>4. at' = 0 /\ ended' = IF panics(b) THEN "panicked" ELSE "returned"
        BY <1>2, <2>4
      <3>5. RunInv'
        BY <1>3, <1>5, <3>1, <3>4 DEF RunInv, EveryPathSound
      <3>6. FaithfulStores => DecidesSound'
        BY <3>3, <3>4 DEF DecidesSound
      <3> QED
        BY <3>5, <3>6
    <2>5. CASE ~leaves(b)
      <3>1. PICK position \in Taken(b) : at' = b.succs[position]
        BY <1>2, <2>5
      <3>. PICK reached : reached = next(point)[position]
        OBVIOUS
      <3>2. /\ position \in DOMAIN next(point) /\ reached = next(point)[position]
            /\ reached = Point(b.succs[position], failsAlong(b, position, point.failed))
        BY <1>1, <1>4, <2>3, NextParts
      <3>3. reached \in visited
        <4>1. waiting = {}
          BY <1>1 DEF waiting, itemsOf
        <4> QED
          BY <2>1, <2>3, <2>5, <3>2, <4>1 DEF Explored
      <3>4. /\ reached.block = at'
            /\ reached.failed => failsAlong(b, position, point.failed)
        BY <3>1, <3>2, EnteredParts
      <3>5. FaithfulStores /\ reached.failed => Result \in holds'
        BY <1>1, <1>2, <2>2, <2>3, <3>4, FailsAlongHolds
      <3>6. StandsFor(reached)'
        BY <3>4, <3>5 DEF StandsFor
      <3>7. at' \in DOMAIN blocks /\ ended' = "none"
        BY <1>1, <1>2, <1>4, <2>5, <3>1
      <3> QED
        BY <1>1, <1>3, <1>5, <3>3, <3>6, <3>7 DEF RunInv, EveryPathSound, DecidesSound
    <2> QED
      BY <2>4, <2>5
  <1> QED
    BY <1>6, <1>7

\* The run begins at the block the search began at.
LEMMA EnterKeeps ==
    ASSUME SearchInv, RunInv, FaithfulStores => DecidesSound, Enter
    PROVE  RunInv' /\ (FaithfulStores => DecidesSound')
  <1>1. /\ answer = "yes" /\ at' = 1 /\ ended = "none" /\ answer' = answer
        /\ blocks' = blocks /\ visited' = visited /\ question' = question
        /\ holds' = holds /\ satisfied' = satisfied /\ ended' = ended
    BY DEF Enter, asked, work
  <1>2. Point(1, FALSE) \in visited /\ 1 \in DOMAIN blocks
    <2>1. waiting = {}
      BY <1>1 DEF SearchInv, waiting, itemsOf
    <2> QED
      BY <2>1, BodyParts DEF SearchInv
  <1>3. StandsFor(Point(1, FALSE))'
    BY <1>1 DEF StandsFor, Point
  <1>4. Point(1, FALSE)' = Point(1, FALSE)
    BY <1>1 DEF Point
  <1> QED
    BY <1>1, <1>2, <1>3, <1>4 DEF RunInv, EveryPathSound, DecidesSound

\* While the search goes on the closure does not run.
LEMMA SearchRunsNothing ==
    ASSUME RunInv, FaithfulStores => DecidesSound, answer # "yes",
           UNCHANGED <<asked, running>>
    PROVE  RunInv' /\ (FaithfulStores => DecidesSound')
  <1>1. /\ at' = at /\ holds' = holds /\ satisfied' = satisfied /\ ended' = ended
        /\ question' = question
    BY DEF asked, running
  <1>2. at = 0
    BY DEF RunInv
  <1> QED
    BY <1>1, <1>2 DEF RunInv, EveryPathSound, DecidesSound

---------------------------------------------------------------------------
\* What the search and the run keep.
LEMMA ClosuresInvHolds ==
    Spec => [](SearchInv /\ RunInv /\ (FaithfulStores => DecidesSound))
  <1> DEFINE Inv == SearchInv /\ RunInv /\ (FaithfulStores => DecidesSound)
  <1>1. Init => Inv
    <2> SUFFICES ASSUME Init PROVE Inv
      OBVIOUS
    <2>1. /\ blocks \in Bodies /\ captures \in BOOLEAN
          /\ question \in {"every-path", "decides"} /\ pending = <<Point(1, FALSE)>>
          /\ visited = {} /\ answer = "none" /\ at = 0 /\ ended = "none"
          /\ Built \subseteq holds
      BY DEF Init
    <2>2. Point(1, FALSE) \in PointsHere
      BY <2>1, BodyParts DEF Point, PointsHere
    <2>3. pending \in Seq(PointsHere) /\ waiting = {Point(1, FALSE)}
      <3>1. \A x \in PointsHere : <<x>> \in Seq(PointsHere) /\ itemsOf(<<x>>) = {x}
        BY DEF itemsOf
      <3> QED
        BY <2>1, <2>2, <3>1 DEF waiting
    <2>4. SearchInv
      BY <2>1, <2>3 DEF SearchInv
    <2>5. RunInv /\ DecidesSound
      BY <2>1 DEF RunInv, EveryPathSound, DecidesSound
    <2> QED
      BY <2>4, <2>5
  <1>2. Inv /\ [Next]_vars => Inv'
    <2> SUFFICES ASSUME Inv, [Next]_vars PROVE Inv'
      OBVIOUS
    <2>1. CASE Again
      BY <2>1, AgainSearches, SearchRunsNothing DEF Again
    <2>2. CASE Visit
      BY <2>2, VisitSearches, SearchRunsNothing DEF Visit
    <2>3. CASE Return
      BY <2>3, SearchRests, SearchRunsNothing DEF Return
    <2>4. CASE Enter
      <3>1. SearchInv'
        BY <2>4, SearchRests DEF Enter, work
      <3> QED
        BY <2>4, <3>1, EnterKeeps
    <2>5. CASE Run
      <3>1. SearchInv'
        BY <2>5, SearchRests DEF Run, work
      <3> QED
        BY <2>5, <3>1, RunKeeps
    <2>6. CASE UNCHANGED vars
      <3>1. SearchInv'
        BY <2>6, SearchRests DEF vars, work
      <3>2. RunInv' /\ (FaithfulStores => DecidesSound')
        BY <2>6 DEF vars, asked, work, running, RunInv, StandsFor, EveryPathSound, DecidesSound
      <3> QED
        BY <3>1, <3>2
    <2> QED
      BY <2>1, <2>2, <2>3, <2>4, <2>5, <2>6 DEF Next
  <1> QED
    BY <1>1, <1>2, PTL DEF Spec

\* A closure that covers every path calls a satisfier whenever it ends, by a
\* panic too, whatever its blocks and loops and what it stores (closure.go,
\* coversEveryPath).
THEOREM CoveredClosuresSatisfy == Spec => []EveryPathSound
  <1>1. RunInv => EveryPathSound
    BY DEF RunInv
  <1> QED
    BY <1>1, ClosuresInvHolds, PTL

\* A closure that decides, and stores only failures into the error its function
\* returns, calls a satisfier whenever that function then returns no failure,
\* whatever its blocks and loops (closure.go, decides).  One that may store nil
\* there need not: decides forgets no failure where the closure stores.
THEOREM DecidingClosuresSatisfy ==
    ASSUME FaithfulStores
    PROVE  Spec => []DecidesSound
  <1>1. SearchInv /\ RunInv /\ (FaithfulStores => DecidesSound) => DecidesSound
    OBVIOUS
  <1> QED
    BY <1>1, ClosuresInvHolds, PTL

===============================================================================
