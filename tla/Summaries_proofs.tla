--------------------------- MODULE Summaries_proofs ---------------------------
(***************************************************************************)
(* What is recorded of a function is so of every call of it, and what is    *)
(* recorded early is right once everything is known                         *)
(* (src/paircheck/summary.go).                                              *)
(*                                                                          *)
(* What a path does with the value is told of each of its acts: one that    *)
(* settles it, one that spares it.  A path that is read to discharge has an *)
(* act that settles, and a run of it does not return before the act is      *)
(* done; a path that is read to keep only spares, up to a panic.  Where     *)
(* every call of a function not known yet hands the value over, knowing     *)
(* more changes nothing of a path that was read to end another way, and so  *)
(* nothing that was recorded.                                               *)
(***************************************************************************)
EXTENDS Summaries, WellFoundedInduction, SequenceTheorems, TLAPS

\* What may be recorded of a function.
Recorded == {"none", "discharged", "kept"}

\* An act that settles the value if it is done, or that nothing returns from.
Settles(known, act) ==
    \/ act.do \in {"pay", "deferPay", "panic"}
    \/ act.do \in {"call", "defer"} /\ known[act.callee] = "discharged"

SettlesIn(known, acts) == \E n \in DOMAIN acts : Settles(known, acts[n])

Owes(known, frame) == SettlesIn(known, frame.todo) \/ SettlesIn(known, frame.later)

\* An act that leaves the value as it is.
Spares(known, act) ==
    \/ act.do = "nothing"
    \/ act.do \in {"call", "defer"} /\ known[act.callee] = "kept"

SparesIn(known, acts) == \A n \in DOMAIN acts : Spares(known, acts[n])

\* Acts that panic before they do anything to the value: what they defer is
\* never run.
Doomed(known, acts) == \E m \in DOMAIN acts :
    /\ acts[m].do = "panic"
    /\ \A n \in 1..(m - 1) : Spares(known, acts[n]) \/ acts[n].do \in {"deferPay", "defer"}

Quiet(known, frame) ==
    \/ Doomed(known, frame.todo)
    \/ SparesIn(known, frame.todo) /\ SparesIn(known, frame.later)

\* What learning keeps: a function recorded to discharge has an act that settles
\* on every path; and what is recorded is what would be recorded now.
LearnInv ==
    /\ package \in Packages
    /\ entry \in [Function -> Recorded]
    /\ reading \in 1..(N + 1) /\ learned \in BOOLEAN
    /\ phase \in {"learning", "learned", "running", "returned", "panicked"}
    /\ \A f \in Function : entry[f] = "discharged" =>
         \A path \in package.body[f] : SettlesIn(entry, path)
    /\ HandsOver => \A f \in Function :
         entry[f] # "none" => entry[f] = recorded(package, entry, f)
    /\ HandsOver /\ ~learned => \A f \in 1..(reading - 1) :
         entry[f] = recorded(package, entry, f)
    /\ phase # "learning" => reading = N + 1 /\ ~learned

\* A deferred call, as the frame keeps it.
Later == [do : {"pay"}] \union [do : {"call"}, callee : Function]

FrameSet == [todo : Seq(Act), later : Seq(Later)]

\* What a run keeps: as long as a run of a function recorded to discharge has not
\* settled the value, one of its frames has yet to do an act that settles it;
\* and one of a function recorded to keep it only has frames that spare it.
RunInv ==
    /\ root \in Function /\ stack \in Seq(FrameSet)
    /\ phase = "running" => stack # << >>
    /\ phase \in {"learning", "learned"} => ~settled /\ ~left
    /\ phase = "running" /\ entry[root] = "discharged" =>
         settled \/ \E n \in DOMAIN stack : Owes(entry, stack[n])
    /\ DischargedSound
    /\ HandsOver /\ phase \in {"running", "returned"} /\ entry[root] = "kept" =>
         /\ ~settled /\ ~left
         /\ \A n \in DOMAIN stack : Quiet(entry, stack[n])

---------------------------------------------------------------------------
(* What instructions make of a state, one after the other.                  *)

\* What holds of 0, and of the next number where it holds of one, holds of all.
LEMMA SetInduction ==
    ASSUME NEW S, 0 \in S, \A n \in Nat : n \in S => n + 1 \in S
    PROVE  Nat \subseteq S
  <1> DEFINE R == OpToRel(<, Nat)
             T == Nat \ S
  <1> SUFFICES ASSUME T # {} PROVE FALSE
    OBVIOUS
  <1>1. \A m, n \in Nat : m < n => <<m, n>> \in R
    BY DEF OpToRel
  <1>2. IsWellFoundedOn(R, Nat)
    BY NatLessThanWellFounded
  <1> HIDE DEF R
  <1>3. PICK n \in T : \A m \in T : <<m, n>> \notin R
    BY <1>2, WFMin
  <1>4. n # 0 /\ n \in Nat
    OBVIOUS
  <1>5. n - 1 \in Nat /\ n - 1 < n /\ (n - 1) + 1 = n
    BY <1>4
  <1>6. n - 1 \in T
    BY <1>4, <1>5
  <1> QED
    BY <1>1, <1>3, <1>4, <1>5, <1>6

\* What an instruction makes of what those before it made.
continuing(p, before, i) == IF before.goes THEN step(p, before.state, i) ELSE before

\* What the first m instructions make of a state.
IsRun(out, m, p, s, instrs) ==
    out = [n \in 0..m |-> IF n = 0 THEN Goes(s) ELSE continuing(p, out[n - 1], instrs[n])]

\* A run starts as given, and each instruction continues what those before it made.
LEMMA RunSteps ==
    ASSUME NEW m \in Nat, NEW p, NEW s, NEW instrs, NEW out, IsRun(out, m, p, s, instrs)
    PROVE  /\ out[0] = Goes(s)
           /\ \A n \in 1..m : out[n] = continuing(p, out[n - 1], instrs[n])
  <1>1. 0 \in 0..m /\ \A n \in 1..m : n \in 0..m /\ n # 0
    OBVIOUS
  <1> QED
    BY <1>1 DEF IsRun

\* Any number of instructions make something of a state.
LEMMA RunExists ==
    ASSUME NEW p, NEW s, NEW instrs
    PROVE  \A m \in Nat : \E out : IsRun(out, m, p, s, instrs)
  <1> DEFINE S == {m \in Nat : \E out : IsRun(out, m, p, s, instrs)}
  <1>1. 0 \in S
    <2> DEFINE out == [n \in 0..0 |-> Goes(s)]
    <2>1. IsRun(out, 0, p, s, instrs)
      BY DEF IsRun
    <2> QED
      BY <2>1
  <1>2. ASSUME NEW m \in Nat, m \in S
        PROVE  m + 1 \in S
    <2>1. PICK before : IsRun(before, m, p, s, instrs)
      BY <1>2
    <2> DEFINE out == [n \in 0..(m + 1) |->
                         IF n = m + 1 THEN continuing(p, before[m], instrs[m + 1])
                         ELSE before[n]]
    <2>2. out[0] = Goes(s)
      BY <2>1 DEF IsRun
    <2>3. ASSUME NEW n \in 0..(m + 1), n # 0
          PROVE  out[n] = continuing(p, out[n - 1], instrs[n])
      BY <2>1, <2>3 DEF IsRun
    <2>4. out = [n \in 0..(m + 1) |-> out[n]]
      OBVIOUS
    <2> HIDE DEF out
    <2>5. IsRun(out, m + 1, p, s, instrs)
      BY <2>2, <2>3, <2>4 DEF IsRun
    <2> QED
      BY <2>5
  <1> HIDE DEF S
  <1>3. Nat \subseteq S
    BY <1>1, <1>2, SetInduction
  <1> QED
    BY <1>3 DEF S

\* outcomes is what its instructions make of the state, one after the other.
LEMMA OutcomesRun ==
    ASSUME NEW p, NEW s, NEW instrs, Len(instrs) \in Nat
    PROVE  IsRun(outcomes(p, s, instrs), Len(instrs), p, s, instrs)
  <1>1. \E out : IsRun(out, Len(instrs), p, s, instrs)
    BY RunExists
  <1> QED
    BY <1>1 DEF IsRun, outcomes, continuing

---------------------------------------------------------------------------
(* What an act does with the value.                                         *)

\* What the search takes an act for.
takenFor(p, known, act) == classify(helper(p), seen(p, known, act))

\* A package, as the assumption has it.
IsPackage(p) ==
    /\ p.body \in [Function -> SUBSET Seq(Act)]
    /\ p.method \subseteq Function
    /\ p.escapes \subseteq {"returned", "stored", "passed"}

HandingOver(p) == p.method = {} /\ "passed" \in p.escapes

\* What each act is taken for: a satisfier or a deferred one where the callee is
\* known to discharge, a way out where it is not known, nothing where it keeps.
LEMMA ActsTakenFor ==
    ASSUME NEW p, NEW known, NEW act \in Act
    PROVE  /\ act.do = "pay" => takenFor(p, known, act) = "satisfier"
           /\ act.do = "deferPay" => takenFor(p, known, act) = "deferred"
           /\ act.do = "panic" => takenFor(p, known, act) = "abandon"
           /\ act.do = "nothing" => takenFor(p, known, act) = "none"
           /\ act.do = "hand" =>
                takenFor(p, known, act) = IF "passed" \in p.escapes THEN "transfer" ELSE "none"
           /\ act.do = "call" =>
                takenFor(p, known, act) =
                  IF known[act.callee] = "discharged" THEN "satisfier"
                  ELSE IF /\ known[act.callee] # "kept" /\ act.callee \notin p.method
                          /\ "passed" \in p.escapes
                  THEN "transfer" ELSE "none"
           /\ act.do = "defer" =>
                takenFor(p, known, act) =
                  IF known[act.callee] = "discharged" THEN "deferred"
                  ELSE IF /\ known[act.callee] # "kept" /\ act.callee \notin p.method
                          /\ "passed" \in p.escapes
                  THEN "transfer" ELSE "none"
  <1>0. /\ ~helper(p).requireDefer /\ ~helper(p).idempotent
        /\ helper(p).escapes = p.escapes /\ helper(p).coverage = "any-path"
    BY DEF helper
  <1>1. ASSUME NEW i, i.op = "Call", i.is \subseteq {"satisfier", "discharged", "passes"}
        PROVE  classify(helper(p), i) =
                 IF "satisfier" \in i.is \/ "discharged" \in i.is THEN "satisfier"
                 ELSE IF "passes" \in i.is /\ "passed" \in p.escapes THEN "transfer"
                 ELSE "none"
    BY <1>0, <1>1 DEF classify, called, handsOver
  <1>2. ASSUME NEW i, i.op = "Defer", i.is \subseteq {"satisfier", "discharged", "passes"}
        PROVE  classify(helper(p), i) =
                 IF "satisfier" \in i.is \/ "discharged" \in i.is THEN "deferred"
                 ELSE IF "passes" \in i.is /\ "passed" \in p.escapes THEN "transfer"
                 ELSE "none"
    BY <1>0, <1>2 DEF classify, deferred, closureDischarges, handsOver
  <1>3. CASE act.do = "pay"
    <2>1. seen(p, known, act) = [op |-> "Call", is |-> {"satisfier"}]
      BY <1>3 DEF seen
    <2> QED
      BY <1>1, <1>3, <2>1 DEF takenFor
  <1>4. CASE act.do = "deferPay"
    <2>1. seen(p, known, act) = [op |-> "Defer", is |-> {"satisfier"}, closure |-> None]
      BY <1>4 DEF seen
    <2> QED
      BY <1>2, <1>4, <2>1 DEF takenFor
  <1>5. CASE act.do = "panic"
    <2>1. seen(p, known, act) = [op |-> "Panic"]
      BY <1>5 DEF seen
    <2> QED
      BY <1>5, <2>1 DEF takenFor, classify
  <1>6. CASE act.do = "nothing"
    <2>1. seen(p, known, act) = [op |-> "Other"]
      BY <1>6 DEF seen
    <2> QED
      BY <1>6, <2>1 DEF takenFor, classify, escaped
  <1>7. CASE act.do = "hand"
    <2>1. seen(p, known, act) = [op |-> "Call", is |-> {"passes"}]
      BY <1>7 DEF seen
    <2> QED
      BY <1>1, <1>7, <2>1 DEF takenFor
  <1> DEFINE is == facts(p, known, act.callee)
  <1>8. is = IF known[act.callee] = "discharged" THEN {"discharged"}
             ELSE IF known[act.callee] = "kept" \/ act.callee \in p.method THEN {}
             ELSE {"passes"}
    BY DEF facts
  <1> HIDE DEF is
  <1>9. CASE act.do = "call"
    <2>1. seen(p, known, act) = [op |-> "Call", is |-> is]
      BY <1>9 DEF seen, is
    <2> QED
      BY <1>1, <1>8, <1>9, <2>1 DEF takenFor
  <1>10. CASE act.do = "defer"
    <2>1. seen(p, known, act) = [op |-> "Defer", is |-> is, closure |-> None]
      BY <1>10 DEF seen, is
    <2> QED
      BY <1>2, <1>8, <1>10, <2>1 DEF takenFor
  <1> QED
    BY <1>3, <1>4, <1>5, <1>6, <1>7, <1>9, <1>10 DEF Act

\* Where every call of a function not known yet hands the value over, an act
\* that is not taken for a way out stays what it is when more is known.
LEMMA MoreIsKnown ==
    ASSUME NEW p, HandingOver(p), NEW known, NEW more, NEW act \in Act,
           \A f \in Function : known[f] # "none" => more[f] = known[f],
           known \in [Function -> Recorded],
           takenFor(p, known, act) # "transfer"
    PROVE  takenFor(p, more, act) = takenFor(p, known, act)
  <1>1. CASE act.do \in {"call", "defer"}
    <2>1. act.callee \in Function /\ known[act.callee] \in Recorded
      BY <1>1 DEF Act
    <2>2. known[act.callee] # "none"
      BY <1>1, <2>1, ActsTakenFor DEF HandingOver
    <2>3. more[act.callee] = known[act.callee]
      BY <2>1, <2>2
    <2> QED
      BY <1>1, <2>3, ActsTakenFor
  <1>2. CASE act.do \notin {"call", "defer"}
    <2>1. act.do \in {"pay", "deferPay", "hand", "nothing", "panic"}
      BY <1>2 DEF Act
    <2> QED
      BY <2>1, ActsTakenFor
  <1> QED
    BY <1>1, <1>2

\* An act taken for a satisfier, a deferred one or a panic settles.
LEMMA TakenSettles ==
    ASSUME NEW p, NEW known, NEW act \in Act,
           takenFor(p, known, act) \in {"satisfier", "deferred", "abandon"}
    PROVE  Settles(known, act)
  <1>1. act.do \in {"pay", "deferPay", "hand", "nothing", "panic", "call", "defer"}
    BY DEF Act
  <1>2. act.do = "call" => known[act.callee] = "discharged"
    BY ActsTakenFor
  <1>3. act.do = "defer" => known[act.callee] = "discharged"
    BY ActsTakenFor
  <1>4. act.do \notin {"hand", "nothing"}
    BY ActsTakenFor
  <1> QED
    BY <1>1, <1>2, <1>3, <1>4 DEF Settles

\* An act taken for nothing spares the value, where a call of a function not
\* known yet hands it over.
LEMMA TakenSpares ==
    ASSUME NEW p, HandingOver(p), NEW known, NEW act \in Act,
           takenFor(p, known, act) = "none"
    PROVE  Spares(known, act)
  <1>1. act.do \in {"pay", "deferPay", "hand", "nothing", "panic", "call", "defer"}
    BY DEF Act
  <1>2. act.do \in {"call", "defer"} => known[act.callee] = "kept"
    BY ActsTakenFor DEF HandingOver
  <1>3. act.do \notin {"pay", "deferPay", "hand", "panic"}
    BY ActsTakenFor DEF HandingOver
  <1> QED
    BY <1>1, <1>2, <1>3 DEF Spares

---------------------------------------------------------------------------
(* How a path ends.                                                         *)

\* What an act can be taken for.
LEMMA TakenWays ==
    ASSUME NEW p, NEW known, NEW act \in Act
    PROVE  takenFor(p, known, act) \in
             {"none", "deferred", "satisfier", "abandon", "transfer"}
  <1>1. act.do \in {"pay", "deferPay", "hand", "nothing", "panic", "call", "defer"}
    BY DEF Act
  <1> QED
    BY <1>1, ActsTakenFor

\* The search of a helper only makes of a state what the act is taken for.
LEMMA StepTaken ==
    ASSUME NEW p, NEW known, NEW act \in Act, NEW s \in State
    PROVE  step(helper(p), s, seen(p, known, act)) = after(s, takenFor(p, known, act))
  <1> DEFINE i == seen(p, known, act)
             h == helper(p)
  <1>1. ~h.onSuccess /\ ~h.deferFirst /\ h.openOnError
    BY DEF helper
  <1> HIDE DEF i, h
  <1>2. homes(h) = {}
    BY <1>1 DEF homes
  <1>3. stored(h, s, i) = s /\ remembered(h, s, i) = s /\ registered(h, s, i) = s
    BY <1>1, <1>2 DEF stored, remembered, registered
  <1>4. noted(h, s, i) = s
    BY <1>3 DEF noted
  <1>5. classify(h, i) = takenFor(p, known, act) /\ classify(h, i) # "exit"
    BY TakenWays DEF takenFor, h, i
  <1>6. ~callsBeforeDefer(h, s, i, classify(h, i))
    BY <1>1 DEF callsBeforeDefer
  <1>7. step(h, s, i) = after(s, takenFor(p, known, act))
    BY <1>4, <1>5, <1>6 DEF step
  <1> QED
    BY <1>7 DEF h, i

\* Where a path has got to after n acts: it goes on, no act yet having done
\* anything but defer; or one of them ended it.
GoesOn(p, known, path, n, s) ==
    /\ s \in State /\ s.open = 1 /\ ~s.uncertain
    /\ \A k \in 1..n : takenFor(p, known, path[k]) \in {"none", "deferred"}
    /\ s.deferred = 0 => \A k \in 1..n : takenFor(p, known, path[k]) = "none"
    /\ s.deferred > 0 => \E k \in 1..n : takenFor(p, known, path[k]) = "deferred"

endOf(taken) ==
    CASE taken = "satisfier" -> "discharged"
      [] taken = "abandon"   -> "abandoned"
      [] taken = "transfer"  -> "transferred"

Ended(p, known, path, n, ending) == \E k \in 1..n :
    /\ takenFor(p, known, path[k]) \in {"satisfier", "abandon", "transfer"}
    /\ ending = endOf(takenFor(p, known, path[k]))
    /\ \A j \in 1..(k - 1) : takenFor(p, known, path[j]) \in {"none", "deferred"}

GotTo(p, known, path, n, out) ==
    IF out.goes THEN GoesOn(p, known, path, n, out.state)
    ELSE Ended(p, known, path, n, out.ending)

\* An act of the path.
LEMMA GetsOn ==
    ASSUME NEW p, NEW known, NEW path, NEW n \in Nat, path[n + 1] \in Act,
           NEW s, GoesOn(p, known, path, n, s)
    PROVE  GotTo(p, known, path, n + 1, after(s, takenFor(p, known, path[n + 1])))
  <1> DEFINE taken == takenFor(p, known, path[n + 1])
             out == after(s, taken)
  <1>1. taken \in {"none", "deferred", "satisfier", "abandon", "transfer"}
    BY TakenWays
  <1>2. \A k \in 1..(n + 1) : k \in 1..n \/ k = n + 1
    OBVIOUS
  <1>3. n + 1 \in 1..(n + 1) /\ (n + 1) - 1 = n /\ 1..n \subseteq 1..(n + 1)
    OBVIOUS
  <1> HIDE DEF taken
  <1>4. CASE taken = "none"
    <2>1. out.goes /\ out.state = s
      BY <1>4 DEF after, Goes
    <2>2. GoesOn(p, known, path, n + 1, s)
      BY <1>2, <1>3, <1>4 DEF GoesOn, taken
    <2> QED
      BY <2>1, <2>2 DEF GotTo, taken
  <1>5. CASE taken = "deferred"
    <2>1. out.goes /\ out.state = [s EXCEPT !.deferred = raised(@)]
      BY <1>5 DEF after, Goes
    <2>2. s.deferred \in 0..2 /\ raised(s.deferred) \in 0..2 /\ raised(s.deferred) > 0
      BY DEF GoesOn, State, raised, saturated
    <2>3. /\ out.state \in State /\ out.state.open = 1 /\ ~out.state.uncertain
          /\ out.state.deferred > 0
      BY <2>1, <2>2 DEF GoesOn, State, saturated
    <2>4. GoesOn(p, known, path, n + 1, out.state)
      BY <1>2, <1>3, <1>5, <2>2, <2>3 DEF GoesOn, taken
    <2> QED
      BY <2>1, <2>4 DEF GotTo, taken
  <1>6. CASE taken \in {"satisfier", "abandon", "transfer"}
    <2>1. ~out.goes /\ out.ending = endOf(taken)
      <3>1. CASE taken = "satisfier"
        <4>1. [s EXCEPT !.open = @ - 1, !.called = TRUE].open = 0
          BY DEF GoesOn, State
        <4> QED
          BY <3>1, <4>1 DEF after, paid, Ends, endOf
      <3>2. CASE taken = "abandon"
        BY <3>2 DEF after, Ends, endOf
      <3>3. CASE taken = "transfer"
        BY <3>3 DEF after, Ends, endOf
      <3> QED
        BY <1>6, <3>1, <3>2, <3>3
    <2>2. Ended(p, known, path, n + 1, out.ending)
      BY <1>3, <1>6, <2>1 DEF GoesOn, Ended, taken
    <2> QED
      BY <2>1, <2>2 DEF GotTo, taken
  <1> QED
    BY <1>1, <1>4, <1>5, <1>6

\* The instructions of a path, as the search sees them.
instrsOf(p, known, path) ==
    Append([n \in DOMAIN path |-> seen(p, known, path[n])], exitReturn)

\* An instruction for each act, and the return.
LEMMA InstrsParts ==
    ASSUME NEW p, NEW known, NEW path \in Seq(Act)
    PROVE  /\ Len(path) \in Nat /\ Len(instrsOf(p, known, path)) = Len(path) + 1
           /\ \A n \in 1..Len(path) :
                path[n] \in Act /\ instrsOf(p, known, path)[n] = seen(p, known, path[n])
           /\ instrsOf(p, known, path)[Len(path) + 1] = exitReturn
  <1> DEFINE S == {seen(p, known, path[n]) : n \in DOMAIN path}
             s == [n \in DOMAIN path |-> seen(p, known, path[n])]
  <1>1. Len(path) \in Nat /\ DOMAIN path = 1..Len(path)
    OBVIOUS
  <1>2. s \in [1..Len(path) -> S]
    BY <1>1
  <1>3. s \in Seq(S) /\ Len(s) = Len(path)
    BY <1>1, <1>2
  <1>4. \A n \in 1..Len(path) : s[n] = seen(p, known, path[n])
    BY <1>1
  <1>5. instrsOf(p, known, path) = Append(s, exitReturn)
    BY DEF instrsOf
  <1> HIDE DEF S, s
  <1>6. s \in Seq(S \union {exitReturn})
    BY <1>3
  <1>7. /\ Len(Append(s, exitReturn)) = Len(path) + 1
        /\ Append(s, exitReturn)[Len(path) + 1] = exitReturn
        /\ \A n \in 1..Len(path) : Append(s, exitReturn)[n] = s[n]
    BY <1>1, <1>3, <1>6
  <1> QED
    BY <1>1, <1>4, <1>5, <1>7

outcomesOf(p, known, path) == outcomes(helper(p), Start, instrsOf(p, known, path))

\* What the search makes of a path, act by act.
LEMMA PathSteps ==
    ASSUME NEW p, NEW known, NEW path \in Seq(Act)
    PROVE  /\ outcomesOf(p, known, path)[0] = Goes(Start)
           /\ \A n \in 0..(Len(path) - 1) :
                outcomesOf(p, known, path)[n + 1] =
                  continuing(helper(p), outcomesOf(p, known, path)[n],
                             seen(p, known, path[n + 1]))
           /\ outcomesOf(p, known, path)[Len(path) + 1] =
                continuing(helper(p), outcomesOf(p, known, path)[Len(path)], exitReturn)
           /\ endingOf(p, known, path) = outcomesOf(p, known, path)[Len(path) + 1].ending
  <1> DEFINE instrs == instrsOf(p, known, path)
             out == outcomesOf(p, known, path)
  <1>1. /\ Len(path) \in Nat /\ Len(instrs) = Len(path) + 1
        /\ \A n \in 1..Len(path) : instrs[n] = seen(p, known, path[n])
        /\ instrs[Len(path) + 1] = exitReturn
    BY InstrsParts
  <1>2. endingOf(p, known, path) = out[Len(instrs)].ending
    BY DEF endingOf, run, instrsOf, outcomesOf
  <1> HIDE DEF instrs
  <1>3. IsRun(out, Len(instrs), helper(p), Start, instrs)
    BY <1>1, OutcomesRun DEF outcomesOf, instrs
  <1> HIDE DEF out
  <1>4. /\ out[0] = Goes(Start)
        /\ \A n \in 1..Len(instrs) : out[n] = continuing(helper(p), out[n - 1], instrs[n])
    BY <1>1, <1>3, RunSteps
  <1>5. ASSUME NEW n \in 0..(Len(path) - 1)
        PROVE  out[n + 1] = continuing(helper(p), out[n], seen(p, known, path[n + 1]))
    <2>1. n + 1 \in 1..Len(path) /\ n + 1 \in 1..Len(instrs) /\ (n + 1) - 1 = n
      BY <1>1
    <2> QED
      BY <1>1, <1>4, <2>1
  <1>6. out[Len(path) + 1] = continuing(helper(p), out[Len(path)], exitReturn)
    <2>1. Len(path) + 1 \in 1..Len(instrs) /\ (Len(path) + 1) - 1 = Len(path)
      BY <1>1
    <2> QED
      BY <1>1, <1>4, <2>1
  <1> QED
    BY <1>1, <1>2, <1>4, <1>5, <1>6 DEF out

\* Where a path has got to, after any number of its acts.
LEMMA PathGetsOn ==
    ASSUME NEW p, NEW known, NEW path \in Seq(Act)
    PROVE  \A n \in 0..Len(path) : GotTo(p, known, path, n, outcomesOf(p, known, path)[n])
  <1> DEFINE out == outcomesOf(p, known, path)
             S == {n \in Nat : n <= Len(path) => GotTo(p, known, path, n, out[n])}
  <1>1. Len(path) \in Nat /\ \A n \in 1..Len(path) : path[n] \in Act
    BY InstrsParts
  <1>2. /\ out[0] = Goes(Start)
        /\ \A n \in 0..(Len(path) - 1) :
             out[n + 1] = continuing(helper(p), out[n], seen(p, known, path[n + 1]))
    BY PathSteps
  <1> HIDE DEF out
  <1>3. 0 \in S
    <2>1. Start \in State /\ Start.open = 1 /\ ~Start.uncertain /\ Start.deferred = 0
      BY DEF Start, State, saturated
    <2>2. GoesOn(p, known, path, 0, Start)
      BY <2>1 DEF GoesOn
    <2> QED
      BY <1>2, <2>2 DEF GotTo, Goes
  <1>4. ASSUME NEW n \in Nat, n \in S
        PROVE  n + 1 \in S
    <2> SUFFICES ASSUME n + 1 <= Len(path)
                 PROVE  GotTo(p, known, path, n + 1, out[n + 1])
      OBVIOUS
    <2>1. GotTo(p, known, path, n, out[n]) /\ n \in 0..(Len(path) - 1)
      BY <1>1, <1>4
    <2>2. path[n + 1] \in Act
      BY <1>1, <2>1
    <2>3. out[n + 1] = continuing(helper(p), out[n], seen(p, known, path[n + 1]))
      BY <1>2, <2>1
    <2>4. CASE out[n].goes
      <3>1. GoesOn(p, known, path, n, out[n].state) /\ out[n].state \in State
        BY <2>1, <2>4 DEF GotTo, GoesOn
      <3>2. out[n + 1] = after(out[n].state, takenFor(p, known, path[n + 1]))
        BY <2>2, <2>3, <2>4, <3>1, StepTaken DEF continuing
      <3> QED
        BY <2>2, <3>1, <3>2, GetsOn
    <2>5. CASE ~out[n].goes
      <3>1. out[n + 1] = out[n]
        BY <2>3, <2>5 DEF continuing
      <3>2. Ended(p, known, path, n, out[n].ending)
        BY <2>1, <2>5 DEF GotTo
      <3>3. 1..n \subseteq 1..(n + 1)
        OBVIOUS
      <3>4. Ended(p, known, path, n + 1, out[n].ending)
        BY <3>2, <3>3 DEF Ended
      <3> QED
        BY <2>5, <3>1, <3>4 DEF GotTo
    <2> QED
      BY <2>4, <2>5
  <1> HIDE DEF S
  <1>5. Nat \subseteq S
    BY <1>3, <1>4, SetInduction
  <1> QED
    BY <1>5, <1>1 DEF S, out

\* How a path ends: it is left open where its acts did nothing, discharged where
\* one was deferred, or an act ended it.
PathTold(p, known, path, ending) ==
    \/ ending = "open" /\ \A k \in 1..Len(path) : takenFor(p, known, path[k]) = "none"
    \/ ending = "discharged" /\ \E k \in 1..Len(path) : takenFor(p, known, path[k]) = "deferred"
    \/ Ended(p, known, path, Len(path), ending)

\* The return of a path that goes on ends it, by what it deferred.
LEMMA ReturnEnds ==
    ASSUME NEW p, NEW s \in State, s.open = 1, ~s.uncertain
    PROVE  step(helper(p), s, exitReturn).ending =
             IF s.deferred = 0 THEN "open" ELSE "discharged"
  <1> DEFINE h == helper(p)
  <1>1. ~h.onSuccess /\ ~h.deferFirst
    BY DEF helper
  <1>2. exitReturn.op = "Return" /\ ~exitReturn.carries
    BY DEF exitReturn
  <1> HIDE DEF h
  <1>3. /\ stored(h, s, exitReturn) = s /\ remembered(h, s, exitReturn) = s
        /\ registered(h, s, exitReturn) = s
    BY <1>1, <1>2 DEF stored, remembered, registered
  <1>4. noted(h, s, exitReturn) = s
    BY <1>3 DEF noted
  <1>5. classify(h, exitReturn) = "exit" /\ ~callsBeforeDefer(h, s, exitReturn, "exit")
    BY <1>1, <1>2 DEF classify, returns, callsBeforeDefer
  <1>6. step(h, s, exitReturn) = exit(h, s, exitReturn)
    BY <1>4, <1>5 DEF step
  <1>7. s.deferred \in 0..2
    BY DEF State, saturated
  <1>8. leakAt(h, s, exitReturn) = IF s.deferred = 0 THEN "atExit" ELSE "none"
    BY <1>1, <1>7 DEF leakAt
  <1>9. exit(h, s, exitReturn).ending = IF s.deferred = 0 THEN "open" ELSE "discharged"
    BY <1>7, <1>8 DEF exit, Ends
  <1> QED
    BY <1>6, <1>9 DEF h

\* Every path ends by what its acts do.
LEMMA EndingTold ==
    ASSUME NEW p, NEW known, NEW path \in Seq(Act)
    PROVE  PathTold(p, known, path, endingOf(p, known, path))
  <1> DEFINE out == outcomesOf(p, known, path)[Len(path)]
             end == outcomesOf(p, known, path)[Len(path) + 1]
  <1>1. Len(path) \in Nat
    BY InstrsParts
  <1>2. GotTo(p, known, path, Len(path), out)
    BY <1>1, PathGetsOn
  <1>3. end = continuing(helper(p), out, exitReturn) /\ endingOf(p, known, path) = end.ending
    BY PathSteps
  <1> HIDE DEF out, end
  <1>4. CASE out.goes
    <2>1. GoesOn(p, known, path, Len(path), out.state)
      BY <1>2, <1>4 DEF GotTo
    <2>2. out.state \in State /\ out.state.open = 1 /\ ~out.state.uncertain
      BY <2>1 DEF GoesOn
    <2>3. end.ending = IF out.state.deferred = 0 THEN "open" ELSE "discharged"
      BY <1>3, <1>4, <2>2, ReturnEnds DEF continuing
    <2>4. out.state.deferred \in 0..2
      BY <2>2 DEF State, saturated
    <2> QED
      BY <1>3, <2>1, <2>3, <2>4 DEF GoesOn, PathTold
  <1>5. CASE ~out.goes
    <2>1. end = out
      BY <1>3, <1>5 DEF continuing
    <2> QED
      BY <1>2, <1>3, <1>5, <2>1 DEF GotTo, PathTold
  <1> QED
    BY <1>4, <1>5

\* Every ending a path can have.
LEMMA EndingWays ==
    ASSUME NEW p, NEW known, NEW path \in Seq(Act)
    PROVE  endingOf(p, known, path) \in {"open", "discharged", "abandoned", "transferred"}
  <1> DEFINE ending == endingOf(p, known, path)
  <1>1. PathTold(p, known, path, ending)
    BY EndingTold
  <1> HIDE DEF ending
  <1>2. ASSUME Ended(p, known, path, Len(path), ending)
        PROVE  ending \in {"discharged", "abandoned", "transferred"}
    BY <1>2 DEF Ended, endOf
  <1>3. ending \in {"open", "discharged", "abandoned", "transferred"}
    BY <1>1, <1>2 DEF PathTold
  <1> QED
    BY <1>3 DEF ending

\* A path that does not end open, or by handing the value over, has an act that
\* settles it.
LEMMA EndingSettles ==
    ASSUME NEW p, NEW known, NEW path \in Seq(Act),
           endingOf(p, known, path) \in {"discharged", "abandoned"}
    PROVE  SettlesIn(known, path)
  <1> DEFINE ending == endingOf(p, known, path)
  <1>1. PathTold(p, known, path, ending) /\ ending \in {"discharged", "abandoned"}
    BY EndingTold
  <1> HIDE DEF ending
  <1>2. Len(path) \in Nat /\ DOMAIN path = 1..Len(path) /\ \A k \in 1..Len(path) : path[k] \in Act
    BY InstrsParts
  <1>3. \E k \in 1..Len(path) : takenFor(p, known, path[k]) \in {"satisfier", "deferred", "abandon"}
    <2>1. ASSUME Ended(p, known, path, Len(path), ending)
          PROVE  \E k \in 1..Len(path) : takenFor(p, known, path[k]) \in {"satisfier", "abandon"}
      BY <1>1, <2>1 DEF Ended, endOf
    <2> QED
      BY <1>1, <2>1 DEF PathTold
  <1> QED
    BY <1>2, <1>3, TakenSettles DEF SettlesIn

\* A path that ends open only spares the value, and one that is abandoned panics
\* before it does anything to it.
LEMMA EndingSpares ==
    ASSUME NEW p, HandingOver(p), NEW known, NEW path \in Seq(Act)
    PROVE  /\ endingOf(p, known, path) = "open" => SparesIn(known, path)
           /\ endingOf(p, known, path) = "abandoned" => Doomed(known, path)
  <1> DEFINE ending == endingOf(p, known, path)
  <1>1. PathTold(p, known, path, ending)
    BY EndingTold
  <1> HIDE DEF ending
  <1>2. Len(path) \in Nat /\ DOMAIN path = 1..Len(path) /\ \A k \in 1..Len(path) : path[k] \in Act
    BY InstrsParts
  <1>3. ASSUME ending = "open"
        PROVE  SparesIn(known, path)
    <2>1. ~Ended(p, known, path, Len(path), ending)
      BY <1>3 DEF Ended, endOf
    <2>2. \A k \in 1..Len(path) : takenFor(p, known, path[k]) = "none"
      BY <1>1, <1>3, <2>1 DEF PathTold
    <2> QED
      BY <1>2, <2>2, TakenSpares DEF SparesIn
  <1>4. ASSUME ending = "abandoned"
        PROVE  Doomed(known, path)
    <2>1. Ended(p, known, path, Len(path), ending)
      BY <1>1, <1>4 DEF PathTold
    <2>2. PICK k \in 1..Len(path) :
             /\ takenFor(p, known, path[k]) = "abandon"
             /\ \A j \in 1..(k - 1) : takenFor(p, known, path[j]) \in {"none", "deferred"}
      BY <1>4, <2>1 DEF Ended, endOf
    <2>3. path[k].do = "panic"
      <3>1. path[k] \in Act /\ takenFor(p, known, path[k]) = "abandon"
        BY <1>2, <2>2
      <3>2. path[k].do \in {"pay", "deferPay", "hand", "nothing", "panic", "call", "defer"}
        BY <3>1 DEF Act
      <3> QED
        BY <3>1, <3>2, ActsTakenFor
    <2>4. ASSUME NEW j \in 1..(k - 1)
          PROVE  Spares(known, path[j]) \/ path[j].do \in {"deferPay", "defer"}
      <3>1. path[j] \in Act /\ takenFor(p, known, path[j]) \in {"none", "deferred"}
        BY <1>2, <2>2
      <3>2. path[j].do \in {"pay", "deferPay", "hand", "nothing", "panic", "call", "defer"}
        BY <3>1 DEF Act
      <3>3. CASE takenFor(p, known, path[j]) = "none"
        BY <3>1, <3>3, TakenSpares
      <3>4. CASE takenFor(p, known, path[j]) = "deferred"
        BY <3>1, <3>2, <3>4, ActsTakenFor
      <3> QED
        BY <3>1, <3>3, <3>4
    <2> QED
      BY <1>2, <2>3, <2>4 DEF Doomed
  <1> QED
    BY <1>3, <1>4 DEF ending

---------------------------------------------------------------------------
(* Knowing more.                                                            *)

\* What more is known than before: nothing that was recorded is changed.
KnowsMore(known, more) ==
    /\ known \in [Function -> Recorded]
    /\ \A f \in Function : known[f] # "none" => more[f] = known[f]

\* A path that does not end by handing the value over ends the same when more is
\* known.
LEMMA EndingStays ==
    ASSUME NEW p, HandingOver(p), NEW known, NEW more, KnowsMore(known, more),
           NEW path \in Seq(Act), endingOf(p, known, path) # "transferred"
    PROVE  endingOf(p, more, path) = endingOf(p, known, path)
  <1> DEFINE before == outcomesOf(p, known, path)
             now == outcomesOf(p, more, path)
             Same(n) == now[n] = before[n] \/ (~before[n].goes /\ before[n].ending = "transferred")
             S == {n \in Nat : n <= Len(path) => Same(n)}
  <1>1. Len(path) \in Nat /\ \A n \in 1..Len(path) : path[n] \in Act
    BY InstrsParts
  <1>2. /\ before[0] = Goes(Start)
        /\ \A n \in 0..(Len(path) - 1) :
             before[n + 1] = continuing(helper(p), before[n], seen(p, known, path[n + 1]))
        /\ before[Len(path) + 1] = continuing(helper(p), before[Len(path)], exitReturn)
        /\ endingOf(p, known, path) = before[Len(path) + 1].ending
    BY PathSteps
  <1>3. /\ now[0] = Goes(Start)
        /\ \A n \in 0..(Len(path) - 1) :
             now[n + 1] = continuing(helper(p), now[n], seen(p, more, path[n + 1]))
        /\ now[Len(path) + 1] = continuing(helper(p), now[Len(path)], exitReturn)
        /\ endingOf(p, more, path) = now[Len(path) + 1].ending
    BY PathSteps
  <1>4. \A n \in 0..Len(path) : GotTo(p, known, path, n, before[n])
    BY PathGetsOn
  <1> HIDE DEF before, now
  <1>5. 0 \in S
    BY <1>2, <1>3
  <1>6. ASSUME NEW n \in Nat, n \in S
        PROVE  n + 1 \in S
    <2> SUFFICES ASSUME n + 1 <= Len(path)
                 PROVE  Same(n + 1)
      OBVIOUS
    <2>1. n \in 0..(Len(path) - 1) /\ n \in 0..Len(path) /\ path[n + 1] \in Act
      BY <1>1
    <2>2. Same(n)
      BY <1>1, <1>6
    <2>3. /\ before[n + 1] = continuing(helper(p), before[n], seen(p, known, path[n + 1]))
          /\ now[n + 1] = continuing(helper(p), now[n], seen(p, more, path[n + 1]))
      BY <1>2, <1>3, <2>1
    <2>4. CASE ~before[n].goes
      <3>1. before[n + 1] = before[n]
        BY <2>3, <2>4 DEF continuing
      <3>2. now[n] = before[n] => now[n + 1] = now[n]
        BY <2>3, <2>4 DEF continuing
      <3> QED
        BY <2>2, <3>1, <3>2
    <2>5. CASE before[n].goes
      <3> DEFINE s == before[n].state
      <3>1. now[n] = before[n] /\ s \in State
        <4>1. GotTo(p, known, path, n, before[n])
          BY <1>4, <2>1
        <4> QED
          BY <2>2, <2>5, <4>1 DEF GotTo, GoesOn
      <3> HIDE DEF s
      <3>2. before[n + 1] = after(s, takenFor(p, known, path[n + 1]))
        BY <2>1, <2>3, <2>5, <3>1, StepTaken DEF continuing, s
      <3>3. now[n + 1] = after(s, takenFor(p, more, path[n + 1]))
        BY <2>1, <2>3, <2>5, <3>1, StepTaken DEF continuing, s
      <3>4. CASE takenFor(p, known, path[n + 1]) = "transfer"
        BY <3>2, <3>4 DEF after, Ends
      <3>5. CASE takenFor(p, known, path[n + 1]) # "transfer"
        BY <2>1, <3>2, <3>3, <3>5, MoreIsKnown DEF KnowsMore
      <3> QED
        BY <3>4, <3>5
    <2> QED
      BY <2>4, <2>5
  <1> HIDE DEF S
  <1>7. Len(path) \in S
    BY <1>1, <1>5, <1>6, SetInduction
  <1>8. Same(Len(path))
    BY <1>1, <1>7 DEF S
  <1>9. before[Len(path)].goes \/ before[Len(path)].ending # "transferred"
    BY <1>2 DEF continuing
  <1> QED
    BY <1>2, <1>3, <1>8, <1>9

\* The paths of a function.
LEMMA PathsOf ==
    ASSUME NEW p, IsPackage(p), NEW f \in Function
    PROVE  \A path \in p.body[f] : path \in Seq(Act)
  BY DEF IsPackage

\* What is recorded of a function is so of each of its paths.
LEMMA RecordedTells ==
    ASSUME NEW p, IsPackage(p), NEW known, NEW f \in Function, NEW path \in p.body[f]
    PROVE  /\ recorded(p, known, f) \in Recorded
           /\ recorded(p, known, f) = "discharged" => SettlesIn(known, path)
           /\ recorded(p, known, f) = "kept" /\ HandingOver(p) =>
                SparesIn(known, path) \/ Doomed(known, path)
  <1>1. path \in Seq(Act)
    BY PathsOf
  <1>2. endingOf(p, known, path) \in ended(p, known, f)
    BY DEF ended
  <1>3. endingOf(p, known, path) \in {"open", "discharged", "abandoned", "transferred"}
    BY <1>1, EndingWays
  <1>4. recorded(p, known, f) \in Recorded
    BY DEF recorded, follow, Recorded
  <1>5. ASSUME recorded(p, known, f) = "discharged"
        PROVE  endingOf(p, known, path) \in {"discharged", "abandoned"}
    BY <1>2, <1>3, <1>5 DEF recorded, follow
  <1>6. ASSUME recorded(p, known, f) = "kept"
        PROVE  endingOf(p, known, path) \in {"open", "abandoned"}
    BY <1>2, <1>3, <1>6 DEF recorded, follow
  <1> QED
    BY <1>1, <1>4, <1>5, <1>6, EndingSettles, EndingSpares

\* What was recorded of a function would be recorded again when more is known.
LEMMA RecordedStays ==
    ASSUME NEW p, IsPackage(p), HandingOver(p), NEW known, NEW more,
           KnowsMore(known, more), NEW f \in Function, recorded(p, known, f) # "none"
    PROVE  recorded(p, more, f) = recorded(p, known, f)
  <1>1. "transferred" \notin ended(p, known, f)
    BY DEF recorded, follow
  <1>2. ASSUME NEW path \in p.body[f]
        PROVE  endingOf(p, more, path) = endingOf(p, known, path)
    <2>1. path \in Seq(Act)
      BY PathsOf
    <2>2. endingOf(p, known, path) # "transferred"
      BY <1>1 DEF ended
    <2> QED
      BY <2>1, <2>2, EndingStays
  <1>3. ended(p, more, f) = ended(p, known, f)
    BY <1>2 DEF ended
  <1>4. follow(p, more, f) = follow(p, known, f)
    BY <1>3 DEF follow
  <1> QED
    BY <1>4 DEF recorded

---------------------------------------------------------------------------
(* Learning.                                                                *)

\* An act that settles the value settles it when more is known.
LEMMA SettlesStays ==
    ASSUME NEW known, NEW more, KnowsMore(known, more), NEW path \in Seq(Act),
           SettlesIn(known, path)
    PROVE  SettlesIn(more, path)
  <1>1. PICK n \in DOMAIN path : Settles(known, path[n])
    BY DEF SettlesIn
  <1>2. path[n] \in Act
    BY <1>1
  <1>3. path[n].do \in {"call", "defer"} => path[n].callee \in Function
    BY <1>2 DEF Act
  <1>4. Settles(more, path[n])
    BY <1>1, <1>3 DEF Settles, KnowsMore
  <1> QED
    BY <1>1, <1>4 DEF SettlesIn

\* A package is as the assumption has it.
LEMMA PackagesGiven ==
    ASSUME NEW p \in Packages
    PROVE  IsPackage(p)
  BY SummariesAssumption DEF IsPackage

\* Nothing is recorded before anything is read.
LEMMA LearnInit == Init => LearnInv
  <1> SUFFICES ASSUME Init PROVE LearnInv
    OBVIOUS
  <1>1. N \in Nat /\ 1 \in 1..(N + 1) /\ 1..(1 - 1) = {}
    BY SummariesAssumption
  <1>2. entry \in [Function -> Recorded] /\ \A f \in Function : entry[f] = "none"
    BY DEF Init, Recorded
  <1> QED
    BY <1>1, <1>2 DEF Init, LearnInv

\* What is known before a step of learning, and after it.
LEMMA LearnKnowsMore ==
    ASSUME LearnInv, Learn,
           NEW p, p = package, NEW known, known = entry, NEW more, more = entry'
    PROVE  /\ KnowsMore(known, more) /\ more \in [Function -> Recorded]
           /\ reading \in Function
           /\ \A f \in Function : more[f] # known[f] =>
                f = reading /\ more[f] = recorded(p, known, f)
           /\ known[reading] = "none" => more[reading] = recorded(p, known, reading)
           /\ more # known => learned'
  <1> DEFINE found == learnParameter(reading)
  <1>1. /\ more = [known EXCEPT ![reading] = IF found = "none" THEN @ ELSE found]
        /\ learned' = (learned \/ found # "none")
    BY DEF Learn
  <1>2. found = IF known[reading] # "none" THEN "none" ELSE recorded(p, known, reading)
    BY DEF learnParameter
  <1>3. reading \in Function /\ known \in [Function -> Recorded]
    BY SummariesAssumption DEF LearnInv, Learn, Function
  <1>4. recorded(p, known, reading) \in Recorded
    BY DEF recorded, follow, Recorded
  <1> HIDE DEF found
  <1>5. known[reading] = "none" => found = recorded(p, known, reading)
    BY <1>2
  <1>6. known[reading] # "none" => found = "none"
    BY <1>2
  <1>7. more \in [Function -> Recorded]
    BY <1>1, <1>3, <1>4, <1>5, <1>6
  <1>8. \A f \in Function : f # reading => more[f] = known[f]
    BY <1>1, <1>3
  <1>9. more[reading] = IF found = "none" THEN known[reading] ELSE found
    BY <1>1, <1>3
  <1>10. KnowsMore(known, more)
    BY <1>3, <1>6, <1>8, <1>9 DEF KnowsMore
  <1>11. more # known => found # "none"
    BY <1>1, <1>3
  <1> QED
    BY <1>1, <1>3, <1>5, <1>6, <1>7, <1>8, <1>9, <1>10, <1>11

\* Reading a function keeps what learning keeps.
LEMMA LearnKeeps ==
    ASSUME LearnInv, Learn
    PROVE  LearnInv'
  <1>1. PICK p : p = package
    OBVIOUS
  <1>2. PICK known : known = entry
    OBVIOUS
  <1>3. PICK more : more = entry'
    OBVIOUS
  <1>4. /\ KnowsMore(known, more) /\ more \in [Function -> Recorded]
        /\ reading \in Function
        /\ \A f \in Function : more[f] # known[f] =>
             f = reading /\ more[f] = recorded(p, known, f)
        /\ known[reading] = "none" => more[reading] = recorded(p, known, reading)
        /\ more # known => learned'
    BY <1>1, <1>2, <1>3, LearnKnowsMore
  <1>5. p \in Packages /\ IsPackage(p) /\ package' = p
    BY <1>1, PackagesGiven DEF LearnInv, Learn
  <1>6. /\ phase' = "learning" /\ reading' \in 1..(N + 1) /\ reading' = reading + 1
        /\ learned' \in BOOLEAN
    BY SummariesAssumption DEF LearnInv, Learn
  <1>7. ASSUME NEW f \in Function, more[f] = "discharged", NEW path \in p.body[f]
        PROVE  SettlesIn(more, path)
    <2>1. path \in Seq(Act)
      BY <1>5, PathsOf
    <2>2. SettlesIn(known, path)
      <3>1. CASE known[f] = "discharged"
        BY <1>1, <1>2, <3>1 DEF LearnInv
      <3>2. CASE known[f] # "discharged"
        BY <1>4, <1>5, <1>7, <3>2, RecordedTells
      <3> QED
        BY <3>1, <3>2
    <2> QED
      BY <1>4, <2>1, <2>2, SettlesStays
  <1>8. HandsOver' <=> HandingOver(p)
    BY <1>5 DEF HandsOver, HandingOver
  <1>9. HandsOver <=> HandingOver(p)
    BY <1>1 DEF HandsOver, HandingOver
  <1>10. ASSUME HandingOver(p), NEW f \in Function, more[f] # "none"
         PROVE  more[f] = recorded(p, more, f)
    <2>1. recorded(p, known, f) = more[f]
      <3>1. CASE more[f] = known[f]
        BY <1>1, <1>2, <1>9, <1>10, <3>1 DEF LearnInv
      <3>2. CASE more[f] # known[f]
        BY <1>4, <3>2
      <3> QED
        BY <3>1, <3>2
    <2> QED
      BY <1>4, <1>5, <1>10, <2>1, RecordedStays
  <1>11. ASSUME HandingOver(p), ~learned', NEW f \in 1..(reading' - 1)
         PROVE  more[f] = recorded(p, more, f)
    <2>1. more = known /\ ~learned
      BY <1>4, <1>11 DEF Learn
    <2>2. f \in 1..(reading - 1) \/ f = reading
      BY <1>6 DEF LearnInv
    <2>3. CASE f \in 1..(reading - 1)
      BY <1>1, <1>2, <1>9, <1>11, <2>1, <2>3 DEF LearnInv
    <2>4. CASE f = reading
      <3>1. CASE known[f] = "none"
        BY <1>4, <2>1, <2>4, <3>1
      <3>2. CASE known[f] # "none"
        BY <1>4, <1>10, <1>11, <2>1, <2>4, <3>2
      <3> QED
        BY <3>1, <3>2
    <2> QED
      BY <2>2, <2>3, <2>4
  <1>12. entry' = more
    BY <1>3
  <1> QED
    BY <1>4, <1>5, <1>6, <1>7, <1>8, <1>10, <1>11, <1>12 DEF LearnInv

\* What learning keeps is kept by every step.
LEMMA LearnStep == LearnInv /\ [Next]_vars => LearnInv'
  <1> SUFFICES ASSUME LearnInv, [Next]_vars PROVE LearnInv'
    OBVIOUS
  <1>1. CASE Learn
    BY <1>1, LearnKeeps
  <1> DEFINE Kept == /\ package' = package /\ entry' = entry
                     /\ phase' \in {"learning", "learned", "running", "returned", "panicked"}
  <1>2. ASSUME Kept, reading' = 1, learned' = FALSE, phase' = "learning"
        PROVE  LearnInv'
    <2>1. N \in Nat /\ 1 \in 1..(N + 1) /\ 1..(1 - 1) = {}
      BY SummariesAssumption
    <2>2. HandsOver' <=> HandsOver
      BY <1>2 DEF HandsOver
    <2> QED
      BY <1>2, <2>1, <2>2 DEF LearnInv
  <1>3. ASSUME Kept, reading' = reading, learned' = learned,
               phase' # "learning" => reading = N + 1 /\ ~learned
        PROVE  LearnInv'
    BY <1>3 DEF LearnInv, HandsOver
  <1>4. CASE Again
    BY <1>2, <1>4 DEF Again
  <1>5. CASE Settle
    BY <1>3, <1>5 DEF Settle, knowledge
  <1>6. ASSUME NEW f \in Function, NEW path \in package.body[f], Enter(f, path)
        PROVE  LearnInv'
    BY <1>3, <1>6 DEF Enter, knowledge, LearnInv
  <1>7. ASSUME NEW act, NEW rest, Happens(act, rest), phase = "running"
        PROVE  LearnInv'
    <2>1. /\ package' = package /\ knowledge' = knowledge
          /\ phase' \in {"running", "panicked"}
      BY <1>7 DEF Happens, Called
    <2> QED
      BY <1>3, <1>7, <2>1 DEF knowledge, LearnInv
  <1>8. CASE Run
    BY <1>7, <1>8 DEF Run
  <1>9. CASE RunDeferred
    BY <1>7, <1>9 DEF RunDeferred
  <1>10. CASE Leave
    BY <1>3, <1>10 DEF Leave, knowledge, LearnInv
  <1>11. CASE UNCHANGED vars
    BY <1>3, <1>11 DEF vars, knowledge, LearnInv
  <1> QED
    BY <1>1, <1>4, <1>5, <1>6, <1>8, <1>9, <1>10, <1>11 DEF Next, Learning, Running

---------------------------------------------------------------------------
(* Running.                                                                 *)

\* A sequence without its last element, and the last element.
LEMMA LastDropped ==
    ASSUME NEW S, NEW s \in Seq(S), s # << >>
    PROVE  /\ Len(s) \in Nat \ {0} /\ DOMAIN s = 1..Len(s) /\ Last(s) = s[Len(s)] /\ Last(s) \in S
           /\ Front(s) \in Seq(S) /\ DOMAIN Front(s) = 1..(Len(s) - 1)
           /\ \A n \in 1..(Len(s) - 1) : Front(s)[n] = s[n]
           /\ Len(Front(s)) = Len(s) - 1 /\ (Front(s) = << >> => Len(s) = 1)
  <1>1. Len(s) \in Nat \ {0} /\ DOMAIN s = 1..Len(s)
    OBVIOUS
  <1>2. /\ Front(s) \in Seq(S) /\ Len(Front(s)) = Len(s) - 1
        /\ \A n \in 1..(Len(s) - 1) : Front(s)[n] = s[n]
    BY <1>1 DEF Front
  <1> QED
    BY <1>1, <1>2 DEF Last

\* The last element of a sequence replaced.
LEMMA LastReplaced ==
    ASSUME NEW S, NEW s \in Seq(S), s # << >>, NEW x \in S
    PROVE  /\ Append(Front(s), x) \in Seq(S) /\ DOMAIN Append(Front(s), x) = 1..Len(s)
           /\ Append(Front(s), x) # << >>
           /\ \A n \in 1..(Len(s) - 1) : Append(Front(s), x)[n] = s[n]
           /\ Append(Front(s), x)[Len(s)] = x
  <1>1. Len(s) \in Nat \ {0}
    OBVIOUS
  <1> DEFINE front == Front(s)
  <1>2. /\ front \in Seq(S) /\ Len(front) = Len(s) - 1
        /\ \A n \in 1..(Len(s) - 1) : front[n] = s[n]
    BY LastDropped, <1>1
  <1> HIDE DEF front
  <1>3. Append(front, x) \in Seq(S) /\ Len(Append(front, x)) = Len(s)
    BY <1>1, <1>2
  <1>4. \A n \in 1..(Len(s) - 1) : Append(front, x)[n] = s[n]
    BY <1>1, <1>2
  <1>5. Append(front, x)[Len(s)] = x
    BY <1>1, <1>2
  <1>6. Append(front, x) # << >>
    BY <1>1, <1>3
  <1>7. DOMAIN Append(front, x) = 1..Len(s)
    BY <1>3
  <1> QED
    BY <1>3, <1>4, <1>5, <1>6, <1>7 DEF front

\* The last element of a sequence replaced, and another pushed after it.
LEMMA LastReplacedByTwo ==
    ASSUME NEW S, NEW s \in Seq(S), s # << >>, NEW x \in S, NEW y \in S
    PROVE  /\ Front(s) \o <<x, y>> \in Seq(S) /\ Front(s) \o <<x, y>> # << >>
           /\ DOMAIN (Front(s) \o <<x, y>>) = 1..(Len(s) + 1)
           /\ \A n \in 1..(Len(s) - 1) : (Front(s) \o <<x, y>>)[n] = s[n]
           /\ (Front(s) \o <<x, y>>)[Len(s)] = x
           /\ (Front(s) \o <<x, y>>)[Len(s) + 1] = y
  <1>1. Len(s) \in Nat \ {0}
    OBVIOUS
  <1> DEFINE front == Front(s)
             two == <<x, y>>
  <1>2. /\ front \in Seq(S) /\ Len(front) = Len(s) - 1
        /\ \A n \in 1..(Len(s) - 1) : front[n] = s[n]
    BY LastDropped, <1>1
  <1> HIDE DEF front
  <1>3. two \in Seq(S) /\ Len(two) = 2 /\ two[1] = x /\ two[2] = y
    OBVIOUS
  <1> HIDE DEF two
  <1> DEFINE t == front \o two
  <1>4. /\ t \in Seq(S) /\ Len(t) = Len(front) + Len(two)
        /\ \A n \in 1..(Len(front) + Len(two)) :
             t[n] = IF n <= Len(front) THEN front[n] ELSE two[n - Len(front)]
    BY <1>2, <1>3, ConcatProperties
  <1> HIDE DEF t
  <1>5. Len(front) + Len(two) = Len(s) + 1
    BY <1>1, <1>2, <1>3
  <1>6. t \in Seq(S) /\ Len(t) = Len(s) + 1
    BY <1>4, <1>5
  <1>7. \A n \in 1..(Len(s) + 1) : t[n] = IF n <= Len(front) THEN front[n] ELSE two[n - Len(front)]
    BY <1>4, <1>5
  <1>8. \A n \in 1..(Len(s) - 1) : t[n] = s[n]
    BY <1>1, <1>2, <1>7
  <1>9. t[Len(s)] = two[1]
    <2>1. Len(s) \in 1..(Len(s) + 1) /\ ~(Len(s) <= Len(front)) /\ Len(s) - Len(front) = 1
      BY <1>1, <1>2
    <2>2. t[Len(s)] = two[Len(s) - Len(front)]
      BY <1>7, <2>1
    <2> QED
      BY <2>1, <2>2
  <1>10. t[Len(s) + 1] = two[2]
    <2>1. /\ Len(s) + 1 \in 1..(Len(s) + 1) /\ ~(Len(s) + 1 <= Len(front))
          /\ (Len(s) + 1) - Len(front) = 2
      BY <1>1, <1>2
    <2>2. t[Len(s) + 1] = two[(Len(s) + 1) - Len(front)]
      BY <1>7, <2>1
    <2> QED
      BY <2>1, <2>2
  <1>11. t # << >> /\ DOMAIN t = 1..(Len(s) + 1)
    BY <1>1, <1>6
  <1> QED
    BY <1>3, <1>6, <1>8, <1>9, <1>10, <1>11 DEF t, front, two

\* The frame of a function that has just been called.
LEMMA CalledFrames ==
    ASSUME NEW p, IsPackage(p), NEW f \in Function, NEW path \in p.body[f], NEW known,
           known[f] = "discharged" => SettlesIn(known, path),
           HandingOver(p) /\ known[f] = "kept" => known[f] = recorded(p, known, f)
    PROVE  /\ Frame(path) \in FrameSet
           /\ known[f] = "discharged" => Owes(known, Frame(path))
           /\ HandingOver(p) /\ known[f] = "kept" => Quiet(known, Frame(path))
  <1>1. path \in Seq(Act) /\ Frame(path).todo = path /\ Frame(path).later = << >>
    BY PathsOf DEF Frame
  <1>2. Frame(path) \in FrameSet
    BY <1>1 DEF Frame, FrameSet
  <1>3. SparesIn(known, << >>)
    BY DEF SparesIn
  <1> QED
    BY <1>1, <1>2, <1>3, RecordedTells DEF Owes, Quiet

\* Nothing has been called before the package runs.
LEMMA RunInit == Init => RunInv
  <1> SUFFICES ASSUME Init PROVE RunInv
    OBVIOUS
  <1>1. 1 \in Function /\ << >> \in Seq(FrameSet)
    BY SummariesAssumption DEF Function
  <1> QED
    BY <1>1 DEF Init, RunInv, DischargedSound

\* A call of a function by the package.
LEMMA EnterKeeps ==
    ASSUME LearnInv, RunInv, NEW f \in Function, NEW path \in package.body[f], Enter(f, path)
    PROVE  RunInv'
  <1>1. PICK p : p = package
    OBVIOUS
  <1>2. PICK known : known = entry
    OBVIOUS
  <1>3. /\ package' = p /\ entry' = known /\ phase' = "running" /\ root' = f
        /\ stack' = <<Frame(path)>> /\ ~settled' /\ ~left'
    BY <1>1, <1>2 DEF Enter, knowledge, RunInv
  <1>4. IsPackage(p) /\ (HandsOver <=> HandingOver(p)) /\ (HandsOver' <=> HandingOver(p))
    BY <1>1, <1>3, PackagesGiven DEF LearnInv, HandsOver, HandingOver
  <1>5. known[f] = "discharged" => SettlesIn(known, path)
    BY <1>1, <1>2 DEF LearnInv
  <1>6. HandingOver(p) /\ known[f] = "kept" => known[f] = recorded(p, known, f)
    BY <1>1, <1>2, <1>4 DEF LearnInv
  <1>7. /\ Frame(path) \in FrameSet
        /\ known[f] = "discharged" => Owes(known, Frame(path))
        /\ HandingOver(p) /\ known[f] = "kept" => Quiet(known, Frame(path))
    BY <1>1, <1>4, <1>5, <1>6, CalledFrames
  <1> DEFINE frame == Frame(path)
             frames == <<frame>>
  <1> HIDE DEF frame
  <1>8. frames \in Seq(FrameSet) /\ DOMAIN frames = {1} /\ frames[1] = frame /\ frames # << >>
    BY <1>7 DEF frame
  <1>9. stack' = frames
    BY <1>3 DEF frame
  <1> HIDE DEF frames
  <1> QED
    BY <1>3, <1>4, <1>7, <1>8, <1>9 DEF RunInv, DischargedSound, frame

\* What happens to the value keeps the invariant, where the frame that goes on
\* is told of: rest is what the running frame becomes.
LEMMA HappensKeeps ==
    ASSUME LearnInv, RunInv, phase = "running",
           NEW act \in Act, act.do \notin {"deferPay", "defer"},
           NEW rest \in FrameSet, Happens(act, rest),
           Owes(entry, Top) => Settles(entry, act) \/ Owes(entry, rest),
           Quiet(entry, Top) => act.do = "panic" \/ (Spares(entry, act) /\ Quiet(entry, rest))
    PROVE  RunInv'
  <1>1. PICK p : p = package
    OBVIOUS
  <1>2. PICK known : known = entry
    OBVIOUS
  <1>3. PICK s : s = stack
    OBVIOUS
  <1>4. /\ package' = p /\ entry' = known /\ root' = root
        /\ phase' \in {"running", "panicked"}
        /\ act.do # "panic" => phase' = "running"
        /\ act.do = "panic" => phase' = "panicked"
        /\ settled' <=> (settled \/ act.do = "pay")
        /\ left' <=> (left \/ (act.do = "hand" /\ "passed" \in package.escapes))
    <2>1. CASE act.do = "call"
      BY <1>1, <1>2, <2>1 DEF Happens, Called, knowledge
    <2>2. CASE act.do # "call"
      BY <1>1, <1>2, <2>2 DEF Happens, knowledge
    <2> QED
      BY <2>1, <2>2
  <1>5. IsPackage(p) /\ (HandsOver <=> HandingOver(p)) /\ (HandsOver' <=> HandingOver(p))
    BY <1>1, <1>4, PackagesGiven DEF LearnInv, HandsOver, HandingOver
  <1>6. s \in Seq(FrameSet) /\ s # << >>
    BY <1>3 DEF RunInv
  <1>7. Len(s) \in Nat \ {0} /\ DOMAIN s = 1..Len(s) /\ Top = s[Len(s)]
    BY <1>3, <1>6, LastDropped DEF Top
  <1>8. \A n \in 1..Len(s) : n # Len(s) =>
          n \in 1..(Len(s) - 1) /\ n \in 1..(Len(s) + 1)
    <2> DEFINE m == Len(s)
    <2>1. m \in Nat
      BY <1>7
    <2> HIDE DEF m
    <2>2. \A n \in 1..m : n # m => n \in 1..(m - 1) /\ n \in 1..(m + 1)
      BY <2>1
    <2> QED
      BY <2>2 DEF m
  \* The frames that go on, and the one called.
  <1> DEFINE GoesOnWith(t, m) ==
               /\ t \in Seq(FrameSet) /\ t # << >> /\ DOMAIN t = 1..m
               /\ \A n \in 1..(Len(s) - 1) : t[n] = s[n]
               /\ t[Len(s)] = rest
  <1>9. CASE act.do = "call"
    <2>1. act.callee \in Function
      BY <1>9 DEF Act
    <2>2. PICK path \in p.body[act.callee] : stack' = Front(s) \o <<rest, Frame(path)>>
      BY <1>1, <1>3, <1>9 DEF Happens, Called
    <2> DEFINE frame == Frame(path)
    <2>3. known[act.callee] = "discharged" => SettlesIn(known, path)
      BY <1>1, <1>2, <2>1 DEF LearnInv
    <2>4. HandingOver(p) /\ known[act.callee] = "kept" =>
            known[act.callee] = recorded(p, known, act.callee)
      BY <1>1, <1>2, <1>5, <2>1 DEF LearnInv
    <2>5. /\ frame \in FrameSet
          /\ known[act.callee] = "discharged" => Owes(known, frame)
          /\ HandingOver(p) /\ known[act.callee] = "kept" => Quiet(known, frame)
      BY <1>5, <2>1, <2>3, <2>4, CalledFrames
    <2> HIDE DEF frame
    <2> DEFINE t == Front(s) \o <<rest, frame>>
    <2>6. GoesOnWith(t, Len(s) + 1) /\ t[Len(s) + 1] = frame
      BY <1>6, <2>5, LastReplacedByTwo
    <2>7. stack' = t
      BY <2>2 DEF frame
    <2> HIDE DEF t
    <2>8. settled' = settled /\ left' = left /\ phase' = "running"
      BY <1>4, <1>9 DEF Happens, Called
    <2>9. ASSUME known[root] = "discharged"
          PROVE  settled' \/ \E n \in DOMAIN t : Owes(known, t[n])
      <3>1. CASE settled
        BY <2>8, <3>1
      <3>2. CASE ~settled
        <4>1. PICK n \in 1..Len(s) : Owes(known, s[n])
          BY <1>2, <1>3, <1>7, <2>9, <3>2 DEF RunInv
        <4>2. CASE n # Len(s)
          <5>1. n \in 1..(Len(s) - 1) /\ n \in 1..(Len(s) + 1)
            BY <1>8, <4>2
          <5>2. n \in DOMAIN t /\ t[n] = s[n]
            BY <2>6, <5>1
          <5> QED
            BY <4>1, <5>2
        <4>3. CASE n = Len(s)
          <5>1. Settles(known, act) \/ Owes(known, rest)
            BY <1>2, <1>7, <4>1, <4>3
          <5>2. Len(s) \in DOMAIN t /\ Len(s) + 1 \in DOMAIN t
            BY <1>7, <2>6
          <5>3. Settles(known, act) => Owes(known, frame)
            BY <1>9, <2>5 DEF Settles
          <5> QED
            BY <2>6, <5>1, <5>2, <5>3
        <4> QED
          BY <4>2, <4>3
      <3> QED
        BY <3>1, <3>2
    <2>10. ASSUME HandingOver(p), known[root] = "kept"
           PROVE  ~settled' /\ ~left' /\ \A n \in DOMAIN t : Quiet(known, t[n])
      <3>1. ~settled /\ ~left /\ \A n \in 1..Len(s) : Quiet(known, s[n])
        BY <1>2, <1>3, <1>5, <1>7, <2>10 DEF RunInv
      <3>2. Spares(known, act) /\ Quiet(known, rest)
        BY <1>2, <1>7, <1>9, <3>1
      <3>3. Quiet(known, frame)
        BY <1>9, <2>5, <2>10, <3>2 DEF Spares
      <3>4. \A n \in DOMAIN t : n \in 1..(Len(s) - 1) \/ n = Len(s) \/ n = Len(s) + 1
        BY <1>7, <2>6
      <3> QED
        BY <2>6, <2>8, <3>1, <3>2, <3>3, <3>4
    <2>11. root' \in Function
      BY <1>4 DEF RunInv
    <2> QED
      BY <1>4, <1>5, <2>6, <2>7, <2>8, <2>9, <2>10, <2>11 DEF RunInv, DischargedSound
  <1>10. CASE act.do # "call"
    <2> DEFINE t == Append(Front(s), rest)
    <2>1. stack' = t
      BY <1>3, <1>10 DEF Happens
    <2>2. GoesOnWith(t, Len(s))
      BY <1>6, LastReplaced
    <2> HIDE DEF t
    <2>3. ASSUME known[root] = "discharged", phase' = "running"
          PROVE  settled' \/ \E n \in DOMAIN t : Owes(known, t[n])
      <3>1. CASE settled
        BY <1>4, <3>1
      <3>2. CASE ~settled
        <4>1. PICK n \in 1..Len(s) : Owes(known, s[n])
          BY <1>2, <1>3, <1>7, <2>3, <3>2 DEF RunInv
        <4>2. CASE n # Len(s)
          <5>1. n \in 1..(Len(s) - 1) /\ n \in 1..Len(s)
            BY <1>8, <4>2
          <5>2. n \in DOMAIN t /\ t[n] = s[n]
            BY <2>2, <5>1
          <5> QED
            BY <4>1, <5>2
        <4>3. CASE n = Len(s)
          <5>1. Settles(known, act) \/ Owes(known, rest)
            BY <1>2, <1>7, <4>1, <4>3
          <5>2. Len(s) \in DOMAIN t
            BY <1>7, <2>2
          <5>3. Settles(known, act) => act.do = "pay"
            BY <1>4, <1>10, <2>3 DEF Settles
          <5> QED
            BY <1>4, <2>2, <5>1, <5>2, <5>3
        <4> QED
          BY <4>2, <4>3
      <3> QED
        BY <3>1, <3>2
    <2>4. ASSUME HandingOver(p), known[root] = "kept", phase' = "running"
          PROVE  ~settled' /\ ~left' /\ \A n \in DOMAIN t : Quiet(known, t[n])
      <3>1. ~settled /\ ~left /\ \A n \in 1..Len(s) : Quiet(known, s[n])
        BY <1>2, <1>3, <1>5, <1>7, <2>4 DEF RunInv
      <3>2. Spares(known, act) /\ Quiet(known, rest)
        BY <1>2, <1>4, <1>7, <2>4, <3>1
      <3>3. act.do = "nothing"
        BY <1>10, <3>2 DEF Spares
      <3>4. \A n \in DOMAIN t : n \in 1..(Len(s) - 1) \/ n = Len(s)
        BY <1>7, <2>2
      <3> QED
        BY <1>4, <2>2, <3>1, <3>2, <3>3, <3>4
    <2>5. root' \in Function
      BY <1>4 DEF RunInv
    <2> QED
      BY <1>4, <1>5, <2>1, <2>2, <2>3, <2>4, <2>5 DEF RunInv, DischargedSound
  <1> QED
    BY <1>9, <1>10

\* What the first act of a path and the rest of it do.
LEMMA FirstAct ==
    ASSUME NEW known, NEW path \in Seq(Act), path # << >>
    PROVE  /\ Head(path) \in Act /\ Tail(path) \in Seq(Act)
           /\ SettlesIn(known, path) => Settles(known, Head(path)) \/ SettlesIn(known, Tail(path))
           /\ SparesIn(known, path) => Spares(known, Head(path)) /\ SparesIn(known, Tail(path))
           /\ Doomed(known, path) =>
                \/ Head(path).do = "panic"
                \/ /\ Spares(known, Head(path)) \/ Head(path).do \in {"deferPay", "defer"}
                   /\ Doomed(known, Tail(path))
  <1> DEFINE head == Head(path)
             tail == Tail(path)
  <1>1. Len(path) \in Nat \ {0} /\ DOMAIN path = 1..Len(path)
    OBVIOUS
  <1>2. head = path[1] /\ head \in Act /\ tail \in Seq(Act) /\ Len(tail) = Len(path) - 1
    BY <1>1
  <1>3. DOMAIN tail = 1..(Len(path) - 1) /\ \A n \in 1..(Len(path) - 1) : tail[n] = path[n + 1]
    BY <1>1, <1>2
  <1> HIDE DEF head, tail
  <1>4. \A n \in 1..Len(path) : n = 1 \/ (n - 1 \in 1..(Len(path) - 1) /\ tail[n - 1] = path[n])
    <2> DEFINE m == Len(path)
    <2>1. m \in Nat \ {0} /\ \A n \in 1..(m - 1) : tail[n] = path[n + 1]
      BY <1>1, <1>3
    <2> HIDE DEF m
    <2>2. \A n \in 1..m : n = 1 \/ (n - 1 \in 1..(m - 1) /\ (n - 1) + 1 = n)
      BY <2>1
    <2>3. \A n \in 1..m : n = 1 \/ (n - 1 \in 1..(m - 1) /\ tail[n - 1] = path[n])
      BY <2>1, <2>2
    <2> QED
      BY <2>3 DEF m
  <1>5. \A n \in 1..(Len(path) - 1) : n + 1 \in 1..Len(path)
    BY <1>1
  <1>6. ASSUME SettlesIn(known, path)
        PROVE  Settles(known, head) \/ SettlesIn(known, tail)
    BY <1>1, <1>2, <1>3, <1>4, <1>6 DEF SettlesIn
  <1>7. ASSUME SparesIn(known, path)
        PROVE  Spares(known, head) /\ SparesIn(known, tail)
    BY <1>1, <1>2, <1>3, <1>5, <1>7 DEF SparesIn
  <1>8. ASSUME Doomed(known, path), head.do # "panic"
        PROVE  /\ Spares(known, head) \/ head.do \in {"deferPay", "defer"}
               /\ Doomed(known, tail)
    <2>1. PICK m \in 1..Len(path) :
             /\ path[m].do = "panic"
             /\ \A n \in 1..(m - 1) :
                  Spares(known, path[n]) \/ path[n].do \in {"deferPay", "defer"}
      BY <1>1, <1>8 DEF Doomed
    <2>2. m # 1
      BY <1>2, <1>8, <2>1
    <2>3. m \in Nat /\ 1 \in 1..(m - 1) /\ m - 1 \in 1..(Len(path) - 1)
      BY <1>1, <2>2
    <2>4. tail[m - 1].do = "panic"
      BY <1>4, <2>1, <2>2
    <2>5. ASSUME NEW n \in 1..((m - 1) - 1)
          PROVE  Spares(known, tail[n]) \/ tail[n].do \in {"deferPay", "defer"}
      <3>1. n \in 1..(Len(path) - 1) /\ n + 1 \in 1..(m - 1)
        BY <1>1, <2>3
      <3> QED
        BY <1>3, <2>1, <3>1
    <2> QED
      BY <1>2, <1>3, <2>1, <2>3, <2>4, <2>5 DEF Doomed
  <1> QED
    BY <1>2, <1>6, <1>7, <1>8 DEF head, tail

\* What a deferred call put last does, and what the calls before it do.
LEMMA LastLater ==
    ASSUME NEW known, NEW later \in Seq(Later), NEW act \in Later
    PROVE  /\ Append(later, act) \in Seq(Later)
           /\ SettlesIn(known, later) \/ Settles(known, act) => SettlesIn(known, Append(later, act))
           /\ SparesIn(known, later) /\ Spares(known, act) => SparesIn(known, Append(later, act))
  <1> DEFINE t == Append(later, act)
  <1>1. Len(later) \in Nat /\ DOMAIN later = 1..Len(later)
    OBVIOUS
  <1>2. t \in Seq(Later) /\ DOMAIN t = 1..(Len(later) + 1) /\ t[Len(later) + 1] = act
    BY <1>1
  <1>3. \A n \in 1..Len(later) : t[n] = later[n]
    BY <1>1
  <1> HIDE DEF t
  <1>4. \A n \in 1..(Len(later) + 1) : n \in 1..Len(later) \/ n = Len(later) + 1
    BY <1>1
  <1>5. Len(later) + 1 \in 1..(Len(later) + 1) /\ 1..Len(later) \subseteq 1..(Len(later) + 1)
    BY <1>1
  <1>6. SettlesIn(known, later) \/ Settles(known, act) => SettlesIn(known, t)
    BY <1>1, <1>2, <1>3, <1>5 DEF SettlesIn
  <1>7. SparesIn(known, later) /\ Spares(known, act) => SparesIn(known, t)
    BY <1>1, <1>2, <1>3, <1>4 DEF SparesIn
  <1> QED
    BY <1>2, <1>6, <1>7 DEF t

\* The deferred call that runs next, and those that are left.
LEMMA NextLater ==
    ASSUME NEW known, NEW later \in Seq(Later), later # << >>
    PROVE  /\ Last(later) \in Later /\ Front(later) \in Seq(Later)
           /\ SettlesIn(known, later) =>
                Settles(known, Last(later)) \/ SettlesIn(known, Front(later))
           /\ SparesIn(known, later) =>
                Spares(known, Last(later)) /\ SparesIn(known, Front(later))
  <1> DEFINE last == Last(later)
             front == Front(later)
  <1>1. /\ Len(later) \in Nat \ {0} /\ DOMAIN later = 1..Len(later)
        /\ last = later[Len(later)] /\ last \in Later
        /\ front \in Seq(Later) /\ DOMAIN front = 1..(Len(later) - 1)
        /\ \A n \in 1..(Len(later) - 1) : front[n] = later[n]
    BY LastDropped
  <1> HIDE DEF last, front
  <1> DEFINE m == Len(later)
  <1>2. m \in Nat \ {0}
    BY <1>1
  <1>3. /\ DOMAIN later = 1..m /\ last = later[m] /\ DOMAIN front = 1..(m - 1)
        /\ \A n \in 1..(m - 1) : front[n] = later[n]
    BY <1>1
  <1> HIDE DEF m
  <1>4. m \in 1..m /\ \A n \in 1..m : n = m \/ n \in 1..(m - 1)
    BY <1>2
  <1>5. 1..(m - 1) \subseteq 1..m
    BY <1>2
  <1>6. SettlesIn(known, later) => Settles(known, last) \/ SettlesIn(known, front)
    BY <1>3, <1>4 DEF SettlesIn
  <1>7. SparesIn(known, later) => Spares(known, last) /\ SparesIn(known, front)
    BY <1>3, <1>4, <1>5 DEF SparesIn
  <1> QED
    BY <1>1, <1>6, <1>7 DEF last, front

\* A deferred call is an act.
LEMMA LaterActs ==
    ASSUME NEW act \in Later
    PROVE  act \in Act /\ act.do \in {"pay", "call"}
  BY DEF Later, Act

\* An act of the running frame.
LEMMA RunKeeps ==
    ASSUME LearnInv, RunInv, Run
    PROVE  RunInv'
  <1>1. PICK known : known = entry
    OBVIOUS
  <1>2. PICK top : top = Top
    OBVIOUS
  <1>3. phase = "running" /\ top.todo # << >>
    BY <1>2 DEF Run
  <1>4. top \in FrameSet
    BY <1>2, <1>3, LastDropped DEF RunInv, Top
  <1>5. top.todo \in Seq(Act) /\ top.later \in Seq(Later)
    BY <1>4 DEF FrameSet
  <1> DEFINE act == Head(top.todo)
             tail == Tail(top.todo)
             going == [top EXCEPT !.todo = Tail(@)]
             restOf(more) == [going EXCEPT !.later = more]
  <1>6. /\ act \in Act /\ tail \in Seq(Act)
        /\ SettlesIn(known, top.todo) => Settles(known, act) \/ SettlesIn(known, tail)
        /\ SparesIn(known, top.todo) => Spares(known, act) /\ SparesIn(known, tail)
        /\ Doomed(known, top.todo) =>
             \/ act.do = "panic"
             \/ /\ Spares(known, act) \/ act.do \in {"deferPay", "defer"}
                /\ Doomed(known, tail)
    BY <1>3, <1>5, FirstAct
  <1>7. going \in FrameSet /\ going.todo = tail /\ going.later = top.later
    BY <1>4, <1>6 DEF FrameSet
  <1>8. \A more \in Seq(Later) :
          restOf(more) \in FrameSet /\ restOf(more).todo = tail /\ restOf(more).later = more
    <2> HIDE DEF going, tail
    <2> QED
      BY <1>7 DEF FrameSet
  <1> DEFINE deferredCall == [do |-> "call", callee |-> act.callee]
             payLater == Append(top.later, [do |-> "pay"])
             callLater == Append(top.later, deferredCall)
  <1>9. /\ act.do = "deferPay" => Happens([do |-> "nothing"], restOf(payLater))
        /\ act.do = "defer" => Happens([do |-> "nothing"], restOf(callLater))
        /\ act.do \notin {"deferPay", "defer"} => Happens(act, going)
    <2>1. going.later = top.later
      BY <1>7
    <2>2. act.do = "deferPay" =>
            Happens([do |-> "nothing"],
                    [going EXCEPT !.later = Append(going.later, [do |-> "pay"])])
      BY <1>2 DEF Run
    <2>3. act.do = "defer" =>
            Happens([do |-> "nothing"],
                    [going EXCEPT !.later = Append(going.later, deferredCall)])
      BY <1>2 DEF Run
    <2>4. act.do \notin {"deferPay", "defer"} => Happens(act, going)
      BY <1>2 DEF Run
    <2> HIDE DEF act, tail, going
    <2> QED
      BY <2>1, <2>2, <2>3, <2>4
  <1>10. [do |-> "nothing"] \in Act /\ Spares(known, [do |-> "nothing"])
    BY DEF Act, Spares
  <1> HIDE DEF act, tail, going, restOf
  <1>11. CASE act.do \notin {"deferPay", "defer"}
    <2>1. Owes(known, top) => Settles(known, act) \/ Owes(known, going)
      BY <1>6, <1>7 DEF Owes
    <2>2. Quiet(known, top) => act.do = "panic" \/ (Spares(known, act) /\ Quiet(known, going))
      BY <1>6, <1>7, <1>11 DEF Quiet
    <2> QED
      BY <1>1, <1>2, <1>3, <1>6, <1>7, <1>9, <1>11, <2>1, <2>2, HappensKeeps
  <1> DEFINE nothing == [do |-> "nothing"]
  <1>12. nothing \in Act /\ Spares(known, nothing) /\ nothing.do \notin {"deferPay", "defer"}
    BY <1>10
  <1>13. CASE act.do = "deferPay"
    <2> DEFINE rest == restOf(payLater)
               pay == [do |-> "pay"]
    <2>1. pay \in Later /\ Settles(known, pay)
      BY DEF Later, Settles
    <2>2. payLater \in Seq(Later) /\ SettlesIn(known, payLater)
      BY <1>5, <2>1, LastLater
    <2>3. rest \in FrameSet /\ Happens(nothing, rest) /\ rest.todo = tail /\ rest.later = payLater
      BY <1>8, <1>9, <1>13, <2>2
    <2> HIDE DEF rest, nothing, payLater
    <2>4. Owes(known, rest)
      BY <2>2, <2>3 DEF Owes
    <2>5. Quiet(known, top) => Quiet(known, rest)
      BY <1>6, <1>13, <2>3 DEF Quiet, Spares
    <2> QED
      BY <1>1, <1>2, <1>3, <1>12, <2>3, <2>4, <2>5, HappensKeeps
  <1>14. CASE act.do = "defer"
    <2> DEFINE rest == restOf(callLater)
    <2>1. deferredCall \in Later
      BY <1>6, <1>14 DEF Later, Act
    <2>2. /\ Settles(known, act) => Settles(known, deferredCall)
          /\ Spares(known, act) => Spares(known, deferredCall)
      BY <1>14 DEF Settles, Spares
    <2> HIDE DEF deferredCall
    <2>3. /\ callLater \in Seq(Later)
          /\ SettlesIn(known, top.later) \/ Settles(known, act) => SettlesIn(known, callLater)
          /\ SparesIn(known, top.later) /\ Spares(known, act) => SparesIn(known, callLater)
      BY <1>5, <2>1, <2>2, LastLater
    <2>4. rest \in FrameSet /\ Happens(nothing, rest) /\ rest.todo = tail /\ rest.later = callLater
      BY <1>8, <1>9, <1>14, <2>3
    <2> HIDE DEF rest, nothing, callLater
    <2>5. Owes(known, top) => Owes(known, rest)
      BY <1>6, <2>3, <2>4 DEF Owes
    <2>6. Quiet(known, top) => Quiet(known, rest)
      BY <1>6, <1>14, <2>3, <2>4 DEF Quiet
    <2> QED
      BY <1>1, <1>2, <1>3, <1>12, <2>4, <2>5, <2>6, HappensKeeps
  <1> QED
    BY <1>11, <1>13, <1>14

\* A deferred call of the running frame.
LEMMA RunDeferredKeeps ==
    ASSUME LearnInv, RunInv, RunDeferred
    PROVE  RunInv'
  <1>1. PICK known : known = entry
    OBVIOUS
  <1>2. PICK top : top = Top
    OBVIOUS
  <1>3. phase = "running" /\ top.todo = << >> /\ top.later # << >>
    BY <1>2 DEF RunDeferred
  <1>4. top \in FrameSet
    BY <1>2, <1>3, LastDropped DEF RunInv, Top
  <1>5. top.later \in Seq(Later)
    BY <1>4 DEF FrameSet
  <1> DEFINE act == Last(top.later)
             front == Front(top.later)
             rest == [top EXCEPT !.later = Front(@)]
  <1>6. /\ act \in Later /\ front \in Seq(Later)
        /\ SettlesIn(known, top.later) => Settles(known, act) \/ SettlesIn(known, front)
        /\ SparesIn(known, top.later) => Spares(known, act) /\ SparesIn(known, front)
    BY <1>3, <1>5, NextLater
  <1>7. rest \in FrameSet /\ rest.todo = << >> /\ rest.later = front
    BY <1>3, <1>4, <1>6 DEF FrameSet
  <1>8. Happens(act, rest)
    BY <1>2 DEF RunDeferred
  <1> HIDE DEF act, front, rest
  <1>9. act \in Act /\ act.do \notin {"deferPay", "defer"}
    BY <1>6, LaterActs
  <1>10. ~SettlesIn(known, << >>) /\ ~Doomed(known, << >>)
    BY DEF SettlesIn, Doomed
  <1>11. Owes(known, top) => Settles(known, act) \/ Owes(known, rest)
    BY <1>3, <1>6, <1>7, <1>10 DEF Owes
  <1>12. Quiet(known, top) => Spares(known, act) /\ Quiet(known, rest)
    BY <1>3, <1>6, <1>7, <1>10 DEF Quiet
  <1> QED
    BY <1>1, <1>2, <1>3, <1>7, <1>8, <1>9, <1>11, <1>12, HappensKeeps

\* The return of a function: its frame owed nothing more.
LEMMA LeaveKeeps ==
    ASSUME LearnInv, RunInv, Leave
    PROVE  RunInv'
  <1>1. PICK known : known = entry
    OBVIOUS
  <1>2. PICK s : s = stack
    OBVIOUS
  <1>3. /\ phase = "running" /\ Top.todo = << >> /\ Top.later = << >>
        /\ stack' = Front(s) /\ phase' = (IF Len(s) = 1 THEN "returned" ELSE "running")
        /\ package' = package /\ entry' = known /\ root' = root
        /\ settled' = settled /\ left' = left
    BY <1>1, <1>2 DEF Leave, knowledge
  <1>4. s \in Seq(FrameSet) /\ s # << >>
    BY <1>2, <1>3 DEF RunInv
  <1> DEFINE t == Front(s)
  <1>5. /\ Len(s) \in Nat \ {0} /\ DOMAIN s = 1..Len(s) /\ Top = s[Len(s)]
        /\ t \in Seq(FrameSet) /\ DOMAIN t = 1..(Len(s) - 1)
        /\ \A n \in 1..(Len(s) - 1) : t[n] = s[n]
        /\ t = << >> => Len(s) = 1
    BY <1>2, <1>4, LastDropped DEF Top
  <1>6. stack' = t
    BY <1>3
  <1> HIDE DEF t
  <1> DEFINE m == Len(s)
  <1>7. m \in Nat \ {0}
    BY <1>5
  <1>8. /\ DOMAIN s = 1..m /\ Top = s[m] /\ DOMAIN t = 1..(m - 1)
        /\ \A n \in 1..(m - 1) : t[n] = s[n]
        /\ phase' = IF m = 1 THEN "returned" ELSE "running"
    BY <1>3, <1>5
  <1> HIDE DEF m
  <1>9. (\A n \in 1..m : n = m \/ n \in 1..(m - 1)) /\ 1..(m - 1) \subseteq 1..m
    BY <1>7
  <1>10. m = 1 => 1..(m - 1) = {}
    BY <1>7
  <1>11. ~Owes(known, Top)
    BY <1>3 DEF Owes, SettlesIn
  <1>12. HandsOver' <=> HandsOver
    BY <1>3 DEF HandsOver
  <1>13. ASSUME known[root] = "discharged"
         PROVE  settled \/ \E n \in DOMAIN t : Owes(known, t[n])
    <2>1. settled \/ \E n \in 1..m : Owes(known, s[n])
      BY <1>1, <1>2, <1>3, <1>8, <1>13 DEF RunInv
    <2> QED
      BY <1>8, <1>9, <1>11, <2>1
  <1>14. ASSUME HandsOver, known[root] = "kept"
         PROVE  ~settled /\ ~left /\ \A n \in DOMAIN t : Quiet(known, t[n])
    <2>1. ~settled /\ ~left /\ \A n \in 1..m : Quiet(known, s[n])
      BY <1>1, <1>2, <1>3, <1>8, <1>14 DEF RunInv
    <2> QED
      BY <1>8, <1>9, <2>1
  <1>15. /\ root' \in Function /\ t \in Seq(FrameSet)
         /\ phase' = "running" => t # << >>
    BY <1>3, <1>5, <1>8 DEF RunInv, m
  <1>16. phase' = "returned" /\ known[root] = "discharged" => settled
    BY <1>8, <1>10, <1>13
  <1> QED
    BY <1>3, <1>6, <1>8, <1>12, <1>13, <1>14, <1>15, <1>16 DEF RunInv, DischargedSound

\* What a run keeps is kept by every step.
LEMMA RunStep == LearnInv /\ RunInv /\ [Next]_vars => RunInv'
  <1> SUFFICES ASSUME LearnInv, RunInv, [Next]_vars PROVE RunInv'
    OBVIOUS
  <1>1. ASSUME ghost' = ghost, phase \in {"learning", "learned"}, phase' \in {"learning", "learned"}
        PROVE  RunInv'
    BY <1>1 DEF ghost, RunInv, DischargedSound
  <1>2. CASE Learn
    BY <1>1, <1>2 DEF Learn
  <1>3. CASE Again
    BY <1>1, <1>3 DEF Again
  <1>4. CASE Settle
    BY <1>1, <1>4 DEF Settle
  <1>5. CASE \E f \in Function : \E path \in package.body[f] : Enter(f, path)
    BY <1>5, EnterKeeps
  <1>6. CASE Run
    BY <1>6, RunKeeps
  <1>7. CASE RunDeferred
    BY <1>7, RunDeferredKeeps
  <1>8. CASE Leave
    BY <1>8, LeaveKeeps
  <1>9. CASE UNCHANGED vars
    BY <1>9 DEF vars, knowledge, ghost, RunInv, DischargedSound, HandsOver
  <1> QED
    BY <1>2, <1>3, <1>4, <1>5, <1>6, <1>7, <1>8, <1>9 DEF Next, Learning, Running

---------------------------------------------------------------------------

\* What is recorded of a function is so of every call of it, whatever functions
\* the package has and however they call each other (summary.go, follow and
\* summary).
THEOREM RecordedIsSo == Spec => []RecordedSound
  <1>1. Init => LearnInv /\ RunInv
    BY LearnInit, RunInit
  <1>2. LearnInv /\ RunInv /\ [Next]_vars => LearnInv' /\ RunInv'
    BY LearnStep, RunStep
  <1>3. LearnInv /\ RunInv => RecordedSound
    BY DEF RunInv, RecordedSound, KeptSound
  <1> QED
    BY <1>1, <1>2, <1>3, PTL DEF Spec

\* Where a call of a function not known yet hands the value over, the round that
\* learned nothing leaves nothing to learn, and what was recorded early is what
\* would be recorded now (summary.go, learnSummaries).
THEOREM LearningLeavesNothing == Spec => []NothingLeftHandingOver
  <1>1. LearnInv => NothingLeftHandingOver
    <2> SUFFICES ASSUME LearnInv, HandsOver, phase = "learned", NEW f \in Function
                 PROVE  entry[f] = recorded(package, entry, f)
      BY DEF NothingLeftHandingOver, NothingLeft
    <2>1. reading = N + 1 /\ ~learned
      BY DEF LearnInv
    <2>2. f \in 1..(reading - 1)
      BY <2>1, SummariesAssumption DEF Function
    <2> QED
      BY <2>1, <2>2 DEF LearnInv
  <1> QED
    BY <1>1, LearnInit, LearnStep, PTL DEF Spec
=============================================================================
