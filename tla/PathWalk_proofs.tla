--------------------------- MODULE PathWalk_proofs ---------------------------
(***************************************************************************)
(* What PathWalk's runs show on small instances, proved for every function, *)
(* every rule and every length of path.                                     *)
(***************************************************************************)
EXTENDS PathWalk, TLAPS

---------------------------------------------------------------------------
(* The steps of Flow stay in their types, and what they do to the counts.   *)

\* Noting what an instruction tells of errors and closures changes nothing that
\* is counted (flow.go, advance).
LEMMA NotedCounts ==
    ASSUME NEW p \in Protocol, NEW s \in State, NEW i \in Instruction
    PROVE  /\ noted(p, s, i) \in State
           /\ noted(p, s, i).open = s.open
           /\ noted(p, s, i).deferred = s.deferred
           /\ noted(p, s, i).uncertain = s.uncertain
           /\ noted(p, s, i).called = s.called
  <1> DEFINE s1 == stored(p, s, i)
             s2 == remembered(p, s1, i)
             s3 == registered(p, s2, i)
  <1>1. /\ s1 \in State /\ s1.open = s.open /\ s1.deferred = s.deferred
        /\ s1.uncertain = s.uncertain /\ s1.called = s.called
    BY DEF stored, State
  <1>2. /\ s2 \in State /\ s2.open = s1.open /\ s2.deferred = s1.deferred
        /\ s2.uncertain = s1.uncertain /\ s2.called = s1.called
    <2> HIDE DEF s1
    <2> QED BY <1>1 DEF remembered, State
  <1>3. /\ s3 \in State /\ s3.open = s2.open /\ s3.deferred = s2.deferred
        /\ s3.uncertain = s2.uncertain /\ s3.called = s2.called
    <2> HIDE DEF s2
    <2> QED BY <1>2 DEF registered, State, Instruction
  <1> QED BY <1>1, <1>2, <1>3 DEF noted

\* Each event an instruction can be, and only the events there are.
LEMMA ClassifyType ==
    ASSUME NEW p \in Protocol, NEW i \in Instruction
    PROVE  classify(p, i) \in Events
  BY DEF classify, called, deferred, Events

\* What an event does to the counts of a state with something open.
LEMMA AfterCounts ==
    ASSUME NEW s \in State, s.open > 0, NEW happened \in Events
    PROVE  LET out == after(s, happened)
           IN  /\ out \in Outcome
               /\ out.leak = "none"
               /\ out.goes => out.state.open > 0
               /\ out.state.open =
                    IF happened = "trigger" THEN raised(s.open)
                    ELSE IF happened = "satisfier" THEN s.open - 1 ELSE s.open
               /\ out.state.deferred =
                    IF happened = "deferred" THEN raised(s.deferred)
                    ELSE s.deferred
               /\ out.ending = "discharged" => out.state.open = 0
               /\ out.state.called =
                    (s.called \/ happened \in {"satisfier", "undeferred"})
               /\ out.state.uncertain = s.uncertain
  <1> USE DEF Goes, Ends
  <1>1. CASE happened = "satisfier"
    <2> DEFINE next == [s EXCEPT !.open = @ - 1, !.called = TRUE]
    <2>1. s.open - 1 \in 0..saturated
      BY DEF State, saturated
    <2>2. next \in State
      BY <2>1 DEF State
    <2>3. /\ next.open = s.open - 1 /\ next.called = TRUE
          /\ next.deferred = s.deferred /\ next.uncertain = s.uncertain
      BY DEF State
    <2>4. after(s, happened) = IF next.open = 0 THEN Ends(next, "none", "discharged")
                               ELSE Goes(next)
      BY <1>1 DEF after, paid
    <2>5. next.open # 0 => next.open > 0
      BY <2>1, <2>3 DEF saturated
    <2> HIDE DEF next
    <2>6. after(s, happened) \in Outcome
      BY <2>2, <2>4 DEF Outcome, Leaks, Endings
    <2> QED
      BY <1>1, <2>2, <2>3, <2>4, <2>5, <2>6 DEF State
  <1>2. CASE happened \in {"trigger", "deferred"}
    <2>1. /\ raised(s.open) \in 0..saturated /\ raised(s.open) > 0
          /\ raised(s.deferred) \in 0..saturated
      BY DEF State, raised, saturated
    <2>2. /\ [s EXCEPT !.open = raised(@)] \in State
          /\ [s EXCEPT !.deferred = raised(@)] \in State
      BY <2>1 DEF State
    <2>3. after(s, happened) \in Outcome
      BY <1>2, <2>2 DEF after, Outcome, Leaks, Endings
    <2> QED
      BY <1>2, <2>1, <2>3 DEF after, State
  <1>3. CASE happened \notin {"satisfier", "trigger", "deferred"}
    <2>1. [s EXCEPT !.called = TRUE] \in State
      BY DEF State
    <2>2. after(s, happened) \in Outcome
      BY <1>3, <2>1 DEF after, Outcome, Leaks, Endings, Events
    <2> QED
      BY <1>3, <2>2 DEF after, Events, State
  <1> QED BY <1>1, <1>2, <1>3

\* One step of the search, on its counts: what it reports is above what is
\* deferred, what it discharges is not.
LEMMA StepCounts ==
    ASSUME NEW p \in Protocol, NEW s \in State, s.open > 0, NEW i \in Instruction
    PROVE  LET out      == step(p, s, i)
               happened == classify(p, i)
           IN  /\ out \in Outcome
               /\ out.goes => out.state.open > 0
               /\ out.leak \in {"atExit", "beforeDefer"} =>
                    out.state.open > out.state.deferred
               /\ out.ending = "discharged" => out.state.open <= out.state.deferred
               /\ out.leak = "beforeDefer" =>
                    out.state.open = s.open /\ out.state.deferred = s.deferred
               /\ out.leak # "beforeDefer" =>
                    /\ out.state.open =
                         IF happened = "trigger" THEN raised(s.open)
                         ELSE IF happened = "satisfier" THEN s.open - 1 ELSE s.open
                    /\ out.state.deferred =
                         IF happened = "deferred" THEN raised(s.deferred)
                         ELSE s.deferred
  <1> DEFINE known    == noted(p, s, i)
             happened == classify(p, i)
             out      == step(p, s, i)
  <1>1. /\ known \in State /\ known.open = s.open /\ known.deferred = s.deferred
        /\ known.uncertain = s.uncertain /\ happened \in Events
    BY NotedCounts, ClassifyType
  <1>2. out = IF callsBeforeDefer(p, known, i, happened)
              THEN Ends(known, "beforeDefer", "none")
              ELSE IF happened = "exit" THEN exit(p, known, i)
              ELSE after(known, happened)
    BY DEF step
  <1> HIDE DEF known, happened, out
  <1>3. CASE callsBeforeDefer(p, known, i, happened)
    <2>1. /\ out.state = known /\ out.goes = FALSE /\ out.leak = "beforeDefer"
          /\ out.ending = "none" /\ out \in Outcome
      BY <1>1, <1>2, <1>3 DEF Ends, Outcome, Leaks, Endings
    <2>2. known.deferred < known.open
      BY <1>3 DEF callsBeforeDefer
    <2> QED
      BY <1>1, <2>1, <2>2 DEF State, out, happened
  <1>4. CASE ~callsBeforeDefer(p, known, i, happened) /\ happened = "exit"
    <2> DEFINE leak == leakAt(p, known, i)
    <2>1. leak \in {"none", "atExit", "onSuccess"}
          /\ (leak = "atExit" => known.open > known.deferred)
      BY DEF leakAt
    <2> HIDE DEF leak
    <2>2. out = Ends(known, leak, IF leak = "atExit" THEN "open"
                                  ELSE IF known.open <= known.deferred
                                  THEN "discharged" ELSE "none")
      BY <1>2, <1>4 DEF exit, leak
    <2>3. /\ out.state = known /\ out.goes = FALSE /\ out.leak = leak
          /\ out.ending = "discharged" => known.open <= known.deferred
          /\ out \in Outcome
      BY <1>1, <2>1, <2>2 DEF Ends, Outcome, Leaks, Endings
    <2> QED
      BY <1>1, <1>4, <2>1, <2>3 DEF State, out, happened
  <1>5. CASE ~callsBeforeDefer(p, known, i, happened) /\ happened # "exit"
    <2>1. out = after(known, happened)
      BY <1>2, <1>5
    <2>2. known.open > 0
      BY <1>1
    <2>3. /\ out \in Outcome /\ out.leak = "none"
          /\ out.goes => out.state.open > 0
          /\ out.state.open = IF happened = "trigger" THEN raised(known.open)
                              ELSE IF happened = "satisfier" THEN known.open - 1
                              ELSE known.open
          /\ out.state.deferred = IF happened = "deferred"
                                  THEN raised(known.deferred) ELSE known.deferred
          /\ out.ending = "discharged" => out.state.open = 0
      BY <1>1, <2>1, <2>2, AfterCounts
    <2>4. out.state.deferred >= 0
      BY <2>3 DEF Outcome, State, saturated
    <2> QED
      BY <1>1, <2>3, <2>4 DEF out, happened
  <1> QED BY <1>3, <1>4, <1>5

\* What the program does to the exact counts is what the event says.
LEMMA GhostCounts ==
    ASSUME NEW i \in Instruction, protocol \in Protocol
    PROVE  LET happened == classify(protocol, i)
           IN  /\ happened = "trigger" <=> Opens(i) /\ ~protocol.idempotent
               /\ happened = "satisfier" <=>
                    Pays(i) /\ ~Opens(i) /\ ~protocol.requireDefer
               /\ happened = "deferred" <=> Defers(i)
  <1>1. CASE i.op = "Call"
    BY <1>1 DEF classify, called, Opens, Pays, Defers
  <1>2. CASE i.op = "Defer"
    BY <1>2 DEF classify, deferred, Opens, Pays, Defers
  <1>3. CASE i.op \notin {"Call", "Defer"}
    BY <1>3 DEF classify, Opens, Pays, Defers
  <1> QED BY <1>1, <1>2, <1>3

---------------------------------------------------------------------------
(* Counting.                                                                *)

\* The part of the type that the counts need.
CountType ==
    /\ protocol \in Protocols
    /\ outcome \in Outcome
    /\ owed \in Nat /\ covered \in Nat
    /\ overflowed \in BOOLEAN

\* The search's counts are the program's, cut off at two; an outcome that goes
\* on has something open.
CountInv ==
    /\ CountType
    /\ outcome.goes => outcome.state.open > 0
    /\ outcome.state.open <= owed
    /\ ~overflowed => outcome.state.open = owed
    /\ outcome.state.deferred = IF covered < saturated THEN covered ELSE saturated
    /\ outcome.leak \in {"atExit", "beforeDefer"} =>
         outcome.state.open > outcome.state.deferred
    /\ outcome.ending = "discharged" =>
         outcome.state.open <= outcome.state.deferred

\* A branch changes no count.
LEMMA IntoCounts ==
    ASSUME NEW p \in Protocol, NEW s \in State, NEW c \in Condition,
           NEW position \in 1..2
    PROVE  LET next == into(p, s, c, position)
           IN  /\ next \in State /\ next.open = s.open
               /\ next.deferred = s.deferred /\ next.called = s.called
  <1>1. /\ along(s, c, position) \in State
        /\ along(s, c, position).open = s.open
        /\ along(s, c, position).deferred = s.deferred
        /\ along(s, c, position).called = s.called
    BY DEF along, State
  <1>2. \A b \in BOOLEAN :
           /\ [s EXCEPT !.uncertain = b] \in State
           /\ [s EXCEPT !.uncertain = b].open = s.open
           /\ [s EXCEPT !.uncertain = b].deferred = s.deferred
           /\ [s EXCEPT !.uncertain = b].called = s.called
    BY DEF State
  <1> QED BY <1>1, <1>2 DEF into

\* On every path of every function and rule, the saturated counts of the search
\* stay beside what the program owes and has deferred: no fewer openings, no
\* more defers (state.after, callsBeforeDefer, leakAt).
THEOREM Counting == Spec => []CountInv
  <1>1. Init => CountInv
    <2>1. Start \in State /\ Start.open = 1 /\ Start.deferred = 0
      BY DEF Start, State, saturated
    <2>2. Goes(Start) \in Outcome /\ Goes(Start).state = Start
          /\ Goes(Start).leak = "none" /\ Goes(Start).ending = "none"
      BY <2>1 DEF Goes, Outcome, Leaks, Endings
    <2>3. ASSUME Init
          PROVE  /\ protocol \in Protocols /\ outcome = Goes(Start)
                 /\ owed = 1 /\ covered = 0 /\ overflowed = FALSE
      BY <2>3 DEF Init
    <2> QED
      BY <2>1, <2>2, <2>3 DEF CountInv, CountType, saturated
  <1>2. CountInv /\ [Next]_vars => CountInv'
    <2> SUFFICES ASSUME CountInv, [Next]_vars PROVE CountInv'
      OBVIOUS
    <2>0. protocol \in Protocol /\ outcome \in Outcome /\ outcome.state \in State
      BY WalkAssumption DEF CountInv, CountType, Outcome
    <2>1. ASSUME NEW i \in Instructions, Execute(i) PROVE CountInv'
      <3> DEFINE out      == step(protocol, outcome.state, i)
                 happened == classify(protocol, i)
      <3>1. i \in Instruction /\ outcome.state.open > 0
        BY <2>1, WalkAssumption DEF Execute, CountInv
      <3>2. /\ out \in Outcome
            /\ out.goes => out.state.open > 0
            /\ out.leak \in {"atExit", "beforeDefer"} =>
                 out.state.open > out.state.deferred
            /\ out.ending = "discharged" => out.state.open <= out.state.deferred
            /\ out.leak = "beforeDefer" =>
                 /\ out.state.open = outcome.state.open
                 /\ out.state.deferred = outcome.state.deferred
            /\ out.leak # "beforeDefer" =>
                 /\ out.state.open =
                      IF happened = "trigger" THEN raised(outcome.state.open)
                      ELSE IF happened = "satisfier" THEN outcome.state.open - 1
                      ELSE outcome.state.open
                 /\ out.state.deferred =
                      IF happened = "deferred" THEN raised(outcome.state.deferred)
                      ELSE outcome.state.deferred
        BY <2>0, <3>1, StepCounts
      <3>3. /\ happened = "trigger" <=> Opens(i) /\ ~protocol.idempotent
            /\ happened = "satisfier" <=>
                 Pays(i) /\ ~Opens(i) /\ ~protocol.requireDefer
            /\ happened = "deferred" <=> Defers(i)
        BY <2>0, <3>1, GhostCounts
      <3>4. /\ outcome' = out /\ owed' = owedAfter(i) /\ protocol' = protocol
            /\ covered' = IF Defers(i) THEN covered + 1 ELSE covered
            /\ overflowed' = (overflowed \/ (owedAfter(i) > owed
                                               /\ outcome.state.open = saturated))
        BY <2>1 DEF Execute
      <3>5. Panics(i) <=> out.leak = "beforeDefer"
        BY DEF Panics
      <3>6. out.leak = "beforeDefer" => ~Defers(i)
        BY DEF step, Ends, exit, leakAt, after, paid, Goes, callsBeforeDefer, Defers
      <3> HIDE DEF out, happened
      <3>7. owedAfter(i) = IF out.leak = "beforeDefer" THEN owed
                           ELSE IF happened = "trigger" THEN owed + 1
                           ELSE IF happened = "satisfier" THEN owed - 1 ELSE owed
        BY <3>3, <3>5 DEF owedAfter
      <3>8. /\ outcome.state.open \in 0..saturated
            /\ outcome.state.deferred \in 0..saturated
        BY <2>0 DEF State
      <3>9. /\ owed \in Nat /\ covered \in Nat /\ outcome.state.open <= owed
            /\ ~overflowed => outcome.state.open = owed
        BY DEF CountInv, CountType
      <3>10. owedAfter(i) \in Nat /\ covered' \in Nat
        BY <3>1, <3>4, <3>7, <3>8, <3>9
      <3>11. CountType'
        BY <3>2, <3>4, <3>10 DEF CountInv, CountType
      <3>12. out.state.open <= owedAfter(i)
        BY <3>1, <3>2, <3>7, <3>8, <3>9 DEF raised, saturated
      <3>13. ~overflowed' =>
               ~overflowed /\ ~(owedAfter(i) > owed /\ outcome.state.open = saturated)
        BY <3>4
      <3>14. ASSUME ~overflowed' PROVE out.state.open = owedAfter(i)
        <4>1. outcome.state.open = owed
              /\ ~(owedAfter(i) > owed /\ outcome.state.open = saturated)
          BY <3>9, <3>13, <3>14
        <4> QED
          BY <3>1, <3>2, <3>7, <3>8, <3>9, <4>1 DEF raised, saturated
      <3>15. outcome'.state.deferred =
               IF covered' < saturated THEN covered' ELSE saturated
        BY <3>2, <3>3, <3>4, <3>6, <3>8 DEF CountInv, CountType, raised, saturated
      <3> QED
        BY <3>2, <3>4, <3>15, <3>11, <3>12, <3>14 DEF CountInv
    <2>2. ASSUME NEW c \in Conditions, NEW position \in 1..2, Branch(c, position)
          PROVE  CountInv'
      <3> DEFINE next == into(protocol, outcome.state, c, position)
      <3>1. /\ next \in State /\ next.open = outcome.state.open
            /\ next.deferred = outcome.state.deferred
        BY <2>0, WalkAssumption, IntoCounts
      <3>2. UNCHANGED <<protocol, owed, covered, overflowed>> /\ outcome.goes
        BY <2>2 DEF Branch, counts
      <3>3. outcome' = outcome \/ outcome' = Goes(next)
        BY <2>2 DEF Branch
      <3> HIDE DEF next
      <3>4. CASE outcome' = Goes(next)
        BY <3>1, <3>2, <3>4 DEF CountInv, CountType, Goes, Outcome, Leaks, Endings
      <3> QED
        BY <3>2, <3>3, <3>4 DEF CountInv, CountType
    <2>3. /\ \A v \in Variable : Load(v) => CountInv'
          /\ \A x \in Value : Redefine(x) => CountInv'
      BY DEF Load, Redefine, CountInv, CountType, search, counts
    <2>4. CASE UNCHANGED vars
      BY <2>4 DEF vars, search, counts, CountInv, CountType
    <2> QED
      BY <2>1, <2>2, <2>3, <2>4 DEF Next
  <1> QED BY <1>1, <1>2, PTL DEF Spec

\* A path is never reported as open when the program owes nothing more than its
\* defers will pay (LeakMeansOpen), however many obligations and defers the
\* search stopped counting.
THEOREM ReportsAreOpen == Spec => []LeakMeansOpen
  <1>1. CountInv => LeakMeansOpen
    BY DEF CountInv, CountType, LeakMeansOpen, Outcome, State, saturated
  <1> QED BY <1>1, Counting, PTL

\* A path called discharged is closed, unless more than two obligations were
\* open at once (DischargeMeansClosed).
THEOREM DischargedIsClosed == Spec => []DischargeMeansClosed
  <1>1. CountInv => DischargeMeansClosed
    BY DEF CountInv, CountType, DischargeMeansClosed, Outcome, State, saturated
  <1> QED BY <1>1, Counting, PTL

\* A call met again and a load change no name's content but those they define,
\* and a store one (PathWalk, ContentsAfter).
LEMMA ContentsChange ==
    ASSUME NEW i \in Instruction, contents \in [Name -> Content],
           loaded \in [Variable -> Content], contents' \in ContentsAfter(i)
    PROVE  /\ contents' \in [Name -> Content]
           /\ Again(i) =>
                /\ contents'[TriggerError].trigger
                /\ \A x \in Name \ {TriggerError} :
                     ~contents'[x].trigger /\ contents'[x].nonNil = contents[x].nonNil
           /\ i.op = "Store" =>
                /\ i.addr \in Variable /\ i.val \in Name
                /\ contents'[i.addr].trigger = (i.val = TriggerError)
                /\ contents'[i.addr].nonNil = Reads(i.val).nonNil
                /\ \A x \in Name : x # i.addr => contents'[x] = contents[x]
           /\ ~Again(i) /\ i.op # "Store" => contents' = contents
  <1>1. CASE Again(i)
    <2>1. PICK nonNil \in BOOLEAN : contents' = CalledAgain(nonNil)
      BY <1>1 DEF ContentsAfter
    <2>2. \A x \in Name : contents[x] \in Content
      OBVIOUS
    <2>3. \A x \in Name :
            /\ [contents[x] EXCEPT !.trigger = FALSE] \in Content
            /\ [contents[x] EXCEPT !.trigger = FALSE].trigger = FALSE
            /\ [contents[x] EXCEPT !.trigger = FALSE].nonNil = contents[x].nonNil
      BY <2>2 DEF Content
    <2>4. [trigger |-> TRUE, nonNil |-> nonNil] \in Content
      BY DEF Content
    <2>5. TriggerError \in Name
      BY NamesAssumption DEF Name
    <2>6. i.op # "Store"
      BY <1>1 DEF Again
    <2> QED
      BY <1>1, <2>1, <2>3, <2>4, <2>5, <2>6 DEF CalledAgain
  <1>2. CASE ~Again(i) /\ i.op = "Store"
    <2>1. i.addr \in Variable /\ i.val \in Name /\ i.addr \in Name
      BY <1>2 DEF Instruction, Name
    <2>2. Reads(i.val) \in Content
      BY <2>1 DEF Reads, Name
    <2> DEFINE is    == i.val = TriggerError
               holds == Reads(i.val).nonNil
    <2>3. is \in BOOLEAN
      OBVIOUS
    <2>4. holds \in BOOLEAN
      BY <2>2 DEF Content
    <2>5. contents' = [contents EXCEPT ![i.addr] = [trigger |-> is, nonNil |-> holds]]
      BY <1>2 DEF ContentsAfter
    <2> HIDE DEF is, holds
    <2>6. [trigger |-> is, nonNil |-> holds] \in Content
      BY <2>3, <2>4 DEF Content
    <2>7. /\ contents' \in [Name -> Content]
          /\ contents'[i.addr].trigger = is /\ contents'[i.addr].nonNil = holds
          /\ \A x \in Name : x # i.addr => contents'[x] = contents[x]
      BY <2>1, <2>5, <2>6
    <2> QED
      BY <1>2, <2>1, <2>7 DEF is, holds
  <1>3. CASE ~Again(i) /\ i.op # "Store"
    BY <1>3 DEF ContentsAfter
  <1> QED BY <1>1, <1>2, <1>3

\* Every step stays in the types, the counts of the program in the naturals: no
\* satisfier is paid that is not owed (TypeOK).
THEOREM TypesHold == Spec => []TypeOK
  <1>1. Init => TypeOK
    <2> SUFFICES ASSUME Init PROVE TypeOK
      OBVIOUS
    <2>1. Start \in State
      BY DEF Start, State, saturated
    <2>2. Goes(Start) \in Outcome
      BY <2>1 DEF Goes, Outcome, Leaks, Endings
    <2>3. contents \in [Name -> Content] /\ Variable \subseteq Name
      BY DEF Init, InitialContents, Name
    <2>4. [v \in Variable |-> contents[v]] \in [Variable -> Content]
      BY <2>3
    <2> QED
      BY <2>2, <2>3, <2>4 DEF Init, TypeOK
  <1>2. CountInv /\ CountInv' /\ TypeOK /\ [Next]_vars => TypeOK'
    <2> SUFFICES ASSUME CountInv, CountInv', TypeOK, [Next]_vars PROVE TypeOK'
      OBVIOUS
    <2>1. /\ protocol' \in Protocols /\ outcome' \in Outcome
          /\ owed' \in Nat /\ covered' \in Nat /\ overflowed' \in BOOLEAN
      BY DEF CountInv, CountType
    <2>2. ASSUME NEW i \in Instructions, Execute(i) PROVE TypeOK'
      <3>1. i \in Instruction
        BY WalkAssumption
      <3>2. /\ dropped' = dropped /\ loaded' = loaded /\ last' = i /\ shown' = shown
            /\ satisfied' = (satisfied \/ (Pays(i) /\ ~Opens(i)))
            /\ exposed' = (exposed /\ ~Again(i))
        BY <2>2 DEF Execute
      <3>3. satisfied' \in BOOLEAN /\ exposed' \in BOOLEAN
        BY <3>2
      <3>4. contents' \in [Name -> Content]
        BY <2>2, <3>1, ContentsChange DEF Execute, TypeOK
      <3>5. renewed' \subseteq Name
        <4>1. TriggerError \in Name /\ renewed \subseteq Name
          BY NamesAssumption DEF Name, TypeOK
        <4>2. i.op = "Store" => i.addr \in Name
          BY <3>1 DEF Instruction, Name
        <4> QED BY <2>2, <4>1, <4>2 DEF Execute
      <3> QED
        BY <2>1, <3>2, <3>3, <3>4, <3>5 DEF TypeOK
    <2>3. ASSUME NEW c \in Conditions, NEW position \in 1..2, Branch(c, position)
          PROVE  TypeOK'
      <3>1. /\ UNCHANGED <<last, satisfied, contents, loaded>>
            /\ dropped' \in BOOLEAN
            /\ exposed' = (exposed \/ Exposes(c, position))
            /\ shown' \in {shown, shown + 1}
            /\ renewed' \subseteq renewed
        BY <2>3 DEF Branch, counts
      <3>2. exposed' \in BOOLEAN /\ shown' \in Nat
        BY <3>1 DEF TypeOK
      <3> QED
        BY <2>1, <3>1, <3>2 DEF TypeOK
    <2>4. ASSUME NEW v \in Variable, Load(v) PROVE TypeOK'
      <3>1. v \in Name /\ contents[v] \in Content
        BY DEF TypeOK, Name
      <3>2. loaded' \in [Variable -> Content]
        BY <2>4, <3>1 DEF Load, TypeOK
      <3> QED
        BY <2>4, <3>2 DEF Load, TypeOK, search, counts
    <2>5. ASSUME NEW x \in Value, Redefine(x) PROVE TypeOK'
      <3>1. PICK nonNil \in BOOLEAN :
              contents' = [contents EXCEPT ![x] = [trigger |-> FALSE, nonNil |-> nonNil]]
        BY <2>5 DEF Redefine
      <3>2. [trigger |-> FALSE, nonNil |-> nonNil] \in Content /\ x \in Name
        BY DEF Content, Name
      <3>3. contents' \in [Name -> Content] /\ renewed' \subseteq Name
        BY <2>5, <3>1, <3>2 DEF TypeOK, Redefine
      <3> QED
        BY <2>5, <3>3 DEF Redefine, TypeOK, search, counts
    <2>6. CASE UNCHANGED vars
      BY <2>6 DEF vars, search, counts, errors, TypeOK
    <2> QED
      BY <2>2, <2>3, <2>4, <2>5, <2>6 DEF Next
  <1> QED BY <1>1, <1>2, Counting, PTL DEF Spec

---------------------------------------------------------------------------
(* The trigger's error.                                                     *)

\* A path whose trigger's error a check left unread is not reported there, and
\* only a branch can make it certain again (flow.go, leakAt).
LEMMA UncertainSteps ==
    ASSUME NEW p \in Protocol, NEW s \in State, s.open > 0, NEW i \in Instruction
    PROVE  LET out == step(p, s, i)
           IN  /\ out.state.uncertain = s.uncertain
               /\ s.uncertain => out.leak = "none"
               /\ out.goes => out.leak = "none"
               /\ out.state.displaced = stored(p, s, i).displaced
  <1> DEFINE known    == noted(p, s, i)
             happened == classify(p, i)
             out      == step(p, s, i)
  <1>1. /\ known \in State /\ known.uncertain = s.uncertain /\ known.open = s.open
        /\ happened \in Events
    BY NotedCounts, ClassifyType
  <1>2. known.displaced = stored(p, s, i).displaced
    <2>1. stored(p, s, i) \in State
      BY DEF stored, State
    <2>2. remembered(p, stored(p, s, i), i) \in State
          /\ remembered(p, stored(p, s, i), i).displaced = stored(p, s, i).displaced
      BY <2>1 DEF remembered, State
    <2> QED
      BY <2>2 DEF noted, registered, State
  <1>3. out = IF callsBeforeDefer(p, known, i, happened)
              THEN Ends(known, "beforeDefer", "none")
              ELSE IF happened = "exit" THEN exit(p, known, i)
              ELSE after(known, happened)
    BY DEF step
  <1>4. exit(p, known, i).state = known /\ exit(p, known, i).leak = leakAt(p, known, i)
        /\ exit(p, known, i).goes = FALSE
    BY DEF exit, Ends
  <1>5. known.uncertain => leakAt(p, known, i) = "none"
    BY DEF leakAt
  <1>6. known.uncertain => ~callsBeforeDefer(p, known, i, happened)
    BY DEF callsBeforeDefer
  <1>7. /\ after(known, happened).leak = "none"
        /\ after(known, happened).state.uncertain = known.uncertain
    BY <1>1, AfterCounts
  <1>8. after(known, happened).state.displaced = known.displaced
    BY <1>1 DEF after, paid, Goes, Ends, State
  <1> HIDE DEF known, happened, out
  <1>9. CASE callsBeforeDefer(p, known, i, happened)
    BY <1>1, <1>2, <1>3, <1>6, <1>9 DEF Ends, out
  <1>10. CASE ~callsBeforeDefer(p, known, i, happened)
    BY <1>1, <1>2, <1>3, <1>4, <1>5, <1>7, <1>8, <1>10 DEF out
  <1> QED BY <1>9, <1>10

\* The trigger's error stays where it was stored, and the search knows when
\* another value displaced it, once the error of a call met again is stored.
HomeInv ==
    /\ contents \in [Name -> Content]
    /\ loaded \in [Variable -> Content]
    /\ contents[TriggerError].trigger
    /\ \A x \in Name :
         contents[x].trigger =>
           /\ x = TriggerError \/ x \in Home
           /\ contents[x].nonNil = TriggerFailed
    /\ ~protocol.openOnError /\ ~Due =>
         \A h \in Home : contents[h].trigger <=> ~outcome.state.displaced

\* What the search says of the path agrees with whether the trigger failed.
FailureInv ==
    /\ HomeInv
    /\ outcome.goes => outcome.leak = "none"
    /\ dropped => TriggerFailed /\ outcome.leak = "none"
    /\ exposed => TriggerFailed
    /\ exposed /\ ~protocol.openOnError =>
         dropped \/ outcome.state.uncertain
    /\ outcome.state.uncertain => outcome.leak = "none"

\* The error a condition reads is the trigger's exactly where the search takes
\* it to be, while one variable at most keeps it: then a branch the search does
\* not follow is one only a failed trigger takes (flow.go, successors).
LEMMA ChecksAreRead ==
    ASSUME HomeInv, ~Due, protocol \in Protocol, outcome.state \in State, Fresh,
           NEW c \in Condition, NEW position \in Taken(c)
    PROVE  LET verdict == verdictOf(protocol, outcome.state, c)
               follows == position \in followed(protocol, outcome.state, c)
               shows   == Exposes(c, position)
           IN  /\ ~follows => TriggerFailed
               /\ verdict \in {"failed", "succeeded"} /\ follows => ~TriggerFailed
               /\ shows => TriggerFailed
               /\ shows /\ ~protocol.openOnError => ~follows \/ verdict = "unknown"
  <1>1. CASE c.kind = "other"
    <2>1. verdictOf(protocol, outcome.state, c) = "none"
      BY <1>1 DEF verdictOf
    <2>2. position \in {1, 2}
      BY <1>1 DEF Taken
    <2> QED
      BY <1>1, <2>1, <2>2 DEF followed, Exposes
  <1>2. CASE c.kind # "other"
    <2>1. /\ c.kind \in {"ne", "eq", "predicate", "unequal"} /\ c.of \in Name
          /\ Reads(c.of) = contents[c.of]
      BY <1>2 DEF Condition, Reads
    <2>2. /\ contents[c.of].nonNil \in BOOLEAN /\ contents[c.of].trigger \in BOOLEAN
          /\ TriggerFailed \in BOOLEAN
      BY <2>1, NamesAssumption DEF HomeInv, Content, TriggerFailed, Name
    <2>3. /\ failing(c) \in {1, 2} /\ position \in {1, 2}
          /\ position = failing(c) => contents[c.of].nonNil
          /\ nilOtherwise(c) /\ position # failing(c) => ~contents[c.of].nonNil
      BY <2>1, <2>2, <1>2 DEF Taken, failing, nilOtherwise
    <2>4. ~protocol.openOnError =>
            (isError(protocol, outcome.state, c.of) <=> contents[c.of].trigger)
      BY <2>1 DEF HomeInv, isError, homes
    <2>5. contents[c.of].trigger => contents[c.of].nonNil = TriggerFailed
      BY <2>1 DEF HomeInv
    <2>6. CASE verdictOf(protocol, outcome.state, c) = "failed"
      <3>1. /\ c.kind = "ne" /\ contents[c.of].trigger
            /\ failing(c) = 1 /\ nilOtherwise(c)
            /\ followed(protocol, outcome.state, c) = {2}
        BY <2>4, <2>6 DEF verdictOf, failing, nilOtherwise, followed
      <3> QED
        BY <2>1, <2>2, <2>3, <2>5, <2>6, <3>1 DEF Exposes
    <2>7. CASE verdictOf(protocol, outcome.state, c) = "succeeded"
      <3>1. /\ c.kind = "eq" /\ contents[c.of].trigger
            /\ failing(c) = 2 /\ nilOtherwise(c)
            /\ followed(protocol, outcome.state, c) = {1}
        BY <2>4, <2>7 DEF verdictOf, failing, nilOtherwise, followed
      <3> QED
        BY <2>1, <2>2, <2>3, <2>5, <2>7, <3>1 DEF Exposes
    <2>8. CASE verdictOf(protocol, outcome.state, c) \notin {"failed", "succeeded"}
      <3>1. followed(protocol, outcome.state, c) = {1, 2}
        BY <2>8 DEF followed
      <3>2. contents[c.of].trigger /\ ~protocol.openOnError =>
              verdictOf(protocol, outcome.state, c) = "unknown"
        BY <1>2, <2>1, <2>4, <2>8 DEF verdictOf, readBy
      <3> QED
        BY <2>1, <2>2, <2>3, <2>5, <2>8, <3>1, <3>2 DEF Exposes
    <2> QED BY <2>6, <2>7, <2>8
  <1> QED BY <1>1, <1>2

\* The trigger's error is stored as the call returns into one variable at most,
\* and checks read a variable as they load it.
OneHome == (\A g, h \in Home : g = h) /\ StoredAtOnce /\ Fresh

\* Where one variable at most keeps the trigger's error, what the search takes
\* for that error is that error, and a branch it drops is one of its failure
\* (state.stored, failure.verdictOf).
THEOREM TriggerErrors ==
    ASSUME OneHome PROVE Spec => []FailureInv
  <1>1. Init => FailureInv
    <2> SUFFICES ASSUME Init PROVE FailureInv
      OBVIOUS
    <2>1. /\ outcome = Goes(Start) /\ dropped = FALSE /\ exposed = FALSE
          /\ contents \in InitialContents
      BY DEF Init
    <2>2. outcome.state.displaced = FALSE /\ outcome.state.uncertain = FALSE
          /\ outcome.leak = "none"
      BY <2>1 DEF Goes, Start
    <2>3. HomeInv
      BY <2>1, <2>2, NamesAssumption
         DEF HomeInv, InitialContents, TriggerFailed, OneHome, Name, Init
    <2> QED BY <2>1, <2>2, <2>3 DEF FailureInv
  <1>2. CountInv /\ FailureInv /\ [Next]_vars => FailureInv'
    <2> SUFFICES ASSUME CountInv, FailureInv, [Next]_vars PROVE FailureInv'
      OBVIOUS
    <2>0. protocol \in Protocol /\ outcome.state \in State /\ HomeInv
      BY WalkAssumption DEF CountInv, CountType, Outcome, FailureInv
    <2>1. ASSUME NEW i \in Instructions, Execute(i) PROVE FailureInv'
      <3> DEFINE out == step(protocol, outcome.state, i)
      <3>1. /\ i \in Instruction /\ outcome.state.open > 0 /\ outcome.goes /\ ~dropped
            /\ (i.op = "Store" /\ i.val = TriggerError => i.addr \in Home)
        BY <2>1, WalkAssumption DEF Execute, CountInv
      <3>2. /\ out.state.uncertain = outcome.state.uncertain
            /\ outcome.state.uncertain => out.leak = "none"
            /\ out.goes => out.leak = "none"
            /\ out.state.displaced = stored(protocol, outcome.state, i).displaced
        BY <2>0, <3>1, UncertainSteps
      <3>3. /\ outcome' = out /\ dropped' = dropped /\ protocol' = protocol
            /\ exposed' = (exposed /\ ~Again(i)) /\ loaded' = loaded /\ last' = i
            /\ Due => i.op = "Store" /\ i.val = TriggerError
            /\ contents' \in ContentsAfter(i)
        BY <2>1 DEF Execute
      <3>4. /\ contents' \in [Name -> Content]
            /\ Again(i) =>
                 /\ contents'[TriggerError].trigger
                 /\ \A x \in Name \ {TriggerError} :
                      ~contents'[x].trigger /\ contents'[x].nonNil = contents[x].nonNil
            /\ i.op = "Store" =>
                 /\ i.addr \in Variable /\ i.val \in Name
                 /\ contents'[i.addr].trigger = (i.val = TriggerError)
                 /\ contents'[i.addr].nonNil = Reads(i.val).nonNil
                 /\ \A x \in Name : x # i.addr => contents'[x] = contents[x]
            /\ ~Again(i) /\ i.op # "Store" => contents' = contents
        BY <2>0, <3>1, <3>3, ContentsChange DEF HomeInv
      <3>5. Due' <=> Home # {} /\ Again(i)
        BY <3>3 DEF Due, OneHome
      <3> HIDE DEF out
      <3>6. CASE Again(i)
        <4>1. TriggerError \in Name /\ Home \subseteq Name
          BY NamesAssumption DEF Name
        <4>2. HomeInv'
          BY <2>0, <3>3, <3>4, <3>5, <3>6, <4>1 DEF HomeInv, TriggerFailed
        <4>3. ~dropped' /\ ~exposed'
          BY <3>1, <3>3, <3>6
        <4> QED
          BY <3>2, <3>3, <4>2, <4>3 DEF FailureInv
      <3>7. CASE ~Again(i) /\ i.op # "Store"
        <4>1. contents' = contents /\ out.state.displaced = outcome.state.displaced
          BY <3>2, <3>4, <3>7 DEF stored
        <4>2. ~Due
          BY <3>3, <3>7
        <4>3. HomeInv'
          BY <2>0, <3>3, <4>1, <4>2 DEF HomeInv, TriggerFailed
        <4>4. exposed' => exposed
          BY <3>3
        <4> QED
          BY <3>1, <3>2, <3>3, <4>1, <4>3, <4>4 DEF FailureInv, TriggerFailed
      <3>8. CASE i.op = "Store"
        <4>1. i.addr \in Variable /\ i.val \in Name /\ Reads(i.val) = contents[i.val]
          BY <3>4, <3>8 DEF Reads, OneHome
        <4>2. i.addr \in Name /\ i.addr # TriggerError
          BY <4>1, NamesAssumption DEF Name
        <4>3. TriggerFailed' = TriggerFailed /\ contents'[TriggerError].trigger
          BY <2>0, <3>4, <3>8, <4>2, NamesAssumption DEF TriggerFailed, HomeInv, Name
        <4>4. \A x \in Name :
                contents'[x].trigger =>
                  /\ x = TriggerError \/ x \in Home
                  /\ contents'[x].nonNil = TriggerFailed
          BY <2>0, <3>1, <3>4, <3>8, <4>1 DEF TriggerFailed, HomeInv
        <4>5. ASSUME ~protocol.openOnError, NEW h \in Home
              PROVE  contents'[h].trigger <=> ~out.state.displaced
          <5>1. h \in Name
            BY NamesAssumption DEF Name
          <5>2. CASE i.addr \in Home
            <6>1. h = i.addr
              BY <5>2 DEF OneHome
            <6>2. out.state.displaced = (i.val # TriggerError)
              BY <2>0, <3>2, <3>8, <4>5, <5>2 DEF stored, homes, State
            <6> QED BY <3>4, <3>8, <6>1, <6>2
          <5>3. CASE i.addr \notin Home
            <6>1. out.state.displaced = outcome.state.displaced
              BY <3>2, <5>3 DEF stored, homes
            <6>2. ~Due
              BY <3>1, <3>3, <3>8, <5>3
            <6> QED BY <2>0, <3>4, <3>8, <4>5, <5>1, <5>3, <6>1, <6>2 DEF HomeInv
          <5> QED BY <5>2, <5>3
        <4>6. HomeInv'
          BY <2>0, <3>3, <3>4, <4>3, <4>4, <4>5 DEF HomeInv
        <4>7. exposed' => exposed
          BY <3>3
        <4> QED
          BY <3>1, <3>2, <3>3, <4>3, <4>6, <4>7 DEF FailureInv
      <3> QED BY <3>6, <3>7, <3>8
    <2>2. ASSUME NEW c \in Conditions, NEW position \in 1..2, Branch(c, position)
          PROVE  FailureInv'
      <3> DEFINE verdict == verdictOf(protocol, outcome.state, c)
                 follows == position \in followed(protocol, outcome.state, c)
                 next    == into(protocol, outcome.state, c, position)
                 shows   == Exposes(c, position)
      <3>1. /\ outcome.goes /\ ~dropped /\ position \in Taken(c) /\ ~Due
            /\ UNCHANGED <<protocol, contents, loaded, last>>
            /\ follows => outcome' = Goes(next) /\ dropped' = FALSE
            /\ ~follows => outcome' = outcome /\ dropped' = TRUE
            /\ exposed' = (exposed \/ shows)
        BY <2>2 DEF Branch
      <3>2. c \in Condition
        BY WalkAssumption
      <3>3. /\ ~follows => TriggerFailed
            /\ verdict \in {"failed", "succeeded"} /\ follows => ~TriggerFailed
            /\ shows => TriggerFailed
            /\ shows /\ ~protocol.openOnError => ~follows \/ verdict = "unknown"
        BY <2>0, <3>1, <3>2, ChecksAreRead DEF OneHome
      <3>4. /\ next.displaced = outcome.state.displaced
            /\ verdict = "unknown" => next.uncertain = TRUE
            /\ verdict \notin {"unknown", "failed", "succeeded"} =>
                 next.uncertain = outcome.state.uncertain
        BY <2>0 DEF into, along, State
      <3>5. TriggerFailed' = TriggerFailed
        BY <3>1 DEF TriggerFailed
      <3> HIDE DEF verdict, follows, next, shows
      <3>6. CASE ~follows
        BY <2>0, <3>1, <3>3, <3>5, <3>6 DEF FailureInv, HomeInv, Due
      <3>7. CASE follows
        <4>1. /\ outcome'.state = next /\ outcome'.goes /\ outcome'.leak = "none"
          BY <3>1, <3>7 DEF Goes
        <4>2. HomeInv'
          BY <2>0, <3>1, <3>4, <3>5, <4>1 DEF HomeInv, Due
        <4>3. exposed' /\ ~protocol.openOnError => next.uncertain
          BY <3>1, <3>3, <3>4, <3>7 DEF FailureInv
        <4> QED
          BY <3>1, <3>3, <3>5, <3>7, <4>1, <4>2, <4>3 DEF FailureInv
      <3> QED BY <3>6, <3>7
    <2>3. ASSUME NEW v \in Variable, Load(v) PROVE FailureInv'
      <3>1. ~Fresh
        BY <2>3 DEF Load
      <3> QED BY <3>1 DEF OneHome
    <2>4. ASSUME NEW x \in Value, Redefine(x) PROVE FailureInv'
      <3>1. PICK nonNil \in BOOLEAN :
              contents' = [contents EXCEPT ![x] = [trigger |-> FALSE, nonNil |-> nonNil]]
        BY <2>4 DEF Redefine
      <3>2. [trigger |-> FALSE, nonNil |-> nonNil] \in Content /\ x \in Name
            /\ x # TriggerError /\ x \notin Home /\ TriggerError \in Name
            /\ Home \subseteq Name
        BY <2>4, NamesAssumption DEF Content, Name, Redefine
      <3>3. /\ contents' \in [Name -> Content]
            /\ contents'[x] = [trigger |-> FALSE, nonNil |-> nonNil]
            /\ \A y \in Name : y # x => contents'[y] = contents[y]
        BY <2>0, <3>1, <3>2 DEF HomeInv
      <3>4. /\ UNCHANGED <<protocol, outcome, dropped, last, loaded, exposed>>
            /\ TriggerFailed' = TriggerFailed
        BY <2>4, <3>2, <3>3 DEF Redefine, search, TriggerFailed
      <3>5. HomeInv'
        BY <2>0, <3>2, <3>3, <3>4 DEF HomeInv, Due
      <3> QED
        BY <3>4, <3>5 DEF FailureInv
    <2>5. CASE UNCHANGED vars
      BY <2>5 DEF vars, search, errors, FailureInv, HomeInv, TriggerFailed, Due
    <2> QED
      BY <2>1, <2>2, <2>3, <2>4, <2>5 DEF Next
  <1> QED BY <1>1, <1>2, Counting, PTL DEF Spec

\* A check drops a path only where the trigger's last call failed, on any turn
\* of a loop (DroppedOnlyOnFailure), where one variable at most keeps the error.
THEOREM DropsAreFailures ==
    ASSUME OneHome PROVE Spec => []DroppedOnlyOnFailure
  <1>1. FailureInv => DroppedOnlyOnFailure
    BY DEF FailureInv, DroppedOnlyOnFailure
  <1> QED BY <1>1, TriggerErrors, PTL

\* A path is never reported after a check has shown that the trigger's last call
\* failed, on any turn of a loop (CheckedFailureNeverReported), where one variable
\* at most keeps the error.
THEOREM FailuresAreSilent ==
    ASSUME OneHome PROVE Spec => []CheckedFailureNeverReported
  <1>1. FailureInv => CheckedFailureNeverReported
    BY DEF FailureInv, CheckedFailureNeverReported
  <1> QED BY <1>1, TriggerErrors, PTL

---------------------------------------------------------------------------
(* On-success.                                                              *)

\* What a step of the search makes of what the path knows.
LEMMA StepKnows ==
    ASSUME NEW p \in Protocol, NEW s \in State, s.open > 0, NEW i \in Instruction
    PROVE  LET out      == step(p, s, i)
               happened == classify(p, i)
           IN  /\ out.state.failed = noted(p, s, i).failed
               /\ out.leak # "beforeDefer" =>
                    (out.state.called <=>
                       s.called \/ happened \in {"satisfier", "undeferred"})
               /\ i.op = "Return" => ~out.goes
               /\ i.op = "Return" /\ out.leak = "onSuccess" => ~out.state.called
               /\ (i.op = "Return" /\ p.onSuccess /\ ~out.state.uncertain
                  /\ out.ending = "discharged" /\ out.leak = "none") =>
                    \/ out.state.called
                    \/ returnsFailure(out.state, i)
                    \/ closureDecides(out.state, i)
  <1> DEFINE known    == noted(p, s, i)
             happened == classify(p, i)
             out      == step(p, s, i)
  <1>1. /\ known \in State /\ known.open = s.open /\ known.called = s.called
        /\ happened \in Events
    BY NotedCounts, ClassifyType
  <1>2. out = IF callsBeforeDefer(p, known, i, happened)
              THEN Ends(known, "beforeDefer", "none")
              ELSE IF happened = "exit" THEN exit(p, known, i)
              ELSE after(known, happened)
    BY DEF step
  <1>3. i.op = "Return" => happened \in {"transfer", "exit"}
    BY DEF classify
  <1>4. happened = "exit" => i.op = "Return"
    BY DEF classify, called, deferred
  <1> HIDE DEF known, happened, out
  <1>5. /\ out.state.failed = known.failed
        /\ out.leak # "beforeDefer" =>
             (out.state.called <=>
                known.called \/ happened \in {"satisfier", "undeferred"})
        /\ i.op = "Return" => ~out.goes
        /\ i.op = "Return" /\ out.leak = "onSuccess" => ~out.state.called
        /\ (i.op = "Return" /\ p.onSuccess /\ ~out.state.uncertain
           /\ out.ending = "discharged" /\ out.leak = "none") =>
             \/ out.state.called
             \/ returnsFailure(out.state, i)
             \/ closureDecides(out.state, i)
    <2>1. CASE callsBeforeDefer(p, known, i, happened)
      <3>1. out = Ends(known, "beforeDefer", "none") /\ i.op = "Call"
        BY <1>2, <2>1 DEF callsBeforeDefer
      <3> QED
        BY <3>1 DEF Ends
    <2>2. CASE ~callsBeforeDefer(p, known, i, happened) /\ happened = "exit"
      <3>1. out = exit(p, known, i)
        BY <1>2, <2>2
      <3>2. /\ out.state = known /\ out.goes = FALSE /\ out.leak = leakAt(p, known, i)
            /\ out.ending = "discharged" /\ out.leak = "none" =>
                 known.open <= known.deferred
        BY <3>1 DEF exit, Ends
      <3>3. leakAt(p, known, i) \in {"none", "atExit", "onSuccess"}
            /\ (leakAt(p, known, i) = "onSuccess" => ~known.called)
        BY DEF leakAt
      <3>4. (leakAt(p, known, i) = "none" /\ ~known.uncertain
               /\ known.open <= known.deferred /\ p.onSuccess)
            => known.called \/ returnsFailure(known, i) \/ closureDecides(known, i)
        <4>1. known.open <= known.deferred => ~(known.open > known.deferred)
          BY <1>1 DEF State, saturated
        <4> QED BY <4>1 DEF leakAt
      <3> QED
        BY <2>2, <3>2, <3>3, <3>4
    <2>3. CASE ~callsBeforeDefer(p, known, i, happened) /\ happened # "exit"
      <3>1. out = after(known, happened)
        BY <1>2, <2>3
      <3>2. /\ out.leak = "none"
            /\ out.state.called =
                 (known.called \/ happened \in {"satisfier", "undeferred"})
        BY <1>1, <3>1, AfterCounts
      <3>3. out.state.failed = known.failed
        BY <1>1, <3>1 DEF after, paid, Goes, Ends, State
      <3>4. i.op = "Return" => out.goes = FALSE /\ out.ending = "transferred"
        BY <1>3, <2>3, <3>1 DEF after, Ends
      <3> QED
        BY <3>2, <3>3, <3>4
    <2> QED BY <2>1, <2>2, <2>3
  <1> QED BY <1>1, <1>5 DEF out, known, happened

\* What an instruction leaves in the set of failures (success.go, remembered).
LEMMA NotedFailures ==
    ASSUME NEW p \in Protocol, NEW s \in State, NEW i \in Instruction
    PROVE  noted(p, s, i).failed =
             IF i.op = "Store" /\ p.onSuccess /\ i.addr \in Tracked
             THEN IF i.val \in s.failed \/ i.val \in Built
                  THEN s.failed \union {i.addr} ELSE s.failed \ {i.addr}
             ELSE s.failed
  <1>1. stored(p, s, i) \in State /\ stored(p, s, i).failed = s.failed
    BY DEF stored, State
  <1>2. /\ remembered(p, stored(p, s, i), i) \in State
        /\ remembered(p, stored(p, s, i), i).failed =
             IF i.op = "Store" /\ p.onSuccess /\ i.addr \in Tracked
             THEN IF i.val \in s.failed \/ i.val \in Built
                  THEN s.failed \union {i.addr} ELSE s.failed \ {i.addr}
             ELSE s.failed
    BY <1>1 DEF remembered, fails, built, State
  <1> QED BY <1>2 DEF noted, registered, State

\* What the path knows is so, unless a loop defined its register again, while a
\* variable is read as it is loaded.
KnownInv ==
    /\ contents \in [Name -> Content]
    /\ loaded \in [Variable -> Content]
    /\ \A x \in Built : contents[x].nonNil
    /\ outcome.state.failed # {} => protocol.onSuccess
    /\ KnownFailuresHold
    /\ outcome.leak # "beforeDefer" => (outcome.state.called <=> satisfied)
    /\ outcome.leak = "beforeDefer" => last.op # "Return"
    /\ outcome.goes => last.op # "Return" /\ outcome.leak = "none"
    /\ OnSuccessOwed

\* Where loads are used as they are made, every error the path knows as a failure
\* is not nil, and a return it lets pass under on-success is one or is paid, but
\* for what it learned before a loop defined the error's register again
\* (search.remembered, along, leakAt).
THEOREM Successes ==
    ASSUME Fresh PROVE Spec => []KnownInv
  <1>1. Init => KnownInv
    <2> SUFFICES ASSUME Init PROVE KnownInv
      OBVIOUS
    <2>1. /\ outcome = Goes(Start) /\ last = Start0 /\ satisfied = FALSE
          /\ contents \in [Name -> Content] /\ \A x \in Built : contents[x].nonNil
          /\ loaded \in [Variable -> Content]
      BY DEF Init, InitialContents, Name
    <2>2. /\ outcome.state.failed = {} /\ outcome.state.called = FALSE
          /\ outcome.leak = "none" /\ last.op = "Other"
      BY <2>1 DEF Goes, Start, Start0
    <2> QED BY <2>1, <2>2 DEF KnownInv, KnownFailuresHold, OnSuccessOwed
  <1>2. CountInv /\ KnownInv /\ [Next]_vars => KnownInv'
    <2> SUFFICES ASSUME CountInv, KnownInv, [Next]_vars PROVE KnownInv'
      OBVIOUS
    <2>0. protocol \in Protocol /\ outcome.state \in State
      BY WalkAssumption DEF CountInv, CountType, Outcome
    <2>1. ASSUME NEW i \in Instructions, Execute(i) PROVE KnownInv'
      <3> DEFINE out      == step(protocol, outcome.state, i)
                 happened == classify(protocol, i)
      <3>1. i \in Instruction /\ outcome.state.open > 0 /\ outcome.goes
        BY <2>1, WalkAssumption DEF Execute, CountInv
      <3>2. /\ out.state.failed = noted(protocol, outcome.state, i).failed
            /\ out.leak # "beforeDefer" =>
                 (out.state.called <=>
                    outcome.state.called \/ happened \in {"satisfier", "undeferred"})
            /\ i.op = "Return" => ~out.goes
            /\ i.op = "Return" /\ out.leak = "onSuccess" => ~out.state.called
            /\ (i.op = "Return" /\ protocol.onSuccess /\ ~out.state.uncertain
               /\ out.ending = "discharged" /\ out.leak = "none") =>
                 \/ out.state.called
                 \/ returnsFailure(out.state, i)
                 \/ closureDecides(out.state, i)
        BY <2>0, <3>1, StepKnows
      <3>3. noted(protocol, outcome.state, i).failed =
              IF i.op = "Store" /\ protocol.onSuccess /\ i.addr \in Tracked
              THEN IF i.val \in outcome.state.failed \/ i.val \in Built
                   THEN outcome.state.failed \union {i.addr}
                   ELSE outcome.state.failed \ {i.addr}
              ELSE outcome.state.failed
        BY <2>0, <3>1, NotedFailures
      <3>4. happened \in {"satisfier", "undeferred"} <=> Pays(i) /\ ~Opens(i)
        BY <3>1 DEF classify, called, deferred, Pays, Opens, Instruction
      <3>5. /\ outcome' = out /\ last' = i /\ protocol' = protocol
            /\ satisfied' = (satisfied \/ (Pays(i) /\ ~Opens(i)))
            /\ contents' \in ContentsAfter(i) /\ loaded' = loaded
            /\ renewed' = IF Again(i) THEN renewed \union {TriggerError}
                          ELSE IF i.op # "Store" THEN renewed
                          ELSE IF i.val \in renewed THEN renewed \union {i.addr}
                          ELSE renewed \ {i.addr}
        BY <2>1 DEF Execute
      <3>6. i.op = "Return" => out.leak # "beforeDefer"
        BY <3>1 DEF step, callsBeforeDefer, Ends, exit, leakAt, after, paid, Goes
      <3>7. out.goes => out.leak = "none"
        BY <2>0, <3>1, UncertainSteps
      <3> HIDE DEF out, happened
      <3>8. /\ contents' \in [Name -> Content]
            /\ \A x \in Built : contents'[x].nonNil
            /\ i.op # "Store" =>
                 \A x \in Name \ {TriggerError} : contents'[x].nonNil = contents[x].nonNil
            /\ ~Again(i) /\ i.op # "Store" => contents' = contents
            /\ i.op = "Store" =>
                 /\ i.addr \in Variable /\ i.val \in Name
                 /\ contents'[i.addr].nonNil = contents[i.val].nonNil
                 /\ \A x \in Name : x # i.addr => contents'[x] = contents[x]
        <4>1. /\ contents' \in [Name -> Content]
              /\ Again(i) => \A x \in Name \ {TriggerError} :
                               contents'[x].nonNil = contents[x].nonNil
              /\ i.op = "Store" =>
                   /\ i.addr \in Variable /\ i.val \in Name
                   /\ contents'[i.addr].nonNil = Reads(i.val).nonNil
                   /\ \A x \in Name : x # i.addr => contents'[x] = contents[x]
              /\ ~Again(i) /\ i.op # "Store" => contents' = contents
          BY <3>1, <3>5, ContentsChange DEF KnownInv
        <4>2. i.op = "Store" => Reads(i.val) = contents[i.val]
          BY <4>1 DEF Reads
        <4>3. i.op # "Store" =>
                \A x \in Name \ {TriggerError} : contents'[x].nonNil = contents[x].nonNil
          BY <4>1
        <4>4. ASSUME NEW x \in Built PROVE contents'[x].nonNil
          <5>1. /\ x \in Name \ {TriggerError} /\ contents[x].nonNil
                /\ i.op = "Store" => x # i.addr
            BY <4>1, NamesAssumption DEF KnownInv, Name
          <5> QED BY <4>1, <4>3, <5>1
        <4> QED BY <4>1, <4>2, <4>3, <4>4
      <3>9. \A x \in out.state.failed \ renewed' : contents'[x].nonNil
        <4> SUFFICES ASSUME NEW x \in out.state.failed, x \notin renewed'
                     PROVE  contents'[x].nonNil
          OBVIOUS
        <4>1. \A y \in outcome.state.failed :
                y \in Name /\ y \in Tracked /\ (y \in renewed \/ contents[y].nonNil)
          BY <2>0, NamesAssumption DEF KnownInv, KnownFailuresHold, State
        <4>2. CASE i.op = "Store" /\ protocol.onSuccess /\ i.addr \in Tracked
          <5>1. CASE x = i.addr
            <6>1. i.val \in outcome.state.failed \/ i.val \in Built
              BY <2>0, <3>2, <3>3, <4>2, <5>1
            <6>2. i.val \notin renewed
              BY <3>5, <4>2, <5>1 DEF Again
            <6> QED BY <3>8, <4>1, <4>2, <5>1, <6>1, <6>2 DEF KnownInv
          <5>2. CASE x # i.addr
            <6>1. x \in outcome.state.failed /\ x \notin renewed
              BY <3>2, <3>3, <3>5, <4>2, <5>2 DEF Again
            <6> QED BY <3>8, <4>1, <4>2, <5>2, <6>1
          <5> QED BY <5>1, <5>2
        <4>3. CASE i.op = "Store" /\ ~(protocol.onSuccess /\ i.addr \in Tracked)
          <5>1. x \in outcome.state.failed /\ x # i.addr
            BY <2>0, <3>2, <3>3, <4>1, <4>3 DEF KnownInv
          <5>2. x \notin renewed
            BY <3>5, <4>3, <5>1 DEF Again
          <5> QED BY <3>8, <4>1, <4>3, <5>1, <5>2
        <4>4. CASE i.op # "Store"
          <5>1. x \in outcome.state.failed /\ x \notin renewed
                /\ (Again(i) => x # TriggerError)
            BY <3>2, <3>3, <3>5, <4>4
          <5> QED BY <3>8, <4>1, <4>4, <5>1
        <4> QED BY <4>2, <4>3, <4>4
      <3>10. out.state.failed # {} => protocol.onSuccess
        BY <3>2, <3>3 DEF KnownInv
      <3>11. out.leak # "beforeDefer" => (out.state.called <=> satisfied')
        BY <3>1, <3>2, <3>4, <3>5 DEF KnownInv
      <3>12. OnSuccessOwed'
        <4>1. ASSUME i.op = "Return", returnsFailure(out.state, i)
              PROVE  /\ i.error # None
                     /\ (Reads(i.error).nonNil)' \/ i.error \in renewed'
          <5>1. i.error \in Name \union {None} /\ i.error # None
                /\ (i.error \in out.state.failed \/ i.error \in Built)
            BY <3>1, <4>1 DEF Instruction, returnsFailure, fails, built
          <5>2. (Reads(i.error))' = contents'[i.error]
            BY DEF Reads
          <5> QED BY <3>8, <3>9, <5>1, <5>2
        <4>2. i.op = "Return" /\ closureDecides(out.state, i) =>
                out.state.closures \intersect i.decidedBy # {}
          BY DEF closureDecides
        <4> QED
          BY <3>2, <3>5, <3>6, <3>11, <4>1, <4>2 DEF OnSuccessOwed
      <3> QED
        BY <3>2, <3>5, <3>6, <3>7, <3>8, <3>9, <3>10, <3>11, <3>12
           DEF KnownInv, KnownFailuresHold
    <2>2. ASSUME NEW c \in Conditions, NEW position \in 1..2, Branch(c, position)
          PROVE  KnownInv'
      <3> DEFINE next == into(protocol, outcome.state, c, position)
      <3>1. /\ c \in Condition /\ outcome.goes /\ position \in Taken(c)
            /\ UNCHANGED <<protocol, contents, loaded, last, satisfied>>
            /\ outcome' = outcome \/ outcome' = Goes(next)
        BY <2>2, WalkAssumption DEF Branch, counts
      <3>0. renewed' = IF c.kind # "other" /\ position = failing(c)
                       THEN renewed \ {c.of} ELSE renewed
        BY <2>2 DEF Branch
      <3>2. next.called = outcome.state.called
        BY <2>0, <3>1, IntoCounts
      <3>3. \A x \in next.failed :
              \/ x \in outcome.state.failed
              \/ /\ protocol.onSuccess /\ c.kind # "other" /\ x = c.of
                 /\ position = failing(c)
        BY <2>0 DEF into, along, State
      <3>4. c.kind # "other" /\ position = failing(c) => contents[c.of].nonNil
        <4>1. ASSUME c.kind # "other" PROVE Reads(c.of) = contents[c.of] /\ c.of \in Name
          BY <3>1, <4>1 DEF Reads, Condition
        <4>2. ASSUME c.kind # "other", position = failing(c), ~contents[c.of].nonNil
              PROVE  FALSE
          <5>1. Taken(c) = {3 - failing(c)} /\ failing(c) \in {1, 2}
            BY <4>1, <4>2 DEF Taken, failing
          <5> QED BY <3>1, <4>2, <5>1
        <4> QED BY <4>2
      <3> HIDE DEF next
      <3>5. CASE outcome' = Goes(next)
        <4>1. /\ outcome'.state = next /\ outcome'.leak = "none"
              /\ outcome'.ending = "none"
          BY <3>5 DEF Goes
        <4> QED
          BY <3>0, <3>1, <3>2, <3>3, <3>4, <4>1
             DEF KnownInv, KnownFailuresHold, OnSuccessOwed
      <3>6. CASE outcome' = outcome
        BY <3>0, <3>1, <3>4, <3>6 DEF KnownInv, KnownFailuresHold, OnSuccessOwed, Reads
      <3> QED BY <3>1, <3>5, <3>6
    <2>3. ASSUME NEW v \in Variable, Load(v) PROVE KnownInv'
      BY <2>3 DEF Load
    <2>4. ASSUME NEW x \in Value, Redefine(x) PROVE KnownInv'
      <3>1. PICK nonNil \in BOOLEAN :
              contents' = [contents EXCEPT ![x] = [trigger |-> FALSE, nonNil |-> nonNil]]
        BY <2>4 DEF Redefine
      <3>2. [trigger |-> FALSE, nonNil |-> nonNil] \in Content /\ x \in Name
            /\ x \notin Built /\ Built \subseteq Name
        BY <2>4, NamesAssumption DEF Content, Name, Redefine
      <3>3. /\ contents' \in [Name -> Content]
            /\ \A y \in Name : y # x => contents'[y] = contents[y]
        BY <3>1, <3>2 DEF KnownInv
      <3>4. /\ UNCHANGED <<protocol, outcome, last, loaded, satisfied>>
            /\ renewed' = renewed \union {x} /\ outcome.goes
        BY <2>4 DEF Redefine, search, counts
      <3>5. \A y \in outcome.state.failed : y \in Name
        BY <2>0, NamesAssumption DEF State
      <3>6. KnownFailuresHold'
        BY <3>3, <3>4, <3>5 DEF KnownInv, KnownFailuresHold
      <3>7. OnSuccessOwed'
        BY <3>4 DEF KnownInv, OnSuccessOwed
      <3> QED
        BY <3>2, <3>3, <3>4, <3>6, <3>7 DEF KnownInv
    <2>5. CASE UNCHANGED vars
      BY <2>5 DEF vars, search, counts, errors, KnownInv, KnownFailuresHold,
                  OnSuccessOwed, Reads
    <2> QED
      BY <2>1, <2>2, <2>3, <2>4, <2>5 DEF Next
  <1> QED BY <1>1, <1>2, Counting, PTL DEF Spec

\* What the path takes for a failure is not nil (KnownFailuresHold), where a
\* variable is checked and stored as it is loaded: through any loop, nothing but
\* a register defined again makes what it knows stale.
THEOREM KnownFailures ==
    ASSUME Fresh PROVE Spec => []KnownFailuresHold
  <1>1. KnownInv => KnownFailuresHold
    BY DEF KnownInv
  <1> QED BY <1>1, Successes, PTL

\* No return that hands back no failure passes on-success in silence but one of
\* an error learned of on another turn, and none with a satisfier called is
\* reported (OnSuccessOwed), where a variable is checked and returned as it is
\* loaded.
THEOREM SuccessfulReturnsPay ==
    ASSUME Fresh PROVE Spec => []OnSuccessOwed
  <1>1. KnownInv => OnSuccessOwed
    BY DEF KnownInv
  <1> QED BY <1>1, Successes, PTL
=============================================================================
