--------------------------- MODULE Facts_proofs ---------------------------
(***************************************************************************)
(* What the search takes for granted: what bindAll gives the pass of a      *)
(* package (paircheck.go:63), which is what the package tells of failures   *)
(* and the rules bound against what the package sees, and what the paths of *)
(* a function say of its values.                                            *)
(*                                                                          *)
(* Of failures.go: what the rounds learn is so of every package, and is the *)
(* same in every order the package's members come in. The first half of     *)
(* the invariant is of the rounds: what a round passed over without         *)
(* learning is settled, and what it marked had to be marked. The second is  *)
(* of the run, and rests on it: once a variable that is not marked is set,  *)
(* it is never nil, and a call of a function that always fails is at a      *)
(* function that always fails.                                              *)
(*                                                                          *)
(* Of bind.go and implementation.go: where Validate accepts a rule, every   *)
(* pass agrees with it. The two resolve against different packages, so the  *)
(* argument is that what they read of the packages both see is the same:    *)
(* the types a rule stands for, and what it is for an implementation; that  *)
(* no two candidates a rule links are left, so a slot has one value and a   *)
(* pass cannot find it twice; and that a pass that misses a function only   *)
(* leaves its slot empty.                                                   *)
(*                                                                          *)
(* Of identity.go and slot.go: a path a register has is one its operands,   *)
(* or all edges of a phi, have up to the last step; that is so of a path    *)
(* found with some phis left out, too, as long as no phi is made from       *)
(* itself through a field or a load. So what a register holds is what its   *)
(* path leads to from what its root holds: the same object, if no load is   *)
(* on the way, and otherwise what the memory those loads read held. Objects *)
(* the function makes are told apart by the register that made them, and a  *)
(* variable that only holds a parameter never holds one.                    *)
(***************************************************************************)
EXTENDS Failures, Rules, Identity, FiniteSetTheorems, SequenceTheorems, WellFoundedInduction, TLAPS

----------------------------------------------------------------------------
(* What failures.go learns.                                                *)

Unmarked(v) == v \in Var \ (nilable \union package.escaped)

initStores(v) == declaredStores(v) \union package.inits[v]

\* Whether initialization stored anything into the variable.
Started(v) == \E x \in initStores(v) : <<v, x>> \notin unset

\* A set of variables closed under what shows one to be nilable.
ClosedNil(those) == \A w \in Var : shownNil(w, those) => w \in those

TypeInv ==
    /\ package \in Packages
    /\ variables \in orders(Var) /\ functions \in orders(Func)
    /\ phase \in {"variables", "functions", "declaring", "running"}
    /\ position \in Nat \ {0} /\ learned \in BOOLEAN
    /\ nilable \subseteq Var /\ failing \subseteq Func
    /\ DOMAIN contents = Var
    /\ calling \in Func \union {None}

VariablesInv ==
    /\ nilable \intersect package.escaped = {}
    /\ \A those \in SUBSET Var : ClosedNil(those) => nilable \subseteq those
    /\ phase = "variables" /\ ~learned =>
          \A j \in 1 .. Len(variables) :
             j < position /\ Unmarked(variables[j]) => ~mayHoldNil(variables[j])
    /\ phase # "variables" => \A v \in Var : Unmarked(v) => ~mayHoldNil(v)

FunctionsInv ==
    /\ \A f \in failing : alwaysFails(f)
    /\ phase = "variables" => failing = {}
    /\ phase = "functions" /\ ~learned =>
          \A j \in 1 .. Len(functions) :
             j < position /\ alwaysFails(functions[j]) => functions[j] \in failing
    /\ phase \in {"declaring", "running"} =>
          \A f \in Func : alwaysFails(f) => f \in failing

RunInv ==
    /\ \A store \in unset : \E v \in Var : \E x \in initStores(v) : store = <<v, x>>
    /\ phase \in {"variables", "functions"} => \A v \in Var : ~Started(v)
    /\ phase = "declaring" => \A v \in Var : Unmarked(v) /\ Started(v) => contents[v] = "error"
    /\ phase = "running" => \A v \in Var : Unmarked(v) => contents[v] = "error"
    /\ phase # "running" => calling = None /\ result = "none"
    /\ calling # None /\ top \in failing => calling \in failing
    /\ result = "nil" => top \notin failing

LearnInv == TypeInv /\ VariablesInv /\ FunctionsInv

---------------------------------------------------------------------------
\* An order names every member, each at a place of it.
LEMMA OrderCovers ==
    ASSUME NEW S, IsFiniteSet(S), NEW order \in orders(S)
    PROVE  /\ Len(order) \in Nat
           /\ \A j \in 1 .. Len(order) : order[j] \in S
           /\ \A x \in S : \E j \in 1 .. Len(order) : order[j] = x
  <1>1. Cardinality(S) \in Nat
    BY FS_CardinalityType
  <1>2. order \in [1 .. Cardinality(S) -> S] /\ Range(order) = S
    BY DEF orders
  <1>3. Len(order) = Cardinality(S)
    BY <1>1, <1>2
  <1> QED
    BY <1>1, <1>2, <1>3 DEF Range

\* What is stored into a variable is an error, and what a load reads is a
\* variable of the package, of another, or of neither.
LEMMA StoresAreErrors ==
    ASSUME TypeInv, NEW v \in Var, NEW x \in stores(v)
    PROVE  /\ x \in Error
           /\ x.op = "Load" => x.of \in Var \union Foreign \union {Local}
  <1>1. x \in Error
    BY PackagesAssumption DEF TypeInv, stores, declaredStores
  <1> QED
    BY <1>1 DEF Error, Leaf

\* A variable that may hold nil is shown to, by the marked ones.
LEMMA ShownByMarked ==
    ASSUME TypeInv, NEW v \in Var
    PROVE  mayHoldNil(v) /\ v \notin package.escaped <=> shownNil(v, nilable)
  <1>1. \A x \in stores(v) : storesNil(x) <=>
           (x.op = "Nil" \/ (x.op = "Load" /\ x.of \in {Local} \union nilable))
    BY StoresAreErrors, NamesAssumption DEF storesNil, holds, TypeInv
  <1> QED
    BY <1>1 DEF mayHoldNil, shownNil

\* Knowing more functions that fail, a function that always fails still does.
LEMMA FailsStill ==
    ASSUME TypeInv, NEW f \in Func, alwaysFails(f),
           failing \subseteq failing', UNCHANGED <<package, nilable>>
    PROVE  alwaysFails(f)'
  <1>1. \A x : builtLeaf(x) => builtLeaf(x)'
    BY DEF builtLeaf, holds
  <1>2. \A x : built(x) => built(x)'
    BY <1>1 DEF built, builtOnEveryEdge
  <1> QED
    BY <1>2 DEF alwaysFails

\* What is stored into a variable that is not marked is not nil, if what it
\* reads of another that is not marked is not.
LEMMA PutHolds ==
    ASSUME TypeInv, NEW v \in Var, Unmarked(v), ~mayHoldNil(v), NEW x \in stores(v),
           put(v, x),
           x.op = "Load" /\ Unmarked(x.of) => contents[x.of] = "error"
    PROVE  contents'[v] = "error"
  <1>1. ~storesNil(x) /\ x \in Error
    BY StoresAreErrors DEF mayHoldNil
  <1>2. x.op = "Load" => x.of \in trusted \/ Unmarked(x.of)
    BY <1>1, StoresAreErrors DEF storesNil, holds, trusted, Unmarked
  <1>3. x.op = "Other" \/ reads(x) = {"error"}
    <2>1. CASE x.op = "Load"
      BY <1>2, <2>1 DEF reads, Unmarked
    <2>2. CASE x.op # "Load"
      BY <1>1, <2>2 DEF reads, storesNil
    <2> QED
      BY <2>1, <2>2
  <1> QED
    BY <1>3 DEF put, TypeInv

\* A store touches no other variable.
LEMMA PutKeeps ==
    ASSUME TypeInv, NEW v, NEW x, put(v, x)
    PROVE  DOMAIN contents' = Var /\ \A w \in Var : w # v => contents'[w] = contents[w]
  BY DEF put, TypeInv

---------------------------------------------------------------------------
\* One variable of a round.
LEMMA LearnVariableKeeps ==
    ASSUME LearnInv, LearnVariable
    PROVE  LearnInv'
  <1> DEFINE v == variables[position]
             news == v \notin nilable \union package.escaped /\ mayHoldNil(v)
  <1>1. /\ TypeInv /\ VariablesInv /\ FunctionsInv
        /\ phase = "variables" /\ position <= Len(variables)
        /\ UNCHANGED <<read, phase, failing, contents, unset, calls>>
        /\ nilable' = IF news THEN nilable \union {v} ELSE nilable
        /\ learned' = (learned \/ news) /\ position' = position + 1
    BY DEF LearnInv, LearnVariable
  <1>2. /\ Len(variables) \in Nat /\ v \in Var
        /\ \A j \in 1 .. Len(variables) : variables[j] \in Var
    BY <1>1, OrderCovers, NamesAssumption DEF TypeInv
  <1>3. TypeInv'
    BY <1>1, <1>2 DEF TypeInv, read, calls
  <1>4. VariablesInv'
    <2>1. ASSUME NEW those \in SUBSET Var, ClosedNil(those)'
          PROVE  nilable' \subseteq those
      <3>1. nilable \subseteq those
        BY <1>1, <2>1 DEF VariablesInv, ClosedNil, shownNil, initialized, stores,
                          declaredStores, read
      <3>2. ASSUME news
            PROVE  v \in those
        <4>1. shownNil(v, nilable)
          BY <1>1, <1>2, <3>2, ShownByMarked
        <4>2. shownNil(v, those)
          BY <3>1, <4>1 DEF shownNil
        <4>3. ClosedNil(those)
          BY <1>1, <2>1 DEF ClosedNil, shownNil, initialized, stores, declaredStores, read
        <4> QED
          BY <1>2, <4>2, <4>3 DEF ClosedNil
      <3> QED
        BY <1>1, <3>1, <3>2
    <2>2. ASSUME ~learned', NEW j \in 1 .. Len(variables), j < position', Unmarked(variables[j])'
          PROVE  ~mayHoldNil(variables[j])'
      <3>1. ~learned /\ ~news /\ nilable' = nilable
        BY <1>1, <2>2 DEF TypeInv
      <3>2. Unmarked(variables[j]) /\ (j < position \/ j = position)
        BY <1>1, <2>2, <3>1 DEF Unmarked, read, TypeInv
      <3>3. ~mayHoldNil(variables[j])
        BY <1>1, <1>2, <3>1, <3>2 DEF VariablesInv, Unmarked
      <3> QED
        BY <1>1, <3>1, <3>3
           DEF mayHoldNil, initialized, stores, declaredStores, storesNil, holds, read
    <2>3. nilable' \intersect package'.escaped = {}
      BY <1>1 DEF VariablesInv, read
    <2>4. phase' = "variables" /\ variables' = variables
      BY <1>1 DEF read
    <2> QED
      BY <2>1, <2>2, <2>3, <2>4 DEF VariablesInv
  <1>5. FunctionsInv'
    BY <1>1 DEF FunctionsInv, read
  <1> QED
    BY <1>3, <1>4, <1>5 DEF LearnInv

\* One function of a round.
LEMMA LearnFunctionKeeps ==
    ASSUME LearnInv, LearnFunction
    PROVE  LearnInv'
  <1> DEFINE f == functions[position]
             news == f \notin failing /\ alwaysFails(f)
  <1>1. /\ TypeInv /\ VariablesInv /\ FunctionsInv
        /\ phase = "functions" /\ position <= Len(functions)
        /\ UNCHANGED <<read, phase, nilable, contents, unset, calls>>
        /\ failing' = IF news THEN failing \union {f} ELSE failing
        /\ learned' = (learned \/ news) /\ position' = position + 1
    BY DEF LearnInv, LearnFunction
  <1>2. Len(functions) \in Nat /\ \A j \in 1 .. Len(functions) : functions[j] \in Func
    BY <1>1, OrderCovers, NamesAssumption DEF TypeInv
  <1>3. f \in Func
    BY <1>1, <1>2 DEF TypeInv
  <1>4. TypeInv'
    BY <1>1, <1>3 DEF TypeInv, read, calls
  <1>5. VariablesInv'
    BY <1>1 DEF VariablesInv, ClosedNil, shownNil, Unmarked, mayHoldNil, initialized, stores,
                declaredStores, storesNil, holds, read
  <1>6. FunctionsInv'
    <2>1. failing \subseteq failing' /\ failing' \subseteq Func
      BY <1>1, <1>3 DEF TypeInv
    <2>2. ASSUME NEW g \in failing'
          PROVE  alwaysFails(g)'
      BY <1>1, <2>1, <2>2, FailsStill DEF FunctionsInv, read
    <2>3. ASSUME ~learned', NEW j \in 1 .. Len(functions), j < position',
                 alwaysFails(functions[j])'
          PROVE  functions[j] \in failing'
      <3>1. ~learned /\ ~news /\ failing' = failing
        BY <1>1, <2>3 DEF TypeInv
      <3>2. package' = package /\ functions' = functions /\ nilable' = nilable
        BY <1>1 DEF read
      <3>3. alwaysFails(functions[j])
        BY <2>3, <3>1, <3>2 DEF alwaysFails, built, builtOnEveryEdge, builtLeaf, holds
      <3>4. j < position \/ j = position
        BY <1>1, <2>3 DEF TypeInv
      <3> QED
        BY <1>1, <3>1, <3>3, <3>4 DEF FunctionsInv
    <2>4. phase' = "functions" /\ functions' = functions
      BY <1>1 DEF read
    <2> QED
      BY <2>2, <2>3, <2>4 DEF FunctionsInv
  <1> QED
    BY <1>4, <1>5, <1>6 DEF LearnInv

\* The end of a round: another, or what a round that learned nothing settles.
LEMMA EndRoundKeeps ==
    ASSUME LearnInv, EndVariables \/ EndFunctions
    PROVE  LearnInv'
  <1>1. /\ TypeInv /\ VariablesInv /\ FunctionsInv
        /\ UNCHANGED <<read, nilable, failing, contents, unset, calls>>
        /\ position' = 1 /\ learned' = FALSE
    BY DEF LearnInv, EndVariables, EndFunctions, EndRound, known
  <1>2. /\ \A v \in Var : /\ Unmarked(v)' <=> Unmarked(v)
                          /\ mayHoldNil(v)' <=> mayHoldNil(v)
        /\ \A those : ClosedNil(those)' <=> ClosedNil(those)
    BY <1>1 DEF Unmarked, mayHoldNil, initialized, stores, declaredStores,
                storesNil, holds, ClosedNil, shownNil, read
  <1>3. \A f \in Func : alwaysFails(f)' <=> alwaysFails(f)
    BY <1>1 DEF alwaysFails, built, builtOnEveryEdge, builtLeaf, holds, read
  <1>4. CASE EndVariables
    <2>1. /\ phase = "variables" /\ position > Len(variables)
          /\ phase' = IF learned THEN "variables" ELSE "functions"
      BY <1>4 DEF EndVariables, EndRound
    <2>2. TypeInv'
      <3>1. phase' \in {"variables", "functions", "declaring", "running"}
        BY <2>1
      <3>2. position' \in Nat \ {0}
        BY <1>1
      <3>3. learned' \in BOOLEAN
        BY <1>1
      <3> QED
        BY <1>1, <3>1, <3>2, <3>3 DEF TypeInv, read, calls
    <2>3. VariablesInv'
      <3>1. ASSUME ~learned, NEW v \in Var, Unmarked(v)
            PROVE  ~mayHoldNil(v)
        <4>1. PICK j \in 1 .. Len(variables) : variables[j] = v
          BY <1>1, OrderCovers, NamesAssumption DEF TypeInv
        <4>2. j < position
          BY <1>1, <2>1, OrderCovers, NamesAssumption DEF TypeInv
        <4> QED
          BY <1>1, <2>1, <3>1, <4>1, <4>2 DEF VariablesInv
      <3> QED
        BY <1>1, <1>2, <2>1, <3>1 DEF VariablesInv, read
    <2>4. FunctionsInv'
      BY <1>1, <1>3, <2>1 DEF FunctionsInv, read
    <2> QED
      BY <2>2, <2>3, <2>4 DEF LearnInv
  <1>5. CASE EndFunctions
    <2>1. /\ phase = "functions" /\ position > Len(functions)
          /\ phase' = IF learned THEN "functions" ELSE "declaring"
      BY <1>5 DEF EndFunctions, EndRound
    <2>2. TypeInv'
      <3>1. phase' \in {"variables", "functions", "declaring", "running"}
        BY <2>1
      <3>2. position' \in Nat \ {0}
        BY <1>1
      <3>3. learned' \in BOOLEAN
        BY <1>1
      <3> QED
        BY <1>1, <3>1, <3>2, <3>3 DEF TypeInv, read, calls
    <2>3. VariablesInv'
      BY <1>1, <1>2, <2>1 DEF VariablesInv, read
    <2>4. FunctionsInv'
      <3>1. ASSUME ~learned, NEW f \in Func, alwaysFails(f)
            PROVE  f \in failing
        <4>1. PICK j \in 1 .. Len(functions) : functions[j] = f
          BY <1>1, OrderCovers, NamesAssumption DEF TypeInv
        <4>2. j < position
          BY <1>1, <2>1, OrderCovers, NamesAssumption DEF TypeInv
        <4> QED
          BY <1>1, <2>1, <3>1, <4>1, <4>2 DEF FunctionsInv
      <3>2. failing \subseteq Func
        BY <1>1 DEF TypeInv
      <3> QED
        BY <1>1, <1>3, <2>1, <3>1, <3>2 DEF FunctionsInv, read
    <2> QED
      BY <2>2, <2>3, <2>4 DEF LearnInv
  <1> QED
    BY <1>4, <1>5

\* The learned stays learned while the package runs.
LEMMA LearnedKeeps ==
    ASSUME LearnInv, UNCHANGED <<read, known>>, DOMAIN contents' = Var,
           calling' \in Func \union {None},
           \/ UNCHANGED learning
           \/ UNCHANGED <<position, learned>> /\ phase = "declaring" /\ phase' = "running"
    PROVE  /\ LearnInv'
           /\ \A v : Unmarked(v)' <=> Unmarked(v)
  <1>1. UNCHANGED <<package, variables, functions, nilable, failing, position, learned>>
    BY DEF read, known, learning
  <1>2. phase' = phase \/ (phase = "declaring" /\ phase' = "running")
    BY DEF learning
  <1>3. TypeInv'
    BY <1>1, <1>2 DEF LearnInv, TypeInv
  <1>4. VariablesInv'
    <2>1. /\ \A v : Unmarked(v)' <=> Unmarked(v)
          /\ \A v : mayHoldNil(v)' <=> mayHoldNil(v)
      BY <1>1 DEF Unmarked, mayHoldNil, initialized, stores, declaredStores, storesNil, holds
    <2>2. \A those : ClosedNil(those)' <=> ClosedNil(those)
      BY <1>1 DEF ClosedNil, shownNil, initialized, stores, declaredStores
    <2> QED
      BY <1>1, <1>2, <2>1, <2>2 DEF LearnInv, VariablesInv
  <1>5. FunctionsInv'
    BY <1>1, <1>2 DEF LearnInv, FunctionsInv, alwaysFails, built, builtOnEveryEdge,
                      builtLeaf, holds
  <1> QED
    BY <1>1, <1>3, <1>4, <1>5 DEF LearnInv, Unmarked

\* The rounds are over before anything runs.
LEMMA RoundsRunNothing ==
    ASSUME LearnInv, RunInv, Learning
    PROVE  RunInv'
  <1>1. phase \in {"variables", "functions"} /\ phase' \in {"variables", "functions", "declaring"}
    BY DEF Learning, LearnVariable, LearnFunction, EndVariables, EndFunctions, EndRound
  <1>2. UNCHANGED <<read, contents, unset, calls>>
    BY DEF Learning, LearnVariable, LearnFunction, EndVariables, EndFunctions, EndRound
  <1>3. \A v \in Var : initStores(v)' = initStores(v) /\ (Started(v)' <=> Started(v))
    BY <1>2 DEF Started, initStores, declaredStores, read
  <1> QED
    BY <1>1, <1>2, <1>3 DEF RunInv, calls

\* What is stored into a variable while the package is initialized.
LEMMA StoreKeeps ==
    ASSUME LearnInv, RunInv, phase = "declaring", UNCHANGED <<read, learning, known, calls>>,
           NEW v \in Var, NEW x \in initStores(v), <<v, x>> \in unset, put(v, x),
           unset' = unset \ {<<v, x>>},
           x.op = "Load" /\ Unmarked(x.of) => Started(x.of)
    PROVE  LearnInv' /\ RunInv'
  <1>1. TypeInv /\ VariablesInv
    BY DEF LearnInv
  <1>2. DOMAIN contents' = Var /\ \A w \in Var : w # v => contents'[w] = contents[w]
    BY <1>1, PutKeeps
  <1>3. LearnInv' /\ \A w : Unmarked(w)' <=> Unmarked(w)
    BY <1>1, <1>2, LearnedKeeps DEF TypeInv, calls
  <1>4. \A w \in Var : initStores(w)' = initStores(w)
    BY DEF initStores, declaredStores, read
  <1>5. ASSUME NEW w \in Var, Unmarked(w), Started(w)'
        PROVE  contents'[w] = "error"
    <2>1. CASE w = v
      <3>1. x \in stores(v)
        BY DEF initStores, stores
      <3>2. ~mayHoldNil(v)
        BY <1>1, <1>5, <2>1 DEF VariablesInv
      <3>3. x.op = "Load" /\ Unmarked(x.of) => contents[x.of] = "error"
        BY DEF RunInv, Unmarked
      <3> QED
        BY <1>1, <1>5, <2>1, <3>1, <3>2, <3>3, PutHolds
    <2>2. CASE w # v
      <3>1. Started(w)
        BY <1>4, <1>5, <2>2 DEF Started
      <3> QED
        BY <1>2, <1>5, <2>2, <3>1 DEF RunInv
    <2> QED
      BY <2>1, <2>2
  <1>6. phase' = "declaring" /\ UNCHANGED <<failing, calls>>
    BY DEF learning, known
  <1>7. RunInv'
    BY <1>3, <1>4, <1>5, <1>6 DEF RunInv, calls
  <1> QED
    BY <1>3, <1>7

\* What initialization reads of a variable that is not marked was stored there.
LEMMA ReadAfterDeclared ==
    ASSUME \A p \in Packages : DeclaredFirst(p), LearnInv, phase = "declaring",
           NEW v \in Var, NEW x \in initStores(v), x.op = "Load", Unmarked(x.of),
           package.declared[x.of] # None => <<x.of, package.declared[x.of]>> \notin unset
    PROVE  Started(x.of)
  <1>1. x.of \in Var /\ initialized(x.of)
    BY DEF LearnInv, VariablesInv, Unmarked, mayHoldNil
  <1>2. x \in ({package.declared[v]} \ {None}) \union package.inits[v]
    BY DEF initStores, declaredStores
  <1>3. package.declared[x.of] # None \/ package.inits[x.of] = {}
    BY <1>1, <1>2 DEF DeclaredFirst, LearnInv, TypeInv
  <1> QED
    BY <1>1, <1>3 DEF initialized, declaredStores, Started, initStores

---------------------------------------------------------------------------
\* The package runs: a step that stores, and one that begins it.
LEMMA InitializationKeeps ==
    ASSUME \A p \in Packages : DeclaredFirst(p), LearnInv, RunInv,
           Declare \/ Initialize \/ Begin
    PROVE  LearnInv' /\ RunInv'
  <1>1. CASE Declare
    <2>1. PICK v \in Var : \E x \in declaredStores(v) :
                 /\ <<v, x>> \in unset /\ put(v, x) /\ unset' = unset \ {<<v, x>>}
                 /\ ~\E w \in Var : /\ x.op = "Load" /\ x.of = w
                                    /\ <<w, package.declared[w]>> \in unset
      BY <1>1 DEF Declare
    <2>2. PICK x \in declaredStores(v) :
                 /\ <<v, x>> \in unset /\ put(v, x) /\ unset' = unset \ {<<v, x>>}
                 /\ ~\E w \in Var : /\ x.op = "Load" /\ x.of = w
                                    /\ <<w, package.declared[w]>> \in unset
      BY <2>1
    <2>3. x \in initStores(v) /\ phase = "declaring" /\ UNCHANGED <<read, learning, known, calls>>
      BY <1>1 DEF Declare, initStores
    <2>4. x.op = "Load" /\ Unmarked(x.of) => Started(x.of)
      BY <2>2, <2>3, ReadAfterDeclared DEF Unmarked
    <2> QED
      BY <2>2, <2>3, <2>4, StoreKeeps
  <1>2. CASE Initialize
    <2>1. PICK store \in unset : put(store[1], store[2]) /\ unset' = unset \ {store}
      BY <1>2 DEF Initialize
    <2>2. PICK v \in Var : \E x \in initStores(v) : store = <<v, x>>
      BY <2>1 DEF RunInv
    <2>3. PICK x \in initStores(v) : store = <<v, x>>
      BY <2>2
    <2>4. /\ phase = "declaring" /\ UNCHANGED <<read, learning, known, calls>>
          /\ \A w \in Var : \A y \in declaredStores(w) : <<w, y>> \notin unset
      BY <1>2 DEF Initialize
    <2>5. put(v, x) /\ unset' = unset \ {<<v, x>>} /\ <<v, x>> \in unset
      BY <2>1, <2>3
    <2>6. x.op = "Load" /\ Unmarked(x.of) => Started(x.of)
      BY <2>4, ReadAfterDeclared DEF Unmarked, declaredStores
    <2> QED
      BY <2>4, <2>5, <2>6, StoreKeeps
  <1>3. CASE Begin
    <2>1. /\ phase = "declaring" /\ phase' = "running" /\ unset = {}
          /\ UNCHANGED <<read, position, learned, known, contents, unset, calls>>
      BY <1>3 DEF Begin
    <2>2. LearnInv' /\ \A v : Unmarked(v)' <=> Unmarked(v)
      BY <2>1, LearnedKeeps DEF LearnInv, TypeInv, calls
    <2>3. \A v \in Var : Unmarked(v) => contents[v] = "error"
      BY <2>1 DEF LearnInv, VariablesInv, mayHoldNil, initialized, RunInv, Started, initStores
    <2>4. RunInv'
      BY <2>1, <2>2, <2>3 DEF RunInv, calls, known
    <2> QED
      BY <2>2, <2>4
  <1> QED
    BY <1>1, <1>2, <1>3

\* The running package sets a variable.
LEMMA SetKeeps ==
    ASSUME LearnInv, RunInv, Set
    PROVE  LearnInv' /\ RunInv'
  <1>1. PICK v \in Var : \E x \in package.sets[v] : put(v, x)
    BY DEF Set
  <1>2. PICK x \in package.sets[v] : put(v, x)
    BY <1>1
  <1>3. phase = "running" /\ UNCHANGED <<read, learning, known, unset, calls>>
    BY DEF Set
  <1>4. TypeInv /\ x \in stores(v)
    BY DEF LearnInv, stores
  <1>5. DOMAIN contents' = Var /\ \A w \in Var : w # v => contents'[w] = contents[w]
    BY <1>2, <1>4, PutKeeps
  <1>6. LearnInv' /\ \A w : Unmarked(w)' <=> Unmarked(w)
    BY <1>3, <1>4, <1>5, LearnedKeeps DEF TypeInv, calls
  <1>7. Unmarked(v) => contents'[v] = "error"
    <2>1. Unmarked(v) => ~mayHoldNil(v)
      BY <1>3 DEF LearnInv, VariablesInv
    <2>2. x.op = "Load" /\ Unmarked(x.of) => contents[x.of] = "error"
      BY <1>3 DEF RunInv, Unmarked
    <2> QED
      BY <1>2, <1>4, <2>1, <2>2, PutHolds
  <1>8. phase' = "running" /\ UNCHANGED <<unset, failing, top, calling, result>>
    BY <1>3 DEF learning, known, calls
  <1>9. \A w \in Var : initStores(w)' = initStores(w)
    BY <1>3 DEF initStores, declaredStores, read
  <1>10. RunInv'
    BY <1>3, <1>5, <1>6, <1>7, <1>8, <1>9 DEF RunInv
  <1> QED
    BY <1>6, <1>10

\* The running package calls a function, and one returns.
LEMMA CallKeeps ==
    ASSUME LearnInv, RunInv, Call
    PROVE  LearnInv' /\ RunInv'
  <1>1. /\ UNCHANGED <<read, learning, known, contents, unset>> /\ phase = "running"
        /\ result' = "none" /\ top' = calling' /\ calling' \in Func
    BY DEF Call
  <1>2. LearnInv' /\ \A w : Unmarked(w)' <=> Unmarked(w)
    BY <1>1, LearnedKeeps DEF LearnInv, TypeInv
  <1>3. \A w \in Var : initStores(w)' = initStores(w)
    BY <1>1 DEF initStores, declaredStores, read
  <1>4. RunInv'
    BY <1>1, <1>2, <1>3 DEF RunInv, learning, known
  <1> QED
    BY <1>2, <1>4

\* What a call returns through is another function of the package, or nothing.
LEMMA ReturnsToFunction ==
    ASSUME LearnInv, Return
    PROVE  calling' \in Func \union {None}
  <1>1. PICK x \in package.returns[calling] :
           \E e \in IF x.op = "Phi" THEN x.edges ELSE {x} :
              calling' = IF e.op = "Call" THEN e.of ELSE None
    BY DEF Return
  <1>2. PICK e \in IF x.op = "Phi" THEN x.edges ELSE {x} :
              calling' = IF e.op = "Call" THEN e.of ELSE None
    BY <1>1
  <1>3. x \in Error
    BY PackagesAssumption DEF Return, LearnInv, TypeInv
  <1>4. e \in Leaf
    <2>1. CASE x \in Leaf
      <3>1. x.op # "Phi"
        BY <2>1 DEF Leaf
      <3> QED
        BY <1>2, <2>1, <3>1
    <2>2. CASE x \in [op : {"Phi"}, edges : SUBSET Leaf, loops : BOOLEAN]
      BY <1>2, <2>2
    <2> QED
      BY <1>3, <2>1, <2>2 DEF Error
  <1> QED
    BY <1>2, <1>4 DEF Leaf

\* A return keeps what is known.
LEMMA ReturnKeeps ==
    ASSUME LearnInv, RunInv, Return
    PROVE  LearnInv' /\ RunInv'
  <1>1. /\ UNCHANGED <<read, learning, known, contents, unset, top>>
        /\ calling # None /\ phase = "running" /\ calling \in Func
    BY DEF Return, RunInv, LearnInv, TypeInv
  <1>2. PICK x \in package.returns[calling] :
           \E e \in IF x.op = "Phi" THEN x.edges ELSE {x} :
              IF e.op = "Call" THEN calling' = e.of /\ UNCHANGED result
                               ELSE calling' = None /\ result' \in reads(e)
    BY DEF Return
  <1>3. PICK e \in IF x.op = "Phi" THEN x.edges ELSE {x} :
              IF e.op = "Call" THEN calling' = e.of /\ UNCHANGED result
                               ELSE calling' = None /\ result' \in reads(e)
    BY <1>2
  <1>4. calling' \in Func \union {None}
    BY ReturnsToFunction
  <1>5. LearnInv' /\ \A w : Unmarked(w)' <=> Unmarked(w)
    BY <1>1, <1>4, LearnedKeeps DEF LearnInv, TypeInv
  <1>6. ASSUME top \in failing
        PROVE  builtLeaf(e)
    <2>1. alwaysFails(calling)
      BY <1>1, <1>6 DEF RunInv, LearnInv, FunctionsInv
    <2>2. built(x)
      BY <1>2, <2>1 DEF alwaysFails
    <2> QED
      BY <1>3, <2>2 DEF built, builtOnEveryEdge
  <1>7. ASSUME top \in failing, e.op # "Call"
        PROVE  result' # "nil"
    <2>1. CASE e.op = "Failure"
      BY <1>3, <1>7, <2>1 DEF reads
    <2>2. CASE e.op = "Load" /\ holds(e.of)
      <3>1. e.of \in trusted \/ Unmarked(e.of)
        BY <2>2 DEF holds, trusted, Unmarked
      <3>2. reads(e) = {"error"}
        BY <1>1, <2>2, <3>1 DEF reads, RunInv, Unmarked
      <3> QED
        BY <1>3, <1>7, <3>2
    <2> QED
      BY <1>6, <1>7, <2>1, <2>2 DEF builtLeaf
  <1>8. ASSUME top \in failing, e.op = "Call"
         PROVE  calling' \in failing
    BY <1>3, <1>6, <1>8 DEF builtLeaf
  <1>9. \A w \in Var : initStores(w)' = initStores(w)
    BY <1>1 DEF initStores, declaredStores, read
  <1>10. phase' = "running" /\ UNCHANGED failing
    BY <1>1 DEF learning, known
  <1>11. RunInv'
    BY <1>1, <1>3, <1>5, <1>7, <1>8, <1>9, <1>10 DEF RunInv
  <1> QED
    BY <1>5, <1>11

---------------------------------------------------------------------------
\* Nothing is known when the rounds begin, and nothing stored.
LEMMA FailuresStart == Init => LearnInv /\ RunInv
  <1> SUFFICES ASSUME Init PROVE LearnInv /\ RunInv
    OBVIOUS
  <1>1. TypeInv
    <2>1. position \in Nat \ {0}
      BY DEF Init
    <2>2. learned \in BOOLEAN
      BY DEF Init
    <2>3. DOMAIN contents = Var
      BY DEF Init
    <2> QED
      BY <2>1, <2>2, <2>3 DEF Init, TypeInv
  <1>2. VariablesInv
    BY <1>1 DEF Init, VariablesInv, TypeInv
  <1>3. FunctionsInv
    BY DEF Init, FunctionsInv
  <1>4. unset = UNION {{v} \X initStores(v) : v \in Var}
    BY DEF Init, initStores
  <1>5. RunInv
    <2>1. ASSUME NEW v \in Var
          PROVE  ~Started(v)
      <3>1. \A x \in initStores(v) : <<v, x>> \in {v} \X initStores(v)
        OBVIOUS
      <3>2. {v} \X initStores(v) \subseteq unset
        BY <1>4
      <3> QED
        BY <3>1, <3>2 DEF Started
    <2>2. ASSUME NEW store \in unset
          PROVE  \E v \in Var : \E x \in initStores(v) : store = <<v, x>>
      BY <1>4, <2>2
    <2> QED
      BY <2>1, <2>2 DEF Init, RunInv
  <1> QED
    BY <1>1, <1>2, <1>3, <1>5 DEF LearnInv

\* Every step keeps what the rounds and the run have established.
LEMMA FailuresStep ==
    ASSUME \A p \in Packages : DeclaredFirst(p)
    PROVE  (LearnInv /\ RunInv) /\ [Next]_vars => (LearnInv /\ RunInv)'
  <1> SUFFICES ASSUME LearnInv, RunInv, [Next]_vars
               PROVE  LearnInv' /\ RunInv'
    OBVIOUS
  <1>1. CASE Learning
    BY <1>1, LearnVariableKeeps, LearnFunctionKeeps, EndRoundKeeps, RoundsRunNothing DEF Learning
  <1>2. CASE Declare \/ Initialize \/ Begin
    BY <1>2, InitializationKeeps
  <1>3. CASE Set
    BY <1>3, SetKeeps
  <1>4. CASE Call
    BY <1>4, CallKeeps
  <1>5. CASE Return
    BY <1>5, ReturnKeeps
  <1>6. CASE UNCHANGED vars
    <2>1. UNCHANGED <<read, learning, known, contents, unset, calls>>
      BY <1>6 DEF vars
    <2>2. LearnInv' /\ \A w : Unmarked(w)' <=> Unmarked(w)
      BY <2>1, LearnedKeeps DEF LearnInv, TypeInv, calls
    <2>3. \A w \in Var : initStores(w)' = initStores(w)
      BY <2>1 DEF initStores, declaredStores, read
    <2>4. RunInv'
      BY <2>1, <2>2, <2>3 DEF RunInv, Started, learning, known, calls
    <2> QED
      BY <2>2, <2>4
  <1> QED
    BY <1>1, <1>2, <1>3, <1>4, <1>5, <1>6 DEF Next

\* What the rounds learn does not rest on what the package does.
LEMMA LearnStep == LearnInv /\ [Next]_vars => LearnInv'
  <1> SUFFICES ASSUME LearnInv, [Next]_vars PROVE LearnInv'
    OBVIOUS
  <1>1. CASE Learning
    BY <1>1, LearnVariableKeeps, LearnFunctionKeeps, EndRoundKeeps DEF Learning
  <1>2. CASE Declare \/ Initialize \/ Set
    <2>1. \E v, x : put(v, x)
      BY <1>2 DEF Declare, Initialize, Set
    <2>2. DOMAIN contents' = Var
      BY <2>1, PutKeeps DEF LearnInv
    <2> QED
      BY <1>2, <2>2, LearnedKeeps DEF Declare, Initialize, Set, LearnInv, TypeInv, calls
  <1>3. CASE Begin
    BY <1>3, LearnedKeeps DEF Begin, LearnInv, TypeInv, calls
  <1>4. CASE Call
    BY <1>4, LearnedKeeps DEF Call, LearnInv, TypeInv
  <1>5. CASE Return
    BY <1>5, ReturnsToFunction, LearnedKeeps DEF Return, LearnInv, TypeInv
  <1>6. CASE UNCHANGED vars
    BY <1>6, LearnedKeeps DEF vars, LearnInv, TypeInv, calls
  <1> QED
    BY <1>1, <1>2, <1>3, <1>4, <1>5, <1>6 DEF Next

\* Whatever the order the package's members come in, the rounds mark exactly the
\* variables the package shows to be nilable, and miss no function it shows to
\* always fail (failuresOf, learnNilable, learnFunctions).
THEOREM RoundsLearnAll == Spec => []RoundsSettle
  <1>1. LearnInv => RoundsSettle
    <2> SUFFICES ASSUME LearnInv PROVE RoundsSettle
      OBVIOUS
    <2>1. TypeInv /\ VariablesInv /\ FunctionsInv
      BY DEF LearnInv
    <2>2. ASSUME phase # "variables"
          PROVE  ClosedNil(nilable)
      BY <2>1, <2>2, ShownByMarked DEF ClosedNil, VariablesInv, Unmarked, shownNil
    <2>3. NilableSettled
      BY <2>1, <2>2 DEF NilableSettled, VariablesInv, TypeInv, ClosedNil
    <2>4. FailingSettled
      BY <2>1 DEF FailingSettled, FunctionsInv, TypeInv
    <2> QED
      BY <2>3, <2>4 DEF RoundsSettle
  <1> QED
    BY <1>1, FailuresStart, LearnStep, PTL DEF Spec

\* In every package where what initialization reads of another variable is what
\* that one was declared with, a variable that is not marked never holds nil
\* once the package is initialized, whatever it stores and when (learnNilable).
THEOREM UnmarkedNeverNil ==
    ASSUME \A p \in Packages : DeclaredFirst(p)
    PROVE  Spec => []VariablesHold
  <1>1. LearnInv /\ RunInv => VariablesHold
    BY DEF VariablesHold, RunInv, Unmarked
  <1>2. (LearnInv /\ RunInv) /\ [Next]_vars => (LearnInv /\ RunInv)'
    BY FailuresStep
  <1> QED
    BY <1>1, <1>2, FailuresStart, PTL DEF Spec

\* In those packages a function known to always fail returns no nil, through
\* the phis, the calls and the variables its error comes from (learnFunctions).
THEOREM AlwaysFailing ==
    ASSUME \A p \in Packages : DeclaredFirst(p)
    PROVE  Spec => []AlwaysFailsSound
  <1>1. LearnInv /\ RunInv => AlwaysFailsSound
    BY DEF AlwaysFailsSound, RunInv
  <1>2. (LearnInv /\ RunInv) /\ [Next]_vars => (LearnInv /\ RunInv)'
    BY FailuresStep
  <1> QED
    BY <1>1, <1>2, FailuresStart, PTL DEF Spec

----------------------------------------------------------------------------
(* What bind.go and implementation.go bind.                                *)

\* What holds of 0, and of the next number where it holds of one, holds of all.
LEMMA SetInduction ==
    ASSUME NEW S, 0 \in S, \A n \in Nat : n \in S => n + 1 \in S
    PROVE  Nat \subseteq S
  <1> DEFINE L == OpToRel(<, Nat)
             T == Nat \ S
  <1> SUFFICES ASSUME T # {} PROVE FALSE
    OBVIOUS
  <1>1. \A m, n \in Nat : m < n => <<m, n>> \in L
    BY DEF OpToRel
  <1>2. IsWellFoundedOn(L, Nat)
    BY NatLessThanWellFounded
  <1> HIDE DEF L
  <1>3. PICK n \in T : \A m \in T : <<m, n>> \notin L
    BY <1>2, WFMin
  <1>4. n # 0 /\ n \in Nat
    OBVIOUS
  <1>5. n - 1 \in Nat /\ n - 1 < n /\ (n - 1) + 1 = n
    BY <1>4
  <1>6. n - 1 \in T
    BY <1>4, <1>5
  <1> QED
    BY <1>1, <1>3, <1>4, <1>5, <1>6


\* A set of numbers that has one has a least.
LEMMA LeastIn ==
    ASSUME NEW S \in SUBSET Nat, S # {}
    PROVE  \E n \in S : \A m \in S : n <= m
  <1> DEFINE L == OpToRel(<, Nat)
  <1>1. \A m, n \in Nat : m < n => <<m, n>> \in L
    BY DEF OpToRel
  <1>2. IsWellFoundedOn(L, Nat)
    BY NatLessThanWellFounded
  <1> HIDE DEF L
  <1>3. PICK n \in S : \A m \in S : <<m, n>> \notin L
    BY <1>2, WFMin
  <1>4. ASSUME NEW m \in S PROVE n <= m
    <2>1. m \in Nat /\ n \in Nat /\ ~(m < n)
      BY <1>1, <1>3
    <2> QED
      BY <2>1
  <1> QED
    BY <1>4

----------------------------------------------------------------------------
(* linkingType.                                                            *)

\* What the loop of linkingType takes of the trigger's candidates.
IsTaken(taken, opening, closing) ==
    \A i \in DOMAIN opening :
        i \in taken <=>
            /\ offeredByAll(closing, opening[i])
            /\ \A j \in taken : j < i => ~links(opening[j], opening[i])

\* The loop of linkingType ends with one choice of candidates.
LEMMA LinkingTaken ==
    ASSUME NEW m \in Nat, NEW opening, DOMAIN opening \subseteq 1..m, NEW closing
    PROVE  /\ linkingTypes(opening, closing) \subseteq DOMAIN opening
           /\ IsTaken(linkingTypes(opening, closing), opening, closing)
  <1> DEFINE D == DOMAIN opening
             all(i) == offeredByAll(closing, opening[i])
             link(j, i) == links(opening[j], opening[i])
             takes(K, i) == all(i) /\ \A j \in K : j < i => ~link(j, i)
             T == {n \in Nat : \E K \in SUBSET D :
                      \A i \in D : i <= n => (i \in K <=> takes(K, i))}
  <1> HIDE DEF all, link
  <1>1. 0 \in T
    <2>1. \A i \in D : ~(i <= 0)
      OBVIOUS
    <2> QED
      BY <2>1
  <1>2. ASSUME NEW n \in Nat, n \in T PROVE n + 1 \in T
    <2>1. PICK K \in SUBSET D : \A i \in D : i <= n => (i \in K <=> takes(K, i))
      BY <1>2
    <2> DEFINE Kept == {i \in K : i <= n}
               Now == {i \in D : i = n + 1 /\ takes(Kept, i)}
               More == Kept \union Now
    <2>2. More \in SUBSET D
      OBVIOUS
    <2>3. ASSUME NEW i \in D, i <= n + 1
          PROVE  i \in More <=> takes(More, i)
      <3>1. \A j \in D : j \in Nat
        OBVIOUS
      <3>2. CASE i <= n
        <4>1. i # n + 1 /\ i \in Nat
          BY <3>1, <3>2
        <4>2. i \in More <=> i \in K
          BY <3>2, <4>1
        <4>3. \A j \in D : j < i => (j \in More <=> j \in K)
          BY <3>1, <3>2
        <4>4. takes(More, i) <=> takes(K, i)
          BY <2>2, <4>3
        <4> QED
          BY <2>1, <3>2, <4>2, <4>4
      <3>3. CASE i = n + 1
        <4>1. i \in More <=> takes(Kept, i)
          BY <3>3
        <4>2. \A j \in D : j < i => (j \in More <=> j \in Kept)
          BY <3>1, <3>3
        <4>3. takes(More, i) <=> takes(Kept, i)
          BY <2>2, <4>2
        <4> QED
          BY <4>1, <4>3
      <3> QED
        BY <2>3, <3>1, <3>2, <3>3
    <2>4. n + 1 \in Nat
      OBVIOUS
    <2> HIDE DEF More, takes
    <2> QED
      BY <2>2, <2>3, <2>4
  <1> HIDE DEF T
  <1>3. m \in T
    BY <1>1, <1>2, SetInduction
  <1>4. \A i \in D : i <= m
    OBVIOUS
  <1>5. \E K \in SUBSET D : IsTaken(K, opening, closing)
    BY <1>3, <1>4 DEF T, IsTaken, all, link
  <1> QED
    BY <1>5 DEF linkingTypes, IsTaken

\* A candidate links with itself, and two link either way round, when the rule
\* wrote the slot of neither.
LEMMA UnwrittenLink ==
    ASSUME NEW first, ~first.called, ~first.written,
           NEW second, ~second.called, ~second.written
    PROVE  /\ links(first, first)
           /\ links(first, second) => links(second, first)
  BY DEF links, sameType, sameActual, Identical

----------------------------------------------------------------------------
(* What a side offers.                                                     *)

\* A function lists its parameters and its results.
Lists(function) ==
    /\ function.params \in Seq(Range(function.params))
    /\ function.results \in Seq(Range(function.results))

\* One list after another.
LEMMA Appended ==
    ASSUME NEW C, NEW s \in Seq(C), NEW t \in Seq(C)
    PROVE  /\ s \o t \in Seq(C)
           /\ Len(s \o t) = Len(s) + Len(t)
           /\ \A i \in 1..Len(s) + Len(t) :
                (s \o t)[i] = IF i <= Len(s) THEN s[i] ELSE t[i - Len(s)]
  OBVIOUS

\* A list of one item, and of none.
LEMMA Single ==
    ASSUME NEW C, NEW c \in C
    PROVE  /\ <<c>> \in Seq(C) /\ Len(<<c>>) = 1 /\ <<c>>[1] = c
           /\ <<>> \in Seq(C) /\ Len(<<>>) = 0
  OBVIOUS

\* A list of candidates for different slots.
Different(list) ==
    \E m \in Nat :
        /\ DOMAIN list = 1..m
        /\ \A i, j \in 1..m : list[i].slot = list[j].slot => i = j

\* The candidates of a function are a list of different slots.
LEMMA CandidatesDiffer ==
    ASSUME NEW function, Lists(function), NEW withResults \in BOOLEAN
    PROVE  Different(candidates(function, withResults))
  <1> DEFINE results == function.results
             last == Len(results)
             count == IF last > 0 /\ Identical(results[last], errorType)
                      THEN last - 1 ELSE last
             receiver == IF function.receiver = "" THEN <<>>
                         ELSE <<Candidate(slotReceiver, function.recv, FALSE)>>
             size == Len(function.params)
             parameter(i) == Candidate(slotArgument(i - 1), function.params[i], FALSE)
             output(i) == Candidate(slotResult(i - 1), results[i], FALSE)
             parameters == [i \in 1..size |-> parameter(i)]
             returned == [i \in 1..count |-> output(i)]
             tail == IF withResults THEN returned ELSE <<>>
             C == {Candidate(slotReceiver, function.recv, FALSE)}
                    \union {parameter(i) : i \in 1..size}
                    \union {output(i) : i \in 1..count}
  <1>1. candidates(function, withResults) = receiver \o parameters \o tail
    BY DEF candidates
  <1>2. size \in Nat /\ last \in Nat /\ count \in Nat
    BY DEF Lists
  <1>3. /\ receiver \in Seq(C)
        /\ Len(receiver) \in {0, 1}
        /\ \A i \in 1..Len(receiver) : receiver[i].slot = slotReceiver
    <2>1. Candidate(slotReceiver, function.recv, FALSE) \in C
      OBVIOUS
    <2>2. Candidate(slotReceiver, function.recv, FALSE).slot = slotReceiver
      BY DEF Candidate
    <2> DEFINE one == Candidate(slotReceiver, function.recv, FALSE)
    <2>3. receiver \in {<<>>, <<one>>}
      OBVIOUS
    <2> HIDE DEF C, receiver, one
    <2>4. /\ <<one>> \in Seq(C) /\ Len(<<one>>) = 1 /\ <<one>>[1] = one
          /\ <<>> \in Seq(C) /\ Len(<<>>) = 0
      BY <2>1, Single DEF one
    <2>5. one.slot = slotReceiver
      BY <2>2 DEF one
    <2>6. CASE receiver = <<>>
      BY <2>4, <2>6
    <2>7. CASE receiver = <<one>>
      <3>1. receiver \in Seq(C) /\ Len(receiver) = 1 /\ receiver[1] = one
        BY <2>4, <2>7
      <3>2. \A i \in 1..1 : i = 1
        OBVIOUS
      <3> QED
        BY <2>5, <3>1, <3>2
    <2> QED
      BY <2>3, <2>6, <2>7
  <1> HIDE DEF size, count, receiver
  <1>4. /\ parameters \in Seq(C)
        /\ Len(parameters) = size
        /\ \A i \in 1..size : parameters[i].slot = slotArgument(i - 1)
    <2>1. \A i \in 1..size : parameter(i) \in C /\ parameter(i).slot = slotArgument(i - 1)
      BY DEF Candidate
    <2> HIDE DEF C, parameter
    <2> QED
      BY <1>2, <2>1
  <1>5. /\ returned \in Seq(C)
        /\ Len(returned) = count
        /\ \A i \in 1..count : returned[i].slot = slotResult(i - 1)
    <2>1. \A i \in 1..count : output(i) \in C /\ output(i).slot = slotResult(i - 1)
      BY DEF Candidate
    <2> HIDE DEF C, output
    <2> QED
      BY <1>2, <2>1
  <1> HIDE DEF parameters, returned, C
  <1>6. /\ tail \in Seq(C)
        /\ Len(tail) \in Nat
        /\ \A i \in 1..Len(tail) : tail[i].slot = slotResult(i - 1)
    BY <1>2, <1>5
  <1> HIDE DEF tail
  <1> DEFINE front == receiver \o parameters
             list == front \o tail
             a == Len(receiver)
             b == a + size
             m == b + Len(tail)
  <1>9. /\ front \in Seq(C) /\ Len(front) = b
        /\ \A i \in 1..b : front[i] = IF i <= a THEN receiver[i] ELSE parameters[i - a]
    BY <1>3, <1>4, Appended
  <1> HIDE DEF front
  <1>10. /\ list \in Seq(C) /\ Len(list) = m
         /\ \A i \in 1..m : list[i] = IF i <= b THEN front[i] ELSE tail[i - b]
    <2>1. \A i \in 1..Len(front) + Len(tail) :
            list[i] = IF i <= Len(front) THEN front[i] ELSE tail[i - Len(front)]
      BY <1>6, <1>9, Appended
    <2>2. list \in Seq(C) /\ Len(list) = Len(front) + Len(tail)
      BY <1>6, <1>9, Appended
    <2> HIDE DEF list
    <2> QED
      BY <1>9, <2>1, <2>2
  <1>11. a \in Nat /\ b \in Nat /\ m \in Nat /\ DOMAIN list = 1..m /\ a <= 1
    BY <1>2, <1>3, <1>6, <1>10
  <1>7. \A i \in 1..m :
          list[i].slot = IF i <= a THEN slotReceiver
                         ELSE IF i <= b THEN slotArgument(i - a - 1)
                         ELSE slotResult(i - b - 1)
    <2> SUFFICES ASSUME NEW i \in 1..m
                 PROVE  list[i].slot = IF i <= a THEN slotReceiver
                                       ELSE IF i <= b THEN slotArgument(i - a - 1)
                                       ELSE slotResult(i - b - 1)
      OBVIOUS
    <2> HIDE DEF list
    <2>1. CASE i <= a
      <3>1. i \in 1..b /\ i <= b /\ i \in 1..a
        BY <1>2, <1>11, <2>1
      <3> QED
        BY <1>3, <1>9, <1>10, <2>1, <3>1
    <2>2. CASE ~(i <= a) /\ i <= b
      <3>1. i - a \in 1..size /\ i \in 1..b
        BY <1>2, <1>11, <2>2
      <3> QED
        BY <1>4, <1>9, <1>10, <2>2, <3>1
    <2>3. CASE ~(i <= a) /\ ~(i <= b)
      <3>1. i - b \in 1..Len(tail)
        BY <1>6, <1>11, <2>3
      <3> QED
        BY <1>6, <1>10, <2>3, <3>1
    <2> QED
      BY <2>1, <2>2, <2>3
  <1> HIDE DEF list
  <1>8. ASSUME NEW i \in 1..m, NEW j \in 1..m, list[i].slot = list[j].slot
        PROVE  i = j
    <2> DEFINE kind(k) == list[k].slot[1]
               index(k) == list[k].slot[2]
    <2> HIDE DEF a, b, m
    <2>1. ASSUME NEW k \in 1..m
          PROVE  /\ kind(k) = IF k <= a THEN "receiver"
                              ELSE IF k <= b THEN "argument" ELSE "result"
                 /\ index(k) = IF k <= a THEN 0
                               ELSE IF k <= b THEN k - a - 1 ELSE k - b - 1
      <3>1. CASE k <= a
        <4>1. list[k].slot = <<"receiver", 0>>
          BY <1>7, <3>1 DEF slotReceiver
        <4> QED
          BY <3>1, <4>1
      <3>2. CASE ~(k <= a) /\ k <= b
        <4>1. list[k].slot = <<"argument", k - a - 1>>
          BY <1>7, <3>2 DEF slotArgument
        <4> QED
          BY <3>2, <4>1
      <3>3. CASE ~(k <= a) /\ ~(k <= b)
        <4>1. list[k].slot = <<"result", k - b - 1>>
          BY <1>7, <3>3 DEF slotResult
        <4> QED
          BY <3>3, <4>1
      <3> QED
        BY <3>1, <3>2, <3>3
    <2>3. kind(i) = kind(j) /\ index(i) = index(j)
      BY <1>8
    <2> HIDE DEF kind, index
    <2>4. i <= a <=> j <= a
      BY <2>1, <2>3
    <2>5. i <= b <=> j <= b
      BY <1>11, <2>1, <2>3, <2>4
    <2> QED
      BY <1>11, <2>1, <2>3, <2>4, <2>5
  <1>12. candidates(function, withResults) = list
    BY <1>1 DEF front, list
  <1> HIDE DEF m
  <1> QED
    BY <1>8, <1>11, <1>12 DEF Different

\* What a list of candidates is once restricted: positions of the list, all of
\* them written, of which there is one, or none written.
Restricted(offered) ==
    /\ \E m \in Nat : DOMAIN offered \subseteq 1..m
    /\ \A i \in DOMAIN offered : ~offered[i].called
    /\ \/ \A i, j \in DOMAIN offered : i = j
       \/ \A i \in DOMAIN offered : ~offered[i].written

\* What a side offers is a list of candidates restricted.
LEMMA OffersRestricted ==
    ASSUME NEW w, \A function \in w.funcs : Lists(function),
           NEW visible, NEW wanted, NEW withResults \in BOOLEAN,
           offeredBy(w, visible, wanted, withResults).error = ""
    PROVE  Restricted(offeredBy(w, visible, wanted, withResults).offered)
  <1> DEFINE named == lookupFunc(w, visible, wanted.name)
             function == CHOOSE any \in named : TRUE
             list == candidates(function, withResults)
             offered == restrict(list, wanted.slot)
  <1>1. named # {} /\ offeredBy(w, visible, wanted, withResults).offered = offered
    BY DEF offeredBy, Failure
  <1>2. function \in named /\ function \in w.funcs
    BY <1>1 DEF lookupFunc
  <1>3. Lists(function)
    BY <1>2
  <1> HIDE DEF named, function
  <1>4. Different(list)
    BY <1>3, CandidatesDiffer
  <1>5. PICK m \in Nat :
          /\ DOMAIN list = 1..m
          /\ \A i, j \in 1..m : list[i].slot = list[j].slot => i = j
    BY <1>4 DEF Different
  <1> HIDE DEF list
  <1>6. /\ DOMAIN offered \subseteq 1..m
        /\ \A i \in DOMAIN offered :
             /\ ~offered[i].called
             /\ offered[i].written = (wanted.slot # slotNone)
             /\ wanted.slot # slotNone => list[i].slot = wanted.slot
    BY <1>5 DEF restrict, Allowed, Candidate
  <1> HIDE DEF offered
  <1>7. \/ \A i, j \in DOMAIN offered : i = j
        \/ \A i \in DOMAIN offered : ~offered[i].written
    <2>1. CASE wanted.slot = slotNone
      BY <1>6, <2>1
    <2>2. CASE wanted.slot # slotNone
      <3>1. \A i, j \in DOMAIN offered : list[i].slot = list[j].slot /\ i \in 1..m /\ j \in 1..m
        BY <1>6, <2>2
      <3> QED
        BY <1>5, <3>1
    <2> QED
      BY <2>1, <2>2
  <1>8. Restricted(offered)
    BY <1>6, <1>7 DEF Restricted
  <1> QED
    BY <1>1, <1>8

----------------------------------------------------------------------------
(* resolve.                                                                *)

\* A function the pass sees the package of is what Validate found.
LEMMA FoundAlike ==
    ASSUME NEW w, NEW V, NEW L, NEW name, name.path \in V, name.path \in L
    PROVE  lookupFunc(w, V, name) = lookupFunc(w, L, name)
  BY DEF lookupFunc

\* What a side offers there is what it offered Validate.
LEMMA OfferedAlike ==
    ASSUME NEW w, NEW V, NEW L, NEW wanted, wanted.name.path \in V, wanted.name.path \in L,
           NEW withResults \in BOOLEAN
    PROVE  offeredBy(w, V, wanted, withResults) = offeredBy(w, L, wanted, withResults)
  <1>1. lookupFunc(w, V, wanted.name) = lookupFunc(w, L, wanted.name)
    BY FoundAlike
  <1> QED
    BY <1>1 DEF offeredBy

\* A function the pass does not see the package of is one it does not find.
LEMMA OfferedOutside ==
    ASSUME NEW w, NEW V, NEW wanted, wanted.name.path \notin V, NEW withResults \in BOOLEAN
    PROVE  offeredBy(w, V, wanted, withResults).error = "unknown function"
  <1>1. lookupFunc(w, V, wanted.name) = {}
    BY DEF lookupFunc
  <1> QED
    BY <1>1 DEF offeredBy

\* One candidate at most links where one slot is settled.
LEMMA OnlyOneLinks ==
    ASSUME NEW offered, NEW link, only(offered, link).error = ""
    PROVE  \A i, j \in DOMAIN offered :
             links(offered[i], link) /\ links(offered[j], link) => i = j
  BY DEF only, slotAt, Linked, Failure

\* What is settled when one type links the trigger with every satisfier seen.
SettledBy(r, opening, closing, link) ==
    Settled(only(opening.offered, link).slot,
            [i \in DOMAIN closing |->
                IF i \in Seen(closing) THEN only(closing[i].offered, link).slot ELSE slotNone],
            link.valueType,
            IF r.openOnError THEN -1 ELSE failureIndex(opening.function))

\* One candidate links, with one slot of the trigger, and settles the rule.
LinkedBy(r, opening, closing, linking, o) ==
    /\ linking = {o}
    /\ only(opening.offered, opening.offered[o]).error = ""
    /\ settleLinking(r, opening, closing, linking)
         = SettledBy(r, opening, closing, opening.offered[o])

\* Settling without an error, one does.
LEMMA SettlingLinks ==
    ASSUME NEW r, NEW opening, NEW closing, DOMAIN closing \subseteq Nat, NEW linking,
           settleLinking(r, opening, closing, linking).error = ""
    PROVE  \E o : LinkedBy(r, opening, closing, linking, o)
  <1>1. linking # {} /\ \A i, j \in linking : i = j
    BY DEF settleLinking, Failure
  <1> DEFINE o == CHOOSE i \in linking : TRUE
             link == opening.offered[o]
             trigger == only(opening.offered, link)
             closed == [i \in DOMAIN closing |->
                           IF i \in Seen(closing) THEN only(closing[i].offered, link)
                           ELSE [error |-> "", slot |-> slotNone]]
             failed == {i \in DOMAIN closed : closed[i].error # ""}
  <1>2. linking = {o}
    BY <1>1
  <1>3. settleLinking(r, opening, closing, linking)
          = settleSides(r, opening.function, link, trigger, closed)
    BY <1>1 DEF settleLinking, settle
  <1> HIDE DEF o
  <1>4. trigger.error = ""
    BY <1>3 DEF settleSides
  <1>5. failed = {}
    <2> SUFFICES ASSUME failed # {} PROVE FALSE
      OBVIOUS
    <2> DEFINE first == CHOOSE i \in failed : \A j \in failed : i <= j
    <2>1. failed \in SUBSET Nat
      OBVIOUS
    <2> HIDE DEF failed
    <2>2. first \in failed
      BY <2>1, LeastIn
    <2>3. settleSides(r, opening.function, link, trigger, closed) = closed[first]
      BY <1>4 DEF settleSides, failed
    <2> HIDE DEF first
    <2>4. closed[first].error # ""
      BY <2>2 DEF failed
    <2> QED
      BY <1>3, <2>3, <2>4
  <1>6. settleSides(r, opening.function, link, trigger, closed)
          = Settled(trigger.slot, [i \in DOMAIN closed |-> closed[i].slot], link.valueType,
                    IF r.openOnError THEN -1 ELSE failureIndex(opening.function))
    BY <1>4, <1>5 DEF settleSides
  <1>7. [i \in DOMAIN closed |-> closed[i].slot]
          = [i \in DOMAIN closing |->
                IF i \in Seen(closing) THEN only(closing[i].offered, link).slot ELSE slotNone]
    OBVIOUS
  <1> QED
    BY <1>2, <1>3, <1>4, <1>6, <1>7 DEF SettledBy, LinkedBy

\* The trigger is found and no satisfier refused.
Settles(r, opening, closing, refused) ==
    /\ opening.error = "" /\ refused = {}
    /\ resolveSides(r, opening, closing, refused)
         = settleLinking(r, opening, closing, linkingTypes(opening.offered, closing))

\* Resolving without an error, they are.
LEMMA SidesSettle ==
    ASSUME NEW r, NEW opening, NEW closing, NEW refused \in SUBSET Nat,
           \A i \in refused : closing[i].error # "",
           resolveSides(r, opening, closing, refused).error = ""
    PROVE  Settles(r, opening, closing, refused)
  <1>1. opening.error = ""
    BY DEF resolveSides
  <1>2. refused = {}
    <2> SUFFICES ASSUME refused # {} PROVE FALSE
      OBVIOUS
    <2> DEFINE first == CHOOSE i \in refused : \A j \in refused : i <= j
    <2>1. first \in refused
      BY LeastIn
    <2>2. resolveSides(r, opening, closing, refused) = closing[first]
      BY <1>1 DEF resolveSides
    <2> HIDE DEF first
    <2> QED
      BY <2>1, <2>2
  <1> QED
    BY <1>1, <1>2 DEF resolveSides, Settles

\* What each satisfier of a rule offers.
closings(w, visible, r) ==
    [i \in DOMAIN r.satisfiers |-> Closing(w, visible, r.satisfiers[i])]

\* The trigger is found, no satisfier is refused, strictly or as a pass does,
\* and the rule is what one linking type settles.
Resolves(w, visible, r, strict) ==
    LET opening == offeredBy(w, visible, r.trigger, TRUE)
        closing == closings(w, visible, r)
    IN  /\ opening.error = ""
        /\ \A i \in DOMAIN r.satisfiers :
              \/ closing[i].error = ""
              \/ ~strict /\ closing[i].error = "unknown function"
        /\ resolve(r, w, visible, strict)
             = settleLinking(r, opening, closing, linkingTypes(opening.offered, closing))

\* A rule resolved without an error is.
LEMMA ResolvedSettles ==
    ASSUME NEW w, NEW visible, NEW r, DOMAIN r.satisfiers \subseteq Nat,
           NEW strict \in BOOLEAN, resolve(r, w, visible, strict).error = ""
    PROVE  Resolves(w, visible, r, strict)
  <1> DEFINE opening == offeredBy(w, visible, r.trigger, TRUE)
             closing == closings(w, visible, r)
             missing == IF strict THEN {""} ELSE {"", "unknown function"}
             refused == {i \in DOMAIN closing : closing[i].error \notin missing}
  <1>1. resolve(r, w, visible, strict) = resolveSides(r, opening, closing, refused)
    BY DEF resolve, closings
  <1>2. refused \in SUBSET Nat /\ \A i \in refused : closing[i].error # ""
    BY DEF closings
  <1>3. DOMAIN closing = DOMAIN r.satisfiers
    BY DEF closings
  <1>4. \A i \in DOMAIN closing : i \notin refused =>
          \/ closing[i].error = ""
          \/ ~strict /\ closing[i].error = "unknown function"
    OBVIOUS
  <1>6. resolveSides(r, opening, closing, refused).error = ""
    BY <1>1
  <1> HIDE DEF opening, closing, refused
  <1>5. /\ opening.error = "" /\ refused = {}
        /\ resolveSides(r, opening, closing, refused)
             = settleLinking(r, opening, closing, linkingTypes(opening.offered, closing))
    <2>1. Settles(r, opening, closing, refused)
      BY <1>2, <1>6, SidesSettle
    <2> QED
      BY <2>1 DEF Settles
  <1> QED
    BY <1>1, <1>3, <1>4, <1>5 DEF opening, closing, Resolves

\* The functions a rule names in packages the pass sees, Validate saw.
Within(r, V, L) ==
    \A side \in Sides(r) : ~side.called /\ side.name.path \in V => side.name.path \in L

\* A satisfier the pass sees offers what it offered Validate; one it does not
\* see it passes over.
ClosesAlike(w, V, L, r, i) ==
    IF r.satisfiers[i].called \/ r.satisfiers[i].name.path \in V
    THEN closings(w, V, r)[i] = closings(w, L, r)[i]
    ELSE closings(w, V, r)[i].error = "unknown function"

\* So does every satisfier.
LEMMA ClosingAlike ==
    ASSUME NEW w, NEW V, NEW L, NEW r, Within(r, V, L), NEW i \in DOMAIN r.satisfiers
    PROVE  ClosesAlike(w, V, L, r, i)
  <1> DEFINE satisfier == r.satisfiers[i]
  <1>1. /\ closings(w, V, r)[i] = Closing(w, V, satisfier)
        /\ closings(w, L, r)[i] = Closing(w, L, satisfier)
    BY DEF closings
  <1>2. satisfier \in Sides(r)
    BY DEF Sides
  <1> HIDE DEF satisfier, ClosesAlike
  <1>3. CASE satisfier.called
    <2>1. Closing(w, V, satisfier) = Closing(w, L, satisfier)
      BY <1>3 DEF Closing
    <2> QED
      BY <1>1, <1>3, <2>1 DEF satisfier, ClosesAlike
  <1>4. CASE ~satisfier.called /\ satisfier.name.path \in V
    <2>1. satisfier.name.path \in L
      BY <1>2, <1>4 DEF Within
    <2>2. Closing(w, V, satisfier) = Closing(w, L, satisfier)
      BY <1>4, <2>1, OfferedAlike DEF Closing
    <2> QED
      BY <1>1, <1>4, <2>2 DEF satisfier, ClosesAlike
  <1>5. CASE ~satisfier.called /\ satisfier.name.path \notin V
    <2>1. Closing(w, V, satisfier).error = "unknown function"
      BY <1>5, OfferedOutside DEF Closing
    <2> QED
      BY <1>1, <1>5, <2>1 DEF satisfier, ClosesAlike
  <1> QED
    BY <1>3, <1>4, <1>5 DEF ClosesAlike


\* A pass gives the trigger, the value and the satisfiers it sees what Validate
\* gave them.
BoundAlike(r, V, bound, settled) ==
    /\ bound.triggerSlot = settled.triggerSlot
    /\ bound.valueType = settled.valueType
    /\ bound.failure = settled.failure
    /\ \A i \in DOMAIN r.satisfiers :
          bound.satisfierSlots[i] =
              IF r.satisfiers[i].called \/ r.satisfiers[i].name.path \in V
              THEN settled.satisfierSlots[i] ELSE slotNone

\* The candidate that links everywhere is the one that links with what the
\* pass sees.
LEMMA SameLink ==
    ASSUME NEW offered, Restricted(offered), NEW near, NEW whole,
           NEW o, linkingTypes(offered, near) = {o},
           NEW p, linkingTypes(offered, whole) = {p},
           \A i \in DOMAIN offered :
              offeredByAll(whole, offered[i]) => offeredByAll(near, offered[i]),
           only(offered, offered[o]).error = ""
    PROVE  o = p
  <1>1. PICK m \in Nat : DOMAIN offered \subseteq 1..m
    BY DEF Restricted
  <1>2. {o} \subseteq DOMAIN offered /\ IsTaken({o}, offered, near)
    BY <1>1, LinkingTaken
  <1>3. {p} \subseteq DOMAIN offered /\ IsTaken({p}, offered, whole)
    BY <1>1, LinkingTaken
  <1>4. offeredByAll(near, offered[p])
    BY <1>3 DEF IsTaken
  <1>5. CASE \A i, j \in DOMAIN offered : i = j
    BY <1>2, <1>3, <1>5
  <1>6. CASE \A i \in DOMAIN offered : ~offered[i].written
    <2>1. p = o \/ links(offered[o], offered[p])
      BY <1>2, <1>3, <1>4 DEF IsTaken
    <2>2. /\ ~offered[o].written /\ ~offered[o].called
          /\ ~offered[p].written /\ ~offered[p].called
      BY <1>2, <1>3, <1>6 DEF Restricted
    <2>3. links(offered[o], offered[o])
      BY <2>2, UnwrittenLink
    <2>4. p = o \/ links(offered[p], offered[o])
      BY <2>1, <2>2, UnwrittenLink
    <2> QED
      BY <1>2, <1>3, <2>3, <2>4, OnlyOneLinks
  <1> QED
    BY <1>5, <1>6 DEF Restricted

\* What a pass resolves a rule Validate accepts to is what Validate settled.
LEMMA ResolvedAlike ==
    ASSUME NEW w, \A function \in w.funcs : Lists(function), NEW V, NEW L,
           NEW r, ~r.trigger.called, DOMAIN r.satisfiers \subseteq Nat, Within(r, V, L),
           resolve(r, w, L, TRUE).error = "", resolve(r, w, V, FALSE).error = ""
    PROVE  BoundAlike(r, V, resolve(r, w, V, FALSE), resolve(r, w, L, TRUE))
  <1> DEFINE opening == offeredBy(w, L, r.trigger, TRUE)
             offered == opening.offered
             near == closings(w, V, r)
             whole == closings(w, L, r)
             sees(i) == r.satisfiers[i].called \/ r.satisfiers[i].name.path \in V
  <1>1. Resolves(w, V, r, FALSE) /\ Resolves(w, L, r, TRUE)
    BY ResolvedSettles
  <1>2. offeredBy(w, V, r.trigger, TRUE) = opening
    <2>1. offeredBy(w, V, r.trigger, TRUE).error = ""
      BY <1>1 DEF Resolves
    <2>2. r.trigger.name.path \in V
      BY <2>1, OfferedOutside
    <2>3. r.trigger.name.path \in L
      BY <2>2 DEF Within, Sides
    <2> QED
      BY <2>2, <2>3, OfferedAlike
  <1>3. Restricted(offered)
    <2>1. opening.error = ""
      BY <1>1 DEF Resolves
    <2> QED
      BY <2>1, OffersRestricted
  <1>4. \A i \in DOMAIN r.satisfiers :
          IF sees(i) THEN near[i] = whole[i] ELSE near[i].error = "unknown function"
    <2>1. \A i \in DOMAIN r.satisfiers : ClosesAlike(w, V, L, r, i)
      BY ClosingAlike
    <2> QED
      BY <2>1 DEF ClosesAlike
  <1>5. /\ \A i \in DOMAIN r.satisfiers : whole[i].error = ""
        /\ resolve(r, w, V, FALSE) = settleLinking(r, opening, near, linkingTypes(offered, near))
        /\ resolve(r, w, L, TRUE) = settleLinking(r, opening, whole, linkingTypes(offered, whole))
    BY <1>1, <1>2 DEF Resolves
  <1>6. DOMAIN near = DOMAIN r.satisfiers /\ DOMAIN whole = DOMAIN r.satisfiers
    BY DEF closings
  <1> HIDE DEF opening, near, whole
  <1>7. /\ Seen(whole) = DOMAIN r.satisfiers
        /\ Seen(near) = {i \in DOMAIN r.satisfiers : sees(i)}
    BY <1>4, <1>5, <1>6 DEF Seen
  <1>8. PICK o : LinkedBy(r, opening, near, linkingTypes(offered, near), o)
    BY <1>5, <1>6, SettlingLinks
  <1>9. PICK p : LinkedBy(r, opening, whole, linkingTypes(offered, whole), p)
    BY <1>5, <1>6, SettlingLinks
  <1>10. \A i \in DOMAIN offered :
           offeredByAll(whole, offered[i]) => offeredByAll(near, offered[i])
    BY <1>4, <1>7 DEF offeredByAll
  <1>11. o = p
    <2>1. /\ linkingTypes(offered, near) = {o} /\ linkingTypes(offered, whole) = {p}
          /\ only(offered, offered[o]).error = ""
      BY <1>8, <1>9 DEF LinkedBy
    <2> HIDE DEF offered
    <2> QED
      BY <1>3, <1>10, <2>1, SameLink
  <1>12. /\ resolve(r, w, V, FALSE) = SettledBy(r, opening, near, offered[o])
         /\ resolve(r, w, L, TRUE) = SettledBy(r, opening, whole, offered[o])
    BY <1>5, <1>8, <1>9, <1>11 DEF LinkedBy
  <1> DEFINE bound == SettledBy(r, opening, near, offered[o])
             settled == SettledBy(r, opening, whole, offered[o])
  <1>13. /\ bound.triggerSlot = settled.triggerSlot
         /\ bound.valueType = settled.valueType
         /\ bound.failure = settled.failure
    BY DEF SettledBy, Settled
  <1>14. ASSUME NEW i \in DOMAIN r.satisfiers
         PROVE  bound.satisfierSlots[i] = IF sees(i) THEN settled.satisfierSlots[i] ELSE slotNone
    <2>1. /\ bound.satisfierSlots[i] =
               IF i \in Seen(near) THEN only(near[i].offered, offered[o]).slot ELSE slotNone
          /\ settled.satisfierSlots[i] =
               IF i \in Seen(whole) THEN only(whole[i].offered, offered[o]).slot ELSE slotNone
      BY <1>6 DEF SettledBy, Settled
    <2> HIDE DEF bound, settled, offered
    <2> QED
      BY <1>4, <1>7, <2>1
  <1> QED
    BY <1>12, <1>13, <1>14 DEF BoundAlike

\* A pass that sees all a rule names resolves it as Validate did.
LEMMA ResolvedSeen ==
    ASSUME NEW w, NEW V, NEW L, NEW r, ~r.trigger.called, DOMAIN r.satisfiers \subseteq Nat,
           Within(r, V, L), resolve(r, w, L, TRUE).error = "", seesAll(w, V, r)
    PROVE  resolve(r, w, V, FALSE) = resolve(r, w, L, TRUE)
  <1> DEFINE opening == offeredBy(w, L, r.trigger, TRUE)
             closing == closings(w, L, r)
  <1>1. Resolves(w, L, r, TRUE)
    BY ResolvedSettles
  <1>2. \A side \in Sides(r) : side.called \/ side.name.path \in V
    BY DEF seesAll, lookupFunc
  <1>3. offeredBy(w, V, r.trigger, TRUE) = opening
    <2>1. r.trigger.name.path \in V /\ r.trigger.name.path \in L
      BY <1>2 DEF Within, Sides
    <2> QED
      BY <2>1, OfferedAlike
  <1>4. closings(w, V, r) = closing
    <2>1. ASSUME NEW i \in DOMAIN r.satisfiers
          PROVE  closings(w, V, r)[i] = closing[i]
      <3>1. r.satisfiers[i].called \/ r.satisfiers[i].name.path \in V
        BY <1>2 DEF Sides
      <3>2. ClosesAlike(w, V, L, r, i)
        BY ClosingAlike
      <3> QED
        BY <3>1, <3>2 DEF ClosesAlike
    <2> QED
      BY <2>1 DEF closings
  <1>5. /\ opening.error = ""
        /\ \A i \in DOMAIN r.satisfiers : closing[i].error = ""
        /\ resolve(r, w, L, TRUE)
             = settleLinking(r, opening, closing, linkingTypes(opening.offered, closing))
    BY <1>1 DEF Resolves
  <1>6. resolve(r, w, V, FALSE) = resolveSides(r, opening, closing, {})
    <2>1. DOMAIN closing = DOMAIN r.satisfiers
      BY DEF closings
    <2>2. {i \in DOMAIN closing : closing[i].error \notin {"", "unknown function"}} = {}
      BY <1>5, <2>1
    <2>3. resolve(r, w, V, FALSE)
            = resolveSides(r, offeredBy(w, V, r.trigger, TRUE), closings(w, V, r),
                           {i \in DOMAIN closings(w, V, r) :
                               closings(w, V, r)[i].error \notin {"", "unknown function"}})
      BY DEF resolve, closings
    <2> QED
      BY <1>3, <1>4, <2>2, <2>3
  <1> HIDE DEF opening, closing
  <1> QED
    BY <1>5, <1>6 DEF resolveSides

----------------------------------------------------------------------------
(* Implementations.                                                        *)

\* A side of a rule on a receiver: the type stands for it in a pass as it
\* stood for it in Validate.
StandsAlike(w, V, L, r, t) ==
    \A side \in Sides(r) : OnReceiver(side) =>
        (stands(w, V, t, side.name) <=> stands(w, L, t, side.name))

\* Where Validate finds the implementation unambiguous and binds the rule on
\* it, every pass takes it for the same receivers.
LEMMA AcceptedStands ==
    ASSUME NEW w, NEW V, NEW L, NEW r, DOMAIN r.satisfiers \subseteq Nat,
           ~r.trigger.called, Within(r, V, L),
           NEW t, ~ambiguous(r, w, L, t),
           resolve(appliedTo(r, w, L, t), w, L, TRUE).error = ""
    PROVE  StandsAlike(w, V, L, r, t)
  <1> DEFINE applied == appliedTo(r, w, L, t)
  <1> SUFFICES ASSUME NEW side \in Sides(r), OnReceiver(side)
               PROVE  stands(w, V, t, side.name) <=> stands(w, L, t, side.name)
    BY DEF StandsAlike
  <1>1. CASE side.name.path \in V
    <2>1. side.name.path \in L
      BY <1>1 DEF Within, OnReceiver
    <2> QED
      BY <1>1, <2>1 DEF stands, interfaceOf, TypesNamed
  <1>2. CASE side.name.path \notin V
    <2>1. stands(w, V, t, side.name) <=> hasMethod(w, t, side.name.name)
      BY <1>2 DEF stands
    <2>2. hasMethod(w, t, side.name.name) => stands(w, L, t, side.name)
      BY DEF ambiguous
    <2>3. ASSUME stands(w, L, t, side.name)
          PROVE  hasMethod(w, t, side.name.name)
      <3> DEFINE new == Name(t.path, t.name, side.name.name)
      <3>1. swap(w, L, t, side) = Side(new, side.slot)
        BY <2>3 DEF swap, Swaps
      <3>2. applied.trigger = swap(w, L, t, r.trigger)
            /\ DOMAIN applied.satisfiers = DOMAIN r.satisfiers
            /\ \A i \in DOMAIN r.satisfiers :
                 applied.satisfiers[i] = swap(w, L, t, r.satisfiers[i])
        BY DEF appliedTo
      <3> HIDE DEF applied
      <3>3. Resolves(w, L, applied, TRUE)
        BY <3>2, ResolvedSettles DEF applied
      <3>4. lookupFunc(w, L, new) # {}
        <4>1. CASE side = r.trigger
          <5>1. offeredBy(w, L, Side(new, side.slot), TRUE).error = ""
            BY <3>1, <3>2, <3>3, <4>1 DEF Resolves
          <5> QED
            BY <5>1 DEF offeredBy, Side
        <4>2. CASE \E i \in DOMAIN r.satisfiers : side = r.satisfiers[i]
          <5>1. PICK i \in DOMAIN r.satisfiers : side = r.satisfiers[i]
            BY <4>2
          <5>2. closings(w, L, applied)[i].error = ""
            BY <3>2, <3>3 DEF Resolves
          <5>3. closings(w, L, applied)[i] = Closing(w, L, Side(new, side.slot))
            BY <3>1, <3>2, <5>1 DEF closings
          <5>4. offeredBy(w, L, Side(new, side.slot), FALSE).error = ""
            BY <5>2, <5>3 DEF Closing, Side
          <5> QED
            BY <5>4 DEF offeredBy, Side
        <4> QED
          BY <4>1, <4>2 DEF Sides
      <3>5. PICK function \in w.funcs : Name(function.path, function.receiver, function.name) = new
        BY <3>4 DEF lookupFunc
      <3>6. function.path = t.path /\ function.receiver = t.name
            /\ function.name = side.name.name
        BY <3>5 DEF Name
      <3>7. function \in Own(w, t)
        BY <3>6 DEF Own
      <3>8. Own(w, t) \subseteq MethodsOf(w, t)
        BY DEF MethodsOf
      <3> QED
        BY <3>6, <3>7, <3>8 DEF hasMethod
    <2> QED
      BY <2>1, <2>2, <2>3
  <1> QED
    BY <1>1, <1>2

\* A type makes of the rule in a pass what it made of it in Validate.
MakesAlike(w, V, L, r, t) ==
    /\ appliedTo(r, w, V, t) = appliedTo(r, w, L, t)
    /\ Swapped(r, w, V, t) <=> Swapped(r, w, L, t)

\* Taken for the same receivers, it does.
LEMMA AppliedAlike ==
    ASSUME NEW w, NEW V, NEW L, NEW r, NEW t, StandsAlike(w, V, L, r, t)
    PROVE  MakesAlike(w, V, L, r, t)
  <1>1. \A side \in Sides(r) : Swaps(w, V, t, side) <=> Swaps(w, L, t, side)
    BY DEF StandsAlike, Swaps
  <1>2. \A side \in Sides(r) : swap(w, V, t, side) = swap(w, L, t, side)
    BY <1>1 DEF swap
  <1>3. r.trigger \in Sides(r) /\ \A i \in DOMAIN r.satisfiers : r.satisfiers[i] \in Sides(r)
    BY DEF Sides
  <1>4. [i \in DOMAIN r.satisfiers |-> swap(w, V, t, r.satisfiers[i])]
          = [i \in DOMAIN r.satisfiers |-> swap(w, L, t, r.satisfiers[i])]
    BY <1>2, <1>3
  <1>5. appliedTo(r, w, V, t) = appliedTo(r, w, L, t)
    BY <1>2, <1>3, <1>4 DEF appliedTo
  <1> QED
    BY <1>1, <1>5 DEF Swapped, MakesAlike

\* The type an implementation names, of those Validate loaded.
typeOf(w, L, name) == CHOOSE any \in TypesNamed(w, L, name.path, name.name) : TRUE

\* Validate finds the type of an implementation, and the rule binds on it.
Implements(r, w, L, name) ==
    LET t == typeOf(w, L, name)
    IN  /\ t \in TypesNamed(w, L, name.path, name.name)
        /\ ~ambiguous(r, w, L, t)
        /\ Swapped(r, w, L, t)
        /\ resolve(appliedTo(r, w, L, t), w, L, TRUE).error = ""

\* An implementation Validate finds nothing wrong with is one.
LEMMA ImplementationSettles ==
    ASSUME NEW r, NEW w, NEW L, NEW name, implementationProblem(r, w, L, name) = ""
    PROVE  Implements(r, w, L, name)
  <1> DEFINE found == TypesNamed(w, L, name.path, name.name)
             t == typeOf(w, L, name)
  <1>1. t = CHOOSE any \in found : TRUE
    BY DEF typeOf
  <1> HIDE DEF found, t
  <1>2. implementationProblem(r, w, L, name) =
          CASE found = {} -> "unknown type"
            [] found # {} /\ ambiguous(r, w, L, t) -> "ambiguous implementation"
            [] found # {} /\ ~ambiguous(r, w, L, t) /\ ~Swapped(r, w, L, t) -> "implements none"
            [] OTHER -> resolve(appliedTo(r, w, L, t), w, L, TRUE).error
    BY <1>1 DEF implementationProblem, found
  <1>3. found # {}
    BY <1>2
  <1>4. ~ambiguous(r, w, L, t)
    BY <1>2, <1>3
  <1>5. Swapped(r, w, L, t)
    BY <1>2, <1>3, <1>4
  <1>6. resolve(appliedTo(r, w, L, t), w, L, TRUE).error = ""
    BY <1>2, <1>3, <1>4, <1>5
  <1>7. t \in found
    BY <1>1, <1>3
  <1> QED
    BY <1>4, <1>5, <1>6, <1>7 DEF Implements, found, t

\* A pass that sees the type makes of the rule what Validate made of it; one
\* that does not makes nothing of it.
AppliesAlike(r, w, V, L, name) ==
    /\ appliedBy(r, w, V, name).error = ""
    /\ appliedBy(r, w, V, name).rules =
         IF name.path \in V THEN {appliedTo(r, w, L, typeOf(w, L, name))} ELSE {}

\* So does every pass with an implementation Validate accepts.
LEMMA AppliedByAlike ==
    ASSUME NEW r, NEW w, NEW V, NEW L, NEW name, Implements(r, w, L, name),
           DOMAIN r.satisfiers \subseteq Nat, ~r.trigger.called, Within(r, V, L)
    PROVE  AppliesAlike(r, w, V, L, name)
  <1> DEFINE t == typeOf(w, L, name)
             found == TypesNamed(w, V, name.path, name.name)
  <1>1. CASE name.path \notin V
    BY <1>1 DEF appliedBy, AppliesAlike
  <1>2. CASE name.path \in V
    <2>1. name.path \in L /\ t \in TypesNamed(w, L, name.path, name.name)
      BY DEF Implements, TypesNamed
    <2>2. found = TypesNamed(w, L, name.path, name.name)
      BY <1>2, <2>1 DEF TypesNamed
    <2>3. t = (CHOOSE any \in found : TRUE) /\ found # {}
      BY <2>1, <2>2 DEF typeOf
    <2> HIDE DEF t, found
    <2>4. StandsAlike(w, V, L, r, t)
      BY AcceptedStands DEF Implements, t
    <2>5. Swapped(r, w, V, t) /\ appliedTo(r, w, V, t) = appliedTo(r, w, L, t)
      <3>1. MakesAlike(w, V, L, r, t)
        BY <2>4, AppliedAlike
      <3>2. Swapped(r, w, L, t)
        BY DEF Implements, t
      <3> QED
        BY <3>1, <3>2 DEF MakesAlike
    <2> DEFINE new == appliedTo(r, w, V, t)
    <2>6. appliedBy(r, w, V, name).error = "" /\ appliedBy(r, w, V, name).rules = {new}
      BY <1>2, <2>3, <2>5 DEF appliedBy, found
    <2>7. new = appliedTo(r, w, L, typeOf(w, L, name))
      BY <2>5 DEF t
    <2> HIDE DEF new
    <2> QED
      BY <1>2, <2>6, <2>7 DEF AppliesAlike
  <1> QED
    BY <1>1, <1>2

\* The rule an implementation becomes names packages the rule names, and the
\* one of the type.
LEMMA AppliedWithin ==
    ASSUME NEW r, NEW w, NEW V, NEW L, NEW name, Implements(r, w, L, name),
           ~r.trigger.called, Within(r, V, L)
    PROVE  LET applied == appliedTo(r, w, L, typeOf(w, L, name))
           IN  /\ ~applied.trigger.called
               /\ DOMAIN applied.satisfiers = DOMAIN r.satisfiers
               /\ Within(applied, V, L)
  <1> DEFINE t == typeOf(w, L, name)
             applied == appliedTo(r, w, L, t)
  <1>1. t.path \in L
    BY DEF Implements, TypesNamed
  <1>2. \A side \in Sides(r) :
          \/ swap(w, L, t, side) = side
          \/ swap(w, L, t, side) = Side(Name(t.path, t.name, side.name.name), side.slot)
    BY DEF swap
  <1>3. \A side \in Sides(r) :
          LET now == swap(w, L, t, side)
          IN  /\ now.called => side.called
              /\ ~now.called /\ now.name.path \in V => now.name.path \in L
    BY <1>1, <1>2 DEF Side, Name, Within
  <1>4. /\ applied.trigger = swap(w, L, t, r.trigger)
        /\ DOMAIN applied.satisfiers = DOMAIN r.satisfiers
        /\ \A i \in DOMAIN r.satisfiers :
             applied.satisfiers[i] = swap(w, L, t, r.satisfiers[i])
    BY DEF appliedTo
  <1> HIDE DEF applied
  <1>5. r.trigger \in Sides(r) /\ \A i \in DOMAIN r.satisfiers : r.satisfiers[i] \in Sides(r)
    BY DEF Sides
  <1>6. \A side \in Sides(applied) : \E old \in Sides(r) : side = swap(w, L, t, old)
    BY <1>4, <1>5 DEF Sides
  <1>7. Within(applied, V, L)
    BY <1>3, <1>6 DEF Within
  <1>8. ~applied.trigger.called
    BY <1>3, <1>4, <1>5
  <1> QED
    BY <1>4, <1>7, <1>8 DEF applied

----------------------------------------------------------------------------
(* A run.                                                                  *)

\* The verdict is on the rule, and the pass was of some package.
BindInv ==
    /\ case \in Cases
    /\ verdict \in {"none", "accepted", "refused"}
    /\ Accepted => Problems = {""}
    /\ passed # NothingPassed =>
          \E imported \in SUBSET Libraries :
              passed = bindAll(visiblePackages(world, imported))

\* What a pass sees are packages there are, with all they import.
LEMMA VisibleClosed ==
    ASSUME NEW each \in Cases, NEW imported
    PROVE  /\ visiblePackages(each.world, imported) \subseteq Libraries
           /\ \A path \in visiblePackages(each.world, imported) :
                each.world.imports[path] \subseteq visiblePackages(each.world, imported)
  <1>1. each.world.imports \in [Libraries -> SUBSET Libraries]
    BY CasesAssumption
  <1> QED
    BY <1>1 DEF visiblePackages

\* Validate sees every package the rule names that there is.
LEMMA NamedLoaded ==
    ASSUME case \in Cases, NEW imported
    PROVE  \A path \in visiblePackages(world, imported) : path \in PathsNamed => path \in Loaded
  BY DEF visiblePackages, Loaded

\* The invariant holds at the start.
LEMMA BindStart == RulesInit => BindInv
  BY DEF RulesInit, BindInv, Accepted

\* What the packages declare and the rule stay.
LEMMA CaseStays ==
    ASSUME case' = case
    PROVE  /\ Problems' = Problems /\ world' = world
           /\ \A visible : bindAll(visible)' = bindAll(visible)
  BY DEF Problems, Loaded, PathsNamed, checkFailure, rule, world, bindAll, ruleFor,
         bindImplemented, bindEach

\* Every step keeps it.
LEMMA BindStep == BindInv /\ [RulesNext]_rulesVars => BindInv'
  <1> SUFFICES ASSUME BindInv, [RulesNext]_rulesVars PROVE BindInv'
    OBVIOUS
  <1>1. case' = case
    BY DEF RulesNext, rulesVars, Validate, check
  <1>2. /\ Problems' = Problems /\ world' = world
        /\ \A visible : bindAll(visible)' = bindAll(visible)
    BY <1>1, CaseStays
  <1>3. CASE Validate
    <2>1. /\ passed' = passed /\ verdict' \in {"accepted", "refused"}
          /\ verdict' = "accepted" => Problems = {""}
      BY <1>3 DEF Validate
    <2> QED
      BY <1>1, <1>2, <2>1 DEF BindInv, Accepted, NothingPassed
  <1>4. ASSUME NEW imported \in SUBSET Libraries, check(imported)
        PROVE  BindInv'
    <2>1. verdict' = verdict /\ passed' = bindAll(visiblePackages(world, imported))
      BY <1>4 DEF check
    <2> QED
      BY <1>1, <1>2, <2>1 DEF BindInv, Accepted, NothingPassed
  <1>5. CASE UNCHANGED rulesVars
    <2>1. verdict' = verdict /\ passed' = passed
      BY <1>5 DEF rulesVars
    <2> QED
      BY <1>1, <1>2, <2>1 DEF BindInv, Accepted, NothingPassed
  <1> QED
    BY <1>3, <1>4, <1>5 DEF RulesNext

\* The rule, or what it is for an implementation: one Validate resolved, of
\* functions it saw where the pass sees them.
IsSettled(r, V) ==
    /\ ~r.trigger.called
    /\ DOMAIN r.satisfiers \subseteq Nat
    /\ Within(r, V, Loaded)
    /\ resolve(r, world, Loaded, TRUE).error = ""

\* What Validate accepted: a rule that resolves, and implementations it binds on.
LEMMA AcceptedSettles ==
    ASSUME BindInv, Accepted, NEW imported
    PROVE  /\ IsSettled(rule, visiblePackages(world, imported))
           /\ \A i \in DOMAIN rule.implementations :
                Implements(rule, world, Loaded, rule.implementations[i])
  <1> DEFINE V == visiblePackages(world, imported)
  <1>1. Problems = {""} /\ case \in Cases
    BY DEF BindInv
  <1>2. resolve(rule, world, Loaded, TRUE).error = ""
    BY <1>1 DEF Problems
  <1>3. \A i \in DOMAIN rule.implementations :
          implementationProblem(rule, world, Loaded, rule.implementations[i]) = ""
    BY <1>1 DEF Problems
  <1>4. Within(rule, V, Loaded)
    <2>1. \A side \in Sides(rule) : ~side.called => side.name.path \in PathsNamed
      BY DEF PathsNamed
    <2> QED
      BY <1>1, <2>1, NamedLoaded DEF Within
  <1>5. ~rule.trigger.called /\ DOMAIN rule.satisfiers \subseteq Nat
    <2>1. ~rule.trigger.called /\ rule.satisfiers \in Seq(Range(rule.satisfiers))
      BY <1>1, CasesAssumption DEF rule
    <2> QED
      BY <2>1
  <1> QED
    BY <1>2, <1>3, <1>4, <1>5, ImplementationSettles DEF IsSettled

\* Each of what a pass binds of an accepted rule, and each of what Validate
\* settled, is a rule Validate resolved.
LEMMA SettlingSettled ==
    ASSUME BindInv, Accepted, NEW imported, NEW i \in DOMAIN rule.implementations
    PROVE  IsSettled(appliedTo(rule, world, Loaded,
                               typeOf(world, Loaded, rule.implementations[i])),
                     visiblePackages(world, imported))
  <1> DEFINE V == visiblePackages(world, imported)
             name == rule.implementations[i]
             applied == appliedTo(rule, world, Loaded, typeOf(world, Loaded, name))
  <1>1. IsSettled(rule, V) /\ Implements(rule, world, Loaded, name)
    BY AcceptedSettles
  <1> HIDE DEF V, name
  <1>2. /\ ~applied.trigger.called
        /\ DOMAIN applied.satisfiers = DOMAIN rule.satisfiers
        /\ Within(applied, V, Loaded)
    BY <1>1, AppliedWithin DEF IsSettled
  <1>3. resolve(applied, world, Loaded, TRUE).error = ""
    BY <1>1 DEF Implements
  <1> QED
    BY <1>1, <1>2, <1>3 DEF IsSettled, V, name

\* A pass binds such a rule, unless it does not see all of it, and as Validate
\* did.
BindsAlike(r, V) ==
    LET bound == bind(r, world, V)
    IN  /\ bound.error \in {"", "skipped"}
        /\ bound.error = "" => BoundAlike(r, V, bound, resolve(r, world, Loaded, TRUE))
        /\ seesAll(world, V, r) => bound.error = ""

\* Every pass does.
LEMMA SettledBinds ==
    ASSUME case \in Cases, NEW r, NEW V, IsSettled(r, V)
    PROVE  BindsAlike(r, V)
  <1> DEFINE resolved == resolve(r, world, V, FALSE)
             settled == resolve(r, world, Loaded, TRUE)
  <1>1. \A function \in world.funcs : Lists(function)
    BY CasesAssumption DEF world, Lists
  <1>2. seesAll(world, V, r) => resolved = settled
    BY ResolvedSeen DEF IsSettled
  <1>3. resolved.error = "" => BoundAlike(r, V, resolved, settled)
    BY <1>1, ResolvedAlike DEF IsSettled
  <1>4. settled.error = ""
    BY DEF IsSettled
  <1>5. bind(r, world, V) =
          IF resolved.error # "" /\ ~seesAll(world, V, r) THEN Failure("skipped") ELSE resolved
    BY DEF bind, bindAs
  <1> HIDE DEF resolved, settled
  <1>6. CASE resolved.error # "" /\ ~seesAll(world, V, r)
    <2>1. bind(r, world, V).error = "skipped"
      <3>1. bind(r, world, V) = Failure("skipped")
        BY <1>5, <1>6
      <3>2. Failure("skipped").error = "skipped"
        BY DEF Failure
      <3> QED
        BY <3>1, <3>2
    <2> QED
      BY <1>6, <2>1 DEF BindsAlike
  <1>7. CASE ~(resolved.error # "" /\ ~seesAll(world, V, r))
    <2>1. bind(r, world, V) = resolved /\ resolved.error = ""
      BY <1>2, <1>4, <1>5, <1>7
    <2> QED
      BY <1>3, <2>1 DEF BindsAlike, settled
  <1> QED
    BY <1>6, <1>7

\* The rules a pass tries: the rule, and what it is for each implementation of
\* a type the pass sees.
Tried(V) ==
    {rule} \union
    {appliedTo(rule, world, Loaded, typeOf(world, Loaded, rule.implementations[i])) :
        i \in {j \in DOMAIN rule.implementations : rule.implementations[j].path \in V}}

\* What a pass makes of an accepted rule: no error, and of the rules it tries
\* those that bind.
Passes(V) ==
    /\ bindAll(V).visible = V
    /\ bindAll(V).error = ""
    /\ bindAll(V).bound = {each \in bindEach(V, Tried(V)) : each.binding.error = ""}

\* Every pass makes that of it.
LEMMA AcceptedPasses ==
    ASSUME BindInv, Accepted, NEW imported
    PROVE  Passes(visiblePackages(world, imported))
  <1> DEFINE V == visiblePackages(world, imported)
             applied == {ruleFor(V, rule.implementations[i]) : i \in DOMAIN rule.implementations}
             failures == {each.error : each \in applied} \ {""}
             rules == {rule} \union UNION {each.rules : each \in {a \in applied : a.error = ""}}
             new(i) == appliedTo(rule, world, Loaded,
                                 typeOf(world, Loaded, rule.implementations[i]))
  <1>1. IsSettled(rule, V) /\ case \in Cases
    BY AcceptedSettles DEF BindInv
  <1>2. ASSUME NEW i \in DOMAIN rule.implementations
        PROVE  /\ ruleFor(V, rule.implementations[i]).error = ""
               /\ ruleFor(V, rule.implementations[i]).rules =
                    IF rule.implementations[i].path \in V THEN {new(i)} ELSE {}
    <2>1. Implements(rule, world, Loaded, rule.implementations[i])
      BY AcceptedSettles
    <2> HIDE DEF V
    <2>2. AppliesAlike(rule, world, V, Loaded, rule.implementations[i])
      BY <1>1, <2>1, AppliedByAlike DEF IsSettled
    <2> QED
      BY <2>2 DEF AppliesAlike, ruleFor
  <1> HIDE DEF V
  <1>3. failures = {}
    BY <1>2
  <1>4. rules = Tried(V)
    <2> HIDE DEF new
    <2>1. \A each \in applied : each.error = ""
      BY <1>2
    <2>2. \A r : r \in rules <=>
            r = rule \/ \E i \in DOMAIN rule.implementations :
                          r \in ruleFor(V, rule.implementations[i]).rules
      BY <2>1
    <2>3. \A r : r \in rules <=>
            r = rule \/ \E i \in DOMAIN rule.implementations :
                          rule.implementations[i].path \in V /\ r = new(i)
      <3>1. \A r : \A i \in DOMAIN rule.implementations :
              r \in ruleFor(V, rule.implementations[i]).rules
                <=> rule.implementations[i].path \in V /\ r = new(i)
        BY <1>2
      <3> HIDE DEF rules
      <3> QED
        BY <2>2, <3>1
    <2>4. \A r : r \in Tried(V) <=>
            r = rule \/ \E i \in DOMAIN rule.implementations :
                          rule.implementations[i].path \in V /\ r = new(i)
      BY DEF Tried, new
    <2> HIDE DEF rules
    <2> QED
      BY <2>3, <2>4
  <1> DEFINE bound == bindEach(V, Tried(V))
             errors == {each.binding.error : each \in bound} \ {"", "skipped"}
  <1>6. \A r \in Tried(V) : IsSettled(r, V)
    BY <1>1, SettlingSettled DEF Tried, V
  <1>7. \A each \in bound : \E r \in Tried(V) :
          each = [rule |-> r, binding |-> bind(r, world, V)]
    BY DEF bindEach
  <1>8. errors = {}
    <2>1. ASSUME NEW each \in bound PROVE each.binding.error \in {"", "skipped"}
      <3>1. PICK r \in Tried(V) : each = [rule |-> r, binding |-> bind(r, world, V)]
        BY <1>7
      <3>2. BindsAlike(r, V)
        BY <1>1, <1>6, SettledBinds
      <3> QED
        BY <3>1, <3>2 DEF BindsAlike
    <2> QED
      BY <2>1
  <1>9. bindAll(V) = passedAs(V, failures, bindEach(V, rules))
    BY DEF bindAll, bindImplemented
  <1>10. bindAll(V) = passedAs(V, {}, bound)
    BY <1>3, <1>4, <1>9
  <1> HIDE DEF bound
  <1>11. /\ passedAs(V, {}, bound).visible = V
         /\ passedAs(V, {}, bound).error = ""
         /\ passedAs(V, {}, bound).bound = {each \in bound : each.binding.error = ""}
    BY <1>8 DEF passedAs
  <1> QED
    BY <1>10, <1>11 DEF Passes, bound, V

\* The types of an implementation are one.
LEMMA OneNamed ==
    ASSUME case \in Cases, NEW path, NEW name,
           NEW t \in TypesNamed(world, Loaded, path, name)
    PROVE  TypesNamed(world, Loaded, path, name) = {t}
  <1>1. \A one, other \in world.types :
          one.path = other.path /\ one.name = other.name => one = other
    BY CasesAssumption DEF world
  <1> QED
    BY <1>1 DEF TypesNamed

\* What Validate settled: the rule, and what it is for the type of each
\* implementation.
LEMMA SettlingIs ==
    ASSUME BindInv, Accepted
    PROVE  Settling = {rule} \union
             {appliedTo(rule, world, Loaded, typeOf(world, Loaded, rule.implementations[i])) :
                i \in DOMAIN rule.implementations}
  <1> DEFINE named(i) == TypesNamed(world, Loaded, rule.implementations[i].path,
                                    rule.implementations[i].name)
             type(i) == typeOf(world, Loaded, rule.implementations[i])
             applied(t) == appliedTo(rule, world, Loaded, t)
  <1>1. \A i \in DOMAIN rule.implementations : named(i) = {type(i)}
    <2>1. ASSUME NEW i \in DOMAIN rule.implementations PROVE named(i) = {type(i)}
      <3>1. type(i) \in named(i)
        BY AcceptedSettles DEF Implements
      <3> QED
        BY <3>1, OneNamed DEF BindInv
    <2> QED
      BY <2>1
  <1>2. AppliedEverywhere = {applied(t) : t \in UNION {named(i) : i \in DOMAIN rule.implementations}}
    BY DEF AppliedEverywhere
  <1> HIDE DEF named, type, applied
  <1>3. AppliedEverywhere = {applied(type(i)) : i \in DOMAIN rule.implementations}
    BY <1>1, <1>2
  <1> QED
    BY <1>3 DEF Settling, applied, type

\* A pass made something of the rule: what a pass of some package makes of it.
LEMMA PassedIs ==
    ASSUME BindInv, passed # NothingPassed
    PROVE  \E imported \in SUBSET Libraries : passed = bindAll(visiblePackages(world, imported))
  BY DEF BindInv

\* A rule Validate accepts makes no pass fail.
LEMMA NeverFails == BindInv => ValidatedNeverFails
  <1> SUFFICES ASSUME BindInv, Accepted PROVE passed.error = ""
    BY DEF ValidatedNeverFails
  <1>1. CASE passed = NothingPassed
    BY <1>1 DEF NothingPassed
  <1>2. CASE passed # NothingPassed
    <2>1. PICK imported : passed = bindAll(visiblePackages(world, imported))
      BY <1>2, PassedIs
    <2> QED
      BY <2>1, AcceptedPasses DEF Passes
  <1> QED
    BY <1>1, <1>2

\* What a pass binds is what Validate settled.
LEMMA Agrees == BindInv => PassesAgree
  <1> SUFFICES ASSUME BindInv, Accepted, NEW each \in passed.bound
               PROVE  /\ each.rule \in Settling
                      /\ SettledAs(each, resolve(each.rule, world, Loaded, TRUE))
    BY DEF PassesAgree
  <1>1. passed # NothingPassed
    <2>1. NothingPassed.bound = {}
      BY DEF NothingPassed
    <2> QED
      BY <2>1
  <1>2. PICK imported : passed = bindAll(visiblePackages(world, imported))
    BY <1>1, PassedIs
  <1> DEFINE V == visiblePackages(world, imported)
  <1>3. /\ passed.visible = V
        /\ passed.bound = {one \in bindEach(V, Tried(V)) : one.binding.error = ""}
    BY <1>2, AcceptedPasses DEF Passes
  <1>4. \A r \in Tried(V) : IsSettled(r, V)
    BY AcceptedSettles, SettlingSettled DEF Tried
  <1> HIDE DEF V
  <1>5. PICK r \in Tried(V) : each = [rule |-> r, binding |-> bind(r, world, V)]
    BY <1>3 DEF bindEach
  <1>6. each.rule = r /\ each.binding = bind(r, world, V) /\ each.binding.error = ""
    BY <1>3, <1>5
  <1>7. r \in Settling
    BY SettlingIs DEF Tried
  <1>8. BindsAlike(r, V)
    BY <1>4, SettledBinds DEF BindInv
  <1>9. BoundAlike(r, V, each.binding, resolve(r, world, Loaded, TRUE))
    BY <1>6, <1>8 DEF BindsAlike
  <1>10. SettledAs(each, resolve(r, world, Loaded, TRUE))
    BY <1>3, <1>6, <1>9 DEF SettledAs, BoundAlike
  <1> QED
    BY <1>6, <1>7, <1>10

\* A pass that sees all of what Validate settled binds it.
LEMMA Applies == BindInv => SeeingAllApplies
  <1> SUFFICES ASSUME BindInv, Accepted, passed # NothingPassed, NEW settled \in Settling,
                      seesAll(world, passed.visible, settled)
               PROVE  \E each \in passed.bound : each.rule = settled
    BY DEF SeeingAllApplies
  <1>1. PICK imported : passed = bindAll(visiblePackages(world, imported))
    BY PassedIs
  <1> DEFINE V == visiblePackages(world, imported)
  <1>2. /\ passed.visible = V
        /\ passed.bound = {one \in bindEach(V, Tried(V)) : one.binding.error = ""}
    BY <1>1, AcceptedPasses DEF Passes
  <1>3. \A r \in Tried(V) : IsSettled(r, V)
    BY AcceptedSettles, SettlingSettled DEF Tried
  <1> HIDE DEF V
  <1>4. settled \in Tried(V)
    <2>1. CASE settled = rule
      BY <2>1 DEF Tried
    <2>2. ASSUME NEW i \in DOMAIN rule.implementations,
                 settled = appliedTo(rule, world, Loaded,
                                     typeOf(world, Loaded, rule.implementations[i]))
          PROVE  settled \in Tried(V)
      <3> DEFINE t == typeOf(world, Loaded, rule.implementations[i])
      <3>1. Implements(rule, world, Loaded, rule.implementations[i])
        BY AcceptedSettles
      <3>2. t.path = rule.implementations[i].path /\ Swapped(rule, world, Loaded, t)
        BY <3>1 DEF Implements, TypesNamed
      <3>3. PICK side \in Sides(rule) : Swaps(world, Loaded, t, side)
        BY <3>2 DEF Swapped
      <3> DEFINE now == swap(world, Loaded, t, side)
      <3>4. ~now.called /\ now.name.path = t.path
        BY <3>3 DEF swap, Side, Name
      <3>5. now \in Sides(settled)
        BY <2>2 DEF Sides, appliedTo
      <3> HIDE DEF t, now
      <3>6. t.path \in V
        BY <1>2, <3>4, <3>5 DEF seesAll, lookupFunc
      <3> QED
        BY <2>2, <3>2, <3>6 DEF Tried, t
    <2> QED
      BY <2>1, <2>2, SettlingIs
  <1>5. BindsAlike(settled, V)
    BY <1>3, <1>4, SettledBinds DEF BindInv
  <1>6. bind(settled, world, V).error = ""
    BY <1>2, <1>5 DEF BindsAlike
  <1> DEFINE each == [rule |-> settled, binding |-> bind(settled, world, V)]
  <1>7. each \in bindEach(V, Tried(V)) /\ each.binding.error = "" /\ each.rule = settled
    BY <1>4, <1>6 DEF bindEach
  <1> QED
    BY <1>2, <1>7

\* What a pass made of the rule says which packages it sees.
LEMMA PassedSees == \A visible : bindAll(visible).visible = visible
  BY DEF bindAll, bindImplemented, passedAs

\* A pass sees with a package all that one imports.
LEMMA SeesImports == BindInv => TypeOK
  <1> SUFFICES ASSUME BindInv
               PROVE  /\ passed.visible \in SUBSET Libraries
                      /\ \A path \in passed.visible : world.imports[path] \subseteq passed.visible
    BY DEF BindInv, TypeOK
  <1>1. CASE passed = NothingPassed
    <2>1. NothingPassed.visible = {}
      BY DEF NothingPassed
    <2> QED
      BY <1>1, <2>1
  <1>2. CASE passed # NothingPassed
    <2>1. PICK imported : passed = bindAll(visiblePackages(world, imported))
      BY <1>2, PassedIs
    <2>2. passed.visible = visiblePackages(world, imported)
      BY <2>1, PassedSees
    <2> QED
      BY <2>2, VisibleClosed DEF BindInv, world
  <1> QED
    BY <1>1, <1>2

\* In every state the verdict is on the rule, and what a pass made of it is
\* what bindAll makes of it for the packages the pass sees.
LEMMA AlwaysBound == RulesSpec => []BindInv
  BY BindStart, BindStep, PTL DEF RulesSpec

\* A pass sees packages there are, and with one all that one imports
\* (bind.go, visiblePackages).
THEOREM PassesSeeImports == RulesSpec => []TypeOK
  BY AlwaysBound, SeesImports, PTL

\* A rule Validate accepts makes the pass of no package fail, whatever part of
\* the rule's packages that one imports (bind.go, bind and settle).
THEOREM AcceptedNeverFails == RulesSpec => []ValidatedNeverFails
  BY AlwaysBound, NeverFails, PTL

\* Every pass that binds an accepted rule, or what it is for an implementation,
\* binds the one Validate settled, with the same value in the same slot of every
\* function the pass sees (bind.go, settle; paircheck.go, bindAll).
THEOREM AcceptedBindsAlike == RulesSpec => []PassesAgree
  BY AlwaysBound, Agrees, PTL

\* A pass that sees the trigger and every satisfier of what Validate settled
\* applies it: the rule is not left out in silence (implementation.go, ambiguous).
THEOREM AcceptedApplied == RulesSpec => []SeeingAllApplies
  BY AlwaysBound, Applies, PTL

----------------------------------------------------------------------------
(* The order of the registers.                                             *)

\* The values of a function.
Registers(p) == DOMAIN p.instr

Carries(p, r) == p.instr[r].op \in {"fieldaddr", "load", "convert"}
IsPhi(p, r) == p.instr[r].op = "phi"

\* A number for each register, in the order they are set in.
IsRank(p, rank) ==
    /\ rank \in [Registers(p) -> Nat]
    /\ \A one, other \in Registers(p) : Before(p, one, other) => rank[one] < rank[other]
    /\ \E most \in Nat : \A r \in Registers(p) : rank[r] <= most

\* Three blocks in a row.
LEMMA Offsets ==
    ASSUME NEW size \in [1..3 -> Nat]
    PROVE  \E offset \in [1..3 -> Nat], most \in Nat :
             /\ \A b \in 1..3 : offset[b] + size[b] <= most
             /\ \A b, c \in 1..3 : b < c => offset[b] + size[b] <= offset[c]
  <1> DEFINE offset == [b \in 1..3 |-> IF b = 1 THEN 0 ELSE IF b = 2 THEN size[1]
                                       ELSE size[1] + size[2]]
             most == size[1] + size[2] + size[3]
  <1>1. size[1] \in Nat /\ size[2] \in Nat /\ size[3] \in Nat
    OBVIOUS
  <1>2. offset[1] = 0 /\ offset[2] = size[1] /\ offset[3] = size[1] + size[2]
    OBVIOUS
  <1>3. offset \in [1..3 -> Nat] /\ most \in Nat
    BY <1>1
  <1>4. most = size[1] + size[2] + size[3]
    OBVIOUS
  <1> HIDE DEF offset, most
  <1>5. ASSUME NEW b \in 1..3 PROVE offset[b] + size[b] <= most
    <2>1. b = 1 \/ b = 2 \/ b = 3
      OBVIOUS
    <2> QED
      BY <1>1, <1>2, <1>4, <2>1
  <1>6. ASSUME NEW b \in 1..3, NEW c \in 1..3, b < c PROVE offset[b] + size[b] <= offset[c]
    <2>1. (b = 1 /\ c = 2) \/ (b = 1 /\ c = 3) \/ (b = 2 /\ c = 3)
      BY <1>6
    <2> QED
      BY <1>1, <1>2, <2>1
  <1> QED
    BY <1>3, <1>5, <1>6

\* The registers can be numbered in the order they are set in.
LEMMA Ranked ==
    ASSUME NEW p, InSSA(p)
    PROVE  \E rank : IsRank(p, rank)
  <1> DEFINE B == p.blocks
             G == Registers(p)
             size == [b \in 1..3 |-> Len(B[b])]
  <1>1. B \in [1..3 -> Seq(G)]
    BY DEF InSSA, SetOnce, Registers
  <1>2. /\ \A r \in G : \E b \in 1..3 : \E i \in DOMAIN B[b] : B[b][i] = r
        /\ \A b, c \in 1..3 : \A i \in DOMAIN B[b], j \in DOMAIN B[c] :
              B[b][i] = B[c][j] => b = c /\ i = j
    BY DEF InSSA, SetOnce, Registers, RegistersOf
  <1>3. \A b \in 1..3 : B[b] \in Seq(G)
    BY <1>1
  <1>4. \A b \in 1..3 : size[b] \in Nat /\ DOMAIN B[b] = 1..size[b]
    BY <1>3
  <1>5. size \in [1..3 -> Nat]
    BY <1>4
  <1> HIDE DEF B, size
  <1>6. PICK offset \in [1..3 -> Nat], most \in Nat :
             /\ \A b \in 1..3 : offset[b] + size[b] <= most
             /\ \A b, c \in 1..3 : b < c => offset[b] + size[b] <= offset[c]
    BY <1>5, Offsets
  <1> DEFINE Numbers(r, n) == \E b \in 1..3 : \E i \in 1..size[b] :
                                 B[b][i] = r /\ n = offset[b] + i
             rank == [r \in G |-> CHOOSE n \in Nat : Numbers(r, n)]
  <1>8. ASSUME NEW r \in G, NEW m, NEW n, Numbers(r, m), Numbers(r, n)
        PROVE  m = n
    <2>1. PICK b \in 1..3 : \E i \in 1..size[b] : B[b][i] = r /\ m = offset[b] + i
      BY <1>8
    <2>2. PICK i \in 1..size[b] : B[b][i] = r /\ m = offset[b] + i
      BY <2>1
    <2>3. PICK c \in 1..3 : \E j \in 1..size[c] : B[c][j] = r /\ n = offset[c] + j
      BY <1>8
    <2>4. PICK j \in 1..size[c] : B[c][j] = r /\ n = offset[c] + j
      BY <2>3
    <2>5. i \in DOMAIN B[b] /\ j \in DOMAIN B[c] /\ B[b][i] = B[c][j]
      BY <1>4, <2>2, <2>4
    <2>6. b = c /\ i = j
      BY <1>2, <2>5
    <2> QED
      BY <2>2, <2>4, <2>6
  <1>9. ASSUME NEW r \in G
        PROVE  \E n \in Nat : Numbers(r, n)
    <2>1. PICK b \in 1..3 : \E i \in DOMAIN B[b] : B[b][i] = r
      BY <1>2
    <2>2. PICK i \in 1..size[b] : B[b][i] = r
      BY <1>4, <2>1
    <2>3. offset[b] \in Nat /\ i \in Nat
      OBVIOUS
    <2>4. offset[b] + i \in Nat
      BY <2>3
    <2> QED
      BY <2>2, <2>4
  <1> HIDE DEF Numbers
  <1>10. \A r \in G : rank[r] \in Nat /\ Numbers(r, rank[r])
    BY <1>9
  <1>11. rank \in [G -> Nat]
    BY <1>10
  <1> HIDE DEF rank
  <1>12. ASSUME NEW one \in G, NEW other \in G, Before(p, one, other)
         PROVE  rank[one] < rank[other]
    <2>1. PICK b \in 1..3, c \in 1..3 : \E i \in DOMAIN B[b], j \in DOMAIN B[c] :
             B[b][i] = one /\ B[c][j] = other /\ (b < c \/ (b = c /\ i < j))
      BY <1>12 DEF Before, B
    <2>2. PICK i \in 1..size[b], j \in 1..size[c] :
             B[b][i] = one /\ B[c][j] = other /\ (b < c \/ (b = c /\ i < j))
      BY <1>4, <2>1
    <2>3. Numbers(one, offset[b] + i) /\ Numbers(other, offset[c] + j)
      BY <2>2 DEF Numbers
    <2>4. rank[one] = offset[b] + i /\ rank[other] = offset[c] + j
      BY <1>8, <1>10, <2>3
    <2>5. /\ offset[b] \in Nat /\ offset[c] \in Nat /\ size[b] \in Nat
          /\ i \in Nat /\ i <= size[b] /\ j \in Nat /\ j >= 1
          /\ b < c => offset[b] + size[b] <= offset[c]
      <3>1. offset[b] \in Nat /\ offset[c] \in Nat
        OBVIOUS
      <3>2. size[b] \in Nat
        BY <1>4
      <3>3. i \in Nat /\ i <= size[b] /\ j \in Nat /\ j >= 1
        BY <3>2
      <3>4. b < c => offset[b] + size[b] <= offset[c]
        BY <1>6
      <3> QED
        BY <3>1, <3>2, <3>3, <3>4
    <2>6. CASE b < c
      BY <2>4, <2>5, <2>6
    <2>7. CASE b = c /\ i < j
      BY <2>4, <2>5, <2>7
    <2> QED
      BY <2>2, <2>6, <2>7
  <1>13. ASSUME NEW r \in G
         PROVE  rank[r] <= most
    <2>1. PICK b \in 1..3 : \E i \in 1..size[b] : rank[r] = offset[b] + i
      BY <1>10 DEF Numbers
    <2>2. PICK i \in 1..size[b] : rank[r] = offset[b] + i
      BY <2>1
    <2>3. /\ offset[b] \in Nat /\ size[b] \in Nat /\ i \in Nat /\ i <= size[b]
          /\ offset[b] + size[b] <= most
      BY <1>4, <1>6
    <2> QED
      BY <2>2, <2>3
  <1>15. IsRank(p, rank)
    BY <1>11, <1>12, <1>13 DEF IsRank
  <1> QED
    BY <1>15

\* What a register carries is set before it, and so is the first edge of a phi.
LEMMA MadeBefore ==
    ASSUME NEW p, InSSA(p), NEW r \in Registers(p)
    PROVE  /\ MadeOf(p.instr, r) \subseteq Registers(p)
           /\ Carries(p, r) => Before(p, p.instr[r].x, r)
           /\ IsPhi(p, r) => /\ DOMAIN p.instr[r].edges = 1..2
                             /\ Before(p, p.instr[r].edges[1], r)
  <1> DEFINE x == p.instr[r].x
             edges == p.instr[r].edges
  <1>1. CASE Carries(p, r)
    <2>1. x # NoValue
      BY <1>1 DEF InSSA, OperandsSet, Needed, Carries, Registers
    <2>2. x \in Operands(p.instr[r])
      BY <2>1 DEF Operands
    <2>3. x \in Registers(p) /\ Before(p, x, r)
      BY <2>2 DEF InSSA, OperandsSet, ValuesOf, Registers
    <2> QED
      BY <1>1, <2>3 DEF Carries, IsPhi, MadeOf
  <1>2. CASE IsPhi(p, r)
    <2>1. PICK b \in 1..3 : r \in PhisOf(p, b)
      BY <1>2 DEF InSSA, SetOnce, Registers, PhisOf, IsPhi
    <2>2. b \in 2..3
      BY <2>1 DEF InSSA, PhisLead
    <2>3. /\ DOMAIN edges = 1..2 /\ edges[1] \in Registers(p) /\ edges[2] \in Registers(p)
          /\ b = 2 => edges[1] \in RegistersOf(p, 1)
          /\ b = 3 => edges[1] \in RegistersOf(p, 1) \union RegistersOf(p, 2)
      BY <2>1, <2>2 DEF InSSA, EdgesSet, ValuesOf, Registers
    <2>4. PICK c \in 1..3 : c < b /\ edges[1] \in RegistersOf(p, c)
      BY <2>2, <2>3
    <2>5. PICK i \in DOMAIN p.blocks[c], j \in DOMAIN p.blocks[b] :
             p.blocks[c][i] = edges[1] /\ p.blocks[b][j] = r
      BY <2>1, <2>4 DEF RegistersOf, PhisOf
    <2>6. Before(p, edges[1], r)
      BY <2>4, <2>5 DEF Before
    <2> QED
      BY <1>2, <2>3, <2>6 DEF Carries, IsPhi, MadeOf
  <1>3. CASE ~Carries(p, r) /\ ~IsPhi(p, r)
    BY <1>3 DEF Carries, IsPhi, MadeOf
  <1> QED
    BY <1>1, <1>2, <1>3

----------------------------------------------------------------------------
(* walk ends: what it asks for is smaller by this measure.                 *)

Points(p) == Registers(p) \X SUBSET Registers(p)

IsMeasure(p, size) ==
    /\ size \in [Points(p) -> Nat]
    /\ \A r \in Registers(p), V \in SUBSET Registers(p) :
          /\ Carries(p, r) => size[<<p.instr[r].x, V>>] < size[<<r, V>>]
          /\ IsPhi(p, r) /\ r \notin V =>
                \A i \in DOMAIN p.instr[r].edges :
                    size[<<p.instr[r].edges[i], V \union {r}>>] < size[<<r, V>>]
    /\ \E most \in Nat : \A point \in Points(p) : size[point] <= most

\* An earlier register with as many phis visited, or any with one more.
LEMMA SmallerSteps ==
    ASSUME NEW width \in Nat, NEW left \in Nat, NEW one \in Nat, NEW other \in Nat,
           one <= width
    PROVE  /\ (width + 1) * left \in Nat
           /\ left # 0 => (width + 1) * (left - 1) + one < (width + 1) * left + other
  <1>1. (width + 1) * (left - 1) = (width + 1) * left - (width + 1)
    OBVIOUS
  <1>2. (width + 1) * left \in Nat
    OBVIOUS
  <1> QED
    BY <1>1, <1>2

\* The measure is bounded.
LEMMA SmallerBound ==
    ASSUME NEW width \in Nat, NEW left \in Nat, NEW all \in Nat, left <= all,
           NEW one \in Nat, one <= width
    PROVE  /\ (width + 1) * all + width \in Nat
           /\ (width + 1) * left + one <= (width + 1) * all + width
  <1> DEFINE d == all - left
  <1>1. d \in Nat /\ all = left + d
    OBVIOUS
  <1> HIDE DEF d
  <1>2. (width + 1) * d \in Nat /\ (width + 1) * left \in Nat
    BY <1>1
  <1>3. (width + 1) * (left + d) = (width + 1) * left + (width + 1) * d
    BY <1>1
  <1> QED
    BY <1>1, <1>2, <1>3

\* Every walk of a path ends: what is still to be walked gets less with each step.
LEMMA Measured ==
    ASSUME NEW p, InSSA(p)
    PROVE  \E size : IsMeasure(p, size)
  <1> DEFINE G == Registers(p)
             all == Cardinality(G)
  <1>1. PICK rank : IsRank(p, rank)
    BY Ranked
  <1>2. PICK most \in Nat : \A r \in G : rank[r] <= most /\ rank[r] \in Nat
    BY <1>1 DEF IsRank
  <1> DEFINE left(V) == all - Cardinality(V)
             size == [point \in Points(p) |-> (most + 1) * left(point[2]) + rank[point[1]]]
  <1>3. IsFiniteSet(G)
    BY DEF InSSA, Registers
  <1>4. \A V \in SUBSET G : left(V) \in Nat /\ left(V) <= all /\ all \in Nat
    BY <1>3, FS_CardinalityType, FS_Subset
  <1>5. ASSUME NEW r \in G, NEW V \in SUBSET G, r \notin V
        PROVE  left(V \union {r}) = left(V) - 1 /\ left(V) # 0
    <2>1. IsFiniteSet(V) /\ V \union {r} \in SUBSET G
      BY <1>3, FS_Subset
    <2>2. Cardinality(V \union {r}) = Cardinality(V) + 1 /\ Cardinality(V) \in Nat
      BY <1>5, <2>1, FS_AddElement, FS_CardinalityType
    <2>3. left(V \union {r}) \in Nat /\ all \in Nat
      BY <1>4, <2>1
    <2> QED
      BY <2>2, <2>3
  <1> HIDE DEF left
  <1>6. \A r \in G, V \in SUBSET G : size[<<r, V>>] = (most + 1) * left(V) + rank[r]
    BY DEF Points
  <1>8. size \in [Points(p) -> Nat]
    BY <1>2, <1>4, SmallerSteps DEF Points
  <1> HIDE DEF size
  <1>9. ASSUME NEW r \in G, NEW V \in SUBSET G, Carries(p, r)
        PROVE  size[<<p.instr[r].x, V>>] < size[<<r, V>>]
    <2>1. p.instr[r].x \in G /\ Before(p, p.instr[r].x, r)
      BY <1>9, MadeBefore DEF MadeOf, Carries
    <2>2. rank[p.instr[r].x] < rank[r]
      BY <1>1, <2>1 DEF IsRank
    <2>3. (most + 1) * left(V) \in Nat
      BY <1>4, SmallerSteps
    <2> QED
      BY <1>2, <1>6, <2>1, <2>2, <2>3
  <1>10. ASSUME NEW r \in G, NEW V \in SUBSET G, IsPhi(p, r), r \notin V,
                NEW i \in DOMAIN p.instr[r].edges
         PROVE  size[<<p.instr[r].edges[i], V \union {r}>>] < size[<<r, V>>]
    <2>1. p.instr[r].edges[i] \in G
      BY <1>10, MadeBefore DEF MadeOf, IsPhi
    <2>2. left(V \union {r}) = left(V) - 1 /\ left(V) # 0 /\ left(V) \in Nat
      BY <1>4, <1>5, <1>10
    <2>3. size[<<p.instr[r].edges[i], V \union {r}>>]
             = (most + 1) * (left(V) - 1) + rank[p.instr[r].edges[i]]
      BY <1>6, <2>1, <2>2
    <2>4. rank[r] \in Nat /\ rank[p.instr[r].edges[i]] \in Nat /\ rank[p.instr[r].edges[i]] <= most
      BY <1>2, <2>1
    <2>5. (most + 1) * (left(V) - 1) + rank[p.instr[r].edges[i]] < (most + 1) * left(V) + rank[r]
      BY <2>2, <2>4, SmallerSteps
    <2> QED
      BY <1>6, <2>3, <2>5
  <1>11. (most + 1) * all + most \in Nat
         /\ \A point \in Points(p) : size[point] <= (most + 1) * all + most
    <2>1. all \in Nat
      BY <1>4
    <2>2. (most + 1) * all + most \in Nat
      BY <2>1, SmallerBound
    <2>3. ASSUME NEW r \in G, NEW V \in SUBSET G
          PROVE  size[<<r, V>>] <= (most + 1) * all + most
      BY <1>2, <1>4, <1>6, SmallerBound
    <2> QED
      BY <2>2, <2>3 DEF Points
  <1>12. IsMeasure(p, size)
    BY <1>8, <1>9, <1>10, <1>11 DEF IsMeasure
  <1> QED
    BY <1>12

\* walk asks of a register only for what it is made from.
LEMMA WalkLocal ==
    ASSUME NEW p, NEW r, NEW V, NEW f, NEW g,
           Carries(p, r) => f[<<p.instr[r].x, V>>] = g[<<p.instr[r].x, V>>],
           IsPhi(p, r) /\ r \notin V =>
               \A i \in DOMAIN p.instr[r].edges :
                   f[<<p.instr[r].edges[i], V \union {r}>>] = g[<<p.instr[r].edges[i], V \union {r}>>]
    PROVE  walkFrom(p.instr, f, <<r, V>>) = walkFrom(p.instr, g, <<r, V>>)
  <1>1. CASE Carries(p, r)
    BY <1>1 DEF walkFrom, Carries
  <1>2. CASE IsPhi(p, r) /\ r \notin V
    <2> DEFINE E(h) == {h[<<p.instr[r].edges[i], V \union {r}>>] : i \in DOMAIN p.instr[r].edges}
    <2>1. E(f) = E(g)
      BY <1>2
    <2>2. \A h : walkFrom(p.instr, h, <<r, V>>)
                  = walkPhi(r, {path \in E(h) : path.root # NoValue})
      BY <1>2 DEF walkFrom, IsPhi
    <2> QED
      BY <2>1, <2>2
  <1>3. CASE ~Carries(p, r) /\ ~(IsPhi(p, r) /\ r \notin V)
    BY <1>3 DEF walkFrom, Carries, IsPhi
  <1> QED
    BY <1>1, <1>2, <1>3

\* A phi that is being visited says nothing.
LEMMA WalkVisited ==
    ASSUME NEW p, NEW r, NEW V, NEW f, IsPhi(p, r), r \in V
    PROVE  /\ walkFrom(p.instr, f, <<r, V>>) = [root |-> NoValue, steps |-> <<>>, loads |-> FALSE]
           /\ walkFrom(p.instr, f, <<r, V>>).root = NoValue
  <1>1. <<r, V>>[1] = r /\ <<r, V>>[2] = V
    OBVIOUS
  <1>2. walkFrom(p.instr, f, <<r, V>>) = [root |-> NoValue, steps |-> <<>>, loads |-> FALSE]
    BY <1>1 DEF walkFrom, IsPhi
  <1> QED
    BY <1>2

\* A register that is made from no other starts its path.
LEMMA WalkStarts ==
    ASSUME NEW p, NEW r, NEW V, NEW f, ~Carries(p, r), ~IsPhi(p, r)
    PROVE  /\ walkFrom(p.instr, f, <<r, V>>) = [root |-> r, steps |-> <<>>, loads |-> FALSE]
           /\ walkFrom(p.instr, f, <<r, V>>).root = r
  <1>1. <<r, V>>[1] = r /\ <<r, V>>[2] = V
    OBVIOUS
  <1>2. walkFrom(p.instr, f, <<r, V>>) = [root |-> r, steps |-> <<>>, loads |-> FALSE]
    BY <1>1 DEF walkFrom, Carries, IsPhi
  <1> QED
    BY <1>2

\* walk is defined for every function: it ends.
LEMMA WalkEnds ==
    ASSUME NEW p, InSSA(p)
    PROVE  walk(p.instr) = [point \in Points(p) |-> walkFrom(p.instr, walk(p.instr), point)]
  <1> DEFINE I == p.instr
             P == Points(p)
  <1>1. PICK size : IsMeasure(p, size)
    BY Measured
  <1>2. PICK most \in Nat : \A point \in P : size[point] <= most /\ size[point] \in Nat
    BY <1>1 DEF IsMeasure
  <1> DEFINE Solved(f, n) == \A point \in P : size[point] < n => f[point] = walkFrom(I, f, point)
             T == {n \in Nat : \E f : Solved(f, n)}
  <1>3. ASSUME NEW f, NEW g, NEW point \in P,
               \A q \in P : size[q] < size[point] => f[q] = g[q]
        PROVE  walkFrom(I, f, point) = walkFrom(I, g, point)
    <2>1. PICK r \in Registers(p), V \in SUBSET Registers(p) : point = <<r, V>>
      BY DEF Points
    <2>2. ASSUME Carries(p, r)
          PROVE  f[<<I[r].x, V>>] = g[<<I[r].x, V>>]
      <3>1. <<I[r].x, V>> \in P
        BY <2>2, MadeBefore DEF MadeOf, Carries, Points
      <3> QED
        BY <1>1, <1>3, <2>1, <2>2, <3>1 DEF IsMeasure
    <2>3. ASSUME IsPhi(p, r), r \notin V, NEW i \in DOMAIN I[r].edges
          PROVE  f[<<I[r].edges[i], V \union {r}>>] = g[<<I[r].edges[i], V \union {r}>>]
      <3>1. <<I[r].edges[i], V \union {r}>> \in P
        BY <2>3, MadeBefore DEF MadeOf, IsPhi, Points
      <3> QED
        BY <1>1, <1>3, <2>1, <2>3, <3>1 DEF IsMeasure
    <2> QED
      BY <2>1, <2>2, <2>3, WalkLocal
  <1> HIDE DEF P
  <1>4. 0 \in T
    BY <1>2
  <1>5. ASSUME NEW n \in Nat, n \in T
        PROVE  n + 1 \in T
    <2>1. PICK f : Solved(f, n)
      BY <1>5
    <2> DEFINE g == [point \in P |-> walkFrom(I, f, point)]
    <2>2. ASSUME NEW point \in P, size[point] < n + 1
          PROVE  g[point] = walkFrom(I, g, point)
      <3>1. \A q \in P : size[q] < size[point] => f[q] = g[q]
        BY <1>2, <2>1, <2>2
      <3> QED
        BY <1>3, <3>1
    <2>3. Solved(g, n + 1)
      BY <2>2
    <2> HIDE DEF Solved, g
    <2> QED
      BY <2>3
  <1>6. most + 1 \in T
    <2> HIDE DEF T
    <2> QED
      BY <1>4, <1>5, SetInduction
  <1>7. PICK f : Solved(f, most + 1)
    BY <1>6
  <1>8. \A point \in P : f[point] = walkFrom(I, f, point)
    BY <1>2, <1>7
  <1> DEFINE g == [point \in P |-> f[point]]
  <1>9. \A point \in P : walkFrom(I, f, point) = walkFrom(I, g, point)
    BY <1>3
  <1>10. g = [point \in P |-> walkFrom(I, g, point)]
    BY <1>8, <1>9
  <1>11. walk(I) = CHOOSE reached : reached = [point \in P |-> walkFrom(I, reached, point)]
    BY DEF walk, P, Points, Registers
  <1> QED
    BY <1>10, <1>11 DEF P

\* What walk answers of each kind of value.
LEMMA Walked ==
    ASSUME NEW p, InSSA(p), NEW r \in Registers(p), NEW V \in SUBSET Registers(p)
    PROVE  walk(p.instr)[<<r, V>>] = walkFrom(p.instr, walk(p.instr), <<r, V>>)
  <1>1. <<r, V>> \in Points(p)
    BY DEF Points
  <1> HIDE DEF Points
  <1> DEFINE W == walk(p.instr)
  <1>2. W = [point \in Points(p) |-> walkFrom(p.instr, W, point)]
    BY WalkEnds
  <1> HIDE DEF W
  <1>3. W[<<r, V>>] = walkFrom(p.instr, W, <<r, V>>)
    BY <1>1, <1>2
  <1> QED
    BY <1>3 DEF W

----------------------------------------------------------------------------
(* What a path says of a register.                                         *)

\* Of some points one asks for none of them.
LEMMA LeastPoint ==
    ASSUME NEW p, InSSA(p), NEW S \in SUBSET Points(p), S # {}
    PROVE  \E r \in Registers(p), V \in SUBSET Registers(p) :
             /\ <<r, V>> \in S
             /\ Carries(p, r) => <<p.instr[r].x, V>> \notin S
             /\ IsPhi(p, r) /\ r \notin V =>
                   \A i \in DOMAIN p.instr[r].edges : <<p.instr[r].edges[i], V \union {r}>> \notin S
  <1>1. PICK size : IsMeasure(p, size)
    BY Measured
  <1> DEFINE N == {size[point] : point \in S}
  <1>2. N \in SUBSET Nat /\ N # {}
    BY <1>1 DEF IsMeasure
  <1>3. PICK n \in N : \A m \in N : n <= m
    BY <1>2, LeastIn
  <1>4. PICK point \in S : size[point] = n
    BY <1>3
  <1>5. ASSUME NEW q \in S
        PROVE  ~(size[q] < size[point])
    <2>1. size[q] \in N
      OBVIOUS
    <2> HIDE DEF N
    <2>2. size[q] \in Nat /\ n \in Nat /\ n <= size[q]
      BY <1>2, <1>3, <2>1
    <2> QED
      BY <1>4, <2>2
  <1>6. PICK r \in Registers(p), V \in SUBSET Registers(p) : point = <<r, V>>
    BY DEF Points
  <1>7. Carries(p, r) => <<p.instr[r].x, V>> \notin S
    BY <1>1, <1>5, <1>6 DEF IsMeasure
  <1>8. IsPhi(p, r) /\ r \notin V =>
          \A i \in DOMAIN p.instr[r].edges : <<p.instr[r].edges[i], V \union {r}>> \notin S
    BY <1>1, <1>5, <1>6 DEF IsMeasure
  <1> QED
    BY <1>6, <1>7, <1>8

\* Of some registers one is set first.
LEMMA LeastRegister ==
    ASSUME NEW p, InSSA(p), NEW C \in SUBSET Registers(p), C # {}
    PROVE  \E r \in C : \A q \in C : ~Before(p, q, r)
  <1>1. PICK rank : IsRank(p, rank)
    BY Ranked
  <1> DEFINE N == {rank[r] : r \in C}
  <1>2. N \in SUBSET Nat /\ N # {}
    BY <1>1 DEF IsRank
  <1>3. PICK n \in N : \A m \in N : n <= m
    BY <1>2, LeastIn
  <1>4. PICK r \in C : rank[r] = n
    BY <1>3
  <1>5. ASSUME NEW q \in C
        PROVE  ~(rank[q] < rank[r])
    <2>1. rank[q] \in N
      OBVIOUS
    <2> HIDE DEF N
    <2>2. rank[q] \in Nat /\ n \in Nat /\ n <= rank[q]
      BY <1>2, <1>3, <2>1
    <2> QED
      BY <1>4, <2>2
  <1> QED
    BY <1>1, <1>5 DEF IsRank

\* What has all its members are made from.
Closed(p, C) == \A q \in C : MadeOf(p.instr, q) \subseteq C

\* Whether all the phis being visited are made from the register.
Leads(p, V, r) ==
    \A v \in V : \A C \in SUBSET Registers(p) : Closed(p, C) /\ v \in C => r \in C

\* Conversions of one another, down to a phi being visited.
Chained(p, C, V) ==
    \A q \in C : q \in V \/ (p.instr[q].op = "convert" /\ p.instr[q].x \in C)

\* Conversions of one another have an end.
LEMMA ChainsEnd ==
    ASSUME NEW p, InSSA(p), NEW C \in SUBSET Registers(p), Chained(p, C, {})
    PROVE  C = {}
  <1> SUFFICES ASSUME C # {} PROVE FALSE
    OBVIOUS
  <1>1. PICK r \in C : \A q \in C : ~Before(p, q, r)
    BY LeastRegister
  <1> QED
    BY <1>1, MadeBefore DEF Chained, Carries

\* A field or a load leads to no phi its value goes through.
LEMMA StepsLead ==
    ASSUME NEW p, StepsEnd(p.instr), NEW V \in SUBSET Registers(p),
           NEW r \in Registers(p), Leads(p, V, r), p.instr[r].op \in {"fieldaddr", "load"}
    PROVE  \E D \in SUBSET Registers(p) :
             Closed(p, D) /\ p.instr[r].x \in D /\ D \intersect V = {}
  <1>1. PICK D \in SUBSET Registers(p) : MadeWithin(p.instr, r, D)
    BY DEF StepsEnd, Registers
  <1>2. Closed(p, D) /\ p.instr[r].x \in D /\ r \notin D
    BY <1>1 DEF MadeWithin, Closed, MadeOf
  <1> QED
    BY <1>2 DEF Leads

\* A pair is finite.
LEMMA Pairs ==
    ASSUME NEW a, NEW b
    PROVE  IsFiniteSet({a, b})
  <1>1. IsFiniteSet({a} \union {b})
    BY FS_Singleton, FS_AddElement
  <1>2. {a, b} = {a} \union {b}
    OBVIOUS
  <1> QED
    BY <1>1, <1>2

\* A path carried on.
LEMMA Carried ==
    ASSUME NEW p, InSSA(p), NEW r \in Registers(p), NEW V \in SUBSET Registers(p), Carries(p, r)
    PROVE  walk(p.instr)[<<r, V>>] =
              [root |-> walk(p.instr)[<<p.instr[r].x, V>>].root,
               steps |-> walk(p.instr)[<<p.instr[r].x, V>>].steps \o Step(p.instr[r]),
               loads |-> walk(p.instr)[<<p.instr[r].x, V>>].loads \/ p.instr[r].op = "load"]
  <1>1. walk(p.instr)[<<r, V>>] = walkFrom(p.instr, walk(p.instr), <<r, V>>)
    BY Walked
  <1>2. <<r, V>>[1] = r /\ <<r, V>>[2] = V
    OBVIOUS
  <1>3. p.instr[r].op \in {"fieldaddr", "load", "convert"}
    BY DEF Carries
  <1> QED
    BY <1>1, <1>2, <1>3, Zenon DEF walkFrom

\* The root of a field, a load or a conversion is its operand's, and its steps are
\* those and its own.
LEMMA CarriedSteps ==
    ASSUME NEW p, InSSA(p), NEW r \in Registers(p), NEW V \in SUBSET Registers(p), Carries(p, r)
    PROVE  /\ walk(p.instr)[<<r, V>>].steps = walk(p.instr)[<<p.instr[r].x, V>>].steps \o Step(p.instr[r])
           /\ walk(p.instr)[<<r, V>>].root = walk(p.instr)[<<p.instr[r].x, V>>].root
  <1> DEFINE u == walk(p.instr)[<<r, V>>]
             w == walk(p.instr)[<<p.instr[r].x, V>>]
  <1>1. u = [root |-> w.root, steps |-> w.steps \o Step(p.instr[r]),
             loads |-> w.loads \/ p.instr[r].op = "load"]
    BY Carried
  <1> HIDE DEF u, w
  <1>2. u.steps = w.steps \o Step(p.instr[r])
    BY <1>1, Zenon
  <1>3. u.root = w.root
    BY <1>1, Zenon
  <1> QED
    BY <1>2, <1>3 DEF u, w

StepSet == {<<"*">>} \union {<<"&", field>> : field \in STRING}

PathSet(p) == [root : Registers(p) \union {NoValue}, steps : Seq(StepSet), loads : BOOLEAN]

\* What the edges of a phi agree on.
Known(p, r, V) ==
    {path \in {walk(p.instr)[<<p.instr[r].edges[i], V \union {r}>>] : i \in DOMAIN p.instr[r].edges} :
        path.root # NoValue}

\* A phi has the one path its edges agree on, or is itself its root.
LEMMA PhiWalked ==
    ASSUME NEW p, InSSA(p), NEW r \in Registers(p), IsPhi(p, r),
           NEW V \in SUBSET Registers(p), r \notin V
    PROVE  \/ walk(p.instr)[<<r, V>>] = [root |-> r, steps |-> <<>>, loads |-> FALSE]
           \/ Known(p, r, V) = {walk(p.instr)[<<r, V>>]}
  <1> DEFINE those == Known(p, r, V)
             edge(i) == walk(p.instr)[<<p.instr[r].edges[i], V \union {r}>>]
  <1>1. walk(p.instr)[<<r, V>>] = walkFrom(p.instr, walk(p.instr), <<r, V>>)
    BY Walked
  <1>2. walk(p.instr)[<<r, V>>] = walkPhi(r, those)
    BY <1>1 DEF walkFrom, IsPhi, Known
  <1>3. CASE Cardinality(those) # 1
    BY <1>2, <1>3 DEF walkPhi
  <1>4. CASE Cardinality(those) = 1
    <2>1. those \subseteq {edge(1), edge(2)}
      <3>1. DOMAIN p.instr[r].edges = 1..2
        BY MadeBefore
      <3>2. \A i \in DOMAIN p.instr[r].edges : i = 1 \/ i = 2
        BY <3>1
      <3> QED
        BY <3>2, Zenon DEF Known
    <2>2. IsFiniteSet({edge(1), edge(2)})
      BY Pairs
    <2>3. IsFiniteSet(those)
      BY <2>1, <2>2, FS_Subset
    <2> HIDE DEF those
    <2>4. PICK path : those = {path}
      BY <1>4, <2>3, FS_Singleton
    <2>5. walkPhi(r, those) = path
      BY <1>4, <2>4 DEF walkPhi
    <2> QED
      BY <1>2, <2>4, <2>5 DEF those
  <1> QED
    BY <1>3, <1>4

\* How long two sequences one after the other are.
LEMMA Lengths ==
    ASSUME NEW S, NEW a \in Seq(S), NEW b \in Seq(S)
    PROVE  /\ Len(a) \in Nat /\ Len(b) \in Nat /\ Len(a \o b) = Len(a) + Len(b)
           /\ a \o b \in Seq(S)
  OBVIOUS

\* One step more.
LEMMA OneLonger ==
    ASSUME NEW S, NEW a \in Seq(S), NEW b \in Seq(S), Len(b) = 1, NEW c, c = a \o b
    PROVE  Len(a) \in Nat /\ Len(c) = Len(a) + 1
  BY Lengths

\* One step, or for a conversion none.
LEMMA Steps ==
    ASSUME NEW p, InSSA(p), NEW r \in Registers(p)
    PROVE  /\ Step(p.instr[r]) \in Seq(StepSet)
           /\ p.instr[r].op \in {"fieldaddr", "load"} => Len(Step(p.instr[r])) = 1
  <1>1. p.instr[r].field \in STRING
    BY DEF InSSA, Registers
  <1>2. <<"&", p.instr[r].field>> \in StepSet /\ <<"*">> \in StepSet
    BY <1>1 DEF StepSet
  <1> QED
    BY <1>2 DEF Step

\* A path has a root, steps, and whether one is a load.
LEMMA PathTyped ==
    ASSUME NEW p, InSSA(p), NEW r \in Registers(p), NEW V \in SUBSET Registers(p)
    PROVE  walk(p.instr)[<<r, V>>] \in PathSet(p)
  <1> DEFINE I == p.instr
             W == walk(I)
             G == Registers(p)
             N == {point \in Points(p) : W[point] \notin PathSet(p)}
  <1> SUFFICES ASSUME <<r, V>> \in N PROVE FALSE
    BY DEF Points
  <1>1. PICK q \in G, U \in SUBSET G :
          /\ <<q, U>> \in N
          /\ Carries(p, q) => <<I[q].x, U>> \notin N
          /\ IsPhi(p, q) /\ q \notin U =>
                \A i \in DOMAIN I[q].edges : <<I[q].edges[i], U \union {q}>> \notin N
    <2>1. N \in SUBSET Points(p) /\ N # {}
      OBVIOUS
    <2> HIDE DEF N
    <2> QED
      BY <2>1, LeastPoint
  <1>2. W[<<q, U>>] \notin PathSet(p)
    BY <1>1
  <1>3. W[<<q, U>>] = walkFrom(I, W, <<q, U>>)
    BY Walked
  <1>4. [root |-> q, steps |-> <<>>, loads |-> FALSE] \in PathSet(p)
        /\ [root |-> NoValue, steps |-> <<>>, loads |-> FALSE] \in PathSet(p)
    BY DEF PathSet
  <1>5. CASE Carries(p, q)
    <2> DEFINE w == W[<<I[q].x, U>>]
    <2>1. I[q].x \in G
      BY <1>5, MadeBefore DEF MadeOf, Carries
    <2>2. w \in PathSet(p)
      BY <1>1, <1>5, <2>1 DEF Points
    <2>3. W[<<q, U>>] = [root |-> w.root, steps |-> w.steps \o Step(I[q]),
                         loads |-> w.loads \/ I[q].op = "load"]
      BY <1>5, Carried
    <2>4. Step(I[q]) \in Seq(StepSet)
      BY Steps
    <2> HIDE DEF w, W
    <2>5. w.root \in G \union {NoValue} /\ w.steps \in Seq(StepSet) /\ w.loads \in BOOLEAN
      BY <2>2 DEF PathSet
    <2>6. w.steps \o Step(I[q]) \in Seq(StepSet)
      BY <2>4, <2>5
    <2>7. W[<<q, U>>] \in PathSet(p)
      BY <2>3, <2>5, <2>6 DEF PathSet
    <2> QED
      BY <1>2, <2>7
  <1>6. CASE IsPhi(p, q) /\ q \in U
    <2>1. W[<<q, U>>] = [root |-> NoValue, steps |-> <<>>, loads |-> FALSE]
      BY <1>3, <1>6, WalkVisited
    <2> QED
      BY <1>2, <1>4, <2>1
  <1>7. CASE IsPhi(p, q) /\ q \notin U
    <2>1. \/ W[<<q, U>>] = [root |-> q, steps |-> <<>>, loads |-> FALSE]
          \/ Known(p, q, U) = {W[<<q, U>>]}
      BY <1>7, PhiWalked
    <2>2. ASSUME NEW i \in DOMAIN I[q].edges
          PROVE  W[<<I[q].edges[i], U \union {q}>>] \in PathSet(p)
      <3>1. <<I[q].edges[i], U \union {q}>> \in Points(p)
        BY <1>7, MadeBefore DEF MadeOf, IsPhi, Points
      <3> QED
        BY <1>1, <1>7, <3>1
    <2>3. Known(p, q, U) \subseteq PathSet(p)
      BY <2>2 DEF Known
    <2> HIDE DEF W
    <2> QED
      BY <1>2, <1>4, <2>1, <2>3
  <1>8. CASE ~Carries(p, q) /\ ~IsPhi(p, q)
    <2>1. W[<<q, U>>] = [root |-> q, steps |-> <<>>, loads |-> FALSE]
      BY <1>3, <1>8, WalkStarts
    <2> QED
      BY <1>2, <1>4, <2>1
  <1> QED
    BY <1>5, <1>6, <1>7, <1>8

\* A path that leads back to a phi being visited has no step.
LEMMA BackChains ==
    ASSUME NEW p, InSSA(p), StepsEnd(p.instr),
           NEW r \in Registers(p), NEW V \in SUBSET Registers(p), Leads(p, V, r),
           walk(p.instr)[<<r, V>>].root = NoValue
    PROVE  \E C \in SUBSET Registers(p) : r \in C /\ Chained(p, C, V)
  <1> DEFINE I == p.instr
             W == walk(I)
             G == Registers(p)
             Chain(q, U) == \E C \in SUBSET G : q \in C /\ Chained(p, C, U)
             S == {point \in Points(p) :
                      /\ Leads(p, point[2], point[1]) /\ W[point].root = NoValue
                      /\ ~Chain(point[1], point[2])}
  <1> SUFFICES ASSUME <<r, V>> \in S PROVE FALSE
    BY DEF Points
  <1>1. PICK q \in G, U \in SUBSET G :
          /\ <<q, U>> \in S
          /\ Carries(p, q) => <<I[q].x, U>> \notin S
          /\ IsPhi(p, q) /\ q \notin U =>
                \A i \in DOMAIN I[q].edges : <<I[q].edges[i], U \union {q}>> \notin S
    <2>1. S \in SUBSET Points(p) /\ S # {}
      OBVIOUS
    <2> HIDE DEF S
    <2> QED
      BY <2>1, LeastPoint
  <1>2. Leads(p, U, q) /\ W[<<q, U>>].root = NoValue /\ ~Chain(q, U)
    BY <1>1
  <1>3. W[<<q, U>>] = walkFrom(I, W, <<q, U>>)
    BY Walked
  <1>4. NoValue \notin G
    BY DEF InSSA, Registers
  <1> HIDE DEF W
  <1>5. CASE Carries(p, q)
    <2>1. I[q].x \in G /\ I[q].x \in MadeOf(I, q)
      BY <1>5, MadeBefore DEF MadeOf, Carries
    <2>2. W[<<I[q].x, U>>].root = NoValue
      BY <1>2, <1>5, CarriedSteps DEF W
    <2>3. Leads(p, U, I[q].x)
      BY <1>2, <2>1 DEF Leads, Closed
    <2>4. Chain(I[q].x, U)
      BY <1>1, <1>5, <2>1, <2>2, <2>3 DEF Points
    <2>5. PICK C \in SUBSET G : I[q].x \in C /\ Chained(p, C, U)
      BY <2>4
    <2>6. CASE I[q].op = "convert"
      <3>1. Chained(p, C \union {q}, U)
        BY <2>5, <2>6 DEF Chained
      <3> QED
        BY <1>2, <3>1
    <2>7. CASE I[q].op \in {"fieldaddr", "load"}
      <3>1. PICK D \in SUBSET G : Closed(p, D) /\ I[q].x \in D /\ D \intersect U = {}
        BY <1>2, <2>7, StepsLead
      <3>2. Chained(p, C \intersect D, {})
        BY <2>5, <3>1 DEF Chained, Closed, MadeOf
      <3>3. C \intersect D = {}
        BY <3>2, ChainsEnd
      <3> QED
        BY <2>5, <3>1, <3>3
    <2> QED
      BY <1>5, <2>6, <2>7 DEF Carries
  <1>6. CASE IsPhi(p, q) /\ q \in U
    <2>1. Chained(p, {q}, U)
      BY <1>6 DEF Chained
    <2> QED
      BY <1>2, <2>1
  <1>7. CASE IsPhi(p, q) /\ q \notin U
    <2>1. \/ W[<<q, U>>] = [root |-> q, steps |-> <<>>, loads |-> FALSE]
          \/ Known(p, q, U) = {W[<<q, U>>]}
      BY <1>7, PhiWalked DEF W
    <2>2. \A path \in Known(p, q, U) : path.root # NoValue
      BY DEF Known
    <2>3. CASE W[<<q, U>>] = [root |-> q, steps |-> <<>>, loads |-> FALSE]
      BY <1>2, <1>4, <2>3
    <2>4. CASE Known(p, q, U) = {W[<<q, U>>]}
      BY <1>2, <2>2, <2>4
    <2> QED
      BY <2>1, <2>3, <2>4
  <1>8. CASE ~Carries(p, q) /\ ~IsPhi(p, q)
    <2>1. walkFrom(I, W, <<q, U>>).root = q
      BY <1>8 DEF walkFrom, Carries, IsPhi
    <2>2. W[<<q, U>>].root = q
      BY <1>3, <2>1
    <2> QED
      BY <1>2, <1>4, <2>2
  <1> QED
    BY <1>5, <1>6, <1>7, <1>8

----------------------------------------------------------------------------
(* What a register and a path of it are made from.                         *)

PathsOf(p) == {walk(p.instr)[point] : point \in Points(p)}

Base(r) == [root |-> r, steps |-> <<>>, loads |-> FALSE]

\* The parts of the path of a register that starts its own.
LEMMA BaseParts ==
    ASSUME NEW r
    PROVE  Base(r).root = r /\ Base(r).steps = <<>> /\ ~Base(r).loads
  BY DEF Base

Labels(p) == Registers(p) \X PathsOf(p)

\* Whether a path a register has is its own root, or that of all it is made
\* from, with a step more for a field and for a load.
Follows(p, S, q, u) ==
    \/ u = Base(q)
    \/ p.instr[q].op = "convert" /\ <<p.instr[q].x, u>> \in S
    \/ /\ p.instr[q].op \in {"fieldaddr", "load"}
       /\ \E w \in PathsOf(p) :
             /\ <<p.instr[q].x, w>> \in S
             /\ u.root = w.root
             /\ u.steps = w.steps \o Step(p.instr[q])
             /\ u.loads = (w.loads \/ p.instr[q].op = "load")
    \/ IsPhi(p, q) /\ \A i \in DOMAIN p.instr[q].edges : <<p.instr[q].edges[i], u>> \in S

Traced(p, S) == \A q \in Registers(p), u \in PathsOf(p) : <<q, u>> \in S => Follows(p, S, q, u)

\* The same, but for the phis being visited.
TracedBeside(p, S, V, path) ==
    \A q \in Registers(p), u \in PathsOf(p) :
        <<q, u>> \in S => Follows(p, S, q, u) \/ (q \in V /\ u = path)

\* A path that follows from some traces follows from more.
LEMMA FollowsMore ==
    ASSUME NEW p, NEW S, NEW T, S \subseteq T, NEW q, NEW u, Follows(p, S, q, u)
    PROVE  Follows(p, T, q, u)
  BY DEF Follows

\* Chained registers have one path.
LEMMA ChainTraced ==
    ASSUME NEW p, NEW C \in SUBSET Registers(p), NEW V, Chained(p, C, V), NEW path \in PathsOf(p)
    PROVE  TracedBeside(p, C \X {path}, V, path)
  BY DEF TracedBeside, Chained, Follows

\* The path walk gives a register is one its traces carry, while some phis are visited.
LEMMA Labelled ==
    ASSUME NEW p, InSSA(p), StepsEnd(p.instr),
           NEW r \in Registers(p), NEW V \in SUBSET Registers(p), Leads(p, V, r),
           walk(p.instr)[<<r, V>>].root # NoValue
    PROVE  \E S \in SUBSET Labels(p) :
              /\ <<r, walk(p.instr)[<<r, V>>]>> \in S
              /\ TracedBeside(p, S, V, walk(p.instr)[<<r, V>>])
  <1> DEFINE I == p.instr
             W == walk(I)
             G == Registers(p)
             Label(q, U) == \E S \in SUBSET Labels(p) :
                               <<q, W[<<q, U>>]>> \in S /\ TracedBeside(p, S, U, W[<<q, U>>])
             N == {point \in Points(p) :
                      /\ Leads(p, point[2], point[1]) /\ W[point].root # NoValue
                      /\ ~Label(point[1], point[2])}
  <1> SUFFICES ASSUME <<r, V>> \in N PROVE FALSE
    BY DEF Points
  <1>1. PICK q \in G, U \in SUBSET G :
          /\ <<q, U>> \in N
          /\ Carries(p, q) => <<I[q].x, U>> \notin N
          /\ IsPhi(p, q) /\ q \notin U =>
                \A i \in DOMAIN I[q].edges : <<I[q].edges[i], U \union {q}>> \notin N
    <2>1. N \in SUBSET Points(p) /\ N # {}
      OBVIOUS
    <2> HIDE DEF N
    <2> QED
      BY <2>1, LeastPoint
  <1>2. Leads(p, U, q) /\ W[<<q, U>>].root # NoValue /\ ~Label(q, U)
    BY <1>1
  <1>3. W[<<q, U>>] = walkFrom(I, W, <<q, U>>)
    BY Walked
  <1>4. \A d \in G, D \in SUBSET G : W[<<d, D>>] \in PathsOf(p)
    BY DEF PathsOf, Points
  <1> HIDE DEF W
  <1> DEFINE u == W[<<q, U>>]
  <1>0. u \in PathsOf(p) /\ <<q, u>> \in Labels(p)
    BY <1>4 DEF Labels
  <1>5. ASSUME u = Base(q) PROVE FALSE
    <2>1. TracedBeside(p, {<<q, u>>}, U, u)
      BY <1>5 DEF TracedBeside, Follows
    <2> QED
      BY <1>0, <1>2, <2>1
  <1>6. CASE Carries(p, q)
    <2> DEFINE x == I[q].x
               w == W[<<x, U>>]
    <2>1. x \in G /\ x \in MadeOf(I, q)
      BY <1>6, MadeBefore DEF MadeOf, Carries
    <2>2. /\ u.root = w.root /\ u.steps = w.steps \o Step(I[q])
          /\ u.loads = (w.loads \/ I[q].op = "load")
          /\ u = [root |-> w.root, steps |-> w.steps \o Step(I[q]),
                  loads |-> w.loads \/ I[q].op = "load"]
      <3>1. u = [root |-> w.root, steps |-> w.steps \o Step(I[q]),
                 loads |-> w.loads \/ I[q].op = "load"]
        BY <1>6, Carried DEF W
      <3> HIDE DEF u, w, x
      <3> QED
        BY <3>1, Zenon
    <2>3. Leads(p, U, x)
      BY <1>2, <2>1 DEF Leads, Closed
    <2>4. Label(x, U)
      BY <1>1, <1>2, <1>6, <2>1, <2>2, <2>3 DEF Points
    <2>5. PICK S \in SUBSET Labels(p) : <<x, w>> \in S /\ TracedBeside(p, S, U, w)
      BY <2>4
    <2>6. w \in PathsOf(p)
      BY <1>4, <2>1
    <2>9. w \in PathSet(p)
      BY <2>1, PathTyped DEF W
    <2> HIDE DEF x, w, u
    <2>7. CASE I[q].op = "convert"
      <3>1. w.steps \in Seq(StepSet)
            /\ w = [root |-> w.root, steps |-> w.steps, loads |-> w.loads]
            /\ w.loads \in BOOLEAN
        BY <2>9 DEF PathSet
      <3>2. Step(I[q]) = <<>> /\ I[q].op # "load"
        BY <2>7 DEF Step
      <3>3. w.steps \o Step(I[q]) = w.steps
        BY <3>1, <3>2
      <3>4. (w.loads \/ I[q].op = "load") = w.loads
        BY <3>1, <3>2
      <3>5. u = w
        BY <2>2, <3>1, <3>3, <3>4
      <3> DEFINE T == S \union {<<q, u>>}
      <3>6. Follows(p, T, q, u)
        BY <2>5, <2>7, <3>5 DEF Follows, x
      <3>7. ASSUME NEW d \in G, NEW v \in PathsOf(p), <<d, v>> \in T
            PROVE  Follows(p, T, d, v) \/ (d \in U /\ v = u)
        <4>1. S \subseteq T
          OBVIOUS
        <4>2. CASE <<d, v>> \in S
          BY <2>5, <3>5, <4>1, <4>2, FollowsMore DEF TracedBeside
        <4>3. CASE d = q /\ v = u
          BY <3>6, <4>3
        <4> QED
          BY <3>7, <4>2, <4>3
      <3>8. TracedBeside(p, T, U, u)
        BY <3>7 DEF TracedBeside
      <3> QED
        BY <1>0, <1>2, <3>8 DEF u
    <2>8. CASE I[q].op \in {"fieldaddr", "load"}
      <3>1. PICK D \in SUBSET G : Closed(p, D) /\ x \in D /\ D \intersect U = {}
        BY <1>2, <2>8, StepsLead DEF x
      <3> DEFINE R == {t \in S : t[1] \in D}
                 T == R \union {<<q, u>>}
      <3>2. ASSUME NEW d \in G, NEW v \in PathsOf(p), <<d, v>> \in R
            PROVE  Follows(p, R, d, v)
        <4>1. Follows(p, S, d, v) /\ d \in D
          BY <2>5, <3>1, <3>2 DEF TracedBeside
        <4>2. MadeOf(I, d) \subseteq D
          BY <3>1, <4>1 DEF Closed
        <4> QED
          BY <4>1, <4>2 DEF Follows, MadeOf, IsPhi
      <3>3. Follows(p, T, q, u)
        <4>1. <<x, w>> \in T
          BY <2>5, <3>1
        <4> HIDE DEF T
        <4> QED
          BY <2>2, <2>6, <2>8, <4>1 DEF Follows, x
      <3>4. TracedBeside(p, T, U, u)
        <4>1. R \subseteq T
          OBVIOUS
        <4>2. ASSUME NEW d \in G, NEW v \in PathsOf(p), <<d, v>> \in T
              PROVE  Follows(p, T, d, v)
          BY <3>2, <3>3, <4>1, <4>2, FollowsMore
        <4> QED
          BY <4>2 DEF TracedBeside
      <3> QED
        BY <1>0, <1>2, <3>4 DEF u
    <2> QED
      BY <1>6, <2>7, <2>8 DEF Carries
  <1>7. CASE IsPhi(p, q) /\ q \in U
    <2>1. W[<<q, U>>].root = NoValue
      BY <1>3, <1>7, WalkVisited
    <2> QED
      BY <1>2, <2>1
  <1>8. CASE IsPhi(p, q) /\ q \notin U
    <2>1. Known(p, q, U) = {u}
      BY <1>5, <1>8, PhiWalked DEF W, Base
    <2> DEFINE e(i) == I[q].edges[i]
               D == U \union {q}
    <2>2. /\ DOMAIN I[q].edges = 1..2
          /\ \A i \in DOMAIN I[q].edges : e(i) \in G /\ e(i) \in MadeOf(I, q)
      BY <1>8, MadeBefore DEF MadeOf, IsPhi
    <2>3. ASSUME NEW i \in DOMAIN I[q].edges
          PROVE  \E S \in SUBSET Labels(p) : <<e(i), u>> \in S /\ TracedBeside(p, S, D, u)
      <3>1. Leads(p, D, e(i))
        BY <1>2, <2>2 DEF Leads, Closed
      <3>2. CASE W[<<e(i), D>>].root = NoValue
        <4>1. PICK C \in SUBSET G : e(i) \in C /\ Chained(p, C, D)
          BY <2>2, <3>1, <3>2, BackChains DEF W
        <4>2. TracedBeside(p, C \X {u}, D, u)
          BY <1>0, <4>1, ChainTraced
        <4> QED
          BY <1>0, <4>1, <4>2 DEF Labels
      <3>3. CASE W[<<e(i), D>>].root # NoValue
        <4>1. W[<<e(i), D>>] = u
          BY <2>1, <3>3 DEF Known, W
        <4>2. Label(e(i), D)
          BY <1>1, <1>8, <2>2, <3>1, <3>3 DEF Points
        <4> QED
          BY <4>1, <4>2
      <3> QED
        BY <3>2, <3>3
    <2> DEFINE Found(i) == \E S \in SUBSET Labels(p) : <<e(i), u>> \in S /\ TracedBeside(p, S, D, u)
    <2>4. Found(1) /\ Found(2)
      <3>1. 1 \in DOMAIN I[q].edges /\ 2 \in DOMAIN I[q].edges
        BY <2>2
      <3>2. \A i \in DOMAIN I[q].edges : Found(i)
        BY <2>3
      <3> HIDE DEF Found
      <3> QED
        BY <3>1, <3>2
    <2> HIDE DEF u
    <2>5. PICK S1 \in SUBSET Labels(p) : <<e(1), u>> \in S1 /\ TracedBeside(p, S1, D, u)
      BY <2>4
    <2>6. PICK S2 \in SUBSET Labels(p) : <<e(2), u>> \in S2 /\ TracedBeside(p, S2, D, u)
      BY <2>4
    <2> DEFINE T == S1 \union S2 \union {<<q, u>>}
    <2>7. S1 \subseteq T /\ S2 \subseteq T
      OBVIOUS
    <2>8. Follows(p, T, q, u)
      <3>1. \A i \in DOMAIN I[q].edges : i = 1 \/ i = 2
        BY <2>2
      <3> QED
        BY <1>8, <2>5, <2>6, <3>1 DEF Follows
    <2>9. ASSUME NEW d \in G, NEW v \in PathsOf(p), <<d, v>> \in T
          PROVE  Follows(p, T, d, v) \/ (d \in U /\ v = u)
      <3>1. CASE <<d, v>> \in S1
        BY <2>5, <2>7, <2>8, <3>1, FollowsMore DEF TracedBeside
      <3>2. CASE <<d, v>> \in S2
        BY <2>6, <2>7, <2>8, <3>2, FollowsMore DEF TracedBeside
      <3>3. CASE d = q /\ v = u
        BY <2>8, <3>3
      <3> QED
        BY <2>9, <3>1, <3>2, <3>3
    <2>10. TracedBeside(p, T, U, u)
      BY <2>9 DEF TracedBeside
    <2> QED
      BY <1>0, <1>2, <2>10 DEF u
  <1>9. CASE ~Carries(p, q) /\ ~IsPhi(p, q)
    BY <1>3, <1>5, <1>9, WalkStarts DEF Base
  <1> QED
    BY <1>6, <1>7, <1>8, <1>9


\* All that some traced set says.
TracesOf(p) == {t \in Labels(p) : \E S \in SUBSET Labels(p) : t \in S /\ Traced(p, S)}

\* All traces there are, together, are traced.
LEMMA TracesTraced ==
    ASSUME NEW p
    PROVE  TracesOf(p) \subseteq Labels(p) /\ Traced(p, TracesOf(p))
  <1>1. ASSUME NEW q \in Registers(p), NEW u \in PathsOf(p), <<q, u>> \in TracesOf(p)
        PROVE  Follows(p, TracesOf(p), q, u)
    <2>1. PICK S \in SUBSET Labels(p) : <<q, u>> \in S /\ Traced(p, S)
      BY <1>1 DEF TracesOf
    <2>2. S \subseteq TracesOf(p)
      BY <2>1 DEF TracesOf
    <2>3. Follows(p, S, q, u)
      BY <2>1 DEF Traced
    <2> QED
      BY <2>2, <2>3, FollowsMore
  <1> QED
    BY <1>1 DEF Traced, TracesOf

\* The path of a register is one of them.
LEMMA PathsTraced ==
    ASSUME NEW p, InSSA(p), StepsEnd(p.instr), NEW r \in Registers(p)
    PROVE  <<r, pathOf(p.instr, r)>> \in TracesOf(p)
  <1> DEFINE w == walk(p.instr)[<<r, {}>>]
  <1>1. Leads(p, {}, r)
    BY DEF Leads
  <1>2. w.root # NoValue
    <2>1. SUFFICES ASSUME w.root = NoValue PROVE FALSE
      OBVIOUS
    <2>2. PICK C \in SUBSET Registers(p) : r \in C /\ Chained(p, C, {})
      BY <1>1, <2>1, BackChains
    <2> QED
      BY <2>2, ChainsEnd
  <1>3. PICK S \in SUBSET Labels(p) : <<r, w>> \in S /\ TracedBeside(p, S, {}, w)
    BY <1>1, <1>2, Labelled
  <1>4. Traced(p, S)
    BY <1>3 DEF TracedBeside, Traced
  <1>5. <<r, w>> \in TracesOf(p)
    BY <1>3, <1>4 DEF TracesOf
  <1> QED
    BY <1>5 DEF pathOf

\* A trace is of a register and a path of the function, and follows from traces.
LEMMA TracesTyped ==
    ASSUME NEW p, InSSA(p), NEW q, NEW u, <<q, u>> \in TracesOf(p)
    PROVE  /\ q \in Registers(p) /\ u \in PathsOf(p) /\ u \in PathSet(p)
           /\ Follows(p, TracesOf(p), q, u)
  <1>1. q \in Registers(p) /\ u \in PathsOf(p)
    BY TracesTraced DEF Labels
  <1>2. u \in PathSet(p)
    BY <1>1, PathTyped DEF PathsOf, Points
  <1> QED
    BY <1>1, <1>2, TracesTraced DEF Traced

----------------------------------------------------------------------------
(* The places of registers.                                                *)

\* Every register is at one place of one block.
LEMMA Placed ==
    ASSUME NEW p, InSSA(p)
    PROVE  /\ \A b \in 1..3 : p.blocks[b] \in Seq(Registers(p))
           /\ \A r \in Registers(p) : \E b \in 1..3 : \E i \in DOMAIN p.blocks[b] : p.blocks[b][i] = r
           /\ \A b, c \in 1..3 : \A i \in DOMAIN p.blocks[b], j \in DOMAIN p.blocks[c] :
                 p.blocks[b][i] = p.blocks[c][j] => b = c /\ i = j
  <1>1. p.blocks \in [1..3 -> Seq(Registers(p))]
    BY DEF InSSA, SetOnce, Registers
  <1>2. \A b \in 1..3 : p.blocks[b] \in Seq(Registers(p))
    BY <1>1
  <1>3. \A r \in Registers(p) : \E b \in 1..3 : \E i \in DOMAIN p.blocks[b] : p.blocks[b][i] = r
    BY DEF InSSA, SetOnce, Registers, RegistersOf
  <1>4. \A b, c \in 1..3 : \A i \in DOMAIN p.blocks[b], j \in DOMAIN p.blocks[c] :
           p.blocks[b][i] = p.blocks[c][j] => b = c /\ i = j
    BY DEF InSSA, SetOnce
  <1> QED
    BY <1>2, <1>3, <1>4

\* Coming before passes on.
LEMMA BeforeThrough ==
    ASSUME NEW p, InSSA(p), NEW one, NEW two, NEW three, Before(p, one, two), Before(p, two, three)
    PROVE  Before(p, one, three)
  <1>1. PICK b \in 1..3, c \in 1..3 : \E i \in DOMAIN p.blocks[b], j \in DOMAIN p.blocks[c] :
           p.blocks[b][i] = one /\ p.blocks[c][j] = two /\ (b < c \/ (b = c /\ i < j))
    BY DEF Before
  <1>2. PICK i \in DOMAIN p.blocks[b], j \in DOMAIN p.blocks[c] :
           p.blocks[b][i] = one /\ p.blocks[c][j] = two /\ (b < c \/ (b = c /\ i < j))
    BY <1>1
  <1>3. PICK d \in 1..3, e \in 1..3 : \E k \in DOMAIN p.blocks[d], l \in DOMAIN p.blocks[e] :
           p.blocks[d][k] = two /\ p.blocks[e][l] = three /\ (d < e \/ (d = e /\ k < l))
    BY DEF Before
  <1>4. PICK k \in DOMAIN p.blocks[d], l \in DOMAIN p.blocks[e] :
           p.blocks[d][k] = two /\ p.blocks[e][l] = three /\ (d < e \/ (d = e /\ k < l))
    BY <1>3
  <1>5. c = d /\ j = k
    BY <1>2, <1>4, Placed
  <1>6. ASSUME NEW a \in 1..3, NEW n \in DOMAIN p.blocks[a] PROVE n \in Nat
    <2>1. p.blocks[a] \in Seq(Registers(p))
      BY Placed
    <2> QED
      BY <2>1
  <1>8. i \in Nat /\ j \in Nat /\ l \in Nat
    BY <1>6
  <1>7. b < e \/ (b = e /\ i < l)
    BY <1>2, <1>4, <1>5, <1>8
  <1> QED
    BY <1>2, <1>4, <1>7 DEF Before

\* What comes before is in no later block.
LEMMA BeforeBlock ==
    ASSUME NEW p, InSSA(p), NEW one, NEW other, Before(p, one, other),
           NEW c \in 1..3, other \in RegistersOf(p, c)
    PROVE  \E b \in 1..3 : b <= c /\ one \in RegistersOf(p, b)
  <1>1. PICK b \in 1..3, d \in 1..3 : \E i \in DOMAIN p.blocks[b], j \in DOMAIN p.blocks[d] :
           p.blocks[b][i] = one /\ p.blocks[d][j] = other /\ (b < d \/ (b = d /\ i < j))
    BY DEF Before
  <1>2. PICK i \in DOMAIN p.blocks[b], j \in DOMAIN p.blocks[d] :
           p.blocks[b][i] = one /\ p.blocks[d][j] = other /\ (b < d \/ (b = d /\ i < j))
    BY <1>1
  <1>3. d = c
    BY <1>2, Placed DEF RegistersOf
  <1>4. b <= c
    BY <1>2, <1>3
  <1> QED
    BY <1>2, <1>4 DEF RegistersOf

\* The root of a path is its own register, or one set before.
LEMMA RootBefore ==
    ASSUME NEW p, InSSA(p), NEW q, NEW u, <<q, u>> \in TracesOf(p)
    PROVE  u = Base(q) \/ Before(p, u.root, q)
  <1> DEFINE C == {r \in Registers(p) : \E v \in PathsOf(p) :
                      <<r, v>> \in TracesOf(p) /\ ~(v = Base(r) \/ Before(p, v.root, r))}
  <1> SUFFICES ASSUME C # {} PROVE FALSE
    BY TracesTyped
  <1>1. PICK r \in C : \A d \in C : ~Before(p, d, r)
    <2>1. C \in SUBSET Registers(p)
      OBVIOUS
    <2> HIDE DEF C
    <2> QED
      BY <2>1, LeastRegister
  <1>2. PICK v \in PathsOf(p) : <<r, v>> \in TracesOf(p) /\ ~(v = Base(r) \/ Before(p, v.root, r))
    BY <1>1
  <1>3. Follows(p, TracesOf(p), r, v)
    BY <1>2, TracesTyped
  <1>4. ASSUME NEW x \in Registers(p), NEW w \in PathsOf(p), <<x, w>> \in TracesOf(p),
               w.root = v.root, Before(p, x, r)
        PROVE  FALSE
    <2>1. x \notin C
      BY <1>1, <1>4
    <2>2. w = Base(x) \/ Before(p, w.root, x)
      BY <1>4, <2>1
    <2>3. w.root = x \/ Before(p, w.root, x)
      BY <2>2 DEF Base
    <2> QED
      BY <1>2, <1>4, <2>3, BeforeThrough
  <1> HIDE DEF C
  <1>5. CASE p.instr[r].op = "convert" /\ <<p.instr[r].x, v>> \in TracesOf(p)
    <2>1. Before(p, p.instr[r].x, r) /\ p.instr[r].x \in Registers(p)
      BY <1>5, <1>2, TracesTyped, MadeBefore DEF Carries
    <2> QED
      BY <1>2, <1>4, <1>5, <2>1
  <1>6. CASE /\ p.instr[r].op \in {"fieldaddr", "load"}
             /\ \E w \in PathsOf(p) : <<p.instr[r].x, w>> \in TracesOf(p) /\ v.root = w.root
    <2>1. Before(p, p.instr[r].x, r) /\ p.instr[r].x \in Registers(p)
      BY <1>6, <1>2, TracesTyped, MadeBefore DEF Carries
    <2> QED
      BY <1>4, <1>6, <2>1
  <1>7. CASE IsPhi(p, r) /\ \A i \in DOMAIN p.instr[r].edges :
                                <<p.instr[r].edges[i], v>> \in TracesOf(p)
    <2>1. Before(p, p.instr[r].edges[1], r) /\ 1 \in DOMAIN p.instr[r].edges
      BY <1>7, <1>2, TracesTyped, MadeBefore
    <2>2. p.instr[r].edges[1] \in Registers(p)
      BY <1>7, <2>1, TracesTyped
    <2> QED
      BY <1>2, <1>4, <1>7, <2>1, <2>2
  <1> QED
    BY <1>2, <1>3, <1>5, <1>6, <1>7 DEF Follows

\* A load is a step.
LEMMA LoadSteps ==
    ASSUME NEW p, InSSA(p), NEW q, NEW u, <<q, u>> \in TracesOf(p), u.steps = <<>>
    PROVE  ~u.loads
  <1> DEFINE Bad(v) == v.steps = <<>> /\ v.loads
             C == {r \in Registers(p) : \E v \in PathsOf(p) : <<r, v>> \in TracesOf(p) /\ Bad(v)}
  <1> SUFFICES ASSUME C # {} PROVE FALSE
    BY TracesTyped
  <1>1. PICK r \in C : \A d \in C : ~Before(p, d, r)
    <2>1. C \in SUBSET Registers(p)
      OBVIOUS
    <2> HIDE DEF C
    <2> QED
      BY <2>1, LeastRegister
  <1>2. PICK v \in PathsOf(p) : <<r, v>> \in TracesOf(p) /\ Bad(v)
    BY <1>1
  <1>3. Follows(p, TracesOf(p), r, v)
    BY <1>2, TracesTyped
  <1>4. ASSUME NEW x \in Registers(p), <<x, v>> \in TracesOf(p), Before(p, x, r)
        PROVE  FALSE
    BY <1>1, <1>2, <1>4
  <1>5. v # Base(r)
    BY <1>2, BaseParts
  <1> HIDE DEF C
  <1>6. CASE p.instr[r].op = "convert" /\ <<p.instr[r].x, v>> \in TracesOf(p)
    <2>1. Before(p, p.instr[r].x, r) /\ p.instr[r].x \in Registers(p)
      BY <1>6, <1>2, TracesTyped, MadeBefore DEF Carries
    <2> QED
      BY <1>4, <1>6, <2>1
  <1>7. CASE /\ p.instr[r].op \in {"fieldaddr", "load"}
             /\ \E w \in PathsOf(p) : <<p.instr[r].x, w>> \in TracesOf(p)
                                      /\ v.steps = w.steps \o Step(p.instr[r])
    <2>1. PICK w \in PathsOf(p) : <<p.instr[r].x, w>> \in TracesOf(p)
                                  /\ v.steps = w.steps \o Step(p.instr[r])
      BY <1>7
    <2>2. w.steps \in Seq(StepSet)
      BY <2>1, TracesTyped DEF PathSet
    <2>3. Step(p.instr[r]) \in Seq(StepSet) /\ Len(Step(p.instr[r])) = 1
      BY <1>2, <1>7, TracesTyped, Steps
    <2>4. Len(v.steps) = Len(w.steps) + 1 /\ Len(w.steps) \in Nat
      BY <2>1, <2>2, <2>3, OneLonger
    <2>5. v.steps = <<>>
      BY <1>2
    <2>6. Len(v.steps) = 0
      BY <2>5
    <2> QED
      BY <2>4, <2>6
  <1>8. CASE IsPhi(p, r) /\ \A i \in DOMAIN p.instr[r].edges :
                                <<p.instr[r].edges[i], v>> \in TracesOf(p)
    <2>1. Before(p, p.instr[r].edges[1], r) /\ 1 \in DOMAIN p.instr[r].edges
      BY <1>8, <1>2, TracesTyped, MadeBefore
    <2>2. p.instr[r].edges[1] \in Registers(p)
      BY <1>8, <2>1, TracesTyped
    <2> QED
      BY <1>4, <1>8, <2>1, <2>2
  <1> QED
    BY <1>3, <1>5, <1>6, <1>7, <1>8 DEF Follows


----------------------------------------------------------------------------
(* The run: its types, and the order registers are set in.                 *)

R == Registers(program)

Value == Int \X Seq(STRING)

Preset(r) == Op(r) \in {"param", "const"}

Maker(r) == Op(r) \in {"alloc", "makemap", "closure", "trigger"}

\* A value the run may meet.
There(v) == v \in Value /\ v[1] < objects /\ v[1] # Unset[1]

StateInv ==
    /\ program \in Programs
    /\ paths = [register \in R |-> pathOf(program.instr, register)]
    /\ at \in (1..3) \X (Nat \ {0})
    /\ value \in [R -> Value]
    /\ seen \in [R -> SUBSET (0..writes)]
    /\ held \in [R -> SUBSET Value]
    /\ writes \in Nat
    /\ objects \in Nat \ {0}
    /\ \A r \in R : value[r] # Unset => value[r] \in held[r]

\* Registers and memory hold what the run may meet, at such addresses.
ThingsInv ==
    /\ \A r \in R : \A v \in held[r] : v = Unset \/ There(v)
    /\ \A address \in DOMAIN heap : There(address) /\ There(heap[address])

\* The run is past the register.
Passed(r) ==
    \E b \in 1..3 : \E i \in DOMAIN program.blocks[b] :
        program.blocks[b][i] = r /\ (b < at[1] \/ (b = at[1] /\ i < at[2]))

\* What the run is past is set, and nothing else but parameters and constants.
OrderInv ==
    \A r \in ValuesOf(program) :
        /\ Passed(r) => value[r] # Unset
        /\ value[r] # Unset => Passed(r) \/ Preset(r)

BasicInv == StateInv /\ ThingsInv /\ OrderInv

\* An object and its fields are a value.
LEMMA Valued ==
    ASSUME NEW n \in Int, NEW fields \in Seq(STRING)
    PROVE  <<n, fields>> \in Value /\ <<n, fields>>[1] = n /\ <<n, fields>>[2] = fields
  BY DEF Value

\* So is an object.
LEMMA Alone ==
    ASSUME NEW n \in Int
    PROVE  <<n, <<>>>> \in Value
  <1>1. <<>> \in Seq(STRING)
    OBVIOUS
  <1> QED
    BY <1>1, Valued

\* The two values that are no object.
LEMMA Constants ==
    /\ Unset \in Value /\ Nothing \in Value /\ Nothing # Unset
    /\ Unset[1] = -2 /\ Nothing[1] = -1
  <1>1. -2 \in Int /\ -1 \in Int /\ -1 # -2
    OBVIOUS
  <1>3. Unset \in Value
    BY <1>1, Alone DEF Unset
  <1>4. Nothing \in Value
    BY <1>1, Alone DEF Nothing
  <1>5. Unset[1] = -2
    BY DEF Unset
  <1>6. Nothing[1] = -1
    BY DEF Nothing
  <1> QED
    BY <1>1, <1>3, <1>4, <1>5, <1>6

\* The object of a value is a number.
LEMMA Numbers == \A v \in Value : v[1] \in Int
  BY DEF Value

\* The function is one go/ssa builds.
LEMMA Programmed ==
    ASSUME StateInv
    PROVE  InSSA(program)
  BY FunctionsAssumption DEF StateInv

\* The instruction the run is at.
LEMMA Reached ==
    ASSUME StateInv, Running
    PROVE  /\ at[1] \in 1..3 /\ at[2] \in DOMAIN program.blocks[at[1]]
           /\ program.blocks[at[1]][at[2]] = Current /\ Current \in R
  <1>1. program.blocks[at[1]] \in Seq(R) /\ at[1] \in 1..3 /\ at[2] \in Nat \ {0}
    BY Programmed, Placed DEF StateInv, R
  <1>2. at[2] \in 1..Len(program.blocks[at[1]])
    BY <1>1 DEF Running, Block
  <1> QED
    BY <1>1, <1>2 DEF Current, Block

\* Its operands are set.
LEMMA OperandsThere ==
    ASSUME BasicInv, Running, NEW x \in Operands(Instruction)
    PROVE  /\ x \in R /\ x \in ValuesOf(program) /\ x # Current
           /\ value[x] # Unset /\ There(value[x]) /\ value[x] \in held[x]
  <1>1. InSSA(program) /\ Current \in R
    BY Programmed, Reached DEF BasicInv
  <1>2. x \in ValuesOf(program) /\ Before(program, x, Current)
    BY <1>1 DEF InSSA, OperandsSet, Instruction, R, Registers
  <1>3. PICK b \in 1..3, c \in 1..3 :
           \E i \in DOMAIN program.blocks[b], j \in DOMAIN program.blocks[c] :
              /\ program.blocks[b][i] = x /\ program.blocks[c][j] = Current
              /\ b < c \/ (b = c /\ i < j)
    BY <1>2 DEF Before
  <1>4. PICK i \in DOMAIN program.blocks[b], j \in DOMAIN program.blocks[c] :
              /\ program.blocks[b][i] = x /\ program.blocks[c][j] = Current
              /\ b < c \/ (b = c /\ i < j)
    BY <1>3
  <1>5. c = at[1] /\ j = at[2]
    <2>1. /\ at[1] \in 1..3 /\ at[2] \in DOMAIN program.blocks[at[1]]
          /\ program.blocks[at[1]][at[2]] = Current
      BY Reached DEF BasicInv
    <2>2. \A d, e \in 1..3 : \A k \in DOMAIN program.blocks[d], l \in DOMAIN program.blocks[e] :
             program.blocks[d][k] = program.blocks[e][l] => d = e /\ k = l
      BY <1>1, Placed
    <2>3. /\ c \in 1..3 /\ j \in DOMAIN program.blocks[c]
          /\ program.blocks[c][j] = program.blocks[at[1]][at[2]]
      BY <1>4, <2>1
    <2> QED
      BY <2>1, <2>2, <2>3
  <1>6. Passed(x)
    BY <1>4, <1>5 DEF Passed
  <1>7. x # Current
    <2>1. SUFFICES ASSUME x = Current PROVE FALSE
      OBVIOUS
    <2>2. b = c /\ i = j
      BY <1>1, <1>4, <2>1, Placed
    <2>3. i \in Nat
      <3>1. program.blocks[b] \in Seq(R)
        BY <1>1, Placed DEF R
      <3> QED
        BY <3>1
    <2> QED
      BY <1>4, <2>2, <2>3
  <1>8. x \in R
    BY <1>2 DEF ValuesOf, R, Registers
  <1> QED
    BY <1>2, <1>6, <1>7, <1>8 DEF BasicInv, OrderInv, StateInv, ThingsInv

\* Nothing the run is at or is still to come is set.
LEMMA CurrentUnset ==
    ASSUME BasicInv, Running, Current \in ValuesOf(program), ~Preset(Current)
    PROVE  value[Current] = Unset
  <1>1. ~Passed(Current)
    <2>1. SUFFICES ASSUME Passed(Current) PROVE FALSE
      OBVIOUS
    <2>2. PICK b \in 1..3 : \E i \in DOMAIN program.blocks[b] :
             program.blocks[b][i] = Current /\ (b < at[1] \/ (b = at[1] /\ i < at[2]))
      BY <2>1 DEF Passed
    <2>3. PICK i \in DOMAIN program.blocks[b] :
             program.blocks[b][i] = Current /\ (b < at[1] \/ (b = at[1] /\ i < at[2]))
      BY <2>2
    <2>4. b = at[1] /\ i = at[2]
      BY <2>3, Programmed, Reached, Placed DEF BasicInv
    <2>5. at[1] \in 1..3 /\ at[2] \in Nat
      BY DEF BasicInv, StateInv
    <2> QED
      BY <2>3, <2>4, <2>5
  <1> QED
    BY <1>1 DEF BasicInv, OrderInv

\* Everything of a block that is over is set.
LEMMA BlockPassed ==
    ASSUME StateInv, ~Running, NEW b \in 1..3, b <= at[1], NEW r \in RegistersOf(program, b)
    PROVE  Passed(r)
  <1>1. PICK i \in DOMAIN program.blocks[b] : program.blocks[b][i] = r
    BY DEF RegistersOf
  <1>2. at[1] \in 1..3 /\ at[2] \in Nat
    BY DEF StateInv
  <1>3. CASE b < at[1]
    BY <1>1, <1>3 DEF Passed
  <1>4. CASE b = at[1]
    <2>1. program.blocks[b] \in Seq(R)
      BY Programmed, Placed DEF R
    <2>2. i \in 1..Len(program.blocks[b])
      BY <2>1
    <2>3. ~(at[2] <= Len(program.blocks[b]))
      BY <1>4 DEF Running, Block
    <2>4. i < at[2]
      BY <1>2, <2>1, <2>2, <2>3
    <2> QED
      BY <1>1, <1>4, <2>4 DEF Passed
  <1> QED
    BY <1>2, <1>3, <1>4

\* What is set when a block is entered: the edge taken comes from there.
Entering(block, edge) ==
    \/ block = 2 /\ at[1] = 1 /\ edge = 1
    \/ block = 2 /\ at[1] = 3 /\ edge = 2
    \/ block = 3 /\ at[1] = 2 /\ edge \in 1..2

\* The values the phis of a block take are set when it is entered.
LEMMA EdgesThere ==
    ASSUME BasicInv, ~Running, NEW b, NEW edge, Entering(b, edge), NEW phi \in PhisOf(program, b)
    PROVE  /\ phi \in R /\ Op(phi) = "phi"
           /\ DOMAIN program.instr[phi].edges = 1..2 /\ edge \in 1..2
           /\ program.instr[phi].edges[edge] \in R
           /\ program.instr[phi].edges[edge] \in ValuesOf(program)
           /\ value[program.instr[phi].edges[edge]] # Unset
           /\ There(value[program.instr[phi].edges[edge]])
           /\ value[program.instr[phi].edges[edge]] \in held[program.instr[phi].edges[edge]]
  <1> DEFINE e == program.instr[phi].edges[edge]
  <1>1. b \in 2..3 /\ edge \in 1..2 /\ at[1] \in 1..3
    BY DEF Entering, BasicInv, StateInv
  <1>2. InSSA(program)
    BY Programmed DEF BasicInv
  <1>3. /\ DOMAIN program.instr[phi].edges = 1..2
        /\ program.instr[phi].edges[1] \in ValuesOf(program)
        /\ program.instr[phi].edges[2] \in ValuesOf(program)
        /\ b = 2 => program.instr[phi].edges[1] \in RegistersOf(program, 1)
        /\ b = 3 => /\ program.instr[phi].edges[1] \in RegistersOf(program, 1) \union RegistersOf(program, 2)
                    /\ program.instr[phi].edges[2] \in RegistersOf(program, 1) \union RegistersOf(program, 2)
    BY <1>1, <1>2 DEF InSSA, EdgesSet
  <1>4. edge = 1 \/ edge = 2
    BY <1>1
  <1>5. e \in ValuesOf(program) /\ e \in R
    BY <1>3, <1>4 DEF ValuesOf, R, Registers
  <1>6. \E c \in 1..3 : c <= at[1] /\ e \in RegistersOf(program, c)
    <2>1. CASE b = 2 /\ at[1] = 1 /\ edge = 1
      BY <1>3, <2>1
    <2>2. CASE b = 2 /\ at[1] = 3 /\ edge = 2
      <3>1. \E c \in 1..3 : e \in RegistersOf(program, c)
        <4> HIDE DEF e
        <4>1. PICK c \in 1..3 : \E i \in DOMAIN program.blocks[c] : program.blocks[c][i] = e
          BY <1>2, <1>5, Placed DEF R
        <4> QED
          BY <4>1 DEF RegistersOf
      <3>2. \A c \in 1..3 : c <= 3
        OBVIOUS
      <3> QED
        BY <2>2, <3>1, <3>2
    <2>3. CASE b = 3 /\ at[1] = 2
      <3>1. e \in RegistersOf(program, 1) \/ e \in RegistersOf(program, 2)
        BY <1>3, <1>4, <2>3
      <3> QED
        BY <2>3, <3>1
    <2> QED
      BY <2>1, <2>2, <2>3 DEF Entering
  <1>7. Passed(e)
    BY <1>6, BlockPassed DEF BasicInv
  <1>8. value[e] # Unset /\ value[e] \in held[e] /\ There(value[e])
    BY <1>5, <1>7 DEF BasicInv, OrderInv, StateInv, ThingsInv
  <1>9. phi \in R /\ Op(phi) = "phi"
    <2>1. \E c \in 1..3 : c = b
      BY <1>1
    <2>2. RegistersOf(program, b) \subseteq R
      BY <1>1, <1>2 DEF InSSA, SetOnce, R, Registers
    <2> QED
      BY <2>2 DEF PhisOf, Op
  <1> HIDE DEF e
  <1> QED
    BY <1>1, <1>3, <1>5, <1>8, <1>9 DEF e

----------------------------------------------------------------------------
(* What a step sets, and what it writes.                                   *)

\* Where a value a register comes to hold is from.
Origin(r, v) ==
    LET x == program.instr[r].x
        edges == program.instr[r].edges
    IN  \/ Maker(r) /\ r = Current /\ v = <<objects, <<>>>> /\ objects' = objects + 1
        \/ Op(r) = "convert" /\ x \in R /\ v = value[x]
        \/ /\ Op(r) = "fieldaddr" /\ x \in R /\ value[x] \notin {Nothing, Unset}
           /\ v = <<value[x][1], Append(value[x][2], program.instr[r].field)>>
        \/ /\ Op(r) = "load" /\ x \in R /\ value[x] # Unset
           /\ v = Nothing \/ (value[x] \in DOMAIN heap /\ v = heap[value[x]])
        \/ Op(r) = "lookup" /\ (v = Nothing \/ \E a \in DOMAIN heap : v = heap[a])
        \/ Op(r) = "phi" /\ \E i \in DOMAIN edges : edges[i] \in R /\ v = value[edges[i]]

\* Where what memory holds at an address is from.
Wrote(a) ==
    \/ a \in DOMAIN heap /\ (heap'[a] = heap[a] \/ heap'[a] = Nothing)
    \/ a \in DOMAIN heap /\ Reachable(a) /\ \E b \in DOMAIN heap : heap'[a] = heap[b]
    \/ \E q \in R :
          LET instruction == program.instr[q]
          IN  /\ Op(q) = "copy" /\ instruction.x \in R /\ value[instruction.x] # Unset
              /\ a[1] = value[instruction.x][1]
              /\ heap'[a] = Nothing \/ \E b \in DOMAIN heap : heap'[a] = heap[b]
    \/ \E q \in R :
          LET instruction == program.instr[q]
          IN  /\ instruction.x \in R /\ instruction.y \in R
              /\ value[instruction.x] # Unset /\ value[instruction.y] # Unset
              /\ heap'[a] = value[instruction.y]
              /\ \/ Op(q) = "store" /\ a = value[instruction.x]
                 \/ /\ Op(q) = "mapupdate" /\ instruction.key \in R
                    /\ value[instruction.key] # Unset
                    /\ a = <<value[instruction.x][1], value[instruction.key][2]>>

\* What a step of the run may do to what registers held and memory holds.
Moves ==
    /\ program' = program /\ paths' = paths
    /\ objects' = objects \/ objects' = objects + 1
    /\ \A r \in R : \A v \in held[r] : v \in held'[r]
    /\ \A r \in R : \A v \in held'[r] : v \in held[r] \/ Origin(r, v)
    /\ \A a \in DOMAIN heap' : Wrote(a)

\* The instruction that sets a register, or holds none.
LEMMA Setting ==
    ASSUME StateInv, NEW q \in R, NEW v \in Value, NEW times \in SUBSET (0..writes),
           Sets(q, v, times)
    PROVE  /\ value' \in [R -> Value] /\ seen' \in [R -> SUBSET (0..writes)]
           /\ held' \in [R -> SUBSET Value]
           /\ value'[q] = v /\ seen'[q] = times /\ held'[q] = held[q] \union {v}
           /\ \A r \in R \ {q} : value'[r] = value[r] /\ seen'[r] = seen[r] /\ held'[r] = held[r]
           /\ \A r \in R : value'[r] # Unset => value'[r] \in held'[r]
  BY DEF StateInv, Sets

\* The operands of an instruction.
LEMMA OperandsOf ==
    ASSUME StateInv, Running
    PROVE  /\ Instruction = program.instr[Current] /\ Op(Current) = Instruction.op
           /\ Instruction.op \in {"fieldaddr", "load", "convert", "lookup", "store", "copy", "mapupdate"} =>
                 Instruction.x \in Operands(Instruction)
           /\ Instruction.op \in {"store", "copy", "mapupdate"} => Instruction.y \in Operands(Instruction)
           /\ Instruction.op \in {"lookup", "mapupdate"} => Instruction.key \in Operands(Instruction)
           /\ Instruction.field \in STRING
  <1>1. InSSA(program) /\ Current \in Registers(program)
    BY Programmed, Reached DEF R
  <1>2. NoValue \notin Needed(Instruction) /\ Instruction.field \in STRING
    BY <1>1 DEF InSSA, OperandsSet, Instruction, Registers
  <1>3. Instruction.op \in {"fieldaddr", "load", "convert", "lookup", "store", "copy", "mapupdate"} =>
           Instruction.x # NoValue
    BY <1>2 DEF Needed
  <1>4. Instruction.op \in {"store", "copy", "mapupdate"} => Instruction.y # NoValue
    BY <1>2 DEF Needed
  <1>5. Instruction.op \in {"lookup", "mapupdate"} => Instruction.key # NoValue
    BY <1>2 DEF Needed
  <1> QED
    BY <1>2, <1>3, <1>4, <1>5 DEF Instruction, Op, Operands

\* How far the run is, after an instruction.
LEMMA Advanced ==
    ASSUME BasicInv, Running, Advance, program' = program
    PROVE  /\ at' \in (1..3) \X (Nat \ {0})
           /\ \A r \in R : Passed(r)' <=> Passed(r) \/ r = Current
  <1>1. at[1] \in 1..3 /\ at[2] \in Nat \ {0} /\ at' = <<at[1], at[2] + 1>>
    BY DEF BasicInv, StateInv, Advance
  <1>2. at' \in (1..3) \X (Nat \ {0}) /\ at'[1] = at[1] /\ at'[2] = at[2] + 1
    BY <1>1
  <1>3. \A b \in 1..3 : \A i \in DOMAIN program.blocks[b] : i \in Nat
    <2>1. \A b \in 1..3 : program.blocks[b] \in Seq(R)
      BY Programmed, Placed DEF BasicInv, R
    <2> QED
      BY <2>1
  <1>4. ASSUME NEW r \in R, Passed(r)'
        PROVE  Passed(r) \/ r = Current
    <2>1. PICK b \in 1..3 : \E i \in DOMAIN program.blocks[b] :
             program.blocks[b][i] = r /\ (b < at'[1] \/ (b = at'[1] /\ i < at'[2]))
      BY <1>4 DEF Passed
    <2>2. PICK i \in DOMAIN program.blocks[b] :
             program.blocks[b][i] = r /\ (b < at'[1] \/ (b = at'[1] /\ i < at'[2]))
      BY <2>1
    <2>3. i \in Nat
      BY <1>3
    <2>4. \/ b < at[1] \/ (b = at[1] /\ i < at[2])
          \/ b = at[1] /\ i = at[2]
      BY <1>1, <1>2, <2>2, <2>3
    <2> QED
      BY <2>2, <2>4, Reached DEF Passed, BasicInv
  <1>5. ASSUME NEW r \in R, Passed(r)
        PROVE  Passed(r)'
    <2>1. PICK b \in 1..3 : \E i \in DOMAIN program.blocks[b] :
             program.blocks[b][i] = r /\ (b < at[1] \/ (b = at[1] /\ i < at[2]))
      BY <1>5 DEF Passed
    <2>2. PICK i \in DOMAIN program.blocks[b] :
             program.blocks[b][i] = r /\ (b < at[1] \/ (b = at[1] /\ i < at[2]))
      BY <2>1
    <2>3. i \in Nat
      BY <1>3
    <2>4. b < at'[1] \/ (b = at'[1] /\ i < at'[2])
      BY <1>1, <1>2, <2>2, <2>3
    <2> QED
      BY <2>2, <2>4 DEF Passed
  <1>6. ASSUME NEW r \in R, r = Current
        PROVE  Passed(r)'
    <2>1. at[2] \in DOMAIN program.blocks[at[1]] /\ program.blocks[at[1]][at[2]] = r
      BY <1>6, Reached DEF BasicInv
    <2>2. at[1] = at'[1] /\ at[2] < at'[2]
      BY <1>1, <1>2
    <2> DEFINE b == at[1]
               i == at[2]
    <2>3. b \in 1..3 /\ i \in DOMAIN program.blocks[b] /\ program.blocks[b][i] = r
          /\ b = at'[1] /\ i < at'[2]
      BY <1>1, <2>1, <2>2
    <2> HIDE DEF b, i
    <2>4. \E c \in 1..3 : \E j \in DOMAIN program'.blocks[c] :
             program'.blocks[c][j] = r /\ (c < at'[1] \/ (c = at'[1] /\ j < at'[2]))
      BY <2>3
    <2> QED
      BY <2>4 DEF Passed
  <1> QED
    BY <1>2, <1>4, <1>5, <1>6


\* The frame of an instruction that sets one register.
SetsOne(q, v, times) ==
    /\ Running /\ Advance /\ q = Current /\ Sets(q, v, times)
    /\ program' = program /\ paths' = paths /\ heap' = heap /\ writes' = writes
    /\ objects' = objects \/ objects' = objects + 1
    /\ v \in Value /\ v[1] < objects' /\ v[1] # Unset[1]
    /\ times \in SUBSET (0..writes)
    /\ q \in ValuesOf(program) /\ Origin(q, v)

\* An instruction that sets one register keeps the types, and moves as one may.
LEMMA SetsOneStep ==
    ASSUME BasicInv, NEW q, NEW v, NEW times, SetsOne(q, v, times)
    PROVE  BasicInv' /\ Moves
  <1>1. q = Current /\ q \in R /\ v \in Value /\ times \in SUBSET (0..writes) /\ Sets(q, v, times)
        /\ v # Unset
    BY Reached DEF SetsOne, BasicInv
  <1>2. /\ value' \in [R -> Value] /\ seen' \in [R -> SUBSET (0..writes)]
        /\ held' \in [R -> SUBSET Value]
        /\ value'[q] = v /\ seen'[q] = times /\ held'[q] = held[q] \union {v}
        /\ \A r \in R \ {q} : value'[r] = value[r] /\ seen'[r] = seen[r] /\ held'[r] = held[r]
        /\ \A r \in R : value'[r] # Unset => value'[r] \in held'[r]
    BY <1>1, Setting DEF BasicInv
  <1>3. R' = R /\ program' = program /\ paths' = paths /\ heap' = heap /\ writes' = writes
    BY DEF SetsOne, R
  <1>4. objects \in Nat \ {0} /\ objects' \in Nat \ {0} /\ objects <= objects'
    BY DEF SetsOne, BasicInv, StateInv
  <1>5. at' \in (1..3) \X (Nat \ {0}) /\ \A r \in R : Passed(r)' <=> Passed(r) \/ r = Current
    BY Advanced DEF SetsOne
  <1>6. StateInv'
    BY <1>2, <1>3, <1>4, <1>5 DEF BasicInv, StateInv
  <1>7. \A w : There(w) => There(w)'
    BY <1>4, Numbers DEF There
  <1>8. There(v)'
    BY DEF SetsOne, There
  <1>9. ThingsInv'
    <2>1. ASSUME NEW r \in R, NEW w \in held'[r]
          PROVE  w = Unset \/ There(w)'
      <3>1. w \in held[r] \/ w = v
        BY <1>2
      <3> QED
        BY <1>7, <1>8, <3>1 DEF BasicInv, ThingsInv
    <2>2. \A address \in DOMAIN heap' : There(address)' /\ There(heap[address])'
      <3>1. \A address \in DOMAIN heap : There(address) /\ There(heap[address])
        BY DEF BasicInv, ThingsInv
      <3> QED
        BY <1>3, <1>7, <3>1
    <2> QED
      BY <1>3, <2>1, <2>2 DEF ThingsInv
  <1>10. OrderInv'
    <2>1. ASSUME NEW r \in ValuesOf(program)
          PROVE  /\ Passed(r)' => value'[r] # Unset
                 /\ value'[r] # Unset => Passed(r)' \/ Preset(r)'
      <3>1. r \in R /\ (Preset(r)' <=> Preset(r))
        BY <1>3 DEF ValuesOf, R, Registers, Preset, Op
      <3>2. CASE r = q
        BY <1>1, <1>2, <1>5, <3>1, <3>2
      <3>3. CASE r # q
        BY <1>1, <1>2, <1>5, <3>1, <3>3 DEF BasicInv, OrderInv
      <3> QED
        BY <3>2, <3>3
    <2> QED
      BY <1>3, <2>1 DEF OrderInv
  <1>11. Moves
    <2>1. \A r \in R : \A w \in held[r] : w \in held'[r]
      BY <1>2
    <2>2. \A r \in R : \A w \in held'[r] : w \in held[r] \/ Origin(r, w)
      BY <1>2 DEF SetsOne
    <2>3. \A a \in DOMAIN heap' : Wrote(a)
      BY <1>3 DEF Wrote
    <2>4. objects' = objects \/ objects' = objects + 1
      BY DEF SetsOne
    <2> QED
      BY <1>3, <2>1, <2>2, <2>3, <2>4 DEF Moves
  <1> QED
    BY <1>6, <1>9, <1>10, <1>11 DEF BasicInv

\* The frame of an instruction that sets none.
SetsNone ==
    /\ Running /\ Advance
    /\ program' = program /\ paths' = paths /\ objects' = objects
    /\ value' = value /\ seen' = seen /\ held' = held
    /\ writes' = writes \/ writes' = writes + 1
    /\ \A a \in DOMAIN heap' : There(a) /\ There(heap'[a]) /\ Wrote(a)
    /\ Current \in ValuesOf(program) => Preset(Current)

\* Parameters and constants hold what they were given.
GivenInv ==
    \A r \in R : Preset(r) => value[r] # Unset /\ \A v \in held[r] : Old(v)

\* So does one that sets none.
LEMMA SetsNoneStep ==
    ASSUME BasicInv, GivenInv, SetsNone
    PROVE  BasicInv' /\ Moves
  <1>1. R' = R /\ program' = program /\ paths' = paths /\ objects' = objects
        /\ value' = value /\ seen' = seen /\ held' = held
    BY DEF SetsNone, R
  <1>2. at' \in (1..3) \X (Nat \ {0}) /\ \A r \in R : Passed(r)' <=> Passed(r) \/ r = Current
    BY Advanced DEF SetsNone
  <1>3. writes \in Nat /\ writes' \in Nat /\ writes <= writes'
    BY DEF SetsNone, BasicInv, StateInv
  <1>4. seen' \in [R -> SUBSET (0..writes')]
    <2>1. 0..writes \subseteq 0..writes'
      BY <1>3
    <2>2. seen \in [R -> SUBSET (0..writes)]
      BY DEF BasicInv, StateInv
    <2> QED
      BY <1>1, <2>1, <2>2
  <1>5. StateInv'
    BY <1>1, <1>2, <1>3, <1>4 DEF BasicInv, StateInv
  <1>6. \A w : There(w)' <=> There(w)
    BY <1>1 DEF There
  <1>7. ThingsInv'
    <2>1. \A r \in R : \A w \in held[r] : w = Unset \/ There(w)
      BY DEF BasicInv, ThingsInv
    <2>2. \A a \in DOMAIN heap' : There(a) /\ There(heap'[a])
      BY DEF SetsNone
    <2> QED
      BY <1>1, <1>6, <2>1, <2>2 DEF ThingsInv
  <1>8. OrderInv'
    <2>1. ASSUME NEW r \in ValuesOf(program)
          PROVE  /\ Passed(r)' => value'[r] # Unset
                 /\ value'[r] # Unset => Passed(r)' \/ Preset(r)'
      <3>1. r \in R /\ (Preset(r)' <=> Preset(r))
        BY <1>1 DEF ValuesOf, R, Registers, Preset, Op
      <3>2. r = Current => value[r] # Unset
        BY <3>1 DEF SetsNone, GivenInv
      <3> QED
        BY <1>1, <1>2, <3>1, <3>2 DEF BasicInv, OrderInv
    <2> QED
      BY <1>1, <2>1 DEF OrderInv
  <1>9. Moves
    BY <1>1 DEF Moves, SetsNone
  <1> QED
    BY <1>5, <1>7, <1>8, <1>9 DEF BasicInv


\* The registers a block is entered with: its phis, and what comes before.
Behind(block) ==
    RegistersOf(program, 1) \union (IF block = 3 THEN RegistersOf(program, 2) ELSE {})

\* The frame of entering a block.
Enters(block, edge) ==
    /\ ~Running /\ Entering(block, edge) /\ Enter(block, edge)
    /\ program' = program /\ paths' = paths /\ heap' = heap /\ writes' = writes
    /\ objects' = objects

\* What entering a block leaves the registers with.
LEMMA Entered ==
    ASSUME BasicInv, NEW b, NEW edge, Enters(b, edge)
    PROVE  /\ b \in {2, 3} /\ b \in 1..3 /\ InSSA(program)
           /\ PhisOf(program, b) \subseteq R /\ Behind(b) \subseteq R
           /\ PhisOf(program, b) \intersect Behind(b) = {}
           /\ \A r \in PhisOf(program, b) :
                 /\ value'[r] = value[program.instr[r].edges[edge]]
                 /\ seen'[r] = seen[program.instr[r].edges[edge]]
                 /\ held'[r] = held[r] \union {value[program.instr[r].edges[edge]]}
           /\ \A r \in R \ PhisOf(program, b) : seen'[r] = seen[r] /\ held'[r] = held[r]
           /\ \A r \in Behind(b) : value'[r] = value[r]
           /\ \A r \in R : r \notin PhisOf(program, b) /\ r \notin Behind(b) => value'[r] = Unset
           /\ DOMAIN value' = R /\ DOMAIN seen' = R /\ DOMAIN held' = R
           /\ value' = [r \in R |-> value'[r]] /\ seen' = [r \in R |-> seen'[r]]
           /\ held' = [r \in R |-> held'[r]]
           /\ \A r \in R : Passed(r)' <=> r \in PhisOf(program, b) \union Behind(b)
           /\ at' \in (1..3) \X (Nat \ {0})
           /\ \A r \in Behind(b) : Passed(r)
  <1> DEFINE phis == PhisOf(program, b)
             kept == Behind(b)
             taken(r) == program.instr[r].edges[edge]
  <1>1. b \in {2, 3} /\ b \in 1..3 /\ InSSA(program)
    BY Programmed DEF Enters, Entering, BasicInv
  <1>2. \A c \in 1..3 : RegistersOf(program, c) \subseteq R
    BY <1>1 DEF InSSA, SetOnce, R, Registers
  <1>3. 1 \in 1..3 /\ 2 \in 1..3
    OBVIOUS
  <1>4. phis \subseteq R /\ phis \subseteq RegistersOf(program, b)
    BY <1>1, <1>2 DEF PhisOf
  <1>5. kept \subseteq R
    BY <1>2, <1>3 DEF Behind
  <1>6. \A c, d \in 1..3 : c # d => RegistersOf(program, c) \intersect RegistersOf(program, d) = {}
    BY <1>1, Placed DEF RegistersOf
  <1>7. phis \intersect kept = {}
    <2>1. RegistersOf(program, b) \intersect RegistersOf(program, 1) = {}
      BY <1>1, <1>3, <1>6
    <2>2. b = 3 => RegistersOf(program, b) \intersect RegistersOf(program, 2) = {}
      BY <1>1, <1>3, <1>6
    <2> QED
      BY <1>4, <2>1, <2>2 DEF Behind
  <1>8. DOMAIN value = R /\ DOMAIN seen = R /\ DOMAIN held = R
    BY DEF BasicInv, StateInv
  <1>9. /\ value' = [r \in R |-> CASE r \in phis -> value[taken(r)]
                                   [] r \in kept -> value[r]
                                   [] OTHER -> Unset]
        /\ seen' = [r \in R |-> IF r \in phis THEN seen[taken(r)] ELSE seen[r]]
        /\ held' = [r \in R |-> held[r] \union (IF r \in phis THEN {value[taken(r)]} ELSE {})]
        /\ at' = <<b, Cardinality(phis) + 1>>
    BY <1>8, Zenon DEF Enters, Enter, Behind
  <1> HIDE DEF taken
  <1>10. \A r \in phis : value'[r] = value[taken(r)]
    BY <1>4, <1>7, <1>9
  <1>11. \A r \in kept : value'[r] = value[r]
    BY <1>5, <1>7, <1>9
  <1>12. \A r \in R : r \notin phis /\ r \notin kept => value'[r] = Unset
    BY <1>9
  <1>13. \A r \in phis : seen'[r] = seen[taken(r)] /\ held'[r] = held[r] \union {value[taken(r)]}
    BY <1>4, <1>9
  <1>14. \A r \in R \ phis : seen'[r] = seen[r] /\ held'[r] = held[r]
    BY <1>9
  <1>15. /\ DOMAIN value' = R /\ DOMAIN seen' = R /\ DOMAIN held' = R
         /\ value' = [r \in R |-> value'[r]] /\ seen' = [r \in R |-> seen'[r]]
         /\ held' = [r \in R |-> held'[r]]
    BY <1>9
  <1>16. Cardinality(phis) \in Nat
    <2>1. IsFiniteSet(R)
      BY <1>1 DEF InSSA, R, Registers
    <2> QED
      BY <1>4, <2>1, FS_Subset, FS_CardinalityType
  <1> DEFINE n == Cardinality(phis)
  <1>17. /\ at' = <<b, n + 1>> /\ at'[1] = b /\ at'[2] = n + 1
         /\ at' \in (1..3) \X (Nat \ {0})
    BY <1>1, <1>9, <1>16
  <1>18. \A i \in DOMAIN program.blocks[b] : i \in Nat
    <2>1. program.blocks[b] \in Seq(R)
      BY <1>1, Placed DEF R
    <2> QED
      BY <2>1
  <1>19. \A i \in DOMAIN program.blocks[b] : program.blocks[b][i] \in phis <=> i < n + 1
    <2>1. \A i \in DOMAIN program.blocks[b] :
             program.instr[program.blocks[b][i]].op = "phi" <=> i <= n
      BY <1>1 DEF InSSA, PhisLead
    <2>2. \A i \in DOMAIN program.blocks[b] : i <= n <=> i < n + 1
      <3> HIDE DEF n
      <3> QED
        BY <1>16, <1>18 DEF n
    <2> QED
      BY <2>1, <2>2 DEF PhisOf, RegistersOf
  <1> HIDE DEF n, phis, kept
  <1>20. ASSUME NEW r \in R
         PROVE  Passed(r)' <=> r \in phis \union kept
    <2>1. PICK c \in 1..3 : \E i \in DOMAIN program.blocks[c] : program.blocks[c][i] = r
      BY <1>1, Placed DEF R
    <2>2. PICK i \in DOMAIN program.blocks[c] : program.blocks[c][i] = r
      BY <2>1
    <2>3. program' = program
      BY DEF Enters
    <2>4. Passed(r)' <=> c < b \/ (c = b /\ i < n + 1)
      <3>1. \A d \in 1..3 : \A j \in DOMAIN program.blocks[d] :
               program.blocks[d][j] = r => d = c /\ j = i
        BY <1>1, <2>2, Placed
      <3> QED
        BY <1>17, <2>2, <2>3, <3>1 DEF Passed
    <2>5. r \in RegistersOf(program, c)
      BY <2>2 DEF RegistersOf
    <2>6. c = b => (i < n + 1 <=> r \in phis)
      BY <1>19, <2>2
    <2>7. r \in phis => c = b
      BY <1>1, <1>4, <1>6, <2>5
    <2>8. r \in kept <=> c < b
      <3>1. r \in RegistersOf(program, 1) <=> c = 1
        BY <1>3, <1>6, <2>5
      <3>2. r \in RegistersOf(program, 2) <=> c = 2
        BY <1>3, <1>6, <2>5
      <3>3. r \in kept <=> c = 1 \/ (b = 3 /\ c = 2)
        BY <3>1, <3>2 DEF kept, Behind
      <3>4. c = 1 \/ c = 2 \/ c = 3
        OBVIOUS
      <3>5. CASE b = 2
        BY <3>3, <3>4, <3>5
      <3>6. CASE b = 3
        BY <3>3, <3>4, <3>6
      <3> QED
        BY <1>1, <3>5, <3>6
    <2>9. ~(c < b /\ c = b)
      BY <1>1
    <2> QED
      BY <2>4, <2>6, <2>7, <2>8, <2>9
  <1>21. \A r \in kept : Passed(r)
    <2>1. StateInv /\ ~Running
      BY DEF BasicInv, Enters
    <2>2. b = 3 => at[1] = 2
      BY DEF Enters, Entering
    <2>3. 1 <= at[1] /\ (b = 3 => 2 <= at[1])
      BY <2>1, <2>2 DEF StateInv
    <2>4. \A r \in RegistersOf(program, 1) : Passed(r)
      BY <1>3, <2>1, <2>3, BlockPassed
    <2>5. b = 3 => \A r \in RegistersOf(program, 2) : Passed(r)
      BY <1>3, <2>1, <2>3, BlockPassed
    <2> QED
      BY <2>4, <2>5 DEF kept, Behind
  <1> QED
    BY <1>1, <1>4, <1>5, <1>7, <1>10, <1>11, <1>12, <1>13, <1>14, <1>15, <1>17, <1>20, <1>21
    DEF taken, phis, kept

\* Entering a block keeps the types, and moves as a step may.
LEMMA EntersStep ==
    ASSUME BasicInv, NEW b, NEW edge, Enters(b, edge)
    PROVE  BasicInv' /\ Moves
  <1> DEFINE phis == PhisOf(program, b)
             kept == Behind(b)
             taken(r) == program.instr[r].edges[edge]
  <1>1. R' = R /\ program' = program /\ paths' = paths /\ heap' = heap /\ writes' = writes
        /\ objects' = objects
    BY DEF Enters, R
  <1>2. ASSUME NEW r \in phis
        PROVE  /\ r \in R /\ taken(r) \in R /\ Op(r) = "phi" /\ value[taken(r)] # Unset
               /\ There(value[taken(r)]) /\ value[taken(r)] \in Value
               /\ seen[taken(r)] \in SUBSET (0..writes)
               /\ Origin(r, value[taken(r)])
    <2>1. /\ r \in R /\ taken(r) \in R /\ Op(r) = "phi" /\ value[taken(r)] # Unset
          /\ There(value[taken(r)]) /\ edge \in 1..2 /\ DOMAIN program.instr[r].edges = 1..2
      BY EdgesThere DEF Enters
    <2>2. value[taken(r)] \in Value /\ seen[taken(r)] \in SUBSET (0..writes)
      BY <2>1 DEF BasicInv, StateInv
    <2>3. Origin(r, value[taken(r)])
      BY <2>1 DEF Origin
    <2> QED
      BY <2>1, <2>2, <2>3
  <1>3. \A r \in R : value[r] \in Value /\ seen[r] \in SUBSET (0..writes) /\ held[r] \in SUBSET Value
    BY DEF BasicInv, StateInv
  <1>4. Unset \in Value
    BY Constants
  <1>5. ASSUME NEW r \in R
        PROVE  /\ value'[r] \in Value /\ seen'[r] \in SUBSET (0..writes)
               /\ held'[r] \in SUBSET Value
               /\ value'[r] # Unset => value'[r] \in held'[r]
               /\ \A v \in held[r] : v \in held'[r]
               /\ \A v \in held'[r] : v \in held[r] \/ (Origin(r, v) /\ There(v))
    <2>1. CASE r \in phis
      BY <1>2, <1>3, <2>1, Entered
    <2>2. CASE r \in kept
      <3>1. value'[r] = value[r] /\ seen'[r] = seen[r] /\ held'[r] = held[r]
        BY <2>2, Entered
      <3> QED
        BY <1>3, <3>1 DEF BasicInv, StateInv
    <2>3. CASE r \notin phis /\ r \notin kept
      BY <1>3, <1>4, <2>3, Entered
    <2> QED
      BY <2>1, <2>2, <2>3
  <1>6. /\ value' \in [R -> Value] /\ seen' \in [R -> SUBSET (0..writes)]
        /\ held' \in [R -> SUBSET Value]
    <2>1. /\ value' = [r \in R |-> value'[r]] /\ seen' = [r \in R |-> seen'[r]]
          /\ held' = [r \in R |-> held'[r]]
      BY Entered
    <2> QED
      BY <1>5, <2>1
  <1>7. StateInv'
    <2>1. at' \in (1..3) \X (Nat \ {0})
      BY Entered
    <2> QED
      BY <1>1, <1>5, <1>6, <2>1 DEF BasicInv, StateInv
  <1>8. \A v : There(v)' <=> There(v)
    BY <1>1 DEF There
  <1>9. ThingsInv'
    <2>1. \A r \in R : \A v \in held[r] : v = Unset \/ There(v)
      BY DEF BasicInv, ThingsInv
    <2>2. \A r \in R : \A v \in held'[r] : v = Unset \/ There(v)
      BY <1>5, <2>1
    <2>3. \A a \in DOMAIN heap : There(a) /\ There(heap[a])
      BY DEF BasicInv, ThingsInv
    <2> QED
      BY <1>1, <1>8, <2>2, <2>3 DEF ThingsInv
  <1>10. OrderInv'
    <2>1. ASSUME NEW r \in ValuesOf(program)
          PROVE  /\ Passed(r)' => value'[r] # Unset
                 /\ value'[r] # Unset => Passed(r)'
      <3>1. r \in R
        BY DEF ValuesOf, R, Registers
      <3>2. Passed(r)' <=> r \in phis \union kept
        BY <3>1, Entered
      <3>3. CASE r \in phis
        <4>1. value'[r] # Unset
          BY <1>2, <3>3, Entered
        <4> QED
          BY <3>2, <3>3, <4>1
      <3>4. CASE r \in kept
        <4>1. value'[r] = value[r] /\ Passed(r)
          BY <3>4, Entered
        <4>2. value[r] # Unset
          BY <4>1 DEF BasicInv, OrderInv
        <4> QED
          BY <3>2, <3>4, <4>1, <4>2
      <3>5. CASE r \notin phis /\ r \notin kept
        <4>1. value'[r] = Unset
          BY <3>1, <3>5, Entered
        <4> QED
          BY <3>2, <3>5, <4>1
      <3> QED
        BY <3>3, <3>4, <3>5
    <2> QED
      BY <1>1, <2>1 DEF OrderInv
  <1>11. Moves
    <2>1. \A a \in DOMAIN heap' : Wrote(a)
      BY <1>1 DEF Wrote
    <2> QED
      BY <1>1, <1>5, <2>1 DEF Moves
  <1> QED
    BY <1>7, <1>9, <1>10, <1>11 DEF BasicInv


----------------------------------------------------------------------------
(* Each instruction is of one of these frames.                             *)

\* A register that holds a value is one of these.
LEMMA CurrentHolds ==
    ASSUME BasicInv, Running, Instruction.op \notin {"store", "copy", "mapupdate", "call"}
    PROVE  Current \in ValuesOf(program)
  <1>1. Current \in DOMAIN program.instr
    BY Reached DEF BasicInv, R, Registers
  <1> QED
    BY <1>1 DEF ValuesOf, Instruction

\* Nil is a value the run may meet.
LEMMA NothingThere ==
    ASSUME BasicInv
    PROVE  There(Nothing)
  <1>1. objects \in Nat \ {0}
    BY DEF BasicInv, StateInv
  <1>2. -1 < objects /\ -1 # -2
    BY <1>1
  <1> QED
    BY <1>2, Constants DEF There

\* So is whatever memory holds.
LEMMA MemoryThere ==
    ASSUME BasicInv, NEW a
    PROVE  There(At(a)) /\ (At(a) = Nothing \/ (a \in DOMAIN heap /\ At(a) = heap[a]))
  BY NothingThere DEF At, BasicInv, ThingsInv

\* An allocation, a closure and a call of the trigger set their register to a new object.
LEMMA MakesFrame ==
    ASSUME BasicInv, Makes
    PROVE  SetsOne(Current, <<objects, <<>>>>, {}) /\ Maker(Current)
  <1>1. /\ Running /\ Sets(Current, <<objects, <<>>>>, {}) /\ objects' = objects + 1 /\ Advance
        /\ program' = program /\ paths' = paths /\ heap' = heap /\ writes' = writes
        /\ Instruction.op \in {"alloc", "makemap", "closure", "trigger"}
    BY DEF Makes
  <1>2. Current \in ValuesOf(program) /\ Maker(Current)
    BY <1>1, CurrentHolds, OperandsOf DEF Maker, BasicInv
  <1>3. objects \in Nat \ {0}
    BY DEF BasicInv, StateInv
  <1> DEFINE v == <<objects, <<>>>>
  <1>4. v \in Value /\ v[1] = objects
    <2>1. objects \in Int
      BY <1>3
    <2>2. v \in Value
      BY <2>1, Alone
    <2>3. v[1] = objects
      OBVIOUS
    <2> QED
      BY <2>2, <2>3
  <1>5. v[1] < objects' /\ v[1] # Unset[1]
    <2>1. objects < objects + 1 /\ objects # -2
      BY <1>3
    <2> QED
      BY <1>1, <1>4, <2>1, Constants
  <1>6. Origin(Current, v)
    BY <1>1, <1>2 DEF Origin
  <1> HIDE DEF v
  <1>7. SetsOne(Current, v, {})
    BY <1>1, <1>2, <1>4, <1>5, <1>6 DEF SetsOne, v
  <1> QED
    BY <1>2, <1>7 DEF v

\* A conversion sets its register to its operand.
LEMMA ConvertsFrame ==
    ASSUME BasicInv, Converts
    PROVE  /\ SetsOne(Current, value[Instruction.x], seen[Instruction.x])
           /\ Op(Current) = "convert" /\ Instruction.x \in Operands(Instruction)
           /\ Instruction = program.instr[Current]
  <1> DEFINE x == Instruction.x
  <1>1. /\ Running /\ Sets(Current, value[x], seen[x]) /\ objects' = objects /\ Advance
        /\ program' = program /\ paths' = paths /\ heap' = heap /\ writes' = writes
        /\ Instruction.op = "convert"
    BY DEF Converts
  <1>2. /\ Current \in ValuesOf(program) /\ Op(Current) = "convert" /\ x \in Operands(Instruction)
        /\ Instruction = program.instr[Current]
    BY <1>1, CurrentHolds, OperandsOf DEF BasicInv
  <1>3. x \in R /\ There(value[x])
    BY <1>1, <1>2, OperandsThere
  <1>4. Origin(Current, value[x])
    BY <1>2, <1>3 DEF Origin
  <1>5. seen[x] \in SUBSET (0..writes)
    BY <1>3 DEF BasicInv, StateInv
  <1> HIDE DEF x
  <1>6. SetsOne(Current, value[x], seen[x])
    BY <1>1, <1>2, <1>3, <1>4, <1>5 DEF SetsOne, There
  <1> QED
    BY <1>2, <1>6 DEF x

\* The address of a field is of the object its operand is of.
LEMMA ReachesFrame ==
    ASSUME BasicInv, Reaches
    PROVE  /\ SetsOne(Current,
                      <<value[Instruction.x][1], Append(value[Instruction.x][2], Instruction.field)>>,
                      seen[Instruction.x])
           /\ Op(Current) = "fieldaddr" /\ Instruction.x \in Operands(Instruction)
           /\ Instruction = program.instr[Current]
  <1> DEFINE x == Instruction.x
             v == <<value[x][1], Append(value[x][2], Instruction.field)>>
  <1>1. /\ Running /\ Sets(Current, v, seen[x]) /\ objects' = objects /\ Advance
        /\ program' = program /\ paths' = paths /\ heap' = heap /\ writes' = writes
        /\ Instruction.op = "fieldaddr" /\ value[x] # Nothing
    BY DEF Reaches
  <1>2. /\ Current \in ValuesOf(program) /\ Op(Current) = "fieldaddr"
        /\ x \in Operands(Instruction) /\ Instruction = program.instr[Current]
        /\ Instruction.field \in STRING
    BY <1>1, CurrentHolds, OperandsOf DEF BasicInv
  <1>3. x \in R /\ There(value[x]) /\ value[x] # Unset
    BY <1>1, <1>2, OperandsThere
  <1>4. v \in Value /\ v[1] = value[x][1]
    <2>1. value[x][1] \in Int /\ value[x][2] \in Seq(STRING)
      BY <1>3 DEF There, Value
    <2>2. Append(value[x][2], Instruction.field) \in Seq(STRING)
      BY <1>2, <2>1
    <2> QED
      BY <2>1, <2>2, Valued
  <1>5. Origin(Current, v)
    BY <1>1, <1>2, <1>3 DEF Origin
  <1>6. seen[x] \in SUBSET (0..writes)
    BY <1>3 DEF BasicInv, StateInv
  <1> HIDE DEF x, v
  <1>7. SetsOne(Current, v, seen[x])
    BY <1>1, <1>2, <1>3, <1>4, <1>5, <1>6 DEF SetsOne, There
  <1> QED
    BY <1>2, <1>7 DEF x, v

\* A load and a lookup read memory as it is.
LEMMA LoadsFrame ==
    ASSUME BasicInv, Loads
    PROVE  /\ Instruction = program.instr[Current] /\ Instruction.x \in Operands(Instruction)
           /\ \/ /\ Op(Current) = "load" /\ value[Instruction.x] # Nothing
                 /\ SetsOne(Current, At(value[Instruction.x]), seen[Instruction.x] \union {writes})
              \/ /\ Op(Current) = "lookup"
                 /\ SetsOne(Current, At(EntryOf(Instruction)), seen[Instruction.x] \union {writes})
  <1> DEFINE x == Instruction.x
             times == seen[x] \union {writes}
  <1>1. /\ Running /\ objects' = objects /\ Advance
        /\ program' = program /\ paths' = paths /\ heap' = heap /\ writes' = writes
        /\ \/ Instruction.op = "load" /\ value[x] # Nothing /\ Sets(Current, At(value[x]), times)
           \/ Instruction.op = "lookup" /\ Sets(Current, At(EntryOf(Instruction)), times)
    BY DEF Loads
  <1>2. /\ Current \in ValuesOf(program) /\ Op(Current) = Instruction.op
        /\ x \in Operands(Instruction) /\ Instruction = program.instr[Current]
    BY <1>1, CurrentHolds, OperandsOf DEF BasicInv
  <1>3. x \in R /\ There(value[x]) /\ value[x] # Unset
    BY <1>1, <1>2, OperandsThere
  <1>4. times \in SUBSET (0..writes)
    BY <1>3 DEF BasicInv, StateInv
  <1> HIDE DEF x, times
  <1>5. CASE Instruction.op = "load" /\ value[x] # Nothing /\ Sets(Current, At(value[x]), times)
    <2>1. Origin(Current, At(value[x]))
      BY <1>2, <1>3, <1>5, MemoryThere DEF Origin, x
    <2>2. There(At(value[x]))
      BY MemoryThere
    <2>3. SetsOne(Current, At(value[x]), times)
      BY <1>1, <1>2, <1>4, <1>5, <2>1, <2>2 DEF SetsOne, There
    <2> QED
      BY <1>2, <1>5, <2>3 DEF x, times
  <1>6. CASE Instruction.op = "lookup" /\ Sets(Current, At(EntryOf(Instruction)), times)
    <2>1. Origin(Current, At(EntryOf(Instruction)))
      BY <1>2, <1>6, MemoryThere DEF Origin
    <2>2. There(At(EntryOf(Instruction)))
      BY MemoryThere
    <2>3. SetsOne(Current, At(EntryOf(Instruction)), times)
      BY <1>1, <1>2, <1>4, <1>6, <2>1, <2>2 DEF SetsOne, There
    <2> QED
      BY <1>2, <1>6, <2>3 DEF x, times
  <1> QED
    BY <1>1, <1>5, <1>6

\* A parameter or a constant is there already.
LEMMA GivenFrame ==
    ASSUME BasicInv, Given
    PROVE  SetsNone /\ heap' = heap /\ writes' = writes
  <1>1. /\ Running /\ Advance /\ Instruction.op \in {"param", "const"}
        /\ program' = program /\ paths' = paths /\ objects' = objects
        /\ value' = value /\ seen' = seen /\ held' = held
        /\ writes' = writes /\ heap' = heap
    BY DEF Given
  <1>2. Preset(Current)
    BY <1>1 DEF Preset, Op, Instruction
  <1>3. \A a \in DOMAIN heap' : There(a) /\ There(heap'[a]) /\ Wrote(a)
    BY <1>1 DEF BasicInv, ThingsInv, Wrote
  <1> QED
    BY <1>1, <1>2, <1>3 DEF SetsNone

\* Memory after a write.
LEMMA Written ==
    ASSUME BasicInv, NEW a, NEW v, Write(a, v), There(a), There(v),
           \/ v = Nothing /\ a \in DOMAIN heap
           \/ \A b \in DOMAIN heap' : b = a /\ heap'[b] = v => Wrote(b)
    PROVE  /\ \A b \in DOMAIN heap' : There(b) /\ There(heap'[b]) /\ Wrote(b)
           /\ writes' = writes + 1
  <1>1. ASSUME NEW b \in DOMAIN heap'
        PROVE  There(b) /\ There(heap'[b]) /\ Wrote(b)
    <2>1. CASE b = a
      <3>1. heap'[b] = v
        BY <1>1, <2>1 DEF Write
      <3> QED
        BY <1>1, <2>1, <3>1 DEF Wrote
    <2>2. CASE b # a
      <3>1. b \in DOMAIN heap /\ heap'[b] = heap[b]
        BY <1>1, <2>2 DEF Write
      <3> QED
        BY <3>1 DEF Wrote, BasicInv, ThingsInv
    <2> QED
      BY <2>1, <2>2
  <1> QED
    BY <1>1 DEF Write

\* A store and an update of a map write what their operands hold.
LEMMA StoresFrame ==
    ASSUME BasicInv, Stores
    PROVE  SetsNone /\ writes' = writes + 1
  <1> DEFINE x == Instruction.x
             y == Instruction.y
             key == Instruction.key
  <1>1. /\ Running /\ Advance /\ objects' = objects
        /\ program' = program /\ paths' = paths
        /\ value' = value /\ seen' = seen /\ held' = held
        /\ \/ Instruction.op = "store" /\ Write(value[x], value[y])
           \/ Instruction.op = "mapupdate" /\ Write(EntryOf(Instruction), value[y])
    BY DEF Stores
  <1>2. /\ Op(Current) = Instruction.op /\ Instruction = program.instr[Current]
        /\ x \in Operands(Instruction) /\ y \in Operands(Instruction)
        /\ Op(Current) = "mapupdate" => key \in Operands(Instruction)
    BY <1>1, OperandsOf DEF BasicInv
  <1>3. /\ x \in R /\ value[x] # Unset /\ There(value[x])
        /\ y \in R /\ value[y] # Unset /\ There(value[y])
        /\ Op(Current) = "mapupdate" => key \in R /\ value[key] # Unset /\ There(value[key])
    BY <1>1, <1>2, OperandsThere
  <1>4. Current \in R
    BY <1>1, Reached DEF BasicInv
  <1>5. Current \notin ValuesOf(program)
    BY <1>1, <1>2 DEF ValuesOf, Op
  <1>6. \A b \in DOMAIN heap' : There(b) /\ There(heap'[b]) /\ Wrote(b)
        /\ writes' = writes + 1
    <2>1. CASE Instruction.op = "store" /\ Write(value[x], value[y])
      <3>1. \A b \in DOMAIN heap' : b = value[x] /\ heap'[b] = value[y] => Wrote(b)
        BY <1>2, <1>3, <1>4, <2>1 DEF Wrote
      <3> HIDE DEF x, y
      <3> QED
        BY <1>3, <2>1, <3>1, Written
    <2>2. CASE Instruction.op = "mapupdate" /\ Write(EntryOf(Instruction), value[y])
      <3> DEFINE a == <<value[x][1], value[key][2]>>
      <3>1. a \in Value /\ a[1] = value[x][1]
        BY <1>2, <1>3, <2>2 DEF There, Value
      <3>2. There(a)
        BY <1>3, <3>1 DEF There
      <3>3. \A b \in DOMAIN heap' : b = a /\ heap'[b] = value[y] => Wrote(b)
        BY <1>2, <1>3, <1>4, <2>2 DEF Wrote
      <3>4. EntryOf(Instruction) = a
        BY DEF EntryOf
      <3> HIDE DEF x, y, a
      <3> QED
        BY <1>3, <2>2, <3>2, <3>3, <3>4, Written
    <2> QED
      BY <1>1, <2>1, <2>2
  <1>7. writes' = writes + 1
    <2>1. CASE Instruction.op = "store" /\ Write(value[x], value[y])
      BY <2>1 DEF Write
    <2>2. CASE Instruction.op = "mapupdate" /\ Write(EntryOf(Instruction), value[y])
      BY <2>2 DEF Write
    <2> QED
      BY <1>1, <2>1, <2>2
  <1> HIDE DEF x, y, key
  <1> QED
    BY <1>1, <1>5, <1>6, <1>7 DEF SetsNone

\* The counterpart of a part is a part of the other struct.
LEMMA CounterpartCovered ==
    ASSUME NEW to \in Value, NEW part \in Value, NEW from \in Value
    PROVE  Covers(to, Counterpart(to, part, from))
  <1> DEFINE rest == SubSeq(part[2], Len(from[2]) + 1, Len(part[2]))
             s == to[2]
  <1>1. s \in Seq(STRING) /\ part[2] \in Seq(STRING) /\ from[2] \in Seq(STRING)
    BY DEF Value
  <1>2. rest \in Seq(STRING)
    BY <1>1
  <1>3. Counterpart(to, part, from)[1] = to[1] /\ Counterpart(to, part, from)[2] = s \o rest
    BY DEF Counterpart
  <1> HIDE DEF rest, s
  <1>4. IsPrefix(s, s \o rest)
    BY <1>1, <1>2 DEF IsPrefix
  <1> QED
    BY <1>3, <1>4 DEF Covers, s

\* A copy writes what memory holds, or nothing, into one struct.
LEMMA CopiesFrame ==
    ASSUME BasicInv, Copies
    PROVE  SetsNone /\ writes' = writes + 1
  <1> DEFINE x == Instruction.x
             to == value[x]
             from == value[Instruction.y]
             filled == {Counterpart(to, part, from) :
                           part \in {place \in DOMAIN heap : Covers(from, place)}}
  <1>1. /\ Running /\ Advance /\ objects' = objects
        /\ program' = program /\ paths' = paths
        /\ value' = value /\ seen' = seen /\ held' = held
        /\ Instruction.op = "copy" /\ writes' = writes + 1
        /\ heap' = [place \in {each \in DOMAIN heap : ~Covers(to, each)} \union filled |->
                      IF Covers(to, place) THEN At(Counterpart(from, place, to)) ELSE heap[place]]
    BY DEF Copies
  <1>2. /\ Op(Current) = "copy" /\ x = program.instr[Current].x
        /\ x \in Operands(Instruction) /\ Instruction.y \in Operands(Instruction)
    BY <1>1, OperandsOf DEF BasicInv
  <1>3. x \in R /\ value[x] # Unset /\ There(to) /\ There(from)
    BY <1>1, <1>2, OperandsThere
  <1>4. Current \in R /\ Current \notin ValuesOf(program)
    BY <1>1, Reached DEF BasicInv, ValuesOf, Instruction
  <1>5. ASSUME NEW part \in DOMAIN heap
        PROVE  There(Counterpart(to, part, from)) /\ Counterpart(to, part, from)[1] = to[1]
    <2> DEFINE rest == SubSeq(part[2], Len(from[2]) + 1, Len(part[2]))
    <2>1. part[2] \in Seq(STRING) /\ from[2] \in Seq(STRING) /\ to[2] \in Seq(STRING)
      BY <1>3 DEF BasicInv, ThingsInv, There, Value
    <2>2. rest \in Seq(STRING)
      BY <2>1
    <2>3. to[2] \o rest \in Seq(STRING)
      BY <2>1, <2>2
    <2> HIDE DEF rest, to, from
    <2>4. to[1] \in Int
      BY <1>3, Numbers DEF There
    <2>5. <<to[1], to[2] \o rest>> \in Value
      BY <2>3, <2>4 DEF Value
    <2>6. Counterpart(to, part, from) = <<to[1], to[2] \o rest>>
      BY DEF Counterpart, rest
    <2> QED
      BY <1>3, <2>5, <2>6 DEF There
  <1>6. ASSUME NEW a \in DOMAIN heap'
        PROVE  There(a) /\ There(heap'[a]) /\ Wrote(a)
    <2> HIDE DEF to, from, x
    <2>1. (a \in DOMAIN heap /\ ~Covers(to, a)) \/ a \in filled
      BY <1>1, <1>6
    <2>2. There(a) /\ (a \in DOMAIN heap \/ a[1] = to[1])
      BY <1>5, <2>1 DEF BasicInv, ThingsInv
    <2>3. CASE Covers(to, a)
      <3>1. a[1] = to[1]
        BY <2>3 DEF Covers
      <3>2. heap'[a] = At(Counterpart(from, a, to))
        BY <1>1, <1>6, <2>3
      <3>3. There(heap'[a]) /\ (heap'[a] = Nothing \/ \E b \in DOMAIN heap : heap'[a] = heap[b])
        BY <3>2, MemoryThere
      <3>4. Wrote(a)
        BY <1>2, <1>3, <1>4, <3>1, <3>3 DEF Wrote, to, x
      <3> QED
        BY <2>2, <3>3, <3>4
    <2>4. CASE ~Covers(to, a) /\ a \in DOMAIN heap
      <3>1. heap'[a] = heap[a]
        BY <1>1, <1>6, <2>4
      <3> QED
        BY <2>2, <2>4, <3>1 DEF Wrote, BasicInv, ThingsInv
    <2>5. CASE ~Covers(to, a) /\ a \notin DOMAIN heap
      <3>1. PICK part \in DOMAIN heap : a = Counterpart(to, part, from)
        BY <2>1, <2>5
      <3>2. Covers(to, a)
        BY <1>3, <3>1, CounterpartCovered DEF BasicInv, ThingsInv, There
      <3> QED
        BY <2>5, <3>2
    <2> QED
      BY <2>3, <2>4, <2>5
  <1> HIDE DEF x, to, from, filled
  <1> QED
    BY <1>1, <1>4, <1>6 DEF SetsNone

\* A call of anything else clears what memory holds, or writes what it holds elsewhere.
LEMMA CallsFrame ==
    ASSUME BasicInv, Calls
    PROVE  SetsNone /\ ((writes' = writes /\ heap' = heap) \/ writes' = writes + 1)
  <1>1. /\ Running /\ Advance /\ objects' = objects
        /\ program' = program /\ paths' = paths
        /\ value' = value /\ seen' = seen /\ held' = held
        /\ Instruction.op = "call"
        /\ \/ heap' = heap /\ writes' = writes
           \/ \E address \in DOMAIN heap : Write(address, Nothing)
           \/ \E address, place \in DOMAIN heap : Reachable(address) /\ Write(address, heap[place])
    BY DEF Calls
  <1>2. Current \notin ValuesOf(program)
    BY <1>1 DEF ValuesOf, Instruction
  <1>3. CASE heap' = heap /\ writes' = writes
    <2>1. \A a \in DOMAIN heap' : There(a) /\ There(heap'[a]) /\ Wrote(a)
      BY <1>3 DEF BasicInv, ThingsInv, Wrote
    <2> QED
      BY <1>1, <1>2, <1>3, <2>1 DEF SetsNone
  <1>4. CASE \E address \in DOMAIN heap : Write(address, Nothing)
    <2>1. PICK address \in DOMAIN heap : Write(address, Nothing)
      BY <1>4
    <2>2. There(address) /\ There(Nothing)
      BY NothingThere DEF BasicInv, ThingsInv
    <2>3. /\ \A b \in DOMAIN heap' : There(b) /\ There(heap'[b]) /\ Wrote(b)
          /\ writes' = writes + 1
      BY <2>1, <2>2, Written
    <2> QED
      BY <1>1, <1>2, <2>3 DEF SetsNone
  <1>5. CASE \E address, place \in DOMAIN heap : Reachable(address) /\ Write(address, heap[place])
    <2>1. PICK address \in DOMAIN heap, place \in DOMAIN heap :
             Reachable(address) /\ Write(address, heap[place])
      BY <1>5
    <2>2. There(address) /\ There(heap[place])
      BY <2>1 DEF BasicInv, ThingsInv
    <2>3. \A b \in DOMAIN heap' : b = address /\ heap'[b] = heap[place] => Wrote(b)
      BY <2>1 DEF Wrote
    <2>4. /\ \A b \in DOMAIN heap' : There(b) /\ There(heap'[b]) /\ Wrote(b)
          /\ writes' = writes + 1
      BY <2>1, <2>2, <2>3, Written
    <2> QED
      BY <1>1, <1>2, <2>4 DEF SetsNone
  <1> QED
    BY <1>1, <1>3, <1>4, <1>5

\* At the end of a block the run enters another.
LEMMA JumpsFrame ==
    ASSUME BasicInv, Jumps
    PROVE  \E b, edge : Enters(b, edge)
  <1>1. /\ ~Running /\ program' = program /\ paths' = paths /\ heap' = heap /\ writes' = writes
        /\ objects' = objects
        /\ \/ at[1] \in {1, 3} /\ Enter(2, IF at[1] = 1 THEN 1 ELSE 2)
           \/ at[1] = 2 /\ \E edge \in 1..2 : Enter(3, edge)
    BY DEF Jumps
  <1>2. CASE at[1] = 1 /\ Enter(2, IF at[1] = 1 THEN 1 ELSE 2)
    <2>1. Enter(2, 1)
      BY <1>2
    <2>2. Enters(2, 1)
      BY <1>1, <1>2, <2>1 DEF Enters, Entering
    <2> QED
      BY <2>2
  <1>3. CASE at[1] = 3 /\ Enter(2, IF at[1] = 1 THEN 1 ELSE 2)
    <2>1. Enter(2, 2)
      BY <1>3
    <2>2. Enters(2, 2)
      BY <1>1, <1>3, <2>1 DEF Enters, Entering
    <2> QED
      BY <2>2
  <1>4. CASE at[1] = 2 /\ \E edge \in 1..2 : Enter(3, edge)
    <2>1. PICK edge \in 1..2 : Enter(3, edge)
      BY <1>4
    <2>2. Enters(3, edge)
      BY <1>1, <1>4, <2>1 DEF Enters, Entering
    <2> QED
      BY <2>2
  <1> QED
    BY <1>1, <1>2, <1>3, <1>4


----------------------------------------------------------------------------
(* What the registers held.                                                *)

\* An allocation makes an object of its own each time.
MakersInv ==
    /\ \A r \in R : Maker(r) =>
          \A v \in held[r] : v = Unset \/ (v = <<v[1], <<>>>> /\ 1 <= v[1] /\ v[1] < objects)
    /\ \A r, s \in R : Maker(r) /\ Maker(s) /\ r # s =>
          \A v \in held[r], w \in held[s] : v[1] = w[1] => v = Unset

Thing(v) == v # Nothing /\ v # Unset

\* Whether the steps, fields all of them, lead from one address to the other.
PartOf(z, steps, v) ==
    /\ v[1] = z[1]
    /\ Len(v[2]) = Len(z[2]) + Len(steps)
    /\ \A i \in 1..Len(z[2]) : v[2][i] = z[2][i]
    /\ \A i \in 1..Len(steps) : steps[i] = <<"&", v[2][Len(z[2]) + i]>>

\* Where no load was on its path, a register holds the part its path leads to of
\* what its root held.
ObjectsInv ==
    \A q, u : <<q, u>> \in TracesOf(program) /\ ~u.loads =>
        \A v \in held[q] : Thing(v) => \E z \in held[u.root] : Thing(z) /\ PartOf(z, u.steps, v)

\* No steps lead from an address to itself.
LEMMA PartItself ==
    ASSUME NEW v \in Value
    PROVE  PartOf(v, <<>>, v)
  <1>1. v[2] \in Seq(STRING)
    BY DEF Value
  <1>2. Len(v[2]) \in Nat /\ Len(<<>>) = 0
    BY <1>1
  <1> QED
    BY <1>2 DEF PartOf

\* What a sequence of fields is with one more at its end.
LEMMA OneMore ==
    ASSUME NEW t \in Seq(STRING), NEW field \in STRING
    PROVE  /\ Len(Append(t, field)) = Len(t) + 1 /\ Append(t, field)[Len(t) + 1] = field
           /\ \A i \in 1..Len(t) : Append(t, field)[i] = t[i]
  <1>1. Len(Append(t, field)) = Len(t) + 1 /\ Append(t, field)[Len(t) + 1] = field
    BY AppendProperties
  <1>2. \A i \in 1..Len(t) : Append(t, field)[i] = t[i]
    BY AppendProperties
  <1> QED
    BY <1>1, <1>2

\* One more field leads on.
LEMMA PartMore ==
    ASSUME NEW z \in Value, NEW v \in Value, NEW steps \in Seq(StepSet), NEW field \in STRING,
           PartOf(z, steps, v)
    PROVE  PartOf(z, steps \o << <<"&", field>> >>, <<v[1], Append(v[2], field)>>)
  <1> DEFINE l == Len(z[2])
             m == Len(steps)
             n == Len(v[2])
             more == steps \o << <<"&", field>> >>
             s == Append(v[2], field)
             w == <<v[1], s>>
  <1>1. v[2] \in Seq(STRING) /\ z[2] \in Seq(STRING)
    BY DEF Value
  <1>2. l \in Nat /\ m \in Nat /\ n \in Nat /\ n = l + m /\ v[1] = z[1]
    <2>1. l \in Nat /\ m \in Nat /\ n \in Nat
      BY <1>1
    <2>2. n = l + m /\ v[1] = z[1]
      BY DEF PartOf
    <2> QED
      BY <2>1, <2>2
  <1>3. Len(s) = n + 1 /\ s[n + 1] = field /\ \A i \in 1..n : s[i] = v[2][i]
    <2>1. /\ Len(s) = Len(v[2]) + 1 /\ s[Len(v[2]) + 1] = field
          /\ \A i \in 1..Len(v[2]) : s[i] = v[2][i]
      BY <1>1, OneMore
    <2> QED
      BY <2>1
  <1>4. Len(more) = m + 1 /\ more[m + 1] = <<"&", field>> /\ \A i \in 1..m : more[i] = steps[i]
    OBVIOUS
  <1>5. w[1] = v[1] /\ w[2] = s
    OBVIOUS
  <1>6. /\ \A i \in 1..l : v[2][i] = z[2][i]
        /\ \A i \in 1..m : steps[i] = <<"&", v[2][l + i]>>
    BY DEF PartOf
  <1> HIDE DEF l, m, n, more, s, w
  <1>7. \A i \in 1..l : s[i] = z[2][i]
    <2>1. \A i \in 1..l : i \in 1..n
      BY <1>2
    <2> QED
      BY <1>3, <1>6, <2>1
  <1>8. ASSUME NEW i \in 1..(m + 1) PROVE more[i] = <<"&", s[l + i]>>
    <2>1. CASE i = m + 1
      <3>1. l + i = n + 1
        BY <1>2, <2>1
      <3> QED
        BY <1>3, <1>4, <2>1, <3>1
    <2>2. CASE i # m + 1
      <3>1. i \in 1..m /\ l + i \in 1..n
        BY <1>2, <1>8, <2>2
      <3>2. more[i] = steps[i] /\ s[l + i] = v[2][l + i] /\ steps[i] = <<"&", v[2][l + i]>>
        BY <1>3, <1>4, <1>6, <3>1
      <3> QED
        BY <3>2
    <2> QED
      BY <2>1, <2>2
  <1>9. Len(s) = l + Len(more)
    BY <1>2, <1>3, <1>4
  <1>10. PartOf(z, more, w)
    BY <1>2, <1>4, <1>5, <1>7, <1>8, <1>9 DEF PartOf, l
  <1> QED
    BY <1>10 DEF more, w, s

\* A path starts at a register of the function.
LEMMA RootRegister ==
    ASSUME StateInv, NEW q, NEW u, <<q, u>> \in TracesOf(program)
    PROVE  u.root \in R
  <1>1. InSSA(program)
    BY Programmed
  <1>2. q \in R /\ (u = Base(q) \/ Before(program, u.root, q))
    BY <1>1, TracesTyped, RootBefore DEF R
  <1>3. CASE Before(program, u.root, q)
    <2>1. PICK b \in 1..3, c \in 1..3 :
             \E i \in DOMAIN program.blocks[b], j \in DOMAIN program.blocks[c] :
                 program.blocks[b][i] = u.root
      BY <1>3 DEF Before
    <2>2. program.blocks[b] \in Seq(R)
      BY <1>1, Placed DEF R
    <2> QED
      BY <2>1, <2>2
  <1> QED
    BY <1>2, <1>3, BaseParts

\* Objects stay apart: a new one has a number none had.
LEMMA MakersStep ==
    ASSUME BasicInv, MakersInv, Moves
    PROVE  MakersInv'
  <1>1. R' = R /\ \A r \in R : Maker(r)' <=> Maker(r)
    BY DEF Moves, R, Maker, Op
  <1>2. objects \in Nat \ {0} /\ objects' \in Nat \ {0} /\ objects <= objects'
    BY DEF BasicInv, StateInv, Moves
  <1>3. ASSUME NEW r \in R, Maker(r), NEW v \in held'[r]
        PROVE  \/ v \in held[r]
               \/ r = Current /\ v = <<objects, <<>>>> /\ v[1] = objects /\ objects' = objects + 1
    <2>1. v \in held[r] \/ Origin(r, v)
      BY <1>3 DEF Moves
    <2>2. Op(r) \in {"alloc", "makemap", "closure", "trigger"}
      BY <1>3 DEF Maker
    <2>3. Origin(r, v) => r = Current /\ v = <<objects, <<>>>> /\ objects' = objects + 1
      BY <2>2 DEF Origin
    <2>4. <<objects, <<>>>>[1] = objects
      OBVIOUS
    <2> QED
      BY <2>1, <2>3, <2>4
  <1>4. ASSUME NEW r \in R, NEW v \in held[r]
        PROVE  v = Unset \/ (v[1] \in Int /\ v[1] < objects)
    BY <1>4, Numbers DEF BasicInv, ThingsInv, There
  <1>5. ASSUME NEW r \in R, Maker(r), NEW v \in held'[r], v # Unset
        PROVE  v = <<v[1], <<>>>> /\ 1 <= v[1] /\ v[1] < objects'
    <2>1. CASE v \in held[r]
      <3>1. v = <<v[1], <<>>>> /\ 1 <= v[1] /\ v[1] < objects /\ v[1] \in Int
        BY <1>4, <1>5, <2>1 DEF MakersInv
      <3>2. v[1] < objects /\ v[1] \in Int
        BY <3>1
      <3>3. v[1] < objects'
        BY <1>2, <3>2
      <3> QED
        BY <3>1, <3>3
    <2>2. CASE v = <<objects, <<>>>> /\ v[1] = objects /\ objects' = objects + 1
      <3>1. 1 <= objects /\ objects < objects + 1
        BY <1>2
      <3> QED
        BY <2>2, <3>1
    <2> QED
      BY <1>3, <1>5, <2>1, <2>2
  <1>6. ASSUME NEW r \in R, NEW s \in R, Maker(r), Maker(s), r # s,
               NEW v \in held'[r], NEW w \in held'[s], v[1] = w[1]
        PROVE  v = Unset
    <2>1. CASE v \in held[r] /\ w \in held[s]
      BY <1>6, <2>1 DEF MakersInv
    <2>2. CASE v \in held[r] /\ w[1] = objects
      <3>1. objects # -2
        BY <1>2
      <3> QED
        BY <1>2, <1>4, <1>6, <2>2, <3>1
    <2>3. CASE w \in held[s] /\ v[1] = objects
      <3>1. objects # -2 /\ ~(objects < objects)
        BY <1>2
      <3>2. w # Unset
        BY <1>6, <2>3, <3>1, Constants
      <3> QED
        BY <1>4, <1>6, <2>3, <3>1, <3>2
    <2> QED
      BY <1>3, <1>6, <2>1, <2>2, <2>3
  <1> QED
    BY <1>1, <1>5, <1>6 DEF MakersInv

\* What a register comes to hold, its root held before.
LEMMA ObjectsStep ==
    ASSUME BasicInv, ObjectsInv, Moves, BasicInv'
    PROVE  ObjectsInv'
  <1> DEFINE T == TracesOf(program)
  <1>1. R' = R /\ program' = program
    BY DEF Moves, R
  <1>2. ASSUME NEW q, NEW u, <<q, u>> \in T, ~u.loads, NEW v \in held'[q], Thing(v)
        PROVE  \E z \in held'[u.root] : Thing(z) /\ PartOf(z, u.steps, v)
    <2> DEFINE x == program.instr[q].x
               edges == program.instr[q].edges
    <2>1. InSSA(program) /\ StateInv
      BY Programmed DEF BasicInv
    <2>2. q \in R /\ u.root \in R /\ Follows(program, T, q, u)
      BY <1>2, <2>1, TracesTyped, RootRegister DEF R
    <2>3. ASSUME NEW d, <<d, u>> \in T, v \in held[d]
          PROVE  \E z \in held'[u.root] : Thing(z) /\ PartOf(z, u.steps, v)
      <3>1. PICK z \in held[u.root] : Thing(z) /\ PartOf(z, u.steps, v)
        BY <1>2, <2>3 DEF ObjectsInv
      <3> QED
        BY <2>2, <3>1 DEF Moves
    <2>4. \A d \in R : value[d] # Unset => value[d] \in held[d]
      BY <2>1 DEF StateInv
    <2>5. v # Unset /\ v # Nothing
      BY <1>2 DEF Thing
    <2>6. CASE v \in held[q]
      BY <1>2, <2>3, <2>6
    <2>7. CASE v \notin held[q]
      <3>1. Origin(q, v)
        BY <1>2, <2>2, <2>7 DEF Moves
      <3>2. CASE u = Base(q)
        <4>1. v \in Value
          BY <1>1, <1>2, <2>2 DEF BasicInv, StateInv
        <4> QED
          BY <1>2, <3>2, <4>1, BaseParts, PartItself
      <3>3. CASE program.instr[q].op = "convert" /\ <<x, u>> \in T
        <4>1. Op(q) = "convert"
          BY <3>3 DEF Op
        <4>2. x \in R /\ v = value[x]
          BY <3>1, <4>1 DEF Origin, Maker
        <4> QED
          BY <1>2, <2>3, <2>4, <2>5, <3>3, <4>2
      <3>4. CASE /\ program.instr[q].op \in {"fieldaddr", "load"}
                 /\ \E w \in PathsOf(program) :
                       /\ <<x, w>> \in T /\ u.root = w.root
                       /\ u.steps = w.steps \o Step(program.instr[q])
                       /\ u.loads = (w.loads \/ program.instr[q].op = "load")
        <4>1. PICK w \in PathsOf(program) :
                       /\ <<x, w>> \in T /\ u.root = w.root
                       /\ u.steps = w.steps \o Step(program.instr[q])
                       /\ u.loads = (w.loads \/ program.instr[q].op = "load")
          BY <3>4
        <4>2. ~w.loads /\ program.instr[q].op # "load"
          BY <1>2, <4>1, Zenon
        <4>3. Op(q) = "fieldaddr"
          BY <3>4, <4>2 DEF Op
        <4>4. /\ x \in R /\ Thing(value[x])
              /\ v = <<value[x][1], Append(value[x][2], program.instr[q].field)>>
          BY <3>1, <4>3 DEF Origin, Maker, Thing
        <4>5. value[x] \in held[x]
          BY <2>4, <4>4 DEF Thing
        <4>6. PICK z \in held[w.root] : Thing(z) /\ PartOf(z, w.steps, value[x])
          BY <4>1, <4>2, <4>4, <4>5 DEF ObjectsInv
        <4>7. Step(program.instr[q]) = << <<"&", program.instr[q].field>> >>
          BY <4>3 DEF Step, Op
        <4>8. program.instr[q].field \in STRING
          BY <2>1, <2>2 DEF InSSA, R, Registers
        <4>9. u.steps = w.steps \o Step(program.instr[q]) /\ w.steps \in Seq(StepSet)
          BY <2>1, <4>1, TracesTyped DEF PathSet
        <4>10. w.root \in R /\ z \in Value /\ value[x] \in Value
          BY <2>1, <2>2, <4>1, <4>4, <4>6 DEF StateInv
        <4> HIDE DEF x
        <4>11. PartOf(z, u.steps, v)
          BY <4>4, <4>6, <4>7, <4>8, <4>9, <4>10, PartMore
        <4>12. z \in held'[u.root]
          BY <2>2, <4>1, <4>6 DEF Moves
        <4> QED
          BY <4>6, <4>11, <4>12
      <3>5. CASE IsPhi(program, q) /\ \A i \in DOMAIN edges : <<edges[i], u>> \in T
        <4>1. Op(q) = "phi"
          BY <3>5 DEF Op, IsPhi
        <4>2. PICK i \in DOMAIN edges : edges[i] \in R /\ v = value[edges[i]]
          BY <3>1, <4>1 DEF Origin, Maker
        <4> QED
          BY <1>2, <2>3, <2>4, <2>5, <3>5, <4>2
      <3> QED
        BY <2>2, <3>2, <3>3, <3>4, <3>5 DEF Follows
    <2> QED
      BY <2>6, <2>7
  <1> QED
    BY <1>1, <1>2 DEF ObjectsInv


\* A step is one of the frames, and changes no parameter and no constant.
LEMMA GivenStep ==
    ASSUME BasicInv, GivenInv, IdentityNext
    PROVE  GivenInv' /\ BasicInv' /\ Moves
  <1>1. ASSUME NEW q, NEW v, NEW times, SetsOne(q, v, times)
        PROVE  BasicInv' /\ Moves /\ \A r \in R : Preset(r) => value'[r] = value[r]
    <2>1. BasicInv' /\ Moves
      BY <1>1, SetsOneStep
    <2>2. ASSUME NEW r \in R, Preset(r) PROVE value'[r] = value[r]
      <3>1. q \in R /\ v \in Value /\ times \in SUBSET (0..writes) /\ Sets(q, v, times) /\ Origin(q, v)
        BY <1>1, Reached DEF SetsOne, BasicInv
      <3>2. r # q
        BY <2>2, <3>1 DEF Origin, Preset, Maker
      <3> QED
        BY <3>1, <3>2, Setting DEF BasicInv
    <2> QED
      BY <2>1, <2>2
  <1>2. ASSUME SetsNone
        PROVE  BasicInv' /\ Moves /\ \A r \in R : Preset(r) => value'[r] = value[r]
    BY <1>2, SetsNoneStep DEF SetsNone
  <1>3. ASSUME NEW b, NEW edge, Enters(b, edge)
        PROVE  BasicInv' /\ Moves /\ \A r \in R : Preset(r) => value'[r] = value[r]
    <2>1. BasicInv' /\ Moves
      BY <1>3, EntersStep
    <2>2. ASSUME NEW r \in R, Preset(r) PROVE value'[r] = value[r]
      <3>1. r \in RegistersOf(program, 1)
        BY <2>2, Programmed DEF InSSA, BasicInv, R, Registers, Preset, Op
      <3>2. r \in Behind(b)
        BY <3>1 DEF Behind
      <3> QED
        BY <1>3, <3>2, Entered
    <2> QED
      BY <2>1, <2>2
  <1>4. BasicInv' /\ Moves /\ \A r \in R : Preset(r) => value'[r] = value[r]
    <2>1. CASE Makes
      BY <1>1, <2>1, MakesFrame
    <2>2. CASE Given
      BY <1>2, <2>2, GivenFrame
    <2>3. CASE Converts
      BY <1>1, <2>3, ConvertsFrame
    <2>4. CASE Reaches
      BY <1>1, <2>4, ReachesFrame
    <2>5. CASE Loads
      <3>1. \/ SetsOne(Current, At(value[Instruction.x]), seen[Instruction.x] \union {writes})
            \/ SetsOne(Current, At(EntryOf(Instruction)), seen[Instruction.x] \union {writes})
        BY <2>5, LoadsFrame
      <3> QED
        BY <1>1, <3>1
    <2>6. CASE Stores
      BY <1>2, <2>6, StoresFrame
    <2>7. CASE Calls
      BY <1>2, <2>7, CallsFrame
    <2>8. CASE Jumps
      BY <1>3, <2>8, JumpsFrame
    <2>9. CASE Copies
      BY <1>2, <2>9, CopiesFrame
    <2> QED
      BY <2>1, <2>2, <2>3, <2>4, <2>5, <2>6, <2>7, <2>8, <2>9 DEF IdentityNext
  <1>5. R' = R /\ \A r \in R : Preset(r)' <=> Preset(r)
    BY <1>4 DEF Moves, R, Preset, Op
  <1>6. ASSUME NEW r \in R, Preset(r), NEW v \in held'[r] PROVE Old(v)
    <2>1. ~Origin(r, v)
      BY <1>6 DEF Origin, Preset, Maker
    <2> QED
      BY <1>4, <1>6, <2>1 DEF Moves, GivenInv
  <1>7. GivenInv'
    BY <1>4, <1>5, <1>6 DEF GivenInv
  <1> QED
    BY <1>4, <1>7

----------------------------------------------------------------------------
(* A variable that only ever holds a parameter.                            *)

Star(var) == var \in R /\ Op(var) = "alloc" /\ holdsParameter(var)

\* Whether a value is in an object of the variable.
Has(var, v) == 1 <= v[1] /\ <<v[1], <<>>>> \in held[var]

ByLoad == << <<"*">> >>

\* No other register and no memory holds it, it holds only parameters, and so
\* does what is loaded from it.
StarInv ==
    \A var : Star(var) =>
        /\ \A q \in R \ {var} : \A v \in held[q] : ~Has(var, v)
        /\ \A a \in DOMAIN heap :
              ~Has(var, heap[a]) /\ (Has(var, a) => heap[a] = Nothing \/ Old(heap[a]))
        /\ \A q, u : <<q, u>> \in TracesOf(program) /\ u.root = var /\ u.steps = ByLoad =>
              \A v \in held[q] : Thing(v) => Old(v)

\* Its uses are loads, copies from it, and stores of a parameter into it.
LEMMA StarUses ==
    ASSUME NEW var, Star(var), NEW q \in R
    PROVE  /\ program.instr[q].x = var =>
                 \/ Op(q) = "load"
                 \/ Op(q) = "store" /\ Op(program.instr[q].y) = "param"
           /\ program.instr[q].y = var => Op(q) \in {"load", "copy"}
           /\ program.instr[q].key = var => Op(q) \in {"load", "store", "copy"}
           /\ Op(q) = "phi" => \A i \in DOMAIN program.instr[q].edges : program.instr[q].edges[i] # var
  <1>1. \A user \in Referrers(var) :
          \/ Op(user) = "load"
          \/ Op(user) = "copy" /\ program.instr[user].x # var
          \/ /\ Op(user) = "store"
             /\ Op(program.instr[user].y) = "param"
             /\ program.instr[user].x = var
    BY DEF Star, holdsParameter
  <1>2. q \in Referrers(var) <=>
            \/ var \in {program.instr[q].x, program.instr[q].y, program.instr[q].key}
            \/ \E i \in DOMAIN program.instr[q].edges : program.instr[q].edges[i] = var
    BY DEF Referrers, R, Registers
  <1>3. Op(var) = "alloc"
    BY DEF Star
  <1> QED
    BY <1>1, <1>2, <1>3

\* A register with its path is the variable.
LEMMA StarPath ==
    ASSUME StateInv, NEW var, Star(var), NEW q, NEW u, <<q, u>> \in TracesOf(program),
           u.root = var, u.steps = <<>>
    PROVE  q = var
  <1> DEFINE T == TracesOf(program)
             Bad(r, v) == <<r, v>> \in T /\ v.root = var /\ v.steps = <<>> /\ r # var
             C == {r \in R : \E v \in PathsOf(program) : Bad(r, v)}
  <1>0. InSSA(program)
    BY Programmed
  <1> SUFFICES ASSUME C # {} PROVE FALSE
    BY <1>0, TracesTyped DEF R
  <1>1. PICK r \in C : \A d \in C : ~Before(program, d, r)
    <2>1. C \in SUBSET R
      OBVIOUS
    <2> HIDE DEF C
    <2> QED
      BY <1>0, <2>1, LeastRegister DEF R
  <1>2. PICK v \in PathsOf(program) : Bad(r, v)
    BY <1>1
  <1>3. Follows(program, T, r, v) /\ r \in Registers(program)
    BY <1>0, <1>2, TracesTyped
  <1>4. ASSUME NEW x, <<x, v>> \in T, Before(program, x, r)
        PROVE  x = var
    <2>1. x \in R
      BY <1>0, <1>4, TracesTyped DEF R
    <2> QED
      BY <1>1, <1>2, <1>4, <2>1
  <1> HIDE DEF C
  <1>5. v # Base(r)
    BY <1>2, BaseParts
  <1>6. CASE program.instr[r].op = "convert" /\ <<program.instr[r].x, v>> \in T
    <2>1. Before(program, program.instr[r].x, r)
      BY <1>0, <1>3, <1>6, MadeBefore DEF Carries
    <2>2. program.instr[r].x = var
      BY <1>4, <1>6, <2>1
    <2> QED
      BY <1>3, <1>6, <2>2, StarUses DEF Op, R
  <1>7. CASE /\ program.instr[r].op \in {"fieldaddr", "load"}
             /\ \E w \in PathsOf(program) : <<program.instr[r].x, w>> \in T
                                      /\ v.steps = w.steps \o Step(program.instr[r])
    <2>1. PICK w \in PathsOf(program) : <<program.instr[r].x, w>> \in T
                                  /\ v.steps = w.steps \o Step(program.instr[r])
      BY <1>7
    <2>2. w.steps \in Seq(StepSet)
      BY <1>0, <2>1, TracesTyped DEF PathSet
    <2>3. Step(program.instr[r]) \in Seq(StepSet) /\ Len(Step(program.instr[r])) = 1
      BY <1>0, <1>3, <1>7, Steps
    <2>4. Len(v.steps) = Len(w.steps) + 1 /\ Len(w.steps) \in Nat
      BY <2>1, <2>2, <2>3, OneLonger
    <2>5. v.steps = <<>>
      BY <1>2
    <2>6. Len(v.steps) = 0
      BY <2>5
    <2> QED
      BY <2>4, <2>6
  <1>8. CASE IsPhi(program, r) /\ \A i \in DOMAIN program.instr[r].edges :
                                <<program.instr[r].edges[i], v>> \in T
    <2>1. Before(program, program.instr[r].edges[1], r) /\ 1 \in DOMAIN program.instr[r].edges
      BY <1>0, <1>3, <1>8, MadeBefore
    <2>2. program.instr[r].edges[1] = var
      BY <1>4, <1>8, <2>1
    <2> QED
      BY <1>3, <1>8, <2>1, <2>2, StarUses DEF IsPhi, Op, R
  <1> QED
    BY <1>3, <1>5, <1>6, <1>7, <1>8 DEF Follows


\* Nothing but loads and stores of parameters reaches such a variable.
LEMMA StarStep ==
    ASSUME BasicInv, MakersInv, GivenInv, StarInv, Moves
    PROVE  StarInv'
  <1> DEFINE T == TracesOf(program)
             I == program.instr
  <1>0. InSSA(program) /\ StateInv
    BY Programmed DEF BasicInv
  <1>1. R' = R /\ program' = program
    BY DEF Moves, R
  <1>2. objects \in Nat \ {0}
    BY <1>0 DEF StateInv
  <1>3. ASSUME NEW var, Star(var)
        PROVE  /\ \A q \in R \ {var} : \A v \in held'[q] : ~Has(var, v)'
               /\ \A a \in DOMAIN heap' : \A w : w = heap'[a] =>
                     ~Has(var, w)' /\ (Has(var, a)' => w = Nothing \/ Old(w))
               /\ \A q, u : <<q, u>> \in T /\ u.root = var /\ u.steps = ByLoad =>
                     \A v \in held'[q] : Thing(v) => Old(v)
    <2>1. var \in R /\ Op(var) = "alloc"
      BY <1>3 DEF Star
    <2>2. /\ \A q \in R \ {var} : \A v \in held[q] : ~Has(var, v)
          /\ \A a \in DOMAIN heap :
                ~Has(var, heap[a]) /\ (Has(var, a) => heap[a] = Nothing \/ Old(heap[a]))
          /\ \A q, u : <<q, u>> \in T /\ u.root = var /\ u.steps = ByLoad =>
                \A v \in held[q] : Thing(v) => Old(v)
      BY <1>3 DEF StarInv
    <2>3. ASSUME NEW v, There(v) \/ v = Unset, Has(var, v)'
          PROVE  Has(var, v)
      <3>1. 1 <= v[1] /\ <<v[1], <<>>>> \in held'[var]
        BY <2>3 DEF Has
      <3>2. v # Unset
        <4>1. ~(1 <= Unset[1])
          BY Constants
        <4> QED
          BY <3>1, <4>1
      <3>3. v[1] \in Int /\ v[1] < objects
        BY <2>3, <3>2, Numbers DEF There
      <3>4. CASE <<v[1], <<>>>> \in held[var]
        BY <3>1, <3>4 DEF Has
      <3>5. CASE Origin(var, <<v[1], <<>>>>)
        <4>1. <<v[1], <<>>>> = <<objects, <<>>>>
          BY <2>1, <3>5 DEF Origin
        <4>2. v[1] = objects
          BY <4>1
        <4> QED
          BY <1>2, <3>3, <4>2
      <3> QED
        BY <2>1, <3>1, <3>4, <3>5 DEF Moves
    <2>4. ~Has(var, Nothing)' /\ ~Has(var, Unset)'
      <3>1. ~(1 <= Nothing[1]) /\ ~(1 <= Unset[1])
        BY Constants
      <3> QED
        BY <3>1 DEF Has
    <2>5. ASSUME NEW x \in R, x # var, NEW v, v = value[x]
          PROVE  ~Has(var, v)'
      <3>1. CASE v = Unset
        BY <2>4, <3>1
      <3>2. CASE v # Unset
        <4>1. v \in held[x]
          BY <1>0, <2>5, <3>2 DEF StateInv
        <4>2. There(v) \/ v = Unset
          BY <2>5, <4>1 DEF BasicInv, ThingsInv
        <4> QED
          BY <2>2, <2>3, <2>5, <4>1, <4>2
      <3> QED
        BY <3>1, <3>2
    <2>6. ASSUME NEW a \in DOMAIN heap, NEW v, v = heap[a]
          PROVE  ~Has(var, v)'
      <3>1. There(v) /\ ~Has(var, v)
        BY <2>2, <2>6 DEF BasicInv, ThingsInv
      <3> QED
        BY <2>3, <3>1
    <2>7. ASSUME NEW v, NEW w, v[1] = w[1], ~Has(var, w)'
          PROVE  ~Has(var, v)'
      BY <2>7 DEF Has
    <2>8. ASSUME NEW q \in R, q # var, NEW v \in held'[q]
          PROVE  ~Has(var, v)'
      <3> DEFINE x == I[q].x
                 edges == I[q].edges
      <3>1. CASE v \in held[q]
        <4>1. (There(v) \/ v = Unset) /\ ~Has(var, v)
          BY <2>2, <2>8, <3>1 DEF BasicInv, ThingsInv
        <4> QED
          BY <2>3, <4>1
      <3>2. CASE Maker(q) /\ q = Current /\ v = <<objects, <<>>>>
        <4>1. SUFFICES ASSUME Has(var, v)' PROVE FALSE
          OBVIOUS
        <4>2. v[1] = objects
          BY <3>2
        <4>3. v \in held'[var]
          BY <3>2, <4>1, <4>2 DEF Has
        <4>4. CASE v \in held[var]
          <5>1. v = Unset \/ v[1] < objects
            BY <2>1, <4>4 DEF BasicInv, ThingsInv, There
          <5>2. objects # -2 /\ ~(objects < objects)
            BY <1>2
          <5> QED
            BY <4>2, <5>1, <5>2, Constants
        <4>5. CASE Origin(var, v)
          <5>1. var = Current
            BY <2>1, <4>5 DEF Origin
          <5> QED
            BY <2>8, <3>2, <5>1
        <4> QED
          BY <2>1, <4>3, <4>4, <4>5 DEF Moves
      <3>3. CASE Op(q) = "convert" /\ x \in R /\ v = value[x]
        <4>1. x # var
          BY <1>3, <3>3, StarUses
        <4> QED
          BY <2>5, <3>3, <4>1
      <3>4. CASE /\ Op(q) = "fieldaddr" /\ x \in R
                 /\ v = <<value[x][1], Append(value[x][2], I[q].field)>>
        <4>1. x # var
          BY <1>3, <3>4, StarUses
        <4>3. PICK y : y = value[x]
          OBVIOUS
        <4>4. ~Has(var, y)'
          BY <2>5, <3>4, <4>1, <4>3
        <4>5. v[1] = y[1]
          BY <3>4, <4>3
        <4> QED
          BY <2>7, <4>4, <4>5
      <3>5. CASE v = Nothing \/ \E a \in DOMAIN heap : v = heap[a]
        BY <2>4, <2>6, <3>5
      <3>6. CASE Op(q) = "phi" /\ \E i \in DOMAIN edges : edges[i] \in R /\ v = value[edges[i]]
        <4>1. PICK i \in DOMAIN edges : edges[i] \in R /\ v = value[edges[i]]
          BY <3>6
        <4>2. edges[i] # var
          BY <1>3, <3>6, StarUses
        <4> QED
          BY <2>5, <4>1, <4>2
      <3>7. v \in held[q] \/ Origin(q, v)
        BY <2>8 DEF Moves
      <3> QED
        BY <3>1, <3>2, <3>3, <3>4, <3>5, <3>6, <3>7 DEF Origin
    <2>9. ASSUME NEW a \in DOMAIN heap', NEW w, w = heap'[a]
          PROVE  ~Has(var, w)' /\ (Has(var, a)' => w = Nothing \/ Old(w))
      <3>1. CASE a \in DOMAIN heap /\ (heap'[a] = heap[a] \/ heap'[a] = Nothing)
        <4>1. There(a)
          BY <3>1 DEF BasicInv, ThingsInv
        <4>2. Has(var, a)' => heap[a] = Nothing \/ Old(heap[a])
          BY <2>2, <2>3, <3>1, <4>1
        <4>3. ~Has(var, w)'
          BY <2>4, <2>6, <2>9, <3>1
        <4> QED
          BY <2>9, <3>1, <4>2, <4>3
      <3>2. ASSUME NEW q \in R, I[q].x \in R, I[q].y \in R, value[I[q].y] # Unset,
                   heap'[a] = value[I[q].y], Op(q) = "store", a = value[I[q].x]
            PROVE  ~Has(var, w)' /\ (Has(var, a)' => Old(w))
        <4>1. I[q].y # var
          BY <1>3, <3>2, StarUses
        <4>2. ~Has(var, w)'
          BY <2>5, <2>9, <3>2, <4>1
        <4>3. CASE I[q].x = var
          <5>1. Op(I[q].y) = "param"
            BY <1>3, <3>2, <4>3, StarUses
          <5>2. w \in held[I[q].y]
            BY <1>0, <2>9, <3>2 DEF StateInv
          <5>3. Old(w)
            BY <3>2, <5>1, <5>2 DEF GivenInv, Preset
          <5> QED
            BY <4>2, <5>3
        <4>4. CASE I[q].x # var
          <5>1. ~Has(var, a)'
            BY <2>5, <3>2, <4>4
          <5> QED
            BY <4>2, <5>1
        <4> QED
          BY <4>3, <4>4
      <3>3. ASSUME NEW q \in R, I[q].x \in R, I[q].y \in R,
                   heap'[a] = value[I[q].y], Op(q) = "mapupdate",
                   a = <<value[I[q].x][1], value[I[q].key][2]>>
            PROVE  ~Has(var, w)' /\ ~Has(var, a)'
        <4>1. I[q].y # var /\ I[q].x # var
          BY <1>3, <3>3, StarUses
        <4>2. ~Has(var, w)'
          BY <2>5, <2>9, <3>3, <4>1
        <4>3. PICK y : y = value[I[q].x]
          OBVIOUS
        <4>4. ~Has(var, y)'
          BY <2>5, <3>3, <4>1, <4>3
        <4>5. a[1] = y[1]
          BY <3>3, <4>3
        <4> QED
          BY <2>7, <4>2, <4>4, <4>5
      <3>4. Wrote(a)
        BY <2>9 DEF Moves
      <3>6. ASSUME a \in DOMAIN heap, Reachable(a), NEW b \in DOMAIN heap, heap'[a] = heap[b]
            PROVE  ~Has(var, w)' /\ ~Has(var, a)'
        <4>1. ~Has(var, w)'
          BY <2>6, <2>9, <3>6
        <4>2. CASE a[1] <= 0
          <5>1. a[1] \in Int
            BY <3>6, Numbers DEF BasicInv, ThingsInv, There
          <5>2. ~(1 <= a[1])
            BY <4>2, <5>1
          <5> QED
            BY <4>1, <5>2 DEF Has
        <4>3. CASE \E place \in DOMAIN heap : heap[place][1] = a[1]
          <5>1. PICK place \in DOMAIN heap : heap[place][1] = a[1]
            BY <4>3
          <5>2. PICK y : y = heap[place]
            OBVIOUS
          <5>3. ~Has(var, y)' /\ a[1] = y[1]
            BY <2>6, <5>1, <5>2
          <5> QED
            BY <2>7, <4>1, <5>3
        <4> QED
          BY <3>6, <4>2, <4>3 DEF Reachable
      <3>7. ASSUME NEW q \in R, Op(q) = "copy", I[q].x \in R, a[1] = value[I[q].x][1],
                   heap'[a] = Nothing \/ \E b \in DOMAIN heap : heap'[a] = heap[b]
            PROVE  ~Has(var, w)' /\ ~Has(var, a)'
        <4>1. I[q].x # var
          BY <1>3, <3>7, StarUses
        <4>2. PICK y : y = value[I[q].x]
          OBVIOUS
        <4>3. ~Has(var, y)' /\ a[1] = y[1]
          BY <2>5, <3>7, <4>1, <4>2
        <4>4. ~Has(var, w)'
          BY <2>4, <2>6, <2>9, <3>7
        <4> QED
          BY <2>7, <4>3, <4>4
      <3>5. CASE \E q \in R :
                  /\ I[q].x \in R /\ I[q].y \in R /\ value[I[q].y] # Unset
                  /\ heap'[a] = value[I[q].y]
                  /\ \/ Op(q) = "store" /\ a = value[I[q].x]
                     \/ Op(q) = "mapupdate" /\ a = <<value[I[q].x][1], value[I[q].key][2]>>
        BY <3>2, <3>3, <3>5
      <3> QED
        BY <3>1, <3>4, <3>5, <3>6, <3>7 DEF Wrote
    <2>10. ASSUME NEW q, NEW u, <<q, u>> \in T, u.root = var, u.steps = ByLoad,
                  NEW v \in held'[q], Thing(v)
           PROVE  Old(v)
      <3> DEFINE x == I[q].x
                 edges == I[q].edges
      <3>1. q \in R /\ Follows(program, T, q, u)
        BY <1>0, <2>10, TracesTyped DEF R
      <3>2. \A d \in R : value[d] # Unset => value[d] \in held[d]
        BY <1>0 DEF StateInv
      <3>3. v # Unset /\ v # Nothing
        BY <2>10 DEF Thing
      <3>4. CASE v \in held[q]
        BY <2>2, <2>10, <3>4
      <3>5. CASE v \notin held[q]
        <4>1. Origin(q, v)
          BY <2>10, <3>1, <3>5 DEF Moves
        <4>2. u # Base(q)
          <5>1. Len(ByLoad) = 1 /\ Len(<<>>) = 0
            BY DEF ByLoad
          <5> QED
            BY <2>10, <5>1, BaseParts
        <4>3. CASE I[q].op = "convert" /\ <<x, u>> \in T
          <5>1. x \in R /\ v = value[x]
            BY <4>1, <4>3 DEF Origin, Maker, Op
          <5> QED
            BY <2>2, <2>10, <3>2, <3>3, <4>3, <5>1
        <4>4. CASE /\ I[q].op \in {"fieldaddr", "load"}
                   /\ \E w \in PathsOf(program) :
                         <<x, w>> \in T /\ u.root = w.root /\ u.steps = w.steps \o Step(I[q])
          <5>1. PICK w \in PathsOf(program) :
                         <<x, w>> \in T /\ u.root = w.root /\ u.steps = w.steps \o Step(I[q])
            BY <4>4
          <5>2. w.steps \in Seq(StepSet)
            BY <1>0, <5>1, TracesTyped DEF PathSet
          <5>3. Step(I[q]) \in Seq(StepSet) /\ Len(Step(I[q])) = 1
            BY <1>0, <3>1, <4>4, Steps DEF R
          <5>4. Len(u.steps) = Len(w.steps) + 1 /\ Len(w.steps) \in Nat
            BY <5>1, <5>2, <5>3, OneLonger
          <5>5. Len(u.steps) = 1
            BY <2>10 DEF ByLoad
          <5>6. Len(w.steps) = 0
            <6>1. \A n \in Nat : n + 1 = 1 => n = 0
              OBVIOUS
            <6> QED
              BY <5>4, <5>5, <6>1
          <5>7. w.steps = <<>>
            BY <5>2, <5>6
          <5>8. x = var
            BY <1>0, <1>3, <2>10, <5>1, <5>7, StarPath
          <5>9. Op(q) = "load"
            BY <1>3, <3>1, <4>4, <5>8, StarUses DEF Op
          <5>10. value[x] \in DOMAIN heap /\ v = heap[value[x]] /\ value[x] # Unset
            BY <3>3, <4>1, <5>9 DEF Origin, Maker
          <5>11. value[x] \in held[var]
            BY <2>1, <3>2, <5>8, <5>10
          <5>12. value[x] = <<value[x][1], <<>>>> /\ 1 <= value[x][1]
            BY <2>1, <5>10, <5>11 DEF MakersInv, Maker
          <5>13. Has(var, value[x])
            BY <5>11, <5>12 DEF Has
          <5> QED
            BY <2>2, <3>3, <5>10, <5>13
        <4>5. CASE IsPhi(program, q) /\ \A i \in DOMAIN edges : <<edges[i], u>> \in T
          <5>1. PICK i \in DOMAIN edges : edges[i] \in R /\ v = value[edges[i]]
            BY <4>1, <4>5 DEF Origin, Maker, Op, IsPhi
          <5> QED
            BY <2>2, <2>10, <3>2, <3>3, <4>5, <5>1
        <4> QED
          BY <3>1, <4>2, <4>3, <4>4, <4>5 DEF Follows
      <3> QED
        BY <3>4, <3>5
    <2> QED
      BY <2>8, <2>9, <2>10
  <1>4. \A var : Star(var)' <=> Star(var)
    BY <1>1 DEF Star, holdsParameter, Referrers, Op
  <1> QED
    BY <1>1, <1>3, <1>4 DEF StarInv


----------------------------------------------------------------------------
(* The invariant of what registers held.                                   *)

HeldInv ==
    BasicInv /\ GivenInv /\ MakersInv /\ ObjectsInv /\ StarInv

\* The invariant holds at the start.
LEMMA HeldInit ==
    ASSUME IdentityInit
    PROVE  HeldInv
  <1>1. PICK arguments \in Arguments :
          /\ program \in Programs
          /\ paths = [register \in DOMAIN program.instr |-> pathOf(program.instr, register)]
          /\ at = <<1, 1>>
          /\ value = [register \in DOMAIN program.instr |->
                         IF program.instr[register].op \in {"param", "const"}
                         THEN arguments[register] ELSE Unset]
          /\ seen = [register \in DOMAIN program.instr |-> {}]
          /\ held = [register \in DOMAIN program.instr |-> {value[register]}]
          /\ heap \in Heaps
          /\ writes = 0
          /\ objects = 1
    BY DEF IdentityInit
  <1>2. R = DOMAIN program.instr
    BY DEF R, Registers
  <1>3. \A r \in R : Preset(r) => Old(value[r])
    BY <1>1, <1>2, FunctionsAssumption DEF Preset, Op
  <1>4. \A r \in R : ~Preset(r) => value[r] = Unset
    BY <1>1, <1>2 DEF Preset, Op
  <1>5. \A r \in R : held[r] = {value[r]} /\ seen[r] = {}
    BY <1>1, <1>2
  <1>6. ASSUME NEW v, Old(v) PROVE There(v) /\ v \in Value /\ v # Unset
    <2>1. v \in Int \X Seq(STRING) /\ v[1] <= 0 /\ v[1] # Unset[1]
      BY <1>6 DEF Old
    <2>2. v \in Value /\ v[1] \in Int
      BY <2>1 DEF Value
    <2>3. v[1] < objects
      BY <1>1, <2>1, <2>2
    <2> QED
      BY <2>1, <2>2, <2>3 DEF There
  <1>7. StateInv
    <2>1. \A r \in R : value[r] \in Value
      BY <1>3, <1>4, <1>6, Constants
    <2>2. value = [r \in R |-> value[r]]
      BY <1>1, <1>2
    <2>3. value \in [R -> Value]
      BY <2>1, <2>2
    <2>4. seen \in [R -> SUBSET (0..writes)]
      BY <1>1, <1>2
    <2>5. held \in [R -> SUBSET Value]
      BY <1>1, <1>2, <2>1
    <2>6. at \in (1..3) \X (Nat \ {0}) /\ writes \in Nat /\ objects \in Nat \ {0}
      BY <1>1
    <2> QED
      BY <1>1, <1>2, <1>5, <2>3, <2>4, <2>5, <2>6 DEF StateInv
  <1>8. ThingsInv
    <2>1. \A a \in DOMAIN heap : Old(a) /\ Old(heap[a])
      BY <1>1, FunctionsAssumption
    <2> QED
      BY <1>3, <1>4, <1>5, <1>6, <2>1 DEF ThingsInv
  <1>9. OrderInv
    <2>1. \A b \in 1..3 : \A i \in DOMAIN program.blocks[b] : i \in Nat /\ i >= 1
      <3>1. \A b \in 1..3 : program.blocks[b] \in Seq(R)
        BY <1>7, Programmed, Placed DEF R
      <3> QED
        BY <3>1
    <2>2. at[1] = 1 /\ at[2] = 1
      BY <1>1
    <2>3. \A r : ~Passed(r)
      BY <2>1, <2>2 DEF Passed
    <2> QED
      BY <1>2, <1>4, <2>3 DEF OrderInv, ValuesOf
  <1>10. GivenInv
    BY <1>3, <1>5, <1>6 DEF GivenInv
  <1>11. \A r \in R : Op(r) \in {"alloc", "makemap", "closure", "trigger", "fieldaddr"} => held[r] = {Unset}
    BY <1>4, <1>5 DEF Preset
  <1>12. MakersInv
    <2>1. \A r \in R : Maker(r) => held[r] = {Unset}
      BY <1>11 DEF Maker
    <2>2. \A r \in R : Maker(r) => \A v \in held[r] : v = Unset
      BY <2>1
    <2> QED
      BY <2>2 DEF MakersInv
  <1>14. ASSUME NEW q \in R, NEW v \in held[q], Thing(v)
         PROVE  Preset(q) /\ Old(v)
    BY <1>3, <1>4, <1>5, <1>14 DEF Thing
  <1>15. ObjectsInv
    <2>1. ASSUME NEW q, NEW u, <<q, u>> \in TracesOf(program), NEW v \in held[q], Thing(v)
          PROVE  \E z \in held[u.root] : Thing(z) /\ PartOf(z, u.steps, v)
      <3>1. q \in R /\ Follows(program, TracesOf(program), q, u)
        BY <1>7, <2>1, Programmed, TracesTyped DEF R
      <3>2. Op(q) \in {"param", "const"}
        BY <1>14, <2>1, <3>1 DEF Preset
      <3>3. u = Base(q)
        BY <3>1, <3>2 DEF Follows, Op, IsPhi
      <3>4. v \in Value
        BY <1>6, <1>14, <2>1, <3>1
      <3> QED
        BY <2>1, <3>3, <3>4, BaseParts, PartItself
    <2> QED
      BY <2>1 DEF ObjectsInv
  <1>16. StarInv
    <2>1. ASSUME NEW var, Star(var), NEW v PROVE ~Has(var, v)
      <3>1. held[var] = {Unset}
        BY <1>11, <2>1 DEF Star
      <3>2. SUFFICES ASSUME 1 <= v[1], <<v[1], <<>>>> = Unset PROVE FALSE
        BY <3>1 DEF Has
      <3>3. v[1] = Unset[1]
        BY <3>2
      <3>4. ~(1 <= Unset[1])
        BY Constants
      <3> QED
        BY <3>2, <3>3, <3>4
    <2>2. \A q, u : <<q, u>> \in TracesOf(program) => \A v \in held[q] : Thing(v) => Old(v)
      BY <1>7, <1>14, Programmed, TracesTyped DEF R
    <2> QED
      BY <2>1, <2>2 DEF StarInv
  <1> QED
    BY <1>7, <1>8, <1>9, <1>10, <1>12, <1>15, <1>16 DEF HeldInv, BasicInv

\* Every step keeps it.
LEMMA HeldStep ==
    ASSUME HeldInv, [IdentityNext]_identityVars
    PROVE  HeldInv'
  <1>1. GivenInv' /\ BasicInv' /\ Moves
    <2>1. CASE IdentityNext
      BY <2>1, GivenStep DEF HeldInv
    <2>2. CASE UNCHANGED identityVars
      <3>1. /\ program' = program /\ paths' = paths /\ at' = at /\ value' = value /\ seen' = seen
            /\ held' = held /\ heap' = heap /\ writes' = writes /\ objects' = objects
        BY <2>2 DEF identityVars
      <3>2. R' = R /\ (\A r : Preset(r)' <=> Preset(r)) /\ (\A r : Passed(r)' <=> Passed(r))
            /\ (\A v : There(v)' <=> There(v))
        BY <3>1 DEF R, Preset, Op, Passed, There
      <3>3. GivenInv'
        BY <3>1, <3>2 DEF HeldInv, GivenInv
      <3>4. StateInv'
        BY <3>1, <3>2 DEF HeldInv, BasicInv, StateInv
      <3>5. ThingsInv'
        BY <3>1, <3>2 DEF HeldInv, BasicInv, ThingsInv
      <3>6. OrderInv'
        BY <3>1, <3>2 DEF HeldInv, BasicInv, OrderInv
      <3>7. Moves
        BY <3>1 DEF Moves, Wrote
      <3> QED
        BY <3>3, <3>4, <3>5, <3>6, <3>7 DEF BasicInv
    <2> QED
      BY <2>1, <2>2
  <1> QED
    BY <1>1, MakersStep, ObjectsStep, StarStep DEF HeldInv

\* So it always holds.
LEMMA HeldAlways == IdentitySpec => []HeldInv
  BY HeldInit, HeldStep, PTL DEF IdentitySpec

\* Two fresh roots have no object in common.
LEMMA FreshApart ==
    ASSUME HeldInv, NEW one \in R, NEW other \in R, Maker(one), Maker(other), one # other,
           NEW v \in held[one], NEW w \in held[other], v[1] = w[1], Thing(v)
    PROVE  FALSE
  BY DEF HeldInv, MakersInv, Thing

\* The path of a register, and where it leads.
LEMMA PathsHeld ==
    ASSUME HeldInv, StepsEnd(program.instr), NEW r \in R
    PROVE  /\ <<r, paths[r]>> \in TracesOf(program) /\ paths[r].root \in R
           /\ paths[r].steps = <<>> => ~paths[r].loads
           /\ ~paths[r].loads => \A v \in Objects(r) :
                 \E z \in held[paths[r].root] :
                    Thing(z) /\ z[1] = v[1] /\ PartOf(z, paths[r].steps, v)
  <1>1. StateInv /\ InSSA(program) /\ ObjectsInv
    BY Programmed DEF HeldInv, BasicInv
  <1>2. <<r, paths[r]>> \in TracesOf(program)
    BY <1>1, PathsTraced DEF StateInv, R
  <1>3. paths[r].root \in R /\ (paths[r].steps = <<>> => ~paths[r].loads)
    BY <1>1, <1>2, RootRegister, LoadSteps
  <1>4. ASSUME ~paths[r].loads, NEW v \in Objects(r)
        PROVE  \E z \in held[paths[r].root] :
                  Thing(z) /\ z[1] = v[1] /\ PartOf(z, paths[r].steps, v)
    <2>1. v \in held[r] /\ Thing(v)
      BY <1>4 DEF Objects, Thing
    <2>2. PICK z \in held[paths[r].root] : Thing(z) /\ PartOf(z, paths[r].steps, v)
      BY <1>1, <1>2, <1>4, <2>1 DEF ObjectsInv
    <2>3. z[1] = v[1]
      BY <2>2 DEF PartOf
    <2> QED
      BY <2>2, <2>3
  <1> QED
    BY <1>2, <1>3, <1>4

\* Registers told apart hold no object in common.
LEMMA DistinctHeld ==
    ASSUME HeldInv, StepsEnd(program.instr)
    PROVE  NoMeansDistinct
  <1>1. SUFFICES ASSUME NEW one \in DOMAIN paths, NEW other \in DOMAIN paths,
                        NEW v \in Objects(one), v \in Objects(other),
                        satisfied(paths[one], paths[other]) = "no"
                 PROVE  FALSE
    BY DEF NoMeansDistinct
  <1>2. one \in R /\ other \in R
    BY DEF HeldInv, BasicInv, StateInv
  <1> DEFINE a == paths[one]
             b == paths[other]
  <1>3. \A r \in R : fresh(r) => Maker(r)
    BY DEF fresh, allocated, Maker
  <1>4. ASSUME NEW c \in R, NEW d \in R, v \in Objects(c), v \in Objects(d),
               freshBeside(paths[c], paths[d])
        PROVE  FALSE
    <2>1. /\ Op(paths[c].root) # "param" /\ fresh(paths[c].root) /\ ~paths[c].loads
          /\ received(paths[d])
      BY <1>4 DEF freshBeside
    <2>2. PICK z \in held[paths[c].root] : Thing(z) /\ z[1] = v[1]
      BY <1>4, <2>1, PathsHeld
    <2>3. Maker(paths[c].root) /\ paths[c].root \in R
      BY <1>3, <1>4, <2>1, PathsHeld
    <2>4. 1 <= z[1] /\ z[1] \in Int
      <3>1. 1 <= z[1]
        BY <2>2, <2>3 DEF HeldInv, MakersInv, Thing
      <3>2. z \in Value
        BY <2>2, <2>3 DEF HeldInv, BasicInv, StateInv
      <3> QED
        BY <3>1, <3>2, Numbers
    <2>5. ASSUME NEW y, Old(y), y[1] = v[1] PROVE FALSE
      <3>1. y[1] <= 0
        BY <2>5 DEF Old
      <3> QED
        BY <2>2, <2>4, <2>5, <3>1
    <2>6. CASE Op(paths[d].root) = "param" /\ paths[d].steps = <<>>
      <3>1. PICK y \in held[paths[d].root] : Thing(y) /\ y[1] = v[1]
        BY <1>4, <2>6, PathsHeld
      <3>2. paths[d].root \in R
        BY <1>4, PathsHeld
      <3>3. Old(y)
        BY <2>6, <3>1, <3>2 DEF HeldInv, GivenInv, Preset
      <3> QED
        BY <2>5, <3>1, <3>3
    <2>7. CASE /\ Op(paths[d].root) = "alloc" /\ paths[d].steps = ByLoad
               /\ holdsParameter(paths[d].root)
      <3>1. Star(paths[d].root)
        BY <1>4, <2>7, PathsHeld DEF Star
      <3>2. <<d, paths[d]>> \in TracesOf(program)
        BY <1>4, PathsHeld
      <3>3. v \in held[d] /\ Thing(v)
        BY <1>4 DEF Objects, Thing
      <3>4. Old(v)
        BY <2>7, <3>1, <3>2, <3>3 DEF HeldInv, StarInv
      <3> QED
        BY <2>5, <3>4
    <2> QED
      BY <2>1, <2>6, <2>7 DEF received, ByLoad
  <1>5. CASE freshBeside(b, a) \/ freshBeside(a, b)
    BY <1>1, <1>2, <1>4, <1>5
  <1>6. CASE comparePaths(a, b) = "no"
    <2>1. ~a.loads /\ ~b.loads /\ a.root # b.root /\ fresh(a.root) /\ fresh(b.root)
      BY <1>6 DEF comparePaths
    <2>2. PICK y \in held[a.root] : Thing(y) /\ y[1] = v[1]
      BY <1>1, <1>2, <2>1, PathsHeld
    <2>3. PICK z \in held[b.root] : Thing(z) /\ z[1] = v[1]
      BY <1>1, <1>2, <2>1, PathsHeld
    <2>4. a.root \in R /\ b.root \in R /\ Maker(a.root) /\ Maker(b.root)
      BY <1>2, <1>3, <2>1, PathsHeld
    <2> QED
      BY <2>1, <2>2, <2>3, <2>4, FreshApart
  <1> QED
    BY <1>1, <1>5, <1>6 DEF satisfied

\* Whatever the function and its memory: two registers told apart never hold
\* one value (identity.go, compare), when no phi is made from itself through a
\* field or a load.
THEOREM ToldApart ==
    ASSUME \A each \in Programs : StepsEnd(each.instr)
    PROVE  IdentitySpec => []NoMeansDistinct
  <1>1. HeldInv => NoMeansDistinct
    BY DistinctHeld DEF HeldInv, BasicInv, StateInv
  <1> QED
    BY <1>1, HeldAlways, PTL


----------------------------------------------------------------------------
(* Parts of one object.                                                    *)

\* The start of an address of a part of a struct.
LEMMA Prefixed ==
    ASSUME NEW T, NEW s \in Seq(T), NEW t \in Seq(T), IsPrefix(s, t)
    PROVE  Len(s) <= Len(t) /\ \A i \in 1..Len(s) : s[i] = t[i]
  <1>1. Len(s) \in Nat /\ Len(t) \in Nat /\ Len(s) <= Len(t)
    BY DEF IsPrefix
  <1>2. ASSUME NEW i \in 1..Len(s) PROVE s[i] = t[i]
    <2>1. SubSeq(s, 1, Len(s))[i] = s[i] /\ SubSeq(t, 1, Len(s))[i] = t[i]
      BY <1>1, <1>2
    <2> QED
      BY <2>1 DEF IsPrefix
  <1> QED
    BY <1>1, <1>2

\* What agrees with it up to its end is one.
LEMMA PrefixHolds ==
    ASSUME NEW T, NEW s \in Seq(T), NEW t \in Seq(T),
           Len(s) <= Len(t), \A i \in 1..Len(s) : s[i] = t[i]
    PROVE  IsPrefix(s, t)
  <1>1. Len(s) \in Nat /\ Len(t) \in Nat
    OBVIOUS
  <1> DEFINE u == SubSeq(t, 1, Len(s))
             v == SubSeq(s, 1, Len(s))
  <1>2. /\ u \in Seq(T) /\ Len(u) = Len(s) /\ v \in Seq(T) /\ Len(v) = Len(s)
        /\ \A i \in 1..Len(s) : u[i] = t[i] /\ v[i] = s[i]
    BY <1>1
  <1> HIDE DEF u, v
  <1>3. u = v
    <2>1. \A i \in 1..Len(u) : u[i] = v[i]
      BY <1>2
    <2> QED
      BY <1>2, <2>1, SeqEqual
  <1> QED
    BY <1>3 DEF IsPrefix, u, v

\* Steps that lead to a struct are a start of those that lead to a part of it.
LEMMA CoveringSteps ==
    ASSUME HeldInv, OneType, StepsEnd(program.instr),
           NEW one \in R, NEW other \in R, ~paths[one].loads, ~paths[other].loads,
           paths[one].root = paths[other].root,
           NEW v \in Objects(one), NEW w \in Objects(other), Covers(v, w)
    PROVE  IsPrefix(paths[one].steps, paths[other].steps)
  <1> DEFINE root == paths[one].root
             a == paths[one].steps
             b == paths[other].steps
  <1>1. PICK z \in held[root] : Thing(z) /\ PartOf(z, a, v)
    BY PathsHeld
  <1>2. PICK y \in held[root] : Thing(y) /\ PartOf(y, b, w)
    BY PathsHeld
  <1>3. root \in R /\ root \in DOMAIN paths
    BY PathsHeld DEF HeldInv, BasicInv, StateInv
  <1>4. v \in Value /\ w \in Value /\ z \in Value /\ y \in Value
    BY <1>1, <1>2, <1>3 DEF HeldInv, BasicInv, StateInv, Objects
  <1>5. z \in Objects(root) /\ y \in Objects(root)
    BY <1>1, <1>2 DEF Objects, Thing
  <1>6. a \in Seq(StepSet) /\ b \in Seq(StepSet)
    <2>1. InSSA(program)
      BY Programmed DEF HeldInv, BasicInv
    <2>2. \A r \in R : <<r, paths[r]>> \in TracesOf(program)
      BY PathsHeld
    <2>3. \A r \in R : paths[r] \in PathSet(program)
      BY <2>1, <2>2, TracesTyped
    <2> QED
      BY <2>3 DEF PathSet
  <1> DEFINE l == Len(z[2])
             k == Len(y[2])
             m == Len(a)
             n == Len(b)
             p == v[2]
             q == w[2]
  <1>7. /\ z[2] \in Seq(STRING) /\ y[2] \in Seq(STRING) /\ p \in Seq(STRING) /\ q \in Seq(STRING)
        /\ l \in Nat /\ k \in Nat /\ m \in Nat /\ n \in Nat
    BY <1>4, <1>6 DEF Value
  <1>8. /\ v[1] = z[1] /\ Len(p) = l + m
        /\ \A i \in 1..l : p[i] = z[2][i]
        /\ \A i \in 1..m : a[i] = <<"&", p[l + i]>>
    BY <1>1 DEF PartOf
  <1>9. /\ w[1] = y[1] /\ Len(q) = k + n
        /\ \A i \in 1..k : q[i] = y[2][i]
        /\ \A i \in 1..n : b[i] = <<"&", q[k + i]>>
    BY <1>2 DEF PartOf
  <1>10. v[1] = w[1] /\ Len(p) <= Len(q) /\ \A i \in 1..Len(p) : p[i] = q[i]
    BY <1>7, Prefixed DEF Covers
  <1> HIDE DEF root, a, b, l, k, m, n, p, q
  <1>11. \A i \in 1..l : z[2][i] = q[i]
    BY <1>7, <1>8, <1>10
  <1>12. z = y
    <2>1. CASE l <= k
      <3>1. \A i \in 1..l : z[2][i] = y[2][i]
        BY <1>7, <1>9, <1>11, <2>1
      <3>2. IsPrefix(z[2], y[2])
        BY <1>7, <2>1, <3>1, PrefixHolds DEF l, k
      <3>3. Covers(z, y)
        BY <1>8, <1>9, <1>10, <3>2 DEF Covers
      <3> QED
        BY <1>3, <1>5, <3>3 DEF OneType
    <2>2. CASE k <= l
      <3>1. \A i \in 1..k : y[2][i] = z[2][i]
        BY <1>7, <1>9, <1>11, <2>2
      <3>2. IsPrefix(y[2], z[2])
        BY <1>7, <2>2, <3>1, PrefixHolds DEF l, k
      <3>3. Covers(y, z)
        BY <1>8, <1>9, <1>10, <3>2 DEF Covers
      <3> QED
        BY <1>3, <1>5, <3>3 DEF OneType
    <2> QED
      BY <1>7, <2>1, <2>2
  <1>13. l = k
    BY <1>12 DEF l, k
  <1>14. m <= n
    BY <1>7, <1>8, <1>9, <1>10, <1>13
  <1>15. ASSUME NEW i \in 1..m PROVE a[i] = b[i]
    <2>1. i \in 1..n /\ l + i \in 1..Len(p)
      BY <1>7, <1>8, <1>14, <1>15
    <2>2. p[l + i] = q[l + i]
      BY <1>10, <2>1
    <2>3. a[i] = <<"&", p[l + i]>> /\ b[i] = <<"&", q[l + i]>>
      BY <1>8, <1>9, <1>13, <1>15, <2>1
    <2> QED
      BY <2>2, <2>3
  <1> QED
    BY <1>6, <1>14, <1>15, PrefixHolds DEF m, n, a, b

\* Locations said to part overlap in nothing.
LEMMA PartsHeld ==
    ASSUME HeldInv, OneType, StepsEnd(program.instr)
    PROVE  LocationsPart
  <1>1. SUFFICES ASSUME NEW one \in DOMAIN paths, NEW other \in DOMAIN paths,
                        sameLocation(paths[one], paths[other]) = "no",
                        Part(paths[one], paths[other]),
                        NEW v \in Objects(one), NEW w \in Objects(other),
                        Covers(v, w) \/ Covers(w, v)
                 PROVE  FALSE
    BY DEF LocationsPart, Overlap
  <1>2. one \in R /\ other \in R
    BY DEF HeldInv, BasicInv, StateInv
  <1> DEFINE a == paths[one]
             b == paths[other]
  <1>3. /\ ~a.loads /\ ~b.loads
        /\ a.root = b.root \/ (allocated(a.root) /\ allocated(b.root))
    BY <1>1 DEF sameLocation
  <1>4. CASE a.root # b.root
    <2>1. PICK y \in held[a.root] : Thing(y) /\ y[1] = v[1]
      BY <1>2, <1>3, PathsHeld
    <2>2. PICK z \in held[b.root] : Thing(z) /\ z[1] = w[1]
      BY <1>2, <1>3, PathsHeld
    <2>3. a.root \in R /\ b.root \in R /\ Maker(a.root) /\ Maker(b.root)
      BY <1>2, <1>3, <1>4, PathsHeld DEF allocated, Maker
    <2>4. v[1] = w[1]
      BY <1>1 DEF Covers
    <2> QED
      BY <1>4, <2>1, <2>2, <2>3, <2>4, FreshApart
  <1>5. CASE a.root = b.root
    <2>1. CASE Covers(v, w)
      <3>1. IsPrefix(a.steps, b.steps)
        BY <1>2, <1>3, <1>5, <2>1, CoveringSteps
      <3> QED
        BY <1>1, <1>5, <3>1 DEF Part
    <2>2. CASE Covers(w, v)
      <3>1. IsPrefix(b.steps, a.steps)
        BY <1>2, <1>3, <1>5, <2>2, CoveringSteps
      <3> QED
        BY <1>1, <1>5, <3>1 DEF Part
    <2> QED
      BY <1>1, <2>1, <2>2
  <1> QED
    BY <1>4, <1>5

\* Whatever the function and its memory: two locations said to be apart that part
\* at a field, or are from two allocations, never overlap, a whole struct and its
\* parts included (slot.go, sameLocation), as long as a register holds addresses
\* of one type.
THEOREM FieldsApart ==
    ASSUME \A each \in Programs : StepsEnd(each.instr)
    PROVE  IdentitySpec /\ []OneType => []LocationsPart
  <1>1. HeldInv /\ OneType => LocationsPart
    BY PartsHeld DEF HeldInv, BasicInv, StateInv
  <1> QED
    BY <1>1, HeldAlways, PTL


----------------------------------------------------------------------------
(* What a path reads.                                                      *)

Read(h, v) == IF v \in DOMAIN h THEN h[v] ELSE Nothing

\* The value one step leads to from another.
Takes(h, step, v) ==
    IF step = <<"*">> THEN Read(h, v) ELSE <<v[1], Append(v[2], step[2])>>

Reading(h, v, steps, f) ==
    f[0] = v /\ \A n \in Nat : n < Len(steps) => f[n + 1] = Takes(h, steps[n + 1], f[n])

\* Whether the steps lead from a value to another, in some memory.
Reads(h, v, steps, w) == \E f : Reading(h, v, steps, f) /\ f[Len(steps)] = w

\* No steps lead from a value to itself.
LEMMA ReadsNone ==
    ASSUME NEW h, NEW v
    PROVE  Reads(h, v, <<>>, v)
  <1> DEFINE f == [n \in Nat |-> v]
  <1>1. f[0] = v /\ Len(<<>>) = 0
    OBVIOUS
  <1>2. Reading(h, v, <<>>, f)
    BY <1>1 DEF Reading
  <1>3. f[Len(<<>>)] = v
    BY <1>1
  <1> QED
    BY <1>2, <1>3 DEF Reads

\* One more step leads on.
LEMMA ReadsMore ==
    ASSUME NEW h, NEW v, NEW steps \in Seq(StepSet), NEW step \in StepSet, NEW w,
           Reads(h, v, steps, w)
    PROVE  Reads(h, v, steps \o <<step>>, Takes(h, step, w))
  <1>1. PICK f : Reading(h, v, steps, f) /\ f[Len(steps)] = w
    BY DEF Reads
  <1> DEFINE l == Len(steps)
             more == steps \o <<step>>
             g == [n \in Nat |-> IF n <= l THEN f[n] ELSE Takes(h, step, w)]
  <1>2. l \in Nat /\ Len(more) = l + 1 /\ more[l + 1] = step
        /\ \A n \in Nat : n < l => more[n + 1] = steps[n + 1]
    OBVIOUS
  <1>3. f[0] = v /\ (\A n \in Nat : n < l => f[n + 1] = Takes(h, steps[n + 1], f[n]))
    BY <1>1 DEF Reading
  <1> HIDE DEF l, more
  <1>4. g[0] = v
    BY <1>2, <1>3
  <1>5. g[l + 1] = Takes(h, step, w) /\ g[l] = w
    BY <1>1, <1>2 DEF l
  <1>6. ASSUME NEW n \in Nat, n < Len(more)
        PROVE  g[n + 1] = Takes(h, more[n + 1], g[n])
    <2>1. CASE n < l
      <3>1. n + 1 <= l /\ n <= l
        BY <1>2, <2>1
      <3>2. g[n + 1] = f[n + 1] /\ g[n] = f[n]
        BY <3>1
      <3> QED
        BY <1>2, <1>3, <2>1, <3>2
    <2>2. CASE n = l
      BY <1>2, <1>5, <2>2
    <2> QED
      BY <1>2, <1>6, <2>1, <2>2
  <1> HIDE DEF g
  <1>7. Reading(h, v, more, g)
    BY <1>4, <1>6 DEF Reading
  <1>8. Reads(h, v, more, Takes(h, step, w))
    BY <1>2, <1>5, <1>7 DEF Reads
  <1> QED
    BY <1>8 DEF more

\* Steps lead from one value to one other.
LEMMA ReadsOne ==
    ASSUME NEW h, NEW v, NEW steps \in Seq(StepSet), NEW w, NEW z,
           Reads(h, v, steps, w), Reads(h, v, steps, z)
    PROVE  w = z
  <1>1. PICK f : Reading(h, v, steps, f) /\ f[Len(steps)] = w
    BY DEF Reads
  <1>2. PICK g : Reading(h, v, steps, g) /\ g[Len(steps)] = z
    BY DEF Reads
  <1> DEFINE l == Len(steps)
             S == {n \in Nat : n <= l => f[n] = g[n]}
  <1>3. l \in Nat
    OBVIOUS
  <1>4. 0 \in S
    BY <1>1, <1>2 DEF Reading
  <1>5. ASSUME NEW n \in Nat, n \in S PROVE n + 1 \in S
    <2>1. SUFFICES ASSUME n + 1 <= l PROVE f[n + 1] = g[n + 1]
      OBVIOUS
    <2>2. n < l /\ n <= l
      BY <1>3, <2>1
    <2>3. f[n] = g[n]
      BY <1>5, <2>2
    <2> QED
      BY <1>1, <1>2, <2>2, <2>3 DEF Reading
  <1>6. l \in S
    <2> HIDE DEF S
    <2> QED
      BY <1>3, <1>4, <1>5, SetInduction
  <1> QED
    BY <1>1, <1>2, <1>3, <1>6


\* What memory was, from write to write, has each register hold what its path
\* leads to from its root, in the one memory all its loads were of.
Sees(hist) ==
    /\ hist[writes] = heap
    /\ \A q, u : <<q, u>> \in TracesOf(program) /\ value[q] # Unset =>
          /\ value[u.root] # Unset
          /\ \A h : (\A time \in seen[q] : hist[time] = h) =>
                Reads(h, value[u.root], u.steps, value[q])

ReadsInv == \E hist : Sees(hist)

\* Only parameters and constants are set at the start, and are their own paths.
LEMMA SeesInit ==
    ASSUME IdentityInit, HeldInv
    PROVE  ReadsInv
  <1> DEFINE hist == [n \in Nat |-> heap]
  <1>1. writes = 0 /\ writes \in Nat
    BY DEF IdentityInit
  <1>2. hist[writes] = heap
    BY <1>1
  <1>3. ASSUME NEW q, NEW u, <<q, u>> \in TracesOf(program), value[q] # Unset
        PROVE  /\ value[u.root] # Unset
               /\ \A h : Reads(h, value[u.root], u.steps, value[q])
    <2>1. q \in R /\ Follows(program, TracesOf(program), q, u) /\ StateInv
      BY <1>3, Programmed, TracesTyped DEF R, HeldInv, BasicInv
    <2>2. Op(q) \in {"param", "const"}
      <3>1. value = [register \in DOMAIN program.instr |->
                         IF program.instr[register].op \in {"param", "const"}
                         THEN value[register] ELSE Unset]
        BY DEF IdentityInit
      <3> QED
        BY <1>3, <2>1, <3>1 DEF R, Registers, Op
    <2>3. u = Base(q)
      BY <2>1, <2>2 DEF Follows, Op, IsPhi
    <2> QED
      BY <1>3, <2>3, BaseParts, ReadsNone
  <1> HIDE DEF hist
  <1>4. Sees(hist)
    BY <1>2, <1>3 DEF Sees
  <1> QED
    BY <1>4 DEF ReadsInv

\* One register is set: it holds what its path leads to, and is the root of no other.
LEMMA SeesOne ==
    ASSUME HeldInv, NEW hist, Sees(hist), NEW q, NEW v, NEW times, SetsOne(q, v, times),
           \A u : <<q, u>> \in TracesOf(program) /\ u # Base(q) =>
              /\ value[u.root] # Unset
              /\ \A h : (\A time \in times : hist[time] = h) => Reads(h, value[u.root], u.steps, v)
    PROVE  Sees(hist)'
  <1>1. /\ q = Current /\ q \in R /\ v \in Value /\ times \in SUBSET (0..writes)
        /\ Sets(q, v, times) /\ v # Unset /\ Running /\ q \in ValuesOf(program)
        /\ program' = program /\ heap' = heap /\ writes' = writes /\ Origin(q, v)
        /\ BasicInv /\ StateInv
    BY Reached DEF SetsOne, HeldInv, BasicInv
  <1>2. /\ value'[q] = v /\ seen'[q] = times
        /\ \A r \in R \ {q} : value'[r] = value[r] /\ seen'[r] = seen[r]
    BY <1>1, Setting
  <1>3. value[q] = Unset
    <2>1. ~Preset(q)
      BY <1>1 DEF Origin, Preset, Maker
    <2> QED
      BY <1>1, <2>1, CurrentUnset
  <1>4. ASSUME NEW r, NEW u, <<r, u>> \in TracesOf(program), value'[r] # Unset
        PROVE  /\ value'[u.root] # Unset
               /\ \A h : (\A time \in seen'[r] : hist[time] = h) =>
                     Reads(h, value'[u.root], u.steps, value'[r])
    <2>1. r \in R /\ u.root \in R
      BY <1>1, <1>4, Programmed, TracesTyped, RootRegister DEF R
    <2>2. CASE r = q /\ u = Base(q)
      BY <1>4, <2>2, BaseParts, ReadsNone
    <2>3. CASE r = q /\ u # Base(q)
      <3>1. value[u.root] # Unset
            /\ \A h : (\A time \in times : hist[time] = h) => Reads(h, value[u.root], u.steps, v)
        BY <1>4, <2>3
      <3>2. u.root # q
        BY <1>3, <3>1
      <3>3. value'[u.root] = value[u.root]
        BY <1>2, <2>1, <3>2
      <3> QED
        BY <1>2, <2>3, <3>1, <3>3
    <2>4. CASE r # q
      <3>1. value'[r] = value[r] /\ seen'[r] = seen[r]
        BY <1>2, <2>1, <2>4
      <3>2. value[u.root] # Unset
            /\ \A h : (\A time \in seen[r] : hist[time] = h) =>
                  Reads(h, value[u.root], u.steps, value[r])
        BY <1>4, <3>1 DEF Sees
      <3>3. value'[u.root] = value[u.root]
        BY <1>2, <1>3, <2>1, <3>2
      <3> QED
        BY <3>1, <3>2, <3>3
    <2> QED
      BY <2>2, <2>3, <2>4
  <1>5. hist[writes'] = heap'
    BY <1>1 DEF Sees
  <1> QED
    BY <1>1, <1>4, <1>5 DEF Sees

\* None is set, and memory may be written.
LEMMA SeesNone ==
    ASSUME HeldInv, ReadsInv, SetsNone,
           (writes' = writes /\ heap' = heap) \/ writes' = writes + 1
    PROVE  ReadsInv'
  <1>1. PICK hist : Sees(hist)
    BY DEF ReadsInv
  <1>2. program' = program /\ value' = value /\ seen' = seen
    BY DEF SetsNone
  <1>3. CASE writes' = writes /\ heap' = heap
    <2>1. Sees(hist)'
      BY <1>1, <1>2, <1>3 DEF Sees
    <2> QED
      BY <2>1 DEF ReadsInv
  <1>4. CASE writes' = writes + 1
    <2>1. writes \in Nat /\ writes + 1 \in Nat
      BY DEF HeldInv, BasicInv, StateInv
    <2> DEFINE more == [n \in Nat |-> IF n <= writes THEN hist[n] ELSE heap']
    <2>2. more[writes + 1] = heap' /\ \A n \in 0..writes : more[n] = hist[n]
      BY <2>1
    <2>3. PICK next : next = more
      OBVIOUS
    <2> HIDE DEF more
    <2>4. next[writes'] = heap' /\ \A n \in 0..writes : next[n] = hist[n]
      BY <1>4, <2>2, <2>3
    <2>5. ASSUME NEW r, NEW u, <<r, u>> \in TracesOf(program), value[r] # Unset
          PROVE  /\ value[u.root] # Unset
                 /\ \A h : (\A time \in seen[r] : next[time] = h) =>
                       Reads(h, value[u.root], u.steps, value[r])
      <3>1. r \in R
        BY <2>5, Programmed, TracesTyped DEF R, HeldInv, BasicInv
      <3>2. seen[r] \in SUBSET (0..writes)
        BY <3>1 DEF HeldInv, BasicInv, StateInv
      <3>3. \A time \in seen[r] : next[time] = hist[time]
        BY <2>4, <3>2
      <3> QED
        BY <1>1, <2>5, <3>3 DEF Sees
    <2>6. Sees(next)'
      BY <1>2, <2>4, <2>5 DEF Sees
    <2> QED
      BY <2>6 DEF ReadsInv
  <1> QED
    BY <1>3, <1>4

\* What comes before a block has its roots there.
LEMMA BehindRoot ==
    ASSUME BasicInv, NEW b \in {2, 3}, NEW q \in Behind(b), NEW u, <<q, u>> \in TracesOf(program)
    PROVE  u.root \in Behind(b)
  <1>1. InSSA(program)
    BY Programmed DEF BasicInv
  <1>2. u = Base(q) \/ Before(program, u.root, q)
    BY <1>1, RootBefore
  <1>3. 1 \in 1..3 /\ 2 \in 1..3
    OBVIOUS
  <1>4. CASE u = Base(q)
    BY <1>4, BaseParts
  <1>5. CASE Before(program, u.root, q)
    <2>1. ASSUME NEW c \in 1..3, c = 1 \/ (c = 2 /\ b = 3), q \in RegistersOf(program, c)
          PROVE  u.root \in Behind(b)
      <3>1. PICK d \in 1..3 : d <= c /\ u.root \in RegistersOf(program, d)
        BY <1>1, <1>5, <2>1, BeforeBlock
      <3>2. d = 1 \/ (d = 2 /\ b = 3)
        BY <2>1, <3>1
      <3> QED
        BY <3>1, <3>2 DEF Behind
    <2> QED
      BY <1>3, <2>1 DEF Behind
  <1> QED
    BY <1>2, <1>4, <1>5

\* A phi with a path has it on each edge, and what comes before the block is kept.
LEMMA SeesEnters ==
    ASSUME HeldInv, NEW hist, Sees(hist), NEW b, NEW edge, Enters(b, edge)
    PROVE  Sees(hist)'
  <1> DEFINE phis == PhisOf(program, b)
             kept == Behind(b)
             T == TracesOf(program)
  <1>1. BasicInv /\ StateInv /\ InSSA(program) /\ b \in {2, 3}
        /\ program' = program /\ heap' = heap /\ writes' = writes
    BY Programmed, Entered DEF HeldInv, BasicInv, Enters
  <1>2. ASSUME NEW q, NEW u, <<q, u>> \in T, value[q] # Unset,
               NEW r, value'[r] = value[q], seen'[r] = seen[q], u.root \in kept
        PROVE  /\ value'[u.root] # Unset
               /\ \A h : (\A time \in seen'[r] : hist[time] = h) =>
                     Reads(h, value'[u.root], u.steps, value'[r])
    <2>1. value'[u.root] = value[u.root]
      BY <1>2, Entered, <1>1
    <2> QED
      BY <1>2, <2>1 DEF Sees
  <1>3. ASSUME NEW r, NEW u, <<r, u>> \in T, value'[r] # Unset
        PROVE  /\ value'[u.root] # Unset
               /\ \A h : (\A time \in seen'[r] : hist[time] = h) =>
                     Reads(h, value'[u.root], u.steps, value'[r])
    <2>1. r \in R /\ Follows(program, T, r, u)
      BY <1>1, <1>3, TracesTyped DEF R
    <2>2. CASE u = Base(r)
      BY <1>3, <2>2, BaseParts, ReadsNone
    <2>3. CASE r \in kept
      <3>1. value'[r] = value[r] /\ seen'[r] = seen[r]
        BY <1>1, <2>1, <2>3, Entered
      <3>2. u.root \in kept
        BY <1>1, <1>3, <2>3, BehindRoot
      <3> QED
        BY <1>2, <1>3, <3>1, <3>2
    <2>4. CASE r \in phis /\ u # Base(r)
      <3> DEFINE edges == program.instr[r].edges
                 e == edges[edge]
      <3>1. /\ Op(r) = "phi" /\ DOMAIN edges = 1..2 /\ edge \in 1..2
            /\ value[e] # Unset
        BY <1>1, <2>4, EdgesThere DEF Enters
      <3>2. \A i \in 1..2 : <<edges[i], u>> \in T
        BY <2>1, <2>4, <3>1 DEF Follows, Op, IsPhi
      <3>3. edges[1] \in kept
        <4>1. b \in 2..3
          BY <1>1
        <4>2. /\ b = 2 => edges[1] \in RegistersOf(program, 1)
              /\ b = 3 => edges[1] \in RegistersOf(program, 1) \union RegistersOf(program, 2)
          BY <1>1, <2>4, <4>1 DEF InSSA, EdgesSet
        <4> QED
          BY <1>1, <4>2 DEF Behind
      <3>4. <<edges[1], u>> \in T /\ <<e, u>> \in T
        BY <3>1, <3>2
      <3>5. u.root \in kept
        BY <1>1, <3>3, <3>4, BehindRoot
      <3>6. value'[r] = value[e] /\ seen'[r] = seen[e]
        BY <2>4, Entered, <1>1
      <3> HIDE DEF e
      <3> QED
        BY <1>2, <3>1, <3>4, <3>5, <3>6
    <2>5. CASE r \notin kept /\ r \notin phis
      BY <1>1, <1>3, <2>1, <2>5, Entered
    <2> QED
      BY <2>2, <2>3, <2>4, <2>5
  <1>4. hist[writes'] = heap'
    BY <1>1 DEF Sees
  <1> QED
    BY <1>1, <1>3, <1>4 DEF Sees


\* A field and a load are different steps.
LEMMA StepsTold ==
    /\ <<"*">> \in StepSet
    /\ \A field \in STRING : <<"&", field>> \in StepSet /\ <<"&", field>> # <<"*">>
  <1>1. \A field : <<"&", field>> # <<"*">>
    <2>1. ASSUME NEW field, <<"&", field>> = <<"*">> PROVE FALSE
      <3>1. Len(<<"&", field>>) = 2 /\ Len(<<"*">>) = 1
        OBVIOUS
      <3> QED
        BY <2>1, <3>1
    <2> QED
      BY <2>1
  <1> QED
    BY <1>1 DEF StepSet

\* A field, a load or a conversion reads on from where its operand was read.
LEMMA CarriedSees ==
    ASSUME HeldInv, NEW hist, Sees(hist), Running, Current \in R,
           Instruction = program.instr[Current], Instruction.x \in Operands(Instruction),
           NEW u, <<Current, u>> \in TracesOf(program), u # Base(Current), ~IsPhi(program, Current)
    PROVE  /\ value[u.root] # Unset
           /\ \/ /\ Op(Current) = "convert"
                 /\ \A h : (\A time \in seen[Instruction.x] : hist[time] = h) =>
                       Reads(h, value[u.root], u.steps, value[Instruction.x])
              \/ /\ Op(Current) \in {"fieldaddr", "load"}
                 /\ \A h : (\A time \in seen[Instruction.x] : hist[time] = h) =>
                       \A step \in StepSet : Step(Instruction) = <<step>> =>
                          Reads(h, value[u.root], u.steps, Takes(h, step, value[Instruction.x]))
  <1> DEFINE x == Instruction.x
             T == TracesOf(program)
  <1>1. InSSA(program) /\ BasicInv
    BY Programmed DEF HeldInv, BasicInv
  <1>2. x \in R /\ value[x] # Unset
    BY <1>1, OperandsThere
  <1>3. Follows(program, T, Current, u)
    BY <1>1, TracesTyped DEF R
  <1>4. CASE Op(Current) = "convert" /\ <<x, u>> \in T
    BY <1>2, <1>4 DEF Sees
  <1>5. CASE /\ Op(Current) \in {"fieldaddr", "load"}
             /\ \E w \in PathsOf(program) :
                   <<x, w>> \in T /\ u.root = w.root /\ u.steps = w.steps \o Step(Instruction)
    <2>1. PICK w \in PathsOf(program) :
                   <<x, w>> \in T /\ u.root = w.root /\ u.steps = w.steps \o Step(Instruction)
      BY <1>5
    <2>2. /\ value[u.root] # Unset
          /\ \A h : (\A time \in seen[x] : hist[time] = h) =>
                Reads(h, value[u.root], w.steps, value[x])
      BY <1>2, <2>1 DEF Sees
    <2>3. w.steps \in Seq(StepSet)
      BY <1>1, <2>1, TracesTyped DEF PathSet
    <2>4. ASSUME NEW h, Reads(h, value[u.root], w.steps, value[x]),
                 NEW step \in StepSet, Step(Instruction) = <<step>>
          PROVE  Reads(h, value[u.root], u.steps, Takes(h, step, value[x]))
      <3>1. u.steps = w.steps \o <<step>>
        BY <2>1, <2>4
      <3> HIDE DEF x
      <3>2. Reads(h, value[u.root], w.steps \o <<step>>, Takes(h, step, value[x]))
        BY <2>3, <2>4, ReadsMore
      <3> QED
        BY <3>1, <3>2
    <2> QED
      BY <1>5, <2>2, <2>4
  <1> QED
    BY <1>3, <1>4, <1>5 DEF Follows, Op

\* Every step keeps what paths lead to.
LEMMA SeesStep ==
    ASSUME HeldInv, ReadsInv, IdentityNext
    PROVE  ReadsInv'
  <1>1. PICK hist : Sees(hist)
    BY DEF ReadsInv
  <1>2. BasicInv
    BY DEF HeldInv
  <1>3. ASSUME NEW q, NEW v, NEW times, SetsOne(q, v, times),
               \A u : <<q, u>> \in TracesOf(program) /\ u # Base(q) =>
                  /\ value[u.root] # Unset
                  /\ \A h : (\A time \in times : hist[time] = h) => Reads(h, value[u.root], u.steps, v)
        PROVE  ReadsInv'
    BY <1>1, <1>3, SeesOne DEF ReadsInv
  <1>4. ASSUME NEW u, <<Current, u>> \in TracesOf(program), u # Base(Current), Running
        PROVE  /\ Op(Current) \in {"fieldaddr", "load", "convert", "phi"}
               /\ Current \in R /\ Instruction = program.instr[Current]
               /\ Op(Current) # "phi" => ~IsPhi(program, Current)
    <2>1. Follows(program, TracesOf(program), Current, u)
      BY <1>2, <1>4, Programmed, TracesTyped DEF BasicInv
    <2> QED
      BY <1>2, <1>4, <2>1, Reached DEF Follows, Op, IsPhi, Instruction, BasicInv
  <1>5. CASE Makes
    <2>1. SetsOne(Current, <<objects, <<>>>>, {}) /\ Maker(Current) /\ Running
      BY <1>2, <1>5, MakesFrame DEF SetsOne
    <2>2. \A u : ~(<<Current, u>> \in TracesOf(program) /\ u # Base(Current))
      BY <1>4, <2>1 DEF Maker
    <2> QED
      BY <1>3, <2>1, <2>2
  <1>6. CASE Converts
    <2>1. /\ SetsOne(Current, value[Instruction.x], seen[Instruction.x]) /\ Running
          /\ Op(Current) = "convert" /\ Instruction.x \in Operands(Instruction)
      BY <1>2, <1>6, ConvertsFrame DEF SetsOne
    <2>2. ASSUME NEW u, <<Current, u>> \in TracesOf(program), u # Base(Current)
          PROVE  /\ value[u.root] # Unset
                 /\ \A h : (\A time \in seen[Instruction.x] : hist[time] = h) =>
                       Reads(h, value[u.root], u.steps, value[Instruction.x])
      BY <1>1, <1>4, <2>1, <2>2, CarriedSees
    <2> QED
      BY <1>3, <2>1, <2>2
  <1>7. CASE Reaches
    <2> DEFINE v == <<value[Instruction.x][1], Append(value[Instruction.x][2], Instruction.field)>>
               step == <<"&", Instruction.field>>
    <2>1. /\ SetsOne(Current, v, seen[Instruction.x]) /\ Running
          /\ Op(Current) = "fieldaddr" /\ Instruction.x \in Operands(Instruction)
      BY <1>2, <1>7, ReachesFrame DEF SetsOne
    <2>2. Instruction.field \in STRING
      BY <1>2, <2>1, OperandsOf DEF BasicInv
    <2>3. step \in StepSet /\ step # <<"*">> /\ step[2] = Instruction.field
      BY <2>2, StepsTold
    <2>4. \A h : Takes(h, step, value[Instruction.x]) = v
      BY <2>3 DEF Takes
    <2>5. Op(Current) = "fieldaddr" /\ Instruction = program.instr[Current] => Step(Instruction) = <<step>>
      BY DEF Step, Op
    <2> HIDE DEF v, step
    <2>6. ASSUME NEW u, <<Current, u>> \in TracesOf(program), u # Base(Current)
          PROVE  /\ value[u.root] # Unset
                 /\ \A h : (\A time \in seen[Instruction.x] : hist[time] = h) =>
                       Reads(h, value[u.root], u.steps, v)
      <3>1. Current \in R /\ Instruction = program.instr[Current] /\ ~IsPhi(program, Current)
        BY <1>4, <2>1, <2>6
      <3>2. /\ value[u.root] # Unset
            /\ \A h : (\A time \in seen[Instruction.x] : hist[time] = h) =>
                  \A s \in StepSet : Step(Instruction) = <<s>> =>
                     Reads(h, value[u.root], u.steps, Takes(h, s, value[Instruction.x]))
        BY <1>1, <2>1, <2>6, <3>1, CarriedSees
      <3>3. \A h : (\A time \in seen[Instruction.x] : hist[time] = h) =>
               Reads(h, value[u.root], u.steps, Takes(h, step, value[Instruction.x]))
        BY <2>1, <2>3, <2>5, <3>1, <3>2
      <3> QED
        BY <2>4, <3>2, <3>3
    <2> QED
      BY <1>3, <2>1, <2>6
  <1>8. CASE Loads
    <2> DEFINE x == Instruction.x
               times == seen[x] \union {writes}
    <2>1. /\ Instruction = program.instr[Current] /\ x \in Operands(Instruction) /\ Running
          /\ \/ Op(Current) = "load" /\ SetsOne(Current, At(value[x]), times)
             \/ Op(Current) = "lookup" /\ SetsOne(Current, At(EntryOf(Instruction)), times)
      BY <1>2, <1>8, LoadsFrame DEF SetsOne
    <2>2. CASE Op(Current) = "lookup" /\ SetsOne(Current, At(EntryOf(Instruction)), times)
      <3>1. \A u : ~(<<Current, u>> \in TracesOf(program) /\ u # Base(Current))
        BY <1>4, <2>1, <2>2
      <3> QED
        BY <1>3, <2>2, <3>1
    <2>3. CASE Op(Current) = "load" /\ SetsOne(Current, At(value[x]), times)
      <3>1. Step(Instruction) = << <<"*">> >>
        BY <2>1, <2>3 DEF Step, Op
      <3>2. Takes(heap, <<"*">>, value[x]) = At(value[x])
        BY DEF Takes, Read, At
      <3>3. hist[writes] = heap
        BY <1>1 DEF Sees
      <3>4. ASSUME NEW u, <<Current, u>> \in TracesOf(program), u # Base(Current)
            PROVE  /\ value[u.root] # Unset
                   /\ \A h : (\A time \in times : hist[time] = h) =>
                         Reads(h, value[u.root], u.steps, At(value[x]))
        <4>1. Current \in R /\ ~IsPhi(program, Current)
          BY <1>4, <2>1, <2>3, <3>4
        <4>2. /\ value[u.root] # Unset
              /\ \A h : (\A time \in seen[x] : hist[time] = h) =>
                    \A s \in StepSet : Step(Instruction) = <<s>> =>
                       Reads(h, value[u.root], u.steps, Takes(h, s, value[x]))
          BY <1>1, <2>1, <2>3, <3>4, <4>1, CarriedSees
        <4>3. ASSUME NEW h, \A time \in times : hist[time] = h
              PROVE  Reads(h, value[u.root], u.steps, At(value[x]))
          <5>1. h = heap /\ \A time \in seen[x] : hist[time] = h
            BY <3>3, <4>3
          <5>2. Reads(h, value[u.root], u.steps, Takes(h, <<"*">>, value[x]))
            BY <3>1, <4>2, <5>1, StepsTold
          <5> QED
            BY <3>2, <5>1, <5>2
        <4> QED
          BY <4>2, <4>3
      <3> HIDE DEF times
      <3> QED
        BY <1>3, <2>3, <3>4
    <2> QED
      BY <2>1, <2>2, <2>3
  <1>9. CASE Given
    BY <1>2, <1>9, GivenFrame, SeesNone
  <1>10. CASE Stores
    BY <1>2, <1>10, StoresFrame, SeesNone
  <1>11. CASE Calls
    BY <1>2, <1>11, CallsFrame, SeesNone
  <1>12. CASE Jumps
    <2>1. PICK b, edge : Enters(b, edge)
      BY <1>2, <1>12, JumpsFrame
    <2> QED
      BY <1>1, <2>1, SeesEnters DEF ReadsInv
  <1>13. CASE Copies
    BY <1>2, <1>13, CopiesFrame, SeesNone
  <1> QED
    BY <1>5, <1>6, <1>7, <1>8, <1>9, <1>10, <1>11, <1>12, <1>13 DEF IdentityNext

\* So paths always lead to what registers hold.
LEMMA SeesAlways == IdentitySpec => [](HeldInv /\ ReadsInv)
  <1>1. HeldInv /\ ReadsInv /\ [IdentityNext]_identityVars => ReadsInv'
    <2>1. ASSUME HeldInv, ReadsInv, UNCHANGED identityVars PROVE ReadsInv'
      <3>1. PICK hist : Sees(hist)
        BY <2>1 DEF ReadsInv
      <3>2. Sees(hist)'
        BY <2>1, <3>1 DEF Sees, identityVars
      <3> QED
        BY <3>2 DEF ReadsInv
    <2> QED
      BY <2>1, SeesStep
  <1> QED
    BY <1>1, HeldInit, HeldStep, SeesInit, PTL DEF IdentitySpec

\* Registers of one path, read at one time, hold what the path leads to.
LEMMA SameHeld ==
    ASSUME HeldInv, ReadsInv, StepsEnd(program.instr)
    PROVE  YesMeansSame
  <1>1. SUFFICES ASSUME NEW one \in DOMAIN paths, NEW other \in DOMAIN paths,
                        value[one] # Unset, value[other] # Unset,
                        comparePaths(paths[one], paths[other]) = "yes",
                        Cardinality(seen[one] \union seen[other]) <= 1
                 PROVE  value[one] = value[other]
    BY DEF YesMeansSame
  <1> DEFINE u == paths[one]
             times == seen[one] \union seen[other]
  <1>2. one \in R /\ other \in R /\ BasicInv /\ InSSA(program)
    BY Programmed DEF HeldInv, BasicInv, StateInv
  <1>3. paths[other] = u
    BY <1>1 DEF comparePaths
  <1>4. <<one, u>> \in TracesOf(program) /\ <<other, u>> \in TracesOf(program)
    BY <1>2, <1>3, PathsHeld
  <1>5. u.steps \in Seq(StepSet)
    BY <1>2, <1>4, TracesTyped DEF PathSet
  <1>6. PICK hist : Sees(hist)
    BY DEF ReadsInv
  <1>7. \E h : \A time \in times : hist[time] = h
    <2>1. times \in SUBSET (0..writes) /\ writes \in Nat
      BY <1>2 DEF BasicInv, StateInv
    <2>2. IsFiniteSet(times)
      <3>1. IsFiniteSet(0..writes)
        BY <2>1, FS_Interval
      <3> QED
        BY <2>1, <3>1, FS_Subset
    <2> HIDE DEF times
    <2>3. CASE times = {}
      BY <2>3
    <2>4. CASE times # {}
      <3>1. PICK first \in times : TRUE
        BY <2>4
      <3>2. ASSUME NEW time \in times PROVE time = first
        <4>1. SUFFICES ASSUME time # first PROVE FALSE
          OBVIOUS
        <4>2. Cardinality(times \ {first}) = Cardinality(times) - 1 /\ IsFiniteSet(times \ {first})
          BY <2>2, <3>1, FS_RemoveElement
        <4>3. Cardinality(times \ {first}) # 0
          BY <3>2, <4>1, <4>2, FS_EmptySet
        <4>4. Cardinality(times) \in Nat /\ Cardinality(times \ {first}) \in Nat
          BY <2>2, <4>2, FS_CardinalityType
        <4> QED
          BY <1>1, <4>2, <4>3, <4>4 DEF times
      <3> QED
        BY <3>2
    <2> QED
      BY <2>3, <2>4
  <1>8. PICK h : \A time \in times : hist[time] = h
    BY <1>7
  <1>9. /\ Reads(h, value[u.root], u.steps, value[one])
        /\ Reads(h, value[u.root], u.steps, value[other])
    BY <1>1, <1>4, <1>6, <1>8 DEF Sees
  <1> QED
    BY <1>5, <1>9, ReadsOne

\* Whatever the function and its memory: registers said to be one value hold the
\* same, when no write came between the loads they were read by (identity.go:24,
\* path), and no phi is made from itself through a field or a load.
THEOREM CalledSame ==
    ASSUME \A each \in Programs : StepsEnd(each.instr)
    PROVE  IdentitySpec => []YesMeansSame
  <1>1. HeldInv /\ ReadsInv => YesMeansSame
    BY SameHeld DEF HeldInv, BasicInv, StateInv
  <1> QED
    BY <1>1, SeesAlways, PTL

=============================================================================
