------------------------------ MODULE Failures ------------------------------
(***************************************************************************)
(* What a pass knows of the errors that are not nil                         *)
(* (src/paircheck/failures.go): which error variables of the package may    *)
(* hold nil, and which functions always fail.  Each is learned over and     *)
(* over, in the order the package's members come in, until a round learns   *)
(* nothing.  Then the package is initialized and runs, and the variables    *)
(* and the functions do what they really do.                                *)
(***************************************************************************)
EXTENDS Naturals, Sequences, FiniteSets, SequencesExt

CONSTANTS
    Var,       \* the error variables of the analyzed package
    Func,      \* its functions whose last result is an error
    Foreign,   \* error variables of other packages
    Local,     \* anything else an error is read through: a field, a channel
    None,      \* no declared value, no call
    Packages   \* the packages a run chooses from

\* An error: built as a failure, nil, read from a variable, returned by a
\* call, a phi of such (one that closes a loop has itself as an edge), or a
\* value paircheck knows nothing of.
Leaf == [op : {"Failure", "Nil", "Other"}]
          \union [op : {"Load"}, of : Var \union Foreign \union {Local}]
          \union [op : {"Call"}, of : Func]

Error == Leaf \union [op : {"Phi"}, edges : SUBSET Leaf, loops : BOOLEAN]

\* What the package stores into a variable: where it is declared, in its init
\* functions, and in the rest of it.  The address of an escaped one is handed
\* elsewhere.
ASSUME PackagesAssumption == \A p \in Packages :
    /\ p.declared \in [Var -> Error \union {None}]
    /\ p.inits \in [Var -> SUBSET Error] /\ p.sets \in [Var -> SUBSET Error]
    /\ p.escaped \subseteq Var
    /\ p.returns \in [Func -> SUBSET Error]

\* A variable is one of the package, or of another, and a package has a number
\* of variables and functions.
ASSUME NamesAssumption ==
    /\ Var \intersect Foreign = {} /\ Local \notin Var \union Foreign
    /\ IsFiniteSet(Var) /\ IsFiniteSet(Func)

VARIABLES
    package, variables, functions,  \* what is read, and in which order
    phase, position, learned,       \* the round, and whether it learned
    nilable, failing,               \* what is known: f.nilable, f.functions
    contents,  \* what each variable holds: "nil" or "error"
    unset,     \* the stores initialization has left, each a variable, a value
    top, calling, result  \* a call the package makes, where it is, its error

read == <<package, variables, functions>>
learning == <<phase, position, learned>>
known == <<nilable, failing>>
calls == <<top, calling, result>>
vars == <<read, learning, known, contents, unset, calls>>

---------------------------------------------------------------------------
(* What paircheck reads.                                                    *)

declaredStores(v) == {package.declared[v]} \ {None}

stores(v) == declaredStores(v) \union package.inits[v] \union package.sets[v]

initialized(v) == declaredStores(v) \union package.inits[v] # {}

holdsAnyway(w) == w \in Foreign \union Var

holds(w) == w \in Foreign \/ w \in Var \ nilable

storesNil(x) == x.op = "Nil" \/ (x.op = "Load" /\ ~holds(x.of))

mayHoldNil(v) == ~initialized(v) \/ \E x \in stores(v) : storesNil(x)

builtLeaf(x) ==
    \/ x.op = "Failure"
    \/ x.op = "Call" /\ x.of \in failing
    \/ x.op = "Load" /\ holds(x.of)

builtOnSomeEdge(x) == \E e \in x.edges : builtLeaf(e)

builtOnEveryEdge(x) == ~x.loops /\ \A e \in x.edges : builtLeaf(e)

built(x) == IF x.op = "Phi" THEN builtOnEveryEdge(x) ELSE builtLeaf(x)

alwaysFails(f) ==
    package.returns[f] # {} /\ \A x \in package.returns[f] : built(x)

\* The orders a Go map may come in.
orders(members) ==
    {order \in [1 .. Cardinality(members) -> members] : Range(order) = members}

Init ==
    /\ package \in Packages
    /\ variables \in orders(Var) /\ functions \in orders(Func)
    /\ phase = "variables" /\ position = 1 /\ learned = FALSE
    /\ nilable = {} /\ failing = {}
    /\ contents = [v \in Var |-> "nil"]
    /\ unset = UNION {{v} \X (declaredStores(v) \union package.inits[v]) :
                        v \in Var}
    /\ top = None /\ calling = None /\ result = "none"

\* learnNilable, one variable of its loop.
LearnVariable ==
    /\ phase = "variables" /\ position <= Len(variables)
    /\ LET v    == variables[position]
           news == v \notin nilable \union package.escaped /\ mayHoldNil(v)
       IN  /\ nilable' = IF news THEN nilable \union {v} ELSE nilable
           /\ learned' = (learned \/ news)
    /\ position' = position + 1
    /\ UNCHANGED <<read, phase, failing, contents, unset, calls>>

LearnFunctionAgain ==
    /\ phase = "functions" /\ position <= Len(functions)
    /\ LET f    == functions[position]
           news == alwaysFails(f)
       IN  /\ failing' = IF news THEN failing \union {f} ELSE failing
           /\ learned' = (learned \/ news)
    /\ position' = position + 1
    /\ UNCHANGED <<read, phase, nilable, contents, unset, calls>>

\* learnFunctions, one function of its loop.
LearnFunction ==
    /\ phase = "functions" /\ position <= Len(functions)
    /\ LET f    == functions[position]
           news == f \notin failing /\ alwaysFails(f)
       IN  /\ failing' = IF news THEN failing \union {f} ELSE failing
           /\ learned' = (learned \/ news)
    /\ position' = position + 1
    /\ UNCHANGED <<read, phase, nilable, contents, unset, calls>>

EndRoundAtOnce(these, here, after) ==
    /\ phase = here /\ position > Len(these)
    /\ phase' = after /\ position' = 1 /\ learned' = FALSE
    /\ UNCHANGED <<read, known, contents, unset, calls>>

\* The loops of failuresOf: another round, or on to what comes after.
EndRound(these, here, after) ==
    /\ phase = here /\ position > Len(these)
    /\ phase' = IF learned THEN here ELSE after
    /\ position' = 1 /\ learned' = FALSE
    /\ UNCHANGED <<read, known, contents, unset, calls>>

EndVariables == EndRound(variables, "variables", "functions")

EndFunctions == EndRound(functions, "functions", "declaring")

---------------------------------------------------------------------------
(* The package runs.  What no round looks into holds by the convention the  *)
(* code states: what a variable of another package or an escaped one holds, *)
(* and what a call, a phi or an unknown value stores, is not nil.           *)

trusted == Foreign \union package.escaped

\* What reading an error may give, where nothing is known of it.
reads(x) ==
    CASE x.op = "Nil"   -> {"nil"}
      [] x.op = "Other" -> {"nil", "error"}
      [] x.op = "Load"  -> IF x.of \in trusted THEN {"error"}
                           ELSE IF x.of \in Var THEN {contents[x.of]}
                           ELSE {"nil", "error"}
      [] OTHER          -> {"error"}

put(v, x) ==
    \E c \in IF x.op = "Other" THEN {"error"} ELSE reads(x) :
        contents' = [contents EXCEPT ![v] = c]

\* A declared variable is set once those its value reads were.
Declare ==
    /\ phase = "declaring"
    /\ \E v \in Var : \E x \in declaredStores(v) :
         /\ <<v, x>> \in unset
         /\ ~\E w \in Var : /\ x.op = "Load" /\ x.of = w
                            /\ <<w, package.declared[w]>> \in unset
         /\ put(v, x)
         /\ unset' = unset \ {<<v, x>>}
    /\ UNCHANGED <<read, learning, known, calls>>

\* The init functions run after, and then the package does.
Initialize ==
    /\ phase = "declaring"
    /\ \A v \in Var : \A x \in declaredStores(v) : <<v, x>> \notin unset
    /\ \E store \in unset :
         /\ put(store[1], store[2])
         /\ unset' = unset \ {store}
    /\ UNCHANGED <<read, learning, known, calls>>

Begin ==
    /\ phase = "declaring" /\ unset = {}
    /\ phase' = "running"
    /\ UNCHANGED <<read, position, learned, known, contents, unset, calls>>

Set ==
    /\ phase = "running"
    /\ \E v \in Var : \E x \in package.sets[v] : put(v, x)
    /\ UNCHANGED <<read, learning, known, unset, calls>>

Call ==
    /\ phase = "running" /\ calling = None
    /\ \E f \in Func : top' = f /\ calling' = f
    /\ result' = "none"
    /\ UNCHANGED <<read, learning, known, contents, unset>>

\* A function returns one of its errors: what it read, or what a call returns.
Return ==
    /\ calling # None
    /\ \E x \in package.returns[calling] :
         \E e \in IF x.op = "Phi" THEN x.edges ELSE {x} :
           IF e.op = "Call"
           THEN calling' = e.of /\ UNCHANGED result
           ELSE calling' = None /\ result' \in reads(e)
    /\ UNCHANGED <<read, learning, known, contents, unset, top>>

Learning == LearnVariable \/ EndVariables \/ LearnFunction \/ EndFunctions

Next ==
    \/ Learning
    \/ Declare \/ Initialize \/ Begin \/ Set \/ Call \/ Return

\* The rounds are loops with nothing to wait for.
Spec == Init /\ [][Next]_vars /\ WF_vars(Learning)

---------------------------------------------------------------------------
(* Properties.                                                              *)

\* The packages in which what initialization reads of another variable is what
\* that one was declared with: none only an init function sets is read before.
DeclaredFirst(p) ==
    \A v \in Var : \A x \in ({p.declared[v]} \ {None}) \union p.inits[v] :
        x.op = "Load" /\ x.of \in Var =>
            p.declared[x.of] # None \/ p.inits[x.of] = {}

\* Once the package is initialized, a variable not known to be nilable is
\* never nil, whatever is set to what and in whatever order (learnNilable).
VariablesHold ==
    phase = "running" =>
        \A v \in Var \ (nilable \union package.escaped) : contents[v] = "error"

\* A function known to always fail never returns nil, through phis, other
\* functions and variables that change meanwhile (learnFunctions).
AlwaysFailsSound == result = "nil" => top \notin failing

shownNil(v, those) ==
    /\ v \notin package.escaped
    /\ \/ ~initialized(v)
       \/ \E x \in stores(v) :
            x.op = "Nil" \/ (x.op = "Load" /\ x.of \in {Local} \union those)

\* When the rounds end, exactly the variables the package shows to be nilable
\* are marked - the least set closed under the rule - so the order its members
\* come in, which a Go map makes random, never shows in the diagnostics
\* (failuresOf, assignmentsOf).
NilableSettled ==
    phase # "variables" =>
        nilable = {v \in Var : \A those \in SUBSET Var :
                     (\A w \in Var : shownNil(w, those) => w \in those)
                       => v \in those}

\* When the rounds end, no further function can be shown to always fail
\* (failuresOf).
FailingSettled ==
    phase \notin {"variables", "functions"} =>
        \A f \in Func : alwaysFails(f) => f \in failing

\* What the rounds learn of variables and of functions is all there is to learn,
\* whatever order they come in (failuresOf).
RoundsSettle == NilableSettled /\ FailingSettled

\* The rounds come to an end (failuresOf).
FailuresEnd == <>(phase \notin {"variables", "functions"})
=============================================================================
