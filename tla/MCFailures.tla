----------------------------- MODULE MCFailures -----------------------------
(***************************************************************************)
(* Packages for Failures: three variables set to one another in every way,  *)
(* and two functions that return one another's errors.                    *)
(***************************************************************************)
EXTENDS Failures

CONSTANTS a, b, c, f1, f2, io, local

Fails == [op |-> "Failure"]
Nil == [op |-> "Nil"]
Unknown == [op |-> "Other"]
Load(w) == [op |-> "Load", of |-> w]
Calls(of) == [op |-> "Call", of |-> of]
Phi(edges, loops) == [op |-> "Phi", edges |-> edges, loops |-> loops]

Kept(declared, inits, sets) ==
    [declared |-> declared, inits |-> inits, sets |-> sets]

\* The ways one variable is set.
Ways(v) ==
    {Kept(None, {Fails}, {}), Kept(None, {}, {Fails}), Kept(Fails, {}, {}),
     Kept(Fails, {}, {Nil}), Kept(Unknown, {}, {Load(local)}),
     Kept(Load(io), {Load(io)}, {})}
      \union {Kept(Fails, {}, {Load(w)}) : w \in Var \ {v}}
      \union {Kept(Load(w), {}, {}) : w \in Var \ {v}}

Package(ways, escaped, returns) ==
    [declared |-> [v \in Var |-> ways[v].declared],
     inits |-> [v \in Var |-> ways[v].inits],
     sets |-> [v \in Var |-> ways[v].sets],
     escaped |-> escaped, returns |-> returns]

AllWays == {ways \in [Var -> UNION {Ways(v) : v \in Var}] :
              \A v \in Var : ways[v] \in Ways(v)}

loaded(ways, v) ==
    {w \in Var : ways[v].declared = Load(w)}

\* Go refuses declarations that read one another in a circle.
Acyclic(ways) ==
    ~\E circle \in SUBSET Var \ {{}} :
        \A v \in circle : loaded(ways, v) \intersect circle # {}

Simple == [x \in Func |-> {Load(a)}]

VariablePackages ==
    {p \in {Package(ways, escaped, Simple) :
              ways \in {w \in AllWays : Acyclic(w)}, escaped \in {{}, {c}}} :
       DeclaredFirst(p)}

\* Functions: a holds, and b may be nil.
Fixed == [v \in Var |-> Kept(Fails, {}, IF v = b THEN {Nil} ELSE {})]

Returns == {{}, {Fails}, {Nil}, {Unknown}, {Load(a)}, {Load(b)}, {Calls(f1)},
            {Calls(f2)}, {Fails, Calls(f1)}, {Fails, Calls(f2)},
            {Phi({Fails, Calls(f2)}, FALSE)}, {Phi({Load(a), Nil}, FALSE)},
            {Phi({Fails}, TRUE)}}

FunctionPackages ==
    {Package(Fixed, {}, returns) : returns \in [Func -> Returns]}

AllPackages == VariablePackages \union FunctionPackages

EarlyPackages ==
    {Package(ways, {}, Simple) : ways \in {w \in AllWays : Acyclic(w)}}
=============================================================================
