---- MODULE Passes ----
(***************************************************************************)
(* The passes of one run (paircheck.go, protocol.go, summary.go): one for  *)
(* each package reached from the roots, at once but for a package waiting  *)
(* on those it imports.  Every pass reads the same compiled rules, whose   *)
(* slices are arrays in shared memory; resolves their names against the    *)
(* module of its package, an element at a time; binds the rules whose      *)
(* functions it sees; and learns, from the facts of the packages it        *)
(* imports, which rules the function its package declares pays.            *)
(*                                                                         *)
(* A run is chosen first:                                                  *)
(*   rules      the compiled rules, [id, trigger, satisfiers, failures,    *)
(*              implementations], the three lists of sides;                *)
(*   packages   for each package [module, path, developed, imports, body]: *)
(*              body is the function the function of the package calls,    *)
(*              the package whose function it calls, or NoName;            *)
(*   unbindable the ids of the rules no package that sees them can bind.   *)
(***************************************************************************)
EXTENDS Names, Naturals, FiniteSetsExt

CONSTANTS
    Runs,       \* the runs to choose from
    NoError

\* The rules, and the sides of their lists, are lists; a side is the call or
\* names a function, which it still does in the module of any package; a package
\* being developed belongs to a module (paircheck.go:105); and no package
\* imports itself, at any remove.
IsList(list) == Len(list) \in Nat /\ DOMAIN list = 1 .. Len(list)
IsSide(side, packages) ==
    /\ DOMAIN side = {"called", "name"} /\ side.called \in BOOLEAN
    /\ IF side.called THEN side.name = NoName
       ELSE \A p \in DOMAIN packages : nameWithin(side.name, packages[p].module) # NoName
ASSUME RunsAssumption == \A r \in Runs :
    /\ IsList(r.rules)
    /\ \A k \in DOMAIN r.rules :
         \A list \in {r.rules[k].satisfiers, r.rules[k].failures, r.rules[k].implementations} :
            IsList(list) /\ \A i \in DOMAIN list : IsSide(list[i], r.packages)
    /\ IsFiniteSet(DOMAIN r.packages)
    /\ \A p \in DOMAIN r.packages :
         /\ r.packages[p].imports \subseteq DOMAIN r.packages
         /\ r.packages[p].developed => r.packages[p].module # NoModule
    /\ \A set \in SUBSET DOMAIN r.packages :
         set # {} => \E p \in set : r.packages[p].imports \cap set = {}

VARIABLES
    run,        \* the run, fixed
    heap,       \* the arrays: those of the rules, and those the passes make
    passes      \* what each package's pass is doing

Packages == DOMAIN run.packages
Field == <<"satisfiers", "failures", "implementations">>
ruleArray(r, f) == <<"rule", r, Field[f]>>
passArray(p, k, f) == <<"pass", p, k, Field[f]>>

----------------------------------------------------------------------------
(* What the rules a pass reads are.                                        *)

ImportsOf(p) == run.packages[p].imports
SeenFrom[p \in Packages] == {p} \cup UNION {SeenFrom[q] : q \in ImportsOf(p)}

sees(p, name) == \E q \in SeenFrom[p] :
    run.packages[q].module = name.module /\ run.packages[q].path = name.path

\* The rules of the pass of p, by their index: all of them in a module being
\* developed, and elsewhere those that name nothing relative to it.
rulesOf(p) == {k \in DOMAIN run.rules :
    run.packages[p].developed \/ ~protocolRelative(run.rules[k])}

\* The array a pass resolves the names of a list in: a copy of its own.
cloneShared(p, k, f) == ruleArray(k, f)
clone(p, k, f) == passArray(p, k, f)

\* What the copy holds as it is made: the rule's own list, element by element,
\* but for the relative failures of a package outside the modules being
\* developed.
leavesOut(p, f) == Field[f] = "failures" /\ ~run.packages[p].developed
elements(list) == [i \in 1 .. Len(list) |-> list[i]]
copied(p, k, f) ==
    LET written == heap[ruleArray(k, f)]
    IN  elements(IF leavesOut(p, f) THEN absoluteFailures(written) ELSE written)

\* A rule as the pass of p reads it once its names are resolved.
resolvedRule(p, k) ==
    [id |-> run.rules[k].id,
     trigger |-> nameWithin(run.rules[k].trigger, run.packages[p].module),
     satisfiers |-> heap[clone(p, k, 1)],
     failures |-> heap[clone(p, k, 2)],
     implementations |-> heap[clone(p, k, 3)]]

resolved(p) == {resolvedRule(p, k) : k \in rulesOf(p)}

\* The rules a pass that has resolved them all binds, and those it fails to.
binds(p, rule) ==
    /\ sees(p, rule.trigger)
    /\ \A s \in Range(rule.satisfiers) : ~s.called => sees(p, s.name)
bound(p) == {rule \in resolved(p) : binds(p, rule)}
unbound(p) == {k \in rulesOf(p) :
    binds(p, resolvedRule(p, k)) /\ run.rules[k].id \in run.unbindable}

\* Whether the function of p pays a rule, which the facts of the packages it
\* imports tell of the functions it calls.
paysRule(p, rule) ==
    LET body == run.packages[p].body
    IN  \/ \E s \in Range(rule.satisfiers) : ~s.called /\ s.name = body
        \/ body \in ImportsOf(p) /\ key(rule) \in passes[body].facts

----------------------------------------------------------------------------
(* The actions of a pass.                                                  *)

\* A pass that resolves is at the rule k, in the list f, before its element i.
At(k, f, i) == [k |-> k, f |-> f, i |-> i]
Ended(p) == passes[p].stage \in {"done", "failed", "skipped"}
NoneFailed(dependencies) == \A q \in dependencies : passes[q].stage = "done"

noModule == [what |-> "no module", of |-> NoName]
cannotBind(id) == [what |-> "cannot bind", of |-> id]
prerequisites == [what |-> "failed prerequisites", of |-> NoName]
ASSUME ErrorsAssumption == NoError \notin {noModule, prerequisites} /\
    \A r \in Runs : \A k \in DOMAIN r.rules : NoError # cannotBind(r.rules[k].id)

PassesInit ==
    /\ run \in Runs
    /\ heap = [a \in {ruleArray(r, f) : r \in DOMAIN run.rules, f \in DOMAIN Field}
                 |-> run.rules[a[2]][a[3]]]
    /\ passes = [p \in Packages |->
                    [stage |-> "waiting", at |-> At(1, 0, 1), error |-> NoError,
                     facts |-> {}]]

\* The checker runs a pass once those of the packages it imports have ended,
\* and not at all when one of them failed.
Skip(p) ==
    /\ passes[p].stage = "waiting"
    /\ \A q \in ImportsOf(p) : Ended(q)
    /\ ~NoneFailed(ImportsOf(p))
    /\ passes' = [passes EXCEPT ![p].stage = "skipped", ![p].error = prerequisites]
    /\ UNCHANGED <<run, heap>>

Begin(p) ==
    /\ passes[p].stage = "waiting"
    /\ NoneFailed(ImportsOf(p))
    /\ passes' = [passes EXCEPT ![p].stage = "resolving"]
    /\ UNCHANGED <<run, heap>>

fail(p, error) ==
    passes' = [passes EXCEPT ![p].stage = "failed", ![p].error = error]

\* The trigger of the next rule the pass reads, and then a copy of each of its
\* lists.
NextList(p) ==
    LET at == passes[p].at
        unread == at.k \notin rulesOf(p)
    IN  /\ passes[p].stage = "resolving"
        /\ at.k <= Len(run.rules)
        /\ IF /\ ~unread /\ at.f = 0
              /\ belongsToNone(run.rules[at.k].trigger, run.packages[p].module)
           THEN fail(p, noModule) /\ UNCHANGED heap
           ELSE /\ at.f > 0 => at.i > Len(heap[clone(p, at.k, at.f)])
                /\ IF unread \/ at.f = Len(Field)
                   THEN /\ passes' = [passes EXCEPT ![p].at = At(at.k + 1, 0, 1)]
                        /\ UNCHANGED heap
                   ELSE /\ passes' = [passes EXCEPT ![p].at = At(at.k, at.f + 1, 1)]
                        /\ heap' = [array \in DOMAIN heap \cup {clone(p, at.k, at.f + 1)} |->
                             IF array = clone(p, at.k, at.f + 1)
                             THEN copied(p, at.k, at.f + 1) ELSE heap[array]]
        /\ UNCHANGED run

\* One element of a list.
ResolveElement(p) ==
    LET at == passes[p].at
        module == run.packages[p].module
        array == clone(p, at.k, at.f)
    IN  /\ passes[p].stage = "resolving"
        /\ at.k <= Len(run.rules) /\ at.f > 0
        /\ at.i <= Len(heap[array])
        /\ IF sideBelongsToNone(heap[array][at.i], module)
           THEN fail(p, noModule) /\ UNCHANGED heap
           ELSE /\ heap' = [heap EXCEPT ![array][at.i] = sideWithin(@, module)]
                /\ passes' = [passes EXCEPT ![p].at.i = @ + 1]
        /\ UNCHANGED run

\* With every name resolved the pass binds the rules, learns its function and
\* exports what it learned.
Check(p) ==
    /\ passes[p].stage = "resolving"
    /\ passes[p].at.k > Len(run.rules)
    /\ IF unbound(p) # {}
       THEN fail(p, cannotBind(run.rules[Min(unbound(p))].id))
       ELSE passes' = [passes EXCEPT
                ![p].stage = "done",
                ![p].facts = {key(rule) : rule \in {b \in bound(p) : paysRule(p, b)}}]
    /\ UNCHANGED <<run, heap>>

PassStep(p) == Skip(p) \/ Begin(p) \/ NextList(p) \/ ResolveElement(p) \/ Check(p)

----------------------------------------------------------------------------
(* Properties.                                                             *)

\* What the pass of p should read, from the rules as they were compiled.
Original(p, k, f) ==
    LET written == run.rules[k][Field[f]]
    IN  IF leavesOut(p, f) THEN absoluteFailures(written) ELSE written
Own(p, k, f) == [i \in 1 .. Len(Original(p, k, f)) |->
                    sideWithin(Original(p, k, f)[i], run.packages[p].module)]
OwnRule(p, k) ==
    [id |-> run.rules[k].id,
     trigger |-> nameWithin(run.rules[k].trigger, run.packages[p].module),
     satisfiers |-> Own(p, k, 1),
     failures |-> Own(p, k, 2),
     implementations |-> Own(p, k, 3)]

\* The rules a pass reads are those the configuration wrote, resolved against
\* the module of its own package, whatever the passes beside it resolve in the
\* meantime: within never writes to the rules they share (protocol.go:64).
OwnNames == \A p \in Packages :
    passes[p].stage = "done" =>
        \A k \in rulesOf(p) : resolvedRule(p, k) = OwnRule(p, k)

\* No pass fails for want of a module: what developed and absolute leave of
\* the rules (paircheck.go:101-122) is resolved against a module there is.
NamesResolve == \A p \in Packages : passes[p].error # noModule

\* Whether the function of p really calls a satisfier of rule, and whether it
\* does through packages whose passes read the same functions in the rule: it
\* is in every set of packages that holds those that call one, and those that
\* call a function of a package it holds.
CallsSatisfier(p, rule) ==
    run.packages[p].body \in {s.name : s \in Range(rule.satisfiers)} \ {NoName}
CallsInto(p, set) == run.packages[p].body \in ImportsOf(p) \cap set
SameFunctions(one, other) ==
    /\ one.id = other.id
    /\ one.trigger = other.trigger
    /\ one.satisfiers = other.satisfiers
ReallyPays(p, rule) == \A set \in SUBSET Packages :
    (\A q \in Packages : CallsSatisfier(q, rule) \/ CallsInto(q, set) => q \in set)
        => p \in set
KnowsFunctions(p, rule) == \E b \in bound(p) : SameFunctions(b, rule)
PaysKnown(p, rule) == \A set \in SUBSET SeenFrom[p] :
    (\A q \in SeenFrom[p] :
        KnowsFunctions(q, rule) /\ (CallsSatisfier(q, rule) \/ CallsInto(q, set)) => q \in set)
        => p \in set

\* What a pass learns from the facts of the packages it imports is about the
\* functions it resolved the rule to, although rules of one id name others in
\* each module (protocol.go:98); and nothing the passes before it could learn
\* of them is missing.
FactsMatch == \A p \in Packages :
    passes[p].stage = "done" =>
        \A rule \in bound(p) :
            /\ key(rule) \in passes[p].facts => ReallyPays(p, rule)
            /\ PaysKnown(p, rule) => key(rule) \in passes[p].facts
====
