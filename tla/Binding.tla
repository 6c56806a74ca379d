------------------------------ MODULE Binding ------------------------------
(***************************************************************************)
(* Resolving a rule against the packages a pass sees: which slot of each   *)
(* function carries the value (src/paircheck/bind.go), and which methods   *)
(* a rule on an interface becomes for a concrete type                      *)
(* (src/paircheck/implementation.go).                                      *)
(*                                                                         *)
(* A world is what the packages declare:                                   *)
(*   imports   the packages each package imports;                          *)
(*   funcs     functions and methods [path, receiver, name, recv, params,  *)
(*             results]: receiver "" is a function, recv is the            *)
(*             receiver's type;                                            *)
(*   types     type declarations [path, name, interface, embeds], embeds   *)
(*             the set of the names [path, name] of what they embed.       *)
(* A pass sees a set of paths of it.                                       *)
(*                                                                         *)
(* A rule is a protocol after validation: [trigger, satisfiers,            *)
(* implementations, openOnError, failures], its sides [name, slot,         *)
(* called].  A slot is <<kind, index>>.                                    *)
(***************************************************************************)
EXTENDS Types, Functions

slotNone == <<"none", 0>>
slotReceiver == <<"receiver", 0>>
slotCallee == <<"callee", 0>>
slotArgument(index) == <<"argument", index>>
slotResult(index) == <<"result", index>>

\* The name of a function or method.
Name(path, receiver, name) == [path |-> path, receiver |-> receiver, name |-> name]

\* A side of a rule.
Side(name, slot) == [name |-> name, slot |-> slot, called |-> FALSE]
\* The call satisfier: a call of the value itself.
CallOfValue == [name |-> Name("", "", ""), slot |-> slotNone, called |-> TRUE]

Sides(rule) ==
    {rule.trigger} \union {rule.satisfiers[i] : i \in DOMAIN rule.satisfiers}

----------------------------------------------------------------------------
(* Names.                                                                  *)

\* Every package reachable from the roots through imports.
visiblePackages(world, roots) ==
    {path \in DOMAIN world.imports :
        \A reached \in SUBSET DOMAIN world.imports :
            /\ roots \intersect DOMAIN world.imports \subseteq reached
            /\ \A importing \in reached : world.imports[importing] \subseteq reached
            => path \in reached}

TypesNamed(world, visible, path, name) ==
    {declared \in world.types :
        /\ declared.path = path
        /\ declared.name = name
        /\ path \in visible}

\* The methods declared on a type.
Own(world, typeName) ==
    {function \in world.funcs :
        /\ function.path = typeName.path
        /\ function.receiver = typeName.name}

\* The methods a value of the type, or a pointer to one, has: declared on it
\* or promoted from what it embeds, where it declares none of that name.
MethodsOf(world, typeName) ==
    LET embedded(declared) ==
            {inner \in world.types :
                [path |-> inner.path, name |-> inner.name] \in declared.embeds}
        promoted(declared, methods) ==
            {function \in methods :
                \A own \in Own(world, declared) : own.name # function.name}
        methods[declared \in world.types] ==
            Own(world, declared) \union
            promoted(declared, UNION {methods[inner] : inner \in embedded(declared)})
    IN  Own(world, typeName) \union
        promoted(typeName, UNION {methods[inner] : inner \in embedded(typeName)})

\* The function a name names, as the set of it: empty when there is none, or
\* when it is declared elsewhere and only promoted to the receiver.
lookupFunc(world, visible, wanted) ==
    {function \in world.funcs :
        /\ wanted.path \in visible
        /\ Name(function.path, function.receiver, function.name) = wanted}

----------------------------------------------------------------------------
(* Candidates.                                                             *)

\* A slot that may carry the value; written, the rule names it.
Candidate(slot, type, written) ==
    [slot |-> slot, valueType |-> type, written |-> written, called |-> FALSE]

\* The receiver, the parameters, and for a trigger the results but a final
\* error.
candidates(function, withResults) ==
    LET results == function.results
        last == Len(results)
        count == IF last > 0 /\ Identical(results[last], errorType) THEN last - 1 ELSE last
        receiver == IF function.receiver = "" THEN <<>>
                    ELSE <<Candidate(slotReceiver, function.recv, FALSE)>>
        parameters == [i \in 1..Len(function.params) |->
                          Candidate(slotArgument(i - 1), function.params[i], FALSE)]
        returned == [i \in 1..count |-> Candidate(slotResult(i - 1), results[i], FALSE)]
    IN  receiver \o parameters \o (IF withResults THEN returned ELSE <<>>)

\* The slot the rule wrote or, when it wrote none, every one but a context.
Allowed(offered, wanted) ==
    {i \in DOMAIN offered :
        IF wanted = slotNone THEN ~isContext(offered[i].valueType)
        ELSE offered[i].slot = wanted}

restrict(offered, wanted) ==
    [i \in Allowed(offered, wanted) |->
        Candidate(offered[i].slot, offered[i].valueType, wanted # slotNone)]

links(first, second) ==
    CASE first.called -> isFunction(second.valueType)
      [] ~first.called /\ second.called -> isFunction(first.valueType)
      [] /\ ~first.called /\ ~second.called
         /\ first.written /\ second.written
         /\ \/ generic(first.valueType)
            \/ generic(second.valueType) ->
            corresponds(dereference(first.valueType), dereference(second.valueType))
      [] OTHER -> sameType(first.valueType, second.valueType)

\* The positions of offered that link with link.
Linked(offered, link) == {i \in DOMAIN offered : links(offered[i], link)}

offers(offered, link) == Linked(offered, link) # {}

----------------------------------------------------------------------------
(* resolve.  What a side offers is a function from some of the positions   *)
(* of the function's candidates, in their order; a closing side with an    *)
(* error is one the pass cannot see.                                       *)

Failure(error) == [error |-> error]
Settled(trigger, satisfiers, type, failure) ==
    [error |-> "", triggerSlot |-> trigger, satisfierSlots |-> satisfiers,
     valueType |-> type, failure |-> failure]

\* What a side offers the value, or the error that says it cannot.
offeredBy(world, visible, wanted, withResults) ==
    LET functions == lookupFunc(world, visible, wanted.name)
        function == CHOOSE any \in functions : TRUE
        offered == restrict(candidates(function, withResults), wanted.slot)
    IN  CASE functions = {} -> [error |-> "unknown function"]
          [] functions # {} /\ wanted.slot # slotNone /\ DOMAIN offered = {} ->
                [error |-> "slot not in signature"]
          [] OTHER -> [error |-> "", offered |-> offered, function |-> function]

Closing(world, visible, satisfier) ==
    IF satisfier.called
    THEN [error |-> "",
          offered |-> <<[slot |-> slotCallee, called |-> TRUE,
                         valueType |-> Signature("0", <<>>), written |-> FALSE]>>]
    ELSE offeredBy(world, visible, satisfier, FALSE)

Seen(closing) == {i \in DOMAIN closing : closing[i].error = ""}

offeredByAll(closing, link) == \A i \in Seen(closing) : offers(closing[i].offered, link)

\* A mutant of linkingTypes: it takes the first type that links.
linkingTypesFirst(opening, closing) ==
    {i \in DOMAIN opening :
        /\ offeredByAll(closing, opening[i])
        /\ \A j \in DOMAIN opening : offeredByAll(closing, opening[j]) => i <= j}

\* The types offered on every side, each by the trigger's candidate the loop
\* takes for it: the first that none taken before links with.
linkingTypes(opening, closing) ==
    CHOOSE taken \in SUBSET DOMAIN opening :
        \A i \in DOMAIN opening :
            i \in taken <=>
                /\ offeredByAll(closing, opening[i])
                /\ \A j \in taken : j < i => ~links(opening[j], opening[i])

slotAt(offered, linked) ==
    CASE linked = {} -> Failure("no linking type")
      [] \E i, j \in linked : i # j -> Failure("ambiguous slot")
      [] OTHER -> [error |-> "", slot |-> offered[CHOOSE i \in linked : TRUE].slot]

only(offered, link) == slotAt(offered, Linked(offered, link))

\* The index of the result through which a trigger reports failure, or -1.
failureIndex(function) ==
    LET last == Len(function.results)
    IN  IF last > 0 /\ Identical(function.results[last], errorType) THEN last - 1 ELSE -1

settleSides(rule, function, link, trigger, closed) ==
    LET failed == {i \in DOMAIN closed : closed[i].error # ""}
    IN  CASE trigger.error # "" -> trigger
          [] trigger.error = "" /\ failed # {} ->
                closed[CHOOSE i \in failed : \A j \in failed : i <= j]
          [] OTHER -> Settled(trigger.slot, [i \in DOMAIN closed |-> closed[i].slot],
                              link.valueType,
                              IF rule.openOnError THEN -1 ELSE failureIndex(function))

settle(rule, function, link, opening, closing) ==
    settleSides(rule, function, link, only(opening, link),
                [i \in DOMAIN closing |->
                    IF i \in Seen(closing) THEN only(closing[i].offered, link)
                    ELSE [error |-> "", slot |-> slotNone]])

\* The slots, when one type links the trigger with every satisfier.
settleLinking(rule, opening, closing, linking) ==
    CASE linking = {} -> Failure("no linking type")
      [] \E i, j \in linking : i # j -> Failure("ambiguous slot")
      [] OTHER -> settle(rule, opening.function, opening.offered[CHOOSE i \in linking : TRUE],
                         opening.offered, closing)

\* Strict, a satisfier that is not found is an error; otherwise it is one the
\* pass cannot see, and cannot call.
resolveSides(rule, opening, closing, refused) ==
    CASE opening.error # "" -> opening
      [] opening.error = "" /\ refused # {} ->
            closing[CHOOSE i \in refused : \A j \in refused : i <= j]
      [] OTHER ->
            settleLinking(rule, opening, closing, linkingTypes(opening.offered, closing))

resolve(rule, world, visible, strict) ==
    LET closing == [i \in DOMAIN rule.satisfiers |->
                       Closing(world, visible, rule.satisfiers[i])]
        missing == IF strict THEN {""} ELSE {"", "unknown function"}
    IN  resolveSides(rule, offeredBy(world, visible, rule.trigger, TRUE), closing,
                     {i \in DOMAIN closing : closing[i].error \notin missing})

\* A mutant of seesAll: it asks for the trigger alone.
seesAllTrigger(world, visible, rule) ==
    lookupFunc(world, visible, rule.trigger.name) # {}

seesAll(world, visible, rule) ==
    \A side \in Sides(rule) :
        side.called \/ lookupFunc(world, visible, side.name) # {}

\* What a pass makes of a rule: bound, left out because the pass may not see
\* what settles it, or an error.
bindAs(resolved, sees) ==
    IF resolved.error # "" /\ ~sees THEN Failure("skipped") ELSE resolved

bind(rule, world, visible) ==
    bindAs(resolve(rule, world, visible, FALSE), seesAll(world, visible, rule))

----------------------------------------------------------------------------
(* Implementations.                                                        *)

\* The interface the receiver of a method is, as the set of it.
interfaceOf(world, visible, method) ==
    {declared \in TypesNamed(world, visible, method.path, method.receiver) :
        declared.interface}

implements(world, typeName, contract) ==
    \A wanted \in MethodsOf(world, contract) :
        \E own \in MethodsOf(world, typeName) :
            /\ own.name = wanted.name
            /\ Len(own.params) = Len(wanted.params)
            /\ Len(own.results) = Len(wanted.results)
            /\ \A i \in DOMAIN own.params : Identical(own.params[i], wanted.params[i])
            /\ \A i \in DOMAIN own.results : Identical(own.results[i], wanted.results[i])

hasMethod(world, typeName, name) ==
    \E function \in MethodsOf(world, typeName) : function.name = name

\* A mutant of stands: a type stands for no interface the pass does not see.
standsSeen(world, visible, typeName, method) ==
    \E contract \in interfaceOf(world, visible, method) :
        implements(world, typeName, contract)

stands(world, visible, typeName, method) ==
    IF method.path \in visible
    THEN \E contract \in interfaceOf(world, visible, method) :
            implements(world, typeName, contract)
    ELSE hasMethod(world, typeName, method.name)

OnReceiver(side) == ~side.called /\ side.name.receiver # ""

Swaps(world, visible, typeName, side) ==
    OnReceiver(side) /\ stands(world, visible, typeName, side.name)

swap(world, visible, typeName, side) ==
    IF Swaps(world, visible, typeName, side)
    THEN Side(Name(typeName.path, typeName.name, side.name.name), side.slot)
    ELSE side

\* The rule with the methods of the type in place of those it stands for.
appliedTo(rule, world, visible, typeName) ==
    [trigger |-> swap(world, visible, typeName, rule.trigger),
     satisfiers |-> [i \in DOMAIN rule.satisfiers |->
                        swap(world, visible, typeName, rule.satisfiers[i])],
     implementations |-> <<>>,
     openOnError |-> rule.openOnError,
     failures |-> rule.failures]

Swapped(rule, world, visible, typeName) ==
    \E side \in Sides(rule) : Swaps(world, visible, typeName, side)

seesInterfaces(rule, visible) ==
    \A side \in Sides(rule) : OnReceiver(side) => side.name.path \in visible

\* What a pass makes of one implementation: the rule it becomes as the set of
\* it, empty when the pass does not see it, or an error.
appliedBy(rule, world, visible, name) ==
    LET found == TypesNamed(world, visible, name.path, name.name)
        typeName == CHOOSE any \in found : TRUE
    IN  CASE name.path \notin visible -> [error |-> "", rules |-> {}]
          [] name.path \in visible /\ found = {} -> Failure("unknown type")
          [] OTHER ->
                IF Swapped(rule, world, visible, typeName)
                THEN [error |-> "", rules |-> {appliedTo(rule, world, visible, typeName)}]
                ELSE IF seesInterfaces(rule, visible) THEN Failure("implements none")
                     ELSE [error |-> "", rules |-> {}]

\* A method of the rule the type has a method of the same name as, without
\* standing for its receiver: a pass that does not see that receiver would put
\* the type's method in its place.
ambiguous(rule, world, visible, typeName) ==
    \E side \in Sides(rule) :
        /\ OnReceiver(side)
        /\ hasMethod(world, typeName, side.name.name)
        /\ ~stands(world, visible, typeName, side.name)

\* What Validate finds wrong in an implementation, or "".
implementationProblem(rule, world, visible, name) ==
    LET found == TypesNamed(world, visible, name.path, name.name)
        typeName == CHOOSE any \in found : TRUE
    IN  CASE found = {} -> "unknown type"
          [] found # {} /\ ambiguous(rule, world, visible, typeName) ->
                "ambiguous implementation"
          [] /\ found # {} /\ ~ambiguous(rule, world, visible, typeName)
             /\ ~Swapped(rule, world, visible, typeName) -> "implements none"
          [] OTHER ->
                resolve(appliedTo(rule, world, visible, typeName), world, visible, TRUE).error

=============================================================================
