------------------------------ MODULE MCRules ------------------------------
(***************************************************************************)
(* Small worlds for Rules: three packages a program imports any of, a      *)
(* trigger declared in the first, satisfiers in the other two, and         *)
(* signatures that offer the value once, twice, beside a context, as a     *)
(* function, as an alias and as a generic type; then rules on an interface *)
(* with implementations that implement it, promote its methods, only share *)
(* a name with it, or do not exist.                                        *)
(***************************************************************************)
EXTENDS Rules, Correspondence

Conn == Named("api.Conn", <<>>)
Tx == Named("api.Tx", <<>>)
Callback == Signature("0", <<>>)
Box(type) == Named("api.Box", <<type>>)
T == Parameter("T of Open")
S == Parameter("S of Open")
U == Parameter("U of Close")
V == Parameter("V of Close")

Func(path, receiver, name, recv, params, results) ==
    [path |-> path, receiver |-> receiver, name |-> name, recv |-> recv,
     params |-> params, results |-> results]
Function(path, name, params, results) == Func(path, "", name, Callback, params, results)

Opened == {
    <<Pointer(Conn)>>,
    <<Pointer(Conn), errorType>>,
    <<Pointer(Conn), Pointer(Tx), errorType>>,
    <<Alias("api.Handle", Pointer(Conn)), Conn>>,
    <<Callback, errorType>>,
    <<Pointer(Box(T))>>,
    <<MapOf(T, S)>>,
    <<MapOf(T, T)>>,
    <<Slice(MapOf(T, T))>>}

Closed == {
    <<Pointer(Conn)>>,
    <<contextType, Conn>>,
    <<Pointer(Tx), Pointer(Conn)>>,
    <<Callback>>,
    <<Box(U)>>,
    <<MapOf(U, V)>>,
    <<Slice(MapOf(U, U))>>,
    <<MapOf(U, U)>>}

Released == {<<contextType, Pointer(Conn)>>, <<Tx>>, <<MapOf(V, U)>>}

Open == Name("api", "", "Open")
Close == Name("lib", "", "Close")
Release == Name("ext", "", "Release")

Imports == {
    [api |-> {}, lib |-> {}, ext |-> {}],
    [api |-> {}, lib |-> {"api"}, ext |-> {"lib"}]}

PlainRule(trigger, satisfiers) ==
    [trigger |-> Side(Open, trigger), satisfiers |-> satisfiers,
     implementations |-> <<>>, openOnError |-> FALSE, failures |-> <<>>]

PlainRules ==
    {PlainRule(trigger, <<Side(Close, closing)>> \o more) :
        trigger \in {slotNone, slotResult(0), slotArgument(0)},
        closing \in {slotNone, slotArgument(0)},
        more \in {<<>>, <<Side(Release, slotNone)>>, <<Side(Release, slotArgument(0))>>,
                  <<CallOfValue>>}}

PlainWorlds ==
    {[imports |-> imports,
      types |-> {},
      funcs |-> {Function("api", "Open", <<contextType>>, opened),
                 Function("lib", "Close", closed, <<>>),
                 Function("ext", "Release", released, <<>>)}] :
        imports \in Imports, opened \in Opened, closed \in Closed, released \in Released}

----------------------------------------------------------------------------
(* Rules on an interface.                                                  *)

Declared(path, name, interface, embeds) ==
    [path |-> path, name |-> name, interface |-> interface, embeds |-> embeds]
TypeName(path, name) == [path |-> path, name |-> name]

DB == Named("api.DB", <<>>)
Pool == Named("lib.Pool", <<>>)

\* The methods of lib.Pool: those of the interface, with the results given, or
\* some of them.
PoolMethods ==
    {{Func("lib", "Pool", "Begin", Pointer(Pool), <<>>, <<Pointer(began), errorType>>)} \union
     {Func("lib", "Pool", name, Pointer(Pool), <<Pointer(taken)>>, <<>>) : name \in names} :
        began \in {Tx, Conn}, taken \in {Tx, Conn}, names \in SUBSET {"Commit", "Rollback"}}

InterfaceWorlds ==
    {[imports |-> imports,
      types |-> {Declared("api", "DB", TRUE, {}),
                 Declared("ext", "Closer", TRUE, {}),
                 Declared("lib", "Pool", FALSE, {}),
                 Declared("lib", "Wrapper", FALSE, {TypeName("lib", "Pool")})},
      funcs |-> pool \union {
         Func("api", "DB", "Begin", DB, <<>>, <<Pointer(Tx), errorType>>),
         Func("api", "DB", "Commit", DB, <<Pointer(Tx)>>, <<>>),
         Func("ext", "Closer", "Rollback", Named("ext.Closer", <<>>), <<Pointer(Tx)>>, <<>>),
         Func("lib", "Wrapper", "Begin", Pointer(Named("lib.Wrapper", <<>>)), <<>>,
              <<Pointer(Tx), errorType>>),
         Function("ext", "Drop", <<Tx>>, <<errorType>>)}] :
        imports \in Imports, pool \in PoolMethods}

InterfaceRules ==
    {[trigger |-> Side(Name("api", "DB", "Begin"), slotNone),
      satisfiers |-> satisfiers,
      implementations |-> implementations, openOnError |-> FALSE, failures |-> failures] :
        satisfiers \in {
            <<Side(Name("api", "DB", "Commit"), slotNone)>>,
            <<Side(Name("api", "DB", "Commit"), slotArgument(0)),
              Side(Name("ext", "Closer", "Rollback"), slotNone)>>,
            <<Side(Name("ext", "", "Drop"), slotNone),
              Side(Name("api", "DB", "Commit"), slotNone)>>},
        implementations \in {
            <<>>, <<TypeName("lib", "Pool")>>, <<TypeName("lib", "Wrapper")>>,
            <<TypeName("lib", "Pool"), TypeName("lib", "Wrapper")>>,
            <<TypeName("lib", "Missing")>>},
        failures \in {<<>>, <<Name("ext", "", "Drop")>>, <<Name("ext", "Closer", "Rollback")>>}}

----------------------------------------------------------------------------
(* What only terms can say.                                                *)

\* The same type: but for a pointer or, when it mentions a type parameter, up
\* to the names of its type parameters, one for one.
Same(first, second) ==
    IF mentionsTypeParameter(first) \/ mentionsTypeParameter(second)
    THEN SameUpToNames(first, second)
    ELSE sameType(first, second)

\* The type in the slot a side writes.
Carried(side) ==
    LET function == CHOOSE any \in lookupFunc(world, Loaded, side.name) : TRUE
        offered == candidates(function, TRUE)
    IN  dereference(
            offered[CHOOSE i \in DOMAIN offered : offered[i].slot = side.slot].valueType)

\* When the rule writes the slot on every side, Validate accepts it exactly
\* when the types in those slots are one type (correspondence.go, correspond
\* and pair).
WrittenSlotsLink ==
    LET written == \A side \in Sides(rule) : side.slot # slotNone
        itself == rule.implementations = <<>> /\ rule.failures = <<>>
    IN  (verdict # "none" /\ written /\ itself) =>
            (Accepted <=>
                /\ offeredBy(world, Loaded, rule.trigger, TRUE).error = ""
                /\ \A i \in DOMAIN rule.satisfiers :
                      /\ offeredBy(world, Loaded, rule.satisfiers[i], FALSE).error = ""
                      /\ Same(Carried(rule.trigger), Carried(rule.satisfiers[i])))

----------------------------------------------------------------------------

MCCases ==
    [world : PlainWorlds, rule : PlainRules]
    \union [world : InterfaceWorlds, rule : InterfaceRules]

MCLibraries == {"api", "lib", "ext"}

=============================================================================
