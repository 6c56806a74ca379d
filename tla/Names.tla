---- MODULE Names ----
(***************************************************************************)
(* The names a rule is written with, and what a pass makes of them         *)
(* (name.go, protocol.go, paircheck.go).                                   *)
(*                                                                         *)
(* A name is a function of a package: the module the package belongs to,   *)
(* its path in the module, and the function.  A name relative to the       *)
(* module has Here in the place of the module until a pass resolves it     *)
(* against the module of the package it analyzes.  A side is a name, or    *)
(* the call satisfier, which names nothing.                                *)
(***************************************************************************)
EXTENDS Lists

CONSTANTS
    Here,       \* the module of a name not resolved yet
    NoModule,   \* the module of a package that belongs to none
    NoName      \* the name of the call satisfier

relative(name) == name # NoName /\ name.module = Here

\* A name resolved against module, and whether it cannot be.
nameWithin(name, module) ==
    IF relative(name) THEN [name EXCEPT !.module = module] ELSE name
belongsToNone(name, module) == relative(name) /\ module = NoModule

callOfValue == [called |-> TRUE, name |-> NoName]
sideOf(name) == [called |-> FALSE, name |-> name]
sideWithin(side, module) ==
    IF side.called THEN side ELSE [side EXCEPT !.name = nameWithin(@, module)]
sideBelongsToNone(side, module) == ~side.called /\ belongsToNone(side.name, module)

\* Whether a protocol names anything relative to the module but its failures.
relativeButImplementations(p) ==
    relative(p.trigger) \/ \E s \in Range(p.satisfiers) : relative(s.name)
protocolRelative(p) ==
    \/ relative(p.trigger)
    \/ \E s \in Range(p.satisfiers) \cup Range(p.implementations) :
           ~s.called /\ relative(s.name)

\* The failures a package outside the modules under development reads.
absoluteFailures(failures) == only(failures, {s \in Range(failures) : ~relative(s.name)})

\* What tells a protocol apart across the passes of a run: its id and the
\* names it resolved to, in the order they are written.
keyByTrigger(p) == <<p.id, p.trigger>>
key(p) == <<p.id, p.trigger, [i \in DOMAIN p.satisfiers |-> p.satisfiers[i].name]>>
====
