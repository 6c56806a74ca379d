------------------------------ MODULE Identity ------------------------------
(***************************************************************************)
(* Which values of a function are the same: the paths of                   *)
(* src/paircheck/identity.go, and the method values kept in memory of      *)
(* src/paircheck/slot.go, beside a run of the function over an exact heap. *)
(*                                                                         *)
(* A program is [instr, blocks].  instr gives each register its            *)
(* instruction [op, x, y, key, field, edges]; blocks are three sequences   *)
(* of registers: the entry, the head of a loop, whose phis have an edge    *)
(* from the entry and one from the third block, and the third block, whose *)
(* phis join two branches with nothing in them.  A store, a copy, an       *)
(* update of a map and a call are registers too, and hold no value.        *)
(*                                                                         *)
(* A value of the run is an address <<object, fields>>: the fields lead    *)
(* from the object to a part of it, none for the object itself.  A struct  *)
(* is the addresses below its own, so a copy of one struct over another    *)
(* writes all of them; go/ssa spells it as a load of the one, and a store  *)
(* into the other.                                                         *)
(***************************************************************************)
EXTENDS Integers, Sequences, SequencesExt, FiniteSets

CONSTANTS
    Programs,   \* the functions analyzed
    Heaps,      \* what the memory the parameters reach may hold at the start
    Arguments,  \* what the parameters may be
    MaxRounds   \* bound: how often the loop is entered

NoValue == "none"   \* no operand, no root

----------------------------------------------------------------------------
(* The functions: SSA, and one object for each number.                     *)

Nothing == <<-1, <<>>>>   \* nil
Unset == <<-2, <<>>>>     \* a register with no value yet

RegistersOf(function, block) ==
    {function.blocks[block][i] : i \in DOMAIN function.blocks[block]}

PhisOf(function, block) ==
    {register \in RegistersOf(function, block) : function.instr[register].op = "phi"}

\* Whether one instruction comes before another, in its block or in an earlier one.
Before(function, one, other) ==
    \E b, c \in 1..3 :
        \E i \in DOMAIN function.blocks[b], j \in DOMAIN function.blocks[c] :
            /\ function.blocks[b][i] = one
            /\ function.blocks[c][j] = other
            /\ b < c \/ (b = c /\ i < j)

Operands(instruction) == {instruction.x, instruction.y, instruction.key} \ {NoValue}

\* What must be there for an instruction to be one.
Needed(instruction) ==
    CASE instruction.op \in {"fieldaddr", "load", "convert"} -> {instruction.x}
      [] instruction.op = "lookup" -> {instruction.x, instruction.key}
      [] instruction.op \in {"store", "copy"} -> {instruction.x, instruction.y}
      [] instruction.op = "mapupdate" -> {instruction.x, instruction.y, instruction.key}
      [] OTHER -> {}

\* The registers that hold a value.
ValuesOf(function) ==
    {register \in DOMAIN function.instr :
        function.instr[register].op \notin {"store", "copy", "mapupdate", "call"}}

\* Every register is set in one place.
SetOnce(function) ==
    LET blocks == function.blocks
    IN  /\ blocks \in [1..3 -> Seq(DOMAIN function.instr)]
        /\ DOMAIN function.instr = UNION {RegistersOf(function, b) : b \in 1..3}
        /\ \A b, c \in 1..3 : \A i \in DOMAIN blocks[b], j \in DOMAIN blocks[c] :
              blocks[b][i] = blocks[c][j] => b = c /\ i = j

\* The phis lead a block, and the entry has none.
PhisLead(function) ==
    /\ PhisOf(function, 1) = {}
    /\ \A b \in 1..3 : \A i \in DOMAIN function.blocks[b] :
          function.instr[function.blocks[b][i]].op = "phi" <=> i <= Cardinality(PhisOf(function, b))

\* A phi takes a value that is set by the end of its edge.
EdgesSet(function) ==
    \A b \in 2..3 : \A phi \in PhisOf(function, b) :
        LET edges == function.instr[phi].edges
            entry == RegistersOf(function, 1)
            head == RegistersOf(function, 2)
        IN  /\ DOMAIN edges = 1..2
            /\ edges[1] \in ValuesOf(function) /\ edges[2] \in ValuesOf(function)
            /\ b = 2 => edges[1] \in entry
            /\ b = 3 => edges[1] \in entry \union head /\ edges[2] \in entry \union head

\* An operand is a value set before.
OperandsSet(function) ==
    \A register \in DOMAIN function.instr :
        /\ NoValue \notin Needed(function.instr[register])
        /\ \A operand \in Operands(function.instr[register]) :
              operand \in ValuesOf(function) /\ Before(function, operand, register)

\* A function as go/ssa builds it.
InSSA(function) ==
    /\ IsFiniteSet(DOMAIN function.instr) /\ NoValue \notin DOMAIN function.instr
    /\ SetOnce(function) /\ PhisLead(function) /\ EdgesSet(function) /\ OperandsSet(function)
    /\ \A register \in DOMAIN function.instr :
          /\ function.instr[register].field \in STRING
          /\ function.instr[register].op \in {"param", "const"} =>
                register \in RegistersOf(function, 1)

\* What was there before the run: no object the run makes, and not unset.
Old(there) ==
    /\ there \in Int \X Seq(STRING)
    /\ there[1] <= 0 /\ there[1] # Unset[1]

ASSUME FunctionsAssumption ==
    /\ \A each \in Programs : InSSA(each)
    /\ \A each \in Programs, arguments \in Arguments :
          \A register \in DOMAIN each.instr :
              each.instr[register].op \in {"param", "const"} => Old(arguments[register])
    /\ \A memory \in Heaps : \A address \in DOMAIN memory :
          Old(address) /\ Old(memory[address])

----------------------------------------------------------------------------

VARIABLES
    program,    \* the function
    paths,      \* pathOf of each of its registers
    at,         \* <<block, index>> of the next instruction
    round,      \* how often the loop was entered
    value,      \* what each register holds now
    seen,       \* the times, counted in writes, of the loads behind each value
    held,       \* every value each register ever held
    heap,       \* what each address holds
    writes,     \* how many writes there were
    objects     \* how many objects were made

identityVars == <<program, paths, at, round, value, seen, held, heap, writes, objects>>

----------------------------------------------------------------------------
(* identity.go.                                                            *)

\* The path every edge that says something agrees on, or the phi itself.
walkPhi(phi, known) ==
    IF Cardinality(known) = 1 THEN CHOOSE path \in known : TRUE
    ELSE [root |-> phi, steps |-> <<>>, loads |-> FALSE]

\* The steps from the value inside a value to it, one or for a conversion none.
Step(instruction) ==
    CASE instruction.op = "fieldaddr" -> << <<"&", instruction.field>> >>
      [] instruction.op = "load" -> << <<"*">> >>
      [] OTHER -> <<>>

\* The path of a value reached while some phis are being visited, from the paths
\* of what it is made of; one with no root says nothing.
walkFrom(instr, reached, point) ==
    LET register == point[1]
        visiting == point[2]
        instruction == instr[register]
        inner == reached[<<instruction.x, visiting>>]
        edges == {reached[<<instruction.edges[i], visiting \union {register}>>] :
                     i \in DOMAIN instruction.edges}
    IN  CASE instruction.op \in {"fieldaddr", "load", "convert"} ->
                [root |-> inner.root,
                 steps |-> inner.steps \o Step(instruction),
                 loads |-> inner.loads \/ instruction.op = "load"]
          [] instruction.op = "phi" ->
                IF register \in visiting
                THEN [root |-> NoValue, steps |-> <<>>, loads |-> FALSE]
                ELSE walkPhi(register, {path \in edges : path.root # NoValue})
          [] OTHER -> [root |-> register, steps |-> <<>>, loads |-> FALSE]

walk(instr) ==
    LET reached[point \in (DOMAIN instr) \X (SUBSET DOMAIN instr)] == walkFrom(instr, reached, point)
    IN  reached

pathOf(instr, register) == walk(instr)[<<register, {}>>]

Op(root) == program.instr[root].op

\* Memory the function made.
allocated(root) == Op(root) \in {"alloc", "makemap", "closure"}

\* An object no other value can already hold.
fresh(root) == allocated(root) \/ Op(root) = "trigger"

\* A mutant of comparePaths: it tells values read from memory apart.
comparePathsLoaded(first, second) ==
    CASE first = second -> "yes"
      [] first.root # second.root /\ fresh(first.root) /\ fresh(second.root) -> "no"
      [] OTHER -> "unknown"

\* A mutant of comparePaths: one root is one value.
comparePathsRoots(first, second) ==
    CASE first.root = second.root /\ first.loads = second.loads -> "yes"
      [] /\ first.root # second.root
         /\ ~first.loads /\ ~second.loads
         /\ fresh(first.root) /\ fresh(second.root) -> "no"
      [] OTHER -> "unknown"

comparePaths(first, second) ==
    CASE first = second -> "yes"
      [] /\ first # second
         /\ ~first.loads /\ ~second.loads
         /\ first.root # second.root
         /\ fresh(first.root) /\ fresh(second.root) -> "no"
      [] OTHER -> "unknown"

\* The registers that use a register.
Referrers(register) ==
    {user \in DOMAIN program.instr :
        LET instruction == program.instr[user]
        IN  \/ register \in {instruction.x, instruction.y, instruction.key}
            \/ \E i \in DOMAIN instruction.edges : instruction.edges[i] = register}

\* A variable that only ever holds a parameter.
holdsParameter(variable) ==
    /\ \A user \in Referrers(variable) :
          \/ Op(user) = "load"
          \/ Op(user) = "copy" /\ program.instr[user].x # variable
          \/ /\ Op(user) = "store"
             /\ Op(program.instr[user].y) = "param"
             /\ program.instr[user].x = variable
    /\ \E user \in Referrers(variable) : Op(user) = "store"

received(reached) ==
    \/ Op(reached.root) = "param" /\ reached.steps = <<>>
    \/ /\ Op(reached.root) = "alloc"
       /\ reached.steps = << <<"*">> >>
       /\ holdsParameter(reached.root)

\* A function a trigger returned is not one the function was given.
freshBeside(made, other) ==
    Op(made.root) # "param" /\ fresh(made.root) /\ ~made.loads /\ received(other)

\* Whether the value a satisfier carries is the one opened, under the call
\* satisfier.
satisfied(carried, opened) ==
    IF /\ comparePaths(carried, opened) = "unknown"
       /\ freshBeside(opened, carried) \/ freshBeside(carried, opened)
    THEN "no"
    ELSE comparePaths(carried, opened)

\* A mutant of sameLocation: two paths from one root part, read or not.
sameLocationLoaded(first, second) ==
    CASE first = second -> "yes"
      [] first # second /\ first.root = second.root -> "no"
      [] /\ first.root # second.root
         /\ allocated(first.root) /\ allocated(second.root) -> "no"
      [] OTHER -> "unknown"

sameLocation(first, second) ==
    CASE first = second -> "yes"
      [] first # second /\ (first.loads \/ second.loads) -> "unknown"
      [] /\ first # second /\ ~first.loads /\ ~second.loads
         /\ \/ first.root = second.root
            \/ allocated(first.root) /\ allocated(second.root) -> "no"
      [] OTHER -> "unknown"

sameKey(first, second) ==
    CASE first = second -> "yes"
      [] first # second /\ Op(first) = "const" /\ Op(second) = "const" -> "no"
      [] OTHER -> "unknown"

sameEntry(lookup, update) ==
    LET maps == sameLocation(paths[lookup.x], paths[update.x])
        keys == sameKey(lookup.key, update.key)
    IN  CASE maps = "no" \/ keys = "no" -> "no"
          [] maps = "yes" /\ keys = "yes" -> "yes"
          [] OTHER -> "unknown"

----------------------------------------------------------------------------
(* slot.go: the method values a value read back from memory may be.        *)

\* Whether an instruction stores where a value is read from.
keptAt(read, store) ==
    LET reading == program.instr[read]
        storing == program.instr[store]
    IN  CASE reading.op = "load" /\ storing.op \in {"store", "copy"} ->
                sameLocation(paths[reading.x], paths[storing.x])
          [] reading.op = "lookup" /\ storing.op = "mapupdate" -> sameEntry(reading, storing)
          [] OTHER -> "no"

storedWhere(read) ==
    {store \in DOMAIN program.instr : keptAt(read, store) # "no"}

PlaceOf(register) ==
    LET block == CHOOSE b \in DOMAIN program.blocks :
                    \E i \in DOMAIN program.blocks[b] : program.blocks[b][i] = register
    IN  <<block, CHOOSE i \in DOMAIN program.blocks[block] :
                    program.blocks[block][i] = register>>

\* A mutant of precedes: a call between does not count.
precedesCalls(store, read) ==
    PlaceOf(store)[1] = PlaceOf(read)[1] /\ PlaceOf(store)[2] < PlaceOf(read)[2]

precedes(store, read) ==
    LET block == PlaceOf(read)[1]
        from == PlaceOf(store)[2]
        to == PlaceOf(read)[2]
    IN  /\ PlaceOf(store)[1] = block
        /\ from < to
        /\ \A i \in from..to : Op(program.blocks[block][i]) # "call"

\* Whether what an instruction stores is a method value: what a copy stores was
\* read from memory.
boundMethod(store) == Op(store) # "copy" /\ Op(program.instr[store].y) = "closure"

readBack == {register \in DOMAIN paths : Op(register) \in {"load", "lookup"}}

\* The method values among what is stored there, and whether they are all the
\* value can be.
keptMethods(read) ==
    LET stores == storedWhere(read)
    IN  [methods |-> {program.instr[store].y : store \in {each \in stores : boundMethod(each)}},
         all |-> /\ stores # {}
                 /\ \A store \in stores : boundMethod(store) /\ precedes(store, read)]

----------------------------------------------------------------------------
(* The run of the function.                                                *)

Block == program.blocks[at[1]]
Running == at[2] <= Len(Block)
Current == Block[at[2]]
Instruction == program.instr[Current]

Sets(register, held1, times) ==
    /\ value' = [value EXCEPT ![register] = held1]
    /\ seen' = [seen EXCEPT ![register] = times]
    /\ held' = [held EXCEPT ![register] = @ \union {held1}]

Advance == at' = <<at[1], at[2] + 1>>

Makes ==
    /\ Running
    /\ Instruction.op \in {"alloc", "makemap", "closure", "trigger"}
    /\ Sets(Current, <<objects, <<>>>>, {})
    /\ objects' = objects + 1
    /\ Advance
    /\ UNCHANGED <<program, paths, round, heap, writes>>

\* Parameters and constants hold their value from the start.
Given ==
    /\ Running
    /\ Instruction.op \in {"param", "const"}
    /\ Advance
    /\ UNCHANGED <<program, paths, round, value, seen, held, heap, writes, objects>>

Converts ==
    /\ Running
    /\ Instruction.op = "convert"
    /\ Sets(Current, value[Instruction.x], seen[Instruction.x])
    /\ Advance
    /\ UNCHANGED <<program, paths, round, heap, writes, objects>>

\* A field of nothing panics: the run stops there.
Reaches ==
    /\ Running
    /\ Instruction.op = "fieldaddr"
    /\ value[Instruction.x] # Nothing
    /\ LET inside == value[Instruction.x]
       IN  Sets(Current, <<inside[1], Append(inside[2], Instruction.field)>>,
                seen[Instruction.x])
    /\ Advance
    /\ UNCHANGED <<program, paths, round, heap, writes, objects>>

At(address) == IF address \in DOMAIN heap THEN heap[address] ELSE Nothing

EntryOf(instruction) == <<value[instruction.x][1], value[instruction.key][2]>>

Loads ==
    /\ Running
    /\ \/ /\ Instruction.op = "load"
          /\ value[Instruction.x] # Nothing
          /\ Sets(Current, At(value[Instruction.x]), seen[Instruction.x] \union {writes})
       \/ /\ Instruction.op = "lookup"
          /\ Sets(Current, At(EntryOf(Instruction)), seen[Instruction.x] \union {writes})
    /\ Advance
    /\ UNCHANGED <<program, paths, round, heap, writes, objects>>

Write(address, written) ==
    /\ heap' = [place \in DOMAIN heap \union {address} |->
                   IF place = address THEN written ELSE heap[place]]
    /\ writes' = writes + 1

Stores ==
    /\ Running
    /\ \/ /\ Instruction.op = "store"
          /\ value[Instruction.x] # Nothing
          /\ Write(value[Instruction.x], value[Instruction.y])
       \/ /\ Instruction.op = "mapupdate"
          /\ Write(EntryOf(Instruction), value[Instruction.y])
    /\ Advance
    /\ UNCHANGED <<program, paths, round, value, seen, held, objects>>

\* Whether an address is of a struct, and the other is of it or of a part of it.
Covers(struct, part) == struct[1] = part[1] /\ IsPrefix(struct[2], part[2])

\* The address in one struct of what a part is in another.
Counterpart(struct, part, other) ==
    <<struct[1], struct[2] \o SubSeq(part[2], Len(other[2]) + 1, Len(part[2]))>>

\* One struct over another, every part of it.
Copies ==
    /\ Running
    /\ Instruction.op = "copy"
    /\ LET to == value[Instruction.x]
           from == value[Instruction.y]
           filled == {Counterpart(to, part, from) :
                         part \in {place \in DOMAIN heap : Covers(from, place)}}
       IN  /\ to # Nothing /\ from # Nothing
           /\ heap' = [place \in {each \in DOMAIN heap : ~Covers(to, each)} \union filled |->
                          IF Covers(to, place) THEN At(Counterpart(from, place, to))
                          ELSE heap[place]]
    /\ writes' = writes + 1
    /\ Advance
    /\ UNCHANGED <<program, paths, round, value, seen, held, objects>>

\* What a call can reach: what was there before, and what memory holds.
Reachable(address) ==
    \/ address[1] <= 0
    \/ \E place \in DOMAIN heap : heap[place][1] = address[1]

\* A call of anything else may clear what the function has in memory, or write
\* what memory holds into what it reaches.
Calls ==
    /\ Running
    /\ Instruction.op = "call"
    /\ \/ UNCHANGED <<heap, writes>>
       \/ \E address \in DOMAIN heap : Write(address, Nothing)
       \/ \E address, place \in DOMAIN heap :
             Reachable(address) /\ Write(address, heap[place])
    /\ Advance
    /\ UNCHANGED <<program, paths, round, value, seen, held, objects>>

\* Enters a block: its phis take the value of the edge, all at once, and what
\* the loop made in its last round is no longer there.
Enter(block, edge) ==
    LET phis == PhisOf(program, block)
        kept == RegistersOf(program, 1) \union
                (IF block = 3 THEN RegistersOf(program, 2) ELSE {})
        taken(register) == program.instr[register].edges[edge]
    IN  /\ value' = [register \in DOMAIN value |->
                        CASE register \in phis -> value[taken(register)]
                          [] register \in kept -> value[register]
                          [] OTHER -> Unset]
        /\ seen' = [register \in DOMAIN seen |->
                       IF register \in phis THEN seen[taken(register)] ELSE seen[register]]
        /\ held' = [register \in DOMAIN held |->
                       held[register] \union
                       (IF register \in phis THEN {value[taken(register)]} ELSE {})]
        /\ at' = <<block, Cardinality(phis) + 1>>

\* From the entry and from the third block to the head, from the head to the
\* third block along either branch.
Jumps ==
    /\ ~Running
    /\ \/ at[1] \in {1, 3} /\ round < MaxRounds
          /\ Enter(2, IF at[1] = 1 THEN 1 ELSE 2)
          /\ round' = round + 1
       \/ at[1] = 2 /\ \E edge \in 1..2 : Enter(3, edge)
          /\ UNCHANGED round
    /\ UNCHANGED <<program, paths, heap, writes, objects>>

----------------------------------------------------------------------------

\* The values of the parameters and constants, each of which it holds at once.
IdentityInit ==
    \E arguments \in Arguments :
        /\ program \in Programs
        /\ paths = [register \in DOMAIN program.instr |-> pathOf(program.instr, register)]
        /\ at = <<1, 1>>
        /\ round = 0
        /\ value = [register \in DOMAIN program.instr |->
                       IF program.instr[register].op \in {"param", "const"}
                       THEN arguments[register] ELSE Unset]
        /\ seen = [register \in DOMAIN program.instr |-> {}]
        /\ held = [register \in DOMAIN program.instr |-> {value[register]}]
        /\ heap \in Heaps
        /\ writes = 0
        /\ objects = 1

IdentityNext ==
    \/ Makes
    \/ Given
    \/ Converts
    \/ Reaches
    \/ Loads
    \/ Stores
    \/ Copies
    \/ Calls
    \/ Jumps

IdentitySpec == IdentityInit /\ [][IdentityNext]_identityVars

\* A value the run may meet.
Met(there) == there \in Int \X Seq(STRING) /\ there[1] < objects

\* Registers and memory hold objects of the run, and a path starts at a
\* register of the function (identity.go, walk).
MemoryOK ==
    /\ round \in 0..MaxRounds
    /\ \A register \in DOMAIN value : Met(value[register])
    /\ \A address \in DOMAIN heap : Met(address) /\ Met(heap[address])
    /\ \A register \in DOMAIN paths : paths[register].root \in DOMAIN program.instr

Objects(register) == held[register] \ {Nothing, Unset}

\* A register, but one of an interface type, holds addresses of one type, and no
\* type of Go has itself for a part: none it holds is a part of another.
OneType ==
    \A register \in DOMAIN paths : \A one, other \in Objects(register) :
        Covers(one, other) => one = other

----------------------------------------------------------------------------
(* What the search relies on.                                              *)

\* Two registers told apart, by what compare or the call satisfier goes by,
\* never hold one value, at one time or at two: a satisfier called on the one
\* is never taken away from an obligation on the other (identity.go, compare).
NoMeansDistinct ==
    \A one, other \in DOMAIN paths :
        Objects(one) \intersect Objects(other) # {} =>
            satisfied(paths[one], paths[other]) # "no"

\* Two registers said to be one value hold the same, when no write came
\* between the loads they were read by (identity.go:24, path).
YesMeansSame ==
    \A one, other \in DOMAIN paths :
        (/\ value[one] # Unset /\ value[other] # Unset
         /\ comparePaths(paths[one], paths[other]) = "yes"
         /\ Cardinality(seen[one] \union seen[other]) <= 1)
        => value[one] = value[other]

\* Two registers said to be one value hold the same, whatever was written
\* between, as path has it (identity.go:24).
OnePathOneValue ==
    \A one, other \in DOMAIN paths :
        (/\ value[one] # Unset /\ value[other] # Unset
         /\ comparePaths(paths[one], paths[other]) = "yes")
        => value[one] = value[other]

\* Whether any address one register held is of a part of what the other's was.
Overlap(one, other) ==
    \E here \in Objects(one), there \in Objects(other) :
        Covers(here, there) \/ Covers(there, here)

\* Two addresses said to reach other memory never reach the same, a struct and
\* a part of it included, as sameLocation has it (identity.go:166).
NoMeansElsewhere ==
    \A one, other \in DOMAIN paths :
        sameLocation(paths[one], paths[other]) = "no" => ~Overlap(one, other)

\* Whether two paths are from two roots, or part at a field.
Part(first, second) ==
    \/ first.root # second.root
    \/ ~IsPrefix(first.steps, second.steps) /\ ~IsPrefix(second.steps, first.steps)

\* Nor do two that part at a field, or are from two allocations, structs and
\* parts of parts included (identity.go, sameLocation): a store, or a copy of a
\* whole struct, is rightly left out of what the other holds.  A struct and a
\* part of it do not part (NoMeansElsewhere).
LocationsPart ==
    \A one, other \in DOMAIN paths :
        (/\ sameLocation(paths[one], paths[other]) = "no"
         /\ Part(paths[one], paths[other]))
        => ~Overlap(one, other)

\* Whether a value read back is one of the method values said to be all it can be.
IsKept(read) ==
    (value[read] # Unset /\ keptMethods(read).all)
    => \E method \in keptMethods(read).methods : value[read] = value[method]

\* A function value read back is one of the method values stored, when
\* keptMethods says they are all it can be (slot.go:103).
KeptMethodsAll == \A read \in readBack : IsKept(read)

\* Whether a store is into where a value is read from, for sure: along one path,
\* with no write between the loads on it.
SureStore(read, store) ==
    /\ keptAt(read, store) = "yes"
    /\ Cardinality(seen[program.instr[read].x] \union seen[program.instr[store].x]) <= 1

\* Whether a copy writes a struct that has what is read for a part.
CopiesOver(copy, read) ==
    /\ Op(copy) = "copy"
    /\ paths[program.instr[copy].x].root = paths[program.instr[read].x].root
    /\ IsPrefix(paths[program.instr[copy].x].steps, paths[program.instr[read].x].steps)

\* It is, where one of the stores is for sure into the place read, and no copy is
\* of a struct with the place in it: whatever else is stored through addresses
\* that may be that place, copied beside it, or called before (slot.go,
\* keptMethods, precedes).
KeptWhereStored ==
    \A read \in readBack :
        (/\ \E store \in storedWhere(read) : SureStore(read, store)
         /\ ~\E copy \in DOMAIN paths : CopiesOver(copy, read))
        => IsKept(read)

\* What the path of a register is made from.
MadeOf(instr, register) ==
    CASE instr[register].op \in {"fieldaddr", "load", "convert"} -> {instr[register].x}
      [] instr[register].op = "phi" ->
            {instr[register].edges[i] : i \in DOMAIN instr[register].edges}
      [] OTHER -> {}

\* Whether within has all a register is made from, and not the register.
MadeWithin(instr, register, within) ==
    /\ register \notin within
    /\ \A each \in within \union {register} : MadeOf(instr, each) \subseteq within

\* What keeps the paths of this module from being lost: no edge of a phi leads
\* back to it through a field or a load, which are not made from themselves.
StepsEnd(instr) ==
    \A register \in {each \in DOMAIN instr : instr[each].op \in {"fieldaddr", "load"}} :
        \E within \in SUBSET DOMAIN instr : MadeWithin(instr, register, within)

=============================================================================
