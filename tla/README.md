# Precept, specified

TLA+ specifications of `paircheck`, the analyzer of this repository, model-checked
with TLC on small instances and, for its core, proved with TLAPS for every
value of the constants.

`paircheck` reads Go code and reports a call that opens an obligation on a value
(`Open`, `Lock`, `Begin`) when some path leaves the function before a call that
discharges it (`Close`, `Unlock`, `Commit`). It abstracts what the code does:
it counts to two, reads errors through flags and sets, merges paths that meet,
and takes helpers and closures at a summary. What can go wrong is that one of
these shortcuts says something the program does not do. So most modules here
hold two things side by side: the analyzer, translated from its source, and the
analyzed program, a ghost that really runs. The properties relate the two.

## The system

| Component | Source | State | What makes it correct |
|---|---|---|---|
| Path search, one step | `paircheck/flow.go`, `transfer.go`, `success.go`, `failure.go` | the state of a path: open, deferred, uncertain, displaced, called, failed, closures | what it says of a path is so of the program on it |
| Path search, the graph | `flow.go` (`explore`), `success.go` (`proven`) | stack of points, memo of what was known at each | merging paths misses no leak and invents none; it ends |
| Summaries | `paircheck/summary.go` | what each function does with each parameter, facts for other packages | what is recorded is what the function does, in any order of reading |
| Deferred closures | `paircheck/closure.go` | stack and visited points | a closure taken to discharge calls a satisfier |
| Failures | `paircheck/failures.go` | error variables that may be nil, functions that always fail | what is taken not to be nil is not |
| Identity | `paircheck/identity.go` | none between questions | "same" and "another" are so; else "maybe" |
| Binding, slots | `bind.go`, `slot.go`, `correspondence.go` | a binding per rule and pass | a pass that sees fewer packages deduces no other slot |
| Rules on interfaces | `implementation.go` | none | a rule applies to each implementation once |
| Rules and names | `config.go`, `protocol.go`, `name.go`, `validate.go` | protocols shared by all passes | ids are unique; no pass writes to what is shared |
| Analyzer entry | `paircheck.go` | none between passes | each pass binds what it sees, learns, then checks |
| Diagnostics | `diagnostic.go` | none | wording |
| Driver: run | `driver.go`, `loading.go`, `command.go` | errors of the run, exit status | every failure shows in the status, once |
| Driver: filter | `report.go`, `exclusions.go`, `nolint.go`, `generated.go` | findings kept so far, rules used, files read | drops what golangci-lint drops, in its order |
| Driver: configuration | `internal/driver/config.go` | none | reads what golangci-lint reads |
| Driver: vet tool | `internal/driver/vet.go` | rules read once; go vet's cache outside | a failing run leaves nothing that hides the next; it reports what the command prints |
| defcheck | `defcheck/` | none between declarations | one rule per declaration |
| Commands, plugin, e2e | `cmd/`, `plugin/`, `e2e/` | none | flags and wiring |

How they interact. A pass (`check`, `paircheck.go`) resolves the rules' names
against its module, binds each rule to the packages it sees, learns the
summaries of its functions from those of its imports (facts) and of each other,
then runs one search for each trigger call of each function. The search asks
identity whether a call is on its value, the binding which slot carries it, the
summaries what a helper does with it, the closures whether a defer pays, and
failures which errors are not nil. The driver runs the passes over the graph of
packages, concurrently where they do not depend on each other, collects their
diagnostics and filters them.

What is hard. Little of it runs concurrently: the passes share the compiled
protocols, which they must not write to, and pass facts along the graph. The
hard part is sequences: opens, defers, stores, checks and returns in orders
nobody wrote down, loops that come back with other knowledge, functions read
before those they call, a map that iterates in another order in every run. The
`hazards` of `PROJECT.json` list them at their lines.

## The modules

| Module | Models | Kind |
|---|---|---|
| `Flow` | one step of the search: `classify`, `stored`, `remembered`, `after`, `callsBeforeDefer`, `leakAt`, `verdictOf`, `along`, `successors` | operators |
| `PathWalk` | one path of any instructions and branches, beside the program | state machine |
| `Paths` | a block: `advance` and the successors it returns | operators |
| `Search` | `explore`, with its stack and its memo, beside a walk of any path | state machine |
| `Proven` | the strings of bytes the search keeps its sets in | operators, proved about only |
| `Worklist` | what `explore` promises: any search with a memo whose facts only hide leaks | abstract specification |
| `Summaries` | `learnSummaries`, `learnParameter`, `follow`, then a run of the package | state machine, on `Flow` |
| `Closures` | `coversEveryPath`, `decides`, then a run of the closure | state machine, on `Paths` |
| `Failures` | `failuresOf`, `learnNilable`, `learnFunctions`, then a run of the package | state machine |
| `Identity` | `pathOf`, `compare`, `sameLocation`, `keptMethods`, beside a run of the function over a heap | state machine |
| `Types` | types as terms: `sameType`, `dereference`; what goes down a term is a constant | operators |
| `Correspondence` | those constants: aliases at any depth, `unify` and the pairs of a correspondence | operators, on `Types` |
| `Binding` | `resolve`, `bind`, `deduce`, and what a rule on an interface becomes for a type | operators, on `Types` |
| `Rules` | `Validate`, then the pass of any package, on the same rule | state machine, on `Binding` |
| `Lists` | what a list keeps of a set; what a list of sets has, each once | operators |
| `Names` | names relative to a module, and the key of a fact | operators, on `Lists` |
| `Passes` | the passes of a run, at once, over shared rules, with facts | state machine, on `Names` |
| `Driver` | a run of the command: loading, the passes, what it prints, its status | composition, on `Passes` |
| `Filter` | where a finding is placed, and what drops it | operators, on `Lists` |
| `Vet` | the vet tool under go vet's cache, over a project that is edited | composition, on `Filter` |
| `PathWalk_proofs`, `Worklist_proofs`, `Search_proofs` (of `Paths`, `Proven` and `Search`), `Summaries_proofs`, `Closures_proofs`, `Facts_proofs` (of `Failures`, `Binding`, `Rules` and `Identity`), `Driver_proofs` (of `Names`, `Passes` and `Driver`), `Vet_proofs` (of `Filter` and `Vet`) | theorems | proofs |
| `MC*` | instances for TLC | |

### State and actions

`Flow` has the analyzer's `state` as a record with its fields, and the code's
functions by their names. `step(p, s, i)` is one turn of the loop of `advance`;
`followed` and `into` are `successors`. What an instruction is to the value is
a set of facts it carries (`"satisfier"`, `"trigger"`, `"passes"`,
`"discharged"`, `"closureAny"`): in the code, identity, slots, summaries and
closures answer that. `failed`, a set of variables and registers, is the
`proven` string of the code: `Proven` has the strings, and the proof that a set
has one spelling and that their operations are those of sets.

`PathWalk` runs it. `Execute` is an instruction, for the search through `step`
and for the program through the ghosts: `owed` is how many satisfiers it owes,
`covered` how many deferred ones will run, `contents` what each error holds.
`Branch` goes where the program's errors say; the search follows, or drops the
path. `Load` reads a variable earlier than it is used, which SSA allows. A loop
defines its registers again: `Again` is the trigger's own call, met again, which
makes another error, and `Redefine` any other instruction that does. The search
sees an opening in the first and nothing in the second, and goes on with what it
knew of the register. Three ghosts tell the turns apart: `exposed` is of the
trigger's last call only, `shown` counts the calls a check showed to have failed,
and `renewed` are the names that may hold another value than the one the path
learned of.

`Search` is `explore` over a whole function: `Skip` is its `continue`, `Visit` a
turn of its loop, `Return` its end. `Walk` is a ghost that follows any path with
the same steps and no memo. What a path of some length reaches is a set by
recursion on its length, and `Lengths` are the lengths looked at: in the run up
to eight, twice round any loop of its shapes; in the proof, all.

`Worklist` knows nothing of obligations. A node is a point and what is known
there; knowing less must lead to every leak that knowing more does
(`Monotone`). `Skip` and `Visit` take nodes in any order and may keep
a node pending, so a stack with duplicates is one of its behaviours. `Search`
implements it (`Implements`), by a mapping that reads the stack as a set.

`Summaries`: `package` has the functions, their paths or acts and how a call
passes the value. `Learn` is one call of `learnParameter`, `Again` and `Settle` the
loop of `learnSummaries`. Then `Enter`, `Run`, `RunDeferred` and `Leave` call a
function with an open value and see whether it comes back discharged
(`settled`) or was handed away (`left`).

`Closures`: `Again`, `Visit` and `Return` are the loop both searches share;
`question` says which. `Enter` and `Run` then run the closure, if the answer was
yes: what the error of its function holds follows the stores of a block one after
the other (`held`).

`Failures`: `LearnVariable` and `LearnFunction` are a turn of the loops of
`learnNilable` and `learnFunctions`, `EndRound` the loops of `failuresOf`.
`Declare` and `Initialize` then initialize the package, `Set`, `Call` and
`Return` run it.

`Identity`: the paths of all registers are there from the start, as `pathOf` is
a function of the SSA. `Makes`, `Given`, `Converts`, `Reaches`, `Loads`, `Stores`,
`Copies`, `Calls` and `Jumps` then run the function, the phis of a block all at once
as it is entered: an object is a number, an address an object and the fields that
lead into it, none for the object itself. A struct is the addresses below its own, so
that a copy of it writes them all. `seen` counts the writes behind each value, since two registers
with one path hold the same only where nothing was written in between.

`Rules`: `Validate` looks at everything the rule names, `check` at what one
package imports, any set of the libraries. Both go through `resolve`, as in the
code, strictly or not.

`Passes`: the slices of the compiled rules are arrays in a heap (`heap`), and a
pass resolves the names of its copy one element at a time, so that two passes
that shared an array would be seen to. `Begin`, `NextList`, `ResolveElement` and
`Check` are a pass; `Skip` is the checker's, for a package that imports one that
failed. What a function really pays is told of least closed sets of packages
(`ReallyPays`, `PaysKnown`), since a call may go through any number of them.
`Driver` adds `Load`, `Report` and `Stop`; what a package sees, and what its pass
tells of those it waited on, recur along its imports.

`Vet`: `Tool` is one run of the tool over a package, `Cached`, `Start`, `End` and
`Interrupt` are go vet, and `Edit` and `PutRight` what happens between two runs.
Each of the filters keeps of its list what is in a set (`only`); what the tool
reports is found again in what it was given by its place in the list, as the
code does (`printedOf`).

## The runs

| Run | Asks | Bounds |
|---|---|---|
| `walk` | a leak reported is open in the program, a path called discharged is closed; a branch dropped is one taken only when the trigger's last call failed, a failure of it that was shown is never reported; what is known to be a failure is not nil, a return let pass under on-success is a failure, or paid, or was learned of on another turn of a loop | four families of paths: counts (all rules; up to four openings and four defers, two past the saturation), errors (one variable holds the trigger's error, one another; every comparison and store), on-success (two variables, a built failure, an unknown error, one closure), loops (the trigger called again and the error of another call defined again, one variable that takes them, up to two openings, two defers and two failures shown) |
| `search` | no leak and no ending of any path is missed; knowing fewer failures finds no less; nothing is reported no path has; the search ends; it implements `Worklist` | four shapes of control flow with loops and early returns; nine instructions, seven conditions |
| `summaries` | what is recorded of a function is so of every call of it; nothing left to learn; learning ends | three functions of up to two paths or acts; methods; two transfers; four nested calls |
| `closures` | a closure taken to cover every path, or to decide, does; both searches answer | two branches in a row, and a loop with two checks, every block filled in every way |
| `failures` | unmarked variables are never nil; functions that always fail do; the order of a Go map does not show; rounds end | three variables, ten ways to set each; two functions, thirteen ways to return |
| `binding` | a rule Validate accepts fails in no pass, is the same in every pass that applies it, is applied by a pass that sees all it names; slots written by hand link when their types do | three libraries, a package that imports any of them; one or two satisfiers, nine and more signatures, generic ones included; rules on an interface with implementations that implement, promote, share a name or do not exist |
| `identity` | told apart: never one value; called the same: one value at once; addresses that part at a field: nothing in common, whole structs included; the methods kept are all a load may read, where one store is for sure into the place | functions of three blocks with a loop and two phis, up to eighteen instructions, in four families: values round a loop, methods in fields, methods in maps, structs in structs with copies; the loop entered twice; three arguments, heaps with and without aliasing |
| `driver` | passes write to no rule they share; no name is left without a module; facts are about the functions the rule names; every file is analyzed, once, but for a shadowed package; every failure is told, once | three packages of two modules, a dependency or no module, with three lists of rules; up to eight packages loaded with their tests, in six lists, among them a package with the path of another's external tests, with tests of its own and without |
| `vet` | no error and no finding is hidden by what go vet keeps; the tool reports what the filter keeps, and what the command prints; a file that cannot be read hides nothing; rules warned of as unused drop nothing | projects of two or three packages in two versions each, any number of runs and edits; settings with every filter, lists of diagnostics with duplicates |

Why the bounds are enough. The counts of the search saturate at two, so three
openings show all it can confuse and four leave room to pay afterwards. A point
of the graph search is a block and a state: the shapes give every point two
ways in, from branches and from a loop, and each brings its own knowledge.
Summaries and failures are fixpoints that go one callee further in each round:
three functions or variables make a chain that takes three rounds when they are
declared in the wrong order, and a circle. A path goes wrong where a loop brings
another value to the same register, which the second turn shows. A binding
goes wrong between what two packages see, and there are two more than those.
Passes disturb each other in pairs, and three packages are the smallest graph
with two that run at once and one that waits for both. go vet remembers code,
imports and facts: two versions of two packages and a failure are what it can
confuse, and its cache, a set, is not bounded. Where a proof exists, it needs no
bound.

Each property has a mutant in `PROJECT.json`: a definition with the bug it
guards against, next to the definition it replaces, named for what it gets
wrong. The type invariants of `Search` and `Identity` are checked by
`MCSearch_types.cfg` and `MCIdentity_types.cfg`, kept beside the runs, the second
with what the proofs take of types (`OneType`); that of `Rules` is a theorem. The
longest runs are `identity` (396,024 states, two minutes) and `walk` (777,763, a
minute and a half).

### Fairness and deadlock

`Search`, `Summaries`, `Closures` and `Failures` assume weak fairness of the
analyzer's own actions, and of nothing else: each is a `for` loop that waits for
nothing. The ghosts, which walk or run the analyzed program, are never assumed
to go on. No other module states fairness: what `Driver` and `Vet` are asked is
what a run that ended said, and nothing promises that a user runs again.

Deadlock is checked of `driver` and of `vet`. A run of the command waits for
packages that wait for others, so a graph of which none can begin would show; it
ends with the action `Stop`, which stutters. A run of go vet that ended can be
followed by another. `CHECK_DEADLOCK FALSE` is said elsewhere: a path, a
search and a run of a function end, and then nothing is left to do.

## The proofs

`Worklist_proofs`. `Searches`: a search with a memo misses no leak and no
ending, over any graph, finite or not. The invariant `SearchInv` says that every
node expected - the starts, the successors of what was searched, and the
ghost's own - is covered by the memo or has a node below it pending, and that
whatever the memo holds was explored. A visit shrinks what the memo says of a
point to what is common, so what covered a node before still covers it
(`CoveredDown`); when nothing is pending every node is covered (`NothingWaits`).
It rests on two hypotheses and on nothing else: `Nodes`, the types of the graph,
and `Monotone`, that knowing less leads to every leak and every successor that
knowing more does.

`Search_proofs`, for every function and rule. It rests on `SearchAssumption`,
what a function and a rule are, and on `NamesAssumption`.

- Knowing less finds no less: of an instruction (`StepLess`), whichever of the
  rule's keys apply; of the instructions of a block, by induction on how many
  were run (`RunLess`; the library's induction takes an operator, so
  `SetInduction` is proved of sets from the order of the naturals, here and
  wherever a proof goes along a list); of a branch, which is followed to the same
  positions (`BranchLess`); so of a point (`ContinuedLess`), and of the points of
  the walker: `ExploreIsMonotone`.
- The memo's strings. A byte is the set of its bits. `OneSpelling`: of strings
  that do not end in a zero byte, two that hold the same are equal, which the
  memo relies on: the closures deferred, such a string, are part of its key.
  `IncludesIsSubset` is what it asks of the failures; `WithAdds`, `CommonIsBoth`
  and `WithoutDrops` say the operations keep strings so, and hold what the set
  operations do, which is how the other modules write them.
- `ExploreImplements` maps the stack to the set of its nodes and the memo to the
  facts of its points, by the invariant `ExploreInv`, what the variables may hold;
  a stack that holds a node twice may still hold it once its last is taken, which
  is why `Worklist` may keep it pending. `ExploreMissesNothing` follows from that
  and from `Searches`.
- `ExploreInventsNothing`. A point searched knowing fewer failures than any path
  brings there could report what no path does. `MetInv` says it stands for
  several: a point waiting, or searched, is met by points that paths reach, which
  together know no more than it, and a leak it finds one of them finds. That is
  the converse of the first part, and holds because a leak asks for a failure to
  be unknown one at a time. The theorem has the hypothesis `Lengths = Nat`:
  `NothingInvented` looks for a path among those of the lengths given, and only all
  of them are enough for every function.

`PathWalk_proofs`, for every rule, set of instructions and bound:

- `TypesHold`: what `TypeOK` says of the walk, the counts of the ghosts included.
- `ReportsAreOpen`, `DischargedIsClosed`. The search counts to two, so neither
  property is inductive. `CountInv` adds how the counts relate: `open` is at
  most what is owed and equal to it until an opening overflows, `deferred` is
  what is covered cut off at two, and a path that goes on is open. One lemma
  for each half of a step (`StepCounts`, `GhostCounts`), one for a branch.
- `DropsAreFailures`, `FailuresAreSilent`, assuming `OneHome`: at most one
  variable keeps the trigger's error, stored as each call of it returns, and a
  variable is checked as it is loaded. `FailureInv` adds that the flag `displaced`
  is right of that variable, that a failure shown leaves the path dropped or
  uncertain, and that an uncertain path reports nothing. Both hold through any
  loops, of the trigger's last call: a call met again makes an error not yet
  checked, and between the call and its store (`Due`) nothing else happens. What
  the search then says of the calls before is not so (`walk_reopened`,
  and `LeakNotOfFailures` of `MCWalk_limits`).
- `KnownFailures`, `SuccessfulReturnsPay`, assuming `Fresh`. `KnownInv` adds what
  the run's ghosts are and that a store, a check and a branch each keep what the
  path knows true, of the names that are not `renewed`: a register defined again
  is, and so is a variable one is stored into, until another store or a check of it
  tells. Of a name renewed nothing holds (`PassedReturnsFail` of `MCWalk_limits`).

The assumptions are the properties' own: without them TLC finds the
counterexamples under Findings.

`Summaries_proofs`, for any number of functions with any paths and acts:

- `LearningLeavesNothing`. Where calls hand the value over, knowing more of the
  callees changes nothing of a path that was read to end another way
  (`EndingStays`), so what was recorded early is what would be recorded now;
  `LearnInv` says so of what is recorded and of what the round has passed.
- `RecordedIsSo`. `LearnInv` also says that a function recorded to discharge has on
  every path an act that settles. `RunInv` carries it to a run: until the run of
  such a function has settled the value, one of its frames has yet to do an act
  that does; of one recorded to keep it, all frames only spare it, up to a panic
  (`Quiet`). That the analyzer's search of a path tells the same as the acts of the
  path do is by induction on its instructions (`EndingTold`).

`Closures_proofs`, for any blocks, loops and stores. `SearchInv`: what was visited
refuses nothing and leads only to what was visited or waits, so that once the
answer is yes the visited points are closed under the edges. `RunInv`: a run that
has not called a satisfier stands at one of them. `CoveredClosuresSatisfy` needs no
more. `DecidingClosuresSatisfy` has the hypothesis `FaithfulStores`, that the closure
stores only failures into the error its function returns: `decides` never forgets
a failure, and without the hypothesis `closures_swallowed` is the counterexample.

`Facts_proofs`, what the search takes for granted. Of `Failures`, for any set of
variables, functions and stores:

- `RoundsLearnAll`. `LearnInv` says what a round establishes before it is known
  to be the last: as long as it learned nothing, whatever it passed is settled;
  and whatever is marked lies in every set closed under the rule
  (`ClosedNil`), since one step of the rule from marked variables stays in it. At
  the end of a round that learned nothing the marked set is itself closed, so it
  is the least one, in any order of the map (`ShownByMarked`).
- `UnmarkedNeverNil`, `AlwaysFailing`, assuming `DeclaredFirst` of every package:
  initialization reads no variable that only an `init` function sets. `RunInv`
  adds the run: an unmarked variable is not nil from its first store on, and
  while a call of a function known to fail is on its way, it is at a function
  known to fail. Without the assumption `MCFailures_early` finds the
  counterexample. `RoundsLearnAll` does not need it.

Of `Rules`, for any packages, imports, types, functions and rules, and whatever
`types.Unalias`, `types.Identical`, `mentionsTypeParameter` and `correspond` answer:
these four are constants of `Types`, of which nothing is assumed.
`CasesAssumption` says what a program and a rule are: an import is of a package there
is, parameters, results and satisfiers are lists, no package declares two types of
one name, and the trigger of a rule is a function with a name, all of which the
compiler or `config.go` enforces.

- `PassesSeeImports`: the type invariant. The packages a pass sees are the least set
  closed under imports, so with each of them all that one imports.
- `AcceptedNeverFails`, `AcceptedBindsAlike`, `AcceptedApplied`. The step is one line
  long, since a pass is a function of the packages it sees; the work is that this
  function agrees with the other, Validate's, over more packages. `BindInv` says only
  which pass `passed` is of, and that an accepted rule had no problem. Then:
  - `CandidatesDiffer`: no two candidates of a function are at one slot, so a slot
    written by hand leaves one (`OffersRestricted`), and where none is written the list
    that links takes the first of those that link with each other (`LinkingTaken`, by
    an induction over sets, `SetInduction`).
  - `SettlingLinks`, `ResolvedSettles`: a rule is resolved exactly when one candidate is
    left that links the trigger with every satisfier seen, and once in each of them.
  - `ClosingAlike`, `SameLink`, `ResolvedAlike`: a pass that misses a satisfier asks less of
    a candidate, so more of them may link. Where the one Validate settled is still the
    only one, the slots are the same; where it is not, the pass fails to resolve a rule
    that is `ambiguous` to it, and leaves it out (`SettledBinds`).
  - `AcceptedStands`, `AppliedAlike`: whether a side of the rule stands for a type is read
    from packages the pass sees when it sees the side, so what the rule is for an
    implementation is one rule in both; `AppliedWithin`: all the names in it are.
  - `ResolvedSeen`: with every side seen the two resolve alike, so nothing is left out.

Of `Identity`, for any function of three blocks and any number of instructions, any
arguments, memory and rounds of the loop. `FunctionsAssumption` is SSA: each register is
set in one place, its operands are values set before it, a phi takes on each edge what is
set at the edge's end; and what is there before the run is no object the run makes.
Addresses may have any fields of fields, and whole structs may be copied. The three
theorems have one hypothesis, `StepsEnd`: no phi is made from itself through a field or
a load. Without it
`walkPhi` loses steps, and `CalledSame` is false: `MCIdentity_limits` has the
counterexample, a list.

- The paths. `walk` ends, as what is left to walk gets less with each step (`Measured`,
  `Walked`). Its answer depends on the phis it is in, so it is no induction over the
  function: an edge met a second time says nothing, and the path is what the others
  say. What is proved is that the answer can be traced (`TracesOf`): there are pairs
  of a register and a path, the register's own among them, where the path is the
  register itself, or the operand's and a step, or that of all edges of a phi
  (`PathsTraced`). For that an edge that says nothing has to come back to a phi being
  visited by conversions alone (`BackChains`), which is where `StepsEnd` is needed
  (`StepsLead`): such an edge holds what the phi holds, and may be given the phi's path
  (`ChainTraced`, `Labelled`).
- The run. Each action is one of three kinds (`SetsOne`, `SetsNone`, `Enters`), and a
  lemma says which. `HeldInv`: what the run is past is set and nothing else
  (`OrderInv`); parameters and constants hold what was there before; each object is of one
  register that made it (`MakersInv`); with no load on its path, a register only ever
  held an object its root held (`ObjectsInv`); a variable that only loads and stores of a
  parameter use is held by no other register and no memory, and what is loaded from it was
  there before the run (`StarInv`).
- `ToldApart`, `FieldsApart`. Fresh roots have no object in common (`FreshApart`); what the
  function was given, or loaded from a variable that holds a parameter, is no object it
  made. Addresses that overlap are of one object, so their roots are not two allocations;
  where they are from one root, what it held for the one and for the other overlaps too,
  so is one address by `OneType`, and then the steps to a struct are a start of the
  steps to a part of it (`CoveringSteps`), which do not part. `OneType` is a hypothesis
  of the theorem: no register holds a struct and a part of it. An address of
  `Identity` has no type; in Go a register has one, and no type has itself for a part.
  Of a register of an interface type, which may hold both at two times, the theorem
  says nothing.
- `CalledSame`. `ReadsInv`: there is a history of the memory, one for each number of
  writes, in which the steps of every trace lead from what the root holds to what the
  register holds, whenever the loads behind it were all of one memory. A write adds to the
  history and changes none of it (`SeesNone`); a phi has its path on the edge it came by
  (`SeesEnters`). Steps lead to one value (`ReadsOne`), so two registers of one path, with
  no write between their loads, hold one.

`Driver_proofs`, for any graph of packages and any rules. It rests on
`RunsAssumption` (the rules are lists of sides, the packages are finitely many,
and none imports itself), `ErrorsAssumption` (an error is told from none) and
`LoadsAssumption` (what go list loads).

- `NamesAreOwn`: a pass that ended read the rules the configuration wrote, resolved
  against its own module. A pass works on arrays in a heap that every pass could
  write to; `PassesInv` says which it has: the arrays of the rules are as written,
  each list behind a pass's place is a copy of the pass, resolved, and the list it
  is at is resolved up to its element.
- `NamesAlwaysResolve`: no pass lacks a module. The element a pass is at is the one
  the rule was compiled with (`ElementIsOriginal`), and of the rules it reads and
  the failures `absolute` leaves none is relative when it has no module.
- `FactsAlwaysMatch`. `FactsInv`: a pass has run after those of its imports, what it
  learned is of the rules it bound, and each of its facts is of a function that
  lies in every set closed under calls; and the other way, a package of the least
  closed set has its fact, because packages that read the same functions file
  them under one key.
- `SplitAlwaysCovers`: a package left out is one whose files a test variant holds, or
  a test main, or is shadowed: it has the path of another's external tests and no test
  variant of its own (`Shadowed`). `LoadsAssumption` lets a project have such
  packages; `MCDriver_external` shows what becomes of them.
- `FailuresAreTold`. `ErrorsInv` says which stages have errors. That the error of every
  pass that failed is told by each root above it goes from the imports of a
  package to the package (`ImportInduction`, `TellsFailed`), over recursive
  definitions that are shown to have a solution (`ImportsLead`) because no package
  imports itself; and the list printed has each of them once (`OnceHolds`,
  `AsManyAs`).

`Vet_proofs`, for any project, settings and number of runs.

- `NothingIsHidden`: `VetInv` has one half for the cache - the code a key names has no
  error and, if every import gave its facts, no finding - and one for the run: of
  the packages it is done with it has the errors, the facts of the others, and
  the report of those whose imports all gave theirs.
- `ReportsAreKept`, `VetAndCommandAgree`. What the filters keep is what survives each of
  them, in its order (`KeptIsOnly`), so of a list with more in it they keep as much
  (`KeptOfMore`); aligning what is kept with the diagnostics by place loses none
  (`AlignKeeps`); and what the command reads of all the packages has what the tool
  reads of each (`ReadsEach`).
- `UnreadHidesNothing`: a file that cannot be read leaves no comment and no line to
  match, so with every file read no more survives.
- `UnusedRulesDropNothing`: the first rule that drops a finding is one used, so the rules
  used drop as much as all (`UsedRulesSuffice`).

They rest on `ProjectsAssumption`, what a project, its settings and its diagnostics
are, on `UnwrittenAssumption`, that a line that cannot be read is no text, and on
what a package needs being the least set closed under imports.

Only model-checked: liveness (`Terminates`, `LearningEnds`, `Answers`,
`FailuresEnd`), which this prover does not do; `WrittenSlotsLink`, which is of what
`unify` decides of two terms of any depth, an induction over data; and `KeptWhereStored`. It
rests on the stores `keptMethods` leaves out writing elsewhere, and leaves out some by what
their types tell apart: a store for a lookup, the address of a variable for that of a
field. An address of `Identity` has no type; the functions of the run are typed.

## Findings

Runs that are expected to find a violation, each of what a comment or the
README of the repository says:

- `summaries_order`. `learnParameter` never reads a function again once
  something is recorded of it. A call of a function not known yet hands the
  value over, and so records nothing, unless the value is a method's receiver or
  the rule does not transfer what is passed: then the caller is recorded as
  keeping the value, before its callee is known to discharge it. Declared the
  other way round, it is recorded as discharging it. `summaries` checks the
  order does not matter where calls do hand over (`NothingLeftHandingOver`).
- `closures_swallowed`. `decides` sees no store: a deferred
  `if err != nil { err = nil; return }` before the commit is taken to decide,
  and the return it makes successful passes `on-success`.
- `walk_reopened`. The search has one count and one error for every turn of a loop, and
  a check is of the trigger's last call. In
  `for { f, err := Open(); if err != nil { return err }; use(f) }` the branch dropped
  on the second turn takes the first turn's `f` with it, and the leak is not reported.

Further configurations, kept beside these, show a limit of a checked property by
dropping what it assumes; TLC finds each violated. Of a configuration that lists
several properties each is, and TLC stops at the first unless told to go on:

- `MCWalk_limits`, paths in loops and paths that end in a call, of the rules of `walk`:
  - `LeakNotOfFailures`: a trigger retried after a check the search cannot read
    (`errors.Is(err, Busy)`) failed before and stays counted (`flow.go:300`), so a path
    that pays for the call that succeeded is reported, though "the obligation exists
    only on the path where it is nil" (`README.md:203`).
  - `PassedReturnsFail`: what the path knows of a register is forgotten at a store
    only (`success.go:139`), so an error checked on one turn of a loop is still known
    on the next, after its call ran again, and `on-success` lets a return of it pass
    when it is nil. `OnSuccessOwed` and `KnownFailuresHold` leave out names defined
    again since (`renewed`).
  - `NoReturnNotCounted`: under `defer-first`, `log.Fatal` before the defer is
    reported. Only the panic SSA puts after such a call abandons the path, while
    the comment of `callsBeforeDefer` says a call that does not return does not
    count.
  - `HelperNotCounted`: under `defer-first` a call of a helper that discharges
    the value is reported (`flow.go:210`), while the README calls such a helper a
    satisfier where it is called.
- `MCWalk_twohomes`: the trigger's error kept in two variables. One flag says
  whether another value displaced it from all of them (`flow.go:320`), so storing
  it again in one makes a check of the other be read as a check of it.
- `MCWalk_notyet`: a variable it is stored into only later on the path is
  read as that error before the store (`failure.go:44`).
- `MCWalk_stale`: a value loaded before a store and returned after it is
  taken for what the variable holds now (`success.go:162`).
- `MCFailures_early`: with `var a error; var b = a` and an `init` function that
  sets `a`, `b` stays nil, and neither is marked (`failures.go:61`).
- `MCIdentity_limits`, five families of functions `MCIdentity` names (`MCLimits`):
  - `YesMeansSame`: `walkPhi` drops an edge of a phi whose path leads back to the phi
    (`identity.go:274`), and with it the steps it took: in a loop that advances by
    `n = n.next` the phi gets the path of the first node, so that the first node and a
    later one are called the same (`MCLists`). `identity` checks the loops whose edges
    come back with no step.
  - `OnePathOneValue`: one field read before and after a store into it has one path
    (`MCStoring`), and "Two SSA values with one path hold the same thing"
    (`identity.go:24`) is not so. `YesMeansSame` asks it of loads with no write between.
  - `NoMeansElsewhere`: `sameLocation` says no of a struct and of its own field
    (`identity.go:176`), which do not part. `LocationsPart` asks it of those that do.
  - `KeptMethodsAll`, in three ways. `keptMethods` leaves out a store of the whole
    struct, so after `h.close = tx.Rollback; *h = *other` it says `h.close` holds the
    method stored (`MCCopying`). It says the methods stored are all there can be when
    every store that may be to the place holds one, though none is there for sure: one
    store through `other` settles what is read through `h` (`MCAliasing`). And a call may
    move the pointer `h.p` between a load of it and a store of a method through that
    load, which is then said to be all that another load of `h.p` leads to
    (`MCMoving`). `KeptWhereStored` leaves these three out.
- `MCDriver_external`: `split` takes the package whose path external tests have for one
  they stand in for (`loading.go:120`). A package `m/foo_test` of the project beside the
  external tests of `m/foo` is left out, and its files are analyzed nowhere, though it
  is "the test variant of a package in place of the package, whose files it holds"
  (`loading.go:103`). `SplitCovers` and `FailuresTold` leave such a package out
  (`Shadowed`).

## What is abstracted

- What an instruction is to the value is a fact it carries, any combination the
  configurations choose: identity, slots and correspondence answer it in the
  code. `Identity` and `Binding` then ask whether those answers are right, each
  on its own; no run composes them with the search.
- Values are error registers and variables; an error is nil or not, and the
  trigger's or not. Messages and types are left out of the search. In a loop any
  register may be defined again at any time, but for failures built, which never are
  nil; the program owes one satisfier for each call of the trigger, whichever value it
  returned, as the search counts them on one value.
- A function in `Summaries` takes the value in one parameter, for one rule.
  `Passes` has the facts of other packages and rules of one id, with one function
  in each package, and takes what a function does on its own as given.
- `Failures` takes the initialization's stores to run once each, those of
  declarations first and in the order of what they read; what it stores of calls,
  phis and unknown values, and what escaped variables and other packages hold, is
  not nil, which is the convention `failures` states. Named results changed by a
  deferred closure are left out of returns.
- `Closures` leaves out `coversAnyPath`, a scan for one satisfier anywhere, and
  `translate`. Its `closures` run takes closures that store no nil; the
  finding is what happens otherwise.
- `Identity` has addresses, loads, stores, conversions, phis and calls. Tuples,
  fields of struct values that are not addresses, and cells captured by a closure
  (`storesCaptured`) are left out, and so in `keptMethods` is every store but those
  it can compare. A copy of a whole struct is one instruction here, where go/ssa has
  a load and a store: `keptMethods` sees the store, of no method value. A call has no
  operands: it may write whatever memory reaches.
- `Types` has named types and their instances, pointers, slices, maps, signatures,
  aliases and type parameters. Arrays and channels, decomposed as slices are, and
  struct and interface literals, compared whole, are left out.
- `Binding` deduces slots. Which call is a satisfier on a bound slot, through an
  interface or a method value (`satisfierOf`, `calledBy`, `dispatchesTo`), is a
  fact of `Flow`'s instructions.
- A pattern of `Filter` is the set of what it matches. The end of a diagnostic,
  and a file that changes while the filter reads it, are left out.
- In `Vet`, go vet is external, modelled from its cache's use: what it keeps is
  found again by the code of the package and of all it imports, and by the facts
  it was given; a package of which a dependency failed is analyzed without
  that one's facts, and the tool then finds there what it would or nothing. Rules edited from one valid form to another under a warm
  cache are not seen by go vet, which the repository's README says
  (`README.md:354`), so only a refused configuration put right is an edit of them.
- In `Driver` a package has at most the two variants with its own tests; those
  built for another package's tests, and a project whose directory is named as a
  test binary is, are left out.

## Not modelled

- Diagnostics: wording and the lookup of source text. It keeps no state, and
  nothing reads it back but the filter, which takes the text as a value.
- Driver, configuration: decoding of YAML and of flags, once, with nothing after
  it that could see it half done. The models start from decoded rules.
- `defcheck`: one answer per declaration, a function of that declaration and of
  tables of names; no two declarations meet.
- Commands, plugin and end-to-end tests: flags, wiring, and tests of it all.
- The text of the rules (`config.go`): parsing. What `compile` makes of two rules
  is what `Passes` and `Rules` start from.

## The plan

1. Done: the search (`Flow`, `PathWalk`, `Paths`, `Search`, `Worklist`), summaries,
   closures, failures; the theorems above.
2. Done: `Identity` over an exact heap; `Types`, `Binding` and `Rules` for the slots
   passes deduce and the rules on interfaces; `Names`, `Passes` and `Driver` for
   the passes at once, their facts and the status of the run; `Filter` and `Vet`
   for the findings kept and for go vet's cache.
3. Done: `explore` implements `Worklist` for every function, and misses nothing;
   the strings of `success.go` against sets.
4. Done: `Summaries` and `Closures` by an invariant on the round and one on the run;
   `explore` invents nothing; the names, the facts, the split and the failures of
   `Driver`; the filters of `Vet`, by induction over their lists.
5. Done: `Rules`, that every pass agrees with `Validate`, with the types it compares as
   parameters and the packages a pass sees as a least closed set.
6. Done: `Identity`, that registers told apart never hold one value and registers called
   the same hold the same, by an invariant that relates the traces of paths to what
   each register held and to the memory it was loaded from.
7. Done: loops that define registers again in `PathWalk`, whole structs and nested fields
   in `Identity`, packages with the path of external tests in `Driver`.
8. `KeptWhereStored` for every function, with a type for each address.
