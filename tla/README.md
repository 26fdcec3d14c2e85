# TLA+ models of MoMEMta

MoMEMta computes the weight of an event by the Matrix Element Method: a lua
configuration declares modules, the modules form a graph, and the integration
library cuba evaluates the graph at many phase-space points. The models follow
a program from the configuration file to the integrand: what the file declares
and what is left of it when it is frozen, how the graph is built, who shares
which block of memory, in which order the hooks of the modules are called, what
the user is told about the integration, and, inside a point, which solutions a
block gives, what a generator draws and what a matrix element evaluates. The
algebra between is real arithmetic and is left out; where its results decide
what the code does, they are integers chosen so that every root is exact.

Run `tlc -config MCExecution.cfg MCExecution.tla` (or any other pair below) in this directory to
check an instance, and `tlapm ExecutionProofs.tla` to check the proofs.

## 1. Inventory

| component | source | state | operations | hard parts |
|---|---|---|---|---|
| driver `MoMEMta` | `core/src/MoMEMta.cc` | pool pointers of the inputs, `integration_status` | constructor, `setEvent`, `computeWeights`, `evaluateIntegrand`, destructor | exceptions half-way, forked workers, statuses left from before |
| graph builder | `core/src/Graph.cc` 298-711 | vertices, edges, InputTags, declarations per path | `build()` | order of unordered containers, nested Loopers, cycles |
| graph initialisation | `core/src/Graph.cc` 187-227 | instances per path | `initialize()` | Loopers need the instances of their path first |
| execution | `core/src/Graph.cc` 229-276, `modules/Looper.cc` | call stack, solutions left, status | the hooks of `Module` | NEXT and ABORT out of nested loops, stale values |
| module interface | `include/momemta/Module.h` | - | nine hooks | the order promised to module authors |
| pool | `Pool.h`, `impl/Pool.h`, `Pool.cc` | `m_storage`, `m_frozen` | `get`, `put`, `alias`, `freeze` | reads before the producer exists |
| configuration | `Configuration*.cc`, `lua/functions.lua`, `core/src/lua/*` | declarations, global tables, inputs, counter of dimensions | callbacks of the file, `freeze()` | lazy values evaluated late, redirected inputs |
| parameters | `ParameterSet.cc`, `ParameterSet.h`, `lua/LazyTable.cc` | elements, lazy or not | `get`, `set`, `freeze`, `clone` | references into the lua state, shared sets |
| registry | `ModuleRegistry.cc`, `PluginFactory.h`, `LibraryManager.cc` | deferred and registered modules | register, find, export, load | a registration that throws, a library loaded late |
| module definitions | `ModuleDefBuilder.cc`, `Scanner.h`, `ModuleUtils.cc`, `InputTag.cc` | - | parsing of specs and tags, validation | what a validated constructor reads |
| blocks | `modules/Block*.cc`, `SecondaryBlock*.cc`, `core/src/Math.cc` | - | `work()` | degenerate equations, roots of squared ones |
| generators | `modules/*TransferFunction*.cc`, `*Generator.cc`, `Permutator.cc` | - | `work()` | bounds of the support, the last index |
| matrix elements | `modules/MatrixElement.cc`, `MatrixElements/*` | layers of cached parameters, helicities still tried | constructor, `beginIntegration`, `work()` | a cache that is not filled again, a helicity skipped for ever |
| summers, initial state | `LooperSummer.cc`, `BuildInitialState.cc` | the sum | `beginPoint`, `work()` | sums over the wrong solutions |
| cuba (external) | `external/cuba` | grid, workers | `llVegas` ... | forks, aborts |
| rest | logging, SLHA, python, Graphviz | | | left out |

The driver owns a `Pool` and a `ComputationGraph`. The constructor has the
builder make the graph, creates the blocks of the inputs, has the graph
instantiate the modules (which call `put` and `get` on the pool from their
constructors), freezes the pool and calls `configure()`. `computeWeights()`
stores an event in the blocks of the inputs and hands a callback to cuba, which
calls `execute()` of the graph; this calls `work()` of the modules of the
default path, and a Looper runs the modules of its own path from its `work()`.
There is one thread. Concurrency comes from cuba forking workers (`ncores > 0`);
nondeterminism from unordered containers, answers of modules and exceptions.

What makes each component correct:

* driver: a whole event or none is integrated; the status and what modules
  accumulate are those of this integration; only ABORT ends it early.
* builder: nothing a kept module needs is lost; every module runs after
  what it reads and is run by somebody; Looper outputs stay in the loop;
  dimensions are numbered without a hole; the build ends.
* execution: loops are bracketed, reads are fresh, ABORT gets out at once, OK
  means all was run; every call returns.
* pool: one block and one producer per tag; what is read is produced.
* registry: it knows all the program is linked with or loaded.
* definitions: a declaration that is validated is enough to construct.
* configuration: a frozen configuration is of one moment, has what was set last,
  and is not changed by anybody; particles are shared out; dimensions add up.
* blocks: every solution they emit meets their equations, and in general
  position all are found.
* generators: they stay in the support, with the jacobian of it, and agree with the
  module that evaluates the same function.
* matrix elements: every layer has the overridden parameters; nothing is
  skipped that could contribute.

## 2. Modules

### ModuleLifecycle and Execution

`Execution` has one action per hook call of the engine. `cur` is the innermost
path being run and `pos` has one program counter per path: together the C++ call
stack. `todo[l]` are the solutions Looper `l` has left, of which only the
validity matters; `status[l]` is the local variable of `Looper::work()`. `Work`
lets a module answer anything; `Return` is what happens to the answer on the
level that made the call; `BeginLoop`, `SkipInvalidSolution`, `StartSolution`,
`EndOfPath` and `EndLoop` are the pieces of `Looper::work()`. `fresh` is the
set of modules whose output is of this point and of the solutions in
progress. The hooks a Looper forwards reach all that is under it, `Under[p]`;
`finish()` is not forwarded, and the model does not forward it either.

`DepsAssumption` is the order the builder gives (it is what
`RunsAfterItsInputs` and `LooperOutputsStayInside` say) and one condition on
configurations: what a path produces is read outside it through a module that
`beginPoint()` resets, as `LooperSummer` is.

`ModuleLifecycle` is the abstract specification: the hooks as the author of one
module sees them. `Life(m)` maps the state of `Execution` to it, and
`LifecycleIsRespected` says that Execution implements it for every module at
once (the box and the quantifier are exchanged since TLC does not check a
quantified specification).

### GraphBuilder

The phases of `build()` and `initialize()`, one step per vertex, Looper or path
visited. An iteration over `vertices`, an unordered map, visits any vertex that
is left; the topological sort appends any vertex whose inputs were appended,
that is, any linear extension, for it depends on the same order. `edges` are pairs of
vertices. `tags` are the InputTags of each module, rewritten by the re-indexing
of the dimensions of cuba. `Connected` is the answer of `isConnectedTo()`, as the
sets of vertices that no edge leaves;
as this search keeps no record of the vertices it visited, it never returns when it runs into a
cycle (`MustDiverge`), or may not, by the order of the edges (`MayDiverge`);
`RecurseForEver` is that outcome, the exhausted stack. `decls`, `order`,
`instances` and `given` are the module declarations per path, the sorted paths,
and the instances each Looper is constructed with.

`ConfigType` says which configurations are considered: module names are
distinct (`emplace` keeps the first of two of a name), a Looper has a path that
exists and does not hold it. Assertions of the code do not stop a
release build, so the model goes on after them.

### Pool

`storage` maps a tag to its block: an address, a type, the validity. A tag
stands for module and parameter of an InputTag; the index only makes `get` ask
for a vector, so it is in the type. `readers` and `writers` remember the
pointers that were handed out, which is what the properties are about.
Exceptions leave the constructor of `MoMEMta`, so nothing follows them; after
`freeze()` the user may still call `get` through `getPool()`.

### MoMEMta

The calls of the user, and the points cuba asks for in between. The graph is seen through
the answers of `execute()`. An input is represented by the number of the call its momentum comes from,
which tells events apart. `DMEM` stands for modules with a state: it fills a
histogram at each point and is reset by `beginIntegration()`. In a forked worker
(`conf.forked`) what a module accumulates is lost. `CubaReturns` gives the
values of `nfail`; it is external and modelled from the code that reads it.

### Solvers, Blocks, Generators, HelAmps, MatrixElements and Kernel

The first five are operators, `Kernel` is the state machine that uses them at a
point. `Solvers` has the equation solvers of `Math.cc`, branch by branch; a root is
taken in the integers, so the choice of branches and roots is modelled and the rounding
is not. `Blocks` has for each block the equation its kinematics come to (a point
*is* this equation, with the energies linear in the unknowns), the candidates it
makes of the roots, and its tests on one: signs, `NaN`, the mass of p1 as a limit of its energy, the invariants
compared again, the energy of the beams. Left out are the comparisons of M/E with m/E, which let every finite
momentum pass (their tolerance is 1). A comparison the margin of which may go either way
(`ApproxComparison`) is exact. `SecondaryBlockCD` has a massless or a massive p1; in the second case two energies may be
genuine, and below the mass nothing is. `Generators` has the change of variable of each generator and the bin or law of its
density, `Permutator`, and `BuildInitialState`. `HelAmps` propagates
chiralities through the generated routines: which amplitudes are null whatever the
momenta. `MatrixElements` has the four layers in which a parameter is cached, the
table of helicities still evaluated, mirror processes and the order of the particles.

In `Kernel`, `pc` goes through a point: `Generate` (with `beginPoint()` of the
summer), `SolveBlock`, then per solution `InitialState` and `Evaluate`. A point may
make amplitudes vanish (`accidents`) that are not null by structure.
`vanished` remembers what gave nothing since `beginIntegration()` reset the
helicities, which `EvaluateIntegrand` does not do. How a status moves a Looper is
Execution's; here a NEXT just ends the turn.

### Registry, Definitions, Catalogue, ParameterSets, LuaValues and Setup

`Registry` has the static objects of a library: one list before the registry was
first asked, another after; `callDeferred()` that throws half-way leaves the registry
`broken` for ever. `Definitions` parses a spec as `ModuleDefBuilder` does,
sign by sign, and has the validation of `ModuleUtils.cc`. `Catalogue` is the data: for every module
of `modules/`, its `REGISTER_MODULE()` and what its constructor reads.
`ParameterSets` has the text of input tags, the global tables of lua, what a lazy value stands for, and
`ParameterSet::freeze()` of one set; `LuaValues` has what follows the nesting of values: what C++ makes of
lua's lists and tables, the freezing of the sets in a set, and the expressions of a file.

`Setup` has these last three as constants, `to_any`, `freeze_value` and `Eval` (of any values, which is what its proofs
are about; `MCSetup.cfg` gives them the definitions of `LuaValues`). It has the statements of a file, what `ConfigurationReader` makes of them, and
what a program does then: `SetParameter`, `Freeze`, `Construct`. What panics in lua (a declared module that is no table
any more, a parameter set in a global that is none), and what is undefined in it (a module declared with a value that is no
table), ends the program. Sets of
parameters are in a `heap`, because a configuration holds pointers to them and
only `clone()` makes another. A lua error, a C++ exception and
`std::terminate` (a library that registers a name twice while its static objects are
constructed) are different ends. `kept` in `Construct` is any set of modules the graph builder may
keep: only those are constructed, and only their tags are re-indexed.

## 3. Runs

| run | question | instance |
|---|---|---|
| `execution` | are the loops, reads and statuses right for any answers, and does `execute()` return? | two nested Loopers, eight modules, up to two solutions each, any number of points and integrations (9894 states) |
| `finish_not_forwarded` | finding: modules of a Looper path never get `finish()` | the same |
| `builder` | is what is built right, in every order of the containers, and does the build end? | eleven configurations after `tests/unit_tests/graph.cc`, and the 3968 of three modules and a Looper in which no module outside the path is between two modules of it |
| `builder_nested_dependency` | finding: nested Loopers linked in the wrong order | three configurations |
| `builder_other_looper` | finding: a Looper is read from another Looper's path | three configurations |
| `builder_two_dimensions` | finding: dimensions re-indexed twice | two configurations |
| `builder_cycle_with_looper` | finding: endless recursion on a cycle | as `builder` |
| `pool` | do pointers agree, and is a frozen pool produced? | three tags, two types (38 061 states) |
| `driver` | are event, histogram and status those of this integration? | two inputs, three calls, two points, every list of up to three particles (116 894 states) |
| `driver_end_integration` | finding: `endIntegration()` is skipped by an exception | the same |
| `kernel` | does a point sum over the solutions there are, each once, drawn from the support, with the matrix element that was configured? | seventeen configurations, each with one module in full and the others with one case (5088 states) |
| `setup` | is what MoMEMta constructs what the file and the program asked for? | two programs, three libraries, a file per case (11 843 states) |

What the properties say is written above each of them. Each property of a
passing run has a mutant: a definition of a plausible bug, marked `Mutant` in the
module, that makes TLC find the property violated.

Bounds. In `execution` the state is finite by itself but for the number of
solutions (`MaxSolutions`): two are enough for an invalid one before
a valid one, and for a NEXT that is followed by another solution; two levels of
Loopers give a Looper in a Looper and each way out of both. In `builder` the
bound is the set of configurations; three modules and a Looper are enough for
a chain into, through and out of a path. `Tags` has three members so that an
alias, its source and a bystander differ. `MaxCalls = 3` allows a refused event
between two integrations, `MaxPoints = 2` an abort after a good point; three
particles for two inputs allow one too many and every duplicate. In `kernel` the
equations of each block are small grids with roots of both signs, double roots, no root,
null leading coefficients, energies that add up to what the beams give, and points refused by each test; for
`SecondaryBlockCD` a massless p1 and massive ones with one, two and no genuine energies, and one at rest; `N = 3` gives a
coordinate at both ends of the interval and two inside; two integrations with
`MaxPoints = 2` let a helicity vanish at one point and be needed at the next, or in
the next integration, with and without the reset; the helicities that vanish are in different
places of the tables. `Solvers` enumerates roots up to `RootBound` and `CoordBound`, which no
equation of the run exceeds. In `setup` there is a file for every module of the
catalogue with all its parameters, with those it requires, and without each of
them; for every one or two permutations of three particles; for lazy values; and for
each kind of error. `MaxChanges = 2` and two freezes let a value be set, frozen, set again and
frozen. Every combination of the signs of a spec is a module.

Deadlock is checked where a specification ends in a state that stutters by a
disjunct of `Next`. In `kernel` and `setup` it is not: a program that did all the
calls allowed, or a file that was refused, has nothing more to do.

Fairness. `FairSpec` of Execution and of GraphBuilder assumes weak fairness of
the steps of the program once it runs, the actions of the user excepted: these are loops of one thread
that nothing else can block, and a module that never returns from
`work()` is not considered. `ExecuteReturns` and `BuildEnds` are checked under it.
The other specifications have only safety properties: what must happen eventually in
them is one call after the other of a thread, as in these two.

## 4. Findings

Each is a run that TLC ends with a counterexample; PROJECT.json quotes the line
that says otherwise. In short:

* `finish()` does not reach the modules of a Looper path (`modules/Looper.cc`).
* Nested Loopers: what only the inner path reads may be run after the outer
  Looper, if the outer Looper is linked first.
* A module that reads a Looper it is not in is accepted if it is in the path of a
  Looper that is validated later.
* A module that has two edges from cuba gets its dimensions re-indexed twice.
* A cycle upstream of a Looper path exhausts the stack instead of being reported.
* An exception in `computeWeights()` skips `endIntegration()`.

Other divergences are described as hazards in PROJECT.json: the status `FAILED` is never assigned, the histogram of `DMEM` is empty with
`ncores > 0`, `get()` ignores that the pool is frozen, an alias of a block not yet produced gets a
second producer, `endPoint()` is skipped on NEXT, a Looper whose path
was pruned makes `initialize()` throw, one pass of pruning is not a
fixpoint, and a path no Looper has breaks the assertion on the first path.

### Known gaps

Met while modelling, in code about which the repository says nothing that
could be quoted against it. The properties leave these cases out by name
(`InGeneralPosition`, `Undeclared`, `Usable`, ...), or the inputs do.

* `BinnedTransferFunctionOnEnergy` (`GetDeltaMax()`, lines 192-196). When the measured energy is not above the mass, or the
  histogram's `deltaMax` is not, the function returns 0 before it looks at `min_E` and at the range of
  the histogram: the interval starts at the measured energy, below that limit if
  the limit is higher, and below the mass. The comment above it has the range shortened to where the function is not
  null and the energy larger than the mass.
* Solvers (`core/src/Math.cc`). `solve2QuadsDeg()` eliminates with wrong coefficients
  (lines 303-306): of (E1 - 2)(E2 - 1) = 0 with E1 + E2 = 9 it loses a solution; the
  blocks throw away what solves nothing. `solve2Quads()` needs a term in E1^2 in one of
  the equations. `solveQuartic()` gives no root for (x - 1)^4; `solveCubic()` gives the
  simple root three times when another is double.
* `BinnedTransferFunctionOnEnergy`: for a massive particle the range is smaller than
  line 111 of the same file documents, by the mass. The histogram is used before the file it
  is read from is checked.
* `evaluateIntegrand()` does not begin an integration: helicities that vanished in an
  earlier event stay out.
* Parameters read but not declared: `branches` of BlockA, `pdf`, `pdf_scale` and `ids` of
  MatrixElement. Types are not validated: an integer for a real throws in the constructor.
* A definition with a space after `list(...)` loses its default.
* `add_dimension` given itself as a lazy value counts in the reader, and not in the
  configuration that `freeze()` returns.
* `add_gen_permutations()` before `add_reco_permutations()` of the same inputs loses
  particles.
* The assignment operator of `Configuration` calls itself without end (`Configuration.cc:70`).
* A module that is declared a second time loses its name (`lua/utils.cc:371`); an empty
  table `{}` is a set (line 228), a table with both parts is read as a list
  (`ParameterSetParser.cc:34`).
* `InputTag.cc`: an index after nothing, or a second `/`, is read out of range (lines 60 and 62);
  equality ignores the index (line 83).
* `ParameterSet.cc:66`: a table that a lazy value returns is not frozen itself.
* After a registration threw, those after it are never registered (`ModuleRegistry.cc:92`).
* The second of two modules of one name is dropped (`Graph.cc:318`).

## 5. Proofs

The theorems hold for all values of the constants that meet the named
assumptions, without the bounds above. Each module of proofs has one lemma per
action, which shows that the inductive invariant is kept, and one `Invariant`
from which the theorems about single properties follow.

* `ExecutionProofs`, from `PathAssumption` (the Loopers form a tree) and
  `DepsAssumption` (the order of the builder). `IInv` holds the type, the shape of
  the call stack (`CallStack`: every path in progress but the root is at its
  Looper on the path around it), `LoopBrackets`, `PathRunsOnValidSolution`,
  `AbortIsObeyed` and `FreshSoFar`. The properties are not
  inductive alone: that a read is fresh depends on all that was run earlier on
  the paths in progress being fresh (`FreshSoFar`), and where ABORT goes depends on the
  stack. The geometry comes first: `Under` is transitive and acyclic, a
  module is in one path, the stack is what encloses `cur`.
  Theorems: `TypeCorrect`, `LoopsAreBracketed`,
  `PathsRunOnValidSolutions`, `AbortReachesTheCaller`, `ReadsFresh`.
  `EveryModuleHasItsLifecycle` is the refinement: each action of
  Execution is for each module an action of ModuleLifecycle or a stutter. It needs, beside `IInv`, that the modules
  of the default path before the present one ran once and the others not yet
  (`RootRunsOnce`), and that nothing runs before `configure()` or after `finish()`
  (`JobIsInOrder`). `OkIsWhole`: `execute()` answers OK only when the default path was all run.
* `GraphBuilderProofs`, from `ConfigAssumption`. `PInv` says that what a vertex reads
  is a vertex too and has its edge: the edge is what keeps `prune_graph()`, which removes
  vertices without out-edge, from removing it. It needs that the InputTags are
  still those of the configuration (`TagsAsDeclared`), which ends when the dimensions are
  re-indexed. `PruningIsSafe`: in any order of the visits nothing a kept module reads is
  removed. `UnresolvedIsAConfigurationError`: that exception is never due to pruning.
  `SortInv`: no vertex that is left to sort has an edge to one that
  is sorted; `DeclInv`: the same of what is left to declare and each path. Hence
  `PathsAreSorted`: every module that was kept is in its path, behind the modules of
  this path it reads. This is what the order of `Execution` (`DepsAssumption`) is within a path.
* `FiniteInduction`, from nothing. The induction theorems of the library take an operator, which no
  prover here can instantiate. `LeastNatural` gets a least number of a set from the
  well-founded order of the finite sets, and `UpTo` an induction in which a set of numbers stands for
  the formula. With it a recursive function is shown to exist (its values up to `k`
  extend to `k + 1`), so that what it is defined by may be used: `Flattened` says what `FlattenSeq` gives.
* `GraphPathsProofs`, from `ConfigAssumption`: what is built across paths. `GInv` follows every phase:
  while a Looper's path has a vertex, the Looper points to it (`LinkInv`); paths are in the order of
  the sort, and `order` in that of their first modules (`OrderInv`); the queue of `initialize()` has the path
  declared last first (`QueueInv`), hence what a Looper is given is its whole path
  (`InstancesInv`). `TypeInv` needs an induction over the modules for the edges of cuba.
  - `GraphIsTyped`: the type invariant, for every configuration.
  - `AllThatIsKeptIsExecuted`, if every path was given to a Looper (`PathsAreGiven`): of the modules
    nothing executes take the first of the sort; its Looper is sorted before it.
  - `LooperOutputsAreReadInside`, if no module is in two paths (`PathsAreDisjoint`) and of two Loopers a
    module reads or is in the path of, one is within the other (`ReadLoopersAreNested`). `ValidInv`: the Looper
    `validate()` asks is the last that points to the module.
  - `DimensionsAreRenumbered`, if a module that reads a dimension has one edge from cuba (`OneEdgeFromCuba`).
    While targets are visited the numbering is one of those visited, the others have their indices still
    (`Reindexing`); `Numbering` of a module by induction over its InputTags.
  - `ModulesRunAfterTheirInputs`, if each Looper has a path of its own, none is in a path and none is read outside
    its path (`SimpleLoopers`), and there is an order at all in which the Loopers could be called (`Schedulable`, a
    rank of the modules). What the path of a linked Looper reads outside reaches the Looper
    (`SourcesAreLinked`): an edge is added unless `Connected` says so, pruning removes nothing on the way, and the
    sort follows the edges (`FollowInv`).

  None of the last four holds of all configurations: what each hypothesis leaves out is what the
  findings are about (two edges from cuba; a Looper read from another one's path; nested Loopers), or
  the path without a Looper under the hazards. All these hypotheses hold in 432 of the 528 graphs that are built from
  the configurations of three modules and a Looper, and all but those of the last theorem in the 528. Nested
  Loopers are in the scope of the first four theorems; `RunsAfterItsInputs` is model-checked for them.
* `PoolProofs`, from no assumption. Agreement of the pointers is
  inductive with `ProducedIsValid` (a tag is produced once at most, and then valid) and
  `ValidIsWritten` (a valid block has a producer); without them a
  second `put` could not be told from the first. Theorems: `TypeCorrect`, `PointersAgree`, `ProducedOnce`,
  `FrozenPoolIsProduced`.
* `MoMEMtaProofs`, from `InputAssumption` and `BoundAssumption`.
  `AcceptedStoresAll` is the argument behind `EventIsWhole`: names accepted by
  `setEvent()` are different and declared, hence an injection of
  `1..Cardinality(Inputs)` into `Inputs`, hence all of them. `AbortsAreOfCuba` is what
  `AbortedIsReported` needs: an `nfail` the code has no case for leaves the status of
  an earlier integration, which is not ABORTED since such a
  configuration never runs a point. `aborts` counts the points to which `execute()` answered ABORT since
  `computeWeights()` was called; it is a history, nothing of the code reads it. Theorems: `TypeCorrect`,
  `EventsAreWhole`, `HistogramsAreOfTheIntegration`, `AbortsAreReported`.

* `SetupProofs`, from `RegistryAssumption`, `CoreComesFirst`, `LinesAssumption` and `TablesAssumption`, for any `Eval`,
  `to_any` and `freeze_value`: whatever lua makes of a file.
  - Of `Registry`: a name that is linked or loaded is in one of the two lists that the registry will look
    at, or found (`InOneOfTheLists`), and the factory has it (`InTheFactory`). Theorems: `RegistryCompleteness`,
    `RegistryGrows`. `SetupUsesTheRegistry` is the refinement: every step of `Setup` is one of `Registry` or
    leaves it alone, so what holds of the one holds of the other (`SetupKeepsTheRegistry`).
  - `SetupInv`, of a program that reads a file: the types that declare and those of all declared modules are in
    the registry (`LuaOK`, `ConfigurationOK`), which only grows; the internal ones are in it
    once it was asked, also if it threw (`InternalFirst`); the sets of the reader are the first two
    of the heap and those of frozen configurations come after them (`HeapOK`, `FrozenOK`). Theorems: `TypesStayKnown`;
    `FrozenStaysAsItIs`, which rests on `CopyIsOK` and `FrozenElsewhere` (a copy has sets of its own, and
    freezing them one after the other, whatever it makes of them, leaves the rest of the heap);
    and `ValidationIsEnough`, where `ValidatedHasIt` takes a read through `findPSet()` and the validation.
  - `ReaderInv`, of the sets between the reading of a file and a freeze, for `FrozenAtOneMoment` and `LastSetIsRead`. The
    elements of the reader's first two sets all stand for the field of lua of their own name, and there is a table if there
    is any (`LazyOK`); those of a module are still what `parse()` made of its table (`DeclaredOK`); and lua has for each
    name the value it was set to last (`AskedOK`). It is needed because `set()` changes no value of an element:
    it writes to lua, which the element reads when it is frozen. `FrozenThere` and `FreezeEvaluates` are the freeze:
    each set of the copy is frozen once, in a state of lua that differs from the reader's by calls of
    `add_dimension()`, which change no table (`EvaluatedAfterCalls`). What was frozen keeps what it reads
    because its sets stay (`FrozenSetsStay`) and so do the declarations (`DeclarationsStay`).

  `CoreComesFirst` says that the internal modules registered before anything that throws: they are in
  `modules/InternalModules.cc`, which `CMakeLists.txt` puts in the library, constructed before the program's own
  static objects. `LinesAssumption` is about data: of each constructor of the catalogue, every read without a default
  is asked for by the definition, but for four (`Undeclared`). TLC evaluates it on the whole of `Catalogue` in the run
  `setup`; the theorem is what follows from it through lua, copies, freezing, validation and construction.
  `TablesAssumption` says that `getGlobalParameters()` and `getCubaConfiguration()` are all a program may change, and that
  no module is registered under the name of one of their tables, in which a file would otherwise declare modules.
* `KernelProofs`, from `NAssumption` and `KernelAssumption` (a configuration gives the particles of its
  process; what a generator and a point are given, parameters, coefficients and candidates' momenta, are numbers; the two
  equations of a `BlockA` have no squares; in a `SecondaryBlockCD` p2 has an energy and, as line 92 requires of a physical
  point, s12 is above the squares of the masses).
  - `KernelInv`: every layer of the parameters has the overridden values from the constructor on
    (`FromTheConfiguration`), and what is not tried any more is among what gave nothing since the reset
    (`HelicitiesAreKept`). Theorems: `OverridesReachTheCouplings`, `SkippingLosesNothing`.
  - `GeneratorsStayInTheirSupport`, for any number of coordinates, histogram, width and limits: the
    two binned functions change the upper end of their range case by case, and `BinnedStays` shows that the result
    is the documented lower limit. For `Permutator`, of any number of particles: the orders before one count it
    (`OrdersAreNumbered`: counting is one-to-one and into 0..n!-1, so it meets each number), and the
    rounded coordinate is one of these numbers (`ChosenIsOneOf`).
  - `EverySolutionIsAddedOnce`, for any points and solutions: `SumGrows` holds the places of the terms
    among the solutions that had their turn, increasing and exhaustive. It needs that what passes the
    tests of each block has no negative energy (`PassingIsNotNegative`, `KeptPass`, `EnergiesAddUp`, by the
    induction of `FiniteInduction`): `BuildInitialState` compares both partons with the beams, and with
    a negative energy the other one would decide.
  - `BlocksLoseNothing`: at a point in general position each solution with positive energies within
    reach of the beams is emitted, for any coefficients. For the seven blocks that end in a linear system or a
    quadratic equation nothing is supposed: `QuadraticFindsAll` follows `solveQuadratic()` through its branches (the
    stable formula included: it divides by nothing that is null), `LinesMeet` follows `solve2Linear()`, and the
    equation that `SecondaryBlockCD` squares keeps its roots, whatever the mass of p1 (`MassShell`,
    `EnergyIsFound`): both of them when both are genuine, and none that the limit `E1 > m1` or the sign would refuse. For the four blocks that end in conics or a quartic,
    the theorem has `SystemsAreSolved` for hypothesis:
    `solve2Quads()` and `solveQuartic()` give the solutions of the systems of these points. `PossiblePasses` shows
    that no test of the eleven blocks refuses such a candidate, and `KeptIsWhole` that the loop forgets none.
    TLC evaluates the hypothesis for all the points of the run `kernel` (`SolversAssumption` of `MCKernel`).

Only model-checked: liveness (`ExecuteReturns`, `BuildEnds`), which the prover
cannot do; that the solvers of cubics and quartics find all roots (`SystemsAreSolved`: `Cubic` and `Conics` choose among
enumerated zeros), and hence that no solution is counted twice (`SolutionsAreCountedOnce`); and three of `Setup`. `DefinitionsAreAsDocumented` compares data;
`ParticlesAreSharedOut` and `DimensionsAreCounted` depend on what the recursive conversions make of texts (a tag in a list in a
table), which is a constant in the proofs, and on files that write no tag of cuba by hand.

## 6. Not modelled

* Real arithmetic: from momenta to the coefficients of an equation, the jacobians of blocks,
  phase-space weights, the value of an amplitude, parton densities, and every rounding. Whether
  a solution exists, is kept and is used once is modelled.
* The values of points and weights, and so what the histogram of `DMEM` contains.
* `NarrowWidthApproximation`, `StandardPhaseSpace`, `Counter`, `LinearCombinator`, `Constant`,
  `Printer`: one formula or assignment each.
* `SLHAReader`, the parsing of a card; logging; Graphviz; the python bindings: no
  state that anything else reads.
* `deregisterModule()` and the unloading of libraries, which only happen at exit, and the
  threads that the lock of the registry is for: one thread configures.
* The file as a program: a configuration is a sequence of the calls it makes, its
  conditions and loops having been run.
* cuba, lua, ROOT and LHAPDF, except for what the code sees of cuba.

PROJECT.json has the reason for each component.

## 7. How the modules meet, and what could follow

Each module takes as an assumption or a constant what another one shows: the order in
`DepsAssumption` of Execution is what GraphBuilder gives (`RunsAfterItsInputs`, `PathsAreSorted`);
the answers of `execute()` in MoMEMta are those of Execution (`AbortIsObeyed`, `OkMeansWholePathRan`); the
configurations of GraphBuilder are what `Setup` freezes; a module that answers
anything in Execution is, for the blocks and the matrix elements, `Kernel`. The hooks of one
module are `ModuleLifecycle`, which Execution refines.

What could follow: a composition of MoMEMta with Execution in one state machine, so that
what a module reads after an abort in the previous point can be stated over the
values of the inputs; the pool inside GraphBuilder's `initialize()`, with the
`put` and `get` of each constructor; and `RunsAfterItsInputs` for the nested Loopers for which it
holds, those that are linked from the inside out.
