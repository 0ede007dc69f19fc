# burstgridgo in TLA+

burstgridgo reads a *grid* of steps from HCL files, is meant to build a graph of
nodes from it, and to run the nodes whose dependencies are complete with as many
workers as allowed.  In the modelled commit the parts around that core exist
(loading, the graph and its stores, the expression container, the program's life
cycle and its health check server), and the executor, the scheduler and the
builder are placeholders.  The modules here model what exists, and take the
callers of the graph from its interface and its concurrency test.

## The system

| Component | State | Operations | Talks to |
|---|---|---|---|
| topology store (`internal/inmemorytopology`) | two maps, nodes and dependency sets, under an RWMutex | AddNode, AddDependency, GetNode, AllNodes, DependenciesOf | called by the graph manager and, during construction, by the builder |
| node state store (`internal/inmemorystore`) | three independent sync.Maps: status, output, error | Set and Get of each | called by the graph manager |
| graph manager (`internal/graph`) | none: a facade over the two stores | Node, DependenciesOf, NodeStatus, AllNodes, MarkRunning, MarkCompleted, MarkFailed, MarkSkipped | scheduler, executor's workers, builder, all at once |
| expression container (`internal/bggoexpr/container.go`) | expressions, cached results, a sync.Once, an RWMutex | Add, References, CalledFunctions | filled by the step parser, read by the builder |
| expression analysis (`internal/bggoexpr/expressions.go`) | none | walks over HCL syntax trees | the container |
| application (`internal/app`, `cmd/cli`) | configuration, grid, registry, http.Server pointer, and during Run a session | NewApp, Run, LoadModules, LoadGrids, Cleanup; main and run | signals, net/http, everything below |
| health check server (`internal/app/healthcheck.go`) | the http.Server | configure, serve, shut down | main goroutine through `app.httpServer`; clients |
| loading (`internal/app/load.go`, `internal/registry`, `internal/model/grid.go`, `internal/fsutil`) | runners, steps, the list of files | walk a directory, parse each file | the file system |
| step model (`internal/model`, `internal/bggohcl`) | per step: its fields, its expressions, the diagnostics so far | newGridFromHCL, NewStepFromHCL and the parsers of its parts, those of blocks in the order of a Go map | HCL; the container gets every expression; the grid gets the steps |
| runner model (`internal/model`, `internal/bggohcl`) | per manifest: the runners made, the diagnostics so far | NewRunner, ParseRunnerFile, parseRunnerInputs, parseRunnerOutputs, parseRunnerLifecycle, HCLTypeToCtyType | HCL; the registry gets the runners |
| node addresses (`internal/nodeid`) | a path of segments | Parse, String, Equal | the keys of both stores |
| command line (`internal/cli`) | none | Parse, NewConfig | main |
| handlers (`internal/handlers`) | a map of names | RegisterHandler | LoadModules |
| session and executor (`internal/localsession`, `internal/localexecutor`) | placeholders | NewSession, GetExecutor, Execute, Close return at once | App.Run, in that order |
| scheduler, builder, task, print module | placeholders | return at once | - |

What is hard here:

* **Atomicity.**  The manager has no lock.  MarkCompleted and MarkFailed are two
  calls of the state store, DependenciesOf is one call of the topology and one per
  dependency; other goroutines run between them.
* **Order of calls.**  No Mark method looks at the status it replaces.  What keeps a
  verdict final is the order in which the executor calls them.
* **Keys read back.**  The topology keeps addresses as text and parses the text again;
  for some addresses that fails, or gives another address.
* **Replaced synchronisation.**  The container's Add replaces a `sync.Once` that a
  getter may be inside of.
* **Unsynchronised start and stop.**  `app.httpServer` is written by one goroutine
  and read by another; Shutdown may meet ListenAndServe before, in or after it.
* **Cancelled parents.**  Shutdown's five seconds are a child of the context that a
  signal cancels.
* **Partial failure.**  A bad file in the middle of a load, a dropped error, a panic
  in the loader with deferred clean-up above it.
* **Stale listings.**  Files are listed first and parsed later.
* **Random order.**  The blocks of a step are parsed in the order of a Go map, a
  different one in every run: neither the step nor its diagnostics may depend on it.
* **Errors that do not stop.**  A faulty part of a step, a faulty runner or a faulty
  input is passed over, each in a way of its own, to find what else is wrong; in the
  end the whole file must be refused, and nothing of it may stay.
* **Two records of one thing.**  A step's expressions are kept in its fields and,
  again, in a list that alone feeds the analysis of dependencies.
* **Panics on data.**  A null `count` or `for_each` and a type that is not
  implemented panic in the middle of a load.

## Modules

| Module | Models |
|---|---|
| `TopologyStore` | `inmemorytopology.Store`: `nodes`, `deps`; each method is one step, since it holds the lock throughout |
| `NodeStore` | `inmemorystore.Store`: `states`, `outputs`, `errors`, functions with `Absent` where the map has no entry; each method is one sync.Map call |
| `GraphManager` | `graph.Manager` over instances of the two stores, with workers, readers and observers as callers |
| `AtomicGraph` | what the Graph interface promises when every call is one step; not a translation of code |
| `AtomicContainer` | the same for the expression container |
| `MCGraph` | names, links, symmetry, and the two instances that the main run joins |
| `GraphManagerProofs` | theorems about GraphManager |
| `ExprContainer`, `ExprContainerProofs` | `bggoexpr.Container` with sync.Once as Go's library implements it, and its theorems |
| `CommandLine` | `cli.Parse` after the flags are read: which path wins, what is help, what is an error |
| `AppLifecycle`, `AppLifecycleProofs` | `main`, `run`, `App.Run` with its session, `Cleanup` and the health check goroutines, for any arguments of CommandLine; its theorems |
| `ExprWalk`, `ExprWalkProofs` | `extractReferencesAndFunctions` and `walkForFunctions` over forests of expressions, and their theorems |
| `NodeId`, `NodeIdProofs` | `nodeid.Parse`, `Address.String`, and the way of an address through the topology store's keys; its theorems |
| `StepModel`, `StepModelProofs` | `newGridFromHCL` and `NewStepFromHCL`: one file, its steps and their parts, one parser per step; its theorems |
| `RunnerModel`, `RunnerModelProofs` | `NewRunner`, `ParseRunnerFile` and `HCLTypeToCtyType`: one manifest, its runners, inputs and outputs, one turn of a loop per step; its theorems |
| `MCPure` | ExprWalk, NodeId, StepModel and RunnerModel in one state machine for TLC, with the forests, texts, grid files and manifests to try |
| `Loading`, `MCLoading`, `LoadingProofs` | `LoadModules` and `LoadGrids`, walk and parse, one file per step, with a changing file system; its theorems |

### How they correspond to the code

**GraphManager.**  A worker's place `at[w]` is where it stands in the loop of
`graph/doc.go`: `idle`, MarkRunning (`running`), the handler has returned
(`returned`), and then, after the SetStatus of MarkCompleted or MarkFailed,
`output` or `error` before the second call.  `MarkCompleted` and `StoreOutput`
are therefore the two halves of one method, and everybody else runs between them.
A reader's `AskDependencies` is the topology's DependenciesOf, `LookUpDependency`
one turn of the manager's loop.  `todo` and `found` are kept by stored key, one entry
for each address of the list; the address looked up is `Reread[key]`, what nodeid.Parse
makes of the key: the address itself for all that was parsed once, `Absent` where Parse
refuses, another address for a name such as `a[01]` (module NodeId has the conversion).
An observer stands for whoever reads a status in
one call and an output or error in a later one, as scheduler and builder do.
The Mark actions have no guard but the worker's place, as the methods check nothing.
Which node a worker may take is the callers' part, not code of this version, and stands
beside the actions in `Work`: `Free` (a node is given to one worker, and with `Retry` a
failed node may be given again once its worker has let it go) and `Untouched` (only what
nobody took is skipped).  Status setters return no error in this store, so the early returns of
MarkCompleted and MarkFailed are never taken and have no action.

**ExprContainer.**  A set of expressions stands for what the analysis finds in it,
so `cached` is the set it was found in.  The steps of `sync.Once.Do` are: the flag
(`OnceFast`), the mutex (`OnceLock`), the flag again (`OnceCheck`), the function
(`Extract`, `Store`), the flag set (`OnceDone`), the unlock (`OnceUnlock`).
`ResetOnce` overwrites flag and mutex, as the assignment in Add does.  Nothing in the
code keeps Add and getters apart; the comment in Add asks it of the callers, so it is
they who hold back (`MayAdd`, `MayGet` in `AddStep` and `GetStep`), unless `Overlap`
lifts that.  Seen as `AtomicContainer`, the container is analysed from `Extract` on (what is
found is what is there, since nobody adds meanwhile), `ResetOnce` adds nothing yet but
has the next getter analyse again, `AddAppend` adds, and `ReadCached` answers.

**AppLifecycle.**  `main` is the place of the main goroutine from argument parsing
to exit, `hc` that of healthCheckServer, `lp` that of the goroutine in
ListenAndServe.  net/http is reduced to what the code relies on: Shutdown marks the
server, closes its listeners, waits for Serve to leave, and then for idle
connections or its context.  A panic in LoadModules runs the deferred Cleanup and
is turned into an error by `run`; one in LoadGrids (`count` or `for_each` null)
does the same.  `OpenSession`, `Execute` and `CloseSession` are NewSession, Execute and
the deferred Close of the session, which runs before the deferred Cleanup since it was
deferred later.  `args` is drawn once and never changes: the port decides whether
there is a server at all.

**CommandLine.**  Arguments are what `FlagSet.Parse` leaves, and the three outcomes of
Parse are predicates on them: `NothingToDo` (help, or usage because no path was given,
before any other flag is looked at), `WrongArguments` (ExitError with code 2) and
`Configured`.  `GridPath` is the precedence of `-grid`, `-g` and the first argument.
Flags that are passed on unread are left out.

**Loading.**  The file system is a function from paths to contents, `Absent`
included; a content is what parsing makes of it: accepted, refused, or a panic (a
type that HCLTypeToCtyType does not implement, in a manifest; a null `count` or
`for_each`, in a grid).  `ParseFile` stands for parser,
NewRunner or newGridFromHCL, which accept a file's blocks all together or not at
all: that they do is what ManifestIsAllOrNothing and NoExpressionIsLost say of
RunnerModel and StepModel.  The same actions serve both loads, as the code has the same loop twice; they
differ in `Keep`: runners go to the registry at once, steps to a local grid.

**ExprWalk.**  An input is a forest: a parent, a kind and a field (`slot`) for each
expression, with the fields that hclsyntax's kinds have in `Slots`.  One step is one
turn of the loop over expressions (`ExtractReferences`) or one call of
`walkForFunctions`; the recursion fills a set, so the calls still to be made are a
set too.  `Visited` is the switch: every field of a kind with a case, none of the
others.  Literals, absent fields and names bound by a `for` can hold nothing and are
left out.  ExprContainer's `Extract` stands for a behaviour of this module.

**NodeId.**  A text is the sequence of its parts between dots, a part a name with
digits; that is what `strings.Split` and the regular expression see of it.  Digits
are kept as they are written, since leading zeros and overflow are what differs
between a text and its address.  `Value` is Atoi, `Decimal` is `%d` and `String` the
method's loop, each a recursive function whose argument is the turn of the loop or the
number still to be written.  `ParseRaw`, `AddDependency` and `DependenciesOf`
are the three conversions an address meets on its way through the store; addresses
that were built without Parse start at the second.

**StepModel.**  A step body is what the HCL parser hands over: of an attribute, whether
it is written in brackets, refers to anything, and which type it else has; of a block,
which attributes it assigns to, whether something does not fit its struct, and its
nested `backoff` blocks.  An expression is its place in the body, so that two of one
text stay two.  `todo` holds the parsers that have not run.  The calls that
NewStepFromHCL makes one after the other are in that order, each waiting for the one
before it; the parsers of blocks, in `blockParsers`, follow in any order, which is
what a Go map gives.  `ParseUnique` is FindUniqueBlock, DecodeBody, the field and
AddExpressions.  `fields` is what the Step's fields hold, `expressions` its
container; each diagnostic is the part of the step it is about.  `CheckContent` ends
a step alone when the schema is violated; `FinishStep` adds the conflict of `count`
and `for_each` and refuses the file if there is any diagnostic.

**RunnerModel.**  A manifest is the sequence of its runner blocks.  `SkipRunner` and
`BeginRunner` are the beginning of ParseRunnerFile's loop, `ParseInput` and
`ParseOutput` one turn of parseRunnerInputs and parseRunnerOutputs, each with its own
conditions for keeping a block out of the map (`NotTaken`, `DefaultRefused`).
Diagnostics are kept by runner.  `TypePanics` comes after the name and the schema have
been checked and before a default is looked at, as in the code; a runner with errors
still joins `made`, and `Return` drops them all.

## Runs

| Run | Question | Instance |
|---|---|---|
| `graph_core` | Do status and value belong together for every reader, although stored apart? Is what was seen of a node true later? Are edges and answers of DependenciesOf consistent while the graph is built? Does the manager implement AtomicGraph? | 5 nodes, 2 configurations, one key that does not parse and one that is misread, a nil output among the outputs, 2 workers, 1 reader, 1 observer; no retry |
| `graph_retry` | Has a verdict its value once the call is over, also when failed nodes are run again? Does every result reach the store? | 2 nodes, 2 workers, retry, fairness |
| `graph_torn_read` | *violated*: a completed node's output is readable | 1 node, 1 worker, 1 observer |
| `container` | One analysis, complete answers, no deadlock, for any interleaving of getters? Does the container implement AtomicContainer? | 2 expressions and nil, 3 getters, 1 adder, no overlap |
| `app` | Session and Cleanup closed in order on every way out, an honest exit code for all arguments, no serving after Shutdown, an end | 2 connections; all arguments with one path; port 0 or 8080 |
| `app_late_server` | *violated*: nothing is served after Cleanup | the same |
| `app_no_grace` | *violated*: Shutdown gives requests up only after its timeout | the same |
| `loading` | No partial grid, no partial file in the registry, no lost step, and an end that comes nearer with every step of the loader | 2 manifests, 2 grid files, 2 accepted contents, one refused, one that panics, 1 change at any point |
| `loading_no_modules` | *violated*: no grid is loaded without its modules | 1 manifest, no change |
| `pure` | Does the walk forget a field? Do addresses survive their keys? Does a step keep every expression and tell every fault, and does a file's first fault decide between refusal and panic, in whatever order its blocks are parsed? Does a manifest load as a whole or not at all? | see below |
| `walk_hidden_call` | *violated*: all calls are found | as `pure` |
| `shipped_manifest` | *violated*: the print module's manifest loads | as `pure` |

**Bounds.**  `MaxConns` (2) bounds open connections: one is enough to keep Shutdown
waiting, two make a difference between some and all answered.  `MaxEdits` bounds
changes of the directories: one change between walk and parse reaches every branch
of ParseFile, and a change is of one file.
All other parameters are finite sets.

`graph_core` joins two instances (`Watched` in MCGraph), which is sound to look at
apart because nodes share nothing in either store.  In one (`Quiet`) the diamond of
four nodes is built, and a fifth whose key comes back as the first, in every order and
with links tried before their nodes are there, while a reader asks and nothing runs: a
list whose nodes appear between its lookups, and one with a misread key whose node is
there, missing, or added meanwhile, beside a key that is not.  Readers share nothing, so
one is enough; only one node has two configurations, of which the second comes too late.
In the other (`Chain`) two nodes are run by two workers, watched by one observer and
asked for by the reader, while they are added and linked: two workers and one observer
are enough for a race on one node.  About 68,000 states.

`pure` enumerates inputs.  *Forests*: all of 3 expressions of 17 kinds; three are a
call, something around it, and something around that or beside it, and the walk treats
each expression by its own kind and field only.  *Texts*: `MaxParts` 2, `MaxDigits` 3
of `Base` 2, integers up to `MaxIndex` 4: three binary digits have numbers with
needless zeros and numbers above the largest integer, and two parts have a dot between
them, at which a name can be mistaken for two; built addresses have 2 segments.  *Grid
files*: every pair of values for `count` and `for_each` out of 14 that the code tells
apart; every block alone, empty, whole, and with something unknown in it, with every
form of `backoff`; two blocks of three types in every combination and three of one
type, for duplicates and for orders; and up to three steps of which each is right,
refused or a panic, for what stays of those before.  *Manifests*: up to two ports in
a runner, among them duplicates, every kind of type and default, beside a right and a
skipped runner before and after.  A port or block is judged by itself and by its name,
so two of a kind reach every branch.  About 415,000 states.

The theorems hold for all sets and all inputs.

**Fairness.**  GraphManager: calls in progress continue, since no method blocks
(weak fairness on the halves of MarkCompleted and MarkFailed); no caller has to make a call,
and a handler need not return.  ExprContainer: a goroutine that is not blocked is
scheduled.  AppLifecycle: goroutines run and time passes; clients never have to
let go, and signals never have to come.  Loading: the loader runs.  This is what
Go's scheduler and the operating system provide, and nothing is assumed to be
strongly fair.  Deadlock is checked where no run of the system ends by itself, and
off for AppLifecycle, Loading and MCPure, whose program or function returns.

## Findings

* **`graph_torn_read`**: SetStatus comes before SetOutput in MarkCompleted, so a
  reader may see a completed node without its output; the interface's words about
  GetOutput, and the order in `docs/architecture.md`, say otherwise.
* **`app_late_server`**: when Run ends before the health check goroutine has
  assigned `app.httpServer`, Cleanup finds nil and the server starts afterwards.
* **`app_no_grace`**: the five seconds of grace are cancelled by the signal that
  ends the program.
* **`loading_no_modules`**: Run drops LoadModules' error.
* **`shipped_manifest`**: `modules/print/manifest.hcl` declares its input as `any`, a type
  HCLTypeToCtyType panics on; with the default `-modules-path` every run from the
  repository ends in that panic.
* **`walk_hidden_call`**: the walk has no case for a traversal of a result, an object's
  key and a template's `for`, so the calls in `f(x).a`, `f(x)[0]`, `{ (f(x)) = 1 }` and
  `"%{ for v in f(x) }..."` are not found.

Not kept as runs: with `Retry = TRUE` the invariant ErrorOnlyOfFailed fails, since
nothing removes the error of an earlier attempt; with `Overlap = TRUE` an Add beside
one getter replaces a locked mutex, and its unlock is a fatal error, while beside two
getters an answer may lack an expression.  The first needs an executor that retries,
the second is what the comment in Add forbids.  That two workers do not run one node and
that verdicts are final is not stated either: no Mark method sees to it, so it would only
repeat what `Free` and `Untouched` ask of the callers.  The topology store takes links that
close a cycle, although it is to hold a DAG: nothing in this version looks for one.
The comment at parser.go 48 takes Atoi's error for unreachable; a number that does not
fit an int reaches it, and is refused.  A built address with a name such as `a[01]`
comes back as `a[1]`, whose key is another one; ReadBackHasKey leaves such keys out.  In
`graph_core` that is the misread key: its lookup finds a node that nobody linked, or takes
the branch of graph.go 61 that "shouldn't happen", and an answer with such a key is true
of no single moment.  What is left, and checked, is that the other keys are not affected.
A `count` that is a null number and a `for_each` that is a null list or tuple panic
(modelled as `CountPanics` and `ForEachPanics`, and counted as panics of the load); an
object written `{ a = 1 }` is refused by `for_each`, which takes a map only where its
type is a map, although the diagnostic (loop.go 83) names a map; and a negative literal is
taken as a `count`, although `docs/ADR/ADR-012` (line 54, in an ADR whose status is
Implemented) lists it among the values to be refused.  StepModel takes both as the code
does; its values have no sign.  Two steps of one name in a grid are not looked for.

## Proofs

All theorems hold for every value of the constants that satisfies the assumption of
their module: `ConstantsAssumption`, `ContainerAssumption`, `WalkAssumption`,
`ArgumentsAssumption`, `ConnsAssumption`, `LoadingAssumption`, `FilesAssumption`,
`ManifestsAssumption`, `IdAssumption`.  They say that special values (an absent entry, no path, no
grid) differ from real ones, and what form inputs have; none bounds a size.

`GraphManagerProofs`.  The inductive invariant `GraphInv` has three parts.  `Typed`
gives types.  `TopologyInv` says that edges join existing nodes, that what a reader still
has to look up, or has found, are keys of dependencies of the node it asked about, that
every key that comes back as itself has its node, and that what was found is the node of
what its key comes back as; it is inductive because nothing is ever removed or replaced.
`WorkInv` relates workers to the state store: a node that nobody has taken has no
entry; a node that is held has the status its worker's place calls for and no value
before the second call; a node that was let go has a status with its value, or is
skipped; and no node is held twice.  The properties themselves are not inductive:
that a completed node has an output follows only when it is known which worker
holds it.  `StepsKeepEntries` then shows that no step takes anything back, from
which follows the truth of old observations.

* `TypeCorrect`, `EdgesAreSound`, `LookupsSucceed`, `CollectedStayCurrent`,
  `VerdictsHaveValues`, `OutputsOnlyOfCompleted`: no further assumption, and keys may come
  back as anything.
* `ErrorsOnlyOfFailed`, `ObservationsHold`: without retries.
* `Refinement`: without retries, `Spec` implements AtomicGraph's.  A node's verdict
  is mapped to *running* until its value is there; a query's answer names the node it is
  about, and is what has been found together with what is still to be looked up, so it is
  complete at the first step.  Misread keys are left out of both: AtomicGraph promises
  nothing of them.  The lookups then change nothing, which needs the topology invariant, and the
  second halves of MarkCompleted and MarkFailed are the atomic verdicts.

`ExprContainerProofs`.  The invariant says that at most one getter is inside the
Once, that the mutex is locked exactly then, that the flag or a stored result means a
current cache, and that nobody is inside while an Add runs.  `CompleteAnswers`,
`FlagVouches` and `OneAnalysis` assume `~Overlap`; `TypeCorrect` does not.
Under the same assumption:

* `NoDeadlock`: only an adder keeps the container's lock over a step, and an adder is
  alone; so a getter inside the Once can always move, and when nobody is inside, the
  Once is free.  Of those in a call one can always move, with any number of getters.
  This is what CallsReturn needs besides fairness.
* `Refinement`: `Spec` implements AtomicContainer's.  Three facts of the invariant carry
  it: nobody is in a getter when an expression is appended, the extraction is the first
  since the last Add, and what is read is the analysis of all there is.

`ExprWalkProofs`.  The invariant says that nothing walked is hidden, that the walk has
come, or still has to come, to every root taken and every field visited of what it
has walked, and that the two maps hold what that gives.  At the end, what was walked
together with what is hidden is closed under children and holds all roots, and so is
everything: this is how a forest is defined, and it takes the place of an induction
over trees.  `WalkTypes`, `OpenCalls` and `AllReferences` assume that inputs are
forests (`WalkAssumption`) and nothing of their size.

`AppLifecycleProofs`.  The invariant `IInv` adds to the types: what Shutdown has
established when it waits (`MarkHolds`: from its second wait on nothing serves, and it
is marked, so nothing will); that goroutines and session are where the arguments and
main's place put them (`StartedByArguments`); and that an error says where it came from
(`ErrorsKeptApart`).  ShutdownStopsServing needs the mark: Serve looks at it again after
ListenAndServe has bound.  `TypeCorrect`, `ShutdownIsFinal`, `GracefulIsIdle`,
`CleanupOnEveryWay`, `HonestExit`.

`LoadingProofs`.  The grid is what was parsed, and is assigned last (`GridIsLast`);
runners and steps are those of the files found so far, in their order
(`RunnersFollow`, `StepsFollow`); and every grid file that nobody touched has been found
when the walk has passed it (`GridFound`).  `TypeCorrect`, `WholeGrid`, `WholeFiles` and
`StepsKept`, for any number of files and of changes.  `Progress` gives the loader a
bound, `StepsLeft`, on the steps it still takes: each lowers it, and no change of the
directories raises it.  It needs `InWalk`, that the walk is never further than one past
its last entry.  With a loader that runs this is why LoadingEnds holds.

`StepModelProofs`.  While a step is parsed, its diagnostics are exactly the parts that
have been parsed and are not sound, its container exactly what is written in the parts
that have been parsed, and a field is empty or complete (`Parsing`); as each parser
touches its own part only, the order of the map does not matter.  `Made` carries
this to the steps of the file, `Told` to a refusal.  `Decided` adds that a loop whose
parser has run is not null: once the schema is right nothing ends a step before its
loops are parsed, so a null one always panics.  `StepTypes`, `ExpressionsKept`,
`FaultsTold` and `FirstFault`, for steps with any number of blocks and files with any
number of steps.

`RunnerModelProofs`.  `RunnerInv` says at each loop what the turns so far have come to:
the runner's inputs are those that could be taken among the first `block - 1`
(`InInputs`, `InOutputs`), the diagnostics are the faulty runners before this one, and
this one if a turn so far was refused (`AtRunner`, `InRunner`), and where there are
none the definitions made are those declared (`MadeSoFar`).  `WholeManifests`,
`FaultyRunnersTold` and `RunnerTypes`, for manifests of any size.

`NodeIdProofs`.  What is to be shown is about two recursions that go opposite ways: Atoi
reads digits from the front, `%d` writes them by dividing.  The induction is by least
counterexample: `LeastNumber` (a set of numbers that is not empty has a least one, since
`<` on the naturals is well-founded) gives `Induction` and `StrongInduction` over sets,
and `LoopDefined` from these says that a function defined by the turns of a loop
exists.  `ValueLoop` and `StringLoop` apply it, and from them follow

* `ValueOfDecimal`: reading what was written gives the number back;
* `DecimalOfValue`: writing what was read gives the digits back, if there is no needless
  zero in front;
* `ParseOfString` and `StringOfParse`, which carry both through the segments of an
  address.

`AddressesComeBack`, `KeysTellAddresses` and `KeysComeBack` follow from an invariant
that only says which address, key and answer belong together (`IdInv`), for texts and
addresses of any length, every base above one and every largest integer; in particular
texts may hold numbers far above the largest integer, or none.

Only model-checked: liveness (ResultsAreStored, CallsReturn, Terminates,
LoadingEnds), which the prover does not reach.  Of CallsReturn and LoadingEnds the part
that is about states and steps is proved (`NoDeadlock`, `Progress`).  All invariants and
all other properties of the passing runs have a theorem.

Only proved: the types of ExprWalk, StepModel and RunnerModel (`WalkTypes`, `StepTypes`,
`RunnerTypes`), and three invariants whose failure another property of the same run
would show.  EdgesConnectNodes is what AtomicGraph's AddDependency asks for, so
ImplementsAtomicGraph has it; a getter that finds a done Once over an old cache gives an
answer AtomicContainer does not give (DoneMeansCurrent); and of two addresses with one
key one does not come back (KeyTellsAddress, ReadBackIsSame).

## Not modelled

Scheduler and builder are stubs that return at once and are called by nobody; of
session and executor the order of their calls is modelled, which is all they have;
task is types only.  The handlers registry is one map filled by one call before anything
runs concurrently; the print module and the logger are I/O; configuration files and
examples are data.  Of the test support only the harness's order of loading is
modelled, as a caller of Loading.  Flags that Parse passes on unread, the wording and
positions of diagnostics, a step's FSInfo and the sharing of node pointers with callers
are left out.  The generic walk over directories (`filepath.WalkDir`), `sync.Once`,
`net/http` and HCL's own parsing are modelled from how the code uses them.

## Plan

1. *Done*: the graph and its stores, the atomic graph and the refinement; the
   container; the life cycle; loading; the analysis of expressions; addresses.
2. *Done*: StepModel and RunnerModel, CommandLine, the session's place in Run; the
   theorems of AppLifecycle, Loading, StepModel and RunnerModel.
3. *Done*: the theorems of NodeId; the atomic container, its refinement and the absence
   of deadlock; which fault decides a file's outcome; the loader's bound.
4. When scheduler, builder and executor exist, they take the place of GraphManager's
   callers: workers of the executor for `Work`, the builder for `Build`, the scheduler
   for `Observe`.  Only then are final verdicts, and one worker for a node, properties of
   the code.
5. A refinement of Loading's contents by StepModel and RunnerModel, in one state
   machine, if a load ever keeps part of a file.
