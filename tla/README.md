# Verification of coretrace-stack-analyzer

TLA+ models of the analyzer's own machinery, the TLC runs that check them and
TLAPS proofs of the central facts. Paths below are relative to the directory
that holds the repository as `src/` and this project as `tla/`.

The analyzer loads C/C++ sources or LLVM IR, one module per input, in parallel;
builds summary indices that carry facts across translation units; analyses each
module and prints a report (human, JSON, SARIF). What can go wrong in it that
tests hardly reach is in five places: threads that share unlocked slot vectors
and one working directory, files of a cache that several steps write, fixpoint
computations whose result must not depend on the order of their steps, searches
over graphs that must be right on all of them, and settings, filters and formats
that several parts of the program read or apply each in its own way.

## 1. Inventory

| Component | State | Operations | Hard behaviour | What makes it correct |
|---|---|---|---|---|
| Scheduler, `runParallelWork` (`app/AnalyzerApp.cpp` 286) | atomic counter, per-worker counts, threads | spawn, claim, call `workFn`, join, compare totals | interleaved claims, counter past the end, fewer items than threads | every item once; all done at return; fatal check never fires |
| Run, `AnalyzerApp::run` (2892) | slots, loaded modules, indices, results, exit code | load, collect, build indices, analyse, emit, write SARIF | failures in any order, partial failure after output | outcome independent of schedule; complete reports |
| Module loading, `loadModuleForAnalysis` (`analysis/InputPipeline.cpp` 808) | process working directory, mutex, results | optimistic compilation, guarded fallback, retry for textual IR | working directory is process-wide | a command compiles in its own directory; directory restored |
| Compile IR cache (`InputPipeline.cpp` 247–583, 918–1261) | metadata, bitcode, IR and dependency files | check stamps, read payload, compile, capture stamps, three writes | edits, crashes, lost writes between files | a hit gives the module a compilation would give |
| `.ll` parse cache (`InputPipeline.cpp` 1263–1444) | cached bitcode of textual IR | lookup, store | stale entries | same as above |
| Cross-TU indices (`AnalyzerApp.cpp` 1641–2680) | index, module summaries, memory and disk cache | level walk, cyclic iteration, global passes, merge, save | order, caps, stale cache entries, shared names | resources: least closed index, whatever the schedule and cache; uninitialized: closed, nothing stale off the cycles |
| Component search (`AnalyzerApp.cpp` 150–284, `analysis/StackComputation.cpp` 729–823) | indices, lowlinks, stack | strongConnect, levels | recursion on any graph and successor order | components, dependency order, levels |
| Stack computation (`StackComputation.cpp` 47–210, 874–902) | visit states, totals | frames, depth-first totals, call path, limit flag | cycles and memoised partial results | totals exact or at least not too small |
| Infinite recursion search (`StackComputation.cpp` 229–745, 940–) | path worklist, ranges | dominance test, path exploration | visit caps, stale ranges | no recursion with a base case reported |
| Analysis pipeline (`analyzer/AnalysisPipeline.cpp`, `IRFactCollector.cpp`, `passes/`) | artifacts, signals, instruction cache | steps with required and provided artifacts | order, skipped steps, lists in another order than the code | what is reported does not depend on how the code was gathered |
| SMT refinement (`analysis/smt/`) | back ends, answers | resolve, strategies, aggregation | timeouts, disagreement | a finding is dropped only on agreed Unsat |
| Uninitialized variables (`analysis/UninitializedVarAnalysis.cpp`) | byte ranges per object and block, summaries | transfer, merge, summary rounds, report | loops, calls through parameters, range vectors at their edges, round cap | exactly the reads that some path makes too early |
| Resource lifetime (`analysis/ResourceLifetimeAnalysis.cpp`) | effects per function, handle states, class fields | summary rounds, walk, verdicts | round cap, unknown callees, order of methods | a call acts as its body would |
| Global read-before-write | index of globals | one pass | – | per rule |
| Escape, buffer, integer, pointer, syntactic checks | – | pattern matching over IR | numeric edges | per rule |
| Command line (`cli/ArgParser.cpp`) | configuration | two readings, configuration file | the readings cut the arguments differently | argument over file over default; what is loaded is what is recorded |
| Run plan (`AnalyzerApp.cpp` 713–1400, 2715–2890) | inputs, profile, strategy | discover, exclude, sort, choose | defaults that disagree between parts | the inputs that were asked for |
| Filters and reports (`analysis/FunctionFilter.cpp`, `AnalyzerApp.cpp`, `report/`) | results | stamp, filter, count, three formats | the same filter written several times | formats agree; what is listed passes the filters |
| Timing, CI scripts | – | measuring, driving | – | – |

`PROJECT.json` lists every part with its status, and each hazard at its line.

Components interact by calls and shared state only. `AnalyzerApp::run` hands
`runParallelWork` a lambda that fills slot *i* of a vector without a lock; the
lambda calls `loadModuleForAnalysis`, which changes the directory of the process
under a mutex in some configurations and not in others; after the join the main
thread reads the slots, builds the indices (again with `runParallelWork`, one
slot per module of a level) and analyses module after module: preparation (call
graph, recursion, stack), then the pipeline of analyses, whose issues
`DiagnosticEmitter` turns into diagnostics. `main` wraps this in the command line
before and the report after it. The cache directories are the only state that
outlives a process.

## 2. Modules

| Module | Models | Composed with |
|---|---|---|
| `ParallelWork`, `AppRunProofs` | `runParallelWork` | |
| `RunContract` | abstract: what a run promises, without threads and stages | |
| `AppRun`, `AppRunProofs` | `analyzeWithSharedModuleLoading` and `AnalyzerApp::run` | extends `ParallelWork` (a slot is written by the scheduler's own step); refines `RunContract` |
| `CompileCwd`, `MCCompileCwd`, `ModuleLoadingProofs` | `compileWithConfiguredWorkingDir`, `ScopedCurrentPath`, the textual retry | bounded by the scheduler's `ResolvedJobs` |
| `CompileIRCache`, `ModuleLoadingProofs` | one cache entry, several loads | |
| `ComponentGraph`, `ComponentGraphProofs` | definitions of components, levels and cycles | used by the other graph modules |
| `Tarjan`, `TarjanProofs` | both copies of the component search, `computeSCCLevels` | checked against `ComponentGraph` |
| `StackUsage`, `MCStackUsage` | frames, totals, limit, call path | cycles from `ComponentGraph` |
| `Preparation`, `MCPreparation`, `PreparationProofs` | `computeGlobalStackUsage`; the search followed by levels | `StackUsage` on the recursive functions an instance of `Tarjan` found; the MC module adds `RecursionCheck` |
| `SolverOrchestrator` | SMT back ends, strategies, aggregation, `evaluateQuery` | |
| `RecursionCheck`, `RecursionCheckProofs` | the search for recursion without a base case | asks `SolverOrchestrator` at each edge; `ComponentGraph` for dominance and for the reference |
| `CrossTU`, `MCCrossTU`, `CrossTUProofs` | both index constructions, with caches | components and levels from `ComponentGraph` |
| `Selections` | the loops that copy the wanted elements of a vector | used by the next four modules |
| `CommandLine` | `parseArguments`, the configuration file, the value parsers | |
| `FunctionFilter` | path, name, system, third-party and runtime filters, in all their copies | |
| `RunPlan` | `RunPlanBuilder` | extends `FunctionFilter` |
| `Report` | stamping, result filters, summary counts, human, JSON and SARIF reports | extends `FunctionFilter` |
| `FrontEnd`, `MCFrontEnd`, `FrontEndProofs` | `main` and the rest of `AnalyzerApp::run`, the compiler's own warnings | composes `CommandLine`, `RunPlan`, `Report` |
| `Diagnostics` | `DiagnosticEmitter`, `LocationResolver` | |
| `Pipeline`, `MCPipeline` | `AnalysisPipeline::run`, the fact collector, the alloca, buffer, memory, check-then-use and command checks | extends `Diagnostics` |
| `RangeSets` | the byte range vectors | |
| `UninitFlow`, `MCUninitFlow` | data flow, summaries and issues of uninitialized locals | keeps its state in `RangeSets` vectors |
| `ResourceLifetime`, `MCResourceLifetime` | resource model rules, summaries, the walk over a function, classes | |
| `MCAnalyses` | one run over the pipeline and the two summarising analyses | the modules `Pipeline`, `UninitFlow` and `ResourceLifetime` side by side, on the families of their MC modules |

### How state and actions correspond to the code

*ParallelWork.* `nextIndex`, `processed`, `joined` are the variables of the
function. `Claim` is the `fetch_add` with the test of its result; a call of
`workFn` spans `Claim` and `FinishWork`, so calls of several threads overlap.
`begun` and `finished` are history. With one worker `LoopCall`/`LoopReturn` are
the plain loop. `workItemCount = 0`, which returns at once, is left out.

*AppRun.* `slot` is the pair `loadSucceeded`/`loadErrors`, written with the
scheduler's step that ends the call (`LoadInWorker`, `LoadInLoop`). `Collect`
is a turn of the loop over the slots with its early return; `BuildIndices`
stands for the three index constructions, `Analyze` for one module, `Emit` and
`WriteSarif` for the two outputs. Which inputs load, which indices are asked for
and whether the SARIF path is writable are chosen in the initial state.

*RunContract.* A run fails with the name of the first input that does not load
and prints nothing, or prints one report on all inputs in their order, analysed
with every index asked for, and then writes the same report as SARIF. `AppRun`
maps its reports and exit code to `printed`, `filed` and `answer`
(`RefinesRunContract`); claims, loads, joins, collection and index building are
stutters.

*CompileCwd.* A load is the thread that runs it. `Start` takes an input and
makes its path absolute; `Entry` is the choice between the optimistic, guarded
and plain compilation; `SaveCwd`, `ChangeDir`, `CompileInside`, `Restore` are
the constructor, the compilation and the destructor of `ScopedCurrentPath`, each
a step of its own because the directory belongs to the process. The compiler is
external: it succeeds or fails per input and directory, chosen in the initial
state.

*CompileIRCache.* `meta`, `bc`, `ll`, `dep` are the four files. A lookup is
`CheckStamps` and `ReadPayload`; a miss is `CompileSource`, `CompileHeader` (the
compiler opens its files one after the other), `CaptureSnapshots`, then `OpenBc`
to `WriteMeta`. `LoseWrite` is a write that fails after `writeTextFile` tested
the stream, `FailedWrite` one it notices, `Crash` the end of the process. A
version of a file stands for its content and its stamp. `QuietEdits` excludes
edits between a compilation and its snapshots.

*ComponentGraph, Tarjan.* `frames` is the C++ call stack; `Root`, `Descend`,
`SeeVisited` and `Return` are the loop over the nodes, the recursive call, the
other branches of the successor loop and the end of `strongConnect` with the
popping loop and the caller's `min`. Successors are taken in any order: they are
an `unordered_set` for modules and program order for calls. `contract` holds the
norecurse functions; for modules it is empty. `expected` keeps the reference
result of the graph so that it is worked out once. `Preparation` runs the search
before `StackUsage` as `computeGlobalStackUsage` does, or before `ComputeLevels`.

*CrossTU.* `G` is `globalIndex`, `S` `moduleSummaries`. `TrivialModules` is the
cache lookup, the parallel build and the merge of the modules of a level that
are on no cycle; since they read the index of the level's start and write their
own slots, which `ParallelWork` shows, one step is faithful.
`CyclicIteration` is one round for a component with the choice of dirty modules,
`EndPass` the hash comparison, `SaveCache` a run's end with any subset of the
files written, `NextRun` a later run over another program. A summary is a set of
effects, and `Build` differs between the indices. A resource summary is a union
over the functions reached and grows with the external index; its local rounds are
taken at their limit (the code stops after 8). An uninitialized-read summary
follows the steps of a body in order (`InOrder`): a callee known to write hides the
reads after the call, and what a declaration suggests counts only while the callee
has no summary (`Gives`), so knowing more of a callee can take effects away, while
`MergeAll` only adds. One byte of one argument is followed along straight-line
bodies, effects on other arguments standing for themselves, and programs in which
functions of one module call each other in a cycle are left to `UninitFlow`, as are
ranges and branches. The index therefore may keep, inside a cycle of modules, what
an early round gave and the last does not: a read in `h` after a call of `g` that,
through a cycle, turns out to write. `NothingStale` says that this happens nowhere
else where callees have one definition.

*StackUsage.* The recursion of `dfsComputeStack` is in `frames`; `Answer` is its
two early returns; `Start` picks any unvisited function because the map is
ordered by address. `FrameIR`/`FrameABI` are the two frame models.
`BuildResults` sets the flags, `BeginPath`, `ExtendPath`, `EndPath` are the loop
of `buildMaxStackCallPath`; a tie is decided by the order of the calls, so any
best callee may be taken.

*SolverOrchestrator.* Pure operators. z3 answers the truth or one of `Unknown`,
`Timeout`, `Error`; that a `Sat` or `Unsat` of z3 is right is assumed of it. An
operator returns the set of results that follow from the answers.

*RecursionCheck.* A member of a recursive component is a control-flow graph;
`RejectMember`, `Dominated` and `BeginSearch` are the tests in the loop of
`detectInfiniteRecursionComponent`, and one round of the worklist in
`hasFeasibleNonRecursiveReturnPath` is one of `GiveUp`, `SkipVisited`,
`FindBaseCase`, `ReturnAfterRecursion`, `Branch`, `Follow`. A range without a
bound has the value `NoLower` or `NoUpper`, so that tightening is a maximum or
minimum. A comparison sees a variable through a cast: `Operand` is the number it
sees, and its constant is one of the cast's width. `EdgeRanges` keeps the bounds of
that number as bounds of the variable itself, as `canonicalConstraintValue` strips
every cast; `QueryFeasible` is the truth of the query the encoder builds, which has
the casts in the edge's own condition, and ranges of SSA values only, signed and
cut to the variable's width. `skipped` and `refuted` are history.

*CommandLine.* `ScanMeta` is the first reading, which knows `--config` and
`--print-effective-config` only; `OpenConfig`, `ConfigLine`, `CloseConfig` load
the file a line at a time; `AskHelp`, `SetFlag`, `SetValue`, `Reject`, `AddInput`
are the second reading, one argument (and its value) a step, and `Accept` the
checks at its end. `cfg` is `ParsedArguments` with the whole `AnalysisConfig`.
What a parsing function sees in a text is given by tables, so that numbers with
suffixes, lists and quotes are converted and not passed through; a parser returns
the set of its results, empty for an error. `Kilo`, `SizeMax` and `UnsignedMax`
keep the overflow checks of sizes and counts.

*FunctionFilter, RunPlan, Report.* Pure operators over paths as sequences of
segments. The code has the path filter twice and the function choice twice (in a
module and for a report); so has the model. `Report` gives each format what the
code gives it: counters, groups, rules and results. `Only` (`Selections`) is the
loop that keeps some elements of a vector, and `Sorted` the list with equal texts
side by side: both are written with recursive functions and `FlattenSeq`, so that
they can be reasoned about.

*FrontEnd.* `PrintConfig`, `MakePlan`, `AnalyzeInputs`, `EmitReport` and
`WriteSarifFile` follow `Accept` in the order of `main`. `AnalyzeInputs` is one
step here, with the results `AppRun` shows to be those of any schedule; what the
analyses find in a function is an input, the compiler's messages are classified
and attributed to the nearest function as in `collectFrontendDiagnostics`.

*Pipeline, Diagnostics.* `step`, `available` are the runner's loop and artifact
set; the actions are the steps, with `signals` and `cache` written by the one walk
over the module. The cache is a hash table keyed by address, so its order is
chosen anew. With subscribers four analyses read the kept lists, in which calls
come before invokes, and two are skipped by the counts. Verdicts on allocas,
stack buffers, memory intrinsics, checks before uses and commands are computed;
the issues of the other analyses are part of the module (`found`) and pass through
their own steps. `Diagnostics` holds one entry per kind of issue and the place it
is reported at.

*UninitFlow, RangeSets.* A module has functions with blocks, objects and imported
summaries. `Summarize` is the analysis of one function in a summary round,
`EndRound` the end of a round with the dirty set and the cap, `Report` the walk
that reports one function. Inside a step the block fixpoint runs to its end as in
`analyzeFunction`. What an instruction does is a sequence of events (reads, writes,
writes behind a slot, constructions), found from the state and then performed on
it; a call takes a turn for each argument and one for the rest, as the loops of
`applyCalleeSummaryAtCall` and `applyKnownCallWriteEffects` do, so that a later
argument sees what an earlier one wrote. A state of the flow has for each object a vector of ranges, which
`AddRange`, `IntersectRanges` and the coverage tests of the source change and
read; the properties use sets of bytes instead.

*ResourceLifetime.* `Summarize` and `EndRound` are the rounds of
`computeFunctionLifetimeSummaries`, `Analyze` the walk over one function with the
handles of its locals, `EndAnalysis` the verdicts on classes. Rules are read from
the lines of the model; to which storage a value refers is part of the module.

## 3. Runs

| Run | Instance | Shows |
|---|---|---|
| `app_run` | 3 inputs, 1, 2 or 4 jobs, any loadable subset | every interleaving implements `RunContract`: outcome, named input and reports are those of a sequential run; no item twice, all done at return; every run ends |
| `cwd_explicit_jobs` | 2 inputs, 3 directories, 1 or 2 jobs, any commands and compiler | with `--jobs` given, a guarded compilation runs in its own directory, the process returns to its own, the fallback rescues what compiles in its directory, and all loads end |
| `cwd_default_jobs` (violation) | the same, no `--jobs` | `CompilesInOwnDir` fails: the mutex is chosen by `config.jobs > 1`, the threads by `resolveConfiguredJobs` |
| `ircache_quiet` | 1 process, 4 loads, 3 edits, 2 crashes or failed writes | a hit is current, current stamps never stand beside another version's IR, an unchanged unit is reused |
| `ircache_edited` (violation) | 2 loads, 2 edits, at any moment | `HitIsCurrent` fails: stamps are taken after the compiler has read the files |
| `cross_indices` | 3 modules, 4 names, all call graphs and the shared-name families, both indices, and all call graphs with a read or a write after the calls and guesses of the callees for the uninitialized one, caps 12; and 2 runs over an edited program with a disk cache that any subset of the writes reached | nothing invented in the resource index, nothing stale off the cycles in the uninitialized one, converged means closed, one ordered walk is enough where each callee has one definition, a cached summary is what building its module under the key would give, the construction ends |
| `cross_one_walk` (violation) | shared-name programs, uninitialized index | `ResultIsClosed` fails: a name with two definitions gives no edge, and one walk does not come back |
| `preparation` | all dependency graphs of 4 modules, all call graphs of 3 functions with three settings of frames; functions with two branches (the second possibly a loop), nested comparisons, ladders of up to 3 optional steps, components of 2 functions, 2-bit values compared as they are, extended and truncated, SMT off and all modes | the search finds exactly the components, dependencies first; levels and recursive functions are right; totals are exact where no cycle is in reach and always the weight of a real chain; paths add up; a flagged component has no base case in any run of its functions, a function that always recurses first is never cleared by mistake, coupled solver modes drop nothing |
| `stack_cycle` (violation) | one program of 4 functions | `TotalIncludesCallees` fails for a function that is not recursive but calls into a cycle |
| `analyses` | modules of one and two functions with every kind of checked instruction, subscribers on and off, any table order; flow over branches, loops and calls, objects of 2 bytes or unknown size; chains of calls with resource rules, classes with three methods and a helper in three orders | what the pipeline reports is what a plain walk would, but for two known kinds; reads are reported exactly where some path is too early; summaries settle before the cap; "never initialized" is true of all paths; the cap of the resource rounds loses only deep chains; calls act as inlined bodies; the verdict on a class ignores the order of methods |
| `pipeline_parity` (violation) | one function with an invoke and a call | `RolloutIsInvisible` fails: the kept lists put calls before invokes |
| `front_end` | command lines of up to 6 arguments; 4 configuration files, two of them refused; 2 compilation databases; filters; 3 formats | argument over file over default, also for options read twice; a loaded file is recorded as such; the inputs are the ones asked for; formats agree in counts, results and rules; what is listed passes the filters |

### Bounds

*Three inputs and four jobs* give more threads than two, fewer threads than
items, and more jobs than items (where `WorkerCount` is cut to the items). *Two
inputs and three directories* suffice for every pairwise interference of loads:
the process has one directory, and each load adds at most one of its own. *Three
edits* take a file through two changes after a store, *two failures* cover a
failure while repairing the effect of another. *Three modules and a fourth
name* contain every cycle structure on three modules, a caller of a shared name
before, between and after its definers; caps of 12 are the code's, and the passes
of the runs with a disk cache are cut at 2, which is reached. *Four modules*
contain two separate cycles, a cycle above and below another and cross edges
into closed components, all the cases in which Tarjan's tests differ. *Three functions* hold every way a visit can meet a
visited or active function; the fourth in `stack_cycle` is the caller outside
the cycle. *Two bits* give negative and positive values and constants whose
signed and unsigned reading differ, and *three* for the extended ones constants
beyond the variable's own; *two branches* give paths that compare one
variable twice; the search limits 13, 6 and 1 stand for 4096, 1024 and 128 so
that the ladders reach them. *Objects of 2 bytes* and a gap of 1 (7 in the code)
tell apart all, none, a written head and a forgotten tail; *FlowSize 3* puts one
byte behind the named ones of an object of unknown size. The round caps of
`analyses` are 8: the code's for resources, where a chain of calls exceeds it, and
smaller than the code's 64 for uninitialized reads, where `SummariesSettle` shows
that it is not reached. *Stack limits 0 and 16* are the two ways to the alloca
threshold; the alloca sizes lie below, at and above it. *Six arguments* hold an
option with a separate value on each side of `--config` and an input. With `Kilo`
2, `SizeMax` 63 and `UnsignedMax` 15 a suffix and a numeral can overflow each
type. The program families are in the `MC` modules. No run uses symmetry: the
inputs of the models are ordered.

Most runs turn the deadlock check off because the program stops at the end.
`preparation` and `stack_cycle` keep it and stutter only when the result is
complete.

### Fairness

`RunEnds` and `LoadsEnd` assume weak fairness of every thread: each is an
operating system thread that runs until it ends, and nothing in the code
suspends one. The mutex of the guarded compilation needs no strong fairness
because a load takes it at most twice, so no thread can be overtaken for ever.
`BuildEnds` assumes that the one thread that walks the levels runs on; the
workers it joins are covered by `RunEnds`. `RunContract` carries weak fairness of
its next-state relation, so `RefinesRunContract` includes that the run answers. The models with crashes
and edits carry no liveness: nothing forces a user to stop editing.

### Disagreements between code and documentation

The five violation runs are recorded as findings in `PROJECT.json` with the
quoted lines. Seen and stated in a restricted form instead:

- With several jobs the optimistic compilation may succeed in another command's
  directory and be analysed (`InputPipeline.cpp` 901), and a relative input path is
  resolved outside the mutex (708); `FallbackFindsOwnDir` leaves those inputs out
  and asks for the commanded directory with one job only.
- Two processes that share a cache directory write the files of one entry in place
  and without a lock (551); with `Procs` of two elements `HitIsCurrent` fails, the
  run checks one process.
- `FlaggedHasNoBaseCase` is restricted because it fails otherwise,
  against "recursive cycle with no base case" (`StackComputation.hpp` 42). A
  variable compared both as a signed and as an unsigned number, or unsigned with a
  constant that is negative as a signed number, gets an empty range on a possible
  path (`UniformlyCompared`). Casts do the same to comparisons that are all signed:
  the bounds of a value and of its casts meet in one range (`StackComputation.cpp`
  348), so that after `c > 200` of an `unsigned char` nothing is left for
  `(signed char)c < 0`. With SMT the bounds of an SSA value are also cut to its
  width, and a sign-extended byte compared `< 300` is told to be below 44; a
  location's range is not told to the solver, so that a location may be compared
  through any one cast. TLC finds a component flagged in spite of its base case
  when any of these conditions is dropped. One more path is lost with SMT where a
  variable is compared unsigned with the largest signed number: the ranges are
  asserted to the solver as signed ones
  (`SmtEncoding.cpp` 502 and 508), so after `x >= max` nothing is left for
  `x != max`, though every `x` with the top bit set satisfies both. This case was
  met while proving the property: the run's constants do not reach it, and TLC
  confirms it on a function that makes these two comparisons. Last, the visit
  limit of a block drops paths silently where the
  other two limits make the search inconclusive. A function that ends in `exit` on
  every path counts as dominated (`hasReturn`, `StackComputation.cpp` 262, is
  never read).
- The README describes portfolio and dual-consensus as ways to combine back ends;
  `CoupledModesAreInert` shows that for the recursion rule they never differ from
  SMT being off.
- `PipelineReportsAll` excepts check-then-use, whose verdict depends on the order
  of the lists where a function mixes calls and invokes, and array elements of
  modules that neither allocate nor write anything: the count that would run the
  step leaves reads of globals out.
- A configuration file named by the value of another option (`--only-dir
  --config=x`) is loaded by the first reading, which does not know that option;
  `LoadedIsRecorded` leaves these out. SMT rules of the command
  line are added to the file's where every other list replaces it.
- The effective configuration is printed before the plan is made, so it does not
  show a profile the plan changes for inputs found in the compilation database.
- The root directory as a filter matches no path below it, and the suffix and
  infix tests for directories cannot succeed, since both paths are absolute.
  `PlanIsAsRequested` leaves the root out.
- The compiler's warnings are added after the function filter and reported with
  `--only-func` whatever function they are in. Most emitters leave the file of a
  diagnostic empty, and the stamp then gives it the input's path, also for
  functions of a header; `ListedMatchFilters` is about functions.
- The parallel branch of the direct strategy is never taken: several inputs always
  need the global index, and so the shared loading.
- A size loaded from a variable is taken to be the last constant stored to it in
  the function (`tryGetConstFromValue`), whatever comes in between.

## 4. Proofs

The theorems hold for every value of the constants that satisfies the named
assumptions; TLC evaluates the `ASSUME`s on every run, and the hypotheses of
theorems (named below) hold of the instances of the passing runs. Every
inductive invariant was checked with TLC before it was proved.

**Scheduler** (`WorkAssumption`: positive item count, positive job counts).
`WorkIInv` says that the counter separates the items handed out, once each, from
the others; that an item handed out is finished or held by exactly one working
thread; that a thread has exited only after the counter passed the end; and that
the caller has joined only exited threads. `NeverTwice` and `AllDoneAtReturn`
are not inductive by themselves: without distinct claims and the accounting of
unfinished items nothing relates a joined thread to an item. Theorems
`SchedulerInvariant`, `SchedulerTypes`, `SchedulerNeverTwice`,
`SchedulerAllDone`.

**Run** (`AppRunProofs`). Every step of a run is a step of the scheduler or leaves
it alone, so `WorkIInv` carries over; `RunIInv` adds that a slot of a finished
load holds what the input gives, loaded or failed, and what each later phase has
done so far. From it every step maps to a step of `RunContract` or to a stutter:
`RunSchedulesSafely`, and `RunImplementsContract`, the safety part of the
refinement (`ContractSafety`) for every number of inputs, jobs and indices. That
the run answers at all is in `RefinesRunContract`, which TLC checks.

**Working directory** (`ModuleLoadingProofs`, as the next; `CwdAssumption`, and `ExplicitSettings`: `jobsAuto` is
off in every setting, which is what a `--jobs` option gives). `CwdIInv` adds to
the two properties that a load in the section holds the mutex or is the only
load (`SectionExclusive`), that the directory it saved is the initial one, and
that only loads with a directory enter. Without the assumption the theorems
`GuardedCompilesInOwnDir` and `GuardedCwdRestored` are false, as
`cwd_default_jobs` shows. `GuardedFallback` needs on top of it what a load has in
hand between its compilation and its end (`OwnDirIInv`): the result of its own
directory, where the input's path was resolved in the process's.

**Compile cache** (`CacheAssumption`; `OneProcess`: loads do not overlap;
`QuietEdits`: nobody edits between a compilation and its snapshots, the window
`ircache_edited` uses). `CacheIInv` relates stamps, files and the locals of the
load in progress: versions on disk only grow, so stamps of the past that are
current cannot have been outdated in between; while the files of an entry are
written one by one the stamps beside them are outdated or the files are right;
and once stamps have been found current the payload that will be read is the
module of these versions. Theorems `HitsAreCurrent`, `CurrentEntriesAreRight`,
`UnchangedUnitsAreReused`, for any number of loads, edits, crashes and failed
writes.

**Component search** (`GraphInputs`: edges are between nodes; any number of nodes).
`TarjanIInv` is the argument for the algorithm: the stack is in the order of the
calls; on it a node reaches all later ones and some active call not after it; a
lowlink is the index of a node on the stack that the node reaches; an edge back
onto the stack that has been looked at is known to the lowlink of the call it was
found in; what was popped are components in order. When the lowlink of a finished
call is its index, these leave no edge from the popped part to the rest of the
stack. Theorems `SearchInvariant`, `SearchFindsComponents`,
`SearchOrdersComponents`. `PreparationProofs` (`PrepInputs`: functions are
numbered and calls are between them) carries them over to the search inside the
preparation of a module, by instance: `PreparationInvariant`,
`PreparationFindsComponents`, `PreparationOrdersComponents`, and
`RecursiveFunctionsAreFound`, in which a component of two functions or a self call
is a cycle.

The level of a component is defined as the length of the longest chain of
components below it, the vector by what `computeSCCLevels` does: one more than the
greatest level among the components it depends on, in the order popped.
`ComponentGraphProofs` shows that the first obeys the recursion of the second
(`LevelIsLongest`, `LevelRecursion`: a longest chain goes through some component
just below, and chains do not return because components are classes);
dependencies come first, so every level read in the loop is already right:
`SearchLevelsAreRight`, `PreparationLevelsAreRight`. Where an argument needs
induction over a number, it takes the least number in a set of counterexamples
(`LeastNat`, from the library's fact that the order of the naturals is
well-founded), which needs no operator as a parameter.

**Stack totals** (`PrepInputs`, and `StackInputs`: the alignment is positive and
sizes are naturals; any calls, frames, dynamic allocations and limits). `StackIInv`
follows `dfsComputeStack`: the active calls are one path of calls (`CallStack`);
the maximum of an active call is the greatest of what the callees answered so far
gave; the total of a finished function is the weight of a chain of finished
functions and, if it reaches no cycle, not less than that of any chain from it
(`DoneIInv`); and a path under construction is a chain that leaves exactly the
total of its last function still to be explained (`PathIInv`). Off cycles an answer never comes from a function that is
still active, since that function would then reach itself: this is what makes the
memoised totals complete, and the only place where cycles matter. Theorems
`TotalsInvariant`, `TotalsAreExactOffCycles`, `TotalsAreOfChains` (on cycles too),
`PathsExplainTotals`.

**Cross-TU index** (`CrossAssumption`: types only; any programs, caps, cache
mode and number of runs). `CrossIInv` has three parts: cached summaries equal
what building the module under the keyed index gives; index, summaries and
previous summaries of the resource index stay below every closed index; and each module the pass has
left behind was built under some index between the pass's start and the present
one, which has absorbed the result. If the hash is unchanged at the end of the
pass the last part squeezes that index to the result, which is therefore
closed. The second part needs that `Build` of resources is monotone, the third
does not. Theorems `CrossInvariant`, `IndexInventsNothing`,
`ConvergedIndexIsClosed`, and `CachedSummariesAreFresh` for the first part, in
memory and on disk. Together the two middle ones say that a converged construction
of the resource index returns the least closed one: the same for every order of
modules and every cache content.

The uninitialized index is built by one walk. `OneWalkIsEnough`: if each callee
has one definition, the walk returns a closed index, unless the iteration over a
cycle was cut short by its cap while summaries still changed. A module reads only
names whose definers are in its own component or one of a lower level, so nothing
merged later reaches what an earlier level read; within a cycle the last round
changed no summary. That there is no such cut under the code's cap of 12 is only
checked, on three modules. `NothingStaleOffCycles`, by the invariant `FreshIInv`: an
effect that the index holds of a function on no cycle is one that a module behind
the walk gives under the present index; what is merged later reaches no such module
(`TrivialElsewhere`, `CyclicElsewhere`), and a component with a cycle exports no such
function. Neither uses that building is monotone.

**Recursion without a base case** (`RecursionAssumption`; `WidthPowers`, facts about
powers of two that the provers lack; `ComponentInputs`: an entry block, two targets
of a branch, casts that keep bits the variable has, constants of the comparison's
width; z3 linked or not).

- `CoupledSearchIsInert`: the interval back end is in the list of every coupled
  mode (`IntervalIsConsulted`); the encoder leaves empty intervals out, so it
  answers Sat; an answer list with a Sat is never aggregated to Unsat.
- `FlaggedComponentsRecurse` and `EndlessRecursionIsSeen` state
  `FlaggedHasNoBaseCase` and `RecursionIsFlagged`. Neither is inductive: both
  speak of runs, the search of path states. `RecIInv` joins them: every run (a
  valuation of the variables) that can still return is carried by a state of the
  worklist whose block it can return from and whose ranges its values fit, and a
  run without recursive calls by a state that has seen none; otherwise a
  recursive return was seen or a path was dropped. Conversely a state that has
  seen no recursive call is where a path without one leads. A branch keeps this
  because an edge that a run takes narrows the ranges to ones the run still fits
  (`EdgeFits`: what fits is `Reading`, the one number that all comparisons of the
  variable see, `ReadUniformly`), these are not contradictory (`FitsIsConsistent`), the query about
  it has an answer (`QueryOfTakenEdge`, with another value in the run's stead where
  only the unsigned reading is large), and a query that has one is refuted in no
  mode, whichever back ends time out or fail (`FeasibleNeverInfeasible`).
  `DominatedHasNoBaseCase` is the shortcut by dominance. `SearchKeepsEveryRun` is
  the invariant.

**Command line** (`FrontEndProofs`, as the next; `FrontEndAssumption`, part `CliInputs`: arguments are sequences of
texts, no text is both a flag and an option with its value). The two readings cut
the arguments differently: the first one takes them one by one, the second skips
the value of an option. `Heads` is the cut of the second; that there is exactly one
such cut follows by continuing a cut by one position (`CutExists`), and the second
reading stands at its heads. `LatestRules` is inductive for every field of one
value: what it holds was set by the latest of the places read so far that set it.
Carrying that through a step needs that a place sets the same value whatever the
configuration was when it was read (`ValueEffectsAgree`, `EntryEffectsAgree`, an
option by option argument; the lists, to which options append, are what
`LatestRules` leaves out). `PathIInv` relates the last `--config` each reading has
seen. Theorems `CommandLineInvariant`, `ArgumentsOverrideFile`,
`LoadedFileIsRecorded`.

**Plan and report** (the parts `PlanInputs`: each text that may be an input has one
place in the sorting order, and a database names a source once; `ModulesAreSound`:
what loads has lists of functions, diagnostics and messages). `ListIInv` says of the
two lists that arguments append to what `LatestRules` says of single values: an
input is in its list as often as the heads read so far name it, and the excluded
directories are those of the `--exclude-dir` options read so far; `RunIInv` that
plan, status and results are those of the final configuration. Only counting is
needed of the plan: leaving out other texts and sorting do not change how often a
text occurs (`TimesOfOnly`, `SortedByCounts`). `PlanFollowsRequest` also uses that
the plan's own test for a directory (prefix, or equal) and the intended one (the
path itself or what lies under it) agree, `ExclusionIsAsked`. For the report the
lemmas are that `Only` and counting distribute over joined sequences, so the
summaries of the sections add up to the summary of the merged result
(`SummariesAddUp`), and that the table of rules is a function of the rule
(`RuleTable`). Theorems `ReportsAgree`, `ListedFunctionsMatchFilters`,
`FrontInvariant`. The sequence lemmas (`OnlyAppend`, `OnlyCounts`, `OnlyConcat`,
`FlattenAppend`) come from one induction, `SeqInduction`: a set that contains the
empty sequence and is closed under `Append` contains all sequences.

`FilterResult` in `Report` is unreached with a filter: `ApplyFilter` calls it only
where there is none, as the code does, which is why the formats agree whatever the
filters are.

**Only model-checked.** The liveness properties (`RunEnds`, `LoadsEnd`,
`BuildEnds`, and with them the whole of `RefinesRunContract`): fairness is beyond
the prover. The seven properties of the run `analyses`: `RangeSets`, `UninitFlow` and
`ResourceLifetime` are written with recursive operators, since what they model are
loops over vectors, blocks and rounds, and their properties are about what these
compute; those of `Pipeline` are checked beside them, over families of modules.

## 5. Plan

Done so far: the scheduler and the run with its contract, module loading and the
compile cache, the cross-TU indices, preparation, the front end from arguments to
reports, the pipeline, and the two summarising analyses. Left, in this order:

1. Proofs: action properties of the cache and of the search, and what
   `SolverOrchestrator` promises for each mode.
2. The third cross-TU index (global read-before-write), the summary file format
   and its key, and the resource model read twice.
3. `RecursionCheck`: stores between comparisons, phi nodes, assumptions and chains of
   casts in which a zext follows a sext.
4. The SMT encoder's arithmetic and selects with their widths, and the
   refinement rules of the other analyses.
5. The worklist of the escape analysis and its rules.
6. `IntRanges` and the overflow checks as operators against bounded reference
   definitions, with widths.
7. The parsing of `compile_commands.json` and its flags, the `.ll` parse cache and
   the CI driver scripts.

## 6. Not modelled

Wording, layout and colours of the reports, the help text, timing, logging and
the plumbing of LLVM (parsing, verification, debug locations) are left out: no
property is about them. How an analysis recognises a pattern in LLVM IR (the
object behind a pointer, the bound of an index, a duplicated condition, a
parameter that could be const, an escape) is an input of the models: a translation
would restate the matching, with nothing to check it against. The global
read-before-write index and the escape analysis are planned (section 5). LLVM and the embedded
compiler are external; what the models need of them is an input chosen in the initial state. Byte sizes are
unbounded naturals in `StackUsage`; the 64-bit wrap-around of a frame would need
an object larger than the address space.

## 7. Running

`tlc -config <cfg> <module>` with the pairs listed under `runs` in
`PROJECT.json`, and `tlapm <module>` for the eight `*Proofs` modules. Definitions
headed "Mutated" are altered forms of the definition that follows, each with a
plausible mistake; `PROJECT.json` says which property each one breaks.
