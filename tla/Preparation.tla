---------------------------- MODULE Preparation ----------------------------
(***************************************************************************)
(* Component searches at work.  computeGlobalStackUsage in                 *)
(* src/src/analysis/StackComputation.cpp first searches the call graph for *)
(* recursive functions, and then computes the stack of every function; the *)
(* result of the search decides which functions get a call path and which  *)
(* are reported as recursive.  The locals of the search are gone when it   *)
(* returns.                                                                *)
(*                                                                         *)
(* buildCrossTUSummaryIndex in src/src/app/AnalyzerApp.cpp searches the    *)
(* dependencies between modules with the same algorithm and goes on to     *)
(* levels; there is then no module to compute the stack of (NoModule).     *)
(***************************************************************************)
EXTENDS StackUsage

CONSTANTS
  Size,          \* number of modules, and a bound on the functions
  ModuleGraphs   \* dependencies between modules that are searched

VARIABLES
  graph, expected, index, lowlink, open, onStack, nextIndex, calls, sccs, levels,
  known          \* RecursiveFuncs has been computed

NoModule == [calls |-> {}, allocas |-> << >>, dynamic |-> {}, contract |-> {}, mode |-> "none"]

\* The graph computeRecursiveFunctions searches.
CallGraph(m) == [edges |-> m.calls, contract |-> m.contract \cup ((1 .. Size) \ Fns)]

Search == INSTANCE Tarjan WITH
  Inputs <- ModuleGraphs \cup {CallGraph(m) : m \in Inputs}, stack <- open, frames <- calls

searchVars == <<graph, expected, index, lowlink, open, onStack, nextIndex, calls, sccs, levels>>
prepVars == <<stackVars, searchVars, known>>

Unvisited ==
  /\ recursive = {} /\ known = FALSE
  /\ state = [f \in Fns |-> "NotVisited"]
  /\ total = [f \in Fns |-> Estimate(0, FALSE)]
  /\ frames = << >> /\ results = << >>
  /\ path = << >> /\ paths = [f \in Fns |-> << >>]

PrepInit ==
  /\ \/ /\ module = NoModule
        /\ graph \in ModuleGraphs
     \/ /\ module \in Inputs
        /\ graph = CallGraph(module)
  /\ Search!TarjanStart
  /\ Unvisited

IsSearching == known = FALSE /\ UNCHANGED <<stackVars, known>>

SearchStep ==
  /\ IsSearching
  /\ Search!Root \/ Search!Descend \/ Search!SeeVisited \/ Search!Return

\* Only the search over modules is followed by computeSCCLevels.
LevelStep ==
  /\ module = NoModule /\ IsSearching
  /\ Search!ComputeLevels

\* Mutated FoundRecursive: a component of one function never counts.
FoundRecursiveSeveral ==
  /\ module # NoModule /\ known = FALSE
  /\ Search!Searched
  /\ recursive' = UNION {c \in Search!RecursiveComponents : Cardinality(c) > 1}
  /\ known' = TRUE
  /\ index' = [v \in 1 .. Size |-> -1] /\ lowlink' = index' /\ nextIndex' = 0
  /\ sccs' = << >>
  /\ UNCHANGED <<graph, expected, open, onStack, calls, levels,
                 module, state, total, frames, results, path, paths>>

\* computeRecursiveFunctions returns; dfsComputeStack begins.
FoundRecursive ==
  /\ module # NoModule /\ known = FALSE
  /\ Search!Searched
  /\ recursive' = Search!RecursiveFuncs
  /\ known' = TRUE
  /\ index' = [v \in 1 .. Size |-> -1] /\ lowlink' = index' /\ nextIndex' = 0
  /\ sccs' = << >>
  /\ UNCHANGED <<graph, expected, open, onStack, calls, levels,
                 module, state, total, frames, results, path, paths>>

StackStep ==
  /\ known /\ UNCHANGED <<searchVars, known>>
  /\ \/ Start \/ Descend \/ SeeVisited \/ Return
     \/ BuildResults \/ BeginPath \/ ExtendPath \/ EndPath

PrepOver ==
  /\ IF module = NoModule THEN Search!Finished ELSE known /\ Reported
  /\ UNCHANGED prepVars

PrepNext == SearchStep \/ LevelStep \/ FoundRecursive \/ StackStep \/ PrepOver

PrepSpec == PrepInit /\ [][PrepNext]_prepVars

-----------------------------------------------------------------------------
\* What is said of the search in module Tarjan holds of the search here: strongConnect
\* pops the strongly connected components, each once, ...
PopsTheComponents == Search!PopsTheComponents

\* ... each after those it depends on, ...
DependenciesFirst == Search!DependenciesFirst

\* ... and computeSCCLevels puts a module just above all it depends on.
LevelsAreRight == Search!LevelsAreRight

\* RecursiveFuncs is what its comment says, the "functions in at least one cycle" of
\* the calls between functions without the norecurse attribute, and is that from
\* before the first stack is computed to the last path.
RecursiveAreOnCycles == known => recursive = ComputeRecursive(module)
=============================================================================
