------------------------------ MODULE CrossTU ------------------------------
(***************************************************************************)
(* The construction of a cross-TU summary index from the loaded modules:   *)
(* buildCrossTUSummaryIndex (resource lifetimes) and                       *)
(* buildCrossTUUninitializedSummaryIndex in src/src/app/AnalyzerApp.cpp.   *)
(* Modules are visited level by level of their dependency graph, callees   *)
(* first; modules on a cycle are rebuilt until nothing changes.  The       *)
(* resource index repeats the whole walk until a pass changes nothing and  *)
(* keeps a cache of module summaries; the uninitialized one walks once.    *)
(*                                                                         *)
(* An index maps each function name to the set of effects known of it.     *)
(* A module says which functions it defines with external (or weak) and    *)
(* with local linkage, what the body of each does and calls, in order, and *)
(* what the declarations of the functions it calls suggest they do.        *)
(*                                                                         *)
(* The two indices are built differently.  A resource summary only grows   *)
(* with the external index.  An uninitialized-read summary does not: a     *)
(* callee that is known to write hides the reads after the call, and what  *)
(* its declaration suggests counts only until a summary of it is known,    *)
(* while merging only adds.  Of an argument's bytes one is followed, along *)
(* straight-line bodies; module UninitFlow has the ranges, the branches    *)
(* and the rounds inside a module.                                         *)
(***************************************************************************)
EXTENDS ComponentGraph, Sequences

CONSTANTS
  Modules,           \* the indices of the loaded modules, a set of numbers
  Funcs,             \* canonical function names
  Effects,           \* effects of a summary, unknown writes and other arguments' included
  Reads,             \* the effects that an initialisation before them hides
  Write,             \* the effect that initialises the byte
  Programs,          \* the programs that are analysed
  Kinds,             \* the indices built: "resource", "uninitialized"
  MaxPasses,         \* kCrossTUGlobalMaxIterations
  MaxSccIterations,  \* kCrossTUMaxIterations
  CacheMode,         \* "memory" (--resource-summary-cache-memory-only) or "disk"
  Known,             \* an entry of the index, if one without effects counts
  MaxRuns            \* bound on the successive runs that share the disk cache

Indexes == [Funcs -> SUBSET Effects]

ModuleTypes ==
  [exported : SUBSET Funcs,
   local    : SUBSET Funcs,
   body     : [Funcs -> Seq(Funcs \cup Effects)],
   guessed  : [Funcs -> SUBSET Effects]]

ProgramTypes == [Modules -> ModuleTypes]

ASSUME CrossAssumption ==
  /\ Modules \subseteq Nat
  /\ Programs \subseteq ProgramTypes
  /\ Funcs \cap Effects = {} /\ Reads \subseteq Effects /\ Write \in Effects \ Reads
  /\ MaxPasses \in Nat \ {0} /\ MaxSccIterations \in Nat \ {0} /\ MaxRuns \in Nat
  /\ Kinds \subseteq {"resource", "uninitialized"}
  /\ CacheMode \in {"memory", "disk"}
  /\ Known \subseteq Effects

-----------------------------------------------------------------------------
\* Indices.

NoSummary == [f \in Funcs |-> {}]

A \sqsubseteq B == \A f \in Funcs : A[f] \subseteq B[f]

\* Mutated MergeAll: effects are filed under every function of the module.
MergeByModule(A, sums, C) ==
  [f \in Funcs |-> A[f] \cup UNION {UNION {sums[m][g] : g \in Funcs} : m \in C}]

\* mergeResourceSummaryIndex / mergeUninitializedSummaryIndex of the summaries
\* sums of the modules C into A.
MergeAll(A, sums, C) == [f \in Funcs |-> A[f] \cup UNION {sums[m][f] : m \in C}]

\* computeChanged...FunctionNames.
ChangedNames(A, B) == {f \in Funcs : A[f] # B[f]}

-----------------------------------------------------------------------------
\* One module under an external index.

Defined(M) == M.exported \cup M.local

StepsOf(M, f) == {M.body[f][i] : i \in DOMAIN M.body[f]}

Calls(M, f) == StepsOf(M, f) \cap Funcs

Direct(M, f) == StepsOf(M, f) \cap Effects

CalleeNames(M) == UNION {Calls(M, f) : f \in Defined(M)}

\* The functions that a module calls and does not define.
Outside(M) == CalleeNames(M) \ Defined(M)

\* What a module sees of an external index.
Seen(M, X) ==
  LET outside == Outside(M)
  IN  [c \in Funcs |-> IF c \in outside THEN X[c] ELSE {}]

\* The functions of module M that f reaches through calls inside the module.
LocalReach(M, f) ==
  LET defined == Defined(M)
  IN  {g \in defined :
         \A T \in SUBSET defined :
           f \in T /\ (\A a \in T : Calls(M, a) \cap defined \subseteq T) => g \in T}

\* buildResourceLifetimeSummaryIndex: a callee defined in the module contributes its
\* local summary, any other callee the entry of its name in the external index.
ResourceEffects(M, X, f) ==
  Known \cup UNION {Direct(M, g) \cup UNION {X[c] : c \in Calls(M, g) \ Defined(M)} : g \in LocalReach(M, f)}

\* What one step of a body does to the byte: its own effect; the summary of a callee
\* defined in the module; the entry of any other callee in the external index; or,
\* while that has none (not even for another argument), what the declaration of the
\* callee suggests.
Gives(M, X, own, step) ==
  IF step \in Effects THEN {step}
  ELSE IF step \in Defined(M) THEN own[step]
  ELSE IF X[step] # {} THEN X[step]
  ELSE M.guessed[step]

\* The effects of the steps of a body in their order: a write hides the reads after it.
InOrder(given) ==
  {e \in Effects : \E i \in DOMAIN given :
     e \in given[i] /\ (e \in Reads => \A j \in 1 .. i - 1 : Write \notin given[j])}

\* computeFunctionSummaries on a module whose functions do not call each other in
\* cycles: every summary follows from those of the callees.
UninitializedEffects(M, X, f) ==
  LET own[g \in Defined(M)] ==
        InOrder([i \in DOMAIN M.body[g] |-> Gives(M, X, own, M.body[g][i])])
  IN  own[f]

\* buildResourceLifetimeSummaryIndex / buildUninitializedSummaryIndex: local functions
\* are not exported.
Build(k, M, X) ==
  LET seen == Seen(M, X)
  IN  [f \in Funcs |->
         IF f \notin M.exported THEN {}
         ELSE Effects \cap IF k = "resource" THEN ResourceEffects(M, seen, f)
                           ELSE UninitializedEffects(M, seen, f)]

-----------------------------------------------------------------------------
\* The dependency graph of the modules.

DefinedBy(P, f) == {m \in Modules : f \in Defined(P[m])}

SingleDefNames(P) == {f \in Funcs : \E m \in Modules : DefinedBy(P, f) = {m}}

FilteredCalleeNames(P, m) == CalleeNames(P[m]) \cap SingleDefNames(P)

\* buildSingleDefFilteredEdges.
Edges(P) ==
  UNION {LET targets == {DefinedBy(P, f) : f \in CalleeNames(P[i])}
         IN  {<<i, j>> : j \in {k \in Modules \ {i} : {k} \in targets}} : i \in Modules}

\* The strongly connected component of each module (computeTopologicalSCCOrder).
Components(P) == ComponentsOf(Modules, Edges(P))

\* Mutated Levels: nothing is ordered.
FlatLevels(P) == [m \in Modules |-> 0]

\* computeSCCLevels.
Levels(P) == LevelsOf(Modules, Edges(P))

\* The programs an index is built for.  Functions of one module that call each other
\* in a cycle have their uninitialized-read summaries from rounds (UninitFlow).
ProgramsFor(k) ==
  {P \in Programs : k = "uninitialized" =>
     \A m \in Modules :
       OnCycle(Defined(P[m]),
               UNION {{<<f, g>> : g \in Calls(P[m], f) \cap Defined(P[m])} : f \in Defined(P[m])}) = {}}

-----------------------------------------------------------------------------
VARIABLES
  kind,        \* which of the two indices is built
  prog,        \* the loaded modules
  scc,         \* the component of each module (sccOrder)
  levelOf,     \* the level of each module (levelGroups)
  phase,       \* "level": a level starts; "scc": its cycles; "save", "done"
  pass,        \* globalIter
  before,      \* the index at the start of the pass (beforePassHash)
  level,       \* the level being processed
  todo,        \* the cyclic components of the level still to process
  iter,        \* sccIter
  prev,        \* sccPrevSummaries
  changed,     \* sccChangedNames
  G,           \* globalIndex
  S,           \* moduleSummaries
  converged,   \* globalConverged
  memory,      \* memoryCache (and finalCacheWrites)
  disk,        \* the files of resourceSummaryCacheDir
  run          \* number of the run

crossVars == <<kind, prog, scc, levelOf, phase, pass, before, level, todo, iter, prev, changed, G, S,
               converged, memory, disk, run>>

Nothing == [m \in Modules |-> NoSummary]

CrossInit ==
  /\ kind \in Kinds
  /\ prog \in ProgramsFor(kind)
  /\ scc = Components(prog)
  /\ levelOf = Levels(prog)
  /\ phase = "level" /\ pass = 1 /\ level = 0 /\ iter = 0
  /\ before = NoSummary /\ G = NoSummary
  /\ todo = {} /\ prev = Nothing /\ changed = {} /\ S = Nothing
  /\ converged = FALSE
  /\ memory = {} /\ disk = {} /\ run = 1

-----------------------------------------------------------------------------
AtLevel(k) == {m \in Modules : levelOf[m] = k}

\* Mutated TrivialAt: the level is not looked at.
TrivialAtAnyLevel(k) == {m \in Modules : scc[m] = {m}}

\* isTrivial: filteredEdges has no self-edge, so a component of one module.
TrivialAt(k) == {m \in AtLevel(k) : scc[m] = {m}}

CyclicAt(k) == {scc[m] : m \in AtLevel(k) \ TrivialAt(k)}

\* Mutated CacheKey: the hash of the external index is left out.
CacheKeyWithoutExternal(m, ext) == <<prog[m], NoSummary>>

\* cacheKeyPayload: the module (hashModuleIR, compile arguments) and the hash of the
\* index it is built under.
CacheKey(m, ext) == <<prog[m], ext>>

\* tryCacheForModule: memory first, then disk.
CachedFor(m, ext) == {e \in memory \cup disk : e.key = CacheKey(m, ext)}

SummaryFor(m) ==
  IF CachedFor(m, G) # {} THEN (CHOOSE e \in CachedFor(m, G) : TRUE).sum ELSE Build(kind, prog[m], G)

\* The trivial modules of the level: cached or built under the index as it is at
\* the start of the level, in parallel; then all of them are merged.
TrivialModules ==
  /\ phase = "level"
  /\ LET T == TrivialAt(level)
     IN  /\ S' = [m \in Modules |-> IF m \in T THEN SummaryFor(m) ELSE S[m]]
         /\ memory' = IF kind = "uninitialized" THEN memory
                      ELSE memory \cup {[key |-> CacheKey(m, G), sum |-> S'[m]] : m \in T}
         /\ G' = MergeAll(G, S', T)
  /\ todo' = CyclicAt(level)
  /\ phase' = "scc"
  /\ UNCHANGED <<kind, prog, scc, levelOf, pass, before, level, iter, prev, changed, converged, disk, run>>

\* The cyclic component with the smallest module index goes first.
IsFirst(C) == \A D \in todo : \E i \in C : \A j \in D : i <= j

\* The modules that are rebuilt: all, then those with a changed callee.
DirtyIn(C) ==
  IF iter = 0 THEN C ELSE {m \in C : FilteredCalleeNames(prog, m) \cap changed # {}}

\* One turn of the internal iteration of a cyclic component.
CyclicIteration(C) ==
  /\ phase = "scc"
  /\ C \in todo
  /\ IsFirst(C)
  /\ LET now    == [m \in Modules |-> IF m \in DirtyIn(C) THEN Build(kind, prog[m], G)
                                      ELSE IF m \in C THEN prev[m] ELSE S[m]]
         merged == MergeAll(NoSummary, now, C)
         old    == MergeAll(NoSummary, prev, C)
         ends   == merged = old \/ iter + 1 = MaxSccIterations
     IN  /\ S' = now
         /\ G' = MergeAll(G, now, C)
         /\ todo' = IF ends THEN todo \ {C} ELSE todo
         /\ iter' = IF ends THEN 0 ELSE iter + 1
         /\ prev' = IF ends THEN Nothing
                    ELSE [m \in Modules |-> IF m \in C THEN now[m] ELSE prev[m]]
         /\ changed' = IF ends THEN {} ELSE ChangedNames(old, merged)
  /\ UNCHANGED <<kind, prog, scc, levelOf, phase, pass, before, level, converged, memory, disk, run>>

\* The uninitialized index has no loop around its walk.
PassCap == IF kind = "resource" THEN MaxPasses ELSE 1

LevelsLeft == \E m \in Modules : levelOf[m] \notin 0 .. level

\* Mutated NextLevel: the level is not advanced.
SameLevel ==
  /\ phase = "scc"
  /\ todo = {}
  /\ LevelsLeft
  /\ phase' = "level"
  /\ UNCHANGED <<kind, prog, scc, levelOf, pass, before, level, todo, iter, prev, changed, G, S, converged,
                 memory, disk, run>>

NextLevel ==
  /\ phase = "scc"
  /\ todo = {}
  /\ LevelsLeft
  /\ level' = level + 1
  /\ phase' = "level"
  /\ UNCHANGED <<kind, prog, scc, levelOf, pass, before, todo, iter, prev, changed, G, S, converged,
                 memory, disk, run>>

\* Mutated EndPass: the walk is done once, whatever it changed.
EndOnlyPass ==
  /\ phase = "scc"
  /\ todo = {}
  /\ ~LevelsLeft
  /\ converged' = TRUE
  /\ phase' = "save"
  /\ UNCHANGED <<kind, prog, scc, levelOf, pass, before, level, todo, iter, prev, changed, G, S, memory,
                 disk, run>>

\* The end of a pass: stop when it changed nothing, or at the cap.
EndPass ==
  /\ phase = "scc"
  /\ todo = {}
  /\ ~LevelsLeft
  /\ converged' = (G = before)
  /\ IF G = before \/ pass = PassCap
     THEN /\ phase' = "save"
          /\ UNCHANGED <<pass, before, level>>
     ELSE /\ phase' = "level"
          /\ pass' = pass + 1
          /\ before' = G
          /\ level' = 0
  /\ UNCHANGED <<kind, prog, scc, levelOf, todo, iter, prev, changed, G, S, memory, disk, run>>

\* finalCacheWrites go to disk; a write that fails, or a crash, loses some.
SaveCache ==
  /\ phase = "save"
  /\ \E W \in IF CacheMode = "disk" /\ kind = "resource" THEN SUBSET memory ELSE {{}} : disk' = disk \cup W
  /\ phase' = "done"
  /\ UNCHANGED <<kind, prog, scc, levelOf, pass, before, level, todo, iter, prev, changed, G, S,
                 converged, memory, run>>

\* Another run over an edited program, with the files the last one left.
NextRun ==
  /\ phase = "done"
  /\ run < MaxRuns
  /\ run' = run + 1
  /\ prog' \in ProgramsFor(kind)
  /\ scc' = Components(prog')
  /\ levelOf' = Levels(prog')
  /\ phase' = "level" /\ pass' = 1 /\ level' = 0 /\ iter' = 0
  /\ before' = NoSummary /\ G' = NoSummary
  /\ todo' = {} /\ prev' = Nothing /\ changed' = {} /\ S' = Nothing
  /\ converged' = FALSE
  /\ memory' = {}
  /\ UNCHANGED <<kind, disk>>

CrossNext ==
  \/ TrivialModules
  \/ \E C \in todo : CyclicIteration(C)
  \/ NextLevel
  \/ EndPass
  \/ SaveCache
  \/ NextRun

CrossSpec == CrossInit /\ [][CrossNext]_crossVars

\* The analyzer runs on; nothing but its own steps is needed to finish a run.
FairCrossSpec == CrossSpec /\ WF_crossVars(CrossNext)

-----------------------------------------------------------------------------
(* Type invariant of the index construction.                               *)
CrossTypeOK ==
  /\ kind \in Kinds
  /\ prog \in ProgramTypes
  /\ scc \in [Modules -> SUBSET Modules]
  /\ phase \in {"level", "scc", "save", "done"}
  /\ pass \in 1 .. PassCap
  /\ before \in Indexes /\ G \in Indexes
  /\ level \in Nat /\ run \in Nat
  /\ todo \subseteq SUBSET Modules
  /\ iter \in 0 .. MaxSccIterations - 1
  /\ prev \in [Modules -> Indexes] /\ S \in [Modules -> Indexes]
  /\ changed \subseteq Funcs
  /\ converged \in BOOLEAN
  /\ \A e \in memory \cup disk : e.sum \in Indexes

\* An index that no module can add to.
IsClosed(k, P, X) == \A m \in Modules : Build(k, P[m], X) \sqsubseteq X

(* No effect is invented: whatever the order, the cache and the caps, the  *)
(* resource index stays below every index that is closed under the         *)
(* summaries of all modules, hence below the least one.                    *)
NothingInvented ==
  kind = "resource" => \A X \in Indexes : G \sqsubseteq X \/ ~ IsClosed(kind, prog, X)

(* A build that says it has converged has lost nothing: the index is       *)
(* closed.  With NothingInvented the resource index is the least closed    *)
(* one, so the result depends neither on the schedule nor on what the      *)
(* cache held.                                                             *)
ConvergedIsClosed == phase \in {"save", "done"} /\ converged => IsClosed(kind, prog, G)

(* The index returned is closed, converged or not: what the comments claim *)
(* of the ordered walk ("Trivial SCCs (no cycles): processed once, no      *)
(* iteration needed").                                                     *)
ResultIsClosed == phase = "done" => IsClosed(kind, prog, G)

\* No module calls a function that it does not define and several others do.
CalleesUnique(P) ==
  \A m \in Modules : Outside(P[m]) \subseteq SingleDefNames(P) \cup {f \in Funcs : DefinedBy(P, f) = {}}

(* One walk in dependency order is enough where every callee has one       *)
(* definition, on every call graph: the levels and the iteration over      *)
(* cycles, with its choice of dirty modules, miss nothing.                 *)
OrderedWalkIsClosed == CalleesUnique(prog) => ResultIsClosed

\* The modules that export f are on no cycle.
OffCycles(f) == \A k \in Modules : f \in prog[k].exported => scc[k] = {k}

(* Nothing stale stays in the uninitialized index outside the cycles: an   *)
(* effect that a summary had while those of its callees were still missing *)
(* (a read that a callee's write hides, a write that only a declaration    *)
(* suggested) is never merged, although merging withdraws nothing.  On a   *)
(* cycle, and on a function that calls a name defined twice, it may be.    *)
NothingStale ==
  phase = "done" /\ kind = "uninitialized" /\ CalleesUnique(prog) =>
    \A f \in Funcs : OffCycles(f) => G[f] \subseteq UNION {Build(kind, prog[m], G)[f] : m \in Modules}

(* The cache does not show: a summary taken from memory or from a file is  *)
(* the one that building the module now would give, whatever was edited    *)
(* since, whichever files are missing and under whatever index an earlier  *)
(* pass stored it.                                                         *)
CachedAsBuilt == \A m \in Modules : SummaryFor(m) = Build(kind, prog[m], G)

(* The inductive invariant behind NothingInvented and ConvergedIsClosed.   *)
(* A cached summary is what building its module would give; the summaries  *)
(* of the resource index stay below every closed index; and every module   *)
(* the pass has left behind was built under some index between the one the *)
(* pass started with and the present one, which has absorbed the result.   *)
CacheSound ==
  \A e \in memory \cup disk :
    kind = "resource" /\ e.key[2] \in Indexes /\ e.sum = Build("resource", e.key[1], e.key[2])

SummariesSound ==
  kind = "resource" =>
    \A X \in Indexes : IsClosed(kind, prog, X) =>
      G \sqsubseteq X /\ \A m \in Modules : S[m] \sqsubseteq X /\ prev[m] \sqsubseteq X

Covered(m) ==
  \E H \in Indexes : before \sqsubseteq H /\ H \sqsubseteq G /\ Build(kind, prog[m], H) \sqsubseteq G

PassCoverage ==
  /\ before \sqsubseteq G
  /\ phase = "level" => \A m \in Modules : levelOf[m] \in 0 .. level - 1 => Covered(m)
  /\ phase = "scc" =>
       \A m \in Modules : levelOf[m] \in 0 .. level => Covered(m) \/ scc[m] \in todo
  /\ phase = "scc" /\ iter > 0 =>
       \A m \in Modules : scc[m] \in todo /\ IsFirst(scc[m]) => Covered(m)

CrossIInv ==
  /\ CrossTypeOK
  /\ prog \in ProgramsFor(kind)
  /\ scc = Components(prog)
  /\ todo \subseteq {scc[m] : m \in Modules}
  /\ phase # "scc" \/ todo = {} => iter = 0
  /\ CacheSound
  /\ SummariesSound
  /\ PassCoverage
  /\ ConvergedIsClosed

(* Every run of the construction ends.                                     *)
BuildEnds == <>(phase = "done" /\ run = MaxRuns)
=============================================================================
