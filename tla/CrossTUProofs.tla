--------------------------- MODULE CrossTUProofs ---------------------------
(***************************************************************************)
(* For every program, every number of modules and every pass bound: the    *)
(* resource index contains no effect the modules do not force, a build     *)
(* that says it has converged is closed, and cached summaries are fresh.   *)
(* Where every callee has one definition, one walk in dependency order     *)
(* closes either index, as the comments of the code claim: WalkIInv says   *)
(* that a module the walk has passed adds nothing any more, since later    *)
(* merges reach only modules above it or in its own component.  For the    *)
(* same reason the uninitialized index keeps nothing stale off the cycles, *)
(* which is FreshIInv.                                                     *)
(***************************************************************************)
EXTENDS CrossTU, ComponentGraphProofs

-----------------------------------------------------------------------------
\* The order on indices.

LEMMA BelowTransitive ==
  ASSUME NEW A, NEW B, NEW D, A \sqsubseteq B, B \sqsubseteq D
  PROVE  A \sqsubseteq D
BY DEF \sqsubseteq

LEMMA BelowAntisymmetric ==
  ASSUME NEW A \in Indexes, NEW B \in Indexes, A \sqsubseteq B, B \sqsubseteq A
  PROVE  A = B
<1>1. \A f \in Funcs : A[f] = B[f]
  BY DEF \sqsubseteq
<1> QED
  BY <1>1 DEF Indexes

\* Merging stays within the type, is above the index and above each summary
\* merged, and below whatever bounds both.
LEMMA MergeType ==
  ASSUME NEW A \in Indexes, NEW C \in SUBSET Modules, NEW sums,
         \A m \in C : sums[m] \in Indexes
  PROVE  MergeAll(A, sums, C) \in Indexes
<1>1. \A f \in Funcs : A[f] \cup UNION {sums[m][f] : m \in C} \in SUBSET Effects
  BY DEF Indexes
<1> QED
  BY <1>1 DEF Indexes, MergeAll

LEMMA MergeAbove ==
  ASSUME NEW A, NEW C, NEW sums
  PROVE  A \sqsubseteq MergeAll(A, sums, C)
BY DEF \sqsubseteq, MergeAll

LEMMA MergeAbsorbs ==
  ASSUME NEW A, NEW C, NEW sums, NEW m \in C
  PROVE  sums[m] \sqsubseteq MergeAll(A, sums, C)
BY DEF \sqsubseteq, MergeAll

LEMMA MergeLeast ==
  ASSUME NEW A, NEW C, NEW sums, NEW X, A \sqsubseteq X,
         \A m \in C : sums[m] \sqsubseteq X
  PROVE  MergeAll(A, sums, C) \sqsubseteq X
BY DEF \sqsubseteq, MergeAll

-----------------------------------------------------------------------------
\* Building one module.

LEMMA BuildType ==
  ASSUME NEW k, NEW M, NEW X
  PROVE  Build(k, M, X) \in Indexes
BY DEF Build, Indexes

\* A larger external index never gives a smaller resource summary.
LEMMA BuildMonotone ==
  ASSUME NEW M, NEW X, NEW Y, X \sqsubseteq Y
  PROVE  Build("resource", M, X) \sqsubseteq Build("resource", M, Y)
<1>1. \A c \in Funcs : Seen(M, X)[c] \subseteq Seen(M, Y)[c]
  BY DEF \sqsubseteq, Seen
<1>2. ASSUME NEW f
      PROVE  ResourceEffects(M, Seen(M, X), f) \subseteq ResourceEffects(M, Seen(M, Y), f)
  <2>1. \A g : \A c \in Calls(M, g) \ Defined(M) : Seen(M, X)[c] \subseteq Seen(M, Y)[c]
    BY <1>1 DEF Calls
  <2> QED BY <2>1 DEF ResourceEffects
<1> QED
  BY <1>2 DEF Build, \sqsubseteq

\* The summary of a module depends on the index only at the callees outside it.
LEMMA BuildByCallees ==
  ASSUME NEW k, NEW M, NEW X, NEW Y, \A c \in Outside(M) : X[c] = Y[c]
  PROVE  Build(k, M, X) = Build(k, M, Y)
<1>1. Seen(M, X) = Seen(M, Y)
  BY DEF Seen
<1> QED BY <1>1 DEF Build

LEMMA CallsAreNames ==
  ASSUME NEW M
  PROVE  Outside(M) \subseteq Funcs
BY DEF Outside, CalleeNames, Calls

LEMMA BuildAtExported ==
  ASSUME NEW k, NEW M, NEW X, NEW f \in Funcs, Build(k, M, X)[f] # {}
  PROVE  f \in M.exported
BY DEF Build

-----------------------------------------------------------------------------
\* Components.

LEMMA ComponentsType ==
  ASSUME NEW P
  PROVE  Components(P) \in [Modules -> SUBSET Modules]
BY DEF Components, ComponentsOf

LEMMA InComponent ==
  ASSUME NEW P, NEW m \in Modules, NEW x
  PROVE  x \in Components(P)[m] <=>
           /\ x \in ReachableFrom(Modules, Edges(P), m)
           /\ m \in ReachableFrom(Modules, Edges(P), x)
BY InComponentOf DEF Components

\* Components that share a module are the same.
LEMMA ComponentsDisjoint ==
  ASSUME NEW P, NEW m \in Modules, NEW n \in Modules,
         NEW x, x \in Components(P)[m], x \in Components(P)[n]
  PROVE  Components(P)[m] = Components(P)[n]
<1> DEFINE R(i) == ReachableFrom(Modules, Edges(P), i)
<1>1. x \in R(m) /\ m \in R(x) /\ x \in R(n) /\ n \in R(x)
  BY InComponent
<1>2. n \in R(m) /\ m \in R(n)
  BY <1>1, ReachableTrans
<1>3. ASSUME NEW y, y \in Components(P)[m]
      PROVE  y \in Components(P)[n]
  BY <1>2, <1>3, InComponent, ReachableTrans
<1>4. ASSUME NEW y, y \in Components(P)[n]
      PROVE  y \in Components(P)[m]
  BY <1>2, <1>4, InComponent, ReachableTrans
<1>5. Components(P)[m] \subseteq Modules /\ Components(P)[n] \subseteq Modules
  BY ComponentsType
<1> QED
  BY <1>3, <1>4, <1>5

-----------------------------------------------------------------------------
\* Facts about one step.

LEMMA SummaryIsBuilt ==
  ASSUME CrossIInv, NEW m \in Modules
  PROVE  SummaryFor(m) = Build(kind, prog[m], G)
<1>1. CASE CachedFor(m, G) = {}
  BY <1>1 DEF SummaryFor
<1>2. CASE CachedFor(m, G) # {}
  <2> DEFINE e == CHOOSE x \in CachedFor(m, G) : TRUE
  <2>1. e \in CachedFor(m, G)
    BY <1>2
  <2>2. e \in memory \cup disk /\ e.key = <<prog[m], G>>
    BY <2>1 DEF CachedFor, CacheKey
  <2>3. e.key[1] = prog[m] /\ e.key[2] = G
    BY <2>2
  <2>4. e.sum = Build(kind, prog[m], G)
    BY <2>2, <2>3 DEF CrossIInv, CacheSound
  <2> QED
    BY <2>4, <1>2 DEF SummaryFor
<1> QED
  BY <1>1, <1>2

LEMMA CoveredPersists ==
  ASSUME NEW m, Covered(m), UNCHANGED <<kind, prog, before>>, G \sqsubseteq G'
  PROVE  Covered(m)'
<1>1. PICK H \in Indexes : /\ before \sqsubseteq H /\ H \sqsubseteq G
                           /\ Build(kind, prog[m], H) \sqsubseteq G
  BY DEF Covered
<1>2. H \sqsubseteq G' /\ Build(kind, prog[m], H) \sqsubseteq G'
  BY <1>1, BelowTransitive
<1>3. before' \sqsubseteq H /\ Build(kind', prog'[m], H) \sqsubseteq G'
  BY <1>1, <1>2
<1> QED
  BY <1>2, <1>3 DEF Covered

LEMMA CoveredNow ==
  ASSUME NEW m, G \in Indexes, before \sqsubseteq G, UNCHANGED <<kind, prog, before>>,
         G \sqsubseteq G', Build(kind, prog[m], G) \sqsubseteq G'
  PROVE  Covered(m)'
<1>1. before' \sqsubseteq G /\ Build(kind', prog'[m], G) \sqsubseteq G'
  OBVIOUS
<1> QED
  BY <1>1 DEF Covered

\* A summary built under the index is below every closed index the index is
\* below.
LEMMA BuildBelowClosed ==
  ASSUME CrossIInv, kind = "resource", NEW X \in Indexes, IsClosed(kind, prog, X), NEW m \in Modules
  PROVE  Build(kind, prog[m], G) \sqsubseteq X
<1>1. G \sqsubseteq X
  BY DEF CrossIInv, SummariesSound
<1>2. Build(kind, prog[m], G) \sqsubseteq Build(kind, prog[m], X)
  BY <1>1, BuildMonotone
<1>3. Build(kind, prog[m], X) \sqsubseteq X
  BY DEF IsClosed
<1> QED
  BY <1>2, <1>3, BelowTransitive

LEMMA FirstIsUnique ==
  ASSUME CrossIInv, NEW C \in todo, NEW D \in todo, IsFirst(C), IsFirst(D)
  PROVE  C = D
<1>1. PICK m \in Modules : C = Components(prog)[m]
  BY DEF CrossIInv
<1>2. PICK n \in Modules : D = Components(prog)[n]
  BY DEF CrossIInv
<1>3. PICK i \in C : \A j \in D : i <= j
  BY DEF IsFirst
<1>4. PICK j \in D : \A k \in C : j <= k
  BY DEF IsFirst
<1>5. i \in Nat /\ j \in Nat
  BY <1>1, <1>2, <1>3, <1>4, ComponentsType, CrossAssumption
<1>6. i = j
  BY <1>3, <1>4, <1>5
<1> QED
  BY <1>1, <1>2, <1>3, <1>4, <1>6, ComponentsDisjoint

-----------------------------------------------------------------------------
\* The inductive invariant.

LEMMA NoSummaryType == NoSummary \in Indexes /\ Nothing \in [Modules -> Indexes]
BY DEF NoSummary, Nothing, Indexes

LEMMA NoSummaryBelow == \A X : NoSummary \sqsubseteq X
BY DEF NoSummary, \sqsubseteq

LEMMA BelowReflexive == \A X : X \sqsubseteq X
BY DEF \sqsubseteq

LEMMA CrossInitIInv == CrossInit => CrossIInv
<1> SUFFICES ASSUME CrossInit PROVE CrossIInv
  OBVIOUS
<1> USE DEF CrossInit
<1>1. CrossTypeOK
  <2>1. pass \in 1 .. PassCap /\ iter \in 0 .. MaxSccIterations - 1
    BY CrossAssumption DEF PassCap
  <2>2. prog \in ProgramTypes
    BY CrossAssumption DEF ProgramsFor
  <2>3. scc \in [Modules -> SUBSET Modules]
    BY ComponentsType
  <2> QED
    BY <2>1, <2>2, <2>3, NoSummaryType DEF CrossTypeOK
<1>2. CacheSound
  BY DEF CacheSound
<1>3. SummariesSound
  BY NoSummaryBelow DEF SummariesSound, Nothing
<1>4. PassCoverage
  BY NoSummaryBelow DEF PassCoverage
<1>5. ConvergedIsClosed
  BY DEF ConvergedIsClosed
<1> QED
  BY <1>1, <1>2, <1>3, <1>4, <1>5 DEF CrossIInv

LEMMA TrivialModulesIInv ==
  ASSUME CrossIInv, TrivialModules
  PROVE  CrossIInv'
<1> DEFINE T == TrivialAt(level)
<1>0. CrossTypeOK
  BY DEF CrossIInv
<1>1. T \subseteq Modules /\ T \in SUBSET Modules
  BY DEF TrivialAt, AtLevel
<1>2. \A m \in T : SummaryFor(m) = Build(kind, prog[m], G)
  BY <1>1, SummaryIsBuilt
<1>3. \A m \in Modules : Build(kind, prog[m], G) \in Indexes
  BY <1>0, BuildType DEF CrossTypeOK
<1>4. S' = [m \in Modules |-> IF m \in T THEN Build(kind, prog[m], G) ELSE S[m]]
  <2>1. S' = [m \in Modules |-> IF m \in T THEN SummaryFor(m) ELSE S[m]]
    BY DEF TrivialModules
  <2>2. \A m \in Modules : (IF m \in T THEN SummaryFor(m) ELSE S[m])
                           = (IF m \in T THEN Build(kind, prog[m], G) ELSE S[m])
    BY <1>2
  <2> QED
    BY <2>1, <2>2
<1>5. G' = MergeAll(G, S', T)
  BY DEF TrivialModules
<1>6. S' \in [Modules -> Indexes]
  BY <1>0, <1>3, <1>4 DEF CrossTypeOK
<1>7. G' \in Indexes
  BY <1>0, <1>1, <1>5, <1>6, MergeType DEF CrossTypeOK
<1>8. G \sqsubseteq G'
  BY <1>5, MergeAbove
<1>9. \A e \in memory' \cup disk' :
        \/ e \in memory \cup disk
        \/ kind = "resource" /\ \E m \in T : e = [key |-> <<prog[m], G>>, sum |-> Build(kind, prog[m], G)]
  <2>1. \A m \in T : S'[m] = Build(kind, prog[m], G)
    BY <1>1, <1>4
  <2>2. disk' = disk
    BY DEF TrivialModules
  <2>3. \/ memory' = memory
        \/ kind = "resource" /\ memory' = memory \cup {[key |-> CacheKey(m, G), sum |-> S'[m]] : m \in T}
    <3>1. kind = "resource" \/ kind = "uninitialized"
      BY <1>0, CrossAssumption DEF CrossTypeOK
    <3> QED BY <3>1 DEF TrivialModules
  <2> QED
    BY <2>1, <2>2, <2>3 DEF CacheKey
<1>10. CrossTypeOK'
  <2>1. todo' \subseteq SUBSET Modules
    <3>1. todo' = CyclicAt(level)
      BY DEF TrivialModules
    <3>2. scc \in [Modules -> SUBSET Modules]
      BY <1>0 DEF CrossTypeOK
    <3> QED
      BY <3>1, <3>2 DEF CyclicAt, AtLevel
  <2>2. \A e \in memory' \cup disk' : e.sum \in Indexes
    BY <1>0, <1>1, <1>3, <1>9 DEF CrossTypeOK
  <2> QED
    BY <1>0, <1>6, <1>7, <2>1, <2>2 DEF CrossTypeOK, PassCap, TrivialModules
<1>11. CacheSound'
  <2> SUFFICES ASSUME NEW e \in memory' \cup disk'
               PROVE  kind = "resource" /\ e.key[2] \in Indexes /\ e.sum = Build("resource", e.key[1], e.key[2])
    BY DEF CacheSound, TrivialModules
  <2>1. CASE e \in memory \cup disk
    BY <2>1 DEF CrossIInv, CacheSound
  <2>2. ASSUME kind = "resource",
               NEW m \in T, e = [key |-> <<prog[m], G>>, sum |-> Build(kind, prog[m], G)]
        PROVE  e.key[2] \in Indexes /\ e.sum = Build("resource", e.key[1], e.key[2])
    <3>1. e.key[1] = prog[m] /\ e.key[2] = G /\ e.sum = Build(kind, prog[m], G)
      BY <2>2
    <3>2. G \in Indexes
      BY <1>0 DEF CrossTypeOK
    <3> QED
      BY <2>2, <3>1, <3>2
  <2> QED
    BY <1>9, <2>1, <2>2
<1>12. SummariesSound'
  <2> SUFFICES ASSUME kind' = "resource", NEW X \in Indexes, IsClosed(kind', prog', X)
               PROVE  G' \sqsubseteq X /\ \A m \in Modules : S'[m] \sqsubseteq X /\ prev'[m] \sqsubseteq X
    BY DEF SummariesSound
  <2>0. kind' = kind /\ prog' = prog /\ prev' = prev
    BY DEF TrivialModules
  <2>1. kind = "resource" /\ IsClosed(kind, prog, X)
    BY <2>0
  <2>2. G \sqsubseteq X /\ \A m \in Modules : S[m] \sqsubseteq X /\ prev[m] \sqsubseteq X
    BY <2>1 DEF CrossIInv, SummariesSound
  <2>3. \A m \in Modules : Build(kind, prog[m], G) \sqsubseteq X
    BY <2>1, BuildBelowClosed
  <2>4. \A m \in Modules : S'[m] \sqsubseteq X
    BY <1>4, <2>2, <2>3
  <2>5. G' \sqsubseteq X
    BY <1>1, <1>5, <2>2, <2>4, MergeLeast
  <2> QED
    BY <2>0, <2>2, <2>4, <2>5
<1>13. PassCoverage'
  <2>0. /\ UNCHANGED <<kind, prog, scc, levelOf, before, level, iter>>
        /\ phase = "level" /\ phase' = "scc" /\ todo' = CyclicAt(level)
    BY DEF TrivialModules
  <2>1. before \sqsubseteq G /\ iter = 0 /\ level \in Nat
    BY <1>0, <2>0 DEF CrossIInv, PassCoverage, CrossTypeOK
  <2>2. before' \sqsubseteq G'
    BY <2>0, <2>1, <1>8, BelowTransitive
  <2>3. ASSUME NEW m \in Modules, levelOf[m] \in 0 .. level
        PROVE  Covered(m)' \/ scc[m] \in todo'
    <3>1. CASE levelOf[m] \in 0 .. level - 1
      <4>1. Covered(m)
        BY <2>0, <3>1 DEF CrossIInv, PassCoverage
      <4> QED
        BY <4>1, <1>8, <2>0, CoveredPersists
    <3>2. CASE m \in T
      <4>1. Build(kind, prog[m], G) \sqsubseteq G'
        <5>1. S'[m] \sqsubseteq G'
          BY <3>2, <1>5, MergeAbsorbs
        <5> QED
          BY <5>1, <3>2, <1>4
      <4>2. G \in Indexes
        BY <1>0 DEF CrossTypeOK
      <4> QED
        BY <4>1, <4>2, <1>8, <2>0, <2>1, CoveredNow
    <3>3. CASE levelOf[m] = level /\ m \notin T
      BY <3>3, <2>0 DEF CyclicAt, AtLevel
    <3>4. levelOf[m] \in 0 .. level - 1 \/ levelOf[m] = level
      BY <2>1, <2>3
    <3> QED
      BY <3>1, <3>2, <3>3, <3>4
  <2> QED
    BY <2>0, <2>1, <2>2, <2>3 DEF PassCoverage
<1>14. (todo \subseteq {scc[m] : m \in Modules})'
  BY DEF TrivialModules, CyclicAt, AtLevel
<1> QED
  BY <1>10, <1>11, <1>12, <1>13, <1>14
  DEF CrossIInv, TrivialModules, ConvergedIsClosed

LEMMA CyclicIterationIInv ==
  ASSUME CrossIInv, NEW C \in todo, CyclicIteration(C)
  PROVE  CrossIInv'
<1> DEFINE now    == [m \in Modules |-> IF m \in DirtyIn(C) THEN Build(kind, prog[m], G)
                                       ELSE IF m \in C THEN prev[m] ELSE S[m]]
           merged == MergeAll(NoSummary, now, C)
           old    == MergeAll(NoSummary, prev, C)
           ends   == merged = old \/ iter + 1 = MaxSccIterations
<1>0. CrossTypeOK
  BY DEF CrossIInv
<1>1. /\ phase = "scc" /\ IsFirst(C)
      /\ S' = now /\ G' = MergeAll(G, now, C)
      /\ todo' = IF ends THEN todo \ {C} ELSE todo
      /\ iter' = IF ends THEN 0 ELSE iter + 1
      /\ prev' = IF ends THEN Nothing ELSE [m \in Modules |-> IF m \in C THEN now[m] ELSE prev[m]]
      /\ changed' = IF ends THEN {} ELSE ChangedNames(old, merged)
      /\ UNCHANGED <<kind, prog, scc, levelOf, phase, pass, before, level, converged, memory, disk, run>>
  BY DEF CyclicIteration
<1>2. C \in SUBSET Modules
  BY <1>0 DEF CrossTypeOK
<1>3. \A m \in Modules : Build(kind, prog[m], G) \in Indexes
  BY <1>0, BuildType DEF CrossTypeOK
<1>4. now \in [Modules -> Indexes]
  BY <1>0, <1>3 DEF CrossTypeOK
<1>5. G' \in Indexes
  BY <1>0, <1>1, <1>2, <1>4, MergeType DEF CrossTypeOK
<1>6. G \sqsubseteq G'
  BY <1>1, MergeAbove
<1>7. CrossTypeOK'
  <2> HIDE DEF now, merged, old, ends
  <2>1. prev' \in [Modules -> Indexes]
    BY <1>0, <1>1, <1>4, NoSummaryType DEF CrossTypeOK
  <2>2. iter' \in 0 .. MaxSccIterations - 1
    BY <1>0, <1>1, CrossAssumption DEF CrossTypeOK, ends
  <2>3. changed' \subseteq Funcs
    BY <1>1 DEF ChangedNames
  <2>4. todo' \subseteq SUBSET Modules
    BY <1>0, <1>1 DEF CrossTypeOK
  <2> QED
    BY <1>0, <1>1, <1>4, <1>5, <2>1, <2>2, <2>3, <2>4 DEF CrossTypeOK, PassCap
<1>8. CacheSound'
  BY <1>1 DEF CrossIInv, CacheSound
<1>9. SummariesSound'
  <2> SUFFICES ASSUME kind' = "resource", NEW X \in Indexes, IsClosed(kind', prog', X)
               PROVE  G' \sqsubseteq X /\ \A m \in Modules : S'[m] \sqsubseteq X /\ prev'[m] \sqsubseteq X
    BY DEF SummariesSound
  <2>1. kind = "resource" /\ IsClosed(kind, prog, X)
    BY <1>1
  <2>2. G \sqsubseteq X /\ \A m \in Modules : S[m] \sqsubseteq X /\ prev[m] \sqsubseteq X
    BY <2>1 DEF CrossIInv, SummariesSound
  <2>3. \A m \in Modules : Build(kind, prog[m], G) \sqsubseteq X
    BY <2>1, BuildBelowClosed
  <2>4. \A m \in Modules : now[m] \sqsubseteq X
    BY <2>2, <2>3
  <2> HIDE DEF now, merged, old, ends
  <2>5. G' \sqsubseteq X
    BY <1>1, <1>2, <2>2, <2>4, MergeLeast
  <2>6. \A m \in Modules : prev'[m] \sqsubseteq X
    BY <1>1, <2>2, <2>4, NoSummaryBelow DEF Nothing
  <2> QED
    BY <1>1, <2>4, <2>5, <2>6
<1>10. PassCoverage'
  <2>1. before \sqsubseteq G /\ before' \sqsubseteq G'
    BY <1>1, <1>6, BelowTransitive DEF CrossIInv, PassCoverage
  <2>2. ASSUME NEW m \in Modules, scc[m] = C
        PROVE  Covered(m)'
    <3>1. CASE iter = 0
      <4>1. m \in C
        BY <2>2, InComponent, ReachableSelf DEF CrossIInv
      <4>2. now[m] = Build(kind, prog[m], G)
        BY <3>1, <4>1 DEF DirtyIn
      <4> HIDE DEF now, merged, old, ends
      <4>3. Build(kind, prog[m], G) \sqsubseteq G'
        BY <4>1, <4>2, <1>1, MergeAbsorbs
      <4>4. G \in Indexes
        BY <1>0 DEF CrossTypeOK
      <4> QED
        BY <4>3, <4>4, <1>1, <1>6, <2>1, CoveredNow
    <3>2. CASE iter # 0
      <4>1. iter > 0
        BY <3>2, <1>0, CrossAssumption DEF CrossTypeOK
      <4>2. Covered(m)
        BY <4>1, <1>1, <2>2 DEF CrossIInv, PassCoverage
      <4> QED
        BY <4>2, <1>1, <1>6, CoveredPersists
    <3> QED
      BY <3>1, <3>2
  <2> HIDE DEF now, merged, old, ends
  <2>3. ASSUME NEW m \in Modules, levelOf[m] \in 0 .. level
        PROVE  Covered(m)' \/ scc[m] \in todo'
    <3>1. Covered(m) \/ scc[m] \in todo
      BY <1>1, <2>3 DEF CrossIInv, PassCoverage
    <3>2. CASE Covered(m)
      BY <3>2, <1>1, <1>6, CoveredPersists
    <3>3. CASE scc[m] \in todo /\ scc[m] # C
      BY <3>3, <1>1
    <3> QED
      BY <3>1, <3>2, <3>3, <2>2
  <2>4. ASSUME iter' > 0, NEW m \in Modules, scc[m] \in todo', IsFirst(scc[m])'
        PROVE  Covered(m)'
    <3>1. todo' = todo
      BY <1>1, <2>4
    <3>2. IsFirst(scc[m]) /\ scc[m] \in todo
      BY <1>1, <2>4, <3>1 DEF IsFirst
    <3>3. scc[m] = C
      BY <1>1, <3>2, FirstIsUnique
    <3> QED
      BY <3>3, <2>2
  <2> QED
    BY <1>1, <2>1, <2>3, <2>4 DEF PassCoverage
<1> HIDE DEF now, merged, old, ends
<1>11. (todo \subseteq {scc[m] : m \in Modules})'
  BY <1>1 DEF CrossIInv
<1>12. (scc = Components(prog))' /\ (prog \in ProgramsFor(kind))'
  BY <1>1 DEF CrossIInv
<1>13. ConvergedIsClosed'
  BY <1>1 DEF ConvergedIsClosed
<1> QED
  BY <1>1, <1>7, <1>8, <1>9, <1>10, <1>11, <1>12, <1>13 DEF CrossIInv

LEMMA NextLevelIInv ==
  ASSUME CrossIInv, NextLevel
  PROVE  CrossIInv'
<1>0. CrossTypeOK
  BY DEF CrossIInv
<1>1. /\ phase = "scc" /\ todo = {} /\ level' = level + 1 /\ phase' = "level"
      /\ UNCHANGED <<kind, prog, scc, levelOf, pass, before, todo, iter, prev, changed, G, S, converged,
                     memory, disk, run>>
  BY DEF NextLevel
<1>2. CrossTypeOK'
  BY <1>0, <1>1 DEF CrossTypeOK, PassCap
<1>3. CacheSound' /\ SummariesSound'
  BY <1>1 DEF CrossIInv, CacheSound, SummariesSound
<1>4. PassCoverage'
  <2>1. \A m \in Modules : levelOf[m] \in 0 .. level => Covered(m)
    BY <1>1 DEF CrossIInv, PassCoverage
  <2>2. level' - 1 = level
    BY <1>0, <1>1 DEF CrossTypeOK
  <2>3. \A m \in Modules : Covered(m) => Covered(m)'
    BY <1>1 DEF Covered
  <2>4. before' \sqsubseteq G'
    BY <1>1 DEF CrossIInv, PassCoverage
  <2> QED
    BY <1>1, <2>1, <2>2, <2>3, <2>4 DEF PassCoverage
<1> QED
  BY <1>1, <1>2, <1>3, <1>4 DEF CrossIInv, ConvergedIsClosed

LEMMA EndPassIInv ==
  ASSUME CrossIInv, EndPass
  PROVE  CrossIInv'
<1>0. CrossTypeOK
  BY DEF CrossIInv
<1>1. /\ phase = "scc" /\ todo = {} /\ ~LevelsLeft
      /\ converged' = (G = before)
      /\ \/ phase' = "save" /\ UNCHANGED <<pass, before, level>>
         \/ /\ phase' = "level" /\ pass # PassCap /\ pass' = pass + 1
            /\ before' = G /\ level' = 0
      /\ UNCHANGED <<kind, prog, scc, levelOf, todo, iter, prev, changed, G, S, memory, disk, run>>
  BY DEF EndPass
<1>2. CrossTypeOK'
  <2>1. pass' \in 1 .. PassCap /\ PassCap' = PassCap
    BY <1>0, <1>1, CrossAssumption DEF CrossTypeOK, PassCap
  <2> QED
    BY <1>0, <1>1, <2>1 DEF CrossTypeOK
<1>3. CacheSound' /\ SummariesSound'
  BY <1>1 DEF CrossIInv, CacheSound, SummariesSound
<1>4. PassCoverage'
  <2>1. before' \sqsubseteq G'
    BY <1>1, BelowReflexive DEF CrossIInv, PassCoverage
  <2>2. phase' = "level" => level' = 0
    BY <1>1
  <2> QED
    BY <1>1, <2>1, <2>2 DEF PassCoverage
<1>5. ConvergedIsClosed'
  <2> SUFFICES ASSUME converged', NEW m \in Modules
               PROVE  Build(kind, prog[m], G) \sqsubseteq G
    BY <1>1 DEF ConvergedIsClosed, IsClosed
  <2>1. G = before
    BY <1>1
  <2>2. Covered(m)
    BY <1>1 DEF CrossIInv, PassCoverage, LevelsLeft
  <2>3. PICK H \in Indexes : before \sqsubseteq H /\ H \sqsubseteq G /\ Build(kind, prog[m], H) \sqsubseteq G
    BY <2>2 DEF Covered
  <2>4. H = G
    BY <1>0, <2>1, <2>3, BelowAntisymmetric DEF CrossTypeOK
  <2> QED
    BY <2>3, <2>4
<1> QED
  BY <1>1, <1>2, <1>3, <1>4, <1>5 DEF CrossIInv

LEMMA SaveCacheIInv ==
  ASSUME CrossIInv, SaveCache
  PROVE  CrossIInv'
<1>1. /\ phase = "save" /\ phase' = "done"
      /\ disk' \subseteq memory \cup disk
      /\ UNCHANGED <<kind, prog, scc, levelOf, pass, before, level, todo, iter, prev, changed, G, S,
                     converged, memory, run>>
  BY DEF SaveCache
<1>2. \A e \in memory' \cup disk' : e \in memory \cup disk
  BY <1>1
<1>3. CrossTypeOK'
  BY <1>1, <1>2 DEF CrossIInv, CrossTypeOK, PassCap
<1>4. CacheSound' /\ SummariesSound'
  BY <1>1, <1>2 DEF CrossIInv, CacheSound, SummariesSound
<1>5. PassCoverage'
  BY <1>1 DEF CrossIInv, PassCoverage
<1> QED
  BY <1>1, <1>3, <1>4, <1>5 DEF CrossIInv, ConvergedIsClosed

LEMMA NextRunIInv ==
  ASSUME CrossIInv, NextRun
  PROVE  CrossIInv'
<1>0. CrossTypeOK
  BY DEF CrossIInv
<1>1. /\ prog' \in ProgramsFor(kind') /\ scc' = Components(prog')
      /\ phase' = "level" /\ pass' = 1 /\ level' = 0 /\ iter' = 0
      /\ before' = NoSummary /\ G' = NoSummary
      /\ todo' = {} /\ prev' = Nothing /\ changed' = {} /\ S' = Nothing
      /\ converged' = FALSE /\ memory' = {} /\ disk' = disk /\ run' = run + 1
      /\ kind' = kind
  BY DEF NextRun
<1>2. CrossTypeOK'
  <2>1. pass' \in 1 .. PassCap' /\ iter' \in 0 .. MaxSccIterations - 1 /\ kind' \in Kinds
    BY <1>0, <1>1, CrossAssumption DEF CrossTypeOK, PassCap
  <2>2. prog' \in ProgramTypes
    BY <1>1, CrossAssumption DEF ProgramsFor
  <2>3. scc' \in [Modules -> SUBSET Modules]
    BY <1>1, ComponentsType
  <2>4. \A e \in memory' \cup disk' : e.sum \in Indexes
    BY <1>0, <1>1 DEF CrossTypeOK
  <2>5. level' \in Nat /\ run' \in Nat
    BY <1>0, <1>1 DEF CrossTypeOK
  <2>6. /\ before' \in Indexes /\ G' \in Indexes
        /\ prev' \in [Modules -> Indexes] /\ S' \in [Modules -> Indexes]
    BY <1>1, NoSummaryType
  <2>7. phase' \in {"level", "scc", "save", "done"} /\ converged' \in BOOLEAN
    BY <1>1
  <2>8. todo' \subseteq SUBSET Modules /\ changed' \subseteq Funcs
    BY <1>1
  <2> QED
    BY <2>1, <2>2, <2>3, <2>4, <2>5, <2>6, <2>7, <2>8 DEF CrossTypeOK
<1>3. CacheSound'
  BY <1>1 DEF CrossIInv, CacheSound
<1>4. SummariesSound'
  BY <1>1, NoSummaryBelow DEF SummariesSound, Nothing
<1>5. PassCoverage'
  BY <1>1, NoSummaryBelow DEF PassCoverage
<1> QED
  BY <1>1, <1>2, <1>3, <1>4, <1>5 DEF CrossIInv, ConvergedIsClosed

LEMMA CrossStepIInv == CrossIInv /\ [CrossNext]_crossVars => CrossIInv'
<1> SUFFICES ASSUME CrossIInv, [CrossNext]_crossVars PROVE CrossIInv'
  OBVIOUS
<1>1. CASE TrivialModules
  BY <1>1, TrivialModulesIInv
<1>2. ASSUME NEW C \in todo, CyclicIteration(C) PROVE CrossIInv'
  BY <1>2, CyclicIterationIInv
<1>3. CASE NextLevel
  BY <1>3, NextLevelIInv
<1>4. CASE EndPass
  BY <1>4, EndPassIInv
<1>5. CASE SaveCache
  BY <1>5, SaveCacheIInv
<1>6. CASE NextRun
  BY <1>6, NextRunIInv
<1>7. CASE UNCHANGED crossVars
  BY <1>7 DEF CrossIInv, CrossTypeOK, PassCap, CacheSound, SummariesSound, PassCoverage, ConvergedIsClosed,
              Covered, IsFirst, crossVars
<1> QED
  BY <1>1, <1>2, <1>3, <1>4, <1>5, <1>6, <1>7 DEF CrossNext

-----------------------------------------------------------------------------
\* One walk in dependency order, for programs in which a callee has one definition.

\* No component of the walk is given up while its summaries still change.
CutShort ==
  \E C \in todo :
    /\ CyclicIteration(C)
    /\ iter + 1 = MaxSccIterations
    /\ MergeAll(NoSummary, S', C) # MergeAll(NoSummary, prev, C)

Settled(m) == Build(kind, prog[m], G) \sqsubseteq G

\* The level is behind the walk, or m belongs to a component that is still to come.
Passed ==
  /\ phase = "level" => \A m \in Modules : levelOf[m] < level => Settled(m)
  /\ phase = "scc" => \A m \in Modules : levelOf[m] <= level => Settled(m) \/ scc[m] \in todo
  /\ phase \in {"save", "done"} => \A m \in Modules : Settled(m)

\* Between two turns over a component the index has absorbed the summaries of the last
\* turn, and those of the modules that will not be rebuilt are still what building them
\* would give.
TurnIInv ==
  phase = "scc" /\ iter > 0 =>
    \A C \in todo : IsFirst(C) =>
      \A m \in C :
        /\ prev[m] \sqsubseteq G
        /\ FilteredCalleeNames(prog, m) \cap changed = {} => Build(kind, prog[m], G) = prev[m]

WalkIInv ==
  /\ levelOf = Levels(prog)
  /\ iter = 0 => prev = Nothing
  /\ phase = "scc" => todo \subseteq CyclicAt(level)
  /\ CalleesUnique(prog) =>
       /\ \A f \in Funcs : G[f] # {} => \E k \in Modules : f \in prog[k].exported
       /\ Passed
       /\ TurnIInv

\* A call out of m to a function that module k defines is an edge, whose target is not
\* above m, and on the level of m only inside its component.
LEMMA CallIsEdge ==
  ASSUME IsFiniteSet(Modules), NEW P, CalleesUnique(P), NEW m \in Modules, NEW k \in Modules,
         NEW c \in Outside(P[m]), c \in Defined(P[k])
  PROVE  /\ c \in FilteredCalleeNames(P, m)
         /\ \A n \in Modules : c \in Defined(P[n]) => n = k
         /\ Levels(P)[k] <= Levels(P)[m]
         /\ Levels(P)[k] = Levels(P)[m] => Components(P)[k] = Components(P)[m]
<1>1. c \in CalleeNames(P[m]) \ Defined(P[m])
  BY DEF Outside
<1>2. c \in SingleDefNames(P)
  BY <1>1 DEF CalleesUnique, DefinedBy, Outside
<1>3. DefinedBy(P, c) = {k}
  BY <1>2 DEF SingleDefNames, DefinedBy
<1>4. <<m, k>> \in Edges(P)
  BY <1>1, <1>3 DEF Edges
<1>5. <<m, k>> \in Reach(Modules, Edges(P))
  BY <1>4, ReachableEdge, ReachPair
<1>6. Levels(P)[m] \in Nat /\ Levels(P)[k] \in Nat
  BY LevelIsLongest, FS_CardinalityType DEF Levels
<1>7. CASE <<k, m>> \in Reach(Modules, Edges(P))
  <2>1. Levels(P)[k] = Levels(P)[m]
    BY <1>5, <1>7, LevelOfComponent DEF Levels
  <2>2. k \in Components(P)[m] /\ k \in Components(P)[k]
    BY <1>5, <1>7, ReachPair, InComponentOf, ReachableSelf DEF Components
  <2> QED BY <1>1, <1>2, <1>3, <1>6, <2>1, <2>2, ComponentsDisjoint DEF FilteredCalleeNames, DefinedBy
<1>8. CASE <<k, m>> \notin Reach(Modules, Edges(P))
  <2>1. Levels(P)[k] < Levels(P)[m]
    BY <1>5, <1>8, LevelAbove DEF Levels, Above
  <2> QED BY <1>1, <1>2, <1>3, <1>6, <2>1 DEF FilteredCalleeNames, DefinedBy
<1> QED BY <1>7, <1>8

\* Merging the summaries of modules that m does not call leaves the summary of m alone.
LEMMA MergeElsewhere ==
  ASSUME NEW k, NEW P, NEW m \in Modules, NEW C \in SUBSET Modules, NEW X, NEW sums,
         \A j \in C : \A f \in Funcs : sums[j][f] # {} => f \in P[j].exported,
         \A j \in C : \A c \in Outside(P[m]) : c \notin Defined(P[j])
  PROVE  Build(k, P[m], MergeAll(X, sums, C)) = Build(k, P[m], X)
<1>1. ASSUME NEW c \in Outside(P[m])
      PROVE  MergeAll(X, sums, C)[c] = X[c]
  <2>1. c \in Funcs
    BY CallsAreNames
  <2>2. \A j \in C : sums[j][c] = {}
    BY <2>1 DEF Defined
  <2> QED BY <2>1, <2>2 DEF MergeAll
<1> QED BY <1>1, BuildByCallees

LEMMA WalkInit ==
  ASSUME IsFiniteSet(Modules), CrossInit
  PROVE  WalkIInv
<1> USE DEF CrossInit
<1>1. \A m \in Modules : levelOf[m] \in Nat
  BY LevelIsLongest, FS_CardinalityType DEF Levels
<1>2. Passed /\ TurnIInv
  BY <1>1 DEF Passed, TurnIInv
<1> QED BY <1>2 DEF WalkIInv, NoSummary

\* What is settled stays settled while modules are merged that m does not call.
LEMMA SettledPersists ==
  ASSUME NEW m, Settled(m), UNCHANGED <<kind, prog>>, G \sqsubseteq G', Build(kind, prog[m], G') = Build(kind, prog[m], G)
  PROVE  Settled(m)'
BY BelowTransitive DEF Settled

\* The levels of the walk are numbers, and a component with a cycle lies on one level.
LEMMA LevelsAreNumbers ==
  ASSUME IsFiniteSet(Modules), levelOf = Levels(prog)
  PROVE  \A m \in Modules : levelOf[m] \in Nat
BY LevelIsLongest, FS_CardinalityType DEF Levels

LEMMA InCyclicAt ==
  ASSUME IsFiniteSet(Modules), CrossIInv, levelOf = Levels(prog), NEW C \in CyclicAt(level), NEW k \in C
  PROVE  k \in Modules /\ levelOf[k] = level /\ scc[k] = C /\ C # {k}
<1>0. scc = Components(prog)
  BY DEF CrossIInv
<1>1. PICK x \in Modules : C = scc[x] /\ levelOf[x] = level /\ scc[x] # {x}
  BY DEF CyclicAt, TrivialAt, AtLevel
<1>2. k \in Modules /\ k \in ReachableFrom(Modules, Edges(prog), x)
                    /\ x \in ReachableFrom(Modules, Edges(prog), k)
  BY <1>0, <1>1, InComponent, ComponentsType
<1>3. levelOf[k] = levelOf[x]
  <2>1. <<k, x>> \in Reach(Modules, Edges(prog)) /\ <<x, k>> \in Reach(Modules, Edges(prog))
    BY <1>1, <1>2, ReachPair
  <2> QED BY <2>1, LevelOfComponent DEF Levels
<1>4. k \in Components(prog)[k] /\ x \in Components(prog)[x]
  BY <1>1, <1>2, InComponent, ReachableSelf
<1>5. scc[k] = C
  BY <1>0, <1>1, <1>2, <1>4, ComponentsDisjoint
<1> QED BY <1>0, <1>1, <1>2, <1>3, <1>4, <1>5

\* What the trivial modules of a level add to the index concerns neither them nor the
\* modules below.
LEMMA TrivialElsewhere ==
  ASSUME IsFiniteSet(Modules), CrossIInv, levelOf = Levels(prog), TrivialModules, CalleesUnique(prog),
         NEW m \in Modules, levelOf[m] < level \/ m \in TrivialAt(level)
  PROVE  Build(kind, prog[m], G') = Build(kind, prog[m], G)
<1> DEFINE T == TrivialAt(level)
<1>1. G' = MergeAll(G, S', T) /\ scc = Components(prog) /\ level \in Nat
  BY DEF TrivialModules, CrossIInv, CrossTypeOK
<1>2. T \in SUBSET Modules /\ \A k \in T : levelOf[k] = level /\ scc[k] = {k}
  BY DEF TrivialAt, AtLevel
<1>3. \A k \in T : \A f \in Funcs : S'[k][f] # {} => f \in prog[k].exported
  <2>1. \A k \in T : S'[k] = Build(kind, prog[k], G)
    BY <1>2, SummaryIsBuilt DEF TrivialModules
  <2> QED BY <2>1, BuildAtExported
<1>4. ASSUME NEW k \in T, NEW c \in Outside(prog[m]), c \in Defined(prog[k])
      PROVE  FALSE
  <2>1. levelOf[k] <= levelOf[m] /\ (levelOf[k] = levelOf[m] => scc[k] = scc[m])
    BY <1>1, <1>2, <1>4, CallIsEdge
  <2>2. k # m
    BY <1>4 DEF Outside
  <2> QED BY <1>1, <1>2, <2>1, <2>2, LevelsAreNumbers
<1> HIDE DEF T
<1> QED BY <1>1, <1>2, <1>3, <1>4, MergeElsewhere

\* What a component adds to the index concerns no other module on its level or below.
LEMMA CyclicElsewhere ==
  ASSUME IsFiniteSet(Modules), CrossIInv, levelOf = Levels(prog), CalleesUnique(prog),
         NEW C \in CyclicAt(level), C \in todo, CyclicIteration(C),
         \A k \in C : \A f \in Funcs : S'[k][f] # {} => f \in prog[k].exported,
         NEW m \in Modules, levelOf[m] <= level, scc[m] # C
  PROVE  Build(kind, prog[m], G') = Build(kind, prog[m], G)
<1>1. G' = MergeAll(G, S', C) /\ scc = Components(prog) /\ level \in Nat /\ C \in SUBSET Modules
  BY DEF CyclicIteration, CrossIInv, CrossTypeOK
<1>2. ASSUME NEW k \in C, NEW c \in Outside(prog[m]), c \in Defined(prog[k])
      PROVE  FALSE
  <2>1. k \in Modules /\ levelOf[k] = level /\ scc[k] = C
    BY InCyclicAt
  <2>2. levelOf[k] <= levelOf[m] /\ (levelOf[k] = levelOf[m] => scc[k] = scc[m])
    BY <1>1, <1>2, <2>1, CallIsEdge
  <2> QED BY <1>1, <2>1, <2>2, LevelsAreNumbers
<1> QED BY <1>1, <1>2, MergeElsewhere

LEMMA TrivialModulesWalk ==
  ASSUME IsFiniteSet(Modules), CrossIInv, WalkIInv, TrivialModules
  PROVE  WalkIInv'
<1> DEFINE T == TrivialAt(level)
<1>1. /\ phase = "level" /\ phase' = "scc" /\ G' = MergeAll(G, S', T) /\ todo' = CyclicAt(level)
      /\ UNCHANGED <<kind, prog, scc, levelOf, level, iter, prev>>
  BY DEF TrivialModules
<1>2. iter = 0 /\ prog \in ProgramTypes /\ scc = Components(prog) /\ levelOf = Levels(prog)
      /\ level \in Nat /\ G \sqsubseteq G'
  BY <1>1, MergeAbove DEF CrossIInv, CrossTypeOK, WalkIInv
<1>3. T \in SUBSET Modules /\ \A m \in T : levelOf[m] = level /\ scc[m] = {m}
  BY DEF TrivialAt, AtLevel
<1>4. \A m \in T : S'[m] = Build(kind, prog[m], G)
  <2>1. \A m \in T : S'[m] = SummaryFor(m)
    BY <1>3 DEF TrivialModules
  <2> QED BY <1>3, <2>1, SummaryIsBuilt
<1>5. \A k \in T : \A f \in Funcs : S'[k][f] # {} => f \in prog[k].exported
  BY <1>4, BuildAtExported
<1>6. \A m \in Modules : levelOf[m] \in Nat
  BY <1>2, LevelIsLongest, FS_CardinalityType DEF Levels
<1>7. ASSUME CalleesUnique(prog)
      PROVE  /\ \A f \in Funcs : G'[f] # {} => \E k \in Modules : f \in prog[k].exported
             /\ Passed' /\ TurnIInv'
  <2>1. \A f \in Funcs : G[f] # {} => \E k \in Modules : f \in prog[k].exported
    BY <1>7 DEF WalkIInv
  <2>2. ASSUME NEW f \in Funcs, G'[f] # {} PROVE \E k \in Modules : f \in prog[k].exported
    <3>1. G[f] # {} \/ \E k \in T : S'[k][f] # {}
      BY <1>1, <2>2 DEF MergeAll
    <3> QED BY <1>3, <1>5, <2>1, <3>1
  <2>3. \A m \in Modules : levelOf[m] < level \/ m \in T => Build(kind, prog[m], G') = Build(kind, prog[m], G)
    BY <1>2, <1>7, TrivialElsewhere
  <2>4. ASSUME NEW m \in Modules, levelOf[m] <= level
        PROVE  Settled(m)' \/ scc[m] \in todo'
    <3>1. CASE levelOf[m] < level
      <4>1. Settled(m)
        BY <1>1, <1>7, <3>1 DEF WalkIInv, Passed
      <4> QED BY <1>1, <1>2, <2>3, <3>1, <4>1, SettledPersists
    <3>2. CASE m \in T
      <4>1. S'[m] \sqsubseteq G'
        BY <1>1, <3>2, MergeAbsorbs
      <4> QED BY <1>1, <1>4, <2>3, <3>2, <4>1 DEF Settled
    <3>3. CASE levelOf[m] = level /\ m \notin T
      BY <1>1, <3>3 DEF CyclicAt, AtLevel
    <3> QED BY <1>2, <1>6, <2>4, <3>1, <3>2, <3>3
  <2> QED BY <1>1, <1>2, <2>2, <2>4 DEF Passed, TurnIInv
<1>8. CyclicAt(level)' = CyclicAt(level)
  BY <1>1 DEF CyclicAt, TrivialAt, AtLevel
<1> QED BY <1>1, <1>2, <1>7, <1>8 DEF WalkIInv, CalleesUnique

\* In every turn each module of the component has the summary that building it gives.
LEMMA TurnRebuilds ==
  ASSUME CrossIInv, WalkIInv, CalleesUnique(prog), NEW C \in todo, CyclicIteration(C), NEW m \in C
  PROVE  S'[m] = Build(kind, prog[m], G)
<1>1. m \in Modules /\ IsFirst(C) /\ phase = "scc"
  BY DEF CrossIInv, CrossTypeOK, CyclicIteration
<1>2. S'[m] = IF m \in DirtyIn(C) THEN Build(kind, prog[m], G) ELSE prev[m]
  BY <1>1 DEF CyclicIteration
<1>3. CASE m \notin DirtyIn(C)
  <2>1. iter # 0 /\ FilteredCalleeNames(prog, m) \cap changed = {}
    BY <1>3 DEF DirtyIn
  <2>2. iter > 0
    BY <2>1, CrossAssumption DEF CrossIInv, CrossTypeOK
  <2> QED BY <1>1, <1>2, <1>3, <2>1, <2>2 DEF WalkIInv, TurnIInv
<1> QED BY <1>2, <1>3

LEMMA CyclicIterationWalk ==
  ASSUME IsFiniteSet(Modules), CrossIInv, WalkIInv, NEW C \in todo, CyclicIteration(C), ~CutShort
  PROVE  WalkIInv'
<1> DEFINE merged == MergeAll(NoSummary, S', C)
           old    == MergeAll(NoSummary, prev, C)
<1>1. /\ phase = "scc" /\ IsFirst(C)
      /\ G' = MergeAll(G, S', C)
      /\ \/ /\ merged = old \/ iter + 1 = MaxSccIterations
            /\ todo' = todo \ {C} /\ iter' = 0 /\ prev' = Nothing
         \/ /\ merged # old /\ todo' = todo /\ iter' = iter + 1
            /\ prev' = [m \in Modules |-> IF m \in C THEN S'[m] ELSE prev[m]]
            /\ changed' = ChangedNames(old, merged)
      /\ UNCHANGED <<kind, prog, scc, levelOf, phase, level>>
  BY DEF CyclicIteration
<1>2. merged = old \/ (todo' = todo /\ iter' = iter + 1)
  BY <1>1 DEF CutShort
<1>3. /\ prog \in ProgramTypes /\ scc = Components(prog) /\ levelOf = Levels(prog) /\ level \in Nat
      /\ G \in Indexes /\ prev \in [Modules -> Indexes] /\ iter \in Nat
      /\ C \in SUBSET Modules /\ C \in CyclicAt(level) /\ G \sqsubseteq G'
  BY <1>1, MergeAbove, CrossAssumption DEF CrossIInv, CrossTypeOK, WalkIInv
<1>5. \A m \in Modules : levelOf[m] \in Nat
  BY <1>3, LevelIsLongest, FS_CardinalityType DEF Levels
<1>6. ASSUME CalleesUnique(prog)
      PROVE  /\ \A f \in Funcs : G'[f] # {} => \E k \in Modules : f \in prog[k].exported
             /\ Passed' /\ TurnIInv'
  <2>1. \A m \in C : S'[m] = Build(kind, prog[m], G)
    BY <1>6, TurnRebuilds
  <2>2. \A k \in C : \A f \in Funcs : S'[k][f] # {} => f \in prog[k].exported
    BY <2>1, BuildAtExported
  <2>3. \A f \in Funcs : G[f] # {} => \E k \in Modules : f \in prog[k].exported
    BY <1>6 DEF WalkIInv
  <2>4. ASSUME NEW f \in Funcs, G'[f] # {} PROVE \E k \in Modules : f \in prog[k].exported
    <3>1. G[f] # {} \/ \E k \in C : S'[k][f] # {}
      BY <1>1, <2>4 DEF MergeAll
    <3> QED BY <1>3, <2>2, <2>3, <3>1
  <2>5. \A m \in C : prev[m] \sqsubseteq G
    <3>1. CASE iter = 0
      BY <1>3, <3>1, NoSummaryBelow DEF WalkIInv, Nothing
    <3>2. CASE iter > 0
      BY <1>1, <1>6, <3>2 DEF WalkIInv, TurnIInv
    <3> QED BY <1>3, <3>1, <3>2
  <2>6. \A f \in Funcs : old[f] \subseteq G[f]
    BY <2>5 DEF \sqsubseteq, MergeAll, NoSummary
  <2>7. \A f \in Funcs : merged[f] = old[f] => G'[f] = G[f]
    <3>1. ASSUME NEW f \in Funcs, merged[f] = old[f] PROVE G'[f] = G[f]
      <4>1. G'[f] = G[f] \cup merged[f]
        BY <1>1 DEF MergeAll, NoSummary
      <4> QED BY <2>6, <3>1, <4>1
    <3> QED BY <3>1
  \* A module that is behind the walk calls nothing in the component.
  <2>8. \A m \in Modules : levelOf[m] <= level /\ scc[m] # C =>
          Build(kind, prog[m], G') = Build(kind, prog[m], G)
    BY <1>3, <1>6, <2>2, CyclicElsewhere
  <2>9. ASSUME NEW m \in Modules, levelOf[m] <= level
        PROVE  Settled(m)' \/ scc[m] \in todo'
    <3>1. CASE scc[m] = C
      <4>1. CASE todo' = todo
        BY <3>1, <4>1
      <4>2. CASE merged = old
        <5>1. Build(kind, prog[m], G') = Build(kind, prog[m], G)
          <6>1. \A f \in Funcs : G'[f] = G[f]
            BY <2>7, <4>2
          <6> QED BY <1>3, <6>1, CallsAreNames, BuildByCallees
        <5>2. m \in C
          BY <1>3, <3>1, InComponent, ReachableSelf
        <5>3. S'[m] \sqsubseteq G'
          BY <1>1, <5>2, MergeAbsorbs
        <5> QED BY <1>1, <2>1, <5>1, <5>2, <5>3 DEF Settled
      <4> QED BY <1>2, <4>1, <4>2
    <3>2. CASE scc[m] # C
      <4>1. CASE scc[m] \in todo
        BY <1>1, <3>2, <4>1
      <4>2. CASE Settled(m)
        BY <1>1, <1>3, <2>8, <2>9, <3>2, <4>2, SettledPersists
      <4> QED BY <1>1, <1>6, <2>9, <4>1, <4>2 DEF WalkIInv, Passed
    <3> QED BY <3>1, <3>2
  <2>10. Passed'
    BY <1>1, <2>9 DEF Passed
  <2>11. ASSUME iter' > 0, NEW D \in todo', IsFirst(D)', NEW m \in D
         PROVE  /\ prev'[m] \sqsubseteq G'
                /\ FilteredCalleeNames(prog, m) \cap changed' = {} => Build(kind, prog[m], G') = prev'[m]
    <3>1. /\ todo' = todo /\ iter' = iter + 1 /\ changed' = ChangedNames(old, merged)
          /\ prev' = [n \in Modules |-> IF n \in C THEN S'[n] ELSE prev[n]]
      BY <1>1, <2>11
    <3>2. D = C
      BY <1>1, <2>11, <3>1, FirstIsUnique DEF IsFirst
    <3>3. prev'[m] = S'[m] /\ S'[m] = Build(kind, prog[m], G) /\ m \in Modules
      BY <1>3, <2>1, <3>1, <3>2
    <3>4. S'[m] \sqsubseteq G'
      BY <1>1, <3>2, MergeAbsorbs
    <3>5. ASSUME FilteredCalleeNames(prog, m) \cap changed' = {}
          PROVE  Build(kind, prog[m], G') = Build(kind, prog[m], G)
      <4>1. ASSUME NEW c \in Outside(prog[m])
            PROVE  G'[c] = G[c]
        <5>1. c \in Funcs
          BY <1>3, <3>3, CallsAreNames
        <5>2. CASE \E k \in Modules : c \in Defined(prog[k])
          <6>1. c \in FilteredCalleeNames(prog, m)
            BY <1>3, <1>6, <3>3, <5>2, CallIsEdge
          <6>2. merged[c] = old[c]
            BY <3>1, <3>5, <5>1, <6>1 DEF ChangedNames
          <6> QED BY <2>7, <5>1, <6>2
        <5>3. CASE \A k \in Modules : c \notin Defined(prog[k])
          BY <2>3, <2>4, <5>1, <5>3 DEF Defined
        <5> QED BY <5>2, <5>3
      <4> QED BY <4>1, BuildByCallees
    <3> QED BY <3>3, <3>4, <3>5
  <2>12. TurnIInv'
    BY <1>1, <2>11 DEF TurnIInv
  <2> QED BY <2>4, <2>10, <2>12
<1>7. CyclicAt(level)' = CyclicAt(level)
  BY <1>1 DEF CyclicAt, TrivialAt, AtLevel
<1>8. (iter = 0 => prev = Nothing)'
  BY <1>1, <1>3
<1>9. (phase = "scc" => todo \subseteq CyclicAt(level))'
  BY <1>1, <1>7 DEF WalkIInv
<1> QED BY <1>1, <1>3, <1>6, <1>8, <1>9 DEF WalkIInv, CalleesUnique

LEMMA WalkStep ==
  ASSUME IsFiniteSet(Modules), CrossIInv, WalkIInv, [CrossNext]_crossVars, [~CutShort]_crossVars
  PROVE  WalkIInv'
<1>0. \A m \in Modules : levelOf[m] \in Nat
  BY LevelIsLongest, FS_CardinalityType DEF WalkIInv, Levels
<1>1. CASE TrivialModules
  BY <1>1, TrivialModulesWalk
<1>2. ASSUME NEW C \in todo, CyclicIteration(C), ~CutShort PROVE WalkIInv'
  BY <1>2, CyclicIterationWalk
<1>3. CASE NextLevel
  <2>1. /\ phase = "scc" /\ todo = {} /\ phase' = "level" /\ level' = level + 1 /\ level \in Nat
        /\ UNCHANGED <<kind, prog, scc, levelOf, todo, iter, prev, changed, G>>
    BY <1>3 DEF NextLevel, CrossIInv, CrossTypeOK
  <2>2. \A m \in Modules : Settled(m)' <=> Settled(m)
    BY <2>1 DEF Settled
  <2>3. \A m \in Modules : levelOf[m] < level + 1 => levelOf[m] <= level
    BY <1>0, <2>1
  <2>4. CalleesUnique(prog) => Passed' /\ TurnIInv'
    BY <2>1, <2>2, <2>3 DEF WalkIInv, Passed, TurnIInv
  <2> QED BY <2>1, <2>4 DEF WalkIInv, CalleesUnique
<1>4. CASE EndPass
  <2>1. /\ phase = "scc" /\ todo = {} /\ ~LevelsLeft
        /\ phase' = "save" \/ (phase' = "level" /\ level' = 0)
        /\ UNCHANGED <<kind, prog, scc, levelOf, todo, iter, prev, changed, G>>
    BY <1>4 DEF EndPass
  <2>2. \A m \in Modules : Settled(m)' <=> Settled(m)
    BY <2>1 DEF Settled
  <2>3. \A m \in Modules : levelOf[m] <= level /\ ~ (levelOf[m] < 0)
    BY <1>0, <2>1 DEF LevelsLeft, CrossIInv, CrossTypeOK
  <2>4. CalleesUnique(prog) => Passed' /\ TurnIInv'
    BY <2>1, <2>2, <2>3 DEF WalkIInv, Passed, TurnIInv
  <2> QED BY <2>1, <2>4 DEF WalkIInv, CalleesUnique
<1>5. CASE SaveCache
  <2>1. /\ phase = "save" /\ phase' = "done"
        /\ UNCHANGED <<kind, prog, scc, levelOf, level, todo, iter, prev, changed, G>>
    BY <1>5 DEF SaveCache
  <2>2. \A m \in Modules : Settled(m)' <=> Settled(m)
    BY <2>1 DEF Settled
  <2>3. CalleesUnique(prog) => Passed' /\ TurnIInv'
    BY <2>1, <2>2 DEF WalkIInv, Passed, TurnIInv
  <2> QED BY <2>1, <2>3 DEF WalkIInv, CalleesUnique
<1>6. CASE NextRun
  <2>1. /\ levelOf' = Levels(prog') /\ phase' = "level" /\ level' = 0
        /\ G' = NoSummary /\ prev' = Nothing
    BY <1>6 DEF NextRun
  <2>2. \A m \in Modules : levelOf'[m] \in Nat
    BY <2>1, LevelIsLongest, FS_CardinalityType DEF Levels
  <2>3. Passed' /\ TurnIInv'
    BY <2>1, <2>2 DEF Passed, TurnIInv
  <2>4. \A f \in Funcs : G'[f] = {}
    BY <2>1 DEF NoSummary
  <2> QED BY <2>1, <2>3, <2>4 DEF WalkIInv
<1>7. CASE UNCHANGED crossVars
  <2>1. UNCHANGED <<kind, prog, scc, levelOf, phase, level, todo, iter, prev, changed, G>>
    BY <1>7 DEF crossVars
  <2>2. (\A m \in Modules : Settled(m)' <=> Settled(m)) /\ CyclicAt(level)' = CyclicAt(level)
    BY <2>1 DEF Settled, CyclicAt, TrivialAt, AtLevel
  <2>3. CalleesUnique(prog) => Passed' /\ TurnIInv'
    BY <2>1, <2>2 DEF WalkIInv, Passed, TurnIInv, IsFirst
  <2> QED BY <2>1, <2>2, <2>3 DEF WalkIInv, CalleesUnique
<1> QED BY <1>1, <1>2, <1>3, <1>4, <1>5, <1>6, <1>7 DEF CrossNext

-----------------------------------------------------------------------------
\* What the uninitialized index holds outside the cycles is what its modules still give.

\* The walk has left m behind, unless m is of a component that is still to come.
Behind(m) ==
  \/ phase = "level" /\ levelOf[m] < level
  \/ phase = "scc" /\ levelOf[m] <= level
  \/ phase \in {"save", "done"}

StillGiven(f, e) == \E m \in Modules : Behind(m) /\ e \in Build(kind, prog[m], G)[f]

FreshIInv ==
  /\ levelOf = Levels(prog)
  /\ phase = "scc" => todo \subseteq CyclicAt(level)
  /\ \A m \in Modules : \A f \in Funcs : prev[m][f] # {} => f \in prog[m].exported
  /\ kind = "uninitialized" /\ CalleesUnique(prog) =>
       \A f \in Funcs : OffCycles(f) => \A e \in G[f] : StillGiven(f, e)

\* Steps of the walk that leave the index alone and nobody behind.
LEMMA FreshUnmerged ==
  ASSUME FreshIInv, UNCHANGED <<kind, prog, scc, levelOf, prev, G>>, phase' # "scc",
         kind = "uninitialized" => \A m \in Modules : Behind(m) => Behind(m)'
  PROVE  FreshIInv'
<1>1. \A f \in Funcs : \A e : kind = "uninitialized" /\ StillGiven(f, e) => StillGiven(f, e)'
  BY DEF StillGiven
<1>2. \A f \in Funcs : OffCycles(f)' <=> OffCycles(f)
  BY DEF OffCycles
<1> QED BY <1>1, <1>2 DEF FreshIInv, CalleesUnique

LEMMA TrivialModulesFresh ==
  ASSUME IsFiniteSet(Modules), CrossIInv, FreshIInv, TrivialModules
  PROVE  FreshIInv'
<1> DEFINE T == TrivialAt(level)
<1>1. /\ phase = "level" /\ phase' = "scc" /\ G' = MergeAll(G, S', T) /\ todo' = CyclicAt(level)
      /\ UNCHANGED <<kind, prog, scc, levelOf, level, prev>>
  BY DEF TrivialModules
<1>2. levelOf = Levels(prog) /\ level \in Nat
  BY DEF FreshIInv, CrossIInv, CrossTypeOK
<1>3. \A m \in T : m \in Modules /\ levelOf[m] = level /\ S'[m] = Build(kind, prog[m], G)
  BY SummaryIsBuilt DEF TrivialModules, TrivialAt, AtLevel
<1>4. ASSUME kind = "uninitialized", CalleesUnique(prog), NEW f \in Funcs, OffCycles(f), NEW e \in G'[f]
      PROVE  StillGiven(f, e)'
  <2>1. \A m \in Modules : levelOf[m] < level \/ m \in T => Build(kind, prog[m], G') = Build(kind, prog[m], G)
    BY <1>2, <1>4, TrivialElsewhere
  <2>2. CASE e \in G[f]
    <3>1. PICK m \in Modules : Behind(m) /\ e \in Build(kind, prog[m], G)[f]
      BY <1>4, <2>2 DEF FreshIInv, StillGiven
    <3>2. levelOf[m] < level
      BY <1>1, <3>1 DEF Behind
    <3>3. levelOf[m] <= level
      BY <1>2, <3>2, LevelsAreNumbers
    <3> QED BY <1>1, <2>1, <3>1, <3>2, <3>3 DEF StillGiven, Behind
  <2>3. CASE e \notin G[f]
    <3>1. PICK m \in T : e \in S'[m][f]
      BY <1>1, <1>4, <2>3 DEF MergeAll
    <3>2. m \in Modules /\ levelOf[m] <= level /\ e \in Build(kind, prog[m], G')[f]
      BY <1>2, <1>3, <2>1, <3>1
    <3> QED BY <1>1, <3>2 DEF StillGiven, Behind
  <2> QED BY <2>2, <2>3
<1>5. \A f \in Funcs : OffCycles(f)' <=> OffCycles(f)
  BY <1>1 DEF OffCycles
<1>6. CyclicAt(level)' = CyclicAt(level)
  BY <1>1 DEF CyclicAt, TrivialAt, AtLevel
<1> QED BY <1>1, <1>4, <1>5, <1>6 DEF FreshIInv, CalleesUnique

LEMMA CyclicIterationFresh ==
  ASSUME IsFiniteSet(Modules), CrossIInv, FreshIInv, NEW C \in todo, CyclicIteration(C)
  PROVE  FreshIInv'
<1>1. /\ phase = "scc" /\ G' = MergeAll(G, S', C)
      /\ \/ todo' = todo \ {C} /\ prev' = Nothing
         \/ todo' = todo /\ prev' = [m \in Modules |-> IF m \in C THEN S'[m] ELSE prev[m]]
      /\ UNCHANGED <<kind, prog, scc, levelOf, phase, level>>
  BY DEF CyclicIteration
<1>2. C \in CyclicAt(level) /\ levelOf = Levels(prog)
  BY <1>1 DEF FreshIInv
<1>3. \A k \in C : k \in Modules /\ scc[k] = C /\ C # {k}
  BY <1>2, InCyclicAt
<1>4. \A k \in C : \A f \in Funcs : S'[k][f] # {} => f \in prog[k].exported
  <2>1. \A k \in C : S'[k] = Build(kind, prog[k], G) \/ S'[k] = prev[k]
    BY <1>3 DEF CyclicIteration
  <2> QED BY <1>3, <2>1, BuildAtExported DEF FreshIInv
<1>5. \A m \in Modules : \A f \in Funcs : prev'[m][f] # {} => f \in prog[m].exported
  BY <1>1, <1>4 DEF FreshIInv, Nothing, NoSummary
<1>6. ASSUME kind = "uninitialized", CalleesUnique(prog), NEW f \in Funcs, OffCycles(f), NEW e \in G'[f]
      PROVE  StillGiven(f, e)'
  \* No module of the component exports f.
  <2>1. e \in G[f]
    <3>1. \A k \in C : S'[k][f] = {}
      BY <1>3, <1>4, <1>6 DEF OffCycles
    <3> QED BY <1>1, <1>6, <3>1 DEF MergeAll
  <2>2. PICK m \in Modules : Behind(m) /\ e \in Build(kind, prog[m], G)[f]
    BY <1>6, <2>1 DEF FreshIInv, StillGiven
  <2>3. levelOf[m] <= level
    BY <1>1, <2>2 DEF Behind
  <2>4. f \in prog[m].exported
    BY <2>2, BuildAtExported
  <2>5. scc[m] # C
    BY <1>3, <1>6, <2>4 DEF OffCycles
  <2>6. Build(kind, prog[m], G') = Build(kind, prog[m], G)
    BY <1>2, <1>4, <1>6, <2>3, <2>5, CyclicElsewhere
  <2> QED BY <1>1, <2>2, <2>3, <2>6 DEF StillGiven, Behind
<1>7. \A f \in Funcs : OffCycles(f)' <=> OffCycles(f)
  BY <1>1 DEF OffCycles
<1>8. CyclicAt(level)' = CyclicAt(level)
  BY <1>1 DEF CyclicAt, TrivialAt, AtLevel
<1> QED BY <1>1, <1>5, <1>6, <1>7, <1>8 DEF FreshIInv, CalleesUnique

LEMMA FreshStep ==
  ASSUME IsFiniteSet(Modules), CrossIInv, FreshIInv, [CrossNext]_crossVars
  PROVE  FreshIInv'
<1>1. CASE TrivialModules
  BY <1>1, TrivialModulesFresh
<1>2. ASSUME NEW C \in todo, CyclicIteration(C) PROVE FreshIInv'
  BY <1>2, CyclicIterationFresh
<1>3. CASE NextLevel
  <2>1. /\ phase = "scc" /\ phase' = "level" /\ level' = level + 1 /\ level \in Nat
        /\ UNCHANGED <<kind, prog, scc, levelOf, prev, G>>
    BY <1>3 DEF NextLevel, CrossIInv, CrossTypeOK
  <2>2. \A m \in Modules : levelOf[m] <= level => levelOf'[m] < level'
    BY <2>1, LevelsAreNumbers DEF FreshIInv
  <2>3. \A m \in Modules : Behind(m) => Behind(m)'
    BY <2>1, <2>2 DEF Behind
  <2> QED BY <2>1, <2>3, FreshUnmerged
<1>4. CASE EndPass
  <2>1. phase' \in {"save", "level"} /\ UNCHANGED <<kind, prog, scc, levelOf, prev, G>>
    BY <1>4 DEF EndPass
  <2>2. kind = "uninitialized" => phase' = "save"
    <3>1. kind = "uninitialized" => pass = PassCap
      BY DEF CrossIInv, CrossTypeOK, PassCap
    <3> QED BY <1>4, <3>1 DEF EndPass
  <2> QED BY <2>1, <2>2, FreshUnmerged DEF Behind
<1>5. CASE SaveCache
  BY <1>5, FreshUnmerged DEF SaveCache, Behind
<1>6. CASE NextRun
  <2>1. /\ levelOf' = Levels(prog') /\ phase' = "level" /\ prev' = Nothing /\ G' = NoSummary
    BY <1>6 DEF NextRun
  <2> QED BY <2>1 DEF FreshIInv, Nothing, NoSummary
<1>7. CASE UNCHANGED crossVars
  <2>1. UNCHANGED <<kind, prog, scc, levelOf, phase, level, todo, prev, G>>
    BY <1>7 DEF crossVars
  <2>2. CyclicAt(level)' = CyclicAt(level) /\ (\A f \in Funcs : OffCycles(f)' <=> OffCycles(f))
    BY <2>1 DEF CyclicAt, TrivialAt, AtLevel, OffCycles
  <2>3. \A f \in Funcs : \A e : StillGiven(f, e)' <=> StillGiven(f, e)
    BY <2>1 DEF StillGiven, Behind
  <2> QED BY <2>1, <2>2, <2>3 DEF FreshIInv, CalleesUnique
<1> QED BY <1>1, <1>2, <1>3, <1>4, <1>5, <1>6, <1>7 DEF CrossNext

LEMMA FreshInit == CrossInit => FreshIInv
BY DEF CrossInit, FreshIInv, Nothing, NoSummary

-----------------------------------------------------------------------------
(* The inductive invariant holds of every construction of the index.       *)
THEOREM CrossInvariant == CrossSpec => []CrossIInv
BY CrossInitIInv, CrossStepIInv, PTL DEF CrossSpec

(* Whatever the program, the order of the modules, the caps and the cache  *)
(* contents earlier runs have left, buildCrossTUSummaryIndex never puts    *)
(* into the index an effect some closed index does without.                *)
THEOREM IndexInventsNothing == CrossSpec => []NothingInvented
<1>1. CrossIInv => NothingInvented
  BY DEF CrossIInv, SummariesSound, NothingInvented
<1> QED
  BY <1>1, CrossInvariant, PTL

(* Whatever earlier passes and runs have cached, and whichever of their    *)
(* files are there, tryCacheForModule answers what buildModuleSummary      *)
(* would: the key holds all that a summary depends on.                     *)
THEOREM CachedSummariesAreFresh == CrossSpec => []CachedAsBuilt
<1>1. CrossIInv => CachedAsBuilt
  BY SummaryIsBuilt DEF CachedAsBuilt
<1> QED
  BY <1>1, CrossInvariant, PTL

(* Whatever the program, a construction whose last pass left the hash of   *)
(* the index unchanged returns an index that no module can add to; edges   *)
(* missing from the dependency graph cost passes, never effects.           *)
THEOREM ConvergedIndexIsClosed == CrossSpec => []ConvergedIsClosed
<1>1. CrossIInv => ConvergedIsClosed
  BY DEF CrossIInv
<1> QED
  BY <1>1, CrossInvariant, PTL

\* What the walk has left behind is closed when it is over.
LEMMA WalkIsClosed == WalkIInv => OrderedWalkIsClosed
BY DEF WalkIInv, OrderedWalkIsClosed, ResultIsClosed, IsClosed, Passed, Settled

(* One walk in dependency order is enough where every callee has one       *)
(* definition, on every call graph and with whatever the caches hold:      *)
(* unless buildCrossTUSummaryIndex gives a component up at                 *)
(* kCrossTUMaxIterations while its summaries still change, the index it    *)
(* returns is closed.                                                      *)
THEOREM OneWalkIsEnough ==
  ASSUME IsFiniteSet(Modules)
  PROVE  CrossSpec /\ [][~CutShort]_crossVars => []OrderedWalkIsClosed
<1>1. CrossInit => WalkIInv
  BY WalkInit
<1>2. CrossIInv /\ WalkIInv /\ [CrossNext]_crossVars /\ [~CutShort]_crossVars => WalkIInv'
  BY WalkStep
<1> QED BY <1>1, <1>2, CrossInvariant, WalkIsClosed, PTL DEF CrossSpec

(* The uninitialized index, whose summaries may lose effects when more is  *)
(* known of their callees, keeps nothing stale outside the cycles, for     *)
(* every program with single definitions: the single walk merges a         *)
(* summary only when those of its callees are final.                       *)
THEOREM NothingStaleOffCycles ==
  ASSUME IsFiniteSet(Modules)
  PROVE  CrossSpec => []NothingStale
<1>1. CrossIInv /\ FreshIInv /\ [CrossNext]_crossVars => FreshIInv'
  BY FreshStep
<1>2. FreshIInv => NothingStale
  BY DEF FreshIInv, NothingStale, StillGiven
<1> QED BY <1>1, <1>2, FreshInit, CrossInvariant, PTL DEF CrossSpec
=============================================================================
