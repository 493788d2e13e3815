------------------------- MODULE PreparationProofs -------------------------
(***************************************************************************)
(* For every module, every graph of dependencies and every order of the    *)
(* visits: the component search inside the preparation of a module finds   *)
(* the components, in order, and the functions it hands on as recursive    *)
(* are those on a cycle of calls, from before the first stack is computed  *)
(* to the last path.  The search is TarjanProofs'; what is added here is   *)
(* that the preparation runs it on the right graph and keeps its result.   *)
(* Then the stack totals: what dfsComputeStack stores for a function is    *)
(* the weight of a chain of calls, the heaviest one where no cycle is      *)
(* reached, and the reported path is such a chain.                         *)
(***************************************************************************)
EXTENDS Preparation, ComponentGraphProofs

\* Functions are numbered within the bound, calls are between functions of the module
\* that have a body, and dependencies are between modules.
PrepInputs ==
  /\ Size \in Nat
  /\ Fns \subseteq 1 .. Size
  /\ \A m \in Inputs : m.calls \subseteq Fns \X Fns
  /\ \A g \in ModuleGraphs : g.edges \subseteq (1 .. Size) \X (1 .. Size)

-----------------------------------------------------------------------------
SP == INSTANCE TarjanProofs WITH
  Inputs <- ModuleGraphs \cup {CallGraph(m) : m \in Inputs}, stack <- open, frames <- calls

\* Preparation and the proofs name the search each for itself: it is the same.
LEMMA SameSearch ==
  /\ Search!Root \/ Search!Descend \/ Search!SeeVisited \/ Search!Return =>
       SP!Root \/ SP!Descend \/ SP!SeeVisited \/ SP!Return
  /\ Search!ComputeLevels => SP!ComputeLevels
  /\ Search!TarjanStart => SP!TarjanStart
  /\ Search!Searched <=> SP!Searched
  /\ Search!RecursiveFuncs = SP!RecursiveFuncs
  /\ SP!PopsTheComponents => Search!PopsTheComponents
  /\ SP!DependenciesFirst => Search!DependenciesFirst
  /\ SP!LevelsAreRight => Search!LevelsAreRight
<1>1. Search!Root => SP!Root
  BY DEF Search!Root, SP!Root, Search!Candidates, SP!Candidates, Search!Nodes, SP!Nodes,
     Search!Successors, SP!Successors, Search!input, SP!input, Search!Enter, SP!Enter
<1>2. Search!Descend => SP!Descend
  BY DEF Search!Descend, SP!Descend, Search!Candidates, SP!Candidates, Search!Nodes, SP!Nodes,
     Search!Successors, SP!Successors, Search!input, SP!input, Search!Enter, SP!Enter,
     Search!Top, SP!Top, Search!Taken, SP!Taken
<1>3. Search!SeeVisited => SP!SeeVisited
  BY DEF Search!SeeVisited, SP!SeeVisited, Search!input, SP!input, Search!Top, SP!Top,
     Search!Taken, SP!Taken, Search!Min, SP!Min
<1>4. Search!Return => SP!Return
  BY DEF Search!Return, SP!Return, Search!input, SP!input, Search!Top, SP!Top,
     Search!PopComponent, SP!PopComponent, Search!Depth, SP!Depth,
     Search!Min, SP!Min
<1>7. Search!Searched <=> SP!Searched
  BY DEF Search!Searched, SP!Searched, Search!Candidates, SP!Candidates, Search!Nodes, SP!Nodes
<1>5. Search!ComputeLevels => SP!ComputeLevels
  <2>2. Search!LevelVector = SP!LevelVector
    BY DEF Search!LevelVector, SP!LevelVector, Search!Dependencies, SP!Dependencies,
       Search!Max, SP!Max
  <2> QED BY <1>7, <2>2 DEF Search!ComputeLevels, SP!ComputeLevels, Search!input, SP!input
<1>6. Search!TarjanStart => SP!TarjanStart
  BY DEF Search!TarjanStart, SP!TarjanStart, Search!Candidates, SP!Candidates,
     Search!Considered, SP!Considered, Search!Nodes, SP!Nodes, Search!ComponentsOf,
     SP!ComponentsOf, Search!LevelsOf, SP!LevelsOf, Search!Reach, SP!Reach,
     Search!ReachableFrom, SP!ReachableFrom, Search!Cardinality, SP!Cardinality
<1>8. Search!RecursiveFuncs = SP!RecursiveFuncs
  BY DEF Search!RecursiveFuncs, SP!RecursiveFuncs, Search!RecursiveComponents,
     SP!RecursiveComponents, Search!HasSelfCall, SP!HasSelfCall, Search!Candidates,
     SP!Candidates, Search!Nodes, SP!Nodes, Search!Successors, SP!Successors,
     Search!Cardinality, SP!Cardinality
<1>9. SP!PopsTheComponents => Search!PopsTheComponents
  BY <1>7 DEF Search!PopsTheComponents, SP!PopsTheComponents, Search!Candidates, SP!Candidates,
     Search!Nodes, SP!Nodes
<1>10. SP!DependenciesFirst => Search!DependenciesFirst
  BY DEF Search!DependenciesFirst, SP!DependenciesFirst, Search!Candidates, SP!Candidates,
     Search!Nodes, SP!Nodes, Search!Successors, SP!Successors
<1>11. SP!LevelsAreRight => Search!LevelsAreRight
  BY <1>7 DEF Search!LevelsAreRight, SP!LevelsAreRight, Search!Finished, SP!Finished
<1> QED BY <1>1, <1>2, <1>3, <1>4, <1>5, <1>6, <1>7, <1>8, <1>9, <1>10, <1>11

-----------------------------------------------------------------------------
\* The inductive invariant: which graph is searched, the invariant of the search until
\* its result is known, and what the result is from then on.
PrepIInv ==
  /\ module = NoModule \/ (module \in Inputs /\ graph = CallGraph(module))
  /\ known = FALSE => SP!TarjanIInv /\ SP!LevelIInv
  /\ known # FALSE => sccs = << >> /\ (SP!Searched => SP!Candidates = {})
  /\ RecursiveAreOnCycles

(* The functions on a cycle of the graph that is searched for a module are *)
(* the ones on a cycle of calls between functions that may recurse.        *)
LEMMA CyclesOfCallGraph ==
  ASSUME PrepInputs, module \in Inputs, graph = CallGraph(module)
  PROVE  SP!OnCycle(SP!Candidates, SP!Considered) = ComputeRecursive(module)
<1> DEFINE free == Fns \ module.contract
           E == {e \in module.calls : e[1] \in free /\ e[2] \in free}
<1>1. SP!Candidates = free
  BY DEF SP!Candidates, SP!Nodes, CallGraph, PrepInputs
<1>2. SP!Considered = E
  BY <1>1 DEF SP!Considered, CallGraph
<1>3. ComputeRecursive(module) = OnCycle(free, E)
  BY DEF ComputeRecursive
<1> HIDE DEF free, E
<1>4. SP!OnCycle(free, E) = OnCycle(free, E)
  BY DEF SP!OnCycle, OnCycle, SP!ComponentsOf, ComponentsOf, SP!Reach, Reach,
     SP!ReachableFrom, ReachableFrom, SP!Cardinality, Cardinality
<1> QED BY <1>1, <1>2, <1>3, <1>4

LEMMA PrepInitIInv ==
  ASSUME PrepInputs, PrepInit
  PROVE  PrepIInv
<1>1. graph.edges \subseteq SP!Nodes \X SP!Nodes
  <2>1. CASE graph \in ModuleGraphs
    BY <2>1 DEF PrepInputs, SP!Nodes
  <2>2. CASE module \in Inputs /\ graph = CallGraph(module)
    <3>1. graph.edges = module.calls /\ module.calls \subseteq Fns \X Fns /\ Fns \subseteq 1 .. Size
      BY <2>2 DEF PrepInputs, CallGraph
    <3> DEFINE N == 1 .. Size
    <3>2. SP!Nodes = N
      BY DEF SP!Nodes
    <3> HIDE DEF N
    <3>3. Fns \X Fns \subseteq N \X N
      BY <3>1 DEF N
    <3> QED BY <3>1, <3>2, <3>3
  <2> QED BY <2>1, <2>2 DEF PrepInit
<1>2. SP!TarjanStart
  BY SameSearch DEF PrepInit
<1>3. SP!TarjanIInv /\ SP!LevelIInv
  BY <1>1, <1>2, SP!StartHasIInv, SP!StartHasLevels
<1>4. known = FALSE
  BY DEF PrepInit, Unvisited
<1> QED BY <1>3, <1>4 DEF PrepInit, PrepIInv, RecursiveAreOnCycles

(* The search is over for good, and its result is what it should be.       *)
LEMMA FoundRecursiveIInv ==
  ASSUME PrepInputs, PrepIInv, FoundRecursive
  PROVE  PrepIInv'
<1>1. /\ module # NoModule /\ known = FALSE /\ SP!Searched /\ known' = TRUE
      /\ recursive' = SP!RecursiveFuncs /\ index' = [v \in 1 .. Size |-> -1]
      /\ sccs' = << >> /\ UNCHANGED <<graph, module>>
  BY SameSearch DEF FoundRecursive
<1>2. module \in Inputs /\ graph = CallGraph(module) /\ SP!TarjanIInv /\ Size \in Nat
  BY <1>1 DEF PrepIInv, PrepInputs
<1>3. recursive' = ComputeRecursive(module)
  BY <1>1, <1>2, SP!IInvFindsRecursive, CyclesOfCallGraph
<1>4. ComputeRecursive(module)' = ComputeRecursive(module) /\ CallGraph(module)' = CallGraph(module)
  BY <1>1 DEF ComputeRecursive, CallGraph
<1>5. SP!Searched' => SP!Candidates' = {}
  <2>1. SP!Candidates' \subseteq 1 .. Size
    BY DEF SP!Candidates, SP!Nodes
  <2>2. \A v \in SP!Candidates' : ~ (index'[v] >= 0)
    BY <1>1, <2>1
  <2> QED BY <2>2 DEF SP!Searched
<1> QED BY <1>1, <1>2, <1>3, <1>4, <1>5 DEF PrepIInv, RecursiveAreOnCycles

LEMMA PrepNextIInv ==
  ASSUME PrepInputs, PrepIInv, [PrepNext]_prepVars
  PROVE  PrepIInv'
<1>1. CASE SearchStep
  <2>1. known = FALSE /\ known' = FALSE /\ UNCHANGED module
          /\ (SP!Root \/ SP!Descend \/ SP!SeeVisited \/ SP!Return)
    BY <1>1, SameSearch DEF SearchStep, IsSearching, stackVars
  <2>2. UNCHANGED graph
    BY <2>1 DEF SP!Root, SP!Descend, SP!SeeVisited, SP!Return, SP!input
  <2>3. SP!TarjanIInv' /\ SP!LevelIInv'
    BY <2>1, SP!SearchKeepsIInv, SP!SearchKeepsLevels DEF PrepIInv
  <2> QED BY <2>1, <2>2, <2>3 DEF PrepIInv, RecursiveAreOnCycles, CallGraph
<1>2. CASE LevelStep
  <2>1. known = FALSE /\ known' = FALSE /\ module = NoModule /\ UNCHANGED module
          /\ SP!ComputeLevels
    BY <1>2, SameSearch DEF LevelStep, IsSearching, stackVars
  <2>2. SP!TarjanIInv' /\ SP!LevelIInv'
    BY <2>1, SP!RestKeepsIInv, SP!ComputeLevelsIsRight DEF PrepIInv, PrepInputs, SP!ComputeLevels
  <2>3. UNCHANGED graph
    BY <2>1 DEF SP!ComputeLevels, SP!input
  <2> QED BY <2>1, <2>2, <2>3 DEF PrepIInv, RecursiveAreOnCycles, NoModule
<1>3. CASE FoundRecursive
  BY <1>3, FoundRecursiveIInv
<1>4. CASE StackStep \/ PrepOver \/ UNCHANGED prepVars
  <2>1. UNCHANGED <<searchVars, known, module, recursive>>
    BY <1>4 DEF StackStep, PrepOver, prepVars, stackVars, Start, Descend, SeeVisited, Return,
       BuildResults, BeginPath, ExtendPath, EndPath
  <2>2. UNCHANGED <<SP!input, index, lowlink, open, onStack, nextIndex, calls, sccs, levels, graph>>
    BY <2>1 DEF searchVars, SP!input
  <2>3. known = FALSE => SP!TarjanIInv' /\ SP!LevelIInv'
    BY <2>2, SP!RestKeepsIInv, SP!RestKeepsLevels DEF PrepIInv
  <2>4. (SP!Searched' <=> SP!Searched) /\ SP!Candidates' = SP!Candidates
    BY <2>2 DEF SP!Searched, SP!Candidates
  <2>5. ComputeRecursive(module)' = ComputeRecursive(module) /\ CallGraph(module)' = CallGraph(module)
    BY <2>1 DEF ComputeRecursive, CallGraph
  <2> QED BY <2>1, <2>2, <2>3, <2>4, <2>5 DEF PrepIInv, RecursiveAreOnCycles, NoModule
<1> QED BY <1>1, <1>2, <1>3, <1>4 DEF PrepNext

(* The invariant holds of every preparation.                               *)
THEOREM PreparationInvariant ==
  ASSUME PrepInputs
  PROVE  PrepSpec => []PrepIInv
<1>1. PrepInit => PrepIInv
  BY PrepInitIInv
<1>2. PrepIInv /\ [PrepNext]_prepVars => PrepIInv'
  BY PrepNextIInv
<1> QED BY <1>1, <1>2, PTL DEF PrepSpec

(* RecursiveFuncs are the functions on a cycle of calls, for every module, *)
(* every norecurse attribute and every order of the search.                *)
THEOREM RecursiveFunctionsAreFound ==
  ASSUME PrepInputs
  PROVE  PrepSpec => []RecursiveAreOnCycles
<1>1. PrepIInv => RecursiveAreOnCycles
  BY DEF PrepIInv
<1> QED BY <1>1, PreparationInvariant, PTL

(* What PrepIInv says of the search, in the words of Preparation.          *)
LEMMA PrepIInvImplies ==
  ASSUME PrepIInv
  PROVE  PopsTheComponents /\ DependenciesFirst /\ LevelsAreRight
<1>1. SP!PopsTheComponents /\ SP!DependenciesFirst /\ SP!LevelsAreRight
  <2>1. CASE known = FALSE
    <3>1. SP!TarjanIInv /\ SP!LevelIInv
      BY <2>1 DEF PrepIInv
    <3> QED BY <3>1, SP!IInvPopsTheComponents, SP!LevelIInvIsRight DEF SP!TarjanIInv, SP!PoppedIInv
  <2>2. CASE known # FALSE
    BY <2>2 DEF PrepIInv, SP!PopsTheComponents, SP!DependenciesFirst, SP!LevelsAreRight
  <2> QED BY <2>1, <2>2
<1> QED BY <1>1, SameSearch DEF PopsTheComponents, DependenciesFirst, LevelsAreRight

(* The search inside the preparation, strongConnect, has popped the        *)
(* strongly connected components when it ends, each once.                  *)
THEOREM PreparationFindsComponents ==
  ASSUME PrepInputs
  PROVE  PrepSpec => []PopsTheComponents
<1>1. PrepIInv => PopsTheComponents
  BY PrepIInvImplies
<1> QED BY <1>1, PreparationInvariant, PTL

(* It pops each after those it depends on, the order in which              *)
(* buildCrossTUSummaryIndex relies on them.                                *)
THEOREM PreparationOrdersComponents ==
  ASSUME PrepInputs
  PROVE  PrepSpec => []DependenciesFirst
<1>1. PrepIInv => DependenciesFirst
  BY PrepIInvImplies
<1> QED BY <1>1, PreparationInvariant, PTL

(* And computeSCCLevels puts a module just above all that it depends on,   *)
(* for every graph of dependencies.                                        *)
THEOREM PreparationLevelsAreRight ==
  ASSUME PrepInputs
  PROVE  PrepSpec => []LevelsAreRight
<1>1. PrepIInv => LevelsAreRight
  BY PrepIInvImplies
<1> QED BY <1>1, PreparationInvariant, PTL

-----------------------------------------------------------------------------
\* Stack totals.

\* Allocas have sizes, and the data layout an alignment.
StackInputs ==
  /\ Align \in Nat \ {0}
  /\ \A m \in Inputs : \A f \in Fns : m.allocas[f] \in Nat

\* Every frame has a size.
FramesAreSized == \A f \in Fns : LocalBytes(f) \in Nat

LEMMA QuotientIsNat ==
  ASSUME NEW a \in Nat, NEW b \in Nat \ {0}
  PROVE  a \div b \in Nat
OBVIOUS

LEMMA AlignToIsNat ==
  ASSUME StackInputs, NEW n \in Nat
  PROVE  AlignTo(n) \in Nat
<1>1. n + Align - 1 \in Nat
  BY DEF StackInputs
<1>2. (n + Align - 1) \div Align \in Nat
  BY <1>1, QuotientIsNat DEF StackInputs
<1>3. \A a, b \in Nat : a * b \in Nat
  OBVIOUS
<1> QED BY <1>2, <1>3 DEF AlignTo, StackInputs

LEMMA FramesHaveSizes ==
  ASSUME StackInputs, module \in Inputs
  PROVE  FramesAreSized
<1> SUFFICES ASSUME NEW f \in Fns PROVE LocalBytes(f) \in Nat
  BY DEF FramesAreSized
<1>1. FrameIR(f) \in Nat
  BY AlignToIsNat DEF FrameIR, StackInputs
<1>2. FrameABI(f) \in Nat
  <2> DEFINE frame == IF Align > 1 THEN Max({FrameIR(f), Align}) ELSE FrameIR(f)
  <2>1. Max({FrameIR(f), Align}) \in Nat
    <3>1. PICK x \in {FrameIR(f), Align} : \A y \in {FrameIR(f), Align} : x >= y
      BY <1>1 DEF StackInputs
    <3>2. Max({FrameIR(f), Align}) \in {FrameIR(f), Align}
      BY <3>1 DEF Max
    <3> QED BY <3>2, <1>1 DEF StackInputs
  <2>2. frame \in Nat
    BY <2>1, <1>1
  <2>3. AlignTo(frame + Align) \in Nat
    BY <2>2, AlignToIsNat DEF StackInputs
  <2> HIDE DEF frame
  <2>4. FrameABI(f) = IF Align > 1 /\ Callees(f) \ {f} # {} THEN AlignTo(frame + Align) ELSE frame
    BY DEF FrameABI, frame
  <2> QED BY <2>2, <2>3, <2>4
<1> QED BY <1>1, <1>2 DEF LocalBytes

-----------------------------------------------------------------------------
\* The weight of a chain, one function after the other.

SumsUp(c, sum) ==
  /\ DOMAIN sum = 0 .. Len(c)
  /\ sum[0] = 0
  /\ \A n \in 1 .. Len(c) : sum[n] = sum[n - 1] + LocalBytes(c[n])

LEMMA SumsAreNat ==
  ASSUME FramesAreSized, NEW c \in Seq(Fns), NEW sum, SumsUp(c, sum)
  PROVE  \A n \in 0 .. Len(c) : sum[n] \in Nat
<1> DEFINE wrong == {n \in 0 .. Len(c) : sum[n] \notin Nat}
<1> SUFFICES ASSUME wrong # {} PROVE FALSE
  OBVIOUS
<1>0. wrong \in SUBSET Nat
  OBVIOUS
<1>1. PICK n \in wrong : \A k \in wrong : n <= k
  <2> HIDE DEF wrong
  <2> QED BY <1>0, LeastNat
<1>2. n \in 1 .. Len(c) /\ n - 1 \in 0 .. Len(c)
  BY <1>1 DEF SumsUp
<1>3. sum[n - 1] \in Nat
  BY <1>1, <1>2
<1> QED BY <1>1, <1>2, <1>3 DEF SumsUp, FramesAreSized

LEMMA SumsAreUnique ==
  ASSUME NEW c \in Seq(Fns), NEW s, NEW t, SumsUp(c, s), SumsUp(c, t)
  PROVE  s[Len(c)] = t[Len(c)]
<1> DEFINE differ == {n \in 0 .. Len(c) : s[n] # t[n]}
<1> SUFFICES ASSUME differ # {} PROVE FALSE
  OBVIOUS
<1>0. differ \in SUBSET Nat
  OBVIOUS
<1>1. PICK n \in differ : \A k \in differ : n <= k
  <2> HIDE DEF differ
  <2> QED BY <1>0, LeastNat
<1>2. n \in 1 .. Len(c) /\ n - 1 \in 0 .. Len(c)
  BY <1>1 DEF SumsUp
<1>3. s[n - 1] = t[n - 1]
  BY <1>1, <1>2
<1> QED BY <1>1, <1>2, <1>3 DEF SumsUp

LEMMA SumsExist ==
  ASSUME NEW c \in Seq(Fns)
  PROVE  \E sum : SumsUp(c, sum)
<1> DEFINE UpTo(n, s) == /\ DOMAIN s = 0 .. n
                         /\ s[0] = 0
                         /\ \A k \in 1 .. n : s[k] = s[k - 1] + LocalBytes(c[k])
           none == {n \in 0 .. Len(c) : ~ \E s : UpTo(n, s)}
<1>1. none = {}
  <2> SUFFICES ASSUME none # {} PROVE FALSE
    OBVIOUS
  <2>0. none \in SUBSET Nat
    OBVIOUS
  <2>1. PICK n \in none : \A k \in none : n <= k
    <3> HIDE DEF none
    <3> QED BY <2>0, LeastNat
  <2>2. UpTo(0, [k \in 0 .. 0 |-> 0])
    OBVIOUS
  <2>3. n \in 1 .. Len(c) /\ n - 1 \in 0 .. Len(c)
    <3>1. n # 0
      <4> HIDE DEF UpTo
      <4> QED BY <2>1, <2>2
    <3> QED BY <2>1, <3>1
  <2>4. PICK s : UpTo(n - 1, s)
    BY <2>1, <2>3
  <2> DEFINE t == [k \in 0 .. n |-> IF k = n THEN s[n - 1] + LocalBytes(c[n]) ELSE s[k]]
  <2>5. UpTo(n, t)
    BY <2>3, <2>4
  <2> QED BY <2>1, <2>5
<1>2. PICK s : UpTo(Len(c), s)
  <2>1. Len(c) \in 0 .. Len(c)
    OBVIOUS
  <2> QED BY <1>1, <2>1
<1> QED BY <1>2 DEF SumsUp

LEMMA WeightIsSum ==
  ASSUME NEW c \in Seq(Fns), NEW sum, SumsUp(c, sum)
  PROVE  Weight(c) = sum[Len(c)]
<1> DEFINE Solves(s) ==
             s = [n \in 0 .. Len(c) |-> IF n = 0 THEN 0 ELSE s[n - 1] + LocalBytes(c[n])]
           w == CHOOSE s : Solves(s)
<1>1. Weight(c) = w[Len(c)]
  BY DEF Weight
<1>2. \E s : Solves(s)
  <2> DEFINE s == [n \in 0 .. Len(c) |-> sum[n]]
  <2>1. Solves(s)
    <3>1. \A n \in 0 .. Len(c) : s[n] = IF n = 0 THEN 0 ELSE s[n - 1] + LocalBytes(c[n])
      BY DEF SumsUp
    <3> HIDE DEF s
    <3>2. s = [n \in 0 .. Len(c) |-> s[n]]
      BY DEF s
    <3> QED BY <3>1, <3>2
  <2> QED BY <2>1
<1>3. Solves(w)
  BY <1>2
<1> HIDE DEF w
<1>4. SumsUp(c, w)
  BY <1>3 DEF SumsUp
<1> QED BY <1>1, <1>4, SumsAreUnique

LEMMA WeightOfOne ==
  ASSUME FramesAreSized, NEW f \in Fns
  PROVE  Weight(<<f>>) = LocalBytes(f)
<1> DEFINE s == [n \in 0 .. 1 |-> IF n = 0 THEN 0 ELSE LocalBytes(f)]
<1>1. SumsUp(<<f>>, s)
  BY DEF SumsUp, FramesAreSized
<1> QED BY <1>1, WeightIsSum

LEMMA WeightIsNat ==
  ASSUME FramesAreSized, NEW c \in Seq(Fns)
  PROVE  Weight(c) \in Nat
<1>1. PICK s : SumsUp(c, s)
  BY SumsExist
<1> QED BY <1>1, WeightIsSum, SumsAreNat

LEMMA WeightOfAppend ==
  ASSUME FramesAreSized, NEW c \in Seq(Fns), NEW g \in Fns
  PROVE  Weight(Append(c, g)) = Weight(c) + LocalBytes(g)
<1>1. PICK s : SumsUp(c, s)
  BY SumsExist
<1> DEFINE t == [n \in 0 .. Len(c) + 1 |-> IF n = Len(c) + 1 THEN s[Len(c)] + LocalBytes(g) ELSE s[n]]
<1>2. SumsUp(Append(c, g), t)
  BY <1>1 DEF SumsUp
<1>3. Weight(Append(c, g)) = t[Len(c) + 1]
  BY <1>2, WeightIsSum
<1> QED BY <1>1, <1>3, WeightIsSum

LEMMA WeightOfPush ==
  ASSUME FramesAreSized, NEW c \in Seq(Fns), NEW f \in Fns
  PROVE  Weight(<<f>> \o c) = LocalBytes(f) + Weight(c)
<1>1. PICK s : SumsUp(c, s)
  BY SumsExist
<1>2. \A n \in 0 .. Len(c) : s[n] \in Nat
  BY <1>1, SumsAreNat
<1> DEFINE t == [n \in 0 .. Len(c) + 1 |-> IF n = 0 THEN 0 ELSE LocalBytes(f) + s[n - 1]]
<1>3. SumsUp(<<f>> \o c, t)
  <2>1. Len(<<f>> \o c) = Len(c) + 1 /\ <<f>> \o c \in Seq(Fns)
    OBVIOUS
  <2>2. t[0] = 0 /\ DOMAIN t = 0 .. Len(c) + 1
    OBVIOUS
  <2>3. ASSUME NEW n \in 1 .. Len(c) + 1
        PROVE  t[n] = t[n - 1] + LocalBytes((<<f>> \o c)[n])
    <3>1. CASE n = 1
      <4>1. (<<f>> \o c)[1] = f /\ t[1] = LocalBytes(f) + s[0] /\ t[0] = 0 /\ s[0] = 0
        BY <1>1 DEF SumsUp
      <4> QED BY <4>1, <3>1 DEF FramesAreSized
    <3>2. CASE n # 1
      <4>1. n - 1 \in 1 .. Len(c) /\ n \in 2 .. Len(c) + 1
        BY <3>2
      <4>2. (<<f>> \o c)[n] = c[n - 1]
        BY <4>1
      <4>3. s[n - 1] = s[n - 2] + LocalBytes(c[n - 1]) /\ c[n - 1] \in Fns
        BY <1>1, <4>1 DEF SumsUp
      <4>4. t[n] = LocalBytes(f) + s[n - 1] /\ t[n - 1] = LocalBytes(f) + s[n - 2]
        BY <4>1
      <4>5. s[n - 2] \in Nat /\ LocalBytes(f) \in Nat /\ LocalBytes(c[n - 1]) \in Nat
        BY <1>2, <4>1, <4>3 DEF FramesAreSized
      <4> QED BY <4>2, <4>3, <4>4, <4>5
    <3> QED BY <3>1, <3>2
  <2> HIDE DEF t
  <2> QED BY <2>1, <2>2, <2>3 DEF SumsUp
<1>4. <<f>> \o c \in Seq(Fns) /\ Len(<<f>> \o c) = Len(c) + 1
  OBVIOUS
<1>5. Weight(<<f>> \o c) = t[Len(c) + 1]
  BY <1>3, <1>4, WeightIsSum
<1>6. t[Len(c) + 1] = LocalBytes(f) + s[Len(c)]
  OBVIOUS
<1> QED BY <1>1, <1>5, <1>6, WeightIsSum

-----------------------------------------------------------------------------
\* Chains of calls.

LEMMA ChainIs ==
  ASSUME NEW c \in Chains
  PROVE  /\ c \in Seq(Fns) /\ Len(c) \in Nat \ {0} /\ DOMAIN c = 1 .. Len(c)
         /\ \A i \in 1 .. Len(c) : c[i] \in Fns
         /\ \A i, j \in 1 .. Len(c) : c[i] = c[j] => i = j
         /\ \A i \in 1 .. Len(c) - 1 : c[i + 1] \in Callees(c[i])
         /\ Last(c) \in Fns
<1>1. PICK n \in 1 .. Cardinality(Fns) : c \in [1 .. n -> Fns]
  BY DEF Chains
<1>2. n \in Nat /\ n > 0
  <2> DEFINE N == Cardinality(Fns)
  <2> HIDE DEF N
  <2>1. \A k \in 1 .. N : k \in Int /\ 1 <= k
    OBVIOUS
  <2> QED BY <2>1 DEF N
<1>3. c \in Seq(Fns) /\ Len(c) = n
  BY <1>1, <1>2
<1>4. \A i \in 1 .. n : c[i] \in Fns
  BY <1>1
<1>5. \A i \in 1 .. n - 1 : c[i + 1] \in Callees(c[i])
  BY <1>2, <1>3, <1>4 DEF Chains, Callees
<1> QED BY <1>1, <1>2, <1>3, <1>4, <1>5 DEF Chains, Last

LEMMA ChainMade ==
  ASSUME IsFiniteSet(Fns), NEW c \in Seq(Fns), c # << >>,
         \A i, j \in 1 .. Len(c) : c[i] = c[j] => i = j,
         \A i \in 1 .. Len(c) - 1 : c[i + 1] \in Callees(c[i])
  PROVE  c \in Chains
<1>1. Len(c) \in Nat \ {0} /\ DOMAIN c = 1 .. Len(c) /\ c \in [1 .. Len(c) -> Fns]
  OBVIOUS
<1>2. c \in Injection(1 .. Len(c), Fns)
  BY <1>1 DEF Injection, IsInjective
<1>3. Cardinality(1 .. Len(c)) <= Cardinality(Fns)
  BY <1>2, FS_Injection
<1>4. Cardinality(1 .. Len(c)) = Len(c)
  BY <1>1, FS_Interval
<1>5. Cardinality(Fns) \in Nat
  BY FS_CardinalityType
<1>6. Len(c) \in 1 .. Cardinality(Fns)
  BY <1>1, <1>3, <1>4, <1>5
<1>7. \A i \in 1 .. Len(c) - 1 : <<c[i], c[i + 1]>> \in module.calls
  BY DEF Callees
<1> HIDE DEF Callees
<1> QED BY <1>1, <1>6, <1>7 DEF Chains

\* What f reaches by calls, f included.
Below(f) == ReachableFrom(Fns, module.calls, f)

\* Later functions of a chain are reached from earlier ones.
LEMMA ChainReaches ==
  ASSUME NEW c \in Chains, NEW i \in 1 .. Len(c), NEW j \in i .. Len(c)
  PROVE  c[j] \in Below(c[i])
<1> DEFINE out == {k \in i .. Len(c) : c[k] \notin Below(c[i])}
<1> SUFFICES ASSUME out # {} PROVE FALSE
  OBVIOUS
<1>0. Len(c) \in Nat /\ out \in SUBSET Nat
  BY ChainIs
<1>1. PICK k \in out : \A l \in out : k <= l
  <2> HIDE DEF out
  <2> QED BY <1>0, LeastNat
<1>2. c[i] \in Below(c[i])
  BY ChainIs, ReachableSelf DEF Below
<1>3. k - 1 \in i .. Len(c) /\ k - 1 \in 1 .. Len(c) - 1 /\ k - 1 + 1 = k
  BY <1>0, <1>1, <1>2
<1>4. c[k - 1] \in Below(c[i]) /\ k \in 1 .. Len(c)
  BY <1>0, <1>1, <1>3
<1>5. c[k] \in Callees(c[k - 1]) /\ c[k] \in Fns /\ c[k - 1] \in Fns
  <2>1. c[k - 1 + 1] \in Callees(c[k - 1])
    BY <1>3, ChainIs
  <2> QED BY <2>1, <1>3, <1>4, ChainIs
<1>6. c[k] \in Below(c[k - 1])
  BY <1>5, ReachableEdge DEF Callees, Below
<1> QED BY <1>1, <1>4, <1>6, ReachableTrans DEF Below

LEMMA ChainOfOne ==
  ASSUME IsFiniteSet(Fns), NEW f \in Fns
  PROVE  <<f>> \in ChainsFrom(f) /\ Last(<<f>>) = f
<1> DEFINE c == <<f>>
<1>1. c \in Seq(Fns) /\ Len(c) = 1 /\ c # << >>
  OBVIOUS
<1> HIDE DEF c
<1>2. c \in Chains
  <2>1. \A i, j \in 1 .. Len(c) : c[i] = c[j] => i = j
    BY <1>1
  <2>2. \A i \in 1 .. Len(c) - 1 : c[i + 1] \in Callees(c[i])
    BY <1>1
  <2> QED BY <1>1, <2>1, <2>2, ChainMade
<1> QED BY <1>2 DEF ChainsFrom, Last, c

LEMMA ChainPushed ==
  ASSUME IsFiniteSet(Fns), NEW f \in Fns, NEW g \in Callees(f), NEW c \in ChainsFrom(g),
         \A i \in 1 .. Len(c) : c[i] # f
  PROVE  <<f>> \o c \in ChainsFrom(f) /\ Last(<<f>> \o c) = Last(c)
<1> DEFINE d == <<f>> \o c
<1>1. c \in Chains /\ c[1] = g
  BY DEF ChainsFrom
<1>2. c \in Seq(Fns) /\ Len(c) \in Nat \ {0}
  BY <1>1, ChainIs
<1>3. d \in Seq(Fns) /\ Len(d) = Len(c) + 1 /\ d[1] = f /\ \A i \in 2 .. Len(d) : d[i] = c[i - 1]
  BY <1>2
<1> HIDE DEF d
<1>4. \A i, j \in 1 .. Len(d) : d[i] = d[j] => i = j
  <2> SUFFICES ASSUME NEW i \in 1 .. Len(d), NEW j \in 1 .. Len(d), d[i] = d[j] PROVE i = j
    OBVIOUS
  <2>1. CASE i = 1 \/ j = 1
    <3>1. \A k \in 2 .. Len(d) : d[k] # f
      BY <1>2, <1>3
    <3> QED BY <2>1, <3>1, <1>2, <1>3
  <2>2. CASE i # 1 /\ j # 1
    <3>1. i - 1 \in 1 .. Len(c) /\ j - 1 \in 1 .. Len(c) /\ c[i - 1] = c[j - 1]
      BY <2>2, <1>2, <1>3
    <3>2. i - 1 = j - 1
      BY <3>1, <1>1, ChainIs
    <3> QED BY <3>2, <1>2, <1>3
  <2> QED BY <2>1, <2>2
<1>5. \A i \in 1 .. Len(d) - 1 : d[i + 1] \in Callees(d[i])
  <2> SUFFICES ASSUME NEW i \in 1 .. Len(d) - 1 PROVE d[i + 1] \in Callees(d[i])
    OBVIOUS
  <2>1. d[i + 1] = c[i]
    BY <1>2, <1>3
  <2>2. CASE i = 1
    BY <2>1, <2>2, <1>1, <1>3
  <2>3. CASE i # 1
    <3>1. i - 1 \in 1 .. Len(c) - 1 /\ d[i] = c[i - 1] /\ i - 1 + 1 = i
      BY <2>3, <1>2, <1>3
    <3>2. c[i - 1 + 1] \in Callees(c[i - 1])
      BY <3>1, <1>1, ChainIs
    <3> QED BY <2>1, <3>1, <3>2
  <2> QED BY <2>2, <2>3
<1>6. d # << >>
  BY <1>2, <1>3
<1>7. d \in Chains
  BY <1>3, <1>4, <1>5, <1>6, ChainMade
<1>8. Last(d) = Last(c)
  <2>1. Len(d) \in 2 .. Len(d) /\ Len(d) - 1 = Len(c)
    BY <1>2, <1>3
  <2> QED BY <2>1, <1>3 DEF Last
<1> QED BY <1>3, <1>7, <1>8 DEF ChainsFrom, d

\* A chain from f is f alone, or f before a chain from one of its callees.
LEMMA ChainPopped ==
  ASSUME IsFiniteSet(Fns), FramesAreSized, NEW f \in Fns, NEW c \in ChainsFrom(f), c # <<f>>
  PROVE  \E g \in Callees(f) : \E d \in ChainsFrom(g) :
           Weight(c) = LocalBytes(f) + Weight(d) /\ Last(c) = Last(d)
<1>1. c \in Chains /\ c[1] = f
  BY DEF ChainsFrom
<1>2. c \in Seq(Fns) /\ Len(c) \in Nat \ {0}
  BY <1>1, ChainIs
<1>3. Len(c) > 1
  <2>1. ASSUME Len(c) = 1 PROVE c = <<f>>
    BY <1>1, <1>2, <2>1
  <2> DEFINE n == Len(c)
  <2>2. n \in Nat /\ n # 0 /\ n # 1
    BY <1>2, <2>1
  <2> HIDE DEF n
  <2>3. n > 1
    BY <2>2
  <2> QED BY <2>3 DEF n
<1> DEFINE d == Tail(c)
<1>4. d \in Seq(Fns) /\ Len(d) = Len(c) - 1 /\ c = <<f>> \o d /\ \A i \in 1 .. Len(d) : d[i] = c[i + 1]
  BY <1>1, <1>2, <1>3
<1> HIDE DEF d
<1>5. \A i, j \in 1 .. Len(d) : d[i] = d[j] => i = j
  <2> SUFFICES ASSUME NEW i \in 1 .. Len(d), NEW j \in 1 .. Len(d), d[i] = d[j] PROVE i = j
    OBVIOUS
  <2>1. i + 1 \in 1 .. Len(c) /\ j + 1 \in 1 .. Len(c) /\ c[i + 1] = c[j + 1]
    BY <1>2, <1>4
  <2>2. i + 1 = j + 1
    BY <2>1, <1>1, ChainIs
  <2> QED BY <2>2, <1>2, <1>4
<1>6. \A i \in 1 .. Len(d) - 1 : d[i + 1] \in Callees(d[i])
  <2> SUFFICES ASSUME NEW i \in 1 .. Len(d) - 1 PROVE d[i + 1] \in Callees(d[i])
    OBVIOUS
  <2>1. i + 1 \in 1 .. Len(c) - 1 /\ d[i] = c[i + 1] /\ d[i + 1] = c[i + 1 + 1]
    BY <1>2, <1>4
  <2> QED BY <2>1, <1>1, ChainIs
<1>7. d \in Chains
  <2>1. d # << >>
    BY <1>2, <1>3, <1>4
  <2> QED BY <2>1, <1>4, <1>5, <1>6, ChainMade
<1>8. d[1] \in Callees(f)
  <2>1. 1 \in 1 .. Len(c) - 1 /\ d[1] = c[1 + 1]
    BY <1>2, <1>3, <1>4
  <2> QED BY <2>1, <1>1, ChainIs
<1>9. Weight(c) = LocalBytes(f) + Weight(d)
  BY <1>4, WeightOfPush
<1>10. Last(c) = Last(d)
  BY <1>2, <1>3, <1>4 DEF Last
<1> QED BY <1>7, <1>8, <1>9, <1>10 DEF ChainsFrom

LEMMA ChainAppended ==
  ASSUME IsFiniteSet(Fns), FramesAreSized, NEW c \in Chains, NEW g \in Callees(Last(c)),
         \A i \in 1 .. Len(c) : c[i] # g
  PROVE  /\ Append(c, g) \in Chains /\ Append(c, g)[1] = c[1] /\ Last(Append(c, g)) = g
         /\ Weight(Append(c, g)) = Weight(c) + LocalBytes(g)
<1> DEFINE d == Append(c, g)
<1>1. g \in Fns
  BY DEF Callees
<1>2. c \in Seq(Fns) /\ Len(c) \in Nat \ {0}
  BY ChainIs
<1>3. d \in Seq(Fns) /\ Len(d) = Len(c) + 1 /\ d[Len(d)] = g /\ \A i \in 1 .. Len(c) : d[i] = c[i]
  BY <1>1, <1>2
<1> HIDE DEF d
<1>4. \A i, j \in 1 .. Len(d) : d[i] = d[j] => i = j
  <2> SUFFICES ASSUME NEW i \in 1 .. Len(d), NEW j \in 1 .. Len(d), d[i] = d[j] PROVE i = j
    OBVIOUS
  <2>1. CASE i = Len(d) \/ j = Len(d)
    <3>1. \A k \in 1 .. Len(c) : d[k] # g
      BY <1>3
    <3>2. \A k \in 1 .. Len(d) : k = Len(d) \/ k \in 1 .. Len(c)
      BY <1>2, <1>3
    <3> QED BY <2>1, <3>1, <3>2, <1>3
  <2>2. CASE i # Len(d) /\ j # Len(d)
    <3>1. i \in 1 .. Len(c) /\ j \in 1 .. Len(c)
      BY <2>2, <1>2, <1>3
    <3> QED BY <3>1, <1>3, ChainIs
  <2> QED BY <2>1, <2>2
<1>5. \A i \in 1 .. Len(d) - 1 : d[i + 1] \in Callees(d[i])
  <2> SUFFICES ASSUME NEW i \in 1 .. Len(d) - 1 PROVE d[i + 1] \in Callees(d[i])
    OBVIOUS
  <2>1. i \in 1 .. Len(c) /\ d[i] = c[i]
    BY <1>2, <1>3
  <2>2. CASE i = Len(c)
    BY <2>1, <2>2, <1>3 DEF Last
  <2>3. CASE i # Len(c)
    <3>1. i \in 1 .. Len(c) - 1 /\ d[i + 1] = c[i + 1]
      BY <2>1, <2>3, <1>2, <1>3
    <3> QED BY <2>1, <3>1, ChainIs
  <2> QED BY <2>2, <2>3
<1>6. d # << >>
  BY <1>2, <1>3
<1>7. d \in Chains
  BY <1>3, <1>4, <1>5, <1>6, ChainMade
<1>8. d[1] = c[1] /\ Last(d) = g
  BY <1>2, <1>3 DEF Last
<1>9. Weight(d) = Weight(c) + LocalBytes(g)
  BY <1>1, <1>2, WeightOfAppend DEF d
<1> QED BY <1>7, <1>8, <1>9 DEF d

-----------------------------------------------------------------------------
\* Away from cycles.

LEMMA CallsBelow ==
  ASSUME NEW f \in Fns, NEW g \in Callees(f)
  PROVE  g \in Fns /\ g \in Below(f)
BY ReachableEdge DEF Callees, Below

LEMMA AcyclicBelow ==
  ASSUME NEW f \in Fns, Acyclic(f), NEW g \in Below(f)
  PROVE  Acyclic(g)
BY ReachableTrans DEF Acyclic, Below

LEMMA NoWayBack ==
  ASSUME IsFiniteSet(Fns), NEW f \in Fns, Acyclic(f), NEW g \in Callees(f)
  PROVE  f \notin Below(g)
<1> SUFFICES ASSUME f \in Below(g) PROVE FALSE
  OBVIOUS
<1> DEFINE C == ComponentsOf(Fns, module.calls)[f]
<1>1. g \in Fns /\ <<f, g>> \in module.calls /\ g \in Below(f) /\ f \in Below(f)
  BY CallsBelow, ReachableSelf DEF Callees, Below
<1>2. f \in OnCycle(Fns, module.calls)
  <2>1. CASE f = g
    BY <1>1, <2>1 DEF OnCycle
  <2>2. CASE f # g
    <3>1. f \in C /\ g \in C
      BY <1>1, InComponentOf DEF Below
    <3>2. IsFiniteSet(C)
      <4>1. C \subseteq Fns
        BY InComponentOf, ReachableType
      <4> QED BY <4>1, FS_Subset
    <3> HIDE DEF C
    <3>3. Cardinality(C) \in Nat /\ Cardinality(C) # 0 /\ Cardinality(C) # 1
      <4>1. Cardinality(C) \in Nat /\ Cardinality(C) # 0
        BY <3>1, <3>2, FS_CardinalityType, FS_EmptySet
      <4>2. Cardinality(C) # 1
        BY <3>1, <3>2, <2>2, FS_Singleton
      <4> QED BY <4>1, <4>2
    <3>4. Cardinality(C) > 1
      BY <3>3
    <3> QED BY <3>4 DEF OnCycle, C
  <2> QED BY <2>1, <2>2
<1> QED BY <1>1, <1>2 DEF Acyclic, Below

-----------------------------------------------------------------------------
\* The inductive invariant of the stack computation.

Estimates == [bytes : Nat, unknown : BOOLEAN]

StackTypeOK ==
  /\ state \in [Fns -> {"NotVisited", "Visiting", "Visited"}]
  /\ total \in [Fns -> Estimates]
  /\ frames \in Seq([fn : Fns, left : SUBSET Fns, max : Estimates])
  /\ \A k \in 1 .. Len(frames) : frames[k].left \subseteq Callees(frames[k].fn)

\* The functions being visited are those of the active calls, each of which was made by
\* the one below it, which does not make it again.
CallStack ==
  /\ \A f \in Fns : state[f] = "Visiting" <=> \E k \in 1 .. Len(frames) : frames[k].fn = f
  /\ \A k, l \in 1 .. Len(frames) : frames[k].fn = frames[l].fn => k = l
  /\ \A k \in 1 .. Len(frames) : \A l \in k .. Len(frames) :
       frames[l].fn \in Below(frames[k].fn)
  /\ \A k \in 1 .. Len(frames) - 1 : frames[k + 1].fn \in Callees(frames[k].fn) \ frames[k].left

\* The callees whose estimate the active call k has entered into its maximum.
Answered(k) ==
  {g \in Callees(frames[k].fn) \ frames[k].left : k < Len(frames) => frames[k + 1].fn # g}

\* A maximum is the frame or the total of some callee, ...
MaxIsSome(k) ==
  \/ frames[k].max.bytes = 0
  \/ \E g \in Callees(frames[k].fn) :
       \/ frames[k].max.bytes = LocalBytes(g)
       \/ state[g] = "Visited" /\ frames[k].max.bytes = total[g].bytes

\* ... and away from cycles it is the maximum of the totals.
MaxIsExact(k) ==
  /\ \A g \in Answered(k) : state[g] = "Visited" /\ total[g].bytes <= frames[k].max.bytes
  /\ frames[k].max.bytes = 0 \/ \E g \in Answered(k) : frames[k].max.bytes = total[g].bytes
  /\ frames[k].max.unknown <=> \E g \in Answered(k) : total[g].unknown

MaxIInv(k) == MaxIsSome(k) /\ (Acyclic(frames[k].fn) => MaxIsExact(k))

\* A total is the weight of a chain of functions that are done, and perhaps one more.
TotalIsChain(f) ==
  \E c \in ChainsFrom(f) :
    /\ \A i \in 1 .. Len(c) : state[c[i]] = "Visited"
    /\ \/ total[f].bytes = Weight(c)
       \/ \E g \in Callees(Last(c)) : total[f].bytes = Weight(c) + LocalBytes(g)

\* Away from cycles it follows from the totals of the callees, and is the heaviest chain.
TotalIsExact(f) ==
  /\ \A g \in Callees(f) :
       state[g] = "Visited" /\ LocalBytes(f) + total[g].bytes <= total[f].bytes
  /\ \/ total[f].bytes = LocalBytes(f)
     \/ \E g \in Callees(f) : total[f].bytes = LocalBytes(f) + total[g].bytes
  /\ \A c \in ChainsFrom(f) : Weight(c) <= total[f].bytes
  /\ \E c \in ChainsFrom(f) : Weight(c) = total[f].bytes
  /\ total[f].unknown <=> \E c \in ChainsFrom(f) : Last(c) \in module.dynamic

TotalIInv(f) == TotalIsChain(f) /\ (Acyclic(f) => TotalIsExact(f))

\* What the path that is built still lacks is what its last function needs below it.
PathIInv ==
  /\ results # << >> => Computed
  /\ path # << >> =>
       /\ results # << >> /\ path \in Chains
       /\ Acyclic(path[1]) =>
            Weight(path) + total[Last(path)].bytes = total[path[1]].bytes + LocalBytes(Last(path))
  /\ paths \in [Fns -> Seq(Fns)]
  /\ \A f \in Fns : paths[f] # << >> =>
       /\ results # << >>
       /\ Acyclic(f) => paths[f] \in ChainsFrom(f) /\ Weight(paths[f]) = total[f].bytes

DoneIInv ==
  /\ \A k \in 1 .. Len(frames) : MaxIInv(k)
  /\ \A f \in Fns : state[f] = "Visited" => TotalIInv(f)

StackIInv == StackTypeOK /\ CallStack /\ DoneIInv /\ PathIInv

-----------------------------------------------------------------------------
\* Steps leave the module alone, and the totals of the functions that are done.

SameModule ==
  /\ \A f : Callees(f)' = Callees(f) /\ LocalBytes(f)' = LocalBytes(f)
  /\ \A f : Below(f)' = Below(f) /\ (Acyclic(f)' <=> Acyclic(f))
  /\ Chains' = Chains /\ \A f : ChainsFrom(f)' = ChainsFrom(f)
  /\ \A c : Weight(c)' = Weight(c)
  /\ module' = module

LEMMA ModuleStays ==
  ASSUME UNCHANGED module
  PROVE  SameModule
<1>1. \A f : Callees(f)' = Callees(f) /\ LocalBytes(f)' = LocalBytes(f)
  BY DEF Callees, LocalBytes, FrameIR, FrameABI
<1>2. \A f : Below(f)' = Below(f) /\ (Acyclic(f)' <=> Acyclic(f))
  BY DEF Below, Acyclic
<1>3. Chains' = Chains /\ \A f : ChainsFrom(f)' = ChainsFrom(f)
  BY DEF Chains, ChainsFrom
<1>4. \A c : Weight(c)' = Weight(c)
  BY <1>1 DEF Weight
<1> QED BY <1>1, <1>2, <1>3, <1>4 DEF SameModule

DoneStays ==
  \A f \in Fns : state[f] = "Visited" => state'[f] = "Visited" /\ total'[f] = total[f]

LEMMA TotalStays ==
  ASSUME SameModule, DoneStays, NEW f \in Fns, state[f] = "Visited", TotalIInv(f)
  PROVE  TotalIInv(f)'
<1>1. total'[f] = total[f]
  BY DEF DoneStays
<1>2. TotalIsChain(f)'
  <2>1. PICK c \in ChainsFrom(f) :
          /\ \A i \in 1 .. Len(c) : state[c[i]] = "Visited"
          /\ \/ total[f].bytes = Weight(c)
             \/ \E g \in Callees(Last(c)) : total[f].bytes = Weight(c) + LocalBytes(g)
    BY DEF TotalIInv, TotalIsChain
  <2>2. \A i \in 1 .. Len(c) : state'[c[i]] = "Visited"
    BY <2>1, ChainIs DEF DoneStays, ChainsFrom
  <2> QED BY <1>1, <2>1, <2>2 DEF TotalIsChain, SameModule
<1>3. ASSUME Acyclic(f) PROVE TotalIsExact(f)'
  <2>1. TotalIsExact(f)
    BY <1>3 DEF TotalIInv
  <2>2. \A g \in Callees(f) : g \in Fns /\ state[g] = "Visited"
    BY <2>1 DEF TotalIsExact, Callees
  <2>3. \A g \in Callees(f) : state'[g] = "Visited" /\ total'[g] = total[g]
    BY <2>2 DEF DoneStays
  <2> QED BY <1>1, <2>1, <2>3 DEF TotalIsExact, SameModule
<1> QED BY <1>2, <1>3 DEF TotalIInv, SameModule

\* A maximum that is left alone, its callees being the same.
LEMMA MaxStays ==
  ASSUME SameModule, DoneStays, NEW k, MaxIInv(k), frames[k].fn \in Fns,
         frames'[k].fn = frames[k].fn, frames'[k].max = frames[k].max, Answered(k)' = Answered(k)
  PROVE  MaxIInv(k)'
<1>1. \A g \in Callees(frames[k].fn) : g \in Fns
  BY DEF Callees
<1>2. MaxIsSome(k)'
  BY <1>1 DEF MaxIInv, MaxIsSome, SameModule, DoneStays
<1>3. ASSUME Acyclic(frames[k].fn) PROVE MaxIsExact(k)'
  <2>1. MaxIsExact(k)
    BY <1>3 DEF MaxIInv
  <2>2. \A g \in Answered(k) : state'[g] = "Visited" /\ total'[g] = total[g]
    BY <1>1, <2>1 DEF MaxIsExact, Answered, DoneStays
  <2> QED BY <2>1, <2>2 DEF MaxIsExact
<1>4. Acyclic(frames[k].fn)' <=> Acyclic(frames[k].fn)
  <2> DEFINE f == frames[k].fn
  <2>1. f' = f
    OBVIOUS
  <2> QED BY <2>1 DEF Acyclic, SameModule
<1> QED BY <1>2, <1>3, <1>4 DEF MaxIInv

LEMMA MaxOfTwo ==
  ASSUME NEW a \in Nat, NEW b \in Nat
  PROVE  Max({a, b}) \in {a, b} /\ a <= Max({a, b}) /\ b <= Max({a, b})
<1>1. PICK x \in {a, b} : \A y \in {a, b} : x >= y
  OBVIOUS
<1>2. Max({a, b}) \in {a, b} /\ \A y \in {a, b} : Max({a, b}) >= y
  BY <1>1 DEF Max
<1> QED BY <1>2

\* A maximum into which the estimate e of one more callee g is entered.
LEMMA MaxRaised ==
  ASSUME SameModule, DoneStays, NEW k, MaxIInv(k), frames[k].fn \in Fns, frames[k].max \in Estimates,
         total \in [Fns -> Estimates], NEW g \in Callees(frames[k].fn), NEW e \in Estimates,
         frames'[k].fn = frames[k].fn,
         frames'[k].max = Estimate(Max({frames[k].max.bytes, e.bytes}),
                                   frames[k].max.unknown \/ e.unknown),
         Answered(k)' = Answered(k) \cup {g},
         e.bytes = LocalBytes(g) \/ (state'[g] = "Visited" /\ e.bytes = total'[g].bytes),
         Acyclic(frames[k].fn) => state'[g] = "Visited" /\ e = total'[g]
  PROVE  MaxIInv(k)'
<1> DEFINE m == frames[k].max
<1>0. /\ m.bytes \in Nat /\ e.bytes \in Nat /\ m.unknown \in BOOLEAN /\ e.unknown \in BOOLEAN
      /\ Max({m.bytes, e.bytes}) \in {m.bytes, e.bytes}
      /\ m.bytes <= Max({m.bytes, e.bytes}) /\ e.bytes <= Max({m.bytes, e.bytes})
  BY MaxOfTwo DEF Estimates
<1>1. /\ frames'[k].max.bytes = Max({m.bytes, e.bytes})
      /\ frames'[k].max.unknown = (m.unknown \/ e.unknown)
  BY DEF Estimate
<1>2. \A h \in Callees(frames[k].fn) : h \in Fns
  BY DEF Callees
<1>3. MaxIsSome(k)'
  <2>1. CASE frames'[k].max.bytes = e.bytes
    BY <2>1, <1>2 DEF MaxIsSome, SameModule
  <2>2. CASE frames'[k].max.bytes = m.bytes
    BY <2>2, <1>2 DEF MaxIInv, MaxIsSome, SameModule, DoneStays
  <2> QED BY <1>0, <1>1, <2>1, <2>2
<1>4. ASSUME Acyclic(frames[k].fn) PROVE MaxIsExact(k)'
  <2>1. MaxIsExact(k)
    BY <1>4 DEF MaxIInv
  <2>2. \A h \in Answered(k) : state'[h] = "Visited" /\ total'[h] = total[h]
    BY <1>2, <2>1 DEF MaxIsExact, Answered, DoneStays
  <2>3. state'[g] = "Visited" /\ e = total'[g]
    BY <1>4
  <2>4. \A h \in Answered(k) : total[h].bytes <= Max({m.bytes, e.bytes})
    <3> SUFFICES ASSUME NEW h \in Answered(k) PROVE total[h].bytes <= Max({m.bytes, e.bytes})
      OBVIOUS
    <3>1. total[h].bytes \in Nat /\ total[h].bytes <= m.bytes
      BY <1>2, <2>1 DEF MaxIsExact, Answered, Estimates
    <3> QED BY <3>1, <1>0
  <2>5. \A h \in Answered(k)' : state'[h] = "Visited" /\ total'[h].bytes <= frames'[k].max.bytes
    BY <1>0, <1>1, <2>2, <2>3, <2>4
  <2>6. frames'[k].max.bytes = 0 \/ \E h \in Answered(k)' : frames'[k].max.bytes = total'[h].bytes
    <3>1. CASE frames'[k].max.bytes = e.bytes
      BY <3>1, <2>3
    <3>2. CASE frames'[k].max.bytes = m.bytes
      BY <3>2, <2>1, <2>2 DEF MaxIsExact
    <3> QED BY <1>0, <1>1, <3>1, <3>2
  <2>7. frames'[k].max.unknown <=> \E h \in Answered(k)' : total'[h].unknown
    BY <1>0, <1>1, <2>1, <2>2, <2>3 DEF MaxIsExact
  <2> QED BY <2>5, <2>6, <2>7 DEF MaxIsExact
<1>5. Acyclic(frames[k].fn)' <=> Acyclic(frames[k].fn)
  <2> DEFINE f == frames[k].fn
  <2>1. f' = f
    OBVIOUS
  <2> QED BY <2>1 DEF Acyclic, SameModule
<1> QED BY <1>3, <1>4, <1>5 DEF MaxIInv

\* What follows for the total of a function of the estimates of its callees, all of
\* them done: f is a function that was being visited, m its maximum.
LEMMA TotalMade ==
  ASSUME IsFiniteSet(Fns), FramesAreSized, SameModule, DoneStays, total \in [Fns -> Estimates],
         \A g \in Fns : state[g] = "Visited" => TotalIInv(g),
         NEW f \in Fns, state[f] # "Visited", state'[f] = "Visited",
         NEW m \in Estimates, total'[f] = Sum(Local(f), m),
         \/ m.bytes = 0
         \/ \E g \in Callees(f) :
              m.bytes = LocalBytes(g) \/ (state[g] = "Visited" /\ m.bytes = total[g].bytes),
         Acyclic(f) =>
           /\ \A g \in Callees(f) : state[g] = "Visited" /\ total[g].bytes <= m.bytes
           /\ m.bytes = 0 \/ \E g \in Callees(f) : m.bytes = total[g].bytes
           /\ m.unknown <=> \E g \in Callees(f) : total[g].unknown
  PROVE  TotalIInv(f)'
<1>1. /\ total'[f].bytes = LocalBytes(f) + m.bytes
      /\ total'[f].unknown = ((f \in module.dynamic) \/ m.unknown)
      /\ LocalBytes(f) \in Nat /\ m.bytes \in Nat /\ m.unknown \in BOOLEAN
  <2>1. total'[f].bytes = LocalBytes(f) + m.bytes
    BY DEF Sum, Local, Estimate
  <2>2. total'[f].unknown = ((f \in module.dynamic) \/ m.unknown)
    <3>1. total'[f].unknown = (Local(f).unknown \/ m.unknown)
      BY DEF Sum, Estimate
    <3>2. Local(f).unknown = (f \in module.dynamic)
      BY DEF Local, Estimate
    <3> QED BY <3>1, <3>2
  <2> QED BY <2>1, <2>2 DEF FramesAreSized, Estimates
<1>2. \A g \in Callees(f) : g \in Fns
  BY DEF Callees
<1>3. <<f>> \in ChainsFrom(f) /\ Last(<<f>>) = f /\ Weight(<<f>>) = LocalBytes(f)
      /\ \A i \in 1 .. Len(<<f>>) : <<f>>[i] = f
  <2>1. \A i \in 1 .. Len(<<f>>) : <<f>>[i] = f
    OBVIOUS
  <2> QED BY <2>1, ChainOfOne, WeightOfOne
<1>4. ASSUME NEW g \in Callees(f), NEW c \in ChainsFrom(g), \A i \in 1 .. Len(c) : c[i] # f
      PROVE  /\ <<f>> \o c \in ChainsFrom(f) /\ Last(<<f>> \o c) = Last(c)
             /\ Weight(<<f>> \o c) = LocalBytes(f) + Weight(c) /\ Weight(c) \in Nat
  <2>1. c \in Seq(Fns)
    BY ChainIs DEF ChainsFrom
  <2> QED BY <1>4, <2>1, ChainPushed, WeightOfPush, WeightIsNat
<1>5. TotalIsChain(f)'
  <2>1. ASSUME NEW c \in ChainsFrom(f), \A i \in 1 .. Len(c) : state'[c[i]] = "Visited",
               \/ total'[f].bytes = Weight(c)
               \/ \E g \in Callees(Last(c)) : total'[f].bytes = Weight(c) + LocalBytes(g)
        PROVE  TotalIsChain(f)'
    BY <2>1 DEF TotalIsChain, SameModule
  <2>2. CASE m.bytes = 0
    <3>1. total'[f].bytes = Weight(<<f>>)
      BY <1>1, <1>3, <2>2
    <3> QED BY <1>3, <2>1, <3>1
  <2>3. ASSUME NEW g \in Callees(f), m.bytes = LocalBytes(g) PROVE TotalIsChain(f)'
    <3>1. total'[f].bytes = Weight(<<f>>) + LocalBytes(g)
      BY <1>1, <1>3, <2>3
    <3> QED BY <1>3, <2>1, <3>1
  <2>4. ASSUME NEW g \in Callees(f), state[g] = "Visited", m.bytes = total[g].bytes
        PROVE  TotalIsChain(f)'
    <3>1. PICK c \in ChainsFrom(g) :
            /\ \A i \in 1 .. Len(c) : state[c[i]] = "Visited"
            /\ \/ total[g].bytes = Weight(c)
               \/ \E h \in Callees(Last(c)) : total[g].bytes = Weight(c) + LocalBytes(h)
      BY <1>2, <2>4 DEF TotalIInv, TotalIsChain
    <3>2. \A i \in 1 .. Len(c) : c[i] # f
      BY <3>1
    <3>3. c \in Seq(Fns) /\ \A i \in 1 .. Len(c) : c[i] \in Fns
      BY ChainIs DEF ChainsFrom
    <3> DEFINE d == <<f>> \o c
    <3>4. \A i \in 1 .. Len(d) : d[i] = f \/ \E j \in 1 .. Len(c) : d[i] = c[j]
      <4>1. Len(d) = Len(c) + 1 /\ d[1] = f /\ \A i \in 2 .. Len(d) : d[i] = c[i - 1] /\ i - 1 \in 1 .. Len(c)
        BY <3>3
      <4>2. \A i \in 1 .. Len(d) : i = 1 \/ i \in 2 .. Len(d)
        OBVIOUS
      <4> HIDE DEF d
      <4> QED BY <4>1, <4>2
    <3>5. d \in ChainsFrom(f) /\ Last(d) = Last(c) /\ Weight(d) = LocalBytes(f) + Weight(c) /\ Weight(c) \in Nat
      BY <3>2, <1>4
    <3> HIDE DEF d
    <3>6. \A i \in 1 .. Len(d) : state'[d[i]] = "Visited"
      BY <3>1, <3>3, <3>4 DEF DoneStays
    <3>7. CASE total[g].bytes = Weight(c)
      <4>1. total'[f].bytes = Weight(d)
        BY <1>1, <2>4, <3>5, <3>7
      <4> QED BY <2>1, <3>5, <3>6, <4>1
    <3>8. ASSUME NEW h \in Callees(Last(c)), total[g].bytes = Weight(c) + LocalBytes(h)
          PROVE  TotalIsChain(f)'
      <4>1. LocalBytes(h) \in Nat
        BY DEF Callees, FramesAreSized
      <4>2. total'[f].bytes = Weight(d) + LocalBytes(h)
        BY <1>1, <2>4, <3>5, <3>8, <4>1
      <4> QED BY <2>1, <3>5, <3>6, <4>2
    <3> QED BY <3>1, <3>7, <3>8
  <2> QED BY <2>2, <2>3, <2>4
<1>6. ASSUME Acyclic(f) PROVE TotalIsExact(f)'
  <2>1. /\ \A g \in Callees(f) : state[g] = "Visited" /\ total[g].bytes <= m.bytes
        /\ m.bytes = 0 \/ \E g \in Callees(f) : m.bytes = total[g].bytes
        /\ m.unknown <=> \E g \in Callees(f) : total[g].unknown
    BY <1>6
  <2>2. \A g \in Callees(f) : TotalIsExact(g) /\ total[g].bytes \in Nat
    <3> SUFFICES ASSUME NEW g \in Callees(f) PROVE TotalIsExact(g) /\ total[g].bytes \in Nat
      OBVIOUS
    <3>1. Acyclic(g) /\ g \in Fns
      BY <1>6, CallsBelow, AcyclicBelow
    <3>2. total[g] \in Estimates
      BY <3>1
    <3> QED BY <2>1, <3>1, <3>2 DEF TotalIInv, Estimates
  <2>3. ASSUME NEW g \in Callees(f), NEW c \in ChainsFrom(g)
        PROVE  \A i \in 1 .. Len(c) : c[i] # f
    <3>1. c \in Chains /\ c[1] = g /\ Len(c) \in Nat \ {0}
      BY ChainIs DEF ChainsFrom
    <3>2. \A i \in 1 .. Len(c) : c[i] \in Below(g)
      <4> SUFFICES ASSUME NEW i \in 1 .. Len(c) PROVE c[i] \in Below(g)
        OBVIOUS
      <4>1. 1 \in 1 .. Len(c) /\ i \in 1 .. Len(c)
        BY <3>1
      <4> QED BY <3>1, <4>1, ChainReaches
    <3> QED BY <3>2, <1>6, NoWayBack
  <2>4. \A g \in Callees(f) : total'[g] = total[g] /\ state'[g] = "Visited"
    BY <1>2, <2>1 DEF DoneStays
  <2>5. \A g \in Callees(f) : LocalBytes(f) + total[g].bytes <= total'[f].bytes
    BY <1>1, <2>1, <2>2
  <2>6. total'[f].bytes = LocalBytes(f) \/ \E g \in Callees(f) : total'[f].bytes = LocalBytes(f) + total[g].bytes
    BY <1>1, <2>1
  <2>7. \A c \in ChainsFrom(f) : Weight(c) <= total'[f].bytes
    <3> SUFFICES ASSUME NEW c \in ChainsFrom(f) PROVE Weight(c) <= total'[f].bytes
      OBVIOUS
    <3>1. CASE c = <<f>>
      BY <3>1, <1>1, <1>3
    <3>2. CASE c # <<f>>
      <4>1. PICK g \in Callees(f) : \E d \in ChainsFrom(g) :
              Weight(c) = LocalBytes(f) + Weight(d) /\ Last(c) = Last(d)
        BY <3>2, ChainPopped
      <4>2. PICK d \in ChainsFrom(g) : Weight(c) = LocalBytes(f) + Weight(d)
        BY <4>1
      <4>3. Weight(d) <= total[g].bytes /\ Weight(d) \in Nat
        BY <2>2, ChainIs, WeightIsNat DEF TotalIsExact, ChainsFrom
      <4> QED BY <1>1, <2>2, <2>5, <4>2, <4>3, <2>1
    <3> QED BY <3>1, <3>2
  <2>8. \E c \in ChainsFrom(f) : Weight(c) = total'[f].bytes
    <3>1. CASE m.bytes = 0
      BY <3>1, <1>1, <1>3
    <3>2. ASSUME NEW g \in Callees(f), m.bytes = total[g].bytes
          PROVE  \E c \in ChainsFrom(f) : Weight(c) = total'[f].bytes
      <4>1. PICK d \in ChainsFrom(g) : Weight(d) = total[g].bytes
        BY <2>2 DEF TotalIsExact
      <4>2. <<f>> \o d \in ChainsFrom(f) /\ Weight(<<f>> \o d) = LocalBytes(f) + Weight(d)
        BY <2>3, <1>4
      <4> QED BY <1>1, <3>2, <4>1, <4>2
    <3> QED BY <2>1, <3>1, <3>2
  <2>9. ASSUME total'[f].unknown PROVE \E c \in ChainsFrom(f) : Last(c) \in module.dynamic
    <3>1. CASE f \in module.dynamic
      BY <3>1, <1>3
    <3>2. CASE m.unknown
      <4>1. PICK g \in Callees(f) : total[g].unknown
        BY <3>2, <2>1
      <4>2. PICK d \in ChainsFrom(g) : Last(d) \in module.dynamic
        BY <2>2, <4>1 DEF TotalIsExact
      <4>3. <<f>> \o d \in ChainsFrom(f) /\ Last(<<f>> \o d) = Last(d)
        BY <2>3, <1>4
      <4> QED BY <4>2, <4>3
    <3> QED BY <2>9, <1>1, <3>1, <3>2
  <2>10. ASSUME NEW c \in ChainsFrom(f), Last(c) \in module.dynamic PROVE total'[f].unknown
    <3>1. CASE c = <<f>>
      BY <3>1, <1>1, <1>3, <2>10
    <3>2. CASE c # <<f>>
      <4>1. PICK g \in Callees(f) : \E d \in ChainsFrom(g) :
              Weight(c) = LocalBytes(f) + Weight(d) /\ Last(c) = Last(d)
        BY <3>2, ChainPopped
      <4>2. total[g].unknown
        BY <2>2, <2>10, <4>1 DEF TotalIsExact
      <4> QED BY <1>1, <2>1, <4>2
    <3> QED BY <3>1, <3>2
  <2>11. total'[f].unknown <=> \E c \in ChainsFrom(f) : Last(c) \in module.dynamic
    BY <2>9, <2>10
  <2> QED BY <2>4, <2>5, <2>6, <2>7, <2>8, <2>11 DEF TotalIsExact, SameModule
<1> QED BY <1>5, <1>6 DEF TotalIInv, SameModule

FrameType == [fn : Fns, left : SUBSET Fns, max : Estimates]

\* Nothing is reported before all is computed.
LEMMA PathsWait ==
  ASSUME PathIInv, ~Computed, UNCHANGED <<results, path, paths>>
  PROVE  PathIInv'
<1>1. results = << >> /\ path = << >> /\ \A f \in Fns : paths[f] = << >>
  BY DEF PathIInv
<1>2. results' = << >> /\ path' = << >> /\ \A f \in Fns : paths'[f] = << >>
  BY <1>1
<1> QED BY <1>2 DEF PathIInv

\* A function is visited, by a call from the frame that was on top if there is one.
LEMMA VisitKeeps ==
  ASSUME IsFiniteSet(Fns), FramesAreSized, StackIInv,
         NEW f \in Fns, state[f] = "NotVisited",
         NEW calling \in Seq(FrameType), Len(calling) = Len(frames),
         \A k \in 1 .. Len(frames) : calling[k].fn = frames[k].fn /\ calling[k].max = frames[k].max,
         \A k \in 1 .. Len(frames) - 1 : calling[k].left = frames[k].left,
         Len(frames) # 0 => /\ f \in frames[Len(frames)].left
                            /\ calling[Len(frames)].left = frames[Len(frames)].left \ {f},
         Visit(f, calling), UNCHANGED <<module, total, results, path, paths>>
  PROVE  StackIInv'
<1> DEFINE n == Len(frames)
<1>0. SameModule
  BY ModuleStays
<1>1. /\ n \in Nat /\ Len(frames') = n + 1 /\ \A k \in 1 .. n : frames'[k] = calling[k]
      /\ frames'[n + 1] = Frame(f) /\ \A k \in 1 .. n : frames[k] \in FrameType
  <2>1. frames \in Seq(FrameType)
    BY DEF StackIInv, StackTypeOK, FrameType
  <2> QED BY <2>1 DEF Visit
<1>2. /\ state \in [Fns -> {"NotVisited", "Visiting", "Visited"}] /\ total \in [Fns -> Estimates]
      /\ state' = [state EXCEPT ![f] = "Visiting"]
  BY DEF StackIInv, StackTypeOK, Visit
<1>3. DoneStays
  BY <1>2 DEF DoneStays
<1>4. /\ frames'[n + 1].fn = f /\ frames'[n + 1].left = Callees(f)
      /\ frames'[n + 1].max.bytes = 0 /\ frames'[n + 1].max.unknown = FALSE
      /\ frames'[n + 1] \in FrameType
  BY <1>1 DEF Frame, Estimate, FrameType, Estimates, Callees
<1>5. \A k \in 1 .. n : frames[k].fn \in Fns /\ frames[k].left \subseteq Callees(frames[k].fn)
  BY <1>1 DEF StackIInv, StackTypeOK, FrameType
<1>6. n # 0 => f \in Callees(frames[n].fn)
  BY <1>1, <1>5
<1>7. CallStack
  BY DEF StackIInv
<1>8. StackTypeOK'
  <2>1. frames' \in Seq(FrameType)
    BY <1>4, <1>1 DEF Visit
  <2>2. state' \in [Fns -> {"NotVisited", "Visiting", "Visited"}]
    BY <1>2
  <2>3. \A k \in 1 .. n + 1 : frames'[k].left \subseteq Callees(frames'[k].fn)
    <3> SUFFICES ASSUME NEW k \in 1 .. n + 1 PROVE frames'[k].left \subseteq Callees(frames'[k].fn)
      OBVIOUS
    <3>1. CASE k = n + 1
      BY <3>1, <1>4
    <3>2. CASE k = n /\ k # 0
      BY <3>2, <1>1, <1>5
    <3>3. CASE k \in 1 .. n - 1
      BY <3>3, <1>1, <1>5
    <3> QED BY <1>1, <3>1, <3>2, <3>3
  <2> QED BY <1>0, <1>1, <1>2, <2>1, <2>2, <2>3 DEF StackTypeOK, FrameType, SameModule
<1>9. CallStack'
  <2>1. \A k \in 1 .. n : frames'[k].fn = frames[k].fn /\ frames[k].fn # f
    <3>1. \A k \in 1 .. n : state[frames[k].fn] = "Visiting"
      BY <1>5, <1>7 DEF CallStack
    <3> QED BY <3>1, <1>1
  <2>2. \A g \in Fns : state'[g] = "Visiting" <=> \E k \in 1 .. n + 1 : frames'[k].fn = g
    <3> SUFFICES ASSUME NEW g \in Fns
                 PROVE  state'[g] = "Visiting" <=> \E k \in 1 .. n + 1 : frames'[k].fn = g
      OBVIOUS
    <3>1. CASE g = f
      <4>1. n + 1 \in 1 .. n + 1
        BY <1>1
      <4> QED BY <4>1, <3>1, <1>2, <1>4
    <3>2. CASE g # f
      <4>1. state'[g] = state[g]
        BY <3>2, <1>2
      <4>2. \A k \in 1 .. n + 1 : k \in 1 .. n \/ k = n + 1
        BY <1>1
      <4>3. \A k \in 1 .. n : k \in 1 .. n + 1
        BY <1>1
      <4> QED BY <4>1, <4>2, <4>3, <2>1, <3>2, <1>4, <1>7 DEF CallStack
    <3> QED BY <3>1, <3>2
  <2>3. \A k, l \in 1 .. n + 1 : frames'[k].fn = frames'[l].fn => k = l
    <3>1. \A k \in 1 .. n + 1 : k \in 1 .. n \/ k = n + 1
      BY <1>1
    <3> QED BY <3>1, <2>1, <1>4, <1>7 DEF CallStack
  <2>4. ASSUME NEW k \in 1 .. n + 1, NEW l \in k .. n + 1
        PROVE  frames'[l].fn \in Below(frames'[k].fn)
    <3>1. CASE l # n + 1
      <4>1. k \in 1 .. n /\ l \in k .. n /\ l \in 1 .. n
        BY <3>1, <1>1
      <4> QED BY <4>1, <2>1, <1>7 DEF CallStack
    <3>2. CASE l = n + 1 /\ k = n + 1
      BY <3>2, <1>4, ReachableSelf DEF Below
    <3>3. CASE l = n + 1 /\ k # n + 1
      <4>1. k \in 1 .. n /\ n \in k .. n /\ n \in 1 .. n /\ n # 0
        BY <3>3, <1>1
      <4>2. frames[n].fn \in Below(frames[k].fn)
        BY <4>1, <1>7 DEF CallStack
      <4>3. f \in Below(frames[n].fn)
        BY <4>1, <1>5, <1>6, CallsBelow
      <4>4. f \in Below(frames[k].fn)
        BY <4>2, <4>3, ReachableTrans DEF Below
      <4> QED BY <4>1, <4>4, <2>1, <3>3, <1>4
    <3> QED BY <3>1, <3>2, <3>3
  <2>5. ASSUME NEW k \in 1 .. n PROVE frames'[k + 1].fn \in Callees(frames'[k].fn) \ frames'[k].left
    <3>1. CASE k = n
      BY <3>1, <1>1, <1>4, <1>6, <2>1
    <3>2. CASE k # n
      <4>1. k \in 1 .. n - 1 /\ k + 1 \in 1 .. n
        BY <3>2, <1>1
      <4>2. frames'[k].left = frames[k].left
        BY <4>1, <1>1
      <4> QED BY <4>1, <4>2, <2>1, <1>7 DEF CallStack
    <3> QED BY <3>1, <3>2
  <2>6. n + 1 - 1 = n
    BY <1>1
  <2> QED BY <1>0, <1>1, <2>2, <2>3, <2>4, <2>5, <2>6 DEF CallStack, SameModule
<1>10. \A k \in 1 .. n + 1 : MaxIInv(k)'
  <2> SUFFICES ASSUME NEW k \in 1 .. n + 1 PROVE MaxIInv(k)'
    OBVIOUS
  <2>1. CASE k = n + 1
    <3>1. frames'[k].max.bytes = 0 /\ frames'[k].max.unknown = FALSE
          /\ frames'[k].left = Callees(f) /\ frames'[k].fn = f
      BY <2>1, <1>4
    <3>2. Answered(k)' = {}
      BY <3>1, <1>0 DEF Answered, SameModule
    <3> QED BY <3>1, <3>2 DEF MaxIInv, MaxIsSome, MaxIsExact
  <2>2. CASE k # n + 1
    <3>1. k \in 1 .. n /\ frames'[k].fn = frames[k].fn /\ frames'[k].max = frames[k].max
      BY <2>2, <1>1
    <3>2. MaxIInv(k) /\ frames[k].fn \in Fns
      BY <3>1, <1>5 DEF StackIInv, DoneIInv
    <3>3. Answered(k)' = Answered(k)
      <4>1. CASE k = n
        <5>1. /\ frames'[k].left = frames[k].left \ {f} /\ f \in frames[k].left
              /\ frames'[k + 1].fn = f /\ k < Len(frames') /\ ~(k < Len(frames))
          BY <4>1, <3>1, <1>1, <1>4
        <5> QED BY <5>1, <3>1, <1>0, <1>5, <1>6, <4>1 DEF Answered, SameModule
      <4>2. CASE k # n
        <5>1. /\ k \in 1 .. n - 1 /\ k + 1 \in 1 .. n /\ k < Len(frames') /\ k < Len(frames)
          BY <4>2, <3>1, <1>1
        <5>2. frames'[k].left = frames[k].left /\ frames'[k + 1].fn = frames[k + 1].fn
          BY <5>1, <3>1, <1>1
        <5> QED BY <5>1, <5>2, <3>1, <1>0 DEF Answered, SameModule
      <4> QED BY <4>1, <4>2
    <3> QED BY <3>1, <3>2, <3>3, <1>0, <1>3, MaxStays
  <2> QED BY <2>1, <2>2
<1>11. \A g \in Fns : state'[g] = "Visited" => TotalIInv(g)'
  <2> SUFFICES ASSUME NEW g \in Fns, state'[g] = "Visited" PROVE TotalIInv(g)'
    OBVIOUS
  <2>1. state[g] = "Visited"
    BY <1>2
  <2> QED BY <2>1, <1>0, <1>3, TotalStays DEF StackIInv, DoneIInv
<1>12. PathIInv'
  <2>1. ~Computed
    BY DEF Computed
  <2> QED BY <2>1, PathsWait DEF StackIInv
<1> QED BY <1>1, <1>8, <1>9, <1>10, <1>11, <1>12 DEF StackIInv, DoneIInv

LEMMA StartKeeps ==
  ASSUME IsFiniteSet(Fns), FramesAreSized, StackIInv, Start
  PROVE  StackIInv'
<1>1. PICK f \in Fns : state[f] = "NotVisited" /\ Visit(f, << >>)
  BY DEF Start
<1>2. << >> \in Seq(FrameType) /\ Len(<< >>) = 0 /\ frames = << >> /\ Len(frames) = 0
  BY DEF Start
<1>3. UNCHANGED <<module, total, results, path, paths>>
  BY DEF Start
<1> QED BY <1>1, <1>2, <1>3, VisitKeeps

\* The top frame replaced by another.
LEMMA TopReplaced ==
  ASSUME NEW s \in Seq(FrameType), NEW n \in Nat \ {0}, n = Len(s), NEW r \in FrameType
  PROVE  LET t == [s EXCEPT ![n] = r]
         IN  t \in Seq(FrameType) /\ Len(t) = n /\ t[n] = r /\ \A k \in 1 .. n - 1 : t[k] = s[k]
OBVIOUS

LEMMA DescendKeeps ==
  ASSUME IsFiniteSet(Fns), FramesAreSized, StackIInv, Descend
  PROVE  StackIInv'
<1> DEFINE n == Len(frames)
<1>1. PICK g \in frames[n].left :
        state[g] = "NotVisited" /\ Visit(g, [frames EXCEPT ![n].left = @ \ {g}])
  BY DEF Descend, Top
<1>2. UNCHANGED <<module, total, results, path, paths>>
  BY DEF Descend
<1>3. frames \in Seq(FrameType) /\ n \in Nat \ {0}
  BY DEF Descend, StackIInv, StackTypeOK, FrameType
<1>4. frames[n] \in FrameType
  BY <1>3
<1> DEFINE r == [frames[n] EXCEPT !.left = @ \ {g}]
           c == [frames EXCEPT ![n] = r]
<1>5. r \in FrameType /\ r.fn = frames[n].fn /\ r.max = frames[n].max /\ r.left = frames[n].left \ {g}
  BY <1>4 DEF FrameType
<1>6. [frames EXCEPT ![n].left = @ \ {g}] = c
  OBVIOUS
<1> HIDE DEF r
<1>7. c \in Seq(FrameType) /\ Len(c) = n /\ c[n] = r /\ \A k \in 1 .. n - 1 : c[k] = frames[k]
  BY <1>3, <1>5, TopReplaced
<1>8. Visit(g, c) /\ state[g] = "NotVisited"
  BY <1>1, <1>6
<1> HIDE DEF c
<1>9. \A k \in 1 .. n : c[k].fn = frames[k].fn /\ c[k].max = frames[k].max
  <2>1. \A k \in 1 .. n : k = n \/ k \in 1 .. n - 1
    BY <1>3
  <2> QED BY <2>1, <1>5, <1>7
<1>10. g \in Fns /\ g \in frames[n].left
  <2>1. frames[n].left \subseteq Fns
    BY <1>4 DEF FrameType
  <2> QED BY <1>1, <2>1
<1>11. c[n].left = frames[n].left \ {g} /\ \A k \in 1 .. n - 1 : c[k].left = frames[k].left
  BY <1>5, <1>7
<1> QED BY <1>2, <1>7, <1>8, <1>9, <1>10, <1>11, VisitKeeps

\* Raised in words.
LEMMA RaisedIs ==
  ASSUME FramesAreSized, NEW fr \in FrameType, NEW e \in Estimates
  PROVE  /\ Raised(fr, e) \in FrameType
         /\ Raised(fr, e).fn = fr.fn /\ Raised(fr, e).left = fr.left
         /\ Raised(fr, e).max = Estimate(Max({fr.max.bytes, e.bytes}), fr.max.unknown \/ e.unknown)
<1> DEFINE m == Estimate(Max({fr.max.bytes, e.bytes}), fr.max.unknown \/ e.unknown)
<1>1. fr.max \in Estimates
  BY DEF FrameType
<1>2. Max({fr.max.bytes, e.bytes}) \in Nat
  <2>1. fr.max.bytes \in Nat /\ e.bytes \in Nat
    BY <1>1 DEF Estimates
  <2> QED BY <2>1, MaxOfTwo
<1>3. m \in Estimates
  BY <1>2 DEF Estimate, Estimates
<1>4. Raised(fr, e) = [fr EXCEPT !.max = m]
  BY DEF Raised
<1> HIDE DEF m
<1>5. /\ [fr EXCEPT !.max = m] \in FrameType
      /\ [fr EXCEPT !.max = m].fn = fr.fn /\ [fr EXCEPT !.max = m].left = fr.left
      /\ [fr EXCEPT !.max = m].max = m
  BY <1>3 DEF FrameType
<1> QED BY <1>4, <1>5 DEF m

LEMMA SeeVisitedKeeps ==
  ASSUME IsFiniteSet(Fns), FramesAreSized, StackIInv, SeeVisited
  PROVE  StackIInv'
<1> DEFINE n == Len(frames)
<1>1. PICK g \in frames[n].left :
        /\ state[g] # "NotVisited"
        /\ frames' = [frames EXCEPT ![n] = [Raised(frames[n], Answer(g)) EXCEPT !.left = @ \ {g}]]
  BY DEF SeeVisited, Top
<1>2. UNCHANGED <<module, state, total, results, path, paths>>
  BY DEF SeeVisited
<1>3. frames \in Seq(FrameType) /\ n \in Nat \ {0}
  BY DEF SeeVisited, StackIInv, StackTypeOK, FrameType
<1>4. /\ \A k \in 1 .. n : frames[k] \in FrameType /\ frames[k].fn \in Fns
                           /\ frames[k].left \subseteq Callees(frames[k].fn)
      /\ n \in 1 .. n
  <2>1. \A k \in 1 .. n : frames[k] \in FrameType
    BY <1>3
  <2>2. \A k \in 1 .. n : frames[k].fn \in Fns
    BY <2>1 DEF FrameType
  <2> QED BY <2>1, <2>2, <1>3 DEF StackIInv, StackTypeOK
<1>5. state \in [Fns -> {"NotVisited", "Visiting", "Visited"}] /\ total \in [Fns -> Estimates]
  BY DEF StackIInv, StackTypeOK
<1> DEFINE f == frames[n].fn
           e == Answer(g)
           r == [Raised(frames[n], e) EXCEPT !.left = @ \ {g}]
<1>6. g \in Callees(f) /\ g \in Fns /\ f \in Fns /\ g \in frames[n].left
  BY <1>1, <1>4 DEF Callees
<1>7. e \in Estimates
  <2>1. Local(g) \in Estimates
    BY <1>6 DEF Local, Estimate, Estimates, FramesAreSized
  <2> QED BY <2>1, <1>5, <1>6 DEF Answer
<1>8. /\ r \in FrameType /\ r.fn = f /\ r.left = frames[n].left \ {g}
      /\ r.max = Estimate(Max({frames[n].max.bytes, e.bytes}), frames[n].max.unknown \/ e.unknown)
  <2> DEFINE q == Raised(frames[n], e)
  <2>1. /\ q \in FrameType /\ q.fn = f /\ q.left = frames[n].left
        /\ q.max = Estimate(Max({frames[n].max.bytes, e.bytes}), frames[n].max.unknown \/ e.unknown)
    BY <1>4, <1>7, RaisedIs
  <2> HIDE DEF q
  <2>2. /\ [q EXCEPT !.left = @ \ {g}] \in FrameType
        /\ [q EXCEPT !.left = @ \ {g}].fn = q.fn /\ [q EXCEPT !.left = @ \ {g}].max = q.max
        /\ [q EXCEPT !.left = @ \ {g}].left = q.left \ {g}
    BY <2>1 DEF FrameType
  <2> QED BY <2>1, <2>2 DEF q
<1>9. frames' = [frames EXCEPT ![n] = r]
  BY <1>1
<1> HIDE DEF r
<1>10. /\ frames' \in Seq(FrameType) /\ Len(frames') = n /\ frames'[n] = r
       /\ \A k \in 1 .. n - 1 : frames'[k] = frames[k]
  BY <1>3, <1>8, <1>9, TopReplaced
<1>11. \A k \in 1 .. n : k = n \/ k \in 1 .. n - 1
  BY <1>3
<1>12. \A k \in 1 .. n : frames'[k].fn = frames[k].fn
  BY <1>8, <1>10, <1>11
<1>13. SameModule /\ DoneStays
  BY <1>2, ModuleStays DEF DoneStays
<1>14. StackTypeOK'
  <2>1. \A k \in 1 .. n : frames'[k].left \subseteq Callees(frames'[k].fn)
    BY <1>4, <1>8, <1>10, <1>11
  <2> QED BY <2>1, <1>2, <1>5, <1>10, <1>13 DEF StackTypeOK, FrameType, SameModule
<1>15. CallStack'
  <2>1. CallStack
    BY DEF StackIInv
  <2>2. \A k \in 1 .. n - 1 : k \in 1 .. n /\ k + 1 \in 1 .. n
    BY <1>3
  <2>3. \A k \in 1 .. n : \A l \in k .. n : l \in 1 .. n
    BY <1>3
  <2>4. \A h \in Fns : state'[h] = "Visiting" <=> \E k \in 1 .. n : frames'[k].fn = h
    BY <2>1, <1>2, <1>12 DEF CallStack
  <2>5. \A k, l \in 1 .. n : frames'[k].fn = frames'[l].fn => k = l
    BY <2>1, <1>12 DEF CallStack
  <2>6. \A k \in 1 .. n : \A l \in k .. n : frames'[l].fn \in Below(frames'[k].fn)
    BY <2>1, <2>3, <1>12 DEF CallStack
  <2>7. \A k \in 1 .. n - 1 : frames'[k + 1].fn \in Callees(frames'[k].fn) \ frames'[k].left
    <3>1. \A k \in 1 .. n : frames'[k].left \subseteq frames[k].left
      BY <1>8, <1>10, <1>11
    <3> QED BY <2>1, <2>2, <3>1, <1>12 DEF CallStack
  <2> QED BY <2>4, <2>5, <2>6, <2>7, <1>10, <1>13 DEF CallStack, SameModule
<1>16. \A k \in 1 .. n : MaxIInv(k)'
  <2> SUFFICES ASSUME NEW k \in 1 .. n PROVE MaxIInv(k)'
    OBVIOUS
  <2>0. MaxIInv(k) /\ frames[k].fn \in Fns
    BY <1>4 DEF StackIInv, DoneIInv
  <2>1. CASE k # n
    <3>1. k \in 1 .. n - 1 /\ k < Len(frames) /\ k < Len(frames') /\ k + 1 \in 1 .. n
      BY <2>1, <1>10, <1>11
    <3>2. frames'[k] = frames[k] /\ frames'[k + 1].fn = frames[k + 1].fn
      BY <3>1, <1>10, <1>12
    <3>3. Answered(k)' = Answered(k)
      BY <3>1, <3>2, <1>13 DEF Answered, SameModule
    <3> QED BY <2>0, <3>2, <3>3, <1>13, MaxStays
  <2>2. CASE k = n
    <3>1. Answered(k)' = Answered(k) \cup {g}
      <4>1. ~(k < Len(frames)) /\ ~(k < Len(frames'))
        BY <2>2, <1>3, <1>10
      <4> QED BY <4>1, <2>2, <1>6, <1>8, <1>10, <1>13 DEF Answered, SameModule
    <3>2. e.bytes = LocalBytes(g) \/ (state'[g] = "Visited" /\ e.bytes = total'[g].bytes)
      BY <1>1, <1>2, <1>5, <1>6 DEF Answer, Local, Estimate
    <3>3. ASSUME Acyclic(f) PROVE state'[g] = "Visited" /\ e = total'[g]
      <4>1. state[g] # "Visiting"
        <5> SUFFICES ASSUME state[g] = "Visiting" PROVE FALSE
          OBVIOUS
        <5>1. PICK l \in 1 .. n : frames[l].fn = g
          BY <1>6 DEF StackIInv, CallStack
        <5>2. n \in l .. n
          BY <1>3
        <5>3. f \in Below(g)
          BY <5>1, <5>2 DEF StackIInv, CallStack
        <5> QED BY <5>3, <3>3, <1>6, NoWayBack
      <4> QED BY <4>1, <1>1, <1>2, <1>5, <1>6 DEF Answer
    <3>4. /\ frames'[k].fn = frames[k].fn /\ frames[k].max \in Estimates
          /\ frames'[k].max = Estimate(Max({frames[k].max.bytes, e.bytes}), frames[k].max.unknown \/ e.unknown)
      BY <2>2, <1>4, <1>8, <1>10 DEF FrameType
    <3>5. g \in Callees(frames[k].fn) /\ (Acyclic(frames[k].fn) => state'[g] = "Visited" /\ e = total'[g])
      BY <2>2, <1>6, <3>3
    <3> HIDE DEF e, f
    <3> QED BY <2>0, <3>1, <3>2, <3>4, <3>5, <1>5, <1>7, <1>13, MaxRaised
  <2> QED BY <2>1, <2>2
<1>17. \A h \in Fns : state'[h] = "Visited" => TotalIInv(h)'
  BY <1>2, <1>13, TotalStays DEF StackIInv, DoneIInv
<1>18. PathIInv'
  <2>1. ~Computed
    BY <1>3 DEF Computed
  <2> QED BY <2>1, <1>2, PathsWait DEF StackIInv
<1> QED BY <1>10, <1>14, <1>15, <1>16, <1>17, <1>18 DEF StackIInv, DoneIInv

LEMMA ReturnKeeps ==
  ASSUME IsFiniteSet(Fns), FramesAreSized, StackIInv, Return
  PROVE  StackIInv'
<1>a. PICK n : n = Len(frames)
  OBVIOUS
<1>b. PICK f : f = frames[n].fn
  OBVIOUS
<1>c. PICK t : t = Sum(Local(f), frames[n].max)
  OBVIOUS
<1>d. PICK below : below = n - 1
  OBVIOUS
<1> DEFINE lower == SubSeq(frames, 1, below)
<1>1. /\ frames[n].left = {}
      /\ total' = [total EXCEPT ![f] = t]
      /\ state' = [state EXCEPT ![f] = "Visited"]
      /\ frames' = IF below = 0 THEN << >> ELSE [lower EXCEPT ![below] = Raised(@, t)]
  BY <1>a, <1>b, <1>c, <1>d DEF Return, Top
<1>2. UNCHANGED <<module, results, path, paths>>
  BY DEF Return
<1>3. frames \in Seq(FrameType) /\ n \in Nat \ {0} /\ below \in Nat
  BY <1>a, <1>d DEF Return, StackIInv, StackTypeOK, FrameType
<1>4. /\ \A k \in 1 .. n : frames[k] \in FrameType /\ frames[k].fn \in Fns
                           /\ frames[k].max \in Estimates
                           /\ frames[k].left \subseteq Callees(frames[k].fn)
      /\ n \in 1 .. n
  <2>1. \A k \in 1 .. n : frames[k] \in FrameType
    BY <1>a, <1>3
  <2>2. \A k \in 1 .. n : frames[k].fn \in Fns /\ frames[k].max \in Estimates
    BY <2>1 DEF FrameType
  <2> QED BY <2>1, <2>2, <1>a, <1>3 DEF StackIInv, StackTypeOK
<1>5. state \in [Fns -> {"NotVisited", "Visiting", "Visited"}] /\ total \in [Fns -> Estimates]
  BY DEF StackIInv, StackTypeOK
<1>6. CallStack
  BY DEF StackIInv
<1>7. f \in Fns /\ state[f] = "Visiting"
  BY <1>a, <1>b, <1>4, <1>6 DEF CallStack
<1>8. t \in Estimates
  <2>1. frames[n].max.bytes \in Nat /\ LocalBytes(f) \in Nat
    BY <1>4, <1>7 DEF Estimates, FramesAreSized
  <2> QED BY <2>1, <1>c DEF Sum, Local, Estimate, Estimates
<1>9. total'[f] = t /\ state'[f] = "Visited" /\ \A g \in Fns : g # f => total'[g] = total[g] /\ state'[g] = state[g]
  BY <1>1, <1>5, <1>7
<1>10. SameModule /\ DoneStays
  BY <1>2, <1>7, <1>9, ModuleStays DEF DoneStays
<1>11. /\ frames' \in Seq(FrameType) /\ Len(frames') = below
       /\ \A k \in 1 .. below : frames'[k].fn = frames[k].fn /\ frames'[k].left = frames[k].left
       /\ \A k \in 1 .. below - 1 : frames'[k].max = frames[k].max
       /\ below # 0 => frames'[below].max = Estimate(Max({frames[below].max.bytes, t.bytes}),
                                                    frames[below].max.unknown \/ t.unknown)
  <2>1. CASE below = 0
    <3>1. frames' = << >>
      BY <2>1, <1>1
    <3>2. << >> \in Seq(FrameType) /\ Len(<< >>) = 0 /\ 1 .. 0 = {} /\ 1 .. 0 - 1 = {}
      OBVIOUS
    <3> QED BY <2>1, <3>1, <3>2
  <2>2. CASE below # 0
    <3>1. lower \in Seq(FrameType) /\ Len(lower) = below /\ \A k \in 1 .. below : lower[k] = frames[k]
      BY <1>a, <1>d, <1>3
    <3> DEFINE r == Raised(lower[below], t)
    <3>2. lower[below] \in FrameType /\ lower[below] = frames[below]
      BY <2>2, <1>d, <1>3, <3>1, <1>4
    <3> HIDE DEF lower
    <3>3. /\ r \in FrameType /\ r.fn = frames[below].fn /\ r.left = frames[below].left
          /\ r.max = Estimate(Max({frames[below].max.bytes, t.bytes}), frames[below].max.unknown \/ t.unknown)
      BY <3>2, <1>8, RaisedIs
    <3>4. frames' = [lower EXCEPT ![below] = r]
      BY <2>2, <1>1 DEF lower
    <3> HIDE DEF r
    <3>5. /\ frames' \in Seq(FrameType) /\ Len(frames') = below /\ frames'[below] = r
          /\ \A k \in 1 .. below - 1 : frames'[k] = lower[k]
      <4>1. below \in Nat \ {0}
        BY <2>2, <1>3
      <4> QED BY <4>1, <3>1, <3>3, <3>4, TopReplaced
    <3>6. \A k \in 1 .. below : k = below \/ k \in 1 .. below - 1
      BY <1>3
    <3>7. \A k \in 1 .. below : frames'[k].fn = frames[k].fn /\ frames'[k].left = frames[k].left
      BY <3>1, <3>3, <3>5, <3>6
    <3>8. \A k \in 1 .. below - 1 : frames'[k].max = frames[k].max
      <4>1. \A k \in 1 .. below - 1 : k \in 1 .. below
        BY <1>3
      <4> QED BY <4>1, <3>1, <3>5
    <3> QED BY <3>3, <3>5, <3>7, <3>8
  <2> QED BY <2>1, <2>2
<1>12. StackTypeOK'
  <2>1. \A k \in 1 .. below : frames'[k].left \subseteq Callees(frames'[k].fn)
    <3>1. \A k \in 1 .. below : k \in 1 .. n
      BY <1>d, <1>3
    <3> QED BY <3>1, <1>4, <1>11
  <2>2. state' \in [Fns -> {"NotVisited", "Visiting", "Visited"}] /\ total' \in [Fns -> Estimates]
    BY <1>1, <1>5, <1>8
  <2> QED BY <2>1, <2>2, <1>10, <1>11 DEF StackTypeOK, FrameType, SameModule
<1>13. CallStack'
  <2>1. /\ \A k \in 1 .. below : k \in 1 .. n /\ k # n
        /\ \A k \in 1 .. n : k = n \/ k \in 1 .. below
        /\ \A k \in 1 .. below - 1 : k \in 1 .. n - 1 /\ k \in 1 .. below /\ k + 1 \in 1 .. below
        /\ \A k \in 1 .. below : \A l \in k .. below : l \in 1 .. below /\ l \in k .. n
    BY <1>3, <1>d
  <2>2. \A g \in Fns : state'[g] = "Visiting" <=> \E k \in 1 .. below : frames'[k].fn = g
    <3> SUFFICES ASSUME NEW g \in Fns
                 PROVE  state'[g] = "Visiting" <=> \E k \in 1 .. below : frames'[k].fn = g
      OBVIOUS
    <3>1. CASE g = f
      BY <3>1, <2>1, <1>a, <1>b, <1>6, <1>9, <1>11, <1>4 DEF CallStack
    <3>2. CASE g # f
      <4>1. state'[g] = "Visiting" <=> \E k \in 1 .. n : frames[k].fn = g
        BY <3>2, <1>a, <1>6, <1>9 DEF CallStack
      <4>2. frames[n].fn # g
        BY <3>2, <1>b
      <4> QED BY <4>1, <4>2, <2>1, <1>11
    <3> QED BY <3>1, <3>2
  <2>3. \A k, l \in 1 .. below : frames'[k].fn = frames'[l].fn => k = l
    BY <2>1, <1>a, <1>6, <1>11 DEF CallStack
  <2>4. \A k \in 1 .. below : \A l \in k .. below : frames'[l].fn \in Below(frames'[k].fn)
    BY <2>1, <1>a, <1>6, <1>11 DEF CallStack
  <2>5. \A k \in 1 .. below - 1 : frames'[k + 1].fn \in Callees(frames'[k].fn) \ frames'[k].left
    BY <2>1, <1>a, <1>6, <1>11 DEF CallStack
  <2> QED BY <2>2, <2>3, <2>4, <2>5, <1>10, <1>11 DEF CallStack, SameModule
<1>14. \A k \in 1 .. below : MaxIInv(k)'
  <2> SUFFICES ASSUME NEW k \in 1 .. below PROVE MaxIInv(k)'
    OBVIOUS
  <2>1. /\ k \in 1 .. n /\ k \in 1 .. n - 1 /\ k < Len(frames)
        /\ frames[k].fn \in Fns /\ frames'[k].fn = frames[k].fn /\ frames'[k].left = frames[k].left
        /\ frames[k].max \in Estimates
    BY <1>a, <1>d, <1>3, <1>4, <1>11
  <2>2. MaxIInv(k)
    BY <2>1, <1>a DEF StackIInv, DoneIInv
  <2>3. CASE k # below
    <3>1. k \in 1 .. below - 1 /\ k + 1 \in 1 .. below /\ k < Len(frames')
      BY <2>3, <1>3, <1>11
    <3>2. frames'[k].max = frames[k].max /\ frames'[k + 1].fn = frames[k + 1].fn
      BY <3>1, <1>11
    <3>3. Answered(k)' = Answered(k)
      BY <2>1, <3>1, <3>2, <1>10 DEF Answered, SameModule
    <3> QED BY <2>1, <2>2, <3>2, <3>3, <1>10, MaxStays
  <2>4. CASE k = below
    <3>1. k + 1 = n /\ ~(k < Len(frames')) /\ below # 0
      BY <2>4, <1>d, <1>3, <1>11
    <3>2. f \in Callees(frames[k].fn) \ frames[k].left
      <4>1. frames[k + 1].fn \in Callees(frames[k].fn) \ frames[k].left
        BY <2>1, <1>a, <1>6 DEF CallStack
      <4> QED BY <4>1, <3>1, <1>b
    <3>3. Answered(k)' = Answered(k) \cup {f}
      BY <2>1, <3>1, <3>2, <1>a, <1>b, <1>10 DEF Answered, SameModule
    <3>4. frames'[k].max = Estimate(Max({frames[k].max.bytes, t.bytes}), frames[k].max.unknown \/ t.unknown)
      BY <2>4, <3>1, <1>11
    <3> QED BY <2>1, <2>2, <3>2, <3>3, <3>4, <1>5, <1>8, <1>9, <1>10, MaxRaised
  <2> QED BY <2>3, <2>4
<1>15. TotalIInv(f)'
  <2>1. MaxIInv(n)
    BY <1>a, <1>4 DEF StackIInv, DoneIInv
  <2>2. Answered(n) = Callees(f)
    <3>1. ~(n < Len(frames))
      BY <1>a, <1>3
    <3> QED BY <3>1, <1>1, <1>b DEF Answered
  <2> DEFINE m == frames[n].max
  <2>3. m \in Estimates
    BY <1>4
  <2>4. \/ m.bytes = 0
        \/ \E g \in Callees(f) :
             m.bytes = LocalBytes(g) \/ (state[g] = "Visited" /\ m.bytes = total[g].bytes)
    BY <2>1, <1>b DEF MaxIInv, MaxIsSome
  <2>5. Acyclic(f) =>
          /\ \A g \in Callees(f) : state[g] = "Visited" /\ total[g].bytes <= m.bytes
          /\ m.bytes = 0 \/ \E g \in Callees(f) : m.bytes = total[g].bytes
          /\ m.unknown <=> \E g \in Callees(f) : total[g].unknown
    BY <2>1, <2>2, <1>b DEF MaxIInv, MaxIsExact
  <2>6. total'[f] = Sum(Local(f), m) /\ state[f] # "Visited" /\ state'[f] = "Visited"
    BY <1>c, <1>7, <1>9
  <2>7. \A g \in Fns : state[g] = "Visited" => TotalIInv(g)
    BY DEF StackIInv, DoneIInv
  <2> HIDE DEF m
  <2> QED BY <2>3, <2>4, <2>5, <2>6, <2>7, <1>5, <1>7, <1>10, TotalMade
<1>16. \A g \in Fns : state'[g] = "Visited" => TotalIInv(g)'
  <2> SUFFICES ASSUME NEW g \in Fns, state'[g] = "Visited" PROVE TotalIInv(g)'
    OBVIOUS
  <2>1. CASE g = f
    BY <2>1, <1>15
  <2>2. CASE g # f
    BY <2>2, <1>9, <1>10, TotalStays DEF StackIInv, DoneIInv
  <2> QED BY <2>1, <2>2
<1>17. PathIInv'
  <2>1. ~Computed
    BY <1>a, <1>3 DEF Computed
  <2> QED BY <2>1, <1>2, PathsWait DEF StackIInv
<1> QED BY <1>11, <1>12, <1>13, <1>14, <1>16, <1>17 DEF StackIInv, DoneIInv

\* Steps that leave the computation alone keep what is said of it.
LEMMA ComputationRests ==
  ASSUME StackTypeOK, CallStack, DoneIInv, UNCHANGED <<module, state, total, frames>>
  PROVE  StackTypeOK' /\ CallStack' /\ DoneIInv'
<1>1. SameModule /\ DoneStays
  BY ModuleStays DEF DoneStays
<1>2. StackTypeOK'
  BY <1>1 DEF StackTypeOK, SameModule
<1>3. CallStack'
  BY <1>1 DEF CallStack, SameModule
<1>4. \A k : Answered(k)' = Answered(k)
  BY <1>1 DEF Answered, SameModule
<1>5. \A k \in 1 .. Len(frames) : MaxIInv(k)'
  <2> SUFFICES ASSUME NEW k \in 1 .. Len(frames) PROVE MaxIInv(k)'
    OBVIOUS
  <2>1. frames[k].fn \in Fns
    <3>1. frames \in Seq(FrameType)
      BY DEF StackTypeOK, FrameType
    <3>2. frames[k] \in FrameType
      BY <3>1
    <3> QED BY <3>2 DEF FrameType
  <2> QED BY <2>1, <1>1, <1>4, MaxStays DEF DoneIInv
<1>6. \A f \in Fns : state'[f] = "Visited" => TotalIInv(f)'
  BY <1>1, TotalStays DEF DoneIInv
<1> QED BY <1>2, <1>3, <1>5, <1>6 DEF DoneIInv

LEMMA BuildResultsKeeps ==
  ASSUME StackIInv, BuildResults
  PROVE  StackIInv'
<1>1. Computed /\ results = << >> /\ UNCHANGED <<module, state, total, frames, path, paths>>
  BY DEF BuildResults
<1>2. path = << >> /\ \A f \in Fns : paths[f] = << >>
  BY <1>1 DEF StackIInv, PathIInv
<1>3. Computed'
  BY <1>1 DEF Computed
<1>4. PathIInv'
  BY <1>1, <1>2, <1>3 DEF StackIInv, PathIInv
<1> QED BY <1>1, <1>4, ComputationRests DEF StackIInv

LEMMA BeginPathKeeps ==
  ASSUME IsFiniteSet(Fns), FramesAreSized, StackIInv, BeginPath
  PROVE  StackIInv'
<1>1. /\ results # << >> /\ UNCHANGED <<module, state, total, frames, results, paths>>
      /\ Computed /\ Computed'
  BY DEF BeginPath, StackIInv, PathIInv, Computed
<1>2. PICK f \in Fns : path' = <<f>>
  BY DEF BeginPath
<1>3. SameModule
  BY <1>1, ModuleStays
<1>4. /\ path' \in Chains /\ path'[1] = f /\ Last(path') = f /\ Weight(path') = LocalBytes(f)
  BY <1>2, ChainOfOne, WeightOfOne DEF ChainsFrom
<1>5. total[f].bytes \in Nat /\ LocalBytes(f) \in Nat
  <2>1. total[f] \in Estimates
    BY DEF StackIInv, StackTypeOK
  <2> QED BY <2>1 DEF Estimates, FramesAreSized
<1>6. Weight(path') + total[Last(path')].bytes = total[path'[1]].bytes + LocalBytes(Last(path'))
  BY <1>4, <1>5
<1>7. PathIInv'
  <2>1. Weight(path)' = Weight(path') /\ LocalBytes(Last(path))' = LocalBytes(Last(path'))
    BY <1>1 DEF Weight, LocalBytes, FrameIR, FrameABI, Callees
  <2>2. PathIInv
    BY DEF StackIInv
  <2> QED BY <2>1, <2>2, <1>1, <1>3, <1>4, <1>6 DEF PathIInv, SameModule
<1> QED BY <1>1, <1>7, ComputationRests DEF StackIInv

\* What PathIInv says of a path, in any module that is not changed.
PathLacks(p) ==
  Acyclic(p[1]) => Weight(p) + total[Last(p)].bytes = total[p[1]].bytes + LocalBytes(Last(p))

\* The callee a round goes to is one that makes up the total.
LEMMA BestCalleeCounts ==
  ASSUME FramesAreSized, StackIInv, results # << >>, NEW f \in Fns, Acyclic(f)
  PROVE  /\ \A g \in BestCallees(f) : total[f].bytes = LocalBytes(f) + total[g].bytes
         /\ BestCallees(f) = {} => total[f].bytes = LocalBytes(f)
<1>1. Computed
  BY DEF StackIInv, PathIInv
<1>2. TotalIsExact(f)
  BY <1>1 DEF StackIInv, DoneIInv, TotalIInv, Computed
<1>3. \A g \in Fns : total[g].bytes \in Nat /\ LocalBytes(g) \in Nat
  <2> SUFFICES ASSUME NEW g \in Fns PROVE total[g].bytes \in Nat
    BY DEF FramesAreSized
  <2>1. total[g] \in Estimates
    BY DEF StackIInv, StackTypeOK
  <2> QED BY <2>1 DEF Estimates
<1>4. \A g \in Callees(f) : g \in Fns /\ LocalBytes(f) + total[g].bytes <= total[f].bytes
  BY <1>2 DEF TotalIsExact, Callees
<1>5. CASE total[f].bytes = LocalBytes(f)
  <2>1. \A g \in Callees(f) : ~(total[g].bytes > 0)
    BY <1>3, <1>4, <1>5
  <2> QED BY <2>1, <1>5 DEF BestCallees
<1>6. ASSUME NEW h \in Callees(f), total[f].bytes = LocalBytes(f) + total[h].bytes,
             total[f].bytes # LocalBytes(f)
      PROVE  /\ \A g \in BestCallees(f) : total[f].bytes = LocalBytes(f) + total[g].bytes
             /\ BestCallees(f) # {}
  <2>1. h \in Fns /\ total[h].bytes > 0
    BY <1>3, <1>4, <1>6
  <2>2. \A g \in Callees(f) : total[g].bytes <= total[h].bytes
    BY <1>3, <1>4, <1>6
  <2>3. h \in BestCallees(f)
    BY <2>1, <2>2 DEF BestCallees
  <2>4. \A g \in BestCallees(f) : g \in Fns /\ total[g].bytes <= total[h].bytes /\ total[h].bytes <= total[g].bytes
    BY <2>2, <1>4 DEF BestCallees
  <2> QED BY <2>1, <2>3, <2>4, <1>3, <1>6
<1> QED BY <1>2, <1>5, <1>6 DEF TotalIsExact

LEMMA PathIs ==
  ASSUME StackIInv, path # << >>
  PROVE  /\ results # << >> /\ Computed /\ path \in Chains /\ path[1] \in Fns /\ Last(path) \in Fns
         /\ Last(path) \in Below(path[1])
         /\ PathLacks(path)
<1>1. results # << >> /\ Computed /\ path \in Chains /\ PathLacks(path)
  BY DEF StackIInv, PathIInv, PathLacks
<1>2. 1 \in 1 .. Len(path) /\ Len(path) \in 1 .. Len(path)
  BY <1>1, ChainIs
<1>3. path[Len(path)] \in Below(path[1])
  BY <1>1, <1>2, ChainReaches
<1> QED BY <1>1, <1>2, <1>3, ChainIs DEF Last

LEMMA ExtendPathKeeps ==
  ASSUME IsFiniteSet(Fns), FramesAreSized, StackIInv, ExtendPath
  PROVE  StackIInv'
<1>1. path # << >> /\ UNCHANGED <<module, state, total, frames, results, paths>>
  BY DEF ExtendPath
<1>2. PICK g \in BestCallees(Last(path)) : g \notin Range(path) /\ path' = Append(path, g)
  BY DEF ExtendPath
<1>3. /\ results # << >> /\ Computed /\ path \in Chains /\ path[1] \in Fns /\ Last(path) \in Fns
      /\ Last(path) \in Below(path[1]) /\ PathLacks(path)
  BY <1>1, PathIs
<1>4. g \in Callees(Last(path)) /\ \A i \in 1 .. Len(path) : path[i] # g
  <2>1. DOMAIN path = 1 .. Len(path)
    BY <1>3, ChainIs
  <2> QED BY <2>1, <1>2 DEF BestCallees, Range
<1>5. /\ path' \in Chains /\ path'[1] = path[1] /\ Last(path') = g
      /\ Weight(path') = Weight(path) + LocalBytes(g)
  BY <1>2, <1>3, <1>4, ChainAppended
<1>6. ASSUME Acyclic(path[1])
      PROVE  Weight(path') + total[g].bytes = total[path[1]].bytes + LocalBytes(g)
  <2>1. Acyclic(Last(path))
    BY <1>3, <1>6, AcyclicBelow
  <2>2. total[Last(path)].bytes = LocalBytes(Last(path)) + total[g].bytes
    BY <2>1, <1>2, <1>3, BestCalleeCounts
  <2>3. Weight(path) + total[Last(path)].bytes = total[path[1]].bytes + LocalBytes(Last(path))
    BY <1>3, <1>6 DEF PathLacks
  <2>4. /\ LocalBytes(Last(path)) \in Nat /\ LocalBytes(g) \in Nat /\ Weight(path) \in Nat
        /\ total[g].bytes \in Nat /\ total[path[1]].bytes \in Nat
    <3>1. g \in Fns
      BY <1>4 DEF Callees
    <3>2. total[g] \in Estimates /\ total[path[1]] \in Estimates
      BY <3>1, <1>3 DEF StackIInv, StackTypeOK
    <3>3. Weight(path) \in Nat
      BY <1>3, ChainIs, WeightIsNat
    <3> QED BY <3>1, <3>2, <3>3, <1>3 DEF Estimates, FramesAreSized
  <2> QED BY <2>2, <2>3, <2>4, <1>5
<1>7. SameModule /\ Computed'
  BY <1>1, <1>3, ModuleStays DEF Computed
<1>8. PathIInv'
  <2>1. Weight(path)' = Weight(path') /\ LocalBytes(Last(path))' = LocalBytes(Last(path'))
        /\ (Acyclic(path[1])' <=> Acyclic(path'[1]))
    BY <1>1 DEF Weight, LocalBytes, FrameIR, FrameABI, Callees, Acyclic
  <2>2. PathIInv
    BY DEF StackIInv
  <2> QED BY <2>1, <2>2, <1>1, <1>3, <1>5, <1>6, <1>7 DEF PathIInv, SameModule
<1> QED BY <1>1, <1>8, ComputationRests DEF StackIInv

LEMMA EndPathKeeps ==
  ASSUME IsFiniteSet(Fns), FramesAreSized, StackIInv, EndPath
  PROVE  StackIInv'
<1>1. /\ path # << >> /\ UNCHANGED <<module, state, total, frames, results>> /\ path' = << >>
      /\ paths' = [paths EXCEPT ![path[1]] = path]
      /\ BestCallees(Last(path)) = {} \/ BestCallees(Last(path)) \cap Range(path) # {}
  BY DEF EndPath
<1>2. /\ results # << >> /\ Computed /\ path \in Chains /\ path[1] \in Fns /\ Last(path) \in Fns
      /\ Last(path) \in Below(path[1]) /\ PathLacks(path)
  BY <1>1, PathIs
<1>3. PathIInv
  BY DEF StackIInv
<1>4. ASSUME Acyclic(path[1])
      PROVE  path \in ChainsFrom(path[1]) /\ Weight(path) = total[path[1]].bytes
  <2>1. BestCallees(Last(path)) = {}
    <3> SUFFICES ASSUME NEW g \in BestCallees(Last(path)), g \in Range(path) PROVE FALSE
      BY <1>1
    <3>1. PICK i \in 1 .. Len(path) : path[i] = g
      BY <1>2, ChainIs DEF Range
    <3>2. Last(path) \in Below(g)
      <4>1. Len(path) \in i .. Len(path)
        BY <1>2, ChainIs
      <4> QED BY <4>1, <3>1, <1>2, ChainReaches DEF Last
    <3>3. Acyclic(Last(path)) /\ g \in Callees(Last(path))
      BY <1>2, <1>4, AcyclicBelow DEF BestCallees
    <3> QED BY <3>2, <3>3, <1>2, NoWayBack
  <2>2. total[Last(path)].bytes = LocalBytes(Last(path))
    BY <2>1, <1>2, <1>4, AcyclicBelow, BestCalleeCounts
  <2>3. Weight(path) + total[Last(path)].bytes = total[path[1]].bytes + LocalBytes(Last(path))
    BY <1>2, <1>4 DEF PathLacks
  <2>4. LocalBytes(Last(path)) \in Nat /\ Weight(path) \in Nat /\ total[path[1]].bytes \in Nat
    <3>1. total[path[1]] \in Estimates
      BY <1>2 DEF StackIInv, StackTypeOK
    <3>2. Weight(path) \in Nat
      BY <1>2, ChainIs, WeightIsNat
    <3> QED BY <3>1, <3>2, <1>2 DEF Estimates, FramesAreSized
  <2> QED BY <2>2, <2>3, <2>4, <1>2 DEF ChainsFrom
<1>5. SameModule /\ Computed'
  BY <1>1, <1>2, ModuleStays DEF Computed
<1>6. paths' \in [Fns -> Seq(Fns)]
  <2>1. path \in Seq(Fns)
    BY <1>2, ChainIs
  <2> QED BY <2>1, <1>1, <1>3 DEF PathIInv
<1>7. ASSUME NEW f \in Fns, paths'[f] # << >>, Acyclic(f)
      PROVE  paths'[f] \in ChainsFrom(f) /\ Weight(paths'[f]) = total[f].bytes
  <2>1. CASE f = path[1]
    BY <2>1, <1>1, <1>3, <1>4, <1>7 DEF PathIInv
  <2>2. CASE f # path[1]
    BY <2>2, <1>1, <1>3, <1>7 DEF PathIInv
  <2> QED BY <2>1, <2>2
<1>8. PathIInv'
  <2>1. \A f : Weight(paths[f])' = Weight(paths'[f])
    BY <1>1 DEF Weight, LocalBytes, FrameIR, FrameABI, Callees
  <2> QED BY <2>1, <1>1, <1>2, <1>5, <1>6, <1>7 DEF PathIInv, SameModule
<1> QED BY <1>1, <1>8, ComputationRests DEF StackIInv

LEMMA StartHasStackIInv ==
  ASSUME Unvisited
  PROVE  StackIInv
<1>1. frames = << >> /\ Len(frames) = 0 /\ 1 .. Len(frames) = {} /\ \A k \in 1 .. Len(frames) : FALSE
  BY DEF Unvisited
<1>2. state = [f \in Fns |-> "NotVisited"] /\ \A f \in Fns : state[f] = "NotVisited"
  BY DEF Unvisited
<1>3. StackTypeOK
  <2>1. total \in [Fns -> Estimates]
    <3>1. Estimate(0, FALSE) \in Estimates
      BY DEF Estimate, Estimates
    <3> QED BY <3>1 DEF Unvisited
  <2>2. frames \in Seq([fn : Fns, left : SUBSET Fns, max : Estimates])
    BY <1>1
  <2> QED BY <2>1, <2>2, <1>1, <1>2 DEF StackTypeOK
<1>4. CallStack
  <2>1. \A k \in 1 .. Len(frames) - 1 : FALSE
    BY <1>1
  <2> QED BY <2>1, <1>1, <1>2 DEF CallStack
<1>5. DoneIInv
  BY <1>1, <1>2 DEF DoneIInv
<1>6. PathIInv
  <2>1. results = << >> /\ path = << >> /\ paths = [f \in Fns |-> << >>]
    BY DEF Unvisited
  <2>2. paths \in [Fns -> Seq(Fns)] /\ \A f \in Fns : paths[f] = << >>
    BY <2>1
  <2> QED BY <2>1, <2>2 DEF PathIInv
<1> QED BY <1>3, <1>4, <1>5, <1>6 DEF StackIInv

\* The invariant of the preparation: nothing is computed when there is no module.
TotalsIInv ==
  IF module = NoModule
  THEN known = FALSE /\ results = << >> /\ \A f \in Fns : paths[f] = << >>
  ELSE module \in Inputs /\ StackIInv

LEMMA StackRests ==
  ASSUME StackIInv, UNCHANGED <<module, state, total, frames, results, path, paths>>
  PROVE  StackIInv'
<1>1. SameModule /\ (Computed' <=> Computed)
  BY ModuleStays DEF Computed
<1>2. PathIInv'
  <2>1. \A f : Weight(paths[f])' = Weight(paths[f]) /\ Weight(path)' = Weight(path)
    BY DEF Weight, LocalBytes, FrameIR, FrameABI, Callees
  <2>2. LocalBytes(Last(path))' = LocalBytes(Last(path)) /\ (Acyclic(path[1])' <=> Acyclic(path[1]))
    BY DEF LocalBytes, FrameIR, FrameABI, Callees, Acyclic
  <2> QED BY <1>1, <2>1, <2>2 DEF StackIInv, PathIInv, SameModule
<1> QED BY <1>2, ComputationRests DEF StackIInv

LEMMA TotalsNext ==
  ASSUME PrepInputs, StackInputs, TotalsIInv, [PrepNext]_prepVars
  PROVE  TotalsIInv'
<1>0. IsFiniteSet(Fns)
  <2>1. IsFiniteSet(1 .. Size)
    BY FS_Interval DEF PrepInputs
  <2> QED BY <2>1, FS_Subset DEF PrepInputs
<1>1. CASE UNCHANGED <<module, state, total, frames, results, path, paths>>
           /\ (UNCHANGED known \/ module # NoModule)
  BY <1>1, StackRests DEF TotalsIInv
<1>2. CASE StackStep
  <2>1. module # NoModule /\ module \in Inputs /\ StackIInv /\ UNCHANGED module
    BY <1>2 DEF StackStep, TotalsIInv, Start, Descend, SeeVisited, Return,
       BuildResults, BeginPath, ExtendPath, EndPath
  <2>2. FramesAreSized
    BY <2>1, FramesHaveSizes
  <2>3. StackIInv'
    BY <1>0, <1>2, <2>1, <2>2, StartKeeps, DescendKeeps, SeeVisitedKeeps, ReturnKeeps,
       BuildResultsKeeps, BeginPathKeeps, ExtendPathKeeps, EndPathKeeps DEF StackStep
  <2> QED BY <2>1, <2>3 DEF TotalsIInv
<1>3. CASE SearchStep \/ LevelStep \/ PrepOver \/ UNCHANGED prepVars
  BY <1>1, <1>3 DEF SearchStep, LevelStep, IsSearching, PrepOver, prepVars, stackVars
<1>4. CASE FoundRecursive
  BY <1>1, <1>4 DEF FoundRecursive
<1> QED BY <1>2, <1>3, <1>4 DEF PrepNext

(* The invariant of the stack computation holds of every preparation.      *)
THEOREM TotalsInvariant ==
  ASSUME PrepInputs, StackInputs
  PROVE  PrepSpec => []TotalsIInv
<1>1. PrepInit => TotalsIInv
  <2> SUFFICES ASSUME PrepInit PROVE TotalsIInv
    OBVIOUS
  <2>1. Unvisited
    BY DEF PrepInit
  <2>2. known = FALSE /\ results = << >> /\ \A f \in Fns : paths[f] = << >>
    BY <2>1 DEF Unvisited
  <2>3. StackIInv
    BY <2>1, StartHasStackIInv
  <2> QED BY <2>2, <2>3 DEF TotalsIInv, PrepInit
<1>2. TotalsIInv /\ [PrepNext]_prepVars => TotalsIInv'
  BY TotalsNext
<1> QED BY <1>1, <1>2, PTL DEF PrepSpec

LEMMA MaxIs ==
  ASSUME NEW S \in SUBSET Nat, NEW m \in S, \A k \in S : k <= m
  PROVE  Max(S) = m
<1>1. m \in S /\ \A y \in S : m >= y
  OBVIOUS
<1> DEFINE x == Max(S)
<1>2. x \in S /\ \A y \in S : x >= y
  BY <1>1 DEF Max
<1> HIDE DEF x
<1>3. x = m
  BY <1>2
<1> QED BY <1>3 DEF x

LEMMA TotalsIInvImplies ==
  ASSUME PrepInputs, StackInputs, TotalsIInv
  PROVE  ExactOffCycles /\ TotalsAreChains /\ PathExplainsTotal
<1>1. CASE module = NoModule
  BY <1>1 DEF TotalsIInv, ExactOffCycles, TotalsAreChains, PathExplainsTotal
<1>2. CASE module # NoModule
  <2>1. module \in Inputs /\ StackIInv /\ FramesAreSized
    BY <1>2, FramesHaveSizes DEF TotalsIInv
  <2>2. results # << >> => \A f \in Fns : TotalIInv(f)
    BY <2>1 DEF StackIInv, DoneIInv, PathIInv, Computed
  <2>3. ExactOffCycles
    <3> SUFFICES ASSUME results # << >>, NEW f \in Fns, Acyclic(f)
                 PROVE  /\ total[f].bytes = Max({Weight(c) : c \in ChainsFrom(f)})
                        /\ total[f].unknown <=> \E c \in ChainsFrom(f) : Last(c) \in module.dynamic
      BY DEF ExactOffCycles
    <3>1. TotalIsExact(f)
      BY <2>2 DEF TotalIInv
    <3> DEFINE S == {Weight(c) : c \in ChainsFrom(f)}
    <3>2. S \in SUBSET Nat
      <4>1. \A c \in ChainsFrom(f) : Weight(c) \in Nat
        BY <2>1, ChainIs, WeightIsNat DEF ChainsFrom
      <4> QED BY <4>1
    <3>3. total[f].bytes \in S /\ \A k \in S : k <= total[f].bytes
      BY <3>1 DEF TotalIsExact
    <3> HIDE DEF S
    <3>4. Max(S) = total[f].bytes
      BY <3>2, <3>3, MaxIs
    <3>5. total[f].unknown <=> \E c \in ChainsFrom(f) : Last(c) \in module.dynamic
      BY <3>1 DEF TotalIsExact
    <3> QED BY <3>4, <3>5 DEF S
  <2>4. TotalsAreChains
    BY <2>2 DEF TotalsAreChains, TotalIInv, TotalIsChain
  <2>5. PathExplainsTotal
    BY <2>1 DEF PathExplainsTotal, StackIInv, PathIInv
  <2> QED BY <2>3, <2>4, <2>5
<1> QED BY <1>1, <1>2

(* dfsComputeStack is exact away from cycles, for every module, every      *)
(* alignment and every order of the visits: the total of a function is the *)
(* weight of its heaviest chain of calls, and unknown just when one of the *)
(* functions on such chains has a dynamic alloca.                          *)
THEOREM TotalsAreExactOffCycles ==
  ASSUME PrepInputs, StackInputs
  PROVE  PrepSpec => []ExactOffCycles
<1>1. TotalsIInv => ExactOffCycles
  BY TotalsIInvImplies
<1> QED BY <1>1, TotalsInvariant, PTL

(* On cycles too, where it depends on the order of the visits, it counts a *)
(* real chain, of which only the last function may occur a second time.    *)
THEOREM TotalsAreOfChains ==
  ASSUME PrepInputs, StackInputs
  PROVE  PrepSpec => []TotalsAreChains
<1>1. TotalsIInv => TotalsAreChains
  BY TotalsIInvImplies
<1> QED BY <1>1, TotalsInvariant, PTL

(* The path of buildMaxStackCallPath, which looks only one call ahead in   *)
(* each round, needs exactly the total of the function it starts with, if  *)
(* that reaches no cycle.                                                  *)
THEOREM PathsExplainTotals ==
  ASSUME PrepInputs, StackInputs
  PROVE  PrepSpec => []PathExplainsTotal
<1>1. TotalsIInv => PathExplainsTotal
  BY TotalsIInvImplies
<1> QED BY <1>1, TotalsInvariant, PTL
=============================================================================
