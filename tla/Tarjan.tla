------------------------------- MODULE Tarjan -------------------------------
(***************************************************************************)
(* The component search the analyzer has twice: ModuleTarjan with          *)
(* computeSCCLevels in src/src/app/AnalyzerApp.cpp, which orders modules   *)
(* for the cross-TU indices, and strongConnect with                        *)
(* computeRecursiveFunctions and computeRecursiveComponents in             *)
(* src/src/analysis/StackComputation.cpp, which find recursive functions.  *)
(* The second leaves out functions with the norecurse attribute; for       *)
(* modules there are none.                                                 *)
(*                                                                         *)
(* The C++ recursion is explicit here: frames holds the active calls of    *)
(* strongConnect.  The successors of a node are taken in any order: they   *)
(* are an unordered_set of modules, or calls in the order some program has *)
(* them (a repeated call repeats a step that changes nothing).             *)
(***************************************************************************)
EXTENDS ComponentGraph, Integers, Sequences, FiniteSetsExt

CONSTANTS
  Size,      \* number of nodes
  Inputs     \* the graphs searched: records of edges and contract, over the nodes

Nodes == 1 .. Size

VARIABLES
  graph,      \* filteredEdges, or the call graph with hasNoRecurseContract
  expected,   \* what ComponentGraph says of the graph, worked out once
  index,      \* index of each node, -1 while unvisited
  lowlink,
  stack,
  onStack,
  nextIndex,
  frames,     \* active strongConnect calls: [node, left], left the successors to come
  sccs,       \* the components in the order they are found
  levels      \* result of computeSCCLevels, << >> before

input == <<graph, expected>>
tarjanVars == <<input, index, lowlink, stack, onStack, nextIndex, frames, sccs, levels>>

-----------------------------------------------------------------------------
Candidates == Nodes \ graph.contract

\* The successors strongConnect looks at: none of them has the contract.
Successors(v) == {w \in Candidates : <<v, w>> \in graph.edges}

Considered == {e \in graph.edges : e[1] \in Candidates /\ e[2] \in Candidates}

Top == frames[Len(frames)]

\* Before the loop over the nodes.
TarjanStart ==
  /\ expected = [component |-> ComponentsOf(Candidates, Considered),
                 level     |-> LevelsOf(Candidates, Considered)]
  /\ index = [v \in Nodes |-> -1]
  /\ lowlink = [v \in Nodes |-> -1]
  /\ stack = << >>
  /\ onStack = {}
  /\ nextIndex = 0
  /\ frames = << >>
  /\ sccs = << >>
  /\ levels = << >>

TarjanInit == graph \in Inputs /\ TarjanStart

\* The head of strongConnect(v), called from the frames calling.
Enter(v, calling) ==
  /\ index' = [index EXCEPT ![v] = nextIndex]
  /\ lowlink' = [lowlink EXCEPT ![v] = nextIndex]
  /\ nextIndex' = nextIndex + 1
  /\ stack' = Append(stack, v)
  /\ onStack' = onStack \cup {v}
  /\ frames' = Append(calling, [node |-> v, left |-> Successors(v)])

\* The loop over the nodes calls strongConnect for the next unvisited one.
Root ==
  /\ frames = << >>
  /\ \E v \in Candidates :
       /\ index[v] < 0
       /\ \A u \in Candidates : u < v => index[u] >= 0
       /\ Enter(v, << >>)
  /\ UNCHANGED <<input, sccs, levels>>

\* The frames after the running call has taken w from its successors.
Taken(w) == [frames EXCEPT ![Len(frames)].left = @ \ {w}]

\* An unvisited successor: strongConnect calls itself.
Descend ==
  /\ frames # << >>
  /\ \E w \in Top.left : index[w] < 0 /\ Enter(w, Taken(w))
  /\ UNCHANGED <<input, sccs, levels>>

\* Mutated SeeVisited: also successors whose component is closed are used.
SeeAnyVisited ==
  /\ frames # << >>
  /\ \E w \in Top.left :
       /\ index[w] >= 0
       /\ lowlink' = [lowlink EXCEPT ![Top.node] = Min({@, index[w]})]
       /\ frames' = Taken(w)
  /\ UNCHANGED <<input, index, stack, onStack, nextIndex, sccs, levels>>

\* A visited successor: its index counts if it is still on the stack.
SeeVisited ==
  /\ frames # << >>
  /\ \E w \in Top.left :
       /\ index[w] >= 0
       /\ lowlink' = IF w \in onStack
                     THEN [lowlink EXCEPT ![Top.node] = Min({@, index[w]})]
                     ELSE lowlink
       /\ frames' = Taken(w)
  /\ UNCHANGED <<input, index, stack, onStack, nextIndex, sccs, levels>>

\* The position on the stack of the node v.
Depth(v) == CHOOSE i \in 1 .. Len(stack) : stack[i] = v

\* The do-while loop that pops the component of v.
PopComponent(v) ==
  LET popped == {stack[i] : i \in Depth(v) .. Len(stack)}
  IN  /\ stack' = SubSeq(stack, 1, Depth(v) - 1)
      /\ onStack' = onStack \ popped
      /\ sccs' = Append(sccs, popped)

\* Mutated Return: the caller does not learn the lowlink of the callee.
ReturnWithoutLow ==
  /\ frames # << >>
  /\ Top.left = {}
  /\ LET v == Top.node
     IN  IF lowlink[v] = index[v]
         THEN PopComponent(v)
         ELSE UNCHANGED <<stack, onStack, sccs>>
  /\ frames' = SubSeq(frames, 1, Len(frames) - 1)
  /\ UNCHANGED <<input, index, lowlink, nextIndex, levels>>

\* The end of strongConnect(v): the component of a root is popped, and the
\* calling strongConnect takes over the lowlink.
Return ==
  /\ frames # << >>
  /\ Top.left = {}
  /\ LET v == Top.node
         below == Len(frames) - 1
     IN  /\ IF lowlink[v] = index[v]
            THEN PopComponent(v)
            ELSE UNCHANGED <<stack, onStack, sccs>>
         /\ lowlink' = IF below = 0
                       THEN lowlink
                       ELSE [lowlink EXCEPT ![frames[below].node] = Min({@, lowlink[v]})]
         /\ frames' = SubSeq(frames, 1, below)
  /\ UNCHANGED <<input, index, nextIndex, levels>>

Searched == frames = << >> /\ \A v \in Candidates : index[v] >= 0

\* Positions of other components that the component at position s depends on.
Dependencies(s) ==
  {t \in DOMAIN sccs \ {s} : \E m \in sccs[s], d \in sccs[t] : <<m, d>> \in graph.edges}

\* Mutated LevelVector: levels count the dependencies.
CountingLevelVector == [s \in DOMAIN sccs |-> Cardinality(Dependencies(s))]

\* computeSCCLevels: the vector of levels after each round of its loop; a
\* component that was not reached yet counts with level 0.
LevelVector ==
  LET after[n \in 0 .. Len(sccs)] ==
        IF n = 0
        THEN [s \in DOMAIN sccs |-> 0]
        ELSE [after[n - 1] EXCEPT ![n] =
                IF Dependencies(n) = {}
                THEN 0
                ELSE 1 + Max({after[n - 1][t] : t \in Dependencies(n)})]
  IN  after[Len(sccs)]

ComputeLevels ==
  /\ Searched
  /\ levels = << >> /\ sccs # << >>
  /\ levels' = LevelVector
  /\ UNCHANGED <<input, index, lowlink, stack, onStack, nextIndex, frames, sccs>>

Finished == Searched /\ (sccs = << >> \/ levels # << >>)

SearchOver == Finished /\ UNCHANGED tarjanVars

TarjanNext == Root \/ Descend \/ SeeVisited \/ Return \/ ComputeLevels \/ SearchOver

TarjanSpec == TarjanInit /\ [][TarjanNext]_tarjanVars

-----------------------------------------------------------------------------
\* state.recursiveComponents and state.recursive.

HasSelfCall(v) == v \in Successors(v)

RecursiveComponents ==
  {sccs[s] : s \in {t \in DOMAIN sccs :
                      Cardinality(sccs[t]) > 1 \/ \E v \in sccs[t] : HasSelfCall(v)}}

RecursiveFuncs == UNION RecursiveComponents

-----------------------------------------------------------------------------
\* Properties.

\* Whatever the order of the successors, what strongConnect pops (and never takes
\* back) are the strongly connected components, each of them once.
PopsTheComponents ==
  Searched =>
    /\ {sccs[s] : s \in DOMAIN sccs} = {expected.component[v] : v \in Candidates}
    /\ \A s, t \in DOMAIN sccs : sccs[s] = sccs[t] => s = t

\* "this is already the correct processing order": the components a component
\* depends on are emitted before it.
DependenciesFirst ==
  \A s \in DOMAIN sccs : \A v \in sccs[s] : \A w \in Successors(v) :
    \E t \in 1 .. s : w \in sccs[t]

\* computeSCCLevels gives each module the level CrossTU works with: strictly above
\* everything it depends on, and no higher than that.
LevelsAreRight ==
  Finished => \A s \in DOMAIN sccs : \A v \in sccs[s] : levels[s] = expected.level[v]
=============================================================================
