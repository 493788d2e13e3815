----------------------------- MODULE StackUsage -----------------------------
(***************************************************************************)
(* The stack a function needs with everything it calls: the frame sizes of *)
(* computeLocalStack, computeGlobalStackUsage and dfsComputeStack in       *)
(* src/src/analysis/StackComputation.cpp, the flags that buildResults in   *)
(* src/src/analyzer/DiagnosticEmitter.cpp derives from the totals, and the *)
(* call path buildMaxStackCallPath (src/src/analysis/AnalyzerUtils.cpp)    *)
(* reports for a function.                                                 *)
(*                                                                         *)
(* The functions are visited in the order of a std::map keyed by their     *)
(* addresses, which is any order; so is the order of the calls in a body.  *)
(* The recursion of dfsComputeStack is explicit: frames holds its calls.   *)
(***************************************************************************)
EXTENDS ComponentGraph, Sequences, FiniteSetsExt, Functions

CONSTANTS
  Fns,          \* the functions of the module that have a body, as numbers
  Inputs,       \* the modules analysed
  Align,        \* stack alignment of the data layout, 1 if it has none
  StackLimit    \* config.stackLimit

VARIABLES
  module,     \* its calls, the bytes of the allocas of known size in each function, the
              \* functions with others (dynamic) or with norecurse (contract), and the mode
  recursive,  \* RecursiveFuncs
  state,      \* VisitState of each function
  total,      \* TotalStack: [bytes, unknown] of each function
  frames,     \* active calls: [fn, left, max], max being maxCallee
  results,    \* FunctionResult of each function, once buildResults has run
  path,       \* the path being built, << >> between two
  paths       \* aux.callPaths, << >> where there is none

stackVars == <<module, recursive, state, total, frames, results, path, paths>>

Estimate(bytes, unknown) == [bytes |-> bytes, unknown |-> unknown]

Callees(f) == {g \in Fns : <<f, g>> \in module.calls}

AlignTo(n) == ((n + Align - 1) \div Align) * Align

\* computeLocalStackIR.
FrameIR(f) == AlignTo(module.allocas[f])

\* computeLocalStackABI: at least one slot, and one more if it calls another function.
FrameABI(f) ==
  LET frame == IF Align > 1 THEN Max({FrameIR(f), Align}) ELSE FrameIR(f)
  IN  IF Align > 1 /\ Callees(f) \ {f} # {} THEN AlignTo(frame + Align) ELSE frame

LocalBytes(f) == IF module.mode = "IR" THEN FrameIR(f) ELSE FrameABI(f)

\* computeLocalStack: a dynamic alloca makes the size unknown.
Local(f) == Estimate(LocalBytes(f), f \in module.dynamic)

-----------------------------------------------------------------------------
\* What computeRecursiveFunctions finds; module Preparation lets the search find it.
ComputeRecursive(m) ==
  LET free == Fns \ m.contract
  IN  OnCycle(free, {e \in m.calls : e[1] \in free /\ e[2] \in free})

StackInit ==
  /\ module \in Inputs
  /\ recursive = ComputeRecursive(module)
  /\ state = [f \in Fns |-> "NotVisited"]
  /\ total = [f \in Fns |-> Estimate(0, FALSE)]
  /\ frames = << >>
  /\ results = << >>
  /\ path = << >>
  /\ paths = [f \in Fns |-> << >>]

Frame(f) == [fn |-> f, left |-> Callees(f), max |-> Estimate(0, FALSE)]

Top == frames[Len(frames)]

\* dfsComputeStack(f) for a function met for the first time.
Visit(f, calling) ==
  /\ state' = [state EXCEPT ![f] = "Visiting"]
  /\ frames' = Append(calling, Frame(f))

\* computeGlobalStackUsage starts with a function that was not visited.
Start ==
  /\ frames = << >>
  /\ \E f \in Fns : state[f] = "NotVisited" /\ Visit(f, << >>)
  /\ UNCHANGED <<module, recursive, total, results, path, paths>>

\* Mutated Raised: the callees are added up.
RaisedBySum(fr, e) ==
  [fr EXCEPT !.max = Estimate(@.bytes + e.bytes, @.unknown \/ e.unknown)]

\* The callee estimate e entered into the maximum of the frame fr.
Raised(fr, e) ==
  [fr EXCEPT !.max = Estimate(Max({@.bytes, e.bytes}), @.unknown \/ e.unknown)]

Descend ==
  /\ frames # << >>
  /\ \E g \in Top.left :
       /\ state[g] = "NotVisited"
       /\ Visit(g, [frames EXCEPT ![Len(frames)].left = @ \ {g}])
  /\ UNCHANGED <<module, recursive, total, results, path, paths>>

\* The early returns of dfsComputeStack: on a cycle the local stack alone, and the
\* total of a function that is done.
Answer(g) == IF state[g] = "Visiting" THEN Local(g) ELSE total[g]

SeeVisited ==
  /\ frames # << >>
  /\ \E g \in Top.left :
       /\ state[g] # "NotVisited"
       /\ frames' = [frames EXCEPT ![Len(frames)] = [Raised(Top, Answer(g)) EXCEPT !.left = @ \ {g}]]
  /\ UNCHANGED <<module, recursive, state, total, results, path, paths>>

Sum(a, b) == Estimate(a.bytes + b.bytes, a.unknown \/ b.unknown)

\* Mutated Return: the caller is not told.
ReturnNothing ==
  /\ frames # << >>
  /\ Top.left = {}
  /\ total' = [total EXCEPT ![Top.fn] = Sum(Local(Top.fn), Top.max)]
  /\ state' = [state EXCEPT ![Top.fn] = "Visited"]
  /\ frames' = SubSeq(frames, 1, Len(frames) - 1)
  /\ UNCHANGED <<module, recursive, results, path, paths>>

\* The end of dfsComputeStack: the total is stored and returned to the caller.
Return ==
  /\ frames # << >>
  /\ Top.left = {}
  /\ LET t == Sum(Local(Top.fn), Top.max)
         below == Len(frames) - 1
     IN  /\ total' = [total EXCEPT ![Top.fn] = t]
         /\ state' = [state EXCEPT ![Top.fn] = "Visited"]
         /\ frames' = IF below = 0
                      THEN << >>
                      ELSE [SubSeq(frames, 1, below) EXCEPT ![below] = Raised(@, t)]
  /\ UNCHANGED <<module, recursive, results, path, paths>>

Computed == frames = << >> /\ \A f \in Fns : state[f] = "Visited"

-----------------------------------------------------------------------------
\* buildResults.

Exceeds(e) == ~e.unknown /\ e.bytes > StackLimit

BuildResults ==
  /\ Computed
  /\ results = << >>
  /\ results' = [f \in Fns |-> [isRecursive |-> f \in recursive,
                                exceedsLimit |-> Exceeds(total[f])]]
  /\ UNCHANGED <<module, recursive, state, total, frames, path, paths>>

WantsPath(f) == f \notin recursive /\ total[f].bytes > LocalBytes(f)

\* buildMaxStackCallPath enters its loop with the function itself.
BeginPath ==
  /\ results # << >>
  /\ path = << >>
  /\ \E f \in Fns :
       /\ WantsPath(f) /\ paths[f] = << >>
       /\ \A g \in Fns : g < f /\ WantsPath(g) => paths[g] # << >>
       /\ path' = <<f>>
  /\ UNCHANGED <<module, recursive, state, total, frames, results, paths>>

\* Mutated BestCallees: the callee with the largest frame of its own.
BestCalleesByLocal(f) ==
  {g \in Callees(f) : total[g].bytes > 0
                      /\ \A h \in Callees(f) : LocalBytes(h) <= LocalBytes(g)}

\* The callees one of which a round of the loop goes to: a largest total, not zero.
BestCallees(f) ==
  {g \in Callees(f) : total[g].bytes > 0
                      /\ \A h \in Callees(f) : total[h].bytes <= total[g].bytes}

Last(p) == p[Len(p)]

ExtendPath ==
  /\ path # << >>
  /\ \E g \in BestCallees(Last(path)) \ Range(path) : path' = Append(path, g)
  /\ UNCHANGED <<module, recursive, state, total, frames, results, paths>>

\* No callee, only callees without stack, or a function that is on the path already.
EndPath ==
  /\ path # << >>
  /\ BestCallees(Last(path)) = {} \/ BestCallees(Last(path)) \cap Range(path) # {}
  /\ paths' = [paths EXCEPT ![path[1]] = path]
  /\ path' = << >>
  /\ UNCHANGED <<module, recursive, state, total, frames, results>>

Reported == results # << >> /\ path = << >> /\ \A f \in Fns : WantsPath(f) => paths[f] # << >>

StackOver == Reported /\ UNCHANGED stackVars

StackNext == Start \/ Descend \/ SeeVisited \/ Return \/ BuildResults
             \/ BeginPath \/ ExtendPath \/ EndPath \/ StackOver

StackSpec == StackInit /\ [][StackNext]_stackVars

-----------------------------------------------------------------------------
\* Properties.

\* The call chains: sequences of distinct functions, each calling the next.
Chains ==
  {c \in UNION {[1 .. n -> Fns] : n \in 1 .. Cardinality(Fns)} :
     /\ \A i, j \in DOMAIN c : c[i] = c[j] => i = j
     /\ \A i \in 1 .. Len(c) - 1 : <<c[i], c[i + 1]>> \in module.calls}

ChainsFrom(f) == {c \in Chains : c[1] = f}

\* The frames of a chain one after the other.
Weight(c) ==
  LET sum[n \in 0 .. Len(c)] == IF n = 0 THEN 0 ELSE sum[n - 1] + LocalBytes(c[n])
  IN  sum[Len(c)]

\* f reaches no function that is on a cycle of calls.
Acyclic(f) ==
  ReachableFrom(Fns, module.calls, f) \cap OnCycle(Fns, module.calls) = {}

\* dfsComputeStack is exact away from cycles, whatever the order of the visits: the
\* total is the deepest call chain, marked unknown if any function on one is.
ExactOffCycles ==
  results # << >> =>
    \A f \in Fns : Acyclic(f) =>
      /\ total[f].bytes = Max({Weight(c) : c \in ChainsFrom(f)})
      /\ total[f].unknown <=> \E c \in ChainsFrom(f) : Last(c) \in module.dynamic

\* On cycles too, a total is the weight of some real chain of calls, of which only
\* the last function may occur a second time: nothing is counted twice on the way.
TotalsAreChains ==
  results # << >> =>
    \A f \in Fns : \E c \in ChainsFrom(f) :
      \/ total[f].bytes = Weight(c)
      \/ \E g \in Callees(Last(c)) : total[f].bytes = Weight(c) + LocalBytes(g)

\* The reported path is a chain that needs exactly the reported stack, for a
\* function that reaches no cycle.
PathExplainsTotal ==
  \A f \in Fns : paths[f] # << >> /\ Acyclic(f) =>
    paths[f] \in ChainsFrom(f) /\ Weight(paths[f]) = total[f].bytes

\* "max stack, including callees" (StackComputation.hpp): a function that is not
\* recursive itself needs at least what any of its call chains needs.
TotalIncludesCallees ==
  results # << >> =>
    \A f \in Fns \ recursive : \A c \in ChainsFrom(f) : Weight(c) <= total[f].bytes
=============================================================================
