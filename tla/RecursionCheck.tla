--------------------------- MODULE RecursionCheck ---------------------------
(***************************************************************************)
(* The search for recursion without a base case:                           *)
(* detectInfiniteRecursionComponent, detectInfiniteRecursionByDominance    *)
(* and hasFeasibleNonRecursiveReturnPath in                                *)
(* src/src/analysis/StackComputation.cpp, with the range constraints of    *)
(* the edges and the SMT question asked at each of them.                   *)
(*                                                                         *)
(* A function is a control-flow graph whose first block is the entry.  Its *)
(* conditions compare a variable, or a cast of it, with a constant, or are *)
(* opaque (a call's result, a comparison of two variables).  A variable is *)
(* an SSA value or a location (Locations) that is loaded for each          *)
(* comparison; none is written to between comparisons, there are no phi    *)
(* nodes, and comparisons have less than 64 bits.                          *)
(*                                                                         *)
(* A cast [low, signed, at] stands for a chain of trunc, zext and sext in  *)
(* which no zext follows a sext: it keeps the low bits of the variable,    *)
(* reads them as a signed number or not, and has that number compared at a *)
(* width of its own.                                                       *)
(***************************************************************************)
EXTENDS ComponentGraph, SolverOrchestrator, Integers, FiniteSetsExt

CONSTANTS
  Vars, Locations,   \* variables compared, those of them in memory
  Width, Widest,     \* bits of a variable, most bits of a comparison
  Components,        \* <<component, SMT options>> pairs that are analysed
  MaxStates, MaxDepth, MaxVisitsPerNode

ASSUME RecursionAssumption ==
  /\ Locations \subseteq Vars
  /\ Width \in Nat \ {0} /\ Widest \in Nat /\ Width <= Widest
  /\ MaxStates \in Nat /\ MaxDepth \in Nat /\ MaxVisitsPerNode \in Nat

\* Arithmetic that the provers do not know.
ASSUME WidthPowers ==
  /\ \A w \in 1 .. Widest + 1 : 2 ^ (w - 1) \in Nat \ {0} /\ 2 ^ w = 2 * 2 ^ (w - 1)
  /\ \A v, w \in 1 .. Widest + 1 : v <= w => 2 ^ v <= 2 ^ w

VARIABLES
  component,    \* its functions: [blocks, declared, contract]
  smt,          \* the options
  member,       \* index of the function being judged
  phase,        \* "member", "search" or "done"
  worklist, visits, exploredStates, sawAnyRecursivePath,   \* as in the code
  flagged,      \* the result
  skipped,      \* history: the visit limit has dropped a path
  refuted       \* history: an SMT answer has dropped an edge the intervals allow

search == <<worklist, visits, exploredStates, sawAnyRecursivePath>>
recVars == <<component, smt, member, phase, search, flagged, skipped, refuted>>

Fn == component[member]
Blocks(f) == DOMAIN f.blocks
Entry == 1

-----------------------------------------------------------------------------
\* Comparisons.

Signed == {"SLT", "SLE", "SGT", "SGE"}
Unsigned == {"ULT", "ULE", "UGT", "UGE"}
Equality == {"EQ", "NE"}

\* getInversePredicate.
InversePredicate ==
  [SLT |-> "SGE", SGE |-> "SLT", SLE |-> "SGT", SGT |-> "SLE", EQ |-> "NE",
   ULT |-> "UGE", UGE |-> "ULT", ULE |-> "UGT", UGT |-> "ULE", NE |-> "EQ"]

\* The predicate with its operands exchanged.
Mirror ==
  [SLT |-> "SGT", SGT |-> "SLT", SLE |-> "SGE", SGE |-> "SLE", EQ |-> "EQ",
   ULT |-> "UGT", UGT |-> "ULT", ULE |-> "UGE", UGE |-> "ULE", NE |-> "NE"]

\* The predicate that holds of the variable (on the left) on an edge of a branch.
EdgePredicate(cond, takesTrueEdge) ==
  LET p == IF takesTrueEdge THEN cond.pred ELSE InversePredicate[cond.pred]
  IN  IF cond.valueIsOp0 THEN p ELSE Mirror[p]

\* The low w bits of a number, read as an unsigned number and as a signed one.
ZExt(n, w) == n % 2 ^ w

SExt(n, w) == LET z == ZExt(n, w) IN IF z >= 2 ^ (w - 1) THEN z - 2 ^ w ELSE z

\* The numbers of w bits.
Numbers(w) == -(2 ^ (w - 1)) .. 2 ^ (w - 1) - 1

Values == Numbers(Width)

NoCast == [low |-> Width, signed |-> TRUE, at |-> Width]

\* What a comparison sees of the value n: an operand reinterpreted by its cast.
Operand(cast, n) == IF cast.signed THEN SExt(n, cast.low) ELSE ZExt(n, cast.low)

\* What LLVM's icmp answers for the number v, compared with c at w bits.
Holds(pred, v, c, w) ==
  LET l == IF pred \in Unsigned THEN ZExt(v, w) ELSE v
      r == IF pred \in Unsigned THEN ZExt(c, w) ELSE c
  IN  CASE pred \in {"SLT", "ULT"} -> l < r
        [] pred \in {"SLE", "ULE"} -> l <= r
        [] pred \in {"SGT", "UGT"} -> l > r
        [] pred \in {"SGE", "UGE"} -> l >= r
        [] pred = "EQ" -> l = r
        [] pred = "NE" -> l # r

-----------------------------------------------------------------------------
\* Ranges.  hasLower and hasUpper are FALSE at these values, which no bound reaches.

NoLower == -(2 ^ (Widest + 1))
NoUpper == 2 ^ (Widest + 1)

Free == [lower |-> NoLower, upper |-> NoUpper]

\* Mutated DeriveRange: an inclusive lower bound is taken for a strict one.
DeriveRangeOffByOne(pred, constant, w) ==
  LET c == IF pred \in Unsigned THEN ZExt(constant, w) ELSE constant
  IN  CASE pred \in {"SLT", "ULT"} -> [Free EXCEPT !.upper = c - 1]
        [] pred \in {"SLE", "ULE"} -> [Free EXCEPT !.upper = c]
        [] pred \in {"SGT", "UGT", "SGE", "UGE"} -> [Free EXCEPT !.lower = c + 1]
        [] pred = "EQ" -> [lower |-> c, upper |-> c]
        [] OTHER -> Free

\* deriveRangeConstraintFromPredicate; NE gives no range.
DeriveRange(pred, constant, w) ==
  LET c == IF pred \in Unsigned THEN ZExt(constant, w) ELSE constant
  IN  CASE pred \in {"SLT", "ULT"} -> [Free EXCEPT !.upper = c - 1]
        [] pred \in {"SLE", "ULE"} -> [Free EXCEPT !.upper = c]
        [] pred \in {"SGT", "UGT"} -> [Free EXCEPT !.lower = c + 1]
        [] pred \in {"SGE", "UGE"} -> [Free EXCEPT !.lower = c]
        [] pred = "EQ" -> [lower |-> c, upper |-> c]
        [] OTHER -> Free

Intersect(a, b) == [lower |-> Max({a.lower, b.lower}), upper |-> Min({a.upper, b.upper})]

\* Whether a run with the value n takes the edge, by the comparison of its condition.
Passes(cond, takesTrueEdge, n) ==
  Holds(EdgePredicate(cond, takesTrueEdge), Operand(cond.cast, n), cond.constant, cond.cast.at)

\* deriveEdgeConstraint and applyConstraintToState.  canonicalConstraintValue strips
\* the casts: the range is that of the compared number, and is kept as the variable's.
EdgeRanges(ranges, cond, takesTrueEdge) ==
  IF cond.pred = "opaque"
  THEN ranges
  ELSE [ranges EXCEPT ![cond.var] =
          Intersect(@, DeriveRange(EdgePredicate(cond, takesTrueEdge),
                                   cond.constant, cond.cast.at))]

Contradictory(ranges) == \E v \in Vars : ranges[v].lower > ranges[v].upper

\* The question the encoder asks for an edge.  The range of an SSA value is compared
\* signed, with its bounds cut to the value's width; a location has no integer type
\* and its range is left out.
RangeAsserted(range, v, n) ==
  v \in Locations \/ /\ range.lower # NoLower => n >= SExt(range.lower, Width)
                     /\ range.upper # NoUpper => n <= SExt(range.upper, Width)

\* The edge's own condition, with its casts; a load is a symbol of its own.
EdgeAsserted(cond, takesTrueEdge, v, n) ==
  cond.pred # "opaque" /\ cond.var = v => Passes(cond, takesTrueEdge, n)

QueryFeasible(ranges, cond, takesTrueEdge) ==
  \A v \in Vars : \E n \in Values :
    RangeAsserted(ranges[v], v, n) /\ EdgeAsserted(cond, takesTrueEdge, v, n)

\* RecursionConstraintEvaluator::isSatisfiable, for ranges that are not contradictory:
\* the encoder drops empty intervals, so the query never has one.
IsSatisfiable(ranges, cond, takesTrueEdge) ==
  {IF f = "Infeasible" THEN "Unsat" ELSE "Sat" :
     f \in EvaluateQuery(smt, QueryFeasible(ranges, cond, takesTrueEdge), FALSE)}

-----------------------------------------------------------------------------
\* detectInfiniteRecursionByDominance.

SuccessorsOf(block) == {block.to[k] : k \in DOMAIN block.to}

EdgesOf(f) == {e \in Blocks(f) \X Blocks(f) : e[2] \in SuccessorsOf(f.blocks[e[1]])}

RecursiveBlocks(f) == {b \in Blocks(f) : f.blocks[b].recursive}

Returns(f) == {b \in Blocks(f) : f.blocks[b].returns}

\* The edges that remain without block b: all that leave it are gone.
EdgesPast(f, gone) == {e \in EdgesOf(f) : e[1] \notin gone}

\* llvm::DominatorTree: every path from the entry to b goes through a.
Dominates(f, a, b) ==
  a = b \/ b \notin ReachableFrom(Blocks(f), EdgesPast(f, {a}), Entry)

\* A function that never returns counts as dominated.
DetectByDominance(f) ==
  /\ RecursiveBlocks(f) # {}
  /\ \A b \in Returns(f) : \E a \in RecursiveBlocks(f) : Dominates(f, a, b)

-----------------------------------------------------------------------------
\* detectInfiniteRecursionComponent.

PathState(block, ranges, depth, saw) ==
  [block |-> block, ranges |-> ranges, depth |-> depth, sawRecursiveCall |-> saw]

RecInit ==
  /\ \E i \in Components : component = i[1] /\ smt = i[2]
  /\ member = 1
  /\ phase = "member"
  /\ worklist = << >> /\ visits = << >> /\ exploredStates = 0 /\ sawAnyRecursivePath = FALSE
  /\ flagged = FALSE
  /\ skipped = FALSE /\ refuted = FALSE

\* The verdict on one function: the first that has a base case decides.
Judge(hasNoBaseCase) ==
  /\ IF hasNoBaseCase /\ member < Len(component)
     THEN phase' = "member" /\ member' = member + 1 /\ UNCHANGED flagged
     ELSE phase' = "done" /\ flagged' = hasNoBaseCase /\ UNCHANGED member
  /\ worklist' = << >> /\ visits' = << >> /\ exploredStates' = 0 /\ sawAnyRecursivePath' = FALSE

\* A declaration, or a function with a norecurse contract.
RejectMember ==
  /\ phase = "member"
  /\ Fn.declared \/ Fn.contract
  /\ Judge(FALSE)
  /\ UNCHANGED <<component, smt, skipped, refuted>>

Dominated ==
  /\ phase = "member"
  /\ ~Fn.declared /\ ~Fn.contract
  /\ DetectByDominance(Fn)
  /\ Judge(TRUE)
  /\ UNCHANGED <<component, smt, skipped, refuted>>

BeginSearch ==
  /\ phase = "member"
  /\ ~Fn.declared /\ ~Fn.contract
  /\ ~DetectByDominance(Fn)
  /\ phase' = "search"
  /\ worklist' = <<PathState(Entry, [v \in Vars |-> Free], 0, FALSE)>>
  /\ visits' = [k \in Blocks(Fn) \X BOOLEAN |-> 0]
  /\ exploredStates' = 0 /\ sawAnyRecursivePath' = FALSE
  /\ UNCHANGED <<component, smt, member, flagged, skipped, refuted>>

-----------------------------------------------------------------------------
\* hasFeasibleNonRecursiveReturnPath: one round of the loop per action.

Current == Head(worklist)
Here == Fn.blocks[Current.block]

\* sawRecursiveCall after the block's instructions.
SawHere == Current.sawRecursiveCall \/ Here.recursive

VisitKey == <<Current.block, Current.sawRecursiveCall>>

Searching == phase = "search" /\ worklist # << >>

WithinLimits == exploredStates < MaxStates /\ Current.depth <= MaxDepth

\* Inconclusive: the function is taken to have a base case.
GiveUp ==
  /\ Searching
  /\ ~WithinLimits
  /\ Judge(FALSE)
  /\ UNCHANGED <<component, smt, skipped, refuted>>

\* The counts every round that goes on keeps.
CountRound ==
  /\ exploredStates' = exploredStates + 1
  /\ visits' = [visits EXCEPT ![VisitKey] = @ + 1]

SkipVisited ==
  /\ Searching /\ WithinLimits
  /\ visits[VisitKey] > MaxVisitsPerNode
  /\ CountRound
  /\ worklist' = Tail(worklist)
  /\ skipped' = TRUE
  /\ UNCHANGED <<component, smt, member, phase, sawAnyRecursivePath, flagged, refuted>>

Entered == Searching /\ WithinLimits /\ visits[VisitKey] <= MaxVisitsPerNode

FindBaseCase ==
  /\ Entered
  /\ Here.returns /\ ~SawHere
  /\ Judge(FALSE)
  /\ UNCHANGED <<component, smt, skipped, refuted>>

ReturnAfterRecursion ==
  /\ Entered
  /\ Here.returns /\ SawHere
  /\ CountRound
  /\ sawAnyRecursivePath' = TRUE
  /\ worklist' = Tail(worklist)
  /\ UNCHANGED <<component, smt, member, phase, flagged, skipped, refuted>>

\* Mutated NextState: what was seen in the block itself is lost.
NextStateForgetful(block, ranges) ==
  PathState(block, ranges, Current.depth + 1, Current.sawRecursiveCall)

NextState(block, ranges) == PathState(block, ranges, Current.depth + 1, SawHere)

\* A conditional branch: an edge is dropped if its ranges contradict those of the path
\* or if the solvers refute it.
Branch ==
  /\ Entered
  /\ ~Here.returns /\ Here.cond.pred # "none"
  /\ CountRound
  /\ LET Ranges(k) == EdgeRanges(Current.ranges, Here.cond, k = 1)
         open == {k \in 1 .. 2 : ~Contradictory(Ranges(k))}
     IN  \E answer \in [open -> {"Sat", "Unsat"}] :
           /\ \A k \in open : answer[k] \in IsSatisfiable(Ranges(k), Here.cond, k = 1)
           /\ LET taken == {k \in open : answer[k] = "Sat"}
                  Pushed(k) == IF k \in taken
                               THEN <<NextState(Here.to[k], Ranges(k))>>
                               ELSE << >>
              IN  /\ worklist' = Tail(worklist) \o Pushed(1) \o Pushed(2)
                  /\ refuted' = (refuted \/ taken # open)
  /\ UNCHANGED <<component, smt, member, phase, sawAnyRecursivePath, flagged, skipped>>

\* Any other terminator: every successor, without a constraint.
Follow ==
  /\ Entered
  /\ ~Here.returns /\ Here.cond.pred = "none"
  /\ CountRound
  /\ worklist' = Tail(worklist)
                   \o [k \in DOMAIN Here.to |-> NextState(Here.to[k], Current.ranges)]
  /\ UNCHANGED <<component, smt, member, phase, sawAnyRecursivePath, flagged, skipped, refuted>>

\* The worklist is empty: without a return at all there is nothing to report.
Exhausted ==
  /\ phase = "search" /\ worklist = << >>
  /\ Judge(sawAnyRecursivePath)
  /\ UNCHANGED <<component, smt, skipped, refuted>>

RecOver == phase = "done" /\ UNCHANGED recVars

RecNext == RejectMember \/ Dominated \/ BeginSearch \/ GiveUp \/ SkipVisited \/ FindBaseCase
           \/ ReturnAfterRecursion \/ Branch \/ Follow \/ Exhausted \/ RecOver

RecSpec == RecInit /\ [][RecNext]_recVars

-----------------------------------------------------------------------------
\* Properties.

\* The edges a run with the variable values val can take.
EdgesWith(f, val) ==
  {e \in EdgesOf(f) :
     LET b == f.blocks[e[1]]
     IN  \E k \in DOMAIN b.to :
           /\ b.to[k] = e[2]
           /\ b.cond.pred \notin {"none", "opaque"} =>
                Passes(b.cond, k = 1, val[b.cond.var])}

\* The returns that runs with the values val reach without entering the blocks avoided.
ReturnsReached(f, val, avoided) ==
  ReachableFrom(Blocks(f), {e \in EdgesWith(f, val) : e[1] \notin avoided}, Entry)
    \cap (Returns(f) \ avoided)

\* f can return without a call into its own component.
HasBaseCase(f) == \E val \in [Vars -> Values] : ReturnsReached(f, val, RecursiveBlocks(f)) # {}

\* f can return.
CanReturn(f) == \E val \in [Vars -> Values] : ReturnsReached(f, val, {}) # {}

\* The conditions of f that compare v.
Comparisons(f, v) ==
  {c \in {f.blocks[b].cond : b \in Blocks(f)} : c.pred \notin {"none", "opaque"} /\ c.var = v}

\* v is compared as one signed number: its low bits, read the same way each time.  The
\* solver takes the bounds for those of an SSA value, which must be that number and
\* have the constants among its values.
ComparedSigned(f, v) ==
  /\ \A c \in Comparisons(f, v) :
       /\ c.pred \in Signed \cup Equality
       /\ v \notin Locations =>
            c.cast.low = Width /\ c.cast.signed /\ c.constant \in Values
  /\ \A c, d \in Comparisons(f, v) : c.cast.low = d.cast.low /\ c.cast.signed = d.cast.signed

\* v is compared as it is, as an unsigned number, with constants that are the same
\* number read as a signed one, and not the largest of these: the solver is told
\* ranges as signed ones, and has then no value above it.
ComparedUnsigned(f, v) ==
  \A c \in Comparisons(f, v) :
    c.pred \in Unsigned \cup Equality /\ c.cast = NoCast /\ c.constant >= 0 /\ c.constant + 1 \in Values

\* Ranges are kept for a variable whatever its sign and its casts: the search can rely
\* on them where the variable is compared as the same number throughout.
UniformlyCompared(f) == \A v \in Vars : ComparedSigned(f, v) \/ ComparedUnsigned(f, v)

\* A component is flagged, with or without SMT, only if none of its functions has a
\* base case, where comparisons are uniform and no function ran into the visit limit,
\* which drops paths without making the search inconclusive.
FlaggedHasNoBaseCase ==
  phase = "done" /\ flagged /\ ~skipped =>
    \A k \in DOMAIN component :
      UniformlyCompared(component[k]) => ~HasBaseCase(component[k])

\* No run of f returns without having gone through a recursive block.
RecursesFirst(f) ==
  ReachableFrom(Blocks(f), EdgesPast(f, RecursiveBlocks(f)), Entry)
    \cap (Returns(f) \ RecursiveBlocks(f)) = {}

\* A function every path of which recurses before it returns is never taken to have a
\* base case, and the search ends with a recursive return in hand if any run returns,
\* unless a limit ended it or dropped paths.
RecursionIsFlagged ==
  phase = "search" /\ UniformlyCompared(Fn) /\ RecursesFirst(Fn) /\ CanReturn(Fn) =>
    /\ Entered /\ Here.returns => SawHere
    /\ worklist = << >> /\ ~skipped => sawAnyRecursivePath

\* The interval back end, which portfolio and dual-consensus always consult, never
\* refutes a query: in these modes the solvers drop no edge, whatever z3 answers.
CoupledModesAreInert == smt.mode \in {"Portfolio", "DualConsensus"} => ~refuted
=============================================================================
