------------------------ MODULE RecursionCheckProofs ------------------------
(***************************************************************************)
(* That the search for a base case is right, for all functions, widths and *)
(* limits and with or without z3 in the build: the coupled solver modes    *)
(* never drop an edge, no mode drops an edge that a run can take, what is  *)
(* flagged has no base case, and a function that always recurses first is  *)
(* never passed off as having one.                                         *)
(***************************************************************************)
EXTENDS RecursionCheck, SequenceTheorems, TLAPS

Coupled == {"Portfolio", "DualConsensus"}

\* appendBackendIfMissing leaves the name in the list.
LEMMA AppendedIsThere ==
  ASSUME NEW S, NEW out \in Seq(S), NEW name \in S
  PROVE  /\ AppendBackendIfMissing(out, name) \in Seq(S)
         /\ \E k \in DOMAIN AppendBackendIfMissing(out, name) :
              AppendBackendIfMissing(out, name)[k] = name
<1>1. CASE name \in Range(out)
  BY <1>1 DEF AppendBackendIfMissing, Range
<1>2. CASE name \notin Range(out)
  <2>1. AppendBackendIfMissing(out, name) = Append(out, name)
    BY <1>2 DEF AppendBackendIfMissing
  <2>2. /\ Append(out, name) \in Seq(S)
        /\ Len(out) + 1 \in DOMAIN Append(out, name)
        /\ Append(out, name)[Len(out) + 1] = name
    OBVIOUS
  <2> QED BY <2>1, <2>2
<1> QED BY <1>1, <1>2

\* resolveBackends puts the interval back end into every coupled list.
LEMMA IntervalIsConsulted ==
  ASSUME NEW config, config.mode \in Coupled
  PROVE  \E k \in DOMAIN ResolveBackends(config) : ResolveBackends(config)[k] = "interval"
<1> DEFINE S == {config.primary, config.secondary, "interval"}
           given == IF config.secondary = ""
                    THEN <<config.primary>>
                    ELSE AppendBackendIfMissing(<<config.primary>>, config.secondary)
<1>1. <<config.primary>> \in Seq(S)
  OBVIOUS
<1>2. given \in Seq(S)
  <2>1. config.secondary \in S
    OBVIOUS
  <2>2. AppendBackendIfMissing(<<config.primary>>, config.secondary) \in Seq(S)
    BY <1>1, <2>1, AppendedIsThere
  <2> QED BY <1>1, <2>2
<1>3. ResolveBackends(config) = AppendBackendIfMissing(given, "interval")
  BY DEF ResolveBackends, Coupled
<1>4. "interval" \in S
  OBVIOUS
<1> HIDE DEF given, S
<1> QED BY <1>2, <1>3, <1>4, AppendedIsThere

\* evaluateQuery never says Infeasible in a coupled mode, as no interval of the query
\* is empty.
LEMMA CoupledNeverInfeasible ==
  ASSUME NEW config, config.mode \in Coupled, NEW feasible,
         NEW f \in EvaluateQuery(config, feasible, FALSE)
  PROVE  f # "Infeasible"
<1>1. CASE ~config.enabled
  BY <1>1 DEF EvaluateQuery
<1>2. CASE config.enabled
  <2>1. PICK a \in Answers(config, feasible, FALSE) :
          f = Feasibility(AggregateStatuses(a, config.mode))
    BY <1>2 DEF EvaluateQuery
  <2>2. a \in [DOMAIN ResolveBackends(config) -> Statuses]
        /\ \A k \in DOMAIN ResolveBackends(config) :
             a[k] \in Solve(ResolveBackends(config)[k], feasible, FALSE)
    BY <2>1 DEF Answers, Coupled
  <2>3. PICK k \in DOMAIN ResolveBackends(config) : ResolveBackends(config)[k] = "interval"
    BY IntervalIsConsulted
  <2>4. a[k] = "Sat"
    BY <2>2, <2>3 DEF Solve, SolveInterval
  <2>5. "Sat" \in Range(a)
    BY <2>2, <2>3, <2>4 DEF Range
  <2>6. AggregateStatuses(a, config.mode) # "Unsat"
    BY <2>5 DEF AggregateStatuses, Coupled
  <2> QED BY <2>1, <2>6 DEF Feasibility
<1> QED BY <1>1, <1>2

\* In portfolio and dual-consensus mode the search for a base case never drops an edge
\* because of a solver's answer.
THEOREM CoupledSearchIsInert == RecSpec => []CoupledModesAreInert
<1>1. RecInit => CoupledModesAreInert
  BY DEF RecInit, CoupledModesAreInert
<1>2. CoupledModesAreInert /\ [RecNext]_recVars => CoupledModesAreInert'
  <2> SUFFICES ASSUME CoupledModesAreInert, [RecNext]_recVars
               PROVE  CoupledModesAreInert'
    OBVIOUS
  <2>1. CASE Branch
    <3> SUFFICES ASSUME smt.mode \in Coupled
                 PROVE  ~refuted'
      BY <2>1 DEF Branch, CoupledModesAreInert, Coupled
    <3>1. ~refuted
      BY DEF CoupledModesAreInert, Coupled
    <3>2. ASSUME NEW r, NEW t
          PROVE  \A s \in IsSatisfiable(r, Here.cond, t) : s = "Sat"
      BY CoupledNeverInfeasible DEF IsSatisfiable
    <3> DEFINE Ranges(k) == EdgeRanges(Current.ranges, Here.cond, k = 1)
               open == {k \in 1 .. 2 : ~Contradictory(Ranges(k))}
    <3>3. PICK answer \in [open -> {"Sat", "Unsat"}] :
            /\ \A k \in open : answer[k] \in IsSatisfiable(Ranges(k), Here.cond, k = 1)
            /\ refuted' = (refuted \/ {k \in open : answer[k] = "Sat"} # open)
      BY <2>1 DEF Branch
    <3>4. \A k \in open : answer[k] = "Sat"
      BY <3>2, <3>3
    <3>5. {k \in open : answer[k] = "Sat"} = open
      BY <3>4
    <3> QED BY <3>1, <3>3, <3>5
  <2>2. CASE ~Branch
    <3>1. UNCHANGED <<smt, refuted>>
      BY <2>2 DEF RecNext, RejectMember, Dominated, BeginSearch, GiveUp, SkipVisited,
         FindBaseCase, ReturnAfterRecursion, Follow, Exhausted, RecOver, recVars
    <3> QED BY <3>1 DEF CoupledModesAreInert
  <2> QED BY <2>1, <2>2
<1> QED BY <1>1, <1>2, PTL DEF RecSpec

-----------------------------------------------------------------------------
\* What is analysed: functions with an entry block, branches with two targets, and
\* comparisons of a variable, seen through a cast, with a constant.

Predicates == Signed \cup Unsigned \cup Equality

Casts == [low : 1 .. Width, signed : BOOLEAN, at : 1 .. Widest]

CondOK(c) ==
  c.pred \notin {"none", "opaque"} =>
    /\ c.pred \in Predicates /\ c.var \in Vars /\ c.valueIsOp0 \in BOOLEAN
    /\ c.cast \in Casts /\ c.constant \in Numbers(c.cast.at)

FunctionOK(f) ==
  /\ Entry \in Blocks(f)
  /\ \A b \in Blocks(f) :
       /\ f.blocks[b].recursive \in BOOLEAN /\ f.blocks[b].returns \in BOOLEAN
       /\ f.blocks[b].to \in Seq(Blocks(f))
       /\ f.blocks[b].cond.pred # "none" => Len(f.blocks[b].to) = 2
       /\ CondOK(f.blocks[b].cond)

ComponentInputs ==
  \A i \in Components :
    /\ DOMAIN i[1] = 1 .. Len(i[1]) /\ Len(i[1]) \in Nat \ {0}
    /\ \A k \in DOMAIN i[1] : FunctionOK(i[1][k])

-----------------------------------------------------------------------------
\* Numbers of the width.

Half == 2 ^ (Width - 1)

LEMMA Sizes ==
  /\ Half \in Nat \ {0}
  /\ Values = -Half .. Half - 1
  /\ NoLower \in Int /\ NoLower < -(2 * Half)
  /\ NoUpper \in Int /\ NoUpper > 2 * Half
  /\ \A n : ZExt(n, Width) = n % (2 * Half)
  /\ \A n : SExt(n, Width) = IF ZExt(n, Width) >= Half
                            THEN ZExt(n, Width) - 2 * Half ELSE ZExt(n, Width)
<1>1. Width \in 1 .. Widest + 1 /\ Widest + 1 \in 1 .. Widest + 1 /\ Widest \in 1 .. Widest + 1
        /\ Width <= Widest /\ (Widest + 1) - 1 = Widest
  BY RecursionAssumption
<1>2. Half \in Nat \ {0} /\ 2 ^ Width = 2 * Half
  BY <1>1, WidthPowers DEF Half
<1>3. 2 ^ Widest \in Nat \ {0} /\ 2 ^ (Widest + 1) = 2 * 2 ^ Widest /\ 2 ^ Width <= 2 ^ Widest
  BY <1>1, WidthPowers
<1>4. /\ NoLower \in Int /\ NoLower < -(2 * Half)
      /\ NoUpper \in Int /\ NoUpper > 2 * Half
  BY <1>2, <1>3 DEF NoLower, NoUpper
<1> QED BY <1>2, <1>4 DEF Half, Values, Numbers, ZExt, SExt

(* The two readings of the bits of a number.                               *)
LEMMA Readings ==
  ASSUME NEW n \in Values
  PROVE  /\ n >= 0 => ZExt(n, Width) = n
         /\ n < 0 => ZExt(n, Width) = n + 2 * Half
         /\ SExt(n, Width) = n
<1>0. Half \in Nat \ {0} /\ n \in -Half .. Half - 1
  BY Sizes
<1> DEFINE M == 2 * Half
           z == ZExt(n, Width)
<1>1. M \in Nat \ {0} /\ n \in -M .. M - 1
  BY <1>0
<1>2. z = n % M
  BY Sizes
<1>6. SExt(n, Width) = IF z >= Half THEN z - 2 * Half ELSE z
  BY Sizes
<1> HIDE DEF M, z
<1>3. n >= 0 => n % M = n
  BY <1>1
<1>4. n < 0 => n % M = n + M
  BY <1>1
<1>5. (n >= 0 => z = n) /\ (n < 0 => z = n + 2 * Half)
  BY <1>2, <1>3, <1>4 DEF M
<1>7. SExt(n, Width) = n
  BY <1>0, <1>5, <1>6
<1> QED BY <1>5, <1>7 DEF z

(* What a comparison sees through a cast is a number no larger than the    *)
(* variable's width allows; without one, it is the value itself.           *)
LEMMA OperandType ==
  ASSUME NEW cast \in Casts, NEW n \in Values
  PROVE  /\ Operand(cast, n) \in Int
         /\ -(2 * Half) <= Operand(cast, n) /\ Operand(cast, n) < 2 * Half
         /\ cast.low = Width /\ cast.signed => Operand(cast, n) = n
<1> DEFINE w == cast.low
           H == 2 ^ (w - 1)
           M == 2 ^ w
           z == ZExt(n, w)
<1>1. w \in 1 .. Widest + 1 /\ Width \in 1 .. Widest + 1 /\ w <= Width
  BY RecursionAssumption DEF Casts
<1>2. H \in Nat \ {0} /\ M = 2 * H /\ M <= 2 ^ Width
  BY <1>1, WidthPowers
<1>3. 2 ^ Width = 2 * Half /\ Half \in Nat \ {0}
  BY <1>1, WidthPowers DEF Half
<1>4. n \in Int
  BY Sizes
<1>5. z = n % M
  BY DEF ZExt
<1>6. SExt(n, w) = IF z >= H THEN z - M ELSE z
  BY DEF SExt
<1>7. cast.low = Width /\ cast.signed => Operand(cast, n) = n
  BY Readings DEF Operand
<1>8. Operand(cast, n) = IF cast.signed THEN SExt(n, w) ELSE z
  BY DEF Operand
<1> HIDE DEF w, H, M, z
<1>9. z \in 0 .. M - 1
  BY <1>2, <1>4, <1>5
<1>10. /\ Operand(cast, n) \in Int
       /\ -(2 * Half) <= Operand(cast, n) /\ Operand(cast, n) < 2 * Half
  BY <1>2, <1>3, <1>6, <1>8, <1>9
<1> QED BY <1>7, <1>10

(* Which edge is taken, and which operand is the variable, do not change   *)
(* how a comparison reads its operands.                                    *)
LEMMA EdgePredicateClass ==
  ASSUME NEW cond, cond.pred \in Predicates, NEW t \in BOOLEAN
  PROVE  /\ cond.pred \in Signed => EdgePredicate(cond, t) \in Signed
         /\ cond.pred \in Unsigned => EdgePredicate(cond, t) \in Unsigned
         /\ cond.pred \in Equality => EdgePredicate(cond, t) \in Equality
<1> DEFINE Same(p, q) == /\ p \in Signed => q \in Signed
                         /\ p \in Unsigned => q \in Unsigned
                         /\ p \in Equality => q \in Equality
<1>1. ASSUME NEW p \in Predicates
      PROVE  Same(p, InversePredicate[p]) /\ InversePredicate[p] \in Predicates
  BY DEF Predicates, Signed, Unsigned, Equality, InversePredicate
<1>2. ASSUME NEW p \in Predicates PROVE Same(p, Mirror[p])
  BY DEF Predicates, Signed, Unsigned, Equality, Mirror
<1>3. \/ EdgePredicate(cond, t) = cond.pred
      \/ EdgePredicate(cond, t) = InversePredicate[cond.pred]
      \/ EdgePredicate(cond, t) = Mirror[cond.pred]
      \/ EdgePredicate(cond, t) = Mirror[InversePredicate[cond.pred]]
  BY DEF EdgePredicate
<1> QED BY <1>1, <1>2, <1>3

Within(n, r) == r.lower <= n /\ n <= r.upper

\* The bounds of an SSA value's range: each absent or within reach of the width.
RangeOK(r, isUnsigned) ==
  /\ r.lower = NoLower \/ (r.lower >= -Half /\ (isUnsigned => 0 <= r.lower /\ r.lower < Half))
  /\ r.upper = NoUpper \/ r.upper < Half

(* A number for which a comparison holds is within the range derived from  *)
(* it, whatever the width of the comparison.                               *)
LEMMA DerivedRange ==
  ASSUME NEW p \in Signed \cup Equality, NEW w, NEW n \in Int, NEW c \in Int, Holds(p, n, c, w),
         -(2 * Half) <= n, n < 2 * Half
  PROVE  /\ Within(n, DeriveRange(p, c, w))
         /\ n \in Values /\ c \in Values => RangeOK(DeriveRange(p, c, w), FALSE)
<1>0. /\ Half \in Nat \ {0} /\ Values = -Half .. Half - 1
      /\ Free = [lower |-> NoLower, upper |-> NoUpper]
      /\ NoLower \in Int /\ NoLower < -(2 * Half) /\ NoUpper \in Int /\ NoUpper > 2 * Half
  BY Sizes DEF Free
<1>2. CASE p = "SLT"
  BY <1>0, <1>2 DEF DeriveRange, Holds, Within, RangeOK, Signed, Unsigned, Equality
<1>3. CASE p = "SLE"
  BY <1>0, <1>3 DEF DeriveRange, Holds, Within, RangeOK, Signed, Unsigned, Equality
<1>4. CASE p = "SGT"
  BY <1>0, <1>4 DEF DeriveRange, Holds, Within, RangeOK, Signed, Unsigned, Equality
<1>5. CASE p = "SGE"
  BY <1>0, <1>5 DEF DeriveRange, Holds, Within, RangeOK, Signed, Unsigned, Equality
<1>6. CASE p = "EQ"
  BY <1>0, <1>6 DEF DeriveRange, Holds, Within, RangeOK, Signed, Unsigned, Equality
<1>7. CASE p = "NE"
  BY <1>0, <1>7 DEF DeriveRange, Holds, Within, RangeOK, Signed, Unsigned, Equality
<1> QED BY <1>2, <1>3, <1>4, <1>5, <1>6, <1>7 DEF Signed, Equality

(* The same of a comparison of an unsigned value with a constant that is   *)
(* the same number read as a signed one.                                   *)
LEMMA DerivedUnsigned ==
  ASSUME NEW p \in Unsigned \cup Equality, NEW n \in Values, NEW c \in Values,
         Holds(p, n, c, Width), c >= 0, c + 1 \in Values
  PROVE  /\ Within(ZExt(n, Width), DeriveRange(p, c, Width))
         /\ RangeOK(DeriveRange(p, c, Width), TRUE)
<1> DEFINE z == ZExt(n, Width)
<1>0. /\ Half \in Nat \ {0} /\ n \in -Half .. Half - 1 /\ c \in 0 .. Half - 2
      /\ Free = [lower |-> NoLower, upper |-> NoUpper]
      /\ NoLower \in Int /\ NoLower < -(2 * Half) /\ NoUpper \in Int /\ NoUpper > 2 * Half
  BY Sizes DEF Free
<1>1. ZExt(c, Width) = c /\ z \in Int /\ 0 <= z /\ z < 2 * Half /\ (n = c => z = c)
  BY <1>0, Readings
<1>2. p \in Unsigned =>
        /\ p = "ULT" => z < c
        /\ p = "ULE" => z <= c
        /\ p = "UGT" => z > c
        /\ p = "UGE" => z >= c
  BY <1>1 DEF Holds, Unsigned
<1>3. p = "EQ" => z = c
  BY <1>1 DEF Holds, Unsigned
<1>4. CASE p = "ULT"
  BY <1>0, <1>1, <1>2, <1>4 DEF DeriveRange, Within, RangeOK, Unsigned
<1>5. CASE p = "ULE"
  BY <1>0, <1>1, <1>2, <1>5 DEF DeriveRange, Within, RangeOK, Unsigned
<1>6. CASE p = "UGT"
  BY <1>0, <1>1, <1>2, <1>6 DEF DeriveRange, Within, RangeOK, Unsigned
<1>7. CASE p = "UGE"
  BY <1>0, <1>1, <1>2, <1>7 DEF DeriveRange, Within, RangeOK, Unsigned
<1>8. CASE p = "EQ"
  BY <1>0, <1>1, <1>3, <1>8 DEF DeriveRange, Within, RangeOK, Unsigned
<1>9. CASE p = "NE"
  BY <1>0, <1>1, <1>9 DEF DeriveRange, Within, RangeOK, Unsigned
<1> QED BY <1>4, <1>5, <1>6, <1>7, <1>8, <1>9 DEF Unsigned, Equality

LEMMA DerivedType ==
  ASSUME NEW p \in Predicates, NEW w \in 1 .. Widest, NEW c \in Numbers(w)
  PROVE  DeriveRange(p, c, w) \in [lower : Int, upper : Int]
<1>0. Free \in [lower : Int, upper : Int]
  BY Sizes DEF Free
<1>1. 2 ^ w \in Nat \ {0} /\ c \in Int
  <2>1. w \in 1 .. Widest + 1 /\ w \in Int
    BY RecursionAssumption
  <2>2. 2 ^ (w - 1) \in Nat \ {0} /\ 2 ^ w = 2 * 2 ^ (w - 1)
    BY <2>1, WidthPowers
  <2> QED BY <2>2 DEF Numbers
<1> DEFINE M == 2 ^ w
           d == IF p \in Unsigned THEN c % M ELSE c
<1>2. \/ DeriveRange(p, c, w) = [Free EXCEPT !.upper = d - 1]
      \/ DeriveRange(p, c, w) = [Free EXCEPT !.upper = d]
      \/ DeriveRange(p, c, w) = [Free EXCEPT !.lower = d + 1]
      \/ DeriveRange(p, c, w) = [Free EXCEPT !.lower = d]
      \/ DeriveRange(p, c, w) = [lower |-> d, upper |-> d]
      \/ DeriveRange(p, c, w) = Free
  BY DEF DeriveRange, ZExt, Predicates, Signed, Unsigned, Equality
<1> HIDE DEF M
<1>3. d \in Int
  BY <1>1 DEF M
<1> HIDE DEF d
<1> QED BY <1>0, <1>2, <1>3

LEMMA IntersectTwo ==
  ASSUME NEW a \in [lower : Int, upper : Int], NEW b \in [lower : Int, upper : Int]
  PROVE  /\ Intersect(a, b) \in [lower : Int, upper : Int]
         /\ Intersect(a, b).lower = IF a.lower >= b.lower THEN a.lower ELSE b.lower
         /\ Intersect(a, b).upper = IF a.upper <= b.upper THEN a.upper ELSE b.upper
<1>1. Max({a.lower, b.lower}) = IF a.lower >= b.lower THEN a.lower ELSE b.lower
  BY DEF Max
<1>2. Min({a.upper, b.upper}) = IF a.upper <= b.upper THEN a.upper ELSE b.upper
  BY DEF Min
<1> QED BY <1>1, <1>2 DEF Intersect

Ranges == [Vars -> [lower : Int, upper : Int]]

LEMMA EdgeRangesType ==
  ASSUME NEW cond, CondOK(cond), cond.pred # "none", NEW t \in BOOLEAN, NEW ranges \in Ranges
  PROVE  EdgeRanges(ranges, cond, t) \in Ranges
<1>1. CASE cond.pred = "opaque"
  BY <1>1 DEF EdgeRanges
<1>2. CASE cond.pred # "opaque"
  <2>1. cond.pred \in Predicates /\ cond.var \in Vars
          /\ cond.cast.at \in 1 .. Widest /\ cond.constant \in Numbers(cond.cast.at)
    BY <1>2 DEF CondOK, Casts
  <2>2. EdgePredicate(cond, t) \in Predicates
    BY <2>1, EdgePredicateClass DEF Predicates
  <2> DEFINE d == DeriveRange(EdgePredicate(cond, t), cond.constant, cond.cast.at)
  <2>3. d \in [lower : Int, upper : Int]
    BY <2>1, <2>2, DerivedType
  <2> DEFINE i == Intersect(ranges[cond.var], d)
  <2>4. i \in [lower : Int, upper : Int]
    BY <2>1, <2>3, IntersectTwo DEF Ranges
  <2>5. EdgeRanges(ranges, cond, t) = [ranges EXCEPT ![cond.var] = i]
    BY <1>2 DEF EdgeRanges
  <2> HIDE DEF i
  <2> QED BY <2>1, <2>4, <2>5 DEF Ranges
<1> QED BY <1>1, <1>2

-----------------------------------------------------------------------------
\* Values and the ranges of a path.

ReadUnsigned(f, v) == \E c \in Comparisons(f, v) : c.pred \in Unsigned

\* The cast of a comparison of v: if f compares uniformly, any of them does.
CastOf(f, v) ==
  IF Comparisons(f, v) = {} THEN NoCast ELSE (CHOOSE c \in Comparisons(f, v) : TRUE).cast

\* The number a comparison of f sees in the variable v when its value is n.
Reading(f, v, n) ==
  IF ReadUnsigned(f, v) THEN ZExt(n, Width) ELSE Operand(CastOf(f, v), n)

Fits(f, val, ranges) ==
  /\ ranges \in Ranges
  /\ \A v \in Vars : /\ Within(Reading(f, v, val[v]), ranges[v])
                     /\ v \notin Locations => RangeOK(ranges[v], ReadUnsigned(f, v))

\* A run with the values val may take the edge.
MayTake(cond, t, val) == cond.pred # "opaque" => Passes(cond, t, val[cond.var])

LEMMA NoCastIsCast == NoCast \in Casts
BY RecursionAssumption DEF NoCast, Casts

LEMMA ReadingType ==
  ASSUME NEW f, FunctionOK(f), NEW v, NEW n \in Values
  PROVE  /\ CastOf(f, v) \in Casts
         /\ Reading(f, v, n) \in Int
         /\ -(2 * Half) <= Reading(f, v, n) /\ Reading(f, v, n) < 2 * Half
         /\ ReadUnsigned(f, v) => 0 <= Reading(f, v, n)
<1>1. Half \in Nat \ {0} /\ n \in -Half .. Half - 1
  BY Sizes
<1>2. (n >= 0 => ZExt(n, Width) = n) /\ (n < 0 => ZExt(n, Width) = n + 2 * Half)
  BY Readings
<1>3. CastOf(f, v) \in Casts
  <2>1. CASE Comparisons(f, v) = {}
    BY <2>1, NoCastIsCast DEF CastOf
  <2>2. CASE Comparisons(f, v) # {}
    <3>1. \A c \in Comparisons(f, v) : c.cast \in Casts
      BY DEF Comparisons, FunctionOK, CondOK
    <3>2. (CHOOSE c \in Comparisons(f, v) : TRUE) \in Comparisons(f, v)
      BY <2>2
    <3> QED BY <2>2, <3>1, <3>2 DEF CastOf
  <2> QED BY <2>1, <2>2
<1>4. /\ Operand(CastOf(f, v), n) \in Int
      /\ -(2 * Half) <= Operand(CastOf(f, v), n) /\ Operand(CastOf(f, v), n) < 2 * Half
  BY <1>3, OperandType
<1> QED BY <1>1, <1>2, <1>3, <1>4 DEF Reading

(* How a variable of a comparison is read, for a function that compares    *)
(* uniformly.                                                              *)
LEMMA ReadUniformly ==
  ASSUME NEW f, FunctionOK(f), UniformlyCompared(f), NEW b \in Blocks(f), NEW cond,
         cond = f.blocks[b].cond, cond.pred \notin {"none", "opaque"}, NEW t \in BOOLEAN
  PROVE  /\ cond.var \in Vars /\ cond.cast \in Casts /\ cond.constant \in Int
         /\ EdgePredicate(cond, t) \in Predicates
         /\ ReadUnsigned(f, cond.var) =>
              /\ EdgePredicate(cond, t) \in Unsigned \cup Equality /\ cond.cast = NoCast
              /\ cond.constant >= 0 /\ cond.constant \in Values /\ cond.constant + 1 \in Values
         /\ ~ReadUnsigned(f, cond.var) =>
              /\ EdgePredicate(cond, t) \in Signed \cup Equality
              /\ \A n : Reading(f, cond.var, n) = Operand(cond.cast, n)
              /\ cond.var \notin Locations => cond.constant \in Values
<1> DEFINE v == cond.var
           k == CastOf(f, v)
<1>1. /\ cond.pred \in Predicates /\ v \in Vars /\ cond.cast \in Casts
      /\ cond.constant \in Numbers(cond.cast.at)
  BY DEF FunctionOK, CondOK
<1>2. /\ cond.pred \in Signed => EdgePredicate(cond, t) \in Signed
      /\ cond.pred \in Unsigned => EdgePredicate(cond, t) \in Unsigned
      /\ cond.pred \in Equality => EdgePredicate(cond, t) \in Equality
  BY <1>1, EdgePredicateClass
<1>3. cond.constant \in Int
  <2>1. cond.cast.at \in 1 .. Widest + 1
    BY <1>1, RecursionAssumption DEF Casts
  <2>2. 2 ^ (cond.cast.at - 1) \in Nat \ {0}
    BY <2>1, WidthPowers
  <2> QED BY <1>1, <2>2 DEF Numbers
<1>4. cond \in Comparisons(f, v)
  BY DEF Comparisons
<1>5. PICK d \in Comparisons(f, v) : k = d.cast
  <2>1. (CHOOSE c \in Comparisons(f, v) : TRUE) \in Comparisons(f, v)
    BY <1>4
  <2> QED BY <1>4, <2>1 DEF CastOf
<1>6. cond.cast = NoCast => cond.constant \in Values
  BY <1>1 DEF NoCast, Values
<1>7. ComparedSigned(f, v) \/ ComparedUnsigned(f, v)
  BY <1>1 DEF UniformlyCompared
<1> HIDE DEF v, k
<1>8. CASE ReadUnsigned(f, v)
  <2>1. ~ComparedSigned(f, v)
    BY <1>8 DEF ComparedSigned, ReadUnsigned, Signed, Unsigned, Equality
  <2>2. cond.pred \in Unsigned \cup Equality /\ cond.cast = NoCast
          /\ cond.constant >= 0 /\ cond.constant + 1 \in Values
    BY <1>4, <1>7, <2>1 DEF ComparedUnsigned
  <2> QED BY <1>1, <1>2, <1>3, <1>6, <1>8, <2>2 DEF Predicates, v
<1>9. CASE ~ReadUnsigned(f, v)
  <2>1. cond.pred \notin Unsigned
    BY <1>4, <1>9 DEF ReadUnsigned
  <2>2. k.low = cond.cast.low /\ k.signed = cond.cast.signed
    BY <1>4, <1>5, <1>7 DEF ComparedSigned, ComparedUnsigned
  <2>3. \A n : Reading(f, v, n) = Operand(cond.cast, n)
    BY <1>9, <2>2 DEF Reading, Operand, k
  <2>4. v \notin Locations => cond.constant \in Values
    BY <1>4, <1>6, <1>7 DEF ComparedSigned, ComparedUnsigned
  <2> QED BY <1>1, <1>2, <1>3, <1>9, <2>1, <2>3, <2>4 DEF Predicates, v
<1> QED BY <1>8, <1>9

(* An SSA value read as a signed number is that number.                    *)
LEMMA ReadAsItIs ==
  ASSUME NEW f, UniformlyCompared(f), NEW v \in Vars \ Locations, ~ReadUnsigned(f, v),
         FunctionOK(f), NEW n \in Values
  PROVE  Reading(f, v, n) = n
<1>1. CastOf(f, v).low = Width /\ CastOf(f, v).signed
  <2>1. CASE Comparisons(f, v) = {}
    BY <2>1 DEF CastOf, NoCast
  <2>2. CASE Comparisons(f, v) # {}
    <3>1. (CHOOSE c \in Comparisons(f, v) : TRUE) \in Comparisons(f, v)
      BY <2>2
    <3>2. \A c \in Comparisons(f, v) : c.cast.low = Width /\ c.cast.signed
      BY DEF UniformlyCompared, ComparedSigned, ComparedUnsigned, NoCast
    <3> QED BY <2>2, <3>1, <3>2 DEF CastOf
  <2> QED BY <2>1, <2>2
<1>2. CastOf(f, v) \in Casts
  BY ReadingType
<1> QED BY <1>1, <1>2, OperandType DEF Reading

(* The values of a run that takes an edge fit the ranges of the edge.      *)
LEMMA EdgeFits ==
  ASSUME NEW f, FunctionOK(f), UniformlyCompared(f), NEW b \in Blocks(f), NEW cond,
         cond = f.blocks[b].cond, cond.pred # "none", NEW t \in BOOLEAN,
         NEW val \in [Vars -> Values], NEW ranges, Fits(f, val, ranges), MayTake(cond, t, val)
  PROVE  Fits(f, val, EdgeRanges(ranges, cond, t))
<1>1. CASE cond.pred = "opaque"
  BY <1>1 DEF EdgeRanges
<1>2. CASE cond.pred # "opaque"
  <2> DEFINE v == cond.var
             p == EdgePredicate(cond, t)
             c == cond.constant
             at == cond.cast.at
             u == ReadUnsigned(f, v)
             n == val[v]
             x == Reading(f, v, n)
             d == DeriveRange(p, c, at)
             r == ranges[v]
  <2>1. /\ v \in Vars /\ c \in Int /\ cond.cast \in Casts /\ p \in Predicates
        /\ u => /\ p \in Unsigned \cup Equality /\ cond.cast = NoCast
                /\ c >= 0 /\ c \in Values /\ c + 1 \in Values
        /\ ~u => /\ p \in Signed \cup Equality /\ x = Operand(cond.cast, n)
                 /\ v \notin Locations => c \in Values
    BY <1>2, ReadUniformly
  <2>2. n \in Values /\ Holds(p, Operand(cond.cast, n), c, at)
    BY <1>2, <2>1 DEF MayTake, Passes
  <2>3. x \in Int /\ -(2 * Half) <= x /\ x < 2 * Half
    BY <2>1, <2>2, ReadingType
  <2>4. ~u /\ v \notin Locations => x \in Values
    BY <2>1, <2>2, ReadAsItIs
  <2>5. u => Operand(cond.cast, n) = n /\ at = Width
    BY <2>1, <2>2, OperandType DEF NoCast
  <2>6. d \in [lower : Int, upper : Int]
    <3>1. at \in 1 .. Widest /\ c \in Numbers(at)
      BY <1>2 DEF FunctionOK, CondOK, Casts
    <3> QED BY <2>1, <3>1, DerivedType
  <2>7. Within(x, d) /\ (v \notin Locations => RangeOK(d, u))
    <3>1. CASE u
      <4>1. Within(ZExt(n, Width), DeriveRange(p, c, Width)) /\ RangeOK(DeriveRange(p, c, Width), TRUE)
        <5> HIDE DEF v, p, c, at, u, n
        <5> QED BY <2>1, <2>2, <2>5, <3>1, DerivedUnsigned
      <4>2. x = ZExt(n, Width) /\ d = DeriveRange(p, c, Width)
        BY <2>5, <3>1 DEF Reading
      <4> QED BY <3>1, <4>1, <4>2 DEF RangeOK
    <3>2. CASE ~u
      <4>1. Within(x, d) /\ (x \in Values /\ c \in Values => RangeOK(d, FALSE))
        <5>1. Holds(p, x, c, at)
          BY <2>1, <2>2, <3>2
        <5> HIDE DEF v, p, c, at, u, n, x
        <5> QED BY <2>1, <2>3, <3>2, <5>1, DerivedRange
      <4>2. v \notin Locations => x \in Values /\ c \in Values
        BY <2>1, <2>4, <3>2
      <4> QED BY <3>2, <4>1, <4>2 DEF RangeOK
    <3> QED BY <3>1, <3>2
  <2>8. Within(x, r) /\ r \in [lower : Int, upper : Int] /\ (v \notin Locations => RangeOK(r, u))
    BY <2>1 DEF Fits, Ranges
  <2> DEFINE i == Intersect(r, d)
  <2>9. EdgeRanges(ranges, cond, t) = [ranges EXCEPT ![v] = i]
    BY <1>2 DEF EdgeRanges
  <2> HIDE DEF v, p, c, at, u, n, x, d, r
  <2>10. /\ i \in [lower : Int, upper : Int]
         /\ i.lower = IF r.lower >= d.lower THEN r.lower ELSE d.lower
         /\ i.upper = IF r.upper <= d.upper THEN r.upper ELSE d.upper
    BY <2>6, <2>8, IntersectTwo
  <2> HIDE DEF i
  <2>11. Within(x, i)
    BY <2>3, <2>6, <2>7, <2>8, <2>10 DEF Within
  <2>12. v \notin Locations => RangeOK(i, u)
    BY <2>6, <2>7, <2>8, <2>10 DEF RangeOK
  <2>13. ranges \in Ranges
    BY DEF Fits
  <2>14. EdgeRanges(ranges, cond, t) \in Ranges
    BY <2>9, <2>10, <2>13 DEF Ranges
  <2>15. ASSUME NEW w \in Vars
         PROVE  /\ Within(Reading(f, w, val[w]), EdgeRanges(ranges, cond, t)[w])
                /\ w \notin Locations => RangeOK(EdgeRanges(ranges, cond, t)[w], ReadUnsigned(f, w))
    <3>1. CASE w = v
      <4>1. EdgeRanges(ranges, cond, t)[w] = i
        BY <2>9, <2>13, <3>1 DEF Ranges
      <4> QED BY <2>11, <2>12, <3>1, <4>1 DEF x, u, n
    <3>2. CASE w # v
      <4>1. EdgeRanges(ranges, cond, t)[w] = ranges[w]
        BY <2>9, <2>13, <3>2 DEF Ranges
      <4> QED BY <4>1 DEF Fits
    <3> QED BY <3>1, <3>2
  <2> QED BY <2>14, <2>15 DEF Fits
<1> QED BY <1>1, <1>2

LEMMA FitsIsConsistent ==
  ASSUME NEW f, FunctionOK(f), NEW val \in [Vars -> Values], NEW ranges, Fits(f, val, ranges)
  PROVE  ~Contradictory(ranges)
<1> SUFFICES ASSUME NEW v \in Vars PROVE ~ (ranges[v].lower > ranges[v].upper)
  BY DEF Contradictory
<1>1. val[v] \in Values
  OBVIOUS
<1>2. Reading(f, v, val[v]) \in Int
  BY <1>1, ReadingType
<1>3. ranges[v].lower \in Int /\ ranges[v].upper \in Int /\ Within(Reading(f, v, val[v]), ranges[v])
  BY DEF Fits, Ranges
<1> QED BY <1>2, <1>3 DEF Within

(* The question asked of an edge that some run takes has an answer, though *)
(* not always that run's: a value that is only large when read unsigned is *)
(* stood in for by the largest signed one.                                 *)
LEMMA QueryOfTakenEdge ==
  ASSUME NEW f, FunctionOK(f), UniformlyCompared(f), NEW b \in Blocks(f), NEW cond,
         cond = f.blocks[b].cond, cond.pred # "none", NEW t \in BOOLEAN,
         NEW val \in [Vars -> Values], NEW ranges, Fits(f, val, ranges), MayTake(cond, t, val)
  PROVE  QueryFeasible(ranges, cond, t)
<1> SUFFICES ASSUME NEW v \in Vars
             PROVE  \E n \in Values : RangeAsserted(ranges[v], v, n) /\ EdgeAsserted(cond, t, v, n)
  BY DEF QueryFeasible
<1> DEFINE x == val[v]
           r == ranges[v]
           u == ReadUnsigned(f, v)
<1>1. x \in Values /\ Within(Reading(f, v, x), r) /\ (v \notin Locations => RangeOK(r, u))
  BY DEF Fits
<1>2. Half \in Nat \ {0} /\ Values = -Half .. Half - 1 /\ NoLower \in Int /\ NoUpper \in Int
        /\ NoUpper > 2 * Half
  BY Sizes
<1>3. (x >= 0 => ZExt(x, Width) = x) /\ (x < 0 => ZExt(x, Width) = x + 2 * Half)
  BY <1>1, Readings
<1>4. r.lower \in Int /\ r.upper \in Int
  BY DEF Fits, Ranges
<1>5. EdgeAsserted(cond, t, v, x)
  BY DEF MayTake, EdgeAsserted
<1>6. \A n \in Values : SExt(n, Width) = n
  BY Readings
<1>7. CASE v \in Locations
  BY <1>1, <1>5, <1>7 DEF RangeAsserted
<1>8. ASSUME v \notin Locations
      PROVE  /\ r.lower = NoLower \/ (r.lower >= -Half /\ (u => 0 <= r.lower /\ r.lower < Half))
             /\ r.upper = NoUpper \/ r.upper < Half
  BY <1>1, <1>8 DEF RangeOK
<1>9. CASE v \notin Locations /\ (~u \/ x >= 0)
  <2>1. Reading(f, v, x) = x
    <3>1. CASE u
      BY <1>3, <1>9, <3>1 DEF Reading
    <3>2. CASE ~u
      BY <1>1, <1>9, <3>2, ReadAsItIs
    <3> QED BY <3>1, <3>2
  <2>2. r.lower <= x /\ x <= r.upper
    BY <1>1, <2>1 DEF Within
  <2> HIDE DEF x, r, u
  <2>3. r.lower # NoLower => r.lower \in Values
    BY <1>1, <1>2, <1>4, <1>8, <1>9, <2>2
  <2>4. r.upper # NoUpper => r.upper \in Values
    BY <1>1, <1>2, <1>4, <1>8, <1>9, <2>2
  <2>5. (r.lower # NoLower => x >= SExt(r.lower, Width)) /\ (r.upper # NoUpper => x <= SExt(r.upper, Width))
    BY <1>1, <1>2, <1>4, <1>6, <2>2, <2>3, <2>4
  <2>6. RangeAsserted(r, v, x)
    BY <2>5 DEF RangeAsserted
  <2> QED BY <1>1, <1>5, <2>6 DEF r
<1>10. CASE v \notin Locations /\ u /\ x < 0
  <2> DEFINE y == Half - 1
             z == ZExt(x, Width)
  <2>1. y \in Values /\ ZExt(y, Width) = y
    <3>1. y \in Values /\ y >= 0
      BY <1>2
    <3> QED BY <3>1, Readings
  <2>2. Reading(f, v, x) = z /\ z = x + 2 * Half /\ x \in -Half .. -1
    BY <1>1, <1>2, <1>3, <1>10 DEF Reading
  <2>3. r.lower <= z /\ z <= r.upper
    BY <1>1, <2>2 DEF Within
  <2>4. EdgeAsserted(cond, t, v, y)
    <3> SUFFICES ASSUME cond.pred \notin {"none", "opaque"}, cond.var = v
                 PROVE  Passes(cond, t, y)
      BY DEF EdgeAsserted
    <3> DEFINE p == EdgePredicate(cond, t)
               c == cond.constant
    <3>1. p \in Unsigned \cup Equality /\ cond.cast = NoCast /\ cond.cast \in Casts
            /\ c >= 0 /\ c + 1 \in Values /\ c \in Values
      BY <1>10, ReadUniformly
    <3>2. cond.cast.at = Width /\ \A n \in Values : Operand(cond.cast, n) = n
      BY <3>1, OperandType DEF NoCast
    <3>3. Holds(p, x, c, Width)
      BY <1>1, <3>2 DEF MayTake, Passes
    <3>4. ZExt(c, Width) = c /\ c \in Nat /\ c < y
      BY <1>2, <3>1, Readings
    <3>5. Passes(cond, t, y) <=> Holds(p, y, c, Width)
      BY <2>1, <3>2 DEF Passes
    <3> HIDE DEF p, c, x
    <3>6. z > c /\ x # c /\ z \in Int /\ y > c /\ y \in Int
      BY <1>2, <2>2, <3>4
    <3> HIDE DEF y
    <3>7. Holds(p, y, c, Width)
      <4>1. CASE p = "ULT"
        BY <2>1, <3>3, <3>4, <3>6, <4>1 DEF Holds, Unsigned
      <4>2. CASE p = "ULE"
        BY <2>1, <3>3, <3>4, <3>6, <4>2 DEF Holds, Unsigned
      <4>3. CASE p = "UGT"
        BY <2>1, <3>3, <3>4, <3>6, <4>3 DEF Holds, Unsigned
      <4>4. CASE p = "UGE"
        BY <2>1, <3>3, <3>4, <3>6, <4>4 DEF Holds, Unsigned
      <4>5. CASE p = "EQ"
        BY <2>1, <3>3, <3>4, <3>6, <4>5 DEF Holds, Unsigned
      <4>6. CASE p = "NE"
        BY <2>1, <3>3, <3>4, <3>6, <4>6 DEF Holds, Unsigned
      <4> QED BY <3>1, <4>1, <4>2, <4>3, <4>4, <4>5, <4>6 DEF Unsigned, Equality
    <3> QED BY <3>5, <3>7
  <2> HIDE DEF z
  <2>5. RangeAsserted(r, v, y)
    <3>1. r.upper = NoUpper
      BY <1>2, <1>4, <1>8, <1>10, <2>2, <2>3
    <3>2. r.lower # NoLower => r.lower \in Values /\ r.lower <= y
      BY <1>2, <1>4, <1>8, <1>10
    <3>3. r.lower # NoLower => y >= SExt(r.lower, Width)
      BY <1>6, <3>2, <1>2, <1>4
    <3> QED BY <3>1, <3>3 DEF RangeAsserted
  <2> QED BY <2>1, <2>4, <2>5
<1>11. x \in Int
  BY <1>1, <1>2
<1> QED BY <1>7, <1>9, <1>10, <1>11

(* resolveBackends never comes back with an empty list.                    *)
LEMMA BackendsAreListed ==
  ASSUME NEW config
  PROVE  \E S : ResolveBackends(config) \in Seq(S) /\ Len(ResolveBackends(config)) >= 1
<1> DEFINE S == {config.primary, config.secondary, "interval"}
           given == IF config.secondary = ""
                    THEN <<config.primary>>
                    ELSE AppendBackendIfMissing(<<config.primary>>, config.secondary)
<1>1. <<config.primary>> \in Seq(S) /\ Len(<<config.primary>>) >= 1
  OBVIOUS
<1>2. config.secondary \in S /\ "interval" \in S
  OBVIOUS
<1> HIDE DEF S
<1>3. ASSUME NEW out \in Seq(S), NEW name \in S
      PROVE  AppendBackendIfMissing(out, name) \in Seq(S) /\ Len(AppendBackendIfMissing(out, name)) >= 1
  <2>1. AppendBackendIfMissing(out, name) \in Seq(S)
          /\ \E k \in DOMAIN AppendBackendIfMissing(out, name) : TRUE
    BY AppendedIsThere
  <2> QED BY <2>1
<1>4. given \in Seq(S) /\ Len(given) >= 1
  BY <1>1, <1>2, <1>3
<1>5. \/ ResolveBackends(config) = <<config.primary>>
      \/ ResolveBackends(config) = given
      \/ ResolveBackends(config) = AppendBackendIfMissing(given, "interval")
  BY DEF ResolveBackends
<1> HIDE DEF given
<1>6. AppendBackendIfMissing(given, "interval") \in Seq(S) /\ Len(AppendBackendIfMissing(given, "interval")) >= 1
  BY <1>2, <1>3, <1>4
<1> QED BY <1>1, <1>4, <1>5, <1>6

(* A question that has an answer is never refuted, whatever the mode and   *)
(* whichever back ends fail.                                               *)
LEMMA FeasibleNeverInfeasible ==
  ASSUME NEW config, NEW feasible, feasible, NEW s \in EvaluateQuery(config, feasible, FALSE)
  PROVE  s # "Infeasible"
<1>1. CASE ~config.enabled
  BY <1>1 DEF EvaluateQuery
<1>2. CASE config.enabled
  <2> DEFINE backends == ResolveBackends(config)
             Of(k) == Solve(backends[k], feasible, FALSE)
             all == {a \in [DOMAIN backends -> Statuses] : \A k \in DOMAIN backends : a[k] \in Of(k)}
  <2>1. PICK a \in Answers(config, feasible, FALSE) : s = Feasibility(AggregateStatuses(a, config.mode))
    BY <1>2 DEF EvaluateQuery
  <2>2. \A k : \A z \in Of(k) : z # "Unsat"
    BY DEF Solve, SolveInterval, SolveZ3, Unsure
  <2>3. \/ \E z \in Of(1) : a = <<z>>
        \/ a \in all
        \/ \E z \in all : a = IF z[1] \in Unsure /\ Len(z) >= 2 THEN <<z[1], z[2]>> ELSE <<z[1]>>
    BY <2>1 DEF Answers
  <2> HIDE DEF Of
  <2>4. "Unsat" \notin Range(a)
    <3>1. CASE \E z \in Of(1) : a = <<z>>
      <4>1. PICK z \in Of(1) : a = <<z>>
        BY <3>1
      <4>2. Range(a) = {z}
        BY <4>1 DEF Range
      <4> QED BY <2>2, <4>2
    <3>2. CASE a \in all
      BY <2>2, <3>2 DEF Range
    <3>3. CASE \E z \in all : a = IF z[1] \in Unsure /\ Len(z) >= 2 THEN <<z[1], z[2]>> ELSE <<z[1]>>
      <4>1. PICK z \in all : a = IF z[1] \in Unsure /\ Len(z) >= 2 THEN <<z[1], z[2]>> ELSE <<z[1]>>
        BY <3>3
      <4>2. DOMAIN backends = 1 .. Len(backends) /\ Len(backends) \in Nat /\ Len(backends) >= 1
        BY BackendsAreListed
      <4> HIDE DEF backends
      <4>3. z \in [1 .. Len(backends) -> Statuses] /\ \A k \in 1 .. Len(backends) : z[k] # "Unsat"
        BY <2>2, <4>1, <4>2
      <4>4. Len(z) = Len(backends)
        <5>1. z \in Seq(Statuses)
          BY <4>2, <4>3
        <5> QED BY <4>2, <4>3, <5>1
      <4>5. z[1] # "Unsat" /\ (Len(z) >= 2 => z[2] # "Unsat")
        BY <4>2, <4>3, <4>4
      <4>6. Range(<<z[1]>>) = {z[1]} /\ Range(<<z[1], z[2]>>) = {z[1], z[2]}
        BY DEF Range
      <4> QED BY <4>1, <4>5, <4>6
    <3> QED BY <2>3, <3>1, <3>2, <3>3
  <2>5. AggregateStatuses(a, config.mode) # "Unsat"
    BY <2>4 DEF AggregateStatuses
  <2> QED BY <2>1, <2>5 DEF Feasibility
<1> QED BY <1>1, <1>2

-----------------------------------------------------------------------------
\* Reachability.

LEMMA ReachMonotone ==
  ASSUME NEW N, NEW E, NEW F, E \subseteq F, NEW i
  PROVE  ReachableFrom(N, E, i) \subseteq ReachableFrom(N, F, i)
BY DEF ReachableFrom

(* What a node reaches is the node itself or reached from a successor.     *)
LEMMA ReachFirstStep ==
  ASSUME NEW N, NEW E \in SUBSET (N \X N), NEW i \in N, NEW j \in ReachableFrom(N, E, i), j # i
  PROVE  \E e \in E : e[1] = i /\ j \in ReachableFrom(N, E, e[2])
<1> DEFINE T == {i} \cup {k \in N : \E e \in E : e[1] = i /\ k \in ReachableFrom(N, E, e[2])}
<1>1. T \in SUBSET N /\ i \in T
  OBVIOUS
<1>2. ASSUME NEW e \in E, e[1] \in T PROVE e[2] \in T
  <2>0. e[1] \in N /\ e[2] \in N
    OBVIOUS
  <2>1. CASE e[1] = i
    <3>1. e[2] \in ReachableFrom(N, E, e[2])
      BY <2>0 DEF ReachableFrom
    <3> QED BY <2>0, <2>1, <3>1
  <2>2. CASE e[1] # i
    <3>1. PICK d \in E : d[1] = i /\ e[1] \in ReachableFrom(N, E, d[2])
      BY <1>2, <2>2
    <3>2. e[2] \in ReachableFrom(N, E, d[2])
      BY <2>0, <3>1 DEF ReachableFrom
    <3> QED BY <2>0, <3>1, <3>2
  <2> QED BY <2>1, <2>2
<1>3. j \in T
  <2> HIDE DEF T
  <2> QED BY <1>1, <1>2 DEF ReachableFrom
<1> QED BY <1>3

(* An edge further.                                                        *)
LEMMA ReachLastStep ==
  ASSUME NEW N, NEW E, NEW i, NEW j \in ReachableFrom(N, E, i), NEW k \in N, <<j, k>> \in E
  PROVE  k \in ReachableFrom(N, E, i)
<1> SUFFICES ASSUME NEW T \in SUBSET N, i \in T, \A e \in E : e[1] \in T => e[2] \in T
             PROVE  k \in T
  BY DEF ReachableFrom
<1>1. j \in T
  BY DEF ReachableFrom
<1>2. <<j, k>>[1] \in T => <<j, k>>[2] \in T
  OBVIOUS
<1> QED BY <1>1, <1>2
-----------------------------------------------------------------------------
\* The inductive invariant of the search.

\* The blocks a quiet run, one without recursive calls, keeps out of.
Avoided(f, quiet) == IF quiet THEN RecursiveBlocks(f) ELSE {}

RunEdges(f, val, quiet) == {e \in EdgesWith(f, val) : e[1] \notin Avoided(f, quiet)}

\* A run with the values val that is at block b may go on to a return.
Leads(f, val, quiet, b) ==
  ReachableFrom(Blocks(f), RunEdges(f, val, quiet), b) \cap (Returns(f) \ Avoided(f, quiet)) # {}

PathStates(f) == [block : Blocks(f), ranges : Ranges, depth : Nat, sawRecursiveCall : BOOLEAN]

\* The state s of the worklist stands for such a run.
Carries(f, s, val, quiet) ==
  /\ Fits(f, val, s.ranges)
  /\ Leads(f, val, quiet, s.block)
  /\ quiet => ~s.sawRecursiveCall

Carried(f, w, val, quiet) == \E i \in DOMAIN w : Carries(f, w[i], val, quiet)

CleanBlocks(f) == ReachableFrom(Blocks(f), EdgesPast(f, RecursiveBlocks(f)), Entry)

Clean(f, w) == \A i \in DOMAIN w : ~w[i].sawRecursiveCall => w[i].block \in CleanBlocks(f)

ComponentOK ==
  /\ DOMAIN component = 1 .. Len(component)
  /\ Len(component) \in Nat \ {0}
  /\ \A k \in DOMAIN component : FunctionOK(component[k])
  /\ member \in DOMAIN component
  /\ phase \in {"member", "search", "done"}
  /\ sawAnyRecursivePath \in BOOLEAN

\* A state that has seen no recursive call is where a path without one leads.
WorklistOK ==
  phase = "search" => worklist \in Seq(PathStates(Fn)) /\ Clean(Fn, worklist)

\* As long as no path was dropped, every run to a return is still in the worklist, or
\* a return after a recursive call was seen.
RunsAreFollowed ==
  phase = "search" /\ ~skipped /\ UniformlyCompared(Fn) =>
    \A val \in [Vars -> Values], quiet \in BOOLEAN :
      Leads(Fn, val, quiet, Entry) =>
        Carried(Fn, worklist, val, quiet) \/ (~quiet /\ sawAnyRecursivePath)

\* The functions that have been passed.
Passed == {k \in DOMAIN component : k < member \/ (phase = "done" /\ flagged)}

PassedAreRight ==
  ~skipped => \A k \in Passed : UniformlyCompared(component[k]) => ~HasBaseCase(component[k])

RecIInv ==
  /\ ComponentOK
  /\ WorklistOK
  /\ RunsAreFollowed
  /\ PassedAreRight
-----------------------------------------------------------------------------
\* A round of the search.

(* A run on its way to a return is in no block it keeps out of.            *)
LEMMA LeadsAvoids ==
  ASSUME NEW f, NEW val, NEW quiet \in BOOLEAN, NEW b \in Blocks(f), Leads(f, val, quiet, b)
  PROVE  b \notin Avoided(f, quiet)
<1>1. PICK j \in ReachableFrom(Blocks(f), RunEdges(f, val, quiet), b) :
        j \in Returns(f) \ Avoided(f, quiet)
  BY DEF Leads
<1>2. CASE j = b
  BY <1>1, <1>2
<1>3. CASE j # b
  <2>1. RunEdges(f, val, quiet) \in SUBSET (Blocks(f) \X Blocks(f))
    BY DEF RunEdges, EdgesWith, EdgesOf
  <2>2. \E e \in RunEdges(f, val, quiet) : e[1] = b
    BY <1>3, <2>1, ReachFirstStep
  <2> QED BY <2>2 DEF RunEdges
<1> QED BY <1>2, <1>3

(* From a block that does not return it goes on over an edge that its      *)
(* values allow.                                                           *)
LEMMA RunGoesOn ==
  ASSUME NEW f, NEW val, NEW quiet \in BOOLEAN, NEW b \in Blocks(f), Leads(f, val, quiet, b),
         ~f.blocks[b].returns
  PROVE  \E k \in DOMAIN f.blocks[b].to :
           /\ Leads(f, val, quiet, f.blocks[b].to[k])
           /\ f.blocks[b].cond.pred # "none" => MayTake(f.blocks[b].cond, k = 1, val)
<1>1. PICK j \in ReachableFrom(Blocks(f), RunEdges(f, val, quiet), b) :
        j \in Returns(f) \ Avoided(f, quiet)
  BY DEF Leads
<1>2. j # b
  BY <1>1 DEF Returns
<1>3. RunEdges(f, val, quiet) \in SUBSET (Blocks(f) \X Blocks(f))
  BY DEF RunEdges, EdgesWith, EdgesOf
<1>4. PICK e \in RunEdges(f, val, quiet) :
        e[1] = b /\ j \in ReachableFrom(Blocks(f), RunEdges(f, val, quiet), e[2])
  BY <1>2, <1>3, ReachFirstStep
<1>5. Leads(f, val, quiet, e[2])
  BY <1>1, <1>4 DEF Leads
<1>6. PICK k \in DOMAIN f.blocks[b].to :
        /\ f.blocks[b].to[k] = e[2]
        /\ f.blocks[b].cond.pred \notin {"none", "opaque"} =>
             Passes(f.blocks[b].cond, k = 1, val[f.blocks[b].cond.var])
  BY <1>4 DEF RunEdges, EdgesWith
<1> QED BY <1>5, <1>6 DEF MayTake

\* next has all of w but its first, all of x, and nothing else.
Kept(w, x, next) ==
  /\ \A i \in DOMAIN next : \/ \E j \in DOMAIN w : next[i] = w[j]
                            \/ \E j \in DOMAIN x : next[i] = x[j]
  /\ \A i \in DOMAIN w : i # 1 => \E j \in DOMAIN next : next[j] = w[i]
  /\ \A i \in DOMAIN x : \E j \in DOMAIN next : next[j] = x[i]

(* Taking the first state from the worklist and adding others at its end   *)
(* loses no other state.                                                   *)
LEMMA RoundKeeps ==
  ASSUME NEW f, NEW w \in Seq(PathStates(f)), w # << >>,
         NEW x \in Seq(PathStates(f)), NEW next, next = Tail(w) \o x
  PROVE  /\ next \in Seq(PathStates(f))
         /\ Kept(w, x, next)
<1> DEFINE S == PathStates(f)
<1> HIDE DEF S
<1>0. w \in Seq(S) /\ x \in Seq(S)
  BY DEF S
<1>1. Tail(w) \in Seq(S) /\ Len(Tail(w)) = Len(w) - 1 /\ Len(w) \in Nat \ {0} /\ Len(x) \in Nat
  BY <1>0
<1>2. \A i \in 1 .. Len(w) - 1 : Tail(w)[i] = w[i + 1]
  BY <1>0
<1> DEFINE t == Tail(w)
           n == Len(w) - 1
<1>3. next = t \o x /\ t \in Seq(S) /\ Len(t) = n /\ n \in Nat
  BY <1>1
<1> HIDE DEF t
<1>4. /\ next \in Seq(S) /\ Len(next) = n + Len(x)
      /\ \A i \in 1 .. n : next[i] = t[i]
      /\ \A i \in 1 .. Len(x) : next[n + i] = x[i]
  BY <1>0, <1>3
<1>5. ASSUME NEW i \in DOMAIN next
      PROVE  (\E j \in DOMAIN w : next[i] = w[j]) \/ (\E j \in DOMAIN x : next[i] = x[j])
  <2>0. i \in 1 .. n + Len(x)
    BY <1>4
  <2>1. CASE i <= n
    <3>1. i + 1 \in DOMAIN w /\ next[i] = w[i + 1]
      BY <1>0, <1>1, <1>2, <1>4, <2>0, <2>1 DEF t
    <3> QED BY <3>1
  <2>2. CASE i > n
    <3>1. i - n \in 1 .. Len(x)
      BY <1>1, <1>3, <2>0, <2>2
    <3>2. next[n + (i - n)] = x[i - n] /\ n + (i - n) = i
      BY <1>3, <1>4, <3>1, <2>0
    <3> QED BY <1>0, <3>1, <3>2
  <2> QED BY <1>3, <2>0, <2>1, <2>2
<1>6. ASSUME NEW i \in DOMAIN w, i # 1
      PROVE  \E j \in DOMAIN next : next[j] = w[i]
  <2>1. i \in 1 .. Len(w)
    BY <1>0
  <2>2. i - 1 \in 1 .. n /\ (i - 1) + 1 = i
    BY <1>1, <1>6, <2>1
  <2>3. i - 1 \in DOMAIN next
    BY <1>1, <1>3, <1>4, <2>2
  <2>4. next[i - 1] = w[i]
    BY <1>2, <1>4, <2>2 DEF t
  <2> QED BY <2>3, <2>4
<1>7. ASSUME NEW i \in DOMAIN x PROVE \E j \in DOMAIN next : next[j] = x[i]
  <2>1. i \in 1 .. Len(x)
    BY <1>0
  <2>2. n + i \in DOMAIN next
    BY <1>1, <1>3, <1>4, <2>1
  <2> QED BY <1>4, <2>1, <2>2
<1> QED BY <1>4, <1>5, <1>6, <1>7 DEF S, Kept

LEMMA RoundFollows ==
  ASSUME NEW f, NEW w \in Seq(PathStates(f)), w # << >>, NEW x \in Seq(PathStates(f)),
         NEW next, next = Tail(w) \o x
  PROVE  /\ Clean(f, w) /\ Clean(f, x) => Clean(f, next)
         /\ \A val, quiet : Carried(f, w, val, quiet) =>
                              Carried(f, next, val, quiet) \/ Carries(f, w[1], val, quiet)
         /\ \A val, quiet : Carried(f, x, val, quiet) => Carried(f, next, val, quiet)
<1>1. Kept(w, x, next)
  BY RoundKeeps
<1>2. Clean(f, w) /\ Clean(f, x) => Clean(f, next)
  BY <1>1 DEF Clean, Kept
<1>3. ASSUME NEW val, NEW quiet, Carried(f, w, val, quiet)
      PROVE  Carried(f, next, val, quiet) \/ Carries(f, w[1], val, quiet)
  <2>1. PICK i \in DOMAIN w : Carries(f, w[i], val, quiet)
    BY <1>3 DEF Carried
  <2> QED BY <1>1, <2>1 DEF Carried, Kept
<1>4. ASSUME NEW val, NEW quiet, Carried(f, x, val, quiet)
      PROVE  Carried(f, next, val, quiet)
  <2>1. PICK i \in DOMAIN x : Carries(f, x[i], val, quiet)
    BY <1>4 DEF Carried
  <2> QED BY <1>1, <2>1 DEF Carried, Kept
<1> QED BY <1>2, <1>3, <1>4

(* A clean path goes on from a block without a recursive call.             *)
LEMMA CleanGoesOn ==
  ASSUME NEW f, FunctionOK(f), NEW b \in Blocks(f), b \in CleanBlocks(f), ~f.blocks[b].recursive,
         NEW k \in DOMAIN f.blocks[b].to
  PROVE  f.blocks[b].to[k] \in CleanBlocks(f)
<1>1. f.blocks[b].to[k] \in Blocks(f)
  BY DEF FunctionOK
<1>2. <<b, f.blocks[b].to[k]>> \in EdgesPast(f, RecursiveBlocks(f))
  BY <1>1 DEF EdgesPast, EdgesOf, SuccessorsOf, RecursiveBlocks
<1> QED BY <1>1, <1>2, ReachLastStep DEF CleanBlocks

(* Where a recursive block dominates every return, no run returns without  *)
(* a recursive call.                                                       *)
LEMMA DominatedHasNoBaseCase ==
  ASSUME NEW f, DetectByDominance(f)
  PROVE  ~HasBaseCase(f)
<1> SUFFICES ASSUME NEW val \in [Vars -> Values],
                    ReturnsReached(f, val, RecursiveBlocks(f)) # {}
             PROVE  FALSE
  BY DEF HasBaseCase
<1> DEFINE E == {e \in EdgesWith(f, val) : e[1] \notin RecursiveBlocks(f)}
<1>1. PICK j : j \in ReachableFrom(Blocks(f), E, Entry) /\ j \in Returns(f) \ RecursiveBlocks(f)
  BY DEF ReturnsReached
<1>2. PICK a \in RecursiveBlocks(f) : Dominates(f, a, j)
  BY <1>1 DEF DetectByDominance
<1>3. E \subseteq EdgesPast(f, {a})
  BY DEF EdgesWith, EdgesPast
<1>4. j \in ReachableFrom(Blocks(f), EdgesPast(f, {a}), Entry)
  BY <1>1, <1>3, ReachMonotone
<1> QED BY <1>1, <1>2, <1>4 DEF Dominates

(* The runs of HasBaseCase and CanReturn are those that lead from the      *)
(* entry to a return.                                                      *)
LEMMA RunsFromEntry ==
  ASSUME NEW f
  PROVE  /\ HasBaseCase(f) <=> \E val \in [Vars -> Values] : Leads(f, val, TRUE, Entry)
         /\ CanReturn(f) <=> \E val \in [Vars -> Values] : Leads(f, val, FALSE, Entry)
<1>1. \A val : Leads(f, val, TRUE, Entry) <=> ReturnsReached(f, val, RecursiveBlocks(f)) # {}
  BY DEF Leads, RunEdges, Avoided, ReturnsReached
<1>2. \A val : Leads(f, val, FALSE, Entry) <=> ReturnsReached(f, val, {}) # {}
  BY DEF Leads, RunEdges, Avoided, ReturnsReached
<1> QED BY <1>1, <1>2 DEF HasBaseCase, CanReturn

(* Every value fits the ranges the search begins with.                     *)
LEMMA FreeFits ==
  ASSUME NEW f, FunctionOK(f), NEW val \in [Vars -> Values]
  PROVE  Fits(f, val, [v \in Vars |-> Free])
<1>1. Half \in Nat \ {0} /\ NoLower \in Int /\ NoLower < -(2 * Half)
        /\ NoUpper \in Int /\ NoUpper > 2 * Half
  BY Sizes
<1>2. Free \in [lower : Int, upper : Int] /\ Free.lower = NoLower /\ Free.upper = NoUpper
  BY <1>1 DEF Free
<1>3. ASSUME NEW v \in Vars
      PROVE  Within(Reading(f, v, val[v]), Free) /\ RangeOK(Free, ReadUnsigned(f, v))
  <2>1. val[v] \in Values
    OBVIOUS
  <2> DEFINE n == Reading(f, v, val[v])
  <2>2. n \in Int /\ -(2 * Half) <= n /\ n < 2 * Half
    BY <2>1, ReadingType
  <2> HIDE DEF n
  <2>3. Within(n, Free)
    BY <1>1, <1>2, <2>2 DEF Within
  <2> QED BY <1>2, <2>3 DEF RangeOK, n
<1>4. [v \in Vars |-> Free] \in Ranges
  BY <1>2 DEF Ranges
<1> QED BY <1>3, <1>4 DEF Fits

-----------------------------------------------------------------------------
\* The invariant holds.

LEMMA RecInitHolds ==
  ASSUME ComponentInputs, RecInit
  PROVE  RecIInv
<1>1. PICK i \in Components : component = i[1]
  BY DEF RecInit
<1>2. /\ DOMAIN component = 1 .. Len(component) /\ Len(component) \in Nat \ {0}
      /\ \A k \in DOMAIN component : FunctionOK(component[k])
  BY <1>1 DEF ComponentInputs
<1>3. member = 1 /\ phase = "member" /\ sawAnyRecursivePath \in BOOLEAN
  BY DEF RecInit
<1>4. ComponentOK
  BY <1>2, <1>3 DEF ComponentOK
<1>5. Passed = {}
  BY <1>2, <1>3 DEF Passed
<1> QED BY <1>3, <1>4, <1>5 DEF RecIInv, WorklistOK, RunsAreFollowed, PassedAreRight

(* A verdict: what it needs is that a function that is passed has no base  *)
(* case.                                                                   *)
LEMMA JudgeStep ==
  ASSUME RecIInv, NEW v \in BOOLEAN, Judge(v), UNCHANGED <<component, skipped>>,
         v /\ ~skipped /\ UniformlyCompared(Fn) => ~HasBaseCase(Fn),
         phase # "done"
  PROVE  RecIInv'
<1>0. ComponentOK /\ PassedAreRight
  BY DEF RecIInv
<1>1. CASE v /\ member < Len(component)
  <2>1. phase' = "member" /\ member' = member + 1 /\ flagged' = flagged
          /\ sawAnyRecursivePath' \in BOOLEAN
    BY <1>1 DEF Judge
  <2>2. ComponentOK'
    BY <1>0, <1>1, <2>1 DEF ComponentOK
  <2>3. \A k \in Passed' : k \in Passed \/ k = member
    BY <1>0, <2>1 DEF Passed, ComponentOK
  <2>4. PassedAreRight'
    BY <1>0, <1>1, <2>3 DEF PassedAreRight, Fn
  <2> QED BY <2>1, <2>2, <2>4 DEF RecIInv, WorklistOK, RunsAreFollowed
<1>2. CASE ~(v /\ member < Len(component))
  <2>1. phase' = "done" /\ flagged' = v /\ member' = member
          /\ sawAnyRecursivePath' \in BOOLEAN
    BY <1>2 DEF Judge
  <2>2. ComponentOK'
    BY <1>0, <2>1 DEF ComponentOK
  <2>3. \A k \in Passed' : k \in Passed \/ (k = member /\ v)
    BY <1>0, <1>2, <2>1 DEF Passed, ComponentOK
  <2>4. PassedAreRight'
    BY <1>0, <2>3 DEF PassedAreRight, Fn
  <2> QED BY <2>1, <2>2, <2>4 DEF RecIInv, WorklistOK, RunsAreFollowed
<1> QED BY <1>1, <1>2

(* A round that replaces the first state by those of x: what it needs is   *)
(* that the runs the first state stood for go on with x.                   *)
LEMMA RoundStep ==
  ASSUME RecIInv, Searching, UNCHANGED <<component, member, phase, flagged>>,
         NEW x \in Seq(PathStates(Fn)), worklist' = Tail(worklist) \o x,
         Clean(Fn, x),
         skipped => skipped', sawAnyRecursivePath' \in {sawAnyRecursivePath, TRUE},
         ~skipped' /\ UniformlyCompared(Fn) =>
           \A val \in [Vars -> Values], quiet \in BOOLEAN :
             Carries(Fn, worklist[1], val, quiet) =>
               Carried(Fn, x, val, quiet) \/ (~quiet /\ sawAnyRecursivePath')
  PROVE  RecIInv'
<1>0. ComponentOK /\ WorklistOK /\ RunsAreFollowed /\ PassedAreRight
  BY DEF RecIInv
<1>1. phase = "search" /\ worklist # << >> /\ worklist \in Seq(PathStates(Fn)) /\ Clean(Fn, worklist)
  BY <1>0 DEF Searching, WorklistOK
<1>2. Fn' = Fn
  BY DEF Fn
<1>3. worklist' \in Seq(PathStates(Fn))
  BY <1>1, RoundKeeps
<1>4. /\ Clean(Fn, worklist')
      /\ \A val, quiet : Carried(Fn, worklist, val, quiet) =>
                           Carried(Fn, worklist', val, quiet) \/ Carries(Fn, worklist[1], val, quiet)
      /\ \A val, quiet : Carried(Fn, x, val, quiet) => Carried(Fn, worklist', val, quiet)
  BY <1>1, RoundFollows
<1>5. ComponentOK'
  BY <1>0 DEF ComponentOK
<1>6. WorklistOK'
  BY <1>2, <1>3, <1>4 DEF WorklistOK
<1>7. RunsAreFollowed'
  <2> SUFFICES ASSUME ~skipped', UniformlyCompared(Fn), NEW val \in [Vars -> Values],
                      NEW quiet \in BOOLEAN, Leads(Fn, val, quiet, Entry)
               PROVE  Carried(Fn, worklist', val, quiet) \/ (~quiet /\ sawAnyRecursivePath')
    BY <1>2 DEF RunsAreFollowed
  <2>1. Carried(Fn, worklist, val, quiet) \/ (~quiet /\ sawAnyRecursivePath)
    BY <1>0, <1>1 DEF RunsAreFollowed
  <2>2. sawAnyRecursivePath => sawAnyRecursivePath'
    BY <1>0 DEF ComponentOK
  <2> QED BY <1>4, <2>1, <2>2
<1>8. PassedAreRight'
  BY <1>0 DEF PassedAreRight, Passed
<1> QED BY <1>5, <1>6, <1>7, <1>8 DEF RecIInv

LEMMA HeadOfWorklist ==
  ASSUME RecIInv, Searching
  PROVE  /\ Current = worklist[1] /\ Current \in PathStates(Fn) /\ FunctionOK(Fn)
         /\ ~Current.sawRecursiveCall => Current.block \in CleanBlocks(Fn)
<1>1. worklist \in Seq(PathStates(Fn)) /\ worklist # << >> /\ Clean(Fn, worklist)
  BY DEF RecIInv, WorklistOK, Searching
<1> DEFINE S == PathStates(Fn)
<1>2. 1 \in DOMAIN worklist /\ worklist[1] \in S /\ Head(worklist) = worklist[1]
  <2> HIDE DEF S
  <2>1. worklist \in Seq(S) /\ worklist # << >>
    BY <1>1 DEF S
  <2> QED BY <2>1
<1>3. FunctionOK(Fn)
  BY DEF RecIInv, ComponentOK, Fn
<1> QED BY <1>1, <1>2, <1>3 DEF Current, Clean

(* The states a round adds: where a block without a recursive call leads,  *)
(* a clean path stays clean.                                               *)
LEMMA NextStates ==
  ASSUME RecIInv, Searching, NEW k \in DOMAIN Here.to, NEW ranges \in Ranges
  PROVE  /\ NextState(Here.to[k], ranges) \in PathStates(Fn)
         /\ NextState(Here.to[k], ranges).block = Here.to[k]
         /\ NextState(Here.to[k], ranges).ranges = ranges
         /\ NextState(Here.to[k], ranges).sawRecursiveCall = SawHere
         /\ ~SawHere => Here.to[k] \in CleanBlocks(Fn)
<1>1. /\ Current \in PathStates(Fn) /\ FunctionOK(Fn)
      /\ ~Current.sawRecursiveCall => Current.block \in CleanBlocks(Fn)
  BY HeadOfWorklist
<1>2. Current.block \in Blocks(Fn) /\ Current.depth \in Nat /\ Current.sawRecursiveCall \in BOOLEAN
  BY <1>1 DEF PathStates
<1>3. Here.to[k] \in Blocks(Fn) /\ Here.recursive \in BOOLEAN
  BY <1>1, <1>2 DEF FunctionOK, Here
<1>4. SawHere \in BOOLEAN
  BY <1>2, <1>3 DEF SawHere
<1>5. ~SawHere => Here.to[k] \in CleanBlocks(Fn)
  BY <1>1, <1>2, CleanGoesOn DEF SawHere, Here
<1> QED BY <1>2, <1>3, <1>4, <1>5 DEF NextState, PathState, PathStates

(* A quiet run that the first state stands for sees no recursive call in   *)
(* its block.                                                              *)
LEMMA QuietSeesNothing ==
  ASSUME RecIInv, Searching, NEW val, NEW quiet \in BOOLEAN, Carries(Fn, Current, val, quiet)
  PROVE  quiet => ~SawHere
<1>1. Current.block \in Blocks(Fn)
  BY HeadOfWorklist DEF PathStates
<1>2. Current.block \notin Avoided(Fn, quiet)
  BY <1>1, LeadsAvoids DEF Carries
<1> QED BY <1>1, <1>2 DEF Carries, SawHere, Here, Avoided, RecursiveBlocks

LEMMA FollowStep ==
  ASSUME RecIInv, Follow
  PROVE  RecIInv'
<1> DEFINE x == [k \in DOMAIN Here.to |-> NextState(Here.to[k], Current.ranges)]
<1>0. Searching /\ ~Here.returns /\ Here.cond.pred = "none"
  BY DEF Follow, Entered
<1>1. Current = worklist[1] /\ Current \in PathStates(Fn) /\ FunctionOK(Fn)
  BY <1>0, HeadOfWorklist
<1>2. Current.block \in Blocks(Fn) /\ Current.ranges \in Ranges
  BY <1>1 DEF PathStates
<1>3. Here.to \in Seq(Blocks(Fn))
  BY <1>1, <1>2 DEF FunctionOK, Here
<1>4. \A k \in DOMAIN Here.to : /\ x[k] \in PathStates(Fn) /\ x[k].block = Here.to[k]
                                /\ x[k].ranges = Current.ranges /\ x[k].sawRecursiveCall = SawHere
                                /\ ~SawHere => Here.to[k] \in CleanBlocks(Fn)
  BY <1>0, <1>2, NextStates
<1>5. DOMAIN x = DOMAIN Here.to /\ DOMAIN Here.to = 1 .. Len(Here.to) /\ Len(Here.to) \in Nat
  BY <1>3
<1>6. UNCHANGED <<component, member, phase, flagged, skipped, sawAnyRecursivePath>>
        /\ worklist' = Tail(worklist) \o x
  BY DEF Follow
<1> HIDE DEF x
<1>7. x \in Seq(PathStates(Fn))
  <2>1. x \in [1 .. Len(Here.to) -> PathStates(Fn)]
    BY <1>4, <1>5, <1>6 DEF x
  <2> QED BY <1>5, <2>1
<1>8. Clean(Fn, x)
  BY <1>4, <1>5 DEF Clean
<1>9. ASSUME NEW val \in [Vars -> Values], NEW quiet \in BOOLEAN, Carries(Fn, Current, val, quiet)
      PROVE  Carried(Fn, x, val, quiet)
  <2>1. PICK k \in DOMAIN Here.to : Leads(Fn, val, quiet, Here.to[k])
    BY <1>0, <1>2, <1>9, RunGoesOn DEF Carries, Here
  <2>2. quiet => ~SawHere
    BY <1>0, <1>9, QuietSeesNothing
  <2>3. Carries(Fn, x[k], val, quiet)
    BY <1>4, <1>9, <2>1, <2>2 DEF Carries
  <2> QED BY <1>5, <2>3 DEF Carried
<1> QED BY <1>0, <1>1, <1>6, <1>7, <1>8, <1>9, RoundStep

(* A branch keeps both edges that some run takes: its ranges allow the     *)
(* edge, and no solver refutes it.                                         *)
LEMMA BranchStep ==
  ASSUME RecIInv, Branch
  PROVE  RecIInv'
<1> DEFINE At(k) == EdgeRanges(Current.ranges, Here.cond, k = 1)
           open == {k \in 1 .. 2 : ~Contradictory(At(k))}
<1>0. Searching /\ ~Here.returns /\ Here.cond.pred # "none"
  BY DEF Branch, Entered
<1>1. Current = worklist[1] /\ Current \in PathStates(Fn) /\ FunctionOK(Fn)
  BY <1>0, HeadOfWorklist
<1>2. Current.block \in Blocks(Fn) /\ Current.ranges \in Ranges
  BY <1>1 DEF PathStates
<1>3. Here = Fn.blocks[Current.block] /\ DOMAIN Here.to = {1, 2} /\ CondOK(Here.cond)
  BY <1>0, <1>1, <1>2 DEF FunctionOK, Here
<1>4. PICK answer \in [open -> {"Sat", "Unsat"}] :
        /\ \A k \in open : answer[k] \in IsSatisfiable(At(k), Here.cond, k = 1)
        /\ LET taken == {k \in open : answer[k] = "Sat"}
               Pushed(k) == IF k \in taken THEN <<NextState(Here.to[k], At(k))>> ELSE << >>
           IN  worklist' = Tail(worklist) \o Pushed(1) \o Pushed(2)
  BY DEF Branch
<1> DEFINE taken == {k \in open : answer[k] = "Sat"}
           Pushed(k) == IF k \in taken THEN <<NextState(Here.to[k], At(k))>> ELSE << >>
           x == Pushed(1) \o Pushed(2)
<1>5. ASSUME NEW k \in {1, 2}
      PROVE  /\ NextState(Here.to[k], At(k)) \in PathStates(Fn)
             /\ NextState(Here.to[k], At(k)).block = Here.to[k]
             /\ NextState(Here.to[k], At(k)).ranges = At(k)
             /\ NextState(Here.to[k], At(k)).sawRecursiveCall = SawHere
             /\ ~SawHere => Here.to[k] \in CleanBlocks(Fn)
  <2>1. At(k) \in Ranges
    BY <1>0, <1>2, <1>3, EdgeRangesType
  <2> QED BY <1>0, <1>3, <2>1, NextStates
<1> HIDE DEF taken, At
<1>6. \A k \in {1, 2} : Pushed(k) \in Seq(PathStates(Fn)) /\ Clean(Fn, Pushed(k))
  BY <1>5 DEF Clean
<1>7. x \in Seq(PathStates(Fn)) /\ Clean(Fn, x)
  <2> DEFINE p == Pushed(1)
             q == Pushed(2)
  <2>1. p \in Seq(PathStates(Fn)) /\ Clean(Fn, p) /\ q \in Seq(PathStates(Fn)) /\ Clean(Fn, q)
    BY <1>6
  <2> HIDE DEF Pushed, p, q
  <2>2. x = p \o q
    BY DEF p, q
  <2> HIDE DEF x
  <2>3. /\ x \in Seq(PathStates(Fn))
        /\ Len(x) = Len(p) + Len(q)
        /\ \A i \in 1 .. Len(p) + Len(q) : x[i] = IF i <= Len(p) THEN p[i] ELSE q[i - Len(p)]
    BY <2>1, <2>2, ConcatProperties
  <2>4. ASSUME NEW i \in DOMAIN x, ~x[i].sawRecursiveCall PROVE x[i].block \in CleanBlocks(Fn)
    <3>1. i \in 1 .. Len(p) + Len(q) /\ Len(p) \in Nat /\ Len(q) \in Nat
      BY <2>1, <2>3
    <3>2. CASE i <= Len(p)
      <4>1. i \in DOMAIN p /\ x[i] = p[i]
        BY <2>1, <2>3, <3>1, <3>2
      <4> QED BY <2>1, <2>4, <4>1 DEF Clean
    <3>3. CASE i > Len(p)
      <4>1. i - Len(p) \in DOMAIN q /\ x[i] = q[i - Len(p)]
        BY <2>1, <2>3, <3>1, <3>3
      <4> QED BY <2>1, <2>4, <4>1 DEF Clean
    <3> QED BY <3>1, <3>2, <3>3
  <2> QED BY <2>3, <2>4 DEF Clean
<1>8. ASSUME NEW k \in taken
      PROVE  \E i \in DOMAIN x : x[i] = NextState(Here.to[k], At(k))
  <2>1. k \in {1, 2}
    BY DEF taken
  <2>2. CASE k = 1
    <3>1. Pushed(1) = <<NextState(Here.to[1], At(1))>>
      BY <2>2
    <3>2. Pushed(2) \in Seq(PathStates(Fn)) /\ Pushed(1) \in Seq(PathStates(Fn))
      BY <1>6
    <3> DEFINE q == Pushed(2)
               s == NextState(Here.to[1], At(1))
    <3>3. x = <<s>> \o q /\ q \in Seq(PathStates(Fn)) /\ s \in PathStates(Fn)
      BY <1>5, <3>1, <3>2
    <3> HIDE DEF q, s, x, Pushed
    <3>4. 1 \in DOMAIN x /\ x[1] = s
      BY <3>3
    <3> QED BY <2>2, <3>4 DEF s
  <2>3. CASE k = 2
    <3>1. Pushed(2) = <<NextState(Here.to[2], At(2))>>
      BY <2>3
    <3>2. Pushed(1) \in Seq(PathStates(Fn))
      BY <1>6
    <3> DEFINE q == Pushed(1)
               s == NextState(Here.to[2], At(2))
    <3>3. x = q \o <<s>> /\ q \in Seq(PathStates(Fn)) /\ s \in PathStates(Fn)
      BY <1>5, <3>1, <3>2
    <3> HIDE DEF q, s, x, Pushed
    <3>4. Len(q) + 1 \in DOMAIN x /\ x[Len(q) + 1] = s
      BY <3>3
    <3> QED BY <2>3, <3>4 DEF s
  <2> QED BY <2>1, <2>2, <2>3
<1>9. worklist' = Tail(worklist) \o x
  <2>1. worklist \in Seq(PathStates(Fn)) /\ worklist # << >>
    BY <1>0 DEF RecIInv, WorklistOK, Searching
  <2>2. Tail(worklist) \in Seq(PathStates(Fn))
    BY <2>1
  <2>3. worklist' = (Tail(worklist) \o Pushed(1)) \o Pushed(2)
    BY <1>4 DEF taken, At
  <2>4. Pushed(1) \in Seq(PathStates(Fn)) /\ Pushed(2) \in Seq(PathStates(Fn))
    BY <1>6
  <2> HIDE DEF Pushed
  <2> QED BY <2>2, <2>3, <2>4, ConcatAssociative
<1>10. ASSUME UniformlyCompared(Fn), NEW val \in [Vars -> Values], NEW quiet \in BOOLEAN,
              Carries(Fn, Current, val, quiet)
       PROVE  Carried(Fn, x, val, quiet)
  <2>1. PICK k \in {1, 2} : Leads(Fn, val, quiet, Here.to[k]) /\ MayTake(Here.cond, k = 1, val)
    BY <1>0, <1>2, <1>3, <1>10, RunGoesOn DEF Carries
  <2>2. quiet => ~SawHere
    BY <1>0, <1>10, QuietSeesNothing
  <2>3. Fits(Fn, val, Current.ranges)
    BY <1>10 DEF Carries
  <2>4. Fits(Fn, val, At(k))
    BY <1>0, <1>1, <1>2, <1>3, <1>10, <2>1, <2>3, EdgeFits DEF At
  <2>5. k \in open
    BY <1>1, <2>4, FitsIsConsistent
  <2>6. QueryFeasible(At(k), Here.cond, k = 1)
    BY <1>0, <1>1, <1>2, <1>3, <1>10, <2>1, <2>4, QueryOfTakenEdge
  <2>7. answer[k] \in IsSatisfiable(At(k), Here.cond, k = 1)
    BY <1>4, <2>5 DEF At
  <2>8. answer[k] = "Sat"
    <3>1. \A s \in EvaluateQuery(smt, QueryFeasible(At(k), Here.cond, k = 1), FALSE) : s # "Infeasible"
      BY <2>6, FeasibleNeverInfeasible
    <3> QED BY <2>7, <3>1 DEF IsSatisfiable
  <2>9. k \in taken
    BY <2>5, <2>8 DEF taken
  <2>10. PICK i \in DOMAIN x : x[i] = NextState(Here.to[k], At(k))
    BY <1>8, <2>9
  <2> HIDE DEF x
  <2>11. Carries(Fn, x[i], val, quiet)
    BY <1>5, <2>1, <2>2, <2>4, <2>10 DEF Carries
  <2> QED BY <2>10, <2>11 DEF Carried
<1>11. UNCHANGED <<component, member, phase, flagged, skipped, sawAnyRecursivePath>>
  BY DEF Branch
<1> HIDE DEF x
<1> QED BY <1>0, <1>1, <1>7, <1>9, <1>10, <1>11, RoundStep

(* A round that only drops its state, because it was visited too often or  *)
(* because it returns after a recursive call.                              *)
LEMMA DropStep ==
  ASSUME RecIInv, Searching, UNCHANGED <<component, member, phase, flagged>>,
         worklist' = Tail(worklist),
         skipped => skipped', sawAnyRecursivePath' \in {sawAnyRecursivePath, TRUE},
         skipped' \/ (SawHere /\ sawAnyRecursivePath')
  PROVE  RecIInv'
<1>1. worklist \in Seq(PathStates(Fn)) /\ worklist # << >>
  BY DEF RecIInv, WorklistOK, Searching
<1>2. << >> \in Seq(PathStates(Fn)) /\ worklist' = Tail(worklist) \o << >>
  BY <1>1, ConcatEmptySeq
<1>3. Clean(Fn, << >>)
  BY DEF Clean
<1>4. ASSUME ~skipped', NEW val, NEW quiet \in BOOLEAN, Carries(Fn, worklist[1], val, quiet)
      PROVE  ~quiet /\ sawAnyRecursivePath'
  BY <1>4, HeadOfWorklist, QuietSeesNothing
<1> QED BY <1>2, <1>3, <1>4, RoundStep

LEMMA BeginStep ==
  ASSUME RecIInv, BeginSearch
  PROVE  RecIInv'
<1>0. ComponentOK /\ PassedAreRight /\ FunctionOK(Fn)
  BY DEF RecIInv, ComponentOK, Fn
<1> DEFINE s == PathState(Entry, [v \in Vars |-> Free], 0, FALSE)
<1>1. phase' = "search" /\ worklist' = <<s>> /\ phase = "member"
        /\ UNCHANGED <<component, member, flagged, skipped>>
        /\ sawAnyRecursivePath' \in BOOLEAN
  BY DEF BeginSearch
<1>2. Fn' = Fn
  BY <1>1 DEF Fn
<1>3. s \in PathStates(Fn)
  <2>1. Free \in [lower : Int, upper : Int]
    BY Sizes DEF Free
  <2> QED BY <1>0, <2>1 DEF PathState, PathStates, FunctionOK, Ranges
<1>4. s.block = Entry /\ s.ranges = [v \in Vars |-> Free] /\ s.sawRecursiveCall = FALSE
  BY DEF PathState
<1> HIDE DEF s
<1>5. Entry \in CleanBlocks(Fn)
  BY <1>0 DEF FunctionOK, CleanBlocks, ReachableFrom
<1>6. worklist' \in Seq(PathStates(Fn)) /\ DOMAIN worklist' = {1} /\ worklist'[1] = s
  BY <1>1, <1>3
<1>7. WorklistOK'
  BY <1>2, <1>4, <1>5, <1>6 DEF WorklistOK, Clean
<1>8. RunsAreFollowed'
  <2> SUFFICES ASSUME NEW val \in [Vars -> Values], NEW quiet \in BOOLEAN,
                      Leads(Fn, val, quiet, Entry)
               PROVE  Carried(Fn, worklist', val, quiet)
    BY <1>2 DEF RunsAreFollowed
  <2>1. Carries(Fn, s, val, quiet)
    BY <1>0, <1>4, FreeFits DEF Carries
  <2> QED BY <1>6, <2>1 DEF Carried
<1>9. ComponentOK' /\ PassedAreRight'
  BY <1>0, <1>1 DEF ComponentOK, PassedAreRight, Passed
<1> QED BY <1>7, <1>8, <1>9 DEF RecIInv

LEMMA RecNextHolds ==
  ASSUME RecIInv, [RecNext]_recVars
  PROVE  RecIInv'
<1>1. CASE RejectMember
  BY <1>1, JudgeStep DEF RejectMember
<1>2. CASE Dominated
  BY <1>2, JudgeStep, DominatedHasNoBaseCase DEF Dominated
<1>3. CASE BeginSearch
  BY <1>3, BeginStep
<1>4. CASE GiveUp
  BY <1>4, JudgeStep DEF GiveUp, Searching
<1>5. CASE SkipVisited
  BY <1>5, DropStep DEF SkipVisited
<1>6. CASE FindBaseCase
  BY <1>6, JudgeStep DEF FindBaseCase, Entered, Searching
<1>7. CASE ReturnAfterRecursion
  BY <1>7, DropStep DEF ReturnAfterRecursion, Entered
<1>8. CASE Branch
  BY <1>8, BranchStep
<1>9. CASE Follow
  BY <1>9, FollowStep
<1>10. CASE Exhausted
  <2>1. phase = "search" /\ worklist = << >> /\ Judge(sawAnyRecursivePath)
          /\ UNCHANGED <<component, skipped>>
    BY <1>10 DEF Exhausted
  <2>2. ~skipped /\ UniformlyCompared(Fn) => ~HasBaseCase(Fn)
    <3>1. \A val, quiet : ~Carried(Fn, worklist, val, quiet)
      BY <2>1 DEF Carried
    <3>2. ~skipped /\ UniformlyCompared(Fn) => \A val \in [Vars -> Values] : ~Leads(Fn, val, TRUE, Entry)
      BY <2>1, <3>1 DEF RecIInv, RunsAreFollowed
    <3> QED BY <3>2, RunsFromEntry
  <2>3. CASE sawAnyRecursivePath = TRUE
    BY <2>1, <2>2, <2>3, JudgeStep
  <2>4. CASE sawAnyRecursivePath = FALSE
    BY <2>1, <2>2, <2>4, JudgeStep
  <2> QED BY <2>3, <2>4 DEF RecIInv, ComponentOK
<1>11. CASE RecOver \/ UNCHANGED recVars
  <2>1. UNCHANGED <<component, member, phase, worklist, sawAnyRecursivePath, flagged, skipped>>
    BY <1>11 DEF RecOver, recVars, search
  <2>2. Fn' = Fn
    BY <2>1 DEF Fn
  <2> QED BY <2>1, <2>2 DEF RecIInv, ComponentOK, WorklistOK, RunsAreFollowed, PassedAreRight, Passed
<1> QED
  BY <1>1, <1>2, <1>3, <1>4, <1>5, <1>6, <1>7, <1>8, <1>9, <1>10, <1>11 DEF RecNext

-----------------------------------------------------------------------------
\* The search of hasFeasibleNonRecursiveReturnPath, where variables are compared as one
\* number each, keeps every run that can still return until a verdict, or has recorded
\* that the visit limit dropped one.
THEOREM SearchKeepsEveryRun ==
  ASSUME ComponentInputs
  PROVE  RecSpec => []RecIInv
<1>1. RecInit => RecIInv
  BY RecInitHolds
<1>2. RecIInv /\ [RecNext]_recVars => RecIInv'
  BY RecNextHolds
<1> QED BY <1>1, <1>2, PTL DEF RecSpec

\* detectInfiniteRecursionComponent flags a component, whatever the SMT options and
\* whichever back ends fail, only if no function of it has a base case, unless the
\* visit limit dropped a path or a variable is compared as different numbers, with
\* mixed signs or through casts that differ.
THEOREM FlaggedComponentsRecurse ==
  ASSUME ComponentInputs
  PROVE  RecSpec => []FlaggedHasNoBaseCase
<1>1. RecIInv => FlaggedHasNoBaseCase
  BY DEF RecIInv, PassedAreRight, Passed, FlaggedHasNoBaseCase
<1> QED BY <1>1, SearchKeepsEveryRun, PTL

\* A function that always recurses before it returns is never taken to have a base
\* case by FindBaseCase, and where it can return at all, the search ends with
\* sawAnyRecursivePath set unless the visit limit dropped a path.
THEOREM EndlessRecursionIsSeen ==
  ASSUME ComponentInputs
  PROVE  RecSpec => []RecursionIsFlagged
<1>1. RecIInv => RecursionIsFlagged
  <2> SUFFICES ASSUME RecIInv, phase = "search", UniformlyCompared(Fn), RecursesFirst(Fn),
                      CanReturn(Fn)
               PROVE  /\ Entered /\ Here.returns => SawHere
                      /\ worklist = << >> /\ ~skipped => sawAnyRecursivePath
    BY DEF RecursionIsFlagged
  <2>1. ASSUME Entered, Here.returns PROVE SawHere
    <3> SUFFICES ASSUME ~SawHere PROVE FALSE
      OBVIOUS
    <3>1. Current.block \in Blocks(Fn) /\ Current.block \in CleanBlocks(Fn)
      BY <2>1, HeadOfWorklist DEF PathStates, SawHere, Entered
    <3>2. Current.block \in Returns(Fn) \ RecursiveBlocks(Fn)
      BY <2>1, <3>1 DEF Returns, RecursiveBlocks, SawHere, Here
    <3> QED BY <3>1, <3>2 DEF RecursesFirst, CleanBlocks
  <2>2. ASSUME worklist = << >>, ~skipped PROVE sawAnyRecursivePath
    <3>1. PICK val \in [Vars -> Values] : Leads(Fn, val, FALSE, Entry)
      BY RunsFromEntry
    <3>2. ~Carried(Fn, worklist, val, FALSE)
      BY <2>2 DEF Carried
    <3> QED BY <2>2, <3>1, <3>2 DEF RecIInv, RunsAreFollowed
  <2> QED BY <2>1, <2>2
<1> QED BY <1>1, SearchKeepsEveryRun, PTL
=============================================================================
