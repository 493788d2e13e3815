--------------------------- MODULE MCPreparation ---------------------------
(***************************************************************************)
(* What ModulePreparationService does with a module's calls, on small      *)
(* instances: the component search with what is computed from it           *)
(* (Preparation), and the verdict on a recursive component                 *)
(* (RecursionCheck).  A behaviour is one or the other.                     *)
(***************************************************************************)
EXTENDS Preparation, RecursionCheck

-----------------------------------------------------------------------------
\* All dependency graphs of the modules; no module depends on itself.
MCModuleGraphs ==
  {[edges |-> E, contract |-> {}] :
     E \in SUBSET {e \in (1 .. Size) \X (1 .. Size) : e[1] # e[2]}}

\* Every call graph of the functions, self calls included.  In IR mode their frames
\* all differ and one, of a norecurse function, has an unknown size, or two are equal
\* and one is empty; in ABI mode no frame is empty.
AllModules ==
  {[calls |-> E, allocas |-> m[1], dynamic |-> m[2], contract |-> m[2], mode |-> m[3]] :
     E \in SUBSET (Fns \X Fns),
     m \in {<<<<1, 3, 7>>, {2}, "IR">>, <<<<0, 1, 2>>, {}, "IR">>, <<<<0, 2, 5>>, {}, "ABI">>}}

-----------------------------------------------------------------------------
CompareCast(cast, v, pred, c, left) ==
  [cast |-> cast, var |-> v, pred |-> pred, constant |-> c, valueIsOp0 |-> left]

Compare(v, pred, c, left) == CompareCast(NoCast, v, pred, c, left)
Opaque == Compare("x", "opaque", 0, TRUE)
NoCond == Compare("x", "none", 0, TRUE)

Block(rec, ret, to, cond) == [recursive |-> rec, returns |-> ret, to |-> to, cond |-> cond]
Function(blocks) == [blocks |-> blocks, declared |-> FALSE, contract |-> FALSE]

\* x is an SSA value, m a location.
Conds == {Compare("x", "SLT", 1, TRUE), Compare("x", "SLE", 0, FALSE), Compare("x", "EQ", 0, TRUE),
          Compare("x", "UGT", 0, TRUE), Compare("m", "SGE", 0, TRUE), Opaque}

Targets == {<<a, b>> \in (2 .. 4) \X (2 .. 4) : a # b}

\* Two branching blocks, the second possibly a loop and possibly recursive, over a
\* block that recurses and then returns, goes on or stops, and one that returns.
TwoBranches ==
  {Function(<<b1, b2, b3, Block(FALSE, TRUE, << >>, NoCond)>>) :
     b1 \in {Block(FALSE, FALSE, t, c) : t \in Targets, c \in Conds},
     b2 \in {Block(r, FALSE, t, c) : r \in BOOLEAN, t \in Targets, c \in Conds}
            \cup {Block(r, FALSE, t, NoCond) : r \in BOOLEAN, t \in {<< >>, <<3>>, <<3, 4>>}},
     b3 \in {Block(TRUE, ret, << >>, NoCond) : ret \in BOOLEAN}
            \cup {Block(TRUE, FALSE, <<4>>, NoCond)}}

Smt(enabled, mode, secondary) ==
  [enabled |-> enabled, mode |-> mode, primary |-> "z3", secondary |-> secondary]

\* Two comparisons one after the other, for all the SMT options.
Nested ==
  {Function(<<Block(FALSE, FALSE, <<2, 3>>, c), Block(FALSE, FALSE, <<3, 4>>, d),
              Block(TRUE, TRUE, << >>, NoCond), Block(r, TRUE, << >>, NoCond)>>) :
     r \in BOOLEAN, c, d \in Conds}

\* Two comparisons one after the other, each of a value or of a cast of it: extensions
\* of it, its lowest bit, and that bit extended.
Cast(low, signed, at) == [low |-> low, signed |-> signed, at |-> at]
ZExtCast == Cast(Width, FALSE, Widest)
SExtCast == Cast(Width, TRUE, Widest)
TruncCast == Cast(1, TRUE, 1)
LowBit == Cast(1, FALSE, Width)

CastConds ==
  {CompareCast(k[1], v, k[2], k[3], TRUE) :
     v \in Vars,
     k \in {<<NoCast, "SLT", 0>>, <<NoCast, "SGE", 1>>, <<SExtCast, "SGT", -1>>,
            <<SExtCast, "SLT", 3>>, <<ZExtCast, "SGT", 2>>, <<ZExtCast, "SLT", 1>>,
            <<ZExtCast, "ULT", 2>>, <<TruncCast, "SLT", 0>>, <<LowBit, "EQ", 1>>}}

Casted ==
  {Function(<<Block(FALSE, FALSE, t, c), Block(TRUE, TRUE, << >>, NoCond),
              Block(FALSE, FALSE, <<2, 4>>, d), Block(r, TRUE, << >>, NoCond)>>) :
     r \in BOOLEAN, t \in {<<2, 3>>, <<3, 2>>}, c, d \in CastConds}

\* Three blocks, for components of two functions.
Small ==
  {Function(<<Block(FALSE, FALSE, <<2, 3>>, c), Block(r, TRUE, << >>, NoCond),
              Block(TRUE, TRUE, << >>, NoCond)>>) : r \in BOOLEAN, c \in Conds}

Pairs ==
  {<<f, g>> : f \in Small, g \in Small}
    \cup {<<f, [g EXCEPT !.declared = d, !.contract = ~d]>> : f, g \in Small, d \in BOOLEAN}

\* n steps that may each be left out, the first of them when x is not negative, and a
\* base case for negative x: more paths meet in the last blocks than are visited.
Ladder(n) ==
  LET last == 2 * n + 1
      sign == Compare("x", "SGE", 0, TRUE)
  IN  Function([b \in 1 .. last + 2 |->
        IF b > last THEN Block(b = last + 1, TRUE, << >>, NoCond)
        ELSE IF b = last THEN Block(FALSE, FALSE, <<b + 1, b + 2>>, sign)
        ELSE IF b % 2 = 0 THEN Block(FALSE, FALSE, <<b + 1>>, NoCond)
        ELSE Block(FALSE, FALSE, <<b + 2, b + 1>>, IF b = 1 THEN sign ELSE Opaque)])

MCComponents ==
  {<<<<Ladder(n)>>, Smt(FALSE, "Single", "")>> : n \in 1 .. 3} \cup
  {<<<<f>>, s>> : f \in TwoBranches,
                  s \in {Smt(FALSE, "Single", ""), Smt(TRUE, "CrossCheck", "")}}
    \cup {<<<<f>>, Smt(TRUE, mode, second)>> :
            f \in Nested, mode \in Modes, second \in {"", "cvc5", "interval"}}
    \cup {<<<<f>>, Smt(enabled, "Single", "")>> : f \in Casted, enabled \in BOOLEAN}
    \cup {<<p, Smt(TRUE, mode, "")>> : p \in Pairs, mode \in {"Single", "DualConsensus"}}

-----------------------------------------------------------------------------
\* One of the two has nothing to do.

NoComponent ==
  /\ component = << >> /\ smt = Smt(FALSE, "Single", "")
  /\ member = 1 /\ phase = "idle"
  /\ worklist = << >> /\ visits = << >> /\ exploredStates = 0 /\ sawAnyRecursivePath = FALSE
  /\ flagged = FALSE /\ skipped = FALSE /\ refuted = FALSE

NoCalls ==
  /\ module = NoModule /\ graph = [edges |-> {}, contract |-> 1 .. Size]
  /\ Search!TarjanStart
  /\ Unvisited

MCInit == (PrepInit /\ NoComponent) \/ (RecInit /\ NoCalls)

MCNext == (PrepNext /\ UNCHANGED recVars) \/ (RecNext /\ UNCHANGED prepVars)

MCSpec == MCInit /\ [][MCNext]_<<prepVars, recVars>>
=============================================================================
