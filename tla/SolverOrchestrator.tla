------------------------- MODULE SolverOrchestrator -------------------------
(***************************************************************************)
(* How a feasibility question is put to the SMT back ends and how their    *)
(* answers become one decision: src/src/analysis/smt/SolverOrchestrator.cpp *)
(* and evaluateQuery of src/include/analysis/smt/SmtRefinement.hpp.        *)
(*                                                                         *)
(* A back end's answer is not determined by the question: a solver may run *)
(* out of time or memory.  An operator that involves one returns the set   *)
(* of its possible results.                                                *)
(***************************************************************************)
EXTENDS Sequences, Functions, Naturals

CONSTANT Z3Linked    \* the build has CTRACE_STACK_ENABLE_Z3_BACKEND

ASSUME SolverAssumption == Z3Linked \in BOOLEAN

Statuses == {"Sat", "Unsat", "Unknown", "Timeout", "Error"}

Modes == {"Single", "Portfolio", "CrossCheck", "DualConsensus"}

Unsure == {"Unknown", "Timeout", "Error"}

\* AnalysisConfig's SMT options; secondary is "" when it is not given.
SmtConfigs == [enabled : BOOLEAN, mode : Modes, primary : {"interval", "z3", "cvc5"},
               secondary : {"", "interval", "z3", "cvc5"}]

AppendBackendIfMissing(out, name) == IF name \in Range(out) THEN out ELSE Append(out, name)

\* Mutated ResolveBackends: an explicit secondary back end replaces the interval one.
ResolveBackendsAsGiven(config) ==
  IF config.secondary = "" \/ config.mode = "Single"
  THEN <<config.primary>>
  ELSE AppendBackendIfMissing(<<config.primary>>, config.secondary)

ResolveBackends(config) ==
  LET given == IF config.secondary = ""
               THEN <<config.primary>>
               ELSE AppendBackendIfMissing(<<config.primary>>, config.secondary)
  IN  CASE config.mode = "Single" -> <<config.primary>>
        [] config.mode = "CrossCheck" /\ config.secondary # "" -> given
        [] OTHER -> AppendBackendIfMissing(given, "interval")

\* IntervalBackend: Unsat if an interval of the query is empty.
SolveInterval(contradictory) == IF contradictory THEN "Unsat" ELSE "Sat"

\* Z3Backend: the truth, or Timeout (also for a query over the node budget), Unknown
\* (also for an expression it cannot build) or Error (an exception).
SolveZ3(feasible) == {IF feasible THEN "Sat" ELSE "Unsat"} \cup Unsure

\* What a back end may answer; one that the build does not have says Unknown.
Solve(backend, feasible, contradictory) ==
  CASE backend = "interval" -> {SolveInterval(contradictory)}
    [] backend = "z3" /\ Z3Linked -> SolveZ3(feasible)
    [] OTHER -> {"Unknown"}

\* The answers the strategy of the mode may collect.
Answers(config, feasible, contradictory) ==
  LET backends == ResolveBackends(config)
      Of(k) == Solve(backends[k], feasible, contradictory)
      all == {a \in [DOMAIN backends -> Statuses] : \A k \in DOMAIN backends : a[k] \in Of(k)}
  IN  CASE config.mode = "Single" -> {<<s>> : s \in Of(1)}
        [] config.mode = "CrossCheck" ->
             {IF a[1] \in Unsure /\ Len(a) >= 2 THEN <<a[1], a[2]>> ELSE <<a[1]>> : a \in all}
        [] OTHER -> all

AggregateStatuses(answers, mode) ==
  LET saw == Range(answers)
  IN  IF mode = "DualConsensus"
      THEN IF "Sat" \in saw THEN "Sat" ELSE IF saw = {"Unsat"} THEN "Unsat" ELSE "Unknown"
      ELSE IF {"Sat", "Unsat"} \subseteq saw THEN "Unknown"
      ELSE IF "Sat" \in saw THEN "Sat"
      ELSE IF "Unsat" \in saw THEN "Unsat"
      ELSE IF "Timeout" \in saw THEN "Timeout"
      ELSE IF "Error" \in saw THEN "Error" ELSE "Unknown"

\* Mutated Feasibility: a question nobody could answer counts as refuted.
FeasibilityPessimistic(status) == IF status = "Sat" THEN "Feasible" ELSE "Infeasible"

Feasibility(status) ==
  IF status = "Sat" THEN "Feasible" ELSE IF status = "Unsat" THEN "Infeasible" ELSE "Inconclusive"

\* evaluateQuery: without SMT for the rule, nothing is asked.
EvaluateQuery(config, feasible, contradictory) ==
  IF ~config.enabled
  THEN {"Inconclusive"}
  ELSE {Feasibility(AggregateStatuses(a, config.mode)) :
          a \in Answers(config, feasible, contradictory)}
=============================================================================
