---------------------------- MODULE MCStackUsage ----------------------------
(***************************************************************************)
(* The module of the run on totals behind a cycle.                         *)
(***************************************************************************)
EXTENDS StackUsage

\* main (4) calls one function (2) of a cycle {1, 2} whose other function also
\* calls a function with a large frame (3).
CycleWithExit ==
  {[calls |-> {<<4, 2>>, <<2, 1>>, <<1, 2>>, <<1, 3>>}, allocas |-> <<2, 2, 8, 2>>,
    dynamic |-> {}, contract |-> {}, mode |-> "IR"]}

FourFns == {1, 2, 3, 4}
=============================================================================
