---------------------------- MODULE RunContract ----------------------------
(***************************************************************************)
(* What a run of the analyzer promises its user: either it fails, naming   *)
(* the first input that could not be loaded, and prints nothing, or it     *)
(* prints one report on all inputs, in their order, each analysed with     *)
(* every index that was asked for; then it writes the same report as SARIF *)
(* if it should, and says so if it could not.  There are no threads here,  *)
(* no slots and no order in which inputs get ready.                        *)
(***************************************************************************)
EXTENDS Naturals

CONSTANT InputCount     \* the inputs are 0 .. InputCount - 1, in sorted order

VARIABLES
  loadable,   \* the inputs that can be loaded
  asked,      \* the indices to analyse with
  target,     \* of the SARIF report: "off", "writable" or "unwritable"
  printed,    \* the report on stdout, << >> if there is none
  filed,      \* the report in the file, << >> if there is none
  answer      \* the result of the run

contractVars == <<loadable, asked, target, printed, filed, answer>>

Inputs == 0 .. InputCount - 1

FullReport == [k \in 1 .. InputCount |-> <<k - 1, asked>>]

ContractInit ==
  /\ loadable \in SUBSET Inputs
  /\ asked \in SUBSET {"resource", "uninitialized", "globals"}
  /\ target \in {"off", "writable", "unwritable"}
  /\ printed = << >> /\ filed = << >>
  /\ answer = <<"running", 0>>

FailToLoad ==
  /\ answer = <<"running", 0>>
  /\ \E i \in Inputs \ loadable :
       /\ \A j \in Inputs \ loadable : i <= j
       /\ answer' = <<"failed to analyze", i>>
  /\ UNCHANGED <<loadable, asked, target, printed, filed>>

PrintReport ==
  /\ loadable = Inputs
  /\ printed = << >>
  /\ printed' = FullReport
  /\ UNCHANGED <<loadable, asked, target, filed, answer>>

FileReport ==
  /\ answer = <<"running", 0>>
  /\ printed # << >>
  /\ filed' = IF target = "writable" THEN printed ELSE << >>
  /\ answer' = IF target = "unwritable" THEN <<"failed to write SARIF", 0>> ELSE <<"ok", 0>>
  /\ UNCHANGED <<loadable, asked, target, printed>>

ContractNext == FailToLoad \/ PrintReport \/ FileReport

\* Nothing happens but what the contract allows, in its order.
ContractSafety == ContractInit /\ [][ContractNext]_contractVars

\* And a run that can go on does.
ContractSpec == ContractSafety /\ WF_contractVars(ContractNext)
=============================================================================
