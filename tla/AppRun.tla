------------------------------- MODULE AppRun -------------------------------
(***************************************************************************)
(* One run of the application over a planned list of input files           *)
(* (AnalyzerApp::run in src/src/app/AnalyzerApp.cpp): the inputs are       *)
(* loaded by the scheduler of ParallelWork, one slot per input, the slots  *)
(* are collected in input order, the cross-TU summary indices are built,   *)
(* every module is analysed in order, the report goes to stdout and then,  *)
(* when asked for, to the SARIF file.                                      *)
(*                                                                         *)
(* An input is its index in plan.inputFilenames.  With one input the       *)
(* application takes analyzeWithoutSharedModuleLoading, whose only         *)
(* reachable path is its sequential one; with more it takes                *)
(* analyzeWithSharedModuleLoading.                                         *)
(***************************************************************************)
EXTENDS ParallelWork, Sequences

VARIABLES
  loadable,   \* the inputs for which loadModuleForAnalysis yields a module
  wanted,     \* the indices asked for by resourceCrossTU (with a model) and
              \* uninitializedCrossTU
  sarif,      \* --sarif-out: "off", "writable" or "unwritable" path
  slot,       \* loadSucceeded/loadErrors of each input
  phase,      \* where AnalyzerApp::run is
  cursor,     \* the loop index of the phase
  modules,    \* orderedLoadedModules
  indices,    \* the cross-TU indices held by cfg
  results,    \* the analysis results: <<input, indices it was analysed with>>
  emitted,    \* the reports produced so far
  outcome     \* the AppResult: its kind and, for a failed load, the input it names

runVars == <<loadable, wanted, sarif, slot, phase, cursor, modules, indices, results,
             emitted, outcome>>

allVars == <<workVars, runVars>>

None == "none"

\* needsSharedModuleLoading: the global read-before-write index alone makes it
\* true of every run over more than one input.
SharedLoading == WorkItemCount > 1

\* The needsCrossTU... flags of RunPlan.
NeededIndices == IF SharedLoading THEN wanted \cup {"globals"} ELSE {}

RunInit ==
  /\ WorkInit
  /\ loadable \in SUBSET Items
  /\ wanted \in SUBSET {"resource", "uninitialized"}
  /\ sarif \in {"off", "writable", "unwritable"}
  /\ slot = [i \in Items |-> None]
  /\ phase = "load"
  /\ cursor = 0
  /\ modules = <<>>
  /\ indices = {}
  /\ results = <<>>
  /\ emitted = {}
  /\ outcome = <<"running", 0>>

-----------------------------------------------------------------------------
\* loadSingleModule(i): the slot of input i, and no other, is written.
LoadSlot(i) ==
  slot' = [slot EXCEPT ![i] = IF i \in loadable THEN "module" ELSE "error"]

LoadInLoop ==
  /\ LoopCall
  /\ LoadSlot(nextIndex)
  /\ UNCHANGED <<loadable, wanted, sarif, phase, cursor, modules, indices, results, emitted, outcome>>

LoadInWorker(w) ==
  /\ FinishWork(w)
  /\ LoadSlot(index[w])
  /\ UNCHANGED <<loadable, wanted, sarif, phase, cursor, modules, indices, results, emitted, outcome>>

\* The scheduler's steps that touch no slot.
Schedule ==
  /\ \/ LoopReturn
     \/ \E w \in Workers : Spawn(w) \/ Claim(w) \/ Join(w)
     \/ CheckTotal
  /\ UNCHANGED runVars

\* runParallelWork has returned: the collecting loop starts.
BeginCollect ==
  /\ phase = "load"
  /\ main = "done"
  /\ phase' = "collect"
  /\ UNCHANGED <<workVars, loadable, wanted, sarif, slot, cursor, modules, indices, results, emitted,
                 outcome>>

\* Mutated Collect: a failure is reported, but the loop goes on and the last one wins.
CollectLastFailure ==
  /\ phase = "collect"
  /\ cursor < WorkItemCount
  /\ cursor' = cursor + 1
  /\ modules' = IF slot[cursor] = "module" THEN Append(modules, cursor) ELSE modules
  /\ outcome' = IF slot[cursor] = "module" THEN outcome ELSE <<"failed to analyze", cursor>>
  /\ phase' = IF cursor' = WorkItemCount /\ outcome'[1] # "running" THEN "exit" ELSE phase
  /\ UNCHANGED <<workVars, loadable, wanted, sarif, slot, indices, results, emitted>>

\* One turn of the loop over loadSucceeded: the first slot without a module
\* ends the run with "Failed to analyze: <that input>".
Collect ==
  /\ phase = "collect"
  /\ cursor < WorkItemCount
  /\ \/ /\ slot[cursor] = "module"
        /\ modules' = Append(modules, cursor)
        /\ cursor' = cursor + 1
        /\ UNCHANGED <<phase, outcome>>
     \/ /\ slot[cursor] # "module"
        /\ outcome' = <<"failed to analyze", cursor>>
        /\ phase' = "exit"
        /\ UNCHANGED <<modules, cursor>>
  /\ UNCHANGED <<workVars, loadable, wanted, sarif, slot, indices, results, emitted>>

\* Mutated BuildIndices: the loop of the first phase leaves its index behind.
BuildIndicesKeepingCursor ==
  /\ phase = "collect"
  /\ cursor = WorkItemCount
  /\ indices' = NeededIndices
  /\ phase' = "analyze"
  /\ UNCHANGED <<workVars, loadable, wanted, sarif, slot, cursor, modules, results, emitted,
                 outcome>>

\* The three build...SummaryIndex calls, before any module is analysed.
BuildIndices ==
  /\ phase = "collect"
  /\ cursor = WorkItemCount
  /\ indices' = NeededIndices
  /\ phase' = "analyze"
  /\ cursor' = 0
  /\ UNCHANGED <<workVars, loadable, wanted, sarif, slot, modules, results, emitted, outcome>>

\* analyzeModule and the frontend diagnostics of the next loaded module.
Analyze ==
  /\ phase = "analyze"
  /\ cursor < Len(modules)
  /\ results' = Append(results, <<modules[cursor + 1], indices>>)
  /\ cursor' = cursor + 1
  /\ UNCHANGED <<workVars, loadable, wanted, sarif, slot, phase, modules, indices, emitted, outcome>>

\* outputStrategy->emit: the report for all results, on stdout.
Emit ==
  /\ phase = "analyze"
  /\ cursor = Len(modules)
  /\ emitted' = emitted \cup {"stdout"}
  /\ phase' = "sarif"
  /\ UNCHANGED <<workVars, loadable, wanted, sarif, slot, cursor, modules, indices, results, outcome>>

\* Mutated WriteSarif: the result of writeSarifToFile is ignored.
WriteSarifUnchecked ==
  /\ phase = "sarif"
  /\ phase' = "exit"
  /\ emitted' = emitted \cup {"sarif"}
  /\ outcome' = <<"ok", 0>>
  /\ UNCHANGED <<workVars, loadable, wanted, sarif, slot, cursor, modules, indices, results>>

\* writeSarifToFile, when --sarif-out names a path; its failure fails the run.
WriteSarif ==
  /\ phase = "sarif"
  /\ phase' = "exit"
  /\ emitted' = IF sarif = "writable" THEN emitted \cup {"sarif"} ELSE emitted
  /\ outcome' = IF sarif = "unwritable" THEN <<"failed to write SARIF", 0>> ELSE <<"ok", 0>>
  /\ UNCHANGED <<workVars, loadable, wanted, sarif, slot, cursor, modules, indices, results>>

RunNext ==
  \/ LoadInLoop
  \/ \E w \in Workers : LoadInWorker(w)
  \/ Schedule
  \/ BeginCollect
  \/ Collect
  \/ BuildIndices
  \/ Analyze
  \/ Emit
  \/ WriteSarif

RunSpec == RunInit /\ [][RunNext]_allVars

\* Every thread of the run is scheduled by the operating system until it ends:
\* each step that stays enabled is eventually taken.
RunFairness ==
  /\ WF_allVars(LoadInLoop)
  /\ \A w \in 1 .. WorkItemCount : WF_allVars(w \in Workers /\ LoadInWorker(w))
  /\ \A w \in 1 .. WorkItemCount : WF_allVars(w \in Workers /\ Claim(w) /\ UNCHANGED runVars)
  /\ WF_allVars(Schedule)
  /\ WF_allVars(BeginCollect \/ Collect \/ BuildIndices \/ Analyze \/ Emit \/ WriteSarif)

FairRunSpec == RunSpec /\ RunFairness

-----------------------------------------------------------------------------
(* The report as its reader sees it.                                        *)
Contract == INSTANCE RunContract WITH
  InputCount <- WorkItemCount,
  asked      <- NeededIndices,
  target     <- sarif,
  printed    <- IF "stdout" \in emitted THEN results ELSE << >>,
  filed      <- IF "sarif" \in emitted THEN results ELSE << >>,
  answer     <- outcome

(* A run keeps the contract, however its loading threads are scheduled: it *)
(* ends as a run with one job would, a failure names the first input in    *)
(* sorted order that does not load even if a later one failed earlier, and *)
(* a report covers every input in order, each analysed with every cross-TU *)
(* index of the plan, on stdout before it is in the file.                  *)
RefinesRunContract == Contract!ContractSpec

(* Every run ends: no thread waits for another one that waits for it.      *)
RunEnds == <>(phase = "exit")
=============================================================================
