---------------------------- MODULE AppRunProofs ----------------------------
(***************************************************************************)
(* For every number of items and every number of jobs: runParallelWork     *)
(* calls workFn at most once on an item, and when it returns every call    *)
(* has returned.  The argument is the inductive invariant WorkIInv of      *)
(* ParallelWork: an index below the counter is finished or is held by a    *)
(* worker that has not exited, so once all workers have exited every item  *)
(* is finished.                                                            *)
(*                                                                         *)
(* And for every schedule of the loading threads, a run of the application *)
(* does what RunContract promises, step by step.  WorkIInv says that       *)
(* collecting starts when every slot has been written; RunIInv carries     *)
(* that knowledge through the phases: modules and results are the inputs   *)
(* so far, in their order, and nothing is printed before they are all      *)
(* there.                                                                  *)
(***************************************************************************)
EXTENDS AppRun, TLAPS

-----------------------------------------------------------------------------
\* The scheduler.

(* The number of threads is a positive number not above that of the items. *)
LEMMA WorkerCountType ==
  ASSUME maxJobs \in JobCounts
  PROVE
  /\ WorkerCount \in Nat \ {0}
  /\ WorkerCount <= WorkItemCount
  /\ WorkItemCount \in Nat \ {0}
BY WorkAssumption DEF WorkerCount

(* The scheduler starts with nothing claimed.                              *)
LEMMA WorkInitIInv == WorkInit => WorkIInv
BY WorkerCountType
   DEF WorkInit, WorkIInv, WorkTypeOK, HandedOut, ClaimsDistinct, Accounted, ExitedPastEnd,
       JoinedExited, AllDoneAtReturn, Workers, Items, Sequential

(* Every step of the caller and of the workers keeps the invariant.        *)
LEMMA WorkNextIInv == WorkIInv /\ [WorkNext]_workVars => WorkIInv'
<1> SUFFICES ASSUME WorkIInv, [WorkNext]_workVars PROVE WorkIInv'
  OBVIOUS
<1>a. /\ WorkerCount \in Nat \ {0}
      /\ WorkerCount <= WorkItemCount
      /\ WorkItemCount \in Nat \ {0}
  BY WorkerCountType DEF WorkIInv, WorkTypeOK
<1>b. maxJobs' = maxJobs
  BY DEF WorkNext, LoopCall, LoopReturn, Spawn, Claim, FinishWork, Join, CheckTotal, workVars
<1>c. WorkerCount' = WorkerCount
  BY <1>b DEF WorkerCount
<1> USE <1>a, <1>b, <1>c
<1> USE DEF Workers, Items, Sequential, WorkIInv
<1>1. CASE LoopCall
  <2>1. WorkTypeOK'
    BY <1>1 DEF LoopCall, WorkTypeOK
  <2>2. HandedOut'
    BY <1>1 DEF LoopCall, WorkTypeOK, HandedOut
  <2>3. ClaimsDistinct' /\ ExitedPastEnd' /\ JoinedExited' /\ AllDoneAtReturn'
    BY <1>1 DEF LoopCall, WorkTypeOK, ClaimsDistinct, ExitedPastEnd, JoinedExited, AllDoneAtReturn
  <2>4. Accounted'
    BY <1>1 DEF LoopCall, WorkTypeOK, Accounted
  <2> QED BY <2>1, <2>2, <2>3, <2>4
<1>2. CASE LoopReturn
  <2>1. WorkTypeOK' /\ HandedOut' /\ ClaimsDistinct' /\ Accounted' /\ ExitedPastEnd' /\ JoinedExited'
    BY <1>2 DEF LoopReturn, WorkTypeOK, HandedOut, ClaimsDistinct, Accounted, ExitedPastEnd,
                JoinedExited
  <2>2. \A w \in Workers : pc[w] # "work"
    BY <1>2 DEF LoopReturn, JoinedExited
  <2>3. finished = Items
    <3>1. \A i \in Items : i < nextIndex
      BY <1>2 DEF LoopReturn, WorkTypeOK
    <3>2. \A i \in Items : i \in finished
      BY <2>2, <3>1 DEF Accounted
    <3> QED BY <3>2 DEF WorkTypeOK
  <2>4. AllDoneAtReturn'
    BY <1>2, <2>3 DEF LoopReturn, AllDoneAtReturn
  <2> QED BY <2>1, <2>4
<1>3. ASSUME NEW w \in Workers, Spawn(w) PROVE WorkIInv'
  <2>1. WorkTypeOK'
    BY <1>3 DEF Spawn, WorkTypeOK
  <2>2. HandedOut' /\ ClaimsDistinct' /\ ExitedPastEnd' /\ AllDoneAtReturn'
    BY <1>3 DEF Spawn, WorkTypeOK, HandedOut, ClaimsDistinct, ExitedPastEnd, AllDoneAtReturn
  <2>3. Accounted'
    BY <1>3 DEF Spawn, WorkTypeOK, Accounted
  <2>4. JoinedExited'
    BY <1>3 DEF Spawn, WorkTypeOK, JoinedExited
  <2> QED BY <2>1, <2>2, <2>3, <2>4
<1>4. ASSUME NEW w \in Workers, Claim(w) PROVE WorkIInv'
  <2>1. index'[w] = nextIndex /\ nextIndex' = nextIndex + 1 /\ nextIndex \in Nat
    BY <1>4 DEF Claim, FetchAdd, WorkTypeOK
  <2> DEFINE entered == nextIndex < WorkItemCount
  <2>a. /\ index' = [index EXCEPT ![w] = nextIndex]
        /\ pc' = [pc EXCEPT ![w] = IF entered THEN "work" ELSE "exited"]
        /\ begun' = IF entered THEN [begun EXCEPT ![nextIndex] = @ + 1] ELSE begun
        /\ UNCHANGED <<main, processed, joined, finished>>
    BY <1>4, <2>1 DEF Claim, FetchAdd
  <2>b. entered => nextIndex \in Items
    BY <2>1
  <2>2. WorkTypeOK'
    <3>1. begun' \in [Items -> Nat]
      BY <2>1, <2>a, <2>b DEF WorkTypeOK
    <3>2. index' \in [Workers -> Nat] /\ pc' \in [Workers -> {"absent", "claim", "work", "exited"}]
      BY <2>1, <2>a DEF WorkTypeOK
    <3>3. nextIndex' \in Nat
      BY <2>1
    <3>4. UNCHANGED <<main, processed, joined, finished>>
      BY <2>a
    <3> QED BY <3>1, <3>2, <3>3, <3>4 DEF WorkTypeOK
  <2>3. HandedOut'
    <3> SUFFICES ASSUME NEW i \in Items PROVE begun'[i] = IF i < nextIndex + 1 THEN 1 ELSE 0
      BY <2>1 DEF HandedOut
    <3>1. CASE i = nextIndex
      BY <2>1, <2>a, <3>1 DEF WorkTypeOK, HandedOut
    <3>2. CASE i # nextIndex
      BY <2>1, <2>a, <3>2 DEF WorkTypeOK, HandedOut
    <3> QED BY <3>1, <3>2
  <2>4. ClaimsDistinct'
    <3>0. /\ \A v \in Workers \ {w} : pc'[v] = pc[v] /\ index'[v] = index[v]
          /\ pc'[w] = "work" => index'[w] \in Items /\ index'[w] = nextIndex
      BY <2>1, <2>a, <2>b DEF WorkTypeOK
    <3>a. \A v \in Workers : pc[v] = "work" => index[v] \in Items /\ index[v] < nextIndex
      BY DEF ClaimsDistinct
    <3>1. \A v \in Workers : pc'[v] = "work" => index'[v] \in Items /\ index'[v] < nextIndex + 1
      BY <2>1, <3>0, <3>a
    <3>2. ASSUME NEW u \in Workers, NEW v \in Workers, u # v, pc'[u] = "work", pc'[v] = "work"
          PROVE  index'[u] # index'[v]
      <4>1. CASE u # w /\ v # w
        BY <3>0, <3>2, <4>1 DEF ClaimsDistinct
      <4>2. CASE u = w \/ v = w
        BY <2>1, <3>0, <3>a, <3>2, <4>2
      <4> QED BY <4>1, <4>2
    <3> QED BY <2>1, <3>1, <3>2 DEF ClaimsDistinct
  <2>5. Accounted'
    <3> SUFFICES ASSUME NEW i \in Items, i < nextIndex', i \notin finished
                 PROVE  \E v \in Workers : pc'[v] = "work" /\ index'[v] = i
      BY <1>4 DEF Accounted, Claim
    <3>1. CASE i = nextIndex
      BY <1>4, <2>1, <3>1 DEF Claim, WorkTypeOK
    <3>2. CASE i # nextIndex
      <4>1. PICK v \in Workers : pc[v] = "work" /\ index[v] = i
        BY <2>1, <3>2 DEF Accounted
      <4> QED BY <1>4, <4>1 DEF Claim, FetchAdd, WorkTypeOK
    <3> QED BY <3>1, <3>2
  <2>6. ExitedPastEnd'
    BY <1>4, <2>1 DEF Claim, WorkTypeOK, ExitedPastEnd
  <2>7. JoinedExited' /\ AllDoneAtReturn'
    BY <1>4 DEF Claim, WorkTypeOK, JoinedExited, AllDoneAtReturn
  <2> QED BY <2>2, <2>3, <2>4, <2>5, <2>6, <2>7
<1>5. ASSUME NEW w \in Workers, FinishWork(w) PROVE WorkIInv'
  <2>1. index[w] \in Items
    BY <1>5 DEF FinishWork, ClaimsDistinct
  <2>2. WorkTypeOK'
    <3>1. finished' \subseteq Items
      BY <1>5, <2>1 DEF FinishWork, WorkTypeOK
    <3>2. processed' \in [Workers -> Nat]
      BY <1>5 DEF FinishWork, WorkTypeOK
    <3>3. pc' \in [Workers -> {"absent", "claim", "work", "exited"}]
      BY <1>5 DEF FinishWork, WorkTypeOK
    <3> QED BY <1>5, <3>1, <3>2, <3>3 DEF FinishWork, WorkTypeOK
  <2>3. HandedOut' /\ ClaimsDistinct' /\ ExitedPastEnd'
    BY <1>5 DEF FinishWork, WorkTypeOK, HandedOut, ClaimsDistinct, ExitedPastEnd
  <2>4. Accounted'
    <3> SUFFICES ASSUME NEW i \in Items, i < nextIndex, i \notin finished'
                 PROVE  \E v \in Workers : pc'[v] = "work" /\ index'[v] = i
      BY <1>5 DEF Accounted, FinishWork
    <3>1. PICK v \in Workers : pc[v] = "work" /\ index[v] = i
      BY <1>5 DEF Accounted, FinishWork
    <3> QED BY <1>5, <3>1 DEF FinishWork, WorkTypeOK
  <2>5. JoinedExited' /\ AllDoneAtReturn'
    BY <1>5, <2>1 DEF FinishWork, WorkTypeOK, JoinedExited, AllDoneAtReturn
  <2> QED BY <2>2, <2>3, <2>4, <2>5
<1>6. ASSUME NEW w \in Workers, Join(w) PROVE WorkIInv'
  <2>1. WorkTypeOK' /\ HandedOut' /\ ClaimsDistinct' /\ Accounted' /\ ExitedPastEnd'
           /\ AllDoneAtReturn'
    BY <1>6 DEF Join, WorkTypeOK, HandedOut, ClaimsDistinct, Accounted, ExitedPastEnd,
                AllDoneAtReturn
  <2>2. JoinedExited'
    <3>1. joined' = joined + 1 /\ joined \in Nat /\ pc[joined + 1] = "exited"
      BY <1>6 DEF Join, WorkTypeOK
    <3>2. \A v \in Workers : v <= joined + 1 => pc[v] = "exited"
      BY <3>1 DEF JoinedExited
    <3> QED BY <1>6, <3>1, <3>2 DEF Join, WorkTypeOK, JoinedExited
  <2> QED BY <2>1, <2>2
<1>7. CASE CheckTotal
  <2>1. WorkTypeOK' /\ HandedOut' /\ ClaimsDistinct' /\ Accounted' /\ ExitedPastEnd'
    BY <1>7 DEF CheckTotal, WorkTypeOK, HandedOut, ClaimsDistinct, Accounted, ExitedPastEnd
  <2>2. JoinedExited'
    BY <1>7 DEF CheckTotal, WorkTypeOK, JoinedExited
  <2>3. finished = Items
    <3>1. \A w \in Workers : pc[w] = "exited"
      BY <1>7 DEF CheckTotal, WorkTypeOK, JoinedExited
    <3>2. nextIndex >= WorkItemCount
      BY <3>1 DEF ExitedPastEnd
    <3>3. \A i \in Items : i < nextIndex
      BY <3>2 DEF WorkTypeOK
    <3>4. \A i \in Items : i \in finished
      BY <3>1, <3>3 DEF Accounted
    <3> QED BY <3>4 DEF WorkTypeOK
  <2>4. AllDoneAtReturn'
    BY <1>7, <2>3 DEF CheckTotal, AllDoneAtReturn
  <2> QED BY <2>1, <2>2, <2>4
<1>8. CASE UNCHANGED workVars
  BY <1>8 DEF workVars, WorkTypeOK, HandedOut, ClaimsDistinct, Accounted, ExitedPastEnd,
              JoinedExited, AllDoneAtReturn
<1> QED BY <1>1, <1>2, <1>3, <1>4, <1>5, <1>6, <1>7, <1>8 DEF WorkNext

(* The inductive invariant holds in every reachable state.                 *)
THEOREM SchedulerInvariant == WorkSpec => []WorkIInv
BY WorkInitIInv, WorkNextIInv, PTL DEF WorkSpec

(* The state of runParallelWork keeps its types.                           *)
THEOREM SchedulerTypes == WorkSpec => []WorkTypeOK
<1>1. WorkIInv => WorkTypeOK
  BY DEF WorkIInv
<1> QED BY <1>1, SchedulerInvariant, PTL

(* Whatever the number of threads, no item is given to workFn twice.       *)
THEOREM SchedulerNeverTwice == WorkSpec => []NeverTwice
<1>1. WorkIInv => NeverTwice
  BY WorkerCountType DEF WorkIInv, HandedOut, NeverTwice, WorkTypeOK
<1> QED BY <1>1, SchedulerInvariant, PTL

(* Whatever the number of threads, runParallelWork returns only after      *)
(* workFn has returned on every item.                                      *)
THEOREM SchedulerAllDone == WorkSpec => []AllDoneAtReturn
<1>1. WorkIInv => AllDoneAtReturn
  BY DEF WorkIInv
<1> QED BY <1>1, SchedulerInvariant, PTL

-----------------------------------------------------------------------------
\* The run.

SlotOf(i) == IF i \in loadable THEN "module" ELSE "error"

RunTypeOK ==
  /\ loadable \subseteq Items
  /\ wanted \subseteq {"resource", "uninitialized"}
  /\ sarif \in {"off", "writable", "unwritable"}
  /\ slot \in [Items -> {None, "module", "error"}]
  /\ phase \in {"load", "collect", "analyze", "sarif", "exit"}
  /\ cursor \in 0 .. WorkItemCount

\* A slot holds what its load gave, and is read only after that.
SlotsIInv ==
  /\ \A i \in finished : slot[i] = SlotOf(i)
  /\ phase # "load" => main = "done"

\* The first n inputs, all of them loaded.
Loaded(n) ==
  /\ modules = [k \in 1 .. n |-> k - 1]
  /\ \A i \in Items : i < n => i \in loadable

\* The results of the first n inputs.
Analyzed(n) == results = [k \in 1 .. n |-> <<k - 1, NeededIndices>>]

PhasesIInv ==
  /\ phase = "load" => cursor = 0
  /\ phase \in {"load", "collect"} => Loaded(cursor) /\ Analyzed(0)
  /\ phase \in {"analyze", "sarif"} => Loaded(WorkItemCount) /\ Analyzed(cursor)
                                         /\ indices = NeededIndices
  /\ phase = "sarif" => cursor = WorkItemCount /\ emitted = {"stdout"}
  /\ phase \in {"load", "collect", "analyze"} => emitted = {}
  /\ phase # "exit" => outcome = <<"running", 0>>

RunIInv == WorkIInv /\ RunTypeOK /\ SlotsIInv /\ PhasesIInv

-----------------------------------------------------------------------------
(* Every step of a run is a step of the scheduler, or leaves it alone.     *)
LEMMA RunStepsSchedule == [RunNext]_allVars => [WorkNext]_workVars
BY DEF RunNext, allVars, LoadInLoop, LoadInWorker, Schedule, BeginCollect, Collect, BuildIndices,
       Analyze, Emit, WriteSarif, WorkNext

(* Nothing is loaded yet when a run starts.                                *)
LEMMA RunInitIInv == RunInit => RunIInv
<1> SUFFICES ASSUME RunInit PROVE RunIInv
  OBVIOUS
<1>1. WorkIInv
  BY WorkInitIInv DEF RunInit
<1>2. RunTypeOK
  BY WorkAssumption DEF RunInit, RunTypeOK
<1>3. SlotsIInv
  BY DEF RunInit, WorkInit, SlotsIInv
<1>4. PhasesIInv
  BY WorkAssumption DEF RunInit, PhasesIInv, Loaded, Analyzed, Items
<1> QED BY <1>1, <1>2, <1>3, <1>4 DEF RunIInv

(* A load that returns writes its own slot, with what the load gave.       *)
LEMMA LoadKeepsSlots ==
  ASSUME RunIInv, NEW i \in Items, LoadSlot(i), finished' = finished \cup {i},
         phase # "load" => main' = "done",
         UNCHANGED <<loadable, phase>>
  PROVE  SlotsIInv' /\ slot' \in [Items -> {None, "module", "error"}]
<1>1. slot' = [slot EXCEPT ![i] = SlotOf(i)] /\ slot \in [Items -> {None, "module", "error"}]
  BY DEF LoadSlot, SlotOf, RunIInv, RunTypeOK
<1>2. finished \subseteq Items
  BY DEF RunIInv, WorkIInv, WorkTypeOK
<1> QED BY <1>1, <1>2 DEF RunIInv, SlotsIInv, SlotOf

(* Every step of a run keeps the invariant.                                *)
LEMMA RunNextIInv ==
  ASSUME RunIInv, [RunNext]_allVars
  PROVE  RunIInv'
<1>w. WorkIInv'
  BY RunStepsSchedule, WorkNextIInv DEF RunIInv
<1>t. WorkItemCount \in Nat \ {0}
  BY WorkAssumption
<1>1. CASE LoadInLoop
  <2>1. /\ nextIndex \in Items /\ finished' = finished \cup {nextIndex} /\ LoadSlot(nextIndex)
        /\ main' = main
        /\ UNCHANGED <<loadable, wanted, sarif, phase, cursor, modules, indices, results, emitted, outcome>>
    BY <1>1, <1>t DEF LoadInLoop, LoopCall, RunIInv, WorkIInv, WorkTypeOK, Items
  <2>2. SlotsIInv' /\ slot' \in [Items -> {None, "module", "error"}]
    BY <2>1, LoadKeepsSlots DEF RunIInv, SlotsIInv
  <2>3. RunTypeOK'
    BY <2>1, <2>2 DEF RunIInv, RunTypeOK
  <2>4. PhasesIInv'
    BY <2>1 DEF RunIInv, PhasesIInv, Loaded, Analyzed, NeededIndices, SharedLoading
  <2> QED BY <1>w, <2>2, <2>3, <2>4 DEF RunIInv
<1>2. ASSUME NEW w \in Workers, LoadInWorker(w) PROVE RunIInv'
  <2>1. /\ index[w] \in Items /\ finished' = finished \cup {index[w]} /\ LoadSlot(index[w])
        /\ main' = main
        /\ UNCHANGED <<loadable, wanted, sarif, phase, cursor, modules, indices, results, emitted, outcome>>
    BY <1>2, <1>t DEF LoadInWorker, FinishWork, RunIInv, WorkIInv, ClaimsDistinct
  <2>2. SlotsIInv' /\ slot' \in [Items -> {None, "module", "error"}]
    BY <2>1, LoadKeepsSlots DEF RunIInv, SlotsIInv
  <2>3. RunTypeOK'
    BY <2>1, <2>2 DEF RunIInv, RunTypeOK
  <2>4. PhasesIInv'
    BY <2>1 DEF RunIInv, PhasesIInv, Loaded, Analyzed, NeededIndices, SharedLoading
  <2> QED BY <1>w, <2>2, <2>3, <2>4 DEF RunIInv
<1>3. CASE Schedule \/ UNCHANGED allVars
  <2>1. finished' = finished /\ UNCHANGED runVars /\ (main = "done" => main' = "done")
    BY <1>3 DEF Schedule, LoopReturn, Spawn, Claim, Join, CheckTotal, allVars, workVars
  <2>2. SlotsIInv'
    BY <2>1 DEF RunIInv, SlotsIInv, SlotOf, runVars
  <2>3. RunTypeOK' /\ PhasesIInv'
    BY <2>1 DEF RunIInv, RunTypeOK, PhasesIInv, Loaded, Analyzed, NeededIndices, SharedLoading, runVars
  <2> QED BY <1>w, <2>2, <2>3 DEF RunIInv
<1>4. CASE BeginCollect
  <2>1. RunTypeOK' /\ SlotsIInv'
    BY <1>4 DEF BeginCollect, RunIInv, RunTypeOK, SlotsIInv, SlotOf, workVars
  <2>2. PhasesIInv'
    BY <1>4 DEF BeginCollect, RunIInv, PhasesIInv, Loaded, Analyzed, NeededIndices, SharedLoading
  <2> QED BY <1>w, <2>1, <2>2 DEF RunIInv
<1>5. CASE Collect
  <2>0. cursor \in Items /\ cursor \in Nat /\ phase = "collect"
    <3>1. phase = "collect" /\ cursor < WorkItemCount
      BY <1>5 DEF Collect
    <3>2. cursor \in 0 .. WorkItemCount
      BY DEF RunIInv, RunTypeOK
    <3> QED BY <1>t, <3>1, <3>2 DEF Items
  <2>1. slot[cursor] = SlotOf(cursor)
    BY <2>0 DEF RunIInv, SlotsIInv, WorkIInv, AllDoneAtReturn
  <2>2. CASE slot[cursor] = "module" /\ modules' = Append(modules, cursor)
               /\ cursor' = cursor + 1 /\ UNCHANGED <<phase, outcome>>
    <3>1. RunTypeOK' /\ SlotsIInv'
      BY <1>5, <1>t, <2>0, <2>2 DEF Collect, RunIInv, RunTypeOK, SlotsIInv, SlotOf, workVars, Items
    <3>2. modules' = [k \in 1 .. cursor + 1 |-> k - 1]
      <4> DEFINE F(k) == k - 1
      <4>1. modules = [k \in 1 .. cursor |-> F(k)]
        BY <2>0 DEF RunIInv, PhasesIInv, Loaded
      <4>2. F(cursor + 1) = cursor
        BY <2>0
      <4> HIDE DEF F
      <4>3. Append([k \in 1 .. cursor |-> F(k)], F(cursor + 1)) = [k \in 1 .. cursor + 1 |-> F(k)]
        BY <2>0
      <4> QED BY <2>2, <4>1, <4>2, <4>3 DEF F
    <3>3. \A i \in Items : i < cursor + 1 => i \in loadable
      BY <2>0, <2>1, <2>2, <1>t DEF RunIInv, PhasesIInv, Loaded, SlotOf, Items
    <3>4. PhasesIInv'
      BY <1>5, <2>0, <2>2, <3>2, <3>3
         DEF Collect, RunIInv, PhasesIInv, Loaded, Analyzed, NeededIndices, SharedLoading
    <3> QED BY <1>w, <3>1, <3>4 DEF RunIInv
  <2>3. CASE phase' = "exit" /\ UNCHANGED <<modules, cursor>>
    BY <1>5, <1>w, <2>0, <2>3 DEF Collect, RunIInv, RunTypeOK, SlotsIInv, SlotOf, PhasesIInv, workVars
  <2> QED BY <1>5, <2>2, <2>3 DEF Collect
<1>6. CASE BuildIndices
  <2>1. RunTypeOK' /\ SlotsIInv'
    BY <1>6, <1>t DEF BuildIndices, RunIInv, RunTypeOK, SlotsIInv, SlotOf, workVars
  <2>2. PhasesIInv'
    BY <1>6 DEF BuildIndices, RunIInv, PhasesIInv, Loaded, Analyzed, NeededIndices, SharedLoading
  <2> QED BY <1>w, <2>1, <2>2 DEF RunIInv
<1>7. CASE Analyze
  <2>0. cursor \in Nat /\ phase = "analyze"
    BY <1>7, <1>t DEF Analyze, RunIInv, RunTypeOK
  <2>1. cursor < WorkItemCount /\ modules[cursor + 1] = cursor
    <3>1. modules = [k \in 1 .. WorkItemCount |-> k - 1]
      BY <2>0 DEF RunIInv, PhasesIInv, Loaded
    <3>2. Len(modules) = WorkItemCount
      BY <1>t, <3>1
    <3> QED BY <1>7, <1>t, <2>0, <3>1, <3>2 DEF Analyze
  <2>2. RunTypeOK' /\ SlotsIInv'
    BY <1>7, <1>t, <2>0, <2>1 DEF Analyze, RunIInv, RunTypeOK, SlotsIInv, SlotOf, workVars
  <2>3. results' = [k \in 1 .. cursor + 1 |-> <<k - 1, NeededIndices>>]
    <3> DEFINE F(k) == <<k - 1, NeededIndices>>
    <3>1. results = [k \in 1 .. cursor |-> F(k)] /\ indices = NeededIndices
      BY <2>0 DEF RunIInv, PhasesIInv, Analyzed
    <3>2. F(cursor + 1) = <<cursor, NeededIndices>>
      BY <2>0
    <3> HIDE DEF F
    <3>3. Append([k \in 1 .. cursor |-> F(k)], F(cursor + 1)) = [k \in 1 .. cursor + 1 |-> F(k)]
      BY <2>0
    <3> QED BY <1>7, <2>1, <3>1, <3>2, <3>3 DEF Analyze, F
  <2>4. PhasesIInv'
    BY <1>7, <2>0, <2>3 DEF Analyze, RunIInv, PhasesIInv, Loaded, Analyzed, NeededIndices, SharedLoading
  <2> QED BY <1>w, <2>2, <2>4 DEF RunIInv
<1>8. CASE Emit
  <2>0. phase = "analyze" /\ cursor = WorkItemCount
    <3>1. phase = "analyze" /\ cursor = Len(modules)
      BY <1>8 DEF Emit
    <3>2. modules = [k \in 1 .. WorkItemCount |-> k - 1]
      BY <3>1 DEF RunIInv, PhasesIInv, Loaded
    <3> QED BY <1>t, <3>1, <3>2
  <2>1. RunTypeOK' /\ SlotsIInv'
    BY <1>8 DEF Emit, RunIInv, RunTypeOK, SlotsIInv, SlotOf, workVars
  <2>2. PhasesIInv'
    BY <1>8, <2>0 DEF Emit, RunIInv, PhasesIInv, Loaded, Analyzed, NeededIndices, SharedLoading
  <2> QED BY <1>w, <2>1, <2>2 DEF RunIInv
<1>9. CASE WriteSarif
  BY <1>9, <1>w DEF WriteSarif, RunIInv, RunTypeOK, SlotsIInv, SlotOf, PhasesIInv, workVars
<1> QED BY <1>1, <1>2, <1>3, <1>4, <1>5, <1>6, <1>7, <1>8, <1>9 DEF RunNext

-----------------------------------------------------------------------------
(* A run starts as the contract does.                                      *)
LEMMA RunInitContract == RunInit => Contract!ContractInit
BY DEF RunInit, Contract!ContractInit, Contract!Inputs, Items, NeededIndices, SharedLoading

(* A step of a run is a step of the contract, or one its reader cannot see. *)
LEMMA RunNextContract ==
  ASSUME RunIInv, [RunNext]_allVars
  PROVE  [Contract!ContractNext]_(Contract!contractVars)
<1>t. WorkItemCount \in Nat \ {0}
  BY WorkAssumption
<1>a. Items = Contract!Inputs
  BY DEF Items, Contract!Inputs
<1>n. ASSUME UNCHANGED <<loadable, wanted, sarif, emitted, outcome>>,
             emitted # {} => results' = results
      PROVE  UNCHANGED Contract!contractVars
  BY <1>n DEF Contract!contractVars, NeededIndices, SharedLoading
<1>1. CASE LoadInLoop \/ Schedule \/ BeginCollect \/ BuildIndices \/ UNCHANGED allVars
  BY <1>1, <1>n DEF LoadInLoop, Schedule, BeginCollect, BuildIndices, allVars, runVars
<1>2. ASSUME NEW w \in Workers, LoadInWorker(w) PROVE UNCHANGED Contract!contractVars
  BY <1>2, <1>n DEF LoadInWorker
<1>3. CASE Collect
  <2>0. cursor \in Items /\ cursor \in Nat /\ phase = "collect" /\ outcome = <<"running", 0>>
    <3>1. phase = "collect" /\ cursor < WorkItemCount
      BY <1>3 DEF Collect
    <3>2. cursor \in 0 .. WorkItemCount
      BY DEF RunIInv, RunTypeOK
    <3> QED BY <1>t, <3>1, <3>2 DEF Items, RunIInv, PhasesIInv
  <2>1. slot[cursor] = SlotOf(cursor)
    BY <2>0 DEF RunIInv, SlotsIInv, WorkIInv, AllDoneAtReturn
  <2>2. CASE slot[cursor] = "module" /\ UNCHANGED outcome
    BY <1>3, <1>n, <2>2 DEF Collect
  <2>3. CASE slot[cursor] # "module" /\ outcome' = <<"failed to analyze", cursor>>
    <3>1. cursor \in Items \ loadable
      BY <2>0, <2>1, <2>3 DEF SlotOf
    <3>2. \A j \in Items \ loadable : cursor <= j
      BY <1>t, <2>0 DEF RunIInv, PhasesIInv, Loaded, Items
    <3>3. UNCHANGED <<loadable, wanted, sarif, emitted, results>>
      BY <1>3 DEF Collect
    <3>4. Contract!FailToLoad
      BY <1>a, <2>0, <2>3, <3>1, <3>2, <3>3 DEF Contract!FailToLoad, NeededIndices, SharedLoading
    <3> QED BY <3>4 DEF Contract!ContractNext
  <2> QED BY <1>3, <2>2, <2>3 DEF Collect
<1>4. CASE Analyze
  BY <1>4, <1>n DEF Analyze, RunIInv, PhasesIInv
<1>5. CASE Emit
  <2>0. phase = "analyze" /\ cursor = WorkItemCount
    <3>1. phase = "analyze" /\ cursor = Len(modules)
      BY <1>5 DEF Emit
    <3>2. modules = [k \in 1 .. WorkItemCount |-> k - 1]
      BY <3>1 DEF RunIInv, PhasesIInv, Loaded
    <3> QED BY <1>t, <3>1, <3>2
  <2>1. results = Contract!FullReport
    BY <2>0 DEF RunIInv, PhasesIInv, Analyzed, Contract!FullReport
  <2>2. loadable = Contract!Inputs
    <3>1. \A i \in Items : i < WorkItemCount
      BY <1>t DEF Items
    <3>2. Items \subseteq loadable /\ loadable \subseteq Items
      BY <2>0, <3>1 DEF RunIInv, RunTypeOK, PhasesIInv, Loaded
    <3> QED BY <1>a, <3>2
  <2>3. emitted = {} /\ emitted' = {"stdout"}
          /\ UNCHANGED <<loadable, wanted, sarif, results, outcome>>
    BY <1>5, <2>0 DEF Emit, RunIInv, PhasesIInv
  <2>4. Contract!PrintReport
    BY <2>1, <2>2, <2>3 DEF Contract!PrintReport, NeededIndices, SharedLoading
  <2> QED BY <2>4 DEF Contract!ContractNext
<1>6. CASE WriteSarif
  <2>1. /\ emitted = {"stdout"} /\ outcome = <<"running", 0>>
        /\ results = [k \in 1 .. WorkItemCount |-> <<k - 1, NeededIndices>>]
    BY <1>6 DEF WriteSarif, RunIInv, PhasesIInv, Analyzed
  <2>2. results # << >>
    <3>1. Len(results) = WorkItemCount
      BY <1>t, <2>1
    <3> QED BY <1>t, <3>1
  <2>3. emitted' = IF sarif = "writable" THEN {"stdout", "sarif"} ELSE {"stdout"}
    BY <1>6, <2>1 DEF WriteSarif
  <2>4. /\ UNCHANGED <<loadable, wanted, sarif, results>>
        /\ outcome' = IF sarif = "unwritable" THEN <<"failed to write SARIF", 0>> ELSE <<"ok", 0>>
    BY <1>6 DEF WriteSarif
  <2>5. Contract!FileReport
    BY <2>1, <2>2, <2>3, <2>4 DEF Contract!FileReport, NeededIndices, SharedLoading
  <2> QED BY <2>5 DEF Contract!ContractNext
<1> QED BY <1>1, <1>2, <1>3, <1>4, <1>5, <1>6 DEF RunNext

(* The invariant holds throughout a run.                                   *)
THEOREM RunInvariant == RunSpec => []RunIInv
BY RunInitIInv, RunNextIInv, PTL DEF RunSpec

(* In a run of the application too, with the phases around the scheduler:  *)
(* no input is loaded twice, and when the slots are collected every load   *)
(* has returned.                                                           *)
THEOREM RunSchedulesSafely == RunSpec => [](NeverTwice /\ AllDoneAtReturn)
<1>1. RunIInv => NeverTwice /\ AllDoneAtReturn
  BY WorkerCountType DEF RunIInv, WorkIInv, HandedOut, NeverTwice, WorkTypeOK
<1> QED BY <1>1, RunInvariant, PTL

(* However the loading threads are scheduled, a run fails as a sequential  *)
(* one would, naming the first input in sorted order that does not load,   *)
(* or reports on every input in order with every index that was asked for, *)
(* on stdout and then in the SARIF file: AnalyzerApp::run implements       *)
(* RunContract.                                                            *)
THEOREM RunImplementsContract == RunSpec => Contract!ContractSafety
BY RunInvariant, RunInitContract, RunNextContract, PTL DEF RunSpec, Contract!ContractSafety
=============================================================================
