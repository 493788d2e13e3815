---------------------------- MODULE ParallelWork ----------------------------
(***************************************************************************)
(* The work scheduler of the application, runParallelWork in               *)
(* src/src/app/AnalyzerApp.cpp: min(maxJobs, workItemCount) threads claim  *)
(* indices from one atomic counter, call workFn on each index they claim   *)
(* and count what they did; the caller joins the threads and compares the  *)
(* sum of the counts with the number of items.  With one worker or one     *)
(* item the caller runs the loop itself.                                   *)
(*                                                                         *)
(* workFn is split in two steps, so that the calls of several threads      *)
(* overlap.  What a call does is left to the modules that extend this one. *)
(***************************************************************************)
EXTENDS Naturals, FiniteSets

CONSTANTS
  WorkItemCount,   \* workItemCount, the number of items of one call
  JobCounts        \* the values resolveConfiguredJobs(cfg) may give

ASSUME WorkAssumption ==
  /\ WorkItemCount \in Nat \ {0}
  /\ JobCounts \subseteq Nat \ {0}

\* workItemCount == 0 returns before anything is done and is left out.
Items == 0 .. WorkItemCount - 1

VARIABLES
  maxJobs,     \* the parameter maxJobs of the call
  main,        \* where the calling thread is
  nextIndex,   \* the shared std::atomic_size_t (the loop counter when Sequential)
  pc,          \* where each worker is
  index,       \* the index each worker claimed last
  processed,   \* WorkerState::processedCount of each worker
  joined,      \* the number of threads joined so far (in creation order)
  begun,       \* how often workFn was entered on each item
  finished     \* the items on which workFn has returned

workVars == <<maxJobs, main, nextIndex, pc, index, processed, joined, begun, finished>>

WorkerCount == IF maxJobs <= WorkItemCount THEN maxJobs ELSE WorkItemCount

Workers == 1 .. WorkerCount

Sequential == WorkerCount <= 1

-----------------------------------------------------------------------------
WorkInit ==
  /\ maxJobs \in JobCounts
  /\ main = IF Sequential THEN "loop" ELSE "spawn"
  /\ nextIndex = 0
  /\ pc = [w \in Workers |-> "absent"]
  /\ index = [w \in Workers |-> 0]
  /\ processed = [w \in Workers |-> 0]
  /\ joined = 0
  /\ begun = [i \in Items |-> 0]
  /\ finished = {}

\* for (index = 0; index < workItemCount; ++index) workFn(index), one call per step.
LoopCall ==
  /\ main = "loop"
  /\ nextIndex < WorkItemCount
  /\ begun' = [begun EXCEPT ![nextIndex] = @ + 1]
  /\ finished' = finished \cup {nextIndex}
  /\ nextIndex' = nextIndex + 1
  /\ UNCHANGED <<maxJobs, main, pc, index, processed, joined>>

LoopReturn ==
  /\ main = "loop"
  /\ nextIndex >= WorkItemCount
  /\ main' = "done"
  /\ UNCHANGED <<maxJobs, nextIndex, pc, index, processed, joined, begun, finished>>

\* workers.emplace_back(...): the threads start one after the other, and a
\* thread runs as soon as it is created.
Spawn(w) ==
  /\ main = "spawn"
  /\ pc[w] = "absent"
  /\ \A v \in Workers : v < w => pc[v] # "absent"
  /\ pc' = [pc EXCEPT ![w] = "claim"]
  /\ main' = IF w = WorkerCount THEN "join" ELSE "spawn"
  /\ UNCHANGED <<maxJobs, nextIndex, index, processed, joined, begun, finished>>

\* Mutated FetchAdd: a load and a store, so that an increment may be lost.
LoadThenStore(w) ==
  /\ index' = [index EXCEPT ![w] = nextIndex]
  /\ nextIndex' \in {nextIndex, nextIndex + 1}

\* Mutated FetchAdd: the index is read after the increment.
AddFetch(w) ==
  /\ index' = [index EXCEPT ![w] = nextIndex + 1]
  /\ nextIndex' = nextIndex + 1

\* The index a worker obtains and the counter it leaves behind:
\* nextIndex.fetch_add(1) is one indivisible step.
FetchAdd(w) ==
  /\ index' = [index EXCEPT ![w] = nextIndex]
  /\ nextIndex' = nextIndex + 1

\* Claims an index; past the end the thread leaves its loop, else it enters workFn.
Claim(w) ==
  /\ pc[w] = "claim"
  /\ FetchAdd(w)
  /\ \/ /\ index'[w] >= WorkItemCount
        /\ pc' = [pc EXCEPT ![w] = "exited"]
        /\ UNCHANGED begun
     \/ /\ index'[w] < WorkItemCount
        /\ pc' = [pc EXCEPT ![w] = "work"]
        /\ begun' = [begun EXCEPT ![index'[w]] = @ + 1]
  /\ UNCHANGED <<maxJobs, main, processed, joined, finished>>

\* workFn returns; the worker counts the item and goes for the next one.
FinishWork(w) ==
  /\ pc[w] = "work"
  /\ finished' = finished \cup {index[w]}
  /\ processed' = [processed EXCEPT ![w] = @ + 1]
  /\ pc' = [pc EXCEPT ![w] = "claim"]
  /\ UNCHANGED <<maxJobs, main, nextIndex, index, joined, begun>>

\* Mutated Join: the joining loop stops before the last thread.
JoinAllButLast(w) ==
  /\ main = "join"
  /\ w = joined + 1
  /\ w < WorkerCount
  /\ pc[w] = "exited"
  /\ joined' = w
  /\ UNCHANGED <<maxJobs, main, nextIndex, pc, index, processed, begun, finished>>

\* worker.join() blocks until the thread has exited.
Join(w) ==
  /\ main = "join"
  /\ w = joined + 1
  /\ pc[w] = "exited"
  /\ joined' = w
  /\ UNCHANGED <<maxJobs, main, nextIndex, pc, index, processed, begun, finished>>

\* The sum of the counts of workers 1..k.
ProcessedUpTo[k \in 0 .. WorkerCount] ==
  IF k = 0 THEN 0 ELSE ProcessedUpTo[k - 1] + processed[k]

\* Mutated CheckTotal: runParallelWork returns after the first thread has ended.
ReturnEarly ==
  /\ main = "join"
  /\ joined >= 1
  /\ main' = "done"
  /\ UNCHANGED <<maxJobs, nextIndex, pc, index, processed, joined, begun, finished>>

\* All threads are joined: the totals are compared.
CheckTotal ==
  /\ main = "join"
  /\ joined = WorkerCount
  /\ main' = IF ProcessedUpTo[WorkerCount] = WorkItemCount THEN "done" ELSE "fatal"
  /\ UNCHANGED <<maxJobs, nextIndex, pc, index, processed, joined, begun, finished>>

WorkNext ==
  \/ LoopCall
  \/ LoopReturn
  \/ \E w \in Workers : Spawn(w)
  \/ \E w \in Workers : Claim(w)
  \/ \E w \in Workers : FinishWork(w)
  \/ \E w \in Workers : Join(w)
  \/ CheckTotal

WorkSpec == WorkInit /\ [][WorkNext]_workVars

-----------------------------------------------------------------------------
(* Type invariant of the scheduler's state.                                *)
WorkTypeOK ==
  /\ maxJobs \in JobCounts
  /\ main \in {"loop", "spawn", "join", "done", "fatal"}
  /\ nextIndex \in Nat
  /\ pc \in [Workers -> {"absent", "claim", "work", "exited"}]
  /\ index \in [Workers -> Nat]
  /\ processed \in [Workers -> Nat]
  /\ joined \in 0 .. WorkerCount
  /\ begun \in [Items -> Nat]
  /\ finished \subseteq Items

(* No item is given to workFn twice, whatever the interleaving of the      *)
(* claims; the slot vectors that the callers of runParallelWork fill       *)
(* without a lock (loadedModules, moduleSummaries, ...) rest on it.        *)
NeverTwice == \A i \in Items : begun[i] <= 1

(* When runParallelWork returns, workFn has returned on every item: the    *)
(* caller reads all slots without synchronising any further.               *)
AllDoneAtReturn == main = "done" => finished = Items

(* The inductive invariant behind the two properties above: the counter  *)
(* separates the items already handed out from the others; an item handed  *)
(* out is finished or in the hands of exactly one worker; nobody stops     *)
(* before the counter has passed the end; the caller waits for everyone.   *)
HandedOut ==
  \A i \in Items : begun[i] = IF i < nextIndex THEN 1 ELSE 0

ClaimsDistinct ==
  /\ \A w \in Workers : pc[w] = "work" => index[w] \in Items /\ index[w] < nextIndex
  /\ \A v, w \in Workers : v # w /\ pc[v] = "work" /\ pc[w] = "work" => index[v] # index[w]

Accounted ==
  \A i \in Items : i < nextIndex =>
    \/ i \in finished
    \/ \E w \in Workers : pc[w] = "work" /\ index[w] = i

ExitedPastEnd ==
  \A w \in Workers : pc[w] = "exited" => nextIndex >= WorkItemCount

JoinedExited ==
  /\ main \in {"spawn", "loop"} => joined = 0
  /\ \A w \in Workers : w <= joined => pc[w] = "exited"
  /\ Sequential <=> main = "loop" \/ (main = "done" /\ joined = 0)
  /\ Sequential => \A w \in Workers : pc[w] = "absent"

WorkIInv ==
  /\ WorkTypeOK
  /\ HandedOut
  /\ ClaimsDistinct
  /\ Accounted
  /\ ExitedPastEnd
  /\ JoinedExited
  /\ AllDoneAtReturn

=============================================================================
