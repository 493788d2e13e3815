----------------------------- MODULE CompileCwd -----------------------------
(***************************************************************************)
(* The process-wide working directory during parallel module loading:      *)
(* compileWithConfiguredWorkingDir, compileWithOptionalWorkingDir and      *)
(* ScopedCurrentPath in src/src/analysis/InputPipeline.cpp.  Every input   *)
(* is loaded by one thread (see ParallelWork), so a load stands for the    *)
(* thread that runs it; at most ResolvedJobs loads are under way.          *)
(*                                                                         *)
(* The embedded compiler (compilerlib::compile, external) resolves the     *)
(* relative paths of a command against the directory the process is in at  *)
(* that moment: compiling f in directory d yields text[f][d], or Failed.   *)
(* An input with a compile command is passed by an absolute path, computed *)
(* when its load starts; if the user named it by a relative one and the    *)
(* process was elsewhere then, that path names nothing.                    *)
(***************************************************************************)
EXTENDS Naturals, FiniteSets

CONSTANTS
  Files,                \* the inputs, all C or C++ sources
  RelativeFiles,        \* the inputs named by a relative path
  Dirs,                 \* directories
  BaseDir,              \* where the process was started
  NoDir,                \* the empty workingDir of an input without compile command
  Texts,                \* what the compiler can produce
  Failed,               \* a CompileResult without success, or no result at all
  Settings              \* AnalysisConfig::jobs and jobsAuto, and
                        \* std::thread::hardware_concurrency()

\* The value of mutex while gCompileWorkingDirMutex is free.
Nobody == "nobody"

ASSUME CwdAssumption ==
  /\ Nobody \notin Files
  /\ RelativeFiles \subseteq Files
  /\ BaseDir \in Dirs
  /\ NoDir \notin Dirs
  /\ Failed \notin Texts
  /\ IsFiniteSet(Files)
  /\ Settings \subseteq [jobs : Nat, jobsAuto : BOOLEAN, hardware : Nat]

VARIABLES
  config,       \* the setting of this run
  workingDir,   \* the directory of each input's compile command
  text,         \* what compiling an input in a directory yields
  existing,     \* the directories that chdir accepts
  cwd,          \* the working directory of the process
  mutex,        \* the load that holds gCompileWorkingDirMutex, if any
  pc,           \* where each load is
  attempt,      \* bitcode first, textual IR after a failure
  argDir,       \* where the process was when the arguments of a load were built
  saved,        \* ScopedCurrentPath::previousPath_ of each load
  res           \* the result of the last compilation of each load

cwdVars == <<config, workingDir, text, existing, cwd, mutex, pc, attempt, argDir, saved, res>>

inputVars == <<config, workingDir, text, existing>>

\* resolveConfiguredJobs in src/src/app/AnalyzerApp.cpp.
ResolvedJobs ==
  LET jobs == IF config.jobsAuto THEN config.hardware ELSE config.jobs
  IN  IF jobs = 0 THEN 1 ELSE jobs

\* A load between taking and leaving the directory of its command.
Inside(f) == pc[f] \in {"inside", "restore"}

Started == {f \in Files : pc[f] \notin {"waiting", "done"}}

\* What compilerlib::compile makes of f in the current directory.
Compiled(f) ==
  IF f \in RelativeFiles /\ workingDir[f] # NoDir /\ argDir[f] # BaseDir
  THEN Failed ELSE text[f][cwd]

\* Mutated Guarded: the fallback is never taken.
GuardedNever(f) == FALSE

\* config.jobs > 1 && hasWorkingDir.
Guarded(f) == config.jobs > 1 /\ workingDir[f] # NoDir

\* Where compileWithConfiguredWorkingDir starts.
Entry(f) ==
  IF Guarded(f) THEN "optimistic"
  ELSE IF workingDir[f] # NoDir THEN "save" ELSE "plain"

CwdInit ==
  /\ config \in Settings
  /\ workingDir \in [Files -> Dirs \cup {NoDir}]
  /\ text \in [Files -> [Dirs -> Texts \cup {Failed}]]
  /\ existing \in {D \in SUBSET Dirs : BaseDir \in D}
  /\ cwd = BaseDir
  /\ mutex = Nobody
  /\ pc = [f \in Files |-> "waiting"]
  /\ attempt \in {[f \in Files |-> first] : first \in {"bitcode", "text"}}
  /\ argDir = [f \in Files |-> BaseDir]
  /\ saved = [f \in Files |-> BaseDir]
  /\ res = [f \in Files |-> Failed]

-----------------------------------------------------------------------------
\* A thread takes the input and buildCompileArgs makes its path absolute.
Start(f) ==
  /\ pc[f] = "waiting"
  /\ Cardinality(Started) < ResolvedJobs
  /\ pc' = [pc EXCEPT ![f] = Entry(f)]
  /\ argDir' = IF f \in RelativeFiles THEN [argDir EXCEPT ![f] = cwd] ELSE argDir
  /\ UNCHANGED <<inputVars, cwd, mutex, attempt, saved, res>>

\* compileWithConfiguredWorkingDir has returned r: a bitcode attempt that fails,
\* or whose output cannot be read, is repeated once for textual IR; anything
\* else ends the load.
Return(f, r) ==
  /\ res' = [res EXCEPT ![f] = r]
  /\ \/ /\ attempt[f] = "bitcode"
        /\ attempt' = [attempt EXCEPT ![f] = "text"]
        /\ pc' = [pc EXCEPT ![f] = Entry(f)]
     \/ /\ attempt[f] = "text" \/ r # Failed
        /\ pc' = [pc EXCEPT ![f] = "done"]
        /\ UNCHANGED attempt

\* useWorkingDir is false and no retry will follow.
CompilePlain(f) ==
  /\ pc[f] = "plain"
  /\ Return(f, Compiled(f))
  /\ UNCHANGED <<inputVars, cwd, mutex, saved, argDir>>

\* The optimistic fast path of multi-job runs: wherever the process happens to be.
CompileOptimistic(f) ==
  /\ pc[f] = "optimistic"
  /\ \/ /\ Compiled(f) # Failed
        /\ Return(f, Compiled(f))
     \/ /\ Compiled(f) = Failed
        /\ pc' = [pc EXCEPT ![f] = "lock"]
        /\ UNCHANGED <<attempt, res>>
  /\ UNCHANGED <<inputVars, cwd, mutex, saved, argDir>>

\* Mutated Lock: the guard is taken without waiting.
LockWithoutWaiting(f) ==
  /\ pc[f] = "lock"
  /\ mutex' = f
  /\ pc' = [pc EXCEPT ![f] = "save"]
  /\ UNCHANGED <<inputVars, cwd, attempt, saved, res, argDir>>

\* std::lock_guard<std::mutex> lock(gCompileWorkingDirMutex).
Lock(f) ==
  /\ pc[f] = "lock"
  /\ mutex = Nobody
  /\ mutex' = f
  /\ pc' = [pc EXCEPT ![f] = "save"]
  /\ UNCHANGED <<inputVars, cwd, attempt, saved, res, argDir>>

\* The constructor of ScopedCurrentPath reads the current directory ...
SaveCwd(f) ==
  /\ pc[f] = "save"
  /\ saved' = [saved EXCEPT ![f] = cwd]
  /\ pc' = [pc EXCEPT ![f] = "chdir"]
  /\ UNCHANGED <<inputVars, cwd, mutex, attempt, res, argDir>>

\* ... and changes it; if that fails nothing is compiled or restored.
ChangeDir(f) ==
  /\ pc[f] = "chdir"
  /\ \/ /\ workingDir[f] \in existing
        /\ cwd' = workingDir[f]
        /\ pc' = [pc EXCEPT ![f] = "inside"]
        /\ UNCHANGED res
     \/ /\ workingDir[f] \notin existing
        /\ res' = [res EXCEPT ![f] = Failed]
        /\ pc' = [pc EXCEPT ![f] = "leave"]
        /\ UNCHANGED cwd
  /\ UNCHANGED <<inputVars, mutex, attempt, saved, argDir>>

CompileInside(f) ==
  /\ pc[f] = "inside"
  /\ res' = [res EXCEPT ![f] = Compiled(f)]
  /\ pc' = [pc EXCEPT ![f] = "restore"]
  /\ UNCHANGED <<inputVars, cwd, mutex, attempt, saved, argDir>>

\* Mutated Restore: the destructor goes back to the directory it is in.
RestoreNothing(f) ==
  /\ pc[f] = "restore"
  /\ pc' = [pc EXCEPT ![f] = "leave"]
  /\ UNCHANGED <<inputVars, cwd, mutex, attempt, saved, res, argDir>>

\* ~ScopedCurrentPath.
Restore(f) ==
  /\ pc[f] = "restore"
  /\ cwd' = saved[f]
  /\ pc' = [pc EXCEPT ![f] = "leave"]
  /\ UNCHANGED <<inputVars, mutex, attempt, saved, res, argDir>>

\* Mutated Leave: a failed compilation leaves with the mutex held.
LeaveLocked(f) ==
  /\ pc[f] = "leave"
  /\ Return(f, res[f])
  /\ mutex' = IF mutex = f /\ res[f] # Failed THEN Nobody ELSE mutex
  /\ UNCHANGED <<inputVars, cwd, saved, argDir>>

\* The lock guard, where there is one, is destroyed and the lambda returns.
Leave(f) ==
  /\ pc[f] = "leave"
  /\ Return(f, res[f])
  /\ mutex' = IF mutex = f THEN Nobody ELSE mutex
  /\ UNCHANGED <<inputVars, cwd, saved, argDir>>

Load(f) ==
  \/ Start(f)
  \/ CompilePlain(f)
  \/ CompileOptimistic(f)
  \/ Lock(f)
  \/ SaveCwd(f)
  \/ ChangeDir(f)
  \/ CompileInside(f)
  \/ Restore(f)
  \/ Leave(f)

CwdNext == \E f \in Files : Load(f)

CwdSpec == CwdInit /\ [][CwdNext]_cwdVars

\* Every loading thread runs on; the mutex is handed to a waiting thread sooner
\* or later, which lock_guard does not promise in every schedule but each load
\* takes it at most twice, so weak fairness is enough.
FairCwdSpec == CwdSpec /\ \A f \in Files : WF_cwdVars(Load(f))

-----------------------------------------------------------------------------
(* Type invariant of the loading threads.                                  *)
CwdTypeOK ==
  /\ config \in Settings
  /\ workingDir \in [Files -> Dirs \cup {NoDir}]
  /\ text \in [Files -> [Dirs -> Texts \cup {Failed}]]
  /\ existing \subseteq Dirs
  /\ cwd \in Dirs
  /\ mutex \in Files \cup {Nobody}
  /\ pc \in [Files -> {"waiting", "plain", "optimistic", "lock", "save", "chdir", "inside",
                       "restore", "leave", "done"}]
  /\ attempt \in [Files -> {"bitcode", "text"}]
  /\ argDir \in [Files -> Dirs]
  /\ saved \in [Files -> Dirs]
  /\ res \in [Files -> Texts \cup {Failed}]

(* A thread that compiles under ScopedCurrentPath compiles in the          *)
(* directory of its own command: nobody moves the process while it does.   *)
CompilesInOwnDir == \A f \in Files : Inside(f) => cwd = workingDir[f]

(* Outside every guarded section the process is where it was started, so   *)
(* nothing that resolves a relative path later (the IR dump, the caches,   *)
(* the report files) is misled: in particular once all loads are done.     *)
CwdRestored == (\A f \in Files : ~Inside(f)) => cwd = BaseDir

\* One load at a time, by an explicit --jobs=1.
OneJob == config.jobs <= 1 /\ ~config.jobsAuto

(* "Fallback keeps correctness for relative include paths": an input that  *)
(* compiles in the directory of its command is never reported as failed.   *)
(* With several jobs this leaves out the inputs named by a relative path,  *)
(* which buildCompileArgs resolves outside the mutex.  With one job what   *)
(* is analysed is what the command gives in its own directory; with        *)
(* several the optimistic compilation may find another command's files.    *)
FallbackFindsOwnDir ==
  \A f \in Files :
    /\ f \notin RelativeFiles \/ OneJob
    /\ pc[f] = "done"
    /\ workingDir[f] \in existing
    /\ text[f][workingDir[f]] # Failed
    => res[f] # Failed /\ (OneJob => res[f] = text[f][workingDir[f]])

(* Every load ends: no thread is left waiting for the mutex.               *)
LoadsEnd == \A f \in Files : <>(pc[f] = "done")

\* A load that works with the directory of the process.
InSection(f) == pc[f] \in {"save", "chdir", "inside", "restore", "leave"}

(* The inductive invariant for runs with an explicit number of jobs: a     *)
(* load works with the directory alone, because it holds the mutex or      *)
(* because it is the only one, and the directory it saved is the one the   *)
(* process was started in.                                                 *)
SectionExclusive ==
  /\ config.jobs > 1 => \A f \in Files : InSection(f) => mutex = f
  /\ config.jobs <= 1 => \A f, g \in Started : f = g

SavedIsBase ==
  \A f \in Files : pc[f] \in {"chdir", "inside", "restore"} => saved[f] = BaseDir

NeedsDir ==
  \A f \in Files :
    /\ pc[f] \in {"optimistic", "lock"} => Guarded(f)
    /\ InSection(f) => workingDir[f] # NoDir

CwdIInv ==
  /\ CwdTypeOK
  /\ SectionExclusive
  /\ SavedIsBase
  /\ NeedsDir
  /\ CompilesInOwnDir
  /\ CwdRestored
=============================================================================
