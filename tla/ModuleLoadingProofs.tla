---------------------- MODULE ModuleLoadingProofs ----------------------
(***************************************************************************)
(* The two halves of loading a module from a source file, each for every   *)
(* value of its constants: the compilation in the working directory of its *)
(* command, and the cache entry that may stand in for it.  They share no   *)
(* state: the first part speaks of CwdSpec, the second of CacheSpec.       *)
(*                                                                         *)
(* Working directory, with an explicit --jobs, whatever the compiler does: *)
(* a thread that has changed the directory compiles in its own, and        *)
(* outside those sections the process is where it was started.  The        *)
(* inductive invariant is CwdIInv: whoever works with the directory works  *)
(* alone, for a different reason with one job and with several.            *)
(*                                                                         *)
(* Cache entry, used by one process at a time: whatever is edited, crashes *)
(* or fails to be written, the entry never serves a module of another      *)
(* version.  Versions only grow: stamps that are current now were current  *)
(* all along, so whatever was compiled or written under them is too.       *)
(***************************************************************************)
EXTENDS CompileCwd, CompileIRCache, FiniteSetTheorems, TLAPS

-----------------------------------------------------------------------------
\* The working directory.


\* No setting of jobs is left to the hardware.
ExplicitSettings == \A s \in Settings : ~s.jobsAuto

(* Nothing has moved when loading starts.                                  *)
LEMMA CwdInitIInv == CwdInit => CwdIInv
BY CwdAssumption
   DEF CwdInit, CwdIInv, CwdTypeOK, SectionExclusive, SavedIsBase, NeedsDir, CompilesInOwnDir,
       CwdRestored, Inside, InSection, Started

(* With an explicit number of jobs the first load under way waits for      *)
(* nobody, and with one job it is the only one.                            *)
LEMMA StartAlone ==
  ASSUME ExplicitSettings, CwdTypeOK, config.jobs <= 1,
         Cardinality(Started) < ResolvedJobs
  PROVE  Started = {}
<1>1. ResolvedJobs = 1
  <2>1. config \in Settings /\ config.jobs \in Nat
    BY CwdAssumption DEF CwdTypeOK
  <2>2. ~config.jobsAuto
    BY <2>1 DEF ExplicitSettings
  <2>3. config.jobs = 0 \/ config.jobs = 1
    BY <2>1
  <2> QED BY <2>2, <2>3 DEF ResolvedJobs
<1>2. IsFiniteSet(Started) /\ Cardinality(Started) \in Nat
  <2>1. IsFiniteSet(Started)
    BY CwdAssumption, FS_Subset DEF Started
  <2> QED BY <2>1, FS_CardinalityType
<1>3. Cardinality(Started) = 0
  BY <1>1, <1>2
<1> QED BY <1>2, <1>3, FS_EmptySet

(* A load works with the directory alone.                                  *)
LEMMA SectionAlone ==
  ASSUME CwdIInv, NEW f \in Files, InSection(f), NEW g \in Files, g # f
  PROVE  ~InSection(g)
<1>1. config.jobs \in Nat
  BY CwdAssumption DEF CwdIInv, CwdTypeOK
<1>2. CASE config.jobs > 1
  BY <1>2 DEF CwdIInv, SectionExclusive
<1>3. CASE config.jobs <= 1
  BY <1>3 DEF CwdIInv, SectionExclusive, Started, InSection
<1> QED BY <1>1, <1>2, <1>3

(* Where a compilation starts.                                             *)
LEMMA EntryCases ==
  ASSUME CwdTypeOK, NEW f \in Files
  PROVE  /\ Entry(f) \in {"plain", "optimistic", "save"}
         /\ Entry(f) = "optimistic" => Guarded(f)
         /\ Entry(f) = "save" => config.jobs <= 1 /\ workingDir[f] # NoDir
<1>1. config.jobs \in Nat
  BY CwdAssumption DEF CwdTypeOK
<1> QED BY <1>1 DEF Entry, Guarded

(* A load that moves to a point where it is not yet in the directory of    *)
(* its command, and leaves the process where it is, keeps the invariant.   *)
LEMMA QuietMove ==
  ASSUME CwdIInv, NEW f \in Files,
         NEW p \in {"plain", "optimistic", "lock", "save", "done"},
         p \in {"optimistic", "lock"} => Guarded(f),
         p = "save" => workingDir[f] # NoDir /\ (config.jobs > 1 => mutex' = f),
         ~Inside(f),
         config.jobs <= 1 => \A g \in Started : g = f,
         \A g \in Files \ {f} : config.jobs > 1 /\ InSection(g) => mutex' = mutex,
         pc' = [pc EXCEPT ![f] = p],
         mutex' \in Files \cup {Nobody},
         attempt' \in [Files -> {"bitcode", "text"}],
         argDir' \in [Files -> Dirs],
         res' \in [Files -> Texts \cup {Failed}],
         UNCHANGED <<inputVars, cwd, saved>>
  PROVE  CwdIInv'
<1>1. CwdTypeOK'
  BY DEF CwdIInv, CwdTypeOK, inputVars
<1>2. \A g \in Files : pc'[g] = IF g = f THEN p ELSE pc[g]
  BY DEF CwdIInv, CwdTypeOK
<1>3. SectionExclusive'
  BY <1>2 DEF CwdIInv, SectionExclusive, InSection, Started, inputVars
<1>4. SavedIsBase' /\ NeedsDir'
  BY <1>2 DEF CwdIInv, SavedIsBase, NeedsDir, Guarded, InSection, inputVars
<1>5. CompilesInOwnDir' /\ CwdRestored'
  BY <1>2 DEF CwdIInv, CompilesInOwnDir, CwdRestored, Inside, inputVars
<1> QED BY <1>1, <1>3, <1>4, <1>5 DEF CwdIInv

(* What compileWithConfiguredWorkingDir does when it returns.              *)
LEMMA ReturnMoves ==
  ASSUME CwdTypeOK, NEW f \in Files, NEW r \in Texts \cup {Failed}, Return(f, r)
  PROVE  /\ res' \in [Files -> Texts \cup {Failed}]
         /\ attempt' \in [Files -> {"bitcode", "text"}]
         /\ \E p \in {Entry(f), "done"} : pc' = [pc EXCEPT ![f] = p]
BY DEF Return, CwdTypeOK

(* Every step of a load keeps the invariant.                               *)
LEMMA CwdNextIInv ==
  ASSUME ExplicitSettings, CwdIInv, [CwdNext]_cwdVars
  PROVE  CwdIInv'
<1> USE CwdAssumption
<1> USE DEF CwdIInv
<1>t. config.jobs \in Nat /\ mutex \in Files \cup {Nobody}
  BY DEF CwdTypeOK
<1>1. ASSUME NEW f \in Files, Start(f) PROVE CwdIInv'
  <2>1. config.jobs <= 1 => Started = {}
    BY <1>1, StartAlone DEF Start
  <2>2. argDir' \in [Files -> Dirs]
    BY <1>1 DEF Start, CwdTypeOK
  <2>3. /\ pc[f] = "waiting" /\ pc' = [pc EXCEPT ![f] = Entry(f)]
        /\ UNCHANGED <<inputVars, cwd, mutex, attempt, saved, res>>
    BY <1>1 DEF Start
  <2>4. ~Inside(f) /\ attempt' \in [Files -> {"bitcode", "text"}]
          /\ res' \in [Files -> Texts \cup {Failed}]
    BY <2>3 DEF Inside, CwdTypeOK
  <2> DEFINE p == Entry(f)
  <2>5. /\ p \in {"plain", "optimistic", "lock", "save", "done"}
        /\ p \in {"optimistic", "lock"} => Guarded(f)
        /\ p = "save" => workingDir[f] # NoDir /\ (config.jobs > 1 => mutex' = f)
    BY <1>t, EntryCases
  <2> HIDE DEF p
  <2> QED BY <1>t, <2>1, <2>2, <2>3, <2>4, <2>5, QuietMove DEF p
<1>2. ASSUME NEW f \in Files, NEW r \in Texts \cup {Failed}, Return(f, r),
             pc[f] \in {"plain", "optimistic", "leave"},
             mutex' = IF pc[f] = "leave" /\ mutex = f THEN Nobody ELSE mutex,
             UNCHANGED <<inputVars, cwd, saved, argDir>>
      PROVE  CwdIInv'
  <2>1. PICK p \in {Entry(f), "done"} : pc' = [pc EXCEPT ![f] = p]
    BY <1>2, ReturnMoves
  <2>2. /\ p \in {"plain", "optimistic", "lock", "save", "done"}
        /\ p \in {"optimistic", "lock"} => Guarded(f)
        /\ p = "save" => workingDir[f] # NoDir /\ (config.jobs > 1 => mutex' = f)
    BY <1>t, EntryCases
  <2>3. res' \in [Files -> Texts \cup {Failed}] /\ attempt' \in [Files -> {"bitcode", "text"}]
    BY <1>2, ReturnMoves
  <2>4. ~Inside(f) /\ f \in Started /\ argDir' \in [Files -> Dirs]
    BY <1>2 DEF Inside, Started, CwdTypeOK
  <2>5. \A g \in Files \ {f} : config.jobs > 1 /\ InSection(g) => mutex' = mutex
    BY <1>2 DEF SectionExclusive
  <2>6. config.jobs <= 1 => \A g \in Started : g = f
    BY <2>4 DEF SectionExclusive
  <2>7. mutex' \in Files \cup {Nobody}
    BY <1>2, <1>t
  <2> QED BY <1>2, <2>1, <2>2, <2>3, <2>4, <2>5, <2>6, <2>7, QuietMove
<1>3. ASSUME NEW f \in Files, CompilePlain(f) \/ CompileOptimistic(f) PROVE CwdIInv'
  <2>1. Compiled(f) \in Texts \cup {Failed}
    BY DEF Compiled, CwdTypeOK
  <2>2. CASE Return(f, Compiled(f))
    BY <1>2, <1>3, <2>1, <2>2 DEF CompilePlain, CompileOptimistic
  <2>3. CASE ~Return(f, Compiled(f))
    <3>1. /\ pc[f] = "optimistic" /\ pc' = [pc EXCEPT ![f] = "lock"]
          /\ UNCHANGED <<inputVars, cwd, mutex, attempt, saved, res, argDir>>
      BY <1>3, <2>3 DEF CompilePlain, CompileOptimistic
    <3>2. /\ Guarded(f) /\ ~Inside(f) /\ f \in Started
          /\ attempt \in [Files -> {"bitcode", "text"}] /\ argDir \in [Files -> Dirs]
          /\ res \in [Files -> Texts \cup {Failed}]
      BY <3>1 DEF NeedsDir, Inside, Started, CwdTypeOK
    <3>3. config.jobs <= 1 => \A g \in Started : g = f
      BY <3>2 DEF SectionExclusive
    <3> QED BY <1>t, <3>1, <3>2, <3>3, QuietMove
  <2> QED BY <2>2, <2>3
<1>4. ASSUME NEW f \in Files, Lock(f) PROVE CwdIInv'
  <2>1. /\ pc[f] = "lock" /\ mutex = Nobody /\ mutex' = f /\ pc' = [pc EXCEPT ![f] = "save"]
        /\ UNCHANGED <<inputVars, cwd, attempt, saved, res, argDir>>
    BY <1>4 DEF Lock
  <2>2. /\ Guarded(f) /\ workingDir[f] # NoDir /\ ~Inside(f) /\ f \in Started
        /\ attempt \in [Files -> {"bitcode", "text"}] /\ argDir \in [Files -> Dirs]
        /\ res \in [Files -> Texts \cup {Failed}]
    BY <2>1 DEF NeedsDir, Inside, Started, CwdTypeOK, Guarded
  <2>3. \A g \in Files : config.jobs > 1 => ~InSection(g)
    BY <2>1 DEF SectionExclusive
  <2>4. config.jobs <= 1 => \A g \in Started : g = f
    BY <2>2 DEF SectionExclusive
  <2> QED BY <2>1, <2>2, <2>3, <2>4, QuietMove
<1>5. ASSUME NEW f \in Files, SaveCwd(f) PROVE CwdIInv'
  <2>1. cwd = BaseDir
    <3>1. \A g \in Files : ~Inside(g)
      BY <1>5, SectionAlone DEF SaveCwd, InSection, Inside
    <3> QED BY <3>1 DEF CwdRestored
  <2> QED
    BY <1>5, <2>1
       DEF SaveCwd, inputVars, CwdTypeOK, SectionExclusive, SavedIsBase, NeedsDir, CompilesInOwnDir,
           CwdRestored, Inside, InSection, Started, Guarded
<1>6. ASSUME NEW f \in Files, ChangeDir(f) PROVE CwdIInv'
  <2>1. InSection(f) /\ workingDir[f] \in Dirs
    BY <1>6 DEF ChangeDir, InSection, NeedsDir, CwdTypeOK
  <2>2. \A g \in Files : g # f => ~Inside(g)
    BY <2>1, SectionAlone DEF InSection, Inside
  <2>3. cwd = BaseDir
    BY <1>6, <2>2 DEF ChangeDir, CwdRestored, Inside
  <2>4. PICK p \in {"inside", "leave"} :
          /\ pc[f] = "chdir" /\ pc' = [pc EXCEPT ![f] = p]
          /\ cwd' = IF p = "inside" THEN workingDir[f] ELSE cwd
          /\ res' \in [Files -> Texts \cup {Failed}]
          /\ UNCHANGED <<inputVars, mutex, attempt, saved, argDir>>
    BY <1>6 DEF ChangeDir, CwdTypeOK
  <2>5. \A g \in Files : pc'[g] = IF g = f THEN p ELSE pc[g]
    BY <2>4 DEF CwdTypeOK
  <2>6. CwdTypeOK'
    BY <2>1, <2>4 DEF inputVars, CwdTypeOK
  <2>7. SectionExclusive' /\ SavedIsBase' /\ NeedsDir'
    BY <2>4, <2>5 DEF inputVars, SectionExclusive, SavedIsBase, NeedsDir, InSection, Started, Guarded
  <2>8. CompilesInOwnDir' /\ CwdRestored'
    BY <2>2, <2>3, <2>4, <2>5 DEF inputVars, CompilesInOwnDir, CwdRestored, Inside
  <2> QED BY <2>6, <2>7, <2>8
<1>7. ASSUME NEW f \in Files, CompileInside(f) PROVE CwdIInv'
  <2>1. Compiled(f) \in Texts \cup {Failed}
    BY <1>7 DEF Compiled, CwdTypeOK
  <2> QED
    BY <1>7, <2>1
       DEF CompileInside, inputVars, CwdTypeOK, SectionExclusive, SavedIsBase, NeedsDir,
           CompilesInOwnDir, CwdRestored, Inside, InSection, Started, Guarded
<1>8. ASSUME NEW f \in Files, Restore(f) PROVE CwdIInv'
  <2>1. InSection(f) /\ saved[f] = BaseDir
    BY <1>8 DEF Restore, InSection, SavedIsBase
  <2>2. \A g \in Files : g # f => ~Inside(g)
    BY <2>1, SectionAlone DEF InSection, Inside
  <2> QED
    BY <1>8, <2>1, <2>2
       DEF Restore, inputVars, CwdTypeOK, SectionExclusive, SavedIsBase, NeedsDir, CompilesInOwnDir,
           CwdRestored, Inside, InSection, Started, Guarded
<1>9. ASSUME NEW f \in Files, Leave(f) PROVE CwdIInv'
  <2>1. res[f] \in Texts \cup {Failed}
    BY DEF CwdTypeOK
  <2> QED BY <1>2, <1>9, <2>1 DEF Leave
<1>10. CASE UNCHANGED cwdVars
  BY <1>10
     DEF cwdVars, CwdTypeOK, SectionExclusive, SavedIsBase, NeedsDir, CompilesInOwnDir, CwdRestored,
         Inside, InSection, Started, Guarded
<1> QED BY <1>1, <1>3, <1>4, <1>5, <1>6, <1>7, <1>8, <1>9, <1>10 DEF CwdNext, Load

(* With an explicit number of jobs every compilation under                 *)
(* ScopedCurrentPath runs in the directory of its own command.             *)
THEOREM GuardedCompilesInOwnDir ==
  ASSUME ExplicitSettings PROVE CwdSpec => []CompilesInOwnDir
<1>1. CwdIInv /\ [CwdNext]_cwdVars => CwdIInv'
  BY CwdNextIInv
<1>2. CwdIInv => CompilesInOwnDir
  BY DEF CwdIInv
<1> QED BY CwdInitIInv, <1>1, <1>2, PTL DEF CwdSpec

(* ... and outside those compilations the process is where it started.     *)
THEOREM GuardedCwdRestored ==
  ASSUME ExplicitSettings PROVE CwdSpec => []CwdRestored
<1>1. CwdIInv /\ [CwdNext]_cwdVars => CwdIInv'
  BY CwdNextIInv
<1>2. CwdIInv => CwdRestored
  BY DEF CwdIInv
<1> QED BY CwdInitIInv, <1>1, <1>2, PTL DEF CwdSpec

-----------------------------------------------------------------------------
\* The second invariant, about results: what a load holds when it leaves the
\* directory of its command.

\* An input whose path was resolved where the process was started, and whose
\* directory can be entered.
Resolvable(f) == (f \notin RelativeFiles \/ OneJob) /\ workingDir[f] \in existing

OwnDirIInv ==
  /\ OneJob => \A f \in Files : argDir[f] = BaseDir
  /\ \A f \in Files : pc[f] = "plain" => workingDir[f] = NoDir
  /\ \A f \in Files : pc[f] \in {"restore", "leave"} /\ Resolvable(f) =>
                        res[f] = text[f][workingDir[f]]
  /\ FallbackFindsOwnDir

(* A compilation that returns r and ends its load has found what the       *)
(* command gives in its own directory.                                     *)
LEMMA ReturnKeepsOwnDir ==
  ASSUME CwdTypeOK, OwnDirIInv, NEW f \in Files, NEW r \in Texts \cup {Failed}, Return(f, r),
         pc[f] # "done", UNCHANGED <<inputVars, argDir>>,
         Resolvable(f) /\ text[f][workingDir[f]] # Failed =>
           r # Failed /\ (OneJob => r = text[f][workingDir[f]])
  PROVE  OwnDirIInv'
<1>1. PICK p \in {Entry(f), "done"} : pc' = [pc EXCEPT ![f] = p]
  BY ReturnMoves
<1>2. Entry(f) \in {"plain", "optimistic", "save"} /\ (Entry(f) = "plain" => workingDir[f] = NoDir)
  BY DEF Entry
<1>3. res' = [res EXCEPT ![f] = r] /\ OneJob' = OneJob
  BY DEF Return, OneJob, inputVars
<1>4. \A g \in Files : /\ pc'[g] = IF g = f THEN p ELSE pc[g]
                       /\ res'[g] = IF g = f THEN r ELSE res[g]
  BY <1>1, <1>3 DEF CwdTypeOK
<1>5. (OneJob => \A g \in Files : argDir[g] = BaseDir)'
        /\ \A g \in Files : pc'[g] = "plain" => workingDir'[g] = NoDir
  BY <1>2, <1>3, <1>4 DEF OwnDirIInv, inputVars
<1>6. ASSUME NEW g \in Files, pc'[g] \in {"restore", "leave"}, Resolvable(g)'
      PROVE  res'[g] = text'[g][workingDir'[g]]
  BY <1>1, <1>2, <1>3, <1>4, <1>6 DEF OwnDirIInv, Resolvable, inputVars
<1>7. FallbackFindsOwnDir'
  <2> SUFFICES ASSUME NEW g \in Files, g \notin RelativeFiles \/ OneJob, pc'[g] = "done",
                      workingDir[g] \in existing, text[g][workingDir[g]] # Failed
               PROVE  res'[g] # Failed /\ (OneJob => res'[g] = text[g][workingDir[g]])
    BY <1>3 DEF FallbackFindsOwnDir, inputVars
  <2>1. CASE g = f
    BY <1>4, <2>1 DEF Resolvable
  <2>2. CASE g # f
    BY <1>4, <2>2 DEF OwnDirIInv, FallbackFindsOwnDir
  <2> QED BY <2>1, <2>2
<1> QED BY <1>5, <1>6, <1>7 DEF OwnDirIInv

(* A step that neither ends a load nor enters its last part.               *)
LEMMA MoveKeepsOwnDir ==
  ASSUME CwdTypeOK, OwnDirIInv, NEW f \in Files,
         NEW p \in {"plain", "optimistic", "lock", "save", "chdir", "inside", "restore", "leave"},
         pc' = [pc EXCEPT ![f] = p],
         p = "plain" => workingDir[f] = NoDir,
         \A g \in Files : g # f => res'[g] = res[g],
         p \in {"restore", "leave"} /\ Resolvable(f) => res'[f] = text[f][workingDir[f]],
         OneJob => \A g \in Files : argDir'[g] = BaseDir,
         UNCHANGED inputVars
  PROVE  OwnDirIInv'
<1>1. \A g \in Files : pc'[g] = IF g = f THEN p ELSE pc[g]
  BY DEF CwdTypeOK
<1>2. OneJob' = OneJob /\ \A g \in Files : Resolvable(g)' = Resolvable(g)
  BY DEF OneJob, Resolvable, inputVars
<1>3. (OneJob => \A g \in Files : argDir[g] = BaseDir)'
        /\ \A g \in Files : pc'[g] = "plain" => workingDir'[g] = NoDir
  BY <1>1, <1>2 DEF OwnDirIInv, inputVars
<1>4. \A g \in Files : pc'[g] \in {"restore", "leave"} /\ Resolvable(g)' =>
                         res'[g] = text'[g][workingDir'[g]]
  BY <1>1, <1>2 DEF OwnDirIInv, inputVars
<1>5. FallbackFindsOwnDir'
  BY <1>1, <1>2 DEF OwnDirIInv, FallbackFindsOwnDir, inputVars
<1> QED BY <1>3, <1>4, <1>5 DEF OwnDirIInv

(* Every step keeps the second invariant.                                  *)
LEMMA OwnDirNext ==
  ASSUME ExplicitSettings, CwdIInv, OwnDirIInv, [CwdNext]_cwdVars
  PROVE  OwnDirIInv'
<1>t. CwdTypeOK /\ config.jobs \in Nat /\ NoDir \notin existing
  BY CwdAssumption DEF CwdIInv, CwdTypeOK
<1>j. OneJob => \A f \in Files : argDir[f] = BaseDir
  BY DEF OwnDirIInv
<1>1. ASSUME NEW f \in Files, Start(f) PROVE OwnDirIInv'
  <2>1. Entry(f) \in {"plain", "optimistic", "save"} /\ (Entry(f) = "plain" => workingDir[f] = NoDir)
    BY DEF Entry
  <2>2. OneJob => cwd = BaseDir
    <3>1. OneJob => Started = {}
      BY <1>1, <1>t, StartAlone DEF Start, OneJob
    <3>2. OneJob => \A g \in Files : ~Inside(g)
      BY <3>1 DEF Started, Inside
    <3> QED BY <3>2 DEF CwdIInv, CwdRestored
  <2>3. OneJob => \A g \in Files : argDir'[g] = BaseDir
    BY <1>1, <1>t, <1>j, <2>2 DEF Start, CwdTypeOK
  <2>4. pc' = [pc EXCEPT ![f] = Entry(f)] /\ UNCHANGED <<inputVars, res>>
    BY <1>1 DEF Start
  <2> QED BY <1>t, <2>1, <2>3, <2>4, MoveKeepsOwnDir
<1>2. ASSUME NEW f \in Files, CompilePlain(f) PROVE OwnDirIInv'
  <2>1. Compiled(f) \in Texts \cup {Failed}
    BY <1>t DEF Compiled, CwdTypeOK
  <2>2. ~Resolvable(f) /\ pc[f] # "done"
    BY <1>2, <1>t DEF CompilePlain, OwnDirIInv, Resolvable
  <2> QED BY <1>2, <1>t, <2>1, <2>2, ReturnKeepsOwnDir DEF CompilePlain
<1>3. ASSUME NEW f \in Files, CompileOptimistic(f) PROVE OwnDirIInv'
  <2>1. Compiled(f) \in Texts \cup {Failed}
    BY <1>t DEF Compiled, CwdTypeOK
  <2>2. ~OneJob /\ pc[f] = "optimistic"
    BY <1>3, <1>t DEF CompileOptimistic, CwdIInv, NeedsDir, Guarded, OneJob
  <2>3. CASE Compiled(f) # Failed /\ Return(f, Compiled(f))
    BY <1>3, <1>t, <2>1, <2>2, <2>3, ReturnKeepsOwnDir DEF CompileOptimistic
  <2>4. CASE pc' = [pc EXCEPT ![f] = "lock"] /\ UNCHANGED res
    BY <1>3, <1>t, <2>2, <2>4, MoveKeepsOwnDir DEF CompileOptimistic
  <2> QED BY <1>3, <2>3, <2>4 DEF CompileOptimistic
<1>4. ASSUME NEW f \in Files, Lock(f) PROVE OwnDirIInv'
  <2>1. pc' = [pc EXCEPT ![f] = "save"] /\ UNCHANGED <<inputVars, res, argDir>>
    BY <1>4 DEF Lock
  <2> QED BY <1>t, <1>j, <2>1, MoveKeepsOwnDir
<1>5. ASSUME NEW f \in Files, SaveCwd(f) PROVE OwnDirIInv'
  <2>1. pc' = [pc EXCEPT ![f] = "chdir"] /\ UNCHANGED <<inputVars, res, argDir>>
    BY <1>5 DEF SaveCwd
  <2> QED BY <1>t, <1>j, <2>1, MoveKeepsOwnDir
<1>6. ASSUME NEW f \in Files, ChangeDir(f) PROVE OwnDirIInv'
  <2>0. UNCHANGED <<inputVars, argDir>>
    BY <1>6 DEF ChangeDir
  <2>1. CASE pc' = [pc EXCEPT ![f] = "inside"] /\ UNCHANGED res
    BY <1>t, <1>j, <2>0, <2>1, MoveKeepsOwnDir
  <2>2. CASE workingDir[f] \notin existing /\ pc' = [pc EXCEPT ![f] = "leave"]
               /\ res' = [res EXCEPT ![f] = Failed]
    <3>1. ~Resolvable(f) /\ \A g \in Files : g # f => res'[g] = res[g]
      BY <1>t, <2>2 DEF Resolvable, CwdTypeOK
    <3> QED BY <1>t, <1>j, <2>0, <2>2, <3>1, MoveKeepsOwnDir
  <2> QED BY <1>6, <2>1, <2>2 DEF ChangeDir
<1>7. ASSUME NEW f \in Files, CompileInside(f) PROVE OwnDirIInv'
  <2>1. /\ pc' = [pc EXCEPT ![f] = "restore"] /\ res' = [res EXCEPT ![f] = Compiled(f)]
        /\ UNCHANGED <<inputVars, argDir>>
    BY <1>7 DEF CompileInside
  <2>2. cwd = workingDir[f]
    BY <1>7 DEF CompileInside, CwdIInv, CompilesInOwnDir, Inside
  <2>3. Resolvable(f) => Compiled(f) = text[f][workingDir[f]]
    BY <1>j, <2>2 DEF Resolvable, Compiled
  <2>4. res'[f] = Compiled(f) /\ \A g \in Files : g # f => res'[g] = res[g]
    BY <1>t, <2>1 DEF CwdTypeOK
  <2> QED BY <1>t, <1>j, <2>1, <2>3, <2>4, MoveKeepsOwnDir
<1>8. ASSUME NEW f \in Files, Restore(f) PROVE OwnDirIInv'
  <2>1. pc' = [pc EXCEPT ![f] = "leave"] /\ UNCHANGED <<inputVars, res, argDir>>
    BY <1>8 DEF Restore
  <2>2. Resolvable(f) => res[f] = text[f][workingDir[f]]
    BY <1>8 DEF Restore, OwnDirIInv
  <2> QED BY <1>t, <1>j, <2>1, <2>2, MoveKeepsOwnDir
<1>9. ASSUME NEW f \in Files, Leave(f) PROVE OwnDirIInv'
  <2>1. res[f] \in Texts \cup {Failed}
    BY <1>t DEF CwdTypeOK
  <2>2. pc[f] = "leave" /\ (Resolvable(f) => res[f] = text[f][workingDir[f]])
    BY <1>9 DEF Leave, OwnDirIInv
  <2> QED BY <1>9, <1>t, <2>1, <2>2, ReturnKeepsOwnDir DEF Leave
<1>10. CASE UNCHANGED cwdVars
  BY <1>10 DEF cwdVars, OwnDirIInv, FallbackFindsOwnDir, Resolvable, OneJob
<1> QED BY <1>1, <1>2, <1>3, <1>4, <1>5, <1>6, <1>7, <1>8, <1>9, <1>10 DEF CwdNext, Load

(* With an explicit number of jobs an input that compiles in the directory *)
(* of its command is not reported as failed, however the optimistic        *)
(* compilations of compileWithConfiguredWorkingDir and the moves of the    *)
(* process interleave; with one job its result is that of its own          *)
(* directory.  Left out, as in the property: with several jobs, an input   *)
(* named by a relative path.                                               *)
THEOREM GuardedFallback ==
  ASSUME ExplicitSettings PROVE CwdSpec => []FallbackFindsOwnDir
<1>1. CwdInit => OwnDirIInv
  BY DEF CwdInit, OwnDirIInv, FallbackFindsOwnDir
<1>2. CwdIInv /\ [CwdNext]_cwdVars => CwdIInv'
  BY CwdNextIInv
<1>3. CwdIInv /\ OwnDirIInv /\ [CwdNext]_cwdVars => OwnDirIInv'
  BY OwnDirNext
<1>4. OwnDirIInv => FallbackFindsOwnDir
  BY DEF OwnDirIInv
<1> QED BY CwdInitIInv, <1>1, <1>2, <1>3, <1>4, PTL DEF CwdSpec

-----------------------------------------------------------------------------
\* The cache entry.


\* Processes use the entry one after the other: a process that ends is modelled
\* by its last state, and the next one by the same process starting a load.
OneProcess == \A p, q \in Procs : p = q

-----------------------------------------------------------------------------
\* The inductive invariant.

Writing == {"store", "write bc", "write ll", "write meta"}
HoldingModule == {"header", "snapshot"} \cup Writing

Modules == [kind : {"ir"}, source : Nat, header : Nat]
Metas == [kind : {"meta"}, source : Nat, header : Nat]

Locals == [pc : {"idle", "lookup", "payload", "hit", "compile", "done"} \cup HoldingModule,
           loads : Nat, ir : Modules \cup {None}, checked : Modules \cup {None},
           stamps : Metas \cup {None}, text : BOOLEAN]

CacheTypeOK ==
  /\ source \in 0..MaxEdits /\ header \in 0..MaxEdits
  /\ format \in {"bc", "ll"}
  /\ meta \in Metas \cup {Torn}
  /\ bc \in Modules \cup {Torn, Empty} /\ ll \in Modules \cup {Torn, Empty}
  /\ proc \in [Procs -> Locals]
  /\ warm \in BOOLEAN

\* Stamps of versions that are on disk, or were.
Past(m) ==
  m.kind = "meta" => m.source <= source /\ (m.header = NoHeader \/ m.header <= header)

\* Stamps that name the header exactly when their source includes it.
Honest(m) == m.kind = "meta" => (m.header # NoHeader <=> m.source \in Including)

\* isSnapshotCurrent for every stamp of m.
Current(m) ==
  m.kind = "meta" /\ m.source = source /\ (m.header # NoHeader => m.header = header)

\* A file that holds a module holds what the unit compiles to now.
Right(file) == file.kind = "ir" => file = IR(source, header)

\* Current stamps stand beside current modules only.
EntryIInv == Past(meta) /\ Honest(meta) /\ (Current(meta) => Right(bc) /\ Right(ll))

\* The module a process with locals l holds, against the stamps on disk and the
\* stamps it holds.
CompiledIInv(l) ==
  /\ l.pc \in HoldingModule => l.ir.kind = "ir" /\ (Current(meta) => Right(l.ir))
  /\ l.pc = "header" => l.ir.source = source
  /\ l.pc = "snapshot" =>
       l.ir = IR(source, header) /\ dep = [kind |-> "dep", source |-> source]
  /\ l.pc \in Writing =>
       /\ l.stamps.kind = "meta" /\ Past(l.stamps) /\ Honest(l.stamps)
       /\ Current(l.stamps) => Right(l.ir)

\* The files of the entry while they are written one by one.
FilesIInv(l) ==
  /\ l.pc = "write bc" => bc = Torn
  /\ l.pc = "write ll" => ll = Torn /\ (Current(l.stamps) => Right(bc))
  /\ l.pc = "write meta" /\ Current(l.stamps) => Right(bc) /\ Right(ll)

\* The files once their stamps have been found current, whatever is edited since.
CheckedIInv(l) ==
  /\ l.pc = "payload" => \A file \in {bc, ll} : file.kind = "ir" => file = l.checked
  /\ l.pc = "hit" => l.ir = l.checked

\* A complete entry for the versions on disk is there to be found.
WarmIInv(l) ==
  warm => /\ Current(meta)
          /\ bc.kind = "ir" \/ ll.kind = "ir"
          /\ l.pc \in {"idle", "lookup", "payload", "hit", "done"}

LoadIInv(l) == CompiledIInv(l) /\ FilesIInv(l) /\ CheckedIInv(l) /\ WarmIInv(l)

CacheIInv == CacheTypeOK /\ EntryIInv /\ \A p \in Procs : LoadIInv(proc[p])

-----------------------------------------------------------------------------
(* Versions only grow: an edit outdates stamps of the past, unless what it *)
(* edits is a header that the unit does not include.                       *)
LEMMA EditsOutdate ==
  ASSUME CacheTypeOK, EditSource \/ EditHeader,
         NEW m \in Metas, Past(m), Honest(m)
  PROVE  /\ m.source <= source' /\ (m.header = NoHeader \/ m.header <= header')
         /\ m.source = source' /\ (m.header # NoHeader => m.header = header') =>
              Current(m) /\ IR(source', header') = IR(source, header)
BY CacheAssumption
   DEF CacheTypeOK, Past, Honest, Current, EditSource, EditHeader, Metas, NoHeader, IR

(* Nothing is stored yet when the first load begins.                       *)
LEMMA CacheInitIInv == CacheInit => CacheIInv
<1> SUFFICES ASSUME CacheInit PROVE CacheIInv
  OBVIOUS
<1>1. CacheTypeOK
  <2>1. Fresh \in Locals
    BY DEF Fresh, Locals, None
  <2>2. source \in 0..MaxEdits /\ header \in 0..MaxEdits
    BY CacheAssumption DEF CacheInit
  <2> QED BY <2>1, <2>2 DEF CacheInit, CacheTypeOK
<1>2. EntryIInv
  BY DEF CacheInit, EntryIInv, Past, Honest, Current, Torn
<1>3. \A p \in Procs : LoadIInv(proc[p])
  BY DEF CacheInit, LoadIInv, CompiledIInv, FilesIInv, CheckedIInv, WarmIInv, Fresh, HoldingModule, Writing
<1> QED BY <1>1, <1>2, <1>3 DEF CacheIInv

(* An edit keeps the invariant: what it outdates need no longer be right.  *)
LEMMA EditsKeepIInv ==
  ASSUME QuietEdits, CacheIInv, EditSource \/ EditHeader
  PROVE  CacheIInv'
<1>u. UNCHANGED <<format, meta, bc, ll, dep, proc>> /\ warm' = FALSE
  BY DEF EditSource, EditHeader
<1>1. CacheTypeOK'
  <2>1. source' \in 0..MaxEdits /\ header' \in 0..MaxEdits
    BY CacheAssumption DEF CacheIInv, CacheTypeOK, EditSource, EditHeader
  <2> QED BY <1>u, <2>1 DEF CacheIInv, CacheTypeOK
<1>2. EntryIInv'
  <2>1. CASE meta \in Metas
    BY <2>1, <1>u, EditsOutdate DEF CacheIInv, EntryIInv, Past, Honest, Current, Right
  <2>2. CASE meta = Torn
    BY <2>2, <1>u DEF EntryIInv, Past, Honest, Current, Torn
  <2> QED BY <2>1, <2>2 DEF CacheIInv, CacheTypeOK
<1>3. ASSUME NEW p \in Procs PROVE LoadIInv(proc[p])'
  <2> DEFINE l == proc[p]
  <2>1. l' = l /\ l \in Locals /\ l.pc \notin {"header", "snapshot"} /\ LoadIInv(l)
    BY <1>u DEF CacheIInv, CacheTypeOK, EditSource, EditHeader, MayEdit, InWindow
  <2>2. meta.kind = "meta" => meta \in Metas
    BY DEF CacheIInv, CacheTypeOK, Torn
  <2>3. l.stamps.kind = "meta" => l.stamps \in Metas
    BY <2>1 DEF Locals, None
  <2>4. (Current(meta)' => Current(meta) /\ IR(source', header') = IR(source, header))
    BY <1>u, <2>2, EditsOutdate DEF CacheIInv, EntryIInv, Current
  <2> HIDE DEF l
  <2>5. l.pc \in Writing =>
          /\ Past(l.stamps)' /\ Honest(l.stamps)'
          /\ Current(l.stamps)' => Current(l.stamps) /\ IR(source', header') = IR(source, header)
    BY <2>1, <2>3, EditsOutdate DEF CacheIInv, LoadIInv, CompiledIInv, Past, Honest, Current
  <2>6. CompiledIInv(l)'
    BY <1>u, <2>1, <2>4, <2>5 DEF LoadIInv, CompiledIInv, Right
  <2>7. FilesIInv(l)'
    BY <1>u, <2>1, <2>5 DEF LoadIInv, FilesIInv, Right, Writing
  <2>8. CheckedIInv(l)' /\ WarmIInv(l)'
    BY <1>u, <2>1 DEF LoadIInv, CheckedIInv, WarmIInv
  <2> QED BY <2>6, <2>7, <2>8 DEF LoadIInv, l
<1> QED BY <1>1, <1>2, <1>3 DEF CacheIInv

(* A step of the only process, given what it makes of the locals.          *)
LEMMA OneMoves ==
  ASSUME OneProcess, CacheIInv, NEW p \in Procs, NEW r \in Locals,
         proc' = [proc EXCEPT ![p] = r],
         source' = source /\ header' = header /\ format' = format,
         meta' \in Metas \cup {Torn},
         bc' \in Modules \cup {Torn, Empty}, ll' \in Modules \cup {Torn, Empty},
         warm' \in BOOLEAN,
         EntryIInv', LoadIInv(proc[p])'
  PROVE  CacheIInv'
<1>1. CacheTypeOK'
  BY DEF CacheIInv, CacheTypeOK
<1> QED BY <1>1 DEF CacheIInv, OneProcess

(* A step of the only process that leaves the files of the entry alone.    *)
LEMMA QuietMoves ==
  ASSUME OneProcess, CacheIInv, NEW p \in Procs, NEW r \in Locals,
         proc' = [proc EXCEPT ![p] = r],
         UNCHANGED <<source, header, format, meta, bc, ll>>,
         warm' = warm \/ warm' = FALSE,
         LoadIInv(proc[p])'
  PROVE  CacheIInv'
<1>1. EntryIInv'
  BY DEF CacheIInv, EntryIInv, Past, Honest, Current, Right
<1>2. warm' \in BOOLEAN
  BY DEF CacheIInv, CacheTypeOK
<1> QED BY <1>1, <1>2, OneMoves DEF CacheIInv, CacheTypeOK

(* What the steps of a load make of the locals.                            *)
LEMMA LocalMoves ==
  ASSUME NEW l \in Locals
  PROVE  /\ \A where \in {"idle", "lookup", "payload", "hit", "compile", "done"} \cup HoldingModule :
              [l EXCEPT !.pc = where] \in Locals
         /\ Fresh \in Locals
         /\ [Fresh EXCEPT !.loads = l.loads] \in Locals
         /\ [Fresh EXCEPT !.pc = "lookup", !.loads = l.loads + 1] \in Locals
<1>1. l.loads \in Nat /\ l.loads + 1 \in Nat
  BY DEF Locals
<1>2. Fresh \in Locals
  BY DEF Fresh, Locals, None
<1>3. [Fresh EXCEPT !.loads = l.loads] \in Locals
  BY <1>1, <1>2 DEF Locals
<1>4. [Fresh EXCEPT !.pc = "lookup", !.loads = l.loads + 1] \in Locals
  BY <1>1, <1>2 DEF Locals
<1>5. \A where \in {"idle", "lookup", "payload", "hit", "compile", "done"} \cup HoldingModule :
              [l EXCEPT !.pc = where] \in Locals
  BY DEF Locals
<1> QED BY <1>2, <1>3, <1>4, <1>5

(* The steps of a load that only look at the entry, or at nothing of it.   *)
LEMMA ReadingSteps ==
  ASSUME OneProcess, CacheIInv, NEW p \in Procs,
         \/ BeginLoad(p) \/ CheckStamps(p) \/ ReadPayload(p) \/ CompileSource(p)
         \/ CompileHeader(p) \/ CaptureSnapshots(p) \/ TextFallback(p) \/ FailedWrite(p) \/ Crash(p)
  PROVE  CacheIInv'
<1> DEFINE l == proc[p]
<1> USE CacheAssumption
<1>t. /\ l \in Locals /\ LoadIInv(l) /\ EntryIInv
      /\ source \in Nat /\ header \in Nat /\ header # NoHeader /\ NoHeader \in Nat
      /\ format \in {"bc", "ll"} /\ meta \in Metas \cup {Torn}
      /\ bc \in Modules \cup {Torn, Empty} /\ ll \in Modules \cup {Torn, Empty}
      /\ warm \in BOOLEAN
      /\ \A r : [proc EXCEPT ![p] = r][p] = r
  BY DEF CacheIInv, CacheTypeOK, NoHeader
<1>i. IR(source, header) \in Modules /\ IR(source, header).source = source
  BY <1>t DEF IR, Modules
<1> USE DEF LoadIInv
<1>1. CASE BeginLoad(p)
  <2> DEFINE r == [Fresh EXCEPT !.pc = "lookup", !.loads = l.loads + 1]
  <2>1. r \in Locals /\ r.pc = "lookup"
    BY <1>t, LocalMoves DEF Fresh
  <2>2. /\ proc' = [proc EXCEPT ![p] = r] /\ proc'[p] = r
        /\ UNCHANGED <<source, header, format, meta, bc, ll, warm>>
        /\ l.pc \in {"idle", "done", "hit"}
    BY <1>1, <1>t DEF BeginLoad
  <2> HIDE DEF r
  <2>3. LoadIInv(proc[p])'
    BY <1>t, <2>1, <2>2
       DEF CompiledIInv, FilesIInv, CheckedIInv, WarmIInv, HoldingModule, Writing, Current
  <2> QED BY <2>1, <2>2, <2>3, QuietMoves
<1>2. CASE CheckStamps(p)
  <2> DEFINE r == [l EXCEPT !.pc = IF IsCurrent THEN "payload" ELSE "compile",
                            !.checked = IF IsCurrent THEN IR(source, header) ELSE None]
  <2>1. r \in Locals /\ r.pc = (IF IsCurrent THEN "payload" ELSE "compile")
          /\ r.checked = (IF IsCurrent THEN IR(source, header) ELSE None)
    BY <1>t, <1>i DEF Locals
  <2>2. /\ proc' = [proc EXCEPT ![p] = r] /\ proc'[p] = r
        /\ UNCHANGED <<source, header, format, meta, bc, ll, warm>>
        /\ l.pc = "lookup"
    BY <1>2, <1>t DEF CheckStamps, At
  <2> HIDE DEF r
  <2>3. LoadIInv(proc[p])'
    BY <1>t, <2>1, <2>2
       DEF CompiledIInv, FilesIInv, CheckedIInv, WarmIInv, HoldingModule, Writing, Current,
           IsCurrent, EntryIInv, Right
  <2> QED BY <2>1, <2>2, <2>3, QuietMoves
<1>3. CASE ReadPayload(p)
  <2> DEFINE r == [l EXCEPT !.pc = IF Payload.kind = "ir" THEN "hit" ELSE "compile",
                            !.ir = IF Payload.kind = "ir" THEN Payload ELSE None]
  <2>0. Payload \in {bc, ll} /\ (bc.kind = "ir" \/ ll.kind = "ir" <=> Payload.kind = "ir")
    BY <1>t DEF Payload
  <2>1. r \in Locals /\ r.pc = (IF Payload.kind = "ir" THEN "hit" ELSE "compile")
          /\ r.checked = l.checked /\ r.ir = (IF Payload.kind = "ir" THEN Payload ELSE None)
    <3>1. Payload.kind = "ir" => Payload \in Modules
      BY <1>t, <2>0 DEF Torn, Empty
    <3> HIDE DEF l
    <3> QED BY <1>t, <3>1 DEF Locals
  <2>2. /\ proc' = [proc EXCEPT ![p] = r] /\ proc'[p] = r
        /\ UNCHANGED <<source, header, format, meta, bc, ll, warm>>
        /\ l.pc = "payload"
    BY <1>3, <1>t DEF ReadPayload, At
  <2> HIDE DEF r
  <2>3. LoadIInv(proc[p])'
    BY <1>t, <2>0, <2>1, <2>2
       DEF CompiledIInv, FilesIInv, CheckedIInv, WarmIInv, HoldingModule, Writing, Current
  <2> QED BY <2>1, <2>2, <2>3, QuietMoves
<1>4. CASE CompileSource(p)
  <2>0. UNCHANGED <<source, header, format, meta, bc, ll, warm>> /\ l.pc = "compile" /\ ~warm
    BY <1>4, <1>t DEF CompileSource, At, WarmIInv
  <2>1. PICK r \in Locals : /\ proc' = [proc EXCEPT ![p] = r] /\ proc'[p] = r
                            /\ r.pc \in {"done", "header"}
                            /\ r.pc = "header" => r.ir = IR(source, header)
    <3> DEFINE ended == [l EXCEPT !.pc = "done"]
               compiled == [l EXCEPT !.pc = "header", !.ir = IR(source, header)]
               textual == [l EXCEPT !.pc = "done", !.ir = IR(source, header)]
    <3>1. /\ ended \in Locals /\ compiled \in Locals /\ textual \in Locals
          /\ ended.pc = "done" /\ textual.pc = "done"
          /\ compiled.pc = "header" /\ compiled.ir = IR(source, header)
      BY <1>t, <1>i DEF Locals, HoldingModule
    <3>2. \E r \in {ended, compiled, textual} : proc' = [proc EXCEPT ![p] = r]
      BY <1>4, <1>t DEF CompileSource, Goto
    <3>3. PICK r \in {ended, compiled, textual} : proc' = [proc EXCEPT ![p] = r]
      BY <3>2
    <3> HIDE DEF ended, compiled, textual
    <3> QED BY <3>1, <3>3, <1>t
  <2>2. LoadIInv(proc[p])'
    BY <1>t, <1>i, <2>0, <2>1
       DEF CompiledIInv, FilesIInv, CheckedIInv, WarmIInv, HoldingModule, Writing, Current, Right, Modules
  <2> QED BY <2>0, <2>1, <2>2, QuietMoves
<1>5. CASE CompileHeader(p)
  <2> DEFINE r == [l EXCEPT !.pc = "snapshot", !.ir = IR(l.ir.source, header)]
  <2>1. /\ UNCHANGED <<source, header, format, meta, bc, ll, warm>> /\ l.pc = "header" /\ ~warm
        /\ l.ir.source = source
        /\ dep' = [kind |-> "dep", source |-> source]
    BY <1>5, <1>t DEF CompileHeader, At, WarmIInv, CompiledIInv
  <2>2. r \in Locals /\ r.pc = "snapshot" /\ r.ir = IR(source, header)
    BY <1>t, <1>i, <2>1 DEF Locals, HoldingModule
  <2>3. proc' = [proc EXCEPT ![p] = r] /\ proc'[p] = r
    BY <1>5, <1>t DEF CompileHeader
  <2> HIDE DEF r
  <2>4. LoadIInv(proc[p])'
    BY <1>t, <1>i, <2>1, <2>2, <2>3
       DEF CompiledIInv, FilesIInv, CheckedIInv, WarmIInv, HoldingModule, Writing, Current, Right, Modules
  <2> QED BY <2>1, <2>2, <2>3, <2>4, QuietMoves
<1>6. CASE CaptureSnapshots(p)
  <2>1. /\ UNCHANGED <<source, header, format, meta, bc, ll, warm>> /\ l.pc = "snapshot" /\ ~warm
        /\ dep.kind = "dep" /\ dep.source = source /\ l.ir = IR(source, header)
    BY <1>6, <1>t DEF CaptureSnapshots, At, WarmIInv, CompiledIInv
  <2> DEFINE m == [Stamps(dep.source, header) EXCEPT !.source = source]
             r == [l EXCEPT !.pc = "store", !.stamps = m]
  <2>2. m \in Metas /\ m.source = source
          /\ m.header = (IF source \in Including THEN header ELSE NoHeader)
    BY <1>t, <2>1 DEF Stamps, Metas
  <2>a. proc' = [proc EXCEPT ![p].pc = "store", ![p].stamps = m]
    BY <1>6, <2>1 DEF CaptureSnapshots
  <2> HIDE DEF m
  <2>3. proc' = [proc EXCEPT ![p] = r] /\ proc'[p] = r
    BY <1>t, <2>a
  <2>4. r \in Locals /\ r.pc = "store" /\ r.ir = IR(source, header) /\ r.stamps = m
    BY <1>t, <2>1, <2>2 DEF Locals, HoldingModule, Writing
  <2> HIDE DEF r
  <2>5. m.kind = "meta" /\ Past(m) /\ Honest(m)
    BY <1>t, <2>1, <2>2 DEF Metas, Past, Honest
  <2>6. LoadIInv(proc[p])'
    BY <1>t, <1>i, <2>1, <2>2, <2>3, <2>4, <2>5
       DEF CompiledIInv, FilesIInv, CheckedIInv, WarmIInv, HoldingModule, Writing, Current, Right, Modules,
           Past, Honest
  <2> QED BY <2>1, <2>3, <2>4, <2>6, QuietMoves
<1>7. CASE TextFallback(p)
  <2> DEFINE ended == [l EXCEPT !.pc = "done"]
             textual == [l EXCEPT !.text = TRUE, !.ir = IR(source, header)]
  <2>1. UNCHANGED <<source, header, format, meta, bc, ll, warm>> /\ l.pc = "store" /\ ~warm
    BY <1>7, <1>t DEF TextFallback, At, WarmIInv
  <2>2. /\ ended \in Locals /\ textual \in Locals
        /\ ended.pc = "done" /\ textual.pc = "store"
        /\ textual.stamps = l.stamps /\ textual.ir = IR(source, header)
    BY <1>t, <1>i, <2>1 DEF Locals, HoldingModule
  <2>3. PICK r \in {ended, textual} : proc' = [proc EXCEPT ![p] = r]
    BY <1>7, <1>t DEF TextFallback, Goto
  <2>4. proc'[p] = r
    BY <1>t, <2>3
  <2> HIDE DEF ended, textual
  <2>5. LoadIInv(proc[p])'
    BY <1>t, <1>i, <2>1, <2>2, <2>3, <2>4
       DEF CompiledIInv, FilesIInv, CheckedIInv, WarmIInv, HoldingModule, Writing, Current, Right, Modules,
           Past, Honest
  <2> QED BY <2>1, <2>2, <2>3, <2>5, QuietMoves
<1>8. CASE FailedWrite(p) \/ Crash(p)
  <2> DEFINE ended == [l EXCEPT !.pc = "done"]
             anew == [Fresh EXCEPT !.loads = l.loads]
  <2>1. UNCHANGED <<source, header, format, meta, bc, ll>> /\ (warm' = warm \/ warm' = FALSE)
    BY <1>8, <1>t DEF FailedWrite, Crash
  <2>2. /\ ended \in Locals /\ anew \in Locals
        /\ ended.pc = "done" /\ anew.pc = "idle"
    BY <1>t, LocalMoves DEF Locals, Fresh
  <2>3. PICK r \in {ended, anew} : proc' = [proc EXCEPT ![p] = r]
    BY <1>8, <1>t DEF FailedWrite, Crash, Goto
  <2>4. proc'[p].pc \in {"idle", "done"}
    BY <1>t, <2>2, <2>3
  <2> HIDE DEF ended, anew
  <2>5. CompiledIInv(proc[p])' /\ FilesIInv(proc[p])' /\ CheckedIInv(proc[p])'
    BY <2>4 DEF CompiledIInv, FilesIInv, CheckedIInv, HoldingModule, Writing
  <2>6. WarmIInv(proc[p])'
    BY <1>t, <2>1, <2>4 DEF WarmIInv, Current
  <2> QED BY <2>1, <2>2, <2>3, <2>5, <2>6, QuietMoves
<1> QED BY <1>1, <1>2, <1>3, <1>4, <1>5, <1>6, <1>7, <1>8

(* The steps that write the files of the entry, in their order.            *)
LEMMA WritingSteps ==
  ASSUME OneProcess, CacheIInv, NEW p \in Procs,
         OpenBc(p) \/ WriteBc(p) \/ WriteLl(p) \/ WriteMeta(p) \/ LoseWrite(p)
  PROVE  CacheIInv'
<1> DEFINE l == proc[p]
           r(where) == [l EXCEPT !.pc = where]
<1>t. /\ l \in Locals /\ LoadIInv(l) /\ EntryIInv
      /\ meta \in Metas \cup {Torn}
      /\ bc \in Modules \cup {Torn, Empty} /\ ll \in Modules \cup {Torn, Empty}
      /\ \A x : [proc EXCEPT ![p] = x][p] = x
  BY DEF CacheIInv, CacheTypeOK
<1>g. ASSUME NEW where, Goto(p, where)
      PROVE  proc' = [proc EXCEPT ![p] = r(where)] /\ proc'[p] = r(where)
  BY <1>g, <1>t DEF Goto
<1>l. ASSUME NEW where \in {"done", "write bc", "write ll", "write meta"}
      PROVE  /\ r(where) \in Locals /\ r(where).pc = where
             /\ r(where).ir = l.ir /\ r(where).stamps = l.stamps
  BY <1>t DEF Locals, HoldingModule, Writing
<1> HIDE DEF r
<1>w. /\ l.pc \in Writing => /\ warm = FALSE /\ l.ir.kind = "ir" /\ l.ir \in Modules
                             /\ l.stamps.kind = "meta" /\ l.stamps \in Metas
                             /\ Current(meta) => Right(l.ir)
                             /\ Past(l.stamps) /\ Honest(l.stamps)
                             /\ Current(l.stamps) => Right(l.ir)
  <2>1. l.ir.kind = "ir" => l.ir \in Modules
    BY <1>t DEF Locals, None
  <2>2. l.stamps.kind = "meta" => l.stamps \in Metas
    BY <1>t DEF Locals, None
  <2>3. l.pc \in Writing => warm = FALSE
    BY <1>t DEF LoadIInv, WarmIInv, Writing, CacheIInv, CacheTypeOK
  <2> QED BY <1>t, <2>1, <2>2, <2>3 DEF LoadIInv, CompiledIInv, HoldingModule
<1>c. ASSUME NEW where \in {"write bc", "write ll", "write meta"}, proc'[p] = r(where),
             l.pc \in Writing, UNCHANGED <<source, header>>, Current(meta)' => Current(meta), ~warm'
      PROVE  CompiledIInv(proc[p])' /\ CheckedIInv(proc[p])' /\ WarmIInv(proc[p])'
  BY <1>c, <1>w, <1>l
     DEF CompiledIInv, CheckedIInv, WarmIInv, HoldingModule, Writing, Current, Right, Past, Honest
<1>k. Torn.kind = "torn" /\ Empty.kind = "empty"
  BY DEF Torn, Empty
<1> USE DEF LoadIInv
<1>1. CASE OpenBc(p)
  <2>1. /\ bc' = Torn /\ UNCHANGED <<source, header, format, meta, ll, warm>>
        /\ proc' = [proc EXCEPT ![p] = r("write bc")] /\ proc'[p] = r("write bc") /\ l.pc = "store"
    BY <1>1, <1>g DEF OpenBc, At
  <2>2. EntryIInv'
    BY <1>t, <2>1 DEF EntryIInv, Past, Honest, Current, Right, Torn
  <2>3. LoadIInv(proc[p])'
    <3>1. CompiledIInv(proc[p])' /\ CheckedIInv(proc[p])' /\ WarmIInv(proc[p])'
      BY <1>w, <1>c, <2>1 DEF Current, Writing
    <3> QED BY <3>1, <1>l, <2>1 DEF FilesIInv
  <2> QED BY <1>t, <1>l, <2>1, <2>2, <2>3, OneMoves DEF CacheIInv, CacheTypeOK
<1>2. CASE WriteBc(p)
  <2>1. /\ bc' \in {l.ir, Torn} /\ ll' = Torn /\ UNCHANGED <<source, header, format, meta, warm>>
        /\ proc' = [proc EXCEPT ![p] = r("write ll")] /\ proc'[p] = r("write ll") /\ l.pc = "write bc"
    BY <1>2, <1>g DEF WriteBc, At
  <2>2. EntryIInv'
    <3>1. Past(meta)' /\ Honest(meta)' /\ (Current(meta)' => Current(meta)) /\ Right(ll)'
      BY <1>t, <2>1 DEF EntryIInv, Past, Honest, Current, Right, Torn
    <3>2. CASE bc' = l.ir
      BY <3>1, <3>2, <1>w, <2>1 DEF EntryIInv, Right, Writing
    <3>3. CASE bc' = Torn
      BY <3>1, <3>3 DEF EntryIInv, Right, Torn
    <3> QED BY <2>1, <3>2, <3>3
  <2>3. LoadIInv(proc[p])'
    <3>1. CompiledIInv(proc[p])' /\ CheckedIInv(proc[p])' /\ WarmIInv(proc[p])'
      BY <1>w, <1>c, <2>1 DEF Current, Writing
    <3>2. Current(l.stamps) => Right(bc)'
      <4>1. CASE bc' = l.ir
        BY <4>1, <1>w, <2>1 DEF Right, Writing
      <4>2. CASE bc' = Torn
        BY <4>2, <1>k DEF Right
      <4> QED BY <2>1, <4>1, <4>2
    <3>3. proc'[p].pc = "write ll" /\ proc'[p].stamps = l.stamps
      BY <1>l, <2>1
    <3> QED BY <3>1, <3>2, <3>3, <2>1 DEF FilesIInv, Current
  <2> QED BY <1>t, <1>w, <1>l, <2>1, <2>2, <2>3, OneMoves DEF CacheIInv, CacheTypeOK, Writing
<1>3. CASE WriteLl(p)
  <2>1. /\ ll' \in {l.ir, Empty} /\ meta' = Torn /\ UNCHANGED <<source, header, format, bc, warm>>
        /\ proc' = [proc EXCEPT ![p] = r("write meta")] /\ proc'[p] = r("write meta")
        /\ l.pc = "write ll"
    BY <1>3, <1>g DEF WriteLl, At
  <2>2. EntryIInv'
    BY <1>t, <1>w, <2>1 DEF EntryIInv, Past, Honest, Current, Torn
  <2>3. LoadIInv(proc[p])'
    <3>1. CompiledIInv(proc[p])' /\ CheckedIInv(proc[p])' /\ WarmIInv(proc[p])'
      BY <1>w, <1>c, <2>1 DEF Current, Writing, Torn
    <3>2. Current(l.stamps) => Right(bc)' /\ Right(ll)'
      <4>1. CASE ll' = l.ir
        BY <4>1, <1>t, <1>w, <2>1 DEF FilesIInv, Right, Writing
      <4>2. CASE ll' = Empty
        BY <4>2, <1>k, <1>t, <2>1 DEF FilesIInv, Right
      <4> QED BY <2>1, <4>1, <4>2
    <3>3. proc'[p].pc = "write meta" /\ proc'[p].stamps = l.stamps
      BY <1>l, <2>1
    <3> QED BY <3>1, <3>2, <3>3, <2>1 DEF FilesIInv, Current
  <2> QED BY <1>t, <1>w, <1>l, <2>1, <2>2, <2>3, OneMoves DEF CacheIInv, CacheTypeOK, Writing
<1>4. CASE WriteMeta(p)
  <2>1. /\ meta' = l.stamps /\ UNCHANGED <<source, header, format, bc, ll>>
        /\ proc' = [proc EXCEPT ![p] = r("done")] /\ proc'[p] = r("done")
        /\ l.pc = "write meta"
    BY <1>4, <1>g DEF WriteMeta, At
  <2>2. warm' \in BOOLEAN /\ (warm' => l.stamps = Stamps(source, header)
                                         /\ (bc.kind = "ir" \/ ll.kind = "ir"))
    BY <1>4 DEF WriteMeta
  <2>3. EntryIInv'
    BY <1>t, <1>w, <2>1 DEF EntryIInv, FilesIInv, Past, Honest, Current, Right, Writing
  <2>4. ASSUME warm' PROVE Current(meta)'
    <3>1. meta' = Stamps(source, header)
      BY <2>1, <2>2, <2>4
    <3>2. Current(Stamps(source, header))
      BY DEF Current, Stamps
    <3> QED BY <2>1, <3>1, <3>2 DEF Current
  <2>5. LoadIInv(proc[p])'
    BY <1>l, <2>1, <2>2, <2>4
       DEF CompiledIInv, FilesIInv, CheckedIInv, WarmIInv, HoldingModule, Writing
  <2> QED BY <1>t, <1>w, <1>l, <2>1, <2>2, <2>3, <2>5, OneMoves DEF CacheIInv, CacheTypeOK, Writing
<1>5. CASE LoseWrite(p)
  <2>0. UNCHANGED <<source, header, format, bc>> /\ warm' = FALSE
    BY <1>5 DEF LoseWrite
  <2>1. CASE At(p, "write bc") /\ ll' = Torn /\ Goto(p, "write ll") /\ UNCHANGED meta
    <3>1. EntryIInv'
      BY <1>t, <2>0, <2>1 DEF EntryIInv, Past, Honest, Current, Right, Torn
    <3>2. LoadIInv(proc[p])'
      <4>1. proc'[p].pc = "write ll" /\ proc'[p].stamps = l.stamps
        BY <1>l, <1>g, <2>1
      <4>2. CompiledIInv(proc[p])' /\ CheckedIInv(proc[p])' /\ WarmIInv(proc[p])'
        BY <1>w, <1>c, <1>g, <2>0, <2>1 DEF Current, Writing, Torn, At
      <4>3. FilesIInv(proc[p])'
        <5>1. Current(l.stamps) => Right(bc)' /\ Right(ll)'
          BY <1>t, <1>k, <2>0, <2>1 DEF FilesIInv, Right, At
        <5> QED BY <4>1, <5>1, <2>0, <2>1 DEF FilesIInv, Current
      <4> QED BY <4>2, <4>3
    <3> QED BY <1>t, <1>l, <1>g, <2>0, <2>1, <3>1, <3>2, OneMoves DEF CacheIInv, CacheTypeOK
  <2>2. CASE At(p, "write ll") /\ meta' = Torn /\ Goto(p, "write meta") /\ UNCHANGED ll
    <3>1. EntryIInv'
      BY <1>t, <2>0, <2>2 DEF EntryIInv, Past, Honest, Current, Torn
    <3>2. LoadIInv(proc[p])'
      <4>1. proc'[p].pc = "write meta" /\ proc'[p].stamps = l.stamps
        BY <1>l, <1>g, <2>2
      <4>2. CompiledIInv(proc[p])' /\ CheckedIInv(proc[p])' /\ WarmIInv(proc[p])'
        BY <1>w, <1>c, <1>g, <2>0, <2>2 DEF Current, Writing, Torn, At
      <4>3. FilesIInv(proc[p])'
        <5>1. Current(l.stamps) => Right(bc)' /\ Right(ll)'
          BY <1>t, <1>k, <2>0, <2>2 DEF FilesIInv, Right, At
        <5> QED BY <4>1, <5>1, <2>0, <2>2 DEF FilesIInv, Current
      <4> QED BY <4>2, <4>3
    <3> QED BY <1>t, <1>l, <1>g, <2>0, <2>2, <3>1, <3>2, OneMoves DEF CacheIInv, CacheTypeOK
  <2>3. CASE At(p, "write meta") /\ Goto(p, "done") /\ UNCHANGED <<ll, meta>>
    <3>2. LoadIInv(proc[p])'
      BY <1>l, <1>g, <2>0, <2>3
         DEF CompiledIInv, FilesIInv, CheckedIInv, WarmIInv, HoldingModule, Writing
    <3> QED BY <1>l, <1>g, <2>0, <2>3, <3>2, QuietMoves
  <2> QED BY <1>5, <2>1, <2>2, <2>3 DEF LoseWrite
<1> QED BY <1>1, <1>2, <1>3, <1>4, <1>5

(* Every step keeps the invariant.                                         *)
LEMMA CacheNextIInv ==
  ASSUME OneProcess, QuietEdits, CacheIInv, [CacheNext]_cacheVars
  PROVE  CacheIInv'
<1>1. CASE EditSource \/ EditHeader
  BY <1>1, EditsKeepIInv
<1>2. ASSUME NEW p \in Procs, CacheStep(p) \/ LoseWrite(p) \/ FailedWrite(p) \/ Crash(p)
      PROVE  CacheIInv'
  BY <1>2, ReadingSteps, WritingSteps DEF CacheStep
<1>3. CASE UNCHANGED cacheVars
  <2>0. UNCHANGED <<source, header, format, meta, bc, ll, dep, proc, warm>>
    BY <1>3 DEF cacheVars
  <2>1. CacheTypeOK'
    BY <2>0 DEF CacheIInv, CacheTypeOK
  <2>2. EntryIInv'
    BY <2>0 DEF CacheIInv, EntryIInv, Past, Honest, Current, Right
  <2>3. ASSUME NEW p \in Procs PROVE LoadIInv(proc[p])'
    <3>1. CompiledIInv(proc[p])'
      BY <2>0 DEF CacheIInv, LoadIInv, CompiledIInv, Past, Honest, Current, Right
    <3>2. FilesIInv(proc[p])' /\ CheckedIInv(proc[p])' /\ WarmIInv(proc[p])'
      BY <2>0 DEF CacheIInv, LoadIInv, FilesIInv, CheckedIInv, WarmIInv, Current, Right
    <3> QED BY <3>1, <3>2 DEF LoadIInv
  <2> QED BY <2>1, <2>2, <2>3 DEF CacheIInv
<1> QED BY <1>1, <1>2, <1>3 DEF CacheNext

(* What the invariant says of a hit, of the entry and of reuse.            *)
LEMMA CacheIInvImplies ==
  CacheIInv => HitIsCurrent /\ CurrentEntryIsRight /\ UnchangedIsReused
<1> SUFFICES ASSUME CacheIInv PROVE HitIsCurrent /\ CurrentEntryIsRight /\ UnchangedIsReused
  OBVIOUS
<1>1. HitIsCurrent
  BY DEF CacheIInv, LoadIInv, CheckedIInv, HitIsCurrent, At
<1>2. CurrentEntryIsRight
  BY DEF CacheIInv, EntryIInv, CurrentEntryIsRight, IsCurrent, Current, Right
<1>3. UnchangedIsReused
  BY DEF CacheIInv, LoadIInv, WarmIInv, UnchangedIsReused, At
<1> QED BY <1>1, <1>2, <1>3

(* The invariant holds throughout.                                         *)
LEMMA CacheInvariance == ASSUME OneProcess, QuietEdits PROVE CacheSpec => []CacheIInv
<1>1. CacheInit => CacheIInv
  BY CacheInitIInv
<1>2. CacheIInv /\ [CacheNext]_cacheVars => CacheIInv'
  BY CacheNextIInv
<1> QED BY <1>1, <1>2, PTL DEF CacheSpec

(* However often the unit and its header are edited, processes crash or    *)
(* writes are lost, a load that loadCompileIRCachePayload answers gets the *)
(* module of the versions on disk when it looked at their stamps, as long  *)
(* as the loads do not overlap and nobody edits between a compilation and  *)
(* its snapshots.                                                          *)
THEOREM HitsAreCurrent ==
  ASSUME OneProcess, QuietEdits PROVE CacheSpec => []HitIsCurrent
BY CacheInvariance, CacheIInvImplies, PTL

(* Under the same conditions current stamps never stand beside the IR of   *)
(* another version, at whichever of the writes of                          *)
(* storeCompileIRCachePayload a process dies.                              *)
THEOREM CurrentEntriesAreRight ==
  ASSUME OneProcess, QuietEdits PROVE CacheSpec => []CurrentEntryIsRight
BY CacheInvariance, CacheIInvImplies, PTL

(* Under the same conditions a unit that was stored completely and has not *)
(* been edited since is not compiled again.                                *)
THEOREM UnchangedUnitsAreReused ==
  ASSUME OneProcess, QuietEdits PROVE CacheSpec => []UnchangedIsReused
BY CacheInvariance, CacheIInvImplies, PTL
=============================================================================
