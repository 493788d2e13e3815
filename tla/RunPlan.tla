------------------------------ MODULE RunPlan ------------------------------
(***************************************************************************)
(* RunPlanBuilder (src/src/app/AnalyzerApp.cpp): from the accepted         *)
(* arguments to the inputs, the profile and the strategy of the run.       *)
(***************************************************************************)
EXTENDS FunctionFilter, FiniteSets

CONSTANTS
    Compdb,         \* path -> the source files of the compilation database there
    Unsupported,    \* texts whose extension names no supported language
    Directories,    \* texts that are directories, or end with a slash
    TextOrder       \* the texts of input files in lexicographic order

(* loadCompilationDatabase.                                                 *)
CompdbLoads(c) ==
    c.compileCommandsExplicit =>
        c.compileCommandsPath[2] # "" /\ c.compileCommandsPath \in DOMAIN Compdb

AutoDiscovered(c) == c.inputFilenames = <<>> /\ c.compileCommandsExplicit

(* discoverInputsFromCompilationDatabase.                                   *)
Discovered(c) ==
    LET sources == Compdb[c.compileCommandsPath]
    IN  IF AutoDiscovered(c)
        THEN Only(sources, { text \in Range(sources) :
                             /\ text \notin Unsupported
                             /\ \/ c.includeCompdbDeps
                                \/ ~PathContainsSegment(PathOf[text], "_deps") })
        ELSE c.inputFilenames

(* excludeInputFiles.                                                       *)
Included(texts, c) ==
    Only(texts, { text \in Range(texts) : ~ShouldExcludePath(text, c) })

(* The exclusion applied to the inputs of the command line alone.           *)
KeptOfCommandLine(c) ==
    IF AutoDiscovered(c) THEN Discovered(c) ELSE Included(c.inputFilenames, c)

Kept(c) == Included(Discovered(c), c)

(* configureDumpIRPath.                                                     *)
DumpIROk(c, inputs) == c.dumpIRPath = "" \/ Len(inputs) <= 1 \/ c.dumpIRPath \in Directories

(* std::sort: equal texts end up side by side.                              *)
Sorted(inputs) ==
    FlattenSeq([i \in 1 .. Len(TextOrder) |-> Only(inputs, {TextOrder[i]})])

PlanFails(c) ==
    \/ ~CompdbLoads(c)
    \/ Kept(c) = <<>>
    \/ ~DumpIROk(c, Kept(c))

(* RunPlanBuilder::build.  Any run of more than one input needs the index   *)
(* of global reads, and so the shared loading of modules.                   *)
BuildPlan(c) ==
    LET inputs == Kept(c)
        many   == Len(inputs) > 1
    IN  [inputs  |-> Sorted(inputs),
         profile |-> IF AutoDiscovered(c) /\ ~c.analysisProfileExplicit /\ many
                     THEN "fast" ELSE c.profile,
         dumpIRIsDir |-> c.dumpIRPath # "" /\ (many \/ c.dumpIRPath \in Directories),
         needsResource |-> c.resourceCrossTU /\ c.resourceModelPath[2] # "" /\ many,
         needsUninitialized |-> c.uninitializedCrossTU /\ many,
         needsGlobal |-> many,
         shared |-> many]

(* printInterprocStatus: what the run says of its inter-procedural          *)
(* analyses.                                                                *)
InterprocStatus(c, plan) ==
    (IF c.resourceModelPath[2] = "" THEN {}
     ELSE IF plan.needsResource THEN {"resource: enabled"}
     ELSE IF c.resourceCrossTU THEN {"resource: one input"} ELSE {"resource: disabled"})
    \cup (IF plan.needsGlobal THEN {"global: enabled"} ELSE {})
    \cup (IF plan.needsUninitialized THEN {"uninitialized: enabled"}
          ELSE IF plan.needsGlobal THEN {"uninitialized: disabled"} ELSE {})
=============================================================================
