----------------------------- MODULE MCAnalyses -----------------------------
(***************************************************************************)
(* The analyses of one module: the pipeline that runs them all, and the    *)
(* two that summarise functions before they judge them, each on its own    *)
(* modules.  A behaviour is one of the three.                              *)
(***************************************************************************)
EXTENDS Naturals

CONSTANTS
    StackLimits, DefaultStack, MinThreshold,
    FlowSize, FlowGap, FlowRounds,
    ResRounds

VARIABLES
    program, limit, subscribers, step, available, threshold, signals, cache, diagnostics,
    uMod, uPhase, uCursor, uGuard, uChanged, uDirty, uNextDirty, uSums, uFound,
    rMod, rPhase, rCursor, rGuard, rChanged, rSums, rClasses, rFound

-----------------------------------------------------------------------------
(* The modules to analyse.                                                  *)

Pipelines == INSTANCE MCPipeline WITH Programs <- {}

Flows == INSTANCE MCUninitFlow WITH
    Modules <- {}, Size <- FlowSize, GapBytes <- FlowGap, RoundCap <- FlowRounds,
    mod <- uMod, phase <- uPhase, cursor <- uCursor, guard <- uGuard, changed <- uChanged,
    dirty <- uDirty, nextDirty <- uNextDirty, sums <- uSums, found <- uFound

Resources == INSTANCE MCResourceLifetime WITH
    Modules <- {}, RoundCap <- ResRounds,
    mod <- rMod, phase <- rPhase, cursor <- rCursor, guard <- rGuard, changed <- rChanged,
    sums <- rSums, classes <- rClasses, found <- rFound

Programs == Pipelines!MCPrograms
FlowModules == Flows!MCModules
ResModules == Resources!MCModules

-----------------------------------------------------------------------------
(* The analyses.                                                            *)

P == INSTANCE Pipeline

U == INSTANCE UninitFlow WITH
    Modules <- FlowModules, Size <- FlowSize, GapBytes <- FlowGap, RoundCap <- FlowRounds,
    mod <- uMod, phase <- uPhase, cursor <- uCursor, guard <- uGuard, changed <- uChanged,
    dirty <- uDirty, nextDirty <- uNextDirty, sums <- uSums, found <- uFound

R == INSTANCE ResourceLifetime WITH
    Modules <- ResModules, RoundCap <- ResRounds,
    mod <- rMod, phase <- rPhase, cursor <- rCursor, guard <- rGuard, changed <- rChanged,
    sums <- rSums, classes <- rClasses, found <- rFound

pipeVars == <<program, limit, subscribers, step, available, threshold, signals, cache, diagnostics>>
flowVars == <<uMod, uPhase, uCursor, uGuard, uChanged, uDirty, uNextDirty, uSums, uFound>>
resVars == <<rMod, rPhase, rCursor, rGuard, rChanged, rSums, rClasses, rFound>>

-----------------------------------------------------------------------------
(* What a behaviour leaves alone.                                           *)

NoPipeline ==
    /\ program = <<>> /\ limit = 0 /\ subscribers = FALSE /\ step = 0 /\ available = {}
    /\ threshold = 0 /\ signals = <<>> /\ cache = <<>> /\ diagnostics = <<>>

NoFlow ==
    /\ uMod = <<>> /\ uPhase = "idle" /\ uCursor = 0 /\ uGuard = 0 /\ uChanged = FALSE
    /\ uDirty = {} /\ uNextDirty = {} /\ uSums = <<>> /\ uFound = <<>>

NoResources ==
    /\ rMod = <<>> /\ rPhase = "idle" /\ rCursor = 0 /\ rGuard = 0 /\ rChanged = FALSE
    /\ rSums = <<>> /\ rClasses = <<>> /\ rFound = {}

Init ==
    \/ P!PipeInit /\ NoFlow /\ NoResources
    \/ U!FlowInit /\ NoPipeline /\ NoResources
    \/ R!ResInit /\ NoPipeline /\ NoFlow

Next ==
    \/ step > 0 /\ P!PipeNext /\ UNCHANGED <<flowVars, resVars>>
    \/ U!FlowNext /\ UNCHANGED <<pipeVars, resVars>>
    \/ R!ResNext /\ UNCHANGED <<pipeVars, flowVars>>

AnalysesSpec == Init /\ [][Next]_<<pipeVars, flowVars, resVars>>

-----------------------------------------------------------------------------
\* Gathering the code once, skipping steps and the order of the table lose nothing
\* but two known kinds of report.
PipelineReportsAll == P!PipelineReportsAll
\* The reads reported are those some path makes before every byte is written.
FlowIsExact == U!FlowIsExact
\* The summaries stop changing before the cap, whatever calls whatever.
SummariesSettle == U!SummariesSettle
\* A variable called never initialized is initialized on no path.
NeverMeansNever == U!NeverMeansNever
\* The cap on the rounds loses effects of deep chains of calls only.
CapLosesOnlyDeepChains == R!CapLosesOnlyDeepChains
\* A call acts on the handles of its caller as its body would.
CallsActAsInlined == R!CallsActAsInlined
\* The verdict on a class does not depend on the order of its methods.
ClassesIgnoreOrder == R!ClassesIgnoreOrder
=============================================================================
