------------------------------ MODULE Pipeline ------------------------------
(***************************************************************************)
(* AnalysisPipeline::run (src/src/analyzer/AnalysisPipeline.cpp): the      *)
(* analyses of one module, in a fixed order, each run when the artifacts   *)
(* it needs are there.                                                     *)
(*                                                                         *)
(* One walk over the module (IRFactCollector.cpp) counts instructions and, *)
(* with CTRACE_PIPELINE_SUBSCRIBERS on, keeps the allocas, calls and       *)
(* invokes of every selected function.  The counts decide whether two of   *)
(* the analyses run at all; the kept instructions replace the walk of four *)
(* others, which then see the functions in the order of the cache's hash   *)
(* table and the calls of a function before its invokes.                   *)
(*                                                                         *)
(* A module is a sequence of functions [name, file, selected, at, recur-   *)
(* sive, infinite, exceeds, locals, local, callee, code, found].  An       *)
(* instruction is a record [op, what, at]: op its class, what it means to  *)
(* the analyses with the fields they read.  The field found of a function  *)
(* holds the issues of the analyses that only pass through the pipeline,   *)
(* each with the label of its step.                                        *)
(***************************************************************************)
EXTENDS Diagnostics, Integers, SequencesExt

CONSTANTS
    Programs,       \* the modules to analyse
    StackLimits,    \* the values of --stack-limit
    DefaultStack,   \* 8 MiB, the base of the threshold when there is no limit
    MinThreshold    \* 64 KiB

VARIABLES
    program,        \* the module
    limit,          \* config.stackLimit
    subscribers,    \* usePipelineSubscribers()
    step,           \* the step to run next
    available,      \* the artifacts that steps have produced
    threshold,      \* allocaLargeThreshold
    signals,        \* PipelineSubscriberSignals
    cache,          \* PerFunctionInstructionCache: selected functions in table order
    diagnostics     \* the diagnostics of the result

pipeVars == <<program, limit, subscribers, step, available, threshold, signals, cache,
              diagnostics>>

-----------------------------------------------------------------------------
(* The steps with what they require and provide.                            *)

Step(label, requires, provides) == [label |-> label, requires |-> requires, provides |-> provides]

Analysis(label) == Step(label, {"prepared"}, {})

Steps ==
    << Step("Function attrs pass", {}, {}),
       Step("Prepare module", {}, {"prepared", "derived"}),
       Step("Collect IR facts", {"prepared"}, {"facts", "signals"}),
       Analysis("Build results"),
       Analysis("Emit summary diagnostics"),
       Step("Compute alloca threshold", {}, {"threshold"}),
       Step("Stack buffer overflows", {"prepared", "signals"}, {}),
       Analysis("Dynamic allocas"),
       Step("Alloca usage", {"prepared", "threshold"}, {}),
       Analysis("Mem intrinsic overflows"),
       Analysis("Integer overflows"), Analysis("Size-minus-k writes"),
       Analysis("Multiple stores"), Analysis("Duplicate if conditions"),
       Analysis("Uninitialized local reads"), Analysis("Global reads before writes"),
       Analysis("Invalid base reconstructions"), Analysis("Stack pointer escapes"),
       Analysis("Const params"), Analysis("Null pointer dereferences"),
       Analysis("Out-of-bounds reads"), Analysis("Command injection"), Analysis("TOCTOU"),
       Analysis("Type confusion"),
       Step("Resource lifetime", {"prepared", "signals"}, {}) >>

Selected == SelectSeq(program, LAMBDA f : f.selected)

-----------------------------------------------------------------------------
(* collectIRFacts: an instruction counts in every class it belongs to; a    *)
(* memory intrinsic is a call.                                              *)

IsCall(i) == i.op \in {"call", "memintrinsic"}
IsInvoke(i) == i.op = "invoke"
IsCallBase(i) == IsCall(i) \/ IsInvoke(i)

CountOf(ops) ==
    FoldLeft(LAMBDA n, f : n + Len(SelectSeq(f.code, LAMBDA i : i.op \in ops)), 0, Selected)

(* PipelineSignalSubscriber, and derivePipelineSignals from the counts.     *)
SignalsOf ==
    [callSites |-> CountOf({"call", "memintrinsic", "invoke"}),
     bufferRelevant |-> CountOf({"alloca", "store"}) + CountOf({"memintrinsic"})]

(* What the cache keeps of a function.                                      *)
Kept(f) ==
    [f |-> f, allocas |-> SelectSeq(f.code, LAMBDA i : i.op = "alloca"),
     calls |-> SelectSeq(f.code, IsCall), invokes |-> SelectSeq(f.code, IsInvoke)]

(* The orders in which the cache, a table keyed by address, may be read.    *)
TableOrders(fs) ==
    { [i \in 1 .. Len(fs) |-> Kept(fs[p[i]])] :
      p \in { q \in [1 .. Len(fs) -> 1 .. Len(fs)] :
              \A i, j \in 1 .. Len(fs) : q[i] = q[j] => i = j } }

-----------------------------------------------------------------------------
(* The analyses.                                                            *)

Issue(kind, f, i) == [kind |-> kind, func |-> f.name, file |-> f.file, at |-> i.at]

IssuesOf(kind, f, instructions) ==
    [i \in 1 .. Len(instructions) |-> Issue(kind, f, instructions[i])]

(* tryGetConstFromValue: a literal, or the last literal that the function's *)
(* text stores to the variable.                                             *)
ConstOf(size, f) ==
    IF size.kind # "variable" THEN {size.value}
    ELSE LET stores == { k \in 1 .. Len(f.code) : /\ f.code[k].what = "set"
                                                  /\ f.code[k].variable = size.value
                                                  /\ f.code[k].const }
         IN  { f.code[k].value : k \in { n \in stores : \A m \in stores : m <= n } }

(* analyzeDynamicAllocas, with and without the cache.                       *)
DynamicAllocas(f, allocas) ==
    IssuesOf("dynamic alloca", f,
             SelectSeq(allocas, LAMBDA a : a.size.kind = "variable" /\ ConstOf(a.size, f) = {}))

(* analyzeAllocaUsage: the allocas of arrays.                               *)
AllocaUsage(f) ==
    LET arrays == SelectSeq(f.code, LAMBDA i : i.op = "alloca" /\ i.size.kind # "one")
        Of(a) ==
            LET known == ConstOf(a.size, f)
            IN  Issue("alloca", f, a) @@
                [sizeIsConst |-> known # {},
                 hasUpperBound |-> known = {} /\ a.size.upper > 0,
                 bytes |-> IF known # {} THEN CHOOSE n \in known : TRUE ELSE a.size.upper,
                 userControlled |-> a.size.user,
                 isRecursive |-> f.recursive, isInfiniteRecursive |-> f.infinite]
    IN  [i \in 1 .. Len(arrays) |-> Of(arrays[i])]

(* analyzeStackBufferOverflows: an index that is known, and one of which a  *)
(* range is.  Only loads and stores of an element are looked at; the SMT    *)
(* evaluator may refute what a range allows.                                *)
BufferIssues(f) ==
    LET Of(i) ==
            IF i.what # "element" THEN <<>>
            ELSE IF i.known
                 THEN IF i.low < 0 \/ i.low >= i.size THEN <<Issue("overflow", f, i)>> ELSE <<>>
            ELSE (IF /\ (i.high >= 0 /\ i.high >= i.size) \/ (i.low >= 0 /\ i.low >= i.size)
                     /\ "upper" \notin i.refuted
                  THEN <<Issue("overflow", f, i)>> ELSE <<>>)
                 \o (IF i.low < 0 /\ "lower" \notin i.refuted
                     THEN <<Issue("negative index", f, i)>> ELSE <<>>)
    IN  FlattenSeq([k \in 1 .. Len(f.code) |-> Of(f.code[k])])

(* analyzeMemIntrinsicOverflows, over one list of calls.                    *)
MemoryWrites(f, calls) ==
    IssuesOf("memory write", f,
             SelectSeq(calls, LAMBDA c : c.what = "write" /\ c.dest # 0
                                         /\ (c.explicit => c.known /\ c.length > c.dest)))

(* analyzeCommandInjection, over one list of calls.                         *)
Commands(f, calls) ==
    IssuesOf("command", f, SelectSeq(calls, LAMBDA c : c.what = "shell" /\ ~c.literal))

LikelySamePath(a, b) ==
    \/ a.root # "" /\ a.root = b.root
    \/ a.text # "" /\ a.text = b.text

(* analyzeTOCTOU, over the calls in the order they are looked at: a use is  *)
(* reported once when a check of its path comes before it.                  *)
CheckThenUse(f, calls) ==
    LET reported == { u \in 1 .. Len(calls) :
                      /\ calls[u].what = "use"
                      /\ \E c \in 1 .. u - 1 : /\ calls[c].what = "check"
                                               /\ LikelySamePath(calls[c].path, calls[u].path) }
    IN  IssuesOf("check then use", f,
                 [n \in 1 .. Cardinality(reported) |->
                    calls[CHOOSE u \in reported :
                            Cardinality({ v \in reported : v <= u }) = n]])

-----------------------------------------------------------------------------
(* The issues of a step, from the cache when there is one.                  *)

CachedSteps == {"Dynamic allocas", "Mem intrinsic overflows", "Command injection", "TOCTOU"}

Cached(label, k) ==
    CASE label = "Dynamic allocas" -> DynamicAllocas(k.f, k.allocas)
      [] label = "Mem intrinsic overflows" ->
             MemoryWrites(k.f, k.calls) \o MemoryWrites(k.f, k.invokes)
      [] label = "Command injection" -> Commands(k.f, k.calls) \o Commands(k.f, k.invokes)
      [] label = "TOCTOU" -> CheckThenUse(k.f, k.calls \o k.invokes)

Direct(label, f) ==
    LET calls == SelectSeq(f.code, IsCallBase)
    IN  CASE label = "Stack buffer overflows" -> BufferIssues(f)
          [] label = "Dynamic allocas" ->
                 DynamicAllocas(f, SelectSeq(f.code, LAMBDA i : i.op = "alloca"))
          [] label = "Alloca usage" -> AllocaUsage(f)
          [] label = "Mem intrinsic overflows" -> MemoryWrites(f, calls)
          [] label = "Command injection" -> Commands(f, calls)
          [] label = "TOCTOU" -> CheckThenUse(f, calls)
          [] OTHER -> SelectSeq(f.found, LAMBDA i : i.step = label)

StepIssues(label) ==
    IF subscribers /\ label \in CachedSteps
    THEN FlattenSeq([i \in 1 .. Len(cache) |-> Cached(label, cache[i])])
    ELSE FlattenSeq([i \in 1 .. Len(Selected) |-> Direct(label, Selected[i])])

(* A gate that looks at what is stored only.                                *)
SkippedWithoutStores(label) ==
    \/ label = "Stack buffer overflows" /\ CountOf({"store"}) = 0
    \/ label = "Resource lifetime" /\ signals.callSites = 0

Skipped(label) ==
    \/ label = "Stack buffer overflows" /\ signals.bufferRelevant = 0
    \/ label = "Resource lifetime" /\ signals.callSites = 0

-----------------------------------------------------------------------------
PipeInit ==
    /\ program \in Programs
    /\ limit \in StackLimits
    /\ subscribers \in BOOLEAN
    /\ step = 1
    /\ available = {}
    /\ threshold = 0
    /\ signals = [callSites |-> 0, bufferRelevant |-> 0]
    /\ cache = <<>>
    /\ diagnostics = <<>>

Done == step > Len(Steps)

(* A step that finds what it requires runs, and what it provides is there   *)
(* for the steps after it; one that does not ends the run with an empty     *)
(* result.                                                                  *)
Ready == Steps[step].requires \subseteq available

Begin(labels) ==
    /\ ~Done /\ Steps[step].label \in labels
    /\ available' = IF Ready THEN available \cup Steps[step].provides ELSE available
    /\ step' = IF Ready THEN step + 1 ELSE Len(Steps) + 1
    /\ UNCHANGED <<program, limit, subscribers>>

Report(more) == diagnostics' = IF Ready THEN diagnostics \o more ELSE <<>>

Prepare ==
    /\ Begin({"Function attrs pass", "Prepare module", "Build results"})
    /\ Report(<<>>)
    /\ UNCHANGED <<threshold, signals, cache>>

CollectFacts ==
    /\ Begin({"Collect IR facts"})
    /\ signals' = SignalsOf
    /\ IF subscribers THEN cache' \in TableOrders(Selected) ELSE cache' = <<>>
    /\ Report(<<>>)
    /\ UNCHANGED threshold

EmitSummary ==
    /\ Begin({"Emit summary diagnostics"})
    /\ Report(FlattenSeq([i \in 1 .. Len(Selected) |-> SummaryDiagnostics(Selected[i], limit)]))
    /\ UNCHANGED <<threshold, signals, cache>>

(* computeAllocaLargeThreshold.                                             *)
LargeThreshold(n) ==
    LET derived == (IF n = 0 THEN DefaultStack ELSE n) \div 8
    IN  IF derived < MinThreshold THEN MinThreshold ELSE derived

ComputeThreshold ==
    /\ Begin({"Compute alloca threshold"})
    /\ threshold' = LargeThreshold(limit)
    /\ Report(<<>>)
    /\ UNCHANGED <<signals, cache>>

Analyses ==
    { Steps[i].label : i \in 1 .. Len(Steps) }
    \ {"Function attrs pass", "Prepare module", "Collect IR facts", "Build results",
       "Emit summary diagnostics", "Compute alloca threshold"}

Skip ==
    /\ ~Done /\ Skipped(Steps[step].label)
    /\ Begin(Analyses)
    /\ Report(<<>>)
    /\ UNCHANGED <<threshold, signals, cache>>

Diagnoses(issues) == [i \in 1 .. Len(issues) |-> Diagnose(issues[i], threshold, limit)]

Analyze ==
    /\ ~Done /\ ~Skipped(Steps[step].label)
    /\ Begin(Analyses)
    /\ Report(Diagnoses(StepIssues(Steps[step].label)))
    /\ UNCHANGED <<threshold, signals, cache>>

PipeNext ==
    Prepare \/ CollectFacts \/ EmitSummary \/ ComputeThreshold \/ Skip \/ Analyze

PipeSpec == PipeInit /\ [][PipeNext]_pipeVars

-----------------------------------------------------------------------------
(* What a walk of every selected function reports when each analysis runs   *)
(* on the function's own text, without counts, artifacts or kept lists.     *)

EveryLabel == [i \in 1 .. Len(Steps) |-> Steps[i].label]

PlainWalk ==
    LET Of(f) ==
            LET issues == FlattenSeq([i \in 1 .. Len(Steps) |->
                                IF EveryLabel[i] \in Analyses THEN Direct(EveryLabel[i], f)
                                                              ELSE <<>>])
            IN  SummaryDiagnostics(f, limit) \o
                [i \in 1 .. Len(issues) |-> Diagnose(issues[i], LargeThreshold(limit), limit)]
    IN  FlattenSeq([i \in 1 .. Len(Selected) |-> Of(Selected[i])])

SameBag(s, t, Ignored(_)) ==
    \A d \in ToSet(s) \cup ToSet(t) :
        \/ Ignored(d)
        \/ Len(SelectSeq(s, LAMBDA e : e = d)) = Len(SelectSeq(t, LAMBDA e : e = d))

(* A function checks and uses paths both in calls and in invokes.           *)
SplitPathApis(f) ==
    \E i, j \in DOMAIN f.code : /\ f.code[i].what \in {"check", "use"} /\ IsCall(f.code[i])
                                /\ f.code[j].what \in {"check", "use"} /\ IsInvoke(f.code[j])

(* Whether the code is gathered once for all analyses or walked by each,    *)
(* in whatever order the table yields the functions, every issue of every   *)
(* selected function is reported exactly once.  Two things may be missed,   *)
(* and no others: the pairing of a check and a use of which one is a call   *)
(* and the other an invoke, and elements read in a module that neither      *)
(* allocates nor writes anything.                                           *)
PipelineReportsAll ==
    LET reads(d) == /\ d.code \in {"StackBufferOverflow", "NegativeStackIndex"}
                    /\ \A i \in DOMAIN Selected : \A j \in DOMAIN Selected[i].code :
                            Selected[i].code[j].op \notin {"alloca", "store", "memintrinsic"}
        split(d) == /\ subscribers /\ d.code = "TOCTOURace"
                    /\ \E i \in DOMAIN Selected : /\ Selected[i].name = d.func
                                                  /\ SplitPathApis(Selected[i])
    IN  Done => SameBag(diagnostics, PlainWalk, LAMBDA d : reads(d) \/ split(d))

(* The diagnostics are those of the other setting of the rollout flag       *)
(* (run_test.py:1576: "diagnostics must remain stable when toggling the     *)
(* subscriber rollout flag").                                               *)
RolloutIsInvisible ==
    LET skipped(d) == /\ d.code \in {"StackBufferOverflow", "NegativeStackIndex"}
                      /\ signals.bufferRelevant = 0
    IN  Done /\ subscribers => SameBag(diagnostics, PlainWalk, skipped)
=============================================================================
