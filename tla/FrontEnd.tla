------------------------------ MODULE FrontEnd ------------------------------
(***************************************************************************)
(* One invocation of the analyzer from its arguments to its report         *)
(* (src/main.cpp, AnalyzerApp::run): the command line, the plan, the       *)
(* analysis of the inputs and the output, composed in the order main runs  *)
(* them.  AppRun models what the analysis of several inputs does in        *)
(* detail; here it is one step with the results it delivers.               *)
(***************************************************************************)
EXTENDS CommandLine, RunPlan, Report

CONSTANTS
    ModuleOf,   \* input -> its module: [source, functions, warnings]
    Classes,    \* compiler message -> [rule, cwe], for the messages reported
    Unloadable, \* inputs that do not load
    Unwritable  \* paths the SARIF file cannot be written to

IsSeq(s) == s \in Seq(Range(s))

NoneTwice(s) == \A i, j \in 1 .. Len(s) : s[i] = s[j] => i = j

\* Arguments are texts in a sequence, the files of the table have lines and a name,
\* and no text is both a flag and an option with its value.
CliInputs ==
    /\ \A a \in Commands : a \in Seq(STRING)
    /\ \A c \in DOMAIN ConfigLines : Len(ConfigLines[c]) \in Nat
    /\ "" \notin DOMAIN ConfigLines
    /\ DOMAIN Inline \cap Flags = {}
    /\ \A t \in DOMAIN Pieces : IsSeq(Pieces[t])

\* Every text that may be an input has one place in the order, and a database, whose
\* sources are the keys of a map, names each of them once.
PlanInputs ==
    /\ IsSeq(TextOrder) /\ NoneTwice(TextOrder)
    /\ \A a \in Commands : Range(a) \subseteq Dashed \cup Range(TextOrder)
    /\ \A d \in DOMAIN Compdb : Compdb[d] \in Seq(Range(TextOrder)) /\ NoneTwice(Compdb[d])

\* What loads is a module.
ModulesAreSound ==
    \A t \in Range(TextOrder) \ Unloadable :
        /\ IsSeq(ModuleOf[t].functions) /\ IsSeq(ModuleOf[t].warnings)
        /\ \A i \in 1 .. Len(ModuleOf[t].functions) : IsSeq(ModuleOf[t].functions[i].diagnostics)

ASSUME FrontEndAssumption == CliInputs /\ PlanInputs /\ ModulesAreSound

VARIABLES
    plan,       \* the RunPlan
    shown,      \* what --print-effective-config printed: a sequence
    said,       \* what printInterprocStatus logged
    results,    \* the results, in the order of the inputs
    report,     \* the report on the standard output: a sequence of [format, body]
    sarifFile   \* the SARIF file, as a sequence of at most one report

outVars == <<plan, shown, said, results, report, sarifFile>>
frontVars == <<cliVars, outVars>>

FrontInit ==
    /\ CliInit
    /\ plan = [inputs |-> <<>>]
    /\ shown = <<>> /\ said = {} /\ results = <<>> /\ report = <<>> /\ sarifFile = <<>>

-----------------------------------------------------------------------------
(* resolveFunctionNameForLocation: the first function with code on the      *)
(* line, otherwise the first of those with the nearest line of the file.    *)
Distance(a, b) == IF a > b THEN a - b ELSE b - a

FilesLikelyMatch(a, b) == PathOf[a] = PathOf[b] \/ Basename(PathOf[a]) = Basename(PathOf[b])

NearestFunction(fs, file, line) ==
    LET Near(i) == { Distance(l[2], line) :
                     l \in { m \in fs[i].lines : m[2] # 0 /\ FilesLikelyMatch(m[1], file) } }
        sure == { i \in 1 .. Len(fs) : Near(i) # {} }
        Least(i) == CHOOSE n \in Near(i) : \A k \in Near(i) : n <= k
    IN  IF sure = {} THEN ""
        ELSE fs[CHOOSE i \in sure :
                    \A j \in sure \ {i} : \/ Least(i) < Least(j)
                                          \/ Least(i) = Least(j) /\ i < j].name

(* collectFrontendDiagnostics: the compiler's warnings and errors that are  *)
(* classified, once for a place, a rule and a message.                      *)
FrontendDiagnostics(m) ==
    LET ws == Only(m.warnings, { w \in Range(m.warnings) : /\ w.severity \in {"warning", "error"}
                                                          /\ w.message \in DOMAIN Classes })
        Key(w) == <<PathOf[w.file], w.line, w.column, Classes[w.message].rule, w.message>>
        first  == { i \in 1 .. Len(ws) : \A j \in 1 .. i - 1 : Key(ws[j]) # Key(ws[i]) }
        places == Only([i \in 1 .. Len(ws) |-> i], first)
        Diagnostic(w) ==
            [func |-> NearestFunction(m.functions, w.file, w.line), file |-> w.file,
             severity |-> w.severity, rule |-> Classes[w.message].rule, code |-> "None",
             cwe |-> Classes[w.message].cwe, line |-> w.line, column |-> w.column]
    IN  [n \in 1 .. Len(places) |-> Diagnostic(ws[places[n]])]

(* analyzeModule for the functions of the module that the filter chooses,   *)
(* then what the compiler said, then the stamp.                             *)
AnalyzeInput(input, c) ==
    LET m  == ModuleOf[input]
        fs == Only(m.functions, { f \in Range(m.functions) : ShouldAnalyze(f, m.source, c) })
    IN  Stamped([functions |-> [i \in 1 .. Len(fs) |-> [name |-> fs[i].name, file |-> fs[i].path]],
                 diagnostics |-> FlattenSeq([i \in 1 .. Len(fs) |-> fs[i].diagnostics])
                                 \o FrontendDiagnostics(m)],
                input)

-----------------------------------------------------------------------------
(* main: the effective configuration is printed before the plan is built.   *)
PrintConfig ==
    /\ phase = "ok"
    /\ shown' = IF cfg.printEffectiveConfig
                THEN <<[config |-> cfg.configPath, profile |-> cfg.profile,
                        jobs |-> IF cfg.jobsAuto THEN 0 ELSE cfg.jobs, smt |-> cfg.smtEnabled]>>
                ELSE <<>>
    /\ phase' = "plan"
    /\ UNCHANGED <<argv, pos, meta, cfg, plan, said, results, report, sarifFile>>

MakePlan ==
    /\ phase = "plan"
    /\ \/ PlanFails(cfg) /\ phase' = "error" /\ UNCHANGED <<plan, said>>
       \/ /\ ~PlanFails(cfg)
          /\ plan' = BuildPlan(cfg)
          /\ said' = InterprocStatus(cfg, plan')
          /\ phase' = "analyze"
    /\ UNCHANGED <<argv, pos, meta, cfg, shown, results, report, sarifFile>>

(* Both strategies give the results of all inputs in their order, or fail.  *)
AnalyzeInputs ==
    /\ phase = "analyze"
    /\ \/ /\ \E i \in 1 .. Len(plan.inputs) : plan.inputs[i] \in Unloadable
          /\ phase' = "error" /\ UNCHANGED results
       \/ /\ \A i \in 1 .. Len(plan.inputs) : plan.inputs[i] \notin Unloadable
          /\ results' = [i \in 1 .. Len(plan.inputs) |->
                            <<plan.inputs[i], AnalyzeInput(plan.inputs[i], cfg)>>]
          /\ phase' = "emit"
    /\ UNCHANGED <<argv, pos, meta, cfg, plan, shown, said, report, sarifFile>>

Body(format) ==
    CASE format = "json"  -> [json |-> ToJson(results, cfg)]
      [] format = "sarif" -> [sarif |-> ToSarif(results, cfg)]
      [] format = "human" -> [human |-> ToHuman(results, cfg)]

EmitReport ==
    /\ phase = "emit"
    /\ report' = <<Body(cfg.outputFormat)>>
    /\ phase' = IF cfg.sarifOutPath = "" THEN "done" ELSE "file"
    /\ UNCHANGED <<argv, pos, meta, cfg, plan, shown, said, results, sarifFile>>

WriteSarifFile ==
    /\ phase = "file"
    /\ \/ cfg.sarifOutPath \in Unwritable /\ phase' = "error" /\ UNCHANGED sarifFile
       \/ /\ cfg.sarifOutPath \notin Unwritable
          /\ sarifFile' = <<Body("sarif")>>
          /\ phase' = "done"
    /\ UNCHANGED <<argv, pos, meta, cfg, plan, shown, said, results, report>>

FrontNext ==
    \/ CliNext /\ UNCHANGED outVars
    \/ PrintConfig \/ MakePlan \/ AnalyzeInputs \/ EmitReport \/ WriteSarifFile

FrontSpec == FrontInit /\ [][FrontNext]_frontVars

-----------------------------------------------------------------------------
(* The inputs and the excluded directories that the arguments name, where-  *)
(* ever they stand among them.                                              *)
InputHeads(heads) ==
    { i \in heads \cap 1 .. Len(argv) :
      ~Help(i) /\ ~IsFlag(i) /\ ~TakesValue(i) /\ argv[i] \notin Dashed }

ExcludedDirs(heads) ==
    UNION { { Csv(ValueAt(i))[k] : k \in 1 .. Len(Csv(ValueAt(i))) } :
            i \in { h \in heads \cap 1 .. Len(argv) : OptionAt(h) = "--exclude-dir" } }

IsUnder(p, d) == p = d \/ (d # <<>> /\ IsPrefix(d, p))

(* README.md, "--exclude-dir is applied before analysis to skip selected    *)
(* directory trees (works with explicit inputs and compdb-driven inputs)".  *)
(* An input is analysed as often as the command line (or, without inputs,   *)
(* the compilation database) names it, unless a directory excluded anywhere *)
(* on the command line holds it; the root holds nothing but itself.  The     *)
(* analysis waits for indices across the inputs exactly when there are two, *)
(* and the profile that --print-effective-config showed is the one the run  *)
(* uses, unless the inputs were found in the database.                      *)
PlanIsAsRequested ==
    phase \in {"analyze", "emit", "file", "done"} =>
        LET heads == Heads
            named == InputHeads(heads)
            Excluded(t) == t # "" /\ \E d \in ExcludedDirs(heads) : IsUnder(PathOf[t], PathOf[d])
            Times(t) == Cardinality({ i \in 1 .. Len(plan.inputs) : plan.inputs[i] = t })
        IN  /\ named # {} =>
                 \A t \in { argv[i] : i \in named } :
                    Times(t) = IF Excluded(t) THEN 0
                               ELSE Cardinality({ i \in named : argv[i] = t })
            /\ named = {} =>
                 \A i \in 1 .. Len(Compdb[cfg.compileCommandsPath]) :
                    LET t == Compdb[cfg.compileCommandsPath][i]
                    IN  Times(t) = IF \/ Excluded(t) \/ t \in Unsupported
                                      \/ /\ ~cfg.includeCompdbDeps
                                         /\ PathContainsSegment(PathOf[t], "_deps")
                                   THEN 0 ELSE 1
            /\ ("uninitialized: enabled" \in said <=>
                    cfg.uninitializedCrossTU /\ Len(plan.inputs) > 1)
            /\ (shown # <<>> /\ named # {} => shown[1].profile = plan.profile)

(* README.md, "These counters are computed from emitted diagnostics         *)
(* (post-filter), matching human summary totals": the JSON counters, the    *)
(* human totals and the SARIF results of one run agree, and SARIF's table   *)
(* has one rule for each rule that a result names, tagged when one of its   *)
(* results is.                                                              *)
FormatsAgree ==
    phase \in {"emit", "file", "done"} =>
        LET json  == ToJson(results, cfg)
            sarif == ToSarif(results, cfg)
            human == ToHuman(results, cfg)
            all   == FlattenSeq([i \in 1 .. Len(results) |-> results[i][2].diagnostics])
            kept  == IF cfg.warningsOnly THEN Only(all, Grave(all)) ELSE all
        IN  /\ json.summary = human.total
            /\ \A s \in Severities : json.summary[s] = Count(kept, s)
            /\ [i \in 1 .. Len(json.diagnostics) |-> json.diagnostics[i].rule]
               = [i \in 1 .. Len(sarif.results) |-> sarif.results[i].rule]
            /\ \A i \in 1 .. Len(kept) :
                 Cardinality({ r \in sarif.rules : r.id = RuleOf(kept[i]) }) = 1
            /\ \A r \in sarif.rules :
                 r.cwe = "" <=> \A i \in 1 .. Len(kept) : RuleOf(kept[i]) = r.id => kept[i].cwe = ""

(* A function that is listed passes the filters of the command line as the  *)
(* report sees it, by its name and by the path the report gives it, when    *)
(* its module's source is the input: the choice made inside the module and  *)
(* the one AnalyzerApp has for reports, each written out on its own, agree. *)
ListedMatchFilters ==
    phase \in {"emit", "file", "done"} =>
        \A k \in 1 .. Len(results) :
            ModuleOf[results[k][1]].source = results[k][1] =>
                \A i \in 1 .. Len(results[k][2].functions) :
                    ReportsFunction(results[k][2].functions[i], cfg)
=============================================================================
