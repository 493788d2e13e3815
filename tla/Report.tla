------------------------------- MODULE Report -------------------------------
(***************************************************************************)
(* From the results of the inputs to the report: the filters and the three *)
(* output formats of AnalyzerApp.cpp, and ReportSerialization.cpp.         *)
(*                                                                         *)
(* A result is a record [functions, diagnostics]: a sequence of records    *)
(* [name, file] and a sequence of records [func, file, severity, rule,     *)
(* code, cwe, line, column]; a file, a rule or a cwe may be "".  The       *)
(* results of a run are the pairs <<input, result>> in the order of the    *)
(* inputs.                                                                 *)
(***************************************************************************)
EXTENDS FunctionFilter, FiniteSets

CONSTANT Strip(_, _)    \* stripBase: a path without the base directory before it

(* stampResultFilePaths.                                                    *)
Stamped(r, input) ==
    LET Fill(x) == IF x.file = "" THEN [x EXCEPT !.file = input] ELSE x
    IN  [functions   |-> [i \in 1 .. Len(r.functions) |-> Fill(r.functions[i])],
         diagnostics |-> [i \in 1 .. Len(r.diagnostics) |-> Fill(r.diagnostics[i])]]

HasFilter(c) == c.onlyFiles # <<>> \/ c.onlyDirs # <<>> \/ c.onlyFunctions # <<>>

(* filterResult: by the functions it keeps.                                 *)
FilterResult(r, c) ==
    LET kept  == Only(r.functions, { f \in Range(r.functions) : ReportsFunction(f, c) })
        names == { kept[i].name : i \in 1 .. Len(kept) }
    IN  IF ~HasFilter(c) THEN r
        ELSE [functions |-> kept,
              diagnostics |-> Only(r.diagnostics,
                                   { d \in Range(r.diagnostics) : d.func \in names })]

(* Each format filters the result when there is nothing to filter by.       *)
ApplyFilter(r, c) == IF ~HasFilter(c) THEN FilterResult(r, c) ELSE r

Grave(diagnostics) == { d \in Range(diagnostics) : d.severity # "info" }

FilterWarningsOnly(r, c) ==
    IF ~c.warningsOnly THEN r
    ELSE [r EXCEPT !.diagnostics = Only(@, Grave(@))]

FilterFunctionsWithDiagnostics(r) ==
    LET warned == { r.diagnostics[i].func : i \in 1 .. Len(r.diagnostics) } \ {""}
    IN  [r EXCEPT !.functions = Only(@, { f \in Range(@) : f.name \in warned })]

MergeAnalysisResults(results) ==
    [functions   |-> FlattenSeq([i \in 1 .. Len(results) |-> results[i][2].functions]),
     diagnostics |-> FlattenSeq([i \in 1 .. Len(results) |-> results[i][2].diagnostics])]

(* summarizeDiagnostics, accumulateSummary.                                 *)
Severities == {"info", "warning", "error"}

Count(diagnostics, severity) ==
    Cardinality({ i \in 1 .. Len(diagnostics) : diagnostics[i].severity = severity })

Summary(diagnostics) == [s \in Severities |-> Count(diagnostics, s)]

AddSummaries(a, b) == [s \in Severities |-> a[s] + b[s]]

NoDiagnostics == [s \in Severities |-> 0]

(* A merge that starts from the result of the first input.                  *)
WrittenFirstTwice(results, c) ==
    LET m == MergeAnalysisResults(results)
    IN  FilterWarningsOnly(
            ApplyFilter([m EXCEPT !.diagnostics = results[1][2].diagnostics \o @], c), c)

(* What is written of a run of one input and of a run of several.           *)
Written(results, c) ==
    FilterWarningsOnly(
        ApplyFilter(IF Len(results) = 1 THEN results[1][2] ELSE MergeAnalysisResults(results), c),
        c)

(* resolveRuleId.                                                           *)
RuleOf(d) == IF d.rule # "" THEN d.rule ELSE d.code

(* emitJsonOutput, toJsonImpl: the diagnostics are numbered in the order    *)
(* they are written.                                                        *)
ToJson(results, c) ==
    LET w == Written(results, c)
    IN  [inputs |-> [i \in 1 .. Len(results) |-> results[i][1]],
         functions |-> w.functions,
         diagnostics |-> [i \in 1 .. Len(w.diagnostics) |->
                            LET d == w.diagnostics[i]
                            IN  [id |-> i, func |-> d.func, file |-> d.file,
                                 severity |-> d.severity, rule |-> RuleOf(d)]],
         summary |-> Summary(w.diagnostics)]

(* The table of rules: one entry a rule, with the first cwe one of its      *)
(* diagnostics names.                                                       *)
SarifRules(diagnostics) ==
    LET First(id) ==
            LET named == { i \in 1 .. Len(diagnostics) :
                           RuleOf(diagnostics[i]) = id /\ diagnostics[i].cwe # "" }
            IN  IF named = {} THEN ""
                ELSE diagnostics[CHOOSE i \in named : \A j \in named : i <= j].cwe
    IN  { [id |-> id, cwe |-> First(id)] :
            id \in { RuleOf(diagnostics[i]) : i \in 1 .. Len(diagnostics) } }

Level == [s \in Severities |-> IF s = "info" THEN "note" ELSE s]

(* emitSarifOutput, writeSarifToFile, toSarif: an unknown line or column is *)
(* the first one.                                                           *)
ToSarif(results, c) ==
    LET w == Written(results, c)
        OrFirst(n) == IF n = 0 THEN 1 ELSE n
    IN  [rules |-> SarifRules(w.diagnostics),
         results |-> [i \in 1 .. Len(w.diagnostics) |->
                        LET d == w.diagnostics[i]
                        IN  [rule |-> RuleOf(d), level |-> Level[d.severity],
                             uri |-> Strip(d.file, c.sarifBaseDir),
                             line |-> OrFirst(d.line), column |-> OrFirst(d.column)]]]

(* emitHumanOutput: a section for every input, which prints the diagnostics *)
(* of the functions it lists and counts all of them.                        *)
ToHuman(results, c) ==
    LET Section(k) ==
            LET w == FilterWarningsOnly(ApplyFilter(results[k][2], c), c)
                r == IF c.warningsOnly THEN FilterFunctionsWithDiagnostics(w) ELSE w
            IN  [input |-> results[k][1], functions |-> r.functions,
                 printed |-> IF c.quiet THEN <<>>
                             ELSE FlattenSeq([i \in 1 .. Len(r.functions) |->
                                    Only(r.diagnostics,
                                         { d \in Range(r.diagnostics) :
                                           d.func = r.functions[i].name })]),
                 summary |-> Summary(r.diagnostics)]
        sections == [k \in 1 .. Len(results) |-> Section(k)]
        total[k \in 0 .. Len(results)] ==
            IF k = 0 THEN NoDiagnostics ELSE AddSummaries(total[k - 1], sections[k].summary)
    IN  [sections |-> sections, total |-> total[Len(results)]]
=============================================================================
