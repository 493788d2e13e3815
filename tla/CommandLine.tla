---------------------------- MODULE CommandLine ----------------------------
(***************************************************************************)
(* The command line of the analyzer (src/src/cli/ArgParser.cpp).           *)
(*                                                                         *)
(* parseArguments reads the arguments twice.  The first reading looks for  *)
(* --config and --print-effective-config only; the configuration file it   *)
(* finds is applied; the second reading then applies every argument in     *)
(* order on top of it.  The two readings cut the arguments into options    *)
(* and values differently: the first knows one option that takes a value,  *)
(* the second knows them all.                                              *)
(*                                                                         *)
(* An argument, a key and a value are texts.  What the parsing functions   *)
(* see in a text is given by tables: Inline cuts `option=value' (and       *)
(* `-Ivalue'), Numeral reads a number and its suffix, Folded is the text   *)
(* trimmed and in lower case, Pieces cuts a text at its commas.            *)
(***************************************************************************)
EXTENDS Selections, SequencesExt, TLC

CONSTANTS
    Inline,         \* text -> <<option, value>>
    Numeral,        \* text -> <<number, suffix>>, for texts that start with a digit
    Folded,         \* text -> trimmed lower-case text, where that differs
    Pieces,         \* text -> its trimmed pieces, for texts with a comma or a space
    Unquoted,       \* text -> what its quotes enclose, for texts in quotes
    Dashed,         \* the texts that start with a dash
    Absolute,       \* the texts that are absolute paths
    ConfigLines,    \* configuration file -> its lines
    ConfigDir,      \* configuration file -> its directory
    Kilo,           \* 1024
    SizeMax,        \* the largest StackSize
    UnsignedMax,    \* the largest unsigned
    HardwareJobs,   \* hardware_concurrency()
    Commands        \* the argument vectors to parse

VARIABLES
    argv,           \* the arguments after the program's name
    phase,          \* "scan", "open", "config", "args", "ok", "help" or "error"
    pos,            \* the argument, or the line, to read next
    meta,           \* PreParsedCliMeta::configPath
    cfg             \* ParsedArguments, its AnalysisConfig included

cliVars == <<argv, phase, pos, meta, cfg>>

-----------------------------------------------------------------------------
(* Values.  A parsing function returns the set of its results: none when    *)
(* it reports an error.                                                     *)

Fold(text) == IF text \in DOMAIN Folded THEN Folded[text] ELSE text

ParsePositive(text, max) ==
    LET t == Fold(text)
    IN  { n \in (IF t \in DOMAIN Numeral /\ Numeral[t][2] = ""
                 THEN {Numeral[t][1]} ELSE {}) : n # 0 /\ n <= max }

ParseWord(text, words) == { Fold(text) } \cap words

IRFormat(word) == IF word \in {"bc", ".bc"} THEN "bc" ELSE "ll"

ParseBool(text) ==
    { (w \in {"true", "on", "yes", "1"}) :
      w \in ParseWord(text, {"true", "on", "yes", "1", "false", "off", "no", "0"}) }

ParseJobs(text) ==
    IF Fold(text) = "auto"
    THEN { [jobs |-> HardwareJobs, jobsAuto |-> TRUE] }
    ELSE { [jobs |-> n, jobsAuto |-> FALSE] : n \in ParsePositive(text, UnsignedMax) }

(* The suffix of a stack limit.                                             *)
Multiplier ==
    [s \in {"", "b", "k", "kb", "kib", "m", "mb", "mib", "g", "gb", "gib"} |->
        CASE s \in {"", "b"} -> 1
          [] s \in {"k", "kb", "kib"} -> Kilo
          [] s \in {"m", "mb", "mib"} -> Kilo * Kilo
          [] s \in {"g", "gb", "gib"} -> Kilo * Kilo * Kilo]

ParseStackLimit(text) ==
    LET t == Fold(text)
    IN  { n * Multiplier[Numeral[t][2]] :
            n \in (IF /\ t \in DOMAIN Numeral
                      /\ Numeral[t][2] \in DOMAIN Multiplier
                      /\ Numeral[t][1] # 0
                      /\ Numeral[t][1] <= SizeMax \div Multiplier[Numeral[t][2]]
                   THEN {Numeral[t][1]} ELSE {}) }

Csv(text) ==
    LET pieces == IF text \in DOMAIN Pieces THEN Pieces[text] ELSE <<text>>
    IN  Only(pieces, Range(pieces) \ {""})

(* A path of the configuration file is taken from the file's directory; a   *)
(* path is the pair of the directory it starts from and its text.           *)
FromConfig(text, dir) ==
    IF text = "" \/ text \in Absolute THEN <<"", text>> ELSE <<dir, text>>

-----------------------------------------------------------------------------
(* Options.  What an option does is the record of the fields it sets.       *)

(* The configuration c with the fields of the record e set.                 *)
Updated(c, e) ==
    [f \in DOMAIN c \cup DOMAIN e |-> IF f \in DOMAIN e THEN e[f] ELSE c[f]]

(* The options without a value.                                             *)
Flags ==
    {"--demangle", "--quiet", "--verbose", "--print-effective-config", "--STL", "--stl",
     "--dump-filter", "--compdb-fast", "--include-compdb-deps", "--timing",
     "--resource-cross-tu", "--no-resource-cross-tu", "--uninitialized-cross-tu",
     "--no-uninitialized-cross-tu", "--resource-summary-cache-memory-only",
     "--warnings-only", "--format=json", "--format=sarif", "--format=human"}

FlagEffect(flag) ==
    CASE flag = "--demangle" -> [demangle |-> TRUE]
      [] flag = "--quiet" -> [quiet |-> TRUE]
      [] flag = "--verbose" -> [quiet |-> FALSE, verbose |-> TRUE]
      [] flag = "--print-effective-config" -> [printEffectiveConfig |-> TRUE]
      [] flag \in {"--STL", "--stl"} -> [includeSTL |-> TRUE]
      [] flag = "--dump-filter" -> [dumpFilter |-> TRUE]
      [] flag = "--compdb-fast" -> [compdbFast |-> TRUE]
      [] flag = "--include-compdb-deps" -> [includeCompdbDeps |-> TRUE]
      [] flag = "--timing" -> [timing |-> TRUE]
      [] flag = "--resource-cross-tu" -> [resourceCrossTU |-> TRUE]
      [] flag = "--no-resource-cross-tu" -> [resourceCrossTU |-> FALSE]
      [] flag = "--uninitialized-cross-tu" -> [uninitializedCrossTU |-> TRUE]
      [] flag = "--no-uninitialized-cross-tu" -> [uninitializedCrossTU |-> FALSE]
      [] flag = "--resource-summary-cache-memory-only" -> [resourceSummaryMemoryOnly |-> TRUE]
      [] flag = "--warnings-only" -> [warningsOnly |-> TRUE]
      [] flag = "--format=json" -> [outputFormat |-> "json"]
      [] flag = "--format=sarif" -> [outputFormat |-> "sarif"]
      [] flag = "--format=human" -> [outputFormat |-> "human"]

(* The options that store their value, and where.                           *)
TextField ==
    [o \in {"--config", "--dump-ir", "--base-dir", "--sarif-out"} |->
        CASE o = "--config" -> "configPath"
          [] o = "--dump-ir" -> "dumpIRPath"
          [] o = "--base-dir" -> "sarifBaseDir"
          [] o = "--sarif-out" -> "sarifOutPath"]

PathField ==
    [o \in {"--resource-model", "--escape-model", "--buffer-model",
            "--resource-summary-cache-dir", "--compile-ir-cache-dir"} |->
        CASE o = "--resource-model" -> "resourceModelPath"
          [] o = "--escape-model" -> "escapeModelPath"
          [] o = "--buffer-model" -> "bufferModelPath"
          [] o = "--resource-summary-cache-dir" -> "resourceSummaryCacheDir"
          [] o = "--compile-ir-cache-dir" -> "compileIRCacheDir"]

CompdbOptions == {"--compile-commands", "--compdb"}

(* The options that append their value, and the ones that cut it at commas. *)
ListField ==
    [o \in {"--only-file", "--only-dir"} |->
        IF o = "--only-file" THEN "onlyFiles" ELSE "onlyDirs"]
CsvField ==
    [o \in {"--only-func", "--only-function", "--exclude-dir"} |->
        IF o = "--exclude-dir" THEN "excludeDirs" ELSE "onlyFunctions"]

CompileOptions == {"-I", "-D", "--compile-arg"}

SmtOptions ==
    {"--smt", "--smt-backend", "--smt-secondary-backend", "--smt-mode",
     "--smt-timeout-ms", "--smt-budget-nodes", "--smt-rules"}

ValueOptions ==
    DOMAIN TextField \cup DOMAIN PathField \cup DOMAIN ListField \cup DOMAIN CsvField
    \cup CompdbOptions \cup CompileOptions \cup SmtOptions
    \cup {"--stack-limit", "--analysis-profile", "--jobs", "--compile-ir-format", "--mode"}

Enables(effects) == { Updated([smtEnabled |-> TRUE], e) : e \in effects }

(* The effects of an SMT option: a command line says on or off where a file *)
(* may say any boolean word, and the rules of a file replace the list that  *)
(* the rules of a command line extend.  Every option but the switch itself  *)
(* also switches SMT on.                                                    *)
SmtEffect(opt, v, c, source) ==
    CASE opt = "--smt" /\ source = "cli" ->
             { [smtEnabled |-> w = "on"] : w \in ParseWord(v, {"on", "off"}) }
      [] opt = "--smt" /\ source = "config" -> { [smtEnabled |-> b] : b \in ParseBool(v) }
      [] opt = "--smt-backend" -> Enables({[smtBackend |-> v]})
      [] opt = "--smt-secondary-backend" -> Enables({[smtSecondaryBackend |-> v]})
      [] opt = "--smt-mode" ->
             Enables({ [smtMode |-> w] :
                       w \in ParseWord(v, {"single", "portfolio", "cross-check", "dual-consensus"}) })
      [] opt = "--smt-timeout-ms" ->
             Enables({ [smtTimeoutMs |-> n] : n \in ParsePositive(v, UnsignedMax) })
      [] opt = "--smt-budget-nodes" ->
             Enables({ [smtBudgetNodes |-> n] : n \in ParsePositive(v, SizeMax) })
      [] opt = "--smt-rules" ->
             Enables({ [smtRules |-> (IF source = "config" THEN <<>> ELSE c.smtRules) \o Csv(v)] })

(* The effects of an option of the command line with value v on c.          *)
ValueEffect(opt, v, c) ==
    CASE opt \in DOMAIN TextField -> { [f \in {TextField[opt]} |-> v] }
      [] opt \in DOMAIN PathField -> { [f \in {PathField[opt]} |-> <<"", v>>] }
      [] opt \in CompdbOptions ->
             { [compileCommandsPath |-> <<"", v>>, compileCommandsExplicit |-> TRUE] }
      [] opt \in DOMAIN ListField -> { [f \in {ListField[opt]} |-> Append(c[f], v)] }
      [] opt \in DOMAIN CsvField -> { [f \in {CsvField[opt]} |-> c[f] \o Csv(v)] }
      [] opt \in CompileOptions ->
             { [extraCompileArgs |->
                    Append(c.extraCompileArgs,
                           <<IF opt = "--compile-arg" THEN "" ELSE opt, v>>)] }
      [] opt = "--stack-limit" -> { [stackLimit |-> n] : n \in ParseStackLimit(v) }
      [] opt = "--analysis-profile" ->
             { [profile |-> w, analysisProfileExplicit |-> TRUE] :
               w \in ParseWord(v, {"fast", "full"}) }
      [] opt = "--jobs" -> ParseJobs(v)
      [] opt = "--compile-ir-format" ->
             { [compileIRFormat |-> IRFormat(w)] : w \in ParseWord(v, {"bc", ".bc", "ll", ".ll"}) }
      [] opt = "--mode" -> { [mode |-> w] : w \in {v} \cap {"ir", "abi"} }
      [] opt \in SmtOptions -> SmtEffect(opt, v, c, "cli")

(* The fields that a boolean key of the configuration file sets.            *)
BoolKey ==
    [k \in {"timing", "warnings-only", "quiet", "demangle", "resource-cross-tu",
            "uninitialized-cross-tu", "resource-summary-cache-memory-only",
            "include-compdb-deps"} |->
        CASE k = "warnings-only" -> "warningsOnly"
          [] k = "resource-cross-tu" -> "resourceCrossTU"
          [] k = "uninitialized-cross-tu" -> "uninitializedCrossTU"
          [] k = "resource-summary-cache-memory-only" -> "resourceSummaryMemoryOnly"
          [] k = "include-compdb-deps" -> "includeCompdbDeps"
          [] OTHER -> k]

(* The option of the command line that a key of the file stands for.        *)
KeyOption ==
    [k \in {"resource-model", "escape-model", "buffer-model", "resource-summary-cache-dir",
            "compile-ir-cache-dir", "compile-commands", "compdb", "analysis-profile",
            "jobs", "compile-ir-format", "smt", "smt-backend", "smt-secondary-backend",
            "smt-mode", "smt-timeout-ms", "smt-budget-nodes", "smt-rules"} |->
        CASE k = "resource-model" -> "--resource-model"
          [] k = "escape-model" -> "--escape-model"
          [] k = "buffer-model" -> "--buffer-model"
          [] k = "resource-summary-cache-dir" -> "--resource-summary-cache-dir"
          [] k = "compile-ir-cache-dir" -> "--compile-ir-cache-dir"
          [] k \in {"compile-commands", "compdb"} -> "--compdb"
          [] k = "analysis-profile" -> "--analysis-profile"
          [] k = "jobs" -> "--jobs"
          [] k = "compile-ir-format" -> "--compile-ir-format"
          [] k = "smt" -> "--smt"
          [] k = "smt-backend" -> "--smt-backend"
          [] k = "smt-secondary-backend" -> "--smt-secondary-backend"
          [] k = "smt-mode" -> "--smt-mode"
          [] k = "smt-timeout-ms" -> "--smt-timeout-ms"
          [] k = "smt-budget-nodes" -> "--smt-budget-nodes"
          [] k = "smt-rules" -> "--smt-rules"]

(* The effects of the entry key=text of a configuration file in directory dir; *)
(* an unknown key has none and is an error.                                 *)
EntryEffect(key, text, dir, c) ==
    LET k   == Fold(key)
        v   == IF text \in DOMAIN Unquoted THEN Unquoted[text] ELSE text
        opt == KeyOption[k]
    IN  CASE k \in DOMAIN BoolKey -> { [f \in {BoolKey[k]} |-> b] : b \in ParseBool(v) }
          [] k \notin DOMAIN BoolKey \cup DOMAIN KeyOption -> {}
          [] k \in DOMAIN KeyOption /\ opt \in DOMAIN PathField ->
                 { [f \in {PathField[opt]} |-> FromConfig(v, dir)] }
          [] k \in DOMAIN KeyOption /\ opt = "--compdb" ->
                 { [compileCommandsPath |-> FromConfig(v, dir),
                    compileCommandsExplicit |-> TRUE] }
          [] k \in DOMAIN KeyOption /\ opt \in SmtOptions -> SmtEffect(opt, v, c, "config")
          [] OTHER -> ValueEffect(opt, v, c)

-----------------------------------------------------------------------------
(* The options that read the argument at i, and how many arguments they     *)
(* take: 2 when the value is the next argument, whatever it looks like.     *)

OptionAt(i) ==
    IF argv[i] \in DOMAIN Inline THEN Inline[argv[i]][1] ELSE argv[i]

HasInline(i) == argv[i] \in DOMAIN Inline

(* --mode has only its inline form.                                         *)
TakesValue(i) ==
    /\ OptionAt(i) \in ValueOptions
    /\ OptionAt(i) = "--mode" => HasInline(i)

ValueAt(i) == IF HasInline(i) THEN Inline[argv[i]][2] ELSE argv[i + 1]

Width(i) == IF HasInline(i) THEN 1 ELSE 2

Missing(i) == ~HasInline(i) /\ i = Len(argv)

Help(i) == argv[i] \in {"-h", "--help"}

IsFlag(i) == argv[i] \in Flags

-----------------------------------------------------------------------------
DefaultConfig ==
    [demangle |-> FALSE, quiet |-> FALSE, verbose |-> FALSE,
     printEffectiveConfig |-> FALSE, includeSTL |-> FALSE, dumpFilter |-> FALSE,
     compdbFast |-> FALSE, includeCompdbDeps |-> FALSE, timing |-> FALSE,
     resourceCrossTU |-> TRUE, uninitializedCrossTU |-> TRUE,
     resourceSummaryMemoryOnly |-> FALSE, warningsOnly |-> FALSE,
     outputFormat |-> "human", configPath |-> "", dumpIRPath |-> "",
     sarifBaseDir |-> "", sarifOutPath |-> "",
     resourceModelPath |-> <<"", "">>, escapeModelPath |-> <<"", "">>,
     bufferModelPath |-> <<"", "">>, compileIRCacheDir |-> <<"", "">>,
     resourceSummaryCacheDir |-> <<"", ".cache/resource-lifetime">>,
     compileCommandsPath |-> <<"", "">>, compileCommandsExplicit |-> FALSE,
     onlyFiles |-> <<>>, onlyDirs |-> <<>>, onlyFunctions |-> <<>>, excludeDirs |-> <<>>,
     extraCompileArgs |-> <<<<"", "-O0">>, <<"", "--ct-optnone">>>>,
     stackLimit |-> 8 * Kilo * Kilo, profile |-> "full", analysisProfileExplicit |-> FALSE,
     jobs |-> 0, jobsAuto |-> TRUE, compileIRFormat |-> "bc", mode |-> "ir",
     smtEnabled |-> FALSE, smtBackend |-> "interval", smtSecondaryBackend |-> "",
     smtMode |-> "single", smtTimeoutMs |-> 50, smtBudgetNodes |-> 10000,
     smtRules |-> <<>>, inputFilenames |-> <<>>]

CliInit ==
    /\ argv \in Commands
    /\ phase = "scan"
    /\ pos = 1
    /\ meta = ""
    /\ cfg = DefaultConfig

Goto(p, i) == phase' = p /\ pos' = i

(* A first reading that stops at the first --config.                        *)
ScanMetaFirst ==
    /\ phase = "scan" /\ pos <= Len(argv)
    /\ UNCHANGED <<argv, cfg>>
    /\ \/ /\ OptionAt(pos) = "--config" /\ ~Missing(pos)
          /\ meta' = IF meta = "" THEN ValueAt(pos) ELSE meta
          /\ Goto("scan", pos + Width(pos))
       \/ OptionAt(pos) # "--config" /\ Goto("scan", pos + 1) /\ UNCHANGED meta

(* preScanMetaOptions: the last --config wins.                              *)
ScanMeta ==
    /\ phase = "scan" /\ pos <= Len(argv)
    /\ UNCHANGED argv
    /\ \/ /\ argv[pos] = "--print-effective-config"
          /\ cfg' = [cfg EXCEPT !.printEffectiveConfig = TRUE]
          /\ Goto("scan", pos + 1) /\ UNCHANGED meta
       \/ /\ OptionAt(pos) = "--config" /\ Missing(pos)
          /\ Goto("error", pos) /\ UNCHANGED <<meta, cfg>>
       \/ /\ OptionAt(pos) = "--config" /\ ~Missing(pos)
          /\ meta' = ValueAt(pos)
          /\ Goto("scan", pos + Width(pos)) /\ UNCHANGED cfg
       \/ /\ argv[pos] # "--print-effective-config" /\ OptionAt(pos) # "--config"
          /\ Goto("scan", pos + 1) /\ UNCHANGED <<meta, cfg>>

(* The file found is opened; it is recorded once all its entries are        *)
(* applied.                                                                 *)
OpenConfig ==
    /\ phase = "scan" /\ pos > Len(argv)
    /\ \/ meta = "" /\ Goto("args", 1)
       \/ meta # "" /\ meta \notin DOMAIN ConfigLines /\ Goto("error", pos)
       \/ meta # "" /\ meta \in DOMAIN ConfigLines /\ Goto("config", 1)
    /\ UNCHANGED <<argv, meta, cfg>>

(* One line of the file: a comment or blank line, an entry, or a line that  *)
(* is neither.                                                              *)
ConfigLine ==
    LET lines == ConfigLines[meta]
        line  == lines[pos]
        effects == EntryEffect(line.key, line.value, ConfigDir[meta], cfg)
    IN  /\ phase = "config" /\ pos <= Len(lines)
        /\ \/ line.kind = "comment" /\ Goto("config", pos + 1) /\ UNCHANGED cfg
           \/ /\ line.kind = "entry"
              /\ \E e \in effects : cfg' = Updated(cfg, e)
              /\ Goto("config", pos + 1)
           \/ /\ line.kind = "malformed" \/ (line.kind = "entry" /\ effects = {})
              /\ Goto("error", pos) /\ UNCHANGED cfg
        /\ UNCHANGED <<argv, meta>>

CloseConfig ==
    /\ phase = "config" /\ pos > Len(ConfigLines[meta])
    /\ cfg' = [cfg EXCEPT !.configPath = meta]
    /\ Goto("args", 1)
    /\ UNCHANGED <<argv, meta>>

(* parseArguments: one argument, with its value if it takes one.            *)
AskHelp ==
    /\ phase = "args" /\ pos <= Len(argv) /\ Help(pos)
    /\ Goto("help", pos) /\ UNCHANGED <<argv, meta, cfg>>

SetFlag ==
    /\ phase = "args" /\ pos <= Len(argv) /\ IsFlag(pos)
    /\ cfg' = Updated(cfg, FlagEffect(argv[pos]))
    /\ Goto("args", pos + 1) /\ UNCHANGED <<argv, meta>>

(* A value that does not replace what the configuration file set.           *)
SetValueBelowFile ==
    /\ phase = "args" /\ pos <= Len(argv) /\ TakesValue(pos) /\ ~Missing(pos)
    /\ \E e \in ValueEffect(OptionAt(pos), ValueAt(pos), cfg) :
           cfg' = Updated(cfg, [f \in { g \in DOMAIN e : cfg[g] = DefaultConfig[g] } |-> e[f]])
    /\ Goto("args", pos + Width(pos)) /\ UNCHANGED <<argv, meta>>

SetValue ==
    /\ phase = "args" /\ pos <= Len(argv) /\ TakesValue(pos) /\ ~Missing(pos)
    /\ \E e \in ValueEffect(OptionAt(pos), ValueAt(pos), cfg) : cfg' = Updated(cfg, e)
    /\ Goto("args", pos + Width(pos)) /\ UNCHANGED <<argv, meta>>

Reject ==
    /\ phase = "args" /\ pos <= Len(argv) /\ ~Help(pos) /\ ~IsFlag(pos)
    /\ \/ TakesValue(pos) /\ Missing(pos)
       \/ /\ TakesValue(pos) /\ ~Missing(pos)
          /\ ValueEffect(OptionAt(pos), ValueAt(pos), cfg) = {}
       \/ ~TakesValue(pos) /\ argv[pos] \in Dashed
    /\ Goto("error", pos) /\ UNCHANGED <<argv, meta, cfg>>

AddInput ==
    /\ phase = "args" /\ pos <= Len(argv)
    /\ ~Help(pos) /\ ~IsFlag(pos) /\ ~TakesValue(pos) /\ argv[pos] \notin Dashed
    /\ cfg' = [cfg EXCEPT !.inputFilenames = Append(@, argv[pos])]
    /\ Goto("args", pos + 1) /\ UNCHANGED <<argv, meta>>

Accept ==
    /\ phase = "args" /\ pos > Len(argv)
    /\ Goto("ok", pos) /\ UNCHANGED <<argv, meta, cfg>>

CliNext ==
    \/ ScanMeta \/ OpenConfig \/ ConfigLine \/ CloseConfig
    \/ AskHelp \/ SetFlag \/ SetValue \/ Reject \/ AddInput \/ Accept

-----------------------------------------------------------------------------
(* The cut of the arguments into options and values that the second reading *)
(* makes: the positions it reads an option or an input at.                  *)
SplitAt(i) == TakesValue(i) /\ Width(i) = 2

IsCut(S) ==
    /\ 1 \in S
    /\ \A i \in 2 .. Len(argv) + 2 :
          i \in S <=> \/ i - 1 \in S \cap 1 .. Len(argv) /\ ~SplitAt(i - 1)
                      \/ i - 2 \in S \cap 1 .. Len(argv) /\ SplitAt(i - 2)

Heads == CHOOSE S \in SUBSET (1 .. Len(argv) + 2) : IsCut(S)

(* What the argument at head i sets, and what line j of the file sets, on   *)
(* the default configuration: {} or a set of one record.                    *)
SetBy(i) ==
    IF IsFlag(i) THEN {FlagEffect(argv[i])}
    ELSE IF TakesValue(i) /\ ~Missing(i)
         THEN ValueEffect(OptionAt(i), ValueAt(i), DefaultConfig)
         ELSE {}

SetByLine(j) ==
    LET line == ConfigLines[meta][j]
    IN  IF line.kind = "entry"
        THEN EntryEffect(line.key, line.value, ConfigDir[meta], DefaultConfig) ELSE {}

ListFields == {"onlyFiles", "onlyDirs", "onlyFunctions", "excludeDirs",
               "extraCompileArgs", "smtRules", "inputFilenames"}

ScalarFields == DOMAIN DefaultConfig \ ListFields

(* The places that set field f: <<2, i>> for an argument, <<1, j>> for a    *)
(* line; a later place is a larger pair.                                    *)
Setters(f, heads) ==
    LET lines == IF meta \in DOMAIN ConfigLines THEN 1 .. Len(ConfigLines[meta]) ELSE {}
    IN  { <<2, i>> : i \in { h \in heads \cap 1 .. Len(argv) :
                             \E e \in SetBy(h) : f \in DOMAIN e } }
        \cup { <<1, j>> : j \in { l \in lines : \E e \in SetByLine(l) : f \in DOMAIN e } }

Later(p, q) == p[1] > q[1] \/ (p[1] = q[1] /\ p[2] >= q[2])

(* The effect of the place.                                                 *)
EffectOf(p) == CHOOSE e \in (IF p[1] = 2 THEN SetBy(p[2]) ELSE SetByLine(p[2])) : TRUE

(* README.md, "Priority order: 1. CLI flags 2. Config file values           *)
(* 3. Built-in defaults".  Every field that holds one value holds, once the *)
(* arguments are accepted, what the last argument that sets it says; if     *)
(* there is none what the last entry of the loaded file says; and otherwise *)
(* its default.  The two fields that the first reading also writes are      *)
(* LoadedIsRecorded's.                                                      *)
CliOverFileOverDefault ==
    phase = "ok" =>
        LET heads == Heads
        IN  \A f \in ScalarFields \ {"configPath", "printEffectiveConfig"} :
            LET P == Setters(f, heads)
            IN  cfg[f] = IF P = {} THEN DefaultConfig[f]
                         ELSE EffectOf(CHOOSE p \in P : \A q \in P : Later(p, q))[f]

(* The arguments that the first reading takes for --config although the     *)
(* second takes them for the value of another option.                       *)
HiddenConfigs ==
    LET heads == Heads
    IN  { i \in 1 .. Len(argv) : i \notin heads /\ OptionAt(i) = "--config" }

(* The configuration file that was applied is the one the accepted          *)
(* arguments record, except where the text --config is itself the value of  *)
(* another option: the first reading then loads a file that the second      *)
(* does not see (preScanMetaOptions knows no other option with a value).    *)
LoadedIsRecorded ==
    phase = "ok" /\ HiddenConfigs = {} => cfg.configPath = meta
=============================================================================
