----------------------------- MODULE MCFrontEnd -----------------------------
(***************************************************************************)
(* An instance of FrontEnd: four configuration files, two of which are     *)
(* refused, two compilation databases, three modules that load, and        *)
(* command lines of up to six arguments.                                   *)
(***************************************************************************)
EXTENDS FrontEnd

MCInline ==
    ("--config=c2" :> <<"--config", "c2">>) @@ ("--jobs=2" :> <<"--jobs", "2">>)
    @@ ("--jobs=0" :> <<"--jobs", "0">>) @@ ("--smt=off" :> <<"--smt", "off">>)
    @@ ("--smt-rules=r1" :> <<"--smt-rules", "r1">>) @@ ("--smt-mode=Single" :> <<"--smt-mode", "Single">>)
    @@ ("--exclude-dir=x,/" :> <<"--exclude-dir", "x,/">>) @@ ("--only-func=f" :> <<"--only-func", "f">>)
    @@ ("--only-dir=y" :> <<"--only-dir", "y">>) @@ ("--compdb=db" :> <<"--compdb", "db">>)
    @@ ("--stack-limit=3K" :> <<"--stack-limit", "3K">>) @@ ("--stack-limit=40K" :> <<"--stack-limit", "40K">>)
    @@ ("--analysis-profile=full" :> <<"--analysis-profile", "full">>)
    @@ ("--sarif-out=s" :> <<"--sarif-out", "s">>) @@ ("--sarif-out=ro" :> <<"--sarif-out", "ro">>)
    @@ ("--dump-ir=d" :> <<"--dump-ir", "d">>) @@ ("-Iinc" :> <<"-I", "inc">>)
    @@ ("--resource-model=m" :> <<"--resource-model", "m">>) @@ ("--mode=abi" :> <<"--mode", "abi">>)

MCNumeral ==
    ("0" :> <<0, "">>) @@ ("2" :> <<2, "">>) @@ ("3k" :> <<3, "k">>) @@ ("40k" :> <<40, "k">>)

MCFolded == ("3K" :> "3k") @@ ("40K" :> "40k") @@ ("Single" :> "single")
            @@ ("SMT_RULES" :> "smt-rules")

MCPieces == ("x,/" :> <<"x", "/", "">>)

MCUnquoted == ("'q'" :> "q")

Entry(k, v) == [kind |-> "entry", key |-> k, value |-> v]

MCConfigLines ==
    ("c1" :> <<[kind |-> "comment", key |-> "", value |-> ""], Entry("quiet", "yes"),
               Entry("resource-model", "m"), Entry("SMT_RULES", "'q'"), Entry("jobs", "auto")>>)
    @@ ("c2" :> <<Entry("smt", "no"), Entry("compdb", "db"), Entry("analysis-profile", "full"),
                  Entry("quiet", "off"), Entry("compile-ir-format", ".ll")>>)
    @@ ("c3" :> <<Entry("smt", "on"), Entry("colour", "red")>>)
    @@ ("c4" :> <<[kind |-> "malformed", key |-> "", value |-> ""]>>)

MCConfigDir == [c \in {"c1", "c2", "c3", "c4"} |-> "conf"]

Words ==
    {"x/a.c", "y/b.c", "z.c", "--config", "c1", "--config=c2", "--jobs", "--jobs=2", "--jobs=0",
     "--smt=off", "--smt-rules=r1", "--smt-mode=Single", "--exclude-dir=x,/", "--only-func=f",
     "--only-dir=y", "--compdb=db", "--stack-limit=3K", "--stack-limit=40K",
     "--analysis-profile=full", "--sarif-out=s", "--sarif-out=ro", "--dump-ir=d", "-Iinc",
     "--resource-model=m", "--mode=abi", "--format=json", "--format=sarif", "--warnings-only",
     "--quiet", "--verbose", "--print-effective-config", "--include-compdb-deps", "--STL",
     "-h", "--wat"}

Core ==
    {"x/a.c", "y/b.c", "--config", "c1", "--config=c2", "--only-file", "--exclude-dir=x,/",
     "--compdb=db", "--only-func=f", "--smt=off", "--smt-rules=r1", "--quiet"}

MCPathOf ==
    ("x/a.c" :> <<"w", "x", "a.c">>) @@ ("y/b.c" :> <<"w", "y", "b.c">>)
    @@ ("_deps/d.c" :> <<"w", "_deps", "d.c">>) @@ ("n.txt" :> <<"w", "n.txt">>)
    @@ ("z.c" :> <<"w", "z.c">>) @@ ("x" :> <<"w", "x">>) @@ ("y" :> <<"w", "y">>)
    @@ ("/" :> <<>>) @@ ("y/h.h" :> <<"w", "y", "h.h">>) @@ ("/usr/include/v" :> <<"usr", "include", "v">>)
    @@ [t \in Words \cup Core \cup {"c2"} |-> <<"w", t>>]

MCSegmentsOf ==
    [t \in DOMAIN MCPathOf |->
        IF t = "/usr/include/v" THEN <<"/", "usr", "include", "v">>
        ELSE SubSeq(MCPathOf[t], 2, Len(MCPathOf[t]))]

Diag(f, sev, rule, cwe, line) ==
    [func |-> f, file |-> "", severity |-> sev, rule |-> rule, code |-> "None",
     cwe |-> cwe, line |-> line, column |-> 0]

Fun(n, p, run, ls, ds) == [name |-> n, path |-> p, runtime |-> run, lines |-> ls, diagnostics |-> ds]

MCModuleOf ==
    ("x/a.c" :> [source |-> "x/a.c",
        functions |-> <<Fun("f", "x/a.c", "", {<<"x/a.c", 2>>},
                            <<Diag("f", "info", "", "", 2), Diag("f", "error", "R", "", 0)>>),
                        Fun("g", "y/h.h", "", {<<"y/h.h", 5>>, <<"x/a.c", 9>>},
                            <<Diag("g", "warning", "R", "CWE-1", 5)>>),
                        Fun("v", "/usr/include/v", "", {}, <<>>)>>,
        warnings |-> <<[file |-> "x/a.c", line |-> 8, column |-> 1, severity |-> "warning", message |-> "gets"],
                       [file |-> "x/a.c", line |-> 8, column |-> 1, severity |-> "warning", message |-> "gets"],
                       [file |-> "x/a.c", line |-> 1, column |-> 1, severity |-> "note", message |-> "gets"]>>])
    @@ ("y/b.c" :> [source |-> "y/b.c",
        functions |-> <<Fun("h", "", "", {}, <<Diag("h", "info", "S", "", 1)>>),
                        Fun("__r", "", "reserved", {}, <<>>)>>,
        warnings |-> <<[file |-> "y/b.c", line |-> 3, column |-> 2, severity |-> "error", message |-> "size"]>>])
    @@ ("_deps/d.c" :> [source |-> "_deps/d.c", functions |-> <<>>, warnings |-> <<>>])

MCClasses == ("gets" :> [rule |-> "Gets", cwe |-> "CWE-676"])

MCAliases == [n \in {"", "f", "g", "h", "v", "__r"} |-> IF n = "g" THEN {"ns::g"} ELSE {}]

MCStrip(path, base) == path

MCCompdb == (<<"", "db">> :> <<"_deps/d.c", "n.txt", "x/a.c", "y/b.c">>)
            @@ (<<"conf", "db">> :> <<"x/a.c">>)

MCCommands ==
    UNION { [1 .. n -> Words] : n \in 0 .. 2 }
    \cup { <<a>> \o s : a \in {"x/a.c", "--config", "--compdb=db"}, s \in [1 .. 2 -> Core] }
    \cup { <<"--config", "c1">> \o s : s \in [1 .. 2 -> Core] }
    \cup { <<"--config", c>> : c \in {"c3", "c4", "nowhere", ""} }
    \cup { s \o <<"x/a.c", "y/b.c">> :
           s \in [1 .. 2 -> {"--format=json", "--warnings-only", "--only-func=f", "--only-dir=y",
                             "--dump-ir=d", "--exclude-dir=x,/", "x/a.c"}] }
    \cup { <<"--config", "c1", "--only-file", "--config", "c2", "x/a.c">> }

MCTextOrder ==
    <<"", "_deps/d.c", "c1", "c2", "c3", "c4", "n.txt", "nowhere", "x/a.c", "y/b.c", "z.c">>

MCSystemDirs == {<<"/", "usr", "include">>}

MCDashed == { w \in Words \cup Core : w \notin {"x/a.c", "y/b.c", "z.c", "c1"} }
=============================================================================
