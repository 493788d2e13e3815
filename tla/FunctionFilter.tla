--------------------------- MODULE FunctionFilter ---------------------------
(***************************************************************************)
(* Which paths and which functions a run is about: the path filters of     *)
(* AnalyzerApp.cpp and AnalyzerUtils.cpp, the name filter, and the choice  *)
(* FunctionFilter.cpp makes inside one module.                             *)
(*                                                                         *)
(* A path is a text.  PathOf gives what normalizePath makes of it, the     *)
(* sequence of the segments of the absolute path, the root being <<>>.     *)
(* SegmentsOf gives the segments of the text itself, with "/" before them  *)
(* when it is absolute, which is what the system and third-party tests     *)
(* look at.                                                                *)
(***************************************************************************)
EXTENDS Selections, SequencesExt

CONSTANTS
    PathOf,             \* text -> segments of the absolute, normalised path
    SegmentsOf,         \* text -> segments of the normalised text, in lower case
    SystemDirs,         \* the segments of the system prefixes
    SystemFragments,    \* the segments of the system fragments, /include/c++/ and such
    StbHeaders,         \* the names stb_*.h, .hh, .hpp and .hxx
    ThirdPartySegments, \* the segment names of third-party trees
    Aliases             \* name -> the texts a name filter may give for it

Basename(p) == IF p = <<>> THEN "" ELSE Last(p)

(* A directory is a prefix of a path when the path goes on with a slash:    *)
(* the text of the root already ends with it, so the root is a prefix of    *)
(* itself only.  As both texts are absolute, a suffix that starts after a   *)
(* slash and an infix between slashes would need two slashes in a row: the  *)
(* suffix test succeeds on equal paths only and the infix test never.       *)
PathHasPrefix(p, d) == p = d \/ (d # <<>> /\ IsStrictPrefix(d, p))

PathHasSuffix(p, s) == p = s

UnderDir(p, d) == PathHasPrefix(p, d) \/ PathHasSuffix(p, d)

PathContainsSegment(p, segment) == \E i \in 1 .. Len(p) : p[i] = segment

(* shouldIncludePath, the same in both files; a text is empty when there is *)
(* no path to test.                                                         *)
ShouldIncludePath(text, cfg) ==
    \/ cfg.onlyFiles = <<>> /\ cfg.onlyDirs = <<>>
    \/ /\ text # ""
       /\ \/ \E i \in 1 .. Len(cfg.onlyFiles) :
                LET p == PathOf[text]  f == PathOf[cfg.onlyFiles[i]]
                IN  PathHasSuffix(p, f) \/ (Basename(f) # "" /\ Basename(p) = Basename(f))
          \/ \E i \in 1 .. Len(cfg.onlyDirs) : UnderDir(PathOf[text], PathOf[cfg.onlyDirs[i]])

ShouldExcludePath(text, cfg) ==
    /\ text # ""
    /\ \E i \in 1 .. Len(cfg.excludeDirs) : UnderDir(PathOf[text], PathOf[cfg.excludeDirs[i]])

(* A name matches a filter by itself, demangled, demangled without its      *)
(* parameters or by the base name of its mangling.                          *)
FunctionNameMatches(name, cfg) ==
    \/ cfg.onlyFunctions = <<>>
    \/ \E i \in 1 .. Len(cfg.onlyFunctions) : cfg.onlyFunctions[i] \in {name} \cup Aliases[name]

IsLikelySystemPath(text) ==
    LET p == SegmentsOf[text]
    IN  \/ \E d \in SystemDirs : PathHasPrefix(p, d)
        \/ \E g \in SystemFragments, i \in 2 .. Len(p) :
               i + Len(g) <= Len(p) /\ SubSeq(p, i, i + Len(g) - 1) = g

IsLikelyThirdPartyPath(text) ==
    \/ \E s \in ThirdPartySegments : PathContainsSegment(SegmentsOf[text], s)
    \/ Basename(SegmentsOf[text]) \in StbHeaders

(* The same choice without the test of the path.                            *)
ShouldAnalyzeByName(f, source, cfg) == FunctionNameMatches(f.name, cfg)

(* FunctionFilter::shouldAnalyze for function f, [name, path, runtime],     *)
(* of a module whose source is the text source; runtime is "" for a name    *)
(* of the program, "compiler" for a compiler's runtime function (llvm.,     *)
(* clang.: both tests below) and "reserved" for another name with two       *)
(* underscores.                                                             *)
ShouldAnalyze(f, source, cfg) ==
    LET hasPathFilter == cfg.onlyFiles # <<>> \/ cfg.onlyDirs # <<>>
        hasFuncFilter == cfg.onlyFunctions # <<>>
        used == IF f.path # "" THEN f.path ELSE source
    IN  /\ hasFuncFilter => FunctionNameMatches(f.name, cfg)
        /\ (~hasPathFilter /\ ~hasFuncFilter /\ ~cfg.includeSTL) =>
                IF used # "" THEN ~IsLikelySystemPath(used) /\ ~IsLikelyThirdPartyPath(used)
                             ELSE f.runtime # "compiler"
        /\ hasPathFilter =>
                /\ f.path = "" => f.runtime = ""
                /\ used # "" /\ ShouldIncludePath(used, cfg)

(* FunctionReportSpecification: the test AnalyzerApp has for a function of  *)
(* a report, [name, file].                                                  *)
ReportsFunction(r, cfg) ==
    /\ FunctionNameMatches(r.name, cfg)
    /\ (cfg.onlyFiles # <<>> \/ cfg.onlyDirs # <<>>) => ShouldIncludePath(r.file, cfg)
=============================================================================
