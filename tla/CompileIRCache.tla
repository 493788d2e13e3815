--------------------------- MODULE CompileIRCache ---------------------------
(***************************************************************************)
(* One entry of the compile cache (--compile-ir-cache-dir), as             *)
(* loadModuleForAnalysis in src/src/analysis/InputPipeline.cpp uses it:    *)
(* the metadata file with the stamps of the source and its dependencies,   *)
(* the bitcode file and the textual IR file, shared by successive or       *)
(* concurrent processes that load the same translation unit, while the     *)
(* user edits the source and its header and processes crash.               *)
(*                                                                         *)
(* A version of a file stands for both its content and its stamp (size and *)
(* mtime): an edit always produces a new version.  The IR of a translation *)
(* unit is the pair of versions it was compiled from.                      *)
(***************************************************************************)
EXTENDS Naturals, FiniteSets

CONSTANTS
  Procs,        \* analyzer processes that load the translation unit
  MaxEdits,     \* bound on the edits of each file
  MaxCrashes,   \* bound on the crashes and failing writes
  MaxLoads,     \* bound on the loads of each process
  Including,    \* the versions of the source that include the header
  Broken,       \* the versions of the source that do not compile
  QuietEdits    \* TRUE: nobody edits between a compilation and its snapshots

ASSUME CacheAssumption ==
  /\ MaxEdits \in Nat /\ MaxCrashes \in Nat /\ MaxLoads \in Nat
  /\ Including \subseteq Nat /\ Broken \subseteq Nat
  /\ QuietEdits \in BOOLEAN

NoHeader == MaxEdits + 1
None == [kind |-> "none"]
Torn == [kind |-> "torn"]    \* missing or partly written: unreadable
Empty == [kind |-> "empty"]  \* an empty file

VARIABLES
  source, header,   \* the versions on disk
  format,           \* --compile-ir-format, part of the cache key
  meta, bc, ll,     \* the files of the entry
  dep,              \* the depfile of the last compilation: the source it is about
  crashes,          \* crashes and failed writes so far
  proc,             \* what each process holds: see Fresh
  warm              \* history: an entry for the versions on disk was stored completely

cacheVars == <<source, header, format, meta, bc, ll, dep, crashes, proc, warm>>

\* The module compiled from source version s and header version h.
IR(s, h) == [kind |-> "ir", source |-> s, header |-> IF s \in Including THEN h ELSE NoHeader]

\* encodeSnapshot of the source and of the dependencies the depfile lists.
Stamps(s, h) == [kind |-> "meta", source |-> s,
                 header |-> IF s \in Including THEN h ELSE NoHeader]

Fresh == [pc |-> "idle", loads |-> 0, ir |-> None, checked |-> None, stamps |-> None,
          text |-> FALSE]

CacheInit ==
  /\ source = 0 /\ header = 0
  /\ format \in {"bc", "ll"}
  /\ meta = Torn /\ bc = Torn /\ ll = Torn /\ dep = Torn
  /\ crashes = 0
  /\ proc = [p \in Procs |-> Fresh]
  /\ warm = FALSE

At(p, where) == proc[p].pc = where

\* Process p moves to another point, with new values for some of its locals.
Goto(p, where) == proc' = [proc EXCEPT ![p].pc = where]

-----------------------------------------------------------------------------
\* The environment.

InWindow(p) == proc[p].pc \in {"header", "snapshot"}

MayEdit == QuietEdits => \A p \in Procs : ~InWindow(p)

EditSource ==
  /\ source < MaxEdits
  /\ MayEdit
  /\ source' = source + 1
  /\ warm' = FALSE
  /\ UNCHANGED <<header, format, meta, bc, ll, dep, crashes, proc>>

EditHeader ==
  /\ header < MaxEdits
  /\ MayEdit
  /\ header' = header + 1
  /\ warm' = FALSE
  /\ UNCHANGED <<source, format, meta, bc, ll, dep, crashes, proc>>

-----------------------------------------------------------------------------
\* A load.

BeginLoad(p) ==
  /\ proc[p].pc \in {"idle", "done", "hit"}
  /\ proc[p].loads < MaxLoads
  /\ proc' = [proc EXCEPT ![p] = [Fresh EXCEPT !.pc = "lookup", !.loads = proc[p].loads + 1]]
  /\ UNCHANGED <<source, header, format, meta, bc, ll, dep, crashes, warm>>

\* Mutated IsCurrent: the stamps of the dependencies are not looked at.
SourceIsCurrent == meta.kind = "meta" /\ meta.source = source

\* loadCompileIRCachePayload up to the last isSnapshotCurrent.
IsCurrent ==
  /\ meta.kind = "meta"
  /\ meta.source = source
  /\ meta.header # NoHeader => meta.header = header

\* checked records, as history, what the unit compiles to at that moment.
CheckStamps(p) ==
  /\ At(p, "lookup")
  /\ proc' = [proc EXCEPT ![p].pc = IF IsCurrent THEN "payload" ELSE "compile",
                          ![p].checked = IF IsCurrent THEN IR(source, header) ELSE None]
  /\ UNCHANGED <<source, header, format, meta, bc, ll, dep, crashes, warm>>

\* Mutated Payload: there is no second try with the other file.
FirstPayload == IF format = "bc" THEN bc ELSE ll

\* The module parsed from the payload: the preferred file, else the other one.
Payload ==
  LET first  == IF format = "bc" THEN bc ELSE ll
      second == IF format = "bc" THEN ll ELSE bc
  IN  IF first.kind = "ir" THEN first ELSE second

\* Reads both payload files; when neither yields a module the unit is compiled.
ReadPayload(p) ==
  /\ At(p, "payload")
  /\ proc' = [proc EXCEPT ![p].pc = IF Payload.kind = "ir" THEN "hit" ELSE "compile",
                          ![p].ir = IF Payload.kind = "ir" THEN Payload ELSE None]
  /\ UNCHANGED <<source, header, format, meta, bc, ll, dep, crashes, warm>>

\* The old depfile is removed and the compiler reads the source ...
CompileSource(p) ==
  /\ At(p, "compile")
  /\ dep' = Torn
  /\ \/ /\ source \in Broken          \* both attempts fail: "Compilation failed"
        /\ Goto(p, "done")
     \/ /\ source \notin Broken
        /\ proc' = [proc EXCEPT ![p].pc = "header", ![p].ir = IR(source, header)]
     \/ /\ source \notin Broken       \* the bitcode attempt fails, the textual fallback
        /\ format = "bc"              \* succeeds: nothing will be stored
        /\ proc' = [proc EXCEPT ![p].pc = "done", ![p].ir = IR(source, header)]
  /\ UNCHANGED <<source, header, format, meta, bc, ll, crashes, warm>>

\* ... then the header, if the source it has read includes it, and writes the depfile.
CompileHeader(p) ==
  /\ At(p, "header")
  /\ proc' = [proc EXCEPT ![p].pc = "snapshot", ![p].ir = IR(@.source, header)]
  /\ dep' = [kind |-> "dep", source |-> proc[p].ir.source]
  /\ UNCHANGED <<source, header, format, meta, bc, ll, crashes, warm>>

\* captureFileSnapshot of the source and buildDependencySnapshots of the files
\* the depfile names; without a depfile nothing will be stored.
CaptureSnapshots(p) ==
  /\ At(p, "snapshot")
  /\ \/ /\ dep.kind = "dep"
        /\ proc' = [proc EXCEPT ![p].pc = "store",
                                ![p].stamps = [Stamps(dep.source, header) EXCEPT !.source = source]]
     \/ /\ dep.kind # "dep"
        /\ Goto(p, "done")
  /\ UNCHANGED <<source, header, format, meta, bc, ll, dep, crashes, warm>>

\* The bitcode that was produced cannot be read: the unit is compiled once more,
\* to textual IR, under the snapshots already taken.
TextFallback(p) ==
  /\ At(p, "store")
  /\ format = "bc"
  /\ ~proc[p].text
  /\ \/ /\ source \in Broken
        /\ Goto(p, "done")
     \/ /\ source \notin Broken
        /\ proc' = [proc EXCEPT ![p].text = TRUE, ![p].ir = IR(source, header)]
  /\ UNCHANGED <<source, header, format, meta, bc, ll, dep, crashes, warm>>

\* Mutated OpenBc: the metadata is written before the payload.
OpenBcAfterMeta(p) ==
  /\ At(p, "store")
  /\ bc' = Torn
  /\ meta' = proc[p].stamps
  /\ Goto(p, "write bc")
  /\ UNCHANGED <<source, header, format, ll, dep, crashes, warm>>

\* storeCompileIRCachePayload.  writeTextFile truncates a file before it writes
\* it, so each file is torn for the time of the write; the order is bitcode,
\* textual IR, metadata.
OpenBc(p) ==
  /\ At(p, "store")
  /\ bc' = Torn
  /\ Goto(p, "write bc")
  /\ UNCHANGED <<source, header, format, meta, ll, dep, crashes, warm>>

\* After a textual fallback the unreadable bitcode is stored as it is; bitcode
\* that was missing is generated from the module.
WriteBc(p) ==
  /\ At(p, "write bc")
  /\ \/ bc' = proc[p].ir
     \/ proc[p].text /\ bc' = Torn
  /\ ll' = Torn
  /\ Goto(p, "write ll")
  /\ UNCHANGED <<source, header, format, meta, dep, crashes, warm>>

\* After a bitcode compilation llvmIRForCache is empty.
WriteLl(p) ==
  /\ At(p, "write ll")
  /\ ll' = IF format = "ll" \/ proc[p].text THEN proc[p].ir ELSE Empty
  /\ meta' = Torn
  /\ Goto(p, "write meta")
  /\ UNCHANGED <<source, header, format, bc, dep, crashes, warm>>

\* The last write; then the depfile is removed.
WriteMeta(p) ==
  /\ At(p, "write meta")
  /\ meta' = proc[p].stamps
  /\ dep' = Torn
  /\ warm' = (proc[p].stamps = Stamps(source, header) /\ \E file \in {bc, ll} : file.kind = "ir")
  /\ Goto(p, "done")
  /\ UNCHANGED <<source, header, format, bc, ll, crashes>>

\* out.good() is asked before the buffer is flushed: a write can fail unnoticed,
\* and the next file is written all the same.
LoseWrite(p) ==
  /\ crashes < MaxCrashes
  /\ crashes' = crashes + 1
  /\ \/ /\ At(p, "write bc")
        /\ ll' = Torn
        /\ Goto(p, "write ll")
        /\ UNCHANGED <<meta, dep>>
     \/ /\ At(p, "write ll")
        /\ meta' = Torn
        /\ Goto(p, "write meta")
        /\ UNCHANGED <<ll, dep>>
     \/ /\ At(p, "write meta")
        /\ dep' = Torn
        /\ Goto(p, "done")
        /\ UNCHANGED <<ll, meta>>
  /\ warm' = FALSE
  /\ UNCHANGED <<source, header, format, bc>>

\* A write fails: storeCompileIRCachePayload gives up, the load keeps its module.
FailedWrite(p) ==
  /\ proc[p].pc \in {"write bc", "write ll", "write meta"}
  /\ crashes < MaxCrashes
  /\ crashes' = crashes + 1
  /\ dep' = Torn
  /\ warm' = FALSE
  /\ Goto(p, "done")
  /\ UNCHANGED <<source, header, format, meta, bc, ll>>

\* The process dies and is started again later.
Crash(p) ==
  /\ proc[p].pc \notin {"idle", "done", "hit"}
  /\ crashes < MaxCrashes
  /\ crashes' = crashes + 1
  /\ warm' = (warm /\ proc[p].pc \notin {"write bc", "write ll", "write meta"})
  /\ proc' = [proc EXCEPT ![p] = [Fresh EXCEPT !.loads = proc[p].loads]]
  /\ UNCHANGED <<source, header, format, meta, bc, ll, dep>>

CacheStep(p) ==
  \/ BeginLoad(p)
  \/ CheckStamps(p)
  \/ ReadPayload(p)
  \/ CompileSource(p)
  \/ CompileHeader(p)
  \/ CaptureSnapshots(p)
  \/ TextFallback(p)
  \/ OpenBc(p)
  \/ WriteBc(p)
  \/ WriteLl(p)
  \/ WriteMeta(p)

CacheNext ==
  \/ EditSource
  \/ EditHeader
  \/ \E p \in Procs : CacheStep(p) \/ LoseWrite(p) \/ FailedWrite(p) \/ Crash(p)

CacheSpec == CacheInit /\ [][CacheNext]_cacheVars

-----------------------------------------------------------------------------
(* A load answered from the cache gets the module that compiling the       *)
(* translation unit at the time of the stamp check would have given,       *)
(* whatever crashes and failed writes came before: "reuses compiled LLVM   *)
(* IR for unchanged translation units" (README.md).                        *)
HitIsCurrent == \A p \in Procs : At(p, "hit") => proc[p].ir = proc[p].checked

(* At no moment do current stamps stand beside the IR of another version,  *)
(* not even while a process is between two of the three writes or has      *)
(* died there: the metadata is the last of the three files written.        *)
CurrentEntryIsRight ==
  IsCurrent => \A file \in {bc, ll} : file.kind = "ir" => file = IR(source, header)

(* A translation unit that was stored completely and has not changed since *)
(* is not compiled again by a later load.                                  *)
UnchangedIsReused == warm => \A p \in Procs : ~At(p, "compile")
=============================================================================
