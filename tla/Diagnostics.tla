---------------------------- MODULE Diagnostics ----------------------------
(***************************************************************************)
(* DiagnosticEmitter.cpp and LocationResolver.cpp: from the issues that    *)
(* the analyses find to the diagnostics of a report.  What a diagnostic    *)
(* says in words is left out; what the report counts, sorts, filters and   *)
(* links is kept: its function, file, severity, code, rule, CWE and place. *)
(*                                                                         *)
(* An issue is a record [kind, func, file, at] with the place at of its    *)
(* instruction, a pair <<line, column>> of the debug information with line *)
(* 0 where there is none.                                                  *)
(***************************************************************************)
EXTENDS Naturals, Sequences, TLC

Entry(severity, code, rule, cwe) ==
    [severity |-> severity, code |-> code, rule |-> rule, cwe |-> cwe]

Warning(code) == Entry("warning", code, "", "")

ConstKinds ==
    {"ConstParameterNotModified.Pointer", "ConstParameterNotModified.PointerConstOnly",
     "ConstParameterNotModified.Reference",
     "ConstParameterNotModified.ReferenceRvaluePreferValue"}

UninitializedKinds ==
    {"uninitialized read", "uninitialized read in call", "exposed bytes", "never initialized"}

(* What the append functions say of an issue, by its kind; allocas have     *)
(* AllocaEntry.                                                             *)
SummaryEntries ==
    ("recursive" :> Entry("info", "None", "", ""))
    @@ ("infinite recursion" :> Entry("error", "None", "", ""))
    @@ ("exceeds limit" :> Entry("error", "StackFrameTooLarge", "", ""))

BufferEntries ==
    ("negative index" :> Warning("NegativeStackIndex"))
    @@ ("overflow" :> Warning("StackBufferOverflow"))

AllocationEntries == "dynamic alloca" :> Warning("VLAUsage")

WriteEntries ==
    ("memory write" :> Warning("None"))
    @@ ("size minus k" :> Warning("SizeMinusOneWrite"))

IntegerEntries ==
    LET Overflow(rule, cwe) == Entry("warning", "IntegerOverflow", rule, cwe)
    IN  ("size overflow" :> Overflow("IntegerOverflow.SizeComputation", "CWE-190"))
        @@ ("signed to size" :> Overflow("IntegerConversion.SignedToSize", "CWE-195"))
        @@ ("truncation" :> Overflow("IntegerTruncation.SizeComputation", "CWE-197"))
        @@ ("signed arithmetic" :> Overflow("IntegerOverflow.SignedArithmetic", "CWE-190"))

SyntacticEntries ==
    ("multiple stores" :> Entry("info", "MultipleStoresToStackBuffer", "", ""))
    @@ ("duplicate if" :>
            Entry("warning", "DuplicateIfCondition", "DuplicateIfCondition", ""))

ReadEntries ==
    LET Read(rule, cwe) == Entry("warning", "UninitializedLocalRead", rule, cwe)
    IN  [k \in {"uninitialized read", "uninitialized read in call"} |->
            Read("UninitializedLocalRead", "CWE-457")]
        @@ ("exposed bytes" :> Read("InformationExposure.UninitializedStackBytes", "CWE-200"))
        @@ ("never initialized" :> Read("UninitializedLocalVariable", "CWE-457"))
        @@ ("global read" :>
                Entry("warning", "GlobalReadBeforeWrite", "GlobalReadBeforeWrite", "CWE-665"))

PointerEntries ==
    ("base outside" :> Entry("error", "InvalidBaseReconstruction", "", ""))
    @@ ("base unverified" :> Warning("InvalidBaseReconstruction"))
    @@ ("escape" :> Warning("StackPointerEscape"))

ConstEntries == [k \in ConstKinds |-> Entry("info", "ConstParameterNotModified", k, "")]

CallEntries ==
    ("command" :>
        Entry("warning", "CommandInjection", "CommandInjection.NonLiteralCommand", "CWE-78"))
    @@ ("check then use" :>
        Entry("warning", "TOCTOURace", "TOCTOU.PathCheckThenUse", "CWE-367"))

NullEntries ==
    LET Null(severity) ==
            Entry(severity, "NullPointerDereference", "NullPointerDereference", "CWE-476")
    IN  [k \in {"null direct", "null branch", "null slot"} |-> Null("error")]
        @@ ("null allocator" :> Null("warning"))

ViewEntries ==
    LET Outside(rule) == Entry("warning", "OutOfBoundsRead", rule, "CWE-125")
    IN  ("type confusion" :>
            Entry("warning", "TypeConfusion", "TypeConfusion.IncompatibleStructView", "CWE-843"))
        @@ ("unterminated" :> Outside("OutOfBoundsRead.MissingNullTerminator"))
        @@ ("heap index" :> Outside("OutOfBoundsRead.HeapIndex"))

ResourceEntries ==
    LET Lifetime(severity, rule, cwe) == Entry(severity, "ResourceLifetimeIssue", rule, cwe)
    IN  ("missing release" :> Lifetime("warning", "ResourceLifetime.MissingRelease", "CWE-772"))
        @@ ("double release" :> Lifetime("error", "ResourceLifetime.DoubleRelease", "CWE-415"))
        @@ ("missing destructor release" :>
                Lifetime("warning", "ResourceLifetime.MissingDestructorRelease", "CWE-772"))
        @@ ("incomplete" :> Lifetime("warning", "ResourceLifetime.IncompleteInterproc", ""))
        @@ ("use after release" :>
                Lifetime("error", "ResourceLifetime.UseAfterRelease", "CWE-416"))
        @@ ("released escapes" :>
                Lifetime("warning", "ResourceLifetime.ReleasedHandleEscapes", "CWE-416"))

Emitted ==
    SummaryEntries @@ BufferEntries @@ AllocationEntries @@ WriteEntries @@ IntegerEntries
    @@ SyntacticEntries @@ ReadEntries @@ PointerEntries @@ ConstEntries @@ CallEntries
    @@ NullEntries @@ ViewEntries @@ ResourceEntries

(* The kinds whose diagnostics carry the file of the function; the others   *)
(* get the file of the input when the result is stamped.                    *)
WithFile ==
    {"recursive", "infinite recursion", "exceeds limit",
     "size overflow", "signed to size", "truncation", "signed arithmetic",
     "command", "check then use", "null direct", "null branch", "null slot",
     "null allocator", "type confusion", "unterminated", "heap index"}

(* resolveFromInstruction.                                                  *)
Place(at) ==
    CASE at[1] = 0 -> <<0, 0>>
      [] at[1] # 0 /\ at[2] = 0 -> <<at[1], 1>>
      [] OTHER -> at

(* resolveAllocaSourceLocation: the first of the places known for the       *)
(* variable that has a line; the last of them is the function's own.        *)
AllocaPlace(places) ==
    LET known == { i \in 1 .. Len(places) : places[i][1] # 0 }
    IN  IF known = {} THEN <<0, 0>>
        ELSE Place(places[CHOOSE i \in known : \A j \in known : i <= j])

(* The place of a diagnostic: a buffer stored to is placed where its        *)
(* variable is, a parameter at its declaration, and an uninitialized read   *)
(* without a place of its own at the declaration of the variable.           *)
PlaceOf(issue) ==
    CASE issue.kind = "multiple stores" -> AllocaPlace(issue.places)
      [] issue.kind \in ConstKinds -> issue.declared
      [] issue.kind \in UninitializedKinds /\ issue.at[1] = 0 ->
             IF issue.declared[1] = 0 THEN <<0, 0>> ELSE issue.declared
      [] OTHER -> Place(issue.at)

(* appendAllocaUsageDiagnostics.  An alloca has a size that is known, an    *)
(* upper bound, or neither.                                                 *)
Oversized(issue, threshold, limit) ==
    \/ issue.sizeIsConst /\ issue.bytes >= threshold
    \/ issue.hasUpperBound /\ issue.bytes >= threshold
    \/ issue.sizeIsConst /\ limit # 0 /\ issue.bytes >= limit

AllocaEntry(issue, threshold, limit) ==
    LET large == Oversized(issue, threshold, limit)
        worst == \/ large \/ issue.isInfiniteRecursive
                 \/ issue.isRecursive /\ issue.userControlled
    IN  Entry(IF worst THEN "error" ELSE "warning",
              IF large THEN "AllocaTooLarge"
              ELSE IF issue.userControlled THEN "AllocaUserControlled" ELSE "AllocaUsageWarning",
              "", "")

(* DiagnosticBuilder.                                                       *)
Build(entry, issue, place) ==
    [func |-> issue.func, file |-> IF issue.kind \in WithFile THEN issue.file ELSE "",
     severity |-> entry.severity, code |-> entry.code, rule |-> entry.rule, cwe |-> entry.cwe,
     line |-> place[1], column |-> place[2]]

Diagnose(issue, threshold, limit) ==
    Build(IF issue.kind = "alloca" THEN AllocaEntry(issue, threshold, limit)
                                   ELSE Emitted[issue.kind],
          issue, PlaceOf(issue))

(* emitSummaryDiagnostics for a function [name, file, at, recursive,        *)
(* infinite, exceeds, locals]: it names the place of the function, except   *)
(* that a frame of many named locals, none of which reaches the limit by    *)
(* itself, has none.                                                        *)
MaxLocalsForLocation == 5

SummaryDiagnostics(f, limit) ==
    LET Of(kind) == [kind |-> kind, func |-> f.name, file |-> f.file]
        named == SelectSeq(f.locals, LAMBDA l : l.named)
        suppressed == /\ f.local >= f.callee
                      /\ \A i \in 1 .. Len(named) : named[i].bytes < limit \/ named[i].bytes = 0
                      /\ Len(named) > MaxLocalsForLocation
    IN  (IF f.recursive
         THEN <<Build(Emitted["recursive"], Of("recursive"), Place(f.at))>> ELSE <<>>)
        \o (IF f.infinite
            THEN <<Build(Emitted["infinite recursion"], Of("infinite recursion"), Place(f.at))>>
            ELSE <<>>)
        \o (IF f.exceeds
            THEN <<Build(Emitted["exceeds limit"], Of("exceeds limit"),
                         IF suppressed THEN <<0, 0>> ELSE Place(f.at))>>
            ELSE <<>>)
=============================================================================
