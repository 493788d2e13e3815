----------------------------- MODULE UninitFlow -----------------------------
(***************************************************************************)
(* UninitializedVarAnalysis.cpp: the must-initialise data flow of one      *)
(* function, the summaries of what a function reads and writes through its *)
(* pointer parameters, and the issues reported for locals.                 *)
(*                                                                         *)
(* A module has functions (fns, a sequence) and imported summaries (ext,   *)
(* of functions numbered after its own).  A function is a record           *)
(*   objs    its tracked memory objects, by number;                        *)
(*   blocks  its basic blocks in layout order, the first the entry, each   *)
(*           with instructions and successors;                             *)
(*   scope   whether shouldAnalyze selects it; a called function that it   *)
(*           does not select is summarised all the same unless it comes    *)
(*           from a system header (system).                                *)
(* The initialised bytes of an object are a vector of ranges (RangeSets),  *)
(* an access and a summary name sets of bytes.  A pointer is               *)
(* [obj, off, slot]: the address of byte off of obj (Var: an offset that   *)
(* is no constant; obj 0: nothing tracked), or, if slot holds, the pointer *)
(* stored there.                                                           *)
(***************************************************************************)
EXTENDS Integers, Sequences, SequencesExt

CONSTANTS Modules,     \* the modules to analyse
          Size,        \* bytes told apart of an object of unknown size
          GapBytes,    \* kept initialised tail, 7 in the source
          RoundCap     \* 64 in the source

VARIABLES mod,         \* the module
          phase,       \* "summaries", "report" or "done"
          cursor,      \* the next function of the present loop
          guard,       \* rounds begun
          changed,     \* a summary changed in this round
          dirty,       \* functions to analyse in this round
          nextDirty,   \* and in the next one
          sums,        \* summary of each function in scope
          found        \* issues by function

flowVars == <<mod, phase, cursor, guard, changed, dirty, nextDirty, sums, found>>

INSTANCE RangeSets WITH MaxInteriorGapBytes <- GapBytes

Var == -1

-----------------------------------------------------------------------------
(* Objects and byte sets.                                                  *)

\* Byte Size of an object of unknown size stands for all that follow.
FullRange(o) == IF o.size = 0 THEN 0..Size ELSE 0..(o.size - 1)

ClipRange(o, off, n) ==
    {b \in off..(off + n - 1) : b < IF o.size = 0 THEN Size ELSE o.size}

\* Pointer casts, constant offsets and slots with a single store have been followed.
Tracked(p) == p.obj # 0 /\ ~p.slot

\* The bytes of an access, none if it does not resolve to constant ones.
ResolveAccess(f, p, n) ==
    IF Tracked(p) /\ p.off # Var THEN ClipRange(f.objs[p.obj], p.off, n) ELSE {}

\* The ranges of a set of bytes, in their order.
RECURSIVE RangesOf(_)
RangesOf(bytes) ==
    LET begin == CHOOSE b \in bytes : \A c \in bytes : b <= c
        end   == CHOOSE e \in {b + 1 : b \in bytes} : e \notin bytes /\ begin..(e - 1) \subseteq bytes
    IN  IF bytes = {} THEN <<>> ELSE <<<<begin, end>>>> \o RangesOf({b \in bytes : b > end})

IsAccessCovered(o, init, access, data) ==
    \/ IsRangeCovered(init, access[1], access[2])
    \/ ~o.layout.known /\ IsRangeCoveredAllowingSmallInteriorGaps(init, access[1], access[2])
    \/ o.layout.known /\ \A i \in DOMAIN data : IsRangeCovered(init, data[i][1], data[i][2])

\* The bytes are those of one range; only those that hold data count.
IsCovered(o, init, bytes) ==
    IsAccessCovered(o, init, RangesOf(bytes)[1], RangesOf(bytes \cap o.layout.bytes))

ClassifyInitState(o, init) ==
    CASE init = <<>> -> "uninit"
      [] init # <<>> /\ Len(init) = 1 /\ RangesOf(FullRange(o))[1] = init[1] -> "init"
      [] OTHER -> "partial"

-----------------------------------------------------------------------------
(* What the transfer of an instruction accumulates.                        *)

NoEffect == [reads |-> {}, writes |-> {}, slots |-> {}, unkReads |-> FALSE, unkWrites |-> FALSE]

EmptySummary(f) == [o \in {o \in DOMAIN f.objs : f.objs[o].kind = "param"} |-> NoEffect]

IsAlloca(f, o) == f.objs[o].kind = "alloca"

\* A read of bytes (none: unknown ones) that are not known to be initialised.
NoteRead(f, st, o, bytes, issue) ==
    IF IsAlloca(f, o)
    THEN [st EXCEPT !.read = @ \cup {o},
                    !.issues = IF f.objs[o].named THEN @ \cup {issue} ELSE @]
    ELSE IF bytes = {} THEN [st EXCEPT !.sum[o].unkReads = TRUE]
    ELSE [st EXCEPT !.sum[o].reads = @ \cup bytes]

\* A write of bytes (none: unknown ones).
NoteWrite(f, st, o, bytes) ==
    [st EXCEPT !.init[o] = AddRanges(@, RangesOf(bytes)),
               !.wrote = IF IsAlloca(f, o) THEN @ \cup {o} ELSE @,
               !.sum   = IF IsAlloca(f, o) THEN @
                         ELSE IF bytes = {} THEN [@ EXCEPT ![o].unkWrites = TRUE]
                         ELSE [@ EXCEPT ![o].writes = @ \cup bytes]]

(* What an instruction does is a sequence of events.                       *)
ReadOf(o, bytes, issue) == <<[do |-> "read", obj |-> o, bytes |-> bytes, issue |-> issue]>>
WriteOf(o, bytes) == <<[do |-> "write", obj |-> o, bytes |-> bytes]>>
WriteBehind(o, slot) == <<[do |-> "slot", obj |-> o, slot |-> slot]>>
Mark(do, o) == <<[do |-> do, obj |-> o]>>

Perform(f, st, e) ==
    CASE e.do = "read"      -> NoteRead(f, st, e.obj, e.bytes, e.issue)
      [] e.do = "write"     -> NoteWrite(f, st, e.obj, e.bytes)
      [] e.do = "slot"      -> [st EXCEPT !.sum[e.obj].slots = @ \cup {e.slot}]
      [] e.do = "blind"     -> [st EXCEPT !.sum[e.obj].unkWrites = TRUE]
      [] e.do = "touch"     -> [st EXCEPT !.wrote = @ \cup {e.obj}]
      [] e.do = "construct" -> [st EXCEPT !.made = @ \cup {e.obj}]

NoteConstructed(f, p) ==
    IF Tracked(p) /\ IsAlloca(f, p.obj) THEN Mark("construct", p.obj) ELSE <<>>

\* A call is known to write n bytes (0: the whole object) behind a pointer.
MarkKnownWrite(f, p, n, mode) ==
    LET o == f.objs[p.obj]
        bytes == IF n > 0 THEN ClipRange(o, p.off, n) ELSE {b \in FullRange(o) : b >= p.off}
    IN  IF p.slot /\ p.obj # 0 /\ mode = "sum" /\ ~IsAlloca(f, p.obj)
        THEN IF p.off = Var THEN Mark("blind", p.obj) ELSE WriteBehind(p.obj, <<p.off, n>>)
        ELSE IF ~Tracked(p) THEN <<>>
        ELSE IF p.off = Var THEN WriteOf(p.obj, {})
        ELSE IF bytes # {} THEN WriteOf(p.obj, bytes)
        ELSE IF IsAlloca(f, p.obj) THEN Mark("touch", p.obj) ELSE <<>>

-----------------------------------------------------------------------------
(* Loads, stores and memory intrinsics.                                    *)

\* rmw: the load only feeds masks stored back to the same place (a bit-field).
TransferLoad(f, st, ins, at) ==
    LET bytes == ResolveAccess(f, ins.ptr, ins.size)
        o     == ins.ptr.obj
        ok    == IF bytes # {} THEN IsCovered(f.objs[o], st.init[o], bytes)
                 ELSE ClassifyInitState(f.objs[o], st.init[o]) = "init"
    IN  IF ~Tracked(ins.ptr) \/ ok \/ ins.rmw THEN <<>>
        ELSE ReadOf(o, bytes, <<"readBeforeInit", o, at>>)

TransferStore(f, ins) ==
    IF ~Tracked(ins.ptr) \/ ins.undef THEN <<>>
    ELSE WriteOf(ins.ptr.obj, ResolveAccess(f, ins.ptr, ins.size))

\* memset, memcpy and memmove of size bytes (Var: not a constant).
TransferMem(f, st, ins, at) ==
    LET from   == IF ins.size = Var THEN {} ELSE ResolveAccess(f, ins.src, ins.size)
        o      == ins.src.obj
        ok     == IF from # {} THEN IsCovered(f.objs[o], st.init[o], from)
                  ELSE ClassifyInitState(f.objs[o], st.init[o]) = "init"
        read   == IF ins.transfer /\ Tracked(ins.src) /\ ~ok
                  THEN ReadOf(o, from, <<"readBeforeInit", o, at>>) ELSE <<>>
        to     == IF ins.size = Var THEN {} ELSE ResolveAccess(f, ins.ptr, ins.size)
        exact  == to # {} /\ (f.objs[ins.ptr.obj].size = 0 \/ Cardinality(to) = ins.size)
    IN  IF ins.size = 0 THEN <<>>
        ELSE read \o (IF Tracked(ins.ptr) /\ (ins.transfer => exact)
                      THEN WriteOf(ins.ptr.obj, to) ELSE <<>>)

-----------------------------------------------------------------------------
(* Calls of functions without a summary: declarations, whose effects are   *)
(* read off names and attributes, and defined functions out of scope.      *)

Args(call) == DOMAIN call.args
CtorThis(call, i) == call.callee.ctor /\ i = 1
Guaranteed(call, i) == CtorThis(call, i) \/ i \in call.sret
Receiver(call, i) == i = call.callee.receiver

\* An out parameter of a status function: near the end, and a local of the caller.
LikelyStatusOut(f, call, i) ==
    /\ ~call.callee.void
    /\ Len(call.args) >= 2 /\ i + 1 >= Len(call.args)
    /\ i \notin call.callee.readOnly
    /\ Tracked(call.args[i])
    /\ IsAlloca(f, call.args[i].obj) \/ f.objs[call.args[i].obj].sret

\* writeonly attributes never decide: they count only where the rest does too.
DeclarationArgMayWrite(f, call, i) ==
    LET c == call.callee
    IN  /\ ~c.defined /\ ~c.varArg /\ call.args[i].obj # 0
        /\ i # c.sinkArg
        /\ ~(c.cString /\ i = 1 /\ call.cSource)
        /\ i \notin c.readOnly
        /\ \/ c.memset /\ i = 1
           \/ LikelyStatusOut(f, call, i)
           \/ ~c.pure /\ (c.void \/ call.checked)

\* A memcpy that fits a local of known size writes exactly its length.
BoundedTransfer(f, call) ==
    /\ call.callee.memcpy /\ call.length > 0
    /\ call.args # <<>> /\ Tracked(call.args[1]) /\ call.args[1].off # Var
    /\ f.objs[call.args[1].obj].size >= call.args[1].off + call.length

DefinedArgMayWrite(f, call, i) ==
    /\ call.callee.defined /\ ~call.callee.varArg /\ ~Receiver(call, i)
    /\ call.args[i].obj # 0 /\ call.callee.returnsBool /\ call.checked
    /\ i \notin call.callee.readOnly
    /\ i \in call.callee.writeOnly \/ LikelyStatusOut(f, call, i)

WriteIf(f, call, i, may, mode) ==
    IF may THEN MarkKnownWrite(f, call.args[i], call.inferred[i], mode) ELSE <<>>

ConstructIf(f, call, i, made) == IF made THEN NoteConstructed(f, call.args[i]) ELSE <<>>

\* First what is certain of each argument, ...
TransferCertain(f, call, i, mode) ==
    ConstructIf(f, call, i, Receiver(call, i) \/ Guaranteed(call, i))
    \o WriteIf(f, call, i, Guaranteed(call, i), mode)

\* ... then the bytes handed to a sink, and what the call may be expected to write.
TransferUnsummarized(f, st, call, at, mode) ==
    LET sink  == call.callee.sinkArg
        bytes == IF sink = 0 \/ call.length <= 0 THEN {} ELSE ResolveAccess(f, call.args[sink], call.length)
        o     == call.args[sink].obj
        may(i) == IF call.callee.defined THEN DefinedArgMayWrite(f, call, i)
                                         ELSE DeclarationArgMayWrite(f, call, i)
    IN  (IF bytes = {} THEN <<>>
         ELSE IF IsCovered(f.objs[o], st.init[o], bytes) THEN <<>>
         ELSE ReadOf(o, bytes, <<"exposedViaSink", o, at>>))
        \o (IF ~call.callee.defined /\ BoundedTransfer(f, call)
            THEN MarkKnownWrite(f, call.args[1], call.length, mode)
            ELSE FlattenSeq([i \in Args(call) |-> WriteIf(f, call, i, may(i), mode)]))

-----------------------------------------------------------------------------
(* Calls of functions with a summary.                                      *)

\* The object whose address the block of the call stored last in the slot, or the
\* only one the function stores there.
StoredPointer(f, at, o, off) ==
    LET storesTo(ins) == ins.op = "store" /\ ins.value # 0 /\ ins.ptr = [obj |-> o, off |-> off, slot |-> FALSE]
        before == {i \in 1..(at[2] - 1) : storesTo(f.blocks[at[1]].ins[i])}
        storesIn(c) == {j \in DOMAIN f.blocks[c].ins : (c = at[1] => j < at[2]) /\ storesTo(f.blocks[c].ins[j])}
        all    == UNION {{f.blocks[c].ins[j].value : j \in storesIn(c)} : c \in DOMAIN f.blocks}
    IN  IF before # {}
        THEN f.blocks[at[1]].ins[CHOOSE i \in before : \A j \in before : i >= j].value
        ELSE IF Cardinality(all) = 1 THEN CHOOSE v \in all : TRUE ELSE 0

MapBytes(o, off, bytes) ==
    ({b + off : b \in bytes} \cup (bytes \cap {Size})) \cap FullRange(o)

\* The ranges of a set of bytes.
Runs(bytes) == {r \in {a..b : a, b \in bytes} :
                  r # {} /\ r \subseteq bytes
                  /\ \A x \in bytes \ r : x + 1 \notin r /\ x - 1 \notin r}

SlotWrites(f, p, eff, at, mode) ==
    LET behind(w) ==
          LET target == StoredPointer(f, at, p.obj, p.off + w[1])
          IN  IF target = 0 THEN <<>>
              ELSE MarkKnownWrite(f, [obj |-> target, off |-> 0, slot |-> FALSE], w[2], mode)
        one(w) == behind(w) \o (IF IsAlloca(f, p.obj) THEN <<>>
                                ELSE WriteBehind(p.obj, <<p.off + w[1], w[2]>>))
        slots == SetToSeq(eff.slots)
    IN  IF p.off # Var THEN FlattenSeq([k \in DOMAIN slots |-> one(slots[k])])
        ELSE IF eff.slots # {} /\ ~IsAlloca(f, p.obj) THEN Mark("blind", p.obj)
        ELSE <<>>

CalleeWrites(f, p, eff) ==
    LET bytes == IF p.off = Var THEN {} ELSE MapBytes(f.objs[p.obj], p.off, eff.writes)
        unknown == eff.unkWrites \/ (p.off = Var /\ eff.writes # {})
    IN  (IF bytes = {} THEN <<>> ELSE WriteOf(p.obj, bytes))
        \o (IF unknown THEN WriteOf(p.obj, {}) ELSE <<>>)
        \o (IF bytes # {} \/ unknown THEN NoteConstructed(f, p) ELSE <<>>)

\* Bytes the callee reads first and the caller has not initialised; none with
\* hidden = TRUE: unknown ones.
CalleeReads(f, st, p, eff) ==
    LET o == f.objs[p.obj]
        mapped == IF p.off = Var THEN {} ELSE MapBytes(o, p.off, eff.reads)
        blank  == ClassifyInitState(o, st.init[p.obj]) = "uninit"
    IN  [bytes  |-> UNION {r \in Runs(mapped) : ~IsCovered(o, st.init[p.obj], r)},
         hidden |-> blank /\ (eff.unkReads \/ (p.off = Var /\ eff.reads # {}))]

\* A callee that reads what it is to construct, or assigns to an object that is partly
\* there, is not looked into.
IsSuppressed(f, st, call, i, rd) ==
    /\ rd.bytes # {} \/ rd.hidden
    /\ \/ CtorThis(call, i)
       \/ /\ call.callee.assign
          /\ ClassifyInitState(f.objs[call.args[i].obj], st.init[call.args[i].obj]) = "partial"

GuaranteedWrite(f, call, i, mode) ==
    WriteIf(f, call, i, Guaranteed(call, i) /\ call.inferred[i] # 0, mode)

ApplyEffect(f, st, call, i, p, eff, rd, at, mode) ==
    IF IsSuppressed(f, st, call, i, rd) THEN <<>>
    ELSE (IF rd.bytes # {} THEN ReadOf(p.obj, rd.bytes, <<"readViaCall", p.obj, at>>) ELSE <<>>)
         \o (IF rd.hidden THEN ReadOf(p.obj, {}, <<"readViaCall", p.obj, at>>) ELSE <<>>)
         \o GuaranteedWrite(f, call, i, mode)
         \o SlotWrites(f, p, eff, at, mode) \o CalleeWrites(f, p, eff)

ApplyArg(f, st, call, i, eff, at, mode) ==
    ConstructIf(f, call, i, Guaranteed(call, i) \/ Receiver(call, i))
    \o (IF eff = NoEffect THEN GuaranteedWrite(f, call, i, mode)
        ELSE IF ~Tracked(call.args[i]) THEN <<>>
        ELSE ApplyEffect(f, st, call, i, call.args[i], eff, CalleeReads(f, st, call.args[i], eff), at, mode))

EffectOf(summary, i) == IF i \in DOMAIN summary THEN summary[i] ELSE NoEffect

\* Without a summary of its own to fill, the walk also applies the guesses for the
\* arguments the callee's summary says nothing about.
TransferGaps(f, call, summary, mode) ==
    LET silent(i) == EffectOf(summary, i) = NoEffect
        gap(i) == ConstructIf(f, call, i, Receiver(call, i) \/ (silent(i) /\ Guaranteed(call, i)))
                  \o WriteIf(f, call, i, silent(i) /\ (Guaranteed(call, i) \/ DefinedArgMayWrite(f, call, i)),
                             mode)
    IN  IF mode = "sum" THEN <<>> ELSE FlattenSeq([i \in Args(call) |-> gap(i)])

\* A call takes a turn for each argument and one more.
TransferCall(f, st, call, known, at, mode, turn) ==
    LET fn == call.callee.fn
    IN  CASE fn \in DOMAIN known /\ turn \in Args(call) ->
               ApplyArg(f, st, call, turn, EffectOf(known[fn], turn), at, mode)
          [] fn \in DOMAIN known /\ turn \notin Args(call) -> TransferGaps(f, call, known[fn], mode)
          [] fn \notin DOMAIN known /\ turn \in Args(call) -> TransferCertain(f, call, turn, mode)
          [] OTHER -> TransferUnsummarized(f, st, call, at, mode)

Turns(ins) == IF ins.op = "call" THEN Len(ins.args) + 1 ELSE 1

Events(f, st, ins, known, at, mode, turn) ==
    CASE ins.op = "load"  -> TransferLoad(f, st, ins, at)
      [] ins.op = "store" -> TransferStore(f, ins)
      [] ins.op = "mem"   -> TransferMem(f, st, ins, at)
      [] ins.op = "call"  -> TransferCall(f, st, ins, known, at, mode, turn)

RECURSIVE PerformAll(_, _, _)
PerformAll(f, st, events) ==
    IF events = <<>> THEN st ELSE PerformAll(f, Perform(f, st, Head(events)), Tail(events))

TakeTurn(f, st, ins, known, at, mode, turn) ==
    PerformAll(f, st, Events(f, st, ins, known, at, mode, turn))

\* The events of a turn follow from the state that the one before left.
RECURSIVE TakeTurns(_, _, _, _, _, _, _)
TakeTurns(f, st, ins, known, at, mode, turn) ==
    IF turn = 0 THEN st
    ELSE TakeTurn(f, TakeTurns(f, st, ins, known, at, mode, turn - 1), ins, known, at, mode, turn)

TransferInstruction(f, st, ins, known, at, mode) ==
    TakeTurns(f, st, ins, known, at, mode, Turns(ins))

-----------------------------------------------------------------------------
(* The data flow of one function.                                          *)

RECURSIVE ReachableBlocks(_, _)
ReachableBlocks(f, set) ==
    LET more == set \cup UNION {f.blocks[b].succ : b \in set}
    IN  IF more = set THEN set ELSE ReachableBlocks(f, more)

Bottom(f) == [o \in DOMAIN f.objs |-> <<>>]
Top(f) == [o \in DOMAIN f.objs |-> RangesOf(FullRange(f.objs[o]))]

\* Mutant: only the first predecessor counts.
ComputeInStateFirst(f, out, b) ==
    LET preds == {p \in DOMAIN out : b \in f.blocks[p].succ}
    IN  IF b = 1 \/ preds = {} THEN Bottom(f)
        ELSE out[CHOOSE p \in preds : \A q \in preds : p <= q]

\* The meet of the predecessors' out states, in their order.
ComputeInState(f, out, b) ==
    LET preds == {p \in DOMAIN out : b \in f.blocks[p].succ}
        first == CHOOSE p \in preds : \A q \in preds : p <= q
        Meet(acc, p) == [o \in DOMAIN f.objs |-> IntersectRanges(acc[o], out[p][o])]
        upTo[p \in first..Len(f.blocks)] ==
            IF p = first THEN out[p] ELSE IF p \in preds THEN Meet(upTo[p - 1], p) ELSE upTo[p - 1]
    IN  IF b = 1 \/ preds = {} THEN Bottom(f) ELSE upTo[Len(f.blocks)]

Fresh(f, init) == [init |-> init, wrote |-> {}, made |-> {}, read |-> {}, issues |-> {},
                   sum |-> EmptySummary(f)]

\* The first n instructions of a block.
RECURSIVE TransferPart(_, _, _, _, _, _)
TransferPart(f, st, b, n, known, mode) ==
    IF n = 0 THEN st
    ELSE TransferInstruction(f, TransferPart(f, st, b, n - 1, known, mode), f.blocks[b].ins[n], known,
                             <<b, n>>, mode)

TransferBlock(f, st, b, known, mode) == TransferPart(f, st, b, Len(f.blocks[b].ins), known, mode)

\* A block is analysed with the out states as they are; acc goes from block to block.
EnterBlock(f, s, b, in, known) ==
    [s EXCEPT !.in[b] = in, !.acc = TransferBlock(f, [@ EXCEPT !.init = in], b, known, "flow")]

LeaveBlock(s, b) == [s EXCEPT !.out[b] = s.acc.init]

\* One pass over the first n blocks in layout order.
RECURSIVE FlowPass(_, _, _, _, _)
FlowPass(f, reach, flow, known, n) ==
    LET Visit(s) == IF n \in reach
                    THEN LeaveBlock(EnterBlock(f, s, n, ComputeInState(f, s.out, n), known), n) ELSE s
    IN  IF n = 0 THEN [flow EXCEPT !.acc = Fresh(f, Bottom(f))]
        ELSE Visit(FlowPass(f, reach, flow, known, n - 1))

\* Passes until nothing changes; what the last one collected is final.
Compared(flow, next) == [next EXCEPT !.stable = next.in = flow.in /\ next.out = flow.out]

RECURSIVE Fixpoint(_, _, _, _, _)
Fixpoint(f, reach, flow, known, left) ==
    IF left = 0 \/ flow.stable THEN flow
    ELSE Fixpoint(f, reach, Compared(flow, FlowPass(f, reach, flow, known, Len(f.blocks))), known, left - 1)

MaxIterations(reach) == IF 16 * Cardinality(reach) > 64 THEN 16 * Cardinality(reach) ELSE 64

StartFlow(f, reach) ==
    LET first == [b \in reach |-> IF b = 1 THEN Bottom(f) ELSE Top(f)]
    IN  [in |-> first, out |-> first, acc |-> Fresh(f, Bottom(f)), stable |-> FALSE]

FlowOf(f, known) ==
    LET reach == ReachableBlocks(f, {1})
    IN  Fixpoint(f, reach, StartFlow(f, reach), known, MaxIterations(reach))

\* The summary is collected by one more walk from the settled in states.
RECURSIVE Collect(_, _, _, _)
Collect(f, in, known, n) ==
    IF n = 0 THEN Fresh(f, Bottom(f))
    ELSE IF n \notin DOMAIN in THEN Collect(f, in, known, n - 1)
    ELSE TransferBlock(f, [Collect(f, in, known, n - 1) EXCEPT !.init = in[n]], n, known, "sum")

ByArgument(f, filled) ==
    [i \in {f.objs[o].argNo : o \in DOMAIN filled} |->
       filled[CHOOSE o \in DOMAIN filled : f.objs[o].argNo = i]]

SummaryOf(f, known) == ByArgument(f, Collect(f, FlowOf(f, known).in, known, Len(f.blocks)).sum)

\* Mutant: objects only touched by a constructor count as never written.
NeverInitializedThoughMade(f, acc) ==
    {o \in DOMAIN f.objs :
        /\ IsAlloca(f, o) /\ o \notin acc.wrote \cup acc.read
        /\ f.objs[o].named /\ ~f.objs[o].deadAggregate
        /\ ~(f.objs[o].layout.known /\ f.objs[o].layout.bytes = {})}

\* Locals without any write, unless the type has no data, nothing uses the slot, or
\* a constructor ran on it; a local with a read issue is not reported twice.
NeverInitialized(f, acc) ==
    {o \in DOMAIN f.objs :
        /\ IsAlloca(f, o) /\ o \notin acc.wrote \cup acc.read \cup acc.made
        /\ f.objs[o].named /\ ~f.objs[o].deadAggregate
        /\ ~(f.objs[o].layout.known /\ f.objs[o].layout.bytes = {})}

AllIssues(f, acc) ==
    acc.issues \cup {<<"neverInitialized", o, <<0, 0>>>> : o \in NeverInitialized(f, acc)}

IssuesOf(f, known) == AllIssues(f, FlowOf(f, known).acc)

-----------------------------------------------------------------------------
(* The module: summaries round by round, then the issues.                  *)

CalleesOf(f) == {ins.callee.fn : ins \in
                   {i \in UNION {{f.blocks[b].ins[k] : k \in DOMAIN f.blocks[b].ins} : b \in DOMAIN f.blocks} :
                      i.op = "call"}} \ {0}

RECURSIVE SummaryScope(_, _)
SummaryScope(fns, set) ==
    LET more == set \cup {g \in (UNION {CalleesOf(fns[f]) : f \in set}) \cap DOMAIN fns :
                            fns[g].scope \/ ~fns[g].system}
    IN  IF more = set THEN set ELSE SummaryScope(fns, more)

Scope(m) == SummaryScope(m.fns, {f \in DOMAIN m.fns : m.fns[f].scope})

\* Mutant: the functions called are marked instead of the callers.
CallersOfWrong(m, g) == CalleesOf(m.fns[g]) \cap Scope(m)

CallersOf(m, g) == {f \in Scope(m) : g \in CalleesOf(m.fns[f])}

\* The module's own summaries come before the imported ones.
Known == [g \in DOMAIN sums \cup DOMAIN mod.ext |-> IF g \in DOMAIN sums THEN sums[g] ELSE mod.ext[g]]

FlowInit ==
    /\ mod \in Modules
    /\ phase = "summaries" /\ cursor = 1 /\ guard = 1 /\ changed = FALSE
    /\ dirty = Scope(mod) /\ nextDirty = {}
    /\ sums = [f \in Scope(mod) |->
                 [i \in {mod.fns[f].objs[o].argNo : o \in DOMAIN EmptySummary(mod.fns[f])} |-> NoEffect]]
    /\ found = [f \in {} |-> {}]

\* The loop body of computeFunctionSummaries.
Summarize ==
    /\ phase = "summaries" /\ cursor <= Len(mod.fns)
    /\ cursor' = cursor + 1
    /\ IF cursor \in dirty
       THEN /\ sums' = [sums EXCEPT ![cursor] = SummaryOf(mod.fns[cursor], Known)]
            /\ changed' = (changed \/ sums' # sums)
            /\ nextDirty' = IF sums' = sums THEN nextDirty ELSE nextDirty \cup CallersOf(mod, cursor)
       ELSE UNCHANGED <<sums, changed, nextDirty>>
    /\ UNCHANGED <<mod, phase, guard, dirty, found>>

EndRound ==
    /\ phase = "summaries" /\ cursor > Len(mod.fns)
    /\ dirty' = nextDirty /\ nextDirty' = {} /\ cursor' = 1 /\ changed' = FALSE
    /\ IF changed /\ guard < RoundCap
       THEN guard' = guard + 1 /\ phase' = phase
       ELSE guard' = guard /\ phase' = "report"
    /\ UNCHANGED <<mod, sums, found>>

Report ==
    /\ phase = "report" /\ cursor <= Len(mod.fns)
    /\ found' = IF ~mod.fns[cursor].scope THEN found
                ELSE [f \in DOMAIN found \cup {cursor} |->
                        IF f = cursor THEN IssuesOf(mod.fns[cursor], Known) ELSE found[f]]
    /\ cursor' = cursor + 1
    /\ UNCHANGED <<mod, phase, guard, changed, dirty, nextDirty, sums>>

EndReport ==
    /\ phase = "report" /\ cursor > Len(mod.fns)
    /\ phase' = "done"
    /\ UNCHANGED <<mod, cursor, guard, changed, dirty, nextDirty, sums, found>>

FlowNext == Summarize \/ EndRound \/ Report \/ EndReport

FlowSpec == FlowInit /\ [][FlowNext]_flowVars /\ WF_flowVars(FlowNext)

-----------------------------------------------------------------------------
(* Properties.                                                             *)

\* What the first k instructions of a block write of an object, whatever was
\* initialised before.
WrittenBy(f, b, k, o, known) ==
    BytesOf(TransferPart(f, Fresh(f, Bottom(f)), b, k, known, "flow").init[o])

RECURSIVE Onward(_, _, _)
Onward(f, set, through) ==
    LET more == set \cup UNION {f.blocks[b].succ : b \in set \cap through}
    IN  IF more = set THEN set ELSE Onward(f, more, through)

\* A path reaches instruction i of block b on which byte x of o has not been written.
Unwritten(f, o, x, b, i, known) ==
    /\ b \in Onward(f, {1}, {c \in DOMAIN f.blocks : x \notin WrittenBy(f, c, Len(f.blocks[c].ins), o, known)})
    /\ x \notin WrittenBy(f, b, i - 1, o, known)

ReadsLocal(f, ins) ==
    /\ ins.op = "load" /\ Tracked(ins.ptr) /\ ~ins.rmw
    /\ IsAlloca(f, ins.ptr.obj) /\ f.objs[ins.ptr.obj].named
    /\ ResolveAccess(f, ins.ptr, ins.size) # {}

\* Initialised bytes from the start of the access on, then at most GapBytes more.
WrittenButTail(init, bytes) ==
    LET first == CHOOSE b \in bytes : \A c \in bytes : b <= c
        holes == bytes \ init
        hole  == CHOOSE b \in holes : \A c \in holes : b <= c
    IN  hole > first /\ Cardinality({b \in bytes : b >= hole}) <= GapBytes

\* Written for the purposes of the report: padding does not count, nor does a short
\* tail where the layout is not known.
WrittenEnough(o, init, bytes) ==
    \/ bytes \subseteq init
    \/ o.layout.known /\ (bytes \cap o.layout.bytes) \subseteq init
    \/ ~o.layout.known /\ WrittenButTail(init, bytes)

\* The loads of f that a path reaches with bytes left unwritten.
ReachedUnwritten(f, known) ==
    {<<"readBeforeInit", f.blocks[at[1]].ins[at[2]].ptr.obj, at>> : at \in
      {<<b, i>> \in UNION {{b} \X DOMAIN f.blocks[b].ins : b \in ReachableBlocks(f, {1})} :
         LET ins   == f.blocks[b].ins[i]
             o     == ins.ptr.obj
             bytes == ResolveAccess(f, ins.ptr, ins.size)
         IN  /\ ReadsLocal(f, ins)
             /\ ~WrittenEnough(f.objs[o], {x \in FullRange(f.objs[o]) : ~Unwritten(f, o, x, b, i, known)}, bytes)}}

LoadIssues(f, issues) ==
    {is \in issues : is[1] = "readBeforeInit" /\ ReadsLocal(f, f.blocks[is[3][1]].ins[is[3][2]])}

(***************************************************************************)
(* A load of a local is reported exactly if a path of the control flow     *)
(* graph reaches it with some of its bytes unwritten, in functions that    *)
(* call neither constructors nor assignment operators, whose writes depend *)
(* on what was initialised before: the passes over the blocks              *)
(* (analyzeFunction) lose no path and invent none, with loops, unreachable *)
(* blocks and calls, and the issues of the last pass are final.            *)
(***************************************************************************)
FlowIsExact ==
    \A f \in DOMAIN found :
        LET fn == mod.fns[f]
            calls == {ins \in UNION {{fn.blocks[b].ins[k] : k \in DOMAIN fn.blocks[b].ins} : b \in DOMAIN fn.blocks} :
                        ins.op = "call"}
        IN  (\A c \in calls : ~c.callee.ctor /\ ~c.callee.assign)
            => LoadIssues(fn, found[f]) = ReachedUnwritten(fn, Known)

(***************************************************************************)
(* When the rounds end, every summary is what its function's analysis      *)
(* gives under the others, although only callers of changed functions are  *)
(* analysed again, and the rounds end before the cap of                    *)
(* computeFunctionSummaries.                                               *)
(***************************************************************************)
SummariesSettle ==
    phase = "report" =>
        /\ guard < RoundCap
        /\ \A f \in DOMAIN sums : sums[f] = SummaryOf(mod.fns[f], Known)

\* Some instruction of a reachable block writes an object or constructs it.
Touches(st, o) == o \in st.wrote \cup st.made

IsTouched(f, o, known) ==
    \E b \in ReachableBlocks(f, {1}) : \E i \in DOMAIN f.blocks[b].ins :
        Touches(TransferInstruction(f, Fresh(f, Top(f)), f.blocks[b].ins[i], known, <<b, i>>, "flow"), o)

(***************************************************************************)
(* A local is reported as never initialised only if nothing reachable      *)
(* writes or constructs it, and every local of which that is true is       *)
(* reported in one way or the other, unless it has no data or no use.      *)
(***************************************************************************)
NeverMeansNever ==
    \A f \in DOMAIN found : \A o \in DOMAIN mod.fns[f].objs :
        LET fn == mod.fns[f]
            about == {is \in found[f] : is[2] = o}
            never == \E is \in about : is[1] = "neverInitialized"
            idle  == ~IsTouched(fn, o, Known)
        IN  /\ never => idle /\ Cardinality(about) = 1
            /\ (IsAlloca(fn, o) /\ idle /\ fn.objs[o].named /\ ~fn.objs[o].deadAggregate
                /\ ~(fn.objs[o].layout.known /\ fn.objs[o].layout.bytes = {})) => about # {}
=============================================================================
