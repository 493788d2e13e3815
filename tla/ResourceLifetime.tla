-------------------------- MODULE ResourceLifetime --------------------------
(***************************************************************************)
(* ResourceLifetimeAnalysis.cpp: which functions acquire and release       *)
(* resources through their parameters, computed round by round over a      *)
(* module, and the leaks and double releases reported for its locals and   *)
(* for the fields of its classes.                                          *)
(*                                                                         *)
(* A module is [fns, lines, ext], with the lines of the resource model and *)
(* the summaries imported from other modules.  A function of fns has       *)
(*   decl, stdlib, scope  declaration, standard library, shouldAnalyze;    *)
(*   kind, class          "ctor", "dtor", "cleanup" (a method named like a *)
(*                        release), "method" of a class, or "plain" (0);   *)
(*   ret                  what it returns: "void", "owner" or "plain";     *)
(*   locals               its stack slots, by number;                      *)
(*   stored               pairs <<place, place pointed to>> of its stores  *)
(*                        of pointers;                                     *)
(*   blocks               basic blocks in layout order, with ins and succ. *)
(* A place is a base (a local, an argument, a global or none) and an       *)
(* offset.  A value is [addr, loaded, from, ...]: the place it points to   *)
(* (addr), and if it is loaded, the place it was loaded from.  A rule of   *)
(* the resource model names the function it matches.                       *)
(***************************************************************************)
EXTENDS Integers, Sequences, FiniteSets, SequencesExt

CONSTANTS Modules,     \* the modules to analyse
          RoundCap     \* 8 in the source

VARIABLES mod,         \* the module
          phase,       \* "summaries", "functions", "classes" or "done"
          cursor,      \* the next function of the present loop
          guard,       \* rounds begun
          changed,     \* a summary changed in this round
          sums,        \* effects of each function on what its arguments point to
          classes,     \* fields acquired by constructors, released by methods
          found        \* issues

resVars == <<mod, phase, cursor, guard, changed, sums, classes, found>>

-----------------------------------------------------------------------------
(* Storage.                                                                *)

NoPlace == [base |-> <<"none", 0>>, off |-> 0]

\* Where a pointer points to, slots with a single store and constant offsets followed.
PointsTo(v) == v.addr

\* The argument that is all a pointer slot ever holds, 0 if there is none.
ArgumentShadow(f, slot) == f.locals[slot].shadow

\* A slot that only holds an argument stands for it; argument 1 of a method is this.
Storage(f, p) ==
    LET shadow == IF p.base[1] = "local" /\ p.off = 0 THEN ArgumentShadow(f, p.base[2]) ELSE 0
        arg    == IF p.base[1] = "arg" THEN p.base[2] ELSE shadow
    IN  CASE arg = 1 /\ f.class # 0 -> [scope |-> "this", of |-> f.class, off |-> p.off]
          [] arg # 0 /\ ~(arg = 1 /\ f.class # 0) -> [scope |-> "arg", of |-> arg, off |-> p.off]
          [] OTHER -> [scope |-> p.base[1], of |-> p.base[2], off |-> p.off]

Valid(s) == s.scope # "none"

\* The offsets in this that the values stored in a local come from; -1: some other origin.
ThisFieldOrigins(f, slot) == f.locals[slot].origins

\* A local whose every stored value comes from one field of this stands for the field.
Promote(f, s) ==
    IF s.scope = "local" /\ Cardinality(ThisFieldOrigins(f, s.of)) = 1 /\ -1 \notin ThisFieldOrigins(f, s.of)
    THEN [scope |-> "this", of |-> f.class, off |-> CHOOSE field \in ThisFieldOrigins(f, s.of) : TRUE]
    ELSE s

HandleStorage(f, v) == Promote(f, Storage(f, IF v.loaded THEN v.from ELSE PointsTo(v)))

SummaryScopeAllowed(s) == s.scope \in {"arg", "this"}

ArgOf(s) == IF s.scope = "this" THEN 1 ELSE s.of

-----------------------------------------------------------------------------
(* Effects of a function.                                                  *)

Effect(action, arg, off, slot, kind) ==
    [action |-> action, arg |-> arg, off |-> off, slot |-> slot, kind |-> kind]

EffectOn(action, s, slot, kind) == Effect(action, ArgOf(s), s.off, slot, kind)

Returned(kind) == Effect("acquireRet", 0, 0, FALSE, kind)

\* Effects are applied in the order of their keys: acquisitions come first.
Ordered(effects) ==
    LET rank(e) == CASE e.action = "acquireOut" -> 0 [] e.action = "acquireRet" -> 1 [] OTHER -> 2
    IN  SetToSortSeq(effects, LAMBDA a, b :
            \/ rank(a) < rank(b)
            \/ rank(a) = rank(b) /\ a.arg < b.arg
            \/ rank(a) = rank(b) /\ a.arg = b.arg /\ a.off < b.off)

\* A line of the resource model is a rule with the words its action takes and, but for
\* a result, an argument index that is a number; one bad line and the model is unused.
WellFormed(line) ==
    \/ line.action \in {"acquireOut", "releaseArg"} /\ line.words = 4 /\ line.arg > 0
    \/ line.action = "acquireRet" /\ line.words = 3

ParseResourceModel(lines) ==
    LET rules == SelectSeq(lines, LAMBDA l : l.words > 0)
    IN  IF \A i \in DOMAIN rules : WellFormed(rules[i]) THEN rules ELSE <<>>

RulesFor(m, call) == SelectSeq(ParseResourceModel(m.lines), LAMBDA r : r.fn = call.callee)

HasArg(call, arg) == arg \in DOMAIN call.args

\* The result of a call, or what an out argument points to, may be returned.
ResultMayReachReturn(call) == call.returned
ContentMayReachReturn(v) == v.returned

\* Where the result of a call is stored.
StoredDestinations(f, call) == {Storage(f, d) : d \in call.dests}

DirectEffects(f, call, r) ==
    LET v    == call.args[r.arg]
        s    == Storage(f, PointsTo(v))
        slot == Storage(f, v.from)
        h    == HandleStorage(f, v)
    IN  CASE r.action = "acquireOut" /\ HasArg(call, r.arg) ->
               (IF SummaryScopeAllowed(s) THEN {EffectOn("acquireOut", s, FALSE, r.kind)}
                ELSE IF v.loaded /\ SummaryScopeAllowed(slot)
                THEN {EffectOn("acquireOut", slot, TRUE, r.kind)} ELSE {})
               \cup (IF ContentMayReachReturn(v) THEN {Returned(r.kind)} ELSE {})
          [] r.action = "releaseArg" /\ HasArg(call, r.arg) ->
               IF SummaryScopeAllowed(h) THEN {EffectOn("releaseArg", h, FALSE, r.kind)} ELSE {}
          [] r.action = "acquireRet" -> IF ResultMayReachReturn(call) THEN {Returned(r.kind)} ELSE {}
          [] OTHER -> {}

\* The place the only pointer stored at a place points to.
Pointee(f, p) ==
    LET targets == {pair[2] : pair \in {q \in f.stored : q[1] = p}}
    IN  IF Cardinality(targets) = 1 THEN Storage(f, CHOOSE t \in targets : TRUE)
        ELSE Storage(f, NoPlace)

\* Where the effect of a callee lands in the caller.
MapEffect(f, call, e, fallback) ==
    LET v  == call.args[e.arg]
        at == [PointsTo(v) EXCEPT !.off = @ + e.off]
        pointee == Pointee(f, at)
    IN  CASE ~HasArg(call, e.arg) -> [to |-> Storage(f, NoPlace), slot |-> FALSE]
          [] /\ HasArg(call, e.arg) /\ e.action = "releaseArg" /\ ~e.slot /\ e.off = 0
             /\ Valid(HandleStorage(f, v)) -> [to |-> HandleStorage(f, v), slot |-> FALSE]
          [] HasArg(call, e.arg) /\ e.slot /\ Valid(pointee) -> [to |-> pointee, slot |-> FALSE]
          [] HasArg(call, e.arg) /\ e.slot /\ ~Valid(pointee) ->
               [to |-> IF fallback THEN Storage(f, at) ELSE Storage(f, NoPlace), slot |-> TRUE]
          [] OTHER -> [to |-> Storage(f, at), slot |-> FALSE]

\* The effects known of a callee; those of constructors and destructors only if imported.
CalleeEffects(m, call, known) ==
    LET c == m.fns[call.callee]
    IN  IF c.stdlib THEN {}
        ELSE IF ~c.decl /\ c.kind \notin {"ctor", "dtor"} /\ call.callee \in DOMAIN known THEN known[call.callee]
        ELSE IF call.callee \in DOMAIN m.ext THEN m.ext[call.callee] ELSE {}

\* Mutant: a result acquired by the callee and returned again is lost.
PropagatedNoReturn(f, call, e) ==
    LET mapped == MapEffect(f, call, e, TRUE)
        dests  == {s \in StoredDestinations(f, call) : SummaryScopeAllowed(s)}
    IN  IF e.action = "acquireRet" THEN {EffectOn("acquireOut", s, FALSE, e.kind) : s \in dests}
        ELSE IF SummaryScopeAllowed(mapped.to) THEN {EffectOn(e.action, mapped.to, mapped.slot, e.kind)} ELSE {}

PropagatedEffects(f, call, e) ==
    LET mapped == MapEffect(f, call, e, TRUE)
        dests  == {s \in StoredDestinations(f, call) : SummaryScopeAllowed(s)}
    IN  IF e.action = "acquireRet"
        THEN {EffectOn("acquireOut", s, FALSE, e.kind) : s \in dests}
             \cup (IF ResultMayReachReturn(call) THEN {Returned(e.kind)} ELSE {})
        ELSE IF SummaryScopeAllowed(mapped.to)
        THEN {EffectOn(e.action, mapped.to, mapped.slot, e.kind)} ELSE {}

CallEffects(m, f, call, known) ==
    IF call.callee = 0 THEN {}
    ELSE IF RulesFor(m, call) # <<>> THEN UNION {DirectEffects(f, call, r) : r \in ToSet(RulesFor(m, call))}
    ELSE UNION {PropagatedEffects(f, call, e) : e \in CalleeEffects(m, call, known)}

Positions(f) == UNION {{b} \X DOMAIN f.blocks[b].ins : b \in DOMAIN f.blocks}
At(f, at) == f.blocks[at[1]].ins[at[2]]
Calls(f) == {at \in Positions(f) : At(f, at).op = "call"}

BuildSummary(m, g, known) ==
    UNION {CallEffects(m, m.fns[g], At(m.fns[g], at), known) : at \in Calls(m.fns[g])}

Summarized(m) == {g \in DOMAIN m.fns : ~m.fns[g].decl /\ ~m.fns[g].stdlib}

-----------------------------------------------------------------------------
(* The handles of one function.                                            *)

NoHandle == [acquires |-> 0, releases |-> 0, releasedAt |-> {}, returned |-> FALSE]

Reaches(f, from, to) ==
    IF from[1] = to[1] THEN from[2] <= to[2]
    ELSE to[1] \in FoldLeft(LAMBDA set, b : set \cup UNION {f.blocks[c].succ : c \in set},
                            f.blocks[from[1]].succ, f.blocks)

\* A call whose effects on memory the model, the analysis scope or a summary describes.
Modeled(m, call, known) ==
    /\ call.callee # 0
    /\ LET c == m.fns[call.callee]
       IN  \/ RulesFor(m, call) # <<>>
           \/ ~c.decl /\ (c.scope \/ (call.callee \in DOMAIN known /\ known[call.callee] # {}))
           \/ c.decl /\ c.stdlib
           \/ call.callee \in DOMAIN m.ext /\ m.ext[call.callee] # {}

\* The argument is the address of a local, or an object that holds it.
CarriesAddressOf(v, slot) == slot \in v.carries

EscapesToUnmodeledCall(m, f, slot, known) ==
    /\ f.locals[slot].escapes
    /\ \E at \in Calls(f) :
          /\ ~Modeled(m, At(f, at), known)
          /\ \E i \in DOMAIN At(f, at).args :
                i \notin At(f, at).nocapture /\ CarriesAddressOf(At(f, at).args[i], slot)

Touch(st, key) == IF key \in DOMAIN st.handles THEN st.handles
                  ELSE [k \in DOMAIN st.handles \cup {key} |-> IF k = key THEN NoHandle ELSE st.handles[k]]

TrackAcquire(f, st, s, kind) ==
    IF ~Valid(s) THEN st
    ELSE [st EXCEPT !.handles = [Touch(st, <<s, kind>>) EXCEPT ![<<s, kind>>].acquires = @ + 1],
                    !.acquired = IF f.kind = "ctor" /\ s.scope = "this" THEN @ \cup {<<s, kind>>} ELSE @]

\* A store to the local of a value from elsewhere.
HasExternalStore(f, s) == s.off \in f.locals[s.of].outside

\* Uncertainty is reported for pointers the programmer named, not for objects.
ReportsUncertainty(f, s) ==
    f.locals[s.of].pointer /\ s.off = 0 /\ ~f.locals[s.of].temporary

\* A released local that was never acquired here: nothing, uncertain or an error.
Unacquired(m, f, s, known, fromSummary) ==
    IF f.locals[s.of].looseShadow THEN "nothing"
    ELSE IF HasExternalStore(f, s) \/ EscapesToUnmodeledCall(m, f, s.of, known) \/ fromSummary
    THEN IF ReportsUncertainty(f, s) THEN "incompleteInterproc" ELSE "nothing"
    ELSE "doubleRelease"

TrackRelease(m, f, st, s, kind, at, known, fromSummary) ==
    LET key     == <<s, kind>>
        st1     == IF f.kind \in {"dtor", "cleanup"} /\ s.scope = "this"
                   THEN [st EXCEPT !.released = @ \cup {key}] ELSE st
        handles == [Touch(st1, key) EXCEPT ![key].releases = @ + 1, ![key].releasedAt = @ \cup {at}]
        h       == handles[key]
        issue   == IF h.acquires = 0 THEN Unacquired(m, f, s, known, fromSummary) ELSE "doubleRelease"
        again   == issue = "incompleteInterproc" /\ \E i \in st1.issues : i[1] = issue /\ i[2] = key
    IN  IF s.scope # "local" THEN st1
        ELSE [st1 EXCEPT !.handles = handles,
                         !.issues = IF h.releases > h.acquires /\ issue # "nothing" /\ ~again
                                    THEN @ \cup {<<issue, key, at>>} ELSE @]

\* A use of a local that was acquired, and released by an instruction that reaches it.
UseAfterRelease(f, st, s, at) ==
    LET freed == {key \in DOMAIN st.handles :
                    /\ key[1] = s /\ st.handles[key].acquires > 0
                    /\ \E r \in st.handles[key].releasedAt : Reaches(f, r, at)}
    IN  IF s.scope # "local" \/ freed = {} THEN st
        ELSE [st EXCEPT !.issues = @ \cup {<<"useAfterRelease", <<s, "any">>, at>>}]

\* The local pointer through whose object a released handle was loaded, 0 if none.
OwnerSlot(v) == v.owner

\* The field of an object that the function returns is released.
ReleasedEscapes(f, st, v, kind) ==
    IF f.kind # "dtor" /\ f.ret = "owner" /\ OwnerSlot(v) # 0 /\ f.locals[OwnerSlot(v)].returned
    THEN [st EXCEPT !.issues = @ \cup {<<"releasedHandleEscapes", <<OwnerSlot(v), kind>>, <<0, 0>>>>}]
    ELSE st

-----------------------------------------------------------------------------
(* The instructions of one function.                                       *)

Uses(f, st, values, at) ==
    FoldLeft(LAMBDA s, v : UseAfterRelease(f, s, HandleStorage(f, v), at), st, values)

ReleaseArgs(m, call) == {r.arg : r \in {q \in ToSet(RulesFor(m, call)) : q.action = "releaseArg"}}

\* An argument the callee is taken to read or write through.
LikelyDereferenced(call, i) == i \in call.derefs

\* A load whose value only reaches released arguments is not a use.
FeedsOnlyReleases(access) == access.releaseOnly

AcquireDests(f, st, call, kind) ==
    FoldLeft(LAMBDA s, d : TrackAcquire(f, s, d, kind), st, SetToSeq(StoredDestinations(f, call)))

ApplyRule(m, f, st, call, r, at, known) ==
    CASE r.action = "acquireOut" /\ HasArg(call, r.arg) ->
           TrackAcquire(f, st, Storage(f, PointsTo(call.args[r.arg])), r.kind)
      [] r.action = "acquireRet" -> AcquireDests(f, st, call, r.kind)
      [] r.action = "releaseArg" /\ HasArg(call, r.arg) ->
           ReleasedEscapes(f, TrackRelease(m, f, st, HandleStorage(f, call.args[r.arg]), r.kind, at, known, FALSE),
                           call.args[r.arg], r.kind)
      [] OTHER -> st

ApplyEffect(m, f, st, call, e, at, known) ==
    LET s == MapEffect(f, call, e, FALSE).to
    IN  CASE e.action = "acquireRet" -> AcquireDests(f, st, call, e.kind)
          [] e.action = "acquireOut" -> TrackAcquire(f, st, s, e.kind)
          [] OTHER -> IF Valid(s) THEN TrackRelease(m, f, st, s, e.kind, at, known, TRUE) ELSE st

VisitCall(m, f, st, call, at, known) ==
    LET used == SelectSeq([i \in DOMAIN call.args |-> i],
                          LAMBDA i : LikelyDereferenced(call, i) /\ i \notin ReleaseArgs(m, call))
        st1  == Uses(f, st, [k \in DOMAIN used |-> call.args[used[k]]], at)
    IN  IF call.callee = 0 THEN st
        ELSE IF RulesFor(m, call) # <<>>
        THEN FoldLeft(LAMBDA s, r : ApplyRule(m, f, s, call, r, at, known), st1, RulesFor(m, call))
        ELSE FoldLeft(LAMBDA s, e : ApplyEffect(m, f, s, call, e, at, known), st1,
                      Ordered(CalleeEffects(m, call, known)))

Visit(m, f, st, at, known) ==
    CASE At(f, at).op = "access" ->
           IF FeedsOnlyReleases(At(f, at)) THEN st ELSE Uses(f, st, At(f, at).places, at)
      [] At(f, at).op = "call" -> VisitCall(m, f, st, At(f, at), at, known)
      [] OTHER -> st

\* The locals whose value a slot may have been given.
MayHold(f, slot) == f.locals[slot].mayHold

\* After the walk: the value of each return, which may be a slot that holds a handle.
VisitReturn(f, st, at) ==
    LET v    == At(f, at).value
        s    == HandleStorage(f, v)
        st1  == UseAfterRelease(f, st, s, at)
        held == IF v.loaded /\ v.from.base[1] = "local" THEN MayHold(f, v.from.base[2]) ELSE {}
        out(key) == key[1].scope = "local" /\ ((s.scope = "local" /\ key[1].of = s.of) \/ key[1].of \in held)
    IN  [st1 EXCEPT !.handles = [key \in DOMAIN @ |->
            IF out(key) THEN [@[key] EXCEPT !.returned = TRUE] ELSE @[key]]]

Layout(f) == SetToSortSeq(Positions(f), LAMBDA a, b : a[1] < b[1] \/ (a[1] = b[1] /\ a[2] < b[2]))

NeverReleased(m, f, st, known) ==
    {key \in DOMAIN st.handles :
        /\ key[1].scope = "local" /\ st.handles[key].acquires > st.handles[key].releases
        /\ ~st.handles[key].returned /\ ~EscapesToUnmodeledCall(m, f, key[1].of, known)}

AnalyzeFunction(m, g, known) ==
    LET f     == m.fns[g]
        start == [handles |-> [k \in {} |-> NoHandle], issues |-> {}, acquired |-> {}, released |-> {}]
        st    == FoldLeft(LAMBDA s, at : Visit(m, f, s, at, known), start, Layout(f))
        end   == FoldLeft(LAMBDA s, at : VisitReturn(f, s, at), st,
                          SelectSeq(Layout(f), LAMBDA at : At(f, at).op = "ret"))
    IN  [end EXCEPT !.issues = @ \cup {<<"missingRelease", key, <<0, 0>>>> : key \in NeverReleased(m, f, end, known)}]

-----------------------------------------------------------------------------
(* The module.                                                             *)

ResInit ==
    /\ mod \in Modules
    /\ phase = IF ParseResourceModel(mod.lines) = <<>> THEN "done" ELSE "summaries"
    /\ cursor = 1 /\ guard = 1 /\ changed = FALSE
    /\ sums = [g \in Summarized(mod) |-> {}]
    /\ classes = [acquired |-> {}, released |-> {}]
    /\ found = {}

\* Mutant: only the last function of a round tells whether something changed.
SummarizeLastTells ==
    /\ phase = "summaries" /\ cursor <= Len(mod.fns)
    /\ cursor' = cursor + 1
    /\ IF cursor \in Summarized(mod)
       THEN LET next == BuildSummary(mod, cursor, sums)
            IN  sums' = [sums EXCEPT ![cursor] = next] /\ changed' = (next # sums[cursor])
       ELSE UNCHANGED <<sums, changed>>
    /\ UNCHANGED <<mod, phase, guard, classes, found>>

Summarize ==
    /\ phase = "summaries" /\ cursor <= Len(mod.fns)
    /\ cursor' = cursor + 1
    /\ IF cursor \in Summarized(mod)
       THEN LET next == BuildSummary(mod, cursor, sums)
            IN  sums' = [sums EXCEPT ![cursor] = next] /\ changed' = (changed \/ next # sums[cursor])
       ELSE UNCHANGED <<sums, changed>>
    /\ UNCHANGED <<mod, phase, guard, classes, found>>

EndRound ==
    /\ phase = "summaries" /\ cursor > Len(mod.fns)
    /\ cursor' = 1 /\ changed' = FALSE
    /\ IF changed /\ guard < RoundCap
       THEN guard' = guard + 1 /\ phase' = phase
       ELSE guard' = guard /\ phase' = "functions"
    /\ UNCHANGED <<mod, sums, classes, found>>

\* Mutant: the releases of the functions before are forgotten.
AnalyzeForgets ==
    /\ phase = "functions" /\ cursor <= Len(mod.fns)
    /\ cursor' = cursor + 1
    /\ IF mod.fns[cursor].decl \/ ~mod.fns[cursor].scope THEN UNCHANGED <<classes, found>>
       ELSE LET end == AnalyzeFunction(mod, cursor, sums)
            IN  /\ found' = found \cup {<<cursor, issue>> : issue \in end.issues}
                /\ classes' = [acquired |-> classes.acquired \cup end.acquired, released |-> end.released]
    /\ UNCHANGED <<mod, phase, guard, changed, sums>>

Analyze ==
    /\ phase = "functions" /\ cursor <= Len(mod.fns)
    /\ cursor' = cursor + 1
    /\ IF mod.fns[cursor].decl \/ ~mod.fns[cursor].scope THEN UNCHANGED <<classes, found>>
       ELSE LET end == AnalyzeFunction(mod, cursor, sums)
            IN  /\ found' = found \cup {<<cursor, issue>> : issue \in end.issues}
                /\ classes' = [acquired |-> classes.acquired \cup end.acquired,
                               released |-> classes.released \cup end.released]
    /\ UNCHANGED <<mod, phase, guard, changed, sums>>

\* The classes: an issue for each acquired field that no destructor or cleanup releases.
EndAnalysis ==
    /\ phase = "functions" /\ cursor > Len(mod.fns)
    /\ phase' = "done"
    /\ found' = found \cup {<<0, <<"missingDestructorRelease", key, <<0, 0>>>>>> : key \in classes.acquired \ classes.released}
    /\ UNCHANGED <<mod, cursor, guard, changed, sums, classes>>

ResNext == Summarize \/ EndRound \/ Analyze \/ EndAnalysis

ResSpec == ResInit /\ [][ResNext]_resVars /\ WF_resVars(ResNext)

-----------------------------------------------------------------------------
(* Properties.                                                             *)

\* The effects when calls are followed depth levels down, as pairs <<function, effect>>.
RECURSIVE Unrolled(_, _)
Unrolled(m, depth) ==
    IF depth = 0 THEN {}
    ELSE LET below == Unrolled(m, depth - 1)
             known == [g \in Summarized(m) |-> {p[2] : p \in {q \in below : q[1] = g}}]
         IN  UNION {{g} \X BuildSummary(m, g, known) : g \in Summarized(m)}

(***************************************************************************)
(* The cap on the rounds of computeFunctionLifetimeSummaries loses only    *)
(* effects that come through a chain of calls deeper than the cap, invents *)
(* none, and if the rounds ended on their own none is lost.                *)
(***************************************************************************)
CapLosesOnlyDeepChains ==
    phase = "functions" /\ cursor = 1 =>
        LET computed == UNION {{g} \X sums[g] : g \in DOMAIN sums}
        IN  /\ Unrolled(mod, RoundCap) \subseteq computed
            /\ computed \subseteq Unrolled(mod, 2 * Len(mod.fns))
            /\ guard < RoundCap => \A g \in DOMAIN sums : sums[g] = BuildSummary(mod, g, sums)

\* What a function does to its storage if the code of its callees stood in place of
\* the calls: a sequence of events, each at the instruction of the function itself.
RECURSIVE Inlined(_, _, _)
Inlined(m, g, fuel) ==
    LET f == m.fns[g]
        event(what, s, slot, kind, at) == [what |-> what, s |-> s, slot |-> slot, kind |-> kind, at |-> at]
        results(call, kind, at) ==
            [i \in 1..Cardinality(call.dests) |->
                event("acquireOut", Storage(f, SetToSeq(call.dests)[i]), FALSE, kind, at)]
            \o IF call.returned THEN <<event("acquireRet", Storage(f, NoPlace), FALSE, kind, at)>> ELSE <<>>
        byRule(call, r, at) ==
            LET v == call.args[r.arg]
                through == v.loaded /\ ~SummaryScopeAllowed(Storage(f, v.addr))
            IN  CASE r.action = "acquireOut" ->
                       <<event("acquireOut", Storage(f, IF through THEN v.from ELSE v.addr), through, r.kind, at)>>
                       \o IF v.returned THEN <<event("acquireRet", Storage(f, NoPlace), FALSE, r.kind, at)>> ELSE <<>>
                  [] r.action = "releaseArg" -> <<event("releaseArg", HandleStorage(f, v), FALSE, r.kind, at)>>
                  [] OTHER -> results(call, r.kind, at)
        byCallee(call, e, at) ==
            LET to == MapEffect(f, call, EffectOn(e.what, e.s, e.slot, e.kind), TRUE)
            IN  IF e.what = "acquireRet" THEN results(call, e.kind, at)
                ELSE IF SummaryScopeAllowed(e.s) THEN <<event(e.what, to.to, to.slot, e.kind, at)>> ELSE <<>>
        body(call) ==
            IF fuel = 0 \/ call.callee \notin Summarized(m) \/ m.fns[call.callee].kind \in {"ctor", "dtor"} THEN <<>>
            ELSE Inlined(m, call.callee, fuel - 1)
        at1(all, at) ==
            LET call  == At(f, at)
                rules == RulesFor(m, call)
                inner == body(call)
            IN  all \o (IF call.callee = 0 THEN <<>>
                        ELSE IF rules # <<>> THEN FoldLeft(LAMBDA es, r : es \o byRule(call, r, at), <<>>, rules)
                        ELSE FoldLeft(LAMBDA es, e : es \o byCallee(call, e, at), <<>>, inner))
    IN  FoldLeft(at1, <<>>, SelectSeq(Layout(f), LAMBDA at : At(f, at).op = "call"))

\* No call touches the same storage twice: a summary does not count.
CountsAreKept(events) ==
    \A i, j \in DOMAIN events :
        (i # j /\ events[i].at = events[j].at /\ events[i].kind = events[j].kind) => events[i].s # events[j].s

Leaves(f, slot) ==
    \E at \in Positions(f) :
        LET v == At(f, at).value
        IN  /\ At(f, at).op = "ret"
            /\ \/ HandleStorage(f, v).scope = "local" /\ HandleStorage(f, v).of = slot
               \/ v.loaded /\ v.from.base[1] = "local" /\ slot \in MayHold(f, v.from.base[2])

Verdicts(m, g, known) ==
    LET f      == m.fns[g]
        events == SelectSeq(Inlined(m, g, Len(m.fns)), LAMBDA e : ~e.slot)
        keys   == {<<e.s, e.kind>> : e \in {d \in ToSet(events) : d.s.scope = "local" /\ d.what = "acquireOut"}}
        count(what, key, n) ==
            Cardinality({i \in 1..n : events[i].what = what /\ events[i].s = key[1] /\ events[i].kind = key[2]})
        last   == Len(events)
    IN  {<<"missingRelease", key>> : key \in {k \in keys :
            /\ count("acquireOut", k, last) > count("releaseArg", k, last)
            /\ ~Leaves(f, k[1].of) /\ ~EscapesToUnmodeledCall(m, f, k[1].of, known)}}
        \cup {<<"doubleRelease", key>> : key \in {k \in keys : \E n \in 1..last :
            /\ events[n].what = "releaseArg" /\ <<events[n].s, events[n].kind>> = k
            /\ count("acquireOut", k, n) > 0
            /\ count("releaseArg", k, n) > count("acquireOut", k, n)}}

(***************************************************************************)
(* A leak or a double release of a local is reported exactly as if the     *)
(* code of the callees stood in place of the calls, for callees that touch *)
(* no argument twice: acquiring or releasing in a wrapper, through a chain *)
(* of wrappers, by result, through an out argument or in a field, counts   *)
(* like doing it in the function itself.                                   *)
(***************************************************************************)
CallsActAsInlined ==
    phase = "done" /\ guard < RoundCap /\ ParseResourceModel(mod.lines) # <<>> =>
        \A g \in {h \in Summarized(mod) : mod.fns[h].scope} :
            LET events == Inlined(mod, g, Len(mod.fns))
                acquiredBefore(key, at) ==
                    \E e \in ToSet(events) :
                        /\ e.what = "acquireOut" /\ ~e.slot /\ <<e.s, e.kind>> = key
                        /\ at = <<0, 0>> \/ e.at[1] < at[1] \/ (e.at[1] = at[1] /\ e.at[2] <= at[2])
                reported == {<<p[2][1], p[2][2]>> : p \in {q \in found :
                                /\ q[1] = g /\ q[2][1] \in {"missingRelease", "doubleRelease"}
                                /\ acquiredBefore(q[2][2], q[2][3])}}
            IN  CountsAreKept(events) => reported = Verdicts(mod, g, sums)

\* Fields a function of one of the kinds acquires or releases, its callees included.
Fields(m, kinds, what) ==
    UNION {{<<e.s, e.kind>> : e \in {d \in ToSet(Inlined(m, g, Len(m.fns))) : d.s.scope = "this" /\ d.what = what /\ ~d.slot}} :
             g \in {h \in DOMAIN m.fns : m.fns[h].kind \in kinds /\ m.fns[h].scope /\ ~m.fns[h].decl /\ ~m.fns[h].stdlib}}

(***************************************************************************)
(* A field acquired by a constructor is reported exactly if no destructor  *)
(* and no cleanup method of the module releases it, in whatever order the  *)
(* functions of the class come and however deep the calls are.             *)
(***************************************************************************)
ClassesIgnoreOrder ==
    phase = "done" /\ guard < RoundCap /\ ParseResourceModel(mod.lines) # <<>> =>
        {p[2][2] : p \in {q \in found : q[2][1] = "missingDestructorRelease"}}
        = Fields(mod, {"ctor"}, "acquireOut") \ Fields(mod, {"dtor", "cleanup"}, "releaseArg")
=============================================================================
