------------------------- MODULE MCResourceLifetime -------------------------
(***************************************************************************)
(* Modules for the resource lifetime analysis: a function and two wrappers *)
(* before or after it; a class whose methods come in three orders; a chain  *)
(* of calls deeper than the cap on the rounds.                             *)
(***************************************************************************)
EXTENDS ResourceLifetime

Place(kind, n, off) == [base |-> <<kind, n>>, off |-> off]
Value(addr) == [addr |-> addr, loaded |-> FALSE, from |-> NoPlace, returned |-> FALSE, owner |-> 0,
                carries |-> IF addr.base[1] = "local" THEN {addr.base[2]} ELSE {}]
LoadOf(from, addr) == [Value(addr) EXCEPT !.loaded = TRUE, !.from = from]

Local == [shadow |-> 0, looseShadow |-> FALSE, origins |-> {-1}, pointer |-> TRUE, temporary |-> FALSE,
          escapes |-> TRUE, outside |-> {}, returned |-> FALSE, mayHold |-> {}]
Shadow == [Local EXCEPT !.shadow = 1, !.looseShadow = TRUE]
Function(locals, ins) ==
    [decl |-> FALSE, stdlib |-> FALSE, scope |-> TRUE, kind |-> "plain", class |-> 0, ret |-> "plain",
     locals |-> locals, stored |-> {}, blocks |-> <<[ins |-> ins, succ |-> {}]>>]
Declared == [Function(<<>>, <<>>) EXCEPT !.decl = TRUE]
Call(callee, args) ==
    [op |-> "call", callee |-> callee, args |-> args, dests |-> {}, returned |-> FALSE, nocapture |-> {}, derefs |-> {}]
Rule(fn, action, arg, words) == [fn |-> fn, action |-> action, arg |-> arg, kind |-> "K", words |-> words]

\* Function 1 acquires into its argument, 2 releases it, 3 returns a new one, 4 is unknown.
Rules == <<Rule(1, "acquireOut", 1, 4), Rule(2, "releaseArg", 1, 4), Rule(0, "", 0, 0), Rule(3, "acquireRet", 0, 3)>>
External == <<Declared, Declared, Declared, Declared>>
NoExt == [g \in {} |-> {}]
Module(fns) == [fns |-> External \o fns, lines |-> Rules, ext |-> NoExt]

-----------------------------------------------------------------------------
H    == Place("local", 1, 0)
Arg1 == LoadOf(Place("local", 1, 0), Place("arg", 1, 0))       \* in a wrapper
Field == LoadOf(Place("arg", 1, 1), NoPlace)                   \* the pointer in a field of *arg1
Simple(other) == {<<Call(1, <<Arg1>>)>>, <<Call(2, <<Arg1>>)>>, <<Call(other, <<Arg1>>)>>,
                  <<[Call(3, <<>>) EXCEPT !.returned = TRUE]>>}
Wrapper(other) ==
    Simple(other) \cup {<<[Call(other, <<Arg1>>) EXCEPT !.returned = TRUE]>>, <<Call(1, <<Field>>)>>}

\* Local 1 of main is a handle, local 2 an object with the handle's address at offset 1.
Object == Value(Place("local", 2, 0))
WrapperOps(w) ==
    {Call(w, <<Value(H)>>), Call(w, <<LoadOf(H, NoPlace)>>), [Call(w, <<>>) EXCEPT !.dests = {H}],
     Call(w, <<Object>>)}
MainOps(w) ==
    {Call(1, <<Value(H)>>), Call(2, <<LoadOf(H, NoPlace)>>), [Call(3, <<>>) EXCEPT !.dests = {H}]}
    \cup WrapperOps(w)
Ends == {<<>>, <<Call(2, <<LoadOf(H, NoPlace)>>)>>, <<[op |-> "ret", value |-> LoadOf(H, NoPlace)]>>,
         <<[Call(4, <<Value(H)>>) EXCEPT !.derefs = {1}]>>, <<[op |-> "access", releaseOnly |-> FALSE, places |-> <<LoadOf(H, NoPlace)>>]>>}
MainFn(ins) == [Function(<<[Local EXCEPT !.mayHold = {1}], Local>>, ins) EXCEPT
                    !.stored = {<<Place("local", 2, 1), H>>}]
WrapperFn(ins) == Function(<<Shadow>>, ins)
Wrappers ==
    {Module(<<MainFn(<<a, b>> \o e), WrapperFn(w), WrapperFn(v)>>) :
        a \in MainOps(6), b \in WrapperOps(7), e \in Ends, w \in Wrapper(7), v \in Simple(6)}

-----------------------------------------------------------------------------
\* A class with a constructor, a destructor, a cleanup method and a helper, in three orders.
This(off) == Value(Place("arg", 1, off))
Orders == {<<"ctor", "dtor", "cleanup", "plain">>, <<"dtor", "plain", "ctor", "cleanup">>, <<"cleanup", "ctor", "plain", "dtor">>}
Bodies(helper) == {<<>>, <<Call(1, <<This(0)>>)>>, <<Call(2, <<This(1)>>)>>, <<Call(helper, <<This(0)>>)>>,
                   <<Call(2, <<LoadOf(Place("arg", 1, 0), NoPlace)>>)>>, <<Call(helper, <<This(1)>>)>>}
HelperBodies == {<<Call(1, <<Arg1>>)>>, <<Call(2, <<Arg1>>)>>}
Class ==
    UNION {LET helper == 4 + CHOOSE i \in 1..4 : p[i] = "plain"
           IN  {Module([i \in 1..4 |->
                    IF p[i] = "plain" THEN WrapperFn(h)
                    ELSE [Function(<<>>, IF p[i] = "ctor" THEN b ELSE IF p[i] = "dtor" THEN c ELSE d)
                            EXCEPT !.kind = p[i], !.class = 1]]) :
                  h \in HelperBodies, b \in Bodies(helper), c \in Bodies(helper), d \in Bodies(helper)} :
             p \in Orders}

-----------------------------------------------------------------------------
\* Ten wrappers, each calling the next, and main calling the first.
Chain(n) ==
    Module(<<MainFn(<<Call(6, <<Value(H)>>), Call(2, <<LoadOf(H, NoPlace)>>)>>)>>
           \o [i \in 1..n |-> WrapperFn(<<Call(IF i = n THEN 1 ELSE 6 + i, <<Arg1>>)>>)])
Chains == {Chain(n) : n \in {3, 7, 8, 10}}

\* The same with a rule that lacks a word.
BadLine == {[m EXCEPT !.lines = Append(@, Rule(4, "releaseArg", 1, 3))] : m \in Chains}

MCModules == BadLine \cup Wrappers \cup Class \cup Chains
=============================================================================
