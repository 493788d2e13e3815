---------------------------- MODULE MCUninitFlow ----------------------------
(***************************************************************************)
(* Modules for the data flow of uninitialized locals: one function over    *)
(* four control flow shapes; a caller with two callees that call each      *)
(* other and themselves; one call of every kind of declared, constructed   *)
(* or imported function.                                                   *)
(***************************************************************************)
EXTENDS UninitFlow

At(o, off) == [obj |-> o, off |-> off, slot |-> FALSE]
LoadedFrom(o, off) == [obj |-> o, off |-> off, slot |-> TRUE]

Ld(p, n) == [op |-> "load", ptr |-> p, size |-> n, rmw |-> FALSE]
Mask(p) == [op |-> "load", ptr |-> p, size |-> 1, rmw |-> TRUE]
St(p, n) == [op |-> "store", ptr |-> p, size |-> n, undef |-> FALSE, value |-> 0]
Put(p, v) == [op |-> "store", ptr |-> p, size |-> 1, undef |-> FALSE, value |-> v]
StUndef(p) == [op |-> "store", ptr |-> p, size |-> 2, undef |-> TRUE, value |-> 0]
MemSet(p, n) == [op |-> "mem", transfer |-> FALSE, ptr |-> p, src |-> At(0, 0), size |-> n]
MemCpy(p, q, n) == [op |-> "mem", transfer |-> TRUE, ptr |-> p, src |-> q, size |-> n]

Plain(fn) == [fn |-> fn, defined |-> fn # 0, ctor |-> FALSE, assign |-> FALSE, receiver |-> 0, varArg |-> FALSE,
              sinkArg |-> 0, cString |-> FALSE, memset |-> FALSE, memcpy |-> FALSE, pure |-> FALSE,
              void |-> TRUE, returnsBool |-> FALSE, readOnly |-> {}, writeOnly |-> {}]
CallOf(c, args) == [op |-> "call", callee |-> c, args |-> args, sret |-> {}, inferred |-> [i \in DOMAIN args |-> 0],
                    checked |-> FALSE, cSource |-> FALSE, length |-> 0]

Local(layout) == [kind |-> "alloca", size |-> 2, layout |-> layout, argNo |-> 0, named |-> TRUE,
                  deadAggregate |-> FALSE, sret |-> FALSE]
Param(i) == [kind |-> "param", size |-> 0, layout |-> [known |-> FALSE, bytes |-> {}], argNo |-> i, named |-> TRUE,
             deadAggregate |-> FALSE, sret |-> FALSE]
NoLayout == [known |-> FALSE, bytes |-> {}]
Whole == [known |-> TRUE, bytes |-> {0, 1}]
Padded == [known |-> TRUE, bytes |-> {1}]

Fn(objs, blocks) == [objs |-> objs, blocks |-> blocks, scope |-> TRUE, system |-> FALSE]
Block(ins, succ) == [ins |-> ins, succ |-> succ]
Module(fns) == [fns |-> fns, ext |-> [g \in {} |-> <<>>]]

-----------------------------------------------------------------------------
\* One function: a line with an unreachable block, a diamond, a loop, and a loop
\* whose body is laid out before its head.
Shapes == {<<{2}, {4}, {4}, {}>>, <<{2, 3}, {4}, {4}, {}>>, <<{2}, {3, 4}, {2}, {}>>, <<{3}, {3}, {2, 4}, {}>>}
Bodies == {<<>>, <<St(At(1, 0), 1)>>, <<St(At(1, 1), 1)>>, <<Ld(At(1, 0), 2)>>, <<St(At(1, 0), 2)>>,
           <<St(At(1, Var), 1)>>}
OneFunction ==
    {Module(<<Fn(<<Local(l)>>, [b \in 1..4 |-> Block(IF b = 4 THEN <<Ld(At(1, 0), 2)>> ELSE ins[b], shape[b])])>>) :
        l \in {NoLayout, Whole}, shape \in Shapes, ins \in [1..3 -> Bodies]}

-----------------------------------------------------------------------------
\* main has a local of two bytes and calls g on it; g and h work on a parameter.
GBodies == {<<>>, <<St(At(1, 0), 1)>>, <<Ld(At(1, 0), 1)>>, <<Ld(At(1, 0), 2)>>, <<Ld(At(1, Var), 1)>>,
            <<CallOf(Plain(2), <<At(1, 0)>>)>>, <<CallOf(Plain(3), <<At(1, 0)>>)>>, <<CallOf(Plain(3), <<At(1, 1)>>)>>}
HBodies == {<<>>, <<St(At(1, 0), 1)>>, <<Ld(At(1, 0), 1)>>, <<CallOf(Plain(2), <<At(1, 0)>>), St(At(1, 1), 1)>>,
            <<Ld(At(1, 1), 1), CallOf(Plain(2), <<At(1, 0)>>)>>}
MainOf(pre, arg) ==
    Fn(<<Local(NoLayout)>>, <<Block(pre \o <<CallOf(Plain(2), <<arg>>), Ld(At(1, 0), 2)>>, {})>>)
Callees ==
    {Module(<<MainOf(pre, arg),
              Fn(<<Param(1)>>, <<Block(g1, {2, 3}), Block(g2, {3}), Block(<<>>, {})>>),
              [Fn(<<Param(1)>>, <<Block(h, {})>>) EXCEPT !.scope = FALSE, !.system = sys]>>) :
        pre \in {<<>>, <<St(At(1, 0), 1)>>}, arg \in {At(1, 0), At(1, Var)},
        g1 \in GBodies, g2 \in GBodies, h \in HBodies, sys \in BOOLEAN}

-----------------------------------------------------------------------------
\* One call of a declared, constructed or imported function, between an access and a load.
Declared == Plain(0)
Calls ==
    {[CallOf([Declared EXCEPT !.void = v, !.readOnly = ro, !.cString = cs, !.pure = pu], args)
        EXCEPT !.checked = ck, !.cSource = cc] :
        v \in BOOLEAN, ro \in {{}, {1}}, cs \in BOOLEAN, pu \in BOOLEAN, ck \in BOOLEAN, cc \in BOOLEAN,
        args \in {<<At(1, 0)>>, <<At(0, 0), At(1, 0), At(0, 0)>>}}
    \cup {[CallOf([Declared EXCEPT !.sinkArg = 1], <<At(1, 0)>>) EXCEPT !.length = n] : n \in 0..3}
    \cup {[CallOf([Declared EXCEPT !.memcpy = TRUE, !.void = FALSE], <<At(1, 0), At(2, 0)>>) EXCEPT !.length = n] : n \in 0..3}
    \cup {CallOf([Declared EXCEPT !.memset = TRUE], <<At(1, 0)>>)}
    \cup {[CallOf([Plain(fn) EXCEPT !.ctor = c, !.assign = a, !.receiver = r, !.void = ~b, !.returnsBool = b],
                  <<At(1, 0)>>) EXCEPT !.inferred = <<n>>, !.sret = sr, !.checked = b] :
            fn \in {2, 8, 9}, c \in BOOLEAN, a \in BOOLEAN, r \in 0..1, b \in BOOLEAN, n \in {0, 1}, sr \in {{}, {1}}}
    \cup {MemCpy(At(1, 0), At(2, 0), n) : n \in {0, 1, 2, 3, Var}} \cup {MemSet(At(1, o), n) : o \in {0, 1, Var}, n \in {1, Var}}
    \cup {StUndef(At(1, 0)), Mask(At(1, 0))}
Imported == [g \in {8} |-> [i \in {1} |-> [NoEffect EXCEPT !.reads = {1}, !.writes = {0}, !.slots = {<<0, 0>>}]]]
OneCall ==
    {[fns |-> <<Fn(<<Local(l), Local(NoLayout)>>, <<Block(pre \o <<call, Ld(At(1, 0), 2)>>, {})>>),
                [Fn(<<Param(1)>>, <<Block(<<CallOf(Declared, <<LoadedFrom(1, 0)>>)>>, {})>>) EXCEPT !.scope = FALSE,
                    !.system = sys]>>,
      ext |-> Imported] :
        l \in {NoLayout, Padded}, call \in Calls, sys \in BOOLEAN,
        pre \in {<<St(At(1, 0), 1)>>, <<Put(At(1, 0), 2), St(At(1, 1), 1)>>}}

\* The same calls on a local that nothing else uses.
CallOnly ==
    {[fns |-> <<Fn(<<Local(NoLayout), Local(NoLayout)>>, <<Block(<<call>>, {})>>),
                [Fn(<<Param(1)>>, <<Block(<<>>, {})>>) EXCEPT !.scope = FALSE, !.system = sys]>>,
      ext |-> Imported] : call \in Calls, sys \in BOOLEAN}

MCModules == OneFunction \cup Callees \cup OneCall \cup CallOnly
=============================================================================
