----------------------------- MODULE MCPipeline -----------------------------
(***************************************************************************)
(* Modules for the pipeline: one function with up to three instructions of *)
(* every kind the analyses tell apart, and two functions, of which one may *)
(* be deselected or come from a header.                                    *)
(***************************************************************************)
EXTENDS Pipeline

Size(kind, value, upper, user) == [kind |-> kind, value |-> value, upper |-> upper, user |-> user]
Alloca(size) == [op |-> "alloca", what |-> "", size |-> size]
Set(variable, const, value) ==
    [op |-> "store", what |-> "set", variable |-> variable, const |-> const, value |-> value]
Element(op, known, low, high, refuted) ==
    [op |-> op, what |-> "element", known |-> known, low |-> low, high |-> high, size |-> 4,
     refuted |-> refuted]
Path(op, what, text) == [op |-> op, what |-> what, path |-> [root |-> text, text |-> ""]]
Write(op, explicit, known, length) ==
    [op |-> op, what |-> "write", dest |-> 4, explicit |-> explicit, known |-> known, length |-> length]
Shell(op, literal) == [op |-> op, what |-> "shell", literal |-> literal]

Allocas == {Alloca(Size("one", 1, 0, FALSE)), Alloca(Size("literal", 20, 0, FALSE)),
            Alloca(Size("variable", "n", 0, TRUE)), Alloca(Size("variable", "n", 9, FALSE)),
            Set("n", TRUE, 9), Set("n", FALSE, 0)}
Elements == {Element("store", TRUE, 4, 4, {}), Element("load", TRUE, 3, 3, {}),
             Element("load", FALSE, -1, 5, {}), Element("load", FALSE, -1, 5, {"lower"}),
             Element("store", FALSE, 0, 4, {"upper"})}
Paths == {Path(op, what, "p") : op \in {"call", "invoke"}, what \in {"check", "use"}}
         \cup {Path("call", "use", "q")}
Writes == {Write("memintrinsic", TRUE, TRUE, 5), Write("invoke", TRUE, FALSE, 0),
           Write("call", FALSE, FALSE, 0), Shell("call", FALSE), Shell("invoke", FALSE),
           Shell("invoke", TRUE)}

\* The instructions of a function are on lines 1, 2 and 3, the first without a column,
\* and what comes after them has no place at all.
Placed(code) ==
    [i \in 1 .. Len(code) |->
        ("at" :> (IF i > 3 THEN <<0, 0>> ELSE IF i = 1 THEN <<1, 0>> ELSE <<i, 2>>)) @@ code[i]]
Found(label, kind) ==
    [step |-> label, kind |-> kind, func |-> "f", file |-> "f.h", at |-> <<7, 3>>,
     declared |-> <<8, 1>>, places |-> <<<<0, 0>>, <<9, 0>>>>]
Function(name, code) ==
    [name |-> name, file |-> "f.h", selected |-> TRUE, at |-> <<6, 0>>, recursive |-> FALSE,
     infinite |-> FALSE, exceeds |-> FALSE, locals |-> <<>>, local |-> 0, callee |-> 0,
     code |-> Placed(code), found |-> <<>>]

UpTo2(S) == {<<a>> : a \in S} \cup {<<a, b>> : a, b \in S}
UpTo3(S) == UpTo2(S) \cup {<<a, b, c>> : a, b, c \in S}

OneFunction ==
    {<<Function("f", code)>> :
        code \in UpTo2(Allocas \cup Elements \cup Writes) \cup UpTo3(Paths) \cup {<<>>}}

\* A function that is recursive and too large, with issues of the other analyses and a
\* call, which they need.
Named(n) == [i \in 1 .. n |-> [named |-> TRUE, bytes |-> 2]]
Troubled ==
    {<<[Function("f", <<Shell("call", TRUE), Alloca(Size("variable", "n", up, user))>>) EXCEPT
            !.recursive = TRUE, !.infinite = inf, !.exceeds = TRUE, !.locals = Named(n), !.local = 12,
            !.found = <<Found("Multiple stores", "multiple stores"),
                        Found("Const params", "ConstParameterNotModified.Pointer"),
                        [Found("Uninitialized local reads", "exposed bytes") EXCEPT !.at = <<0, 0>>],
                        Found("Uninitialized local reads", "never initialized"),
                        Found("Resource lifetime", "double release"),
                        Found("Integer overflows", "truncation")>>]>> :
        up \in {0, 9}, user \in BOOLEAN, inf \in BOOLEAN, n \in {1, 6}}

TwoFunctions ==
    {<<Function("f", c), [Function("g", d) EXCEPT !.selected = s]>> :
        c, d \in {<<x, y>> : x, y \in {Path("call", "check", "p"), Path("call", "use", "p"),
                                       Shell("invoke", FALSE)}},
        s \in BOOLEAN}

MCPrograms == OneFunction \cup Troubled \cup TwoFunctions
=============================================================================
