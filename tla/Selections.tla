----------------------------- MODULE Selections -----------------------------
(***************************************************************************)
(* The loops that copy the elements of a vector they want to another one,  *)
(* as the command line, the plan and the reports have them: SelectSeq with *)
(* a set for its test, written so that it can be reasoned about.           *)
(***************************************************************************)
EXTENDS Naturals, Sequences

(* The elements of the sequence s that are in S, in their order.            *)
Only(s, S) ==
    LET kept[i \in 0 .. Len(s)] ==
            IF i = 0 THEN <<>>
            ELSE IF s[i] \in S THEN Append(kept[i - 1], s[i]) ELSE kept[i - 1]
    IN  kept[Len(s)]
=============================================================================
