----------------------------- MODULE RangeSets -----------------------------
(***************************************************************************)
(* The byte range vectors of UninitializedVarAnalysis.cpp: a set of bytes  *)
(* of a memory object is kept as a sorted vector of half open ranges that  *)
(* neither overlap nor touch.  A range is a pair <<begin, end>>.           *)
(* UninitFlow keeps the initialised bytes this way.                        *)
(***************************************************************************)
EXTENDS Integers, Sequences, FiniteSets

CONSTANT MaxInteriorGapBytes  \* 7 in the source

LOCAL Max2(a, b) == IF a > b THEN a ELSE b
LOCAL Min2(a, b) == IF a < b THEN a ELSE b

BytesOf(rs) == UNION {rs[i][1]..(rs[i][2] - 1) : i \in DOMAIN rs}

\* Mutant: a range that ends where the new one begins is passed over.
LowerBoundStrict(rs, value) ==
    LET late == {i \in DOMAIN rs : rs[i][2] > value}
    IN  IF late = {} THEN Len(rs) + 1 ELSE CHOOSE i \in late : \A j \in late : i <= j

\* The first range that does not end before the value, one past the last if none.
LowerBound(rs, value) ==
    LET late == {i \in DOMAIN rs : rs[i][2] >= value}
    IN  IF late = {} THEN Len(rs) + 1 ELSE CHOOSE i \in late : \A j \in late : i <= j

\* A range absorbs its successors as long as they begin within it.
RECURSIVE Absorb(_, _)
Absorb(r, rest) ==
    IF rest # <<>> /\ Head(rest)[1] <= r[2]
    THEN Absorb(<<r[1], Max2(r[2], Head(rest)[2])>>, Tail(rest))
    ELSE <<r>> \o rest

\* Add a range when i is the first that it may touch.
AddRangeAt(rs, begin, end, i) ==
    CASE begin >= end -> rs
      [] begin < end /\ i > Len(rs) -> Append(rs, <<begin, end>>)
      [] begin < end /\ i <= Len(rs) /\ end < rs[i][1] ->
           SubSeq(rs, 1, i - 1) \o <<<<begin, end>>>> \o SubSeq(rs, i, Len(rs))
      [] OTHER ->
           SubSeq(rs, 1, i - 1)
           \o Absorb(<<Min2(rs[i][1], begin), Max2(rs[i][2], end)>>, SubSeq(rs, i + 1, Len(rs)))

AddRange(rs, begin, end) == AddRangeAt(rs, begin, end, LowerBound(rs, begin))

RECURSIVE AddRanges(_, _)
AddRanges(rs, more) ==
    IF more = <<>> THEN rs ELSE AddRanges(AddRange(rs, Head(more)[1], Head(more)[2]), Tail(more))

\* The merge walk over two vectors; the range that ends first is left behind.
RECURSIVE IntersectRanges(_, _)
IntersectRanges(lhs, rhs) ==
    IF lhs = <<>> \/ rhs = <<>> THEN <<>>
    ELSE LET begin == Max2(Head(lhs)[1], Head(rhs)[1])
             end   == Min2(Head(lhs)[2], Head(rhs)[2])
             rest  == IF Head(lhs)[2] < Head(rhs)[2]
                      THEN IntersectRanges(Tail(lhs), rhs)
                      ELSE IntersectRanges(lhs, Tail(rhs))
         IN  IF begin < end THEN <<<<begin, end>>>> \o rest ELSE rest

\* The scan stops at the first range that covers the access or begins after it.
IsRangeCovered(rs, begin, end) ==
    \/ begin >= end
    \/ \E i \in DOMAIN rs : /\ rs[i][1] <= begin /\ rs[i][2] >= end
                            /\ \A j \in 1..(i - 1) : rs[j][1] <= begin

\* The scan with a cursor: TRUE or FALSE when a range decides, the cursor at the
\* end otherwise.  A range that begins after the cursor leaves it where it is.
RECURSIVE GapScan(_, _, _, _)
GapScan(rs, cursor, begin, end) ==
    IF rs = <<>> \/ Head(rs)[1] >= end
    THEN cursor >= end \/ (cursor > begin /\ end - cursor <= MaxInteriorGapBytes)
    ELSE IF Head(rs)[2] <= cursor THEN GapScan(Tail(rs), cursor, begin, end)
    ELSE LET gapEnd == Min2(Head(rs)[1], end)
             next   == IF Head(rs)[1] <= cursor THEN Max2(cursor, Min2(Head(rs)[2], end)) ELSE cursor
         IN  IF cursor < gapEnd
                /\ ~(cursor > begin /\ gapEnd < end /\ gapEnd - cursor <= MaxInteriorGapBytes)
             THEN FALSE
             ELSE next >= end \/ GapScan(Tail(rs), next, begin, end)

IsRangeCoveredAllowingSmallInteriorGaps(rs, begin, end) ==
    begin >= end \/ GapScan(rs, begin, begin, end)
=============================================================================
