-------------------------- MODULE FrontEndProofs --------------------------
(***************************************************************************)
(* For every command line, configuration file, database and set of         *)
(* modules.                                                                *)
(*                                                                         *)
(* The arguments: what an option holds at the end is what the last         *)
(* argument that sets it said, else the last entry of the file, else its   *)
(* default; and the configuration file that was applied is the one         *)
(* recorded, unless the text --config is the value of another option.  The *)
(* two readings cut the arguments each in its own way, so both proofs rest *)
(* on where the second reading may stand: at the heads, which a walk that  *)
(* takes one or two arguments a step visits one after the other.           *)
(*                                                                         *)
(* The plan: it has the inputs that were asked for, as often as they were, *)
(* and none of an excluded directory.  The proof counts: the list of the   *)
(* inputs has a text as often as the heads read so far name it, and        *)
(* neither excluding other texts nor sorting changes that number.          *)
(*                                                                         *)
(* The report: the three formats count the same diagnostics, as copying    *)
(* the elements one wants and counting them both distribute over joining   *)
(* sequences; and a function that is listed passes the report's filter.    *)
(***************************************************************************)
EXTENDS FrontEnd, FiniteSetTheorems, SequenceTheorems, WellFoundedInduction, TLAPS

-----------------------------------------------------------------------------
LEMMA LeastNat ==
  ASSUME NEW S \in SUBSET Nat, S # {}
  PROVE  \E m \in S : \A k \in S : m <= k
<1> DEFINE R == OpToRel(<, Nat)
<1>1. IsWellFoundedOn(R, Nat)
  BY NatLessThanWellFounded
<1>2. ASSUME NEW x \in Nat, NEW y \in Nat PROVE <<x, y>> \in R <=> x < y
  BY DEF OpToRel
<1> HIDE DEF R
<1>3. PICK x \in S : \A y \in S : ~ (<<y, x>> \in R)
  BY <1>1, WFMin
<1>4. ASSUME NEW y \in S PROVE x <= y
  <2>1. ~(y < x)
    BY <1>3, <1>2
  <2> QED BY <2>1
<1> QED BY <1>4

-----------------------------------------------------------------------------
\* Sequences.

(* A set of sequences with the empty one that is closed under Append.      *)
LEMMA SeqInduction ==
  ASSUME NEW X, NEW Good, <<>> \in Good,
         \A s \in Seq(X), x \in X : s \in Good => Append(s, x) \in Good
  PROVE  Seq(X) \subseteq Good
<1> DEFINE Bad == {n \in Nat : \E s \in Seq(X) : Len(s) = n /\ s \notin Good}
<1>1. Bad = {}
  <2> SUFFICES ASSUME Bad # {} PROVE FALSE
    OBVIOUS
  <2>0. Bad \in SUBSET Nat
    OBVIOUS
  <2>1. PICK n \in Bad : \A k \in Bad : n <= k
    <3> HIDE DEF Bad
    <3> QED BY <2>0, LeastNat
  <2>2. PICK s \in Seq(X) : Len(s) = n /\ s \notin Good
    BY <2>1
  <2>3. PICK t \in Seq(X), x \in X : s = Append(t, x)
    BY <2>2, SequenceEmptyOrAppend
  <2>4. Len(t) \in Nat /\ Len(s) = Len(t) + 1
    BY <2>3, AppendProperties, LenProperties
  <2>5. t \notin Good
    BY <2>2, <2>3
  <2>6. Len(t) \in Bad
    BY <2>4, <2>5
  <2> QED BY <2>1, <2>2, <2>4, <2>6
<1> QED BY <1>1, LenProperties

Keeps(s, S, kept) ==
  /\ DOMAIN kept = 0 .. Len(s)
  /\ kept[0] = <<>>
  /\ \A i \in 1 .. Len(s) : kept[i] = IF s[i] \in S THEN Append(kept[i - 1], s[i]) ELSE kept[i - 1]

(* Only runs through the sequence once.                                     *)
LEMMA KeepsExists ==
  ASSUME NEW X, NEW S
  PROVE  \A s \in Seq(X) : \E kept : Keeps(s, S, kept)
<1> DEFINE Good == {s \in Seq(X) : \E kept : Keeps(s, S, kept)}
<1>1. <<>> \in Good
  <2>1. Keeps(<<>>, S, [i \in 0 .. 0 |-> <<>>])
    BY DEF Keeps
  <2> QED BY <2>1
<1>2. ASSUME NEW s \in Seq(X), NEW x \in X, s \in Good PROVE Append(s, x) \in Good
  <2>1. PICK k : Keeps(s, S, k)
    BY <1>2
  <2> DEFINE n == Len(s) + 1
             l == [i \in 0 .. n |->
                     IF i = n THEN IF x \in S THEN Append(k[i - 1], x) ELSE k[i - 1] ELSE k[i]]
  <2>2. /\ Len(s) \in Nat /\ Append(s, x) \in Seq(X) /\ Len(Append(s, x)) = n
        /\ \A i \in 1 .. Len(s) : Append(s, x)[i] = s[i]
        /\ Append(s, x)[n] = x
    BY AppendProperties, LenProperties
  <2>3. Keeps(Append(s, x), S, l)
    <3>1. DOMAIN l = 0 .. Len(Append(s, x)) /\ l[0] = <<>>
      BY <2>1, <2>2 DEF Keeps
    <3>2. ASSUME NEW i \in 1 .. Len(Append(s, x))
          PROVE  l[i] = IF Append(s, x)[i] \in S THEN Append(l[i - 1], Append(s, x)[i]) ELSE l[i - 1]
      <4>1. CASE i = n
        BY <2>2, <4>1
      <4>2. CASE i # n
        <5>1. i \in 1 .. Len(s) /\ i - 1 \in 0 .. Len(s) /\ i - 1 # n
          BY <2>2, <4>2
        <5>2. l[i] = k[i] /\ l[i - 1] = k[i - 1]
          BY <2>2, <5>1, <4>2
        <5> QED BY <2>1, <2>2, <5>1, <5>2 DEF Keeps
      <4> QED BY <4>1, <4>2
    <3> HIDE DEF l
    <3> QED BY <3>1, <3>2 DEF Keeps
  <2> QED BY <2>2, <2>3
<1> HIDE DEF Good
<1>3. Seq(X) \subseteq Good
  BY <1>1, <1>2, SeqInduction
<1> QED BY <1>3 DEF Good

LEMMA OnlyKeeps ==
  ASSUME NEW X, NEW s \in Seq(X), NEW S
  PROVE  \E kept : Keeps(s, S, kept) /\ Only(s, S) = kept[Len(s)]
<1> DEFINE Solves(k) ==
             k = [i \in 0 .. Len(s) |->
                    IF i = 0 THEN <<>>
                    ELSE IF s[i] \in S THEN Append(k[i - 1], s[i]) ELSE k[i - 1]]
           w == CHOOSE k : Solves(k)
<1>0. Len(s) \in Nat
  BY LenProperties
<1>1. Only(s, S) = w[Len(s)]
  BY DEF Only
<1>2. \E k : Solves(k)
  <2>1. PICK kept : Keeps(s, S, kept)
    BY KeepsExists
  <2> DEFINE k == [i \in 0 .. Len(s) |-> kept[i]]
  <2>2. \A i \in 0 .. Len(s) :
          k[i] = IF i = 0 THEN <<>> ELSE IF s[i] \in S THEN Append(k[i - 1], s[i]) ELSE k[i - 1]
    <3>1. \A i \in 0 .. Len(s) : i = 0 \/ (i \in 1 .. Len(s) /\ i - 1 \in 0 .. Len(s))
      BY <1>0
    <3> QED BY <2>1, <3>1 DEF Keeps
  <2>3. k = [i \in 0 .. Len(s) |-> k[i]]
    OBVIOUS
  <2> HIDE DEF k
  <2>4. Solves(k)
    BY <2>2, <2>3
  <2> QED BY <2>4
<1>3. Solves(w)
  BY <1>2
<1> HIDE DEF w
<1>4. Keeps(s, S, w)
  <2>1. DOMAIN w = 0 .. Len(s)
    BY <1>3
  <2>2. \A i \in 0 .. Len(s) :
          w[i] = IF i = 0 THEN <<>> ELSE IF s[i] \in S THEN Append(w[i - 1], s[i]) ELSE w[i - 1]
    BY <1>3
  <2> HIDE DEF Solves
  <2>3. w[0] = <<>>
    BY <1>0, <2>2
  <2>4. \A i \in 1 .. Len(s) : i \in 0 .. Len(s) /\ i # 0
    BY <1>0
  <2> QED BY <2>1, <2>2, <2>3, <2>4 DEF Keeps
<1> QED BY <1>1, <1>4

LEMMA KeepsAgree ==
  ASSUME NEW X, NEW s \in Seq(X), NEW t \in Seq(X), Len(s) <= Len(t), NEW S, NEW T,
         \A i \in 1 .. Len(s) : s[i] = t[i] /\ (s[i] \in S <=> t[i] \in T),
         NEW k, NEW l, Keeps(s, S, k), Keeps(t, T, l)
  PROVE  k[Len(s)] = l[Len(s)]
<1> DEFINE Bad == {n \in 0 .. Len(s) : k[n] # l[n]}
<1>0. Len(s) \in Nat /\ Len(t) \in Nat
  BY LenProperties
<1>1. Bad = {}
  <2> SUFFICES ASSUME Bad # {} PROVE FALSE
    OBVIOUS
  <2>0. Bad \in SUBSET Nat
    BY <1>0
  <2>1. PICK n \in Bad : \A j \in Bad : n <= j
    <3> HIDE DEF Bad
    <3> QED BY <2>0, LeastNat
  <2>2. n # 0
    BY <2>1 DEF Keeps
  <2>3. n \in 1 .. Len(s) /\ n - 1 \in 0 .. Len(s) /\ n \in 1 .. Len(t) /\ n - 1 \notin Bad
    <3>1. n \in 1 .. Len(s) /\ n - 1 \in 0 .. Len(s) /\ n \in 1 .. Len(t) /\ ~(n <= n - 1)
      BY <1>0, <2>1, <2>2
    <3> HIDE DEF Bad
    <3> QED BY <2>1, <3>1
  <2>4. k[n - 1] = l[n - 1]
    BY <2>3
  <2> QED BY <2>1, <2>3, <2>4 DEF Keeps
<1> QED BY <1>0, <1>1

LEMMA OnlyEmpty ==
  ASSUME NEW S
  PROVE  Only(<<>>, S) = <<>>
<1>1. <<>> \in Seq({}) /\ Len(<<>>) = 0
  BY EmptySeq
<1>2. PICK k : Keeps(<<>>, S, k) /\ Only(<<>>, S) = k[Len(<<>>)]
  BY <1>1, OnlyKeeps
<1> QED BY <1>1, <1>2 DEF Keeps

LEMMA OnlyAppend ==
  ASSUME NEW X, NEW s \in Seq(X), NEW x \in X, NEW S
  PROVE  Only(Append(s, x), S) = IF x \in S THEN Append(Only(s, S), x) ELSE Only(s, S)
<1> DEFINE t == Append(s, x)
<1>1. /\ Len(s) \in Nat /\ t \in Seq(X) /\ Len(t) = Len(s) + 1 /\ t[Len(s) + 1] = x
      /\ \A i \in 1 .. Len(s) : t[i] = s[i]
  BY AppendProperties, LenProperties
<1> HIDE DEF t
<1>2. PICK k : Keeps(s, S, k) /\ Only(s, S) = k[Len(s)]
  BY OnlyKeeps
<1>3. PICK l : Keeps(t, S, l) /\ Only(t, S) = l[Len(t)]
  BY <1>1, OnlyKeeps
<1>4. k[Len(s)] = l[Len(s)]
  BY <1>1, <1>2, <1>3, KeepsAgree
<1>5. Len(t) \in 1 .. Len(t) /\ Len(t) - 1 = Len(s)
  BY <1>1
<1>6. l[Len(t)] = IF x \in S THEN Append(l[Len(s)], x) ELSE l[Len(s)]
  BY <1>1, <1>3, <1>5 DEF Keeps
<1> QED BY <1>2, <1>3, <1>4, <1>6 DEF t

(* Only depends on the elements of S that occur in the sequence.           *)
LEMMA OnlySame ==
  ASSUME NEW X, NEW s \in Seq(X), NEW S, NEW T, \A i \in 1 .. Len(s) : s[i] \in S <=> s[i] \in T
  PROVE  Only(s, S) = Only(s, T)
<1>1. PICK k : Keeps(s, S, k) /\ Only(s, S) = k[Len(s)]
  BY OnlyKeeps
<1>2. PICK l : Keeps(s, T, l) /\ Only(s, T) = l[Len(s)]
  BY OnlyKeeps
<1>3. Len(s) <= Len(s)
  BY LenProperties
<1> QED BY <1>1, <1>2, <1>3, KeepsAgree

LEMMA OnlyIsSeq ==
  ASSUME NEW X, NEW S
  PROVE  \A s \in Seq(X) : Only(s, S) \in Seq(X \cap S) /\ Only(s, S) \in Seq(X)
<1> DEFINE Good == {s \in Seq(X) : Only(s, S) \in Seq(X \cap S)}
<1>1. <<>> \in Good
  BY OnlyEmpty, EmptySeq
<1>2. ASSUME NEW s \in Seq(X), NEW x \in X, s \in Good PROVE Append(s, x) \in Good
  <2>1. Append(s, x) \in Seq(X)
    BY AppendProperties
  <2>2. Only(Append(s, x), S) = IF x \in S THEN Append(Only(s, S), x) ELSE Only(s, S)
    BY OnlyAppend
  <2>3. x \in S => Append(Only(s, S), x) \in Seq(X \cap S)
    BY <1>2, AppendProperties
  <2> QED BY <1>2, <2>1, <2>2, <2>3
<1> HIDE DEF Good
<1>3. Seq(X) \subseteq Good
  BY <1>1, <1>2, SeqInduction
<1>4. ASSUME NEW s \in Seq(X \cap S) PROVE s \in Seq(X)
  BY SeqMonotonic
<1> QED BY <1>3, <1>4 DEF Good

LEMMA PlacesOf ==
  ASSUME NEW X, NEW s \in Seq(X), NEW S
  PROVE  /\ IsFiniteSet({i \in 1 .. Len(s) : s[i] \in S})
         /\ Cardinality({i \in 1 .. Len(s) : s[i] \in S}) \in Nat
<1>1. IsFiniteSet(1 .. Len(s))
  BY LenProperties, FS_Interval
<1>2. IsFiniteSet({i \in 1 .. Len(s) : s[i] \in S})
  BY <1>1, FS_Subset
<1> QED BY <1>2, FS_CardinalityType

LEMMA OnlyCounts ==
  ASSUME NEW X, NEW S
  PROVE  \A s \in Seq(X) : Len(Only(s, S)) = Cardinality({i \in 1 .. Len(s) : s[i] \in S})
<1> DEFINE P(s) == {i \in 1 .. Len(s) : s[i] \in S}
           Good == {s \in Seq(X) : Len(Only(s, S)) = Cardinality(P(s))}
<1>1. <<>> \in Good
  <2>1. P(<<>>) = {}
    BY EmptySeq
  <2> QED BY <2>1, OnlyEmpty, EmptySeq, FS_EmptySet
<1>2. ASSUME NEW s \in Seq(X), NEW x \in X, s \in Good PROVE Append(s, x) \in Good
  <2> DEFINE t == Append(s, x)
  <2>1. /\ Len(s) \in Nat /\ t \in Seq(X) /\ Len(t) = Len(s) + 1 /\ t[Len(s) + 1] = x
        /\ \A i \in 1 .. Len(s) : t[i] = s[i]
    BY AppendProperties, LenProperties
  <2>2. Only(t, S) = IF x \in S THEN Append(Only(s, S), x) ELSE Only(s, S)
    BY OnlyAppend
  <2>3. Only(s, S) \in Seq(X)
    BY OnlyIsSeq
  <2>4. Len(Only(t, S)) = Len(Only(s, S)) + (IF x \in S THEN 1 ELSE 0) /\ Len(Only(s, S)) \in Nat
    BY <2>2, <2>3, AppendProperties, LenProperties
  <2> HIDE DEF t
  <2>5. P(t) = P(s) \cup (IF x \in S THEN {Len(s) + 1} ELSE {}) /\ Len(s) + 1 \notin P(s)
    BY <2>1
  <2>6. IsFiniteSet(P(s)) /\ Cardinality(P(s)) \in Nat
    BY PlacesOf
  <2> HIDE DEF P
  <2>7. Cardinality(P(t)) = Cardinality(P(s)) + (IF x \in S THEN 1 ELSE 0)
    <3>1. CASE x \in S
      <4>1. P(t) = P(s) \cup {Len(s) + 1}
        BY <2>5, <3>1
      <4>2. Cardinality(P(s) \cup {Len(s) + 1}) = Cardinality(P(s)) + 1
        BY <2>5, <2>6, FS_AddElement
      <4> QED BY <3>1, <4>1, <4>2
    <3>2. CASE x \notin S
      BY <2>5, <2>6, <3>2
    <3> QED BY <3>1, <3>2
  <2>8. t \in Good
    BY <1>2, <2>1, <2>4, <2>7
  <2> QED BY <2>8 DEF t
<1> HIDE DEF Good
<1>3. Seq(X) \subseteq Good
  BY <1>1, <1>2, SeqInduction
<1> QED BY <1>3 DEF Good

LEMMA OnlyConcat ==
  ASSUME NEW X, NEW s \in Seq(X), NEW S
  PROVE  \A t \in Seq(X) : Only(s \o t, S) = Only(s, S) \o Only(t, S)
<1> DEFINE Good == {t \in Seq(X) : Only(s \o t, S) = Only(s, S) \o Only(t, S)}
<1>1. <<>> \in Good
  <2>1. Only(s, S) \in Seq(X)
    BY OnlyIsSeq
  <2> QED BY <2>1, OnlyEmpty, EmptySeq, ConcatEmptySeq
<1>2. ASSUME NEW t \in Seq(X), NEW x \in X, t \in Good PROVE Append(t, x) \in Good
  <2>1. /\ Only(s, S) \in Seq(X) /\ Only(t, S) \in Seq(X) /\ s \o t \in Seq(X)
        /\ Append(t, x) \in Seq(X)
    BY OnlyIsSeq, ConcatProperties, AppendProperties
  <2>2. ASSUME NEW a \in Seq(X), NEW b \in Seq(X) PROVE a \o Append(b, x) = Append(a \o b, x)
    <3>1. <<x>> \in Seq(X) /\ a \o b \in Seq(X)
      BY ConcatProperties
    <3>2. Append(b, x) = b \o <<x>> /\ Append(a \o b, x) = (a \o b) \o <<x>>
      BY <3>1, AppendIsConcat
    <3> QED BY <3>1, <3>2, ConcatAssociative
  <2>3. Only(s \o Append(t, x), S)
          = IF x \in S THEN Append(Only(s \o t, S), x) ELSE Only(s \o t, S)
    <3>1. s \o Append(t, x) = Append(s \o t, x)
      BY <2>2
    <3> QED BY <2>1, <3>1, OnlyAppend
  <2>4. Only(Append(t, x), S) = IF x \in S THEN Append(Only(t, S), x) ELSE Only(t, S)
    BY OnlyAppend
  <2>5. x \in S => Only(s, S) \o Append(Only(t, S), x) = Append(Only(s, S) \o Only(t, S), x)
    BY <2>1, <2>2
  <2> QED BY <1>2, <2>1, <2>3, <2>4, <2>5
<1> HIDE DEF Good
<1>3. Seq(X) \subseteq Good
  BY <1>1, <1>2, SeqInduction
<1> QED BY <1>3 DEF Good

LEMMA OnlyAll ==
  ASSUME NEW X
  PROVE  \A s \in Seq(X) : Only(s, X) = s
<1> DEFINE Good == {s \in Seq(X) : Only(s, X) = s}
<1>1. <<>> \in Good
  BY OnlyEmpty, EmptySeq
<1>2. ASSUME NEW s \in Seq(X), NEW x \in X, s \in Good PROVE Append(s, x) \in Good
  BY <1>2, OnlyAppend, AppendProperties
<1> HIDE DEF Good
<1>3. Seq(X) \subseteq Good
  BY <1>1, <1>2, SeqInduction
<1> QED BY <1>3 DEF Good

LEMMA OnlyTwice ==
  ASSUME NEW X, NEW S, NEW T
  PROVE  \A s \in Seq(X) : Only(Only(s, S), T) = Only(s, S \cap T)
<1> DEFINE U == S \cap T
           Good == {s \in Seq(X) : Only(Only(s, S), T) = Only(s, U)}
<1>0. \A x : x \in U <=> x \in S /\ x \in T
  OBVIOUS
<1> HIDE DEF U
<1>1. <<>> \in Good
  BY OnlyEmpty, EmptySeq
<1>2. ASSUME NEW s \in Seq(X), NEW x \in X, s \in Good PROVE Append(s, x) \in Good
  <2>1. Only(s, S) \in Seq(X) /\ Only(Only(s, S), T) = Only(s, U)
    BY <1>2, OnlyIsSeq
  <2>2. Only(Append(s, x), S) = IF x \in S THEN Append(Only(s, S), x) ELSE Only(s, S)
    BY OnlyAppend
  <2>3. Only(Append(s, x), U) = IF x \in U THEN Append(Only(s, U), x) ELSE Only(s, U)
    BY OnlyAppend
  <2>4. Only(Append(Only(s, S), x), T)
          = IF x \in T THEN Append(Only(s, U), x) ELSE Only(s, U)
    BY <2>1, OnlyAppend
  <2>5. Append(s, x) \in Seq(X)
    BY AppendProperties
  <2> HIDE DEF Good
  <2>6. Only(Only(Append(s, x), S), T) = Only(Append(s, x), U)
    <3>1. CASE x \in S
      BY <1>0, <2>2, <2>3, <2>4, <3>1
    <3>2. CASE x \notin S
      BY <1>0, <2>1, <2>2, <2>3, <3>2
    <3> QED BY <3>1, <3>2
  <2> QED BY <2>5, <2>6 DEF Good
<1> HIDE DEF Good
<1>3. Seq(X) \subseteq Good
  BY <1>1, <1>2, SeqInduction
<1> QED BY <1>3 DEF Good, U

-----------------------------------------------------------------------------
\* Flattened sequences.

Flattens(ss, fl) ==
  /\ DOMAIN fl = 1 .. Len(ss)
  /\ Len(ss) > 0 => fl[1] = ss[1]
  /\ \A i \in 2 .. Len(ss) : fl[i] = fl[i - 1] \o ss[i]

LEMMA FlattensExists ==
  ASSUME NEW X
  PROVE  \A ss \in Seq(X) : \E fl : Flattens(ss, fl)
<1> DEFINE Good == {ss \in Seq(X) : \E fl : Flattens(ss, fl)}
<1>1. <<>> \in Good
  <2>1. Len(<<>>) = 0 /\ <<>> \in Seq(X) /\ DOMAIN <<>> = 1 .. 0
    BY EmptySeq
  <2>2. Flattens(<<>>, [i \in 1 .. 0 |-> <<>>])
    BY <2>1 DEF Flattens
  <2> QED BY <2>1, <2>2
<1>2. ASSUME NEW s \in Seq(X), NEW x \in X, s \in Good PROVE Append(s, x) \in Good
  <2>1. PICK k : Flattens(s, k)
    BY <1>2
  <2> DEFINE n == Len(s) + 1
             l == [i \in 1 .. n |-> IF i = n THEN IF n = 1 THEN x ELSE k[i - 1] \o x ELSE k[i]]
  <2>2. /\ Len(s) \in Nat /\ Append(s, x) \in Seq(X) /\ Len(Append(s, x)) = n
        /\ \A i \in 1 .. Len(s) : Append(s, x)[i] = s[i]
        /\ Append(s, x)[n] = x
    BY AppendProperties, LenProperties
  <2>3. Flattens(Append(s, x), l)
    <3>1. DOMAIN l = 1 .. Len(Append(s, x))
      BY <2>2
    <3>2. l[1] = Append(s, x)[1]
      BY <2>1, <2>2 DEF Flattens
    <3>3. ASSUME NEW i \in 2 .. Len(Append(s, x)) PROVE l[i] = l[i - 1] \o Append(s, x)[i]
      <4>0. i \in 1 .. n /\ i - 1 \in 1 .. n /\ i - 1 # n /\ n # 1
        BY <2>2, <3>3
      <4>1. CASE i = n
        BY <2>2, <4>0, <4>1
      <4>2. CASE i # n
        <5>1. i \in 2 .. Len(s) /\ i \in 1 .. Len(s) /\ i - 1 \in 1 .. Len(s)
          BY <2>2, <4>2
        <5>2. l[i] = k[i] /\ l[i - 1] = k[i - 1]
          BY <4>0, <4>2
        <5> QED BY <2>1, <2>2, <5>1, <5>2 DEF Flattens
      <4> QED BY <4>1, <4>2
    <3> HIDE DEF l
    <3> QED BY <3>1, <3>2, <3>3 DEF Flattens
  <2> QED BY <2>2, <2>3
<1> HIDE DEF Good
<1>3. Seq(X) \subseteq Good
  BY <1>1, <1>2, SeqInduction
<1> QED BY <1>3 DEF Good

LEMMA FlattenSeqFlattens ==
  ASSUME NEW X, NEW ss \in Seq(X), ss # <<>>
  PROVE  \E fl : Flattens(ss, fl) /\ FlattenSeq(ss) = fl[Len(ss)]
<1> DEFINE Solves(k) ==
             k = [i \in 1 .. Len(ss) |-> IF i = 1 THEN ss[i] ELSE k[i - 1] \o ss[i]]
           w == CHOOSE k : Solves(k)
<1>0. Len(ss) \in Nat /\ Len(ss) # 0
  BY EmptySeq, LenProperties
<1>1. FlattenSeq(ss) = w[Len(ss)]
  BY <1>0 DEF FlattenSeq
<1>2. \E k : Solves(k)
  <2>1. PICK fl : Flattens(ss, fl)
    BY FlattensExists
  <2> DEFINE k == [i \in 1 .. Len(ss) |-> fl[i]]
  <2>2. \A i \in 1 .. Len(ss) : k[i] = IF i = 1 THEN ss[i] ELSE k[i - 1] \o ss[i]
    <3> SUFFICES ASSUME NEW i \in 1 .. Len(ss)
                 PROVE  k[i] = IF i = 1 THEN ss[i] ELSE k[i - 1] \o ss[i]
      OBVIOUS
    <3>1. CASE i = 1
      <4>1. fl[1] = ss[1]
        BY <1>0, <2>1 DEF Flattens
      <4> QED BY <3>1, <4>1
    <3>2. CASE i # 1
      <4>1. i \in 2 .. Len(ss) /\ i - 1 \in 1 .. Len(ss)
        BY <1>0, <3>2
      <4>2. fl[i] = fl[i - 1] \o ss[i]
        BY <2>1, <4>1 DEF Flattens
      <4> QED BY <3>2, <4>1, <4>2
    <3> QED BY <3>1, <3>2
  <2>3. k = [i \in 1 .. Len(ss) |-> k[i]]
    OBVIOUS
  <2> HIDE DEF k
  <2>4. Solves(k)
    BY <2>2, <2>3
  <2> QED BY <2>4
<1>3. Solves(w)
  BY <1>2
<1> HIDE DEF w
<1>4. Flattens(ss, w)
  <2>1. DOMAIN w = 1 .. Len(ss)
    BY <1>3
  <2>2. \A i \in 1 .. Len(ss) : w[i] = IF i = 1 THEN ss[i] ELSE w[i - 1] \o ss[i]
    BY <1>3
  <2> HIDE DEF Solves
  <2>3. \A i \in 2 .. Len(ss) : i \in 1 .. Len(ss) /\ i # 1
    BY <1>0
  <2>4. Len(ss) > 0 => w[1] = ss[1]
    BY <1>0, <2>2
  <2> QED BY <2>1, <2>2, <2>3, <2>4 DEF Flattens
<1> QED BY <1>1, <1>4

LEMMA FlattenAppend ==
  ASSUME NEW X, NEW ss \in Seq(Seq(X)), NEW s \in Seq(X)
  PROVE  FlattenSeq(<<>>) = <<>> /\ FlattenSeq(Append(ss, s)) = FlattenSeq(ss) \o s
<1> DEFINE tt == Append(ss, s)
<1>0. /\ Len(ss) \in Nat /\ tt \in Seq(Seq(X)) /\ Len(tt) = Len(ss) + 1 /\ tt[Len(ss) + 1] = s
      /\ \A i \in 1 .. Len(ss) : tt[i] = ss[i]
      /\ tt # <<>>
  BY AppendProperties, LenProperties
<1> HIDE DEF tt
<1>1. FlattenSeq(<<>>) = <<>>
  BY EmptySeq DEF FlattenSeq
<1>2. PICK l : Flattens(tt, l) /\ FlattenSeq(tt) = l[Len(tt)]
  BY <1>0, FlattenSeqFlattens
<1>3. CASE ss = <<>>
  <2>1. Len(tt) = 1 /\ l[1] = s
    BY <1>0, <1>2, <1>3, EmptySeq DEF Flattens
  <2>2. <<>> \o s = s
    BY ConcatEmptySeq
  <2> QED BY <1>1, <1>2, <1>3, <2>1, <2>2 DEF tt
<1>4. CASE ss # <<>>
  <2>1. PICK k : Flattens(ss, k) /\ FlattenSeq(ss) = k[Len(ss)]
    BY <1>4, FlattenSeqFlattens
  <2>2. Len(ss) > 0
    BY <1>0, <1>4, EmptySeq
  <2> DEFINE Bad == {n \in 1 .. Len(ss) : k[n] # l[n]}
  <2>3. Bad = {}
    <3> SUFFICES ASSUME Bad # {} PROVE FALSE
      OBVIOUS
    <3>0. Bad \in SUBSET Nat
      BY <1>0
    <3>1. PICK n \in Bad : \A j \in Bad : n <= j
      <4> HIDE DEF Bad
      <4> QED BY <3>0, LeastNat
    <3>2. n # 1
      BY <1>0, <1>2, <2>1, <2>2, <3>1 DEF Flattens
    <3>3. /\ n \in 2 .. Len(ss) /\ n \in 1 .. Len(ss) /\ n - 1 \in 1 .. Len(ss)
          /\ n \in 2 .. Len(tt) /\ n - 1 \notin Bad
      <4>1. n \in 1 .. Len(ss)
        BY <3>1
      <4>2. n \in 2 .. Len(ss) /\ n - 1 \in 1 .. Len(ss) /\ n \in 2 .. Len(tt) /\ ~(n <= n - 1)
        BY <1>0, <3>2, <4>1
      <4> HIDE DEF Bad
      <4> QED BY <3>1, <4>1, <4>2
    <3>4. k[n - 1] = l[n - 1]
      BY <3>3
    <3> QED BY <1>0, <1>2, <2>1, <3>1, <3>3, <3>4 DEF Flattens
  <2>4. Len(tt) \in 2 .. Len(tt) /\ Len(tt) - 1 = Len(ss) /\ Len(ss) \in 1 .. Len(ss)
    BY <1>0, <2>2
  <2>5. l[Len(tt)] = l[Len(ss)] \o s
    BY <1>0, <1>2, <2>4 DEF Flattens
  <2> QED BY <1>1, <1>2, <2>1, <2>3, <2>4, <2>5 DEF tt
<1> QED BY <1>3, <1>4

LEMMA FlattenIsSeq ==
  ASSUME NEW X
  PROVE  \A ss \in Seq(Seq(X)) : FlattenSeq(ss) \in Seq(X)
<1> DEFINE Good == {ss \in Seq(Seq(X)) : FlattenSeq(ss) \in Seq(X)}
<1>1. <<>> \in Good
  BY FlattenAppend, EmptySeq
<1>2. ASSUME NEW ss \in Seq(Seq(X)), NEW s \in Seq(X), ss \in Good PROVE Append(ss, s) \in Good
  BY <1>2, FlattenAppend, ConcatProperties, AppendProperties
<1> HIDE DEF Good
<1>3. Seq(Seq(X)) \subseteq Good
  BY <1>1, <1>2, SeqInduction
<1> QED BY <1>3 DEF Good

-----------------------------------------------------------------------------
\* The cut of the arguments.

\* i is a head if the head before it ends there.
Follows(i, S) ==
  \/ i - 1 \in S \cap 1 .. Len(argv) /\ ~SplitAt(i - 1)
  \/ i - 2 \in S \cap 1 .. Len(argv) /\ SplitAt(i - 2)

CutUpTo(n, S) ==
  S \in SUBSET (1 .. n) /\ 1 \in S /\ \A i \in 2 .. n : i \in S <=> Follows(i, S)

(* Some set of positions is the cut: it can be continued by one position.  *)
LEMMA CutExists ==
  ASSUME Len(argv) \in Nat
  PROVE  \E S \in SUBSET (1 .. Len(argv) + 2) : IsCut(S)
<1> DEFINE Bad == {n \in Nat : n >= 1 /\ ~ \E S : CutUpTo(n, S)}
<1>1. Bad = {}
  <2> SUFFICES ASSUME Bad # {} PROVE FALSE
    OBVIOUS
  <2>1. PICK n \in Bad : \A k \in Bad : n <= k
    <3> Bad \in SUBSET Nat
      OBVIOUS
    <3> QED BY LeastNat
  <2>2. CASE n = 1
    <3>1. CutUpTo(1, {1})
      BY DEF CutUpTo
    <3> QED BY <2>1, <2>2, <3>1
  <2>3. CASE n # 1
    <3>1. n - 1 \in Nat /\ n - 1 >= 1 /\ n \in Nat /\ n >= 2
      BY <2>1, <2>3
    <3>2. n - 1 \notin Bad
      BY <2>1, <3>1
    <3>3. PICK S : CutUpTo(n - 1, S)
      BY <3>1, <3>2
    <3> DEFINE T == IF Follows(n, S) THEN S \cup {n} ELSE S
    <3>4. S \in SUBSET (1 .. n - 1) /\ 1 \in S
      BY <3>3 DEF CutUpTo
    <3>5. \A i \in 2 .. n : Follows(i, S) <=> Follows(i, T)
      BY <3>1, <3>4 DEF Follows
    <3>6. T \in SUBSET (1 .. n) /\ 1 \in T
      BY <3>1, <3>4
    <3>7. \A i \in 2 .. n - 1 : i \in T <=> i \in S
      BY <3>1, <3>4
    <3>8. n \in T <=> Follows(n, S)
      BY <3>1, <3>4
    <3>9. ASSUME NEW i \in 2 .. n PROVE i \in T <=> Follows(i, T)
      <4>1. CASE i = n
        BY <4>1, <3>5, <3>8
      <4>2. CASE i # n
        <5>1. i \in 2 .. n - 1
          BY <4>2, <3>1
        <5>2. i \in S <=> Follows(i, S)
          BY <5>1, <3>3 DEF CutUpTo
        <5> QED BY <5>1, <5>2, <3>5, <3>7
      <4> QED BY <4>1, <4>2
    <3>10. CutUpTo(n, T)
      <4> HIDE DEF T
      <4> QED BY <3>6, <3>9 DEF CutUpTo
    <3> QED BY <2>1, <3>10
  <2> QED BY <2>2, <2>3
<1>2. PICK S : CutUpTo(Len(argv) + 2, S)
  <2>1. Len(argv) + 2 \in Nat /\ Len(argv) + 2 >= 1
    OBVIOUS
  <2>2. Len(argv) + 2 \notin Bad
    <3> HIDE DEF Bad
    <3> QED BY <1>1
  <2> QED BY <2>1, <2>2
<1> QED BY <1>2 DEF CutUpTo, Follows, IsCut

LEMMA HeadsAreCut ==
  ASSUME Len(argv) \in Nat
  PROVE  Heads \in SUBSET (1 .. Len(argv) + 2) /\ IsCut(Heads)
BY CutExists DEF Heads

(* After an argument that takes the next one as its value comes the one    *)
(* after that, and after any other the next.                               *)
LEMMA NextHead ==
  ASSUME Len(argv) \in Nat, NEW i \in Heads \cap 1 .. Len(argv)
  PROVE  IF SplitAt(i) THEN i + 2 \in Heads /\ i + 1 \notin Heads ELSE i + 1 \in Heads
<1>1. Heads \in SUBSET (1 .. Len(argv) + 2) /\ IsCut(Heads)
  BY HeadsAreCut
<1>2. \A j \in 2 .. Len(argv) + 2 : j \in Heads <=> Follows(j, Heads)
  BY <1>1 DEF IsCut, Follows
<1>3. CASE ~SplitAt(i)
  <2>1. i + 1 \in 2 .. Len(argv) + 2 /\ i + 1 - 1 = i
    OBVIOUS
  <2>2. Follows(i + 1, Heads)
    BY <2>1, <1>3 DEF Follows
  <2> QED BY <1>2, <1>3, <2>1, <2>2
<1>4. CASE SplitAt(i)
  <2>1. i + 2 \in 2 .. Len(argv) + 2 /\ i + 2 - 2 = i
    OBVIOUS
  <2>2. i + 2 \in Heads
    BY <1>2, <2>1, <1>4 DEF Follows
  <2> DEFINE Bad == {k \in Nat : k \in Heads /\ k \in 1 .. Len(argv) /\ SplitAt(k) /\ k + 1 \in Heads}
  <2>3. Bad = {}
    <3> SUFFICES ASSUME Bad # {} PROVE FALSE
      OBVIOUS
    <3>1. PICK k \in Bad : \A l \in Bad : k <= l
      <4> Bad \in SUBSET Nat
        OBVIOUS
      <4> QED BY LeastNat
    <3>2. k \in Nat /\ k \in Heads /\ k \in 1 .. Len(argv) /\ SplitAt(k) /\ k + 1 \in Heads
      BY <3>1
    <3>3. k + 1 \in 2 .. Len(argv) + 2 /\ k + 1 - 1 = k /\ k + 1 - 2 = k - 1
      BY <3>2
    <3>4. Follows(k + 1, Heads)
      BY <1>2, <3>2, <3>3
    <3>5. k - 1 \in Heads /\ k - 1 \in 1 .. Len(argv) /\ SplitAt(k - 1)
      BY <3>2, <3>3, <3>4 DEF Follows
    <3>6. k - 1 \in Nat /\ k - 1 + 1 = k
      BY <3>2, <3>5
    <3>7. k - 1 \in Bad
      BY <3>2, <3>5, <3>6
    <3> QED BY <3>1, <3>2, <3>7
  <2>4. i \notin Bad
    BY <2>3
  <2> QED BY <2>2, <2>4, <1>4
<1> QED BY <1>3, <1>4

-----------------------------------------------------------------------------
\* What an option sets: at most one record, whose fields that hold one value do not
\* depend on the configuration so far.

AgreeOn(e, d) ==
  \A f \in ScalarFields : (f \in DOMAIN e <=> f \in DOMAIN d) /\ (f \in DOMAIN e => e[f] = d[f])

SameEffects(S, T) == (S = {} <=> T = {}) /\ \A e \in S, d \in T : AgreeOn(e, d)

AtMostOne(S) == \A x, y \in S : x = y

LEMMA FixedEffect ==
  ASSUME NEW S, AtMostOne(S)
  PROVE  SameEffects(S, S)
BY DEF AtMostOne, SameEffects, AgreeOn

LEMMA ParsesToOne ==
  ASSUME NEW text, NEW max
  PROVE  /\ AtMostOne(ParsePositive(text, max))
         /\ \A words : AtMostOne(ParseWord(text, words))
         /\ AtMostOne(ParseBool(text)) /\ AtMostOne(ParseStackLimit(text))
         /\ AtMostOne(ParseJobs(text))
<1>1. AtMostOne(ParsePositive(text, max))
  BY DEF AtMostOne, ParsePositive
<1>2. ASSUME NEW words PROVE AtMostOne(ParseWord(text, words))
  BY DEF AtMostOne, ParseWord
<1>3. AtMostOne(ParseStackLimit(text))
  BY DEF AtMostOne, ParseStackLimit
<1>4. AtMostOne(ParseBool(text))
  BY DEF AtMostOne, ParseBool, ParseWord
<1>5. AtMostOne(ParsePositive(text, UnsignedMax))
  BY DEF AtMostOne, ParsePositive
<1>6. AtMostOne(ParseJobs(text))
  BY <1>5 DEF AtMostOne, ParseJobs
<1> QED BY <1>1, <1>2, <1>3, <1>4, <1>6

LEMMA OnlyLists ==
  ASSUME NEW e, NEW d, DOMAIN e \subseteq ListFields, DOMAIN d \subseteq ListFields
  PROVE  SameEffects({e}, {d})
BY DEF SameEffects, AgreeOn, ScalarFields

LEMMA SmtEffectsAgree ==
  ASSUME NEW opt \in SmtOptions, NEW v, NEW c, NEW d, NEW source \in {"cli", "config"}
  PROVE  SameEffects(SmtEffect(opt, v, c, source), SmtEffect(opt, v, d, source))
<1> DEFINE E(x) == SmtEffect(opt, v, x, source)
<1>0. opt \in {"--smt", "--smt-backend", "--smt-secondary-backend", "--smt-mode",
              "--smt-timeout-ms", "--smt-budget-nodes", "--smt-rules"}
  BY DEF SmtOptions
<1>1. CASE opt = "--smt-rules"
  <2> DEFINE R(x) == (IF source = "config" THEN <<>> ELSE x.smtRules) \o Csv(v)
             U(x) == Updated([smtEnabled |-> TRUE], [smtRules |-> R(x)])
  <2>1. \A x : E(x) = {U(x)}
    <3> HIDE DEF R
    <3> QED BY <1>1 DEF SmtEffect, Enables, R
  <2>2. \A x : DOMAIN U(x) = {"smtEnabled", "smtRules"} /\ U(x).smtEnabled = TRUE
    <3> HIDE DEF R
    <3> QED BY DEF Updated
  <2>3. "smtRules" \notin ScalarFields
    BY DEF ScalarFields, ListFields
  <2> HIDE DEF U, E
  <2>4. AgreeOn(U(c), U(d))
    BY <2>2, <2>3 DEF AgreeOn
  <2>5. SameEffects(E(c), E(d))
    BY <2>1, <2>4 DEF SameEffects
  <2> QED BY <2>5 DEF E
<1>2. CASE opt # "--smt-rules"
  <2>1. E(c) = E(d)
    BY <1>0, <1>2 DEF SmtEffect
  <2>2. AtMostOne(E(c))
    <3>1. CASE opt = "--smt" /\ source = "cli"
      <4> DEFINE W == ParseWord(v, {"on", "off"})
                 Switch(w) == [smtEnabled |-> w = "on"]
      <4>1. E(c) = {Switch(w) : w \in W}
        BY <3>1 DEF SmtEffect
      <4>2. AtMostOne(W)
        BY ParsesToOne
      <4> HIDE DEF W, Switch, E
      <4> QED BY <4>1, <4>2 DEF AtMostOne
    <3>2. CASE opt = "--smt" /\ source = "config"
      BY <3>2, ParsesToOne DEF SmtEffect, AtMostOne
    <3>3. CASE opt = "--smt-backend"
      BY <3>3 DEF SmtEffect, AtMostOne, Enables
    <3>4. CASE opt = "--smt-secondary-backend"
      BY <3>4 DEF SmtEffect, AtMostOne, Enables
    <3>5. CASE opt = "--smt-mode"
      BY <3>5, ParsesToOne DEF SmtEffect, AtMostOne, Enables
    <3>6. CASE opt = "--smt-timeout-ms"
      BY <3>6, ParsesToOne DEF SmtEffect, AtMostOne, Enables
    <3>7. CASE opt = "--smt-budget-nodes"
      BY <3>7, ParsesToOne DEF SmtEffect, AtMostOne, Enables
    <3> QED BY <1>0, <1>2, <3>1, <3>2, <3>3, <3>4, <3>5, <3>6, <3>7
  <2> QED BY <2>1, <2>2, FixedEffect
<1> QED BY <1>1, <1>2

LEMMA OptionTables ==
  /\ DOMAIN TextField = {"--config", "--dump-ir", "--base-dir", "--sarif-out"}
  /\ DOMAIN PathField = {"--resource-model", "--escape-model", "--buffer-model",
                         "--resource-summary-cache-dir", "--compile-ir-cache-dir"}
  /\ DOMAIN ListField = {"--only-file", "--only-dir"}
  /\ DOMAIN CsvField = {"--only-func", "--only-function", "--exclude-dir"}
BY DEF TextField, PathField, ListField, CsvField

LEMMA ListTables ==
  /\ \A o \in DOMAIN ListField : ListField[o] \in ListFields
  /\ \A o \in DOMAIN CsvField : CsvField[o] \in ListFields
BY DEF ListField, CsvField, ListFields

(* The arms of ValueEffect exclude one another.                            *)
OneKind(opt) ==
  /\ opt \in DOMAIN TextField => opt \notin DOMAIN PathField
  /\ opt \in DOMAIN TextField \cup DOMAIN PathField => opt \notin CompdbOptions
  /\ opt \in DOMAIN TextField \cup DOMAIN PathField \cup CompdbOptions =>
       opt \notin DOMAIN ListField /\ opt \notin DOMAIN CsvField /\ opt \notin CompileOptions
  /\ opt \in DOMAIN ListField => opt \notin DOMAIN CsvField
  /\ opt \in DOMAIN ListField \cup DOMAIN CsvField => opt \notin CompileOptions
  /\ opt \in DOMAIN TextField \cup DOMAIN PathField \cup CompdbOptions \cup DOMAIN ListField
             \cup DOMAIN CsvField \cup CompileOptions =>
       opt \notin SmtOptions
       /\ opt # "--stack-limit" /\ opt # "--analysis-profile" /\ opt # "--jobs"
       /\ opt # "--compile-ir-format" /\ opt # "--mode"
  /\ opt \in SmtOptions =>
       /\ opt # "--stack-limit" /\ opt # "--analysis-profile" /\ opt # "--jobs"
       /\ opt # "--compile-ir-format" /\ opt # "--mode"

LEMMA KindsAreDistinct == \A opt : OneKind(opt)
<1> SUFFICES ASSUME NEW opt PROVE OneKind(opt)
  OBVIOUS
<1> QED BY OptionTables DEF OneKind, CompdbOptions, CompileOptions, SmtOptions

\* The options that set lists.
ListOptions == DOMAIN ListField \cup DOMAIN CsvField \cup CompileOptions

\* The options that set fields of one value each, but for those of SMT.
PlainOptions ==
  DOMAIN TextField \cup DOMAIN PathField \cup CompdbOptions
  \cup {"--stack-limit", "--analysis-profile", "--jobs", "--compile-ir-format", "--mode"}

LEMMA ListEffectsAgree ==
  ASSUME NEW opt \in ListOptions, NEW v, NEW c, NEW d
  PROVE  SameEffects(ValueEffect(opt, v, c), ValueEffect(opt, v, d))
<1>1. OneKind(opt)
  BY KindsAreDistinct
<1>2. CASE opt \in DOMAIN ListField
  <2> DEFINE E(x) == [f \in {ListField[opt]} |-> Append(x[f], v)]
  <2>1. \A x : ValueEffect(opt, v, x) = {E(x)}
    BY <1>1, <1>2 DEF ValueEffect, OneKind
  <2>2. \A x : DOMAIN E(x) \subseteq ListFields
    BY <1>2, ListTables
  <2> HIDE DEF E
  <2> QED BY <2>1, <2>2, OnlyLists
<1>3. CASE opt \in DOMAIN CsvField
  <2> DEFINE E(x) == [f \in {CsvField[opt]} |-> x[f] \o Csv(v)]
  <2>1. \A x : ValueEffect(opt, v, x) = {E(x)}
    BY <1>1, <1>3 DEF ValueEffect, OneKind
  <2>2. \A x : DOMAIN E(x) \subseteq ListFields
    BY <1>3, ListTables
  <2> HIDE DEF E
  <2> QED BY <2>1, <2>2, OnlyLists
<1>4. CASE opt \in CompileOptions
  <2> DEFINE A(x) == Append(x.extraCompileArgs, <<IF opt = "--compile-arg" THEN "" ELSE opt, v>>)
             E(x) == [extraCompileArgs |-> A(x)]
  <2>1. \A x : ValueEffect(opt, v, x) = {E(x)}
    BY <1>1, <1>4 DEF ValueEffect, OneKind
  <2> HIDE DEF A
  <2>2. \A x : DOMAIN E(x) \subseteq ListFields
    BY DEF ListFields
  <2> HIDE DEF E
  <2> QED BY <2>1, <2>2, OnlyLists
<1> QED BY <1>2, <1>3, <1>4 DEF ListOptions

LEMMA PlainEffectsAgree ==
  ASSUME NEW opt \in PlainOptions, NEW v, NEW c, NEW d
  PROVE  SameEffects(ValueEffect(opt, v, c), ValueEffect(opt, v, d))
<1>1. OneKind(opt)
  BY KindsAreDistinct
<1>2. opt \notin ListOptions /\ opt \notin SmtOptions
  BY OptionTables DEF PlainOptions, ListOptions, CompileOptions, CompdbOptions, SmtOptions
<1> DEFINE E(x) == ValueEffect(opt, v, x)
<1>3. E(c) = E(d)
  BY <1>1, <1>2 DEF ValueEffect, PlainOptions, ListOptions, OneKind
<1>4. AtMostOne(E(c))
  <2>1. CASE opt \in DOMAIN TextField
    <3>1. E(c) = {[f \in {TextField[opt]} |-> v]}
      BY <1>1, <2>1 DEF ValueEffect, OneKind
    <3> QED BY <3>1 DEF AtMostOne
  <2>2. CASE opt \in DOMAIN PathField
    <3>1. E(c) = {[f \in {PathField[opt]} |-> <<"", v>>]}
      BY <1>1, <2>2 DEF ValueEffect, OneKind
    <3> QED BY <3>1 DEF AtMostOne
  <2>3. CASE opt \in CompdbOptions
    <3>1. E(c) = {[compileCommandsPath |-> <<"", v>>, compileCommandsExplicit |-> TRUE]}
      BY <1>1, <2>3 DEF ValueEffect, OneKind
    <3> QED BY <3>1 DEF AtMostOne
  <2>4. CASE opt = "--stack-limit"
    <3>1. E(c) = {[stackLimit |-> n] : n \in ParseStackLimit(v)}
      BY <1>1, <1>2, <2>4 DEF ValueEffect, OneKind, ListOptions
    <3> HIDE DEF E
    <3> QED BY <3>1, ParsesToOne DEF AtMostOne
  <2>5. CASE opt = "--analysis-profile"
    <3>1. E(c) = {[profile |-> w, analysisProfileExplicit |-> TRUE] : w \in ParseWord(v, {"fast", "full"})}
      BY <1>1, <1>2, <2>5 DEF ValueEffect, OneKind, ListOptions
    <3> HIDE DEF E
    <3> QED BY <3>1, ParsesToOne DEF AtMostOne
  <2>6. CASE opt = "--jobs"
    <3>1. E(c) = ParseJobs(v)
      BY <1>1, <1>2, <2>6 DEF ValueEffect, OneKind, ListOptions
    <3> HIDE DEF E
    <3> QED BY <3>1, ParsesToOne
  <2>7. CASE opt = "--compile-ir-format"
    <3>1. E(c) = {[compileIRFormat |-> IRFormat(w)] : w \in ParseWord(v, {"bc", ".bc", "ll", ".ll"})}
      BY <1>1, <1>2, <2>7 DEF ValueEffect, OneKind, ListOptions
    <3> HIDE DEF E
    <3> QED BY <3>1, ParsesToOne DEF AtMostOne
  <2>8. CASE opt = "--mode"
    <3>1. E(c) = {[mode |-> w] : w \in {v} \cap {"ir", "abi"}}
      BY <1>1, <1>2, <2>8 DEF ValueEffect, OneKind, ListOptions
    <3> HIDE DEF E
    <3> QED BY <3>1 DEF AtMostOne
  <2> QED BY <2>1, <2>2, <2>3, <2>4, <2>5, <2>6, <2>7, <2>8 DEF PlainOptions
<1> QED BY <1>3, <1>4, FixedEffect

LEMMA SmtValueEffect ==
  ASSUME NEW opt \in SmtOptions, NEW v, NEW c
  PROVE  ValueEffect(opt, v, c) = SmtEffect(opt, v, c, "cli")
<1>1. opt \notin ListOptions /\ opt \notin PlainOptions
  BY OptionTables DEF SmtOptions, ListOptions, PlainOptions, CompileOptions, CompdbOptions
<1> QED BY <1>1 DEF ValueEffect, ListOptions, PlainOptions

LEMMA ValueEffectsAgree ==
  ASSUME NEW opt \in ValueOptions, NEW v, NEW c, NEW d
  PROVE  SameEffects(ValueEffect(opt, v, c), ValueEffect(opt, v, d))
<1>1. opt \in ListOptions \cup PlainOptions \cup SmtOptions
  BY DEF ValueOptions, ListOptions, PlainOptions
<1>2. CASE opt \in SmtOptions
  BY <1>2, SmtValueEffect, SmtEffectsAgree
<1> QED BY <1>1, <1>2, ListEffectsAgree, PlainEffectsAgree

LEMMA EntryEffectsAgree ==
  ASSUME NEW key, NEW text, NEW dir, NEW c, NEW d
  PROVE  SameEffects(EntryEffect(key, text, dir, c), EntryEffect(key, text, dir, d))
<1> DEFINE k == Fold(key)
           v == IF text \in DOMAIN Unquoted THEN Unquoted[text] ELSE text
           opt == KeyOption[k]
           E(x) == EntryEffect(key, text, dir, x)
<1>0. OneKind(opt) /\ DOMAIN BoolKey \cap DOMAIN KeyOption = {} /\ "--compdb" \in CompdbOptions
  <2>1. DOMAIN BoolKey \cap DOMAIN KeyOption = {}
    BY DEF BoolKey, KeyOption
  <2> QED BY <2>1, KindsAreDistinct DEF CompdbOptions
<1>1. CASE k \in DOMAIN BoolKey
  <2>0. k \notin DOMAIN KeyOption
    BY <1>0, <1>1
  <2>1. \A x : E(x) = {[f \in {BoolKey[k]} |-> b] : b \in ParseBool(v)}
    BY <1>1, <2>0 DEF EntryEffect
  <2>2. AtMostOne(E(c)) /\ E(c) = E(d)
    <3> HIDE DEF E, k, v
    <3> QED BY <2>1, ParsesToOne DEF AtMostOne
  <2> QED BY <2>2, FixedEffect
<1>2. CASE k \notin DOMAIN BoolKey \cup DOMAIN KeyOption
  <2>1. \A x : E(x) = {}
    BY <1>2 DEF EntryEffect
  <2> QED BY <2>1 DEF SameEffects
<1>3. CASE k \notin DOMAIN BoolKey /\ k \in DOMAIN KeyOption
  <2>1. opt \in ValueOptions
    BY <1>3, OptionTables DEF KeyOption, ValueOptions, CompdbOptions, SmtOptions
  <2>2. CASE opt \in DOMAIN PathField
    <3>1. \A x : E(x) = {[f \in {PathField[opt]} |-> FromConfig(v, dir)]}
      BY <1>0, <1>3, <2>2 DEF EntryEffect, OneKind
    <3>2. AtMostOne(E(c)) /\ E(c) = E(d)
      <4> HIDE DEF E, opt, v
      <4> QED BY <3>1 DEF AtMostOne
    <3> QED BY <3>2, FixedEffect
  <2>3. CASE opt \notin DOMAIN PathField /\ opt = "--compdb"
    <3>1. \A x : E(x) = {[compileCommandsPath |-> FromConfig(v, dir), compileCommandsExplicit |-> TRUE]}
      BY <1>0, <1>3, <2>3 DEF EntryEffect, OneKind
    <3>2. AtMostOne(E(c)) /\ E(c) = E(d)
      <4> HIDE DEF E, opt, v
      <4> QED BY <3>1 DEF AtMostOne
    <3> QED BY <3>2, FixedEffect
  <2>4. CASE opt \notin DOMAIN PathField /\ opt # "--compdb" /\ opt \in SmtOptions
    <3>1. \A x : E(x) = SmtEffect(opt, v, x, "config")
      BY <1>3, <2>4 DEF EntryEffect
    <3> QED BY <3>1, <2>4, SmtEffectsAgree
  <2>5. CASE opt \notin DOMAIN PathField /\ opt # "--compdb" /\ opt \notin SmtOptions
    <3>1. \A x : E(x) = ValueEffect(opt, v, x)
      BY <1>3, <2>5 DEF EntryEffect
    <3> QED BY <3>1, <2>1, ValueEffectsAgree
  <2> QED BY <2>2, <2>3, <2>4, <2>5
<1> QED BY <1>1, <1>2, <1>3

-----------------------------------------------------------------------------
\* Only --config sets the recorded path, only --exclude-dir the excluded directories,
\* and a flag is no option with a value.

LEMMA FlagsAreNoOptions == Flags \cap ValueOptions = {}
BY OptionTables DEF Flags, ValueOptions, CompdbOptions, CompileOptions, SmtOptions

\* The fields that one option sets and no other.
OwnFields == {"configPath", "excludeDirs", "inputFilenames"}

LEMMA FlagsKeep ==
  ASSUME NEW flag \in Flags
  PROVE  \A f \in OwnFields : f \notin DOMAIN FlagEffect(flag)
BY DEF Flags, FlagEffect, OwnFields

LEMMA ConfigSetsPath ==
  ASSUME NEW v, NEW c, NEW e \in ValueEffect("--config", v, c)
  PROVE  "configPath" \in DOMAIN e /\ e["configPath"] = v
<1>1. "--config" \in DOMAIN TextField /\ TextField["--config"] = "configPath"
  BY DEF TextField
<1>2. OneKind("--config")
  BY KindsAreDistinct
<1>3. ValueEffect("--config", v, c) = {[f \in {TextField["--config"]} |-> v]}
  BY <1>1, <1>2 DEF ValueEffect, OneKind
<1> QED BY <1>1, <1>3

LEMMA SmtKeeps ==
  ASSUME NEW opt \in SmtOptions, NEW v, NEW c, NEW source \in {"cli", "config"},
         NEW e \in SmtEffect(opt, v, c, source), NEW f \in OwnFields
  PROVE  f \notin DOMAIN e
<1>0. f \in {"configPath", "excludeDirs", "inputFilenames"}
  BY DEF OwnFields
<1>1. CASE opt = "--smt"
  <2>1. \E w : e = [smtEnabled |-> w]
    BY <1>1 DEF SmtEffect
  <2> QED BY <1>0, <2>1
<1>2. CASE opt = "--smt-rules"
  <2>1. \E r : e = Updated([smtEnabled |-> TRUE], [smtRules |-> r])
    BY <1>2 DEF SmtEffect, Enables
  <2> QED BY <1>0, <2>1 DEF Updated
<1>3. CASE opt = "--smt-backend"
  BY <1>0, <1>3 DEF SmtEffect, Enables, Updated
<1>4. CASE opt = "--smt-secondary-backend"
  BY <1>0, <1>4 DEF SmtEffect, Enables, Updated
<1>5. CASE opt = "--smt-mode"
  <2>1. \E w : e = Updated([smtEnabled |-> TRUE], [smtMode |-> w])
    BY <1>5 DEF SmtEffect, Enables
  <2> QED BY <1>0, <2>1 DEF Updated
<1>6. CASE opt = "--smt-timeout-ms"
  <2>1. \E w : e = Updated([smtEnabled |-> TRUE], [smtTimeoutMs |-> w])
    BY <1>6 DEF SmtEffect, Enables
  <2> QED BY <1>0, <2>1 DEF Updated
<1>7. CASE opt = "--smt-budget-nodes"
  <2>1. \E w : e = Updated([smtEnabled |-> TRUE], [smtBudgetNodes |-> w])
    BY <1>7 DEF SmtEffect, Enables
  <2> QED BY <1>0, <2>1 DEF Updated
<1> QED BY <1>1, <1>2, <1>3, <1>4, <1>5, <1>6, <1>7 DEF SmtOptions

LEMMA OthersKeep ==
  ASSUME NEW opt \in ValueOptions, NEW v, NEW c, NEW e \in ValueEffect(opt, v, c),
         NEW f \in OwnFields, f = "configPath" => opt # "--config",
         f = "excludeDirs" => opt # "--exclude-dir"
  PROVE  f \notin DOMAIN e
<1>0. OneKind(opt) /\ f \in {"configPath", "excludeDirs", "inputFilenames"}
  BY KindsAreDistinct DEF OwnFields
<1>1. CASE opt \in DOMAIN TextField
  <2>1. TextField[opt] # f
    BY <1>0, <1>1, OptionTables DEF TextField
  <2>2. e \in {[g \in {TextField[opt]} |-> v]}
    BY <1>0, <1>1 DEF ValueEffect, OneKind
  <2> QED BY <2>1, <2>2
<1>2. CASE opt \in DOMAIN PathField
  <2>1. PathField[opt] # f
    BY <1>0, <1>2, OptionTables DEF PathField
  <2>2. e \in {[g \in {PathField[opt]} |-> <<"", v>>]}
    BY <1>0, <1>2 DEF ValueEffect, OneKind
  <2> QED BY <2>1, <2>2
<1>3. CASE opt \in CompdbOptions
  <2>1. e = [compileCommandsPath |-> <<"", v>>, compileCommandsExplicit |-> TRUE]
    BY <1>0, <1>3 DEF ValueEffect, OneKind
  <2> QED BY <1>0, <2>1
<1>4. CASE opt \in DOMAIN ListField
  <2>1. e \in {[g \in {ListField[opt]} |-> Append(c[g], v)]}
    BY <1>0, <1>4 DEF ValueEffect, OneKind
  <2>2. ListField[opt] # f
    BY <1>0, <1>4, OptionTables DEF ListField
  <2> QED BY <2>1, <2>2
<1>5. CASE opt \in DOMAIN CsvField
  <2>1. e \in {[g \in {CsvField[opt]} |-> c[g] \o Csv(v)]}
    BY <1>0, <1>5 DEF ValueEffect, OneKind
  <2>2. CsvField[opt] # f
    BY <1>0, <1>5, OptionTables DEF CsvField
  <2> QED BY <2>1, <2>2
<1>6. CASE opt \in CompileOptions
  <2> DEFINE A == Append(c.extraCompileArgs, <<IF opt = "--compile-arg" THEN "" ELSE opt, v>>)
  <2>1. e \in {[extraCompileArgs |-> A]}
    BY <1>0, <1>6 DEF ValueEffect, OneKind
  <2> HIDE DEF A
  <2> QED BY <1>0, <2>1
<1>7. CASE opt = "--stack-limit"
  BY <1>0, <1>7 DEF ValueEffect, OneKind
<1>8. CASE opt = "--analysis-profile"
  BY <1>0, <1>8 DEF ValueEffect, OneKind
<1>9. CASE opt = "--jobs"
  <2>1. e \in ParseJobs(v)
    BY <1>0, <1>9 DEF ValueEffect, OneKind
  <2> QED BY <1>0, <2>1 DEF ParseJobs
<1>10. CASE opt = "--compile-ir-format"
  BY <1>0, <1>10 DEF ValueEffect, OneKind
<1>11. CASE opt = "--mode"
  BY <1>0, <1>11 DEF ValueEffect, OneKind
<1>12. CASE opt \in SmtOptions
  BY <1>12, SmtValueEffect, SmtKeeps
<1> QED
  BY <1>1, <1>2, <1>3, <1>4, <1>5, <1>6, <1>7, <1>8, <1>9, <1>10, <1>11, <1>12 DEF ValueOptions

-----------------------------------------------------------------------------
\* The inductive invariant.

Live == {"scan", "config", "args", "ok"}

PlainFields == ScalarFields \ {"configPath", "printEffectiveConfig"}

\* The readings stand where the cut lets them.
CliTypeOK ==
  /\ argv \in Commands
  /\ pos \in Nat /\ pos >= 1
  /\ DOMAIN DefaultConfig \subseteq DOMAIN cfg
  /\ phase = "config" => meta \in DOMAIN ConfigLines
  /\ phase = "args" => pos \in Heads
  /\ phase = "ok" => pos > Len(argv)

\* The places that have been read.
Past(p) ==
  \/ p[1] = 1 /\ (phase \in {"args", "ok"} \/ (phase = "config" /\ p[2] < pos))
  \/ p[1] = 2 /\ phase \in {"args", "ok"} /\ p[2] < pos

DoneSetters(f) == {p \in Setters(f, Heads) : Past(p)}

\* A field holds what the latest of them that sets it said.
LatestRules(f) ==
  \/ DoneSetters(f) = {} /\ cfg[f] = DefaultConfig[f]
  \/ \E p \in DoneSetters(f) :
       (\A q \in DoneSetters(f) : Later(p, q)) /\ cfg[f] = EffectOf(p)[f]

ConfigAt(i) == i \in 1 .. Len(argv) /\ OptionAt(i) = "--config"

\* v is the value of the last --config before n, or w if there is none.
LastConfig(n, v, w) ==
  \/ v = w /\ \A i \in Nat : i < n => ~ConfigAt(i)
  \/ \E i \in Nat :
       /\ i < n /\ ConfigAt(i) /\ v = ValueAt(i)
       /\ \A j \in Nat : j < n /\ ConfigAt(j) => j <= i

\* Where no --config is hidden both readings know the same ones.
PathIInv ==
  HiddenConfigs = {} =>
    /\ phase = "scan" => LastConfig(pos, meta, "") /\ cfg.configPath = ""
    /\ phase \in {"config", "args", "ok"} => LastConfig(Len(argv) + 1, meta, "")
    /\ phase \in {"args", "ok"} => LastConfig(pos, cfg.configPath, meta)

CliIInv ==
  /\ CliTypeOK
  /\ phase \in Live => \A f \in PlainFields : LatestRules(f)
  /\ PathIInv

-----------------------------------------------------------------------------
\* Steps leave the arguments alone.

LEMMA ArgumentsStay ==
  ASSUME UNCHANGED argv
  PROVE  /\ \A i : SplitAt(i)' = SplitAt(i)
         /\ Heads' = Heads /\ HiddenConfigs' = HiddenConfigs
         /\ \A i : ConfigAt(i)' = ConfigAt(i) /\ ValueAt(i)' = ValueAt(i)
         /\ \A i : SetBy(i)' = SetBy(i)
<1>1. \A i : /\ OptionAt(i)' = OptionAt(i) /\ HasInline(i)' = HasInline(i)
             /\ ValueAt(i)' = ValueAt(i) /\ Missing(i)' = Missing(i)
             /\ IsFlag(i)' = IsFlag(i)
  BY DEF OptionAt, HasInline, ValueAt, Missing, IsFlag
<1>2. \A i : TakesValue(i)' = TakesValue(i) /\ Width(i)' = Width(i)
  BY <1>1 DEF TakesValue, Width
<1>3. \A i : SplitAt(i)' = SplitAt(i)
  BY <1>2 DEF SplitAt
<1>4. \A S : IsCut(S)' = IsCut(S)
  BY <1>3 DEF IsCut
<1>5. Heads' = Heads
  BY <1>4 DEF Heads
<1>6. HiddenConfigs' = HiddenConfigs
  BY <1>1, <1>5 DEF HiddenConfigs
<1>7. \A i : SetBy(i)' = SetBy(i)
  BY <1>1, <1>2 DEF SetBy
<1> QED BY <1>1, <1>3, <1>5, <1>6, <1>7 DEF ConfigAt

LEMMA PlacesStay ==
  ASSUME UNCHANGED <<argv, meta>>
  PROVE  /\ \A f : Setters(f, Heads)' = Setters(f, Heads)
         /\ \A p : EffectOf(p)' = EffectOf(p)
<1>1. Heads' = Heads /\ \A i : SetBy(i)' = SetBy(i)
  BY ArgumentsStay
<1>2. \A j : SetByLine(j)' = SetByLine(j)
  BY DEF SetByLine
<1> QED BY <1>1, <1>2 DEF Setters, EffectOf

LEMMA ArgvIsSeq ==
  ASSUME CliInputs, CliTypeOK
  PROVE  argv \in Seq(STRING) /\ Len(argv) \in Nat
<1>1. argv \in Seq(STRING)
  BY DEF CliInputs, CliTypeOK
<1> QED BY <1>1

(* How the second reading goes on from a head.                             *)
LEMMA WidthIsSplit ==
  ASSUME CliInputs, CliTypeOK, phase = "args", pos <= Len(argv)
  PROVE  /\ TakesValue(pos) => pos + Width(pos) \in Heads
         /\ TakesValue(pos) /\ Width(pos) = 2 => pos + 1 \notin Heads
         /\ ~TakesValue(pos) => pos + 1 \in Heads
         /\ Width(pos) \in {1, 2}
<1>1. pos \in Heads \cap 1 .. Len(argv)
  BY ArgvIsSeq DEF CliTypeOK
<1>2. IF SplitAt(pos) THEN pos + 2 \in Heads /\ pos + 1 \notin Heads ELSE pos + 1 \in Heads
  BY <1>1, ArgvIsSeq, NextHead
<1>3. Width(pos) \in {1, 2}
  BY DEF Width
<1> QED BY <1>2, <1>3 DEF SplitAt

LEMMA FlagTakesNoValue ==
  ASSUME CliInputs, NEW i, IsFlag(i)
  PROVE  ~TakesValue(i) /\ OptionAt(i) = argv[i] /\ OptionAt(i) # "--config"
<1>1. argv[i] \in Flags /\ argv[i] \notin DOMAIN Inline
  BY DEF IsFlag, CliInputs
<1>2. OptionAt(i) = argv[i]
  BY <1>1 DEF OptionAt
<1>3. "--config" \in ValueOptions
  BY OptionTables DEF ValueOptions
<1> QED BY <1>1, <1>2, <1>3, FlagsAreNoOptions DEF TakesValue

LEMMA UpdatedField ==
  ASSUME NEW c, NEW e, DOMAIN DefaultConfig \subseteq DOMAIN c
  PROVE  /\ DOMAIN DefaultConfig \subseteq DOMAIN Updated(c, e)
         /\ \A f \in DOMAIN DefaultConfig :
              Updated(c, e)[f] = IF f \in DOMAIN e THEN e[f] ELSE c[f]
BY DEF Updated

-----------------------------------------------------------------------------
LEMMA TypeInit == CliInputs /\ CliInit => CliTypeOK
<1> SUFFICES ASSUME CliInit PROVE CliTypeOK
  OBVIOUS
<1>1. argv \in Commands /\ pos = 1 /\ phase = "scan" /\ cfg = DefaultConfig
  BY DEF CliInit
<1> QED BY <1>1 DEF CliTypeOK

LEMMA TypeStep ==
  ASSUME CliInputs, CliTypeOK, CliNext
  PROVE  CliTypeOK'
<1>0. /\ argv \in Commands /\ pos \in Nat /\ pos >= 1
      /\ DOMAIN DefaultConfig \subseteq DOMAIN cfg
      /\ Len(argv) \in Nat /\ UNCHANGED argv
  BY ArgvIsSeq DEF CliTypeOK, CliNext, ScanMeta, OpenConfig, ConfigLine, CloseConfig, AskHelp,
                   SetFlag, SetValue, Reject, AddInput, Accept
<1>1. Heads' = Heads
  BY <1>0, ArgumentsStay
<1>2. 1 \in Heads
  BY <1>0, HeadsAreCut DEF IsCut
<1>3. CASE ScanMeta
  <2>1. DOMAIN cfg' = DOMAIN cfg /\ phase' \in {"scan", "error"}
    BY <1>3 DEF ScanMeta, Goto
  <2>2. pos' \in Nat /\ pos' >= 1
    BY <1>0, <1>3 DEF ScanMeta, Goto, Width
  <2> QED BY <1>0, <2>1, <2>2 DEF CliTypeOK
<1>4. CASE OpenConfig
  <2>1. /\ \/ phase' = "args" /\ pos' = 1
           \/ phase' = "error" /\ pos' = pos
           \/ phase' = "config" /\ pos' = 1 /\ meta \in DOMAIN ConfigLines
        /\ UNCHANGED <<argv, meta, cfg>>
    BY <1>4 DEF OpenConfig, Goto
  <2> QED BY <1>0, <1>1, <1>2, <2>1 DEF CliTypeOK
<1>5. CASE ConfigLine
  <2>1. DOMAIN DefaultConfig \subseteq DOMAIN cfg'
    <3>1. cfg' = cfg \/ \E e : cfg' = Updated(cfg, e)
      BY <1>5 DEF ConfigLine
    <3> QED BY <1>0, <3>1, UpdatedField
  <2>2. phase' \in {"config", "error"} /\ phase = "config" /\ pos' \in {pos, pos + 1} /\ meta' = meta
    BY <1>5 DEF ConfigLine, Goto
  <2> QED BY <1>0, <2>1, <2>2 DEF CliTypeOK
<1>6. CASE CloseConfig
  <2>1. DOMAIN cfg' = DOMAIN cfg
    BY <1>6 DEF CloseConfig
  <2> QED BY <1>0, <1>1, <1>2, <1>6, <2>1 DEF CliTypeOK, CloseConfig, Goto
<1>7. CASE AskHelp
  BY <1>0, <1>7 DEF CliTypeOK, AskHelp, Goto
<1>8. CASE SetFlag
  <2>1. DOMAIN DefaultConfig \subseteq DOMAIN cfg'
    BY <1>0, <1>8, UpdatedField DEF SetFlag
  <2>2. phase' = "args" /\ pos' = pos + 1 /\ pos + 1 \in Heads
    BY <1>8, WidthIsSplit, FlagTakesNoValue DEF SetFlag, Goto
  <2> QED BY <1>0, <1>1, <2>1, <2>2 DEF CliTypeOK
<1>9. CASE SetValue
  <2>1. DOMAIN DefaultConfig \subseteq DOMAIN cfg'
    <3>1. \E e : cfg' = Updated(cfg, e)
      BY <1>9 DEF SetValue
    <3> QED BY <1>0, <3>1, UpdatedField
  <2>2. phase' = "args" /\ pos' = pos + Width(pos) /\ pos + Width(pos) \in Heads
    BY <1>9, WidthIsSplit DEF SetValue, Goto
  <2>3. Width(pos) \in {1, 2}
    BY DEF Width
  <2> QED BY <1>0, <1>1, <2>1, <2>2, <2>3 DEF CliTypeOK
<1>10. CASE Reject
  BY <1>0, <1>10 DEF CliTypeOK, Reject, Goto
<1>11. CASE AddInput
  <2>1. DOMAIN cfg' = DOMAIN cfg
    BY <1>11 DEF AddInput
  <2>2. phase' = "args" /\ pos' = pos + 1 /\ pos + 1 \in Heads
    BY <1>11, WidthIsSplit DEF AddInput, Goto
  <2> QED BY <1>0, <1>1, <2>1, <2>2 DEF CliTypeOK
<1>12. CASE Accept
  BY <1>0, <1>12 DEF CliTypeOK, Accept, Goto
<1> QED
  BY <1>3, <1>4, <1>5, <1>6, <1>7, <1>8, <1>9, <1>10, <1>11, <1>12 DEF CliNext

-----------------------------------------------------------------------------
\* The latest place rules.

LEMMA SettersShape ==
  ASSUME NEW f, NEW p
  PROVE  p \in Setters(f, Heads) <=>
           \/ \E i \in Heads \cap 1 .. Len(argv) :
                p = <<2, i>> /\ \E e \in SetBy(i) : f \in DOMAIN e
           \/ /\ meta \in DOMAIN ConfigLines
              /\ \E j \in 1 .. Len(ConfigLines[meta]) :
                   p = <<1, j>> /\ \E e \in SetByLine(j) : f \in DOMAIN e
BY DEF Setters

LEMMA LatestStays ==
  ASSUME UNCHANGED <<argv, meta>>, NEW f, LatestRules(f),
         DoneSetters(f)' = DoneSetters(f), cfg'[f] = cfg[f]
  PROVE  LatestRules(f)'
<1>1. \A p : EffectOf(p)' = EffectOf(p)
  BY PlacesStay
<1>2. CASE DoneSetters(f) = {} /\ cfg[f] = DefaultConfig[f]
  BY <1>2 DEF LatestRules
<1>3. CASE \E p \in DoneSetters(f) :
             (\A q \in DoneSetters(f) : Later(p, q)) /\ cfg[f] = EffectOf(p)[f]
  <2>1. PICK p \in DoneSetters(f) :
          (\A q \in DoneSetters(f) : Later(p, q)) /\ cfg[f] = EffectOf(p)[f]
    BY <1>3
  <2>2. p \in DoneSetters(f)' /\ (\A q \in DoneSetters(f)' : Later(p, q)) /\ cfg'[f] = EffectOf(p)'[f]
    BY <1>1, <2>1
  <2> QED BY <2>2 DEF LatestRules
<1> QED BY <1>2, <1>3 DEF LatestRules

(* An effect is applied for the place p, later than all others, which sets *)
(* what the effects S set on the default configuration.                    *)
LEMMA LatestMoves ==
  ASSUME CliTypeOK, UNCHANGED <<argv, meta>>, NEW f \in PlainFields, LatestRules(f),
         NEW T, NEW e \in T, cfg' = Updated(cfg, e),
         NEW S, NEW p, SameEffects(T, S), EffectOf(p) = CHOOSE d \in S : TRUE,
         DoneSetters(f)' = DoneSetters(f) \cup (IF \E d \in S : f \in DOMAIN d THEN {p} ELSE {}),
         \A q \in DoneSetters(f) \cup {p} : Later(p, q)
  PROVE  LatestRules(f)'
<1>1. \A q : EffectOf(q)' = EffectOf(q)
  BY PlacesStay
<1>2. EffectOf(p) \in S /\ \A d \in S : AgreeOn(e, d)
  BY DEF SameEffects
<1>3. f \in ScalarFields /\ f \in DOMAIN DefaultConfig
  BY DEF PlainFields, ScalarFields
<1>4. cfg'[f] = IF f \in DOMAIN e THEN e[f] ELSE cfg[f]
  BY <1>3, UpdatedField DEF CliTypeOK
<1>5. CASE f \in DOMAIN e
  <2>1. f \in DOMAIN EffectOf(p) /\ e[f] = EffectOf(p)[f]
    BY <1>2, <1>3, <1>5 DEF AgreeOn
  <2>2. DoneSetters(f)' = DoneSetters(f) \cup {p}
    BY <1>2, <2>1
  <2>3. p \in DoneSetters(f)' /\ (\A q \in DoneSetters(f)' : Later(p, q)) /\ cfg'[f] = EffectOf(p)'[f]
    BY <1>1, <1>4, <1>5, <2>1, <2>2
  <2> QED BY <2>3 DEF LatestRules
<1>6. CASE f \notin DOMAIN e
  <2>1. ~ \E d \in S : f \in DOMAIN d
    BY <1>2, <1>3, <1>6 DEF AgreeOn
  <2>2. DoneSetters(f)' = DoneSetters(f) /\ cfg'[f] = cfg[f]
    BY <2>1, <1>4, <1>6
  <2> QED BY <2>2, LatestStays
<1> QED BY <1>5, <1>6

(* The argument at a head has been read.                                   *)
LEMMA ArgumentRead ==
  ASSUME CliInputs, CliTypeOK, UNCHANGED <<argv, meta>>, NEW f,
         phase = "args", pos <= Len(argv), phase' = "args",
         pos' = pos + 1 \/ (pos' = pos + 2 /\ pos + 1 \notin Heads)
  PROVE  /\ DoneSetters(f)' = DoneSetters(f)
              \cup (IF \E d \in SetBy(pos) : f \in DOMAIN d THEN {<<2, pos>>} ELSE {})
         /\ \A q \in DoneSetters(f) \cup {<<2, pos>>} : Later(<<2, pos>>, q)
<1>0. /\ pos \in Nat /\ pos >= 1 /\ pos \in Heads /\ Len(argv) \in Nat
      /\ pos \in Heads \cap 1 .. Len(argv)
      /\ Heads \in SUBSET (1 .. Len(argv) + 2)
  BY ArgvIsSeq, HeadsAreCut DEF CliTypeOK
<1>1. Setters(f, Heads)' = Setters(f, Heads)
  BY PlacesStay
<1>2. <<2, pos>> \in Setters(f, Heads) <=> \E d \in SetBy(pos) : f \in DOMAIN d
  <2>1. ASSUME NEW i, <<2, pos>> = <<2, i>> PROVE i = pos
    BY <2>1
  <2>2. ASSUME NEW j, <<2, pos>> = <<1, j>> PROVE FALSE
    BY <2>2
  <2> QED BY <1>0, <2>1, <2>2, SettersShape
<1>3. ASSUME NEW p \in Setters(f, Heads)
      PROVE  Past(p)' <=> Past(p) \/ p = <<2, pos>>
  <2>1. CASE \E i \in Heads \cap 1 .. Len(argv) : p = <<2, i>>
    <3>1. PICK i \in Heads \cap 1 .. Len(argv) : p = <<2, i>>
      BY <2>1
    <3>2. i \in Nat /\ (i # pos + 1 \/ pos' = pos + 1)
      BY <1>0, <3>1
    <3>3. Past(p)' <=> i < pos'
      BY <3>1 DEF Past
    <3>4. Past(p) <=> i < pos
      BY <3>1 DEF Past
    <3>5. p = <<2, pos>> <=> i = pos
      BY <3>1
    <3>6. i \in Nat
      BY <1>0, <3>1
    <3> QED BY <1>0, <3>2, <3>3, <3>4, <3>5, <3>6
  <2>2. CASE \E j : p = <<1, j>>
    BY <2>2 DEF Past
  <2> QED BY <2>1, <2>2, SettersShape
<1>4. \A p : p \in DoneSetters(f)' <=> p \in Setters(f, Heads) /\ Past(p)'
  BY <1>1 DEF DoneSetters
<1>5. ASSUME NEW q \in DoneSetters(f) PROVE Later(<<2, pos>>, q)
  <2>1. q \in Setters(f, Heads) /\ Past(q)
    BY DEF DoneSetters
  <2>2. CASE \E i \in Heads \cap 1 .. Len(argv) : q = <<2, i>>
    <3>1. PICK i \in Heads \cap 1 .. Len(argv) : q = <<2, i>>
      BY <2>2
    <3>2. i \in Nat /\ i < pos
      BY <1>0, <2>1, <3>1 DEF Past
    <3> QED BY <1>0, <3>1, <3>2 DEF Later
  <2>3. CASE \E j : q = <<1, j>>
    BY <2>3 DEF Later
  <2> QED BY <2>1, <2>2, <2>3, SettersShape
<1>6. Later(<<2, pos>>, <<2, pos>>)
  BY <1>0 DEF Later
<1>7. \A p : p \in DoneSetters(f) <=> p \in Setters(f, Heads) /\ Past(p)
  BY DEF DoneSetters
<1> QED BY <1>2, <1>3, <1>4, <1>5, <1>6, <1>7

(* The line of the configuration file has been read.                       *)
LEMMA LineRead ==
  ASSUME CliInputs, CliTypeOK, UNCHANGED <<argv, meta>>, NEW f,
         phase = "config", pos <= Len(ConfigLines[meta]), phase' = "config", pos' = pos + 1
  PROVE  /\ DoneSetters(f)' = DoneSetters(f)
              \cup (IF \E d \in SetByLine(pos) : f \in DOMAIN d THEN {<<1, pos>>} ELSE {})
         /\ \A q \in DoneSetters(f) \cup {<<1, pos>>} : Later(<<1, pos>>, q)
<1>0. /\ pos \in Nat /\ pos >= 1 /\ meta \in DOMAIN ConfigLines
      /\ Len(ConfigLines[meta]) \in Nat /\ pos \in 1 .. Len(ConfigLines[meta])
  <2>1. pos \in Nat /\ pos >= 1 /\ meta \in DOMAIN ConfigLines
    BY DEF CliTypeOK
  <2>2. Len(ConfigLines[meta]) \in Nat
    BY <2>1 DEF CliInputs
  <2> QED BY <2>1, <2>2
<1>1. Setters(f, Heads)' = Setters(f, Heads)
  BY PlacesStay
<1>2. <<1, pos>> \in Setters(f, Heads) <=> \E d \in SetByLine(pos) : f \in DOMAIN d
  <2>1. ASSUME NEW j, <<1, pos>> = <<1, j>> PROVE j = pos
    BY <2>1
  <2>2. ASSUME NEW i, <<1, pos>> = <<2, i>> PROVE FALSE
    BY <2>2
  <2> QED BY <1>0, <2>1, <2>2, SettersShape
<1>3. ASSUME NEW p \in Setters(f, Heads)
      PROVE  Past(p)' <=> Past(p) \/ p = <<1, pos>>
  <2>1. CASE \E j \in 1 .. Len(ConfigLines[meta]) : p = <<1, j>>
    <3>1. PICK j \in 1 .. Len(ConfigLines[meta]) : p = <<1, j>>
      BY <2>1
    <3>2. j \in Nat
      BY <1>0, <3>1
    <3>3. Past(p)' <=> j < pos'
      BY <3>1 DEF Past
    <3>4. Past(p) <=> j < pos
      BY <3>1 DEF Past
    <3>5. p = <<1, pos>> <=> j = pos
      BY <3>1
    <3> QED BY <1>0, <3>2, <3>3, <3>4, <3>5
  <2>2. CASE \E i : p = <<2, i>>
    BY <2>2 DEF Past
  <2> QED BY <2>1, <2>2, SettersShape
<1>4. \A p : p \in DoneSetters(f)' <=> p \in Setters(f, Heads) /\ Past(p)'
  BY <1>1 DEF DoneSetters
<1>5. ASSUME NEW q \in DoneSetters(f) PROVE Later(<<1, pos>>, q)
  <2>1. q \in Setters(f, Heads) /\ Past(q)
    BY DEF DoneSetters
  <2>2. CASE \E j \in 1 .. Len(ConfigLines[meta]) : q = <<1, j>>
    <3>1. PICK j \in 1 .. Len(ConfigLines[meta]) : q = <<1, j>>
      BY <2>2
    <3>2. j \in Nat /\ j < pos
      BY <1>0, <2>1, <3>1 DEF Past
    <3> QED BY <1>0, <3>1, <3>2 DEF Later
  <2>3. CASE \E i : q = <<2, i>>
    BY <2>1, <2>3 DEF Past
  <2> QED BY <2>1, <2>2, <2>3, SettersShape
<1>6. Later(<<1, pos>>, <<1, pos>>)
  BY <1>0 DEF Later
<1>7. \A p : p \in DoneSetters(f) <=> p \in Setters(f, Heads) /\ Past(p)
  BY DEF DoneSetters
<1> QED BY <1>2, <1>3, <1>4, <1>5, <1>6, <1>7

LEMMA NothingDone ==
  ASSUME NEW f
  PROVE  /\ phase = "scan" => DoneSetters(f) = {}
         /\ phase' = "scan" => DoneSetters(f)' = {}
BY DEF DoneSetters, Past

LEMMA LatestInit ==
  ASSUME CliInit, NEW f \in PlainFields
  PROVE  LatestRules(f)
BY NothingDone DEF CliInit, LatestRules

LEMMA LatestStep ==
  ASSUME CliInputs, CliTypeOK, NEW f \in PlainFields, LatestRules(f), CliNext, phase' \in Live
  PROVE  LatestRules(f)'
<1>0. /\ f \in ScalarFields /\ f \in DOMAIN DefaultConfig
      /\ f # "configPath" /\ f # "printEffectiveConfig" /\ f # "inputFilenames"
  BY DEF PlainFields, ScalarFields, ListFields
<1>1. pos \in Nat /\ pos >= 1 /\ f \in DOMAIN cfg /\ Len(argv) \in Nat
  BY <1>0, ArgvIsSeq DEF CliTypeOK
<1>2. CASE ScanMeta
  <2>1. phase = "scan" /\ phase' = "scan"
    BY <1>2 DEF ScanMeta, Goto, Live
  <2>2. cfg'[f] = cfg[f]
    BY <1>0, <1>1, <1>2 DEF ScanMeta
  <2>3. DoneSetters(f) = {} /\ DoneSetters(f)' = {}
    BY <2>1, NothingDone
  <2>4. cfg[f] = DefaultConfig[f]
    BY <2>3 DEF LatestRules
  <2> QED BY <2>2, <2>3, <2>4 DEF LatestRules
<1>3. CASE OpenConfig
  <2>1. phase = "scan" /\ pos' = 1 /\ UNCHANGED <<argv, meta, cfg>>
        /\ (phase' = "config" \/ (phase' = "args" /\ meta \notin DOMAIN ConfigLines))
    BY <1>3 DEF OpenConfig, Goto, Live, CliInputs
  <2>2. DoneSetters(f) = {}
    BY <2>1, NothingDone
  <2>3. ASSUME NEW p \in Setters(f, Heads) PROVE ~Past(p)'
    <3>1. CASE \E i \in Heads \cap 1 .. Len(argv) : p = <<2, i>>
      <4>1. PICK i \in Heads \cap 1 .. Len(argv) : p = <<2, i>>
        BY <3>1
      <4>2. i \in Nat /\ i >= 1
        BY <1>1, <4>1
      <4> QED BY <2>1, <4>1, <4>2 DEF Past
    <3>2. CASE /\ meta \in DOMAIN ConfigLines
               /\ \E j \in 1 .. Len(ConfigLines[meta]) : p = <<1, j>>
      <4>1. PICK j \in 1 .. Len(ConfigLines[meta]) : p = <<1, j>>
        BY <3>2
      <4>2. j >= 1 /\ phase' = "config"
        BY <2>1, <3>2, <4>1
      <4> QED BY <2>1, <4>1, <4>2 DEF Past
    <3> QED BY <3>1, <3>2, SettersShape
  <2>4. DoneSetters(f)' = {}
    BY <2>1, <2>3, PlacesStay DEF DoneSetters
  <2> QED BY <2>1, <2>2, <2>4, LatestStays
<1>4. CASE ConfigLine
  <2> DEFINE line == ConfigLines[meta][pos]
             T == EntryEffect(line.key, line.value, ConfigDir[meta], cfg)
             S == SetByLine(pos)
  <2>1. /\ phase = "config" /\ pos <= Len(ConfigLines[meta]) /\ phase' = "config" /\ pos' = pos + 1
        /\ UNCHANGED <<argv, meta>>
    BY <1>4 DEF ConfigLine, Goto, Live
  <2>2. /\ DoneSetters(f)' = DoneSetters(f) \cup (IF \E d \in S : f \in DOMAIN d THEN {<<1, pos>>} ELSE {})
        /\ \A q \in DoneSetters(f) \cup {<<1, pos>>} : Later(<<1, pos>>, q)
    BY <2>1, LineRead
  <2>3. CASE line.kind = "comment" /\ UNCHANGED cfg
    <3>1. S = {}
      BY <2>3 DEF SetByLine
    <3> QED BY <2>1, <2>2, <2>3, <3>1, LatestStays
  <2>4. CASE line.kind = "entry" /\ \E e \in T : cfg' = Updated(cfg, e)
    <3>1. PICK e \in T : cfg' = Updated(cfg, e)
      BY <2>4
    <3>2. S = EntryEffect(line.key, line.value, ConfigDir[meta], DefaultConfig)
      BY <2>4 DEF SetByLine
    <3>3. SameEffects(T, S)
      BY <3>2, EntryEffectsAgree
    <3>4. EffectOf(<<1, pos>>) = CHOOSE d \in S : TRUE
      BY DEF EffectOf
    <3> HIDE DEF S, T
    <3> QED BY <2>1, <2>2, <3>1, <3>3, <3>4, LatestMoves
  <2> QED BY <1>4, <2>1, <2>3, <2>4 DEF ConfigLine, Goto
<1>5. CASE CloseConfig
  <2>1. /\ phase = "config" /\ pos > Len(ConfigLines[meta]) /\ phase' = "args" /\ pos' = 1
        /\ UNCHANGED <<argv, meta>> /\ cfg' = [cfg EXCEPT !.configPath = meta]
    BY <1>5 DEF CloseConfig, Goto
  <2>2. Len(ConfigLines[meta]) \in Nat
    BY <2>1 DEF CliTypeOK, CliInputs
  <2>3. ASSUME NEW p \in Setters(f, Heads) PROVE Past(p)' <=> Past(p)
    <3>1. CASE \E i \in Heads \cap 1 .. Len(argv) : p = <<2, i>>
      <4>1. PICK i \in Heads \cap 1 .. Len(argv) : p = <<2, i>>
        BY <3>1
      <4>2. i \in Nat /\ i >= 1
        BY <1>1, <4>1
      <4> QED BY <2>1, <4>1, <4>2 DEF Past
    <3>2. CASE \E j \in 1 .. Len(ConfigLines[meta]) : p = <<1, j>>
      <4>1. PICK j \in 1 .. Len(ConfigLines[meta]) : p = <<1, j>>
        BY <3>2
      <4>2. j < pos
        BY <1>1, <2>1, <2>2, <4>1
      <4> QED BY <2>1, <4>1, <4>2 DEF Past
    <3> QED BY <3>1, <3>2, SettersShape
  <2>4. DoneSetters(f)' = DoneSetters(f)
    BY <2>1, <2>3, PlacesStay DEF DoneSetters
  <2>5. cfg'[f] = cfg[f]
    BY <1>0, <1>1, <2>1
  <2> QED BY <2>1, <2>4, <2>5, LatestStays
<1>6. CASE SetFlag
  <2>1. /\ phase = "args" /\ pos <= Len(argv) /\ phase' = "args" /\ pos' = pos + 1
        /\ UNCHANGED <<argv, meta>> /\ IsFlag(pos)
        /\ cfg' = Updated(cfg, FlagEffect(argv[pos]))
    BY <1>6 DEF SetFlag, Goto
  <2> DEFINE S == SetBy(pos)
  <2>2. S = {FlagEffect(argv[pos])}
    BY <2>1 DEF SetBy
  <2>3. SameEffects(S, S) /\ FlagEffect(argv[pos]) \in S
    BY <2>2, FixedEffect DEF AtMostOne
  <2>4. EffectOf(<<2, pos>>) = CHOOSE d \in S : TRUE
    BY DEF EffectOf
  <2>5. /\ DoneSetters(f)' = DoneSetters(f) \cup (IF \E d \in S : f \in DOMAIN d THEN {<<2, pos>>} ELSE {})
        /\ \A q \in DoneSetters(f) \cup {<<2, pos>>} : Later(<<2, pos>>, q)
    BY <2>1, ArgumentRead
  <2> HIDE DEF S
  <2> QED BY <2>1, <2>3, <2>4, <2>5, LatestMoves
<1>7. CASE SetValue
  <2> DEFINE T == ValueEffect(OptionAt(pos), ValueAt(pos), cfg)
             S == SetBy(pos)
  <2>1. /\ phase = "args" /\ pos <= Len(argv) /\ TakesValue(pos) /\ ~Missing(pos)
        /\ phase' = "args" /\ pos' = pos + Width(pos) /\ UNCHANGED <<argv, meta>>
    BY <1>7 DEF SetValue, Goto
  <2>2. PICK e \in T : cfg' = Updated(cfg, e)
    BY <1>7 DEF SetValue
  <2>3. pos' = pos + 1 \/ (pos' = pos + 2 /\ pos + 1 \notin Heads)
    BY <2>1, WidthIsSplit
  <2>4. /\ DoneSetters(f)' = DoneSetters(f) \cup (IF \E d \in S : f \in DOMAIN d THEN {<<2, pos>>} ELSE {})
        /\ \A q \in DoneSetters(f) \cup {<<2, pos>>} : Later(<<2, pos>>, q)
    BY <2>1, <2>3, ArgumentRead
  <2>5. S = ValueEffect(OptionAt(pos), ValueAt(pos), DefaultConfig)
    BY <2>1, FlagTakesNoValue DEF SetBy
  <2>6. OptionAt(pos) \in ValueOptions
    BY <2>1 DEF TakesValue
  <2>7. SameEffects(T, S)
    BY <2>5, <2>6, ValueEffectsAgree
  <2>8. EffectOf(<<2, pos>>) = CHOOSE d \in S : TRUE
    BY DEF EffectOf
  <2> HIDE DEF S, T
  <2> QED BY <2>1, <2>2, <2>4, <2>7, <2>8, LatestMoves
<1>8. CASE AddInput
  <2>1. /\ phase = "args" /\ pos <= Len(argv) /\ phase' = "args" /\ pos' = pos + 1
        /\ UNCHANGED <<argv, meta>> /\ ~IsFlag(pos) /\ ~TakesValue(pos)
    BY <1>8 DEF AddInput, Goto
  <2>2. SetBy(pos) = {}
    BY <2>1 DEF SetBy
  <2>3. DoneSetters(f)' = DoneSetters(f)
    BY <2>1, <2>2, ArgumentRead
  <2>4. cfg'[f] = cfg[f]
    BY <1>0, <1>1, <1>8 DEF AddInput
  <2> QED BY <2>1, <2>3, <2>4, LatestStays
<1>9. CASE Accept
  <2>1. phase = "args" /\ phase' = "ok" /\ pos' = pos /\ UNCHANGED <<argv, meta, cfg>>
    BY <1>9 DEF Accept, Goto
  <2>2. \A p : Past(p)' <=> Past(p)
    BY <2>1 DEF Past
  <2>3. DoneSetters(f)' = DoneSetters(f)
    BY <2>1, <2>2, PlacesStay DEF DoneSetters
  <2> QED BY <2>1, <2>3, LatestStays
<1>10. CASE AskHelp \/ Reject
  BY <1>10 DEF AskHelp, Reject, Goto, Live
<1> QED BY <1>2, <1>3, <1>4, <1>5, <1>6, <1>7, <1>8, <1>9, <1>10 DEF CliNext

-----------------------------------------------------------------------------
\* Both readings see the same --config options.

LEMMA LastSkips ==
  ASSUME NEW n \in Nat, NEW k \in Nat, n <= k, NEW v, NEW w, LastConfig(n, v, w),
         \A i \in Nat : n <= i /\ i < k => ~ConfigAt(i)
  PROVE  LastConfig(k, v, w)
<1>1. \A i \in Nat : i < k /\ ConfigAt(i) => i < n
  OBVIOUS
<1>2. \A i \in Nat : i < n => i < k
  OBVIOUS
<1> QED BY <1>1, <1>2 DEF LastConfig

LEMMA LastTakes ==
  ASSUME NEW n \in Nat, NEW k \in Nat, n < k, NEW w, ConfigAt(n),
         \A i \in Nat : n < i /\ i < k => ~ConfigAt(i)
  PROVE  LastConfig(k, ValueAt(n), w)
<1>1. \A i \in Nat : i < k /\ ConfigAt(i) => i <= n
  OBVIOUS
<1> QED BY <1>1 DEF LastConfig

LEMMA NoneHidden ==
  ASSUME HiddenConfigs = {}, NEW i, ConfigAt(i)
  PROVE  i \in Heads /\ TakesValue(i)
<1>1. i \in Heads
  BY DEF HiddenConfigs, ConfigAt
<1>2. OptionAt(i) \in ValueOptions /\ OptionAt(i) # "--mode"
  BY OptionTables DEF ConfigAt, ValueOptions
<1> QED BY <1>1, <1>2 DEF TakesValue

(* The value of an option that a head names is no --config.                *)
LEMMA ValuesAreNoConfigs ==
  ASSUME CliInputs, CliTypeOK, HiddenConfigs = {}, NEW i \in Heads \cap 1 .. Len(argv),
         TakesValue(i), NEW k, k = i + Width(i)
  PROVE  \A j \in Nat : i < j /\ j < k => ~ConfigAt(j)
<1>1. Len(argv) \in Nat /\ i \in Nat
  BY ArgvIsSeq
<1>2. CASE Width(i) = 2
  <2>1. i + 1 \notin Heads
    BY <1>1, <1>2, NextHead DEF SplitAt
  <2>2. ~ConfigAt(i + 1)
    BY <2>1, NoneHidden
  <2>3. \A j \in Nat : i < j /\ j < k => j = i + 1
    BY <1>1, <1>2
  <2> QED BY <2>2, <2>3
<1>3. CASE Width(i) = 1
  BY <1>1, <1>3
<1> QED BY <1>2, <1>3 DEF Width

LEMMA PathInit == CliInputs /\ CliInit => PathIInv
<1> SUFFICES ASSUME CliInputs, CliInit PROVE PathIInv
  OBVIOUS
<1>1. phase = "scan" /\ pos = 1 /\ meta = "" /\ cfg.configPath = ""
  <2>1. DefaultConfig.configPath = ""
    BY DEF DefaultConfig
  <2> QED BY <2>1 DEF CliInit
<1>2. \A i \in Nat : i < 1 => ~ConfigAt(i)
  <2>1. Len(argv) \in Nat
    BY TypeInit, ArgvIsSeq
  <2> QED BY <2>1 DEF ConfigAt
<1>3. LastConfig(pos, meta, "")
  BY <1>1, <1>2 DEF LastConfig
<1> QED BY <1>1, <1>3 DEF PathIInv

LEMMA PathStep ==
  ASSUME CliInputs, CliTypeOK, PathIInv, CliNext
  PROVE  PathIInv'
<1>0. /\ pos \in Nat /\ pos >= 1 /\ Len(argv) \in Nat /\ UNCHANGED argv
      /\ DOMAIN DefaultConfig \subseteq DOMAIN cfg
  BY ArgvIsSeq DEF CliTypeOK, CliNext, ScanMeta, OpenConfig, ConfigLine, CloseConfig, AskHelp,
                   SetFlag, SetValue, Reject, AddInput, Accept
<1>10. pos + 1 \in Nat /\ pos <= pos + 1
  BY <1>0
<1>1. /\ HiddenConfigs' = HiddenConfigs
      /\ \A i : ConfigAt(i)' = ConfigAt(i) /\ ValueAt(i)' = ValueAt(i)
  BY <1>0, ArgumentsStay
<1>2. "configPath" \in DOMAIN DefaultConfig /\ "configPath" \in DOMAIN cfg
  BY <1>0 DEF DefaultConfig
<1>3. \A i : ConfigAt(i) => i \in Nat /\ i >= 1 /\ i <= Len(argv)
  BY <1>0 DEF ConfigAt
<1> SUFFICES ASSUME HiddenConfigs = {}
             PROVE  /\ phase' = "scan" => LastConfig(pos, meta, "")' /\ cfg'.configPath = ""
                    /\ phase' \in {"config", "args", "ok"} => LastConfig(Len(argv) + 1, meta, "")'
                    /\ phase' \in {"args", "ok"} => LastConfig(pos, cfg.configPath, meta)'
  BY <1>1 DEF PathIInv
<1>4. CASE ScanMeta
  <2>1. phase = "scan" /\ phase' \in {"scan", "error"} /\ pos <= Len(argv)
    BY <1>4 DEF ScanMeta, Goto
  <2>2. LastConfig(pos, meta, "") /\ cfg.configPath = ""
    BY <2>1 DEF PathIInv
  <2>3. cfg'.configPath = ""
    BY <1>2, <1>4, <2>2 DEF ScanMeta
  <2>4. ASSUME phase' = "scan" PROVE LastConfig(pos', meta', "")
    <3>1. CASE OptionAt(pos) = "--config" /\ ~Missing(pos) /\ meta' = ValueAt(pos)
               /\ pos' = pos + Width(pos)
      <4>1. ConfigAt(pos)
        BY <1>0, <2>1, <3>1 DEF ConfigAt
      <4>2. pos \in Heads \cap 1 .. Len(argv) /\ TakesValue(pos)
        BY <1>0, <2>1, <4>1, NoneHidden
      <4>3. Width(pos) \in {1, 2}
        BY DEF Width
      <4>4. \A j \in Nat : pos < j /\ j < pos' => ~ConfigAt(j)
        BY <3>1, <4>2, ValuesAreNoConfigs
      <4>5. pos' \in Nat /\ pos < pos'
        BY <1>0, <3>1, <4>3
      <4> QED BY <1>0, <3>1, <4>1, <4>4, <4>5, LastTakes
    <3>2. CASE ~ConfigAt(pos) /\ meta' = meta /\ pos' = pos + 1
      <4>1. \A i \in Nat : pos <= i /\ i < pos + 1 => ~ConfigAt(i)
        BY <1>0, <3>2
      <4> QED BY <1>0, <1>10, <2>2, <3>2, <4>1, LastSkips
    <3>3. ASSUME argv[pos] = "--print-effective-config" PROVE ~ConfigAt(pos)
      <4>1. IsFlag(pos)
        BY <3>3 DEF IsFlag, Flags
      <4> QED BY <4>1, FlagTakesNoValue DEF ConfigAt
    <3> QED BY <1>4, <2>4, <3>1, <3>2, <3>3 DEF ScanMeta, Goto, ConfigAt
  <2>5. ASSUME phase' = "scan" PROVE LastConfig(pos, meta, "")'
    BY <1>1, <2>4, <2>5 DEF LastConfig
  <2> QED BY <2>1, <2>3, <2>5
<1>5. CASE OpenConfig
  <2>1. /\ phase = "scan" /\ pos > Len(argv) /\ UNCHANGED <<argv, meta, cfg>> /\ phase' # "scan"
        /\ phase' = "args" => meta = "" /\ pos' = 1
        /\ phase' # "ok"
    BY <1>5 DEF OpenConfig, Goto
  <2>2. LastConfig(pos, meta, "") /\ cfg.configPath = ""
    BY <2>1 DEF PathIInv
  <2>3. LastConfig(Len(argv) + 1, meta, "")
    <3>1. \A i \in Nat : i < pos /\ ConfigAt(i) => i < Len(argv) + 1
      BY <1>0, <1>3
    <3>2. ASSUME NEW i \in Nat, i < Len(argv) + 1 PROVE i < pos
      <4>1. i <= Len(argv)
        BY <1>0, <3>2
      <4>2. pos > Len(argv) /\ pos \in Nat /\ Len(argv) \in Nat
        BY <1>0, <2>1
      <4> QED BY <4>1, <4>2
    <3> QED BY <2>2, <3>1, <3>2 DEF LastConfig
  <2>4. LastConfig(Len(argv) + 1, meta, "")'
    BY <1>1, <2>1, <2>3 DEF LastConfig
  <2>5. ASSUME phase' = "args" PROVE LastConfig(pos, cfg.configPath, meta)'
    <3>1. \A i \in Nat : i < 1 => ~ConfigAt(i)
      BY <1>3
    <3>2. pos' = 1 /\ cfg'.configPath = meta'
      BY <2>1, <2>2, <2>5
    <3> QED BY <1>1, <3>1, <3>2 DEF LastConfig
  <2> QED BY <2>1, <2>4, <2>5
<1>6. CASE ConfigLine
  <2>1. phase = "config" /\ phase' \in {"config", "error"} /\ UNCHANGED <<argv, meta>>
    BY <1>6 DEF ConfigLine, Goto
  <2>2. LastConfig(Len(argv) + 1, meta, "")
    BY <2>1 DEF PathIInv
  <2>3. LastConfig(Len(argv) + 1, meta, "")'
    BY <1>1, <2>1, <2>2 DEF LastConfig
  <2> QED BY <2>1, <2>3
<1>7. CASE CloseConfig
  <2>1. /\ phase = "config" /\ phase' = "args" /\ pos' = 1 /\ UNCHANGED <<argv, meta>>
        /\ cfg'.configPath = meta
    BY <1>2, <1>7 DEF CloseConfig, Goto
  <2>2. LastConfig(Len(argv) + 1, meta, "")
    BY <2>1 DEF PathIInv
  <2>3. LastConfig(Len(argv) + 1, meta, "")'
    BY <1>1, <2>1, <2>2 DEF LastConfig
  <2>4. \A i \in Nat : i < 1 => ~ConfigAt(i)
    BY <1>3
  <2>5. LastConfig(pos, cfg.configPath, meta)'
    BY <1>1, <2>1, <2>4 DEF LastConfig
  <2> QED BY <2>1, <2>3, <2>5
<1>8. CASE SetFlag \/ SetValue \/ AddInput \/ Accept
  <2>1. phase = "args" /\ phase' \in {"args", "ok"} /\ UNCHANGED <<argv, meta>>
    BY <1>8 DEF SetFlag, SetValue, AddInput, Accept, Goto
  <2>2. LastConfig(Len(argv) + 1, meta, "") /\ LastConfig(pos, cfg.configPath, meta)
    BY <2>1 DEF PathIInv
  <2>3. LastConfig(Len(argv) + 1, meta, "")'
    BY <1>1, <2>1, <2>2 DEF LastConfig
  <2>4. LastConfig(pos', cfg'.configPath, meta)
    <3>1. CASE SetFlag
      <4>1. pos' = pos + 1 /\ IsFlag(pos) /\ cfg' = Updated(cfg, FlagEffect(argv[pos]))
        BY <3>1 DEF SetFlag, Goto
      <4>2. ~ConfigAt(pos)
        BY <4>1, FlagTakesNoValue DEF ConfigAt
      <4>3. cfg'.configPath = cfg.configPath
        BY <1>0, <1>2, <4>1, FlagsKeep, UpdatedField DEF IsFlag, OwnFields
      <4>4. \A i \in Nat : pos <= i /\ i < pos + 1 => ~ConfigAt(i)
        BY <1>0, <4>2
      <4> QED BY <1>0, <1>10, <2>2, <4>1, <4>3, <4>4, LastSkips
    <3>2. CASE SetValue
      <4>1. pos <= Len(argv) /\ TakesValue(pos) /\ pos' = pos + Width(pos)
        BY <3>2 DEF SetValue, Goto
      <4>2. PICK e \in ValueEffect(OptionAt(pos), ValueAt(pos), cfg) : cfg' = Updated(cfg, e)
        BY <3>2 DEF SetValue
      <4>3. pos \in Heads \cap 1 .. Len(argv) /\ Width(pos) \in {1, 2}
        BY <1>0, <2>1, <4>1 DEF CliTypeOK, Width
      <4>4. \A j \in Nat : pos < j /\ j < pos' => ~ConfigAt(j)
        BY <4>1, <4>3, ValuesAreNoConfigs
      <4>5. pos' \in Nat /\ pos < pos'
        BY <1>0, <4>1, <4>3
      <4>6. CASE OptionAt(pos) = "--config"
        <5>1. cfg'.configPath = ValueAt(pos)
          BY <1>0, <1>2, <4>2, <4>6, ConfigSetsPath, UpdatedField
        <5>2. ConfigAt(pos)
          BY <4>3, <4>6 DEF ConfigAt
        <5> QED BY <1>0, <4>4, <4>5, <5>1, <5>2, LastTakes
      <4>7. CASE OptionAt(pos) # "--config"
        <5>1. "configPath" \notin DOMAIN e
          BY <4>1, <4>2, <4>7, OthersKeep DEF TakesValue, OwnFields
        <5>2. cfg'.configPath = cfg.configPath
          BY <1>0, <1>2, <4>2, <5>1, UpdatedField
        <5>3. \A j \in Nat : pos <= j /\ j < pos' => ~ConfigAt(j)
          <6>1. ~ConfigAt(pos)
            BY <4>7 DEF ConfigAt
          <6> QED BY <1>0, <4>4, <6>1
        <5>4. pos <= pos'
          BY <1>0, <4>5
        <5> QED BY <1>0, <2>2, <4>5, <5>2, <5>3, <5>4, LastSkips
      <4> QED BY <4>6, <4>7
    <3>3. CASE AddInput
      <4>1. pos' = pos + 1 /\ ~TakesValue(pos)
        BY <3>3 DEF AddInput, Goto
      <4>2. ~ConfigAt(pos)
        BY <4>1, NoneHidden
      <4>3. cfg'.configPath = cfg.configPath
        BY <1>2, <3>3 DEF AddInput
      <4>4. \A i \in Nat : pos <= i /\ i < pos + 1 => ~ConfigAt(i)
        BY <1>0, <4>2
      <4> QED BY <1>0, <1>10, <2>2, <4>1, <4>3, <4>4, LastSkips
    <3>4. CASE Accept
      BY <2>2, <3>4 DEF Accept, Goto
    <3> QED BY <1>8, <3>1, <3>2, <3>3, <3>4
  <2>5. LastConfig(pos, cfg.configPath, meta)'
    BY <1>1, <2>1, <2>4 DEF LastConfig
  <2> QED BY <2>1, <2>3, <2>5
<1>9. CASE AskHelp \/ Reject
  BY <1>9 DEF AskHelp, Reject, Goto
<1> QED BY <1>4, <1>5, <1>6, <1>7, <1>8, <1>9 DEF CliNext

-----------------------------------------------------------------------------
\* The arguments: the theorems.

LEMMA IInvInit ==
  ASSUME CliInputs
  PROVE  FrontInit => CliIInv
BY TypeInit, LatestInit, PathInit DEF FrontInit, CliIInv

(* The rest of main leaves the parsed arguments alone.                     *)
LEMMA IInvStep ==
  ASSUME CliInputs
  PROVE  CliIInv /\ [FrontNext]_frontVars => CliIInv'
<1> SUFFICES ASSUME CliIInv, [FrontNext]_frontVars PROVE CliIInv'
  OBVIOUS
<1>1. CliTypeOK /\ PathIInv /\ (phase \in Live => \A f \in PlainFields : LatestRules(f))
  BY DEF CliIInv
<1>2. CASE CliNext
  <2>1. CliTypeOK' /\ PathIInv'
    BY <1>1, <1>2, TypeStep, PathStep
  <2>2. phase \in Live
    BY <1>2 DEF Live, CliNext, ScanMeta, OpenConfig, ConfigLine, CloseConfig, AskHelp, SetFlag,
                SetValue, Reject, AddInput, Accept
  <2>3. ASSUME phase' \in Live, NEW f \in PlainFields PROVE LatestRules(f)'
    BY <1>1, <1>2, <2>2, <2>3, LatestStep
  <2>4. PlainFields' = PlainFields /\ Live' = Live
    BY DEF PlainFields, Live
  <2> QED BY <2>1, <2>3, <2>4 DEF CliIInv
<1>3. CASE PrintConfig \/ MakePlan \/ AnalyzeInputs \/ EmitReport \/ WriteSarifFile
  <2>1. UNCHANGED <<argv, pos, meta, cfg>> /\ phase' \in {"plan", "analyze", "emit", "file", "done", "error"}
    BY <1>3 DEF PrintConfig, MakePlan, AnalyzeInputs, EmitReport, WriteSarifFile
  <2>2. CliTypeOK'
    BY <1>1, <2>1 DEF CliTypeOK
  <2>3. PathIInv'
    BY <2>1 DEF PathIInv
  <2> QED BY <2>1, <2>2, <2>3 DEF CliIInv, Live
<1>4. CASE UNCHANGED frontVars
  <2>1. UNCHANGED cliVars
    BY <1>4 DEF frontVars
  <2>2. UNCHANGED <<argv, phase, pos, meta, cfg>>
    BY <2>1 DEF cliVars
  <2>3. Heads' = Heads /\ HiddenConfigs' = HiddenConfigs
        /\ \A i : ConfigAt(i)' = ConfigAt(i) /\ ValueAt(i)' = ValueAt(i)
    BY <2>2, ArgumentsStay
  <2>4. CliTypeOK'
    BY <1>1, <2>2, <2>3 DEF CliTypeOK
  <2>5. PathIInv'
    BY <1>1, <2>2, <2>3 DEF PathIInv, LastConfig
  <2>6. ASSUME phase' \in Live, NEW f \in PlainFields PROVE LatestRules(f)'
    <3>1. \A p : Past(p)' <=> Past(p)
      BY <2>2 DEF Past
    <3>2. DoneSetters(f)' = DoneSetters(f)
      BY <2>2, <3>1, PlacesStay DEF DoneSetters
    <3> QED BY <1>1, <2>2, <2>6, <3>2, LatestStays
  <2> QED BY <2>4, <2>5, <2>6 DEF CliIInv
<1> QED BY <1>2, <1>3, <1>4 DEF FrontNext

(* The invariant of the two readings: where they stand, what every field    *)
(* holds so far, and which --config they have seen (ArgParser.cpp,          *)
(* preScanMetaOptions, loadConfigFile, parseArguments).                     *)
THEOREM CommandLineInvariant == FrontSpec => []CliIInv
<1>1. CliInputs
  BY FrontEndAssumption
<1> QED BY <1>1, IInvInit, IInvStep, PTL DEF FrontSpec

LEMMA LaterIsOrder ==
  ASSUME NEW f, NEW p \in Setters(f, Heads), NEW q \in Setters(f, Heads),
         Later(p, q), Later(q, p), Len(argv) \in Nat, CliInputs
  PROVE  p = q
<1>1. Heads \in SUBSET (1 .. Len(argv) + 2)
  BY HeadsAreCut
<1>2. ASSUME NEW r \in Setters(f, Heads) PROVE \E m \in {1, 2}, n \in Nat : r = <<m, n>>
  <2>1. ASSUME meta \in DOMAIN ConfigLines, NEW j \in 1 .. Len(ConfigLines[meta]) PROVE j \in Nat
    <3>1. Len(ConfigLines[meta]) \in Nat
      BY <2>1 DEF CliInputs
    <3> QED BY <2>1, <3>1
  <2>2. ASSUME NEW i \in Heads \cap 1 .. Len(argv) PROVE i \in Nat
    BY <1>1, <2>2
  <2> QED BY <2>1, <2>2, SettersShape
<1>3. PICK m1 \in {1, 2}, n1 \in Nat : p = <<m1, n1>>
  BY <1>2
<1>4. PICK m2 \in {1, 2}, n2 \in Nat : q = <<m2, n2>>
  BY <1>2
<1>5. m1 = m2 /\ n1 = n2
  BY <1>3, <1>4 DEF Later
<1> QED BY <1>3, <1>4, <1>5

LEMMA AllSettersRead ==
  ASSUME CliInputs, CliIInv, phase = "ok", NEW f
  PROVE  DoneSetters(f) = Setters(f, Heads)
<1>1. Len(argv) \in Nat /\ pos \in Nat /\ pos > Len(argv)
  BY ArgvIsSeq DEF CliIInv, CliTypeOK
<1>2. ASSUME NEW p \in Setters(f, Heads) PROVE Past(p)
  <2>1. CASE \E i \in Heads \cap 1 .. Len(argv) : p = <<2, i>>
    <3>1. PICK i \in Heads \cap 1 .. Len(argv) : p = <<2, i>>
      BY <2>1
    <3>2. i < pos
      <4>1. i \in 1 .. Len(argv)
        BY <3>1
      <4> QED BY <1>1, <4>1
    <3> QED BY <3>1, <3>2 DEF Past
  <2>2. CASE \E j : p = <<1, j>>
    BY <2>2 DEF Past
  <2> QED BY <2>1, <2>2, SettersShape
<1> QED BY <1>2 DEF DoneSetters

(* "1. CLI flags 2. Config file values 3. Built-in defaults" (README.md),   *)
(* for every command line and configuration file: a field that holds one    *)
(* value holds what the last argument that sets it says, else what the      *)
(* last entry of the file says, else its default (parseArguments).          *)
THEOREM ArgumentsOverrideFile == FrontSpec => []CliOverFileOverDefault
<1>0. CliInputs
  BY FrontEndAssumption
<1>1. CliIInv => CliOverFileOverDefault
  <2> SUFFICES ASSUME CliIInv, phase = "ok",
                      NEW f \in ScalarFields \ {"configPath", "printEffectiveConfig"}
               PROVE  cfg[f] = IF Setters(f, Heads) = {} THEN DefaultConfig[f]
                               ELSE EffectOf(CHOOSE p \in Setters(f, Heads) :
                                               \A q \in Setters(f, Heads) : Later(p, q))[f]
    BY DEF CliOverFileOverDefault
  <2> DEFINE P == Setters(f, Heads)
             Top == CHOOSE p \in P : \A q \in P : Later(p, q)
  <2>1. LatestRules(f) /\ DoneSetters(f) = P
    BY <1>0, AllSettersRead DEF CliIInv, Live, PlainFields
  <2>2. Len(argv) \in Nat
    BY <1>0, ArgvIsSeq DEF CliIInv
  <2>3. CASE P = {}
    BY <2>1, <2>3 DEF LatestRules
  <2>4. CASE P # {}
    <3>1. PICK p \in P : (\A q \in P : Later(p, q)) /\ cfg[f] = EffectOf(p)[f]
      BY <2>1, <2>4 DEF LatestRules
    <3>2. Top \in P /\ \A q \in P : Later(Top, q)
      BY <3>1
    <3>3. Top = p
      <4> HIDE DEF Top
      <4> QED BY <1>0, <2>2, <3>1, <3>2, LaterIsOrder
    <3> QED BY <2>4, <3>1, <3>3
  <2> QED BY <2>3, <2>4
<1> QED BY <1>1, CommandLineInvariant, PTL

(* The file that was loaded is the one recorded, for every command line in  *)
(* which no option has the text --config for its value.                     *)
THEOREM LoadedFileIsRecorded == FrontSpec => []LoadedIsRecorded
<1>0. CliInputs
  BY FrontEndAssumption
<1>1. CliIInv => LoadedIsRecorded
  <2> SUFFICES ASSUME CliIInv, phase = "ok", HiddenConfigs = {} PROVE cfg.configPath = meta
    BY DEF LoadedIsRecorded
  <2>1. Len(argv) \in Nat /\ pos \in Nat /\ pos > Len(argv)
    BY <1>0, ArgvIsSeq DEF CliIInv, CliTypeOK
  <2>2. LastConfig(Len(argv) + 1, meta, "") /\ LastConfig(pos, cfg.configPath, meta)
    BY DEF CliIInv, PathIInv
  <2>3. \A i : ConfigAt(i) => i \in Nat /\ i < Len(argv) + 1 /\ i < pos
    BY <2>1 DEF ConfigAt
  <2>4. CASE \A i : ~ConfigAt(i)
    BY <2>2, <2>4 DEF LastConfig
  <2>5. CASE \E i : ConfigAt(i)
    <3>1. PICK i \in Nat : /\ ConfigAt(i) /\ meta = ValueAt(i)
                           /\ \A j \in Nat : j < Len(argv) + 1 /\ ConfigAt(j) => j <= i
      BY <2>2, <2>3, <2>5 DEF LastConfig
    <3>2. PICK k \in Nat : /\ ConfigAt(k) /\ cfg.configPath = ValueAt(k)
                           /\ \A j \in Nat : j < pos /\ ConfigAt(j) => j <= k
      BY <2>2, <2>3, <2>5 DEF LastConfig
    <3>3. i <= k /\ k <= i
      BY <2>3, <3>1, <3>2
    <3> QED BY <3>1, <3>2, <3>3
  <2> QED BY <2>4, <2>5
<1> QED BY <1>1, CommandLineInvariant, PTL

-----------------------------------------------------------------------------
\* What the formats have in common.

LEMMA SeqIsSeq ==
  ASSUME NEW X, NEW s \in Seq(X)
  PROVE  IsSeq(s)
BY SeqOfRange DEF IsSeq

\* The diagnostics a run shows.
Visible(s, c) == IF c.warningsOnly THEN Only(s, Grave(s)) ELSE s

LEMMA VisibleFacts ==
  ASSUME NEW X, NEW c
  PROVE  /\ Visible(<<>>, c) = <<>>
         /\ \A s \in Seq(X) : Visible(s, c) \in Seq(X)
         /\ \A s, t \in Seq(X) : Visible(s \o t, c) = Visible(s, c) \o Visible(t, c)
<1> DEFINE G == {x \in X : x.severity # "info"}
<1>1. ASSUME NEW s \in Seq(X) PROVE Only(s, Grave(s)) = Only(s, G)
  <2>1. ASSUME NEW i \in 1 .. Len(s) PROVE s[i] \in Grave(s) <=> s[i] \in G
    <3>1. s[i] \in X /\ i \in DOMAIN s
      BY LenProperties, ElementOfSeq
    <3> QED BY <3>1 DEF Grave, Range
  <2> HIDE DEF G
  <2> QED BY <2>1, OnlySame
<1> HIDE DEF G
<1>2. Visible(<<>>, c) = <<>>
  BY OnlyEmpty DEF Visible
<1>3. ASSUME NEW s \in Seq(X) PROVE Visible(s, c) \in Seq(X)
  BY <1>1, OnlyIsSeq DEF Visible
<1>4. ASSUME NEW s \in Seq(X), NEW t \in Seq(X)
      PROVE  Visible(s \o t, c) = Visible(s, c) \o Visible(t, c)
  <2>1. s \o t \in Seq(X)
    BY ConcatProperties
  <2>2. Only(s \o t, G) = Only(s, G) \o Only(t, G)
    BY OnlyConcat
  <2> QED BY <1>1, <2>1, <2>2 DEF Visible
<1> QED BY <1>2, <1>3, <1>4

LEMMA CountFacts ==
  ASSUME NEW X, NEW severity
  PROVE  /\ Count(<<>>, severity) = 0
         /\ \A s \in Seq(X) : Count(s, severity) \in Nat
         /\ \A s, t \in Seq(X) : Count(s \o t, severity) = Count(s, severity) + Count(t, severity)
<1> DEFINE S == {x \in X : x.severity = severity}
<1>1. ASSUME NEW s \in Seq(X)
      PROVE  /\ Count(s, severity) = Len(Only(s, S)) /\ Only(s, S) \in Seq(X)
             /\ Count(s, severity) \in Nat
  <2>1. {i \in 1 .. Len(s) : s[i].severity = severity} = {i \in 1 .. Len(s) : s[i] \in S}
    BY ElementOfSeq
  <2> HIDE DEF S
  <2>2. Only(s, S) \in Seq(X) /\ Len(Only(s, S)) = Cardinality({i \in 1 .. Len(s) : s[i] \in S})
    BY OnlyIsSeq, OnlyCounts
  <2> QED BY <2>1, <2>2, LenProperties DEF Count
<1> HIDE DEF S
<1>2. ASSUME NEW s \in Seq(X), NEW t \in Seq(X)
      PROVE  Count(s \o t, severity) = Count(s, severity) + Count(t, severity)
  <2>1. s \o t \in Seq(X) /\ Only(s \o t, S) = Only(s, S) \o Only(t, S)
    BY ConcatProperties, OnlyConcat
  <2>2. Len(Only(s, S) \o Only(t, S)) = Len(Only(s, S)) + Len(Only(t, S))
    BY <1>1, ConcatProperties
  <2> QED BY <1>1, <2>1, <2>2
<1>3. Count(<<>>, severity) = 0
  <2>1. Only(<<>>, S) = <<>> /\ <<>> \in Seq(X) /\ Len(<<>>) = 0
    BY OnlyEmpty, EmptySeq
  <2> QED BY <1>1, <2>1
<1> QED BY <1>1, <1>2, <1>3

\* The sum of a sequence of summaries.
Accumulates(sums, total) ==
  /\ total[0] = NoDiagnostics
  /\ \A k \in 1 .. Len(sums) : total[k] = AddSummaries(total[k - 1], sums[k])

LEMMA AccumulatesExists ==
  ASSUME NEW X
  PROVE  \A sums \in Seq(X) : \E total : DOMAIN total = 0 .. Len(sums) /\ Accumulates(sums, total)
<1> DEFINE Good == {s \in Seq(X) : \E k : DOMAIN k = 0 .. Len(s) /\ Accumulates(s, k)}
<1>1. <<>> \in Good
  <2>1. Accumulates(<<>>, [i \in 0 .. 0 |-> NoDiagnostics])
    BY DEF Accumulates
  <2> QED BY <2>1
<1>2. ASSUME NEW s \in Seq(X), NEW x \in X, s \in Good PROVE Append(s, x) \in Good
  <2>1. PICK k : DOMAIN k = 0 .. Len(s) /\ Accumulates(s, k)
    BY <1>2
  <2> DEFINE n == Len(s) + 1
             l == [i \in 0 .. n |-> IF i = n THEN AddSummaries(k[i - 1], x) ELSE k[i]]
  <2>2. /\ Len(s) \in Nat /\ Append(s, x) \in Seq(X) /\ Len(Append(s, x)) = n
        /\ \A i \in 1 .. Len(s) : Append(s, x)[i] = s[i]
        /\ Append(s, x)[n] = x
    BY AppendProperties, LenProperties
  <2>3. Accumulates(Append(s, x), l)
    <3>1. l[0] = NoDiagnostics
      BY <2>1, <2>2 DEF Accumulates
    <3>2. ASSUME NEW i \in 1 .. Len(Append(s, x))
          PROVE  l[i] = AddSummaries(l[i - 1], Append(s, x)[i])
      <4>1. CASE i = n
        BY <2>2, <4>1
      <4>2. CASE i # n
        <5>1. i \in 1 .. Len(s) /\ i - 1 \in 0 .. Len(s) /\ i - 1 # n
          BY <2>2, <4>2
        <5>2. l[i] = k[i] /\ l[i - 1] = k[i - 1]
          BY <2>2, <5>1, <4>2
        <5> QED BY <2>1, <2>2, <5>1, <5>2 DEF Accumulates
      <4> QED BY <4>1, <4>2
    <3> HIDE DEF l
    <3> QED BY <3>1, <3>2 DEF Accumulates
  <2>4. DOMAIN l = 0 .. Len(Append(s, x))
    BY <2>2
  <2> HIDE DEF l
  <2> QED BY <2>2, <2>3, <2>4
<1> HIDE DEF Good
<1>3. Seq(X) \subseteq Good
  BY <1>1, <1>2, SeqInduction
<1> QED BY <1>3 DEF Good

(* The summaries of the parts add up to the summary of the whole.           *)
LEMMA SummariesAddUp ==
  ASSUME NEW X, NEW c, NEW total
  PROVE  \A ss \in Seq(Seq(X)) :
           (/\ total[0] = NoDiagnostics
            /\ \A k \in 1 .. Len(ss) : total[k] = AddSummaries(total[k - 1], Summary(Visible(ss[k], c))))
           => total[Len(ss)] = Summary(Visible(FlattenSeq(ss), c))
<1> DEFINE Adds(ss) == /\ total[0] = NoDiagnostics
                       /\ \A k \in 1 .. Len(ss) :
                            total[k] = AddSummaries(total[k - 1], Summary(Visible(ss[k], c)))
           Right(ss) == total[Len(ss)] = Summary(Visible(FlattenSeq(ss), c))
           Good == {ss \in Seq(Seq(X)) : Adds(ss) => Right(ss)}
<1>0. \A ss : Adds(ss) => total[0] = NoDiagnostics
  OBVIOUS
<1>1. <<>> \in Good
  <2>1. <<>> \in Seq(Seq(X)) /\ Len(<<>>) = 0 /\ <<>> \in Seq(X)
    BY EmptySeq
  <2>2. FlattenSeq(<<>>) = <<>>
    BY <2>1, FlattenAppend
  <2>3. Summary(<<>>) = NoDiagnostics
    BY CountFacts DEF Summary, NoDiagnostics
  <2>4. Visible(FlattenSeq(<<>>), c) = <<>>
    BY <2>2, VisibleFacts
  <2>5. Adds(<<>>) => Right(<<>>)
    BY <2>1, <2>3, <2>4
  <2> HIDE DEF Adds, Right
  <2> QED BY <2>1, <2>5
<1>2. ASSUME NEW ss \in Seq(Seq(X)), NEW s \in Seq(X), ss \in Good PROVE Append(ss, s) \in Good
  <2> DEFINE tt == Append(ss, s)
  <2>1. /\ Len(ss) \in Nat /\ tt \in Seq(Seq(X)) /\ Len(tt) = Len(ss) + 1 /\ tt[Len(ss) + 1] = s
        /\ \A i \in 1 .. Len(ss) : tt[i] = ss[i]
    BY AppendProperties, LenProperties
  <2>2. FlattenSeq(tt) = FlattenSeq(ss) \o s /\ FlattenSeq(ss) \in Seq(X)
    BY FlattenAppend, FlattenIsSeq
  <2> HIDE DEF tt
  <2> SUFFICES ASSUME Adds(tt) PROVE Right(tt)
    BY <2>1 DEF tt
  <2>3. Adds(ss)
    BY <2>1
  <2>4. total[Len(ss)] = Summary(Visible(FlattenSeq(ss), c))
    BY <1>2, <2>3
  <2>5. total[Len(tt)] = AddSummaries(total[Len(ss)], Summary(Visible(s, c)))
    <3>1. Len(tt) \in 1 .. Len(tt) /\ Len(tt) - 1 = Len(ss)
      BY <2>1
    <3>2. total[Len(tt)] = AddSummaries(total[Len(tt) - 1], Summary(Visible(tt[Len(tt)], c)))
      BY <3>1
    <3> QED BY <2>1, <3>1, <3>2
  <2> HIDE DEF Adds
  <2>6. Visible(FlattenSeq(tt), c) = Visible(FlattenSeq(ss), c) \o Visible(s, c)
    <3> DEFINE a == FlattenSeq(ss)
    <3>1. a \in Seq(X) /\ FlattenSeq(tt) = a \o s
      BY <2>2
    <3> HIDE DEF a
    <3>2. \A b, d \in Seq(X) : Visible(b \o d, c) = Visible(b, c) \o Visible(d, c)
      BY VisibleFacts
    <3>3. Visible(a \o s, c) = Visible(a, c) \o Visible(s, c)
      BY <3>1, <3>2
    <3> QED BY <3>1, <3>3 DEF a
  <2>7. Visible(FlattenSeq(ss), c) \in Seq(X) /\ Visible(s, c) \in Seq(X)
    BY <2>2, VisibleFacts
  <2>8. \A v \in Severities : Count(Visible(FlattenSeq(tt), c), v)
          = Count(Visible(FlattenSeq(ss), c), v) + Count(Visible(s, c), v)
    BY <2>6, <2>7, CountFacts
  <2>9. Summary(Visible(FlattenSeq(tt), c))
          = AddSummaries(Summary(Visible(FlattenSeq(ss), c)), Summary(Visible(s, c)))
    BY <2>8 DEF Summary, AddSummaries
  <2> QED BY <2>4, <2>5, <2>9
<1> HIDE DEF Good
<1>3. Seq(Seq(X)) \subseteq Good
  BY <1>1, <1>2, SeqInduction
<1> QED BY <1>3 DEF Good

-----------------------------------------------------------------------------
\* The three formats, for any results.

IsResult(r) == /\ r = [functions |-> r.functions, diagnostics |-> r.diagnostics]
               /\ IsSeq(r.functions) /\ IsSeq(r.diagnostics)

AreResults(rs) ==
  /\ rs = [k \in 1 .. Len(rs) |-> rs[k]] /\ Len(rs) \in Nat
  /\ \A k \in 1 .. Len(rs) : IsResult(rs[k][2])

Parts(rs) == [k \in 1 .. Len(rs) |-> rs[k][2].diagnostics]

LEMMA PartsAreSeqs ==
  ASSUME NEW rs, AreResults(rs)
  PROVE  \E X : /\ Parts(rs) \in Seq(Seq(X)) /\ Len(Parts(rs)) = Len(rs)
                /\ \A k \in 1 .. Len(rs) : rs[k][2].diagnostics \in Seq(X)
<1> DEFINE X == UNION {Range(rs[k][2].diagnostics) : k \in 1 .. Len(rs)}
<1>0. Len(rs) \in Nat
  BY DEF AreResults
<1>1. ASSUME NEW k \in 1 .. Len(rs) PROVE rs[k][2].diagnostics \in Seq(X)
  <2> DEFINE s == rs[k][2].diagnostics
  <2>1. PICK Y : s \in Seq(Y)
    BY DEF AreResults, IsResult, IsSeq
  <2>2. s \in [1 .. Len(s) -> Y] /\ Len(s) \in Nat
    BY <2>1, LenProperties
  <2>3. \A i \in 1 .. Len(s) : s[i] \in X
    <3>1. Range(s) \subseteq X
      OBVIOUS
    <3> HIDE DEF X
    <3> QED BY <2>2, <3>1 DEF Range
  <2>4. s \in [1 .. Len(s) -> X]
    BY <2>2, <2>3
  <2> HIDE DEF s, X
  <2>5. s \in Seq(X)
    BY <2>2, <2>4
  <2> QED BY <2>5 DEF s
<1> HIDE DEF X
<1>2. Parts(rs) \in [1 .. Len(rs) -> Seq(X)]
  BY <1>1 DEF Parts
<1>3. Parts(rs) \in Seq(Seq(X)) /\ Len(Parts(rs)) = Len(rs)
  BY <1>0, <1>2
<1> QED BY <1>1, <1>3

LEMMA FilteredIs ==
  ASSUME NEW r, NEW c, IsResult(r)
  PROVE  FilterWarningsOnly(ApplyFilter(r, c), c)
           = [functions |-> r.functions, diagnostics |-> Visible(r.diagnostics, c)]
<1>1. ApplyFilter(r, c) = r
  BY DEF ApplyFilter, FilterResult
<1> QED BY <1>1 DEF FilterWarningsOnly, Visible, IsResult

LEMMA WrittenIs ==
  ASSUME NEW rs, NEW c, AreResults(rs)
  PROVE  Written(rs, c).diagnostics = Visible(FlattenSeq(Parts(rs)), c)
<1>1. CASE Len(rs) = 1
  <2>1. PICK X : Parts(rs) \in Seq(Seq(X)) /\ rs[1][2].diagnostics \in Seq(X)
    BY <1>1, PartsAreSeqs
  <2>2. Parts(rs) = Append(<<>>, rs[1][2].diagnostics)
    BY <1>1 DEF Parts
  <2>3. FlattenSeq(Parts(rs)) = rs[1][2].diagnostics
    <3>1. <<>> \in Seq(Seq(X))
      BY EmptySeq
    <3>2. FlattenSeq(Parts(rs)) = <<>> \o rs[1][2].diagnostics
      BY <2>1, <2>2, <3>1, FlattenAppend
    <3> QED BY <2>1, <3>2, ConcatEmptySeq
  <2>4. IsResult(rs[1][2])
    BY <1>1 DEF AreResults
  <2> QED BY <1>1, <2>3, <2>4, FilteredIs DEF Written
<1>2. CASE Len(rs) # 1
  <2> DEFINE m == MergeAnalysisResults(rs)
  <2>1. m.diagnostics = FlattenSeq(Parts(rs))
    BY DEF MergeAnalysisResults, Parts
  <2>2. ApplyFilter(m, c) = m
    BY DEF ApplyFilter, FilterResult
  <2>3. FilterWarningsOnly(m, c).diagnostics = Visible(m.diagnostics, c)
    BY DEF FilterWarningsOnly, Visible, MergeAnalysisResults
  <2> HIDE DEF m
  <2>4. Written(rs, c) = FilterWarningsOnly(m, c)
    BY <1>2, <2>2 DEF Written, m
  <2> QED BY <2>1, <2>3, <2>4
<1> QED BY <1>1, <1>2

LEMMA HumanTotalIs ==
  ASSUME NEW rs, NEW c, AreResults(rs)
  PROVE  ToHuman(rs, c).total = Summary(Visible(FlattenSeq(Parts(rs)), c))
<1> DEFINE n == Len(rs)
           sums == [k \in 1 .. n |-> Summary(Visible(Parts(rs)[k], c))]
           Solves(t) == t = [k \in 0 .. n |-> IF k = 0 THEN NoDiagnostics
                                              ELSE AddSummaries(t[k - 1], sums[k])]
           w == CHOOSE t : Solves(t)
<1>0. n \in Nat
  BY DEF AreResults
<1>1. ToHuman(rs, c).total = w[n]
  <2> DEFINE W(k) == FilterWarningsOnly(ApplyFilter(rs[k][2], c), c)
             R(k) == IF c.warningsOnly THEN FilterFunctionsWithDiagnostics(W(k)) ELSE W(k)
             Section(k) == [input |-> rs[k][1], functions |-> R(k).functions,
                            printed |-> IF c.quiet THEN <<>>
                                        ELSE FlattenSeq([i \in 1 .. Len(R(k).functions) |->
                                               Only(R(k).diagnostics,
                                                    { d \in Range(R(k).diagnostics) :
                                                      d.func = R(k).functions[i].name })]),
                            summary |-> Summary(R(k).diagnostics)]
             secs == [k \in 1 .. n |-> Section(k)]
             SolvesH(t) == t = [k \in 0 .. n |-> IF k = 0 THEN NoDiagnostics
                                                 ELSE AddSummaries(t[k - 1], secs[k].summary)]
  <2>1. ToHuman(rs, c).total = (CHOOSE t : SolvesH(t))[n]
    BY DEF ToHuman
  <2>2. ASSUME NEW k \in 1 .. n PROVE secs[k].summary = sums[k]
    <3>1. W(k) = [functions |-> rs[k][2].functions, diagnostics |-> Visible(rs[k][2].diagnostics, c)]
      BY FilteredIs DEF AreResults
    <3>2. R(k).diagnostics = Visible(rs[k][2].diagnostics, c)
      <4> HIDE DEF W
      <4> QED BY <3>1 DEF FilterFunctionsWithDiagnostics
    <3>3. Parts(rs)[k] = rs[k][2].diagnostics
      BY DEF Parts
    <3>4. secs[k].summary = Summary(R(k).diagnostics)
      <4> HIDE DEF R
      <4> QED OBVIOUS
    <3> HIDE DEF secs, R
    <3> QED BY <3>2, <3>3, <3>4
  <2> HIDE DEF secs, sums
  <2>3. ASSUME NEW t
        PROVE  [k \in 0 .. n |-> IF k = 0 THEN NoDiagnostics ELSE AddSummaries(t[k - 1], secs[k].summary)]
               = [k \in 0 .. n |-> IF k = 0 THEN NoDiagnostics ELSE AddSummaries(t[k - 1], sums[k])]
    <3>1. \A k \in 0 .. n : k # 0 => k \in 1 .. n
      BY <1>0
    <3> QED BY <2>2, <3>1
  <2>4. \A t : SolvesH(t) <=> Solves(t)
    BY <2>3
  <2> HIDE DEF SolvesH, Solves
  <2>5. (CHOOSE t : SolvesH(t)) = (CHOOSE t : Solves(t))
    BY <2>4
  <2> QED BY <2>1, <2>5
<1>2. \E t : Solves(t)
  <2>1. PICK X : sums \in Seq(X)
    <3>1. sums \in [1 .. n -> Range(sums)]
      BY DEF Range
    <3> HIDE DEF sums
    <3>2. sums \in Seq(Range(sums))
      BY <1>0, <3>1
    <3> QED BY <3>2
  <2>2. Len(sums) = n
    BY <1>0
  <2> HIDE DEF sums
  <2>3. PICK t : DOMAIN t = 0 .. n /\ Accumulates(sums, t)
    BY <2>1, <2>2, AccumulatesExists
  <2> DEFINE k == [i \in 0 .. n |-> t[i]]
  <2>4. \A i \in 0 .. n : k[i] = IF i = 0 THEN NoDiagnostics ELSE AddSummaries(k[i - 1], sums[i])
    <3>1. \A i \in 0 .. n : i = 0 \/ (i \in 1 .. n /\ i - 1 \in 0 .. n)
      BY <1>0
    <3> QED BY <2>2, <2>3, <3>1 DEF Accumulates
  <2>5. k = [i \in 0 .. n |-> k[i]]
    OBVIOUS
  <2> HIDE DEF k
  <2>6. Solves(k)
    BY <2>4, <2>5
  <2> HIDE DEF Solves
  <2> QED BY <2>6
<1>3. Solves(w)
  <2> HIDE DEF Solves
  <2> QED BY <1>2
<1> HIDE DEF w
<1>4. w[0] = NoDiagnostics /\ \A k \in 1 .. n : w[k] = AddSummaries(w[k - 1], Summary(Visible(Parts(rs)[k], c)))
  <2>1. \A k \in 0 .. n : w[k] = IF k = 0 THEN NoDiagnostics ELSE AddSummaries(w[k - 1], sums[k])
    <3> HIDE DEF sums
    <3> QED BY <1>3
  <2> HIDE DEF Solves
  <2>2. \A k \in 1 .. n : k \in 0 .. n /\ k # 0
    BY <1>0
  <2>3. w[0] = NoDiagnostics
    <3>1. 0 \in 0 .. n
      BY <1>0
    <3> HIDE DEF sums, n
    <3> QED BY <2>1, <3>1
  <2>4. \A k \in 1 .. n : sums[k] = Summary(Visible(Parts(rs)[k], c))
    OBVIOUS
  <2> HIDE DEF sums
  <2> QED BY <2>1, <2>2, <2>3, <2>4
<1>5. PICK X : Parts(rs) \in Seq(Seq(X)) /\ Len(Parts(rs)) = n
  BY PartsAreSeqs
<1> HIDE DEF n, Solves
<1>6. w[n] = Summary(Visible(FlattenSeq(Parts(rs)), c))
  BY <1>4, <1>5, SummariesAddUp
<1> QED BY <1>1, <1>6 DEF n

\* A rule of the table has a cwe when one of its diagnostics has.
Tagged(r, ds) ==
  r.cwe = "" <=> \A i \in 1 .. Len(ds) : RuleOf(ds[i]) = r.id => ds[i].cwe = ""

(* For any diagnostics: one entry a rule, tagged when one of its diagnostics is. *)
LEMMA RuleTable ==
  ASSUME NEW ds, IsSeq(ds)
  PROVE  /\ \A i \in 1 .. Len(ds) :
              Cardinality({r \in SarifRules(ds) : r.id = RuleOf(ds[i])}) = 1
         /\ \A r \in SarifRules(ds) : Tagged(r, ds)
<1> DEFINE Named(id) == {i \in 1 .. Len(ds) : RuleOf(ds[i]) = id /\ ds[i].cwe # ""}
           Least(id) == CHOOSE i \in Named(id) : \A j \in Named(id) : i <= j
           First(id) == IF Named(id) = {} THEN "" ELSE ds[Least(id)].cwe
           Ids == {RuleOf(ds[i]) : i \in 1 .. Len(ds)}
<1>0. Len(ds) \in Nat
  BY LenProperties DEF IsSeq
<1>1. SarifRules(ds) = {[id |-> id, cwe |-> First(id)] : id \in Ids}
  BY DEF SarifRules
<1>2. ASSUME NEW id PROVE First(id) = "" <=> Named(id) = {}
  <2>1. CASE Named(id) # {}
    <3>1. Named(id) \in SUBSET Nat
      <4>1. \A i \in 1 .. Len(ds) : i \in Nat
        BY <1>0
      <4>2. \A i \in Named(id) : i \in 1 .. Len(ds)
        OBVIOUS
      <4> HIDE DEF Named
      <4> QED BY <4>1, <4>2
    <3>2. \E i \in Named(id) : \A j \in Named(id) : i <= j
      <4> HIDE DEF Named
      <4> QED BY <2>1, <3>1, LeastNat
    <3>3. Least(id) \in Named(id)
      <4> HIDE DEF Named
      <4> QED BY <3>2
    <3> HIDE DEF Least
    <3>4. ds[Least(id)].cwe # ""
      BY <3>3
    <3> HIDE DEF Named
    <3> QED BY <2>1, <3>4
  <2>2. CASE Named(id) = {}
    BY <2>2
  <2> QED BY <2>1, <2>2
<1>3. ASSUME NEW i \in 1 .. Len(ds)
      PROVE  Cardinality({r \in SarifRules(ds) : r.id = RuleOf(ds[i])}) = 1
  <2> HIDE DEF First
  <2>1. {r \in SarifRules(ds) : r.id = RuleOf(ds[i])}
          = {[id |-> RuleOf(ds[i]), cwe |-> First(RuleOf(ds[i]))]}
    BY <1>1
  <2> QED BY <2>1, FS_Singleton
<1>4. ASSUME NEW r \in SarifRules(ds) PROVE Tagged(r, ds)
  <2>1. PICK id \in Ids : r = [id |-> id, cwe |-> First(id)]
    <3> HIDE DEF First
    <3> QED BY <1>1
  <2>2. r.id = id /\ r.cwe = First(id)
    <3> HIDE DEF First
    <3> QED BY <2>1
  <2>3. Named(id) = {} <=> \A i \in 1 .. Len(ds) : RuleOf(ds[i]) = id => ds[i].cwe = ""
    OBVIOUS
  <2> HIDE DEF First, Named
  <2> QED BY <1>2, <2>2, <2>3 DEF Tagged
<1> QED BY <1>3, <1>4

(* The three formats of a run agree, whatever its results are.              *)
LEMMA SameReport ==
  ASSUME AreResults(results)
  PROVE  LET json  == ToJson(results, cfg)
             sarif == ToSarif(results, cfg)
             human == ToHuman(results, cfg)
             all   == FlattenSeq([i \in 1 .. Len(results) |-> results[i][2].diagnostics])
             kept  == IF cfg.warningsOnly THEN Only(all, Grave(all)) ELSE all
         IN  /\ json.summary = human.total
             /\ \A s \in Severities : json.summary[s] = Count(kept, s)
             /\ [i \in 1 .. Len(json.diagnostics) |-> json.diagnostics[i].rule]
                = [i \in 1 .. Len(sarif.results) |-> sarif.results[i].rule]
             /\ \A i \in 1 .. Len(kept) :
                  Cardinality({ r \in sarif.rules : r.id = RuleOf(kept[i]) }) = 1
             /\ \A r \in sarif.rules :
                  r.cwe = "" <=> \A i \in 1 .. Len(kept) : RuleOf(kept[i]) = r.id => kept[i].cwe = ""
<1> DEFINE json  == ToJson(results, cfg)
           sarif == ToSarif(results, cfg)
           human == ToHuman(results, cfg)
           all   == FlattenSeq([i \in 1 .. Len(results) |-> results[i][2].diagnostics])
           kept  == IF cfg.warningsOnly THEN Only(all, Grave(all)) ELSE all
<1> SUFFICES
      /\ json.summary = human.total
      /\ \A s \in Severities : json.summary[s] = Count(kept, s)
      /\ [i \in 1 .. Len(json.diagnostics) |-> json.diagnostics[i].rule]
         = [i \in 1 .. Len(sarif.results) |-> sarif.results[i].rule]
      /\ \A i \in 1 .. Len(kept) :
           Cardinality({ r \in sarif.rules : r.id = RuleOf(kept[i]) }) = 1
      /\ \A r \in sarif.rules : Tagged(r, kept)
  BY DEF Tagged
<1>1. Visible(FlattenSeq(Parts(results)), cfg) = kept
  BY DEF Visible, Parts
<1> HIDE DEF json, sarif, human, all, kept
<1>2. Written(results, cfg).diagnostics = kept
  BY <1>1, WrittenIs
<1>3. IsSeq(kept) /\ Len(kept) \in Nat
  <2>1. PICK X : Parts(results) \in Seq(Seq(X))
    BY PartsAreSeqs
  <2>2. FlattenSeq(Parts(results)) \in Seq(X)
    BY <2>1, FlattenIsSeq
  <2>3. Visible(FlattenSeq(Parts(results)), cfg) \in Seq(X)
    BY <2>2, VisibleFacts
  <2>4. Visible(FlattenSeq(Parts(results)), cfg) \in Seq(X) => IsSeq(Visible(FlattenSeq(Parts(results)), cfg))
    BY SeqIsSeq
  <2> QED BY <1>1, <2>3, <2>4, LenProperties
<1>4. human.total = Summary(kept)
  BY <1>1, HumanTotalIs DEF human
<1>5. /\ json.summary = Summary(kept)
      /\ json.diagnostics
           = [i \in 1 .. Len(kept) |->
                [id |-> i, func |-> kept[i].func, file |-> kept[i].file,
                 severity |-> kept[i].severity, rule |-> RuleOf(kept[i])]]
  BY <1>2 DEF ToJson, json
<1>6. /\ sarif.rules = SarifRules(kept)
      /\ sarif.results
           = [i \in 1 .. Len(kept) |->
                [rule |-> RuleOf(kept[i]), level |-> Level[kept[i].severity],
                 uri |-> Strip(kept[i].file, cfg.sarifBaseDir),
                 line |-> IF kept[i].line = 0 THEN 1 ELSE kept[i].line,
                 column |-> IF kept[i].column = 0 THEN 1 ELSE kept[i].column]]
  BY <1>2 DEF ToSarif, sarif
<1>7. [i \in 1 .. Len(json.diagnostics) |-> json.diagnostics[i].rule]
        = [i \in 1 .. Len(sarif.results) |-> sarif.results[i].rule]
  <2> DEFINE js == json.diagnostics
             sr == sarif.results
  <2>1. Len(js) = Len(kept) /\ \A i \in 1 .. Len(kept) : js[i].rule = RuleOf(kept[i])
    BY <1>3, <1>5
  <2>2. Len(sr) = Len(kept) /\ \A i \in 1 .. Len(kept) : sr[i].rule = RuleOf(kept[i])
    BY <1>3, <1>6
  <2> HIDE DEF js, sr
  <2>3. [i \in 1 .. Len(js) |-> js[i].rule] = [i \in 1 .. Len(sr) |-> sr[i].rule]
    BY <2>1, <2>2
  <2> QED BY <2>3 DEF js, sr
<1>8. \A s \in Severities : Summary(kept)[s] = Count(kept, s)
  BY DEF Summary
<1>9. /\ \A i \in 1 .. Len(kept) :
            Cardinality({r \in SarifRules(kept) : r.id = RuleOf(kept[i])}) = 1
      /\ \A r \in SarifRules(kept) : Tagged(r, kept)
  BY <1>3, RuleTable
<1>10. json.summary = human.total /\ \A s \in Severities : json.summary[s] = Count(kept, s)
  BY <1>4, <1>5, <1>8
<1>11. \A i \in 1 .. Len(kept) : Cardinality({r \in sarif.rules : r.id = RuleOf(kept[i])}) = 1
  <2> DEFINE N(T, id) == Cardinality({r \in T : r.id = id})
  <2>1. \A i \in 1 .. Len(kept) : N(SarifRules(kept), RuleOf(kept[i])) = 1
    BY <1>9
  <2> SUFFICES \A i \in 1 .. Len(kept) : N(sarif.rules, RuleOf(kept[i])) = 1
    OBVIOUS
  <2> HIDE DEF N
  <2> QED BY <1>6, <2>1
<1>12. \A r \in sarif.rules : Tagged(r, kept)
  BY <1>6, <1>9
<1> QED BY <1>7, <1>10, <1>11, <1>12

-----------------------------------------------------------------------------
LEMMA EntriesKeep ==
  ASSUME NEW key, NEW text, NEW dir, NEW c, NEW e \in EntryEffect(key, text, dir, c),
         NEW f \in OwnFields \ {"configPath"}
  PROVE  f \notin DOMAIN e
<1> DEFINE k == Fold(key)
           v == IF text \in DOMAIN Unquoted THEN Unquoted[text] ELSE text
           opt == KeyOption[k]
<1>0. f \in {"excludeDirs", "inputFilenames"} /\ f \in OwnFields
  BY DEF OwnFields
<1>4. OneKind(opt) /\ "--compdb" \in CompdbOptions
  BY KindsAreDistinct DEF CompdbOptions
<1>1. CASE k \in DOMAIN BoolKey
  <2>1. k \notin DOMAIN KeyOption
    BY <1>1 DEF BoolKey, KeyOption
  <2>2. e \in {[g \in {BoolKey[k]} |-> b] : b \in ParseBool(v)}
    BY <1>1, <2>1 DEF EntryEffect
  <2>3. BoolKey[k] # f
    <3> HIDE DEF k
    <3> QED BY <1>0, <1>1 DEF BoolKey
  <2> QED BY <2>2, <2>3
<1>2. CASE k \notin DOMAIN BoolKey \cup DOMAIN KeyOption
  BY <1>2 DEF EntryEffect
<1>3. CASE k \notin DOMAIN BoolKey /\ k \in DOMAIN KeyOption
  <2>1. opt \in ValueOptions /\ opt # "--exclude-dir"
    BY <1>3, OptionTables DEF KeyOption, ValueOptions, CompdbOptions, SmtOptions
  <2>2. CASE opt \in DOMAIN PathField
    <3>1. e = [g \in {PathField[opt]} |-> FromConfig(v, dir)]
      BY <1>3, <1>4, <2>2 DEF EntryEffect, OneKind
    <3>2. PathField[opt] # f
      <4> HIDE DEF opt
      <4> QED BY <1>0, <2>2, OptionTables DEF PathField
    <3> HIDE DEF opt, v
    <3> QED BY <3>1, <3>2
  <2>3. CASE opt \notin DOMAIN PathField /\ opt = "--compdb"
    <3>1. e = [compileCommandsPath |-> FromConfig(v, dir), compileCommandsExplicit |-> TRUE]
      BY <1>3, <1>4, <2>3 DEF EntryEffect, OneKind
    <3> HIDE DEF opt, v
    <3> QED BY <1>0, <3>1
  <2>4. CASE opt \notin DOMAIN PathField /\ opt # "--compdb" /\ opt \in SmtOptions
    <3>1. e \in SmtEffect(opt, v, c, "config")
      BY <1>3, <2>4 DEF EntryEffect
    <3> HIDE DEF opt, v
    <3> QED BY <1>0, <2>4, <3>1, SmtKeeps
  <2>5. CASE opt \notin DOMAIN PathField /\ opt # "--compdb" /\ opt \notin SmtOptions
    <3>1. e \in ValueEffect(opt, v, c)
      BY <1>3, <2>5 DEF EntryEffect
    <3> HIDE DEF opt, v
    <3> QED BY <1>0, <2>1, <3>1, OthersKeep
  <2> QED BY <2>2, <2>3, <2>4, <2>5
<1> QED BY <1>1, <1>2, <1>3

-----------------------------------------------------------------------------
\* The lists of the command line.

Reading == {"args", "ok", "plan", "analyze", "emit", "file", "done"}

Before(n, opt) == {i \in Heads \cap 1 .. Len(argv) : i < n /\ OptionAt(i) = opt}

NamedBefore(n, text) == {i \in InputHeads(Heads) : i < n /\ argv[i] = text}

PiecesAt(i) == Range(Csv(ValueAt(i)))

Times(s, text) == Cardinality({k \in 1 .. Len(s) : s[k] = text})

\* named are the inputs and excluded the excluded directories before argument n.
ListsAre(n, named, excluded) ==
  /\ named \in Seq(Range(TextOrder)) /\ IsSeq(excluded)
  /\ \A text \in Range(TextOrder) : Times(named, text) = Cardinality(NamedBefore(n, text))
  /\ Range(excluded) = UNION {PiecesAt(i) : i \in Before(n, "--exclude-dir")}

ListIInv ==
  /\ phase \in {"scan", "config"} => cfg.inputFilenames = <<>> /\ cfg.excludeDirs = <<>>
  /\ phase \in Reading => ListsAre(pos, cfg.inputFilenames, cfg.excludeDirs)
  /\ phase \in Reading \ {"args"} => pos > Len(argv)

LEMMA ListsStay ==
  ASSUME UNCHANGED argv
  PROVE  \A n, named, excluded : ListsAre(n, named, excluded)' <=> ListsAre(n, named, excluded)
<1>1. Heads' = Heads
  BY ArgumentsStay
<1>2. \A i : /\ OptionAt(i)' = OptionAt(i) /\ HasInline(i)' = HasInline(i)
             /\ ValueAt(i)' = ValueAt(i) /\ Help(i)' = Help(i) /\ IsFlag(i)' = IsFlag(i)
  BY DEF OptionAt, HasInline, ValueAt, Help, IsFlag
<1>3. \A i : TakesValue(i)' = TakesValue(i) /\ PiecesAt(i)' = PiecesAt(i)
  BY <1>2 DEF TakesValue, PiecesAt
<1>4. \A n, opt : Before(n, opt)' = Before(n, opt)
  BY <1>1, <1>2 DEF Before
<1>5. \A n, text : NamedBefore(n, text)' = NamedBefore(n, text)
  BY <1>1, <1>2, <1>3 DEF NamedBefore, InputHeads
<1> QED BY <1>3, <1>4, <1>5 DEF ListsAre

LEMMA TimesFacts ==
  ASSUME NEW X, NEW text
  PROVE  /\ Times(<<>>, text) = 0
         /\ \A s \in Seq(X) : Times(s, text) = Len(Only(s, {text})) /\ Times(s, text) \in Nat
         /\ \A s \in Seq(X), x \in X :
              Times(Append(s, x), text) = Times(s, text) + (IF x = text THEN 1 ELSE 0)
<1>1. ASSUME NEW s \in Seq(X)
      PROVE  /\ Times(s, text) = Len(Only(s, {text})) /\ Times(s, text) \in Nat
             /\ Only(s, {text}) \in Seq(X)
  <2>1. {k \in 1 .. Len(s) : s[k] = text} = {k \in 1 .. Len(s) : s[k] \in {text}}
    OBVIOUS
  <2>2. Only(s, {text}) \in Seq(X) /\ Len(Only(s, {text})) = Cardinality({k \in 1 .. Len(s) : s[k] \in {text}})
    BY OnlyIsSeq, OnlyCounts
  <2> QED BY <2>1, <2>2, LenProperties DEF Times
<1>2. ASSUME NEW s \in Seq(X), NEW x \in X
      PROVE  Times(Append(s, x), text) = Times(s, text) + (IF x = text THEN 1 ELSE 0)
  <2>1. Append(s, x) \in Seq(X)
    BY AppendProperties
  <2>2. Only(Append(s, x), {text}) = IF x = text THEN Append(Only(s, {text}), x) ELSE Only(s, {text})
    BY OnlyAppend
  <2>3. Len(Append(Only(s, {text}), x)) = Len(Only(s, {text})) + 1
    BY <1>1, AppendProperties
  <2>4. /\ Times(Append(s, x), text) = Len(Only(Append(s, x), {text}))
        /\ Times(s, text) = Len(Only(s, {text})) /\ Times(s, text) \in Nat
    BY <1>1, <2>1
  <2>5. CASE x = text
    BY <2>2, <2>3, <2>4, <2>5
  <2>6. CASE x # text
    BY <2>2, <2>4, <2>6
  <2> QED BY <2>5, <2>6
<1>3. Times(<<>>, text) = 0
  <2>1. {k \in 1 .. Len(<<>>) : <<>>[k] = text} = {}
    BY EmptySeq
  <2> QED BY <2>1, FS_EmptySet DEF Times
<1> QED BY <1>1, <1>2, <1>3

LEMMA CsvIsSeq ==
  ASSUME CliInputs, NEW text
  PROVE  IsSeq(Csv(text))
<1> DEFINE pieces == IF text \in DOMAIN Pieces THEN Pieces[text] ELSE <<text>>
<1>1. \E X : pieces \in Seq(X)
  <2>1. CASE text \in DOMAIN Pieces
    BY <2>1 DEF CliInputs, IsSeq
  <2>2. CASE text \notin DOMAIN Pieces
    <3>1. <<text>> \in Seq({text})
      OBVIOUS
    <3> QED BY <2>2, <3>1
  <2> QED BY <2>1, <2>2
<1> HIDE DEF pieces
<1>2. PICK X : pieces \in Seq(X)
  BY <1>1
<1>3. Only(pieces, Range(pieces) \ {""}) \in Seq(X)
  BY <1>2, OnlyIsSeq
<1>4. Csv(text) = Only(pieces, Range(pieces) \ {""})
  BY DEF Csv, pieces
<1> QED BY <1>3, <1>4, SeqIsSeq

LEMMA ExcludeAppends ==
  ASSUME NEW v, NEW c, NEW e \in ValueEffect("--exclude-dir", v, c)
  PROVE  "excludeDirs" \in DOMAIN e /\ e["excludeDirs"] = c["excludeDirs"] \o Csv(v)
<1>1. "--exclude-dir" \in DOMAIN CsvField /\ CsvField["--exclude-dir"] = "excludeDirs"
  BY DEF CsvField
<1>2. OneKind("--exclude-dir")
  BY KindsAreDistinct
<1>3. e = [f \in {CsvField["--exclude-dir"]} |-> c[f] \o Csv(v)]
  BY <1>1, <1>2 DEF ValueEffect, OneKind
<1> QED BY <1>1, <1>3

LEMMA ExcludeTakesValue ==
  ASSUME NEW i, OptionAt(i) = "--exclude-dir"
  PROVE  TakesValue(i)
<1>1. OptionAt(i) \in ValueOptions /\ OptionAt(i) # "--mode"
  BY OptionTables DEF ValueOptions
<1> QED BY <1>1 DEF TakesValue

(* Between an argument and the next the second reading goes on with there  *)
(* is no head.                                                             *)
LEMMA NextIsNext ==
  ASSUME CliInputs, CliTypeOK, phase = "args", pos <= Len(argv),
         NEW n, n = IF TakesValue(pos) THEN pos + Width(pos) ELSE pos + 1
  PROVE  /\ pos \in Heads \cap 1 .. Len(argv)
         /\ \A i \in Heads : i < n <=> i < pos \/ i = pos
         /\ ~(pos < pos)
<1>1. pos \in Heads \cap 1 .. Len(argv) /\ pos \in Nat /\ Len(argv) \in Nat
  BY ArgvIsSeq DEF CliTypeOK
<1>2. Heads \subseteq Nat
  <2>1. Heads \in SUBSET (1 .. Len(argv) + 2)
    BY <1>1, HeadsAreCut
  <2>2. 1 .. Len(argv) + 2 \subseteq Nat
    BY <1>1
  <2> QED BY <2>1, <2>2
<1>3. Width(pos) \in {1, 2} /\ (TakesValue(pos) /\ Width(pos) = 2 => pos + 1 \notin Heads)
  BY WidthIsSplit
<1>4. ASSUME NEW i \in Heads PROVE i < n <=> i < pos \/ i = pos
  <2>1. i \in Nat
    BY <1>2
  <2>2. CASE n = pos + 1
    BY <1>1, <2>1, <2>2
  <2>3. CASE n = pos + 2 /\ pos + 1 \notin Heads
    <3>1. i # pos + 1
      BY <2>3
    <3> QED BY <1>1, <2>1, <2>3, <3>1
  <2> QED BY <1>1, <1>3, <2>2, <2>3
<1>5. ~(pos < pos)
  BY <1>1
<1> QED BY <1>1, <1>4, <1>5

(* What an argument that is no input leaves, and what an input adds.       *)
LEMMA NamedGoesOn ==
  ASSUME CliInputs, CliTypeOK, phase = "args", pos <= Len(argv),
         NEW n, n = IF TakesValue(pos) THEN pos + Width(pos) ELSE pos + 1, NEW text
  PROVE  /\ pos \notin InputHeads(Heads) => NamedBefore(n, text) = NamedBefore(pos, text)
         /\ pos \in InputHeads(Heads) /\ argv[pos] = text =>
              NamedBefore(n, text) = NamedBefore(pos, text) \cup {pos}
         /\ argv[pos] # text => NamedBefore(n, text) = NamedBefore(pos, text)
         /\ IsFiniteSet(NamedBefore(pos, text)) /\ pos \notin NamedBefore(pos, text)
<1>1. \A i \in Heads : i < n <=> i < pos \/ i = pos
  BY NextIsNext
<1>2. ~(pos < pos)
  BY NextIsNext
<1>3. InputHeads(Heads) \subseteq Heads /\ InputHeads(Heads) \subseteq 1 .. Len(argv)
  BY DEF InputHeads
<1>4. IsFiniteSet(NamedBefore(pos, text))
  <2>1. IsFiniteSet(1 .. Len(argv))
    BY ArgvIsSeq, FS_Interval
  <2>2. NamedBefore(pos, text) \in SUBSET (1 .. Len(argv))
    BY <1>3 DEF NamedBefore
  <2> QED BY <2>1, <2>2, FS_Subset
<1> QED BY <1>1, <1>2, <1>3, <1>4 DEF NamedBefore

LEMMA ExcludedGoesOn ==
  ASSUME CliInputs, CliTypeOK, phase = "args", pos <= Len(argv),
         NEW n, n = IF TakesValue(pos) THEN pos + Width(pos) ELSE pos + 1
  PROVE  Before(n, "--exclude-dir")
           = Before(pos, "--exclude-dir") \cup (IF OptionAt(pos) = "--exclude-dir" THEN {pos} ELSE {})
<1>1. \A i \in Heads : i < n <=> i < pos \/ i = pos
  BY NextIsNext
<1>2. pos \in Heads \cap 1 .. Len(argv)
  BY NextIsNext
<1> QED BY <1>1, <1>2 DEF Before

LEMMA ListsBegin ==
  ASSUME CliInputs, CliTypeOK
  PROVE  ListsAre(1, <<>>, <<>>)
<1>1. \A i \in Heads : ~(i < 1)
  <2>1. Heads \in SUBSET (1 .. Len(argv) + 2) /\ Len(argv) \in Nat
    BY ArgvIsSeq, HeadsAreCut
  <2>2. \A i \in 1 .. Len(argv) + 2 : ~(i < 1)
    BY <2>1
  <2> QED BY <2>1, <2>2
<1>2. Before(1, "--exclude-dir") = {} /\ \A text : NamedBefore(1, text) = {}
  BY <1>1 DEF Before, NamedBefore, InputHeads
<1>3. \A text : Times(<<>>, text) = 0 /\ Cardinality({}) = 0
  BY TimesFacts, FS_EmptySet
<1>4. Range(<<>>) = {} /\ <<>> \in Seq(Range(TextOrder)) /\ <<>> \in Seq({})
  BY EmptySeq DEF Range
<1>5. IsSeq(<<>>)
  BY <1>4 DEF IsSeq
<1> QED BY <1>2, <1>3, <1>4, <1>5 DEF ListsAre

LEMMA ListsGoOn ==
  ASSUME CliInputs, PlanInputs, CliTypeOK, phase = "args", pos <= Len(argv),
         NEW n, n = IF TakesValue(pos) THEN pos + Width(pos) ELSE pos + 1,
         NEW named, NEW excluded, ListsAre(pos, named, excluded)
  PROVE  /\ pos \notin InputHeads(Heads) /\ OptionAt(pos) # "--exclude-dir" =>
              ListsAre(n, named, excluded)
         /\ OptionAt(pos) = "--exclude-dir" =>
              ListsAre(n, named, excluded \o Csv(ValueAt(pos)))
         /\ pos \in InputHeads(Heads) => ListsAre(n, Append(named, argv[pos]), excluded)
<1>0. pos \in Heads \cap 1 .. Len(argv)
  BY NextIsNext
<1>1. ASSUME pos \notin InputHeads(Heads)
      PROVE  \A text \in Range(TextOrder) : Times(named, text) = Cardinality(NamedBefore(n, text))
  BY <1>1, NamedGoesOn DEF ListsAre
<1>2. ASSUME OptionAt(pos) # "--exclude-dir"
      PROVE  Range(excluded) = UNION {PiecesAt(i) : i \in Before(n, "--exclude-dir")}
  <2>1. Before(n, "--exclude-dir") = Before(pos, "--exclude-dir")
    BY <1>2, ExcludedGoesOn
  <2> QED BY <2>1 DEF ListsAre
<1>3. ASSUME OptionAt(pos) = "--exclude-dir"
      PROVE  /\ pos \notin InputHeads(Heads) /\ IsSeq(excluded \o Csv(ValueAt(pos)))
             /\ Range(excluded \o Csv(ValueAt(pos)))
                  = UNION {PiecesAt(i) : i \in Before(n, "--exclude-dir")}
  <2>1. pos \notin InputHeads(Heads)
    BY <1>3, ExcludeTakesValue DEF InputHeads
  <2> DEFINE s == Csv(ValueAt(pos))
             X == Range(excluded) \cup Range(s)
  <2>2. IsSeq(s) /\ IsSeq(excluded)
    BY CsvIsSeq DEF ListsAre
  <2>3. s \in Seq(X) /\ excluded \in Seq(X)
    <3>1. Range(s) \subseteq X /\ Range(excluded) \subseteq X
      OBVIOUS
    <3> HIDE DEF s, X
    <3>2. s \in Seq(X)
      BY <2>2, <3>1, SeqMonotonic DEF IsSeq
    <3>3. excluded \in Seq(X)
      BY <2>2, <3>1, SeqMonotonic DEF IsSeq
    <3> QED BY <3>2, <3>3
  <2>4. Range(s) = PiecesAt(pos)
    BY DEF PiecesAt
  <2> HIDE DEF s, X
  <2>5. excluded \o s \in Seq(X) /\ Range(excluded \o s) = Range(excluded) \cup Range(s)
    BY <2>3, ConcatProperties, RangeConcatenation
  <2>6. IsSeq(excluded \o s)
    BY <2>5, SeqIsSeq
  <2>7. Before(n, "--exclude-dir") = Before(pos, "--exclude-dir") \cup {pos}
    BY <1>3, ExcludedGoesOn
  <2>8. Range(excluded) = UNION {PiecesAt(i) : i \in Before(pos, "--exclude-dir")}
    BY DEF ListsAre
  <2>9. Range(excluded \o s) = UNION {PiecesAt(i) : i \in Before(n, "--exclude-dir")}
    BY <2>4, <2>5, <2>7, <2>8
  <2> QED BY <2>1, <2>6, <2>9 DEF s
<1>4. ASSUME pos \in InputHeads(Heads)
      PROVE  ListsAre(n, Append(named, argv[pos]), excluded)
  <2>1. OptionAt(pos) # "--exclude-dir"
    BY <1>4, ExcludeTakesValue DEF InputHeads
  <2>2. argv[pos] \in Range(TextOrder)
    <3>1. argv[pos] \in Range(argv) /\ argv \in Commands
      <4>1. argv \in Seq(STRING) /\ argv \in Commands
        BY ArgvIsSeq DEF CliTypeOK
      <4>2. pos \in DOMAIN argv
        BY <1>0, <4>1, LenProperties
      <4> QED BY <4>1, <4>2 DEF Range
    <3> QED BY <1>4, <3>1 DEF PlanInputs, InputHeads
  <2>3. named \in Seq(Range(TextOrder)) /\ IsSeq(excluded)
    BY DEF ListsAre
  <2>4. Append(named, argv[pos]) \in Seq(Range(TextOrder))
    BY <2>2, <2>3, AppendProperties
  <2>5. ASSUME NEW text \in Range(TextOrder)
        PROVE  Times(Append(named, argv[pos]), text) = Cardinality(NamedBefore(n, text))
    <3>1. Times(Append(named, argv[pos]), text)
            = Times(named, text) + (IF argv[pos] = text THEN 1 ELSE 0)
      BY <2>2, <2>3, TimesFacts
    <3>2. Times(named, text) = Cardinality(NamedBefore(pos, text)) /\ Times(named, text) \in Nat
      BY <2>3, TimesFacts DEF ListsAre
    <3>3. CASE argv[pos] = text
      <4>1. /\ NamedBefore(n, text) = NamedBefore(pos, text) \cup {pos}
            /\ IsFiniteSet(NamedBefore(pos, text)) /\ pos \notin NamedBefore(pos, text)
        BY <1>4, <3>3, NamedGoesOn
      <4>2. Cardinality(NamedBefore(pos, text) \cup {pos}) = Cardinality(NamedBefore(pos, text)) + 1
        BY <4>1, FS_AddElement
      <4> QED BY <3>1, <3>2, <3>3, <4>1, <4>2
    <3>4. CASE argv[pos] # text
      <4>1. NamedBefore(n, text) = NamedBefore(pos, text)
        BY <3>4, NamedGoesOn
      <4> QED BY <3>1, <3>2, <3>4, <4>1
    <3> QED BY <3>3, <3>4
  <2> QED BY <1>2, <2>1, <2>3, <2>4, <2>5 DEF ListsAre
<1> QED BY <1>1, <1>2, <1>3, <1>4 DEF ListsAre

LEMMA ListInit == CliInit => ListIInv
<1>1. DefaultConfig.inputFilenames = <<>> /\ DefaultConfig.excludeDirs = <<>>
  BY DEF DefaultConfig
<1> QED BY <1>1 DEF CliInit, ListIInv, Reading

(* A step of the parser that reads what is no input and excludes nothing.  *)
LEMMA ListStep ==
  ASSUME CliInputs, PlanInputs, CliTypeOK, ListIInv, CliNext
  PROVE  ListIInv'
<1>0. /\ pos \in Nat /\ Len(argv) \in Nat /\ UNCHANGED argv
      /\ DOMAIN DefaultConfig \subseteq DOMAIN cfg
  BY ArgvIsSeq DEF CliTypeOK, CliNext, ScanMeta, OpenConfig, ConfigLine, CloseConfig, AskHelp,
                   SetFlag, SetValue, Reject, AddInput, Accept
<1>1. \A n, named, excluded : ListsAre(n, named, excluded)' <=> ListsAre(n, named, excluded)
  BY <1>0, ListsStay
<1>2. /\ {"excludeDirs", "inputFilenames"} \subseteq DOMAIN DefaultConfig
      /\ {"excludeDirs", "inputFilenames"} \subseteq DOMAIN cfg
      /\ {"excludeDirs", "inputFilenames"} = OwnFields \ {"configPath"}
  <2>1. {"excludeDirs", "inputFilenames"} \subseteq DOMAIN DefaultConfig
    BY DEF DefaultConfig
  <2> QED BY <1>0, <2>1 DEF OwnFields
<1> SUFFICES /\ phase' \in {"scan", "config"} => cfg'.inputFilenames = <<>> /\ cfg'.excludeDirs = <<>>
             /\ phase' \in Reading => ListsAre(pos', cfg'.inputFilenames, cfg'.excludeDirs)
             /\ phase' \in Reading \ {"args"} => pos' > Len(argv)
  <2>1. Reading' = Reading /\ Len(argv)' = Len(argv)
    BY <1>0 DEF Reading
  <2>2. phase' \in Reading => ListsAre(pos, cfg.inputFilenames, cfg.excludeDirs)'
    BY <1>1 DEF ListsAre
  <2> QED BY <2>1, <2>2 DEF ListIInv
<1>3. CASE ScanMeta
  <2>1. phase = "scan" /\ phase' \in {"scan", "error"}
    BY <1>3 DEF ScanMeta, Goto
  <2>2. cfg.inputFilenames = <<>> /\ cfg.excludeDirs = <<>>
    BY <2>1 DEF ListIInv
  <2>3. cfg' = cfg \/ cfg' = [cfg EXCEPT !.printEffectiveConfig = TRUE]
    BY <1>3 DEF ScanMeta
  <2> QED BY <1>2, <2>1, <2>2, <2>3 DEF Reading
<1>4. CASE OpenConfig
  <2>1. /\ phase = "scan" /\ cfg' = cfg
        /\ (phase' = "args" /\ pos' = 1) \/ phase' \in {"error", "config"}
    BY <1>4 DEF OpenConfig, Goto
  <2>2. cfg.inputFilenames = <<>> /\ cfg.excludeDirs = <<>>
    BY <2>1 DEF ListIInv
  <2> QED BY <2>1, <2>2, ListsBegin DEF Reading
<1>5. CASE ConfigLine
  <2>1. phase = "config" /\ phase' \in {"config", "error"}
    BY <1>5 DEF ConfigLine, Goto
  <2>2. cfg.inputFilenames = <<>> /\ cfg.excludeDirs = <<>>
    BY <2>1 DEF ListIInv
  <2>3. cfg'["inputFilenames"] = cfg["inputFilenames"] /\ cfg'["excludeDirs"] = cfg["excludeDirs"]
    <3>1. cfg' = cfg \/ \E key, text, dir : \E e \in EntryEffect(key, text, dir, cfg) : cfg' = Updated(cfg, e)
      BY <1>5 DEF ConfigLine
    <3>2. ASSUME NEW key, NEW text, NEW dir, NEW e \in EntryEffect(key, text, dir, cfg),
                 cfg' = Updated(cfg, e)
          PROVE  cfg'["inputFilenames"] = cfg["inputFilenames"] /\ cfg'["excludeDirs"] = cfg["excludeDirs"]
      <4>1. "inputFilenames" \notin DOMAIN e /\ "excludeDirs" \notin DOMAIN e
        BY <1>2, EntriesKeep
      <4> QED BY <1>0, <1>2, <3>2, <4>1, UpdatedField
    <3> QED BY <3>1, <3>2
  <2> QED BY <2>1, <2>2, <2>3 DEF Reading
<1>6. CASE CloseConfig
  <2>1. phase = "config" /\ phase' = "args" /\ pos' = 1 /\ cfg' = [cfg EXCEPT !.configPath = meta]
    BY <1>6 DEF CloseConfig, Goto
  <2>2. cfg.inputFilenames = <<>> /\ cfg.excludeDirs = <<>>
    BY <2>1 DEF ListIInv
  <2>3. cfg'.inputFilenames = <<>> /\ cfg'.excludeDirs = <<>>
    BY <1>2, <2>1, <2>2
  <2> QED BY <2>1, <2>3, ListsBegin
<1>7. CASE SetFlag
  <2>1. /\ phase = "args" /\ pos <= Len(argv) /\ IsFlag(pos)
        /\ phase' = "args" /\ pos' = pos + 1 /\ cfg' = Updated(cfg, FlagEffect(argv[pos]))
    BY <1>7 DEF SetFlag, Goto
  <2>2. cfg'["inputFilenames"] = cfg["inputFilenames"] /\ cfg'["excludeDirs"] = cfg["excludeDirs"]
    <3>1. "inputFilenames" \notin DOMAIN FlagEffect(argv[pos]) /\ "excludeDirs" \notin DOMAIN FlagEffect(argv[pos])
      BY <1>2, <2>1, FlagsKeep DEF IsFlag
    <3> QED BY <1>0, <1>2, <2>1, <3>1, UpdatedField
  <2>3. ~TakesValue(pos) /\ OptionAt(pos) # "--exclude-dir" /\ pos \notin InputHeads(Heads)
    BY <2>1, FlagTakesNoValue, ExcludeTakesValue DEF InputHeads
  <2>4. ListsAre(pos, cfg.inputFilenames, cfg.excludeDirs)
    BY <2>1 DEF ListIInv, Reading
  <2>5. ListsAre(pos + 1, cfg.inputFilenames, cfg.excludeDirs)
    BY <2>1, <2>3, <2>4, ListsGoOn
  <2> QED BY <2>1, <2>2, <2>5
<1>8. CASE SetValue
  <2>1. /\ phase = "args" /\ pos <= Len(argv) /\ TakesValue(pos)
        /\ phase' = "args" /\ pos' = pos + Width(pos)
    BY <1>8 DEF SetValue, Goto
  <2>2. PICK e \in ValueEffect(OptionAt(pos), ValueAt(pos), cfg) : cfg' = Updated(cfg, e)
    BY <1>8 DEF SetValue
  <2>3. OptionAt(pos) \in ValueOptions /\ pos \notin InputHeads(Heads)
    BY <2>1 DEF TakesValue, InputHeads
  <2>4. ListsAre(pos, cfg.inputFilenames, cfg.excludeDirs)
    BY <2>1 DEF ListIInv, Reading
  <2>5. "inputFilenames" \notin DOMAIN e
    BY <2>3, OthersKeep DEF OwnFields
  <2>6. cfg'["inputFilenames"] = cfg["inputFilenames"]
    BY <1>0, <1>2, <2>2, <2>5, UpdatedField
  <2>7. CASE OptionAt(pos) = "--exclude-dir"
    <3>1. cfg'["excludeDirs"] = cfg["excludeDirs"] \o Csv(ValueAt(pos))
      BY <1>0, <1>2, <2>2, <2>7, ExcludeAppends, UpdatedField
    <3>2. ListsAre(pos + Width(pos), cfg.inputFilenames, cfg.excludeDirs \o Csv(ValueAt(pos)))
      BY <2>1, <2>4, <2>7, ListsGoOn
    <3> QED BY <2>1, <2>6, <3>1, <3>2
  <2>8. CASE OptionAt(pos) # "--exclude-dir"
    <3>1. "excludeDirs" \notin DOMAIN e
      BY <2>3, <2>8, OthersKeep DEF OwnFields
    <3>2. cfg'["excludeDirs"] = cfg["excludeDirs"]
      BY <1>0, <1>2, <2>2, <3>1, UpdatedField
    <3>3. ListsAre(pos + Width(pos), cfg.inputFilenames, cfg.excludeDirs)
      BY <2>1, <2>3, <2>4, <2>8, ListsGoOn
    <3> QED BY <2>1, <2>6, <3>2, <3>3
  <2> QED BY <2>7, <2>8
<1>9. CASE AddInput
  <2>1. /\ phase = "args" /\ pos <= Len(argv) /\ phase' = "args" /\ pos' = pos + 1
        /\ ~Help(pos) /\ ~IsFlag(pos) /\ ~TakesValue(pos) /\ argv[pos] \notin Dashed
        /\ cfg' = [cfg EXCEPT !.inputFilenames = Append(@, argv[pos])]
    BY <1>9 DEF AddInput, Goto
  <2>2. pos \in InputHeads(Heads)
    BY <2>1, NextIsNext DEF InputHeads
  <2>3. /\ cfg'.inputFilenames = Append(cfg.inputFilenames, argv[pos])
        /\ cfg'.excludeDirs = cfg.excludeDirs
    BY <1>2, <2>1
  <2>4. ListsAre(pos, cfg.inputFilenames, cfg.excludeDirs)
    BY <2>1 DEF ListIInv, Reading
  <2>5. ListsAre(pos + 1, Append(cfg.inputFilenames, argv[pos]), cfg.excludeDirs)
    BY <2>1, <2>2, <2>4, ListsGoOn
  <2> QED BY <2>1, <2>3, <2>5
<1>10. CASE Accept
  <2>1. phase = "args" /\ pos > Len(argv) /\ phase' = "ok" /\ pos' = pos /\ cfg' = cfg
    BY <1>10 DEF Accept, Goto
  <2>2. ListsAre(pos, cfg.inputFilenames, cfg.excludeDirs)
    BY <2>1 DEF ListIInv, Reading
  <2> QED BY <2>1, <2>2
<1>11. CASE AskHelp \/ Reject
  BY <1>11 DEF AskHelp, Reject, Goto, Reading
<1> QED BY <1>3, <1>4, <1>5, <1>6, <1>7, <1>8, <1>9, <1>10, <1>11 DEF CliNext

-----------------------------------------------------------------------------
\* The rest of main.

\* What the run has planned, shown and found.
RunIInv ==
  /\ phase \in {"scan", "config", "args", "ok"} => shown = <<>>
  /\ phase \in Reading /\ shown # <<>> => shown[1].profile = cfg.profile
  /\ phase \in {"analyze", "emit", "file", "done"} =>
       ~PlanFails(cfg) /\ plan = BuildPlan(cfg) /\ said = InterprocStatus(cfg, plan)
  /\ phase \in {"emit", "file", "done"} =>
       /\ \A i \in 1 .. Len(plan.inputs) : plan.inputs[i] \notin Unloadable
       /\ results = [i \in 1 .. Len(plan.inputs) |->
                        <<plan.inputs[i], AnalyzeInput(plan.inputs[i], cfg)>>]

FrontIInv == CliIInv /\ ListIInv /\ RunIInv

LEMMA RunStep ==
  ASSUME RunIInv, CliInputs, CliTypeOK, [FrontNext]_frontVars
  PROVE  RunIInv'
<1>0. Reading' = Reading
  BY DEF Reading
<1>1. CASE CliNext /\ UNCHANGED outVars
  <2>1. phase \in {"scan", "config", "args"} /\ phase' \in {"scan", "config", "args", "ok", "help", "error"}
    BY <1>1 DEF CliNext, ScanMeta, OpenConfig, ConfigLine, CloseConfig, AskHelp, SetFlag,
                SetValue, Reject, AddInput, Accept, Goto
  <2>2. shown' = shown /\ shown = <<>>
    BY <1>1, <2>1 DEF outVars, RunIInv
  <2> QED BY <1>0, <2>1, <2>2 DEF RunIInv
<1>2. CASE PrintConfig
  <2>1. /\ phase' = "plan" /\ cfg' = cfg
        /\ shown' # <<>> => shown' = <<[config |-> cfg.configPath, profile |-> cfg.profile,
                                       jobs |-> IF cfg.jobsAuto THEN 0 ELSE cfg.jobs,
                                       smt |-> cfg.smtEnabled]>>
    BY <1>2 DEF PrintConfig
  <2>2. shown' # <<>> => shown'[1].profile = cfg.profile
    BY <2>1
  <2> QED BY <1>0, <2>1, <2>2 DEF RunIInv
<1>3. CASE MakePlan
  <2>1. phase = "plan" /\ cfg' = cfg /\ shown' = shown
    BY <1>3 DEF MakePlan
  <2>2. shown # <<>> => shown[1].profile = cfg.profile
    BY <2>1 DEF RunIInv, Reading
  <2>3. CASE phase' = "error"
    BY <1>0, <2>3 DEF RunIInv, Reading
  <2>4. CASE ~PlanFails(cfg) /\ plan' = BuildPlan(cfg) /\ said' = InterprocStatus(cfg, plan')
             /\ phase' = "analyze"
    <3>1. ~PlanFails(cfg') /\ plan' = BuildPlan(cfg') /\ said' = InterprocStatus(cfg', plan')
      BY <2>1, <2>4
    <3> QED BY <1>0, <2>1, <2>2, <2>4, <3>1 DEF RunIInv
  <2> QED BY <1>3, <2>3, <2>4 DEF MakePlan
<1>4. CASE AnalyzeInputs
  <2>1. /\ phase = "analyze" /\ UNCHANGED <<cfg, plan, shown, said>>
        /\ \/ phase' = "error"
           \/ /\ phase' = "emit"
              /\ \A i \in 1 .. Len(plan.inputs) : plan.inputs[i] \notin Unloadable
              /\ results' = [i \in 1 .. Len(plan.inputs) |->
                                <<plan.inputs[i], AnalyzeInput(plan.inputs[i], cfg)>>]
    BY <1>4 DEF AnalyzeInputs
  <2>2. /\ shown # <<>> => shown[1].profile = cfg.profile
        /\ ~PlanFails(cfg) /\ plan = BuildPlan(cfg) /\ said = InterprocStatus(cfg, plan)
    BY <2>1 DEF RunIInv, Reading
  <2>3. CASE phase' = "error"
    BY <1>0, <2>3 DEF RunIInv, Reading
  <2>4. CASE phase' = "emit"
    BY <1>0, <2>1, <2>2, <2>4 DEF RunIInv
  <2> QED BY <2>1, <2>3, <2>4
<1>5. CASE EmitReport \/ WriteSarifFile
  <2>1. /\ phase \in {"emit", "file"} /\ phase' \in {"file", "done", "error"}
        /\ UNCHANGED <<cfg, plan, shown, said, results>>
    BY <1>5 DEF EmitReport, WriteSarifFile
  <2>2. /\ shown # <<>> => shown[1].profile = cfg.profile
        /\ ~PlanFails(cfg) /\ plan = BuildPlan(cfg) /\ said = InterprocStatus(cfg, plan)
        /\ \A i \in 1 .. Len(plan.inputs) : plan.inputs[i] \notin Unloadable
        /\ results = [i \in 1 .. Len(plan.inputs) |->
                         <<plan.inputs[i], AnalyzeInput(plan.inputs[i], cfg)>>]
    BY <2>1 DEF RunIInv, Reading
  <2> QED BY <1>0, <2>1, <2>2 DEF RunIInv
<1>6. CASE UNCHANGED frontVars
  <2>1. UNCHANGED <<phase, cfg, plan, shown, said, results>>
    BY <1>6 DEF frontVars, cliVars, outVars
  <2> QED BY <1>0, <2>1 DEF RunIInv
<1> QED BY <1>1, <1>2, <1>3, <1>4, <1>5, <1>6 DEF FrontNext

-----------------------------------------------------------------------------
LEMMA FrontIInvInit ==
  ASSUME CliInputs
  PROVE  FrontInit => FrontIInv
<1> SUFFICES ASSUME FrontInit PROVE FrontIInv
  OBVIOUS
<1>1. CliIInv /\ ListIInv
  BY IInvInit, ListInit DEF FrontInit
<1>2. phase = "scan" /\ shown = <<>>
  BY DEF FrontInit, CliInit
<1> QED BY <1>1, <1>2 DEF FrontIInv, RunIInv, Reading

LEMMA FrontIInvStep ==
  ASSUME CliInputs, PlanInputs
  PROVE  FrontIInv /\ [FrontNext]_frontVars => FrontIInv'
<1> SUFFICES ASSUME FrontIInv, [FrontNext]_frontVars PROVE FrontIInv'
  OBVIOUS
<1>1. CliIInv /\ ListIInv /\ RunIInv /\ CliTypeOK
  BY DEF FrontIInv, CliIInv
<1>2. CliIInv' /\ RunIInv'
  BY <1>1, IInvStep, RunStep
<1>3. CASE CliNext
  BY <1>1, <1>2, <1>3, ListStep DEF FrontIInv
<1>4. CASE PrintConfig \/ MakePlan \/ AnalyzeInputs \/ EmitReport \/ WriteSarifFile \/ UNCHANGED frontVars
  <2>1. /\ UNCHANGED <<argv, pos, cfg>>
        /\ \/ phase' = phase
           \/ phase \in Reading \ {"args"} /\ phase' \in {"plan", "analyze", "emit", "file", "done", "error"}
    <3>1. CASE UNCHANGED frontVars
      BY <3>1 DEF frontVars, cliVars
    <3> QED BY <1>4, <3>1 DEF PrintConfig, MakePlan, AnalyzeInputs, EmitReport, WriteSarifFile, Reading
  <2>2. \A n, named, excluded : ListsAre(n, named, excluded)' <=> ListsAre(n, named, excluded)
    BY <2>1, ListsStay
  <2>3. phase' \in {"scan", "config"} => phase \in {"scan", "config"}
    BY <2>1
  <2>4. phase' \in Reading => phase \in Reading
    BY <2>1
  <2>5. phase' \in Reading \ {"args"} => phase \in Reading \ {"args"}
    BY <2>1
  <2>6. phase' \in Reading => ListsAre(pos, cfg.inputFilenames, cfg.excludeDirs)'
    <3>1. phase' \in Reading => ListsAre(pos', cfg'.inputFilenames, cfg'.excludeDirs)
      BY <1>1, <2>1, <2>4 DEF ListIInv
    <3> QED BY <2>2, <3>1 DEF ListsAre
  <2>7. Reading' = Reading /\ Len(argv)' = Len(argv)
    BY <2>1 DEF Reading
  <2>8. phase' \in {"scan", "config"} => cfg'.inputFilenames = <<>> /\ cfg'.excludeDirs = <<>>
    BY <1>1, <2>1, <2>3 DEF ListIInv
  <2>9. phase' \in Reading \ {"args"} => pos' > Len(argv)'
    BY <1>1, <2>1, <2>5, <2>7 DEF ListIInv
  <2> QED BY <1>2, <2>6, <2>7, <2>8, <2>9 DEF FrontIInv, ListIInv
<1> QED BY <1>3, <1>4 DEF FrontNext

(* The invariant of a whole run: what the arguments have said so far, then  *)
(* the plan and the results that follow from it (main.cpp, RunPlanBuilder,  *)
(* AnalyzerApp::run).                                                       *)
THEOREM FrontInvariant == FrontSpec => []FrontIInv
<1>1. CliInputs /\ PlanInputs
  BY FrontEndAssumption
<1> QED BY <1>1, FrontIInvInit, FrontIInvStep, PTL DEF FrontSpec

-----------------------------------------------------------------------------
\* The inputs of the plan and their results.

LEMMA CompdbIsThere ==
  ASSUME NEW c, CompdbLoads(c), AutoDiscovered(c)
  PROVE  c.compileCommandsPath \in DOMAIN Compdb
BY Zenon DEF CompdbLoads, AutoDiscovered

LEMMA KeptIsSeq ==
  ASSUME PlanInputs, NEW c, CompdbLoads(c), c.inputFilenames \in Seq(Range(TextOrder))
  PROVE  Kept(c) \in Seq(Range(TextOrder)) /\ Discovered(c) \in Seq(Range(TextOrder))
<1>1. Discovered(c) \in Seq(Range(TextOrder))
  <2>1. CASE AutoDiscovered(c)
    <3>1. Compdb[c.compileCommandsPath] \in Seq(Range(TextOrder))
      BY <2>1, CompdbIsThere DEF PlanInputs
    <3>2. \E S : Discovered(c) = Only(Compdb[c.compileCommandsPath], S)
      BY <2>1, Zenon DEF Discovered
    <3> QED BY <3>1, <3>2, OnlyIsSeq
  <2>2. CASE ~AutoDiscovered(c)
    BY <2>2 DEF Discovered
  <2> QED BY <2>1, <2>2
<1> QED BY <1>1, OnlyIsSeq DEF Kept, Included

LEMMA SortedIsSeq ==
  ASSUME PlanInputs, NEW X, NEW s \in Seq(X)
  PROVE  Sorted(s) \in Seq(X)
<1> DEFINE ss == [i \in 1 .. Len(TextOrder) |-> Only(s, {TextOrder[i]})]
<1>1. Len(TextOrder) \in Nat
  BY DEF PlanInputs, IsSeq
<1>2. ss \in [1 .. Len(TextOrder) -> Seq(X)]
  BY OnlyIsSeq
<1> HIDE DEF ss
<1>3. ss \in Seq(Seq(X))
  BY <1>1, <1>2
<1>4. FlattenSeq(ss) \in Seq(X)
  BY <1>3, FlattenIsSeq
<1> QED BY <1>4 DEF Sorted, ss

LEMMA TupleIsSeq ==
  ASSUME NEW n \in Nat, NEW s, DOMAIN s = 1 .. n, s = [i \in 1 .. n |-> s[i]]
  PROVE  IsSeq(s) /\ Len(s) = n
<1>1. s \in [1 .. n -> Range(s)]
  BY DEF Range
<1>2. s \in Seq(Range(s)) /\ Len(s) = n
  BY <1>1
<1> QED BY <1>2 DEF IsSeq

LEMMA ConcatIsSeq ==
  ASSUME NEW s, NEW t, IsSeq(s), IsSeq(t)
  PROVE  IsSeq(s \o t)
<1> DEFINE X == Range(s) \cup Range(t)
<1>1. Range(s) \subseteq X /\ Range(t) \subseteq X
  OBVIOUS
<1> HIDE DEF X
<1>2. s \in Seq(X)
  BY <1>1, SeqMonotonic DEF IsSeq
<1>3. t \in Seq(X)
  BY <1>1, SeqMonotonic DEF IsSeq
<1>4. s \o t \in Seq(X)
  BY <1>2, <1>3, ConcatProperties
<1> QED BY <1>4, SeqIsSeq

(* Sequences, one for each index, are sequences over a common set.         *)
LEMMA PartsShare ==
  ASSUME NEW n \in Nat, NEW f, DOMAIN f = 1 .. n, f = [i \in 1 .. n |-> f[i]],
         \A i \in 1 .. n : IsSeq(f[i])
  PROVE  \E X : f \in Seq(Seq(X))
<1> DEFINE X == UNION {Range(f[k]) : k \in 1 .. n}
<1>1. ASSUME NEW k \in 1 .. n PROVE f[k] \in Seq(X)
  <2>1. Range(f[k]) \subseteq X
    OBVIOUS
  <2> HIDE DEF X
  <2> QED BY <2>1, SeqMonotonic DEF IsSeq
<1> HIDE DEF X
<1>2. f \in [1 .. n -> Seq(X)]
  BY <1>1
<1> QED BY <1>2

LEMMA FrontendIsSeq ==
  ASSUME NEW m, IsSeq(m.warnings)
  PROVE  IsSeq(FrontendDiagnostics(m))
<1> DEFINE fd == FrontendDiagnostics(m)
           ws == Only(m.warnings, {w \in Range(m.warnings) : /\ w.severity \in {"warning", "error"}
                                                            /\ w.message \in DOMAIN Classes})
           Key(w) == <<PathOf[w.file], w.line, w.column, Classes[w.message].rule, w.message>>
           first  == {i \in 1 .. Len(ws) : \A j \in 1 .. i - 1 : Key(ws[j]) # Key(ws[i])}
           places == Only([i \in 1 .. Len(ws) |-> i], first)
<1>1. DOMAIN fd = 1 .. Len(places) /\ fd = [n \in 1 .. Len(places) |-> fd[n]]
  BY Zenon DEF FrontendDiagnostics
<1>2. Len(ws) \in Nat
  <2>1. ws \in Seq(Range(m.warnings))
    BY OnlyIsSeq DEF IsSeq
  <2> QED BY <2>1, LenProperties
<1> HIDE DEF ws, first, fd
<1>3. [i \in 1 .. Len(ws) |-> i] \in Seq(Nat)
  BY <1>2
<1>4. places \in Seq(Nat)
  BY <1>3, OnlyIsSeq
<1>5. Len(places) \in Nat
  BY <1>4, LenProperties
<1> HIDE DEF places
<1> QED BY <1>1, <1>5, TupleIsSeq DEF fd

(* A module that loads gives a result.                                     *)
LEMMA AnalyzedIsResult ==
  ASSUME ModulesAreSound, NEW t \in Range(TextOrder) \ Unloadable, NEW c
  PROVE  IsResult(AnalyzeInput(t, c))
<1> DEFINE m  == ModuleOf[t]
           S  == {f \in Range(m.functions) : ShouldAnalyze(f, m.source, c)}
           fs == Only(m.functions, S)
           parts == [i \in 1 .. Len(fs) |-> fs[i].diagnostics]
           ds == FlattenSeq(parts) \o FrontendDiagnostics(m)
           r  == [functions |-> [i \in 1 .. Len(fs) |-> [name |-> fs[i].name, file |-> fs[i].path]],
                  diagnostics |-> ds]
<1>1. AnalyzeInput(t, c) = Stamped(r, t)
  BY DEF AnalyzeInput
<1>2. /\ IsSeq(m.functions) /\ IsSeq(m.warnings)
      /\ \A i \in 1 .. Len(m.functions) : IsSeq(m.functions[i].diagnostics)
  BY DEF ModulesAreSound
<1>3. fs \in Seq(Range(m.functions)) /\ Len(fs) \in Nat
  <2>1. m.functions \in Seq(Range(m.functions))
    BY <1>2 DEF IsSeq
  <2> HIDE DEF m, S
  <2> QED BY <2>1, OnlyIsSeq, LenProperties
<1>4. \A i \in 1 .. Len(fs) : IsSeq(fs[i].diagnostics)
  <2> SUFFICES ASSUME NEW i \in 1 .. Len(fs) PROVE IsSeq(fs[i].diagnostics)
    OBVIOUS
  <2> HIDE DEF fs
  <2>1. fs[i] \in Range(m.functions)
    BY <1>3, ElementOfSeq
  <2>2. DOMAIN m.functions = 1 .. Len(m.functions)
    BY <1>2, LenProperties DEF IsSeq
  <2> HIDE DEF m
  <2> QED BY <1>2, <2>1, <2>2 DEF Range
<1> HIDE DEF m, S, fs
<1>5. IsSeq(FlattenSeq(parts))
  <2>1. DOMAIN parts = 1 .. Len(fs) /\ parts = [i \in 1 .. Len(fs) |-> parts[i]]
        /\ \A i \in 1 .. Len(fs) : IsSeq(parts[i])
    BY <1>4
  <2> HIDE DEF parts
  <2>2. PICK X : parts \in Seq(Seq(X))
    BY <1>3, <2>1, PartsShare
  <2>3. FlattenSeq(parts) \in Seq(X)
    BY <2>2, FlattenIsSeq
  <2> QED BY <2>3, SeqIsSeq
<1> HIDE DEF parts
<1>6. IsSeq(ds) /\ Len(ds) \in Nat
  <2>1. IsSeq(FrontendDiagnostics(m))
    BY <1>2, FrontendIsSeq
  <2>2. IsSeq(ds)
    BY <1>5, <2>1, ConcatIsSeq
  <2>3. ds \in Seq(Range(ds))
    BY <2>2 DEF IsSeq
  <2> HIDE DEF ds
  <2> QED BY <2>2, <2>3, LenProperties
<1> HIDE DEF ds
<1>7. Len(r.functions) = Len(fs) /\ r.diagnostics = ds
  <2>1. Len([i \in 1 .. Len(fs) |-> [name |-> fs[i].name, file |-> fs[i].path]]) = Len(fs)
    BY <1>3
  <2> QED BY <2>1
<1> HIDE DEF r
<1> DEFINE Fill(x) == IF x.file = "" THEN [x EXCEPT !.file = t] ELSE x
           gs == [i \in 1 .. Len(r.functions) |-> Fill(r.functions[i])]
           es == [i \in 1 .. Len(r.diagnostics) |-> Fill(r.diagnostics[i])]
<1>8. Stamped(r, t) = [functions |-> gs, diagnostics |-> es]
  BY Zenon DEF Stamped
<1> HIDE DEF Fill
<1>9. IsSeq(gs) /\ IsSeq(es)
  <2>1. DOMAIN gs = 1 .. Len(fs) /\ gs = [i \in 1 .. Len(fs) |-> gs[i]]
    BY <1>7
  <2>2. DOMAIN es = 1 .. Len(ds) /\ es = [i \in 1 .. Len(ds) |-> es[i]]
    BY <1>7
  <2> HIDE DEF gs, es
  <2> QED BY <1>3, <1>6, <2>1, <2>2, TupleIsSeq
<1> HIDE DEF gs, es
<1> QED BY <1>1, <1>8, <1>9 DEF IsResult

LEMMA RunGivesResults ==
  ASSUME PlanInputs, ModulesAreSound, ListIInv, RunIInv, phase \in {"emit", "file", "done"}
  PROVE  /\ AreResults(results) /\ plan.inputs \in Seq(Range(TextOrder))
         /\ Len(results) = Len(plan.inputs)
<1>1. /\ ~PlanFails(cfg) /\ plan = BuildPlan(cfg)
      /\ \A i \in 1 .. Len(plan.inputs) : plan.inputs[i] \notin Unloadable
      /\ results = [i \in 1 .. Len(plan.inputs) |->
                       <<plan.inputs[i], AnalyzeInput(plan.inputs[i], cfg)>>]
  BY DEF RunIInv
<1>2. cfg.inputFilenames \in Seq(Range(TextOrder))
  BY DEF ListIInv, Reading, ListsAre
<1>3. Kept(cfg) \in Seq(Range(TextOrder))
  BY <1>1, <1>2, KeptIsSeq DEF PlanFails
<1>4. plan.inputs = Sorted(Kept(cfg))
  <2>1. BuildPlan(cfg).inputs = Sorted(Kept(cfg))
    BY Zenon DEF BuildPlan
  <2> QED BY <1>1, <2>1
<1>5. plan.inputs \in Seq(Range(TextOrder)) /\ Len(plan.inputs) \in Nat
  BY <1>3, <1>4, SortedIsSeq, LenProperties
<1>6. Len(results) = Len(plan.inputs) /\ results = [k \in 1 .. Len(results) |-> results[k]]
  BY <1>1, <1>5
<1>7. \A k \in 1 .. Len(results) : IsResult(results[k][2])
  <2> SUFFICES ASSUME NEW k \in 1 .. Len(results) PROVE IsResult(results[k][2])
    OBVIOUS
  <2>1. results[k][2] = AnalyzeInput(plan.inputs[k], cfg)
    BY <1>1, <1>6
  <2>2. plan.inputs[k] \in Range(TextOrder) \ Unloadable
    BY <1>1, <1>5, <1>6, ElementOfSeq
  <2> QED BY <2>1, <2>2, AnalyzedIsResult
<1> QED BY <1>5, <1>6, <1>7 DEF AreResults

(* The summary of the JSON report, the totals of the human one and the      *)
(* results and rules of the SARIF one agree, whatever the inputs, their     *)
(* modules and the filters are (emitJsonOutput, emitHumanOutput, toSarif).  *)
THEOREM ReportsAgree == FrontSpec => []FormatsAgree
<1>1. FrontIInv => FormatsAgree
  <2> SUFFICES ASSUME FrontIInv, phase \in {"emit", "file", "done"}
               PROVE  FormatsAgree
    BY DEF FormatsAgree
  <2>1. AreResults(results)
    BY RunGivesResults, FrontEndAssumption DEF FrontIInv
  <2> QED BY <2>1, SameReport DEF FormatsAgree
<1> QED BY <1>1, FrontInvariant, PTL

-----------------------------------------------------------------------------
\* The functions a result lists.

LEMMA FilledIs ==
  ASSUME NEW none, NEW name, NEW path, NEW t
  PROVE  \A x : x = [name |-> name, file |-> path] =>
           (IF x.file = none THEN [x EXCEPT !.file = t] ELSE x)
             = [name |-> name, file |-> IF path = none THEN t ELSE path]
OBVIOUS

\* The path a report gives a function of an input.
FileOf(f, input) == IF f.path = "" THEN input ELSE f.path

LEMMA ChosenIsReported ==
  ASSUME NEW f, NEW t, NEW c, ShouldAnalyze(f, t, c), NEW r, r.name = f.name,
         r.file = FileOf(f, t)
  PROVE  ReportsFunction(r, c)
<1>1. FunctionNameMatches(f.name, c)
  BY Zenon DEF ShouldAnalyze, FunctionNameMatches
<1>2. ASSUME c.onlyFiles # <<>> \/ c.onlyDirs # <<>>
      PROVE  ShouldIncludePath(r.file, c)
  BY <1>2, Zenon DEF ShouldAnalyze, FileOf
<1> QED BY <1>1, <1>2, Zenon DEF ReportsFunction

LEMMA ListedIsChosen ==
  ASSUME ModulesAreSound, NEW t \in Range(TextOrder) \ Unloadable, NEW c,
         NEW i \in 1 .. Len(AnalyzeInput(t, c).functions)
  PROVE  \E f \in Range(ModuleOf[t].functions) :
           /\ ShouldAnalyze(f, ModuleOf[t].source, c)
           /\ AnalyzeInput(t, c).functions[i]
                = [name |-> f.name, file |-> FileOf(f, t)]
<1> DEFINE m  == ModuleOf[t]
           S  == {f \in Range(m.functions) : ShouldAnalyze(f, m.source, c)}
           fs == Only(m.functions, S)
           ls == [k \in 1 .. Len(fs) |-> [name |-> fs[k].name, file |-> fs[k].path]]
           Fill(x) == IF x.file = "" THEN [x EXCEPT !.file = t] ELSE x
<1>1. AnalyzeInput(t, c).functions = [k \in 1 .. Len(ls) |-> Fill(ls[k])]
  <2> DEFINE ds == FlattenSeq([k \in 1 .. Len(fs) |-> fs[k].diagnostics]) \o FrontendDiagnostics(m)
             r  == [functions |-> ls, diagnostics |-> ds]
  <2>1. AnalyzeInput(t, c) = Stamped(r, t)
    BY DEF AnalyzeInput
  <2> HIDE DEF ls, ds
  <2>2. r.functions = ls
    OBVIOUS
  <2> HIDE DEF r
  <2> DEFINE gs == [k \in 1 .. Len(r.functions) |-> Fill(r.functions[k])]
             es == [k \in 1 .. Len(r.diagnostics) |-> Fill(r.diagnostics[k])]
  <2>3. Stamped(r, t) = [functions |-> gs, diagnostics |-> es]
    BY Zenon DEF Stamped
  <2> HIDE DEF Fill
  <2>4. gs = [k \in 1 .. Len(ls) |-> Fill(ls[k])]
    BY <2>2
  <2> HIDE DEF gs, es
  <2>5. Stamped(r, t).functions = gs
    BY <2>3
  <2> QED BY <2>1, <2>4, <2>5
<1>2. fs \in Seq(Range(m.functions) \cap S) /\ Len(fs) \in Nat
  <2>1. m.functions \in Seq(Range(m.functions))
    BY DEF ModulesAreSound, IsSeq
  <2> HIDE DEF m, S
  <2> QED BY <2>1, OnlyIsSeq, LenProperties
<1> HIDE DEF fs
<1>3. Len(ls) = Len(fs) /\ \A k \in 1 .. Len(fs) : ls[k] = [name |-> fs[k].name, file |-> fs[k].path]
  BY <1>2
<1> HIDE DEF ls, Fill
<1>4. /\ i \in 1 .. Len(fs)
      /\ AnalyzeInput(t, c).functions[i] = Fill(ls[i])
  <2>1. Len([k \in 1 .. Len(ls) |-> Fill(ls[k])]) = Len(ls)
    BY <1>2, <1>3
  <2> QED BY <1>1, <1>3, <2>1
<1>5. fs[i] \in Range(m.functions) \cap S
  BY <1>2, <1>4, ElementOfSeq
<1>6. Fill(ls[i]) = [name |-> fs[i].name, file |-> FileOf(fs[i], t)]
  <2>1. ls[i] = [name |-> fs[i].name, file |-> fs[i].path]
    BY <1>3, <1>4
  <2>2. \A none : (IF ls[i].file = none THEN [ls[i] EXCEPT !.file = t] ELSE ls[i])
          = [name |-> fs[i].name, file |-> IF fs[i].path = none THEN t ELSE fs[i].path]
    BY <2>1, FilledIs
  <2> QED BY <2>2, Zenon DEF Fill, FileOf
<1> QED BY <1>4, <1>5, <1>6, Zenon DEF S

(* A function that a result lists passes the filters of the report, when    *)
(* its module's source is the input (FunctionFilter::shouldAnalyze and the  *)
(* FunctionReportSpecification of AnalyzerApp.cpp).                         *)
THEOREM ListedFunctionsMatchFilters == FrontSpec => []ListedMatchFilters
<1>1. FrontIInv => ListedMatchFilters
  <2> SUFFICES ASSUME FrontIInv, phase \in {"emit", "file", "done"},
                      NEW k \in 1 .. Len(results),
                      ModuleOf[results[k][1]].source = results[k][1],
                      NEW i \in 1 .. Len(results[k][2].functions)
               PROVE  ReportsFunction(results[k][2].functions[i], cfg)
    BY DEF ListedMatchFilters
  <2> DEFINE t == plan.inputs[k]
  <2>1. /\ plan.inputs \in Seq(Range(TextOrder)) /\ Len(results) = Len(plan.inputs)
        /\ ModulesAreSound
    BY RunGivesResults, FrontEndAssumption DEF FrontIInv
  <2>2. /\ \A j \in 1 .. Len(plan.inputs) : plan.inputs[j] \notin Unloadable
        /\ results = [j \in 1 .. Len(plan.inputs) |->
                         <<plan.inputs[j], AnalyzeInput(plan.inputs[j], cfg)>>]
    BY DEF FrontIInv, RunIInv
  <2>3. results[k][1] = t /\ results[k][2] = AnalyzeInput(t, cfg)
    BY <2>1, <2>2
  <2>4. t \in Range(TextOrder) \ Unloadable
    BY <2>1, <2>2, ElementOfSeq
  <2>9. i \in 1 .. Len(AnalyzeInput(t, cfg).functions)
    BY <2>3
  <2> HIDE DEF t
  <2>5. PICK f \in Range(ModuleOf[t].functions) :
           /\ ShouldAnalyze(f, ModuleOf[t].source, cfg)
           /\ AnalyzeInput(t, cfg).functions[i]
                = [name |-> f.name, file |-> FileOf(f, t)]
    BY <2>1, <2>4, <2>9, ListedIsChosen
  <2>6. ShouldAnalyze(f, t, cfg)
    BY <2>3, <2>5
  <2> DEFINE r == results[k][2].functions[i]
  <2>7. r.name = f.name /\ r.file = FileOf(f, t)
    BY <2>3, <2>5
  <2> HIDE DEF r
  <2>8. ReportsFunction(r, cfg)
    BY <2>6, <2>7, ChosenIsReported
  <2> QED BY <2>8 DEF r
<1> QED BY <1>1, FrontInvariant, PTL

-----------------------------------------------------------------------------
\* How often a plan has a text.

LEMMA TimesAbsent ==
  ASSUME NEW X, NEW s \in Seq(X), NEW t, t \notin Range(s)
  PROVE  Times(s, t) = 0
<1>1. DOMAIN s = 1 .. Len(s)
  BY LenProperties
<1>2. {k \in 1 .. Len(s) : s[k] = t} = {}
  BY <1>1 DEF Range
<1> QED BY <1>2, FS_EmptySet DEF Times

LEMMA TimesPresent ==
  ASSUME NEW X, NEW s \in Seq(X), NEW k \in 1 .. Len(s)
  PROVE  /\ Times(s, s[k]) # 0
         /\ NoneTwice(s) => Times(s, s[k]) = 1
<1> DEFINE P == {j \in 1 .. Len(s) : s[j] = s[k]}
<1>1. IsFiniteSet(P) /\ k \in P
  <2>1. IsFiniteSet(1 .. Len(s))
    BY LenProperties, FS_Interval
  <2> QED BY <2>1, FS_Subset
<1>2. NoneTwice(s) => P = {k}
  BY DEF NoneTwice
<1> HIDE DEF P
<1>3. Cardinality(P) # 0
  BY <1>1, FS_EmptySet
<1>4. Cardinality({k}) = 1
  BY FS_Singleton
<1> QED BY <1>2, <1>3, <1>4 DEF Times, P

LEMMA TimesOfOnly ==
  ASSUME NEW X, NEW s \in Seq(X), NEW S, NEW t
  PROVE  Times(Only(s, S), t) = IF t \in S THEN Times(s, t) ELSE 0
<1>1. Only(s, S) \in Seq(X)
  BY OnlyIsSeq
<1>2. Times(Only(s, S), t) = Len(Only(s, S \cap {t}))
  <2>1. Times(Only(s, S), t) = Len(Only(Only(s, S), {t}))
    BY <1>1, TimesFacts
  <2>2. Only(Only(s, S), {t}) = Only(s, S \cap {t})
    BY OnlyTwice
  <2> QED BY <2>1, <2>2
<1>3. CASE t \in S
  <2>1. S \cap {t} = {t}
    BY <1>3
  <2> QED BY <1>2, <1>3, <2>1, TimesFacts
<1>4. CASE t \notin S
  <2>1. S \cap {t} = {}
    BY <1>4
  <2>2. Len(Only(s, {})) = 0
    <3>1. Len(Only(s, {})) = Cardinality({i \in 1 .. Len(s) : s[i] \in {}})
      BY OnlyCounts
    <3>2. {i \in 1 .. Len(s) : s[i] \in {}} = {}
      OBVIOUS
    <3> QED BY <3>1, <3>2, FS_EmptySet
  <2> QED BY <1>2, <1>4, <2>1, <2>2
<1> QED BY <1>3, <1>4

LEMMA TimesOfConcat ==
  ASSUME NEW X, NEW a \in Seq(X), NEW b \in Seq(X), NEW t
  PROVE  Times(a \o b, t) = Times(a, t) + Times(b, t)
<1>1. a \o b \in Seq(X)
  BY ConcatProperties
<1>2. Only(a, {t}) \in Seq(X) /\ Only(b, {t}) \in Seq(X)
  BY OnlyIsSeq
<1>3. Only(a \o b, {t}) = Only(a, {t}) \o Only(b, {t})
  BY OnlyConcat
<1>4. Len(Only(a, {t}) \o Only(b, {t})) = Len(Only(a, {t})) + Len(Only(b, {t}))
  BY <1>2, ConcatProperties
<1>5. \A c \in Seq(X) : Times(c, t) = Len(Only(c, {t}))
  BY TimesFacts
<1> QED BY <1>1, <1>3, <1>4, <1>5

\* The texts of s, in the order o.
SortedBy(o, s) == FlattenSeq([i \in 1 .. Len(o) |-> Only(s, {o[i]})])

(* Sorting puts every text as often as it was.                             *)
LEMMA SortedByCounts ==
  ASSUME NEW X, NEW s \in Seq(X), NEW Y
  PROVE  \A o \in Seq(Y) : NoneTwice(o) =>
           /\ SortedBy(o, s) \in Seq(X)
           /\ \A t : Times(SortedBy(o, s), t) = IF t \in Range(o) THEN Times(s, t) ELSE 0
           /\ Len(SortedBy(o, s)) = Cardinality({k \in 1 .. Len(s) : s[k] \in Range(o)})
<1> DEFINE Fits(o) ==
             /\ SortedBy(o, s) \in Seq(X)
             /\ \A t : Times(SortedBy(o, s), t) = IF t \in Range(o) THEN Times(s, t) ELSE 0
             /\ Len(SortedBy(o, s)) = Cardinality({k \in 1 .. Len(s) : s[k] \in Range(o)})
           Good == {o \in Seq(Y) : NoneTwice(o) => Fits(o)}
<1>1. <<>> \in Good
  <2>1. [i \in 1 .. Len(<<>>) |-> Only(s, {<<>>[i]})] = <<>> /\ Range(<<>>) = {} /\ <<>> \in Seq(Y)
    BY EmptySeq DEF Range
  <2>2. SortedBy(<<>>, s) = <<>>
    <3>1. <<>> \in Seq(Seq({})) /\ <<>> \in Seq({})
      BY EmptySeq
    <3> QED BY <2>1, <3>1, FlattenAppend DEF SortedBy
  <2>3. {k \in 1 .. Len(s) : s[k] \in {}} = {}
    OBVIOUS
  <2> QED BY <2>1, <2>2, <2>3, TimesFacts, FS_EmptySet, EmptySeq
<1>2. ASSUME NEW o \in Seq(Y), NEW x \in Y, o \in Good PROVE Append(o, x) \in Good
  <2> DEFINE p == Append(o, x)
  <2>1. /\ Len(o) \in Nat /\ p \in Seq(Y) /\ Len(p) = Len(o) + 1 /\ p[Len(o) + 1] = x
        /\ \A i \in 1 .. Len(o) : p[i] = o[i]
    BY AppendProperties, LenProperties
  <2> HIDE DEF p
  <2> SUFFICES ASSUME NoneTwice(p) PROVE Fits(p)
    BY <2>1 DEF p
  <2>2. NoneTwice(o) /\ x \notin Range(o) /\ Range(p) = Range(o) \cup {x}
    <3>1. DOMAIN o = 1 .. Len(o) /\ DOMAIN p = 1 .. Len(o) + 1
      BY <2>1, LenProperties
    <3>2. NoneTwice(o)
      BY <2>1 DEF NoneTwice
    <3>3. x \notin Range(o)
      <4> SUFFICES ASSUME NEW i \in 1 .. Len(o), o[i] = x PROVE FALSE
        BY <3>1 DEF Range
      <4>1. i \in 1 .. Len(p) /\ Len(o) + 1 \in 1 .. Len(p) /\ i # Len(o) + 1
        BY <2>1
      <4>2. p[i] = p[Len(o) + 1]
        BY <2>1
      <4> QED BY <4>1, <4>2 DEF NoneTwice
    <3>4. Range(p) = Range(o) \cup {x}
      <4>1. 1 .. Len(o) + 1 = 1 .. Len(o) \cup {Len(o) + 1}
        BY <2>1
      <4>2. {p[i] : i \in 1 .. Len(o)} = {o[i] : i \in 1 .. Len(o)}
        BY <2>1
      <4> QED BY <2>1, <3>1, <4>1, <4>2 DEF Range
    <3> QED BY <3>2, <3>3, <3>4
  <2>3. Fits(o)
    BY <1>2, <2>2
  <2> DEFINE one == Only(s, {x})
  <2>4. SortedBy(p, s) = SortedBy(o, s) \o one /\ one \in Seq(X)
    <3> DEFINE os == [i \in 1 .. Len(o) |-> Only(s, {o[i]})]
               ps == [i \in 1 .. Len(p) |-> Only(s, {p[i]})]
    <3>1. one \in Seq(X) /\ \A y : Only(s, {y}) \in Seq(X)
      BY OnlyIsSeq
    <3>2. os \in [1 .. Len(o) -> Seq(X)]
      BY <3>1
    <3>3. os \in Seq(Seq(X)) /\ Len(os) = Len(o)
      <4> HIDE DEF os
      <4> QED BY <2>1, <3>2
    <3>4. ps = Append(os, one)
      <4>1. \A i \in 1 .. Len(p) : ps[i] = Append(os, one)[i]
        <5> SUFFICES ASSUME NEW i \in 1 .. Len(p) PROVE ps[i] = Append(os, one)[i]
          OBVIOUS
        <5>1. CASE i = Len(o) + 1
          <6>1. Append(os, one)[i] = one
            BY <3>1, <3>3, <5>1, AppendProperties
          <6> QED BY <2>1, <5>1, <6>1
        <5>2. CASE i \in 1 .. Len(o)
          <6>1. Append(os, one)[i] = os[i]
            BY <3>1, <3>3, <5>2, AppendProperties
          <6> QED BY <2>1, <5>2, <6>1
        <5> QED BY <2>1, <5>1, <5>2
      <4>2. DOMAIN Append(os, one) = 1 .. Len(p) /\ Append(os, one) \in Seq(Seq(X))
        <5> HIDE DEF os, one
        <5>1. Append(os, one) \in Seq(Seq(X)) /\ Len(Append(os, one)) = Len(os) + 1
          BY <3>1, <3>3, AppendProperties
        <5> QED BY <2>1, <3>3, <5>1, LenProperties
      <4>3. ps = [i \in 1 .. Len(p) |-> ps[i]]
        OBVIOUS
      <4> HIDE DEF os, one, ps
      <4>4. Append(os, one) = [i \in 1 .. Len(p) |-> Append(os, one)[i]]
        <5>1. ASSUME NEW q \in Seq(Seq(X)) PROVE q = [i \in DOMAIN q |-> q[i]]
          OBVIOUS
        <5> QED BY <4>2, <5>1
      <4> QED BY <4>1, <4>3, <4>4
    <3> HIDE DEF os, one
    <3>5. FlattenSeq(Append(os, one)) = FlattenSeq(os) \o one
      BY <3>1, <3>3, FlattenAppend
    <3> QED BY <3>1, <3>4, <3>5 DEF SortedBy, os
  <2>5. SortedBy(p, s) \in Seq(X)
    BY <2>3, <2>4, ConcatProperties
  <2>6. ASSUME NEW t
        PROVE  Times(SortedBy(p, s), t) = IF t \in Range(p) THEN Times(s, t) ELSE 0
    <3>1. Times(SortedBy(p, s), t) = Times(SortedBy(o, s), t) + Times(one, t)
      BY <2>3, <2>4, TimesOfConcat
    <3>2. Times(one, t) = IF t = x THEN Times(s, t) ELSE 0
      BY TimesOfOnly
    <3>3. Times(SortedBy(o, s), t) = IF t \in Range(o) THEN Times(s, t) ELSE 0
      BY <2>3
    <3>4. Times(s, t) \in Nat
      BY TimesFacts
    <3> QED BY <2>2, <3>1, <3>2, <3>3, <3>4
  <2>7. Len(SortedBy(p, s)) = Cardinality({k \in 1 .. Len(s) : s[k] \in Range(p)})
    <3> DEFINE A == {k \in 1 .. Len(s) : s[k] \in Range(o)}
               B == {k \in 1 .. Len(s) : s[k] \in {x}}
               C == {k \in 1 .. Len(s) : s[k] \in Range(p)}
    <3>1. C = A \cup B /\ A \cap B = {}
      BY <2>2
    <3>2. Len(SortedBy(p, s)) = Len(SortedBy(o, s)) + Len(one)
      BY <2>3, <2>4, ConcatProperties
    <3>3. Len(SortedBy(o, s)) = Cardinality(A) /\ Len(one) = Cardinality(B)
      BY <2>3, OnlyCounts
    <3>4. /\ IsFiniteSet(A) /\ Cardinality(A) \in Nat
          /\ IsFiniteSet(B) /\ Cardinality(B) \in Nat
      BY PlacesOf
    <3> HIDE DEF A, B, C, one
    <3>5. Cardinality(A \cup B) = Cardinality(A) + Cardinality(B) - Cardinality(A \cap B)
      BY <3>4, FS_Union
    <3>6. Cardinality(A \cap B) = 0
      BY <3>1, FS_EmptySet
    <3>7. Len(SortedBy(p, s)) = Cardinality(C)
      BY <3>1, <3>2, <3>3, <3>4, <3>5, <3>6
    <3> QED BY <3>7 DEF C
  <2> QED BY <2>5, <2>6, <2>7
<1> HIDE DEF Good, Fits
<1>3. Seq(Y) \subseteq Good
  BY <1>1, <1>2, SeqInduction
<1> QED BY <1>3 DEF Good, Fits

LEMMA SortedCounts ==
  ASSUME PlanInputs, NEW s \in Seq(Range(TextOrder))
  PROVE  /\ \A t : Times(Sorted(s), t) = Times(s, t)
         /\ Len(Sorted(s)) = Len(s)
<1>1. Sorted(s) = SortedBy(TextOrder, s)
  BY DEF Sorted, SortedBy
<1>2. TextOrder \in Seq(Range(TextOrder)) /\ NoneTwice(TextOrder)
  BY DEF PlanInputs, IsSeq
<1>3. /\ \A t : Times(Sorted(s), t) = IF t \in Range(TextOrder) THEN Times(s, t) ELSE 0
      /\ Len(Sorted(s)) = Cardinality({k \in 1 .. Len(s) : s[k] \in Range(TextOrder)})
  <2>1. /\ \A t : Times(SortedBy(TextOrder, s), t) = IF t \in Range(TextOrder) THEN Times(s, t) ELSE 0
        /\ Len(SortedBy(TextOrder, s)) = Cardinality({k \in 1 .. Len(s) : s[k] \in Range(TextOrder)})
    BY <1>2, SortedByCounts
  <2> QED BY <1>1, <2>1
<1>4. ASSUME NEW t, t \notin Range(TextOrder) PROVE Times(s, t) = 0
  <2>1. t \notin Range(s)
    BY <1>4, ElementOfSeq, LenProperties DEF Range
  <2> QED BY <2>1, TimesAbsent
<1>5. {k \in 1 .. Len(s) : s[k] \in Range(TextOrder)} = 1 .. Len(s)
  BY ElementOfSeq
<1>6. Cardinality(1 .. Len(s)) = Len(s)
  <2>1. Len(s) \in Nat
    BY LenProperties
  <2>2. Cardinality(1 .. Len(s)) = IF 1 > Len(s) THEN 0 ELSE Len(s) - 1 + 1
    BY <2>1, FS_Interval
  <2> QED BY <2>1, <2>2
<1> QED BY <1>3, <1>4, <1>5, <1>6

-----------------------------------------------------------------------------
\* The plan.

(* The dedicated exclusion, and what the directories of the command line say. *)
IsExcluded(text) == text # "" /\ \E d \in ExcludedDirs(Heads) : IsUnder(PathOf[text], PathOf[d])

LEMMA ExclusionIsAsked ==
  ASSUME CliInputs, ListsAre(pos, cfg.inputFilenames, cfg.excludeDirs), pos > Len(argv),
         pos \in Nat, Len(argv) \in Nat, NEW text
  PROVE  IsExcluded(text) <=> ShouldExcludePath(text, cfg)
<1>1. Before(pos, "--exclude-dir") = {i \in Heads \cap 1 .. Len(argv) : OptionAt(i) = "--exclude-dir"}
  BY DEF Before
<1>2. ASSUME NEW i PROVE PiecesAt(i) = {Csv(ValueAt(i))[k] : k \in 1 .. Len(Csv(ValueAt(i)))}
  <2> DEFINE s == Csv(ValueAt(i))
  <2>1. IsSeq(s)
    BY CsvIsSeq
  <2> HIDE DEF s
  <2>2. DOMAIN s = 1 .. Len(s)
    BY <2>1, LenProperties DEF IsSeq
  <2>3. Range(s) = {s[k] : k \in 1 .. Len(s)}
    BY <2>2 DEF Range
  <2> QED BY <2>3 DEF PiecesAt, s
<1>3. ExcludedDirs(Heads) = Range(cfg.excludeDirs)
  <2>1. ExcludedDirs(Heads) = UNION {PiecesAt(i) : i \in Before(pos, "--exclude-dir")}
    BY <1>1, <1>2 DEF ExcludedDirs
  <2> QED BY <2>1 DEF ListsAre
<1>4. DOMAIN cfg.excludeDirs = 1 .. Len(cfg.excludeDirs)
  BY LenProperties DEF ListsAre, IsSeq
<1>5. \A p, d : IsUnder(p, d) <=> UnderDir(p, d)
  BY DEF IsUnder, UnderDir, PathHasPrefix, PathHasSuffix, IsStrictPrefix
<1>6. (\E d \in ExcludedDirs(Heads) : IsUnder(PathOf[text], PathOf[d]))
        <=> \E i \in 1 .. Len(cfg.excludeDirs) : UnderDir(PathOf[text], PathOf[cfg.excludeDirs[i]])
  BY <1>3, <1>4, <1>5 DEF Range
<1> QED BY <1>6, Zenon DEF IsExcluded, ShouldExcludePath

LEMMA IncludedTimes ==
  ASSUME NEW X, NEW s \in Seq(X), NEW c, NEW t
  PROVE  Times(Included(s, c), t) = IF ShouldExcludePath(t, c) THEN 0 ELSE Times(s, t)
<1> DEFINE S == {text \in Range(s) : ~ShouldExcludePath(text, c)}
<1>1. Times(Included(s, c), t) = IF t \in S THEN Times(s, t) ELSE 0
  BY TimesOfOnly DEF Included
<1>2. CASE t \in Range(s)
  BY <1>1, <1>2
<1>3. CASE t \notin Range(s)
  BY <1>1, <1>3, TimesAbsent
<1> QED BY <1>2, <1>3

(* What of the database is not wanted, whatever is excluded.               *)
IsSkipped(text) ==
  text \in Unsupported \/ (~cfg.includeCompdbDeps /\ PathContainsSegment(PathOf[text], "_deps"))

LEMMA DiscoveredTimes ==
  ASSUME PlanInputs, CompdbLoads(cfg), AutoDiscovered(cfg),
         NEW i \in 1 .. Len(Compdb[cfg.compileCommandsPath]), NEW t,
         t = Compdb[cfg.compileCommandsPath][i]
  PROVE  Times(Discovered(cfg), t) = IF IsSkipped(t) THEN 0 ELSE 1
<1> DEFINE s == Compdb[cfg.compileCommandsPath]
           S == {text \in Range(s) : /\ text \notin Unsupported
                                     /\ \/ cfg.includeCompdbDeps
                                        \/ ~PathContainsSegment(PathOf[text], "_deps")}
<1>1. s \in Seq(Range(TextOrder)) /\ NoneTwice(s)
  BY CompdbIsThere DEF PlanInputs
<1>2. Discovered(cfg) = Only(s, S)
  BY DEF Discovered
<1>3. t \in Range(s)
  BY <1>1, LenProperties DEF Range
<1>4. t \in S <=> ~IsSkipped(t)
  BY <1>3 DEF IsSkipped
<1> HIDE DEF s, S
<1>5. Times(s, t) = 1
  BY <1>1, TimesPresent DEF s
<1>6. Times(Only(s, S), t) = IF t \in S THEN Times(s, t) ELSE 0
  BY <1>1, TimesOfOnly
<1> QED BY <1>2, <1>4, <1>5, <1>6

LEMMA PlanTimes ==
  ASSUME PlanInputs, CompdbLoads(cfg), cfg.inputFilenames \in Seq(Range(TextOrder)),
         plan.inputs = Sorted(Kept(cfg)), NEW t
  PROVE  /\ Times(plan.inputs, t) = IF ShouldExcludePath(t, cfg) THEN 0 ELSE Times(Discovered(cfg), t)
         /\ Len(plan.inputs) = Len(Kept(cfg))
<1>1. Kept(cfg) \in Seq(Range(TextOrder)) /\ Discovered(cfg) \in Seq(Range(TextOrder))
  BY KeptIsSeq
<1>2. Times(Kept(cfg), t) = IF ShouldExcludePath(t, cfg) THEN 0 ELSE Times(Discovered(cfg), t)
  BY <1>1, IncludedTimes DEF Kept
<1> QED BY <1>1, <1>2, SortedCounts

LEMMA InputsAreNamed ==
  ASSUME CliInputs, PlanInputs, CliTypeOK, ListsAre(pos, cfg.inputFilenames, cfg.excludeDirs),
         pos > Len(argv)
  PROVE  /\ \A i \in InputHeads(Heads) : argv[i] \in Range(TextOrder)
         /\ \A t \in Range(TextOrder) :
              Times(cfg.inputFilenames, t) = Cardinality({i \in InputHeads(Heads) : argv[i] = t})
         /\ InputHeads(Heads) = {} <=> cfg.inputFilenames = <<>>
<1>0. argv \in Seq(STRING) /\ Len(argv) \in Nat /\ pos \in Nat /\ argv \in Commands
  BY ArgvIsSeq DEF CliTypeOK
<1>1. ASSUME NEW i \in InputHeads(Heads) PROVE argv[i] \in Range(TextOrder)
  <2>1. i \in 1 .. Len(argv) /\ argv[i] \notin Dashed
    BY DEF InputHeads
  <2>2. argv[i] \in Range(argv)
    BY <1>0, <2>1, LenProperties DEF Range
  <2> QED BY <1>0, <2>1, <2>2 DEF PlanInputs
<1>2. ASSUME NEW t
      PROVE  NamedBefore(pos, t) = {i \in InputHeads(Heads) : argv[i] = t}
  BY <1>0 DEF NamedBefore, InputHeads
<1>3. \A t \in Range(TextOrder) :
        Times(cfg.inputFilenames, t) = Cardinality({i \in InputHeads(Heads) : argv[i] = t})
  BY <1>2 DEF ListsAre
<1>4. cfg.inputFilenames \in Seq(Range(TextOrder))
  BY DEF ListsAre
<1>5. ASSUME NEW i \in InputHeads(Heads) PROVE cfg.inputFilenames # <<>>
  <2> DEFINE P == {j \in InputHeads(Heads) : argv[j] = argv[i]}
  <2>1. IsFiniteSet(P) /\ P # {}
    <3>1. IsFiniteSet(1 .. Len(argv)) /\ InputHeads(Heads) \subseteq 1 .. Len(argv)
      BY <1>0, FS_Interval DEF InputHeads
    <3>2. P \in SUBSET (1 .. Len(argv))
      BY <3>1
    <3> QED BY <3>1, <3>2, FS_Subset
  <2> HIDE DEF P
  <2>2. Cardinality(P) # 0
    BY <2>1, FS_EmptySet
  <2>3. Times(cfg.inputFilenames, argv[i]) # 0
    BY <1>1, <1>3, <2>2 DEF P
  <2> QED BY <2>3, TimesFacts
<1>6. ASSUME cfg.inputFilenames # <<>> PROVE InputHeads(Heads) # {}
  <2> DEFINE s == cfg.inputFilenames
  <2>1. 1 \in 1 .. Len(s)
    <3> HIDE DEF s
    <3>1. s \in Seq(Range(TextOrder)) /\ s # <<>>
      BY <1>4, <1>6 DEF s
    <3> QED BY <3>1, EmptySeq, LenProperties
  <2>2. Times(s, s[1]) # 0 /\ s[1] \in Range(TextOrder)
    BY <1>4, <2>1, TimesPresent, ElementOfSeq
  <2>3. Cardinality({i \in InputHeads(Heads) : argv[i] = s[1]}) # 0
    BY <1>3, <2>2
  <2>4. InputHeads(Heads) = {} => {i \in InputHeads(Heads) : argv[i] = s[1]} = {}
    OBVIOUS
  <2> QED BY <2>3, <2>4, FS_EmptySet
<1> QED BY <1>1, <1>3, <1>5, <1>6

LEMMA StatusSays ==
  ASSUME NEW c, NEW p
  PROVE  "uninitialized: enabled" \in InterprocStatus(c, p) <=> p.needsUninitialized
<1> DEFINE A == IF c.resourceModelPath[2] = "" THEN {}
                ELSE IF p.needsResource THEN {"resource: enabled"}
                ELSE IF c.resourceCrossTU THEN {"resource: one input"} ELSE {"resource: disabled"}
<1>1. A \subseteq {"resource: enabled", "resource: one input", "resource: disabled"}
  BY Zenon
<1>2. InterprocStatus(c, p)
        = A \cup (IF p.needsGlobal THEN {"global: enabled"} ELSE {})
            \cup (IF p.needsUninitialized THEN {"uninitialized: enabled"}
                  ELSE IF p.needsGlobal THEN {"uninitialized: disabled"} ELSE {})
  BY DEF InterprocStatus
<1> HIDE DEF A
<1> QED BY <1>1, <1>2

(* The plan has the inputs of the command line, or of the database, in a    *)
(* number that neither the order of the arguments nor sorting changes, and  *)
(* without those under an excluded directory; what the run says of itself   *)
(* fits it (RunPlanBuilder::build, printInterprocStatus,                    *)
(* printEffectiveConfig).                                                   *)
THEOREM PlanFollowsRequest == FrontSpec => []PlanIsAsRequested
<1>1. FrontIInv => PlanIsAsRequested
  <2> SUFFICES ASSUME FrontIInv, phase \in {"analyze", "emit", "file", "done"}
               PROVE  PlanIsAsRequested
    BY Zenon DEF PlanIsAsRequested
  <2> DEFINE named == InputHeads(Heads)
  <2>0. CliInputs /\ PlanInputs /\ CliTypeOK /\ pos \in Nat /\ Len(argv) \in Nat
    BY FrontEndAssumption, ArgvIsSeq DEF FrontIInv, CliIInv, CliTypeOK
  <2>1. ListsAre(pos, cfg.inputFilenames, cfg.excludeDirs) /\ pos > Len(argv)
    BY DEF FrontIInv, ListIInv, Reading
  <2>2. ~PlanFails(cfg) /\ plan = BuildPlan(cfg) /\ said = InterprocStatus(cfg, plan)
    BY DEF FrontIInv, RunIInv
  <2>3. shown # <<>> => shown[1].profile = cfg.profile
    BY DEF FrontIInv, RunIInv, Reading
  <2>4. CompdbLoads(cfg) /\ Kept(cfg) # <<>>
    BY <2>2 DEF PlanFails
  <2>5. /\ plan.inputs = Sorted(Kept(cfg))
        /\ ~AutoDiscovered(cfg) => plan.profile = cfg.profile
        /\ plan.needsUninitialized <=> cfg.uninitializedCrossTU /\ Len(Kept(cfg)) > 1
    BY <2>2, Zenon DEF BuildPlan
  <2>6. cfg.inputFilenames \in Seq(Range(TextOrder))
    BY <2>1 DEF ListsAre
  <2>7. ASSUME NEW t
        PROVE  /\ Times(plan.inputs, t) = IF IsExcluded(t) THEN 0 ELSE Times(Discovered(cfg), t)
               /\ Len(plan.inputs) = Len(Kept(cfg))
    <3>1. IsExcluded(t) <=> ShouldExcludePath(t, cfg)
      BY <2>0, <2>1, ExclusionIsAsked
    <3> QED BY <2>0, <2>4, <2>5, <2>6, <3>1, PlanTimes
  <2>8. named = {} <=> cfg.inputFilenames = <<>>
    BY <2>0, <2>1, InputsAreNamed
  <2>9. ASSUME named # {}, NEW i \in named
        PROVE  Times(plan.inputs, argv[i])
                 = IF IsExcluded(argv[i]) THEN 0 ELSE Cardinality({j \in named : argv[j] = argv[i]})
    <3>1. Discovered(cfg) = cfg.inputFilenames
      BY <2>8, <2>9 DEF Discovered, AutoDiscovered
    <3>2. Times(cfg.inputFilenames, argv[i]) = Cardinality({j \in named : argv[j] = argv[i]})
      BY <2>0, <2>1, InputsAreNamed
    <3> QED BY <2>7, <3>1, <3>2
  <2>10. ASSUME named = {}, NEW i \in 1 .. Len(Compdb[cfg.compileCommandsPath]), NEW t,
                t = Compdb[cfg.compileCommandsPath][i]
         PROVE  Times(plan.inputs, t) = IF IsExcluded(t) \/ IsSkipped(t) THEN 0 ELSE 1
    <3>1. AutoDiscovered(cfg)
      <4> SUFFICES ASSUME ~AutoDiscovered(cfg) PROVE FALSE
        OBVIOUS
      <4>1. Discovered(cfg) = <<>>
        BY <2>8, <2>10 DEF Discovered
      <4>2. Kept(cfg) = <<>>
        BY <4>1, OnlyEmpty DEF Kept, Included
      <4> QED BY <2>4, <4>2
    <3>2. Times(Discovered(cfg), t) = IF IsSkipped(t) THEN 0 ELSE 1
      BY <2>0, <2>4, <2>10, <3>1, DiscoveredTimes
    <3> QED BY <2>7, <3>2
  <2>11. "uninitialized: enabled" \in said <=> cfg.uninitializedCrossTU /\ Len(plan.inputs) > 1
    BY <2>2, <2>5, <2>7, StatusSays
  <2>12. shown # <<>> /\ named # {} => shown[1].profile = plan.profile
    BY <2>3, <2>5, <2>8 DEF AutoDiscovered
  <2>13. named # {} =>
           \A t \in {argv[i] : i \in named} :
             Times(plan.inputs, t) = IF IsExcluded(t) THEN 0
                                     ELSE Cardinality({i \in named : argv[i] = t})
    BY <2>9
  <2>14. named = {} =>
           \A i \in 1 .. Len(Compdb[cfg.compileCommandsPath]) :
             LET t == Compdb[cfg.compileCommandsPath][i]
             IN  Times(plan.inputs, t) = IF \/ IsExcluded(t) \/ t \in Unsupported
                                            \/ /\ ~cfg.includeCompdbDeps
                                               /\ PathContainsSegment(PathOf[t], "_deps")
                                         THEN 0 ELSE 1
    BY <2>10 DEF IsSkipped
  <2> QED BY <2>11, <2>12, <2>13, <2>14, Zenon DEF PlanIsAsRequested, IsExcluded, Times
<1> QED BY <1>1, FrontInvariant, PTL
=============================================================================
