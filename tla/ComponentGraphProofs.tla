------------------------ MODULE ComponentGraphProofs ------------------------
(***************************************************************************)
(* Facts about the graphs of ComponentGraph that the proofs of the modules *)
(* built on it share: reachability, components, and levels.  The level of  *)
(* a node is defined by its longest chain of components; here it is shown  *)
(* to be the recursive value computeSCCLevels computes, one more than the  *)
(* highest level of a direct dependency outside the component.             *)
(***************************************************************************)
EXTENDS ComponentGraph, Integers, FiniteSetTheorems, WellFoundedInduction, TLAPS

-----------------------------------------------------------------------------
\* Natural numbers: a set of them has a least element, and a bounded one a greatest.

LEMMA LeastNat ==
  ASSUME NEW S \in SUBSET Nat, S # {}
  PROVE  \E m \in S : \A k \in S : m <= k
<1> DEFINE R == OpToRel(<, Nat)
<1>1. IsWellFoundedOn(R, Nat)
  BY NatLessThanWellFounded
<1>2. ASSUME NEW x \in Nat, NEW y \in Nat PROVE <<x, y>> \in R <=> x < y
  BY DEF OpToRel
<1> HIDE DEF R
<1>3. PICK x \in S : \A y \in S : ~ (<<y, x>> \in R)
  BY <1>1, WFMin
<1>4. ASSUME NEW y \in S PROVE x <= y
  <2>1. ~(y < x)
    BY <1>3, <1>2
  <2> QED BY <2>1
<1> QED BY <1>4

LEMMA GreatestNat ==
  ASSUME NEW n \in Nat, NEW S \in SUBSET (0 .. n), S # {}
  PROVE  \E m \in S : \A k \in S : k <= m
<1> DEFINE U == {u \in Nat : \A k \in S : k <= u}
<1>1. n \in U
  OBVIOUS
<1>2. PICK u \in U : \A k \in U : u <= k
  BY <1>1, LeastNat
<1>3. CASE u \in S
  BY <1>3
<1>4. CASE u \notin S
  <2>1. \A k \in S : k \in Nat /\ k <= u - 1
    BY <1>2, <1>4
  <2>2. u - 1 \in Nat
    <3>1. PICK k \in S : k \in Nat /\ k <= u - 1
      BY <2>1
    <3>2. u \in Nat
      BY <1>2
    <3> QED BY <3>1, <3>2
  <2> QED BY <2>1, <2>2, <1>2
<1> QED BY <1>3, <1>4

-----------------------------------------------------------------------------
\* Reachability.

LEMMA ReachableType ==
  ASSUME NEW N, NEW E, NEW i
  PROVE  ReachableFrom(N, E, i) \subseteq N
BY DEF ReachableFrom

LEMMA ReachableSelf ==
  ASSUME NEW N, NEW E, NEW i \in N
  PROVE  i \in ReachableFrom(N, E, i)
BY DEF ReachableFrom

LEMMA ReachableTrans ==
  ASSUME NEW N, NEW E, NEW i, NEW j \in ReachableFrom(N, E, i), NEW k \in ReachableFrom(N, E, j)
  PROVE  k \in ReachableFrom(N, E, i)
BY DEF ReachableFrom

LEMMA ReachableEdge ==
  ASSUME NEW N, NEW E, NEW i \in N, NEW j \in N, <<i, j>> \in E
  PROVE  j \in ReachableFrom(N, E, i)
BY DEF ReachableFrom

\* What a node reaches stays inside any set of nodes that is closed under the edges.
LEMMA ReachableInside ==
  ASSUME NEW N, NEW E, NEW T \in SUBSET N, NEW i \in T, NEW j \in ReachableFrom(N, E, i),
         \A e \in E : e[1] \in T => e[2] \in T
  PROVE  j \in T
BY DEF ReachableFrom

LEMMA ReachPair ==
  ASSUME NEW N, NEW E, NEW i, NEW j
  PROVE  <<i, j>> \in Reach(N, E) <=> i \in N /\ j \in ReachableFrom(N, E, i)
BY DEF Reach

LEMMA InComponentOf ==
  ASSUME NEW N, NEW E, NEW m \in N, NEW j
  PROVE  j \in ComponentsOf(N, E)[m] <=>
           j \in ReachableFrom(N, E, m) /\ m \in ReachableFrom(N, E, j)
<1>1. j \in ReachableFrom(N, E, m) => j \in N
  BY ReachableType
<1> QED BY <1>1, ReachPair DEF ComponentsOf

-----------------------------------------------------------------------------
\* Levels.

\* Node i depends on j, which does not depend on i.
Above(N, E, i, j) == <<i, j>> \in Reach(N, E) /\ <<j, i>> \notin Reach(N, E)

\* The chains of components below m.
ChainsBelow(N, E, m) ==
  {T \in SUBSET {j \in N : Above(N, E, m, j)} :
     \A i, j \in T : i = j \/ Above(N, E, i, j) \/ Above(N, E, j, i)}

LEMMA AboveTrans ==
  ASSUME NEW N, NEW E, NEW i, NEW j, NEW k, Above(N, E, i, j),
         Above(N, E, j, k) \/ (<<j, k>> \in Reach(N, E))
  PROVE  Above(N, E, i, k)
<1>1. i \in N /\ j \in N /\ j \in ReachableFrom(N, E, i) /\ k \in ReachableFrom(N, E, j)
  BY ReachPair, ReachableType DEF Above
<1>2. k \in N /\ k \in ReachableFrom(N, E, i)
  BY <1>1, ReachableTrans, ReachableType
<1>3. ~ (i \in ReachableFrom(N, E, k))
  <2> SUFFICES ASSUME i \in ReachableFrom(N, E, k) PROVE FALSE
    OBVIOUS
  <2>1. i \in ReachableFrom(N, E, j)
    BY <1>1, ReachableTrans
  <2> QED BY <2>1, <1>1, ReachPair DEF Above
<1> QED BY <1>1, <1>2, <1>3, ReachPair DEF Above

\* The level of a node is the size of a longest chain below it.
LEMMA LevelIsLongest ==
  ASSUME NEW N, NEW E, IsFiniteSet(N), NEW m \in N
  PROVE  /\ LevelsOf(N, E)[m] \in 0 .. Cardinality(N)
         /\ \E T \in ChainsBelow(N, E, m) : Cardinality(T) = LevelsOf(N, E)[m]
         /\ \A T \in ChainsBelow(N, E, m) : Cardinality(T) <= LevelsOf(N, E)[m]
<1> DEFINE C == ChainsBelow(N, E, m)
           Is(k) == /\ \E T \in C : Cardinality(T) = k
                    /\ \A T \in C : Cardinality(T) <= k
           sizes == {k \in 0 .. Cardinality(N) : \E T \in C : Cardinality(T) = k}
<1>1. LevelsOf(N, E)[m] = CHOOSE k \in 0 .. Cardinality(N) : Is(k)
  BY DEF LevelsOf, ChainsBelow, Above
<1>2. Cardinality(N) \in Nat
  BY FS_CardinalityType
<1>3. \A T \in C : Cardinality(T) \in 0 .. Cardinality(N)
  <2> SUFFICES ASSUME NEW T \in C PROVE Cardinality(T) \in 0 .. Cardinality(N)
    OBVIOUS
  <2>1. T \subseteq N
    BY DEF ChainsBelow
  <2>2. IsFiniteSet(T) /\ Cardinality(T) <= Cardinality(N)
    BY <2>1, FS_Subset
  <2>3. Cardinality(T) \in Nat
    BY <2>2, FS_CardinalityType
  <2> QED BY <2>2, <2>3, <1>2
<1>4. {} \in C
  BY DEF ChainsBelow
<1>5. sizes # {} /\ sizes \in SUBSET (0 .. Cardinality(N))
  BY <1>3, <1>4
<1>6. PICK k \in sizes : \A l \in sizes : l <= k
  BY <1>2, <1>5, GreatestNat
<1>7. Is(k)
  BY <1>3, <1>6
<1> HIDE DEF C, Is
<1>8. Is(LevelsOf(N, E)[m]) /\ LevelsOf(N, E)[m] \in 0 .. Cardinality(N)
  BY <1>1, <1>6, <1>7
<1> QED BY <1>8 DEF Is, C

LEMMA LevelAbove ==
  ASSUME NEW N, NEW E, IsFiniteSet(N), NEW m, NEW j, Above(N, E, m, j)
  PROVE  LevelsOf(N, E)[j] < LevelsOf(N, E)[m]
<1>0. m \in N /\ j \in N
  BY ReachPair, ReachableType DEF Above
<1>1. PICK T \in ChainsBelow(N, E, j) : Cardinality(T) = LevelsOf(N, E)[j]
  BY <1>0, LevelIsLongest
<1> DEFINE U == T \cup {j}
<1>2. \A k \in T : k \in N /\ Above(N, E, j, k) /\ Above(N, E, m, k)
  BY AboveTrans DEF ChainsBelow
<1>3. U \in ChainsBelow(N, E, m)
  <2>1. U \in SUBSET {k \in N : Above(N, E, m, k)}
    BY <1>0, <1>2
  <2>2. \A i, k \in U : i = k \/ Above(N, E, i, k) \/ Above(N, E, k, i)
    BY <1>2 DEF ChainsBelow
  <2> QED BY <2>1, <2>2 DEF ChainsBelow
<1>4. j \notin T
  BY <1>2 DEF Above
<1>5. IsFiniteSet(T)
  BY <1>2, FS_Subset
<1>6. Cardinality(U) = Cardinality(T) + 1
  BY <1>4, <1>5, FS_AddElement
<1>7. Cardinality(U) <= LevelsOf(N, E)[m]
  BY <1>0, <1>3, LevelIsLongest
<1>8. LevelsOf(N, E)[j] \in Nat /\ LevelsOf(N, E)[m] \in Nat
  BY <1>0, LevelIsLongest, FS_CardinalityType
<1> QED BY <1>1, <1>6, <1>7, <1>8

\* Nodes of one component have the same level.
LEMMA LevelOfComponent ==
  ASSUME NEW N, NEW E, NEW m, NEW n, <<m, n>> \in Reach(N, E), <<n, m>> \in Reach(N, E)
  PROVE  LevelsOf(N, E)[m] = LevelsOf(N, E)[n]
<1>0. m \in N /\ n \in N /\ n \in ReachableFrom(N, E, m) /\ m \in ReachableFrom(N, E, n)
  BY ReachPair
<1>1. ASSUME NEW a \in N, NEW b \in N, NEW j, b \in ReachableFrom(N, E, a), a \in ReachableFrom(N, E, b),
             Above(N, E, a, j)
      PROVE  Above(N, E, b, j)
  <2>1. a \in N /\ j \in N /\ j \in ReachableFrom(N, E, a) /\ ~(a \in ReachableFrom(N, E, j))
    BY <1>1, ReachPair, ReachableType DEF Above
  <2>2. j \in ReachableFrom(N, E, b)
    BY <1>1, <2>1, ReachableTrans
  <2>3. ~(b \in ReachableFrom(N, E, j))
    BY <1>1, <2>1, ReachableTrans
  <2> QED BY <2>1, <2>2, <2>3, ReachPair DEF Above
<1>2. \A j : Above(N, E, m, j) <=> Above(N, E, n, j)
  BY <1>0, <1>1
<1>3. {j \in N : Above(N, E, m, j)} = {j \in N : Above(N, E, n, j)}
  BY <1>2
<1>4. ChainsBelow(N, E, m) = ChainsBelow(N, E, n)
  BY <1>3 DEF ChainsBelow
<1> DEFINE Is(C, k) == /\ \E T \in C : Cardinality(T) = k
                       /\ \A T \in C : Cardinality(T) <= k
<1>5. \A a \in N : LevelsOf(N, E)[a] =
                   CHOOSE k \in 0 .. Cardinality(N) : Is(ChainsBelow(N, E, a), k)
  BY DEF LevelsOf, ChainsBelow, Above
<1> HIDE DEF Is
<1> QED BY <1>0, <1>4, <1>5

\* A walk out of the component of m leaves it by an edge.
LEMMA WayOut ==
  ASSUME NEW N, NEW E, E \subseteq N \X N, NEW m, NEW x, Above(N, E, m, x)
  PROVE  \E a \in ComponentsOf(N, E)[m], b \in N :
           /\ <<a, b>> \in E /\ b \notin ComponentsOf(N, E)[m]
           /\ x \in ReachableFrom(N, E, b)
<1>0. m \in N /\ x \in N /\ x \in ReachableFrom(N, E, m) /\ x \notin ComponentsOf(N, E)[m]
  BY ReachPair, ReachableType, InComponentOf DEF Above
<1> DEFINE C == ComponentsOf(N, E)[m]
           exits == {b \in N \ C : \E a \in C : <<a, b>> \in E}
           T == C \cup {y \in N : \E b \in exits : y \in ReachableFrom(N, E, b)}
<1>1. C \subseteq N /\ m \in C
  BY <1>0, InComponentOf, ReachableSelf, ReachableType
<1>2. \A e \in E : e[1] \in T => e[2] \in T
  <2> SUFFICES ASSUME NEW e \in E, e[1] \in T PROVE e[2] \in T
    OBVIOUS
  <2>1. e = <<e[1], e[2]>> /\ e[1] \in N /\ e[2] \in N
    OBVIOUS
  <2>2. CASE e[1] \in C /\ e[2] \notin C
    <3>1. e[2] \in exits
      BY <2>1, <2>2
    <3> QED BY <3>1, <2>1, ReachableSelf
  <2>3. CASE e[1] \notin C
    <3>1. PICK b \in exits : e[1] \in ReachableFrom(N, E, b)
      BY <2>3
    <3>2. e[2] \in ReachableFrom(N, E, e[1])
      BY <2>1, ReachableEdge
    <3>3. e[2] \in ReachableFrom(N, E, b)
      BY <3>1, <3>2, ReachableTrans
    <3> QED BY <3>1, <3>3, <2>1
  <2> QED BY <2>2, <2>3
<1>3. T \subseteq N /\ m \in T
  BY <1>1
<1> HIDE DEF T
<1>4. x \in T
  BY <1>0, <1>2, <1>3, ReachableInside
<1> QED BY <1>0, <1>4 DEF T

\* The recursion of computeSCCLevels.  Where m depends on nothing outside its component
\* the level is 0; otherwise some direct dependency has the level just below, and none
\* has a higher one.
LEMMA LevelRecursion ==
  ASSUME NEW N, NEW E, IsFiniteSet(N), E \subseteq N \X N, NEW m \in N
  PROVE  LET deps == {d \in N \ ComponentsOf(N, E)[m] :
                        \E a \in ComponentsOf(N, E)[m] : <<a, d>> \in E}
         IN  /\ \A d \in deps : LevelsOf(N, E)[d] < LevelsOf(N, E)[m]
             /\ LevelsOf(N, E)[m] = 0 \/ \E d \in deps : LevelsOf(N, E)[d] + 1 = LevelsOf(N, E)[m]
             /\ deps = {} => LevelsOf(N, E)[m] = 0
<1> DEFINE deps == {d \in N \ ComponentsOf(N, E)[m] :
                      \E a \in ComponentsOf(N, E)[m] : <<a, d>> \in E}
           L == LevelsOf(N, E)
<1>0. \A i \in N : L[i] \in Nat
  BY LevelIsLongest, FS_CardinalityType
<1>1. \A d \in deps : L[d] < L[m]
  <2> SUFFICES ASSUME NEW d \in deps PROVE Above(N, E, m, d)
    BY LevelAbove
  <2>1. PICK a \in ComponentsOf(N, E)[m] : <<a, d>> \in E
    OBVIOUS
  <2>2. a \in N /\ a \in ReachableFrom(N, E, m) /\ d \in ReachableFrom(N, E, a)
    BY <2>1, InComponentOf, ReachableEdge
  <2>3. d \in ReachableFrom(N, E, m)
    BY <2>2, ReachableTrans
  <2> QED BY <2>3, InComponentOf, ReachPair DEF Above
<1>2. ASSUME L[m] # 0
      PROVE  \E d \in deps : L[d] + 1 = L[m]
  <2>1. PICK T \in ChainsBelow(N, E, m) : Cardinality(T) = L[m]
    BY LevelIsLongest
  <2>2. /\ T \subseteq N /\ IsFiniteSet(T) /\ T # {}
        /\ \A k \in T : Above(N, E, m, k)
        /\ \A i, k \in T : i = k \/ Above(N, E, i, k) \/ Above(N, E, k, i)
    <3>1. T \subseteq N
      BY DEF ChainsBelow
    <3> QED BY <1>2, <2>1, <3>1, FS_Subset, FS_EmptySet DEF ChainsBelow
  <2> DEFINE ls == {L[k] : k \in T}
  <2>3. ls \in SUBSET (0 .. Cardinality(N)) /\ ls # {}
    BY <2>2, LevelIsLongest
  <2>4. PICK x \in T : \A k \in T : L[k] <= L[x]
    <3> HIDE DEF ls
    <3>1. PICK l \in ls : \A k \in ls : k <= l
      BY <2>3, GreatestNat, FS_CardinalityType
    <3> QED BY <3>1 DEF ls
  <2>5. \A k \in T \ {x} : Above(N, E, x, k)
    <3> SUFFICES ASSUME NEW k \in T \ {x}, Above(N, E, k, x) PROVE FALSE
      BY <2>2
    <3>1. L[x] < L[k]
      BY LevelAbove
    <3> QED BY <3>1, <2>2, <2>4, <1>0
  <2>6. T \ {x} \in ChainsBelow(N, E, x)
    BY <2>2, <2>5 DEF ChainsBelow
  <2>7. Cardinality(T \ {x}) = L[m] - 1
    BY <2>1, <2>2, FS_RemoveElement
  <2>8. L[m] - 1 <= L[x]
    BY <2>2, <2>6, <2>7, LevelIsLongest
  <2>9. PICK a \in ComponentsOf(N, E)[m], d \in N :
          /\ <<a, d>> \in E /\ d \notin ComponentsOf(N, E)[m]
          /\ x \in ReachableFrom(N, E, d)
    BY <2>2, WayOut
  <2>10. L[x] <= L[d]
    <3>1. CASE d \in ReachableFrom(N, E, x)
      <4>1. <<d, x>> \in Reach(N, E) /\ <<x, d>> \in Reach(N, E)
        BY <3>1, <2>2, <2>9, ReachPair
      <4>2. L[d] = L[x]
        BY <4>1, LevelOfComponent
      <4> QED BY <4>2, <2>2, <2>9, <1>0
    <3>2. CASE d \notin ReachableFrom(N, E, x)
      <4>1. Above(N, E, d, x)
        BY <3>2, <2>9, ReachPair DEF Above
      <4> QED BY <4>1, <2>2, <2>9, <1>0, LevelAbove
    <3> QED BY <3>1, <3>2
  <2>11. d \in deps
    BY <2>9
  <2> QED BY <2>2, <2>8, <2>10, <2>11, <1>0, <1>1
<1> QED BY <1>0, <1>1, <1>2
=============================================================================
