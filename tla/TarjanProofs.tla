---------------------------- MODULE TarjanProofs ----------------------------
(***************************************************************************)
(* For every graph, every set of norecurse functions and every order of    *)
(* the successors: what strongConnect pops are the strongly connected      *)
(* components of the graph, each of them once, and each after the          *)
(* components it depends on.  The argument is TarjanIInv, the relation     *)
(* between the stack, the active calls and reachability, as ComponentGraph *)
(* defines it by closed sets.                                              *)
(***************************************************************************)
EXTENDS Tarjan, ComponentGraphProofs

\* The edges of every graph that is searched are between nodes.
GraphInputs == \A g \in Inputs : g.edges \subseteq Nodes \X Nodes

-----------------------------------------------------------------------------
\* The inductive invariant.

Reaches(x, y) == y \in ReachableFrom(Candidates, Considered, x)

\* Positions of the active calls.
Active == 1 .. Len(frames)

\* The nodes of the components that have been popped.
Closed == UNION {sccs[s] : s \in DOMAIN sccs}

TarjanTypeOK ==
  /\ graph.edges \subseteq Nodes \X Nodes
  /\ expected.component = ComponentsOf(Candidates, Considered)
  /\ index \in [Nodes -> Int] /\ lowlink \in [Nodes -> Int]
  /\ nextIndex \in Nat
  /\ stack \in Seq(Candidates) /\ onStack \subseteq Candidates
  /\ frames \in Seq([node : Candidates, left : SUBSET Candidates])
  /\ sccs \in Seq(SUBSET Candidates)

\* A node has an index from its call on; it is on the stack until it is popped.
VisitedIInv ==
  /\ \A v \in Candidates : index[v] < nextIndex
  /\ \A v \in Candidates : index[v] >= 0 <=> v \in onStack \cup Closed
  /\ onStack \cap Closed = {}

\* The stack is in the order of the calls.
StackIInv ==
  /\ onStack = {stack[i] : i \in 1 .. Len(stack)}
  /\ \A i, j \in 1 .. Len(stack) : i < j => index[stack[i]] < index[stack[j]]

\* The active calls are of nodes on the stack, in its order.
CallsIInv ==
  \A k \in Active :
    /\ frames[k].node \in onStack
    /\ frames[k].left \subseteq Successors(frames[k].node)
    /\ \A l \in Active : k < l => index[frames[k].node] < index[frames[l].node]

\* The lowlink of a node is the index of a node on the stack that it reaches.
LowIInv ==
  \A v \in onStack :
    /\ lowlink[v] <= index[v]
    /\ \E u \in onStack : index[u] = lowlink[v] /\ Reaches(v, u)

\* On the stack a node reaches all later ones, and an active call not after it.
ReachIInv ==
  /\ \A x, y \in onStack : index[x] <= index[y] => Reaches(x, y)
  /\ \A x \in onStack : \E k \in Active : index[frames[k].node] <= index[x] /\ Reaches(x, frames[k].node)

\* The successors of x that have been looked at: all of them once its call is over.
Processed(x) == {w \in Successors(x) : \A k \in Active : frames[k].node = x => w \notin frames[k].left}

\* x came on the stack during call k, and during none that k has called and waits for.
During(x, k) ==
  index[frames[k].node] <= index[x] /\ \A l \in Active : k < l => index[x] < index[frames[l].node]

\* What has been looked at has been visited, and an edge back on the stack is known
\* to the call it was found in.
ProcessedIInv ==
  /\ \A x \in onStack : \A w \in Processed(x) : index[w] >= 0
  /\ \A k \in Active : \A x \in onStack : \A w \in Processed(x) :
       During(x, k) /\ w \in onStack => lowlink[frames[k].node] <= index[w]

\* What has been popped are components, all different, in order.
PoppedIInv ==
  /\ DependenciesFirst
  /\ \A s \in DOMAIN sccs :
       /\ sccs[s] # {}
       /\ \A v \in sccs[s] : sccs[s] = {j \in Candidates : Reaches(v, j) /\ Reaches(j, v)}
  /\ \A s, t \in DOMAIN sccs : s # t => sccs[s] \cap sccs[t] = {}

TarjanIInv ==
  /\ TarjanTypeOK
  /\ VisitedIInv
  /\ StackIInv
  /\ CallsIInv
  /\ LowIInv
  /\ ReachIInv
  /\ ProcessedIInv
  /\ PoppedIInv

-----------------------------------------------------------------------------
(* A node reaches itself and its successors, and what these reach; and it  *)
(* reaches nothing outside a set with all its successors.                  *)
LEMMA ReachSteps ==
  ASSUME NEW N, NEW E
  PROVE  /\ \A x \in N : x \in ReachableFrom(N, E, x)
         /\ \A x, y, z : y \in ReachableFrom(N, E, x) /\ z \in ReachableFrom(N, E, y) =>
                           z \in ReachableFrom(N, E, x)
         /\ \A x, y \in N : <<x, y>> \in E => y \in ReachableFrom(N, E, x)
         /\ \A x : ReachableFrom(N, E, x) \subseteq N
<1>1. \A x \in N : x \in ReachableFrom(N, E, x)
  BY DEF ReachableFrom
<1>2. ASSUME NEW x, NEW y, NEW z, y \in ReachableFrom(N, E, x), z \in ReachableFrom(N, E, y)
      PROVE  z \in ReachableFrom(N, E, x)
  BY <1>2 DEF ReachableFrom
<1>3. ASSUME NEW x \in N, NEW y \in N, <<x, y>> \in E PROVE y \in ReachableFrom(N, E, x)
  <2> SUFFICES ASSUME NEW T \in SUBSET N, x \in T, \A e \in E : e[1] \in T => e[2] \in T
               PROVE  y \in T
    BY DEF ReachableFrom
  <2>1. <<x, y>>[1] \in T => <<x, y>>[2] \in T
    BY <1>3
  <2> QED BY <2>1
<1>4. \A x : ReachableFrom(N, E, x) \subseteq N
  BY DEF ReachableFrom
<1> QED BY <1>1, <1>2, <1>3, <1>4

LEMMA ReachStaysInside ==
  ASSUME TarjanTypeOK, NEW T \in SUBSET Candidates, \A x \in T : Successors(x) \subseteq T,
         NEW x \in T, NEW y, Reaches(x, y)
  PROVE  y \in T
<1>1. ASSUME NEW e \in Considered, e[1] \in T PROVE e[2] \in T
  <2>1. e \in Nodes \X Nodes /\ e \in graph.edges /\ e[2] \in Candidates
    BY DEF Considered, TarjanTypeOK
  <2>2. e = <<e[1], e[2]>>
    BY <2>1
  <2>3. e[2] \in Successors(e[1])
    BY <2>1, <2>2 DEF Successors
  <2> QED BY <1>1, <2>3
<1> QED BY <1>1 DEF Reaches, ReachableFrom

(* The same facts, in the words of the invariant.                          *)
LEMMA ReachFacts ==
  /\ \A x \in Candidates : Reaches(x, x)
  /\ \A x, y, z : Reaches(x, y) /\ Reaches(y, z) => Reaches(x, z)
  /\ \A x \in Candidates : \A y \in Successors(x) : Reaches(x, y)
<1>1. ASSUME NEW x \in Candidates, NEW y \in Successors(x) PROVE <<x, y>> \in Considered
  BY DEF Considered, Successors
<1>2. \A x : Successors(x) \subseteq Candidates
  BY DEF Successors
<1> QED BY <1>1, <1>2, ReachSteps DEF Reaches

(* What strongConnect does on entry, element by element.                   *)
LEMMA EnterMoves ==
  ASSUME TarjanTypeOK, NEW v \in Candidates,
         NEW c \in Seq([node : Candidates, left : SUBSET Candidates]), Len(c) = Len(frames),
         Enter(v, c)
  PROVE  /\ index' \in [Nodes -> Int] /\ lowlink' \in [Nodes -> Int]
         /\ \A x \in Candidates : /\ index'[x] = IF x = v THEN nextIndex ELSE index[x]
                                  /\ lowlink'[x] = IF x = v THEN nextIndex ELSE lowlink[x]
         /\ nextIndex' = nextIndex + 1
         /\ stack' \in Seq(Candidates) /\ Len(stack') = Len(stack) + 1
         /\ \A i \in 1 .. Len(stack') : stack'[i] = IF i = Len(stack) + 1 THEN v ELSE stack[i]
         /\ frames' \in Seq([node : Candidates, left : SUBSET Candidates])
         /\ Len(frames') = Len(frames) + 1
         /\ \A k \in 1 .. Len(frames') :
              frames'[k] = IF k = Len(frames) + 1 THEN [node |-> v, left |-> Successors(v)] ELSE c[k]
         /\ Len(stack) \in Nat /\ Len(frames) \in Nat
<1>1. v \in Nodes /\ Candidates \subseteq Nodes /\ nextIndex \in Int
  BY DEF Candidates, TarjanTypeOK
<1>2. [node |-> v, left |-> Successors(v)] \in [node : Candidates, left : SUBSET Candidates]
  BY DEF Successors
<1>3. Len(stack) \in Nat /\ Len(frames) \in Nat
  BY DEF TarjanTypeOK
<1>4. /\ index' \in [Nodes -> Int] /\ lowlink' \in [Nodes -> Int]
      /\ \A x \in Candidates : /\ index'[x] = IF x = v THEN nextIndex ELSE index[x]
                               /\ lowlink'[x] = IF x = v THEN nextIndex ELSE lowlink[x]
  BY <1>1 DEF TarjanTypeOK, Enter
<1>5. /\ stack' \in Seq(Candidates) /\ Len(stack') = Len(stack) + 1
      /\ \A i \in 1 .. Len(stack') : stack'[i] = IF i = Len(stack) + 1 THEN v ELSE stack[i]
  BY <1>3 DEF TarjanTypeOK, Enter
<1>6. /\ frames' \in Seq([node : Candidates, left : SUBSET Candidates])
      /\ Len(frames') = Len(frames) + 1
      /\ \A k \in 1 .. Len(frames') :
           frames'[k] = IF k = Len(frames) + 1 THEN [node |-> v, left |-> Successors(v)] ELSE c[k]
  <2> DEFINE r == [node |-> v, left |-> Successors(v)]
             FrameSet == [node : Candidates, left : SUBSET Candidates]
  <2>1. r \in FrameSet /\ frames' = Append(c, r)
    BY <1>2 DEF Enter
  <2> HIDE DEF r, FrameSet
  <2>2. c \in Seq(FrameSet)
    BY DEF FrameSet
  <2>3. /\ frames' \in Seq(FrameSet) /\ Len(frames') = Len(c) + 1
        /\ \A k \in 1 .. Len(frames') : frames'[k] = IF k = Len(c) + 1 THEN r ELSE c[k]
    BY <2>1, <2>2
  <2> QED BY <2>3 DEF r, FrameSet
<1> QED BY <1>3, <1>4, <1>5, <1>6 DEF Enter

(* A call for an unvisited node keeps the invariant.                       *)
LEMMA EnterKeepsIInv ==
  ASSUME TarjanIInv, NEW v \in Candidates, index[v] < 0,
         NEW c \in Seq([node : Candidates, left : SUBSET Candidates]), Len(c) = Len(frames),
         \A k \in Active : /\ c[k].node = frames[k].node
                           /\ c[k].left \subseteq frames[k].left
                           /\ frames[k].left \subseteq c[k].left \cup {v},
         frames # << >> => v \in Successors(frames[Len(frames)].node),
         Enter(v, c), UNCHANGED <<input, sccs>>
  PROVE  TarjanIInv'
<1> DEFINE n == Len(frames)
<1>t. TarjanTypeOK
  BY DEF TarjanIInv
<1>g. /\ Candidates' = Candidates /\ Considered' = Considered /\ Closed' = Closed
      /\ \A x : Successors(x)' = Successors(x)
  BY DEF input, Candidates, Considered, Closed, Successors
<1>i. /\ \A x \in Candidates : index[x] \in Int /\ lowlink[x] \in Int /\ index[x] < nextIndex
      /\ nextIndex \in Nat /\ onStack \subseteq Candidates /\ v \notin onStack
      /\ \A x \in onStack : index[x] >= 0
  BY DEF TarjanIInv, TarjanTypeOK, VisitedIInv, Candidates
<1>m. /\ index' \in [Nodes -> Int] /\ lowlink' \in [Nodes -> Int]
      /\ index'[v] = nextIndex /\ lowlink'[v] = nextIndex
      /\ \A x \in Candidates : x # v => index'[x] = index[x] /\ lowlink'[x] = lowlink[x]
      /\ nextIndex' = nextIndex + 1 /\ onStack' = onStack \cup {v}
  <2>1. /\ index' \in [Nodes -> Int] /\ lowlink' \in [Nodes -> Int]
        /\ \A x \in Candidates : /\ index'[x] = IF x = v THEN nextIndex ELSE index[x]
                                 /\ lowlink'[x] = IF x = v THEN nextIndex ELSE lowlink[x]
    BY <1>t, EnterMoves
  <2> QED BY <2>1 DEF Enter
<1>o. \A x \in onStack : x # v /\ x \in Candidates /\ index'[x] = index[x] /\ lowlink'[x] = lowlink[x]
  BY <1>i, <1>m
<1>s. /\ stack' \in Seq(Candidates) /\ Len(stack') = Len(stack) + 1 /\ Len(stack) \in Nat
      /\ \A i \in 1 .. Len(stack') : stack'[i] = IF i = Len(stack) + 1 THEN v ELSE stack[i]
  BY <1>t, EnterMoves
<1>f. /\ frames' \in Seq([node : Candidates, left : SUBSET Candidates])
      /\ Len(frames') = n + 1 /\ n \in Nat
      /\ \A k \in 1 .. Len(frames') :
           frames'[k] = IF k = n + 1 THEN [node |-> v, left |-> Successors(v)] ELSE c[k]
  BY <1>t, EnterMoves
<1>a. /\ Active \subseteq Active' /\ Active' = Active \cup {n + 1} /\ n + 1 \notin Active
      /\ frames'[n + 1].node = v /\ frames'[n + 1].left = Successors(v)
      /\ \A k \in Active : /\ frames'[k].node = frames[k].node /\ frames[k].node \in onStack /\ k < n + 1
                           /\ frames'[k].left \subseteq frames[k].left
                           /\ frames[k].left \subseteq frames'[k].left \cup {v}
                           /\ frames[k].left \subseteq Successors(frames[k].node)
  <2>1. Active' = Active \cup {n + 1} /\ n + 1 \notin Active /\ \A k \in Active : k < n + 1
    BY <1>f DEF Active
  <2>2. \A k \in Active : frames'[k] = c[k]
    BY <1>f, <2>1 DEF Active
  <2>3. frames'[n + 1] = [node |-> v, left |-> Successors(v)]
    BY <1>f
  <2>4. \A k \in Active : frames[k].node \in onStack /\ frames[k].left \subseteq Successors(frames[k].node)
    BY DEF TarjanIInv, CallsIInv
  <2>5. frames'[n + 1].node = v /\ frames'[n + 1].left = Successors(v)
    BY <2>3
  <2> HIDE DEF n
  <2> QED BY <2>1, <2>2, <2>4, <2>5
<1> HIDE DEF n
<1>1. TarjanTypeOK'
  BY <1>t, <1>g, <1>m, <1>s, <1>f, <1>i DEF TarjanTypeOK, input
<1>2. VisitedIInv'
  <2>1. ASSUME NEW x \in Candidates PROVE index'[x] < nextIndex'
    <3>1. index'[x] = nextIndex \/ index'[x] = index[x]
      BY <1>m
    <3>2. index[x] \in Int /\ index[x] < nextIndex /\ nextIndex \in Nat /\ nextIndex' = nextIndex + 1
      BY <1>m, <1>i
    <3> QED BY <3>1, <3>2
  <2>2. \A x \in Candidates : index'[x] >= 0 <=> x \in onStack' \cup Closed
    BY <1>m, <1>i DEF TarjanIInv, VisitedIInv
  <2>3. onStack' \cap Closed = {}
    BY <1>m, <1>i DEF TarjanIInv, VisitedIInv
  <2> QED BY <1>g, <2>1, <2>2, <2>3 DEF VisitedIInv
<1>3. StackIInv'
  <2>0. /\ \A i \in 1 .. Len(stack) : i \in 1 .. Len(stack') /\ stack'[i] = stack[i] /\ stack[i] \in onStack
        /\ Len(stack') \in 1 .. Len(stack') /\ stack'[Len(stack')] = v
        /\ \A i \in 1 .. Len(stack') : i = Len(stack') \/ i \in 1 .. Len(stack)
    BY <1>s DEF TarjanIInv, StackIInv
  <2>1. onStack' = {stack'[i] : i \in 1 .. Len(stack')}
    <3>1. \A x \in onStack : \E i \in 1 .. Len(stack) : x = stack[i]
      BY DEF TarjanIInv, StackIInv
    <3>2. \A x \in onStack' : \E i \in 1 .. Len(stack') : x = stack'[i]
      <4>1. \E i \in 1 .. Len(stack') : v = stack'[i]
        BY <2>0
      <4>2. \A x \in onStack : \E i \in 1 .. Len(stack') : x = stack'[i]
        BY <2>0, <3>1
      <4> QED BY <1>m, <4>1, <4>2
    <3>3. \A i \in 1 .. Len(stack') : stack'[i] \in onStack'
      BY <1>m, <2>0
    <3> QED BY <3>2, <3>3
  <2>2. ASSUME NEW i \in 1 .. Len(stack'), NEW j \in 1 .. Len(stack'), i < j
        PROVE  index'[stack'[i]] < index'[stack'[j]]
    <3>1. i \in 1 .. Len(stack) /\ stack[i] # v /\ stack[i] \in Candidates
      BY <1>s, <1>i, <2>0, <2>2
    <3>2. CASE j = Len(stack')
      <4>1. stack'[i] = stack[i] /\ stack'[j] = v
        BY <2>0, <3>1, <3>2
      <4>2. index'[stack[i]] = index[stack[i]] /\ index[stack[i]] < nextIndex
        BY <1>m, <1>i, <3>1
      <4>3. index'[v] = nextIndex
        BY <1>m
      <4> QED BY <4>1, <4>2, <4>3
    <3>3. CASE j \in 1 .. Len(stack)
      <4>1. index[stack[i]] < index[stack[j]] /\ stack[j] # v /\ stack[j] \in Candidates
        BY <1>i, <2>0, <2>2, <3>1, <3>3 DEF TarjanIInv, StackIInv
      <4> QED BY <1>m, <2>0, <3>1, <3>3, <4>1
    <3> QED BY <2>0, <3>2, <3>3
  <2> QED BY <2>1, <2>2 DEF StackIInv
<1>4. CallsIInv'
  <2> SUFFICES ASSUME NEW k \in Active'
               PROVE  /\ frames'[k].node \in onStack'
                      /\ frames'[k].left \subseteq Successors(frames'[k].node)
                      /\ \A l \in Active' : k < l => index'[frames'[k].node] < index'[frames'[l].node]
    BY <1>g DEF CallsIInv
  <2>1. CASE k = n + 1
    <3>1. ASSUME NEW l \in Active' PROVE ~(k < l)
      <4>0. n \in Nat
        BY <1>f
      <4>1. CASE l = n + 1
        BY <2>1, <4>0, <4>1
      <4>2. CASE l \in Active
        <5>1. l < n + 1
          BY <1>a, <4>2
        <5>2. l \in Nat
          BY <4>2 DEF Active
        <5> QED BY <2>1, <4>0, <5>1, <5>2
      <4> QED BY <1>a, <4>1, <4>2
    <3> QED BY <1>a, <1>m, <2>1, <3>1
  <2>2. CASE k \in Active
    <3>1. \A l \in Active' : k < l => index'[frames'[k].node] < index'[frames'[l].node]
      <4>1. ASSUME NEW l \in Active, k < l PROVE index'[frames'[k].node] < index'[frames'[l].node]
        BY <1>a, <1>o, <2>2, <4>1 DEF TarjanIInv, CallsIInv
      <4>2. index'[frames'[k].node] < index'[frames'[n + 1].node]
        <5>1. index'[frames'[k].node] = index[frames[k].node] /\ index[frames[k].node] < nextIndex
          BY <1>a, <1>o, <1>i, <2>2
        <5>2. index'[frames'[n + 1].node] = nextIndex
          BY <1>a, <1>m
        <5> QED BY <5>1, <5>2
      <4> QED BY <1>a, <4>1, <4>2
    <3> QED BY <1>a, <1>m, <2>2, <3>1
  <2> QED BY <1>a, <2>1, <2>2
<1>5. LowIInv'
  <2> SUFFICES ASSUME NEW x \in onStack'
               PROVE  /\ lowlink'[x] <= index'[x]
                      /\ \E u \in onStack' : index'[u] = lowlink'[x] /\ Reaches(x, u)
    BY <1>g DEF LowIInv, Reaches
  <2>1. CASE x = v
    BY <1>m, <1>i, <2>1, ReachFacts
  <2>2. CASE x \in onStack
    BY <1>m, <1>i, <2>2 DEF TarjanIInv, LowIInv
  <2> QED BY <1>m, <2>1, <2>2
<1>6. ReachIInv'
  <2>1. \A x \in onStack : Reaches(x, v)
    <3> SUFFICES ASSUME NEW x \in onStack PROVE Reaches(x, v)
      OBVIOUS
    <3>1. PICK k \in Active : Reaches(x, frames[k].node)
      BY DEF TarjanIInv, ReachIInv
    <3>2. n \in Active /\ frames # << >>
      BY <1>m, <3>1 DEF Active, n
    <3>3. index[frames[k].node] <= index[frames[n].node]
      <4>1. k = n \/ k < n
        BY <1>m DEF Active, n
      <4>2. index[frames[k].node] \in Int /\ index[frames[n].node] \in Int
        BY <1>a, <1>i, <3>2
      <4> QED BY <3>2, <4>1, <4>2 DEF TarjanIInv, CallsIInv
    <3>4. Reaches(frames[k].node, frames[n].node)
      BY <1>a, <3>2, <3>3 DEF TarjanIInv, ReachIInv
    <3>5. Reaches(frames[n].node, v)
      BY <1>a, <1>i, <3>2, ReachFacts DEF n
    <3> QED BY <3>1, <3>4, <3>5, ReachFacts
  <2>2. ASSUME NEW x \in onStack', NEW y \in onStack', index'[x] <= index'[y]
        PROVE  Reaches(x, y)
    <3>1. CASE y = v
      BY <1>m, <2>1, <3>1, ReachFacts
    <3>2. CASE y \in onStack
      <4>1. x # v
        BY <1>m, <1>i, <2>2, <3>2
      <4>2. x \in onStack /\ index[x] <= index[y]
        BY <1>m, <1>i, <2>2, <3>2, <4>1
      <4> QED BY <3>2, <4>2 DEF TarjanIInv, ReachIInv
    <3> QED BY <1>m, <3>1, <3>2
  <2>3. ASSUME NEW x \in onStack'
        PROVE  \E k \in Active' : index'[frames'[k].node] <= index'[x] /\ Reaches(x, frames'[k].node)
    <3>1. CASE x = v
      <4>1. n + 1 \in Active' /\ index'[v] <= index'[v] /\ Reaches(v, v)
        BY <1>a, <1>m, <1>i, ReachFacts
      <4> QED BY <1>a, <3>1, <4>1
    <3>2. CASE x \in onStack
      <4>1. PICK k \in Active : index[frames[k].node] <= index[x] /\ Reaches(x, frames[k].node)
        BY <3>2 DEF TarjanIInv, ReachIInv
      <4>2. index'[frames'[k].node] = index[frames[k].node] /\ index'[x] = index[x]
        BY <1>a, <1>m, <1>i, <3>2
      <4> QED BY <1>a, <4>1, <4>2
    <3> QED BY <1>m, <3>1, <3>2
  <2> QED BY <1>g, <2>2, <2>3 DEF ReachIInv, Reaches
<1>7. ProcessedIInv'
  <2>1. ASSUME NEW x \in onStack, NEW w \in Processed(x)'
        PROVE  w = v \/ w \in Processed(x)
    BY <1>a, <1>g DEF Processed
  <2>2. Processed(v)' = {}
    BY <1>a, <1>g DEF Processed
  <2>3. ASSUME NEW x \in onStack', NEW w \in Processed(x)' PROVE index'[w] >= 0
    <3>1. x \in onStack /\ w \in Candidates
      BY <1>m, <1>g, <2>2, <2>3 DEF Processed, Successors
    <3> QED BY <1>m, <1>i, <2>1, <2>3, <3>1 DEF TarjanIInv, ProcessedIInv
  <2>4. ASSUME NEW k \in Active', NEW x \in onStack', NEW w \in Processed(x)', During(x, k)',
               w \in onStack'
        PROVE  lowlink'[frames'[k].node] <= index'[w]
    <3>1. x \in onStack /\ (w = v \/ w \in Processed(x))
      BY <1>m, <2>1, <2>2, <2>4
    <3>2. k \in Active
      <4>1. CASE k = n + 1
        BY <1>a, <1>m, <1>i, <2>4, <3>1, <4>1 DEF During
      <4> QED BY <1>a, <4>1
    <3>3. lowlink'[frames'[k].node] = lowlink[frames[k].node] /\ lowlink[frames[k].node] <= index[frames[k].node]
            /\ index[frames[k].node] < nextIndex
      BY <1>a, <1>m, <1>i, <3>2 DEF TarjanIInv, LowIInv
    <3>4. CASE w = v
      BY <1>a, <1>m, <1>i, <3>2, <3>3, <3>4
    <3>5. CASE w \in Processed(x) /\ w # v
      <4>1. During(x, k)
        BY <1>a, <1>m, <1>i, <2>4, <3>1, <3>2 DEF During
      <4>2. w \in onStack /\ index'[w] = index[w]
        BY <1>m, <1>i, <2>4, <3>5
      <4> QED BY <3>1, <3>2, <3>3, <3>5, <4>1, <4>2 DEF TarjanIInv, ProcessedIInv
    <3> QED BY <3>1, <3>4, <3>5
  <2> QED BY <2>3, <2>4 DEF ProcessedIInv
<1>8. PoppedIInv'
  BY <1>g DEF TarjanIInv, PoppedIInv, DependenciesFirst, Reaches
<1> QED BY <1>1, <1>2, <1>3, <1>4, <1>5, <1>6, <1>7, <1>8 DEF TarjanIInv

(* The running call is the last on the stack of calls.                     *)
LEMMA TopIsLast ==
  ASSUME TarjanIInv, frames # << >>
  PROVE  /\ Len(frames) \in Active /\ Len(frames) \in Nat \ {0}
         /\ Top = frames[Len(frames)] /\ Top.node \in onStack /\ Top.node \in Candidates
         /\ Top.left \subseteq Successors(Top.node)
         /\ \A k \in Active : k # Len(frames) => /\ k < Len(frames)
                                                 /\ index[frames[k].node] < index[Top.node]
                                                 /\ frames[k].node # Top.node
<1> DEFINE n == Len(frames)
<1>1. n \in Nat \ {0} /\ n \in Active /\ Top = frames[n]
  BY DEF TarjanIInv, TarjanTypeOK, Active, Top
<1>2. \A k \in Active : k # n => k < n
  BY <1>1 DEF Active
<1> HIDE DEF n
<1>3. Top.node \in onStack /\ Top.left \subseteq Successors(Top.node)
        /\ \A k \in Active : k # n => index[frames[k].node] < index[Top.node]
  BY <1>1, <1>2 DEF TarjanIInv, CallsIInv
<1>4. \A x \in onStack : index[x] \in Int /\ x \in Candidates
  BY DEF TarjanIInv, TarjanTypeOK, Candidates
<1>5. \A k \in Active : frames[k].node \in onStack
  BY DEF TarjanIInv, CallsIInv
<1>6. \A k \in Active : k # n => frames[k].node # Top.node
  BY <1>3, <1>4, <1>5
<1> QED BY <1>1, <1>2, <1>3, <1>4, <1>6 DEF n

(* Taking a successor changes nothing else of the active calls.            *)
LEMMA TakenMoves ==
  ASSUME TarjanIInv, frames # << >>, NEW w
  PROVE  /\ Taken(w) \in Seq([node : Candidates, left : SUBSET Candidates])
         /\ Len(Taken(w)) = Len(frames)
         /\ \A k \in Active : /\ Taken(w)[k].node = frames[k].node
                              /\ Taken(w)[k].left = IF k = Len(frames) THEN frames[k].left \ {w}
                                                    ELSE frames[k].left
<1> DEFINE n == Len(frames)
           FrameSet == [node : Candidates, left : SUBSET Candidates]
           r == [frames[n] EXCEPT !.left = @ \ {w}]
<1>1. n \in 1 .. Len(frames) /\ n \in Nat /\ frames \in Seq(FrameSet)
  BY TopIsLast DEF Active, TarjanIInv, TarjanTypeOK
<1>2. frames[n] \in FrameSet
  <2> HIDE DEF FrameSet, n
  <2> QED BY <1>1
<1>3. r \in FrameSet /\ r.node = frames[n].node /\ r.left = frames[n].left \ {w}
  BY <1>2
<1>4. Taken(w) = [frames EXCEPT ![n] = r]
  BY DEF Taken
<1> HIDE DEF FrameSet, r
<1>5. Taken(w) \in Seq(FrameSet) /\ Len(Taken(w)) = n
        /\ \A k \in 1 .. n : Taken(w)[k] = IF k = n THEN r ELSE frames[k]
  BY <1>1, <1>3, <1>4
<1> QED BY <1>3, <1>5 DEF FrameSet, Active

(* The two steps that call strongConnect.                                  *)
LEMMA CallsKeepIInv ==
  ASSUME TarjanIInv, Root \/ Descend
  PROVE  TarjanIInv'
<1>1. CASE Root
  <2>1. PICK v \in Candidates : index[v] < 0 /\ Enter(v, << >>)
    BY <1>1 DEF Root
  <2>2. frames = << >> /\ Len(frames) = 0 /\ Active = {} /\ UNCHANGED <<input, sccs>>
          /\ << >> \in Seq([node : Candidates, left : SUBSET Candidates])
    BY <1>1 DEF Root, Active
  <2> QED BY <2>1, <2>2, EnterKeepsIInv
<1>2. CASE Descend
  <2>1. PICK w \in Top.left : index[w] < 0 /\ Enter(w, Taken(w))
    BY <1>2 DEF Descend
  <2>2. frames # << >> /\ UNCHANGED <<input, sccs>>
    BY <1>2 DEF Descend
  <2>3. w \in Successors(frames[Len(frames)].node) /\ w \in Candidates
    BY <2>1, <2>2, TopIsLast DEF Successors
  <2>4. /\ Taken(w) \in Seq([node : Candidates, left : SUBSET Candidates])
        /\ Len(Taken(w)) = Len(frames)
        /\ \A k \in Active : /\ Taken(w)[k].node = frames[k].node
                             /\ Taken(w)[k].left \subseteq frames[k].left
                             /\ frames[k].left \subseteq Taken(w)[k].left \cup {w}
    BY <2>2, TakenMoves
  <2> QED BY <2>1, <2>2, <2>3, <2>4, EnterKeepsIInv
<1> QED BY <1>1, <1>2

(* The smaller of two numbers.                                             *)
LEMMA MinOfTwo ==
  ASSUME NEW a \in Int, NEW b \in Int
  PROVE  Min({a, b}) = IF a <= b THEN a ELSE b
BY DEF Min

(* A successor that has been visited before: its index counts if it is on  *)
(* the stack, and is of no interest if it is not.                          *)
LEMMA SeeVisitedKeepsIInv ==
  ASSUME TarjanIInv, SeeVisited
  PROVE  TarjanIInv'
<1>0. frames # << >> /\ UNCHANGED <<input, index, stack, onStack, nextIndex, sccs>>
  BY DEF SeeVisited
<1>p. PICK w \in Top.left : /\ index[w] >= 0 /\ frames' = Taken(w)
                            /\ lowlink' = IF w \in onStack
                                          THEN [lowlink EXCEPT ![Top.node] = Min({@, index[w]})]
                                          ELSE lowlink
  BY DEF SeeVisited
<1> DEFINE n == Len(frames)
           v == Top.node
<1>g. /\ Candidates' = Candidates /\ Considered' = Considered /\ Closed' = Closed
      /\ \A x : Successors(x)' = Successors(x)
  BY <1>0 DEF input, Candidates, Considered, Closed, Successors
<1>i. /\ \A x \in Candidates : index[x] \in Int /\ lowlink[x] \in Int /\ x \in Nodes
      /\ onStack \subseteq Candidates /\ lowlink \in [Nodes -> Int]
  BY DEF TarjanIInv, TarjanTypeOK, Candidates
<1>w. w \in Successors(v) /\ w \in Candidates
  BY <1>0, TopIsLast DEF Successors
<1>v. /\ n \in Active /\ frames[n].node = v /\ v \in onStack /\ v \in Candidates
      /\ \A k \in Active : k # n => k < n /\ index[frames[k].node] < index[v] /\ frames[k].node # v
  BY <1>0, TopIsLast
<1>f. /\ frames' \in Seq([node : Candidates, left : SUBSET Candidates])
      /\ Active' = Active
      /\ \A k \in Active : frames'[k].node = frames[k].node
      /\ frames'[n].left = frames[n].left \ {w}
      /\ \A k \in Active : k # n => frames'[k].left = frames[k].left
  <2>1. /\ frames' \in Seq([node : Candidates, left : SUBSET Candidates])
        /\ Len(frames') = Len(frames)
        /\ \A k \in Active : /\ frames'[k].node = frames[k].node
                             /\ frames'[k].left = IF k = n THEN frames[k].left \ {w}
                                                  ELSE frames[k].left
    BY <1>0, <1>p, TakenMoves
  <2> QED BY <1>v, <2>1 DEF Active
<1>l. /\ lowlink' \in [Nodes -> Int]
      /\ \A x \in Candidates : x # v => lowlink'[x] = lowlink[x]
      /\ lowlink'[v] <= lowlink[v]
      /\ w \in onStack => lowlink'[v] <= index[w]
      /\ lowlink'[v] = lowlink[v] \/ (w \in onStack /\ lowlink'[v] = index[w])
  <2> DEFINE m == Min({lowlink[v], index[w]})
  <2>1. m = IF lowlink[v] <= index[w] THEN lowlink[v] ELSE index[w]
    BY <1>i, <1>v, <1>w, MinOfTwo
  <2>2. lowlink' = IF w \in onStack THEN [lowlink EXCEPT ![v] = m] ELSE lowlink
    BY <1>p
  <2> HIDE DEF m, v
  <2>3. m \in Int /\ m <= lowlink[v] /\ m <= index[w] /\ (m = lowlink[v] \/ m = index[w])
    BY <1>i, <1>v, <1>w, <2>1
  <2> QED BY <1>i, <1>v, <1>w, <2>2, <2>3
<1> HIDE DEF n, v
<1>1. TarjanTypeOK'
  BY <1>0, <1>g, <1>f, <1>l DEF TarjanIInv, TarjanTypeOK, input
<1>2. VisitedIInv' /\ StackIInv'
  BY <1>0, <1>g DEF TarjanIInv, VisitedIInv, StackIInv
<1>3. CallsIInv'
  BY <1>0, <1>g, <1>f DEF TarjanIInv, CallsIInv
<1>4. LowIInv'
  <2> SUFFICES ASSUME NEW x \in onStack
               PROVE  /\ lowlink'[x] <= index[x]
                      /\ \E u \in onStack : index[u] = lowlink'[x] /\ Reaches(x, u)
    BY <1>0, <1>g DEF LowIInv, Reaches
  <2>1. lowlink[x] <= index[x] /\ \E u \in onStack : index[u] = lowlink[x] /\ Reaches(x, u)
    BY DEF TarjanIInv, LowIInv
  <2>2. CASE x # v
    BY <1>i, <1>l, <2>1, <2>2
  <2>3. CASE x = v
    <3>1. lowlink'[v] <= index[v]
      <4>1. lowlink'[v] \in Int
        BY <1>l, <1>v, <1>i
      <4> QED BY <4>1, <1>l, <1>v, <1>i, <2>1, <2>3
    <3>2. Reaches(v, w)
      BY <1>v, <1>w, ReachFacts
    <3> QED BY <1>l, <2>1, <2>3, <3>1, <3>2
  <2> QED BY <2>2, <2>3
<1>5. ReachIInv'
  BY <1>0, <1>g, <1>f DEF TarjanIInv, ReachIInv, Reaches
<1>6. ProcessedIInv'
  <2>1. ASSUME NEW x \in onStack, NEW y \in Processed(x)'
        PROVE  y \in Processed(x) \/ (x = v /\ y = w)
    BY <1>f, <1>g, <1>v DEF Processed
  <2>2. ASSUME NEW x \in onStack, NEW y \in Processed(x)' PROVE index[y] >= 0
    BY <1>p, <2>1, <2>2 DEF TarjanIInv, ProcessedIInv
  <2>3. ASSUME NEW k \in Active, NEW x \in onStack, NEW y \in Processed(x)', During(x, k), y \in onStack
        PROVE  lowlink'[frames[k].node] <= index[y]
    <3>1. frames[k].node \in onStack /\ frames[k].node \in Candidates /\ y \in Candidates
      BY <1>i, <2>3 DEF TarjanIInv, CallsIInv
    <3>2. lowlink'[frames[k].node] <= lowlink[frames[k].node] /\ lowlink'[frames[k].node] \in Int
      BY <1>i, <1>l, <3>1
    <3>3. CASE y \in Processed(x)
      <4>1. lowlink[frames[k].node] <= index[y]
        BY <2>3, <3>3 DEF TarjanIInv, ProcessedIInv
      <4> QED BY <1>i, <3>1, <3>2, <4>1
    <3>4. CASE x = v /\ y = w
      <4>1. k = n
        BY <1>v, <1>i, <2>3, <3>4 DEF During
      <4> QED BY <1>v, <1>l, <2>3, <3>4, <4>1
    <3> QED BY <2>1, <2>3, <3>3, <3>4
  <2>4. \A k \in Active : \A x : During(x, k)' = During(x, k)
    BY <1>0, <1>f DEF During
  <2> QED BY <1>0, <1>f, <2>2, <2>3, <2>4 DEF ProcessedIInv
<1>7. PoppedIInv'
  BY <1>0, <1>g DEF TarjanIInv, PoppedIInv, DependenciesFirst, Reaches
<1> QED BY <1>1, <1>2, <1>3, <1>4, <1>5, <1>6, <1>7 DEF TarjanIInv

(* The end of a call: the one below it runs again, with the smaller of     *)
(* their lowlinks.                                                         *)
LEMMA ReturnMoves ==
  ASSUME TarjanIInv, Return
  PROVE  /\ frames # << >> /\ UNCHANGED <<input, index, nextIndex>>
         /\ frames[Len(frames)].left = {}
         /\ frames' \in Seq([node : Candidates, left : SUBSET Candidates])
         /\ Active' = Active \ {Len(frames)}
         /\ \A k \in Active' : frames'[k] = frames[k]
         /\ lowlink' \in [Nodes -> Int]
         /\ \A x \in Candidates :
              \/ lowlink'[x] = lowlink[x]
              \/ /\ Len(frames) - 1 \in Active /\ x = frames[Len(frames) - 1].node
                 /\ lowlink'[x] = lowlink[Top.node] /\ lowlink[Top.node] < lowlink[x]
         /\ Len(frames) - 1 \in Active =>
              lowlink'[frames[Len(frames) - 1].node] <= lowlink[Top.node]
<1> DEFINE n == Len(frames)
           FrameSet == [node : Candidates, left : SUBSET Candidates]
<1>1. frames # << >> /\ frames[n].left = {} /\ UNCHANGED <<input, index, nextIndex>>
        /\ frames' = SubSeq(frames, 1, n - 1)
  BY DEF Return, Top
<1>2. n \in Nat \ {0} /\ frames \in Seq(FrameSet) /\ lowlink \in [Nodes -> Int]
        /\ Candidates \subseteq Nodes /\ Top.node \in Candidates
  BY <1>1, TopIsLast DEF TarjanIInv, TarjanTypeOK, Candidates
<1>3. frames' \in Seq(FrameSet) /\ Len(frames') = n - 1
        /\ \A k \in 1 .. n - 1 : frames'[k] = frames[k]
  <2> HIDE DEF FrameSet
  <2>1. \A k \in 1 .. n : frames[k] \in FrameSet
    BY <1>2
  <2>2. \A k \in 1 .. n - 1 : frames[k] \in FrameSet
    BY <1>2, <2>1
  <2>3. frames' = [k \in 1 .. n - 1 |-> frames[k]]
    BY <1>1, <1>2
  <2> HIDE DEF n
  <2>4. n - 1 \in Nat
    BY <1>2
  <2>5. frames' \in [1 .. n - 1 -> FrameSet]
    BY <2>2, <2>3
  <2>6. frames' \in Seq(FrameSet) /\ Len(frames') = n - 1
    BY <2>4, <2>5
  <2> QED BY <2>3, <2>6
<1>a. Active = 1 .. n
  BY DEF Active
<1>4. Active' = 1 .. n - 1 /\ Active' = Active \ {n}
  <2>1. Active' = 1 .. n - 1
    BY <1>3 DEF Active
  <2> HIDE DEF n
  <2> QED BY <1>2, <1>a, <2>1
<1>5. CASE n - 1 = 0
  <2>1. lowlink' = lowlink
    BY <1>5 DEF Return
  <2>2. n - 1 \notin Active
    <3> HIDE DEF n
    <3> QED BY <1>2, <1>5, <1>a
  <2> QED BY <1>1, <1>2, <1>3, <1>4, <2>1, <2>2 DEF Active
<1>6. CASE n - 1 # 0
  <2> DEFINE p == frames[n - 1].node
             m == Min({lowlink[p], lowlink[Top.node]})
  <2>1. lowlink' = [lowlink EXCEPT ![p] = m]
    BY <1>6 DEF Return
  <2>2. n - 1 \in Active
    <3> HIDE DEF n
    <3> QED BY <1>2, <1>6, <1>a
  <2>3. p \in Candidates
    BY <2>2 DEF TarjanIInv, TarjanTypeOK, CallsIInv
  <2>4. lowlink[p] \in Int /\ lowlink[Top.node] \in Int
    BY <1>2, <2>3
  <2>5. m = IF lowlink[p] <= lowlink[Top.node] THEN lowlink[p] ELSE lowlink[Top.node]
    BY <2>4, MinOfTwo
  <2> HIDE DEF m, p
  <2>6. m \in Int /\ m <= lowlink[Top.node]
          /\ (m = lowlink[p] \/ (m = lowlink[Top.node] /\ lowlink[Top.node] < lowlink[p]))
    BY <2>4, <2>5
  <2>7. lowlink' \in [Nodes -> Int] /\ lowlink'[p] = m /\ \A x \in Candidates : x # p => lowlink'[x] = lowlink[x]
    BY <1>2, <2>1, <2>3, <2>6
  <2>8. \A x \in Candidates : \/ lowlink'[x] = lowlink[x]
                              \/ /\ x = p
                                 /\ lowlink'[x] = lowlink[Top.node] /\ lowlink[Top.node] < lowlink[x]
    BY <2>6, <2>7
  <2> QED BY <1>1, <1>2, <1>3, <1>4, <2>2, <2>6, <2>7, <2>8 DEF Active, p
<1> QED BY <1>5, <1>6

(* A call that ends below a node it reaches: its node stays on the stack,  *)
(* and so do those that came after it.                                     *)
LEMMA ReturnBelowRoot ==
  ASSUME TarjanIInv, Return, lowlink[Top.node] # index[Top.node]
  PROVE  TarjanIInv'
<1> DEFINE n == Len(frames)
           v == Top.node
<1>m. /\ frames # << >> /\ UNCHANGED <<input, index, nextIndex>>
      /\ frames[n].left = {}
      /\ frames' \in Seq([node : Candidates, left : SUBSET Candidates])
      /\ Active' = Active \ {n}
      /\ \A k \in Active' : frames'[k] = frames[k]
      /\ lowlink' \in [Nodes -> Int]
      /\ \A x \in Candidates :
           \/ lowlink'[x] = lowlink[x]
           \/ /\ n - 1 \in Active /\ x = frames[n - 1].node
              /\ lowlink'[x] = lowlink[v] /\ lowlink[v] < lowlink[x]
      /\ n - 1 \in Active => lowlink'[frames[n - 1].node] <= lowlink[v]
  BY ReturnMoves
<1>0. UNCHANGED <<input, index, nextIndex, stack, onStack, sccs>>
  BY <1>m DEF Return
<1>g. /\ Candidates' = Candidates /\ Considered' = Considered /\ Closed' = Closed
      /\ \A x : Successors(x)' = Successors(x)
  BY <1>0 DEF input, Candidates, Considered, Closed, Successors
<1>i. /\ \A x \in Candidates : index[x] \in Int /\ lowlink[x] \in Int /\ lowlink'[x] \in Int
      /\ onStack \subseteq Candidates
  BY <1>m DEF TarjanIInv, TarjanTypeOK, Candidates
<1>v. /\ n \in Active /\ n \in Nat /\ frames[n].node = v /\ v \in onStack /\ v \in Candidates
      /\ \A k \in Active : k # n => k < n /\ index[frames[k].node] < index[v] /\ frames[k].node # v
  BY <1>m, TopIsLast
<1>c. \A k \in Active : frames[k].node \in onStack /\ frames[k].node \in Candidates
  BY <1>i DEF TarjanIInv, CallsIInv
<1>l. lowlink[v] < index[v] /\ \E u \in onStack : index[u] = lowlink[v] /\ Reaches(v, u)
  BY <1>v, <1>i DEF TarjanIInv, LowIInv
<1>k. ASSUME NEW k \in Active, k # n PROVE n - 1 \in Active /\ n - 1 # n
  BY <1>v, <1>k DEF Active, n
<1> HIDE DEF n, v
<1>1. TarjanTypeOK'
  BY <1>0, <1>g, <1>m DEF TarjanIInv, TarjanTypeOK, input
<1>2. VisitedIInv' /\ StackIInv'
  BY <1>0, <1>g DEF TarjanIInv, VisitedIInv, StackIInv
<1>3. CallsIInv'
  BY <1>0, <1>g, <1>m DEF TarjanIInv, CallsIInv
<1>4. LowIInv'
  <2> SUFFICES ASSUME NEW x \in onStack
               PROVE  /\ lowlink'[x] <= index[x]
                      /\ \E u \in onStack : index[u] = lowlink'[x] /\ Reaches(x, u)
    BY <1>0, <1>g DEF LowIInv, Reaches
  <2>1. x \in Candidates /\ lowlink[x] <= index[x]
          /\ \E u \in onStack : index[u] = lowlink[x] /\ Reaches(x, u)
    BY <1>i DEF TarjanIInv, LowIInv
  <2>2. CASE lowlink'[x] = lowlink[x]
    BY <2>1, <2>2
  <2>3. CASE n - 1 \in Active /\ x = frames[n - 1].node
               /\ lowlink'[x] = lowlink[v] /\ lowlink[v] < lowlink[x]
    <3>1. lowlink'[x] <= index[x]
      BY <1>i, <1>v, <2>1, <2>3
    <3>2. index[x] <= index[v]
      BY <1>i, <1>v, <2>1, <2>3
    <3>3. Reaches(x, v)
      BY <1>v, <3>2 DEF TarjanIInv, ReachIInv
    <3> QED BY <1>l, <2>3, <3>1, <3>3, ReachFacts
  <2> QED BY <1>m, <2>1, <2>2, <2>3
<1>5. ReachIInv'
  <2>1. ASSUME NEW x \in onStack
        PROVE  \E k \in Active : k # n /\ index[frames[k].node] <= index[x] /\ Reaches(x, frames[k].node)
    <3>1. PICK k \in Active : index[frames[k].node] <= index[x] /\ Reaches(x, frames[k].node)
      BY DEF TarjanIInv, ReachIInv
    <3>2. CASE k # n
      BY <3>1, <3>2
    <3>3. CASE k = n
      <4>1. PICK u \in onStack : index[u] = lowlink[v] /\ Reaches(v, u)
        BY <1>l
      <4>2. PICK j \in Active : index[frames[j].node] <= index[u] /\ Reaches(u, frames[j].node)
        BY DEF TarjanIInv, ReachIInv
      <4>3. index[frames[j].node] < index[v] /\ index[v] <= index[x] /\ j # n
        BY <1>c, <1>i, <1>l, <1>v, <3>1, <3>3, <4>1, <4>2
      <4>4. Reaches(x, frames[j].node)
        BY <1>v, <3>1, <3>3, <4>1, <4>2, ReachFacts
      <4>5. index[frames[j].node] <= index[x]
        <5>1. index[frames[j].node] \in Int /\ index[v] \in Int /\ index[x] \in Int
          BY <1>c, <1>i, <1>v
        <5> QED BY <4>3, <5>1
      <4> QED BY <4>3, <4>4, <4>5
    <3> QED BY <3>2, <3>3
  <2>2. ASSUME NEW x \in onStack
        PROVE  \E k \in Active' : index[frames'[k].node] <= index[x] /\ Reaches(x, frames'[k].node)
    BY <1>m, <2>1
  <2> QED BY <1>0, <1>g, <2>2 DEF TarjanIInv, ReachIInv, Reaches
<1>6. ProcessedIInv'
  <2>1. ASSUME NEW x \in onStack, NEW y \in Processed(x)' PROVE y \in Processed(x)
    BY <1>m, <1>g, <1>v, <2>1 DEF Processed
  <2>2. ASSUME NEW x \in onStack, NEW y \in Processed(x)' PROVE index[y] >= 0
    BY <2>1, <2>2 DEF TarjanIInv, ProcessedIInv
  <2>3. ASSUME NEW k \in Active', NEW x \in onStack, NEW y \in Processed(x)', During(x, k)', y \in onStack
        PROVE  lowlink'[frames[k].node] <= index[y]
    <3>1. k \in Active /\ k # n /\ frames[k].node \in Candidates /\ x \in Candidates /\ y \in Candidates
            /\ y \in Processed(x)
      BY <1>m, <1>c, <1>i, <2>1, <2>3
    <3>2. /\ index[frames[k].node] <= index[x]
          /\ \A l \in Active : l # n /\ k < l => index[x] < index[frames[l].node]
      BY <1>0, <1>m, <2>3 DEF During
    <3>3. CASE index[x] < index[v]
      <4>1. During(x, k)
        BY <1>v, <3>1, <3>2, <3>3 DEF During
      <4>2. lowlink[frames[k].node] <= index[y]
        BY <2>3, <3>1, <4>1 DEF TarjanIInv, ProcessedIInv
      <4>3. lowlink'[frames[k].node] <= lowlink[frames[k].node]
        BY <1>m, <1>i, <3>1
      <4> QED BY <1>i, <3>1, <4>2, <4>3
    <3>4. CASE index[v] <= index[x]
      <4>1. n - 1 \in Active /\ n - 1 # n
        BY <1>k, <3>1
      <4>2. k = n - 1
        <5>1. k = n - 1 \/ k < n - 1
          BY <1>v, <3>1 DEF Active, n
        <5>2. index[frames[n - 1].node] < index[v] /\ index[frames[n - 1].node] \in Int
          BY <1>v, <1>c, <1>i, <4>1
        <5>3. ~(k < n - 1)
          BY <1>v, <1>i, <3>1, <3>2, <3>4, <4>1, <5>2
        <5> QED BY <5>1, <5>3
      <4>3. During(x, n)
        BY <1>v, <3>4 DEF During, Active, n
      <4>4. lowlink[v] <= index[y]
        BY <1>v, <2>3, <3>1, <4>3 DEF TarjanIInv, ProcessedIInv
      <4>5. lowlink'[frames[k].node] <= lowlink[v]
        BY <1>m, <4>1, <4>2
      <4> QED BY <1>i, <1>v, <3>1, <4>4, <4>5
    <3> QED BY <1>i, <1>v, <3>1, <3>3, <3>4
  <2>4. \A k \in Active' : frames'[k].node = frames[k].node
    BY <1>m
  <2> QED BY <1>0, <2>2, <2>3, <2>4 DEF ProcessedIInv
<1>7. PoppedIInv'
  BY <1>0, <1>g DEF TarjanIInv, PoppedIInv, DependenciesFirst, Reaches
<1> QED BY <1>1, <1>2, <1>3, <1>4, <1>5, <1>6, <1>7 DEF TarjanIInv

-----------------------------------------------------------------------------
\* What the end of a root's call pops: the nodes from its own on.
Popping == {x \in onStack : index[x] >= index[Top.node]}

(* The loop that pops the stack down to the root pops exactly those.       *)
LEMMA PopMoves ==
  ASSUME TarjanIInv, Return, lowlink[Top.node] = index[Top.node]
  PROVE  /\ stack' \in Seq(Candidates)
         /\ onStack' = onStack \ Popping
         /\ onStack' = {stack'[i] : i \in 1 .. Len(stack')}
         /\ \A i, j \in 1 .. Len(stack') : i < j => index[stack'[i]] < index[stack'[j]]
         /\ sccs' = Append(sccs, Popping)
<1> DEFINE v == Top.node
           d == Depth(v)
           m == Len(stack)
<1>1. frames # << >> /\ PopComponent(v)
  BY DEF Return
<1>2. v \in onStack /\ stack \in Seq(Candidates) /\ onStack = {stack[i] : i \in 1 .. m}
        /\ \A i, j \in 1 .. m : i < j => index[stack[i]] < index[stack[j]]
  BY <1>1, TopIsLast DEF TarjanIInv, TarjanTypeOK, StackIInv
<1>3. d \in 1 .. m /\ stack[d] = v
  <2>1. \E i \in 1 .. m : stack[i] = v
    BY <1>2
  <2> QED BY <2>1 DEF Depth
<1>4. /\ stack' = SubSeq(stack, 1, d - 1)
      /\ onStack' = onStack \ {stack[i] : i \in d .. m}
      /\ sccs' = Append(sccs, {stack[i] : i \in d .. m})
  BY <1>1 DEF PopComponent
<1>5. \A x \in onStack : index[x] \in Int
  BY DEF TarjanIInv, TarjanTypeOK, Candidates
<1>6. m \in Nat
  BY <1>2
<1>p. Popping = {x \in onStack : index[x] >= index[v]}
  BY DEF Popping
<1> HIDE DEF v, d, m
<1>7. \A i \in 1 .. m : i < d \/ i \in d .. m
  BY <1>3, <1>6
<1>8. \A i \in d .. m : i \in 1 .. m /\ (i = d \/ d < i)
  BY <1>3, <1>6
<1>9. {stack[i] : i \in d .. m} = Popping
  <2>1. ASSUME NEW i \in d .. m PROVE stack[i] \in Popping
    <3>1. stack[i] \in onStack /\ index[stack[i]] \in Int /\ index[v] \in Int
      BY <1>2, <1>5, <1>8
    <3>2. index[stack[i]] >= index[v]
      BY <1>2, <1>3, <1>8, <3>1
    <3> QED BY <1>p, <3>1, <3>2
  <2>2. ASSUME NEW x \in Popping PROVE \E i \in d .. m : x = stack[i]
    <3>1. x \in onStack /\ index[x] >= index[v]
      BY <1>p
    <3>2. PICK i \in 1 .. m : x = stack[i]
      BY <1>2, <3>1
    <3>3. ~ (i < d)
      BY <1>2, <1>3, <1>5, <3>1, <3>2
    <3> QED BY <1>7, <3>2, <3>3
  <2> QED BY <2>1, <2>2
<1>a. \A i \in 1 .. d - 1 : i \in 1 .. m /\ i < d
  BY <1>3, <1>6
<1>b. stack' \in Seq(Candidates) /\ Len(stack') = d - 1 /\ \A i \in 1 .. d - 1 : stack'[i] = stack[i]
  <2>1. stack' = [i \in 1 .. d - 1 |-> stack[i]]
    BY <1>2, <1>3, <1>4, <1>6 DEF m
  <2>2. \A i \in 1 .. d - 1 : stack[i] \in Candidates
    <3>1. \A i \in 1 .. m : stack[i] \in Candidates
      BY <1>2 DEF m
    <3> QED BY <1>a, <3>1
  <2>3. d - 1 \in Nat
    BY <1>3
  <2>4. stack' \in [1 .. d - 1 -> Candidates]
    BY <2>1, <2>2
  <2>5. stack' \in Seq(Candidates) /\ Len(stack') = d - 1
    BY <2>3, <2>4
  <2> QED BY <2>1, <2>5
<1>c. onStack' = {stack'[i] : i \in 1 .. Len(stack')}
  <2>1. ASSUME NEW i \in 1 .. d - 1 PROVE stack[i] \in onStack /\ stack[i] \notin Popping
    <3>1. i \in 1 .. m /\ stack[i] \in onStack
      BY <1>2, <1>a
    <3>2. index[stack[i]] < index[v]
      BY <1>2, <1>3, <1>a
    <3> QED BY <1>2, <1>5, <1>p, <3>1, <3>2
  <2>2. ASSUME NEW x \in onStack, x \notin Popping PROVE \E i \in 1 .. d - 1 : x = stack[i]
    <3>1. PICK i \in 1 .. m : x = stack[i]
      BY <1>2
    <3>2. i < d
      BY <1>7, <1>9, <2>2, <3>1
    <3>3. i \in 1 .. d - 1
      BY <1>3, <3>2
    <3> QED BY <3>1, <3>3
  <2>3. \A i \in 1 .. Len(stack') : stack'[i] \in onStack'
    BY <1>4, <1>9, <1>b, <2>1
  <2>4. \A x \in onStack' : \E i \in 1 .. Len(stack') : x = stack'[i]
    BY <1>4, <1>9, <1>b, <2>2
  <2> QED BY <2>3, <2>4
<1>d. \A i, j \in 1 .. Len(stack') : i < j => index[stack'[i]] < index[stack'[j]]
  BY <1>2, <1>a, <1>b
<1> QED BY <1>4, <1>9, <1>b, <1>c, <1>d

(* Everything that has been popped has all its successors popped.          *)
LEMMA ClosedIsClosed ==
  ASSUME TarjanIInv
  PROVE  Closed \subseteq Candidates /\ \A x \in Closed : Successors(x) \subseteq Closed
<1>1. Closed \subseteq Candidates
  BY DEF TarjanIInv, TarjanTypeOK, Closed
<1>2. ASSUME NEW s \in DOMAIN sccs, NEW x \in sccs[s], NEW w \in Successors(x) PROVE w \in Closed
  <2>1. PICK t \in 1 .. s : w \in sccs[t]
    BY DEF TarjanIInv, PoppedIInv, DependenciesFirst
  <2>2. t \in DOMAIN sccs
    BY <2>1 DEF TarjanIInv, TarjanTypeOK
  <2> QED BY <2>1, <2>2 DEF Closed
<1> QED BY <1>1, <1>2 DEF Closed

(* When a call ends whose node is its own lowlink, the nodes from it on    *)
(* reach each other, and their successors are among them or popped before. *)
LEMMA PoppingIsComponent ==
  ASSUME TarjanIInv, frames # << >>, frames[Len(frames)].left = {},
         lowlink[Top.node] = index[Top.node]
  PROVE  /\ Top.node \in Popping
         /\ \A x \in Popping : Successors(x) \subseteq Popping \cup Closed
         /\ \A x \in Popping : Popping = {j \in Candidates : Reaches(x, j) /\ Reaches(j, x)}
<1> DEFINE n == Len(frames)
           v == Top.node
<1>i. /\ \A x \in Candidates : index[x] \in Int
      /\ onStack \subseteq Candidates
  BY DEF TarjanIInv, TarjanTypeOK, Candidates
<1>v. /\ n \in Active /\ n \in Nat /\ frames[n].node = v /\ v \in onStack /\ v \in Candidates
      /\ \A k \in Active : k # n => k < n /\ index[frames[k].node] < index[v] /\ frames[k].node # v
  BY TopIsLast
<1>c. \A k \in Active : frames[k].node \in onStack /\ frames[k].node \in Candidates
  BY <1>i DEF TarjanIInv, CallsIInv
<1>p. Popping = {x \in onStack : index[x] >= index[v]}
  BY DEF Popping
<1>e. frames[n].left = {} /\ lowlink[v] = index[v]
  OBVIOUS
<1> HIDE DEF n, v
<1>1. v \in Popping
  BY <1>v, <1>i, <1>p
<1>2. ASSUME NEW x \in Popping, NEW w \in Successors(x) PROVE w \in Popping \cup Closed
  <2>1. x \in onStack /\ x \in Candidates /\ index[x] >= index[v] /\ w \in Candidates
    BY <1>i, <1>p DEF Successors
  <2>2. ASSUME NEW k \in Active, frames[k].node = x PROVE k = n
    BY <1>v, <1>i, <1>c, <2>1, <2>2
  <2>3. w \in Processed(x)
    BY <1>e, <2>2 DEF Processed
  <2>4. w \in onStack \cup Closed
    BY <2>1, <2>3 DEF TarjanIInv, ProcessedIInv, VisitedIInv
  <2>5. CASE w \in onStack
    <3>1. \A l \in Active : ~ (n < l)
      BY <1>v DEF Active, n
    <3>2. During(x, n)
      BY <1>v, <1>i, <2>1, <3>1 DEF During
    <3>3. lowlink[v] <= index[w]
      BY <1>v, <2>1, <2>3, <2>5, <3>2 DEF TarjanIInv, ProcessedIInv
    <3> QED BY <1>e, <1>i, <1>p, <1>v, <2>1, <2>5, <3>3
  <2> QED BY <2>4, <2>5
<1>3. ASSUME NEW x \in Popping, NEW y \in Popping PROVE Reaches(x, y)
  <2>1. x \in onStack /\ y \in onStack /\ index[y] >= index[v]
    BY <1>p
  <2>2. PICK k \in Active : Reaches(x, frames[k].node)
    BY <2>1 DEF TarjanIInv, ReachIInv
  <2>3. index[frames[k].node] <= index[v] /\ frames[k].node \in onStack
    BY <1>c, <1>i, <1>v
  <2>4. Reaches(frames[k].node, v)
    BY <1>v, <2>3 DEF TarjanIInv, ReachIInv
  <2>5. index[v] <= index[y]
    BY <1>i, <1>v, <2>1
  <2>6. Reaches(v, y)
    BY <1>v, <2>1, <2>5 DEF TarjanIInv, ReachIInv
  <2> QED BY <2>2, <2>4, <2>6, ReachFacts
<1>4. ASSUME NEW x \in Popping, NEW j \in Candidates, Reaches(x, j), Reaches(j, x) PROVE j \in Popping
  <2>t. TarjanTypeOK
    BY DEF TarjanIInv
  <2> DEFINE T == Popping \cup Closed
  <2>1. T \in SUBSET Candidates /\ \A z \in T : Successors(z) \subseteq T
    BY <1>2, <1>i, <1>p, ClosedIsClosed
  <2>2. x \in T
    OBVIOUS
  <2> HIDE DEF T
  <2>3. j \in T
    BY <1>4, <2>t, <2>1, <2>2, ReachStaysInside
  <2>4. j \notin Closed
    <3> SUFFICES ASSUME j \in Closed PROVE FALSE
      OBVIOUS
    <3>1. Closed \in SUBSET Candidates /\ \A z \in Closed : Successors(z) \subseteq Closed
      BY ClosedIsClosed
    <3>2. x \in Closed
      BY <1>4, <2>t, <3>1, ReachStaysInside
    <3> QED BY <1>p, <3>2 DEF TarjanIInv, VisitedIInv
  <2> QED BY <2>3, <2>4 DEF T
<1>5. ASSUME NEW x \in Popping
      PROVE  Popping = {j \in Candidates : Reaches(x, j) /\ Reaches(j, x)}
  <2>1. Popping \subseteq Candidates
    BY <1>i, <1>p
  <2> QED BY <1>3, <1>4, <2>1
<1> QED BY <1>1, <1>2, <1>5 DEF v

(* The end of a root's call keeps the invariant.                           *)
LEMMA ReturnPops ==
  ASSUME TarjanIInv, Return, lowlink[Top.node] = index[Top.node]
  PROVE  TarjanIInv'
<1> DEFINE n == Len(frames)
           v == Top.node
           P == Popping
<1>m. /\ frames # << >> /\ UNCHANGED <<input, index, nextIndex>>
      /\ frames[n].left = {}
      /\ frames' \in Seq([node : Candidates, left : SUBSET Candidates])
      /\ Active' = Active \ {n}
      /\ \A k \in Active' : frames'[k] = frames[k]
      /\ lowlink' \in [Nodes -> Int]
      /\ \A x \in Candidates :
           \/ lowlink'[x] = lowlink[x]
           \/ /\ n - 1 \in Active /\ x = frames[n - 1].node
              /\ lowlink'[x] = lowlink[v] /\ lowlink[v] < lowlink[x]
  BY ReturnMoves
<1>q. /\ stack' \in Seq(Candidates)
      /\ onStack' = onStack \ P
      /\ onStack' = {stack'[i] : i \in 1 .. Len(stack')}
      /\ \A i, j \in 1 .. Len(stack') : i < j => index[stack'[i]] < index[stack'[j]]
      /\ sccs' = Append(sccs, P)
  BY PopMoves
<1>r. /\ v \in P
      /\ \A x \in P : Successors(x) \subseteq P \cup Closed
      /\ \A x \in P : P = {j \in Candidates : Reaches(x, j) /\ Reaches(j, x)}
  BY <1>m, PoppingIsComponent
<1>g. /\ Candidates' = Candidates /\ Considered' = Considered
      /\ \A x : Successors(x)' = Successors(x)
  BY <1>m DEF input, Candidates, Considered, Successors
<1>i. /\ \A x \in Candidates : index[x] \in Int /\ lowlink[x] \in Int
      /\ onStack \subseteq Candidates /\ P \subseteq onStack
  BY DEF TarjanIInv, TarjanTypeOK, Candidates, Popping
<1>v. /\ n \in Active /\ n \in Nat /\ frames[n].node = v /\ v \in onStack /\ v \in Candidates
      /\ \A k \in Active : k # n => k < n /\ index[frames[k].node] < index[v] /\ frames[k].node # v
  BY <1>m, TopIsLast
<1>c. \A k \in Active : frames[k].node \in onStack /\ frames[k].node \in Candidates
  BY <1>i DEF TarjanIInv, CallsIInv
<1>e. lowlink[v] = index[v] /\ P = {x \in onStack : index[x] >= index[v]}
  BY DEF Popping
<1>o. onStack' = {x \in onStack : index[x] < index[v]}
  BY <1>e, <1>i, <1>q, <1>v
<1> HIDE DEF n, v, P
<1>l. \A x \in Candidates : lowlink'[x] = lowlink[x]
  <2> SUFFICES ASSUME NEW x \in Candidates, n - 1 \in Active, x = frames[n - 1].node,
                      lowlink[v] < lowlink[x]
               PROVE  FALSE
    BY <1>m
  <2>1. n - 1 # n
    BY <1>v
  <2>2. index[x] < index[v] /\ lowlink[x] <= index[x]
    BY <1>v, <1>c, <2>1 DEF TarjanIInv, LowIInv
  <2> QED BY <1>e, <1>i, <1>v, <2>2
<1>s. /\ sccs \in Seq(SUBSET Candidates) /\ sccs' \in Seq(SUBSET Candidates)
      /\ DOMAIN sccs = 1 .. Len(sccs) /\ Len(sccs) \in Nat
      /\ DOMAIN sccs' = 1 .. Len(sccs) + 1
      /\ \A s \in DOMAIN sccs : s \in DOMAIN sccs' /\ sccs'[s] = sccs[s] /\ s # Len(sccs) + 1
      /\ Len(sccs) + 1 \in DOMAIN sccs' /\ sccs'[Len(sccs) + 1] = P
      /\ \A s \in DOMAIN sccs' : s \in DOMAIN sccs \/ s = Len(sccs) + 1
  <2>1. sccs \in Seq(SUBSET Candidates) /\ P \in SUBSET Candidates
    BY <1>i DEF TarjanIInv, TarjanTypeOK
  <2> DEFINE S == SUBSET Candidates
  <2>2. sccs \in Seq(S) /\ P \in S
    BY <2>1
  <2> HIDE DEF S
  <2>3. /\ sccs' \in Seq(S) /\ Len(sccs) \in Nat /\ Len(sccs') = Len(sccs) + 1
        /\ DOMAIN sccs = 1 .. Len(sccs) /\ DOMAIN sccs' = 1 .. Len(sccs')
        /\ \A s \in 1 .. Len(sccs) : sccs'[s] = sccs[s]
        /\ sccs'[Len(sccs) + 1] = P
    BY <1>q, <2>2
  <2>4. sccs' \in Seq(SUBSET Candidates)
    BY <2>3 DEF S
  <2> QED BY <2>1, <2>3, <2>4
<1>d. Closed' = Closed \cup P
  <2>1. \A x \in Closed' : x \in Closed \cup P
    BY <1>s DEF Closed
  <2>2. \A x \in Closed \cup P : x \in Closed'
    <3>1. \A s \in DOMAIN sccs' : sccs'[s] \subseteq Closed'
      BY DEF Closed
    <3>2. \A x \in Closed : \E s \in DOMAIN sccs : x \in sccs[s]
      BY DEF Closed
    <3> QED BY <1>s, <3>1, <3>2
  <2> QED BY <2>1, <2>2
<1>1. TarjanTypeOK'
  BY <1>g, <1>i, <1>m, <1>q, <1>s DEF TarjanIInv, TarjanTypeOK, input
<1>2. VisitedIInv'
  <2>1. \A x \in Candidates : index[x] < nextIndex /\ (index[x] >= 0 <=> x \in onStack \cup Closed)
    BY DEF TarjanIInv, VisitedIInv
  <2>2. onStack' \cup Closed' = onStack \cup Closed
    BY <1>q, <1>d, <1>i
  <2>3. onStack' \cap Closed' = {}
    BY <1>q, <1>d DEF TarjanIInv, VisitedIInv
  <2> QED BY <1>m, <1>g, <2>1, <2>2, <2>3 DEF VisitedIInv
<1>3. StackIInv'
  BY <1>m, <1>q DEF StackIInv
<1>4. CallsIInv'
  <2>1. \A k \in Active' : k \in Active /\ k # n /\ frames'[k] = frames[k] /\ frames[k].node \in onStack'
    BY <1>m, <1>o, <1>c, <1>v
  <2> QED BY <1>m, <1>g, <2>1 DEF TarjanIInv, CallsIInv
<1>5. LowIInv'
  <2> SUFFICES ASSUME NEW x \in onStack'
               PROVE  /\ lowlink[x] <= index[x]
                      /\ \E u \in onStack' : index[u] = lowlink[x] /\ Reaches(x, u)
    BY <1>m, <1>g, <1>l, <1>i, <1>q DEF LowIInv, Reaches
  <2>1. x \in onStack /\ index[x] < index[v] /\ lowlink[x] <= index[x]
    BY <1>o DEF TarjanIInv, LowIInv
  <2>2. PICK u \in onStack : index[u] = lowlink[x] /\ Reaches(x, u)
    BY <2>1 DEF TarjanIInv, LowIInv
  <2>3. u \in onStack'
    BY <1>o, <1>i, <1>v, <2>1, <2>2
  <2> QED BY <2>1, <2>2, <2>3
<1>6. ReachIInv'
  <2>1. \A x, y \in onStack' : index[x] <= index[y] => Reaches(x, y)
    BY <1>q DEF TarjanIInv, ReachIInv
  <2>2. ASSUME NEW x \in onStack'
        PROVE  \E k \in Active' : index[frames'[k].node] <= index[x] /\ Reaches(x, frames'[k].node)
    <3>1. x \in onStack /\ x \in Candidates /\ index[x] < index[v]
      BY <1>o, <1>i
    <3>2. PICK k \in Active : index[frames[k].node] <= index[x] /\ Reaches(x, frames[k].node)
      BY <3>1 DEF TarjanIInv, ReachIInv
    <3>3. k # n
      BY <1>v, <1>i, <3>1, <3>2
    <3> QED BY <1>m, <3>2, <3>3
  <2> QED BY <1>m, <1>g, <2>1, <2>2 DEF ReachIInv, Reaches
<1>7. ProcessedIInv'
  <2>1. ASSUME NEW x \in onStack', NEW y \in Processed(x)' PROVE y \in Processed(x)
    BY <1>m, <1>g, <1>v, <2>1 DEF Processed
  <2>2. ASSUME NEW x \in onStack', NEW y \in Processed(x)' PROVE index[y] >= 0
    BY <1>o, <2>1, <2>2 DEF TarjanIInv, ProcessedIInv
  <2>3. ASSUME NEW k \in Active', NEW x \in onStack', NEW y \in Processed(x)', During(x, k)', y \in onStack'
        PROVE  lowlink'[frames[k].node] <= index[y]
    <3>1. k \in Active /\ k # n /\ x \in onStack /\ y \in onStack /\ y \in Processed(x)
            /\ index[x] < index[v] /\ frames[k].node \in Candidates
      BY <1>m, <1>c, <1>o, <2>1, <2>3
    <3>2. /\ index[frames[k].node] <= index[x]
          /\ \A l \in Active : l # n /\ k < l => index[x] < index[frames[l].node]
      BY <1>m, <2>3 DEF During
    <3>3. During(x, k)
      BY <1>v, <3>1, <3>2 DEF During
    <3>4. lowlink[frames[k].node] <= index[y]
      BY <3>1, <3>3 DEF TarjanIInv, ProcessedIInv
    <3> QED BY <1>l, <3>1, <3>4
  <2>4. \A k \in Active' : frames'[k].node = frames[k].node
    BY <1>m
  <2> QED BY <1>m, <2>2, <2>3, <2>4 DEF ProcessedIInv
<1>8. PoppedIInv'
  <2>1. ASSUME NEW s \in DOMAIN sccs', NEW x \in sccs'[s], NEW w \in Successors(x)
        PROVE  \E t \in 1 .. s : w \in sccs'[t]
    <3>1. CASE s \in DOMAIN sccs
      <4>1. PICK t \in 1 .. s : w \in sccs[t]
        BY <1>s, <3>1 DEF TarjanIInv, PoppedIInv, DependenciesFirst
      <4>2. t \in DOMAIN sccs
        BY <1>s, <3>1, <4>1
      <4> QED BY <1>s, <4>1, <4>2
    <3>2. CASE s = Len(sccs) + 1
      <4>1. w \in P \cup Closed
        BY <1>r, <1>s, <3>2
      <4>2. CASE w \in P
        BY <1>s, <3>2, <4>2
      <4>3. CASE w \in Closed
        <5>1. PICK t \in DOMAIN sccs : w \in sccs[t]
          BY <4>3 DEF Closed
        <5> QED BY <1>s, <3>2, <5>1
      <4> QED BY <4>1, <4>2, <4>3
    <3> QED BY <1>s, <3>1, <3>2
  <2>2. DependenciesFirst'
    BY <1>g, <2>1 DEF DependenciesFirst
  <2>3. ASSUME NEW s \in DOMAIN sccs'
        PROVE  /\ sccs'[s] # {}
               /\ \A x \in sccs'[s] : sccs'[s] = {j \in Candidates : Reaches(x, j) /\ Reaches(j, x)}
    <3>1. CASE s \in DOMAIN sccs
      BY <1>s, <3>1 DEF TarjanIInv, PoppedIInv
    <3>2. CASE s = Len(sccs) + 1
      BY <1>r, <1>s, <3>2
    <3> QED BY <1>s, <3>1, <3>2
  <2>4. ASSUME NEW s \in DOMAIN sccs', NEW t \in DOMAIN sccs', s # t PROVE sccs'[s] \cap sccs'[t] = {}
    <3>1. \A r \in DOMAIN sccs : sccs[r] \cap P = {}
      BY <1>i DEF TarjanIInv, VisitedIInv, Closed
    <3>2. CASE s \in DOMAIN sccs /\ t \in DOMAIN sccs
      BY <1>s, <2>4, <3>2 DEF TarjanIInv, PoppedIInv
    <3>3. CASE s = Len(sccs) + 1 \/ t = Len(sccs) + 1
      BY <1>s, <2>4, <3>1, <3>3
    <3> QED BY <1>s, <3>2, <3>3
  <2> QED BY <1>g, <2>2, <2>3, <2>4 DEF PoppedIInv, Reaches
<1> QED BY <1>1, <1>2, <1>3, <1>4, <1>5, <1>6, <1>7, <1>8 DEF TarjanIInv

-----------------------------------------------------------------------------
(* A graph that nothing has been searched of satisfies the invariant.      *)
LEMMA StartHasIInv ==
  ASSUME graph.edges \subseteq Nodes \X Nodes, TarjanStart
  PROVE  TarjanIInv
<1>0. /\ expected.component = ComponentsOf(Candidates, Considered)
      /\ index = [v \in Nodes |-> -1] /\ lowlink = [v \in Nodes |-> -1]
      /\ stack = << >> /\ onStack = {} /\ nextIndex = 0 /\ frames = << >> /\ sccs = << >>
  BY DEF TarjanStart
<1>1. TarjanTypeOK
  BY <1>0 DEF TarjanTypeOK
<1>2. Active = {} /\ Closed = {} /\ Candidates \subseteq Nodes
  BY <1>0 DEF Active, Closed, Candidates
<1>3. \A v \in Candidates : index[v] = -1
  BY <1>0, <1>2
<1>4. VisitedIInv
  BY <1>0, <1>2, <1>3 DEF VisitedIInv
<1>5. StackIInv /\ CallsIInv /\ LowIInv /\ ReachIInv /\ ProcessedIInv
  BY <1>0, <1>2 DEF StackIInv, CallsIInv, LowIInv, ReachIInv, ProcessedIInv
<1>6. PoppedIInv
  BY <1>0 DEF PoppedIInv, DependenciesFirst
<1> QED BY <1>1, <1>4, <1>5, <1>6 DEF TarjanIInv

(* The invariant is about the search, not about the levels.                *)
LEMMA RestKeepsIInv ==
  ASSUME TarjanIInv, UNCHANGED <<input, index, lowlink, stack, onStack, nextIndex, frames, sccs>>
  PROVE  TarjanIInv'
<1>1. /\ Candidates' = Candidates /\ Considered' = Considered /\ Closed' = Closed /\ Active' = Active
      /\ \A x : Successors(x)' = Successors(x)
  BY DEF input, Candidates, Considered, Closed, Successors, Active
<1>2. TarjanTypeOK' /\ VisitedIInv' /\ StackIInv' /\ CallsIInv'
  BY <1>1 DEF TarjanIInv, TarjanTypeOK, VisitedIInv, StackIInv, CallsIInv, input
<1>3. LowIInv' /\ ReachIInv' /\ PoppedIInv'
  BY <1>1 DEF TarjanIInv, LowIInv, ReachIInv, PoppedIInv, DependenciesFirst, Reaches
<1>4. ProcessedIInv'
  <2>1. \A x : Processed(x)' = Processed(x) /\ \A k : During(x, k)' = During(x, k)
    BY <1>1 DEF Processed, During
  <2> QED BY <1>1, <2>1 DEF TarjanIInv, ProcessedIInv
<1> QED BY <1>2, <1>3, <1>4 DEF TarjanIInv

LEMMA SearchKeepsIInv ==
  ASSUME TarjanIInv, Root \/ Descend \/ SeeVisited \/ Return
  PROVE  TarjanIInv'
BY CallsKeepIInv, SeeVisitedKeepsIInv, ReturnBelowRoot, ReturnPops

LEMMA TarjanNextIInv ==
  ASSUME TarjanIInv, [TarjanNext]_tarjanVars
  PROVE  TarjanIInv'
<1>1. CASE Root \/ Descend \/ SeeVisited \/ Return
  BY <1>1, SearchKeepsIInv
<1>2. CASE ComputeLevels \/ SearchOver \/ UNCHANGED tarjanVars
  BY <1>2, RestKeepsIInv DEF ComputeLevels, SearchOver, tarjanVars
<1> QED BY <1>1, <1>2 DEF TarjanNext

(* When no call is active and every node has been visited, every node has  *)
(* been popped.                                                            *)
LEMMA SearchedIsClosed ==
  ASSUME TarjanIInv, Searched
  PROVE  Closed = Candidates
<1>1. Active = {}
  BY DEF Searched, Active
<1>2. onStack = {}
  BY <1>1 DEF TarjanIInv, ReachIInv
<1>3. \A v \in Candidates : v \in Closed
  BY <1>2 DEF TarjanIInv, VisitedIInv, Searched
<1> QED BY <1>3, ClosedIsClosed

(* The component ComponentGraph gives a node.                              *)
LEMMA ComponentIs ==
  ASSUME TarjanIInv, NEW v \in Candidates
  PROVE  expected.component[v] = {j \in Candidates : Reaches(v, j) /\ Reaches(j, v)}
<1>1. expected.component[v] = ComponentsOf(Candidates, Considered)[v]
  BY DEF TarjanIInv, TarjanTypeOK
<1>2. \A i, j : i \in Candidates => (<<i, j>> \in Reach(Candidates, Considered) <=> Reaches(i, j))
  BY DEF Reach, Reaches
<1>3. ComponentsOf(Candidates, Considered)[v] =
        {j \in Candidates : /\ <<v, j>> \in Reach(Candidates, Considered)
                            /\ <<j, v>> \in Reach(Candidates, Considered)}
  BY DEF ComponentsOf
<1> QED BY <1>1, <1>2, <1>3

LEMMA IInvPopsTheComponents ==
  ASSUME TarjanIInv
  PROVE  PopsTheComponents
<1> SUFFICES ASSUME Searched
             PROVE  /\ {sccs[s] : s \in DOMAIN sccs} = {expected.component[v] : v \in Candidates}
                    /\ \A s, t \in DOMAIN sccs : sccs[s] = sccs[t] => s = t
  BY DEF PopsTheComponents
<1>1. ASSUME NEW s \in DOMAIN sccs, NEW v \in sccs[s]
      PROVE  v \in Candidates /\ sccs[s] = expected.component[v]
  <2>1. v \in Candidates
    BY ClosedIsClosed DEF Closed
  <2> QED BY <2>1, ComponentIs DEF TarjanIInv, PoppedIInv
<1>2. \A s \in DOMAIN sccs : \E v \in sccs[s] : TRUE
  BY DEF TarjanIInv, PoppedIInv
<1>3. \A v \in Candidates : \E s \in DOMAIN sccs : v \in sccs[s]
  BY SearchedIsClosed DEF Closed
<1>4. {sccs[s] : s \in DOMAIN sccs} = {expected.component[v] : v \in Candidates}
  <2>1. \A s \in DOMAIN sccs : \E v \in Candidates : sccs[s] = expected.component[v]
    BY <1>1, <1>2
  <2>2. \A v \in Candidates : \E s \in DOMAIN sccs : expected.component[v] = sccs[s]
    BY <1>1, <1>3
  <2> QED BY <2>1, <2>2
<1>5. \A s, t \in DOMAIN sccs : sccs[s] = sccs[t] => s = t
  BY <1>2 DEF TarjanIInv, PoppedIInv
<1> QED BY <1>4, <1>5

(* The functions of the components that have a cycle are those on a cycle: *)
(* a component without another member has its self call, if it has one,    *)
(* from that member.                                                       *)
LEMMA IInvFindsRecursive ==
  ASSUME TarjanIInv, Searched, Size \in Nat
  PROVE  RecursiveFuncs = OnCycle(Candidates, Considered)
<1> DEFINE comp == ComponentsOf(Candidates, Considered)
           Recursive(s) == Cardinality(sccs[s]) > 1 \/ \E v \in sccs[s] : HasSelfCall(v)
<1>1. ASSUME NEW s \in DOMAIN sccs, NEW v \in sccs[s]
      PROVE  v \in Candidates /\ sccs[s] = comp[v] /\ IsFiniteSet(sccs[s])
  <2>1. v \in Candidates /\ sccs[s] \subseteq Candidates
    BY ClosedIsClosed DEF Closed
  <2>2. sccs[s] = expected.component[v]
    BY <2>1, ComponentIs DEF TarjanIInv, PoppedIInv
  <2>3. IsFiniteSet(Candidates)
    <3>1. 1 \in Int /\ Size \in Int
      OBVIOUS
    <3>2. IsFiniteSet(Nodes)
      BY <3>1, FS_Interval DEF Nodes
    <3>3. Candidates \in SUBSET Nodes
      BY DEF Candidates
    <3> QED BY <3>2, <3>3, FS_Subset
  <2> QED BY <2>1, <2>2, <2>3, FS_Subset DEF TarjanIInv, TarjanTypeOK
<1>2. \A v \in Candidates : \E s \in DOMAIN sccs : v \in sccs[s]
  BY SearchedIsClosed DEF Closed
<1>3. \A v \in Candidates : HasSelfCall(v) <=> <<v, v>> \in Considered
  BY DEF HasSelfCall, Successors, Considered
<1>4. RecursiveFuncs = UNION {sccs[s] : s \in {t \in DOMAIN sccs : Recursive(t)}}
  BY DEF RecursiveFuncs, RecursiveComponents
<1>5. OnCycle(Candidates, Considered) =
        {m \in Candidates : <<m, m>> \in Considered \/ Cardinality(comp[m]) > 1}
  BY DEF OnCycle
<1> HIDE DEF comp
<1>6. ASSUME NEW v \in RecursiveFuncs PROVE v \in OnCycle(Candidates, Considered)
  <2>1. PICK s \in DOMAIN sccs : v \in sccs[s] /\ Recursive(s)
    BY <1>4
  <2>2. v \in Candidates /\ sccs[s] = comp[v] /\ IsFiniteSet(sccs[s])
    BY <1>1, <2>1
  <2>3. CASE Cardinality(sccs[s]) > 1
    BY <1>5, <2>2, <2>3
  <2>4. CASE ~ (Cardinality(sccs[s]) > 1)
    <3>1. PICK u \in sccs[s] : HasSelfCall(u)
      BY <2>1, <2>4
    <3>2. Cardinality(sccs[s]) \in Nat /\ Cardinality(sccs[s]) # 0
      BY <2>1, <2>2, FS_CardinalityType, FS_EmptySet
    <3>3. Cardinality(sccs[s]) = 1
      BY <2>4, <3>2
    <3>4. u = v
      BY <2>1, <2>2, <3>3, FS_Singleton
    <3> QED BY <1>3, <1>5, <2>2, <3>1, <3>4
  <2> QED BY <2>3, <2>4
<1>7. ASSUME NEW v \in OnCycle(Candidates, Considered) PROVE v \in RecursiveFuncs
  <2>1. v \in Candidates /\ (<<v, v>> \in Considered \/ Cardinality(comp[v]) > 1)
    BY <1>5
  <2>2. PICK s \in DOMAIN sccs : v \in sccs[s]
    BY <1>2, <2>1
  <2>3. Recursive(s)
    BY <1>1, <1>3, <2>1, <2>2
  <2> QED BY <1>4, <2>2, <2>3
<1> QED BY <1>6, <1>7

-----------------------------------------------------------------------------
\* The levels.

Level == LevelsOf(Candidates, Considered)

\* The levels are computed once, after the search, and are those of ComponentGraph.
LevelIInv ==
  /\ expected.level = Level
  /\ levels # << >> => Searched /\ \A s \in DOMAIN sccs : \A v \in sccs[s] : levels[s] = Level[v]

(* What has been popped at a position is the component of each node there, *)
(* and these have one level.                                               *)
LEMMA PoppedLevel ==
  ASSUME TarjanIInv, NEW s \in DOMAIN sccs, NEW v \in sccs[s]
  PROVE  /\ v \in Candidates /\ sccs[s] = ComponentsOf(Candidates, Considered)[v]
         /\ \A u \in sccs[s] : Level[u] = Level[v]
<1>1. v \in Candidates
  BY ClosedIsClosed DEF Closed
<1>2. sccs[s] = ComponentsOf(Candidates, Considered)[v]
  BY <1>1, ComponentIs DEF TarjanIInv, PoppedIInv, TarjanTypeOK
<1>3. ASSUME NEW u \in sccs[s] PROVE Level[u] = Level[v]
  <2>1. u \in ReachableFrom(Candidates, Considered, v) /\ v \in ReachableFrom(Candidates, Considered, u)
    BY <1>1, <1>2, InComponentOf
  <2>2. u \in Candidates
    BY <2>1, ReachableType
  <2>3. <<u, v>> \in Reach(Candidates, Considered) /\ <<v, u>> \in Reach(Candidates, Considered)
    BY <1>1, <2>1, <2>2, ReachPair
  <2> QED BY <2>3, LevelOfComponent DEF Level
<1> QED BY <1>1, <1>2, <1>3

(* The level of a position, from those of the positions it depends on,     *)
(* which all come before it.                                               *)
LEMMA LevelFromDependencies ==
  ASSUME TarjanIInv, Searched, Size \in Nat, NEW s \in DOMAIN sccs, NEW v \in sccs[s]
  PROVE  /\ Dependencies(s) \subseteq 1 .. s - 1
         /\ Level[v] \in Nat
         /\ Dependencies(s) = {} => Level[v] = 0
         /\ \A t \in Dependencies(s) : \A d \in sccs[t] : Level[d] < Level[v]
         /\ Dependencies(s) # {} => \E t \in Dependencies(s) : \A d \in sccs[t] : Level[d] + 1 = Level[v]
<1> DEFINE comp == ComponentsOf(Candidates, Considered)
           deps == {d \in Candidates \ comp[v] : \E a \in comp[v] : <<a, d>> \in Considered}
<1>1. v \in Candidates /\ sccs[s] = comp[v]
  BY PoppedLevel
<1>2. IsFiniteSet(Candidates)
  <2>1. 1 \in Int /\ Size \in Int
    OBVIOUS
  <2>2. IsFiniteSet(Nodes)
    BY <2>1, FS_Interval DEF Nodes
  <2>3. Candidates \in SUBSET Nodes
    BY DEF Candidates
  <2> QED BY <2>2, <2>3, FS_Subset
<1>3. Considered \subseteq Candidates \X Candidates
  <2>1. \A e \in graph.edges : e = <<e[1], e[2]>>
    BY DEF TarjanIInv, TarjanTypeOK
  <2> QED BY <2>1 DEF Considered
<1>4. /\ \A d \in deps : Level[d] < Level[v]
      /\ Level[v] = 0 \/ \E d \in deps : Level[d] + 1 = Level[v]
      /\ deps = {} => Level[v] = 0
  BY <1>1, <1>2, <1>3, LevelRecursion DEF Level
<1>n. \A u \in Candidates : Level[u] \in Nat
  BY <1>2, LevelIsLongest, FS_CardinalityType DEF Level
<1>5. \A t \in DOMAIN sccs : sccs[t] # {} /\ \A d \in sccs[t] : d \in Candidates /\ \A c \in sccs[t] : Level[c] = Level[d]
  BY PoppedLevel DEF TarjanIInv, PoppedIInv
<1>6. \A r, t \in DOMAIN sccs : r # t => sccs[r] \cap sccs[t] = {}
  BY DEF TarjanIInv, PoppedIInv
<1>7. ASSUME NEW d \in deps PROVE \E t \in Dependencies(s) : d \in sccs[t]
  <2>1. PICK a \in comp[v] : <<a, d>> \in Considered
    OBVIOUS
  <2>2. PICK t \in DOMAIN sccs : d \in sccs[t]
    BY SearchedIsClosed DEF Closed
  <2>3. t # s /\ <<a, d>> \in graph.edges
    BY <1>1, <2>1, <2>2 DEF Considered
  <2> QED BY <1>1, <2>1, <2>2, <2>3 DEF Dependencies
<1>8. ASSUME NEW t \in Dependencies(s) PROVE t \in DOMAIN sccs /\ t # s /\ \E d \in deps : d \in sccs[t]
  <2>1. PICK a \in sccs[s], d \in sccs[t] : <<a, d>> \in graph.edges
    BY DEF Dependencies
  <2>2. t \in DOMAIN sccs /\ t # s
    BY DEF Dependencies
  <2>3. a \in Candidates /\ d \in Candidates
    BY <1>5, <2>1, <2>2
  <2>4. <<a, d>> \in Considered
    <3>1. <<a, d>>[1] = a /\ <<a, d>>[2] = d
      OBVIOUS
    <3> QED BY <2>1, <2>3, <3>1 DEF Considered
  <2>5. d \notin sccs[s]
    BY <1>6, <2>1, <2>2
  <2> QED BY <1>1, <2>1, <2>2, <2>3, <2>4, <2>5
<1>9. Dependencies(s) \subseteq 1 .. s - 1
  <2> SUFFICES ASSUME NEW t \in Dependencies(s) PROVE t \in 1 .. s - 1
    OBVIOUS
  <2>1. t \in DOMAIN sccs /\ t # s
    BY <1>8
  <2>2. PICK a \in sccs[s], d \in sccs[t] : <<a, d>> \in graph.edges
    BY DEF Dependencies
  <2>3. d \in Successors(a)
    BY <1>5, <2>1, <2>2 DEF Successors
  <2>4. PICK r \in 1 .. s : d \in sccs[r]
    BY <2>3 DEF TarjanIInv, PoppedIInv, DependenciesFirst
  <2>5. DOMAIN sccs = 1 .. Len(sccs) /\ Len(sccs) \in Nat
    BY DEF TarjanIInv, TarjanTypeOK
  <2>6. r \in DOMAIN sccs
    BY <2>4, <2>5
  <2>7. r = t
    BY <1>6, <2>1, <2>2, <2>4, <2>6
  <2> QED BY <2>1, <2>4, <2>5, <2>7
<1> HIDE DEF deps, comp
<1>10. Dependencies(s) = {} => Level[v] = 0
  BY <1>4, <1>7
<1>11. \A t \in Dependencies(s) : \A d \in sccs[t] : Level[d] < Level[v]
  BY <1>4, <1>5, <1>8
<1>12. ASSUME Dependencies(s) # {}
       PROVE  \E t \in Dependencies(s) : \A d \in sccs[t] : Level[d] + 1 = Level[v]
  <2>1. PICK t \in Dependencies(s) : TRUE
    BY <1>12
  <2>2. PICK d \in deps : d \in sccs[t]
    BY <1>8
  <2>3. Level[d] < Level[v] /\ Level[d] \in Nat
    BY <1>4, <1>5, <1>8, <1>n, <2>2
  <2>4. Level[v] # 0
    BY <2>3
  <2>5. PICK c \in deps : Level[c] + 1 = Level[v]
    BY <1>4, <2>4
  <2>6. PICK r \in Dependencies(s) : c \in sccs[r]
    BY <1>7
  <2> QED BY <1>5, <1>8, <2>5, <2>6
<1> QED BY <1>1, <1>n, <1>9, <1>10, <1>11, <1>12

(* computeSCCLevels fills its vector front to back; each round finds the   *)
(* levels of the dependencies in place.                                    *)
LEMMA LevelVectorIsLevel ==
  ASSUME TarjanIInv, Searched, Size \in Nat
  PROVE  /\ DOMAIN LevelVector = DOMAIN sccs
         /\ \A s \in DOMAIN sccs : \A v \in sccs[s] : LevelVector[s] = Level[v]
<1> DEFINE N == Len(sccs)
           lev(s) == Level[CHOOSE v \in sccs[s] : TRUE]
           round(h, n) == [h EXCEPT ![n] = IF Dependencies(n) = {}
                                           THEN 0
                                           ELSE 1 + Max({h[t] : t \in Dependencies(n)})]
           body(h) == [n \in 0 .. N |-> IF n = 0 THEN [s \in DOMAIN sccs |-> 0] ELSE round(h[n - 1], n)]
           upTo(n) == [s \in DOMAIN sccs |-> IF s <= n THEN lev(s) ELSE 0]
           filled == [n \in 0 .. N |-> upTo(n)]
           after == CHOOSE h : h = body(h)
<1>0. N \in Nat /\ DOMAIN sccs = 1 .. N
  BY DEF TarjanIInv, TarjanTypeOK
<1>1. LevelVector = after[N]
  BY DEF LevelVector
<1>2. \A s \in DOMAIN sccs : \E v \in sccs[s] : v = CHOOSE u \in sccs[s] : TRUE
  BY DEF TarjanIInv, PoppedIInv
<1>3. \A s \in DOMAIN sccs : \A v \in sccs[s] : lev(s) = Level[v]
  BY <1>2, PoppedLevel
<1>4. ASSUME NEW n \in 1 .. N PROVE round(upTo(n - 1), n) = upTo(n)
  <2> DEFINE below == {upTo(n - 1)[t] : t \in Dependencies(n)}
  <2>0. n \in DOMAIN sccs
    BY <1>0
  <2>1. PICK v \in sccs[n] : lev(n) = Level[v]
    BY <1>2, <1>3, <2>0
  <2>2. /\ Dependencies(n) \subseteq 1 .. n - 1
        /\ Level[v] \in Nat
        /\ Dependencies(n) = {} => Level[v] = 0
        /\ \A t \in Dependencies(n) : \A d \in sccs[t] : Level[d] < Level[v]
        /\ Dependencies(n) # {} => \E t \in Dependencies(n) : \A d \in sccs[t] : Level[d] + 1 = Level[v]
    BY <2>0, LevelFromDependencies
  <2>3. \A t \in Dependencies(n) : t \in DOMAIN sccs /\ upTo(n - 1)[t] = lev(t)
    BY <1>0, <2>0, <2>2
  <2>4. \A t \in Dependencies(n) : \E u \in sccs[t] : lev(t) = Level[u] /\ Level[u] \in Nat
    BY <1>2, <1>3, <2>3, LevelFromDependencies
  <2>5. Dependencies(n) # {} => 1 + Max(below) = Level[v]
    <3> SUFFICES ASSUME Dependencies(n) # {} PROVE 1 + Max(below) = Level[v]
      OBVIOUS
    <3>1. ASSUME NEW x \in below PROVE x \in Nat /\ x < Level[v]
      <4>1. PICK t \in Dependencies(n) : x = lev(t)
        BY <2>3
      <4>2. PICK u \in sccs[t] : x = Level[u] /\ Level[u] \in Nat
        BY <2>4, <4>1
      <4> QED BY <2>2, <4>2
    <3>2. PICK t \in Dependencies(n) : \A d \in sccs[t] : Level[d] + 1 = Level[v]
      BY <2>2
    <3>3. lev(t) + 1 = Level[v] /\ lev(t) \in below
      BY <2>3, <2>4, <3>2
    <3> HIDE DEF below, lev
    <3>4. ASSUME NEW x \in below PROVE lev(t) >= x
      BY <2>2, <3>1, <3>3
    <3>5. Max(below) \in below /\ \A x \in below : Max(below) >= x
      BY <3>3, <3>4 DEF Max
    <3>6. Max(below) = lev(t)
      BY <3>1, <3>3, <3>4, <3>5
    <3> QED BY <2>2, <3>1, <3>3, <3>6
  <2> DEFINE x == IF Dependencies(n) = {} THEN 0 ELSE 1 + Max(below)
  <2>6. x = lev(n)
    BY <2>1, <2>2, <2>5
  <2>7. round(upTo(n - 1), n) = [upTo(n - 1) EXCEPT ![n] = x]
    OBVIOUS
  <2> HIDE DEF x, lev, round
  <2>8. [upTo(n - 1) EXCEPT ![n] = x] = upTo(n)
    <3>1. \A s \in 1 .. N : (s <= n <=> s = n \/ s <= n - 1) /\ ~ (n <= n - 1)
      BY <1>0
    <3> HIDE DEF N
    <3>2. \A s \in DOMAIN sccs : [upTo(n - 1) EXCEPT ![n] = x][s] = upTo(n)[s]
      BY <1>0, <2>6, <3>1
    <3> QED BY <3>2
  <2> QED BY <2>7, <2>8
<1>5. upTo(0) = [s \in DOMAIN sccs |-> 0]
  BY <1>0
<1> HIDE DEF lev, round, upTo
<1>6. filled = body(filled)
  <2> HIDE DEF N
  <2>1. ASSUME NEW n \in 0 .. N PROVE filled[n] = body(filled)[n]
    <3>1. CASE n = 0
      BY <1>5, <3>1
    <3>2. CASE n # 0
      <4>1. n \in 1 .. N /\ n - 1 \in 0 .. N
        BY <1>0, <3>2
      <4>2. filled[n - 1] = upTo(n - 1)
        BY <4>1
      <4> QED BY <1>4, <3>2, <4>1, <4>2
    <3> QED BY <3>1, <3>2
  <2> HIDE DEF upTo
  <2> QED BY <2>1
<1>7. after = body(after)
  <2> HIDE DEF body, filled
  <2> QED BY <1>6
<1> HIDE DEF after
<1>8. after[0] = upTo(0) /\ \A n \in 1 .. N : after[n] = round(after[n - 1], n)
  <2>1. 0 \in 0 .. N /\ \A n \in 1 .. N : n \in 0 .. N /\ n # 0
    BY <1>0
  <2>2. \A n \in 0 .. N : after[n] = body(after)[n]
    BY <1>7
  <2> HIDE DEF N
  <2> QED BY <1>5, <2>1, <2>2
<1>9. \A n \in 0 .. N : after[n] = upTo(n)
  <2> DEFINE wrong == {n \in 0 .. N : after[n] # upTo(n)}
  <2> SUFFICES ASSUME wrong # {} PROVE FALSE
    OBVIOUS
  <2>1. PICK n \in wrong : \A k \in wrong : n <= k
    <3>1. wrong \in SUBSET Nat
      OBVIOUS
    <3> HIDE DEF wrong
    <3> QED BY <3>1, LeastNat
  <2>2. n \in 1 .. N
    BY <1>8, <2>1
  <2>3. after[n - 1] = upTo(n - 1)
    BY <1>0, <2>1, <2>2
  <2> QED BY <1>4, <1>8, <2>1, <2>2, <2>3
<1>10. LevelVector = upTo(N)
  BY <1>0, <1>1, <1>9
<1>11. upTo(N) = [s \in DOMAIN sccs |-> lev(s)]
  BY <1>0 DEF upTo
<1> QED BY <1>3, <1>10, <1>11

(* The levels are computed at the end of the search, and nothing follows.  *)
LEMMA ComputeLevelsIsRight ==
  ASSUME TarjanIInv, LevelIInv, Size \in Nat, ComputeLevels
  PROVE  LevelIInv'
<1>1. /\ Candidates' = Candidates /\ Considered' = Considered /\ Level' = Level
      /\ sccs' = sccs /\ expected' = expected /\ levels' = LevelVector
      /\ Searched /\ (Searched' <=> Searched)
  BY DEF ComputeLevels, input, Candidates, Considered, Level, Searched
<1> QED BY <1>1, LevelVectorIsLevel DEF LevelIInv

LEMMA RestKeepsLevels ==
  ASSUME LevelIInv, UNCHANGED <<input, index, frames, sccs, levels>>
  PROVE  LevelIInv'
<1>1. /\ Candidates' = Candidates /\ Considered' = Considered /\ Level' = Level
      /\ sccs' = sccs /\ expected' = expected /\ levels' = levels
      /\ (Searched' <=> Searched)
  BY DEF input, Candidates, Considered, Level, Searched
<1> QED BY <1>1 DEF LevelIInv

LEMMA SearchKeepsLevels ==
  ASSUME TarjanIInv, LevelIInv, Root \/ Descend \/ SeeVisited \/ Return
  PROVE  LevelIInv'
<1>1. ~ Searched
  <2>1. ASSUME Root PROVE \E v \in Candidates : index[v] < 0
    BY <2>1 DEF Root
  <2>2. \A v \in Candidates : index[v] \in Int
    BY DEF TarjanIInv, TarjanTypeOK, Candidates
  <2> QED BY <2>1, <2>2 DEF Searched, Descend, SeeVisited, Return
<1>2. levels = << >> /\ levels' = << >> /\ expected' = expected /\ Level' = Level
  BY <1>1 DEF LevelIInv, Root, Descend, SeeVisited, Return, input, Level, Candidates, Considered
<1> QED BY <1>2 DEF LevelIInv

LEMMA StartHasLevels ==
  ASSUME TarjanStart
  PROVE  LevelIInv
BY DEF TarjanStart, LevelIInv, Level

LEMMA TarjanNextLevels ==
  ASSUME TarjanIInv, LevelIInv, Size \in Nat, [TarjanNext]_tarjanVars
  PROVE  LevelIInv'
<1>1. CASE Root \/ Descend \/ SeeVisited \/ Return
  BY <1>1, SearchKeepsLevels
<1>2. CASE ComputeLevels
  BY <1>2, ComputeLevelsIsRight
<1>3. CASE SearchOver \/ UNCHANGED tarjanVars
  BY <1>3, RestKeepsLevels DEF SearchOver, tarjanVars
<1> QED BY <1>1, <1>2, <1>3 DEF TarjanNext

LEMMA LevelIInvIsRight == TarjanIInv /\ LevelIInv => LevelsAreRight
<1> SUFFICES ASSUME TarjanIInv, LevelIInv, Finished, NEW s \in DOMAIN sccs, NEW v \in sccs[s]
             PROVE  levels[s] = expected.level[v]
  BY DEF LevelsAreRight
<1>1. sccs # << >>
  OBVIOUS
<1> QED BY <1>1 DEF Finished, LevelIInv

(* The invariant holds of every search.                                    *)
THEOREM SearchInvariant ==
  ASSUME GraphInputs
  PROVE  TarjanSpec => []TarjanIInv
<1>1. TarjanInit => TarjanIInv
  BY StartHasIInv DEF TarjanInit, GraphInputs
<1>2. TarjanIInv /\ [TarjanNext]_tarjanVars => TarjanIInv'
  BY TarjanNextIInv
<1> QED BY <1>1, <1>2, PTL DEF TarjanSpec

(* For every graph and every order of the successors, what strongConnect   *)
(* has popped at the end are the strongly connected components, each once. *)
THEOREM SearchFindsComponents ==
  ASSUME GraphInputs
  PROVE  TarjanSpec => []PopsTheComponents
<1>1. TarjanIInv => PopsTheComponents
  BY IInvPopsTheComponents
<1> QED BY <1>1, SearchInvariant, PTL

(* At every moment the components popped so far are in the order the       *)
(* cross-TU indices are built in: none depends on one that comes later.    *)
THEOREM SearchOrdersComponents ==
  ASSUME GraphInputs
  PROVE  TarjanSpec => []DependenciesFirst
<1>1. TarjanIInv => DependenciesFirst
  BY DEF TarjanIInv, PoppedIInv
<1> QED BY <1>1, SearchInvariant, PTL

(* computeSCCLevels gives every node the length of the longest chain of    *)
(* components below its own, for every graph and every order of the        *)
(* search.                                                                 *)
THEOREM SearchLevelsAreRight ==
  ASSUME GraphInputs, Size \in Nat
  PROVE  TarjanSpec => []LevelsAreRight
<1>1. TarjanInit => LevelIInv
  BY StartHasLevels DEF TarjanInit
<1>2. TarjanIInv /\ LevelIInv /\ [TarjanNext]_tarjanVars => LevelIInv'
  BY TarjanNextLevels
<1>3. TarjanSpec => []LevelIInv
  BY <1>1, <1>2, SearchInvariant, PTL DEF TarjanSpec
<1> QED BY <1>3, LevelIInvIsRight, SearchInvariant, PTL
=============================================================================
