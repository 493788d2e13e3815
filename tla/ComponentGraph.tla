--------------------------- MODULE ComponentGraph ---------------------------
(***************************************************************************)
(* What the analyzer's two component searches are meant to compute, as     *)
(* definitions on a finite directed graph with nodes N and edges E (a set  *)
(* of pairs): strongly connected components and dependency levels.  Module *)
(* Tarjan shows that the code computes them; CrossTU and StackUsage use    *)
(* them in place of the search.                                            *)
(***************************************************************************)
EXTENDS Naturals, FiniteSets

\* The nodes reachable from node i, i included.
ReachableFrom(N, E, i) ==
  {j \in N : \A T \in SUBSET N :
               i \in T /\ (\A e \in E : e[1] \in T => e[2] \in T) => j \in T}

\* Reachability as a set of pairs.
Reach(N, E) == UNION {{<<i, j>> : j \in ReachableFrom(N, E, i)} : i \in N}

\* The strongly connected component of each node.
ComponentsOf(N, E) ==
  LET reach == Reach(N, E)
  IN  [m \in N |-> {j \in N : <<m, j>> \in reach /\ <<j, m>> \in reach}]

\* The level of each node: the length of the longest chain of components below its
\* own, that is, of nodes it reaches of which any two are related in one direction
\* only, as each is to the node itself.
LevelsOf(N, E) ==
  LET reach == Reach(N, E)
      IsAbove(i, j) == <<i, j>> \in reach /\ <<j, i>> \notin reach
      chains(m) == {T \in SUBSET {j \in N : IsAbove(m, j)} :
                      \A i, j \in T : i = j \/ IsAbove(i, j) \/ IsAbove(j, i)}
  IN  [m \in N |-> CHOOSE k \in 0 .. Cardinality(N) :
                     /\ \E T \in chains(m) : Cardinality(T) = k
                     /\ \A T \in chains(m) : Cardinality(T) <= k]

\* The nodes on a cycle.
OnCycle(N, E) ==
  LET comp == ComponentsOf(N, E)
  IN  {m \in N : <<m, m>> \in E \/ Cardinality(comp[m]) > 1}
=============================================================================
