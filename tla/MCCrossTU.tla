----------------------------- MODULE MCCrossTU -----------------------------
(***************************************************************************)
(* Families of three-module programs for the model checker.  Module i      *)
(* exports the function fi, which nobody else defines; w is the name that  *)
(* several modules may define, weakly or with local linkage.               *)
(***************************************************************************)
EXTENDS CrossTU

SeqExt == INSTANCE SequencesExt

MCModules == {1, 2, 3}
MCFuncs == {"f1", "f2", "f3", "w"}
Own == [i \in MCModules |-> <<"f1", "f2", "f3">>[i]]
NextModule == [i \in MCModules |-> <<2, 3, 1>>[i]]

NoGuess == [f \in MCFuncs |-> {}]
NoSteps == [f \in MCFuncs |-> <<>>]

\* The program in which fi calls calls[i], w is defined as linkage[i] says and
\* calls body, and the effect "use" comes from the function origin.
Program(calls, linkage, body, origin) ==
  [i \in MCModules |->
     [exported |-> {Own[i]} \cup IF linkage[i] = "weak" THEN {"w"} ELSE {},
      local    |-> IF linkage[i] = "static" THEN {"w"} ELSE {},
      body     |-> [f \in MCFuncs |->
                      LET steps == IF f = Own[i] THEN calls[i] ELSE body
                      IN  IF f = Own[i] \/ (f = "w" /\ linkage[i] # "none")
                          THEN SeqExt!SetToSeq(steps \cup IF f = origin THEN {"use"} ELSE {})
                          ELSE <<>>],
      guessed  |-> NoGuess]]

Linkages == [MCModules -> {"none", "weak", "static"}]
Nowhere == [i \in MCModules |-> "none"]

CallGraphs == {c \in [MCModules -> SUBSET {"f1", "f2", "f3"}] : \A i \in MCModules : Own[i] \notin c[i]}

\* Every graph of calls between the three modules, each function defined once.
SingleDefPrograms == {Program(calls, Nowhere, {}, "f1") : calls \in CallGraphs}

\* The same graphs where every function reads or writes the byte after its calls, and
\* the declarations of the callees suggest nothing or that they write.
OrderedPrograms ==
  {[i \in MCModules |->
      [exported |-> {Own[i]}, local |-> {},
       body     |-> [NoSteps EXCEPT ![Own[i]] = Append(SeqExt!SetToSeq(calls[i]), last[i])],
       guessed  |-> [f \in MCFuncs |-> guess]]] :
     calls \in CallGraphs, last \in {l \in [MCModules -> {"use", "set"}] : l[1] = "use"}, guess \in {{}, {"set"}}}

\* Chains and cycles between neighbours, with w defined anywhere and called from
\* one or two modules; the effect starts in w itself, or in f1 and passes through w.
SharedNamePrograms ==
  {Program([i \in MCModules |-> (IF i \in along THEN {Own[NextModule[i]]} ELSE {})
                                  \cup (IF i \in callers THEN {"w"} ELSE {})],
           linkage, IF origin = "w" THEN {} ELSE {origin}, origin) :
     along \in SUBSET MCModules, callers \in {{1}, {1, 3}}, linkage \in Linkages,
     origin \in {"f1", "w"}}

\* All families; the order of the steps matters to the uninitialized index alone.
AllPrograms == SingleDefPrograms \cup SharedNamePrograms \cup OrderedPrograms
OrderMatters == kind = "resource" => prog \notin OrderedPrograms

\* Programs that differ in one or two modules, for successive runs: a call of module 3
\* and the function the effect starts in, if any.
EditedPrograms ==
  {Program([i \in MCModules |-> (IF i \in along THEN {Own[NextModule[i]]} ELSE {})
                                  \cup (IF i = 1 THEN {"w"} ELSE {})],
           [i \in MCModules |-> IF i = 3 THEN "weak" ELSE "none"], {}, origin) :
     along \in {{1, 2}, {1, 2, 3}}, origin \in {"w", "nowhere"}}

-----------------------------------------------------------------------------
\* Two runs over an edited program that share the files of the cache, of which any
\* subset of the writes has reached the disk, and a cap that ends some builds early.
VARIABLE cached      \* the behaviour is one with files

Disk == INSTANCE CrossTU WITH
  Programs <- EditedPrograms, Kinds <- {"resource"}, CacheMode <- "disk", MaxRuns <- 2,
  MaxPasses <- 2

MCInit == (cached = FALSE /\ CrossInit /\ OrderMatters) \/ (cached = TRUE /\ Disk!CrossInit)

MCNext ==
  \/ cached = FALSE /\ CrossNext /\ UNCHANGED cached
  \/ cached = TRUE /\ Disk!CrossNext /\ UNCHANGED cached

MCSpec == MCInit /\ [][MCNext]_<<crossVars, cached>> /\ WF_<<crossVars, cached>>(MCNext)

\* One run without files.
MemorySpec ==
  cached = FALSE /\ CrossInit /\ [][CrossNext /\ UNCHANGED cached]_<<crossVars, cached>>
=============================================================================
