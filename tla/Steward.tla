------------------------------- MODULE Steward -------------------------------
(***************************************************************************)
(* Steward.review (api/steward/steward.py): the decision on each candidate *)
(* fact of a document, from what the graph held when it was asked and from *)
(* the candidates before it.  The code walks the candidates with a working *)
(* copy of the graph's edges; the copy's contents at candidate i are       *)
(* written down here directly.                                             *)
(*                                                                         *)
(* Every candidate the pipeline builds fits the ontology, because          *)
(* _infer_label picks its labels from the relation's domain and range: the *)
(* domain/range rejection never happens and is left out.                   *)
(***************************************************************************)
EXTENDS EntityGraph, FiniteSets, Sequences

CONSTANT Functional     \* FUNCTIONAL_RELATIONS

ASSUME FunctionalAssumption == Functional \subseteq Rel

\* facts: a sequence of facts; ok: the indices of those not rejected;
\* seen: what existing_from_store found under each key.
Earlier(ok, i) == {j \in ok : j < i}

Prior(seen, t) == IF t[3] \in DOMAIN seen[Key(t)] THEN seen[Key(t)][t[3]] ELSE 0

\* Mutant: a fact the graph has is not bumped.
CorroborationFromOne(facts, ok, seen, i) ==
    Cardinality({j \in Earlier(ok, i) \cup {i} : facts[j] = facts[i]})

\* insert and conflict start at 1, corroborate adds 1 to what is there.
Corroboration(facts, ok, seen, i) ==
    Prior(seen, facts[i]) + Cardinality({j \in Earlier(ok, i) \cup {i} : facts[j] = facts[i]})

\* Mutant: the graph's own edges are not taken into account.
ConflictsInBatchOnly(facts, ok, seen, i) ==
    /\ facts[i][2] \in Functional
    /\ \A j \in Earlier(ok, i) : facts[j] # facts[i]
    /\ \E j \in Earlier(ok, i) : Key(facts[j]) = Key(facts[i])

\* A functional relation that already points the subject elsewhere.
Conflicts(facts, ok, seen, i) ==
    /\ facts[i][2] \in Functional
    /\ facts[i][3] \notin DOMAIN seen[Key(facts[i])]
    /\ \A j \in Earlier(ok, i) : facts[j] # facts[i]
    /\ \/ DOMAIN seen[Key(facts[i])] # {}
       \/ \E j \in Earlier(ok, i) : Key(facts[j]) = Key(facts[i])

Decision(facts, ok, seen, i) ==
    [fact |-> facts[i],
     accepted |-> i \in ok,
     corroboration |-> IF i \in ok THEN Corroboration(facts, ok, seen, i) ELSE 1,
     conflict |-> i \in ok /\ Conflicts(facts, ok, seen, i)]

\* The decisions, in the order of the candidates.
Review(facts, ok, seen) == [i \in DOMAIN facts |-> Decision(facts, ok, seen, i)]
==============================================================================
