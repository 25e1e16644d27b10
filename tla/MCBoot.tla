-------------------------------- MODULE MCBoot --------------------------------
(* The seed's property cluster with two of its systems, values numbered by  *)
(* how complete they are; two requests, a snapshot of two statements.       *)
EXTENDS Boot, TLC

CONSTANTS r1, r2, c1, new, property_name, property_id, address, area, type, harborview_tower

MCSystems == <<[id |-> "curated_gold", trust |-> 95], [id |-> "loan_servicing", trust |-> 80]>>
MCBronze == <<
    [id |-> "curated_gold:harborview", system |-> "curated_gold", attributes |->
        (property_name :> 16) @@ (property_id :> 9) @@ (address :> 30) @@ (area :> 412) @@ (type :> 6)],
    [id |-> "loan_servicing:harborview", system |-> "loan_servicing", attributes |->
        (property_name :> 20) @@ (property_id :> 8) @@ (address :> 150) @@ (area :> NoValue) @@ (type :> 17)]>>
MCRule(rule, source) == [rule |-> rule, source |-> source, canonical |-> 1]
MCPolicy ==
    (property_name :> MCRule("system_of_record", "curated_gold"))
    @@ (property_id :> MCRule("canonical_identifier_crosswalk", "curated_gold"))
    @@ (address :> MCRule("most_complete", ""))
    @@ (area :> MCRule("numeric_tolerance_then_trust", "curated_gold"))
    @@ (type :> MCRule("ontology_classification_mapping", ""))
MCCompleteness(v) == v
MCNumber(v) == v
MCSeedOrder == <<1, 2>>
MCChunksAt == <<{}, {c1}>>
===============================================================================
