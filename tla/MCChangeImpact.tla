----------------------------- MODULE MCChangeImpact -----------------------------
(* Two funds; a and its duplicate d are supplied by b, b by c: c is two      *)
(* edges from a holding.                                                     *)
EXTENDS ChangeImpact, TLC

CONSTANTS growth, focus, a, b, c, d, old, new, memo, item7, tariffs, p1, p2

MCEdge(x, y, how, part, doc) ==
    [src |-> x, dst |-> y, criticality |-> how, component |-> part, doc |-> doc]
MCFirstGraph ==
    [holds |-> [f \in Fund |-> [x \in (IF f = growth THEN {d} ELSE {b}) |-> 3]],
     supplies |-> {MCEdge(a, b, "critical", "chips", old), MCEdge(d, b, "critical", "boards", old),
                   MCEdge(b, c, "", "wafers", old)},
     exposed |-> {[company |-> b, risk |-> tariffs, category |-> "trade", doc |-> old]},
     covers |-> {<<item7, growth, tariffs>>},
     mentions |-> {<<old, b>>}]
\* The first edge in capitals, from a document without a node; the first fund
\* buys a too; a new document on b and its risk.
MCNews ==
    {<<"supplies", MCEdge(a, b, "Critical", "chips", memo)>>,
     <<"holds", [fund |-> growth, company |-> a, weight |-> 4]>>,
     <<"exposed", [company |-> b, risk |-> tariffs, category |-> "trade", doc |-> new]>>,
     <<"mentions", <<new, b>>>>}
\* The second fund's firm is itself the supplier b.
MCFirms == {[funds |-> {focus}, company |-> b]}
MCMerges == {<<d, a>>}

MCFact(type, x, y, value, doc) ==
    [type |-> type, subject |-> x, object |-> y, period |-> None, value |-> value, doc |-> doc]
MCV1 ==
    {MCFact("SUPPLIES_TO", c, a, "critical", old), MCFact("EXPOSED_TO", a, tariffs, "moderate", old),
     MCFact("MetricObservation", a, None, 10, old)}
\* c no longer depends on a, the exposure is worse, the metric is restated,
\* and b is described for the first time.
MCV2 ==
    {MCFact("EXPOSED_TO", a, tariffs, "severe", new), MCFact("MetricObservation", a, None, 12, new),
     MCFact("Company", b, None, "named", new)}

\* Bound: two packs, or one and an impact; a merge counts as a pack does.
WorkBound == packs + impacts + (IF merge = None THEN 0 ELSE 1) <= 2
PackSymmetry == Permutations(Pack)
===============================================================================
