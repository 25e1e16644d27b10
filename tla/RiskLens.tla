-------------------------------- MODULE RiskLens --------------------------------
(***************************************************************************)
(* The metrics of modules/risk_lens.py over a fund's slice of the graph,   *)
(* and the queries it shows beside them so that a reviewer can reproduce   *)
(* the numbers (EXPLAIN_CYPHER).                                           *)
(*                                                                         *)
(* A slice is what four reads return: holdings maps a company to its       *)
(* weight; supplies are all the graph's edges [src, dst, criticality,      *)
(* component, doc]; exposures are rows [company, weight, risk, category,   *)
(* doc]; provenance maps a company to [weight, docs].  Weights are         *)
(* integers, multipliers tenths.                                           *)
(***************************************************************************)
EXTENDS Analytics, FiniteSetsExt

\* str.lower, on the spellings of the ontology's words; any other word, the
\* empty one of an edge without a criticality too, stays another word.
Lower(word) ==
    CASE word \in {"critical", "Critical"} -> "critical"
      [] word \in {"named", "Named"} -> "named"
      [] word \in {"mentioned", "Mentioned"} -> "mentioned"
      [] OTHER -> word

\* Mutant: an edge without a known criticality counts as a mention.
MultiplierOfAMention(e) ==
    CASE Lower(e.criticality) = "critical" -> 10
      [] Lower(e.criticality) = "named" -> 5
      [] OTHER -> 2

Multiplier(e) ==
    CASE Lower(e.criticality) = "critical" -> 10
      [] Lower(e.criticality) = "named" -> 5
      [] Lower(e.criticality) = "mentioned" -> 2
      [] OTHER -> 0

Weight(sl, companies) == MapThenSumSet(LAMBDA c : sl.holdings[c], companies)
TotalWeight(sl) == Weight(sl, DOMAIN sl.holdings)

\* Edges from a holding.
Held(sl) == {e \in sl.supplies : e.src \in DOMAIN sl.holdings}
Scored(sl) == {e \in Held(sl) : Multiplier(e) > 0}

SupplierConcentration(sl) ==
    [s \in {e.dst : e \in Scored(sl)} |->
        MapThenSumSet(LAMBDA e : sl.holdings[e.src] * Multiplier(e), {e \in Scored(sl) : e.dst = s})]

Hhi(sl) == MapThenSumSet(LAMBDA c : sl.holdings[c] * sl.holdings[c], DOMAIN sl.holdings)

Critical(edges) == {e \in edges : Lower(e.criticality) = "critical"}
Dependents(edges, s) == {e.src : e \in {x \in edges : x.dst = s}}
Shared(edges) ==
    {[supplier |-> s, holdings |-> Dependents(edges, s)] :
        s \in {x \in {e.dst : e \in edges} : Cardinality(Dependents(edges, x)) >= 2}}
SharedSupplierClusters(sl) == Shared(Critical(Held(sl)))

InCategory(sl, cat) == {x \in sl.exposures : x.category = cat}
Categories(sl) == {x.category : x \in sl.exposures}
\* A company counts once for each category, whatever the number of its risks.
RiskHeatmap(sl) ==
    [cat \in Categories(sl) |->
        MapThenSumSet(LAMBDA p : p[2], {<<x.company, x.weight>> : x \in InCategory(sl, cat)})]

\* The only supplier of a component, and critical: any alternate clears it.
SingleSourceFlags(sl) ==
    LET for(e) == {x \in Held(sl) : x.src = e.src /\ x.component = e.component}
    IN  {[holding |-> e.src, component |-> e.component, supplier |-> e.dst] :
            e \in {x \in Critical(Held(sl)) : \A y \in for(x) : y.dst = x.dst}}

Covered(sl) == {c \in DOMAIN sl.provenance : sl.provenance[c].docs # {}}
Uncovered(sl) == DOMAIN sl.provenance \ Covered(sl)
CoveredWeight(sl) == MapThenSumSet(LAMBDA c : sl.provenance[c].weight, Covered(sl))

\* Documents cited by the concentration and by the heatmap, which keeps one
\* of a company's rows in a category, the first the database happens to return.
Contributors(sl) ==
    {rows \in SUBSET sl.exposures :
        \A x \in sl.exposures :
            Cardinality({y \in rows : y.category = x.category /\ y.company = x.company}) = 1}
CitedDocs(sl) == {{e.doc : e \in Scored(sl) \cup rows} : rows \in Contributors(sl)}

-------------------------------------------------------------------------------
(* The queries beside the numbers, over the slice as a graph.  The others,  *)
(* for the chokepoints, the heatmap, the single sources and the totals, do *)
(* not compute what the metrics do; the README says where.                 *)

\* CASE s.criticality WHEN ...: the words as they are spelt.
ExplainedMultiplier(e) ==
    CASE e.criticality = "critical" -> 10
      [] e.criticality = "named" -> 5
      [] e.criticality = "mentioned" -> 2
      [] OTHER -> 0

\* One term for each pair of a holding and an edge.
ExplainedConcentration(sl) ==
    [s \in {e.dst : e \in Held(sl)} |->
        MapThenSumSet(LAMBDA e : sl.holdings[e.src] * ExplainedMultiplier(e),
                      {e \in Held(sl) : e.dst = s})]

\* SUPPLIES_TO {criticality:'critical'}
ExplainedClusters(sl) ==
    LET critical == {e \in Held(sl) : e.criticality = "critical"}
    IN  {[supplier |-> s, holdings |-> Dependents(critical, s)] :
            s \in {x \in {e.dst : e \in critical} :
                    \E a, b \in Dependents(critical, x) : a # b}}
===============================================================================
