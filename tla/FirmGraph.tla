------------------------------ MODULE FirmGraph ------------------------------
(***************************************************************************)
(* The part of the Neo4j graph that firms, funds and holdings live in, as  *)
(* a value, and the statements l2/nport.py, onboarding/pipeline.py and     *)
(* firms/graph_ops.py run on it.  Neo4jStore.run commits each statement by *)
(* itself, so each is one operator from a graph to a graph.                *)
(*                                                                         *)
(* Company and Fund nodes are MERGEd on their name: the name is the node.  *)
(* An adviser and the issuer of a security are both Company nodes.         *)
(***************************************************************************)
CONSTANTS
    Company,    \* names of Company nodes: firms and issuers
    Fund        \* names of Fund nodes

EmptyGraph == [companies |-> {}, funds |-> {}, managed |-> {}, holds |-> {}]

ManagedBy(g, firm) == {f \in Fund : <<f, firm>> \in g.managed}

\* list_graph_firms: the companies some fund is managed by.
GraphFirms(g) == {c \in Company : ManagedBy(g, c) # {}}

\* MERGE (firm:Company {name: n})
MergeCompany(g, n) == [g EXCEPT !.companies = @ \cup {n}]

\* MERGE (f:Fund {name: f})
MergeFund(g, f) == [g EXCEPT !.funds = @ \cup {f}]

\* MATCH the Fund, MERGE the issuer and the HOLDS edge: nothing without the Fund.
MergeHolding(g, f, issuer) ==
    IF f \in g.funds
    THEN [g EXCEPT !.companies = @ \cup {issuer}, !.holds = @ \cup {<<f, issuer>>}]
    ELSE g

\* MATCH the Fund and the firm, MERGE MANAGED_BY: nothing without both.
LinkFund(g, f, firm) ==
    IF f \in g.funds /\ firm \in g.companies
    THEN [g EXCEPT !.managed = @ \cup {<<f, firm>>}]
    ELSE g

\* DETACH DELETE the firm and the funds it manages: every edge at them goes.
DeleteFirm(g, firm) ==
    LET dead == IF firm \in g.companies THEN ManagedBy(g, firm) ELSE {}
        kept(edges) == {e \in edges : e[1] \notin dead /\ e[2] # firm}
    IN  [companies |-> g.companies \ {firm}, funds |-> g.funds \ dead,
         managed |-> kept(g.managed), holds |-> kept(g.holds)]
==============================================================================
