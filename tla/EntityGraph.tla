----------------------------- MODULE EntityGraph -----------------------------
(***************************************************************************)
(* The part of the Neo4j graph that documents, the companies they name and *)
(* the facts they state live in, as a value, and the statements the ingest *)
(* pipeline and the steward's GraphWriter run on it.  Neo4jStore.run       *)
(* commits each statement by itself.                                       *)
(*                                                                         *)
(* A Company node is MERGEd on its name: the name is the node, whatever    *)
(* CIK it carries.  A document stands for its chunks: the statements that  *)
(* write them touch nothing another document's touch.                      *)
(***************************************************************************)
EXTENDS Naturals

CONSTANTS
    Entity,     \* names companies are mentioned by
    Rel,        \* relation types
    Doc,        \* document ids
    Cik,        \* the SEC's identifiers of companies
    Norm,       \* normalized names
    None        \* a property the node does not have

Fact == Entity \X Rel \X Entity

\* (subject, relation): what existing_from_store groups edges by.
Key(t) == <<t[1], t[2]>>

EmptyGraph ==
    [nodes |-> [n \in {} |-> n], edges |-> [t \in {} |-> t],
     mentions |-> {}, rejected |-> {}, documents |-> {}]

\* The nodes g has and those in names, new ones without properties.
WithNodes(g, names) ==
    [n \in DOMAIN g.nodes \cup names |->
        IF n \in DOMAIN g.nodes THEN g.nodes[n] ELSE [cik |-> None, norm |-> None]]

MergeDocument(g, d) == [g EXCEPT !.documents = @ \cup {d}]

\* MERGE (n {name}) SET n += props: a mention without a CIK leaves the node's.
MergeEntity(g, n, cik, norm) ==
    LET kept == WithNodes(g, {n})[n].cik
    IN  [g EXCEPT !.nodes = [WithNodes(g, {n}) EXCEPT
            ![n] = [cik |-> IF cik = None THEN kept ELSE cik, norm |-> norm]]]

\* MATCH the chunk and the node, MERGE MENTIONS: nothing without both.
MergeMention(g, d, n) ==
    IF d \in g.documents /\ n \in DOMAIN g.nodes
    THEN [g EXCEPT !.mentions = @ \cup {<<d, n>>}]
    ELSE g

\* Mutant: each document's provenance replaces the list.
MergeFactReplacingDocs(g, t, corroboration, conflict, d) ==
    [g EXCEPT
        !.nodes = WithNodes(g, {t[1], t[3]}),
        !.edges = [u \in DOMAIN g.edges \cup {t} |->
            IF u = t
            THEN [corroboration |-> corroboration, conflict |-> conflict, doc_ids |-> {d}]
            ELSE g.edges[u]]]

\* MERGE both ends and the edge, SET r += props, append to r.doc_ids: the
\* counter and the flag are overwritten, the list grows in the statement.
MergeFact(g, t, corroboration, conflict, d) ==
    LET before == IF t \in DOMAIN g.edges THEN g.edges[t].doc_ids ELSE {}
    IN  [g EXCEPT
            !.nodes = WithNodes(g, {t[1], t[3]}),
            !.edges = [u \in DOMAIN g.edges \cup {t} |->
                IF u = t
                THEN [corroboration |-> corroboration, conflict |-> conflict,
                      doc_ids |-> before \cup {d}]
                ELSE g.edges[u]]]

\* MERGE (rf {id: fact_id}): one node per fact and span.
MergeRejected(g, t, d) == [g EXCEPT !.rejected = @ \cup {<<t, d>>}]

(***************************************************************************)
(* The statements of repoint_entity (resolution/graph_reconcile.py), which *)
(* move a duplicate's edges to the node it duplicates.                     *)
(***************************************************************************)
MergeNode(g, n) == [g EXCEPT !.nodes = WithNodes(g, {n})]

\* MATCH (n) SET n.cik: nothing without the node.
StampCik(g, n, cik) ==
    IF n \in DOMAIN g.nodes /\ cik # None THEN [g EXCEPT !.nodes[n].cik = cik] ELSE g

\* Each of moved becomes to[e], which takes e's properties over its own.
MoveEdges(g, moved, to) ==
    LET images == {to[e] : e \in moved}
        source(u) == CHOOSE e \in moved : to[e] = u
    IN  [g EXCEPT !.edges = [u \in (DOMAIN g.edges \ moved) \cup images |->
                                IF u \in images THEN g.edges[source(u)] ELSE g.edges[u]]]

\* (dup)-[rel]->(x) becomes (canon)-[rel]->(x), nothing without canon; an edge
\* to canon itself is left where it is.
RepointOut(g, rel, dup, canon) ==
    LET moved == {e \in DOMAIN g.edges :
                    e[1] = dup /\ e[2] = rel /\ e[3] # canon /\ canon \in DOMAIN g.nodes}
    IN  MoveEdges(g, moved, [e \in moved |-> <<canon, rel, e[3]>>])

RepointIn(g, rel, dup, canon) ==
    LET moved == {e \in DOMAIN g.edges :
                    e[3] = dup /\ e[2] = rel /\ e[1] # canon /\ canon \in DOMAIN g.nodes}
    IN  MoveEdges(g, moved, [e \in moved |-> <<e[1], rel, canon>>])

RepointMentions(g, dup, canon) ==
    IF canon \notin DOMAIN g.nodes THEN g
    ELSE [g EXCEPT !.mentions = {IF m[2] = dup THEN <<m[1], canon>> ELSE m : m \in @}]

\* DETACH DELETE: the node and every edge at it.
DetachDelete(g, n) ==
    [g EXCEPT !.nodes = [m \in DOMAIN @ \ {n} |-> @[m]],
              !.edges = [t \in {u \in DOMAIN @ : n \notin {u[1], u[3]}} |-> @[t]],
              !.mentions = {m \in @ : m[2] # n}]

\* The objects key points at, each with its edge's corroboration.
Existing(g, key) ==
    [o \in {t[3] : t \in {u \in DOMAIN g.edges : Key(u) = key}} |->
        g.edges[<<key[1], key[2], o>>].corroboration]

\* The nodes _existing_company_name may find: by CIK, else by normalized name.
Matches(g, cik, norm) ==
    LET byCik == {n \in DOMAIN g.nodes : cik # None /\ g.nodes[n].cik = cik}
    IN  IF byCik # {} THEN byCik ELSE {n \in DOMAIN g.nodes : g.nodes[n].norm = norm}
==============================================================================
