----------------------------- MODULE GoldenRecord -----------------------------
(***************************************************************************)
(* The lakehouse (lakehouse/store.py) and master data management (mdm/):   *)
(* every request first seeds the lh_ tables when they are empty, then a    *)
(* merge reconciles a cluster of bronze records into one golden record and *)
(* publishes it, to the dimension, the lineage and the graph.  A view      *)
(* reads it back.                                                          *)
(*                                                                         *)
(* One cluster stands for all: clusters share nothing but the systems.     *)
(***************************************************************************)
EXTENDS Integers, Sequences, FiniteSetsExt

CONSTANTS
    Request,        \* calls of the /mdm and /lakehouse routes
    SourceSystems,  \* the seed's systems: [id, trust]
    Bronze,         \* the cluster's records by record_id: [id, system, attributes]
    SeedOrder,      \* the seed file's order, as indices of Bronze
    Policy,         \* attribute -> [rule, source, canonical, tolerance]
    IdField, NameField,
    MasterKey,
    NoValue,        \* "", None, "Not Stated", "N/A"
    Completeness(_),\* length of a value, a postcode counting 100
    Number(_),      \* the number in a value, or NoValue
    MaxCalls        \* bound on requests made

Attr == DOMAIN Policy
Engine == "ontology rule engine"

ASSUME GoldenAssumption ==
    /\ IdField \in Attr /\ NameField \in Attr
    /\ Len(SourceSystems) \in Nat \ {0} /\ Len(SeedOrder) \in Nat \ {0} /\ Len(Bronze) \in Nat
    /\ \A i \in 1 .. Len(SourceSystems) : SourceSystems[i].trust \in Nat
    /\ \A i \in 1 .. Len(SeedOrder) : SeedOrder[i] \in 1 .. Len(Bronze)
    /\ \A i \in 1 .. Len(Bronze) :
        /\ \E j \in 1 .. Len(SourceSystems) : SourceSystems[j].id = Bronze[i].system
        /\ Bronze[i].system \notin {NoValue, Engine}
        /\ \A a \in Attr : Bronze[i].attributes[a] # NoValue =>
            Completeness(Bronze[i].attributes[a]) \in Nat
    /\ \A i, j \in 1 .. Len(Bronze) :   \* a system has one record in a cluster
        Bronze[i].system = Bronze[j].system => i = j

VARIABLES
    systems,        \* how many of SourceSystems have been inserted
    records,        \* how many of the seed's records have been
    gold,           \* lh_gold_dim: primary key -> the golden record
    lineage,        \* lh_lineage: primary key -> {<<record, attribute>>}
    node,           \* the graph's golden nodes, by the name they are merged on
    req,            \* the requests
    calls,          \* requests made so far
    seedCut,        \* history: a seeding was cut short
    early,          \* history: a merge read while a seeding ran, or after a cut one
    raced           \* history: keys whose last publications overlapped or were cut

lakehouse == <<systems, records, gold, lineage>>
history == <<seedCut, early, raced>>
goldenVars == <<lakehouse, node, req, calls, history>>

-------------------------------------------------------------------------------
(* Survivorship: rules from the attribute and the records to the survivor *)

Survivor(source, value) == [source |-> source, value |-> value]
None == Survivor(NoValue, NoValue)

\* A cluster is the indices of its records; they are in the order of the reads.
Candidates(recs, a) == {i \in recs : Bronze[i].attributes[a] # NoValue}
Own(cands, a) == {i \in cands : Bronze[i].system = Policy[a].source}

\* max(cands, key): the first of the best.
FirstBest(cands, Key(_)) == Min({i \in cands : \A j \in cands : Key(j) <= Key(i)})
MostTrusted(cands, trust) == FirstBest(cands, LAMBDA i : trust[Bronze[i].system])

From(i, a) == Survivor(Bronze[i].system, Bronze[i].attributes[a])

TrustWins(a, recs, trust) ==
    LET cands == Candidates(recs, a)
    IN  IF cands = {} THEN None ELSE From(MostTrusted(cands, trust), a)

\* The governing source's value, else the most trusted one.  The crosswalk
\* chooses alike and keeps the other identifiers as alternates.
SystemOfRecord(a, recs, trust) ==
    LET own == Own(Candidates(recs, a), a)
    IN  IF own # {} THEN From(Min(own), a) ELSE TrustWins(a, recs, trust)

MostComplete(a, recs, trust) ==
    LET cands == Candidates(recs, a)
        score(i) == 1000 * Completeness(Bronze[i].attributes[a]) + trust[Bronze[i].system]
    IN  IF cands = {} THEN None ELSE From(FirstBest(cands, score), a)

\* The spread decides the rationale only: agreeing or not, the governing
\* source's number survives, else the most trusted one.
NumericTolerance(a, recs, trust) ==
    LET cands == {i \in recs : Number(Bronze[i].attributes[a]) # NoValue}
        own == Own(cands, a)
    IN  IF cands = {} THEN TrustWins(a, recs, trust)
        ELSE IF own # {} THEN From(Min(own), a)
        ELSE From(MostTrusted(cands, trust), a)

\* The policy of such an attribute always names its canonical value, so the
\* code's second choice, the first of the sources' variants, is never taken.
OntologyClassification(a, recs, trust) == Survivor(Engine, Policy[a].canonical)

Decide(a, recs, trust) ==
    CASE Policy[a].rule \in {"system_of_record", "canonical_identifier_crosswalk"} ->
            SystemOfRecord(a, recs, trust)
      [] Policy[a].rule = "most_complete" -> MostComplete(a, recs, trust)
      [] Policy[a].rule = "numeric_tolerance_then_trust" -> NumericTolerance(a, recs, trust)
      [] Policy[a].rule = "ontology_classification_mapping" -> OntologyClassification(a, recs, trust)
      [] OTHER -> TrustWins(a, recs, trust)

\* build_golden
Golden(recs, trust) == [a \in Attr |-> Decide(a, recs, trust)]
KeyOf(golden) == IF golden[IdField].value = NoValue THEN MasterKey ELSE golden[IdField].value

\* The name the graph's node is merged on.
NodeName(golden) == IF golden[NameField].value = NoValue THEN KeyOf(golden) ELSE golden[NameField].value

\* by_sys maps a system to its record; the rule engine has none.
LineageRows(golden, recs) ==
    UNION {{<<Bronze[i].id, a>> : a \in {b \in Attr : golden[b].source = Bronze[i].system}} : i \in recs}

-------------------------------------------------------------------------------
\* What a read finds when the first n rows of the seed are in.
Cluster(n) == {SeedOrder[i] : i \in 1 .. n}
TrustOf(n) ==
    [s \in {SourceSystems[i].id : i \in 1 .. Len(SourceSystems)} |->
        LET at == {i \in 1 .. n : SourceSystems[i].id = s}
        IN  IF at = {} THEN 0 ELSE SourceSystems[Min(at)].trust]

Whole == Golden(Cluster(Len(SeedOrder)), TrustOf(Len(SourceSystems)))
Readings == {Golden(Cluster(n), TrustOf(Len(SourceSystems))) : n \in 0 .. Len(SeedOrder)}
NoRow == <<>>
Idle == [kind |-> "none", pc |-> "idle", n |-> 0, recs |-> {}, golden |-> NoRow,
         rows |-> {}, mixed |-> FALSE]

GoldenInit ==
    /\ systems = 0 /\ records = 0
    /\ gold = [k \in {KeyOf(g) : g \in Readings} |-> NoRow]
    /\ lineage = [k \in DOMAIN gold |-> {}]
    /\ node = [k \in {NodeName(g) : g \in Readings} |-> NoRow]
    /\ req = [r \in Request |-> Idle] /\ calls = 0
    /\ seedCut = FALSE /\ early = FALSE /\ raced = {}

Goto(r, pc) == req' = [req EXCEPT ![r].pc = pc]
Seeding(r) == req[r].pc \in {"seedSystems", "seedRecords"}
Served == [view |-> "row", merge |-> "records"]     \* where bootstrap leaves off

\* _conn: a connection of the request's own, then bootstrap.
Connect(r) ==
    /\ req[r].pc = "idle" /\ calls < MaxCalls
    /\ calls' = calls + 1
    /\ \E kind \in {"view", "merge"} : req' = [req EXCEPT ![r].kind = kind, ![r].pc = "bootstrap"]
    /\ UNCHANGED <<lakehouse, node, history>>

\* seed_if_empty
Bootstrap(r) ==
    /\ req[r].pc = "bootstrap"
    /\ Goto(r, IF systems = 0 THEN "seedSystems" ELSE Served[req[r].kind])
    /\ UNCHANGED <<lakehouse, node, calls, history>>

\* Rows are upserts: a second seeding changes nothing that is there.
SeedSystem(r) ==
    /\ req[r].pc = "seedSystems"
    /\ systems' = Max({systems, req[r].n + 1})
    /\ req' = IF req[r].n + 1 = Len(SourceSystems)
              THEN [req EXCEPT ![r].n = 0, ![r].pc = "seedRecords"]
              ELSE [req EXCEPT ![r].n = @ + 1]
    /\ UNCHANGED <<records, gold, lineage, node, calls, history>>

\* Mutant: the last record of the file is not inserted.
SeedRecordShort(r) ==
    /\ req[r].pc = "seedRecords"
    /\ records' = Max({records, req[r].n + 1})
    /\ req' = IF req[r].n + 2 = Len(SeedOrder)
              THEN [req EXCEPT ![r].pc = Served[req[r].kind]]
              ELSE [req EXCEPT ![r].n = @ + 1]
    /\ UNCHANGED <<systems, gold, lineage, node, calls, history>>

SeedRecord(r) ==
    /\ req[r].pc = "seedRecords"
    /\ records' = Max({records, req[r].n + 1})
    /\ req' = IF req[r].n + 1 = Len(SeedOrder)
              THEN [req EXCEPT ![r].pc = Served[req[r].kind]]
              ELSE [req EXCEPT ![r].n = @ + 1]
    /\ UNCHANGED <<systems, gold, lineage, node, calls, history>>

-------------------------------------------------------------------------------
(* POST /mdm/merge: run_match_and_merge *)

\* Mutant: one record is read, as with a LIMIT.
ReadOneRecord(r) ==
    /\ req[r].pc = "records"
    /\ req' = [req EXCEPT ![r].recs = Cluster(Min({records, 1})), ![r].pc = "trust"]
    /\ early' = (early \/ seedCut \/ \E o \in Request : Seeding(o))
    /\ UNCHANGED <<lakehouse, node, calls, seedCut, raced>>

ReadRecords(r) ==
    /\ req[r].pc = "records"
    /\ req' = [req EXCEPT ![r].recs = Cluster(records), ![r].pc = "trust"]
    /\ early' = (early \/ seedCut \/ \E o \in Request : Seeding(o))
    /\ UNCHANGED <<lakehouse, node, calls, seedCut, raced>>

ReadTrust(r) ==
    /\ req[r].pc = "trust"
    /\ req' = [req EXCEPT ![r].golden = Golden(req[r].recs, TrustOf(systems)), ![r].pc = "dim"]
    /\ UNCHANGED <<lakehouse, node, calls, history>>

Key(r) == KeyOf(req[r].golden)
Publishing(k) == {o \in Request : req[o].pc = "lineage" /\ Key(o) = k}

\* Views of a key that are between their two reads when it is written.
Mixing(k, new) == [o \in Request |->
    IF new[o].pc = "viewLineage" /\ KeyOf(new[o].golden) = k THEN [new[o] EXCEPT !.mixed = TRUE] ELSE new[o]]

\* upsert_gold_dim
PublishDim(r) ==
    /\ req[r].pc = "dim"
    /\ gold' = [gold EXCEPT ![Key(r)] = req[r].golden]
    /\ raced' = IF Publishing(Key(r)) = {} THEN raced \ {Key(r)} ELSE raced \cup {Key(r)}
    /\ req' = Mixing(Key(r), [req EXCEPT ![r].pc = "lineage"])
    /\ UNCHANGED <<systems, records, lineage, node, calls, seedCut, early>>

\* Mutant: the old rows are not deleted.
PublishLineageAppending(r) ==
    /\ req[r].pc = "lineage"
    /\ lineage' = [lineage EXCEPT ![Key(r)] = @ \cup LineageRows(req[r].golden, req[r].recs)]
    /\ req' = Mixing(Key(r), [req EXCEPT ![r].pc = "node"])
    /\ UNCHANGED <<systems, records, gold, node, calls, history>>

\* replace_lineage: the DELETE and the INSERTs are one transaction.
PublishLineage(r) ==
    /\ req[r].pc = "lineage"
    /\ lineage' = [lineage EXCEPT ![Key(r)] = LineageRows(req[r].golden, req[r].recs)]
    /\ req' = Mixing(Key(r), [req EXCEPT ![r].pc = "node"])
    /\ UNCHANGED <<systems, records, gold, node, calls, history>>

\* _write_canonical_node: what the golden record lacks stays on the node.
PublishNode(r) ==
    /\ req[r].pc = "node"
    /\ LET g == req[r].golden
           at == NodeName(g)
           old == IF node[at] = NoRow THEN [a \in Attr |-> NoValue] ELSE node[at].values
       IN  node' = [node EXCEPT ![at] = [pk |-> KeyOf(g), values |->
                [a \in Attr |-> IF g[a].value = NoValue THEN old[a] ELSE g[a].value]]]
    /\ req' = [req EXCEPT ![r] = Idle]
    /\ UNCHANGED <<lakehouse, calls, history>>

\* No graph, or a failure that is swallowed.
NodeSkipped(r) ==
    /\ req[r].pc = "node" /\ req' = [req EXCEPT ![r] = Idle]
    /\ UNCHANGED <<lakehouse, node, calls, history>>

-------------------------------------------------------------------------------
(* GET /mdm/golden and /lakehouse/dim: get_gold_dim *)

ViewRow(r) ==
    /\ req[r].pc = "row"
    /\ \E k \in DOMAIN gold :
        req' = IF gold[k] = NoRow THEN [req EXCEPT ![r] = Idle]
               ELSE [req EXCEPT ![r].golden = gold[k], ![r].pc = "viewLineage",
                                ![r].mixed = k \in raced \/ Publishing(k) # {}]
    /\ UNCHANGED <<lakehouse, node, calls, history>>

ViewLineage(r) ==
    /\ req[r].pc = "viewLineage"
    /\ req' = [req EXCEPT ![r].rows = lineage[Key(r)], ![r].pc = "viewed"]
    /\ UNCHANGED <<lakehouse, node, calls, history>>

Answer(r) ==
    /\ req[r].pc = "viewed" /\ req' = [req EXCEPT ![r] = Idle]
    /\ UNCHANGED <<lakehouse, node, calls, history>>

\* A statement fails, or the process dies: what was committed stays.
CutAll(rs) ==
    /\ req' = [r \in Request |-> IF r \in rs THEN Idle ELSE req[r]]
    /\ seedCut' = (seedCut \/ \E r \in rs : Seeding(r) /\ systems > 0)
    /\ raced' = raced \cup {KeyOf(req[r].golden) : r \in {o \in rs : req[o].pc = "lineage"}}
    /\ UNCHANGED <<lakehouse, node, calls, early>>

Cut(r) == req[r].pc # "idle" /\ CutAll({r})

GoldenNext == \E r \in Request :
    \/ Connect(r) \/ Bootstrap(r) \/ SeedSystem(r) \/ SeedRecord(r)
    \/ ReadRecords(r) \/ ReadTrust(r)
    \/ PublishDim(r) \/ PublishLineage(r) \/ PublishNode(r) \/ NodeSkipped(r)
    \/ ViewRow(r) \/ ViewLineage(r) \/ Answer(r)
    \/ Cut(r)

-------------------------------------------------------------------------------
(* Properties *)

\* "Ensure the schema exists and the neutral demo seed is loaded": once there
\* is a source system no later request seeds, so what the seeding requests
\* leave must be all of it, unless one of them was cut short.
SeedIsWhole ==
    systems > 0 /\ ~seedCut /\ (\A r \in Request : ~Seeding(r)) =>
        systems = Len(SourceSystems) /\ records = Len(SeedOrder)

Explains(rows, golden) ==
    /\ \A row \in rows : \E i \in 1 .. Len(Bronze) :
        Bronze[i].id = row[1] /\ golden[row[2]].source = Bronze[i].system
                              /\ golden[row[2]].value = Bronze[i].attributes[row[2]]
    /\ \A a \in Attr : golden[a].source \notin {NoValue, Engine} => \E row \in rows : row[2] = a

\* "a published gold golden-record row + its lineage": each attribute is
\* traced to the record its value comes from, in the tables and in what a
\* view returns, unless publications of that key overlapped or were cut.
LineageExplainsGold ==
    /\ \A k \in DOMAIN gold : gold[k] # NoRow /\ k \notin raced /\ Publishing(k) = {} =>
        Explains(lineage[k], gold[k])
    /\ \A r \in Request : req[r].pc = "viewed" /\ ~req[r].mixed => Explains(req[r].rows, req[r].golden)

\* "reconcile conflicting source records into one golden record": whatever
\* the interleaving, the row and the node hold what survives of the whole
\* cluster, under one key, unless a merge ran before the seed was whole.
OneGoldenRecord ==
    ~early =>
        /\ \A k \in DOMAIN gold : gold[k] # NoRow => gold[k] = Whole /\ k = KeyOf(Whole)
        /\ \A k \in DOMAIN node : node[k] # NoRow =>
            /\ gold[node[k].pk] # NoRow
            /\ node[k].values = [a \in Attr |-> Whole[a].value]
===============================================================================
