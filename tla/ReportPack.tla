------------------------------- MODULE ReportPack -------------------------------
(***************************************************************************)
(* Report packs (reg_reports/report_pack.py, coverage.py): a request reads *)
(* a fund's slice and its disclosure coverage from the graph, one read at  *)
(* a time, registers the pack in SQLite and ties it into the graph, one    *)
(* statement at a time.  In between, ingests commit facts, a firm is       *)
(* deleted, and a duplicate company is merged, one statement at a time.    *)
(*                                                                         *)
(* A pack is identified by its fund (the model has one period) and hashed  *)
(* over its snapshot, so the snapshot stands for the hash.  A document     *)
(* stands for its chunks too.                                              *)
(***************************************************************************)
EXTENDS RiskLens

CONSTANTS
    Fund, Company, Doc,
    FirstGraph,     \* [holds, supplies, exposed, covers, mentions] at first
    News,           \* what ingests may commit: <<component of the graph, fact>>
    Firms,          \* what deleting a firm takes: [funds, company], its own node
    Merges,         \* <<duplicate, canonical>> companies an analyst may merge
    Noded,          \* documents with a Document node
    Pack,           \* requests for packs
    MaxChanges, MaxPacks    \* bounds: commits, deletes and merges; requests

None == [none |-> TRUE]

Fields == {"holds", "supplies", "exposed", "covers", "mentions"}

ASSUME ReportAssumption ==
    /\ IsFiniteSet(Company)
    /\ DOMAIN FirstGraph = Fields /\ DOMAIN FirstGraph.holds = Fund
    /\ \A f \in Fund :
        LET held == FirstGraph.holds[f]
        IN  DOMAIN held \subseteq Company /\ \A c \in DOMAIN held : held[c] \in Int
    /\ IsFiniteSet(FirstGraph.supplies)
    /\ \A n \in News : n[1] \in Fields /\
        (n[1] = "holds" => n[2].fund \in Fund /\ n[2].company \in Company /\ n[2].weight \in Int)
    /\ Merges \subseteq Company \X Company /\ Noded \subseteq Doc

VARIABLES
    graph,      \* holds: fund -> company -> weight; supplies; exposed: rows
                \* [company, risk, category, doc]; covers: <<section, fund, risk>>;
                \* mentions: <<doc, company>>
    changes,    \* commits, deletes and merges so far
    merge,      \* the merge under way: [dup, canonical, todo], or None
    registry,   \* SQLite: fund -> the hash registered, or None
    report,     \* GeneratedReport nodes: fund -> their hash, or None
    links,      \* DERIVED_FROM: <<fund, doc>>
    packs,      \* packs asked for so far
    pack,       \* the requests
    apart       \* history: funds whose registration and node may differ

reportVars == <<graph, changes, merge, registry, report, links, packs, pack, apart>>

EmptySlice == [holdings |-> <<>>, supplies |-> {}, exposures |-> {}, provenance |-> <<>>]
Idle == [pc |-> "idle", fund |-> "none", use |-> "none", sl |-> EmptySlice, exposed |-> {},
         snapshot |-> None, todo |-> {}, alone |-> TRUE, torn |-> FALSE]

ReportInit ==
    /\ graph = FirstGraph
    /\ changes = 0
    /\ merge = None
    /\ registry = [f \in Fund |-> None]
    /\ report = [f \in Fund |-> None]
    /\ links = {}
    /\ packs = 0
    /\ pack = [p \in Pack |-> Idle]
    /\ apart = {}

-------------------------------------------------------------------------------
(* What changes the graph, beside the packs *)

\* What was being read when the graph changed is torn.
Becomes(g) ==
    /\ graph' = g
    /\ pack' = [p \in Pack |->
        [pack[p] EXCEPT !.torn = @ \/ (g # graph /\ pack[p].pc # "idle")]]
    /\ UNCHANGED <<registry, report, links, packs, apart>>

\* Facts MERGEd on the same pair of nodes: the later one's properties stay.
SamePair(field, x, y) ==
    CASE field = "supplies" -> x.src = y.src /\ x.dst = y.dst
      [] field = "exposed" -> x.company = y.company /\ x.risk = y.risk
      [] OTHER -> x = y
Merged(field, facts, new) == {x \in facts : \A y \in new : ~SamePair(field, x, y)} \cup new
Holding(held, company, weight) ==
    [c \in DOMAIN held \cup {company} |-> IF c = company THEN weight ELSE held[c]]

\* An ingest commits one fact.
Commit ==
    /\ changes < MaxChanges
    /\ changes' = changes + 1
    /\ \E n \in News :
        Becomes(IF n[1] = "holds"
                THEN [graph EXCEPT !.holds[n[2].fund] = Holding(@, n[2].company, n[2].weight)]
                ELSE [graph EXCEPT ![n[1]] = Merged(n[1], @, {n[2]})])
    /\ UNCHANGED merge

\* DETACH DELETE of funds and companies.  A section keeps its form_ref.
Without(g, funds, companies) ==
    [g EXCEPT
        !.holds = [f \in DOMAIN @ |->
            [c \in (IF f \in funds THEN {} ELSE DOMAIN @[f] \ companies) |-> @[f][c]]],
        !.supplies = {e \in @ : e.src \notin companies /\ e.dst \notin companies},
        !.exposed = {x \in @ : x.company \notin companies},
        !.mentions = {m \in @ : m[2] \notin companies}]

\* delete_firm_graph: the firm's own node goes too, which other funds may hold.
DeleteFirm ==
    /\ changes < MaxChanges
    /\ changes' = changes + 1
    /\ \E firm \in Firms : Becomes(Without(graph, firm.funds, {firm.company}))
    /\ UNCHANGED merge

\* repoint_entity finds the types of the duplicate's relationships; each is
\* moved by a statement for each direction.  One merge at a time.
Discover ==
    /\ merge = None /\ changes < MaxChanges
    /\ changes' = changes + 1
    /\ \E m \in Merges :
        LET dup == m[1]
            supplied == \E e \in graph.supplies : dup \in {e.src, e.dst}
            has == [holds |-> \E f \in Fund : dup \in DOMAIN graph.holds[f],
                    out |-> supplied, in |-> supplied,
                    exposed |-> \E x \in graph.exposed : x.company = dup,
                    mentions |-> \E x \in graph.mentions : x[2] = dup]
        IN  /\ m[1] # m[2]
            /\ merge' = [dup |-> dup, canonical |-> m[2], todo |-> {t \in DOMAIN has : has[t]}]
    /\ UNCHANGED <<graph, registry, report, links, packs, pack, apart>>

\* MERGE the edge at the canonical node, with the duplicate's properties, and
\* DELETE the duplicate's; an edge between the two stays.
Repointed(g, type, d, c) ==
    LET out == {e \in g.supplies : e.src = d /\ e.dst # c}
        in == {e \in g.supplies : e.dst = d /\ e.src # c}
        rows == {x \in g.exposed : x.company = d}
        held(h) == IF d \notin DOMAIN h THEN h
                   ELSE [x \in (DOMAIN h \cup {c}) \ {d} |-> h[IF x = c THEN d ELSE x]]
    IN  CASE type = "out" ->
               [g EXCEPT !.supplies = Merged("supplies", @ \ out, {[e EXCEPT !.src = c] : e \in out})]
          [] type = "in" ->
               [g EXCEPT !.supplies = Merged("supplies", @ \ in, {[e EXCEPT !.dst = c] : e \in in})]
          [] type = "exposed" ->
               [g EXCEPT !.exposed = Merged("exposed", @ \ rows, {[x EXCEPT !.company = c] : x \in rows})]
          [] type = "mentions" ->
               [g EXCEPT !.mentions = {<<m[1], IF m[2] = d THEN c ELSE m[2]>> : m \in @}]
          [] OTHER -> [g EXCEPT !.holds = [f \in DOMAIN @ |-> held(@[f])]]

\* The types come in the database's order; out goes before in.
Move ==
    /\ merge # None
    /\ \E type \in merge.todo :
        /\ type = "in" => "out" \notin merge.todo
        /\ merge' = [merge EXCEPT !.todo = @ \ {type}]
        /\ Becomes(Repointed(graph, type, merge.dup, merge.canonical))
    /\ UNCHANGED changes

DropDuplicate ==
    /\ merge # None /\ merge.todo = {}
    /\ merge' = None
    /\ Becomes(Without(graph, {}, {merge.dup}))
    /\ UNCHANGED changes

\* A statement raises: what was moved stays moved.
MergeFails ==
    /\ merge # None
    /\ merge' = None
    /\ UNCHANGED <<graph, changes, registry, report, links, packs, pack, apart>>

GraphStep == Commit \/ DeleteFirm \/ Discover \/ Move \/ DropDuplicate \/ MergeFails

-------------------------------------------------------------------------------
(* Reading *)

\* GET /reports/pack shows a pack, GET /reports registers it, build_report
\* with a store files it in the graph as well.
Ask(p) ==
    /\ pack[p].pc = "idle" /\ packs < MaxPacks
    /\ packs' = packs + 1
    /\ \E f \in Fund, use \in {"show", "list", "file"} :
        pack' = [pack EXCEPT ![p] = [Idle EXCEPT !.pc = "holdings", !.fund = f, !.use = use]]
    /\ UNCHANGED <<graph, changes, merge, registry, report, links, apart>>

Reads(p, pc, next, field, rows) ==
    /\ pack[p].pc = pc
    /\ pack' = [pack EXCEPT ![p].pc = next, ![p].sl = [@ EXCEPT ![field] = rows]]
    /\ UNCHANGED <<graph, changes, merge, registry, report, links, packs, apart>>

ReadHoldings(p) == Reads(p, "holdings", "supplies", "holdings", graph.holds[pack[p].fund])

ReadSupplies(p) == Reads(p, "supplies", "exposures", "supplies", graph.supplies)

Exposures(f) ==
    {[company |-> x.company, weight |-> graph.holds[f][x.company], risk |-> x.risk,
      category |-> x.category, doc |-> x.doc] :
        x \in {y \in graph.exposed : y.company \in DOMAIN graph.holds[f]}}

ReadExposures(p) ==
    Reads(p, "exposures", "provenance", "exposures", Exposures(pack[p].fund))

DocsOn(c) == {m[1] : m \in {x \in graph.mentions : x[2] = c}}

\* Mutant: only the companies with a document are matched.
ReadProvenanceMentioned(p) ==
    LET held == graph.holds[pack[p].fund]
    IN  Reads(p, "provenance", "exposed", "provenance",
              [c \in {x \in DOMAIN held : DocsOn(x) # {}} |-> [weight |-> held[c], docs |-> DocsOn(c)]])

ReadProvenance(p) ==
    LET held == graph.holds[pack[p].fund]
    IN  Reads(p, "provenance", "exposed", "provenance",
              [c \in DOMAIN held |-> [weight |-> held[c], docs |-> DocsOn(c)]])

\* coverage_check reads the exposures once more (its series never changes).
ReadExposed(p) ==
    /\ pack[p].pc = "exposed"
    /\ pack' = [pack EXCEPT ![p].pc = "covered", ![p].exposed = Exposures(pack[p].fund)]
    /\ UNCHANGED <<graph, changes, merge, registry, report, links, packs, apart>>

\* compute_coverage: exposures no section of the fund covers.
Gaps(f, exposed) == {x \in exposed : ~\E s \in graph.covers : s[2] = f /\ s[3] = x.risk}

\* build_snapshot, once everything is read.
Snapshot(sl, gaps, cited) ==
    [total |-> TotalWeight(sl), hhi |-> Hhi(sl), suppliers |-> SupplierConcentration(sl),
     heatmap |-> RiskHeatmap(sl), flags |-> SingleSourceFlags(sl),
     covered |-> CoveredWeight(sl), uncovered |-> Uncovered(sl),
     gaps |-> {x.risk : x \in gaps}, docs |-> cited \cup {x.doc : x \in gaps}]

ReadCovered(p) ==
    /\ pack[p].pc = "covered"
    /\ LET r == pack[p]
           gaps == Gaps(r.fund, r.exposed)
       IN  \E cited \in CitedDocs(r.sl) :
            pack' = [pack EXCEPT ![p].snapshot = Snapshot(r.sl, gaps, cited),
                                 ![p].pc = IF r.use = "show" THEN "done" ELSE "register"]
    /\ UNCHANGED <<graph, changes, merge, registry, report, links, packs, apart>>

-------------------------------------------------------------------------------
(* Registering and filing *)

\* Requests that registered a fund's pack and have not filed all of it yet.
Filing(f) == {p \in Pack : pack[p].pc \in {"node", "link"} /\ pack[p].fund = f}

Register(p) ==
    /\ pack[p].pc = "register"
    /\ LET f == pack[p].fund  files == pack[p].use = "file" IN
        /\ registry' = [registry EXCEPT ![f] = pack[p].snapshot]
        /\ pack' = [o \in Pack |->
            IF o = p THEN [pack[p] EXCEPT !.pc = IF files THEN "node" ELSE "done",
                                          !.alone = Filing(f) = {}]
            ELSE [pack[o] EXCEPT !.alone = @ /\ o \notin Filing(f)]]
        /\ apart' = IF files /\ Filing(f) = {} THEN apart ELSE apart \cup {f}
    /\ UNCHANGED <<graph, changes, merge, report, links, packs>>

\* Mutant: documents are linked when the node is created, not when it is updated.
WriteNodeOnce(p) ==
    /\ pack[p].pc = "node"
    /\ LET f == pack[p].fund IN
        /\ report' = [report EXCEPT ![f] = pack[p].snapshot]
        /\ pack' = [pack EXCEPT ![p].pc = "link",
                                ![p].todo = IF report[f] = None THEN pack[p].snapshot.docs ELSE {}]
    /\ UNCHANGED <<graph, changes, merge, registry, links, packs, apart>>

\* MERGE of the node: an out_of_date flag and the links of an earlier pack stay.
WriteNode(p) ==
    /\ pack[p].pc = "node"
    /\ report' = [report EXCEPT ![pack[p].fund] = pack[p].snapshot]
    /\ pack' = [pack EXCEPT ![p].pc = "link", ![p].todo = pack[p].snapshot.docs]
    /\ UNCHANGED <<graph, changes, merge, registry, links, packs, apart>>

\* The code goes by documents, then chunks, in the order of their ids; a
\* document without a node is not linked.
Link(p) ==
    /\ pack[p].pc = "link"
    /\ \E d \in pack[p].todo :
        /\ links' = links \cup ({pack[p].fund} \X ({d} \cap Noded))
        /\ pack' = [pack EXCEPT ![p].todo = @ \ {d}]
    /\ UNCHANGED <<graph, changes, merge, registry, report, packs, apart>>

Filed(p) ==
    /\ pack[p].pc = "link" /\ pack[p].todo = {}
    /\ pack' = [pack EXCEPT ![p].pc = "done"]
    /\ apart' = IF pack[p].alone THEN apart \ {pack[p].fund} ELSE apart
    /\ UNCHANGED <<graph, changes, merge, registry, report, links, packs>>

Respond(p) ==
    /\ pack[p].pc = "done"
    /\ pack' = [pack EXCEPT ![p] = Idle]
    /\ UNCHANGED <<graph, changes, merge, registry, report, links, packs, apart>>

\* A read or a statement raises, or the process dies: what is written stays.
Fail(p) ==
    /\ pack[p].pc \notin {"idle", "done"}
    /\ apart' = apart \cup {f \in {pack[p].fund} : p \in Filing(f)}
    /\ pack' = [pack EXCEPT ![p] = Idle]
    /\ UNCHANGED <<graph, changes, merge, registry, report, links, packs>>

PackStep(p) ==
    \/ Ask(p) \/ ReadHoldings(p) \/ ReadSupplies(p) \/ ReadExposures(p) \/ ReadProvenance(p)
    \/ ReadExposed(p) \/ ReadCovered(p) \/ Register(p) \/ WriteNode(p) \/ Link(p)
    \/ Filed(p) \/ Respond(p) \/ Fail(p)

ReportNext == GraphStep \/ \E p \in Pack : PackStep(p)

-------------------------------------------------------------------------------
(* Properties *)

\* "uncovered weight reported honestly" (risk_lens.py): the figures of one
\* pack agree with each other, though they come from six reads: covered and
\* uncovered weight add up to the total, every gap is in the heatmap's
\* exposures and every document cited for a holding's risk is among them,
\* unless the graph was changed while the pack was read.
FiguresAgree ==
    \A p \in Pack :
        LET r == pack[p] IN
        r.snapshot # None /\ ~r.torn =>
            /\ r.snapshot.covered + Weight(r.sl, r.snapshot.uncovered) = r.snapshot.total
            /\ r.snapshot.gaps \subseteq {x.risk : x \in r.sl.exposures}
            /\ r.exposed = r.sl.exposures

\* "tying the report into the graph audit trail" (report_pack.py): the hash
\* in the registry is the one on the report's node and every document behind
\* it that has a node is linked, once nobody is filing; unless filing was cut,
\* two filings overlapped or the pack was registered again without being filed.
AuditTrailAnchored ==
    \A f \in Fund :
        f \notin apart /\ Filing(f) = {} /\ report[f] # None =>
            /\ registry[f] = report[f]
            /\ {f} \X (report[f].docs \cap Noded) \subseteq links

SliceOf(f) ==
    [holdings |-> graph.holds[f], supplies |-> graph.supplies, exposures |-> Exposures(f),
     provenance |-> <<>>]

\* The slice without the edges whose criticality is not spelt as the ontology
\* spells it, but perhaps in capitals: it is whatever the extraction wrote.
AsSpelt(sl) == [sl EXCEPT !.supplies = {e \in @ : Lower(e.criticality) = e.criticality}]

\* "the exact query a reviewer can run to reproduce the number"
\* (risk_lens.py), whatever the graph: the concentration's query gives what
\* the metric gives on the edges spelt as the ontology spells them, with a
\* zero for a supplier that scores nothing, and so does the clusters' query.
\* An edge spelt in capitals counts in the metric and not in the query.
ExplainReproduces ==
    \A f \in Fund :
        LET sl == SliceOf(f)
            scores == SupplierConcentration(AsSpelt(sl))
            explained == ExplainedConcentration(sl)
        IN  /\ DOMAIN scores \subseteq DOMAIN explained
            /\ \A s \in DOMAIN explained :
                explained[s] = IF s \in DOMAIN scores THEN scores[s] ELSE 0
            /\ SharedSupplierClusters(AsSpelt(sl)) = ExplainedClusters(sl)
===============================================================================
