----------------------------- MODULE QueryPipeline -----------------------------
(***************************************************************************)
(* One POST /query (query/routes.py, graph.py, cypher_agent.py, router.py, *)
(* synth.py): resolve the firm, route, run an analytics tool or the Cypher *)
(* agent, gather evidence behind the entitlement wall, fall back on the    *)
(* structure or on the text, synthesize.                                   *)
(*                                                                         *)
(* Each read of the registry or of the graph is a step; between two of     *)
(* them firms are switched and deleted, duplicates are merged, funds,      *)
(* holdings and filings arrive.  A firm is the Company node of its name,   *)
(* which other funds may hold and filings mention.  A question is what the *)
(* router's patterns make of it; which rows generated Cypher returns is    *)
(* left open.  Narration rewords an answer and changes nothing else: it is *)
(* left out.                                                               *)
(***************************************************************************)
EXTENDS Analytics, SequencesExt

CONSTANTS
    Firm, Fund, Company, Chunk, None,
    ManagerOf,              \* fund -> the firm it is onboarded with
    FirstGraph,             \* the graph when the question comes, but for its chunks
    Covered,                \* the risks some section covers
    Mentions,               \* chunk -> the companies it mentions when filed
    Stamp,                  \* chunk -> its document's firm, or None
    Sensitivity,            \* chunk -> "public" or "internal"
    Nearest,                \* the chunks by their similarity to the question
    K,                      \* nearest neighbours asked for (5 in the code)
    MaxRetries,             \* generations of Cypher (3 in the code)
    Questions,              \* requests [tool, asks, mode, wall, firm]
    Merges,                 \* pairs <<duplicate, canonical>> a review may confirm
    MaxEvents               \* bound on what begins meanwhile

AllScope == "__all__"
ASSUME QueryAssumption ==
    /\ K \in Nat \ {0} /\ MaxRetries \in Nat \ {0} /\ MaxEvents \in Nat
    /\ ToSet(Nearest) = Chunk /\ IsFiniteSet(Chunk)
    /\ Firm \subseteq Company /\ None \notin Company /\ "mentions" \in DOMAIN FirstGraph
    /\ Merges \subseteq Company \X Company

VARIABLES
    active,     \* the registry's active firm, or None
    graph,      \* nodes, and per type of relationship what it relates
    merge,      \* the merge under way [dup, canonical, todo], or None
    events,     \* how much began meanwhile
    q,          \* the question and what the handler knows
    answer,     \* the response, or None
    start,      \* history: the chunks when the question came
    ever,       \* history: what was held and mentioned at some time since
    stayed,     \* history: what was held and mentioned at every time since
    failed      \* history: reads whose failure was passed over

world == <<active, graph, merge, events, start, ever, stayed>>
vars == <<world, q, answer, failed>>

\* Pairs <<firm, company>> and <<chunk, company>>.
Held(g) == UNION {{<<g.managed[f], x>> : x \in g.holds[f]} : f \in DOMAIN g.holds}
About(g) == UNION {{<<c, x>> : x \in g.mentions[c]} : c \in DOMAIN g.mentions}

chunks == DOMAIN graph.mentions
HeldBy(firm) == {x \in Company : <<firm, x>> \in Held(graph)}

NoResult == [source |-> "none", ok |-> FALSE, rows |-> FALSE, chunks |-> {}]
Asked(req) ==
    [req |-> req, pc |-> "resolve", firm |-> None, companies |-> {}, tool |-> "none",
     fund |-> AnyFund, analytics |-> FALSE, rows |-> {}, cres |-> NoResult, tries |-> 0,
     visible |-> {}]

Init ==
    /\ active \in Firm \cup {None}
    /\ \E filed \in SUBSET Chunk :
        /\ graph = [FirstGraph EXCEPT !.mentions = [c \in filed |-> Mentions[c]]]
        /\ start = filed
    /\ merge = None
    /\ events = 0
    /\ \E req \in Questions : q = Asked(req)
    /\ answer = None
    /\ ever = [held |-> Held(graph), about |-> About(graph)]
    /\ stayed = ever
    /\ failed = {}

-------------------------------------------------------------------------------
(* What happens meanwhile *)

Happens == events < MaxEvents /\ answer = None /\ events' = events + 1

Becomes(g) ==
    /\ graph' = g
    /\ ever' = [held |-> ever.held \cup Held(g), about |-> ever.about \cup About(g)]
    /\ stayed' = [held |-> stayed.held \cap Held(g), about |-> stayed.about \cap About(g)]
    /\ UNCHANGED <<active, start, q, answer, failed>>

Switch ==
    /\ Happens
    /\ \E f \in (Firm \cup {None}) \ {active} : active' = f
    /\ UNCHANGED <<graph, merge, start, ever, stayed, q, answer, failed>>

\* DETACH DELETE of a Company node.
Detached(g, n) ==
    [g EXCEPT
        !.nodes = @ \ {n},
        !.managed = [f \in DOMAIN @ |-> IF @[f] = n THEN None ELSE @[f]],
        !.holds = [f \in DOMAIN @ |-> @[f] \ {n}],
        !.mentions = [c \in DOMAIN @ |-> @[c] \ {n}],
        !.supplies = {e \in @ : n \notin {e.src, e.dst}},
        !.exposed = {p \in @ : p[1] # n},
        !.serves = {p \in @ : p[2] # n},
        !.formerly = {p \in @ : p[2] # n}]

\* delete_firm_graph: the firm's node and its funds.
WithoutFirm(g, firm) ==
    LET funds == {f \in DOMAIN g.holds : g.managed[f] # firm}
    IN  Detached([g EXCEPT !.holds = [f \in funds |-> @[f]], !.managed = [f \in funds |-> @[f]]], firm)
Delete ==
    /\ Happens
    /\ \E f \in Firm \cap graph.nodes : Becomes(WithoutFirm(graph, f))
    /\ UNCHANGED merge

With(h, k, v) == [x \in DOMAIN h \cup {k} |-> IF x = k THEN v ELSE h[x]]

\* A fund is onboarded.
Launch ==
    /\ Happens
    /\ \E f \in Fund \ DOMAIN graph.holds :
        Becomes([graph EXCEPT !.nodes = @ \cup {ManagerOf[f]}, !.holds = With(@, f, {}),
                              !.managed = With(@, f, ManagerOf[f])])
    /\ UNCHANGED merge

\* A fund's holdings are committed.
Hold ==
    /\ Happens
    /\ \E f \in DOMAIN graph.holds : \E c \in Company \ graph.holds[f] :
        Becomes([graph EXCEPT !.nodes = @ \cup {c}, !.holds[f] = @ \cup {c}])
    /\ UNCHANGED merge

File ==
    /\ Happens
    /\ \E c \in Chunk \ chunks :
        Becomes([graph EXCEPT !.nodes = @ \cup Mentions[c], !.mentions = With(@, c, Mentions[c])])
    /\ UNCHANGED merge

\* repoint_entity: it makes sure of the canonical node, finds the types of the
\* duplicate's relationships and moves each, out before in.
Discover ==
    /\ merge = None /\ Happens
    /\ \E m \in Merges :
        LET cut == {t \in DOMAIN graph \ {"nodes"} : Detached(graph, m[1])[t] # graph[t]}
        IN  /\ merge' = [dup |-> m[1], canonical |-> m[2],
                         todo |-> (cut \ {"supplies"}) \cup
                                  IF "supplies" \in cut THEN {"out", "in"} ELSE {}]
            /\ Becomes([graph EXCEPT !.nodes = @ \cup {m[2]}])

\* MERGE on the pair: the moved properties overwrite.
Over(edges, moved) ==
    {e \in edges : \A m \in moved : m.src # e.src \/ m.dst # e.dst} \cup moved

Repointed(g, type, d, c) ==
    LET to(x) == IF x = d THEN c ELSE x
        out == {e \in g.supplies : e.src = d /\ e.dst # c}
        in == {e \in g.supplies : e.dst = d /\ e.src # c}
    IN  CASE type = "out" -> [g EXCEPT !.supplies = Over(@ \ out, {[e EXCEPT !.src = c] : e \in out})]
          [] type = "in" -> [g EXCEPT !.supplies = Over(@ \ in, {[e EXCEPT !.dst = c] : e \in in})]
          [] type = "managed" -> [g EXCEPT !.managed = [f \in DOMAIN @ |-> to(@[f])]]
          [] type = "exposed" -> [g EXCEPT !.exposed = {<<to(p[1]), p[2]>> : p \in @}]
          [] type \in {"serves", "formerly"} -> [g EXCEPT ![type] = {<<p[1], to(p[2])>> : p \in @}]
          [] OTHER -> [g EXCEPT ![type] = [k \in DOMAIN @ |-> {to(x) : x \in @[k]}]]

Move ==
    /\ merge # None /\ answer = None
    /\ \E type \in merge.todo :
        /\ type = "in" => "out" \notin merge.todo
        /\ merge' = [merge EXCEPT !.todo = @ \ {type}]
        /\ Becomes(IF merge.canonical \in graph.nodes
                   THEN Repointed(graph, type, merge.dup, merge.canonical) ELSE graph)
    /\ UNCHANGED events

DropDuplicate ==
    /\ merge # None /\ answer = None /\ merge.todo = {}
    /\ merge' = None
    /\ Becomes(Detached(graph, merge.dup))
    /\ UNCHANGED events

\* A statement raises: what was moved stays moved.
MergeFails ==
    /\ merge # None /\ answer = None
    /\ merge' = None
    /\ UNCHANGED <<active, graph, events, start, ever, stayed, q, answer, failed>>

Meanwhile ==
    \/ Switch \/ Delete \/ Launch \/ Hold \/ File
    \/ Discover \/ Move \/ DropDuplicate \/ MergeFails

-------------------------------------------------------------------------------
(* Scope and entitlements *)

\* resolve_entitlements and entitlement_scope.
Entitled(c) == Sensitivity[c] = "public" \/ ~q.req.wall

\* Mutant: a firm that holds nothing is taken for no firm.
InScopeIfAny(c) ==
    \/ q.firm = None \/ q.companies = {}
    \/ graph.mentions[c] \cap q.companies # {}
    \/ Stamp[c] = q.firm

\* The predicate of VECTOR_CYPHER, EVIDENCE_CHUNKS_CYPHER and _firm_has_chunks.
InScope(c) ==
    \/ q.firm = None
    \/ graph.mentions[c] \cap q.companies # {}
    \/ Stamp[c] = q.firm

\* The index returns the K nearest chunks of all; the predicate comes after.
Nearer(c) == {d \in chunks : \E i, j \in DOMAIN Nearest : i < j /\ Nearest[i] = d /\ Nearest[j] = c}
TopK == {c \in chunks : Cardinality(Nearer(c)) < K}
Retrieved == {c \in TopK : Entitled(c) /\ InScope(c)}

Go(pc) == q' = [q EXCEPT !.pc = pc]
Reading == UNCHANGED <<world, answer>>

-------------------------------------------------------------------------------
(* Firm and route *)

\* resolve_firm; an unreadable registry is no firm.
Resolve ==
    /\ q.pc = "resolve"
    /\ LET named == q.req.firm IN
        IF named = AllScope THEN Go("vocab")
        ELSE IF named # None THEN q' = [q EXCEPT !.firm = named, !.pc = "holdings"]
        ELSE \/ q' = [q EXCEPT !.firm = active, !.pc = IF active = None THEN "vocab" ELSE "holdings"]
             \/ Go("vocab")
    /\ UNCHANGED failed /\ Reading

\* firm_company_names; a graph that does not answer is a firm that holds nothing.
ReadHoldings ==
    /\ q.pc = "holdings"
    /\ \/ /\ q' = [q EXCEPT !.companies = HeldBy(q.firm), !.pc = "vocab"]
          /\ UNCHANGED failed
       \/ /\ Go("vocab")
          /\ failed' = failed \cup {"holdings"}
    /\ Reading

\* Funds the question may name: those of the firm, of all without one.
VocabFunds == {f \in DOMAIN graph.holds : q.firm \in {None, graph.managed[f]}}

PortfolioTools ==
    {"shared_suppliers", "second_order_chokepoints", "coverage_gap", "concentration_summary"}

\* The tool the patterns pick, unless an argument it requires is missing.
Routed ==
    LET t == q.req.tool IN
    IF \/ t = "board_and_alumni_links" /\ q.req.asks = <<>>
       \/ t = "concentration_summary" /\ VocabFunds = {}
       \/ t = "exposure_path" /\ Len(q.req.asks) < 2
    THEN "none" ELSE t

\* load_graph_vocab and route: which fund the words name, if any, is left
\* open; only tools of the portfolio take one.
Route ==
    /\ q.pc = "vocab"
    /\ \E fund \in VocabFunds \cup {AnyFund} :
        LET tool == Routed
            next == IF q.req.mode = "vector_only" THEN "text"
                    ELSE IF tool = "none" THEN "generate" ELSE "tool"
        IN  /\ tool = "concentration_summary" => fund # AnyFund
            /\ tool \notin PortfolioTools => fund = AnyFund
            /\ q' = [q EXCEPT !.fund = fund, !.tool = tool, !.pc = next]
    /\ UNCHANGED failed /\ Reading

-------------------------------------------------------------------------------
(* Graph first *)

Rows ==
    CASE q.tool = "shared_suppliers" -> {SharedSuppliers(graph.holds, graph.supplies, q.fund)}
      [] q.tool = "second_order_chokepoints" -> {Chokepoints(graph.holds, graph.supplies, q.fund)}
      [] q.tool = "coverage_gap" -> {CoverageGap(graph.holds, graph.exposed, Covered, q.fund)}
      [] q.tool = "concentration_summary" -> {Concentration(graph.holds, q.fund)}
      [] q.tool = "board_and_alumni_links" -> {BoardLinks(graph.serves, graph.formerly, q.req.asks[1])}
      [] q.tool = "exposure_path" ->
            LET paths == ExposurePaths(graph.supplies, q.req.asks[1], q.req.asks[2])
            IN  IF paths = {} THEN {{}} ELSE {{p} : p \in paths}

\* A result about other firms' companies only is dropped.
InFirm(rows) ==
    LET names == UNION rows
    IN  q.firm = None \/ names = {} \/ names \cap q.companies # {}

RunTool ==
    /\ q.pc = "tool"
    /\ \E rows \in Rows :
        q' = [q EXCEPT !.analytics = InFirm(rows), !.rows = IF InFirm(rows) THEN rows ELSE {},
                       !.pc = "gather"]
    /\ UNCHANGED failed /\ Reading

GraphResult(ok, rows) == [source |-> "graph", ok |-> ok, rows |-> rows, chunks |-> {}]

\* The graph path gave up: the labelled fallback, unless the mode is graph only.
GiveUp(tries) ==
    q' = [q EXCEPT !.cres = GraphResult(FALSE, FALSE), !.tries = tries,
                   !.pc = IF q.req.mode = "graph_only" THEN "gather" ELSE "fallback"]

\* One round of generate_and_run: rows; or the provider fails, which ends
\* it; or the guard or the database refuses the query, which is tried again.
Generate ==
    /\ q.pc = "generate"
    /\ \/ \E rows \in BOOLEAN :
            q' = [q EXCEPT !.cres = GraphResult(TRUE, rows), !.pc = "gather"]
       \/ GiveUp(q.tries)
       \/ IF q.tries + 1 = MaxRetries THEN GiveUp(q.tries + 1)
          ELSE q' = [q EXCEPT !.tries = @ + 1]
    /\ UNCHANGED failed /\ Reading

-------------------------------------------------------------------------------
(* Evidence *)

\* _no_grounded_evidence, over what the graph, the tool and the gather found.
Ungrounded(visible) ==
    /\ q.rows = {} /\ visible = {} /\ q.cres.chunks = {}
    /\ ~(q.cres.source = "graph" /\ q.cres.ok /\ q.cres.rows)

\* Chunks that mention what the question or the tool's rows name.
Gathered ==
    LET names == ToSet(q.req.asks) \cup UNION q.rows
    IN  {c \in chunks : graph.mentions[c] \cap names # {} /\ InScope(c) /\ Entitled(c)}

Gather ==
    /\ q.pc = "gather"
    /\ q' = [q EXCEPT !.visible = Gathered,
                      !.pc = IF q.firm # None /\ Ungrounded(Gathered) THEN "filings" ELSE "synth"]
    /\ UNCHANGED failed /\ Reading

TextResult(found) == [source |-> "text_vector", ok |-> found # {}, rows |-> FALSE, chunks |-> found]

\* vector_fallback: a search that fails has found nothing.
Search(then(_)) ==
    \/ /\ then(Retrieved)
       /\ UNCHANGED failed
    \/ /\ then({})
       /\ failed' = failed \cup {"search"}

Fallback ==
    /\ q.pc = "fallback"
    /\ Search(LAMBDA found : q' = [q EXCEPT !.cres = TextResult(found), !.pc = "gather"])
    /\ Reading

TextOnly ==
    /\ q.pc = "text"
    /\ Search(LAMBDA found :
        q' = [q EXCEPT !.cres = TextResult(found),
                       !.pc = IF q.firm # None /\ found = {} THEN "filings" ELSE "synth"])
    /\ Reading

\* With filings of the firm, its own text is searched, once.
HasFilings == IF q.cres.source = "text_vector" THEN Go("synth") ELSE Go("rescue")

\* Mutant: a read that fails has found no filings.
CheckFilingsOrNone ==
    /\ q.pc = "filings"
    /\ \/ IF \E c \in chunks : InScope(c) THEN HasFilings ELSE Go("structural")
       \/ Go("structural")
    /\ UNCHANGED failed /\ Reading

\* _firm_has_chunks: a read that fails has found some.
CheckFilings ==
    /\ q.pc = "filings"
    /\ \/ /\ IF \E c \in chunks : InScope(c) THEN HasFilings ELSE Go("structural")
          /\ UNCHANGED failed
       \/ /\ HasFilings
          /\ failed' = failed \cup {"filings"}
    /\ Reading

\* Mutant: a search that found nothing is tried again.
RescueAgain ==
    /\ q.pc = "rescue"
    /\ Search(LAMBDA found :
        q' = IF found = {} THEN [q EXCEPT !.pc = "filings"]
             ELSE [q EXCEPT !.analytics = FALSE, !.rows = {}, !.cres = TextResult(found),
                            !.pc = "synth"])
    /\ Reading

\* Mutant: only a tool's empty result is replaced.
RescueTool ==
    /\ q.pc = "rescue"
    /\ Search(LAMBDA found :
        q' = IF found = {} \/ ~q.analytics THEN [q EXCEPT !.pc = "synth"]
             ELSE [q EXCEPT !.analytics = FALSE, !.cres = TextResult(found), !.pc = "synth"])
    /\ Reading

Rescue ==
    /\ q.pc = "rescue"
    /\ Search(LAMBDA found :
        q' = IF found = {} THEN [q EXCEPT !.pc = "synth"]
             ELSE [q EXCEPT !.analytics = FALSE, !.rows = {}, !.cres = TextResult(found),
                            !.pc = "synth"])
    /\ Reading

-------------------------------------------------------------------------------
(* Answers *)

Respond(r) == answer' = r /\ Go("done") /\ UNCHANGED world

\* The structural read may fail: the answer then counts no fund.
Structural ==
    /\ q.pc = "structural"
    /\ Respond([source |-> "structural", plan |-> "structural", rows |-> FALSE,
                cites |-> {}, byText |-> {}, shown |-> {}])
    /\ UNCHANGED failed

Source == IF q.analytics THEN "analytics" ELSE IF q.cres.source = "none" THEN "text_vector" ELSE q.cres.source
Plan ==
    IF q.analytics THEN "analytics"
    ELSE IF q.cres.source = "graph" /\ q.cres.ok THEN "graph" ELSE "text"

\* synthesize and the citations; side by side, the panel is searched for
\* unless the text is already there.
Composed(shown) ==
    [source |-> Source, plan |-> Plan, rows |-> q.rows # {} \/ q.cres.rows,
     cites |-> q.visible \cup q.cres.chunks, byText |-> q.cres.chunks, shown |-> shown]

Synthesize ==
    /\ q.pc = "synth"
    /\ IF q.req.mode = "side_by_side" /\ q.cres.source # "text_vector"
       THEN Search(LAMBDA found : Respond(Composed(found)))
       ELSE /\ Respond(Composed(IF q.req.mode = "side_by_side" THEN q.cres.chunks ELSE {}))
            /\ UNCHANGED failed

\* A read nobody guards, or the embedder, raises: run_query answers all the
\* same, without anything gathered so far, wherever it was.
Degrade ==
    /\ q.pc \in {"vocab", "tool", "gather", "fallback", "text", "rescue", "synth"}
    /\ Respond([source |-> "error", plan |-> "degraded", rows |-> FALSE,
                cites |-> {}, byText |-> {}, shown |-> {}])
    /\ UNCHANGED failed

Handler ==
    \/ Resolve \/ ReadHoldings \/ Route \/ RunTool \/ Generate
    \/ Gather \/ Fallback \/ TextOnly \/ CheckFilings \/ Rescue
    \/ Structural \/ Synthesize \/ Degrade

Next == Handler \/ Meanwhile

\* The handler is a sequential program; nothing has to happen meanwhile.
Spec == Init /\ [][Next]_vars /\ WF_vars(Handler)

-------------------------------------------------------------------------------
(* Properties *)

\* "The answer is scoped to this firm so a non-demo firm never surfaces demo
\* citations" (query/routes.py): what an answer cites or shows is behind no
\* wall and stamped with the firm or about a company it held, each at some time
\* during the question; and if a tool's result names companies, the firm held
\* one of them.  The rows of generated Cypher are not filtered.
AnswerIsTheFirms ==
    answer # None /\ q.firm # None =>
        /\ \A c \in answer.cites \cup answer.shown :
            /\ Entitled(c)
            /\ \/ Stamp[c] = q.firm
               \/ \E x \in Company : <<q.firm, x>> \in ever.held /\ <<c, x>> \in ever.about
        /\ answer.source = "analytics" =>
            UNION q.rows = {} \/ \E x \in UNION q.rows : <<q.firm, x>> \in ever.held

\* Filings there when the question came that were the firm's all along: by the
\* stamp, or by one company that its funds held and the filing mentioned at
\* every moment.  A deleted issuer, or a duplicate being merged, is none.
Filed ==
    {c \in start :
        \/ Stamp[c] = q.firm
        \/ \E x \in Company : <<q.firm, x>> \in stayed.held /\ <<c, x>> \in stayed.about}

\* "never for a firm that HAS filings" (graph.py): a firm is told it has no
\* ingested filings only when none was its own all along, unless its holdings
\* could not be read, which the handler takes for holding nothing.
FilingsNeverDenied ==
    answer # None /\ answer.source = "structural" /\ "holdings" \notin failed => Filed = {}

\* "so an enriched firm cites its filings instead of returning an empty 'no
\* evidence' answer" (graph.py): an answer with neither rows nor citations is
\* given only to a firm none of whose filings the caller may see is among
\* the K nearest chunks of the whole graph, unless a read failed.
FilingsAreCited ==
    /\ answer # None /\ q.firm # None /\ failed = {}
    /\ answer.source # "error" /\ ~answer.rows /\ answer.cites = {}
    => ~\E c \in Filed \cap TopK : Entitled(c)

\* "The handler NEVER returns a 500": a question is answered, whatever fails
\* and however often the agent has to try.
AlwaysAnswered == <>(answer # None)
===============================================================================
