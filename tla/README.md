# Finance Ontology Agent: TLA+ models, checks and proofs

The program onboards asset managers from SEC filings into a Neo4j knowledge
graph, reads documents into that graph with an LLM behind a steward, and answers
questions scoped to the selected firm. It keeps state in three places that share
no transaction: a SQLite file (firm registry, resolution queue, lakehouse), the
graph, where every statement commits by itself (`Neo4jStore.run`), and the memory
of a FastAPI process whose request handlers run on threads and whose long jobs run
on daemon threads that feed event streams. Most of what can go wrong lies between
two statements of two actors, or between two stores. That is what is modelled.

Paths below are relative to `src/`.

## Inventory

| Component | State | Operations | Interacts with | What is hard | What makes it correct |
|---|---|---|---|---|---|
| Firm registry (`api/firms/store.py`, `routes.py`) | table `firms`: one row for each name, primary key `slugify(name)`, flag `is_active` | upsert, select, delete, sync from the graph, ensure the demo firm | called by the routes, the onboarding worker and the startup, each with a connection of its own | reads precede the write transaction; two names can share a slug | at most one active firm; one as soon as there is any; the flag moves only with a cause |
| Onboarding (`api/onboarding/pipeline.py`), deletion (`api/firms/graph_ops.py`), startup (`api/main.py`) | registry row, firm/fund/issuer nodes, event stream | onboard (register, write funds and holdings, resolve, activate, enrich), delete row then subtree, resynchronise | registry, graph, enrichment, client | two stores, failures at every statement, daemon threads lost in a crash, shared nodes | stream contract; row and graph agree; a deleted firm stays deleted; no row left hanging |
| Document ingest (`api/ingest/pipeline.py`) | Document, Chunk, Company nodes; MENTIONS and fact edges; queue rows | resolve and enqueue, name canonically, write nodes, review, write facts | resolver, steward, graph, queue | several ingests at once, each a sequence of commits; swallowed failures | one node for each filer; nothing reported is lost; every unresolved mention of an upload is queued |
| Steward (`api/steward/steward.py`) | none of its own: edge properties `corroboration`, `conflict`, `doc_ids` | review a batch against existing edges, write accepted and rejected facts | ingest | reads long before it writes | corroboration counts statements; conflicts of functional relations are flagged and stay so |
| Enrichment and streams (`api/onboarding/enrich.py`, `routes.py`) | counters, asyncio queue | plan within a budget, fetch, ingest, count, link; drain to the client | ingest, extraction, client | every filing may fail in several ways; worker and client run apart | hard spend cap; counters add up; ordered stream that always ends |
| Extraction (`api/extract/*`) | none | chunk, extract each chunk, ground spans | LLM | isolated failures, stop after a timeout | every chunk accounted for; spans lie in the text |
| Resolution (`api/resolution/*`) | table `resolution_queue`; graph nodes | resolve, enqueue, merge, promote, reject, repoint edges | ingest, graph | repointing is many statements; row and graph separate; two stewards | no fact lost in a merge; row and graph agree |
| Snapshot and boot (`api/snapshot.py`, `docker/api-entrypoint.sh`) | the whole graph, which outlives the container | wait for the graph, restore if empty, embed chunks, serve; forced restore | lakehouse and MDM requests, ingests, which write the same volumes | one commit for each statement, "empty" as the only test, another embedder in another mode | what serves is the whole snapshot, embedded as queries are; a boot ends |
| Lakehouse, MDM (`api/lakehouse`, `api/mdm`) | tables of systems, bronze records, gold dimension, lineage; golden nodes in the graph | seed on first use, reconcile a cluster, publish, view | graph | seeding commit by commit, a publication of three commits in two stores, requests that overlap | a seed is whole; one golden record; lineage explains the published value |
| Query (`api/query`, `api/tools`, `api/firms/scope.py`) | none, over a question's life | resolve firm, route, run a tool, Cypher agent with retries, vector fall-back, rescue, synthesis | registry, graph, LLM | scope and entitlements on every path; every read may fail, of a graph that moves | nothing outside the scope; no firm with filings is told it has none; an answer comes |
| Change impact, reports, risk lens (`api/modules`) | stale flags, `report_registry`, report nodes, DERIVED_FROM | diff two versions, follow each difference, flag; read a slice, compute, register, link | graph, SQLite, ingests | every request is a sequence of reads, then writes in two stores | an impact is what the change reaches; figures of a pack agree; registry, node and links agree |
| Web application (`web/src`) | active firm, selector's list, the data of the panel in view, the dialog's phase and stream id | select, open panels, onboard a firm | API calls and event streams | answers late, out of order, failed or superseded | panels follow the selected firm and show no other's data for it; the dialog follows its own job |
| Entitlement console (`entitlement-console/server`) | warehouse principals, grants, row rules, policy; change log | push column rules, add or remove row rules, set up | warehouse | revoke, read, revoke, grant and log apart, each able to fail | a pushed rule is exact; evidence tells what is in force; setup converges |
| Graph view, evaluation, discovery, providers, ontology, scripts | none, or external | read-only queries, downloads, adapters, schema | | | not modelled |

`PROJECT.json` lists these with the files of each ("components") and every hazard
at its line ("hazards"), with the properties that cover it.

## Modules

| Module | Models |
|---|---|
| `FirmTable` | the table `firms` as a value, and each SQL write as an operator on it |
| `FirmRegistry` | every call as its reads and its write, over connections `Conn` |
| `ActiveSelection` | abstract: a set of firms, one selected as soon as there is any |
| `FirmRegistryProofs` | theorems about `FirmRegistry` |
| `FirmGraph` | the firm, fund and holding part of the graph, each statement an operator |
| `Onboarding` | jobs, deletes, selects, crash and startup over `FirmTable` and `FirmGraph` |
| `OnboardingProofs` | theorems about `Onboarding` and about `Enrichment` |
| `EntityGraph` | the documents' part of the graph, each statement an operator |
| `Steward` | `Steward.review` in closed form over a batch and the edges it read |
| `Ingest` | `ingest_document` from resolution on, several at once, over the two above |
| `Reconcile` | analysts' decisions on the queue and `repoint_entity`, over a running `Ingest` |
| `IngestProofs` | theorems about `Ingest`, and those about `Reconcile` that rest on them |
| `Enrichment` | `enrich_firm`, `extract_document`'s loop, the worker's queue and the client |
| `EventStream` | abstract: the events of a run, read one by one and closed when all have been |
| `GoldenRecord` | the lakehouse's seed, survivorship as operators, publication and views |
| `Boot` | the container's entrypoint and the snapshot's restore around `GoldenRecord` |
| `BootProofs` | theorems about `Boot` and the `GoldenRecord` inside it |
| `Analytics` | the six graph tools as operators on holdings and edges |
| `QueryPipeline` | a question from the route's scope to the answer, while the graph and the registry move |
| `QueryPipelineProofs` | theorems about `QueryPipeline` |
| `RiskLens` | the lens's figures as operators on a slice, and its EXPLAIN queries |
| `ReportPack` | packs read, registered and filed over `RiskLens`, while facts are committed, firms deleted and duplicates merged |
| `ChangeImpact` | diff, policy, propagation and flags, beside a running `ReportPack` |
| `ImpactProofs` | theorems about `ChangeImpact`, and about the `ReportPack` and `RiskLens` inside it |
| `EntitlementConsole` | the console's three calls, statement by statement |
| `EntitlementConsoleProofs` | theorems about `EntitlementConsole`: pushed rules, and the trail and setups |
| `WebShell` | the active firm, the selector, its enrichments and a panel of any kind, against a server |
| `AddFirmDialog` | the onboarding dialog and the streams it opened |
| `WebApp` | the two together: a job selects its firm, a completion reloads the shell |
| `WebAppProofs` | theorems about `WebApp`: the dialog, the panel and the shell |
| `MC*` | the instance of each for TLC |

How state and actions correspond to the code:

* **FirmRegistry.** `firms` is the table, `clock` its `datetime('now')`, `call[c]`
  the local variables of what connection `c` is doing. `SelectRead`, `SelectWrite`,
  `SelectReread` are `set_active_firm` cut at its SELECT, its commit and its
  read-back; `DeleteLookup`, `DeleteRead`, `DeleteWrite` are the delete route and
  `delete_firm`; `UpsertRead`, `UpsertWrite`, `UpsertConflict` are `upsert_firm`.
  SQLite runs one write transaction at a time and Python's `sqlite3` opens it at
  the first UPDATE, INSERT or DELETE: what follows it up to the commit is one
  step, and a SELECT before it is a step of its own. `WriteFails` is a locked
  database.
* **Onboarding.** `job[j]` is a worker thread, with one action for each statement
  on a shared store and the events before it (`BeginFails`, before the try block, marks
  nothing; `MergeFirm` is the first statement in it); `request[c]` a DELETE between its
  two stores; `server` the process. Registry calls are single steps here, since
  `FirmRegistry` takes them apart. `Crash` loses threads, requests and queues and
  keeps both stores. Three history variables record what the properties except:
  a delete that met an onboarding (`raced`), a delete that was answered (`gone`),
  a worker that was killed or could not mark its row (`stranded`).
* **Ingest.** `work[w]` is an ingest in flight, with one action for each statement or commit;
  `graph` and `queue` are the stores. An ingest of `Uploader` holds a connection to the queue and
  enqueues; the others are an enrichment's, whose callers pass none
  (`api/onboarding/pipeline.py:254`, `routes.py:146`) and which queues nothing. `Canonicalise`
  includes the look-up whose failure the code swallows. A mention that the resolver does not know
  still gives its node the CIK that the model read in the text (`Extracted`, `NodeCik`), which
  nothing looked up. History: CIKs with a reason to have two nodes (`split`), documents that an
  upload wrote (`uploaded`). `ReviewFacts` chooses freely what the LLM finds entailed. `Fail` stops
  an ingest anywhere, as an exception or the end of the process does; what was committed stays.
* **Reconcile.** Extends `Ingest`: its variables and its `Next` go on beside those of
  the analysts. `request[a]` is a `/resolve/merge` between two statements of
  `repoint_entity`; `status` the decided rows. The row is marked whether or not the
  repointing failed, as the route does. The history variables name the merges begun
  and the duplicates that a failure left behind or an ingest wrote again; a merge
  that goes through clears them.
* **Enrichment.** `pc` is where the worker is, `todo` the rows ahead (of the holdings,
  then of the funds, each in the order of the query), `queue` the asyncio queue,
  `received` what the client read. A row stands for its filing's document: two rows of
  one filer are taken to have two. A filing's ingest is reduced to its outcomes:
  extracted or not, written or not, raised before or after. `EventStream` says what the
  client is promised, without queue, sentinel or worker: `sent` maps to the events put
  so far without the sentinel (`Events`), `got` to `received`, `reader` to `client`;
  the worker's steps are `Open`, `Progress`, `Complete` and `Break`, the coroutine's
  `Read` and, at the sentinel, `Close`.
* **GoldenRecord.** `req[r]` is a request between two statements: `Bootstrap`,
  `SeedSystem` and `SeedRecord` are `seed_if_empty`, one commit for each row;
  `ReadRecords`, `ReadTrust`, `PublishDim`, `PublishLineage`, `PublishNode` are
  `run_match_and_merge`; `NodeSkipped` is the graph's failure, which the code
  swallows; `ViewRow` and `ViewLineage` the two reads of `get_gold_dim`. A value is a
  number, of which the rules compare completeness and trust; the ontology's
  classification always has its canonical variant, which the policy names, so the rule's
  fall-back is left out. History: a seeding that
  was cut (`seedCut`), a merge that read before the seed was whole (`early`),
  publications of one key that overlapped or were cut (`raced`).
* **Boot.** `container` follows the entrypoint; `loaded` and `vector` are what the
  graph has of the snapshot. `LoadStatement` and `SetVector` are single commits.
  `ForceFails` is a forced restore that fails or dies while the container serves on; its
  statements MERGE, so what is there stays.
  `Serve` is any step of `GoldenRecord`, whose tables and nodes a `Crash` keeps and
  whose requests it ends. The mode of a boot, and with it the embedder, is free.
* **QueryPipeline.** `q` is what the handler knows, one action for each read. A firm is a
  Company node like any other (`Firm \subseteq Company`), which funds of other firms may
  hold and filings mention. What other requests do meanwhile: `Switch` the selection,
  `Delete` a firm (`delete_firm_graph`: its funds and its own node, with every edge at
  it), `Launch` a fund, `Hold` more, `File` a document, and merge a duplicate, which is
  `Discover`, a `Move` for each type of relationship, `DropDuplicate`, or `MergeFails`
  anywhere. `start`, `ever` and `stayed` record what was filed when the question came,
  and what was held and mentioned at some time and at every time since; a firm's filings
  are those that were its own at every moment, since no handler could be asked for one
  that the graph did not show it. Each read that the code guards has a second outcome,
  recorded in `failed`; `Degrade` is any read or embedding it does not guard, which
  `run_query` turns into one kind of answer, wherever it was. `Generate` is one round of
  the agent.
* **ReportPack, ChangeImpact.** `pack[p]` reads its slice in four steps and its
  coverage in two, then registers, writes its node and links it, document by document;
  only a document that has a node (`Noded`) is linked. The graph changes beside it by
  `Commit`, an ingest's fact, MERGEd on its pair of nodes as `GraphWriter` does, so that it
  overwrites an earlier one's properties; by `DeleteFirm`; and by the merge of a
  duplicate, in the statements named above. An edge's criticality is a word, which may be
  spelt in capitals: the metrics lower it, the EXPLAIN queries compare it as it is
  (`ExplainedMultiplier`, `ExplainedClusters`). `impact` follows one triggered difference
  at a time, in any order (the code's order is by the differences' sort, which the answers
  do not depend on while nothing is committed and may while something is). A fact's
  identity includes its period. `GET /impact` for a firm other than the demo's reads
  nothing and answers with an empty feed; it is no request here. `stayed` and `seen` are
  the holdings and supplies that were in the graph at every moment, and at some moment,
  since the request.
* **EntitlementConsole.** `call[r].pc` is the statement a handler awaits. `gained` and
  `dropped` record what other pushes for the same user granted since a push's first
  REVOKE and revoked since its GRANT; `blurred` the keys whose calls overlapped or
  were cut; `undone` the setups whose work somebody undid. GRANT and REVOKE at object
  and column level are external and do what SQL Server documents of them as far as
  the statements here tell apart.
* **WebShell, AddFirmDialog, WebApp.** A call is sent, answered by the server and delivered at three
  different times, or answered by a fixture. Panels are of four kinds, by how they ask: `loaded` and
  `own` use `useLoaded`, for the firm or for none (risk, reports, evaluation), and drop an answer
  whose call is not their last, as the effect's `alive` does; `fetched`, the master data, asks again
  on a firm change but shows whatever comes; `chat` asks when the analyst does, also while a
  question is under way (a toggle asks again), keeps its result on a change of scope and shows
  whatever comes. A selection or a completion remounts any of them (`Mounted`); All data does not
  (`Rescoped`). The ingest panel asks nothing. The selector's list is read again after every reload
  of the shell and after an enrichment (`EnrichEnds`). History: the firms asked for since the panel
  was mounted (`asked`), whether the last answer shown was overtaken by an earlier call's (`late`),
  and `excused`. `useLoaded` also returns a `reload`, which no component calls. `streamId` and
  `doneRef` are the component's refs; a stream goes through the job's moments that the client or the
  server tell apart and may be refused or break.

## Runs

| Run | Instance | States | Shows |
|---|---|---|---|
| `registry_concurrent` | 2 connections, 3 names on 2 slugs, clock 0..1 | 1.9M | every interleaving of two calls' reads and writes: the flag is unique, an upsert that does not activate leaves a selection alone, and the selection moves only through a call that names the firm or deletes the selected one |
| `registry_serial` | 1 connection, 3 names on distinct slugs, clock 0..2 | 54k | without overlap the registry implements `ActiveSelection` and never loses the selection |
| `registry_none_active` | 2 connections | | violated: a select that races a delete leaves firms and none selected |
| `onboarding` | 2 firms that share a fund, 2 jobs, 1 delete client, 1 crash | 3.2M | the stream contract, what alone can break the mirror of funds, deleted firms stay gone across restarts, no row is left onboarding without cause |
| `ingest` | 2 uploads and an enrichment in flight, 2 documents, 3 ingests | 2.5M | reported facts keep their provenance, corroboration counts acceptances, one node for each filer, an upload's mentions queued before their document appears, a pair of functional facts stays flagged; each with the exact circumstances that except it |
| `reconcile` | 1 worker, 2 documents, 2 analysts, 2 decisions | 1.6M | no step of a merge, an ingest, a failure or a retry loses a fact or a mention; a row marked merged has no duplicate in the graph, with the circumstances that except it |
| `enrichment` | 3 usable of 4 holdings, 2 usable of 4 funds, budget 3 | 92k | the spend cap, counters and links of every filing, the refinement of `EventStream`, and that the stream closes |
| `boot` | 2 systems, 2 records, 5 attributes, 2 statements, 2 boots, 3 calls | 1.3M | what is served is the whole snapshot under one embedder, the seed is whole, one golden record is published and its lineage explains it, with named exceptions; a boot ends |
| `query` | 2 firms that are companies too, 3 funds, 3 more companies, 3 chunks, K = 2; every tool and mode; one switch, delete, launch, holding, filing or whole merge meanwhile | 3.7M | an answer keeps to the firm and the wall, never denies filings that were there all along, cites them when they are near, and comes |
| `impact` | 2 funds, 4 companies, 3 documents; 1 commit, delete or merge; 2 packs, or a pack and an impact | 392k | figures agree, audit trail, EXPLAIN queries, an impact is the reach of the change, flags follow it |
| `console` | 2 calls of any kind and a removal of the operator's row, 2 users, 2 columns | 2.8M | a pushed rule is exact, evidence matches, setup converges |
| `web` | 2 firms, 2 picks, 2 openings, 3 uses; 2 reads of each kind and 2 panel calls under way | 2.2M, up to renumbering | the panels and the selector follow the server, a panel keeps to its firm, the dialog to its job |

Every property of a passing run has a mutant: a definition changed as a plausible
bug would change it (a forgotten flag, a delete that answers success when the graph
failed, a budget that ignores the holdings, lineage that is appended instead of
replaced, an event shown whatever stream is current), after which TLC finds the
property violated.

### Bounds, and why they are enough

* *Registry.* A race takes two calls that each hold a reading; a third connection
  adds no new pair. Theorems 1 to 4 below have no bound. Three names on two slugs
  give a firm to select, one to delete and a pair that collides on the primary key.
  The clock is capped; its ties leave `MostRecent` a choice, so few values give
  more behaviours, not fewer.
* *Onboarding.* Two jobs can be the same firm twice or two firms that share a fund;
  one delete client meets both; a crash followed by a startup is complete with one.
  `MaxEnrich = 1` since the enriching stage's events all play one part in the
  contract. Jobs and crashes are used up in the end, so deadlock is not checked.
* *Ingest.* Two documents name one filer differently (TSMC, and its full name) and
  state the same fact under both names and a conflicting one, one of them doubtful;
  the third ingest is a retry or a second reading. Two uploads are a race, and so are an
  upload and an enrichment. The second document's text bears the filer's CIK beside a
  company that the resolver does not know. The bound on ingests is used up, so deadlock
  is not checked. The instance's
  normalized names tell CIKs apart, as the committed spine of companies does and
  `normalize`'s docstring promises.
* *Reconcile.* One mention with one candidate, met by two analysts: both merge the
  same row, or one merges and the other keeps or rejects it, or a merge is retried.
  The facts go out of the duplicate and into it, to a third company and to the
  candidate, and one is stated of both names. One ingest at a time is enough to
  write between any two statements of a merge. Analysts are symmetric.
* *Enrichment.* The budget (3) is smaller than what is offered (3 holdings and 2
  funds) and `top` is negative, zero, within and beyond it; a blank row, a fund
  without a key and two under one key make the filters work. Two chunks are the
  least with a failure before or after a success. A finished run stops,
  so deadlock is not checked.
* *Boot.* Three calls are a seeding, a merge that overlaps it or another merge, and a
  view. The cluster is that of the seed whose records disagree on each rule's kind of
  attribute, with one attribute for each rule. Two statements have a first, after
  which the graph is not empty, and a last, which makes the chunk; two boots are the
  one that is cut and the one that finds what it left. Two attempts are a wait and its
  end. Restores and ingests are taken when no request is under way (`Quiet`), as they
  touch other data.
* *Query.* One chunk of each kind: stamped with a firm and mentioning no company,
  about one company, and about two and behind the wall. K = 2 of them leaves one out.
  The first firm holds the second, so a delete of the one takes a holding of the other
  and a chunk's mention; it also holds the duplicate of a merge. `MaxEvents = 1`: one
  switch, delete, arrival or merge, and of a merge each statement can fall before any of
  the question's reads, which are a handful. A second event changes the state in a way
  that some single event does; the theorems (17 to 20) take any number, and
  `AlwaysAnswered` has no step that waits for one. The agent's three rounds are the
  code's.
* *Impact.* A chain of suppliers of two edges reaches the policy's hop limit and one
  fund through each end. The versions remove a supply edge, worsen an exposure and
  restate a metric in another document, and describe a company for the first time. One
  thing at a time changes the graph: a commit (an edge restated in capitals and from a
  document without a node, a holding, an exposure, a mention), the delete of a firm that
  is itself a supplier, or the merge of a fund's only holding into another company, each
  statement of which can fall between any two reads. `WorkBound` takes two packs, or a
  pack and an impact, the pairs that share state; a merge counts as one of the two.
* *Console.* Two calls overlap or follow each other, of every kind; the third is the
  one that can undo a setup. `{}`, one column and all columns are the three forms of
  GRANT the code sends.
* *Web.* A second opening or pick meets the stream of the first. Overtaking takes two
  reads of a kind on their way: `MaxReads = 2` lets a second reload, or an enrichment's
  reading of the list, be sent while the first's answers are out, and they come in either
  order; so with `MaxCalls = 2` and a panel's calls. A reload that would send a third
  waits for one to be delivered. `WorkBound` bounds what the user does in all (3 of uses,
  picks and openings; the dialog alone, 2 and 2): one use less than two reads that cross,
  such as a choice, its reload, and an enrichment or a completion, would not do. `VIEW`
  identifies states that differ only in the numbers that ids and keys start from, which
  are only compared with others of their kind, and in what an `excused` state had read
  before, which no step looks at but to become `excused`.
* The registry runs check for deadlock: a registry always takes another call. In the
  others work is bounded and used up, so deadlock is not checked.

### Fairness

Three properties are about liveness.
`StreamCloses` assumes weak fairness of the worker's steps and of the coroutine's
`Drain`. A started thread runs on: its LLM calls are bounded by
`llm_timeout_seconds` (`api/config.py`), downloads and statements return or raise, and
the thread holds no lock another waits for. The event loop schedules a coroutine whose
`queue.get()` can return. Nothing is assumed of the client, which may never ask and may
hang up: `StreamCloses` says that it reads on to the sentinel or is gone.
`BootEnds` assumes that the entrypoint, a script, goes on; nothing of the graph, which
may never answer, or of who boots the container. `AlwaysAnswered` assumes the same of
the handler of a question, whose provider calls are bounded as above.

## Proofs

`FirmRegistryProofs` proves, for any number of connections, firms, names and kinds
of upsert, from what the constants are and no more (`SlugAssumption`,
`UpsertsAssumption`, `ClockAssumption`):

1. `TypeCorrect`: `Spec => []TypeOK`.
2. `SingleActive`: `Spec => []AtMostOneActive`, for every interleaving and with
   slugs that collide. `AtMostOneActive` is inductive together with `TypeOK`: the
   only operators that set a flag are `Activate`, which clears the others in the
   same transaction, and `AfterUpsert`, which sets one only through `Activate`.
   Lemmas say for each table operator that it preserves type and uniqueness.
3. `UpsertsKeepSelection` and 4. `SelectionMovesWithCause`: the action properties,
   from the same invariant, one step for each action.
5. `SerialSomeActive`: with `OneAtATime` (no two calls overlap),
   `Spec => []SomeActive`. It is false for two connections
   (`registry_none_active`), and not inductive as it stands even for one: a delete
   acts on `was_active`, a select on a row it saw, an upsert on `exists`. The
   strengthening `SerialInv` says that what a call read is still so when it writes,
   and that each row sits under its name's slug, so that an upsert activates the
   row it wrote.
6. `SerialSelection`: with `OneAtATime`, `Spec => Selection!Spec`, the refinement of
   `ActiveSelection`: the empty table maps to no firm known, and each write to one
   abstract step or to none, by `SerialInv`.

The other proof modules are laid out alike: an inductive invariant in named parts, the
lemma that the initial state has it, one lemma for each statement of the code, and the
theorem; then each property from the invariant. A history variable that a property
excepts (`raced`, `blurred`, `failed`, ...) guards the part of the invariant that it
would break, and nothing else.

`EntitlementConsoleProofs`, for any number of calls, users, columns and regions, any
inputs and a log of any length, from `ConsoleAssumption`:

7. `RuleInvariant`: `Spec => [](RuleType /\ RuleInv)`. `AllowListExact` speaks of a
   push that has granted and is not inductive: it rests on what the statements before
   the GRANT have cleared. `RuleInv` says it of each of them: after the first REVOKE
   the user holds no grant on the whole table but what another push gave it since; the
   columns read include all that it holds, but for the same; after the second REVOKE it
   sees nothing else. One lemma for each statement says that it takes its own push to
   the next stage and leaves every other push at its own, since what it grants enters
   their `gained` and what it revokes their `dropped`. The other actions touch nothing
   of this (`QuietKeeps`).
8. `PushedRuleIsExact`: `Spec => []AllowListExact`, of every interleaving with other
   pushes, row rules and setups and every failure between two statements.
9. `TrailInvariant`: `Spec => [](RuleType /\ TrailInv)`. `Alone` says that two running
   calls about one key have blurred it, so a call whose key is not blurred finds its
   user's columns (`PushStage`) or its row (`RowStage`) as its own last statement left
   them. What no call is about to change, the newest entry tells. `LastAt` says
   that an index is the last of its key: an appended entry becomes it or leaves it, so
   the log takes no induction. `Converging` says that what a setup has gone by
   without a failure is there, until somebody undoes it.
10. `EvidenceMatchesHolds`: `Spec => []EvidenceMatches`, and 11. `SetupConvergesHolds`:
    `Spec => []SetupConverges`, from it.

`WebAppProofs`, for any firms, candidates, openings, picks, reads and streams, from
`ShellAssumption` (the demo is a firm; "none" and "waiting" are not) and
`CandidatesAreFirms`:

12. `DialogInvariant`: `Spec => []DialogInv`. `ShowsOwnJob` is not inductive: that an
    event comes from the firm on display rests on how ids are given. `Fresh` says that an
    id is given to one stream and is never one still to come; `Followed` that the
    current id belongs to a stream only while the dialog is on that stream's firm, as
    every other transition takes a new id; `Timed` and `Announced` tie the timer, the
    done state and `doneRef` to the stream that is followed, until a candidate is picked
    after a completion. One lemma (`HearingKeeps`) covers what a stream's step other than
    a completion may do; the user's four actions and the completion have one each.
13. `DialogShowsOwnJob`: `Spec => []ShowsOwnJob`.
14. `ShellInvariant`: `Spec => []ShellInv`. For the panel: a panel that takes the firm has the
    shell's; each call under way is no newer than the panel's last and, of those not superseded,
    asked for a firm in `asked`; and once the last call is answered and no earlier one came after
    it, what is shown answers it. For the shell: once every selection made has been reported to it,
    the newest read of each kind is on its way with the registry's answer, or with none yet
    (`Telling`), or was the last one delivered (`Told`), unless `excused`. A read's key tells which
    is newest and is given once (`ReadsShape`).
15. `PanelKeepsToItsFirmHolds`, 16. `AppFollowsServerHolds`: the properties, from it.

`QueryPipelineProofs`, for any firms, funds, holdings, chunks, K and number of events
meanwhile, from `QueryAssumption`:

17. `QueryInvariant`: `Spec => []QueryInv`. `Remembered` ties the graph to what was held and
    mentioned all along and to all that ever was; `Scoped` says of each path that what is in hand is
    the firm's; `Covers`, `Searched`, `Denied` and `Bare` follow the way to a structural answer:
    with the holdings read the scope covers the filings that are the firm's all along, a search that
    went through has found those that are near, and only a firm without any comes to the denial. A
    delete and each statement of a merge can only shrink what stayed and grow what ever was, so they
    keep it. The lemma behind `Searched` is that the K nearest of more chunks hold, of a smaller
    set, only what its own K nearest hold.
18. `QueryKeepsToTheFirm` (`AnswerIsTheFirms`), 19. `QueryDeniesNoFilings`
    (`FilingsNeverDenied`) and 20. `QueryCitesFilings` (`FilingsAreCited`), from it.

`BootProofs`, for a snapshot of any number of statements and chunks, any systems,
records and attributes, any number of requests, crashes and boots, from
`BootAssumption` and `GoldenAssumption`:

21. `BootInvariant`: `Spec => []BootInv`, in two halves. `GoldenInv` says of each request
    how far it has come with the seed; that a merge which was not early works on the
    whole cluster; and that while a key is being published its row is the publisher's,
    and then the lineage explains it. A crash ends the requests and keeps the tables, so
    all of it holds of a request that has just begun. `ContainerInv` says that a graph
    with nothing of the snapshot is empty, that a restore has loaded what is no longer
    to do, and that, between restores, a graph that was not cut short is complete and its
    vectors are of one embedder.
22. `ServesWholeSnapshotHolds`, 23. `SeedIsWholeHolds`, 24. `OneGoldenRecordHolds`,
    25. `LineageExplainsGoldHolds`, from it.

The records of a cluster are a set of their indices in the seed (`GoldenRecord`), and the
facts and mentions of a document sets of their positions (`Ingest`, `Steward`), so that
what is accepted, written or left to do is a set that can be reasoned about, not a
sequence that takes induction.

`OnboardingProofs`, for any firms, funds, jobs, clients and crashes, from
`SlugAssumption` and `OnboardingAssumption` (theorems 47 to 50 are about `Enrichment`):

26. `OnboardingInvariant`: `Spec => []OnboardingInv`. `Requests`: a deletion that has
    taken the row and met no onboarding finds no other row of the firm and no worker on
    it. `Mirror`: a worker that no deletion raced finds the firm and the funds it wrote
    in the graph. `Marked`: an onboarding row has a worker that will write it again.
    `StreamOk`: for each place of the worker, what its stream has and has not.
27. `StreamContractHolds`, 28. `MirrorBreaksOnlyByDeleteHolds`, 29. `DeletedStaysGoneHolds`,
    30. `OnboardingRowHasWorkerHolds`, from it.

`IngestProofs`, for any documents, entities, facts, workers and number of ingests, from
`IngestAssumption` and `FunctionalAssumption`:

31. `IngestInvariant`: `Spec => []IngestInv`. Each property speaks of what is written, and
    needs the worker's progress towards it: what an upload has taken from its list of
    mentions is queued but for the row it has still to attribute (`QueueInv`); the accepted facts
    no longer to do stand (`FactsInv`); but for CIKs in `split`, one worker at most calls a
    filer anything, and by its node's name if it has one (`NamesInv`); and what a worker
    read of a fact plus how often it has written it since is the number of votes, less
    only under contention (`CountInv`).
32. `ReportedFactsStandHolds`, 33. `MentionsQueuedHolds`, 34. `CorroborationCountsHolds`,
    35. `OneNodePerCikHolds`, 36. `SecondObjectFlaggedHolds`, from it.

The same module, for `Reconcile`: any analysts, candidates and decisions beside any
ingests, from `ReconcileAssumption` as well:

37. `ReconcileInvariant`: the specification of `Reconcile` implies `[]ReconcileInv`. Where
    a merge has been, an edge is left at the duplicate only if it goes to the canonical
    node, or an ingest wrote the duplicate again after the merge began (`Moved`); so the
    node that is deleted loses nothing, and a merge about to mark its row has deleted its
    node (`Requests`, `Decided`).
38. `MergedMeansGoneHolds`; and 39. `NothingLostInMergeHolds`, an action property, step by
    step of the merge: a fact or a mention stands under the duplicate, or under a node
    that it was merged onto.

`ImpactProofs`, for any funds, companies, holdings, edges, documents, versions and
requests at once, from `ReportAssumption` (the first graph is one of finitely many edges
whose holdings have integer weights, and what is committed is of the graph's fields) and
`ImpactAssumption` (the policy's two hops; a
fact's identity is unique in its version; a scope is a set of funds):

40. `PackInvariant`: `Spec => []PackInv`. Until something is committed, each thing a
    request has read is what the graph says (`ReadInv`); and a filing that no other
    touched has left what it has written so far, and is the only one of its fund
    (`FilingInv`).
41. `FiguresAgreeHolds`. Covered and uncovered weight add up because the sum of a union of two
    disjoint sets is the sum of the sums. The community modules define a sum over a set by a
    recursive function on sets, whose equations need an induction that the library's theorems cannot
    give here (they take an operator). The module proves what it needs of it with sets in the
    operator's place: `NatInd`, induction on the naturals for a *set* of numbers, which follows from
    the pigeonhole principle; `SetInd`, on the cardinality of a finite set, for a *set* of sets; and
    `Sums`, that the sum over a set is what it is without one element, plus that element.
42. `AuditTrailAnchoredHolds`, from the invariant, and 43. `ExplainReproducesHolds`: on the edges
    spelt as the ontology spells them, the concentration's query adds up the same terms, and others
    that are zero; any other edge is a zero in the query, whatever the metric makes of it.
44. `ImpactInvariant`: `Spec => []ImpactInv`. `ImpactIsTheReach` bounds the funds of an
    impact by what is reached along edges that stayed from its start and along edges that
    were there at some time, and is not inductive. `ToCome` says that what the edges that
    stayed reach and is not found is reached by a difference still to be followed, or by
    the companies just found; `Founded` that what is found is reached by some difference
    along edges seen. Commits, deletes and merges can only shrink `stayed` and grow `seen`
    (`Beside`), and every read is of a graph between the two. Sections and links only grow
    in the code too, and are bounded by the start and the present. The code walks
    from a changed company back to its dependents, and the reach is stated forwards, from
    a company to what is within two edges of it: `FundsReached`, `SectionsReached` and
    `ReportsReached` show that they agree.
    `Flagging` and `Flagged` follow the flags, statement by statement.
45. `ImpactIsTheReachHolds`, 46. `FlagsFollowTheImpactHolds`, from it.

`OnboardingProofs`, for `Enrichment`: any rows of holdings and funds, any `top`, caps and
number of chunks, any pace of the client, from `EnrichmentAssumption` (the rows are
sequences, the bounds naturals, and the cap on holdings, 5, is within the cap on
filings, 8):

47. `EnrichmentInvariant`: `EnrichmentSpec => []EnrichmentInv`. `SpendAccounted` speaks
    mostly of a run that is done. `Planned` says it of one under way: the counters of
    a stage and the rows ahead of it add up to what was announced, and a filing counted and
    not yet gone by counts twice (`Counted`). `LinkedUp`: nothing ahead is in the graph
    but the current filing before its link (`ToLink`), so a filing whose extraction
    failed has no document, and the link adds one subject that was not there.
    `Streamed`: what was put is begun by job.started, goes on with events of the middle,
    and once the worker has ended has a last event and the sentinel behind it, so the
    coroutine meets the sentinel with nothing left to read; errors are as many as the
    counters say. The rows of a budget are told apart by how many usable rows
    come before them, an injection into the numbers below the budget (`WithinBudget`).
48. `SpendAccountedHolds`: `EnrichmentSpec => []SpendAccounted`, from it.
49. `DeliversStreamHolds`: `EnrichmentSpec => Stream!Spec`, the refinement of
    `EventStream`; each lemma `...Enriches` says of one action that it keeps the invariant
    and is one step of the stream, or none.
50. `EndedIsDeliveredHolds`, which is proved of `EventStream` and reaches `Enrichment`
    through 49: a response that ended of itself has delivered every event, of which the
    last is job.completed or the worker's error, and nothing is sent after that one.

Each invariant and strengthening above also held in TLC, on the instances of the
runs or on smaller ones of the same modules.

Model-checked only, and why:

* `StreamCloses`, `BootEnds`, `AlwaysAnswered`: liveness under fairness, which is out of
  the prover's reach. (`EndedIsDeliveredHolds` is the safety side of the first.)
* `SomeActive` and the refinement of `ActiveSelection` are proved for calls that do not
  overlap; `registry_none_active` shows that the first is false otherwise.

The theorems remove the runs' bounds, not the models' abstractions, which the section on
what is not modelled lists.


## Where the code does not do what it says

One disagreement has a run of its own, `registry_none_active`: a registry with firms has
a selected one (`api/firms/store.py:95`, `:151`), but `set_active_firm` looks the row up
before its transaction; after a delete in between, `_activate` clears every flag and sets
none. Its `assert active is not None` fails for the same reason when the delete comes
between its commit and its read-back.

The others were met while modelling. The models have these behaviours, and the
properties name them as exceptions or leave room for them:

| The code says | It does |
|---|---|
| the registry mirrors the funds each firm manages (`api/firms/store.py:5`) | a delete under a running onboarding leaves a ready row whose funds are not in the graph (`raced` in `MirrorBreaksOnlyByDelete`) |
| shared issuers stay intact (`api/firms/graph_ops.py:4`) | a firm's own Company node may be another fund's holding and goes, with the edge |
| a conflict is "kept + flagged" (`api/steward/steward.py:35`) | a later write of the same fact sets `conflict` to False |
| an edge has a "growing `doc_ids` provenance list" (`api/steward/steward.py:319`) | `repoint_entity` sets the duplicate's edge's properties over the canonical node's edge |
| a per-filing failure is an error event (`api/onboarding/enrich.py:77`) | an ingest that ends early raises nothing: counted as enriched, no event |
| a merge makes one node of two names (`api/resolution/graph_reconcile.py`) | merging onto a candidate's spine title makes a second node when the company's node goes by another name (`Ensure`) |
| "fail loudly rather than leave a half-loaded graph" (`api/snapshot.py:170`) | the statements before the failing one stay, and the next boot takes the graph for populated (`cutShort`) |
| chunk and query vectors "must come from the same embedder" (`docs/ARCHITECTURE.md:93`) | a boot in another mode over a populated graph keeps the old vectors (`switched`) |
| "every mutation the console makes lands in gov.change_log" (`entitlement-console/server/audit.js:3`) | a rule is granted, then logged: a cut in between leaves the rule without evidence (`blurred`) |
| the structural answer is "never for a firm that HAS filings" (`api/query/graph.py:390`) | a failed read of the firm's companies is a firm that holds nothing, and filings that only mention them are then denied (`failed` in `FilingsNeverDenied`) |
| an enriched firm cites its filings (`api/query/graph.py`) | the K nearest chunks of all firms are taken first and scoped after: a firm's chunks may all be crowded out (`TopK` in `FilingsAreCited`) |
| the answer is scoped to the firm (`api/query/routes.py`) | rows of a generated query are not filtered; after a failed generation in graph-only mode `source` says graph |
| every figure's query reproduces it (`api/modules/risk_lens.py:6`) | two metrics' queries do for a criticality in lower case; the metrics lower it (`:176`, `:254`), the queries compare it as it is (`:92`, `:102`), so an edge spelt `Critical` counts in the one only (`AsSpelt` in `ExplainReproduces`); the queries of the other metrics compute something simpler |
| a changed citation makes the reports that cite it out of date (`api/ontology/impact_policy.yaml:31`) | the difference carries the new version's document (`change_impact.py:224`), so reports derived from the superseded one alone are not found |
| an impact is what the change reaches (`api/modules/change_impact.py`) | a firm's delete, or a merge that moves an edge, between two of its reads hides funds from it (`stayed` in `ImpactIsTheReach`) |
| variants "reuse the one node instead of creating a duplicate" (`api/ingest/pipeline.py`) | an unresolved mention's node takes the CIK that the model read in the text (`:119`), which nothing looks up, so a second node may bear a filer's CIK (`split` in `OneNodePerCik`) |
| a document's unresolved mentions are parked in the queue (`api/ingest/routes.py`) | those of an enrichment's filings are not: it passes no connection (`uploaded` in `MentionsQueued`) |
| the report routes "never mutate" (`api/modules/reg_routes.py:4`) | `GET /reports` registers packs |
| a regenerated report is current | `write_derived_from` clears neither `out_of_date` nor the links of the earlier version |
| a failed call never shows the demo's data under another firm (`web/src/api.ts:37`) | panels that take no firm fall back on the fixture under any (`PanelKeepsToItsFirm` does not speak of these) |
| every scoped panel follows the firm (`web/src/App.tsx`) | the master data's effect cancels nothing (`MasterDataManagement.tsx:25`) and the chat neither drops nor asks again (`ChatPanel.tsx:23`): an answer for the firm before may come last and stay (`late`), and a change to All data leaves the chat's result standing |
| the header and the panels show the selected firm (`web/src/App.tsx`) | a late answer of an older read overrides a newer selection, and a failed select is shown as selected (`excused`) |
| onDone "fires exactly once" per onboarding (`web/src/components/AddFirmModal.tsx:40`) | `doneRef` is not reset by a second pick in one opening: its completion is not announced, and a broken stream of it passes for done (`retried`) |

## Not modelled, and the plan

* Graph view and evaluation: read-only projections. Discovery and document sources:
  downloads and parsing; their failures are choices in `Onboarding` and `Enrichment`.
  Providers and the databases: external. Ontology and FIBO: schema data, which
  parameterises the modules. Scripts, fixtures and corpus.
* Parts of modelled components: N-PORT parsing, `POST /firms/sync` and the entitlement
  links of onboarding; Person, Fund and RiskFactor entities of an ingest; the chunker's
  windows and grounding's spans, functions of a text; `POST /resolve/`; matching scores;
  the Cypher guard's text rules; `record_supersedes`, whose edge no rule reads; the 13F
  table, over-coverage, second-order chokepoints and fund comparison; the dialog's
  search, the fetches of the master data's wizard for a selected entity, and other users
  of the server. The tolerance rule's spread
  (`survivorship.py:106`) decides only a rationale's wording.

The order of the work, the most important behaviour first: registry and selector,
onboarding, ingest and steward, enrichment, reconciliation, boot and golden records,
queries, impact and reports, the console and the web application are done. Every safety
property and refinement that a run checks has a theorem; what is left to model is the
list above.
