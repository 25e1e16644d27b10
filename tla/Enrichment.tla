------------------------------ MODULE Enrichment ------------------------------
(***************************************************************************)
(* POST /firms/{id}/enrich: enrich_firm (onboarding/enrich.py) on a worker *)
(* thread pulls filings about a firm's holdings and funds, runs each       *)
(* through ingest_document (ingest/pipeline.py), and puts events on a      *)
(* queue that the request's coroutine drains to the client until it meets  *)
(* the sentinel (onboarding/routes.py, _enrich_sse).                       *)
(*                                                                         *)
(* What a filing's ingest does to the graph is Ingest's business; here it  *)
(* leaves a document behind, which the run then links to its subject.      *)
(***************************************************************************)
EXTENDS Integers, Sequences, FiniteSetsExt

CONSTANTS
    Held,           \* the names in the rows of _TOP_HOLDINGS, heaviest first
    Blank,          \* a row without a usable name
    FundKeys,       \* the keys in the rows of _FIRM_FUNDS, in their order
    NoKey,          \* a fund without ticker and CIK
    Tops,           \* values of the request's parameter `top`
    MaxHoldings,    \* MAX_HOLDINGS
    MaxFilings,     \* MAX_FILINGS
    MaxChunks       \* bound on a filing's chunks (FILING_MAX_CHARS in the code)

\* A row is a node: Company and Fund nodes are merged by name.
ASSUME EnrichmentAssumption ==
    /\ Len(Held) \in Nat /\ DOMAIN Held = 1 .. Len(Held)
    /\ Len(FundKeys) \in Nat /\ DOMAIN FundKeys = 1 .. Len(FundKeys)
    /\ Tops \subseteq Int
    /\ MaxHoldings \in Nat /\ MaxFilings \in Nat /\ MaxChunks \in Nat
    /\ MaxHoldings <= MaxFilings

VARIABLES
    pc,         \* where the worker is
    planned,    \* the holdings and funds the run took on
    todo,       \* the rows of the holdings and funds ahead, with the current one
    chunks,     \* of the current filing: how many, tried, failed; endpoint down
    tally,      \* the run's four counters
    written,    \* subjects whose filing is a document in the graph
    linked,     \* subjects their filing's chunks MENTION
    queue,      \* events put and not yet drained
    received,   \* events the client got
    client,     \* "reading", "ended" by the sentinel, or "gone"
    degraded    \* history: how many filings had no chunk extracted

filings == <<written, linked>>
stream == <<queue, received, client>>
enrichmentVars == <<pc, planned, todo, chunks, tally, filings, stream, degraded>>

NoFiling == [total |-> 0, tried |-> 0, failed |-> 0, down |-> FALSE]

EnrichmentInit ==
    /\ pc = "idle"
    /\ planned = [holdings |-> 0, funds |-> 0]
    /\ todo = [holdings |-> {}, funds |-> {}] /\ chunks = NoFiling
    /\ tally = [enriched |-> 0, failed |-> 0, funds_enriched |-> 0, funds_failed |-> 0]
    /\ written = {} /\ linked = {}
    /\ queue = <<>> /\ received = <<>> /\ client = "reading"
    /\ degraded = 0

Put(events) == queue' = queue \o events /\ UNCHANGED <<received, client>>

-------------------------------------------------------------------------------
\* _clamp_top
Clamp(top) == Max({0, Min({top, MaxHoldings})})

Start(top) ==
    /\ pc = "idle"
    /\ todo' = [todo EXCEPT !.holdings =
                    {i \in DOMAIN Held : i <= Clamp(top) /\ Held[i] # Blank}]
    /\ planned' = [planned EXCEPT !.holdings = Cardinality(todo'.holdings)]
    /\ pc' = "funds"
    /\ UNCHANGED <<chunks, tally, filings, stream, degraded>>

\* The funds with a key that no earlier row has, and the first few of them.
Usable ==
    {i \in DOMAIN FundKeys : /\ FundKeys[i] # NoKey
                            /\ \A j \in 1 .. i - 1 : FundKeys[j] # FundKeys[i]}
Within(budget) == {i \in Usable : Cardinality({j \in Usable : j < i}) < budget}

Plan(budget) ==
    /\ todo' = [todo EXCEPT !.funds = Within(budget)]
    /\ planned' = [planned EXCEPT !.funds = Cardinality(todo'.funds)]

\* Mutant: the holdings do not count against the budget.
ReadFundsUnbudgeted ==
    /\ pc = "funds"
    /\ Plan(MaxFilings)
    /\ Put(<<"started">>)
    /\ pc' = "fetch"
    /\ UNCHANGED <<chunks, tally, filings, degraded>>

\* The funds, within what the holdings leave of the budget; then job.started.
ReadFunds ==
    /\ pc = "funds"
    /\ Plan(Max({0, MaxFilings - planned.holdings}))
    /\ Put(<<"started">>)
    /\ pc' = "fetch"
    /\ UNCHANGED <<chunks, tally, filings, degraded>>

\* The holdings go first, each stage in the order of its rows.
Stage == IF todo.holdings # {} THEN "holdings" ELSE "funds"
Subject == <<Stage, Min(todo[Stage])>>
AllDone == todo.holdings = {} /\ todo.funds = {}
NextFiling == todo' = [todo EXCEPT ![Stage] = @ \ {Subject[2]}]

Counter(good) ==
    IF Stage = "holdings" THEN IF good THEN "enriched" ELSE "failed"
                          ELSE IF good THEN "funds_enriched" ELSE "funds_failed"
Count(good) == tally' = [tally EXCEPT ![Counter(good)] = @ + 1]

\* Neither ticker nor CIK, or EDGAR fails: an error, and on to the next.
FetchFails ==
    /\ pc = "fetch" /\ ~AllDone
    /\ Count(FALSE) /\ Put(<<"error">>)
    /\ NextFiling
    /\ UNCHANGED <<pc, planned, chunks, filings, degraded>>

\* The filing's excerpt goes into ingest_document, whose own job.started is
\* not forwarded, and is cut into n chunks.
Fetch(n) ==
    /\ pc = "fetch" /\ ~AllDone
    /\ chunks' = [NoFiling EXCEPT !.total = n]
    /\ Put(<<"classified", "parsed", "chunked">>)
    /\ pc' = "extract"
    /\ UNCHANGED <<planned, todo, tally, filings, degraded>>

\* extract_document: a chunk's failure is isolated; after a timeout or a lost
\* connection the rest are not tried, and failed.
ExtractChunk(outcome) ==
    /\ pc = "extract" /\ chunks.tried < chunks.total /\ ~chunks.down
    /\ chunks' = [chunks EXCEPT !.tried = @ + 1,
                                !.failed = @ + IF outcome = "ok" THEN 0 ELSE 1,
                                !.down = outcome = "unreachable"]
    /\ UNCHANGED <<pc, planned, todo, tally, filings, stream, degraded>>

ExtractionOver == pc = "extract" /\ (chunks.tried = chunks.total \/ chunks.down)
NothingExtracted == chunks.total > 0 /\ chunks.failed = chunks.tried

\* It is over and something, or nothing of an empty text, was extracted.
Extracted ==
    /\ ExtractionOver /\ ~NothingExtracted
    /\ Put(<<"extracted">>)
    /\ pc' = "write"
    /\ UNCHANGED <<planned, todo, chunks, tally, filings, degraded>>

\* Every chunk failed: ingest_document ends early.  Its error is not forwarded
\* and it raises nothing, so the filing counts as enriched.
ExtractionFails ==
    /\ ExtractionOver /\ NothingExtracted
    /\ Put(<<"extracted">>)
    /\ Count(TRUE)
    /\ degraded' = degraded + 1
    /\ pc' = "link" /\ chunks' = NoFiling
    /\ UNCHANGED <<planned, todo, filings>>

\* Mutant: the ingest's own job.completed is forwarded.
WriteForwardsEnd ==
    /\ pc = "write"
    /\ written' = written \cup {Subject}
    /\ Put(<<"resolved", "written", "completed">>)
    /\ Count(TRUE)
    /\ pc' = "link" /\ chunks' = NoFiling
    /\ UNCHANGED <<planned, todo, linked, degraded>>

\* Resolution and the graph write; the filing is counted, then linked.
Write ==
    /\ pc = "write"
    /\ written' = written \cup {Subject}
    /\ Put(<<"resolved", "written">>)
    /\ Count(TRUE)
    /\ pc' = "link" /\ chunks' = NoFiling
    /\ UNCHANGED <<planned, todo, linked, degraded>>

\* ingest_document raises, before or after its document is in the graph: its
\* own error is dropped and one is put in its place.
WriteFails ==
    /\ pc = "write"
    /\ \/ Put(<<"error">>) /\ UNCHANGED written
       \/ Put(<<"resolved", "error">>) /\ written' \in {written, written \cup {Subject}}
    /\ Count(FALSE)
    /\ NextFiling
    /\ pc' = "fetch" /\ chunks' = NoFiling
    /\ UNCHANGED <<planned, linked, degraded>>

\* MATCH the filing's chunks and the subject: nothing without a document.  A row
\* stands for its document's id; two rows' filings are taken to be two documents.
LinkSubject ==
    /\ pc = "link"
    /\ linked' = linked \cup ({Subject} \cap written)
    /\ NextFiling
    /\ pc' = "fetch"
    /\ UNCHANGED <<planned, chunks, tally, written, stream, degraded>>

\* job.completed, and the sentinel from the worker's finally.
Finish ==
    /\ pc = "fetch" /\ AllDone
    /\ Put(<<"completed", "sentinel">>)
    /\ pc' = "done"
    /\ UNCHANGED <<planned, todo, chunks, tally, filings, degraded>>

\* Mutant: the sentinel is not in a finally.
BreaksWithoutSentinel ==
    /\ pc \in {"funds", "link"}
    /\ Put(<<"fatal">>)
    /\ pc' = "broken"
    /\ UNCHANGED <<planned, todo, chunks, tally, filings, degraded>>

\* The queries for holdings and funds, and link_subject, are outside the
\* best-effort handlers: what they raise ends the run.  The worker puts an
\* error of its own, and the sentinel.
Breaks ==
    /\ pc \in {"funds", "link"}
    /\ Put(<<"fatal", "sentinel">>)
    /\ pc' = "broken"
    /\ UNCHANGED <<planned, todo, chunks, tally, filings, degraded>>

Step ==
    \/ ReadFunds \/ FetchFails
    \/ \E n \in 0 .. MaxChunks : Fetch(n)
    \/ \E outcome \in {"ok", "bad", "unreachable"} : ExtractChunk(outcome)
    \/ Extracted \/ ExtractionFails \/ Write \/ WriteFails \/ LinkSubject
    \/ Finish \/ Breaks

-------------------------------------------------------------------------------
\* The coroutine: await queue.get(), yield to the client, stop at the sentinel.
Drain ==
    /\ client = "reading" /\ queue # <<>>
    /\ queue' = Tail(queue)
    /\ IF Head(queue) = "sentinel"
       THEN client' = "ended" /\ UNCHANGED received
       ELSE received' = Append(received, Head(queue)) /\ UNCHANGED client
    /\ UNCHANGED <<pc, planned, todo, chunks, tally, filings, degraded>>

\* The client hangs up: the coroutine is cancelled, the worker goes on.
HangUp ==
    /\ client = "reading" /\ pc # "idle"
    /\ client' = "gone"
    /\ UNCHANGED <<pc, planned, todo, chunks, tally, filings, queue, received, degraded>>

EnrichmentNext == (\E top \in Tops : Start(top)) \/ Step \/ Drain \/ HangUp

(***************************************************************************)
(* A started worker thread runs on: its statements, its LLM calls          *)
(* (llm_timeout_seconds) and its downloads return or raise.  The event     *)
(* loop schedules a coroutine whose queue.get() can return.  Nothing makes *)
(* a client ask, or hang up.                                               *)
(***************************************************************************)
Fairness == WF_enrichmentVars(Step) /\ WF_enrichmentVars(Drain)

EnrichmentSpec == EnrichmentInit /\ [][EnrichmentNext]_enrichmentVars /\ Fairness

-------------------------------------------------------------------------------
Sent == received \o queue
Occurrences(e) == Cardinality({i \in DOMAIN Sent : Sent[i] = e})

\* "The run is HARD-CAPPED at MAX_FILINGS" and accounts for what it took on:
\* never more filings than the cap, whatever `top` asks for and however many
\* funds there are, and no registrant's prospectus twice; a client that reads
\* to the end sees as many errors as the counters own up to; and when the run
\* completes, the counters add up to what was announced, and each filing
\* counted as enriched that left a document is linked to its subject, without
\* which the firm's chat and its documents view would not see it
\* (link_subject's comment).
SpendAccounted ==
    /\ planned.holdings <= MaxHoldings
    /\ planned.holdings + planned.funds <= MaxFilings
    /\ \A i, j \in todo.funds : FundKeys[i] = FundKeys[j] => i = j
    /\ Occurrences("error") = tally.failed + tally.funds_failed
    /\ pc = "done" =>
        /\ tally.enriched + tally.failed = planned.holdings
        /\ tally.funds_enriched + tally.funds_failed = planned.funds
        /\ Cardinality(linked) = tally.enriched + tally.funds_enriched - degraded

\* The events, without the sentinel that the coroutine keeps to itself.
Events ==
    IF pc \in {"done", "broken"} /\ client # "ended" THEN SubSeq(Sent, 1, Len(Sent) - 1) ELSE Sent

Stream == INSTANCE EventStream WITH sent <- Events, got <- received, reader <- client

\* The worker's queue and its sentinel keep the stream's promise to the client
\* (EventStream): job.started first, job.completed or the worker's fatal error
\* last and once, each event read once and in order, and nothing lost before
\* the end of the response.
DeliversStream == Stream!Spec

\* A run that was asked for ends its stream, unless the client hangs up.
StreamCloses == pc # "idle" ~> client # "reading"
==============================================================================
