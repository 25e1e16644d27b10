-------------------------------- MODULE Ingest --------------------------------
(***************************************************************************)
(* ingest_document (api/ingest/pipeline.py) from resolution onwards: what  *)
(* it writes to SQLite's resolution queue and to the graph.  Each request  *)
(* runs it on a worker thread of its own, so several documents, or one     *)
(* document twice, are written at once; no transaction is longer than a    *)
(* statement.  The stages before resolution touch no store; Enrichment     *)
(* models them, and the events.                                            *)
(***************************************************************************)
EXTENDS Steward

CONSTANTS
    Worker,     \* ingests in flight
    Uploader,   \* those of POST /ingest, which hold a connection to the queue;
                \* the others are an enrichment's, which hold none
    MaxIngests, \* bound on ingests begun
    Mentions,   \* each document's company mentions, in order, each name once
    CikOf,      \* what the resolver makes of a mention: a CIK, or None
    NormOf,     \* and its normalized form
    Extracted,  \* the CIK the model reads in a document with a mention, or None
    Rank,       \* the order on names by length, then alphabetically
    Stated,     \* the facts each document states, in order
    Doubtful    \* those extracted with low confidence

ASSUME IngestAssumption ==
    /\ MaxIngests \in Nat
    /\ Mentions \in [Doc -> Seq(Entity)]
    /\ CikOf \in [Entity -> Cik \cup {None}] /\ NormOf \in [Entity -> Norm]
    /\ Extracted \in [Doc -> [Entity -> Cik \cup {None}]]
    /\ Uploader \subseteq Worker
    /\ Rank \in [Entity -> Nat]
    /\ Stated \in [Doc -> Seq(Fact)] /\ Doubtful \subseteq Fact
    /\ Cik \cap Norm = {} /\ None \notin Cik \cup Norm \cup Doc

VARIABLES
    graph,      \* the documents' part of Neo4j
    queue,      \* the rows of resolution_queue
    work,       \* what each worker is in the middle of
    begun,      \* the number of ingests begun
    reported,   \* history: the facts completed ingests wrote, with their documents
    votes,      \* history: how often each fact was written
    contended,  \* history: keys written while another review held a reading of them
    split,      \* history: CIKs looked up in vain, or while another ingest named
                \* them, or copied from a text while another node had them
    uploaded    \* history: the documents uploads wrote

vars == <<graph, queue, work, begun, reported, votes, contended, split, uploaded>>
history == <<reported, votes, contended, split, uploaded>>

Idle == [pc |-> "idle"]

Elements(q) == {q[i] : i \in DOMAIN q}
\* What is left of a list is kept as the set of its positions.
First(todo) == CHOOSE i \in todo : \A j \in todo : i <= j
Unresolved(d) == {i \in DOMAIN Mentions[d] : CikOf[Mentions[d][i]] = None}

Init ==
    /\ graph = EmptyGraph
    /\ queue = <<>>
    /\ work = [w \in Worker |-> Idle]
    /\ begun = 0
    /\ reported = {}
    /\ votes = [t \in Fact |-> 0]
    /\ contended = {} /\ split = {} /\ uploaded = {}

At(w, pc) == work[w].pc = pc
Mention(w) == Mentions[work[w].doc][First(work[w].todo)]
Goto(w, m) == work' = [work EXCEPT ![w] = m]

-------------------------------------------------------------------------------
(***************************************************************************)
(* Resolution: the resolver pins a mention to a CIK, or enqueues it, if it *)
(* is given a connection, with a commit of its own; the pipeline then says *)
(* where it was found.                                                     *)
(***************************************************************************)
Begin(w, d) ==
    /\ At(w, "idle") /\ begun < MaxIngests
    /\ begun' = begun + 1
    /\ Goto(w, [pc |-> "resolve", doc |-> d, todo |-> {i \in Unresolved(d) : w \in Uploader}])
    /\ UNCHANGED <<graph, queue, history>>

Enqueue(w) ==
    /\ At(w, "resolve") /\ work[w].todo # {}
    /\ queue' = Append(queue, [mention |-> Mention(w), doc |-> None])
    /\ Goto(w, [pc |-> "attribute", doc |-> work[w].doc,
                todo |-> work[w].todo \ {First(work[w].todo)}, row |-> Len(queue) + 1])
    /\ UNCHANGED <<graph, begun, history>>

\* Mutant: the row's document is not filled in.
SetProvenanceOfNothing(w) ==
    /\ At(w, "attribute")
    /\ Goto(w, [pc |-> "resolve", doc |-> work[w].doc, todo |-> work[w].todo])
    /\ UNCHANGED <<graph, queue, begun, history>>

SetProvenance(w) ==
    /\ At(w, "attribute")
    /\ queue' = [queue EXCEPT ![work[w].row].doc = work[w].doc]
    /\ Goto(w, [pc |-> "resolve", doc |-> work[w].doc, todo |-> work[w].todo])
    /\ UNCHANGED <<graph, begun, history>>

-------------------------------------------------------------------------------
(***************************************************************************)
(* _write_graph: the document and its chunks; the canonical name of each   *)
(* group of mentions (one CIK, or one normalized name), with a look at the *)
(* graph; the nodes and their MENTIONS; the facts, through the steward.    *)
(***************************************************************************)
WriteDocument(w) ==
    /\ At(w, "resolve") /\ work[w].todo = {}
    /\ graph' = MergeDocument(graph, work[w].doc)
    /\ Goto(w, [pc |-> "name", doc |-> work[w].doc, todo |-> DOMAIN Mentions[work[w].doc],
                canon |-> [m \in {} |-> m]])
    /\ uploaded' = uploaded \cup {d \in {work[w].doc} : w \in Uploader}
    /\ UNCHANGED <<queue, begun, reported, votes, contended, split>>

GroupKey(m) == IF CikOf[m] # None THEN CikOf[m] ELSE NormOf[m]
Group(d, m) == {n \in Elements(Mentions[d]) : GroupKey(n) = GroupKey(m)}
Others(todo, d, names) == {i \in todo : Mentions[d][i] \notin names}
Shortest(names) == CHOOSE m \in names : \A n \in names : Rank[m] <= Rank[n]

\* The worker has named the CIK's group and may not have written its node yet.
Naming(w, cik) ==
    /\ work[w].pc \in {"name", "nodes", "mention"}
    /\ \E m \in DOMAIN work[w].canon : CikOf[m] = cik

\* Mutant: the graph is only asked for the normalized name.
CanonicaliseByNorm(w) ==
    LET m == Mention(w)
        group == Group(work[w].doc, m)
        found == Matches(graph, None, NormOf[m])
    IN  /\ At(w, "name") /\ work[w].todo # {}
        /\ \E name \in IF found # {} THEN found ELSE {Shortest(group)} :
              work' = [work EXCEPT
                  ![w].todo = Others(@, work[w].doc, group),
                  ![w].canon = [n \in DOMAIN @ \cup group |->
                                  IF n \in group THEN name ELSE @[n]]]
        /\ UNCHANGED <<graph, queue, begun, history>>

\* A group takes the name of a node that is there, or its shortest mention; so
\* it does too when the look at the graph fails, which is swallowed.
Canonicalise(w) ==
    LET m == Mention(w)
        group == Group(work[w].doc, m)
        found == Matches(graph, CikOf[m], NormOf[m])
    IN  /\ At(w, "name") /\ work[w].todo # {}
        /\ \E fails \in BOOLEAN :
           \E name \in IF found # {} /\ ~fails THEN found ELSE {Shortest(group)} :
              /\ work' = [work EXCEPT
                    ![w].todo = Others(@, work[w].doc, group),
                    ![w].canon = [n \in DOMAIN @ \cup group |->
                                    IF n \in group THEN name ELSE @[n]]]
              /\ split' = IF \/ fails
                             \/ \E v \in Worker \ {w} : Naming(v, CikOf[m])
                          THEN split \cup ({CikOf[m]} \ {None}) ELSE split
        /\ UNCHANGED <<graph, queue, begun, reported, votes, contended, uploaded>>

NamesChosen(w) ==
    /\ At(w, "name") /\ work[w].todo = {}
    /\ Goto(w, [pc |-> "nodes", doc |-> work[w].doc, todo |-> DOMAIN Mentions[work[w].doc],
                canon |-> work[w].canon])
    /\ UNCHANGED <<graph, queue, begun, history>>

\* _entity_node_props: what the model extracted, the resolver's CIK over it.
NodeCik(d, m) == IF CikOf[m] # None THEN CikOf[m] ELSE Extracted[d][m]

\* A CIK that only the text gives is looked up nowhere.
CopiedOnto(n, m, cik) ==
    /\ CikOf[m] = None /\ cik # None
    /\ \/ \E v \in Worker : Naming(v, cik)
       \/ \E other \in DOMAIN graph.nodes \ {n} : graph.nodes[other].cik = cik

\* The first mention of a name says what the node's properties become.
WriteEntity(w) ==
    LET m == Mention(w)
        n == work[w].canon[m]
        cik == NodeCik(work[w].doc, m)
    IN  /\ At(w, "nodes") /\ work[w].todo # {}
        /\ graph' = MergeEntity(graph, n, cik, NormOf[m])
        /\ work' = [work EXCEPT ![w].pc = "mention"]
        /\ split' = IF CopiedOnto(n, m, cik) THEN split \cup {cik} ELSE split
        /\ UNCHANGED <<queue, begun, reported, votes, contended, uploaded>>

WriteMention(w) ==
    LET canon == work[w].canon
        name == canon[Mention(w)]
    IN  /\ At(w, "mention")
        /\ graph' = MergeMention(graph, work[w].doc, name)
        /\ work' = [work EXCEPT ![w].pc = "nodes",
                                ![w].todo = Others(@, work[w].doc, {n \in DOMAIN canon : canon[n] = name})]
        /\ UNCHANGED <<queue, begun, history>>

\* _build_triples rewrites the facts' ends to their canonical names.
Renamed(canon, n) == IF n \in DOMAIN canon THEN canon[n] ELSE n

BuildTriples(w) ==
    LET d == work[w].doc
        canonical == [i \in DOMAIN Stated[d] |->
                        LET t == Stated[d][i]
                        IN  <<Renamed(work[w].canon, t[1]), t[2],
                              Renamed(work[w].canon, t[3])>>]
    IN  /\ At(w, "nodes") /\ work[w].todo = {}
        /\ Goto(w, [pc |-> "existing", doc |-> d, facts |-> canonical,
                    seen |-> [k \in {} |-> k]])
        /\ UNCHANGED <<graph, queue, begun, history>>

Unread(w) == {i \in DOMAIN work[w].facts : Key(work[w].facts[i]) \notin DOMAIN work[w].seen}

\* existing_from_store: one query for each subject and relation, in order.
ReadExisting(w) ==
    /\ At(w, "existing") /\ Unread(w) # {}
    /\ LET first == CHOOSE i \in Unread(w) : \A j \in Unread(w) : i <= j
           key == Key(work[w].facts[first])
       IN  work' = [work EXCEPT ![w].seen =
                      [k \in DOMAIN @ \cup {key} |->
                          IF k = key THEN Existing(graph, key) ELSE @[k]]]
    /\ UNCHANGED <<graph, queue, begun, history>>

\* The facts the review keeps: the sure ones, and the doubtful ones that the
\* model finds entailed by their span.
ReviewFacts(w) ==
    LET d == work[w].doc
        doubtful == {i \in DOMAIN Stated[d] : Stated[d][i] \in Doubtful}
    IN  /\ At(w, "existing") /\ Unread(w) = {}
        /\ \E entailed \in SUBSET doubtful :
              LET ok == (DOMAIN Stated[d] \ doubtful) \cup entailed
              IN  Goto(w, [pc |-> "write", doc |-> d, seen |-> work[w].seen,
                           decisions |-> Review(work[w].facts, ok, work[w].seen),
                           todo |-> DOMAIN work[w].facts])
        /\ UNCHANGED <<graph, queue, begun, history>>

\* Another worker holds a reading of the key's edges.
HeldElsewhere(w, key) ==
    \E v \in Worker \ {w} :
        work[v].pc \in {"existing", "write"} /\ key \in DOMAIN work[v].seen

\* GraphWriter.write goes through the accepted decisions, then the rejected.
Accepted(decisions) == {i \in DOMAIN decisions : decisions[i].accepted}
Turn(w) == First(IF work[w].todo \cap Accepted(work[w].decisions) # {}
                 THEN work[w].todo \cap Accepted(work[w].decisions) ELSE work[w].todo)

WriteFact(w) ==
    LET d == work[w].decisions[Turn(w)] IN
    /\ At(w, "write") /\ work[w].todo # {} /\ d.accepted
    /\ graph' = MergeFact(graph, d.fact, d.corroboration, d.conflict, work[w].doc)
    /\ work' = [work EXCEPT ![w].todo = @ \ {Turn(w)}]
    /\ votes' = [votes EXCEPT ![d.fact] = @ + 1]
    /\ contended' = IF HeldElsewhere(w, Key(d.fact))
                    THEN contended \cup {Key(d.fact)} ELSE contended
    /\ UNCHANGED <<queue, begun, reported, split, uploaded>>

WriteRejected(w) ==
    LET d == work[w].decisions[Turn(w)] IN
    /\ At(w, "write") /\ work[w].todo # {} /\ ~d.accepted
    /\ graph' = MergeRejected(graph, d.fact, work[w].doc)
    /\ work' = [work EXCEPT ![w].todo = @ \ {Turn(w)}]
    /\ UNCHANGED <<queue, begun, history>>

\* written and job.completed.
Complete(w) ==
    /\ At(w, "write") /\ work[w].todo = {}
    /\ reported' = reported \cup {<<work[w].decisions[i].fact, work[w].doc>> :
                                    i \in Accepted(work[w].decisions)}
    /\ Goto(w, Idle)
    /\ UNCHANGED <<graph, queue, begun, votes, contended, split, uploaded>>

\* A statement raises, or the process dies: what was committed stays.
Fail(w) ==
    /\ ~At(w, "idle")
    /\ Goto(w, Idle)
    /\ UNCHANGED <<graph, queue, begun, history>>

Next ==
    \E w \in Worker :
        \/ \E d \in Doc : Begin(w, d)
        \/ Enqueue(w) \/ SetProvenance(w)
        \/ WriteDocument(w) \/ Canonicalise(w) \/ NamesChosen(w)
        \/ WriteEntity(w) \/ WriteMention(w)
        \/ BuildTriples(w) \/ ReadExisting(w) \/ ReviewFacts(w)
        \/ WriteFact(w) \/ WriteRejected(w)
        \/ Complete(w) \/ Fail(w)

Spec == Init /\ [][Next]_vars

-------------------------------------------------------------------------------
\* What a completed ingest reported stands: each accepted fact is an edge whose
\* provenance lists the document, however many other ingests wrote the same
\* fact meanwhile or since ("a growing doc_ids provenance list", GraphWriter).
ReportedFactsStand ==
    \A r \in reported :
        /\ r[2] \in graph.documents
        /\ r[1] \in DOMAIN graph.edges
        /\ r[2] \in graph.edges[r[1]].doc_ids

\* An edge's corroboration counts the times its fact was accepted, across
\* documents, retries and failures half-way; it may fall behind, never ahead,
\* and only when two reviews read the edge at once.
CorroborationCounts ==
    \A t \in DOMAIN graph.edges :
        LET c == graph.edges[t].corroboration
        IN  IF Key(t) \in contended THEN c \in 1 .. votes[t] ELSE c = votes[t]

\* A company that was given a CIK has one node, whatever it is called in each
\* document (_canonical_company_names: variants "reuse the one node instead of
\* creating a duplicate"): a duplicate takes two ingests that name it at once,
\* a look at the graph that failed, or a mention the resolver does not know
\* whose text bears the CIK of another node, for that one is not looked up.
OneNodePerCik ==
    \A m, n \in DOMAIN graph.nodes :
        graph.nodes[m].cik = graph.nodes[n].cik /\ m # n
            => graph.nodes[m].cik \in split \cup {None}

\* Every unresolved mention of a document that an upload wrote is in the
\* resolution queue with that document, so the firm-scoped panel can attribute
\* it ("an uploaded document's unresolved mentions are parked in the resolution
\* queue for MDM review", ingest/routes.py): the two stores are written in that
\* order and share no transaction.  Of a document that only an enrichment wrote
\* nothing is queued.
MentionsQueued ==
    \A d \in uploaded : \A i \in Unresolved(d) :
        \E row \in DOMAIN queue : queue[row] = [mention |-> Mentions[d][i], doc |-> d]

\* A subject with two objects of a functional relation, each stated once, is
\* flagged and stays so through whatever else is written (steward.py: a second
\* object is "a conflict (kept + flagged)"), unless another review held the
\* subject meanwhile.  Stating one of the two again clears the flag.
SecondObjectFlagged ==
    \A t, u \in DOMAIN graph.edges :
        /\ t[2] \in Functional /\ Key(t) = Key(u) /\ t # u
        /\ Key(t) \notin contended
        => \E v \in DOMAIN graph.edges : Key(v) = Key(t) /\ (graph.edges[v].conflict \/ votes[v] > 1)
==============================================================================
