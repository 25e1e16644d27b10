------------------------------- MODULE Reconcile -------------------------------
(***************************************************************************)
(* The analysts' decisions on the resolution queue (resolution/routes.py,  *)
(* store.py): keep a mention as a company of its own, reject it, or merge  *)
(* it onto another, which moves the edges of its node in the graph         *)
(* (resolution/graph_reconcile.py) statement by statement and then marks   *)
(* the row in SQLite.  Ingests go on meanwhile, and write the same nodes.  *)
(***************************************************************************)
EXTENDS Ingest

CONSTANTS
    Analyst,        \* decisions in flight
    Candidates,     \* the resolver's candidates for each mention
    MENTIONS,       \* the relation from chunks to what they mention
    MaxDecisions    \* bound on decisions

\* A candidate is a title of the spine, which the resolver would resolve: it is
\* never queued, and so never merged away itself.
ASSUME ReconcileAssumption ==
    /\ Candidates \in [Entity -> SUBSET Entity]
    /\ \A m \in Entity : \A c \in Candidates[m] : CikOf[c] # None
    /\ MENTIONS \notin Rel
    /\ MaxDecisions \in Nat

VARIABLES
    status,     \* the queue rows decided so far, with what was decided
    request,    \* what each analyst's request is in the middle of
    decisions,  \* the number of decisions begun
    onto,       \* history: the merges begun, as <<duplicate, canonical>>
    failed,     \* history: duplicates whose merge failed or was cut off,
    late,       \* an ingest wrote after a merge had looked at them,
    rewritten   \* or wrote after a merge had begun; until one deletes them

desk == <<status, request, decisions>>
past == <<onto, failed, late, rewritten>>
allvars == <<vars, desk, past>>

ReconcileInit ==
    /\ Init
    /\ status = [r \in {} |-> r]
    /\ request = [a \in Analyst |-> Idle]
    /\ decisions = 0
    /\ onto = {} /\ failed = {} /\ late = {} /\ rewritten = {}

-------------------------------------------------------------------------------
Record(row, verdict) ==
    status' = [r \in DOMAIN status \cup {row} |-> IF r = row THEN verdict ELSE status[r]]

Decide ==
    /\ decisions < MaxDecisions
    /\ decisions' = decisions + 1

\* POST /resolve/promote, /resolve/reject, and /resolve/merge without a
\* canonical key: the row alone, whatever was decided on it before.
Mark(row) ==
    /\ Decide /\ row \in DOMAIN queue
    /\ \E verdict \in {"promoted", "rejected", "pinned"} : Record(row, verdict)
    /\ UNCHANGED <<vars, request, past>>

\* POST /resolve/merge onto canon, with or without its CIK.
BeginMerge(a, row, canon) ==
    LET dup == queue[row].mention IN
    /\ request[a] = Idle /\ Decide
    /\ canon # dup
    /\ \E cik \in {None, CikOf[canon]} :
          request' = [request EXCEPT ![a] = [pc |-> "ensure", row |-> row, dup |-> dup,
                                             canon |-> canon, cik |-> cik]]
    /\ onto' = onto \cup {<<dup, canon>>}
    /\ UNCHANGED <<vars, status, failed, late, rewritten>>

\* MERGE the canonical node.
Ensure(a) ==
    /\ request[a].pc = "ensure"
    /\ graph' = MergeNode(graph, request[a].canon)
    /\ request' = [request EXCEPT
                      ![a].pc = IF request[a].cik = None THEN "discover" ELSE "stamp"]
    /\ UNCHANGED <<queue, work, begun, history, status, decisions, past>>

Stamp(a) ==
    /\ request[a].pc = "stamp"
    /\ graph' = StampCik(graph, request[a].canon, request[a].cik)
    /\ request' = [request EXCEPT ![a].pc = "discover"]
    /\ UNCHANGED <<queue, work, begun, history, status, decisions, past>>

Moving(a, todo) ==
    [pc |-> "out", row |-> request[a].row, dup |-> request[a].dup,
     canon |-> request[a].canon, todo |-> todo]

\* Mutant: the types of the outgoing edges alone.
DiscoverOutgoing(a) ==
    /\ request[a].pc = "discover"
    /\ request' = [request EXCEPT ![a] =
                      Moving(a, {t[2] : t \in {u \in DOMAIN graph.edges : request[a].dup = u[1]}})]
    /\ UNCHANGED <<vars, status, decisions, past>>

\* The types of the edges at the duplicate.
Discover(a) ==
    LET dup == request[a].dup
        types == {t[2] : t \in {u \in DOMAIN graph.edges : dup \in {u[1], u[3]}}}
        mentioned == {MENTIONS : m \in {n \in graph.mentions : n[2] = dup}}
    IN  /\ request[a].pc = "discover"
        /\ request' = [request EXCEPT ![a] = Moving(a, types \cup mentioned)]
        /\ UNCHANGED <<vars, status, decisions, past>>

\* Type by type, the outgoing edges in one statement...
MoveOut(a, rel) ==
    LET r == request[a] IN
    /\ r.pc = "out" /\ rel \in r.todo
    /\ graph' = IF rel = MENTIONS THEN graph ELSE RepointOut(graph, rel, r.dup, r.canon)
    /\ request' = [request EXCEPT ![a] = [pc |-> "in", row |-> r.row, dup |-> r.dup,
                                          canon |-> r.canon, todo |-> r.todo, rel |-> rel]]
    /\ UNCHANGED <<queue, work, begun, history, status, decisions, past>>

\* ... and the incoming in another.
MoveIn(a) ==
    LET r == request[a] IN
    /\ r.pc = "in"
    /\ graph' = IF r.rel = MENTIONS THEN RepointMentions(graph, r.dup, r.canon)
                ELSE RepointIn(graph, r.rel, r.dup, r.canon)
    /\ request' = [request EXCEPT ![a] = Moving(a, r.todo \ {r.rel})]
    /\ UNCHANGED <<queue, work, begun, history, status, decisions, past>>

\* Mutant: a plain DELETE, refused and passed over while the node has an edge.
DeleteBare(a) ==
    LET r == request[a]
        bare == /\ \A t \in DOMAIN graph.edges : r.dup \notin {t[1], t[3]}
                /\ \A m \in graph.mentions : m[2] # r.dup
    IN  /\ r.pc = "out" /\ r.todo = {}
        /\ graph' = IF bare THEN DetachDelete(graph, r.dup) ELSE graph
        /\ request' = [request EXCEPT ![a] = [pc |-> "record", row |-> r.row, dup |-> r.dup]]
        /\ failed' = failed \ {r.dup} /\ late' = late \ {r.dup} /\ rewritten' = rewritten \ {r.dup}
        /\ UNCHANGED <<queue, work, begun, history, status, decisions, onto>>

\* The duplicate goes, and with it what is left at it.
Delete(a) ==
    LET r == request[a] IN
    /\ r.pc = "out" /\ r.todo = {}
    /\ graph' = DetachDelete(graph, r.dup)
    /\ request' = [request EXCEPT ![a] = [pc |-> "record", row |-> r.row, dup |-> r.dup]]
    /\ failed' = failed \ {r.dup} /\ late' = late \ {r.dup} /\ rewritten' = rewritten \ {r.dup}
    /\ UNCHANGED <<queue, work, begun, history, status, decisions, onto>>

\* A statement of the repointing raises: the row is marked all the same.
RepointFails(a) ==
    LET r == request[a] IN
    /\ r.pc \in {"ensure", "stamp", "discover", "out", "in"}
    /\ request' = [request EXCEPT ![a] = [pc |-> "record", row |-> r.row, dup |-> r.dup]]
    /\ failed' = failed \cup {r.dup}
    /\ UNCHANGED <<vars, status, decisions, onto, late, rewritten>>

RecordMerge(a) ==
    /\ request[a].pc = "record"
    /\ Record(request[a].row, "merged")
    /\ request' = [request EXCEPT ![a] = Idle]
    /\ UNCHANGED <<vars, decisions, past>>

\* The process dies, or SQLite refuses the update.
CutOff(a) ==
    /\ request[a] # Idle
    /\ request' = [request EXCEPT ![a] = Idle]
    /\ failed' = IF request[a].pc = "record" THEN failed ELSE failed \cup {request[a].dup}
    /\ UNCHANGED <<vars, status, decisions, onto, late, rewritten>>

-------------------------------------------------------------------------------
\* Names at which a step adds a node or an edge.
Written ==
    (DOMAIN graph'.nodes \ DOMAIN graph.nodes)
    \cup (UNION {{t[1], t[3]} : t \in DOMAIN graph'.edges \ DOMAIN graph.edges})
    \cup {m[2] : m \in graph'.mentions \ graph.mentions}

IngestStep ==
    /\ Next
    /\ late' = late \cup {n \in Written :
                             \E a \in Analyst : request[a].pc \in {"out", "in"} /\ request[a].dup = n}
    /\ rewritten' = rewritten \cup {n \in Written : \E p \in onto : p[1] = n}
    /\ UNCHANGED <<desk, onto, failed>>

MergeStep(a) ==
    \/ \E row \in DOMAIN queue : \E canon \in Candidates[queue[row].mention] :
          BeginMerge(a, row, canon)
    \/ Ensure(a) \/ Stamp(a) \/ Discover(a)
    \/ \E rel \in Rel \cup {MENTIONS} : MoveOut(a, rel)
    \/ MoveIn(a) \/ Delete(a) \/ RepointFails(a) \/ RecordMerge(a) \/ CutOff(a)

ReconcileNext ==
    \/ IngestStep
    \/ \E row \in DOMAIN queue : Mark(row)
    \/ \E a \in Analyst : MergeStep(a)

ReconcileSpec == ReconcileInit /\ [][ReconcileNext]_allvars

-------------------------------------------------------------------------------
\* The names a fact about n may stand under.
Under(n) == {n} \cup {p[2] : p \in {q \in onto : q[1] = n}}

\* No step loses a fact or a mention: through merges, retries, merges that
\* stop half-way and two analysts at one row, each stands under the duplicate or
\* under a node it was merged onto.  Three are excepted: a fact between the two,
\* a fact of a company with itself, and what an ingest writes at the duplicate
\* while a merge has already looked at its edges.
NothingLostInMerge ==
    [][/\ \A t \in DOMAIN graph.edges :
             /\ Under(t[1]) \cap Under(t[3]) = {}
             /\ {t[1], t[3]} \cap late = {}
             => \E u \in DOMAIN graph'.edges :
                   u[1] \in Under(t[1]) /\ u[2] = t[2] /\ u[3] \in Under(t[3])
       /\ \A m \in graph.mentions :
             m[2] \notin late => \E n \in Under(m[2]) : <<m[1], n>> \in graph'.mentions]_allvars

\* A row says "merged" and the graph agrees: the duplicate is gone ("matching
\* what the SQLite queue records", graph_reconcile.py), unless the repointing
\* failed or an ingest wrote the duplicate after it had begun; and then another
\* merge that goes through makes it so.
MergedMeansGone ==
    \A r \in DOMAIN status :
        status[r] = "merged" =>
            queue[r].mention \notin DOMAIN graph.nodes \/ queue[r].mention \in failed \cup rewritten

==============================================================================
