------------------------------ MODULE Onboarding ------------------------------
(***************************************************************************)
(* Firms coming and going: onboarding jobs (onboarding/pipeline.py, each   *)
(* on a worker thread of onboarding/routes.py that feeds an event stream), *)
(* the select and delete routes (firms/routes.py), and the process itself, *)
(* which may die and resynchronise the registry when it starts again       *)
(* (main.py).  They share the SQLite registry and the Neo4j graph, and no  *)
(* transaction spans both.                                                 *)
(*                                                                         *)
(* A registry call is one step here; FirmRegistry takes it apart.  All     *)
(* rows carry the same second, so MostRecent chooses freely.               *)
(***************************************************************************)
EXTENDS FirmTable, FiniteSets, Sequences

CONSTANTS
    Issuer,     \* issuers of holdings; a firm may be one
    Series,     \* fund series a firm can be onboarded with
    SeriesOf,   \* the series discovery offers for each firm, all of them picked
    FundOf,     \* the fund name in each series' N-PORT filing
    IssuersOf,  \* the issuers of a fund's holdings
    DemoFirm,   \* the firm of the restored snapshot
    DemoFunds,
    MaxJobs,    \* bound on onboarding runs; each has an id of its own
    Client,     \* DELETE requests in flight
    MaxEnrich,  \* bound on the events the enriching stage forwards
    MaxCrashes  \* bound on process deaths

Company == Name \cup Issuer
Job == 1 .. MaxJobs

ASSUME OnboardingAssumption ==
    /\ SeriesOf \in [Name -> Seq(Series)]
    /\ FundOf \in [Series -> Fund]
    /\ IssuersOf \in [Fund -> SUBSET Company]
    /\ DemoFirm \in Name /\ DemoFunds \subseteq Fund
    /\ MaxJobs \in Nat /\ MaxEnrich \in Nat /\ MaxCrashes \in Nat

INSTANCE FirmGraph

VARIABLES
    firms,      \* the registry table
    graph,      \* the firms' part of the graph
    job,        \* what each worker is in the middle of
    events,     \* what each worker has put on its stream
    request,    \* what each delete request is in the middle of
    server,     \* "down", the startup's "sync" and "demo", or "up"
    crashes,
    raced,      \* history: firms a delete met mid-onboarding or took a fund from
    gone,       \* history: firms whose last delete succeeded undisturbed
    stranded    \* history: firms whose worker was killed or could not say it failed

vars == <<firms, graph, job, events, request, server, crashes, raced, gone, stranded>>

store == <<firms, graph>>
history == <<raced, gone, stranded>>

Ended == {"new", "closed", "lost"}
Running(j) == job[j].pc \notin Ended
Posted == Cardinality({j \in Job : job[j].pc # "new"})
OnIt(n) == {j \in Job : Running(j) /\ job[j].firm = n}

Elements(q) == {q[i] : i \in DOMAIN q}

\* The upsert_firm calls of the pipeline and of the startup.
Kind(status, funds, activate) == [status |-> status, funds |-> funds, activate |-> activate]
Upsert(n, k) ==
    /\ HasName(firms, n) \/ ~InsertConflicts(firms, n)
    /\ firms' = AfterUpsert(firms, HasName(firms, n), n, k, 0)

Goto(j, pc) == job' = [job EXCEPT ![j].pc = pc]
Emit(j, s) == events' = [events EXCEPT ![j] = @ \o s]

Init ==
    /\ firms = EmptyTable
    /\ graph = [companies |-> {DemoFirm}, funds |-> DemoFunds,
                managed |-> DemoFunds \X {DemoFirm}, holds |-> {}]
    /\ job = [j \in Job |-> [pc |-> "new"]]
    /\ events = [j \in Job |-> <<>>]
    /\ request = [c \in Client |-> [pc |-> "idle"]]
    /\ server = "down" /\ crashes = 0
    /\ raced = {} /\ gone = {} /\ stranded = {}

-------------------------------------------------------------------------------
(***************************************************************************)
(* POST /firms/onboard starts a worker, which takes one step for each      *)
(* statement on a shared store and the events before it.                   *)
(***************************************************************************)
Post(j, n) ==
    /\ server = "up" /\ j = Posted + 1
    /\ job' = [job EXCEPT ![j] = [pc |-> "begin", firm |-> n, todo |-> SeriesOf[n],
                                  written |-> {}]]
    /\ gone' = gone \ {n}
    /\ raced' = IF \E c \in Client : request[c] = [pc |-> "graph", firm |-> n]
                THEN raced \cup {n} ELSE raced
    /\ UNCHANGED <<firms, graph, events, request, server, crashes, stranded>>

\* Connecting precedes job.started and the try block.
BeginFails(j) ==
    /\ job[j].pc = "begin"
    /\ Goto(j, "closed") /\ Emit(j, <<"error">>)
    /\ UNCHANGED <<store, history>>

Begin(j) ==
    /\ job[j].pc = "begin"
    /\ Goto(j, "merge") /\ Emit(j, <<"started">>)
    /\ UNCHANGED <<store, history>>

\* The try block's first statement.
MergeFirm(j) ==
    /\ job[j].pc = "merge"
    /\ graph' = MergeCompany(graph, job[j].firm)
    /\ Goto(j, "register")
    /\ UNCHANGED <<firms, events, history>>

Register(j) ==
    /\ job[j].pc = "register"
    /\ Upsert(job[j].firm, Kind("onboarding", {}, FALSE))
    /\ Goto(j, "series")
    /\ UNCHANGED <<graph, events, history>>

\* The next series has no N-PORT filing: a soft skip.
SkipSeries(j) ==
    /\ job[j].pc = "series" /\ job[j].todo # <<>>
    /\ job' = [job EXCEPT ![j].todo = Tail(@)]
    /\ Emit(j, <<"parsed">>)
    /\ UNCHANGED <<store, history>>

WriteFund(j) ==
    LET f == FundOf[Head(job[j].todo)] IN
    /\ job[j].pc = "series" /\ job[j].todo # <<>>
    /\ Emit(j, <<"parsed">>)
    /\ graph' = MergeFund(graph, f)
    /\ job' = [job EXCEPT ![j] = [pc |-> "holdings", firm |-> @.firm, todo |-> Tail(@.todo),
                                  written |-> @.written, fund |-> f, left |-> IssuersOf[f]]]
    /\ UNCHANGED <<firms, history>>

WriteHolding(j, i) ==
    /\ job[j].pc = "holdings" /\ i \in job[j].left
    /\ graph' = MergeHolding(graph, job[j].fund, i)
    /\ job' = [job EXCEPT ![j].left = @ \ {i}]
    /\ UNCHANGED <<firms, events, history>>

LinkToFirm(j) ==
    /\ job[j].pc = "holdings" /\ job[j].left = {}
    /\ graph' = LinkFund(graph, job[j].fund, job[j].firm)
    /\ job' = [job EXCEPT ![j] = [pc |-> "series", firm |-> @.firm, todo |-> @.todo,
                                  written |-> @.written \cup {@.fund}]]
    /\ Emit(j, <<"written">>)
    /\ UNCHANGED <<firms, history>>

\* Resolution sets properties of the issuers' nodes, no node and no edge.
Resolve(j) ==
    /\ job[j].pc = "series" /\ job[j].todo = <<>>
    /\ Goto(j, "ready") /\ Emit(j, <<"resolved">>)
    /\ UNCHANGED <<store, history>>

\* Mutant: the row lists the series' funds whether or not they were written.
ReadyWithOfferedFunds(j) ==
    /\ job[j].pc = "ready"
    /\ Upsert(job[j].firm,
              Kind("ready", {FundOf[s] : s \in Elements(SeriesOf[job[j].firm])}, TRUE))
    /\ Goto(j, "enrich")
    /\ UNCHANGED <<graph, events, history>>

\* The structural graph is there: the firm is ready and becomes the active one.
Ready(j) ==
    /\ job[j].pc = "ready"
    /\ Upsert(job[j].firm, Kind("ready", job[j].written, TRUE))
    /\ Goto(j, "enrich")
    /\ UNCHANGED <<graph, events, history>>

\* The enriching stage: enrich_firm's job.started is dropped, its middle
\* events are forwarded, and its errors and whatever it raises go out among
\* them as errors marked fatal = False.
Forward(j) ==
    /\ job[j].pc = "enrich"
    /\ Len(SelectSeq(events[j], LAMBDA e : e = "enriching")) < MaxEnrich
    /\ Emit(j, <<"enriching">>)
    /\ UNCHANGED <<store, job, history>>

\* Mutant: enrich_firm's own job.completed is forwarded as well.
CompleteTwice(j) ==
    /\ job[j].pc = "enrich"
    /\ Goto(j, "closed") /\ Emit(j, <<"completed", "completed">>)
    /\ UNCHANGED <<store, history>>

\* enrich_firm's job.completed is folded into this one.
Complete(j) ==
    /\ job[j].pc = "enrich"
    /\ Goto(j, "closed") /\ Emit(j, <<"completed">>)
    /\ UNCHANGED <<store, history>>

InTry == {"merge", "register", "series", "holdings", "ready"}

\* Mutant: the row is not marked.
FailWithoutMarking(j) ==
    /\ job[j].pc \in InTry
    /\ Goto(j, "closed") /\ Emit(j, <<"error", "error">>)
    /\ UNCHANGED <<store, history>>

\* Any statement, fetch or parse of the structural part may raise.  The
\* pipeline marks the row failed, if it can, puts an error on the stream and
\* raises again; the worker adds an error of its own and the sentinel.
Fail(j) ==
    /\ job[j].pc \in InTry
    /\ \/ Upsert(job[j].firm, Kind("failed", {}, FALSE)) /\ UNCHANGED stranded
       \/ UNCHANGED firms /\ stranded' = stranded \cup {job[j].firm}
    /\ Goto(j, "closed") /\ Emit(j, <<"error", "error">>)
    /\ UNCHANGED <<graph, raced, gone>>

WorkerStep(j) ==
    /\ \/ BeginFails(j) \/ Begin(j) \/ MergeFirm(j) \/ Register(j)
       \/ SkipSeries(j) \/ WriteFund(j) \/ LinkToFirm(j)
       \/ \E i \in Company : WriteHolding(j, i)
       \/ Resolve(j) \/ Ready(j) \/ Forward(j) \/ Complete(j) \/ Fail(j)
    /\ UNCHANGED <<request, server, crashes>>

-------------------------------------------------------------------------------
SelectFirm(f) ==
    /\ server = "up" /\ f \in DOMAIN firms
    /\ firms' = Activate(firms, f)
    /\ UNCHANGED <<graph, job, events, request, server, crashes, history>>

(***************************************************************************)
(* DELETE /firms/{id}: the registry row, then the graph's subtree.  When   *)
(* the second fails the request is a 500 and the row stays deleted.        *)
(***************************************************************************)
DeleteRow(c, f) ==
    /\ server = "up" /\ request[c].pc = "idle" /\ f \in DOMAIN firms
    /\ firms' \in AfterDelete(firms, f, firms[f].active)
    /\ request' = [request EXCEPT ![c] = [pc |-> "graph", firm |-> firms[f].name]]
    /\ raced' = IF OnIt(firms[f].name) # {} THEN raced \cup {firms[f].name} ELSE raced
    /\ UNCHANGED <<graph, job, events, server, crashes, gone, stranded>>

\* Firms that lose a fund, linked or being written, to the delete of n.
FundsOf(m) ==
    ManagedBy(graph, m) \cup
    UNION {job[j].written \cup IF job[j].pc = "holdings" THEN {job[j].fund} ELSE {} :
             j \in OnIt(m)}
Deprived(n) == {m \in Name \ {n} : FundsOf(m) \cap ManagedBy(graph, n) # {}}

DeleteGraph(c) ==
    LET n == request[c].firm IN
    /\ request[c].pc = "graph"
    /\ graph' = DeleteFirm(graph, n)
    /\ request' = [request EXCEPT ![c] = [pc |-> "idle"]]
    /\ raced' = raced \cup Deprived(n)
    /\ gone' = IF n \in raced THEN gone ELSE gone \cup {n}
    /\ UNCHANGED <<firms, job, events, server, crashes, stranded>>

\* Mutant: the failure is swallowed and the request answers {"deleted": true}.
DeleteGraphFailsSilently(c) ==
    /\ request[c].pc = "graph"
    /\ request' = [request EXCEPT ![c] = [pc |-> "idle"]]
    /\ gone' = IF request[c].firm \in raced THEN gone ELSE gone \cup {request[c].firm}
    /\ UNCHANGED <<store, job, events, server, crashes, raced, stranded>>

DeleteGraphFails(c) ==
    /\ request[c].pc = "graph"
    /\ request' = [request EXCEPT ![c] = [pc |-> "idle"]]
    /\ UNCHANGED <<store, job, events, server, crashes, history>>

-------------------------------------------------------------------------------
\* The process dies: worker threads are daemons, requests are cut off and the
\* streams' queues are lost.
Crash ==
    /\ server # "down" /\ crashes < MaxCrashes
    /\ server' = "down" /\ crashes' = crashes + 1
    /\ job' = [j \in Job |-> [pc |-> IF job[j].pc = "new" THEN "new" ELSE "lost"]]
    /\ events' = [j \in Job |-> <<>>]
    /\ request' = [c \in Client |-> [pc |-> "idle"]]
    /\ stranded' = stranded \cup {n \in Name : OnIt(n) # {}}
    /\ UNCHANGED <<store, raced, gone>>

Boot ==
    /\ server = "down"
    /\ server' = "sync"
    /\ UNCHANGED <<store, job, events, request, crashes, history>>

Absent(n) == slugify[n] \notin DOMAIN firms /\ ~HasName(firms, n)

\* sync_from_graph registers the graph's firms that have no row.
SyncFirm(n) ==
    /\ server = "sync"
    /\ n \in GraphFirms(graph) \cap Name /\ Absent(n)
    /\ Upsert(n, Kind(IF n = DemoFirm THEN "demo" ELSE "ready", ManagedBy(graph, n), FALSE))
    /\ UNCHANGED <<graph, job, events, request, server, crashes, history>>

\* It ends when all have one, or when the graph or SQLite fails: a warning.
SyncEnds ==
    /\ server = "sync"
    /\ server' = "demo"
    /\ UNCHANGED <<store, job, events, request, crashes, history>>

EnsureDemo ==
    /\ server = "demo"
    /\ server' = "up"
    /\ Upsert(DemoFirm, Kind("demo", DemoFunds, FALSE)) \/ UNCHANGED firms
    /\ UNCHANGED <<graph, job, events, request, crashes, history>>

-------------------------------------------------------------------------------
Next ==
    \/ \E j \in Job :
          \/ \E n \in Name : Post(j, n)
          \/ WorkerStep(j)
    \/ \E f \in FirmId : SelectFirm(f)
    \/ \E c \in Client :
          \/ \E f \in FirmId : DeleteRow(c, f)
          \/ DeleteGraph(c) \/ DeleteGraphFails(c)
    \/ Crash \/ Boot
    \/ \E n \in Name : SyncFirm(n)
    \/ SyncEnds \/ EnsureDemo

Spec == Init /\ [][Next]_vars

-------------------------------------------------------------------------------
\* The stream "keeps exactly one leading job.started and one terminal
\* job.completed" (pipeline.py, onboard_firm): nothing precedes the one or
\* follows the other, the firm's resolution comes before either, and a stream
\* that closes without completing ends in a fatal error.
StreamContract ==
    \A j \in Job : LET s == events[j] IN
        /\ \A i \in DOMAIN s :
              /\ s[i] = "started" => i = 1
              /\ s[i] = "completed" =>
                    /\ i = Len(s) /\ job[j].pc = "closed"
                    /\ s[1] = "started" /\ \E k \in 1 .. i : s[k] = "resolved"
              /\ s[i] = "enriching" => \E k \in 1 .. i : s[k] = "resolved"
        /\ job[j].pc = "closed" => s # <<>> /\ s[Len(s)] \in {"completed", "error"}

\* A ready row's funds are funds the graph says the firm manages.  store.py:
\* the registry "mirrors the funds each firm manages so the UI can show a fund
\* count without touching Neo4j".
Mirrored(f) == \A x \in firms[f].funds : <<x, firms[f].name>> \in graph.managed

\* Two things alone can break the mirror: a delete of the firm overlapping an
\* onboarding of it, and another firm's delete taking along a fund that both
\* manage.  No failure, crash, resynchronisation or repeated onboarding does.
MirrorBreaksOnlyByDelete ==
    \A f \in DOMAIN firms :
        firms[f].status = "ready" /\ firms[f].name \notin raced => Mirrored(f)

\* A firm whose delete was answered {"deleted": true} stays deleted, in the
\* registry and in the graph and across restarts, until it is onboarded again.
\* The startup restores the demo firm's row by design.
DeletedStaysGone ==
    \A n \in gone :
        /\ n # DemoFirm => ~HasName(firms, n)
        /\ ManagedBy(graph, n) = {}

\* A row says "onboarding" only while a worker is on it, or after one was
\* killed or could not write that it failed: nothing else leaves it hanging.
OnboardingRowHasWorker ==
    \A f \in DOMAIN firms :
        firms[f].status = "onboarding" =>
            OnIt(firms[f].name) # {} \/ firms[f].name \in stranded

==============================================================================
