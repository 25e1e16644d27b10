---------------------------- MODULE OnboardingProofs ----------------------------
(***************************************************************************)
(* Theorems about the workers and streams of api/onboarding, for any       *)
(* number of firms, funds, rows, jobs, requests and crashes.  Onboarding:  *)
(* every stream keeps its contract, a ready row mirrors the graph unless a *)
(* delete raced, a deleted firm stays deleted, and a row that says         *)
(* "onboarding" has a worker.  Enrichment: a run keeps to its budget and   *)
(* accounts for what it took on, and its queue implements EventStream.     *)
(***************************************************************************)
EXTENDS Onboarding, Enrichment,
        FiniteSetTheorems, SequenceTheorems, WellFoundedInduction, TLAPS

-------------------------------------------------------------------------------
(* Onboarding: the inductive invariant *)

Plain == {"begin", "merge", "register", "series", "ready", "enrich"}
Marking == {"series", "holdings", "ready"}      \* will write "ready" or "failed"
Pc == {"new", "holdings", "closed", "lost"} \cup Plain
Event == {"started", "parsed", "written", "resolved", "enriching", "completed", "error"}

JobShape(x) ==
    /\ x.pc \in Pc
    /\ x.pc \in {"new", "lost"} => x = [pc |-> x.pc]
    /\ x.pc \in Plain => x = [pc |-> x.pc, firm |-> x.firm, todo |-> x.todo, written |-> x.written]
    /\ x.pc = "holdings" =>
        /\ x = [pc |-> x.pc, firm |-> x.firm, todo |-> x.todo, written |-> x.written,
                fund |-> x.fund, left |-> x.left]
        /\ x.fund \in Fund
    /\ x.pc \notin Ended => x.firm \in Name /\ x.todo \in Seq(Series) /\ x.written \subseteq Fund

Jobs ==
    /\ job = [j \in Job |-> job[j]] /\ \A j \in Job : JobShape(job[j])
    /\ \E m \in 0 .. MaxJobs : \A j \in Job : job[j].pc # "new" <=> j <= m

\* Rows are under the slug of their name, so no two have the same name.
Table == IsTable(firms) /\ \A f \in DOMAIN firms : slugify[firms[f].name] = f

Graph == graph = [companies |-> graph.companies, funds |-> graph.funds,
                  managed |-> graph.managed, holds |-> graph.holds]

RequestShape(q) ==
    \/ q = [pc |-> "idle"]
    \/ q = [pc |-> "graph", firm |-> q.firm] /\ q.firm \in Name

\* A delete that has taken the row and met no onboarding finds no other row
\* of the firm and no worker on it.
Requests ==
    /\ request = [c \in Client |-> request[c]] /\ \A c \in Client : RequestShape(request[c])
    /\ \A c \in Client : request[c].pc = "graph" /\ request[c].firm \notin raced =>
            ~HasName(firms, request[c].firm) /\ OnIt(request[c].firm) = {}
    /\ server # "up" => /\ \A c \in Client : request[c].pc = "idle"
                        /\ \A j \in Job : ~Running(j)

\* What worker x relies on in graph g: the funds it has linked, the firm and
\* the fund it is about to link.
Linked(x, g) ==
    /\ x.written \subseteq ManagedBy(g, x.firm)
    /\ x.pc \notin {"begin", "merge"} => x.firm \in g.companies
    /\ x.pc = "holdings" => x.fund \in g.funds

Mirror ==
    /\ MirrorBreaksOnlyByDelete
    /\ \A j \in Job : Running(j) /\ job[j].firm \notin raced => Linked(job[j], graph)

Gone == DeletedStaysGone /\ \A n \in gone : OnIt(n) = {}

MarkedBy(n) == {j \in Job : job[j].pc \in Marking /\ job[j].firm = n}

Marked == \A f \in DOMAIN firms :
    firms[f].status = "onboarding" /\ firms[f].name \notin stranded => MarkedBy(firms[f].name) # {}

ResolvedBy(s, i) == \E k \in 1 .. i : s[k] = "resolved"

StreamOk(s, at) ==
    /\ s \in Seq(Event)
    /\ at \in {"new", "begin", "lost"} => s = <<>>
    /\ at \notin Ended \cup {"begin"} => s # <<>> /\ s[1] = "started"
    /\ at \in {"ready", "enrich"} => ResolvedBy(s, Len(s))
    /\ at = "closed" => s # <<>> /\ s[Len(s)] \in {"completed", "error"}
    /\ \A i \in 1 .. Len(s) :
        /\ s[i] = "started" => i = 1
        /\ s[i] = "completed" => i = Len(s) /\ at = "closed" /\ s[1] = "started" /\ ResolvedBy(s, i)
        /\ s[i] = "enriching" => ResolvedBy(s, i)

Streams == events = [j \in Job |-> events[j]] /\ \A j \in Job : StreamOk(events[j], job[j].pc)

StoreInv == Table /\ Graph /\ Jobs /\ Requests /\ Mirror /\ Gone /\ Marked
OnboardingInv == StoreInv /\ Streams

-------------------------------------------------------------------------------
(* What the registry's calls do to the table *)

SameRow(u, v) == u.name = v.name /\ u.status = v.status /\ u.funds = v.funds

\* No row is added, and none differs but in its flag.
Kept(t, u) ==
    IsTable(u) /\ \A g \in DOMAIN u : g \in DOMAIN t /\ SameRow(u[g], t[g])

\* n's row has the status and funds given; no other row does.
Upserted(t, u, n, status, funds) ==
    /\ IsTable(u)
    /\ \A g \in DOMAIN u :
        \/ g = slugify[n] /\ u[g].name = n /\ u[g].status = status /\ u[g].funds = funds
        \/ g \in DOMAIN t /\ t[g].name # n /\ SameRow(u[g], t[g])

LEMMA ActivateKeeps == ASSUME NEW t, IsTable(t), NEW f PROVE Kept(t, Activate(t, f))
  BY DEF IsTable, Activate, Row, Kept, SameRow

LEMMA WithoutKeeps == ASSUME NEW t, IsTable(t), NEW f PROVE Kept(t, Without(t, f))
  BY DEF IsTable, Without, Row, Kept, SameRow

LEMMA DeleteKeeps ==
    ASSUME NEW t, IsTable(t), NEW f, NEW b, NEW u, u \in AfterDelete(t, f, b)
    PROVE  Kept(t, u) /\ f \notin DOMAIN u
<1> DEFINE rest == Without(t, f)
<1>1. Kept(t, rest) /\ f \notin DOMAIN rest /\ IsTable(rest)
  BY WithoutKeeps DEF Without, Kept
<1>2. u = rest \/ \E g : u = Activate(rest, g)
  BY DEF AfterDelete
<1> HIDE DEF rest
<1>3. CASE \E g : u = Activate(rest, g)
  <2>1. PICK g : u = Activate(rest, g)
    BY <1>3
  <2>2. Kept(rest, u)
    BY <1>1, <2>1, ActivateKeeps
  <2>3. QED
    BY <1>1, <2>2 DEF Kept, SameRow
<1>4. QED
  BY <1>1, <1>2, <1>3

LEMMA UpdateIsTable ==
    ASSUME NEW t, IsTable(t), NEW n, NEW k \in UpsertKind, NEW now \in Nat,
           NEW u, u = UpdateByName(t, n, k, now)
    PROVE  IsTable(u) /\ DOMAIN u = DOMAIN t
  BY DEF IsTable, UpdateByName, Row, UpsertKind

LEMMA UpsertDoes ==
    ASSUME Table, NEW n \in Name, NEW k \in UpsertKind, Upsert(n, k)
    PROVE  Upserted(firms, firms', n, k.status, k.funds)
<1> DEFINE w == IF HasName(firms, n) THEN UpdateByName(firms, n, k, 0) ELSE Insert(firms, n, k, 0)
<1>1. IsTable(firms) /\ \A f \in DOMAIN firms : slugify[firms[f].name] = f
  BY DEF Table
<1>2. Upserted(firms, w, n, k.status, k.funds)
  <2>1. CASE HasName(firms, n)
    <3>1. w = UpdateByName(firms, n, k, 0)
      BY <2>1
    <3> HIDE DEF w
    <3>2. IsTable(w) /\ DOMAIN w = DOMAIN firms
      BY <1>1, <3>1, UpdateIsTable
    <3>3. ASSUME NEW g \in DOMAIN firms
          PROVE  \/ g = slugify[n] /\ w[g].name = n /\ w[g].status = k.status /\ w[g].funds = k.funds
                 \/ firms[g].name # n /\ SameRow(w[g], firms[g])
      <4>1. firms[g] \in Row /\ slugify[firms[g].name] = g
        BY <1>1 DEF IsTable
      <4>2. firms[g].name # n => w[g] = firms[g]
        BY <3>1 DEF UpdateByName
      <4>3. firms[g].name = n =>
                w[g] = [firms[g] EXCEPT !.status = k.status, !.funds = k.funds, !.updated = 0]
        BY <3>1 DEF UpdateByName
      <4>4. CASE firms[g].name = n
        <5>1. w[g].name = n /\ w[g].status = k.status /\ w[g].funds = k.funds
          BY <4>1, <4>3, <4>4 DEF Row
        <5>2. QED
          BY <4>1, <4>4, <5>1
      <4>5. QED
        BY <4>2, <4>4 DEF SameRow
    <3>4. QED
      BY <3>2, <3>3 DEF Upserted
  <2>2. CASE ~HasName(firms, n)
    <3>1. w = Insert(firms, n, k, 0)
      BY <2>2
    <3>2. \A g \in DOMAIN firms : firms[g].name # n
      BY <2>2 DEF HasName
    <3> HIDE DEF w
    <3>3. slugify[n] \in FirmId /\ slugify[n] \notin DOMAIN firms
      BY <2>2, SlugAssumption DEF Upsert, InsertConflicts
    <3>4. IsTable(w) /\ DOMAIN w = DOMAIN firms \cup {slugify[n]}
      BY <1>1, <3>1, <3>3 DEF IsTable, Insert, Row, UpsertKind
    <3>5. ASSUME NEW g \in DOMAIN w
          PROVE  \/ g = slugify[n] /\ w[g].name = n /\ w[g].status = k.status /\ w[g].funds = k.funds
                 \/ g \in DOMAIN firms /\ firms[g].name # n /\ SameRow(w[g], firms[g])
      BY <3>1, <3>2, <3>4 DEF Insert, SameRow
    <3>6. QED
      BY <3>4, <3>5 DEF Upserted
  <2>3. QED
    BY <2>1, <2>2
<1>3. firms' = w \/ firms' = Activate(w, slugify[n])
  BY DEF Upsert, AfterUpsert
<1> HIDE DEF w
<1>4. CASE firms' = Activate(w, slugify[n])
  <2>1. Kept(w, firms')
    BY <1>2, <1>4, ActivateKeeps DEF Upserted
  <2>2. QED
    BY <1>2, <2>1 DEF Upserted, Kept, SameRow
<1>5. QED
  BY <1>2, <1>3, <1>4

-------------------------------------------------------------------------------
(* What the statements do to the graph *)

\* Nodes are added; funds are linked to firm n at most.
Grown(g, h, n) ==
    /\ h = [companies |-> h.companies, funds |-> h.funds, managed |-> h.managed, holds |-> h.holds]
    /\ g.companies \subseteq h.companies /\ g.funds \subseteq h.funds
    /\ \A m : ManagedBy(g, m) \subseteq ManagedBy(h, m)
    /\ \A m : m # n => ManagedBy(h, m) = ManagedBy(g, m)

LEMMA GraphGrows ==
    ASSUME NEW g, g = [companies |-> g.companies, funds |-> g.funds,
                       managed |-> g.managed, holds |-> g.holds],
           NEW n, NEW f \in Fund, NEW i
    PROVE  /\ Grown(g, g, n)
           /\ Grown(g, MergeFund(g, f), n) /\ f \in MergeFund(g, f).funds
           /\ Grown(g, MergeHolding(g, f, i), n)
           /\ Grown(g, LinkFund(g, f, n), n)
           /\ f \in g.funds /\ n \in g.companies => f \in ManagedBy(LinkFund(g, f, n), n)
<1>1. Grown(g, g, n)
  BY DEF Grown
<1>3. Grown(g, MergeFund(g, f), n) /\ f \in MergeFund(g, f).funds
  <2>1. MergeFund(g, f) = [companies |-> g.companies, funds |-> g.funds \cup {f},
                           managed |-> g.managed, holds |-> g.holds]
    BY DEF MergeFund
  <2>2. QED
    BY <2>1 DEF Grown, ManagedBy
<1>4. Grown(g, MergeHolding(g, f, i), n)
  <2>1. CASE f \in g.funds
    <3>1. PICK h : h = MergeHolding(g, f, i)
      OBVIOUS
    <3>2. h = [companies |-> g.companies \cup {i}, funds |-> g.funds,
               managed |-> g.managed, holds |-> g.holds \cup {<<f, i>>}]
      BY <2>1, <3>1 DEF MergeHolding
    <3>3. QED
      BY <3>1, <3>2 DEF Grown, ManagedBy
  <2>2. CASE f \notin g.funds
    BY <1>1, <2>2 DEF MergeHolding
  <2>3. QED
    BY <2>1, <2>2
<1>5. CASE f \in g.funds /\ n \in g.companies
  <2>1. LinkFund(g, f, n) = [companies |-> g.companies, funds |-> g.funds,
                             managed |-> g.managed \cup {<<f, n>>}, holds |-> g.holds]
    BY <1>5 DEF LinkFund
  <2>2. QED
    BY <1>1, <1>3, <1>4, <2>1 DEF Grown, ManagedBy
<1>6. CASE ~(f \in g.funds /\ n \in g.companies)
  BY <1>1, <1>3, <1>4, <1>6 DEF LinkFund
<1>7. QED
  BY <1>5, <1>6

\* The delete of firm n: only its edges and those of its funds go.
LEMMA DeleteFirmDoes ==
    ASSUME NEW g, NEW n, NEW h, h = DeleteFirm(g, n)
    PROVE  /\ h = [companies |-> h.companies, funds |-> h.funds, managed |-> h.managed, holds |-> h.holds]
           /\ ManagedBy(h, n) = {}
           /\ \A m : ManagedBy(h, m) \subseteq ManagedBy(g, m)
           /\ \A m : m # n => ManagedBy(g, m) \ ManagedBy(g, n) \subseteq ManagedBy(h, m)
           /\ g.companies \ {n} \subseteq h.companies
           /\ g.funds \ ManagedBy(g, n) \subseteq h.funds
<1> DEFINE dead == IF n \in g.companies THEN ManagedBy(g, n) ELSE {}
<1>1. dead \subseteq ManagedBy(g, n)
  OBVIOUS
<1>2. h = [companies |-> g.companies \ {n}, funds |-> g.funds \ dead,
           managed |-> {e \in g.managed : e[1] \notin dead /\ e[2] # n},
           holds |-> {e \in g.holds : e[1] \notin dead /\ e[2] # n}]
  BY DEF DeleteFirm
<1> HIDE DEF dead
<1>3. \A f, m : <<f, m>> \in h.managed <=> <<f, m>> \in g.managed /\ f \notin dead /\ m # n
  BY <1>2
<1>4. \A m : \A f \in Fund : f \in ManagedBy(h, m) <=> f \in ManagedBy(g, m) /\ f \notin dead /\ m # n
  BY <1>3 DEF ManagedBy
<1>5. \A m : ManagedBy(h, m) \subseteq Fund /\ ManagedBy(g, m) \subseteq Fund
  BY DEF ManagedBy
<1>6. QED
  BY <1>1, <1>2, <1>4, <1>5

-------------------------------------------------------------------------------
(* A worker's step *)

\* What no step of worker j does to the jobs, the requests and the histories.
Works(j) ==
    /\ Running(j)
    /\ job' = [i \in Job |-> job'[i]] /\ \A i \in Job \ {j} : job'[i] = job[i]
    /\ JobShape(job'[j]) /\ job'[j].pc \notin {"new", "lost", "begin"}
    /\ job'[j].pc # "closed" => job'[j].firm = job[j].firm
    /\ UNCHANGED <<request, server, raced, gone>> /\ stranded \subseteq stranded'
    /\ Grown(graph, graph', job[j].firm)

\* The row of the worker's firm after an upsert that worker j may make.
Writes(j, status, funds) ==
    /\ Upserted(firms, firms', job[j].firm, status, funds)
    /\ status = "ready" /\ job[j].firm \notin raced => funds \subseteq ManagedBy(graph', job[j].firm)
    /\ status = "onboarding" => job'[j].pc \in Marking

LEMMA WorkersAfter ==
    ASSUME NEW j \in Job, Works(j)
    PROVE  /\ \A i \in Job : Running(i)' => Running(i) /\ job'[i].firm = job[i].firm
           /\ \A n : OnIt(n)' \subseteq OnIt(n)
           /\ \A n : n # job[j].firm => MarkedBy(n)' = MarkedBy(n)
<1>1. ASSUME NEW i \in Job, Running(i)'
      PROVE  Running(i) /\ job'[i].firm = job[i].firm
  BY <1>1 DEF Works, Running, Ended
<1>2. \A n : OnIt(n)' \subseteq OnIt(n)
  BY <1>1 DEF OnIt
<1>3. ASSUME NEW n, n # job[j].firm, NEW i \in Job
      PROVE  i \in MarkedBy(n)' <=> i \in MarkedBy(n)
  BY <1>3 DEF MarkedBy, Works, Marking
<1>4. \A n : n # job[j].firm => MarkedBy(n)' = MarkedBy(n)
  <2>1. \A n : MarkedBy(n)' \subseteq Job /\ MarkedBy(n) \subseteq Job
    BY DEF MarkedBy
  <2>2. QED
    BY <1>3, <2>1
<1>5. QED
  BY <1>1, <1>2, <1>4

LEMMA WorkKeeps ==
    ASSUME StoreInv, NEW j \in Job, Works(j),
           \/ \E status, funds : Writes(j, status, funds)
           \/ /\ UNCHANGED firms
              /\ job[j].pc \in Marking => job'[j].pc \in Marking \/ job[j].firm \in stranded',
           job[j].firm \notin raced /\ job'[j].pc # "closed" => Linked(job'[j], graph')
    PROVE  StoreInv'
<1> DEFINE n == job[j].firm
<1>1. /\ IsTable(firms) /\ \A f \in DOMAIN firms : slugify[firms[f].name] = f
      /\ JobShape(job[j]) /\ n \in Name /\ j \in OnIt(n)
  BY DEF StoreInv, Table, Jobs, JobShape, Works, Running, OnIt
<1>2. /\ Running(j)
      /\ job' = [i \in Job |-> job'[i]] /\ \A i \in Job \ {j} : job'[i] = job[i]
      /\ JobShape(job'[j]) /\ job'[j].pc \notin {"new", "lost", "begin"}
      /\ job'[j].pc # "closed" => job'[j].firm = n
      /\ UNCHANGED <<request, server, raced, gone>> /\ stranded \subseteq stranded'
      /\ Grown(graph, graph', n)
  BY DEF Works
<1>3. /\ \A i \in Job : Running(i)' => Running(i) /\ job'[i].firm = job[i].firm
      /\ \A m : OnIt(m)' \subseteq OnIt(m)
      /\ \A m : m # n => MarkedBy(m)' = MarkedBy(m)
  BY WorkersAfter
<1>4. /\ IsTable(firms')
      /\ \A g \in DOMAIN firms' : firms'[g].name # n =>
            g \in DOMAIN firms /\ SameRow(firms'[g], firms[g])
      /\ \A g \in DOMAIN firms' : slugify[firms'[g].name] = g
  <2>1. CASE UNCHANGED firms
    BY <1>1, <2>1 DEF SameRow
  <2>2. CASE \E status, funds : Writes(j, status, funds)
    BY <1>1, <2>2 DEF Writes, Upserted, SameRow
  <2>3. QED
    BY <2>1, <2>2
<1> HIDE DEF n
<1>5. Table' /\ Graph'
  BY <1>2, <1>4 DEF Table, Graph, Grown
<1>6. Jobs'
  <2>1. \A i \in Job : JobShape(job'[i])
    BY <1>2 DEF StoreInv, Jobs
  <2>2. \A i \in Job : job'[i].pc # "new" <=> job[i].pc # "new"
    BY <1>2 DEF Running, Ended
  <2>3. QED
    BY <1>2, <2>1, <2>2 DEF StoreInv, Jobs
<1>7. Requests'
  <2>1. \A m : m # n /\ HasName(firms', m) => HasName(firms, m)
    BY <1>4 DEF HasName, SameRow
  <2>2. ASSUME NEW m, OnIt(m) = {}, ~HasName(firms, m)
        PROVE  OnIt(m)' = {} /\ ~HasName(firms', m)
    BY <1>1, <1>3, <2>1, <2>2
  <2>3. server = "up"
    BY <1>2 DEF StoreInv, Requests
  <2>4. QED
    BY <1>2, <2>2, <2>3 DEF StoreInv, Requests, HasName
<1>8. \A m : ManagedBy(graph, m) \subseteq ManagedBy(graph', m)
      /\ (m # n => ManagedBy(graph', m) = ManagedBy(graph, m))
  BY <1>2 DEF Grown
<1>9. Mirror'
  <2>1. ASSUME NEW g \in DOMAIN firms', firms'[g].status = "ready", firms'[g].name \notin raced
        PROVE  firms'[g].funds \subseteq ManagedBy(graph', firms'[g].name)
    <3>1. CASE g \in DOMAIN firms /\ SameRow(firms'[g], firms[g])
      <4>1. firms[g].funds \subseteq ManagedBy(graph, firms[g].name)
        <5>1. Mirrored(g) /\ firms[g].funds \subseteq Fund
          BY <1>1, <2>1, <3>1 DEF StoreInv, Mirror, MirrorBreaksOnlyByDelete, SameRow, IsTable, Row
        <5>2. QED
          BY <5>1 DEF Mirrored, ManagedBy
      <4>2. QED
        BY <1>8, <3>1, <4>1 DEF SameRow
    <3>2. CASE ~(g \in DOMAIN firms /\ SameRow(firms'[g], firms[g]))
      <4>1. PICK status, funds : Writes(j, status, funds)
        BY <2>1, <3>2 DEF SameRow
      <4>2. firms'[g].name = n /\ firms'[g].status = status /\ firms'[g].funds = funds
        BY <2>1, <3>2, <4>1 DEF Writes, Upserted, n
      <4>3. QED
        BY <2>1, <4>1, <4>2 DEF Writes, n
    <3>3. QED
      BY <3>1, <3>2
  <2>2. MirrorBreaksOnlyByDelete'
    BY <1>2, <2>1 DEF MirrorBreaksOnlyByDelete, Mirrored, ManagedBy
  <2>3. ASSUME NEW i \in Job, Running(i)', job'[i].firm \notin raced
        PROVE  Linked(job'[i], graph')
    <3>1. CASE i = j
      BY <1>2, <1>3, <2>3, <3>1 DEF n, Running, Ended
    <3>2. CASE i # j
      <4>1. job'[i] = job[i] /\ Running(i)
        BY <1>2, <1>3, <2>3, <3>2
      <4>2. Linked(job[i], graph)
        BY <2>3, <4>1 DEF StoreInv, Mirror
      <4>3. QED
        BY <1>2, <1>8, <4>1, <4>2 DEF Linked, Grown
    <3>3. QED
      BY <3>1, <3>2
  <2>4. QED
    BY <1>2, <2>2, <2>3 DEF Mirror
<1>10. Gone'
  <2>1. ASSUME NEW m \in gone
        PROVE  /\ m # DemoFirm => ~HasName(firms', m)
               /\ ManagedBy(graph', m) = {} /\ OnIt(m)' = {}
    <3>1. OnIt(m) = {} /\ ManagedBy(graph, m) = {} /\ (m # DemoFirm => ~HasName(firms, m))
      BY DEF StoreInv, Gone, DeletedStaysGone
    <3>2. m # n
      BY <1>1, <3>1
    <3>3. QED
      BY <1>3, <1>4, <1>8, <3>1, <3>2 DEF HasName, SameRow
  <2>2. QED
    BY <1>2, <2>1 DEF Gone, DeletedStaysGone, HasName
<1>11. Marked'
  <2>1. ASSUME NEW g \in DOMAIN firms', NEW m, m = firms'[g].name,
               firms'[g].status = "onboarding", m \notin stranded'
        PROVE  MarkedBy(m)' # {}
    <3>1. CASE m # n
      <4>1. firms[g].status = "onboarding" /\ firms[g].name = m /\ g \in DOMAIN firms
        BY <1>4, <2>1, <3>1 DEF SameRow
      <4>2. MarkedBy(m) # {}
        BY <1>2, <2>1, <4>1 DEF StoreInv, Marked
      <4>3. QED
        BY <1>3, <3>1, <4>2
    <3>2. CASE /\ m = n /\ UNCHANGED firms
               /\ job[j].pc \in Marking => job'[j].pc \in Marking \/ n \in stranded'
      <4>1. PICK i \in MarkedBy(m) : TRUE
        BY <1>2, <2>1, <3>2 DEF StoreInv, Marked
      <4>2. i \in Job /\ job[i].pc \in Marking /\ job[i].firm = m
        BY <4>1 DEF MarkedBy
      <4>3. CASE i = j
        <5>1. job'[j].pc \in Marking /\ job'[j].firm = m
          BY <1>2, <2>1, <3>2, <4>2, <4>3 DEF Marking
        <5>2. QED
          BY <5>1 DEF MarkedBy
      <4>4. CASE i # j
        BY <1>2, <4>2, <4>4 DEF MarkedBy
      <4>5. QED
        BY <4>3, <4>4
    <3>3. CASE m = n /\ \E status, funds : Writes(j, status, funds)
      <4>1. PICK status, funds : Writes(j, status, funds)
        BY <3>3
      <4>2. status = "onboarding"
        <5>1. \/ firms'[g].status = status
              \/ firms'[g].name # n
          BY <2>1, <4>1 DEF Writes, Upserted, SameRow, n
        <5>2. QED
          BY <2>1, <3>3, <5>1
      <4>3. job'[j].pc \in Marking /\ job'[j].firm = m
        BY <1>2, <3>3, <4>1, <4>2 DEF Writes, Marking
      <4>4. QED
        BY <4>3 DEF MarkedBy
    <3>4. QED
      BY <3>1, <3>2, <3>3 DEF n
  <2>2. QED
    BY <2>1 DEF Marked
<1>12. QED
  BY <1>5, <1>6, <1>7, <1>9, <1>10, <1>11 DEF StoreInv

\* Going on keeps the rest of what the worker is in the middle of.
LEMMA GotoDoes ==
    ASSUME Jobs, NEW j \in Job, Running(j), NEW at, Goto(j, at),
           at = "closed" \/ (at \in Plain \ {"begin"} /\ job[j].pc \in Plain)
    PROVE  /\ job' = [i \in Job |-> job'[i]] /\ \A i \in Job \ {j} : job'[i] = job[i]
           /\ JobShape(job'[j]) /\ job'[j].pc = at
           /\ job[j].pc \in Plain => job'[j] = [pc |-> at, firm |-> job[j].firm, todo |-> job[j].todo,
                                                written |-> job[j].written]
<1> DEFINE x == job[j]
<1>1. JobShape(x) /\ x.pc \in Plain \cup {"holdings"} /\ x.pc \notin Ended
  BY DEF Jobs, JobShape, Running, Ended, Pc, Plain
<1>2. job' = [job EXCEPT ![j] = [x EXCEPT !.pc = at]]
  BY DEF Goto
<1>3. PICK z : z = [x EXCEPT !.pc = at]
  OBVIOUS
<1>4. job' = [i \in Job |-> job'[i]] /\ job'[j] = z /\ \A i \in Job \ {j} : job'[i] = job[i]
  BY <1>2, <1>3 DEF Jobs
<1> HIDE DEF x
<1>5. CASE x.pc \in Plain
  <2>1. z = [pc |-> at, firm |-> x.firm, todo |-> x.todo, written |-> x.written]
    BY <1>1, <1>3, <1>5 DEF JobShape
  <2>2. JobShape(z) /\ z.pc = at
    BY <1>1, <2>1 DEF JobShape, Pc, Plain, Ended
  <2>3. QED
    BY <1>4, <2>1, <2>2 DEF x
<1>6. CASE x.pc = "holdings"
  <2>1. z = [pc |-> at, firm |-> x.firm, todo |-> x.todo, written |-> x.written,
             fund |-> x.fund, left |-> x.left]
    BY <1>1, <1>3, <1>6 DEF JobShape
  <2>2. at = "closed" /\ z.pc = "closed"
    BY <1>6, <2>1 DEF Plain, x
  <2>3. JobShape(z)
    BY <2>2 DEF JobShape, Pc, Plain, Ended
  <2>4. QED
    BY <1>4, <1>6, <2>2, <2>3 DEF x, Plain
<1>7. QED
  BY <1>1, <1>5, <1>6

\* What the invariant says of a running worker.
LEMMA WorkerFacts ==
    ASSUME StoreInv, NEW j \in Job, Running(j)
    PROVE  /\ JobShape(job[j]) /\ job[j].firm \in Name /\ job[j].todo \in Seq(Series)
           /\ job[j].written \subseteq Fund
           /\ job[j].firm \notin raced => Linked(job[j], graph)
           /\ graph = [companies |-> graph.companies, funds |-> graph.funds,
                       managed |-> graph.managed, holds |-> graph.holds]
           /\ Jobs /\ Table
  BY DEF StoreInv, Jobs, JobShape, Mirror, Graph, Running

LEMMA BeginFailsKeeps ==
    ASSUME StoreInv, NEW j \in Job, BeginFails(j), UNCHANGED <<request, server>>
    PROVE  StoreInv'
<1>1. /\ Running(j) /\ job[j].pc = "begin" /\ Goto(j, "closed")
      /\ UNCHANGED <<firms, graph, raced, gone, stranded>>
  BY DEF BeginFails, Running, Ended, store, history
<1>2. /\ job' = [i \in Job |-> job'[i]] /\ \A i \in Job \ {j} : job'[i] = job[i]
      /\ JobShape(job'[j]) /\ job'[j].pc = "closed"
  BY <1>1, WorkerFacts, GotoDoes
<1>3. Grown(graph, graph', job[j].firm)
  BY <1>1, WorkerFacts DEF Grown
<1>4. Works(j)
  BY <1>1, <1>2, <1>3 DEF Works
<1>5. QED
  BY <1>1, <1>2, <1>4, WorkKeeps DEF Marking

LEMMA BeginKeeps ==
    ASSUME StoreInv, NEW j \in Job, Begin(j), UNCHANGED <<request, server>>
    PROVE  StoreInv'
<1>1. /\ Running(j) /\ job[j].pc = "begin" /\ Goto(j, "merge")
      /\ UNCHANGED <<firms, graph, raced, gone, stranded>>
  BY DEF Begin, Running, Ended, store, history
<1>2. /\ job' = [i \in Job |-> job'[i]] /\ \A i \in Job \ {j} : job'[i] = job[i]
      /\ JobShape(job'[j]) /\ job'[j].pc = "merge"
      /\ job'[j] = [pc |-> "merge", firm |-> job[j].firm, todo |-> job[j].todo,
                    written |-> job[j].written]
  BY <1>1, WorkerFacts, GotoDoes DEF Plain
<1>3. job'[j].firm = job[j].firm /\ job'[j].written = job[j].written
  BY <1>2
<1>4. Works(j)
  BY <1>1, <1>2, <1>3, WorkerFacts DEF Works, Grown
<1>5. job[j].firm \notin raced => Linked(job'[j], graph')
  BY <1>1, <1>2, <1>3, WorkerFacts DEF Linked
<1>6. QED
  BY <1>1, <1>2, <1>4, <1>5, WorkKeeps DEF Marking

LEMMA MergeFirmKeeps ==
    ASSUME StoreInv, NEW j \in Job, MergeFirm(j), UNCHANGED <<request, server>>
    PROVE  StoreInv'
<1>1. /\ Running(j) /\ job[j].pc = "merge" /\ Goto(j, "register")
      /\ UNCHANGED <<firms, raced, gone, stranded>> /\ graph' = MergeCompany(graph, job[j].firm)
  BY DEF MergeFirm, Running, Ended, history
<1>2. /\ job' = [i \in Job |-> job'[i]] /\ \A i \in Job \ {j} : job'[i] = job[i]
      /\ JobShape(job'[j]) /\ job'[j].pc = "register"
      /\ job'[j] = [pc |-> "register", firm |-> job[j].firm, todo |-> job[j].todo,
                    written |-> job[j].written]
  BY <1>1, WorkerFacts, GotoDoes DEF Plain
<1>3. job'[j].firm = job[j].firm /\ job'[j].written = job[j].written
  BY <1>2
<1>4. Grown(graph, graph', job[j].firm) /\ job[j].firm \in graph'.companies
  <2>1. graph = [companies |-> graph.companies, funds |-> graph.funds,
                 managed |-> graph.managed, holds |-> graph.holds]
    BY <1>1, WorkerFacts
  <2>2. PICK h : h = MergeCompany(graph, job[j].firm)
    OBVIOUS
  <2>3. h = [companies |-> graph.companies \cup {job[j].firm}, funds |-> graph.funds,
             managed |-> graph.managed, holds |-> graph.holds]
    BY <2>1, <2>2 DEF MergeCompany
  <2>4. QED
    BY <1>1, <2>2, <2>3 DEF Grown, ManagedBy
<1>5. Works(j)
  BY <1>1, <1>2, <1>3, <1>4 DEF Works
<1>6. job[j].firm \notin raced => Linked(job'[j], graph')
  <2>1. job[j].firm \notin raced => job[j].written \subseteq ManagedBy(graph, job[j].firm)
    BY <1>1, WorkerFacts DEF Linked
  <2>2. QED
    BY <1>2, <1>3, <1>4, <2>1 DEF Linked, Grown
<1>7. QED
  BY <1>1, <1>2, <1>5, <1>6, WorkKeeps DEF Marking

LEMMA RegisterKeeps ==
    ASSUME StoreInv, NEW j \in Job, Register(j), UNCHANGED <<request, server>>
    PROVE  StoreInv'
<1>1. /\ Running(j) /\ job[j].pc = "register" /\ Goto(j, "series")
      /\ UNCHANGED <<graph, raced, gone, stranded>>
      /\ Upsert(job[j].firm, Kind("onboarding", {}, FALSE))
  BY DEF Register, Running, Ended, history
<1>2. /\ job' = [i \in Job |-> job'[i]] /\ \A i \in Job \ {j} : job'[i] = job[i]
      /\ JobShape(job'[j]) /\ job'[j].pc = "series"
      /\ job'[j] = [pc |-> "series", firm |-> job[j].firm, todo |-> job[j].todo,
                    written |-> job[j].written]
  BY <1>1, WorkerFacts, GotoDoes DEF Plain
<1>3. job'[j].firm = job[j].firm /\ job'[j].written = job[j].written
  BY <1>2
<1>4. Works(j)
  BY <1>1, <1>2, <1>3, WorkerFacts DEF Works, Grown
<1>5. \E status, funds : Writes(j, status, funds)
  <2>1. Kind("onboarding", {}, FALSE) \in UpsertKind
    BY DEF Kind, UpsertKind, Status
  <2>2. Upserted(firms, firms', job[j].firm, "onboarding", {})
    BY <1>1, <2>1, WorkerFacts, UpsertDoes DEF Kind
  <2>3. Writes(j, "onboarding", {})
    BY <1>2, <2>2 DEF Writes, Marking
  <2>4. QED
    BY <2>3
<1>6. job[j].firm \notin raced => Linked(job'[j], graph')
  <2>1. job[j].firm \notin raced => Linked(job[j], graph)
    BY <1>1, WorkerFacts
  <2>2. QED
    BY <1>1, <1>2, <1>3, <2>1 DEF Linked
<1>7. QED
  BY <1>2, <1>4, <1>5, <1>6, WorkKeeps DEF Marking

LEMMA SkipSeriesKeeps ==
    ASSUME StoreInv, NEW j \in Job, SkipSeries(j), UNCHANGED <<request, server>>
    PROVE  StoreInv'
<1> DEFINE x == job[j]
           y == [pc |-> "series", firm |-> x.firm, todo |-> Tail(x.todo), written |-> x.written]
<1>1. /\ Running(j) /\ x.pc = "series" /\ x.todo # <<>> /\ job' = [job EXCEPT ![j].todo = Tail(@)]
      /\ UNCHANGED <<firms, graph, raced, gone, stranded>>
  BY DEF SkipSeries, Running, Ended, store, history
<1>2. JobShape(x) /\ (x.firm \notin raced => Linked(x, graph))
  BY <1>1, WorkerFacts
<1>3. x = [pc |-> x.pc, firm |-> x.firm, todo |-> x.todo, written |-> x.written]
  BY <1>1, <1>2 DEF JobShape, Plain
<1>4. Tail(x.todo) \in Seq(Series) /\ x.firm \in Name /\ x.written \subseteq Fund
  BY <1>1, WorkerFacts
<1>5. job' = [i \in Job |-> job'[i]] /\ job'[j] = y /\ \A i \in Job \ {j} : job'[i] = job[i]
  <2>1. job = [i \in Job |-> job[i]]
    BY DEF StoreInv, Jobs
  <2>2. PICK z : job' = [job EXCEPT ![j] = z] /\ z = [x EXCEPT !.todo = Tail(x.todo)]
    BY <1>1
  <2>3. z = y
    BY <1>1, <1>3, <2>2
  <2> HIDE DEF y
  <2>4. QED
    BY <2>1, <2>2, <2>3
<1>6. JobShape(y) /\ y.pc = "series" /\ y.firm = x.firm /\ y.written = x.written
  BY <1>4 DEF JobShape, Pc, Plain, Ended
<1> HIDE DEF y
<1>7. Works(j)
  BY <1>1, <1>5, <1>6, WorkerFacts DEF Works, Grown
<1>8. x.firm \notin raced => Linked(job'[j], graph')
  BY <1>1, <1>2, <1>5, <1>6 DEF Linked
<1>9. QED
  BY <1>1, <1>5, <1>6, <1>7, <1>8, WorkKeeps DEF Marking

LEMMA WriteFundKeeps ==
    ASSUME StoreInv, NEW j \in Job, WriteFund(j), UNCHANGED <<request, server>>
    PROVE  StoreInv'
<1> DEFINE x == job[j]
           f == FundOf[Head(x.todo)]
           y == [pc |-> "holdings", firm |-> x.firm, todo |-> Tail(x.todo),
                 written |-> x.written, fund |-> f, left |-> IssuersOf[f]]
<1>1. /\ Running(j) /\ x.pc = "series" /\ x.todo # <<>> /\ job' = [job EXCEPT ![j] = y]
      /\ UNCHANGED <<firms, raced, gone, stranded>> /\ graph' = MergeFund(graph, f)
  BY DEF WriteFund, Running, Ended, history
<1>2. /\ x.todo \in Seq(Series) /\ x.firm \in Name /\ x.written \subseteq Fund
      /\ x.firm \notin raced => Linked(x, graph)
  BY <1>1, WorkerFacts
<1>3. f \in Fund /\ Tail(x.todo) \in Seq(Series)
  <2>1. Head(x.todo) \in Series /\ Tail(x.todo) \in Seq(Series)
    BY <1>1, <1>2
  <2>2. QED
    BY <2>1, OnboardingAssumption
<1>4. job' = [i \in Job |-> job'[i]] /\ job'[j] = y /\ \A i \in Job \ {j} : job'[i] = job[i]
  <2> HIDE DEF y
  <2>1. job = [i \in Job |-> job[i]]
    BY DEF StoreInv, Jobs
  <2>2. QED
    BY <1>1, <2>1
<1>5. Grown(graph, graph', x.firm) /\ f \in graph'.funds
  <2> HIDE DEF f
  <2>1. QED
    BY <1>1, <1>3, WorkerFacts, GraphGrows
<1> HIDE DEF f
<1>6. /\ JobShape(y) /\ y.pc = "holdings" /\ y.firm = x.firm /\ y.written = x.written /\ y.fund = f
  BY <1>2, <1>3 DEF JobShape, Pc, Plain, Ended
<1> HIDE DEF y
<1>7. Works(j)
  BY <1>1, <1>4, <1>5, <1>6 DEF Works
<1>8. x.firm \notin raced => Linked(job'[j], graph')
  BY <1>1, <1>2, <1>4, <1>5, <1>6 DEF Linked, Grown
<1>9. QED
  BY <1>1, <1>4, <1>6, <1>7, <1>8, WorkKeeps DEF Marking

LEMMA WriteHoldingKeeps ==
    ASSUME StoreInv, NEW j \in Job, NEW i, WriteHolding(j, i), UNCHANGED <<request, server>>
    PROVE  StoreInv'
<1> DEFINE x == job[j]
           y == [pc |-> "holdings", firm |-> x.firm, todo |-> x.todo,
                 written |-> x.written, fund |-> x.fund, left |-> x.left \ {i}]
<1>1. /\ Running(j) /\ x.pc = "holdings" /\ job' = [job EXCEPT ![j].left = @ \ {i}]
      /\ UNCHANGED <<firms, raced, gone, stranded>> /\ graph' = MergeHolding(graph, x.fund, i)
  BY DEF WriteHolding, Running, Ended, history
<1>2. /\ JobShape(x) /\ x.todo \in Seq(Series) /\ x.firm \in Name /\ x.written \subseteq Fund
      /\ x.firm \notin raced => Linked(x, graph)
  BY <1>1, WorkerFacts
<1>3. x.fund \in Fund
  BY <1>1, <1>2 DEF JobShape
<1>4. job' = [k \in Job |-> job'[k]] /\ job'[j] = y /\ \A k \in Job \ {j} : job'[k] = job[k]
  <2>1. job = [k \in Job |-> job[k]]
    BY DEF StoreInv, Jobs
  <2>2. PICK z : job' = [job EXCEPT ![j] = z] /\ z = [x EXCEPT !.left = x.left \ {i}]
    BY <1>1
  <2>3. z = y
    BY <1>1, <1>2, <2>2 DEF JobShape
  <2> HIDE DEF y
  <2>4. QED
    BY <2>1, <2>2, <2>3
<1>5. Grown(graph, graph', x.firm)
  BY <1>1, <1>3, WorkerFacts, GraphGrows
<1>6. JobShape(y) /\ y.pc = "holdings" /\ y.firm = x.firm /\ y.written = x.written /\ y.fund = x.fund
  BY <1>2, <1>3 DEF JobShape, Pc, Plain, Ended
<1> HIDE DEF y
<1>7. Works(j)
  BY <1>1, <1>4, <1>5, <1>6 DEF Works
<1>8. x.firm \notin raced => Linked(job'[j], graph')
  BY <1>1, <1>2, <1>4, <1>5, <1>6 DEF Linked, Grown
<1>9. QED
  BY <1>1, <1>4, <1>6, <1>7, <1>8, WorkKeeps DEF Marking

\* The link is made only if the fund and the firm are there, which they are
\* unless a delete raced.
LEMMA LinkToFirmKeeps ==
    ASSUME StoreInv, NEW j \in Job, LinkToFirm(j), UNCHANGED <<request, server>>
    PROVE  StoreInv'
<1> DEFINE x == job[j]
           y == [pc |-> "series", firm |-> x.firm, todo |-> x.todo,
                 written |-> x.written \cup {x.fund}]
<1>1. /\ Running(j) /\ x.pc = "holdings" /\ job' = [job EXCEPT ![j] = y]
      /\ UNCHANGED <<firms, raced, gone, stranded>> /\ graph' = LinkFund(graph, x.fund, x.firm)
  BY DEF LinkToFirm, Running, Ended, history
<1>2. /\ JobShape(x) /\ x.todo \in Seq(Series) /\ x.firm \in Name /\ x.written \subseteq Fund
      /\ x.firm \notin raced => Linked(x, graph)
  BY <1>1, WorkerFacts
<1>3. x.fund \in Fund
  BY <1>1, <1>2 DEF JobShape
<1>4. job' = [k \in Job |-> job'[k]] /\ job'[j] = y /\ \A k \in Job \ {j} : job'[k] = job[k]
  <2> HIDE DEF y
  <2>1. job = [i \in Job |-> job[i]]
    BY DEF StoreInv, Jobs
  <2>2. QED
    BY <1>1, <2>1
<1>5. /\ Grown(graph, graph', x.firm)
      /\ x.fund \in graph.funds /\ x.firm \in graph.companies => x.fund \in ManagedBy(graph', x.firm)
  BY <1>1, <1>3, WorkerFacts, GraphGrows
<1>6. JobShape(y) /\ y.pc = "series" /\ y.firm = x.firm /\ y.written = x.written \cup {x.fund}
  BY <1>2, <1>3 DEF JobShape, Pc, Plain, Ended
<1> HIDE DEF y
<1>7. Works(j)
  BY <1>1, <1>4, <1>5, <1>6 DEF Works
<1>8. x.firm \notin raced => Linked(job'[j], graph')
  BY <1>1, <1>2, <1>4, <1>5, <1>6 DEF Linked, Grown
<1>9. QED
  BY <1>1, <1>4, <1>6, <1>7, <1>8, WorkKeeps DEF Marking

\* Steps that change no row and no node, and stay in the plain states.
LEMMA GoesOnKeeps ==
    ASSUME StoreInv, NEW j \in Job, Running(j), UNCHANGED <<store, history, request, server>>,
           job[j].pc \in Plain \ {"begin", "merge"},
           NEW at \in Plain \ {"begin", "merge"}, Goto(j, at), job[j].pc \in Marking => at \in Marking
    PROVE  StoreInv'
<1>1. UNCHANGED <<firms, graph, raced, gone, stranded, request, server>>
  BY DEF store, history
<1>2. /\ job' = [i \in Job |-> job'[i]] /\ \A i \in Job \ {j} : job'[i] = job[i]
      /\ JobShape(job'[j]) /\ job'[j].pc = at
      /\ job'[j] = [pc |-> at, firm |-> job[j].firm, todo |-> job[j].todo,
                    written |-> job[j].written]
  BY WorkerFacts, GotoDoes
<1>3. job'[j].firm = job[j].firm /\ job'[j].written = job[j].written
  BY <1>2
<1>4. Works(j)
  BY <1>1, <1>2, <1>3, WorkerFacts DEF Works, Grown, Plain
<1>5. job[j].firm \notin raced => Linked(job'[j], graph')
  <2>1. job[j].firm \notin raced => Linked(job[j], graph)
    BY WorkerFacts
  <2>2. QED
    BY <1>1, <1>2, <1>3, <2>1 DEF Linked, Plain
<1>6. QED
  BY <1>1, <1>2, <1>4, <1>5, WorkKeeps

LEMMA ReadyKeeps ==
    ASSUME StoreInv, NEW j \in Job, Ready(j), UNCHANGED <<request, server>>
    PROVE  StoreInv'
<1>1. /\ Running(j) /\ job[j].pc = "ready" /\ Goto(j, "enrich")
      /\ UNCHANGED <<graph, raced, gone, stranded>>
      /\ Upsert(job[j].firm, Kind("ready", job[j].written, TRUE))
  BY DEF Ready, Running, Ended, history
<1>2. /\ job' = [i \in Job |-> job'[i]] /\ \A i \in Job \ {j} : job'[i] = job[i]
      /\ JobShape(job'[j]) /\ job'[j].pc = "enrich"
      /\ job'[j] = [pc |-> "enrich", firm |-> job[j].firm, todo |-> job[j].todo,
                    written |-> job[j].written]
  BY <1>1, WorkerFacts, GotoDoes DEF Plain
<1>3. job'[j].firm = job[j].firm /\ job'[j].written = job[j].written
  BY <1>2
<1>4. Works(j)
  BY <1>1, <1>2, <1>3, WorkerFacts DEF Works, Grown
<1>5. job[j].firm \notin raced => Linked(job[j], graph)
  BY <1>1, WorkerFacts
<1>6. Writes(j, "ready", job[j].written)
  <2>1. Kind("ready", job[j].written, TRUE) \in UpsertKind
    BY <1>1, WorkerFacts DEF Kind, UpsertKind, Status
  <2>2. Upserted(firms, firms', job[j].firm, "ready", job[j].written)
    BY <1>1, <2>1, WorkerFacts, UpsertDoes DEF Kind
  <2>3. QED
    BY <1>1, <1>5, <2>2 DEF Writes, Linked
<1>7. \E status, funds : Writes(j, status, funds)
  BY <1>6
<1>8. job[j].firm \notin raced => Linked(job'[j], graph')
  BY <1>1, <1>2, <1>3, <1>5 DEF Linked
<1>9. QED
  BY <1>4, <1>7, <1>8, WorkKeeps

\* A worker that ends, having marked the row or not.
LEMMA EndsKeeps ==
    ASSUME StoreInv, NEW j \in Job, Running(j), Goto(j, "closed"),
           UNCHANGED <<graph, raced, gone, request, server>>, stranded \subseteq stranded',
           \/ Upsert(job[j].firm, Kind("failed", {}, FALSE))
           \/ UNCHANGED firms /\ (job[j].pc \in Marking => job[j].firm \in stranded')
    PROVE  StoreInv'
<1>1. /\ job' = [i \in Job |-> job'[i]] /\ \A i \in Job \ {j} : job'[i] = job[i]
      /\ JobShape(job'[j]) /\ job'[j].pc = "closed"
  BY WorkerFacts, GotoDoes
<1>2. Works(j)
  BY <1>1, WorkerFacts DEF Works, Grown
<1>3. CASE UNCHANGED firms /\ (job[j].pc \in Marking => job[j].firm \in stranded')
  BY <1>1, <1>2, <1>3, WorkKeeps
<1>4. CASE Upsert(job[j].firm, Kind("failed", {}, FALSE))
  <2>1. Kind("failed", {}, FALSE) \in UpsertKind
    BY DEF Kind, UpsertKind, Status
  <2>2. Upserted(firms, firms', job[j].firm, "failed", {})
    BY <1>4, <2>1, WorkerFacts, UpsertDoes DEF Kind
  <2>3. Writes(j, "failed", {})
    BY <2>2 DEF Writes
  <2>4. QED
    BY <1>1, <1>2, <2>3, WorkKeeps
<1>5. QED
  BY <1>3, <1>4

\* A step that leaves what StoreInv is about alone.
LEMMA StoreStutters ==
    ASSUME StoreInv, UNCHANGED <<store, history, job, request>>,
           server' # "up" => server # "up" 
    PROVE  StoreInv'
<1>1. UNCHANGED <<firms, graph, raced, gone, stranded, job, request>>
  BY DEF store, history
<1>2. Table' /\ Graph' /\ Jobs'
  BY <1>1 DEF StoreInv, Table, Graph, Jobs
<1>3. \A n : OnIt(n)' = OnIt(n) /\ MarkedBy(n)' = MarkedBy(n)
  BY <1>1 DEF OnIt, MarkedBy, Running
<1>4. Requests' /\ Gone' /\ Marked'
  BY <1>1, <1>3 DEF StoreInv, Requests, Gone, DeletedStaysGone, Marked, Running, HasName
<1>5. Mirror'
  BY <1>1 DEF StoreInv, Mirror, MirrorBreaksOnlyByDelete, Mirrored, Running
<1>6. QED
  BY <1>2, <1>4, <1>5 DEF StoreInv

LEMMA WorkerKeeps == ASSUME StoreInv, NEW j \in Job, WorkerStep(j) PROVE StoreInv'
<1>1. UNCHANGED <<request, server>>
  BY DEF WorkerStep
<1>2. CASE BeginFails(j) \/ Begin(j) \/ MergeFirm(j) \/ Register(j) \/ SkipSeries(j) \/ WriteFund(j)
        \/ LinkToFirm(j) \/ Ready(j) \/ \E i \in Company : WriteHolding(j, i)
  BY <1>1, <1>2, BeginFailsKeeps, BeginKeeps, MergeFirmKeeps, RegisterKeeps, SkipSeriesKeeps, WriteFundKeeps,
     LinkToFirmKeeps, ReadyKeeps, WriteHoldingKeeps
<1>3. CASE Resolve(j)
  <2>1. Running(j) /\ job[j].pc = "series" /\ Goto(j, "ready") /\ UNCHANGED <<store, history>>
    BY <1>3 DEF Resolve, Running, Ended
  <2>2. QED
    BY <1>1, <2>1, GoesOnKeeps DEF Plain, Marking
<1>4. CASE Forward(j)
  BY <1>1, <1>4, StoreStutters DEF Forward
<1>5. CASE Complete(j)
  <2>1. /\ Running(j) /\ job[j].pc = "enrich" /\ Goto(j, "closed")
        /\ UNCHANGED <<graph, firms, raced, gone, stranded>>
    BY <1>5 DEF Complete, Running, Ended, store, history
  <2>2. QED
    BY <1>1, <2>1, EndsKeeps DEF Marking
<1>6. CASE Fail(j)
  <2>1. Running(j) /\ Goto(j, "closed") /\ UNCHANGED <<graph, raced, gone>>
    BY <1>6 DEF Fail, InTry, Running, Ended
  <2>2. \/ Upsert(job[j].firm, Kind("failed", {}, FALSE)) /\ UNCHANGED stranded
        \/ UNCHANGED firms /\ stranded' = stranded \cup {job[j].firm}
    BY <1>6 DEF Fail
  <2>3. QED
    BY <1>1, <2>1, <2>2, EndsKeeps
<1>7. QED
  BY <1>2, <1>3, <1>4, <1>5, <1>6 DEF WorkerStep

-------------------------------------------------------------------------------
(* The routes *)

LEMMA PostKeeps ==
    ASSUME StoreInv, NEW j \in Job, NEW n \in Name, Post(j, n) PROVE StoreInv'
<1> DEFINE y == [pc |-> "begin", firm |-> n, todo |-> SeriesOf[n], written |-> {}]
<1>1. /\ server = "up" /\ j = Posted + 1 /\ job' = [job EXCEPT ![j] = y]
      /\ gone' = gone \ {n} /\ raced \subseteq raced'
      /\ (\E c \in Client : request[c] = [pc |-> "graph", firm |-> n]) => n \in raced'
      /\ raced' \subseteq raced \cup {n}
      /\ UNCHANGED <<firms, graph, request, server, stranded>>
  BY DEF Post
<1>2. JobShape(y) /\ y.pc = "begin" /\ y.firm = n /\ y.written = {}
  BY OnboardingAssumption DEF JobShape, Pc, Plain, Ended
<1> HIDE DEF y
<1>3. PICK m \in 0 .. MaxJobs : \A i \in Job : job[i].pc # "new" <=> i <= m
  BY DEF StoreInv, Jobs
<1>4. j = m + 1
  <2>1. {i \in Job : job[i].pc # "new"} = 1 .. m
    BY <1>3, OnboardingAssumption DEF Job
  <2>2. Cardinality(1 .. m) = m
    BY <1>3, FS_Interval
  <2>3. QED
    BY <1>1, <2>1, <2>2 DEF Posted
<1>5. /\ job' = [i \in Job |-> job'[i]] /\ job'[j] = y /\ \A i \in Job \ {j} : job'[i] = job[i]
  BY <1>1 DEF StoreInv, Jobs
<1>6. job[j].pc = "new"
  BY <1>3, <1>4
<1>7. Jobs'
  <2>1. \A i \in Job : JobShape(job'[i])
    BY <1>2, <1>5 DEF StoreInv, Jobs
  <2>2. m + 1 \in 0 .. MaxJobs
    BY <1>3, <1>4 DEF Job
  <2>3. \A i \in Job : job'[i].pc # "new" <=> i <= m + 1
    <3>1. ASSUME NEW i \in Job, i # j PROVE i <= m <=> i <= m + 1
      BY <1>3, <1>4, <3>1 DEF Job
    <3>2. QED
      BY <1>2, <1>3, <1>4, <1>5, <3>1 DEF Job
  <2>4. QED
    BY <1>5, <2>1, <2>2, <2>3 DEF Jobs
<1>8. ASSUME NEW k, k # n PROVE OnIt(k)' = OnIt(k)
  <2>1. \A i \in Job : i \in OnIt(k)' <=> i \in OnIt(k)
    BY <1>2, <1>5, <1>6, <1>8 DEF OnIt, Running, Ended
  <2>2. QED
    BY <2>1 DEF OnIt
<1>9. \A k : MarkedBy(k) \subseteq MarkedBy(k)'
  BY <1>5, <1>6 DEF MarkedBy, Marking
<1>10. Table' /\ Graph'
  BY <1>1 DEF StoreInv, Table, Graph
<1>11. Requests'
  <2>1. ASSUME NEW c \in Client, request[c].pc = "graph", request[c].firm \notin raced'
        PROVE  ~HasName(firms, request[c].firm) /\ OnIt(request[c].firm)' = {}
    <3>1. RequestShape(request[c]) /\ ~HasName(firms, request[c].firm) /\ OnIt(request[c].firm) = {}
      BY <1>1, <2>1 DEF StoreInv, Requests
    <3>2. request[c].firm = n => request[c] = [pc |-> "graph", firm |-> n]
      BY <2>1, <3>1 DEF RequestShape
    <3>3. QED
      BY <1>1, <1>8, <2>1, <3>1, <3>2
  <2>2. QED
    BY <1>1, <2>1 DEF StoreInv, Requests, HasName
<1>12. Mirror'
  <2>1. ASSUME NEW i \in Job, Running(i)', job'[i].firm \notin raced' PROVE Linked(job'[i], graph')
    <3>1. CASE i = j
      BY <1>2, <1>5, <3>1 DEF Linked
    <3>2. CASE i # j
      BY <1>1, <1>5, <2>1, <3>2 DEF StoreInv, Mirror, Running
    <3>3. QED
      BY <3>1, <3>2
  <2>2. QED
    BY <1>1, <2>1 DEF StoreInv, Mirror, MirrorBreaksOnlyByDelete, Mirrored
<1>13. Gone'
  BY <1>1, <1>8 DEF StoreInv, Gone, DeletedStaysGone, HasName
<1>14. Marked'
  BY <1>1, <1>9 DEF StoreInv, Marked
<1>15. QED
  BY <1>7, <1>10, <1>11, <1>12, <1>13, <1>14 DEF StoreInv

\* A change to the table that adds and updates no row.
LEMMA KeptKeeps ==
    ASSUME StoreInv, Kept(firms, firms'), UNCHANGED <<graph, job, gone, stranded>>,
           raced \subseteq raced'
    PROVE  Table' /\ Graph' /\ Jobs' /\ Mirror' /\ Gone' /\ Marked'
<1>1. /\ IsTable(firms')
      /\ \A g \in DOMAIN firms' : g \in DOMAIN firms /\ SameRow(firms'[g], firms[g])
  BY DEF Kept
<1>2. Table' /\ Graph' /\ Jobs'
  BY <1>1 DEF StoreInv, Table, Graph, Jobs, SameRow
<1>3. \A n : OnIt(n)' = OnIt(n) /\ MarkedBy(n)' = MarkedBy(n)
  BY DEF OnIt, MarkedBy, Running
<1>4. Gone'
  BY <1>1, <1>3 DEF StoreInv, Gone, DeletedStaysGone, HasName, SameRow
<1>5. Marked'
  BY <1>1, <1>3 DEF StoreInv, Marked, SameRow
<1>6. Mirror'
  <2>1. MirrorBreaksOnlyByDelete'
    BY <1>1 DEF StoreInv, Mirror, MirrorBreaksOnlyByDelete, Mirrored, SameRow
  <2>2. QED
    BY <2>1 DEF StoreInv, Mirror, Running
<1>7. QED
  BY <1>2, <1>4, <1>5, <1>6

LEMMA SelectFirmKeeps == ASSUME StoreInv, NEW f, SelectFirm(f) PROVE StoreInv'
<1>1. Kept(firms, firms') /\ UNCHANGED <<graph, job, request, server, raced, gone, stranded>>
  BY ActivateKeeps DEF SelectFirm, StoreInv, Table, history
<1>2. Table' /\ Graph' /\ Jobs' /\ Mirror' /\ Gone' /\ Marked'
  BY <1>1, KeptKeeps
<1>3. Requests'
  <2>1. \A n : HasName(firms', n) => HasName(firms, n)
    BY <1>1 DEF Kept, SameRow, HasName
  <2>2. \A n : OnIt(n)' = OnIt(n)
    BY <1>1 DEF OnIt, Running
  <2>3. QED
    BY <1>1, <2>1, <2>2 DEF StoreInv, Requests, HasName, Running
<1>4. QED
  BY <1>2, <1>3 DEF StoreInv

LEMMA DeleteRowKeeps ==
    ASSUME StoreInv, NEW c \in Client, NEW f, DeleteRow(c, f) PROVE StoreInv'
<1> DEFINE n == firms[f].name
           q == [pc |-> "graph", firm |-> n]
<1>1. /\ server = "up" /\ f \in DOMAIN firms /\ firms' \in AfterDelete(firms, f, firms[f].active)
      /\ request' = [request EXCEPT ![c] = q] /\ raced \subseteq raced'
      /\ OnIt(n) # {} => n \in raced'
      /\ UNCHANGED <<graph, job, server, gone, stranded>>
  BY DEF DeleteRow
<1>2. n \in Name /\ q.firm = n /\ q.pc = "graph" /\ q = [pc |-> "graph", firm |-> q.firm]
  BY <1>1 DEF StoreInv, Table, IsTable, Row
<1>3. Kept(firms, firms') /\ f \notin DOMAIN firms'
  BY <1>1, DeleteKeeps DEF StoreInv, Table
<1>4. Table' /\ Graph' /\ Jobs' /\ Mirror' /\ Gone' /\ Marked'
  BY <1>1, <1>3, KeptKeeps
<1>5. ~HasName(firms', n)
  <2>1. \A g \in DOMAIN firms' : g \in DOMAIN firms /\ firms'[g].name = firms[g].name
    BY <1>3 DEF Kept, SameRow
  <2>2. \A g \in DOMAIN firms : slugify[firms[g].name] = g
    BY DEF StoreInv, Table
  <2>3. QED
    BY <1>1, <1>3, <2>1, <2>2 DEF HasName
<1> HIDE DEF n, q
<1>6. Requests'
  <2>1. \A m : HasName(firms', m) => HasName(firms, m)
    BY <1>3 DEF Kept, SameRow, HasName
  <2>2. \A m : OnIt(m)' = OnIt(m)
    BY <1>1 DEF OnIt, Running
  <2>3. /\ request' = [d \in Client |-> request'[d]] /\ request'[c] = q
        /\ \A d \in Client \ {c} : request'[d] = request[d]
    BY <1>1 DEF StoreInv, Requests
  <2>4. ASSUME NEW d \in Client, request'[d].pc = "graph",
               NEW m, m = request'[d].firm, m \notin raced'
        PROVE  ~HasName(firms', m) /\ OnIt(m)' = {}
    <3>1. CASE d = c
      BY <1>1, <1>2, <1>5, <2>2, <2>3, <2>4, <3>1
    <3>2. CASE d # c
      <4>1. request[d].pc = "graph" /\ m \notin raced /\ m = request[d].firm
        BY <1>1, <2>3, <2>4, <3>2
      <4>2. ~HasName(firms, m) /\ OnIt(m) = {}
        BY <4>1 DEF StoreInv, Requests
      <4>3. QED
        BY <2>1, <2>2, <4>2
    <3>3. QED
      BY <3>1, <3>2
  <2>5. \A d \in Client : RequestShape(request'[d])
    BY <1>2, <2>3 DEF StoreInv, Requests, RequestShape
  <2>6. QED
    BY <1>1, <2>3, <2>4, <2>5 DEF Requests, HasName, OnIt, Running, RequestShape
<1>7. QED
  BY <1>4, <1>6 DEF StoreInv

LEMMA RequestEnds ==
    ASSUME StoreInv, NEW c \in Client, request' = [request EXCEPT ![c] = [pc |-> "idle"]],
           UNCHANGED <<firms, job, server>>, raced \subseteq raced'
    PROVE  Requests'
<1>1. /\ request' = [d \in Client |-> request'[d]] /\ request'[c].pc = "idle"
      /\ \A d \in Client : RequestShape(request'[d])
      /\ \A d \in Client : request'[d].pc = "graph" => request'[d] = request[d]
  BY DEF StoreInv, Requests, RequestShape
<1>2. \A d \in Client : request'[d].pc # "idle" => request[d].pc # "idle"
  BY <1>1 DEF RequestShape
<1>3. ASSUME NEW d \in Client, request'[d].pc = "graph",
             NEW m, m = request'[d].firm, m \notin raced'
      PROVE  ~HasName(firms, m) /\ OnIt(m) = {}
  <2>1. request[d].pc = "graph" /\ m = request[d].firm /\ m \notin raced
    BY <1>1, <1>3
  <2>2. QED
    BY <2>1 DEF StoreInv, Requests
<1>4. \A m : OnIt(m)' = OnIt(m)
  BY DEF OnIt, Running
<1>5. server' # "up" => /\ \A d \in Client : request'[d].pc = "idle"
                        /\ \A j \in Job : ~Running(j)'
  BY <1>2 DEF StoreInv, Requests, Running
<1>6. QED
  BY <1>1, <1>3, <1>4, <1>5 DEF Requests, HasName, OnIt, Running

LEMMA DeleteGraphKeeps == ASSUME StoreInv, NEW c \in Client, DeleteGraph(c) PROVE StoreInv'
<1> DEFINE n == request[c].firm
<1>1. /\ request[c].pc = "graph" /\ graph' = DeleteFirm(graph, n)
      /\ request' = [request EXCEPT ![c] = [pc |-> "idle"]]
      /\ raced' = raced \cup Deprived(n)
      /\ gone \subseteq gone' /\ gone' \subseteq gone \cup {n} /\ (n \in raced => gone' = gone)
      /\ UNCHANGED <<firms, job, server, stranded>>
  BY DEF DeleteGraph
<1>2. n \in Name /\ (n \notin raced => ~HasName(firms, n) /\ OnIt(n) = {})
  BY <1>1 DEF StoreInv, Requests, RequestShape
<1>3. /\ graph' = [companies |-> graph'.companies, funds |-> graph'.funds,
                   managed |-> graph'.managed, holds |-> graph'.holds]
      /\ ManagedBy(graph', n) = {}
      /\ \A m : ManagedBy(graph', m) \subseteq ManagedBy(graph, m)
      /\ \A m : m # n => ManagedBy(graph, m) \ ManagedBy(graph, n) \subseteq ManagedBy(graph', m)
      /\ graph.companies \ {n} \subseteq graph'.companies
      /\ graph.funds \ ManagedBy(graph, n) \subseteq graph'.funds
  <2> HIDE DEF n
  <2>1. QED
    BY <1>1, DeleteFirmDoes
<1> HIDE DEF n
<1>4. \A m : OnIt(m)' = OnIt(m) /\ MarkedBy(m)' = MarkedBy(m)
  BY <1>1 DEF OnIt, MarkedBy, Running
<1>5. Table' /\ Graph' /\ Jobs'
  BY <1>1, <1>3 DEF StoreInv, Table, Graph, Jobs
<1>6. Requests'
  BY <1>1, RequestEnds
<1>7. Gone'
  BY <1>1, <1>2, <1>3, <1>4 DEF StoreInv, Gone, DeletedStaysGone, HasName
<1>8. Marked'
  BY <1>1, <1>4 DEF StoreInv, Marked
\* A firm of which the delete takes nothing.
<1>9. ASSUME NEW m \in Name, m \notin raced', HasName(firms, m) \/ OnIt(m) # {}
      PROVE  m # n /\ m \notin raced /\ FundsOf(m) \cap ManagedBy(graph, n) = {}
  BY <1>1, <1>2, <1>9 DEF Deprived
<1>10. ASSUME NEW f \in DOMAIN firms, firms[f].status = "ready", firms[f].name \notin raced'
       PROVE  firms[f].funds \subseteq ManagedBy(graph', firms[f].name)
  <2>1. firms[f].name \in Name /\ firms[f].funds \subseteq Fund /\ HasName(firms, firms[f].name)
    BY <1>10 DEF StoreInv, Table, IsTable, Row, HasName
  <2>2. firms[f].name # n /\ FundsOf(firms[f].name) \cap ManagedBy(graph, n) = {}
    BY <1>9, <1>10, <2>1
  <2>3. firms[f].funds \subseteq ManagedBy(graph, firms[f].name)
    BY <1>9, <1>10, <2>1 DEF StoreInv, Mirror, MirrorBreaksOnlyByDelete, Mirrored, ManagedBy
  <2>4. ManagedBy(graph, firms[f].name) \subseteq FundsOf(firms[f].name)
    BY DEF FundsOf
  <2>5. QED
    BY <1>3, <2>2, <2>3, <2>4
<1>11. ASSUME NEW i \in Job, Running(i), job[i].firm \notin raced'
       PROVE  Linked(job[i], graph')
  <2> DEFINE x == job[i]
  <2>1. JobShape(x) /\ x.firm \in Name /\ i \in OnIt(x.firm)
    BY <1>11, WorkerFacts DEF OnIt
  <2>2. x.firm # n /\ x.firm \notin raced /\ FundsOf(x.firm) \cap ManagedBy(graph, n) = {}
    BY <1>9, <1>11, <2>1
  <2>3. x.written \subseteq FundsOf(x.firm) /\ (x.pc = "holdings" => x.fund \in FundsOf(x.firm))
    BY <2>1 DEF FundsOf
  <2>4. Linked(x, graph)
    BY <1>11, <2>2 DEF StoreInv, Mirror
  <2> HIDE DEF x
  <2>5. x.written \subseteq ManagedBy(graph', x.firm)
    BY <1>3, <2>2, <2>3, <2>4 DEF Linked
  <2>6. QED
    BY <1>3, <2>2, <2>3, <2>4, <2>5 DEF Linked, x
<1>12. Mirror'
  BY <1>1, <1>10, <1>11 DEF Mirror, MirrorBreaksOnlyByDelete, Mirrored, ManagedBy, Running
<1>13. QED
  BY <1>5, <1>6, <1>7, <1>8, <1>12 DEF StoreInv

LEMMA DeleteGraphFailsKeeps ==
    ASSUME StoreInv, NEW c \in Client, DeleteGraphFails(c) PROVE StoreInv'
<1>1. /\ request' = [request EXCEPT ![c] = [pc |-> "idle"]]
      /\ UNCHANGED <<firms, graph, job, server, raced, gone, stranded>>
  BY DEF DeleteGraphFails, store, history
<1>2. Requests'
  BY <1>1, RequestEnds
<1>3. Kept(firms, firms')
  BY <1>1 DEF Kept, SameRow, StoreInv, Table
<1>4. QED
  BY <1>1, <1>2, <1>3, KeptKeeps DEF StoreInv

-------------------------------------------------------------------------------
(* The process *)

LEMMA CrashKeeps == ASSUME StoreInv, Crash PROVE StoreInv'
<1>1. /\ job' = [j \in Job |-> [pc |-> IF job[j].pc = "new" THEN "new" ELSE "lost"]]
      /\ request' = [c \in Client |-> [pc |-> "idle"]]
      /\ stranded' = stranded \cup {n \in Name : OnIt(n) # {}}
      /\ UNCHANGED <<firms, graph, raced, gone>>
  BY DEF Crash, store
<1>2. \A j \in Job : JobShape(job'[j]) /\ (job'[j].pc # "new" <=> job[j].pc # "new")
                     /\ job'[j].pc \in Ended
  BY <1>1 DEF JobShape, Pc, Plain, Ended
<1>3. Table' /\ Graph' /\ Jobs'
  BY <1>1, <1>2 DEF StoreInv, Table, Graph, Jobs
<1>4. \A j \in Job : ~Running(j)'
  BY <1>2 DEF Running
<1>5. \A n : OnIt(n)' = {}
  BY <1>4 DEF OnIt
<1>6. Requests'
  BY <1>1, <1>4 DEF Requests, RequestShape
<1>7. Mirror' /\ Gone'
  BY <1>1, <1>4, <1>5
     DEF StoreInv, Mirror, MirrorBreaksOnlyByDelete, Mirrored, Gone, DeletedStaysGone, HasName
<1>8. Marked'
  <2>1. ASSUME NEW f \in DOMAIN firms, firms[f].status = "onboarding",
               firms[f].name \notin stranded'
        PROVE  FALSE
    <3>1. firms[f].name \in Name
      BY DEF StoreInv, Table, IsTable, Row
    <3>2. MarkedBy(firms[f].name) # {}
      BY <1>1, <2>1 DEF StoreInv, Marked
    <3>3. MarkedBy(firms[f].name) \subseteq OnIt(firms[f].name)
      BY DEF MarkedBy, OnIt, Running, Marking, Ended
    <3>4. QED
      BY <1>1, <2>1, <3>1, <3>2, <3>3
  <2>2. QED
    BY <1>1, <2>1 DEF Marked
<1>9. QED
  BY <1>3, <1>6, <1>7, <1>8 DEF StoreInv

\* The startup's upserts, before any request or worker.
LEMMA SyncKeeps ==
    ASSUME StoreInv, server # "up", UNCHANGED <<graph, job, request, raced, gone, stranded>>,
           NEW n \in Name, NEW k \in UpsertKind, Upsert(n, k), k.status # "onboarding",
           k.status = "ready" => k.funds \subseteq ManagedBy(graph, n),
           n = DemoFirm \/ n \notin gone
    PROVE  StoreInv'
<1>1. Upserted(firms, firms', n, k.status, k.funds)
  BY UpsertDoes DEF StoreInv
<1>2. Table' /\ Graph' /\ Jobs'
  BY <1>1 DEF StoreInv, Table, Graph, Jobs, Upserted, SameRow
<1>3. \A m : OnIt(m)' = OnIt(m) /\ MarkedBy(m)' = MarkedBy(m)
  BY DEF OnIt, MarkedBy, Running
<1>4. Requests'
  BY DEF StoreInv, Requests, Running
<1>5. Mirror'
  <2>1. MirrorBreaksOnlyByDelete'
    BY <1>1 DEF StoreInv, Mirror, MirrorBreaksOnlyByDelete, Mirrored, Upserted, SameRow, ManagedBy
  <2>2. QED
    BY <2>1 DEF StoreInv, Mirror, Running
<1>6. Gone'
  BY <1>1, <1>3 DEF StoreInv, Gone, DeletedStaysGone, HasName, Upserted, SameRow
<1>7. Marked'
  BY <1>1, <1>3 DEF StoreInv, Marked, Upserted, SameRow
<1>8. QED
  BY <1>2, <1>4, <1>5, <1>6, <1>7 DEF StoreInv

LEMMA SyncFirmKeeps == ASSUME StoreInv, NEW n, SyncFirm(n) PROVE StoreInv'
<1> DEFINE k == Kind(IF n = DemoFirm THEN "demo" ELSE "ready", ManagedBy(graph, n), FALSE)
<1>1. /\ server # "up" /\ n \in Name /\ ManagedBy(graph, n) # {} /\ Upsert(n, k)
      /\ UNCHANGED <<graph, job, request, raced, gone, stranded>>
  BY DEF SyncFirm, GraphFirms, history
<1>2. /\ k \in UpsertKind /\ k.status # "onboarding"
      /\ k.funds = ManagedBy(graph, n)
  BY DEF Kind, UpsertKind, Status, ManagedBy
<1>3. n \notin gone
  BY <1>1 DEF StoreInv, Gone, DeletedStaysGone
<1> HIDE DEF k
<1>4. QED
  BY <1>1, <1>2, <1>3, SyncKeeps

LEMMA EnsureDemoKeeps == ASSUME StoreInv, EnsureDemo PROVE StoreInv'
<1> DEFINE k == Kind("demo", DemoFunds, FALSE)
<1>1. /\ server # "up" /\ UNCHANGED <<graph, job, request, raced, gone, stranded>>
      /\ Upsert(DemoFirm, k) \/ UNCHANGED firms
  BY DEF EnsureDemo, history
<1>2. k \in UpsertKind /\ k.status = "demo" /\ DemoFirm \in Name
  BY OnboardingAssumption DEF Kind, UpsertKind, Status
<1> HIDE DEF k
<1>3. CASE Upsert(DemoFirm, k)
  BY <1>1, <1>2, <1>3, SyncKeeps
<1>4. CASE UNCHANGED firms
  BY <1>1, <1>4, StoreStutters DEF store, history
<1>5. QED
  BY <1>1, <1>3, <1>4

LEMMA StoreKept == ASSUME StoreInv, [Next]_vars PROVE StoreInv'
<1>1. CASE \E j \in Job : WorkerStep(j) \/ \E n \in Name : Post(j, n)
  BY <1>1, WorkerKeeps, PostKeeps
<1>2. CASE \E f \in FirmId : SelectFirm(f)
  BY <1>2, SelectFirmKeeps
<1>3. CASE \E c \in Client : \/ \E f \in FirmId : DeleteRow(c, f)
                             \/ DeleteGraph(c) \/ DeleteGraphFails(c)
  BY <1>3, DeleteRowKeeps, DeleteGraphKeeps, DeleteGraphFailsKeeps
<1>4. CASE Boot \/ SyncEnds \/ UNCHANGED vars
  BY <1>4, StoreStutters DEF Boot, SyncEnds, vars, store, history
<1>5. QED
  BY <1>1, <1>2, <1>3, <1>4, CrashKeeps, SyncFirmKeeps, EnsureDemoKeeps DEF Next

-------------------------------------------------------------------------------
(* The streams *)

\* Event e is due from a worker that is at one place and goes to the next.
Due(at, e, next) ==
    /\ at \notin Ended /\ e \in Event /\ next \in Plain \cup {"holdings", "closed"}
    /\ e = "started" <=> at = "begin" /\ next # "closed"
    /\ e \in {"completed", "enriching"} => at = "enrich"
    /\ e = "completed" => next = "closed"
    /\ next = "ready" => at = "ready" \/ e = "resolved"
    /\ next = "enrich" => at = "enrich"
    /\ next = "closed" => e \in {"completed", "error"}
    /\ next # "begin"

LEMMA StreamGrows ==
    ASSUME NEW s, NEW at, NEW e, NEW next, StreamOk(s, at), Due(at, e, next),
           NEW t, t = s \o <<e>>
    PROVE  StreamOk(t, next)
<1>1. /\ s \in Seq(Event) /\ <<e>> \in Seq(Event) /\ Len(<<e>>) = 1 /\ <<e>>[1] = e
      /\ Len(s) \in Nat
  BY DEF StreamOk, Due
<1>2. /\ t \in Seq(Event) /\ Len(t) = Len(s) + 1 /\ t[Len(t)] = e
      /\ \A i \in 1 .. Len(s) : t[i] = s[i]
  BY <1>1, ConcatProperties
<1>3. t # <<>> /\ (s # <<>> => t[1] = s[1]) /\ (s = <<>> => t[1] = e)
  <2>1. s # <<>> => Len(s) >= 1
    BY <1>1, EmptySeq
  <2>2. s = <<>> => Len(s) = 0
    BY EmptySeq
  <2>3. Len(t) # 0
    BY <1>1, <1>2
  <2>4. QED
    BY <1>1, <1>2, <2>1, <2>2, <2>3, EmptySeq
<1>4. s # <<>> \/ at = "begin"
  BY DEF StreamOk, Due
<1>5. \A i \in 1 .. Len(s) : ResolvedBy(s, i) => ResolvedBy(t, i) /\ ResolvedBy(t, Len(t))
  BY <1>1, <1>2 DEF ResolvedBy
<1>6. at \in {"ready", "enrich"} => s # <<>> /\ ResolvedBy(t, Len(t))
  <2>1. ASSUME at \in {"ready", "enrich"} PROVE s # <<>> /\ ResolvedBy(s, Len(s))
    BY <2>1 DEF StreamOk, Ended
  <2>2. QED
    BY <1>1, <1>2, <2>1 DEF ResolvedBy
<1>7. next \in {"ready", "enrich"} => ResolvedBy(t, Len(t))
  <2>1. e = "resolved" => ResolvedBy(t, Len(t))
    BY <1>1, <1>2 DEF ResolvedBy
  <2>2. QED
    BY <1>6, <2>1 DEF Due
<1>8. next \notin Ended \cup {"begin"} => t # <<>> /\ t[1] = "started"
  BY <1>3, <1>4 DEF StreamOk, Due, Ended
<1>9. ASSUME NEW i \in 1 .. Len(t)
      PROVE  /\ t[i] = "started" => i = 1
             /\ t[i] = "completed" => i = Len(t) /\ next = "closed" /\ t[1] = "started"
                                      /\ ResolvedBy(t, i)
             /\ t[i] = "enriching" => ResolvedBy(t, i)
  <2>1. CASE i \in 1 .. Len(s)
    <3>1. t[i] # "completed"
      BY <1>2, <2>1 DEF StreamOk, Due, Ended
    <3>2. QED
      BY <1>2, <1>5, <2>1, <3>1 DEF StreamOk
  <2>2. CASE i = Len(t)
    <3>1. e = "started" => i = 1
      <4>1. e = "started" => s = <<>>
        BY DEF StreamOk, Due
      <4>2. QED
        BY <1>2, <2>2, <4>1
    <3>2. e \in {"completed", "enriching"} => ResolvedBy(t, i) /\ t[1] = "started"
      BY <1>3, <1>6, <2>2 DEF StreamOk, Due, Ended
    <3>3. QED
      BY <1>2, <2>2, <3>1, <3>2 DEF Due
  <2>3. QED
    BY <1>1, <1>2, <2>1, <2>2
<1>10. next = "closed" => t[Len(t)] \in {"completed", "error"}
  BY <1>2 DEF Due
<1>11. next \notin {"new", "begin", "lost"}
  BY DEF Due, Plain
<1>12. QED
  BY <1>2, <1>3, <1>7, <1>8, <1>9, <1>10, <1>11 DEF StreamOk

LEMMA StreamsKeep ==
    ASSUME Streams, NEW j \in Job, NEW e, Emit(j, <<e>>), Due(job[j].pc, e, job'[j].pc),
           \A i \in Job \ {j} : job'[i].pc = job[i].pc
    PROVE  Streams'
<1>1. /\ events' = [i \in Job |-> events'[i]] /\ events'[j] = events[j] \o <<e>>
      /\ \A i \in Job \ {j} : events'[i] = events[i]
  BY DEF Streams, Emit
<1>2. StreamOk(events'[j], job'[j].pc)
  <2>1. PICK s, t : StreamOk(s, job[j].pc) /\ t = s \o <<e>> /\ t = events'[j]
    BY <1>1 DEF Streams
  <2>2. PICK at, next : at = job[j].pc /\ next = job'[j].pc
    OBVIOUS
  <2>3. StreamOk(t, next)
    BY <2>1, <2>2, StreamGrows
  <2>4. QED
    BY <2>1, <2>2, <2>3
<1>3. \A i \in Job : StreamOk(events'[i], job'[i].pc)
  BY <1>1, <1>2 DEF Streams
<1>4. QED
  BY <1>1, <1>3 DEF Streams

\* Pairs of states between which a step puts nothing on the stream.
Quiet(at, next) ==
    next = at \/ <<at, next>> \in {<<"new", "begin">>, <<"merge", "register">>,
                                  <<"register", "series">>, <<"ready", "enrich">>}

LEMMA StreamsStutter ==
    ASSUME Streams, UNCHANGED events, \A j \in Job : Quiet(job[j].pc, job'[j].pc)
    PROVE  Streams'
<1>1. ASSUME NEW s, NEW at, NEW next, StreamOk(s, at), Quiet(at, next)
      PROVE  StreamOk(s, next)
  <2>1. CASE next = at
    BY <1>1, <2>1
  <2>2. CASE at = "new" /\ next = "begin"
    BY <1>1, <2>2 DEF StreamOk, Ended
  <2>3. CASE at = "register" /\ next = "series"
    BY <1>1, <2>3 DEF StreamOk, Ended
  <2>4. CASE at = "ready" /\ next = "enrich"
    BY <1>1, <2>4 DEF StreamOk, Ended
  <2>5. CASE at = "merge" /\ next = "register"
    BY <1>1, <2>5 DEF StreamOk, Ended
  <2>6. QED
    BY <1>1, <2>1, <2>2, <2>3, <2>4, <2>5 DEF Quiet
<1>2. QED
  BY <1>1 DEF Streams

LEMMA WorkerStreams ==
    ASSUME StoreInv, Streams, NEW j \in Job, WorkerStep(j) PROVE Streams'
<1> DEFINE x == job[j]
<1>1. Jobs
  BY DEF StoreInv
<1>2. ASSUME NEW at, Goto(j, at), Running(j),
             at = "closed" \/ (at \in Plain \ {"begin"} /\ x.pc \in Plain)
      PROVE  job'[j].pc = at /\ \A i \in Job \ {j} : job'[i].pc = job[i].pc
  BY <1>1, <1>2, GotoDoes
<1>3. ASSUME NEW y, job' = [job EXCEPT ![j] = y]
      PROVE  job'[j] = y /\ \A i \in Job \ {j} : job'[i].pc = job[i].pc
  BY <1>1, <1>3 DEF Jobs
<1>4. CASE BeginFails(j)
  <2>1. Running(j) /\ x.pc = "begin" /\ Goto(j, "closed") /\ Emit(j, <<"error">>)
    BY <1>4 DEF BeginFails, Running, Ended
  <2>2. QED
    BY <1>2, <2>1, StreamsKeep DEF Due, Ended, Event
<1>5. CASE Begin(j)
  <2>1. Running(j) /\ x.pc = "begin" /\ Goto(j, "merge") /\ Emit(j, <<"started">>)
    BY <1>5 DEF Begin, Running, Ended
  <2>2. QED
    BY <1>2, <2>1, StreamsKeep DEF Due, Ended, Event, Plain
<1>6. CASE Register(j)
  <2>1. Running(j) /\ x.pc = "register" /\ Goto(j, "series") /\ UNCHANGED events
    BY <1>6 DEF Register, Running, Ended
  <2>2. QED
    BY <1>2, <2>1, StreamsStutter DEF Quiet, Plain
<1>7. CASE SkipSeries(j)
  <2>1. x.pc = "series" /\ Emit(j, <<"parsed">>) /\ job' = [job EXCEPT ![j] = [x EXCEPT !.todo = Tail(x.todo)]]
    BY <1>7 DEF SkipSeries
  <2>2. job'[j].pc = "series" /\ \A i \in Job \ {j} : job'[i].pc = job[i].pc
    BY <1>3, <2>1
  <2>3. QED
    BY <2>1, <2>2, StreamsKeep DEF Due, Ended, Event, Plain
<1>8. CASE WriteFund(j)
  <2>1. PICK y : y.pc = "holdings" /\ job' = [job EXCEPT ![j] = y]
    BY <1>8 DEF WriteFund
  <2>2. x.pc = "series" /\ Emit(j, <<"parsed">>)
    BY <1>8 DEF WriteFund
  <2>3. QED
    BY <1>3, <2>1, <2>2, StreamsKeep DEF Due, Ended, Event, Plain
<1>9. CASE \E i \in Company : WriteHolding(j, i)
  <2>1. PICK i : WriteHolding(j, i)
    BY <1>9
  <2>2. UNCHANGED events /\ job' = [job EXCEPT ![j] = [x EXCEPT !.left = x.left \ {i}]]
    BY <2>1 DEF WriteHolding
  <2>3. job'[j].pc = x.pc /\ \A k \in Job \ {j} : job'[k].pc = job[k].pc
    BY <1>3, <2>2
  <2>4. QED
    BY <2>2, <2>3, StreamsStutter DEF Quiet
<1>10. CASE LinkToFirm(j)
  <2>1. PICK y : y.pc = "series" /\ job' = [job EXCEPT ![j] = y]
    BY <1>10 DEF LinkToFirm
  <2>2. x.pc = "holdings" /\ Emit(j, <<"written">>)
    BY <1>10 DEF LinkToFirm
  <2>3. QED
    BY <1>3, <2>1, <2>2, StreamsKeep DEF Due, Ended, Event, Plain
<1>11. CASE Resolve(j)
  <2>1. Running(j) /\ x.pc = "series" /\ Goto(j, "ready") /\ Emit(j, <<"resolved">>)
    BY <1>11 DEF Resolve, Running, Ended
  <2>2. QED
    BY <1>2, <2>1, StreamsKeep DEF Due, Ended, Event, Plain
<1>12. CASE Ready(j)
  <2>1. Running(j) /\ x.pc = "ready" /\ Goto(j, "enrich") /\ UNCHANGED events
    BY <1>12 DEF Ready, Running, Ended
  <2>2. QED
    BY <1>2, <2>1, StreamsStutter DEF Quiet, Plain
<1>13. CASE Forward(j)
  <2>1. x.pc = "enrich" /\ Emit(j, <<"enriching">>) /\ UNCHANGED job
    BY <1>13 DEF Forward
  <2>2. QED
    BY <2>1, StreamsKeep DEF Due, Ended, Event, Plain
<1>14. CASE Complete(j)
  <2>1. Running(j) /\ x.pc = "enrich" /\ Goto(j, "closed") /\ Emit(j, <<"completed">>)
    BY <1>14 DEF Complete, Running, Ended
  <2>2. QED
    BY <1>2, <2>1, StreamsKeep DEF Due, Ended, Event
\* The pipeline's error, and the worker's own.
<1>15. CASE Fail(j)
  <2>1. Running(j) /\ x.pc \in InTry /\ Goto(j, "closed") /\ Emit(j, <<"error", "error">>)
    BY <1>15 DEF Fail, InTry, Running, Ended
  <2>2. StreamOk(events[j], x.pc) /\ events[j] \in Seq(Event)
    BY DEF Streams, StreamOk
  <2>3. PICK s : s = events[j] \o <<"error">>
    OBVIOUS
  <2>4. StreamOk(s, x.pc)
    <3>1. Due(x.pc, "error", x.pc)
      BY <2>1 DEF Due, InTry, Ended, Event, Plain
    <3>2. QED
      BY <2>2, <2>3, <3>1, StreamGrows
  <2>5. StreamOk(s \o <<"error">>, "closed")
    BY <2>1, <2>4, StreamGrows DEF Due, InTry, Ended, Event
  <2>6. s \o <<"error">> = events[j] \o <<"error", "error">>
    <3>1. <<"error">> \in Seq(Event)
      BY DEF Event
    <3>2. <<"error">> \o <<"error">> = <<"error", "error">>
      <4> DEFINE u == <<"error">>
                 v == <<"error", "error">>
      <4>1. /\ u \in Seq(Event) /\ Len(u) = 1 /\ u[1] = "error"
            /\ v \in Seq(Event) /\ Len(v) = 2 /\ v[1] = "error" /\ v[2] = "error"
        BY DEF Event
      <4> HIDE DEF u, v
      <4>2. /\ u \o u \in Seq(Event) /\ Len(u \o u) = 2
            /\ (u \o u)[1] = "error" /\ (u \o u)[2] = "error"
        <5>1. /\ u \o u \in Seq(Event) /\ Len(u \o u) = Len(u) + Len(u)
              /\ \A i \in 1 .. Len(u) + Len(u) :
                    (u \o u)[i] = IF i <= Len(u) THEN u[i] ELSE u[i - Len(u)]
          BY <4>1, ConcatProperties
        <5>2. QED
          BY <4>1, <5>1
      <4>3. u \o u = v
        <5>1. \A i \in 1 .. Len(u \o u) : (u \o u)[i] = v[i]
          BY <4>1, <4>2
        <5>2. QED
          BY <4>1, <4>2, <5>1, SeqEqual
      <4>4. QED
        BY <4>3 DEF u, v
    <3>3. (events[j] \o <<"error">>) \o <<"error">> = events[j] \o (<<"error">> \o <<"error">>)
      BY <2>2, <3>1, ConcatAssociative
    <3>4. QED
      BY <2>3, <3>2, <3>3
  <2>7. /\ events' = [i \in Job |-> events'[i]] /\ events'[j] = events[j] \o <<"error", "error">>
        /\ \A i \in Job \ {j} : events'[i] = events[i]
    BY <2>1 DEF Streams, Emit
  <2>8. job'[j].pc = "closed" /\ \A i \in Job \ {j} : job'[i].pc = job[i].pc
    BY <1>2, <2>1
  <2>9. \A i \in Job : StreamOk(events'[i], job'[i].pc)
    BY <2>5, <2>6, <2>7, <2>8 DEF Streams
  <2>10. QED
    BY <2>7, <2>9 DEF Streams
<1>16. CASE MergeFirm(j)
  <2>1. Running(j) /\ x.pc = "merge" /\ Goto(j, "register") /\ UNCHANGED events
    BY <1>16 DEF MergeFirm, Running, Ended
  <2>2. QED
    BY <1>2, <2>1, StreamsStutter DEF Quiet, Plain
<1>17. QED
  BY <1>4, <1>5, <1>6, <1>7, <1>8, <1>9, <1>10, <1>11, <1>12, <1>13, <1>14, <1>15, <1>16
  DEF WorkerStep

LEMMA StreamsKept == ASSUME OnboardingInv, [Next]_vars PROVE Streams'
<1>1. StoreInv /\ Streams
  BY DEF OnboardingInv
<1>2. CASE \E j \in Job : WorkerStep(j)
  BY <1>1, <1>2, WorkerStreams
<1>3. CASE \E j \in Job, n \in Name : Post(j, n)
  <2>1. PICK j \in Job, n \in Name : Post(j, n)
    BY <1>3
  <2>2. job[j].pc = "new"
    <3>1. PICK m \in 0 .. MaxJobs : \A i \in Job : job[i].pc # "new" <=> i <= m
      BY <1>1 DEF StoreInv, Jobs
    <3>2. {i \in Job : job[i].pc # "new"} = 1 .. m
      BY <3>1, OnboardingAssumption DEF Job
    <3>3. Cardinality(1 .. m) = m
      BY <3>1, FS_Interval
    <3>4. j = m + 1
      BY <2>1, <3>2, <3>3 DEF Post, Posted
    <3>5. QED
      BY <3>1, <3>4
  <2>3. PICK y : y.pc = "begin" /\ job' = [job EXCEPT ![j] = y] /\ UNCHANGED events
    BY <2>1 DEF Post
  <2>4. job'[j] = y /\ \A i \in Job \ {j} : job'[i] = job[i]
    BY <1>1, <2>3 DEF StoreInv, Jobs
  <2>5. \A i \in Job : Quiet(job[i].pc, job'[i].pc)
    BY <2>2, <2>3, <2>4 DEF Quiet
  <2>6. QED
    BY <1>1, <2>3, <2>5, StreamsStutter
<1>4. CASE Crash
  <2>1. /\ events' = [j \in Job |-> <<>>]
        /\ job' = [j \in Job |-> [pc |-> IF job[j].pc = "new" THEN "new" ELSE "lost"]]
    BY <1>4 DEF Crash
  <2>2. StreamOk(<<>>, "new") /\ StreamOk(<<>>, "lost")
    BY EmptySeq DEF StreamOk, Ended
  <2>3. QED
    BY <2>1, <2>2 DEF Streams
<1>5. CASE UNCHANGED <<job, events>>
  BY <1>1, <1>5, StreamsStutter DEF Quiet
<1>6. QED
  BY <1>2, <1>3, <1>4, <1>5
     DEF Next, vars, SelectFirm, DeleteRow, DeleteGraph, DeleteGraphFails, Boot, SyncFirm,
         SyncEnds, EnsureDemo

-------------------------------------------------------------------------------
(* The theorems *)

LEMMA InitOnboarding == Init => OnboardingInv
<1> SUFFICES ASSUME Init PROVE OnboardingInv
  OBVIOUS
<1>1. /\ firms = EmptyTable /\ server = "down" /\ gone = {} /\ raced = {}
      /\ graph = [companies |-> {DemoFirm}, funds |-> DemoFunds,
                  managed |-> DemoFunds \X {DemoFirm}, holds |-> {}]
      /\ job = [j \in Job |-> [pc |-> "new"]] /\ events = [j \in Job |-> <<>>]
      /\ request = [c \in Client |-> [pc |-> "idle"]]
  BY DEF Init
<1>2. DOMAIN firms = {}
  BY <1>1 DEF EmptyTable
<1>3. Table
  BY <1>1, <1>2 DEF Table, IsTable, EmptyTable
<1>4. Graph
  BY <1>1 DEF Graph
<1>5. Jobs
  <2>1. \A j \in Job : JobShape(job[j])
    BY <1>1 DEF JobShape, Pc, Plain, Ended
  <2>2. 0 \in 0 .. MaxJobs /\ \A j \in Job : job[j].pc # "new" <=> j <= 0
    BY <1>1, OnboardingAssumption DEF Job
  <2>3. QED
    BY <1>1, <2>1, <2>2 DEF Jobs
<1>6. \A j \in Job : ~Running(j)
  BY <1>1 DEF Running, Ended
<1>7. Requests /\ Mirror /\ Gone /\ Marked
  BY <1>1, <1>2, <1>6 DEF Requests, RequestShape, Mirror, MirrorBreaksOnlyByDelete, Gone,
                          DeletedStaysGone, Marked
<1>8. Streams
  <2>1. StreamOk(<<>>, "new")
    BY EmptySeq DEF StreamOk, Ended
  <2>2. QED
    BY <1>1, <2>1 DEF Streams
<1>9. QED
  BY <1>3, <1>4, <1>5, <1>7, <1>8 DEF OnboardingInv, StoreInv

\* The state of the registry, the graph, the workers, the requests and the
\* streams that the other theorems follow from.
THEOREM OnboardingInvariant == Spec => []OnboardingInv
<1>1. OnboardingInv /\ [Next]_vars => OnboardingInv'
  BY StoreKept, StreamsKept DEF OnboardingInv
<1>2. QED
  BY InitOnboarding, <1>1, PTL DEF Spec

\* Every worker's stream has one leading job.started and at most one
\* job.completed, which ends it; the resolution precedes it and the enriching
\* stage; a closed stream ends in job.completed or an error.
THEOREM StreamContractHolds == Spec => []StreamContract
<1>1. OnboardingInv => StreamContract
  <2> SUFFICES ASSUME OnboardingInv, NEW j \in Job, NEW s, s = events[j]
               PROVE  /\ \A i \in DOMAIN s :
                           /\ s[i] = "started" => i = 1
                           /\ s[i] = "completed" =>
                                /\ i = Len(s) /\ job[j].pc = "closed"
                                /\ s[1] = "started" /\ \E k \in 1 .. i : s[k] = "resolved"
                           /\ s[i] = "enriching" => \E k \in 1 .. i : s[k] = "resolved"
                      /\ job[j].pc = "closed" => s # <<>> /\ s[Len(s)] \in {"completed", "error"}
    BY DEF StreamContract
  <2>1. StreamOk(s, job[j].pc)
    BY DEF OnboardingInv, Streams
  <2>2. DOMAIN s = 1 .. Len(s)
    BY <2>1 DEF StreamOk
  <2>3. QED
    BY <2>1, <2>2 DEF StreamOk, ResolvedBy
<1>2. QED
  BY <1>1, OnboardingInvariant, PTL

\* A ready row's funds are funds of the firm in the graph, unless a delete met
\* the firm's onboarding or took one of its funds.
THEOREM MirrorBreaksOnlyByDeleteHolds == Spec => []MirrorBreaksOnlyByDelete
<1>1. OnboardingInv => MirrorBreaksOnlyByDelete
  BY DEF OnboardingInv, StoreInv, Mirror
<1>2. QED
  BY <1>1, OnboardingInvariant, PTL

\* A firm whose delete succeeded undisturbed has no row and no fund until it is
\* onboarded again, whatever crashes and resynchronisations come between.
THEOREM DeletedStaysGoneHolds == Spec => []DeletedStaysGone
<1>1. OnboardingInv => DeletedStaysGone
  BY DEF OnboardingInv, StoreInv, Gone
<1>2. QED
  BY <1>1, OnboardingInvariant, PTL

\* A row says "onboarding" only while a worker is on the firm or after one was
\* killed or could not say that it failed.
THEOREM OnboardingRowHasWorkerHolds == Spec => []OnboardingRowHasWorker
<1>1. OnboardingInv => OnboardingRowHasWorker
  <2>1. \A n : MarkedBy(n) \subseteq OnIt(n)
    BY DEF MarkedBy, OnIt, Running, Marking, Ended
  <2>2. QED
    BY <2>1 DEF OnboardingInv, StoreInv, Marked, OnboardingRowHasWorker
<1>2. QED
  BY <1>1, OnboardingInvariant, PTL

-------------------------------------------------------------------------------
(* Enrichment: the inductive invariant *)

Filing == ({"holdings"} \X DOMAIN Held) \cup ({"funds"} \X DOMAIN FundKeys)
Ahead == {<<"holdings", i>> : i \in todo.holdings} \cup {<<"funds", i>> : i \in todo.funds}

PutEvent == {"started", "classified", "parsed", "chunked", "extracted", "resolved", "written",
             "error", "completed", "fatal", "sentinel"}
Last == {"completed", "fatal"}
Middle == PutEvent \ (Last \cup {"started", "sentinel"})

AtFiling == {"fetch", "extract", "write", "link"}
AtEnd == {"done", "broken"}

EnrichmentType ==
    /\ pc \in {"idle", "funds"} \cup AtFiling \cup AtEnd
    /\ planned = [holdings |-> planned.holdings, funds |-> planned.funds]
    /\ planned.holdings \in Nat /\ planned.funds \in Nat
    /\ todo = [holdings |-> todo.holdings, funds |-> todo.funds]
    /\ todo.holdings \subseteq DOMAIN Held /\ todo.funds \subseteq Usable
    /\ tally = [enriched |-> tally.enriched, failed |-> tally.failed,
                funds_enriched |-> tally.funds_enriched, funds_failed |-> tally.funds_failed]
    /\ tally.enriched \in Nat /\ tally.failed \in Nat
    /\ tally.funds_enriched \in Nat /\ tally.funds_failed \in Nat /\ degraded \in Nat
    /\ written \subseteq Filing /\ linked \subseteq Filing

\* What a filing counts for while it is counted and not yet gone by.
Counted(stage) == IF pc = "link" /\ Stage = stage THEN 1 ELSE 0
ToLink == IF pc = "link" /\ Subject \in written THEN 1 ELSE 0

\* The run keeps to its budget, and what it has taken on is counted or ahead.
Planned ==
    /\ planned.holdings <= MaxHoldings /\ planned.holdings + planned.funds <= MaxFilings
    /\ pc \in {"idle", "funds"} =>
        /\ todo.funds = {} /\ planned.funds = 0 /\ written = {} /\ linked = {} /\ degraded = 0
        /\ tally.enriched = 0 /\ tally.failed = 0 /\ tally.funds_enriched = 0 /\ tally.funds_failed = 0
    /\ pc = "idle" => todo.holdings = {}
    /\ pc = "funds" => planned.holdings = Cardinality(todo.holdings)
    /\ pc \in {"extract", "write", "link"} => ~AllDone
    /\ pc = "done" => AllDone
    /\ pc \in AtFiling \cup {"done"} =>
        /\ tally.enriched + tally.failed + Cardinality(todo.holdings) =
                planned.holdings + Counted("holdings")
        /\ tally.funds_enriched + tally.funds_failed + Cardinality(todo.funds) =
                planned.funds + Counted("funds")

\* No filing ahead is in the graph, but for the current one before its link;
\* and each that was enriched is linked, or about to be.
LinkedUp ==
    pc # "broken" =>
        /\ linked \cap Ahead = {}
        /\ \A x \in written \cap Ahead : pc = "link" /\ x = Subject
        /\ Cardinality(linked) + ToLink = tally.enriched + tally.funds_enriched - degraded

\* What was put: begun with "started", and ended when the worker has; the
\* sentinel comes after that and is the last to be drained.
Streamed ==
    /\ queue \in Seq(PutEvent) /\ received \in Seq(PutEvent)
    /\ client \in {"reading", "ended", "gone"}
    /\ client = "ended" => pc \in AtEnd /\ queue = <<>>
    /\ pc \in {"idle", "funds"} => Sent = <<>>
    /\ pc \in AtFiling =>
        /\ Sent # <<>> /\ Sent[1] = "started"
        /\ \A i \in 2 .. Len(Sent) : Sent[i] \in Middle
    /\ pc \in AtEnd =>
        LET n == IF client = "ended" THEN Len(Sent) ELSE Len(Sent) - 1 IN
        /\ n >= 1 /\ Sent[n] \in Last
        /\ client # "ended" => Sent[n + 1] = "sentinel"
        /\ \A i \in 1 .. n - 1 : Sent[i] \in Middle \cup {"started"}
    /\ Occurrences("error") = tally.failed + tally.funds_failed

Work == EnrichmentType /\ Planned /\ LinkedUp

EnrichmentInv == Work /\ Streamed

-------------------------------------------------------------------------------
(* Enrichment: rows and the budget *)

LEMMA LeastRow ==
    ASSUME NEW T, T \subseteq Nat, T # {}
    PROVE  Min(T) \in T
<1> DEFINE R == {p \in Nat \X Nat : p[1] < p[2]}
<1>1. IsWellFoundedOn(R, Nat)
  BY NatLessThanWellFounded DEF OpToRel
<1>2. \A x, y \in Nat : <<y, x>> \in R <=> y < x
  OBVIOUS
<1> HIDE DEF R
<1>3. PICK x \in T : \A y \in T : ~(<<y, x>> \in R)
  BY <1>1, WFMin
<1>4. \A y \in T : x <= y
  <2> SUFFICES ASSUME NEW y \in T PROVE x <= y
    OBVIOUS
  <2>1. x \in Nat /\ y \in Nat
    OBVIOUS
  <2>2. ~(y < x)
    BY <1>2, <1>3, <2>1
  <2>3. QED
    BY <2>1, <2>2
<1>5. QED
  BY <1>3, <1>4 DEF Min

LEMMA RowsAre ==
    /\ DOMAIN Held \subseteq Nat /\ IsFiniteSet(DOMAIN Held)
    /\ Usable \subseteq Nat /\ Usable \subseteq DOMAIN FundKeys /\ IsFiniteSet(DOMAIN FundKeys)
    /\ IsFiniteSet(Usable)
<1>1. IsFiniteSet(DOMAIN Held) /\ IsFiniteSet(DOMAIN FundKeys)
  BY EnrichmentAssumption, FS_Interval
<1>2. Usable \subseteq DOMAIN FundKeys
  BY DEF Usable
<1>3. IsFiniteSet(Usable)
  BY <1>1, <1>2, FS_Subset
<1>4. QED
  BY <1>1, <1>2, <1>3, EnrichmentAssumption

\* No two of the funds taken on share a registrant.
LEMMA UsableDistinct == \A i, j \in Usable : FundKeys[i] = FundKeys[j] => i = j
<1> SUFFICES ASSUME NEW i \in Usable, NEW j \in Usable, FundKeys[i] = FundKeys[j], i # j
             PROVE  FALSE
  OBVIOUS
<1>1. i \in Nat /\ j \in Nat /\ i >= 1 /\ j >= 1
  BY EnrichmentAssumption DEF Usable
<1>2. CASE i < j
  BY <1>1, <1>2 DEF Usable
<1>3. CASE j < i
  BY <1>1, <1>3 DEF Usable
<1>4. QED
  BY <1>1, <1>2, <1>3

\* The usable rows before a row tell the rows of a budget apart.
LEMMA WithinBudget ==
    ASSUME NEW b \in Nat
    PROVE  Within(b) \subseteq Usable /\ IsFiniteSet(Within(b)) /\ Cardinality(Within(b)) <= b
<1> DEFINE Before(i) == {j \in Usable : j < i}
           rank == [i \in Within(b) |-> Cardinality(Before(i))]
<1>1. Within(b) \subseteq Usable
  BY DEF Within
<1>2. \A i \in Usable : IsFiniteSet(Before(i)) /\ Cardinality(Before(i)) \in Nat
  BY RowsAre, FS_Subset, FS_CardinalityType
<1>3. ASSUME NEW i \in Usable, NEW j \in Usable, i < j PROVE Cardinality(Before(i)) # Cardinality(Before(j))
  <2>1. i \in Nat /\ j \in Nat /\ \A k \in Usable : k \in Nat
    BY RowsAre
  <2>2. ASSUME NEW k \in Usable, k < i PROVE k < j
    BY <1>3, <2>1, <2>2
  <2>3. Before(i) \subseteq Before(j)
    BY <2>2
  <2>4. i \in Before(j) /\ ~(i < i)
    BY <1>3, <2>1
  <2>5. QED
    BY <1>2, <2>3, <2>4, FS_Subset
<1>4. rank \in Injection(Within(b), 0 .. b - 1)
  <2>1. \A i \in Within(b) : Cardinality(Before(i)) \in 0 .. b - 1
    BY <1>1, <1>2 DEF Within
  <2>2. rank \in [Within(b) -> 0 .. b - 1]
    BY <2>1
  <2>3. ASSUME NEW i \in Within(b), NEW j \in Within(b), rank[i] = rank[j] PROVE i = j
    <3>1. i \in Nat /\ j \in Nat /\ i \in Usable /\ j \in Usable
      BY <1>1, RowsAre
    <3>2. Cardinality(Before(i)) = Cardinality(Before(j))
      BY <2>3
    <3>3. ~(i < j)
      BY <1>3, <3>1, <3>2
    <3>4. ~(j < i)
      BY <1>3, <3>1, <3>2
    <3> HIDE DEF Before
    <3>5. QED
      BY <3>1, <3>3, <3>4
  <2>4. QED
    BY <2>2, <2>3 DEF Injection, IsInjective
<1>5. IsFiniteSet(0 .. b - 1) /\ Cardinality(0 .. b - 1) = b
  BY FS_Interval
<1>6. IsFiniteSet(Within(b)) /\ Cardinality(Within(b)) <= Cardinality(0 .. b - 1)
  BY <1>4, <1>5, FS_Injection
<1>7. QED
  BY <1>1, <1>5, <1>6

LEMMA LesserOfTwo ==
    ASSUME NEW m \in Int, NEW n \in Int
    PROVE  Min({m, n}) = IF m <= n THEN m ELSE n
<1> DEFINE low == IF m <= n THEN m ELSE n
<1>1. low \in {m, n} /\ \A y \in {m, n} : low <= y
  OBVIOUS
<1>2. \A x \in {m, n} : (\A y \in {m, n} : x <= y) => x = low
  OBVIOUS
<1> HIDE DEF low
<1>3. Min({m, n}) = low
  BY <1>1, <1>2 DEF Min
<1>4. QED
  BY <1>3 DEF low

LEMMA GreaterOfTwo ==
    ASSUME NEW m \in Int, NEW n \in Int
    PROVE  Max({m, n}) = IF n <= m THEN m ELSE n
<1> DEFINE high == IF n <= m THEN m ELSE n
<1>1. high \in {m, n} /\ \A y \in {m, n} : high >= y
  OBVIOUS
<1>2. \A x \in {m, n} : (\A y \in {m, n} : x >= y) => x = high
  OBVIOUS
<1> HIDE DEF high
<1>3. Max({m, n}) = high
  BY <1>1, <1>2 DEF Max
<1>4. QED
  BY <1>3 DEF high

LEMMA ClampIs == ASSUME NEW top \in Int PROVE Clamp(top) \in 0 .. MaxHoldings
<1> DEFINE low == Min({top, MaxHoldings})
<1>1. MaxHoldings \in Nat
  BY EnrichmentAssumption
<1>2. low \in Int /\ low <= MaxHoldings
  BY <1>1, LesserOfTwo
<1> HIDE DEF low
<1>3. Max({0, low}) = IF low <= 0 THEN 0 ELSE low
  BY <1>2, GreaterOfTwo
<1>4. Clamp(top) = Max({0, low})
  BY DEF Clamp, low
<1>5. QED
  BY <1>1, <1>2, <1>3, <1>4

LEMMA LeftOver ==
    ASSUME NEW n \in Nat, n <= MaxFilings
    PROVE  Max({0, MaxFilings - n}) = MaxFilings - n /\ MaxFilings - n \in Nat
<1> DEFINE left == MaxFilings - n
<1>1. left \in Nat
  BY EnrichmentAssumption
<1>2. Max({0, left}) = IF left <= 0 THEN 0 ELSE left
  BY <1>1, GreaterOfTwo
<1>3. QED
  BY <1>1, <1>2

-------------------------------------------------------------------------------
(* Enrichment: the current filing *)

LEMMA CurrentIs ==
    ASSUME EnrichmentType, ~AllDone
    PROVE  /\ Stage \in {"holdings", "funds"} /\ Subject[1] = Stage
           /\ Subject[2] \in todo[Stage] /\ Subject \in Ahead
           /\ IsFiniteSet(todo.holdings) /\ IsFiniteSet(todo.funds)
           /\ Cardinality(todo.holdings) \in Nat /\ Cardinality(todo.funds) \in Nat
<1>1. todo.holdings \subseteq Nat /\ todo.funds \subseteq Nat
  BY RowsAre DEF EnrichmentType
<1>2. /\ IsFiniteSet(todo.holdings) /\ IsFiniteSet(todo.funds)
      /\ Cardinality(todo.holdings) \in Nat /\ Cardinality(todo.funds) \in Nat
  BY RowsAre, FS_Subset, FS_CardinalityType DEF EnrichmentType
<1>3. CASE todo.holdings # {}
  <2>1. Stage = "holdings" /\ Min(todo.holdings) \in todo.holdings
    BY <1>1, <1>3, LeastRow DEF Stage
  <2>2. QED
    BY <1>2, <2>1 DEF Subject, Ahead
<1>4. CASE todo.holdings = {}
  <2>1. Stage = "funds" /\ Min(todo.funds) \in todo.funds
    BY <1>1, <1>4, LeastRow DEF Stage, AllDone
  <2>2. QED
    BY <1>2, <2>1 DEF Subject, Ahead
<1>5. QED
  BY <1>3, <1>4

\* On to the next filing.
LEMMA GoneBy ==
    ASSUME EnrichmentType, ~AllDone, NextFiling
    PROVE  /\ todo' = [holdings |-> todo'.holdings, funds |-> todo'.funds]
           /\ todo'.holdings \subseteq DOMAIN Held /\ todo'.funds \subseteq Usable
           /\ Cardinality(todo'.holdings) =
                Cardinality(todo.holdings) - (IF Stage = "holdings" THEN 1 ELSE 0)
           /\ Cardinality(todo'.funds) =
                Cardinality(todo.funds) - (IF Stage = "holdings" THEN 0 ELSE 1)
           /\ Ahead' = Ahead \ {Subject}
<1>1. /\ Stage \in {"holdings", "funds"} /\ Subject = <<Stage, Subject[2]>>
      /\ Subject[2] \in todo[Stage]
      /\ IsFiniteSet(todo.holdings) /\ IsFiniteSet(todo.funds)
  BY CurrentIs DEF Subject
<1> DEFINE i == Subject[2]
<1>2. CASE Stage = "holdings"
  <2>1. todo' = [holdings |-> todo.holdings \ {i}, funds |-> todo.funds]
    BY <1>2 DEF NextFiling, EnrichmentType
  <2>2. Cardinality(todo.holdings \ {i}) = Cardinality(todo.holdings) - 1
    BY <1>1, <1>2, FS_RemoveElement
  <2>3. Ahead' = Ahead \ {Subject}
    BY <1>1, <1>2, <2>1 DEF Ahead
  <2>4. Cardinality(todo'.funds) = Cardinality(todo.funds) - 0
    BY <1>1, <2>1, FS_CardinalityType
  <2>5. QED
    BY <1>2, <2>1, <2>2, <2>3, <2>4 DEF EnrichmentType
<1>3. CASE Stage = "funds"
  <2>1. todo' = [holdings |-> todo.holdings, funds |-> todo.funds \ {i}]
    BY <1>3 DEF NextFiling, EnrichmentType
  <2>2. Cardinality(todo.funds \ {i}) = Cardinality(todo.funds) - 1
    BY <1>1, <1>3, FS_RemoveElement
  <2>3. Ahead' = Ahead \ {Subject}
    BY <1>1, <1>3, <2>1 DEF Ahead
  <2>4. Cardinality(todo'.holdings) = Cardinality(todo.holdings) - 0
    BY <1>1, <2>1, FS_CardinalityType
  <2>5. QED
    BY <1>3, <2>1, <2>2, <2>3, <2>4 DEF EnrichmentType
<1>4. QED
  BY <1>1, <1>2, <1>3

-------------------------------------------------------------------------------
(* Enrichment: what is put and drained *)

ErrorsIn(s) == {i \in 1 .. Len(s) : s[i] = "error"}

LEMMA ErrorsAreCounted ==
    ASSUME NEW s \in Seq(PutEvent)
    PROVE  IsFiniteSet(ErrorsIn(s)) /\ Cardinality(ErrorsIn(s)) \in Nat
<1>1. IsFiniteSet(1 .. Len(s))
  BY LenProperties, FS_Interval
<1>2. QED
  BY <1>1, FS_Subset, FS_CardinalityType DEF ErrorsIn

LEMMA NoMoreErrors ==
    ASSUME NEW s \in Seq(PutEvent), NEW t \in Seq(PutEvent), \A i \in 1 .. Len(t) : t[i] # "error"
    PROVE  Cardinality(ErrorsIn(s \o t)) = Cardinality(ErrorsIn(s))
<1>1. \A i \in 1 .. Len(s \o t) : (s \o t)[i] = "error" <=> i <= Len(s) /\ s[i] = "error"
  <2> SUFFICES ASSUME NEW i \in 1 .. Len(s) + Len(t)
               PROVE  (s \o t)[i] = "error" <=> i <= Len(s) /\ s[i] = "error"
    BY ConcatProperties
  <2>1. Len(s) \in Nat /\ Len(t) \in Nat
    BY LenProperties
  <2>2. (s \o t)[i] = IF i <= Len(s) THEN s[i] ELSE t[i - Len(s)]
    BY ConcatProperties
  <2>3. CASE i <= Len(s)
    BY <2>2, <2>3
  <2>4. CASE ~(i <= Len(s))
    <3>1. i - Len(s) \in 1 .. Len(t)
      BY <2>1, <2>4
    <3>2. QED
      BY <2>2, <2>4, <3>1
  <2>5. QED
    BY <2>3, <2>4
<1>2. Len(s) \in Nat /\ Len(t) \in Nat /\ Len(s \o t) = Len(s) + Len(t)
  BY LenProperties, ConcatProperties
<1>3. ErrorsIn(s \o t) = ErrorsIn(s)
  BY <1>1, <1>2 DEF ErrorsIn
<1>4. QED
  BY <1>3

LEMMA OneMoreError ==
    ASSUME NEW s \in Seq(PutEvent)
    PROVE  Cardinality(ErrorsIn(s \o <<"error">>)) = Cardinality(ErrorsIn(s)) + 1
<1> DEFINE t == <<"error">>
<1>1. t \in Seq(PutEvent) /\ Len(t) = 1 /\ t[1] = "error"
  BY DEF PutEvent
<1> HIDE DEF t
<1>2. Len(s) \in Nat /\ Len(s \o t) = Len(s) + 1
  BY <1>1, LenProperties, ConcatProperties
<1>3. \A i \in 1 .. Len(s) + 1 : (s \o t)[i] = IF i <= Len(s) THEN s[i] ELSE "error"
  BY <1>1, <1>2, ConcatProperties
<1>4. ErrorsIn(s \o t) = ErrorsIn(s) \cup {Len(s) + 1}
  BY <1>2, <1>3 DEF ErrorsIn
<1>5. Len(s) + 1 \notin ErrorsIn(s)
  BY <1>2 DEF ErrorsIn
<1>6. QED
  BY <1>4, <1>5, ErrorsAreCounted, FS_AddElement DEF t

\* Events are put behind those of before.
LEMMA PutDoes ==
    ASSUME queue \in Seq(PutEvent), received \in Seq(PutEvent), NEW t \in Seq(PutEvent), Put(t)
    PROVE  /\ Sent \in Seq(PutEvent) /\ Sent' = Sent \o t
           /\ queue' \in Seq(PutEvent) /\ received' = received /\ client' = client
           /\ Len(Sent) \in Nat /\ Len(t) \in Nat /\ Len(Sent') = Len(Sent) + Len(t)
           /\ \A i \in 1 .. Len(Sent) : Sent'[i] = Sent[i]
           /\ \A i \in Len(Sent) + 1 .. Len(Sent) + Len(t) : Sent'[i] = t[i - Len(Sent)]
<1>1. queue' = queue \o t /\ received' = received /\ client' = client
  BY DEF Put
<1>2. Sent \in Seq(PutEvent) /\ queue' \in Seq(PutEvent)
  BY <1>1, ConcatProperties DEF Sent
<1>3. Sent' = Sent \o t
  BY <1>1, ConcatAssociative DEF Sent
<1>4. Len(Sent) \in Nat /\ Len(t) \in Nat
  BY <1>2, LenProperties
<1>5. /\ Len(Sent \o t) = Len(Sent) + Len(t)
      /\ \A i \in 1 .. Len(Sent) + Len(t) :
            (Sent \o t)[i] = IF i <= Len(Sent) THEN Sent[i] ELSE t[i - Len(Sent)]
  BY <1>2, ConcatProperties
<1>6. QED
  BY <1>1, <1>2, <1>3, <1>4, <1>5

LEMMA SentIs ==
    ASSUME queue \in Seq(PutEvent), received \in Seq(PutEvent)
    PROVE  /\ Sent \in Seq(PutEvent) /\ Len(Sent) \in Nat
           /\ Occurrences("error") = Cardinality(ErrorsIn(Sent))
<1>1. Sent \in Seq(PutEvent)
  BY ConcatProperties DEF Sent
<1>2. Len(Sent) \in Nat /\ DOMAIN Sent = 1 .. Len(Sent)
  BY <1>1, LenProperties
<1>3. QED
  BY <1>1, <1>2 DEF Occurrences, ErrorsIn

\* What is drained was the next that the client had not got.
LEMMA DrainDoes ==
    ASSUME queue \in Seq(PutEvent), received \in Seq(PutEvent), queue # <<>>
    PROVE  /\ Append(received, Head(queue)) \o Tail(queue) = Sent
           /\ Append(received, Head(queue)) \in Seq(PutEvent) /\ Tail(queue) \in Seq(PutEvent)
           /\ Len(received) \in Nat /\ Len(received) < Len(Sent)
           /\ Head(queue) = Sent[Len(received) + 1]
           /\ Len(received) + 1 = Len(Sent) => Tail(queue) = <<>> /\ received = SubSeq(Sent, 1, Len(Sent) - 1)
<1> DEFINE head == Head(queue)
           tail == Tail(queue)
<1>1. head \in PutEvent /\ tail \in Seq(PutEvent) /\ Len(tail) = Len(queue) - 1
  BY HeadTailProperties
<1>2. queue = <<head>> \o tail
  BY HeadTailProperties, SubSeqRecursiveFirst, SubSeqFull, TailIsSubSeq, EmptySeq, LenProperties
<1>3. Append(received, head) = received \o <<head>> /\ <<head>> \in Seq(PutEvent)
  BY <1>1, AppendIsConcat
<1>4. Append(received, head) \o tail = Sent
  BY <1>1, <1>2, <1>3, ConcatAssociative DEF Sent
<1>5. Append(received, head) \in Seq(PutEvent)
  BY <1>1, AppendProperties
<1>6. Len(received) \in Nat /\ Len(queue) \in Nat \ {0} /\ Len(Sent) = Len(received) + Len(queue)
  BY LenProperties, EmptySeq, ConcatProperties DEF Sent
<1>7. head = queue[1] /\ Sent[Len(received) + 1] = queue[1]
  <2>1. Sent[Len(received) + 1] = queue[Len(received) + 1 - Len(received)]
    BY <1>6, ConcatProperties DEF Sent
  <2>2. QED
    BY <1>6, <2>1
<1>8. ASSUME Len(received) + 1 = Len(Sent)
      PROVE  tail = <<>> /\ received = SubSeq(Sent, 1, Len(Sent) - 1)
  <2>1. Len(tail) = 0
    BY <1>1, <1>6, <1>8
  <2>2. tail = <<>>
    BY <1>1, <2>1, EmptySeq
  <2>3. SubSeq(Sent, 1, Len(received)) = received
    <3>1. Sent \in Seq(PutEvent) /\ \A i \in 1 .. Len(received) : Sent[i] = received[i]
      BY <1>6, ConcatProperties DEF Sent
    <3>2. \A i \in 1 .. Len(received) : Sent[i] \in PutEvent
      BY <3>1, ElementOfSeq
    <3> DEFINE front == SubSeq(Sent, 1, Len(received))
    <3>3. /\ front \in Seq(PutEvent) /\ Len(front) = Len(received)
          /\ \A i \in 1 .. Len(received) : front[i] = Sent[i]
      <4>1. /\ front \in Seq(PutEvent)
            /\ Len(front) = IF 1 <= Len(received) THEN Len(received) - 1 + 1 ELSE 0
            /\ \A i \in 1 .. Len(received) - 1 + 1 : front[i] = Sent[1 + i - 1]
        BY <1>6, <3>2, SubSeqProperties
      <4>2. QED
        BY <1>6, <4>1
    <3> HIDE DEF front
    <3>4. front = received
      BY <3>1, <3>3, SeqEqual
    <3>5. QED
      BY <3>4 DEF front
  <2>4. QED
    BY <1>6, <1>8, <2>2, <2>3
<1>9. QED
  BY <1>1, <1>4, <1>5, <1>6, <1>7, <1>8

Failures == tally.failed + tally.funds_failed

LEMMA FailuresStay ==
    ASSUME Streamed, NEW t \in Seq(PutEvent), \A i \in 1 .. Len(t) : t[i] # "error", Put(t),
           Failures' = Failures
    PROVE  (Occurrences("error"))' = Failures'
<1>1. Sent \in Seq(PutEvent) /\ Sent' = Sent \o t /\ queue' \in Seq(PutEvent) /\ received' \in Seq(PutEvent)
  BY PutDoes DEF Streamed
<1>2. Cardinality(ErrorsIn(Sent')) = Cardinality(ErrorsIn(Sent))
  BY <1>1, NoMoreErrors
<1>3. (Occurrences("error"))' = Cardinality(ErrorsIn(Sent'))
  <2>1. DOMAIN Sent' = 1 .. Len(Sent')
    BY <1>1, ConcatProperties, LenProperties
  <2>2. QED
    BY <2>1 DEF Occurrences, ErrorsIn
<1>4. QED
  BY <1>2, <1>3, SentIs DEF Streamed, Failures

LEMMA FailureAdded ==
    ASSUME Streamed, NEW u \in Seq(PutEvent), \A i \in 1 .. Len(u) : u[i] # "error",
           Put(u \o <<"error">>), Failures' = Failures + 1
    PROVE  (Occurrences("error"))' = Failures'
<1> DEFINE t == u \o <<"error">>
<1>1. <<"error">> \in Seq(PutEvent) /\ t \in Seq(PutEvent)
  BY ConcatProperties DEF PutEvent
<1>2. Sent \in Seq(PutEvent) /\ Sent' = Sent \o t /\ queue' \in Seq(PutEvent) /\ received' \in Seq(PutEvent)
  BY <1>1, PutDoes DEF Streamed
<1>3. Sent' = (Sent \o u) \o <<"error">>
  BY <1>1, <1>2, ConcatAssociative
<1>4. Sent \o u \in Seq(PutEvent)
  BY <1>2, ConcatProperties
<1>5. Cardinality(ErrorsIn(Sent')) = Cardinality(ErrorsIn(Sent)) + 1
  BY <1>2, <1>3, <1>4, OneMoreError, NoMoreErrors
<1>6. (Occurrences("error"))' = Cardinality(ErrorsIn(Sent'))
  <2>1. DOMAIN Sent' = 1 .. Len(Sent')
    BY <1>1, <1>2, ConcatProperties, LenProperties
  <2>2. QED
    BY <2>1 DEF Occurrences, ErrorsIn
<1>7. QED
  BY <1>5, <1>6, SentIs DEF Streamed, Failures

LEMMA FirstOrLater == \A n \in Nat : n >= 1 => n = 1 \/ n \in 2 .. n
  OBVIOUS

\* Middle events leave the stream open.
LEMMA ProgressStreams ==
    ASSUME Streamed, pc \in AtFiling, pc' \in AtFiling, NEW t \in Seq(PutEvent), Len(t) > 0,
           \A i \in 1 .. Len(t) : t[i] \in Middle, Put(t), (Occurrences("error"))' = Failures'
    PROVE  Streamed' /\ Stream!Progress
<1>1. /\ Sent \in Seq(PutEvent) /\ Sent' = Sent \o t
      /\ queue' \in Seq(PutEvent) /\ received' = received /\ client' = client
      /\ Len(Sent) \in Nat /\ Len(t) \in Nat /\ Len(Sent') = Len(Sent) + Len(t)
      /\ \A i \in 1 .. Len(Sent) : Sent'[i] = Sent[i]
      /\ \A i \in Len(Sent) + 1 .. Len(Sent) + Len(t) : Sent'[i] = t[i - Len(Sent)]
  BY PutDoes DEF Streamed
<1>2. /\ Sent # <<>> /\ Sent[1] = "started" /\ Len(Sent) >= 1
      /\ \A i \in 2 .. Len(Sent) : Sent[i] \in Middle
      /\ client \in {"reading", "gone"}
  <2>1. Sent # <<>> /\ Sent[1] = "started" /\ \A i \in 2 .. Len(Sent) : Sent[i] \in Middle
    BY DEF Streamed
  <2>2. Len(Sent) >= 1
    BY <1>1, <2>1, EmptySeq
  <2>3. QED
    BY <2>1, <2>2 DEF Streamed, AtFiling, AtEnd
<1>3. \A i \in Len(Sent) + 1 .. Len(Sent') : Sent'[i] \in Middle
  <2> SUFFICES ASSUME NEW i \in Len(Sent) + 1 .. Len(Sent') PROVE Sent'[i] \in Middle
    OBVIOUS
  <2>1. i \in Len(Sent) + 1 .. Len(Sent) + Len(t) /\ i - Len(Sent) \in 1 .. Len(t)
    BY <1>1
  <2>2. QED
    BY <1>1, <2>1
<1>4. Sent' # <<>> /\ Sent'[1] = "started" /\ \A i \in 2 .. Len(Sent') : Sent'[i] \in Middle
  <2>1. Sent' # <<>>
    BY <1>1, <1>2, EmptySeq
  <2>2. \A i \in 2 .. Len(Sent') : i <= Len(Sent) \/ i \in Len(Sent) + 1 .. Len(Sent')
    BY <1>1
  <2>3. QED
    BY <1>1, <1>2, <1>3, <2>1, <2>2
<1>5. Streamed'
  BY <1>1, <1>2, <1>4 DEF Streamed, AtFiling, AtEnd, Failures
<1>6. Events = Sent /\ Events' = Sent'
  BY DEF Events, AtFiling
<1>7. Stream!Progress
  <2>1. Sent[Len(Sent)] \notin {"completed", "fatal"}
    <3>1. Len(Sent) \in Nat /\ Len(Sent) >= 1
      BY <1>1, <1>2
    <3>2. Len(Sent) = 1 \/ Len(Sent) \in 2 .. Len(Sent)
      BY <3>1, FirstOrLater
    <3>3. QED
      BY <1>2, <3>2 DEF Middle, Last
  <2>2. SubSeq(Sent', 1, Len(Sent)) = Sent
    <3>1. 1 \in 1 .. Len(Sent) /\ Len(Sent) \in 1 .. Len(Sent)
      BY <1>1, <1>2
    <3>2. SubSeq(Sent \o t, 1, Len(Sent)) = SubSeq(Sent, 1, Len(Sent))
      BY <1>1, <3>1, SubSeqOfConcat1
    <3>3. QED
      BY <1>1, <3>2, SubSeqFull
  <2>3. \A i \in Len(Sent) + 1 .. Len(Sent') : Sent'[i] \notin {"completed", "fatal", "started"}
    BY <1>3 DEF Middle, Last
  <2>4. Len(Sent') > Len(Sent)
    BY <1>1
  <2>5. QED
    BY <1>1, <1>2, <1>6, <2>1, <2>2, <2>3, <2>4 DEF Stream!Progress, Stream!Over, Stream!Ends
<1>8. QED
  BY <1>5, <1>7

LEMMA OpenStreams ==
    ASSUME Streamed, pc = "funds", pc' = "fetch", Put(<<"started">>), Failures' = Failures
    PROVE  Streamed' /\ Stream!Open
<1> DEFINE t == <<"started">>
<1>1. t \in Seq(PutEvent) /\ Len(t) = 1 /\ t[1] = "started"
  BY DEF PutEvent
<1> HIDE DEF t
<1>2. Put(t)
  BY DEF t
<1>3. Sent' = Sent \o t /\ queue' \in Seq(PutEvent) /\ received' = received /\ client' = client
  BY <1>1, <1>2, PutDoes DEF Streamed
<1>4. Sent = <<>> /\ Sent' = t
  <2>1. Sent = <<>>
    BY DEF Streamed
  <2>2. QED
    BY <1>1, <1>3, <2>1, ConcatEmptySeq
<1>5. (Occurrences("error"))' = Failures'
  <2>1. \A i \in 1 .. Len(t) : t[i] # "error"
    BY <1>1
  <2>2. QED
    BY <1>1, <1>2, <2>1, FailuresStay
<1>6. client \in {"reading", "gone"}
  BY DEF Streamed, AtEnd
<1>7. Sent' # <<>>
  BY <1>1, <1>4, EmptySeq
<1>8. Streamed'
  <2>1. Sent'[1] = "started" /\ \A i \in 2 .. Len(Sent') : Sent'[i] \in Middle
    <3>1. Sent'[1] = "started" /\ Len(Sent') = 1
      BY <1>1, <1>4
    <3>2. 2 .. Len(Sent') = {}
      BY <3>1
    <3>3. QED
      BY <3>1, <3>2
  <2>2. client' \in {"reading", "gone"}
    BY <1>3, <1>6
  <2>3. received' \in Seq(PutEvent)
    BY <1>3 DEF Streamed
  <2>4. QED
    BY <1>3, <1>5, <1>7, <2>1, <2>2, <2>3 DEF Streamed, AtFiling, AtEnd, Failures
<1>9. Stream!Open
  BY <1>3, <1>4 DEF Stream!Open, Events, t
<1>10. QED
  BY <1>8, <1>9

\* The worker's last event, and the sentinel.
LEMMA EndStreams ==
    ASSUME Streamed, pc \in {"funds"} \cup AtFiling, pc' \in AtEnd, NEW e \in Last,
           Put(<<e, "sentinel">>), Failures' = Failures
    PROVE  /\ Streamed'
           /\ Events' = Append(Events, e) /\ UNCHANGED <<received, client>>
           /\ ~Stream!Over /\ (pc # "funds" => Events # <<>>)
<1> DEFINE t == <<e, "sentinel">>
<1>1. t \in Seq(PutEvent) /\ Len(t) = 2 /\ t[1] = e /\ t[2] = "sentinel" /\ e \in PutEvent
  BY DEF PutEvent, Last
<1> HIDE DEF t
<1>2. Put(t)
  BY DEF t
<1>3. /\ Sent \in Seq(PutEvent) /\ Sent' = Sent \o t
      /\ queue' \in Seq(PutEvent) /\ received' = received /\ client' = client
      /\ Len(Sent) \in Nat /\ Len(t) \in Nat /\ Len(Sent') = Len(Sent) + Len(t)
      /\ \A i \in 1 .. Len(Sent) : Sent'[i] = Sent[i]
      /\ \A i \in Len(Sent) + 1 .. Len(Sent) + Len(t) : Sent'[i] = t[i - Len(Sent)]
  BY <1>1, <1>2, PutDoes DEF Streamed
<1>4. \A i \in 1 .. Len(Sent) : Sent[i] \in Middle \cup {"started"}
  <2>1. CASE pc = "funds"
    <3>1. Sent = <<>>
      BY <2>1 DEF Streamed
    <3>2. QED
      BY <3>1, EmptySeq
  <2>2. CASE pc \in AtFiling
    BY <1>3, <2>2 DEF Streamed
  <2>3. QED
    BY <2>1, <2>2
<1>5. client \in {"reading", "gone"}
  BY DEF Streamed, AtFiling, AtEnd
<1>6. /\ Len(Sent') = Len(Sent) + 2
      /\ Sent'[Len(Sent) + 1] = e /\ Sent'[Len(Sent) + 2] = "sentinel"
  <2>1. Sent'[Len(Sent) + 1] = t[Len(Sent) + 1 - Len(Sent)]
    BY <1>1, <1>3
  <2>2. Sent'[Len(Sent) + 2] = t[Len(Sent) + 2 - Len(Sent)]
    BY <1>1, <1>3
  <2>3. QED
    BY <1>1, <1>3, <2>1, <2>2
<1>7. (Occurrences("error"))' = Failures'
  <2>1. \A i \in 1 .. Len(t) : t[i] # "error"
    BY <1>1 DEF Last
  <2>2. QED
    BY <1>1, <1>2, <2>1, FailuresStay
<1>8. Streamed'
  <2>1. client' # "ended" /\ client' \in {"reading", "ended", "gone"}
    BY <1>3, <1>5
  <2>2. LET n == Len(Sent') - 1 IN
        /\ n >= 1 /\ Sent'[n] \in Last /\ Sent'[n + 1] = "sentinel"
        /\ \A i \in 1 .. n - 1 : Sent'[i] \in Middle \cup {"started"}
    BY <1>3, <1>4, <1>6
  <2>3. queue' \in Seq(PutEvent) /\ received' \in Seq(PutEvent)
    BY <1>3 DEF Streamed
  <2>4. QED
    BY <1>7, <2>1, <2>2, <2>3 DEF Streamed, AtFiling, AtEnd, Failures
<1>9. Events = Sent
  BY DEF Events, AtFiling
<1>10. Events' = Append(Sent, e)
  <2>1. Events' = SubSeq(Sent', 1, Len(Sent') - 1)
    BY <1>3, <1>5 DEF Events, AtEnd
  <2>2. Sent' \in Seq(PutEvent)
    BY <1>1, <1>3, ConcatProperties
  <2>3. \A i \in 1 .. Len(Sent') - 1 : Sent'[i] \in PutEvent
    BY <1>3, <1>6, <2>2, ElementOfSeq
  <2> DEFINE front == SubSeq(Sent', 1, Len(Sent') - 1)
  <2>4. /\ front \in Seq(PutEvent) /\ Len(front) = Len(Sent) + 1
        /\ \A i \in 1 .. Len(Sent) + 1 : front[i] = Sent'[i]
    <3>1. Len(Sent') - 1 \in Int /\ Len(Sent') - 1 = Len(Sent) + 1
      BY <1>3, <1>6
    <3>2. /\ front \in Seq(PutEvent)
          /\ Len(front) = IF 1 <= Len(Sent') - 1 THEN Len(Sent') - 1 - 1 + 1 ELSE 0
          /\ \A i \in 1 .. Len(Sent') - 1 - 1 + 1 : front[i] = Sent'[1 + i - 1]
      BY <2>3, <3>1, SubSeqProperties
    <3>3. QED
      BY <1>3, <3>1, <3>2
  <2> HIDE DEF front
  <2> DEFINE ended == Append(Sent, e)
  <2>5. /\ ended \in Seq(PutEvent) /\ Len(ended) = Len(Sent) + 1
        /\ \A i \in 1 .. Len(Sent) : ended[i] = Sent[i]
        /\ ended[Len(Sent) + 1] = e
    BY <1>1, <1>3, AppendProperties
  <2> HIDE DEF ended
  <2>6. \A i \in 1 .. Len(front) : front[i] = ended[i]
    <3> SUFFICES ASSUME NEW i \in 1 .. Len(Sent) + 1 PROVE front[i] = ended[i]
      BY <2>4
    <3>1. i \in 1 .. Len(Sent) \/ i = Len(Sent) + 1
      BY <1>3
    <3>2. QED
      BY <1>3, <1>6, <2>4, <2>5, <3>1
  <2>7. front = ended
    BY <2>4, <2>5, <2>6, SeqEqual
  <2>8. QED
    BY <2>1, <2>7 DEF front, ended
<1>11. ~Stream!Over
  <2>1. Sent = <<>> \/ Len(Sent) \in 1 .. Len(Sent)
    BY <1>3, EmptySeq
  <2>2. Sent = <<>> \/ Sent[Len(Sent)] \notin {"completed", "fatal"}
    BY <1>4, <2>1 DEF Middle, Last
  <2>3. QED
    BY <1>9, <2>2 DEF Stream!Over, Stream!Ends
<1>12. pc # "funds" => Events # <<>>
  BY <1>9 DEF Streamed
<1>13. QED
  BY <1>3, <1>8, <1>9, <1>10, <1>11, <1>12

LEMMA QuietStreams ==
    ASSUME Streamed, UNCHANGED stream, Failures' = Failures,
           \/ pc \in {"idle", "funds"} /\ pc' \in {"idle", "funds"}
           \/ pc \in AtFiling /\ pc' \in AtFiling
    PROVE  Streamed' /\ UNCHANGED <<Events, received, client>>
<1>1. queue' = queue /\ received' = received /\ client' = client
  BY DEF stream
<1>2. Sent' = Sent /\ (Occurrences("error"))' = Occurrences("error")
  BY <1>1 DEF Sent, Occurrences
<1>3. client # "ended"
  BY DEF Streamed, AtFiling, AtEnd
<1>4. Streamed'
  BY <1>1, <1>2, <1>3 DEF Streamed, AtFiling, AtEnd, Failures
<1>5. Events = Sent /\ Events' = Sent'
  BY DEF Events, AtFiling
<1>6. QED
  BY <1>1, <1>2, <1>4, <1>5

LEMMA HangUpStreams ==
    ASSUME Streamed, HangUp
    PROVE  Streamed' /\ Stream!HangUp
<1>1. /\ client = "reading" /\ client' = "gone"
      /\ UNCHANGED <<pc, tally, queue, received>>
  BY DEF HangUp
<1>2. Sent' = Sent /\ (Occurrences("error"))' = Occurrences("error") /\ Events' = Events
  BY <1>1 DEF Sent, Occurrences, Events
<1>3. Streamed'
  BY <1>1, <1>2 DEF Streamed
<1>4. QED
  BY <1>1, <1>2, <1>3 DEF Stream!HangUp

LEMMA DrainStreams ==
    ASSUME Streamed, pc \in {"idle", "funds"} \cup AtFiling \cup AtEnd, Drain
    PROVE  Streamed' /\ (Stream!Read \/ Stream!Close)
<1> DEFINE k == Len(received) + 1
<1>1. /\ client = "reading" /\ queue # <<>> /\ queue' = Tail(queue)
      /\ UNCHANGED <<pc, tally>>
      /\ queue \in Seq(PutEvent) /\ received \in Seq(PutEvent)
  BY DEF Drain, Streamed
<1>2. /\ Append(received, Head(queue)) \o Tail(queue) = Sent
      /\ Append(received, Head(queue)) \in Seq(PutEvent) /\ Tail(queue) \in Seq(PutEvent)
      /\ Len(received) \in Nat /\ Len(received) < Len(Sent)
      /\ Head(queue) = Sent[k]
      /\ k = Len(Sent) => Tail(queue) = <<>> /\ received = SubSeq(Sent, 1, Len(Sent) - 1)
  BY <1>1, DrainDoes
<1>3. Len(Sent) \in Nat /\ Sent \in Seq(PutEvent)
  BY <1>1, SentIs
<1>4. pc \in AtFiling \cup AtEnd
  <2>1. Sent # <<>>
    BY <1>2, <1>3, EmptySeq
  <2>2. QED
    BY <2>1 DEF Streamed
<1>5. k \in 1 .. Len(Sent)
  BY <1>2, <1>3
<1>6. CASE Head(queue) # "sentinel"
  <2>1. received' = Append(received, Head(queue)) /\ client' = client
    BY <1>6 DEF Drain
  <2>2. Sent' = Sent
    BY <1>1, <1>2, <2>1 DEF Sent
  <2>3. (Occurrences("error"))' = Occurrences("error") /\ Events' = Events
    BY <1>1, <2>1, <2>2 DEF Occurrences, Events
  <2>4. received' \in Seq(PutEvent) /\ queue' \in Seq(PutEvent)
    BY <1>1, <1>2, <2>1
  <2>5. Streamed'
    BY <1>1, <2>1, <2>2, <2>3, <2>4 DEF Streamed
  <2>6. Len(received) < Len(Events) /\ Events[k] = Sent[k]
    <3>1. CASE pc \in AtFiling
      <4>1. Events = Sent
        BY <3>1 DEF Events, AtFiling
      <4>2. QED
        BY <1>2, <4>1
    <3>2. CASE pc \in AtEnd
      <4>1. Events = SubSeq(Sent, 1, Len(Sent) - 1)
        BY <1>1, <3>2 DEF Events, AtEnd
      <4>2. Sent[Len(Sent) - 1 + 1] = "sentinel"
        BY <1>1, <3>2 DEF Streamed
      <4>3. k # Len(Sent)
        BY <1>2, <1>3, <1>6, <4>2
      <4>4. k \in 1 .. Len(Sent) - 1
        BY <1>3, <1>5, <4>3
      <4>5. \A i \in 1 .. Len(Sent) - 1 : Sent[i] \in PutEvent
        BY <1>3, ElementOfSeq
      <4>6. /\ Len(Events) = IF 1 <= Len(Sent) - 1 THEN Len(Sent) - 1 - 1 + 1 ELSE 0
            /\ \A i \in 1 .. Len(Sent) - 1 - 1 + 1 : Events[i] = Sent[1 + i - 1]
        BY <1>3, <4>1, <4>5, SubSeqProperties
      <4>7. QED
        BY <1>2, <1>3, <4>4, <4>6
    <3>3. QED
      BY <1>4, <3>1, <3>2
  <2>7. Stream!Read
    BY <1>1, <1>2, <2>1, <2>3, <2>6 DEF Stream!Read
  <2>8. QED
    BY <2>5, <2>7
<1>7. CASE Head(queue) = "sentinel"
  <2>1. client' = "ended" /\ received' = received
    BY <1>7 DEF Drain
  <2>2. pc \in AtEnd
    <3>1. ASSUME pc \in AtFiling PROVE FALSE
      <4>1. Sent[1] = "started" /\ \A i \in 2 .. Len(Sent) : Sent[i] \in Middle
        BY <3>1 DEF Streamed
      <4>2. k = 1 \/ k \in 2 .. Len(Sent)
        BY <1>2, <1>5
      <4>3. QED
        BY <1>2, <1>7, <4>1, <4>2 DEF Middle
    <3>2. QED
      BY <1>4, <3>1
  <2> DEFINE n == Len(Sent) - 1
  <2>3. /\ n >= 1 /\ Sent[n] \in Last
        /\ \A i \in 1 .. n - 1 : Sent[i] \in Middle \cup {"started"}
    BY <1>1, <2>2 DEF Streamed
  <2>4. k = Len(Sent)
    <3>1. k \in 1 .. n - 1 \/ k = n \/ k = Len(Sent)
      BY <1>3, <1>5
    <3>2. QED
      BY <1>2, <1>7, <2>3, <3>1 DEF Middle, Last
  <2>5. Tail(queue) = <<>> /\ received = SubSeq(Sent, 1, n)
    BY <1>2, <2>4
  <2>6. Sent' = received
    BY <1>1, <2>1, <2>5, ConcatEmptySeq DEF Sent
  <2>7. \A i \in 1 .. n : Sent[i] \in PutEvent
    BY <1>3, ElementOfSeq
  <2>8. Len(received) = n /\ \A i \in 1 .. n : received[i] = Sent[i]
    <3>1. n \in Int
      BY <1>3
    <3>2. /\ Len(received) = IF 1 <= n THEN n - 1 + 1 ELSE 0
          /\ \A i \in 1 .. n - 1 + 1 : received[i] = Sent[1 + i - 1]
      BY <2>5, <2>7, <3>1, SubSeqProperties
    <3> HIDE DEF n
    <3>3. QED
      BY <2>3, <3>1, <3>2
  <2>9. (Occurrences("error"))' = Occurrences("error")
    <3>1. (Occurrences("error"))' = Cardinality(ErrorsIn(received))
      <4>1. DOMAIN received = 1 .. Len(received)
        BY <1>1, LenProperties
      <4>2. QED
        BY <2>6, <4>1 DEF Occurrences, ErrorsIn
    <3>2. ErrorsIn(received) = ErrorsIn(Sent)
      <4>1. Sent[Len(Sent)] = "sentinel"
        BY <1>2, <1>7, <2>4
      <4>2. \A i \in 1 .. Len(Sent) : i \in 1 .. n \/ i = Len(Sent)
        BY <1>3
      <4>3. \A i \in 1 .. n : i \in 1 .. Len(Sent)
        BY <1>3
      <4> HIDE DEF n
      <4>4. QED
        BY <2>8, <4>1, <4>2, <4>3 DEF ErrorsIn
    <3>3. QED
      BY <1>1, <3>1, <3>2, SentIs
  <2>10. Streamed'
    <3>1. queue' = <<>> /\ queue' \in Seq(PutEvent) /\ received' \in Seq(PutEvent)
      BY <1>1, <1>2, <2>1, <2>5
    <3>2. Len(Sent') = n /\ \A i \in 1 .. n : Sent'[i] = Sent[i]
      BY <2>6, <2>8
    <3>3. Len(Sent') >= 1 /\ Sent'[Len(Sent')] \in Last
      <4>1. n \in 1 .. n
        BY <1>3, <2>3
      <4>2. QED
        BY <2>3, <3>2, <4>1
    <3>4. \A i \in 1 .. Len(Sent') - 1 : Sent'[i] \in Middle \cup {"started"}
      BY <1>3, <2>3, <3>2
    <3>5. pc' \in AtEnd
      BY <1>1, <2>2
    <3>6. (Occurrences("error"))' = tally'.failed + tally'.funds_failed
      BY <1>1, <2>9 DEF Streamed
    <3>7. QED
      BY <2>1, <3>1, <3>3, <3>4, <3>5, <3>6 DEF Streamed, AtFiling, AtEnd
  <2>11. Stream!Close
    <3>1. Events = received /\ Events' = received
      BY <1>1, <2>1, <2>2, <2>5, <2>6 DEF Events, AtEnd
    <3>2. received # <<>> /\ received[Len(received)] \in {"completed", "fatal"}
      <4>1. n \in 1 .. n
        BY <1>3, <2>3
      <4>2. received # <<>>
        BY <1>1, <2>3, <2>8, EmptySeq
      <4>3. QED
        BY <2>3, <2>8, <4>1, <4>2 DEF Last
    <3>3. QED
      BY <1>1, <2>1, <3>1, <3>2 DEF Stream!Close, Stream!Over, Stream!Ends
  <2>12. QED
    BY <2>10, <2>11
<1>8. QED
  BY <1>6, <1>7

-------------------------------------------------------------------------------
(* Enrichment: what is taken on, counted and linked *)

\* A filing counts for its stage, and for its outcome.
LEMMA CountDoes ==
    ASSUME EnrichmentType, NEW good \in BOOLEAN, Count(good)
    PROVE  /\ tally' = [enriched |-> tally'.enriched, failed |-> tally'.failed,
                        funds_enriched |-> tally'.funds_enriched,
                        funds_failed |-> tally'.funds_failed]
           /\ tally'.enriched \in Nat /\ tally'.failed \in Nat
           /\ tally'.funds_enriched \in Nat /\ tally'.funds_failed \in Nat
           /\ tally'.enriched + tally'.failed =
                tally.enriched + tally.failed + (IF Stage = "holdings" THEN 1 ELSE 0)
           /\ tally'.funds_enriched + tally'.funds_failed =
                tally.funds_enriched + tally.funds_failed + (IF Stage = "holdings" THEN 0 ELSE 1)
           /\ tally'.enriched + tally'.funds_enriched =
                tally.enriched + tally.funds_enriched + (IF good THEN 1 ELSE 0)
           /\ Failures' = Failures + (IF good THEN 0 ELSE 1)
<1>1. tally = [enriched |-> tally.enriched, failed |-> tally.failed,
               funds_enriched |-> tally.funds_enriched, funds_failed |-> tally.funds_failed]
  BY DEF EnrichmentType
<1>2. /\ tally.enriched \in Nat /\ tally.failed \in Nat
      /\ tally.funds_enriched \in Nat /\ tally.funds_failed \in Nat
  BY DEF EnrichmentType
<1>3. CASE good /\ Stage = "holdings"
  <2>1. tally' = [tally EXCEPT !["enriched"] = @ + 1]
    BY <1>3 DEF Count, Counter
  <2>2. tally' = [enriched |-> tally.enriched + 1,
                   failed |-> tally.failed,
                   funds_enriched |-> tally.funds_enriched,
                   funds_failed |-> tally.funds_failed]
    BY <1>1, <2>1
  <2>3. /\ tally'.enriched = tally.enriched + 1 /\ tally'.failed = tally.failed
        /\ tally'.funds_enriched = tally.funds_enriched /\ tally'.funds_failed = tally.funds_failed
    BY <2>2
  <2>4. QED
    BY <1>2, <1>3, <2>2, <2>3 DEF Failures
<1>4. CASE good /\ Stage # "holdings"
  <2>1. tally' = [tally EXCEPT !["funds_enriched"] = @ + 1]
    BY <1>4 DEF Count, Counter
  <2>2. tally' = [enriched |-> tally.enriched,
                   failed |-> tally.failed,
                   funds_enriched |-> tally.funds_enriched + 1,
                   funds_failed |-> tally.funds_failed]
    BY <1>1, <2>1
  <2>3. /\ tally'.enriched = tally.enriched /\ tally'.failed = tally.failed
        /\ tally'.funds_enriched = tally.funds_enriched + 1 /\ tally'.funds_failed = tally.funds_failed
    BY <2>2
  <2>4. QED
    BY <1>2, <1>4, <2>2, <2>3 DEF Failures
<1>5. CASE ~good /\ Stage = "holdings"
  <2>1. tally' = [tally EXCEPT !["failed"] = @ + 1]
    BY <1>5 DEF Count, Counter
  <2>2. tally' = [enriched |-> tally.enriched,
                   failed |-> tally.failed + 1,
                   funds_enriched |-> tally.funds_enriched,
                   funds_failed |-> tally.funds_failed]
    BY <1>1, <2>1
  <2>3. /\ tally'.enriched = tally.enriched /\ tally'.failed = tally.failed + 1
        /\ tally'.funds_enriched = tally.funds_enriched /\ tally'.funds_failed = tally.funds_failed
    BY <2>2
  <2>4. QED
    BY <1>2, <1>5, <2>2, <2>3 DEF Failures
<1>6. CASE ~good /\ Stage # "holdings"
  <2>1. tally' = [tally EXCEPT !["funds_failed"] = @ + 1]
    BY <1>6 DEF Count, Counter
  <2>2. tally' = [enriched |-> tally.enriched,
                   failed |-> tally.failed,
                   funds_enriched |-> tally.funds_enriched,
                   funds_failed |-> tally.funds_failed + 1]
    BY <1>1, <2>1
  <2>3. /\ tally'.enriched = tally.enriched /\ tally'.failed = tally.failed
        /\ tally'.funds_enriched = tally.funds_enriched /\ tally'.funds_failed = tally.funds_failed + 1
    BY <2>2
  <2>4. QED
    BY <1>2, <1>6, <2>2, <2>3 DEF Failures
<1>7. QED
  BY <1>3, <1>4, <1>5, <1>6

LEMMA FilingsAre ==
    ASSUME EnrichmentType
    PROVE  /\ IsFiniteSet(linked) /\ Cardinality(linked) \in Nat /\ Ahead \subseteq Filing
           /\ IsFiniteSet(todo.holdings) /\ IsFiniteSet(todo.funds)
           /\ Cardinality(todo.holdings) \in Nat /\ Cardinality(todo.funds) \in Nat
<1>1. IsFiniteSet({"holdings"}) /\ IsFiniteSet({"funds"})
  BY FS_Singleton
<1>2. IsFiniteSet({"holdings"} \X DOMAIN Held) /\ IsFiniteSet({"funds"} \X DOMAIN FundKeys)
  BY <1>1, RowsAre, FS_Product
<1>3. IsFiniteSet(Filing)
  BY <1>2, FS_Union DEF Filing
<1>4. IsFiniteSet(linked) /\ Cardinality(linked) \in Nat
  BY <1>3, FS_Subset, FS_CardinalityType DEF EnrichmentType
<1>5. IsFiniteSet(todo.holdings) /\ IsFiniteSet(todo.funds)
  BY RowsAre, FS_Subset DEF EnrichmentType
<1>6. Ahead \subseteq Filing
  BY RowsAre DEF EnrichmentType, Ahead, Filing
<1>7. QED
  BY <1>4, <1>5, <1>6, FS_CardinalityType

LEMMA StartWorks == ASSUME Work, NEW top \in Tops, Start(top) PROVE Work'
<1> DEFINE taken == {i \in DOMAIN Held : i <= Clamp(top) /\ Held[i] # Blank}
<1>1. /\ todo' = [holdings |-> taken, funds |-> {}]
      /\ planned' = [holdings |-> Cardinality(taken), funds |-> 0]
      /\ pc = "idle" /\ pc' = "funds"
      /\ UNCHANGED <<tally, written, linked, degraded>>
  BY DEF Start, Work, EnrichmentType, Planned, filings
<1>2. IsFiniteSet(taken) /\ Cardinality(taken) \in Nat /\ Cardinality(taken) <= MaxHoldings
  <2>1. Clamp(top) \in 0 .. MaxHoldings /\ MaxHoldings \in Nat
    BY ClampIs, EnrichmentAssumption
  <2>2. taken \subseteq 1 .. Clamp(top)
    BY <2>1, EnrichmentAssumption
  <2>3. IsFiniteSet(1 .. Clamp(top)) /\ Cardinality(1 .. Clamp(top)) = Clamp(top)
    BY <2>1, FS_Interval
  <2>4. IsFiniteSet(taken) /\ Cardinality(taken) <= Clamp(top)
    BY <2>2, <2>3, FS_Subset
  <2>5. QED
    BY <2>1, <2>4, FS_CardinalityType
<1>3. taken \subseteq DOMAIN Held
  OBVIOUS
<1> HIDE DEF taken
<1>4. EnrichmentType'
  BY <1>1, <1>2, <1>3 DEF Work, EnrichmentType
<1>5. Planned'
  BY <1>1, <1>2, EnrichmentAssumption DEF Work, Planned, EnrichmentType, AtFiling
<1>6. LinkedUp'
  <2>1. written = {} /\ linked = {} /\ tally.enriched = 0 /\ tally.funds_enriched = 0 /\ degraded = 0
    BY <1>1 DEF Work, Planned
  <2>2. QED
    BY <1>1, <2>1, FS_EmptySet DEF LinkedUp, ToLink
<1>7. QED
  BY <1>4, <1>5, <1>6 DEF Work

LEMMA ReadFundsWorks == ASSUME Work, ReadFunds PROVE Work' /\ Failures' = Failures
<1> DEFINE budget == MaxFilings - planned.holdings
           taken == Within(budget)
<1>1. pc = "funds" /\ planned.holdings \in Nat /\ planned.holdings <= MaxFilings
  BY EnrichmentAssumption DEF ReadFunds, Work, Planned, EnrichmentType
<1>2. budget \in Nat /\ Max({0, budget}) = budget
  BY <1>1, LeftOver
<1>3. taken \subseteq Usable /\ IsFiniteSet(taken) /\ Cardinality(taken) <= budget
  BY <1>2, WithinBudget
<1>4. /\ todo' = [holdings |-> todo.holdings, funds |-> taken]
      /\ planned' = [holdings |-> planned.holdings, funds |-> Cardinality(taken)]
      /\ pc' = "fetch"
      /\ UNCHANGED <<tally, written, linked, degraded>>
  BY <1>2 DEF ReadFunds, Plan, Work, EnrichmentType, filings
<1>5. Cardinality(taken) \in Nat /\ planned.holdings + Cardinality(taken) <= MaxFilings
  BY <1>1, <1>2, <1>3, FS_CardinalityType, EnrichmentAssumption
<1> HIDE DEF taken
<1>6. EnrichmentType'
  BY <1>3, <1>4, <1>5 DEF Work, EnrichmentType, AtFiling
<1>7. Planned'
  <2>1. tally = [enriched |-> 0, failed |-> 0, funds_enriched |-> 0, funds_failed |-> 0]
    BY <1>1 DEF Work, Planned, EnrichmentType
  <2>2. planned.holdings = Cardinality(todo.holdings) /\ planned.holdings <= MaxHoldings
    BY <1>1 DEF Work, Planned
  <2>3. QED
    BY <1>1, <1>4, <1>5, <2>1, <2>2 DEF Planned, Counted, AtFiling
<1>8. LinkedUp'
  <2>1. written = {} /\ linked = {} /\ tally.enriched = 0 /\ tally.funds_enriched = 0 /\ degraded = 0
    BY <1>1 DEF Work, Planned
  <2>2. QED
    BY <1>4, <2>1, FS_EmptySet DEF LinkedUp, ToLink
<1>9. QED
  BY <1>4, <1>6, <1>7, <1>8 DEF Work, Failures

\* A filing's fetch, chunks and extraction count for nothing yet.
LEMMA FilingWorks ==
    ASSUME Work, pc \in {"fetch", "extract"}, pc' \in {"extract", "write"}, ~AllDone,
           UNCHANGED <<planned, todo, tally, filings, degraded>>
    PROVE  Work' /\ Failures' = Failures
<1>1. planned' = planned /\ todo' = todo /\ tally' = tally /\ written' = written /\ linked' = linked
      /\ degraded' = degraded
  BY DEF filings
<1>2. EnrichmentType'
  BY <1>1 DEF Work, EnrichmentType, AtFiling
<1>3. Planned'
  BY <1>1 DEF Work, Planned, Counted, AllDone, AtFiling
<1>4. LinkedUp'
  BY <1>1 DEF Work, LinkedUp, ToLink, Ahead
<1>5. QED
  BY <1>1, <1>2, <1>3, <1>4 DEF Work, Failures

\* A filing that fails is counted as that, and gone by, in the graph or not.
LEMMA FailureWorks ==
    ASSUME Work, pc \in {"fetch", "write"}, pc' = "fetch", ~AllDone, Count(FALSE), NextFiling,
           UNCHANGED <<planned, linked, degraded>>, written' \in {written, written \cup {Subject}}
    PROVE  Work' /\ Failures' = Failures + 1
<1>1. EnrichmentType
  BY DEF Work
<1>2. /\ tally' = [enriched |-> tally'.enriched, failed |-> tally'.failed,
                   funds_enriched |-> tally'.funds_enriched, funds_failed |-> tally'.funds_failed]
      /\ tally'.enriched \in Nat /\ tally'.failed \in Nat
      /\ tally'.funds_enriched \in Nat /\ tally'.funds_failed \in Nat
      /\ tally'.enriched + tally'.failed =
            tally.enriched + tally.failed + (IF Stage = "holdings" THEN 1 ELSE 0)
      /\ tally'.funds_enriched + tally'.funds_failed =
            tally.funds_enriched + tally.funds_failed + (IF Stage = "holdings" THEN 0 ELSE 1)
      /\ tally'.enriched + tally'.funds_enriched = tally.enriched + tally.funds_enriched + 0
      /\ Failures' = Failures + 1
  BY <1>1, CountDoes
<1>3. /\ todo' = [holdings |-> todo'.holdings, funds |-> todo'.funds]
      /\ todo'.holdings \subseteq DOMAIN Held /\ todo'.funds \subseteq Usable
      /\ Cardinality(todo'.holdings) =
            Cardinality(todo.holdings) - (IF Stage = "holdings" THEN 1 ELSE 0)
      /\ Cardinality(todo'.funds) =
            Cardinality(todo.funds) - (IF Stage = "holdings" THEN 0 ELSE 1)
      /\ Ahead' = Ahead \ {Subject}
  BY <1>1, GoneBy
<1>4. Subject \in Filing /\ Cardinality(linked) \in Nat
      /\ Cardinality(todo.holdings) \in Nat /\ Cardinality(todo.funds) \in Nat
  BY <1>1, CurrentIs, FilingsAre
<1>5. EnrichmentType'
  BY <1>2, <1>3, <1>4 DEF Work, EnrichmentType, AtFiling
<1>6. Planned'
  <2>1. /\ tally.enriched + tally.failed + Cardinality(todo.holdings) = planned.holdings
        /\ tally.funds_enriched + tally.funds_failed + Cardinality(todo.funds) = planned.funds
        /\ planned.holdings <= MaxHoldings /\ planned.holdings + planned.funds <= MaxFilings
    BY <1>1 DEF Work, Planned, Counted, AtFiling, EnrichmentType
  <2>2. /\ tally'.enriched + tally'.failed + Cardinality(todo'.holdings) = planned'.holdings + 0
        /\ tally'.funds_enriched + tally'.funds_failed + Cardinality(todo'.funds) = planned'.funds + 0
    BY <1>1, <1>2, <1>3, <1>4, <2>1 DEF EnrichmentType
  <2>3. QED
    BY <2>1, <2>2 DEF Planned, Counted
<1>7. LinkedUp'
  <2>1. /\ linked \cap Ahead = {} /\ written \cap Ahead = {}
        /\ Cardinality(linked) + 0 = tally.enriched + tally.funds_enriched - degraded
    BY DEF Work, LinkedUp, ToLink
  <2>2. written' \cap Ahead' = {} /\ linked' \cap Ahead' = {}
    BY <1>3, <2>1
  <2>3. QED
    BY <1>1, <1>2, <2>1, <2>2 DEF LinkedUp, ToLink, EnrichmentType
<1>8. QED
  BY <1>2, <1>5, <1>6, <1>7 DEF Work

\* A filing that goes through is counted, and to be linked if it is in the
\* graph; one without extractions is not, and counted as degraded.
LEMMA SuccessWorks ==
    ASSUME Work, pc \in {"extract", "write"}, pc' = "link", Count(TRUE),
           UNCHANGED <<planned, todo, linked>>,
           \/ written' = written /\ degraded' = degraded + 1
           \/ written' = written \cup {Subject} /\ degraded' = degraded
    PROVE  Work' /\ Failures' = Failures
<1>1. EnrichmentType /\ ~AllDone
  BY DEF Work, Planned
<1>2. /\ tally' = [enriched |-> tally'.enriched, failed |-> tally'.failed,
                   funds_enriched |-> tally'.funds_enriched, funds_failed |-> tally'.funds_failed]
      /\ tally'.enriched \in Nat /\ tally'.failed \in Nat
      /\ tally'.funds_enriched \in Nat /\ tally'.funds_failed \in Nat
      /\ tally'.enriched + tally'.failed =
            tally.enriched + tally.failed + (IF Stage = "holdings" THEN 1 ELSE 0)
      /\ tally'.funds_enriched + tally'.funds_failed =
            tally.funds_enriched + tally.funds_failed + (IF Stage = "holdings" THEN 0 ELSE 1)
      /\ tally'.enriched + tally'.funds_enriched = tally.enriched + tally.funds_enriched + 1
      /\ Failures' = Failures + 0
  BY <1>1, CountDoes
<1>3. /\ Stage \in {"holdings", "funds"} /\ Subject \in Ahead /\ Subject \in Filing
      /\ Cardinality(linked) \in Nat
      /\ Cardinality(todo.holdings) \in Nat /\ Cardinality(todo.funds) \in Nat
  BY <1>1, CurrentIs, FilingsAre
<1>4. EnrichmentType'
  BY <1>1, <1>2, <1>3 DEF EnrichmentType, AtFiling
<1>5. Stage' = Stage /\ Subject' = Subject /\ Ahead' = Ahead /\ AllDone' = AllDone
  BY DEF Stage, Subject, Ahead, AllDone
<1>6. Planned'
  <2>1. /\ tally.enriched + tally.failed + Cardinality(todo.holdings) = planned.holdings
        /\ tally.funds_enriched + tally.funds_failed + Cardinality(todo.funds) = planned.funds
        /\ planned.holdings <= MaxHoldings /\ planned.holdings + planned.funds <= MaxFilings
    BY <1>1 DEF Work, Planned, Counted, AtFiling, EnrichmentType
  <2>2. /\ (Counted("holdings"))' = IF Stage = "holdings" THEN 1 ELSE 0
        /\ (Counted("funds"))' = IF Stage = "holdings" THEN 0 ELSE 1
    BY <1>3, <1>5 DEF Counted
  <2>3. /\ tally'.enriched + tally'.failed + Cardinality(todo'.holdings) =
                planned'.holdings + (Counted("holdings"))'
        /\ tally'.funds_enriched + tally'.funds_failed + Cardinality(todo'.funds) =
                planned'.funds + (Counted("funds"))'
    BY <1>1, <1>2, <1>3, <2>1, <2>2 DEF EnrichmentType
  <2>4. QED
    BY <1>1, <1>5, <2>1, <2>3 DEF Planned
<1>7. LinkedUp'
  <2>1. /\ linked \cap Ahead = {} /\ written \cap Ahead = {}
        /\ Cardinality(linked) + 0 = tally.enriched + tally.funds_enriched - degraded
    BY DEF Work, LinkedUp, ToLink
  <2>2. Subject \notin written
    BY <1>3, <2>1
  <2>3. ToLink' = IF degraded' = degraded THEN 1 ELSE 0
    BY <1>1, <1>5, <2>2 DEF ToLink, EnrichmentType
  <2>4. Cardinality(linked) + ToLink' = tally'.enriched + tally'.funds_enriched - degraded'
    BY <1>1, <1>2, <1>3, <2>1, <2>3 DEF EnrichmentType
  <2>5. \A x \in written' \cap Ahead' : x = Subject'
    BY <1>5, <2>1
  <2>6. QED
    BY <1>5, <2>1, <2>4, <2>5 DEF LinkedUp
<1>8. QED
  BY <1>1, <1>2, <1>4, <1>6, <1>7 DEF Work, Failures, EnrichmentType

LEMMA LinkWorks == ASSUME Work, LinkSubject PROVE Work' /\ Failures' = Failures
<1>1. EnrichmentType /\ ~AllDone /\ pc = "link" /\ pc' = "fetch"
  BY DEF Work, Planned, LinkSubject
<1>2. /\ linked' = linked \cup ({Subject} \cap written) /\ NextFiling
      /\ UNCHANGED <<planned, tally, written, degraded>>
  BY DEF LinkSubject
<1>3. /\ todo' = [holdings |-> todo'.holdings, funds |-> todo'.funds]
      /\ todo'.holdings \subseteq DOMAIN Held /\ todo'.funds \subseteq Usable
      /\ Cardinality(todo'.holdings) =
            Cardinality(todo.holdings) - (IF Stage = "holdings" THEN 1 ELSE 0)
      /\ Cardinality(todo'.funds) =
            Cardinality(todo.funds) - (IF Stage = "holdings" THEN 0 ELSE 1)
      /\ Ahead' = Ahead \ {Subject}
  BY <1>1, <1>2, GoneBy
<1>4. /\ Stage \in {"holdings", "funds"} /\ Subject \in Ahead /\ Subject \in Filing
      /\ IsFiniteSet(linked) /\ Cardinality(linked) \in Nat
      /\ Cardinality(todo.holdings) \in Nat /\ Cardinality(todo.funds) \in Nat
  BY <1>1, CurrentIs, FilingsAre
<1>5. EnrichmentType'
  BY <1>1, <1>2, <1>3, <1>4 DEF EnrichmentType, AtFiling
<1>6. Planned'
  <2>1. /\ tally.enriched + tally.failed + Cardinality(todo.holdings) =
                planned.holdings + (IF Stage = "holdings" THEN 1 ELSE 0)
        /\ tally.funds_enriched + tally.funds_failed + Cardinality(todo.funds) =
                planned.funds + (IF Stage = "holdings" THEN 0 ELSE 1)
        /\ planned.holdings <= MaxHoldings /\ planned.holdings + planned.funds <= MaxFilings
    BY <1>1, <1>4 DEF Work, Planned, Counted, AtFiling
  <2>2. /\ tally'.enriched + tally'.failed + Cardinality(todo'.holdings) = planned'.holdings + 0
        /\ tally'.funds_enriched + tally'.funds_failed + Cardinality(todo'.funds) = planned'.funds + 0
    BY <1>1, <1>2, <1>3, <1>4, <2>1 DEF EnrichmentType
  <2>3. QED
    BY <1>1, <1>2, <2>1, <2>2 DEF Planned, Counted
<1>7. LinkedUp'
  <2>1. /\ linked \cap Ahead = {} /\ \A x \in written \cap Ahead : x = Subject
        /\ Cardinality(linked) + ToLink = tally.enriched + tally.funds_enriched - degraded
    BY <1>1 DEF Work, LinkedUp
  <2>2. Cardinality(linked') = Cardinality(linked) + ToLink
    <3>1. CASE Subject \in written
      <4>1. linked' = linked \cup {Subject} /\ Subject \notin linked
        BY <1>2, <1>4, <2>1, <3>1
      <4>2. QED
        BY <1>1, <1>4, <3>1, <4>1, FS_AddElement DEF ToLink
    <3>2. CASE Subject \notin written
      <4>1. linked' = linked
        BY <1>2, <3>2
      <4>2. QED
        BY <1>4, <3>2, <4>1 DEF ToLink
    <3>3. QED
      BY <3>1, <3>2
  <2>3. linked' \cap Ahead' = {} /\ written' \cap Ahead' = {}
    BY <1>2, <1>3, <2>1
  <2>4. Cardinality(linked') \in Nat
    BY <1>5, FilingsAre, <1>4, <2>2 DEF ToLink
  <2>5. QED
    BY <1>1, <1>2, <2>1, <2>2, <2>3, <2>4 DEF LinkedUp, ToLink
<1>8. QED
  BY <1>2, <1>5, <1>6, <1>7 DEF Work, Failures

LEMMA EndWorks ==
    ASSUME Work, \/ pc = "fetch" /\ AllDone /\ pc' = "done"
                 \/ pc \in {"funds", "link"} /\ pc' = "broken",
           UNCHANGED <<planned, todo, tally, filings, degraded>>
    PROVE  Work' /\ Failures' = Failures
<1>1. planned' = planned /\ todo' = todo /\ tally' = tally /\ written' = written /\ linked' = linked
      /\ degraded' = degraded
  BY DEF filings
<1>2. EnrichmentType'
  BY <1>1 DEF Work, EnrichmentType, AtEnd
<1>3. Planned'
  BY <1>1 DEF Work, Planned, Counted, AllDone, AtFiling
<1>4. LinkedUp'
  BY <1>1 DEF Work, LinkedUp, ToLink, Ahead
<1>5. QED
  BY <1>1, <1>2, <1>3, <1>4 DEF Work, Failures

LEMMA WorkStays ==
    ASSUME Work, UNCHANGED <<pc, planned, todo, tally, filings, degraded>>
    PROVE  Work'
<1>1. pc' = pc /\ planned' = planned /\ todo' = todo /\ tally' = tally /\ written' = written
      /\ linked' = linked /\ degraded' = degraded
  BY DEF filings
<1>2. EnrichmentType'
  BY <1>1 DEF Work, EnrichmentType
<1>3. Planned'
  BY <1>1 DEF Work, Planned, Counted, AllDone, Stage
<1>4. LinkedUp'
  BY <1>1 DEF Work, LinkedUp, ToLink, Ahead, Subject, Stage
<1>5. QED
  BY <1>2, <1>3, <1>4 DEF Work

-------------------------------------------------------------------------------
(* Enrichment: every step keeps the invariant and is one of the stream's *)

StreamStep == [Stream!Next]_(Stream!vars)

LEMMA InitEnriches == EnrichmentInit => EnrichmentInv /\ Stream!Init
<1> SUFFICES ASSUME EnrichmentInit PROVE EnrichmentInv /\ Stream!Init
  OBVIOUS
<1>1. Cardinality({}) = 0
  BY FS_EmptySet
<1>2. Sent = <<>> /\ Events = <<>>
  <2>1. Sent = <<>>
    BY EmptySeq, ConcatEmptySeq DEF EnrichmentInit, Sent
  <2>2. QED
    BY <2>1 DEF EnrichmentInit, Events
<1>3. EnrichmentType
  BY DEF EnrichmentInit, EnrichmentType
<1>4. Planned
  BY EnrichmentAssumption DEF EnrichmentInit, Planned, AtFiling
<1>5. LinkedUp
  BY <1>1 DEF EnrichmentInit, LinkedUp, ToLink
<1>6. Occurrences("error") = 0
  <2>1. {i \in DOMAIN Sent : Sent[i] = "error"} = {}
    BY <1>2, EmptySeq
  <2>2. QED
    BY <1>1, <2>1 DEF Occurrences
<1>7. Streamed
  <2>1. queue \in Seq(PutEvent) /\ received \in Seq(PutEvent)
    BY EmptySeq DEF EnrichmentInit
  <2>2. QED
    BY <1>2, <1>6, <2>1 DEF EnrichmentInit, Streamed, AtFiling, AtEnd
<1>8. Stream!Init
  BY <1>2 DEF EnrichmentInit, Stream!Init
<1>9. QED
  BY <1>3, <1>4, <1>5, <1>7, <1>8 DEF EnrichmentInv, Work

\* The events of a filing are of the stream's middle.
LEMMA MiddleEvents ==
    /\ <<"classified", "parsed", "chunked">> \in Seq(PutEvent)
    /\ \A i \in 1 .. 3 : <<"classified", "parsed", "chunked">>[i] \in Middle \ {"error"}
    /\ <<"extracted">> \in Seq(PutEvent) /\ "extracted" \in Middle \ {"error"}
    /\ <<"resolved", "written">> \in Seq(PutEvent)
    /\ \A i \in 1 .. 2 : <<"resolved", "written">>[i] \in Middle \ {"error"}
    /\ <<"error">> \in Seq(PutEvent) /\ "error" \in Middle
    /\ <<"resolved">> \in Seq(PutEvent)
    /\ <<"resolved">> \o <<"error">> = <<"resolved", "error">>
    /\ <<"resolved", "error">> \in Seq(PutEvent)
    /\ \A i \in 1 .. 2 : <<"resolved", "error">>[i] \in Middle
<1>1. /\ {"classified", "parsed", "chunked", "extracted", "resolved", "written"} \subseteq PutEvent
      /\ {"classified", "parsed", "chunked", "extracted", "resolved", "written"} \subseteq
                Middle \ {"error"}
      /\ "error" \in PutEvent /\ "error" \in Middle
  BY DEF PutEvent, Middle, Last
<1>2. /\ <<"classified", "parsed", "chunked">> \in Seq(PutEvent)
      /\ \A i \in 1 .. 3 : <<"classified", "parsed", "chunked">>[i] \in Middle \ {"error"}
  BY <1>1
<1>3. /\ <<"resolved", "written">> \in Seq(PutEvent)
      /\ \A i \in 1 .. 2 : <<"resolved", "written">>[i] \in Middle \ {"error"}
  BY <1>1
<1>4. /\ <<"resolved", "error">> \in Seq(PutEvent)
      /\ \A i \in 1 .. 2 : <<"resolved", "error">>[i] \in Middle
  BY <1>1
<1>5. <<"extracted">> \in Seq(PutEvent) /\ <<"error">> \in Seq(PutEvent) /\ <<"resolved">> \in Seq(PutEvent)
  BY <1>1
<1>6. <<"resolved">> \o <<"error">> = <<"resolved", "error">>
  <2> DEFINE s == <<"resolved">> \o <<"error">>
             t == <<"resolved", "error">>
  <2>1. /\ s \in Seq(PutEvent) /\ Len(s) = 2
        /\ \A i \in 1 .. 2 : s[i] = IF i <= 1 THEN "resolved" ELSE "error"
    BY <1>5, ConcatProperties
  <2>2. t \in Seq(PutEvent) /\ Len(t) = 2 /\ t[1] = "resolved" /\ t[2] = "error"
    BY <1>4
  <2> HIDE DEF s, t
  <2>3. \A i \in 1 .. Len(s) : s[i] = t[i]
    BY <2>1, <2>2
  <2>4. s = t
    BY <2>1, <2>2, <2>3, SeqEqual
  <2>5. QED
    BY <2>4 DEF s, t
<1>7. QED
  BY <1>1, <1>2, <1>3, <1>4, <1>5, <1>6

LEMMA StartEnriches ==
    ASSUME EnrichmentInv, NEW top \in Tops, Start(top)
    PROVE  EnrichmentInv' /\ StreamStep
<1>1. Work'
  BY StartWorks DEF EnrichmentInv
<1>2. UNCHANGED stream /\ pc = "idle" /\ pc' = "funds" /\ Failures' = Failures
  BY DEF Start, Failures
<1>3. Streamed' /\ UNCHANGED <<Events, received, client>>
  BY <1>2, QuietStreams DEF EnrichmentInv
<1>4. QED
  BY <1>1, <1>3 DEF EnrichmentInv, StreamStep, Stream!vars

LEMMA ReadFundsEnriches == ASSUME EnrichmentInv, ReadFunds PROVE EnrichmentInv' /\ StreamStep
<1>1. Work' /\ Failures' = Failures
  BY ReadFundsWorks DEF EnrichmentInv
<1>2. pc = "funds" /\ pc' = "fetch" /\ Put(<<"started">>)
  BY DEF ReadFunds
<1>3. Streamed' /\ Stream!Open
  BY <1>1, <1>2, OpenStreams DEF EnrichmentInv
<1>4. QED
  BY <1>1, <1>3 DEF EnrichmentInv, StreamStep, Stream!Next

\* Middle events, without an error or with one at their end.
LEMMA QuietEnriches ==
    ASSUME Streamed, pc \in AtFiling, pc' \in AtFiling, NEW t \in Seq(PutEvent), Len(t) > 0,
           \A i \in 1 .. Len(t) : t[i] \in Middle \ {"error"}, Put(t), Failures' = Failures
    PROVE  Streamed' /\ StreamStep
<1>1. (Occurrences("error"))' = Failures'
  BY FailuresStay
<1>2. \A i \in 1 .. Len(t) : t[i] \in Middle
  OBVIOUS
<1>3. Streamed' /\ Stream!Progress
  BY <1>1, <1>2, ProgressStreams
<1>4. QED
  BY <1>3 DEF StreamStep, Stream!Next

LEMMA ErrorEnriches ==
    ASSUME Streamed, pc \in AtFiling, pc' \in AtFiling, Failures' = Failures + 1,
           Put(<<"error">>) \/ Put(<<"resolved", "error">>)
    PROVE  Streamed' /\ StreamStep
<1>1. CASE Put(<<"error">>)
  <2> DEFINE u == <<>>
             t == <<"error">>
  <2>1. u \in Seq(PutEvent) /\ Len(u) = 0
    BY EmptySeq
  <2>2. t \in Seq(PutEvent) /\ Len(t) > 0 /\ \A i \in 1 .. Len(t) : t[i] \in Middle
    BY MiddleEvents
  <2>3. u \o <<"error">> = t
    BY MiddleEvents, ConcatEmptySeq
  <2>4. Put(t)
    BY <1>1
  <2> HIDE DEF u, t
  <2>5. Put(u \o <<"error">>)
    BY <2>3, <2>4
  <2>6. \A i \in 1 .. Len(u) : u[i] # "error"
    BY <2>1
  <2>7. (Occurrences("error"))' = Failures'
    BY <2>1, <2>5, <2>6, FailureAdded
  <2>8. Streamed' /\ Stream!Progress
    BY <2>2, <2>4, <2>7, ProgressStreams
  <2>9. QED
    BY <2>8 DEF StreamStep, Stream!Next
<1>2. CASE Put(<<"resolved", "error">>)
  <2> DEFINE u == <<"resolved">>
             t == <<"resolved", "error">>
  <2>1. u \in Seq(PutEvent) /\ \A i \in 1 .. Len(u) : u[i] # "error"
    BY MiddleEvents
  <2>2. t \in Seq(PutEvent) /\ Len(t) > 0 /\ \A i \in 1 .. Len(t) : t[i] \in Middle
    BY MiddleEvents
  <2>3. u \o <<"error">> = t
    BY MiddleEvents
  <2>4. Put(t)
    BY <1>2
  <2> HIDE DEF u, t
  <2>5. Put(u \o <<"error">>)
    BY <2>3, <2>4
  <2>6. (Occurrences("error"))' = Failures'
    BY <2>1, <2>5, FailureAdded
  <2>7. Streamed' /\ Stream!Progress
    BY <2>2, <2>4, <2>6, ProgressStreams
  <2>8. QED
    BY <2>7 DEF StreamStep, Stream!Next
<1>3. QED
  BY <1>1, <1>2

LEMMA FetchFailsEnriches == ASSUME EnrichmentInv, FetchFails PROVE EnrichmentInv' /\ StreamStep
<1>1. /\ pc = "fetch" /\ pc' = "fetch" /\ ~AllDone /\ Count(FALSE) /\ Put(<<"error">>) /\ NextFiling
      /\ UNCHANGED <<planned, linked, degraded>> /\ written' = written
  BY DEF FetchFails, filings
<1>2. Work' /\ Failures' = Failures + 1
  BY <1>1, FailureWorks DEF EnrichmentInv
<1>3. Streamed' /\ StreamStep
  BY <1>1, <1>2, ErrorEnriches DEF EnrichmentInv, AtFiling
<1>4. QED
  BY <1>2, <1>3 DEF EnrichmentInv

LEMMA FetchEnriches == ASSUME EnrichmentInv, NEW n, Fetch(n) PROVE EnrichmentInv' /\ StreamStep
<1> DEFINE t == <<"classified", "parsed", "chunked">>
<1>1. /\ pc = "fetch" /\ pc' = "extract" /\ ~AllDone /\ Put(t)
      /\ UNCHANGED <<planned, todo, tally, filings, degraded>>
  BY DEF Fetch
<1>2. t \in Seq(PutEvent) /\ Len(t) > 0 /\ \A i \in 1 .. Len(t) : t[i] \in Middle \ {"error"}
  BY MiddleEvents
<1> HIDE DEF t
<1>3. Work' /\ Failures' = Failures
  BY <1>1, FilingWorks DEF EnrichmentInv
<1>4. Streamed /\ pc \in AtFiling /\ pc' \in AtFiling
  BY <1>1 DEF EnrichmentInv, AtFiling
<1>5. Streamed' /\ StreamStep
  BY <1>1, <1>2, <1>3, <1>4, QuietEnriches
<1>6. QED
  BY <1>3, <1>5 DEF EnrichmentInv

LEMMA ExtractChunkEnriches ==
    ASSUME EnrichmentInv, NEW outcome, ExtractChunk(outcome)
    PROVE  EnrichmentInv' /\ StreamStep
<1>1. /\ pc = "extract" /\ pc' = "extract"
      /\ UNCHANGED <<planned, todo, tally, filings, degraded>> /\ UNCHANGED stream
  BY DEF ExtractChunk
<1>2. ~AllDone
  BY <1>1 DEF EnrichmentInv, Work, Planned
<1>3. Work' /\ Failures' = Failures
  BY <1>1, <1>2, FilingWorks DEF EnrichmentInv
<1>4. Streamed' /\ UNCHANGED <<Events, received, client>>
  BY <1>1, <1>3, QuietStreams DEF EnrichmentInv, AtFiling
<1>5. QED
  BY <1>3, <1>4 DEF EnrichmentInv, StreamStep, Stream!vars

LEMMA ExtractedEnriches == ASSUME EnrichmentInv, Extracted PROVE EnrichmentInv' /\ StreamStep
<1> DEFINE t == <<"extracted">>
<1>1. /\ pc = "extract" /\ pc' = "write" /\ Put(t)
      /\ UNCHANGED <<planned, todo, tally, filings, degraded>>
  BY DEF Extracted, ExtractionOver
<1>2. t \in Seq(PutEvent) /\ Len(t) > 0 /\ \A i \in 1 .. Len(t) : t[i] \in Middle \ {"error"}
  BY MiddleEvents
<1> HIDE DEF t
<1>3. ~AllDone
  BY <1>1 DEF EnrichmentInv, Work, Planned
<1>4. Work' /\ Failures' = Failures
  BY <1>1, <1>3, FilingWorks DEF EnrichmentInv
<1>5. Streamed /\ pc \in AtFiling /\ pc' \in AtFiling
  BY <1>1 DEF EnrichmentInv, AtFiling
<1>6. Streamed' /\ StreamStep
  BY <1>1, <1>2, <1>4, <1>5, QuietEnriches
<1>7. QED
  BY <1>4, <1>6 DEF EnrichmentInv

LEMMA ExtractionFailsEnriches ==
    ASSUME EnrichmentInv, ExtractionFails
    PROVE  EnrichmentInv' /\ StreamStep
<1> DEFINE t == <<"extracted">>
<1>1. /\ pc = "extract" /\ pc' = "link" /\ Put(t) /\ Count(TRUE) /\ degraded' = degraded + 1
      /\ written' = written /\ UNCHANGED <<planned, todo, linked>>
  BY DEF ExtractionFails, ExtractionOver, filings
<1>2. t \in Seq(PutEvent) /\ Len(t) > 0 /\ \A i \in 1 .. Len(t) : t[i] \in Middle \ {"error"}
  BY MiddleEvents
<1> HIDE DEF t
<1>3. Work' /\ Failures' = Failures
  BY <1>1, SuccessWorks DEF EnrichmentInv
<1>4. Streamed /\ pc \in AtFiling /\ pc' \in AtFiling
  BY <1>1 DEF EnrichmentInv, AtFiling
<1>5. Streamed' /\ StreamStep
  BY <1>1, <1>2, <1>3, <1>4, QuietEnriches
<1>6. QED
  BY <1>3, <1>5 DEF EnrichmentInv

LEMMA WriteEnriches == ASSUME EnrichmentInv, Write PROVE EnrichmentInv' /\ StreamStep
<1> DEFINE t == <<"resolved", "written">>
<1>1. /\ pc = "write" /\ pc' = "link" /\ Put(t) /\ Count(TRUE) /\ degraded' = degraded
      /\ written' = written \cup {Subject} /\ UNCHANGED <<planned, todo, linked>>
  BY DEF Write
<1>2. t \in Seq(PutEvent) /\ Len(t) > 0 /\ \A i \in 1 .. Len(t) : t[i] \in Middle \ {"error"}
  BY MiddleEvents
<1> HIDE DEF t
<1>3. Work' /\ Failures' = Failures
  BY <1>1, SuccessWorks DEF EnrichmentInv
<1>4. Streamed /\ pc \in AtFiling /\ pc' \in AtFiling
  BY <1>1 DEF EnrichmentInv, AtFiling
<1>5. Streamed' /\ StreamStep
  BY <1>1, <1>2, <1>3, <1>4, QuietEnriches
<1>6. QED
  BY <1>3, <1>5 DEF EnrichmentInv

LEMMA WriteFailsEnriches == ASSUME EnrichmentInv, WriteFails PROVE EnrichmentInv' /\ StreamStep
<1>1. /\ pc = "write" /\ pc' = "fetch" /\ Count(FALSE) /\ NextFiling
      /\ Put(<<"error">>) \/ Put(<<"resolved", "error">>)
      /\ written' \in {written, written \cup {Subject}} /\ UNCHANGED <<planned, linked, degraded>>
  BY DEF WriteFails
<1>2. ~AllDone
  BY <1>1 DEF EnrichmentInv, Work, Planned
<1>3. Work' /\ Failures' = Failures + 1
  BY <1>1, <1>2, FailureWorks DEF EnrichmentInv
<1>4. Streamed /\ pc \in AtFiling /\ pc' \in AtFiling
  BY <1>1 DEF EnrichmentInv, AtFiling
<1>5. Streamed' /\ StreamStep
  BY <1>1, <1>3, <1>4, ErrorEnriches
<1>6. QED
  BY <1>3, <1>5 DEF EnrichmentInv

LEMMA LinkSubjectEnriches == ASSUME EnrichmentInv, LinkSubject PROVE EnrichmentInv' /\ StreamStep
<1>1. Work' /\ Failures' = Failures
  BY LinkWorks DEF EnrichmentInv
<1>2. UNCHANGED stream /\ pc = "link" /\ pc' = "fetch"
  BY DEF LinkSubject
<1>3. Streamed' /\ UNCHANGED <<Events, received, client>>
  BY <1>1, <1>2, QuietStreams DEF EnrichmentInv, AtFiling
<1>4. QED
  BY <1>1, <1>3 DEF EnrichmentInv, StreamStep, Stream!vars

LEMMA FinishEnriches == ASSUME EnrichmentInv, Finish PROVE EnrichmentInv' /\ StreamStep
<1>1. /\ pc = "fetch" /\ AllDone /\ pc' = "done" /\ Put(<<"completed", "sentinel">>)
      /\ UNCHANGED <<planned, todo, tally, filings, degraded>>
  BY DEF Finish
<1>2. Work' /\ Failures' = Failures
  BY <1>1, EndWorks DEF EnrichmentInv
<1>3. /\ Streamed' /\ Events' = Append(Events, "completed") /\ UNCHANGED <<received, client>>
      /\ ~Stream!Over /\ Events # <<>>
  BY <1>1, <1>2, EndStreams DEF EnrichmentInv, AtFiling, AtEnd, Last
<1>4. QED
  BY <1>2, <1>3 DEF EnrichmentInv, StreamStep, Stream!Next, Stream!Complete

LEMMA BreaksEnriches == ASSUME EnrichmentInv, Breaks PROVE EnrichmentInv' /\ StreamStep
<1>1. /\ pc \in {"funds", "link"} /\ pc' = "broken" /\ Put(<<"fatal", "sentinel">>)
      /\ UNCHANGED <<planned, todo, tally, filings, degraded>>
  BY DEF Breaks
<1>2. Work' /\ Failures' = Failures
  BY <1>1, EndWorks DEF EnrichmentInv
<1>3. /\ Streamed' /\ Events' = Append(Events, "fatal") /\ UNCHANGED <<received, client>>
      /\ ~Stream!Over
  BY <1>1, <1>2, EndStreams DEF EnrichmentInv, AtFiling, AtEnd, Last
<1>4. QED
  BY <1>2, <1>3 DEF EnrichmentInv, StreamStep, Stream!Next, Stream!Break

LEMMA DrainEnriches == ASSUME EnrichmentInv, Drain PROVE EnrichmentInv' /\ StreamStep
<1>1. UNCHANGED <<pc, planned, todo, tally, filings, degraded>>
  BY DEF Drain
<1>2. Work'
  BY <1>1, WorkStays DEF EnrichmentInv
<1>3. Streamed' /\ (Stream!Read \/ Stream!Close)
  BY DrainStreams DEF EnrichmentInv, Work, EnrichmentType
<1>4. QED
  BY <1>2, <1>3 DEF EnrichmentInv, StreamStep, Stream!Next

LEMMA HangUpEnriches == ASSUME EnrichmentInv, HangUp PROVE EnrichmentInv' /\ StreamStep
<1>1. UNCHANGED <<pc, planned, todo, tally, filings, degraded>>
  BY DEF HangUp
<1>2. Work'
  BY <1>1, WorkStays DEF EnrichmentInv
<1>3. Streamed' /\ Stream!HangUp
  BY HangUpStreams DEF EnrichmentInv
<1>4. QED
  BY <1>2, <1>3 DEF EnrichmentInv, StreamStep, Stream!Next

LEMMA EnrichmentStutters ==
    ASSUME EnrichmentInv, UNCHANGED enrichmentVars
    PROVE  EnrichmentInv' /\ StreamStep
<1>1. /\ pc' = pc /\ UNCHANGED <<planned, todo, tally, filings, degraded>>
      /\ queue' = queue /\ received' = received /\ client' = client /\ tally' = tally
  BY DEF enrichmentVars, stream
<1>2. Work'
  BY <1>1, WorkStays DEF EnrichmentInv
<1>3. Sent' = Sent /\ (Occurrences("error"))' = Occurrences("error") /\ Events' = Events
  BY <1>1 DEF Sent, Occurrences, Events
<1>4. Streamed'
  BY <1>1, <1>3 DEF EnrichmentInv, Streamed
<1>5. QED
  BY <1>1, <1>2, <1>3, <1>4 DEF EnrichmentInv, StreamStep, Stream!vars

LEMMA EnrichmentKept ==
    ASSUME EnrichmentInv, [EnrichmentNext]_enrichmentVars
    PROVE  EnrichmentInv' /\ StreamStep
<1>1. ASSUME NEW top \in Tops, Start(top) PROVE EnrichmentInv' /\ StreamStep
  BY <1>1, StartEnriches
<1>2. ASSUME Step PROVE EnrichmentInv' /\ StreamStep
  <2>1. CASE ReadFunds
    BY <2>1, ReadFundsEnriches
  <2>2. CASE FetchFails
    BY <2>2, FetchFailsEnriches
  <2>3. ASSUME NEW n \in 0 .. MaxChunks, Fetch(n) PROVE EnrichmentInv' /\ StreamStep
    BY <2>3, FetchEnriches
  <2>4. ASSUME NEW outcome \in {"ok", "bad", "unreachable"}, ExtractChunk(outcome)
        PROVE  EnrichmentInv' /\ StreamStep
    BY <2>4, ExtractChunkEnriches
  <2>5. CASE Extracted
    BY <2>5, ExtractedEnriches
  <2>6. CASE ExtractionFails
    BY <2>6, ExtractionFailsEnriches
  <2>7. CASE Write
    BY <2>7, WriteEnriches
  <2>8. CASE WriteFails
    BY <2>8, WriteFailsEnriches
  <2>9. CASE LinkSubject
    BY <2>9, LinkSubjectEnriches
  <2>10. CASE Finish
    BY <2>10, FinishEnriches
  <2>11. CASE Breaks
    BY <2>11, BreaksEnriches
  <2>12. QED
    BY <1>2, <2>1, <2>2, <2>3, <2>4, <2>5, <2>6, <2>7, <2>8, <2>9, <2>10, <2>11 DEF Step
<1>3. CASE Drain
  BY <1>3, DrainEnriches
<1>4. CASE HangUp
  BY <1>4, HangUpEnriches
<1>5. CASE UNCHANGED enrichmentVars
  BY <1>5, EnrichmentStutters
<1>6. QED
  BY <1>1, <1>2, <1>3, <1>4, <1>5 DEF EnrichmentNext

-------------------------------------------------------------------------------
(* Enrichment: the theorems *)

\* The inductive invariant of enrich_firm and its stream.
THEOREM EnrichmentInvariant == EnrichmentSpec => []EnrichmentInv
<1>1. EnrichmentInit => EnrichmentInv
  BY InitEnriches
<1>2. EnrichmentInv /\ [EnrichmentNext]_enrichmentVars => EnrichmentInv'
  BY EnrichmentKept
<1>3. QED
  BY <1>1, <1>2, PTL DEF EnrichmentSpec

\* Whatever `top` asks for and however many funds there are, a run of
\* enrich_firm keeps to its budget, takes no registrant on twice, tells its
\* client of each failure, and when it completes has counted every filing it
\* took on and linked every one that it enriched and has a document of.
THEOREM SpendAccountedHolds == EnrichmentSpec => []SpendAccounted
<1>1. ASSUME EnrichmentInv PROVE SpendAccounted
  <2>1. EnrichmentType /\ Planned /\ LinkedUp /\ Streamed
    BY <1>1 DEF EnrichmentInv, Work
  <2>2. planned.holdings <= MaxHoldings /\ planned.holdings + planned.funds <= MaxFilings
    BY <2>1 DEF Planned
  <2>3. \A i, j \in todo.funds : FundKeys[i] = FundKeys[j] => i = j
    BY <2>1, UsableDistinct DEF EnrichmentType
  <2>4. Occurrences("error") = tally.failed + tally.funds_failed
    BY <2>1 DEF Streamed
  <2>5. ASSUME pc = "done"
        PROVE  /\ tally.enriched + tally.failed = planned.holdings
               /\ tally.funds_enriched + tally.funds_failed = planned.funds
               /\ Cardinality(linked) = tally.enriched + tally.funds_enriched - degraded
    <3>1. AllDone /\ Cardinality(todo.holdings) = 0 /\ Cardinality(todo.funds) = 0
      BY <2>1, <2>5, FS_EmptySet DEF Planned, AllDone
    <3>2. /\ tally.enriched + tally.failed + 0 = planned.holdings + 0
          /\ tally.funds_enriched + tally.funds_failed + 0 = planned.funds + 0
      BY <2>1, <2>5, <3>1 DEF Planned, Counted
    <3>3. Cardinality(linked) + 0 = tally.enriched + tally.funds_enriched - degraded
      BY <2>1, <2>5 DEF LinkedUp, ToLink
    <3>4. Cardinality(linked) \in Nat
      BY <2>1, FilingsAre
    <3>5. QED
      BY <2>1, <3>2, <3>3, <3>4 DEF EnrichmentType
  <2>6. QED
    BY <2>2, <2>3, <2>4, <2>5 DEF SpendAccounted
<1>2. QED
  BY <1>1, EnrichmentInvariant, PTL

\* The worker's queue and its sentinel implement the stream its client is
\* promised, with the events put so far, but for the sentinel, as what was
\* sent.
THEOREM DeliversStreamHolds == EnrichmentSpec => DeliversStream
<1>1. EnrichmentInit => Stream!Init
  BY InitEnriches
<1>2. EnrichmentInv /\ [EnrichmentNext]_enrichmentVars => [Stream!Next]_(Stream!vars)
  BY EnrichmentKept DEF StreamStep
<1>3. QED
  BY <1>1, <1>2, EnrichmentInvariant, PTL DEF EnrichmentSpec, DeliversStream, Stream!Spec

\* By the refinement: a response of the enrich stream that ended of itself,
\* not by a hang-up, has delivered every event of the run, of which the last
\* is job.completed or the worker's error; and a run sends nothing after it.
EndedIsDelivered == client = "ended" => received = Events /\ Stream!Over

THEOREM EndedIsDeliveredHolds ==
    EnrichmentSpec => []EndedIsDelivered /\ [][Stream!Over => UNCHANGED Events]_(Stream!vars)
<1>1. Stream!Init => EndedIsDelivered
  BY DEF Stream!Init, EndedIsDelivered
<1>2. EndedIsDelivered /\ [Stream!Next]_(Stream!vars) => EndedIsDelivered'
  <2> SUFFICES ASSUME EndedIsDelivered, [Stream!Next]_(Stream!vars) PROVE EndedIsDelivered'
    OBVIOUS
  <2>1. CASE client = "ended"
    <3>1. received = Events /\ Stream!Over /\ Events # <<>>
      BY <2>1 DEF EndedIsDelivered, Stream!Over
    <3>2. UNCHANGED <<Events, received, client>>
      BY <2>1, <3>1 DEF Stream!Next, Stream!Open, Stream!Progress, Stream!Complete, Stream!Break,
                         Stream!Read, Stream!Close, Stream!HangUp, Stream!vars
    <3>3. QED
      BY <3>1, <3>2 DEF EndedIsDelivered, Stream!Over
  <2>2. CASE client # "ended"
    <3>1. client' = "ended" => Stream!Close
      BY <2>2 DEF Stream!Next, Stream!Open, Stream!Progress, Stream!Complete, Stream!Break,
                   Stream!Read, Stream!Close, Stream!HangUp, Stream!vars
    <3>2. QED
      BY <3>1 DEF Stream!Close, Stream!Over, EndedIsDelivered
  <2>3. QED
    BY <2>1, <2>2
<1>3. [Stream!Next]_(Stream!vars) => (Stream!Over => UNCHANGED Events)
  <2> SUFFICES ASSUME [Stream!Next]_(Stream!vars), Stream!Over PROVE UNCHANGED Events
    OBVIOUS
  <2>1. Events # <<>>
    BY DEF Stream!Over
  <2>2. QED
    BY <2>1 DEF Stream!Next, Stream!Open, Stream!Progress, Stream!Complete, Stream!Break,
                 Stream!Read, Stream!Close, Stream!HangUp, Stream!vars
<1>4. Stream!Spec => []EndedIsDelivered /\ [][Stream!Over => UNCHANGED Events]_(Stream!vars)
  BY <1>1, <1>2, <1>3, PTL DEF Stream!Spec
<1>5. QED
  BY <1>4, DeliversStreamHolds DEF DeliversStream
================================================================================
