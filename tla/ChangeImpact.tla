------------------------------ MODULE ChangeImpact ------------------------------
(***************************************************************************)
(* Change impact (modules/change_impact.py, impact_routes.py), beside the  *)
(* report packs and what changes the graph it reads: two versions of       *)
(* a document's facts are diffed, each difference is followed through the  *)
(* graph by the rules of ontology/impact_policy.yaml, one query at a time, *)
(* and the sections and reports found may be flagged, one statement each.  *)
(*                                                                         *)
(* A fact is [type, subject, object, period, value, doc]; an entity is its *)
(* own subject and has no object and no period.  A firm stands for the     *)
(* funds it manages.                                                       *)
(***************************************************************************)
EXTENDS ReportPack

CONSTANTS
    V1, V2,     \* the versions' facts
    DemoFunds,  \* the demo firm's funds
    HopLimit, RuleHops, \* the policy's limit and its supplier rule's
    MaxImpacts  \* bound on requests

VARIABLES
    stale, outOfDate,   \* flagged sections; funds whose report is flagged
    impacts,            \* requests so far
    impact,             \* the request
    applied,            \* history: what had to be flagged, by requests that ended
    stayed, seen        \* history: holdings and supplies in the graph all the time,
                        \* and at some time, since the impact was asked for

impactVars == <<stale, outOfDate, impacts, impact, applied, stayed, seen>>
vars == <<reportVars, impactVars>>

NoFlags == [sections |-> {}, reports |-> {}]
NoReach == [funds |-> {}, sections |-> {}, reports |-> {}]
Unasked == [pc |-> "idle", scope |-> {}, apply |-> FALSE, todo |-> {}, names |-> {},
            found |-> NoReach, was |-> NoFlags]
NoHistory == [holds |-> [f \in Fund |-> {}], supplies |-> {}]

Init ==
    /\ ReportInit
    /\ stale = {} /\ outOfDate = {}
    /\ impacts = 0
    /\ impact = Unasked
    /\ applied = NoFlags
    /\ stayed = NoHistory /\ seen = NoHistory

-------------------------------------------------------------------------------
(* The difference and the rules *)

Identity(fact) == <<fact.type, fact.subject, fact.object, fact.period>>
Item(fact, change) ==
    [change |-> change, type |-> fact.type, subject |-> fact.subject, object |-> fact.object,
     doc |-> fact.doc]

\* The document of a difference is the new fact's, unless it was removed.
Diff(v1, v2) ==
    {Item(f, "added") : f \in {x \in v2 : \A o \in v1 : Identity(o) # Identity(x)}}
    \cup {Item(f, "removed") : f \in {x \in v1 : \A n \in v2 : Identity(n) # Identity(x)}}
    \cup {Item(f, "changed") : f \in {x \in v2 :
            \E o \in v1 : Identity(o) = Identity(x) /\ o.value # x.value}}

\* impact_policy.yaml: what the rule for a type asks for, and on which changes.
Policy ==
    [Company |-> [rule |-> "holders", changes |-> {"added", "removed", "changed"}],
     SUPPLIES_TO |-> [rule |-> "dependents", changes |-> {"added", "removed", "changed"}],
     EXPOSED_TO |-> [rule |-> "sections", changes |-> {"added", "changed"}],
     MetricObservation |-> [rule |-> "reports", changes |-> {"added", "changed"}]]

Triggered(item) == item.type \in DOMAIN Policy /\ item.change \in Policy[item.type].changes
RuleOf(item) == Policy[item.type].rule

-------------------------------------------------------------------------------
(* The graph's answers *)

\* Companies with a path of 1 to the given number of edges to a company, and itself.
Dependents1to(hops, supplies, company) ==
    LET reach[n \in 0 .. hops] ==
            IF n = 0 THEN {company}
            ELSE reach[n - 1] \cup {e.src : e \in {x \in supplies : x.dst \in reach[n - 1]}}
    IN  reach[hops]

Hops == IF RuleHops < HopLimit THEN RuleHops ELSE HopLimit

\* The policy's two hops; and a fact is told by its identity in its version,
\* as the code's maps are keyed by it.
ASSUME ImpactAssumption ==
    /\ Hops = 2
    /\ \A v \in {V1, V2} : \A a, b \in v : Identity(a) = Identity(b) => a = b
    /\ DemoFunds \subseteq Fund

\* Who holds what and who supplies whom, without the properties.
Edges(g) ==
    [holds |-> [f \in Fund |-> DOMAIN g.holds[f]],
     supplies |-> {[src |-> e.src, dst |-> e.dst] : e \in g.supplies}]

FundsHolding(paths, scope, companies) == {f \in scope : paths.holds[f] \cap companies # {}}
SectionsCovering(covers, risk) == {s[1] : s \in {x \in covers : x[3] = risk}}
ReportsDeriving(derived, doc) == {l[1] : l \in {x \in derived : x[2] = doc}}

-------------------------------------------------------------------------------
(* What the rules' words ask for: the reference the requests are held against *)

ChangedFacts ==
    {Identity(f) : f \in {x \in V1 \cup V2 :
        ~\E o \in V1, n \in V2 : Identity(o) = Identity(x) /\ Identity(n) = Identity(x)
                                 /\ o.value = n.value}}
StillThere(fact) == \E n \in V2 : Identity(n) = fact

\* Companies whose fate hangs on a changed fact.
Touched(paths, fact) ==
    CASE fact[1] = "Company" -> {fact[2]}
      [] fact[1] = "SUPPLIES_TO" ->
            {fact[2]} \cup {c \in Company : fact[2] \in WithinTwo(paths.supplies, c)}
      [] OTHER -> {}

FundsReached(paths, scope) ==
    {f \in scope : \E fact \in ChangedFacts : paths.holds[f] \cap Touched(paths, fact) # {}}
FlagsReached(covers, derived) ==
    [sections |-> {s[1] : s \in {x \in covers : \E fact \in ChangedFacts :
                    fact[1] = "EXPOSED_TO" /\ StillThere(fact) /\ x[3] = fact[3]}},
     reports |-> {l[1] : l \in {x \in derived : \E n \in V2 :
                    n.type = "MetricObservation" /\ Identity(n) \in ChangedFacts /\ x[2] = n.doc}}]

FlagsFound(r) == [sections |-> r.found.sections, reports |-> r.found.reports]
Within(a, b) == \A k \in DOMAIN a : a[k] \subseteq b[k]

-------------------------------------------------------------------------------
(* A request *)

\* GET /impact is about the demo firm's funds (for any other firm it answers
\* with an empty feed and reads nothing), /impact/run and /impact/stream about
\* all; only a caller of the library applies the flags.
Request ==
    /\ impact.pc = "idle" /\ impacts < MaxImpacts
    /\ impacts' = impacts + 1
    /\ \E scope \in {DemoFunds, Fund}, apply \in BOOLEAN :
        impact' = [Unasked EXCEPT !.pc = "next", !.scope = scope, !.apply = apply,
                                  !.todo = {i \in Diff(V1, V2) : Triggered(i)},
                                  !.was = FlagsReached(graph.covers, links)]
    /\ stayed' = Edges(graph) /\ seen' = Edges(graph)
    /\ UNCHANGED <<reportVars, stale, outOfDate, applied>>

\* The code goes by added, removed and changed, each sorted; more[i] is what
\* the rule's query finds for difference i now.
Follow(rule, field, more) ==
    /\ impact.pc = "next"
    /\ \E i \in impact.todo :
        /\ RuleOf(i) = rule
        /\ impact' = [impact EXCEPT !.todo = @ \ {i}, !.found[field] = @ \cup more[i]]
    /\ UNCHANGED <<reportVars, stale, outOfDate, impacts, applied, stayed, seen>>

ReadHolders == Follow("holders", "funds",
    [i \in impact.todo |-> FundsHolding(Edges(graph), impact.scope, {i.subject})])

ReadSections == Follow("sections", "sections",
    [i \in impact.todo |-> SectionsCovering(graph.covers, i.object)])

ReadReports == Follow("reports", "reports",
    [i \in impact.todo |-> ReportsDeriving(links, i.doc)])

\* Mutant: only direct dependents.
ReadDependentsDirect ==
    /\ impact.pc = "next"
    /\ \E i \in impact.todo :
        /\ RuleOf(i) = "dependents"
        /\ impact' = [impact EXCEPT !.pc = "funds", !.todo = @ \ {i},
                        !.names = Dependents1to(Hops - 1, graph.supplies, i.subject)]
    /\ UNCHANGED <<reportVars, stale, outOfDate, impacts, applied, stayed, seen>>

\* The supplier rule reads twice: companies, then the funds that hold them.
ReadDependents ==
    /\ impact.pc = "next"
    /\ \E i \in impact.todo :
        /\ RuleOf(i) = "dependents"
        /\ impact' = [impact EXCEPT !.pc = "funds", !.todo = @ \ {i},
                        !.names = Dependents1to(Hops, graph.supplies, i.subject)]
    /\ UNCHANGED <<reportVars, stale, outOfDate, impacts, applied, stayed, seen>>

ReadFunds ==
    /\ impact.pc = "funds"
    /\ impact' = [impact EXCEPT !.pc = "next", !.names = {},
                    !.found.funds = @ \cup FundsHolding(Edges(graph), impact.scope, impact.names)]
    /\ UNCHANGED <<reportVars, stale, outOfDate, impacts, applied, stayed, seen>>

\* Mutant: reports are flagged only when no section is stale.
BriefSectionsOrReports ==
    /\ impact.pc = "next" /\ impact.todo = {}
    /\ impact' = [impact EXCEPT !.pc = IF ~impact.apply THEN "done"
                                       ELSE IF impact.found.sections # {} THEN "flagSections"
                                       ELSE "flagReports",
                                !.todo = IF impact.found.sections # {} THEN @
                                         ELSE impact.found.reports,
                                !.names = impact.found.sections]
    /\ UNCHANGED <<reportVars, stale, outOfDate, impacts, applied, stayed, seen>>

\* The narration may fail and then the template stands: the briefing comes.
Brief ==
    /\ impact.pc = "next" /\ impact.todo = {}
    /\ impact' = [impact EXCEPT !.pc = IF impact.apply THEN "flagSections" ELSE "done",
                                !.todo = impact.found.reports, !.names = impact.found.sections]
    /\ UNCHANGED <<reportVars, stale, outOfDate, impacts, applied, stayed, seen>>

FlagSection ==
    /\ impact.pc = "flagSections"
    /\ \/ \E s \in impact.names :
            /\ stale' = stale \cup {s}
            /\ impact' = [impact EXCEPT !.names = @ \ {s}]
       \/ /\ impact.names = {} /\ impact' = [impact EXCEPT !.pc = "flagReports"]
          /\ UNCHANGED stale
    /\ UNCHANGED <<reportVars, outOfDate, impacts, applied, stayed, seen>>

\* MATCH: no node, no flag.
FlagReport ==
    /\ impact.pc = "flagReports"
    /\ \/ \E f \in impact.todo :
            /\ outOfDate' = outOfDate \cup {g \in {f} : report[g] # None}
            /\ impact' = [impact EXCEPT !.todo = @ \ {f}]
            /\ UNCHANGED applied
       \/ /\ impact.todo = {} /\ impact' = [impact EXCEPT !.pc = "done"]
          /\ applied' = [k \in DOMAIN applied |-> applied[k] \cup impact.was[k]]
          /\ UNCHANGED outOfDate
    /\ UNCHANGED <<reportVars, stale, impacts, stayed, seen>>

Answer ==
    /\ impact.pc = "done"
    /\ impact' = Unasked
    /\ stayed' = NoHistory /\ seen' = NoHistory
    /\ UNCHANGED <<reportVars, stale, outOfDate, impacts, applied>>

\* A query or a statement raises: the flags set so far stay.
Broken ==
    /\ impact.pc \notin {"idle", "done"}
    /\ impact' = Unasked
    /\ stayed' = NoHistory /\ seen' = NoHistory
    /\ UNCHANGED <<reportVars, stale, outOfDate, impacts, applied>>

ImpactStep ==
    \/ Request \/ ReadHolders \/ ReadSections \/ ReadReports \/ ReadDependents \/ ReadFunds
    \/ Brief \/ FlagSection \/ FlagReport \/ Answer \/ Broken

\* The graph changes under an impact.
Beside ==
    /\ ReportNext
    /\ stayed' = [holds |-> [f \in Fund |-> stayed.holds[f] \cap Edges(graph').holds[f]],
                  supplies |-> stayed.supplies \cap Edges(graph').supplies]
    /\ seen' = IF impact.pc = "idle" THEN seen
               ELSE [holds |-> [f \in Fund |-> seen.holds[f] \cup Edges(graph').holds[f]],
                     supplies |-> seen.supplies \cup Edges(graph').supplies]
    /\ UNCHANGED <<stale, outOfDate, impacts, impact, applied>>

Next == Beside \/ ImpactStep

Spec == Init /\ [][Next]_vars

-------------------------------------------------------------------------------
(* Properties *)

\* "applies each rule's traversal against the graph to find the downstream
\* impact set" (change_impact.py), though each rule reads the graph at its own
\* time while packs are filed, firms deleted and duplicates merged: the impact
\* answered holds each fund that a changed fact reached along holdings and
\* supplies that stayed from the request to the answer, and only funds it
\* reaches along some that were there in between; and every section and report
\* it reached when it was asked for, and none it does not reach now.  A fund
\* whose edges a merge or a delete moves meanwhile may be missed.
ImpactIsTheReach ==
    impact.pc \in {"flagSections", "flagReports", "done"} =>
        /\ FundsReached(stayed, impact.scope) \subseteq impact.found.funds
        /\ impact.found.funds \subseteq FundsReached(seen, impact.scope)
        /\ Within(impact.was, impact.found)
        /\ Within(FlagsFound(impact), FlagsReached(graph.covers, links))

\* "Persist the target flags onto the graph nodes" (apply_flags): what a
\* change reached when it was asked for is flagged once its flags are applied,
\* and nothing is flagged that no change reaches, whatever was cut half-way.
FlagsFollowTheImpact ==
    /\ applied.sections \subseteq stale /\ applied.reports \subseteq outOfDate
    /\ Within([sections |-> stale, reports |-> outOfDate], FlagsReached(graph.covers, links))
===============================================================================
