-------------------------------- MODULE WebShell --------------------------------
(***************************************************************************)
(* The web application's shell: which firm the panels are scoped to        *)
(* (App.tsx), the header's selector (FirmSelector.tsx), the panel in view  *)
(* (useLoaded.ts) and the fixtures that stand in for a failed call         *)
(* (api.ts).  A call is answered by the server at one time and its answer  *)
(* delivered at another, in any order, or it fails.                        *)
(*                                                                         *)
(* A firm stands for its name, and data for the firm it is about.          *)
(***************************************************************************)
EXTENDS Naturals, FiniteSets

CONSTANTS
    Firm, Demo,             \* firms known by name; the fixtures are about Demo
    MaxUses,                \* bounds: panels opened, scopes chosen, questions and
    MaxReads, MaxCalls      \* enrichments; reads, of each kind, and panel's calls at a time

None == "none"
AllData == "all"
Waiting == "waiting"
Failed == "failed"

\* No firm, and no answer yet, are no strings in the code.
ASSUME ShellAssumption == Demo \in Firm /\ {None, Waiting} \cap Firm = {}

VARIABLES
    registry,   \* the server: [firms, selected]
    activeFirm, \* App: the scope handed to the panels
    reloadKey,  \* App: bumped to remount the panel and read the registry again
    actives,    \* calls of GET /firms/active: [key, answer], key the reloadKey they are for
    loads,      \* the selector's load() calls so far
    lists,      \* calls of GET /firms: [key, answer], key the load they are of
    enriching,  \* the selector streams an enrichment
    list,       \* the selector's: [firms, selected, live], or NoList
    busy,       \* the selector's POST: [firm, answer], or Idle
    panel,      \* the panel: [kind, firm, since, call, shown, asked, late]
    calls,      \* its calls and its forerunners': [id, kind, firm]
    uses,       \* bounded by MaxUses
    newest,     \* the newest key answered, of each kind of call
    excused     \* history: a call failed, or an answer overtook a later read's

panelVars == <<panel, calls>>
selectorVars == <<list, busy, enriching>>
readVars == <<reloadKey, actives, loads, lists, newest, excused>>
shellVars == <<registry, activeFirm, uses, panelVars, selectorVars, readVars>>

\* What useLoaded loads for a firm, or for none (risk, reports, evaluation);
\* the master data's own fetch; and the analyst's questions.
Kind == {"loaded", "own", "fetched", "chat"}
ByFirm == {"loaded", "fetched"}

Call(id, kind, firm) == [id |-> id, kind |-> kind, firm |-> firm]
Unread == [firms |-> {}, selected |-> None]
Read(key) == [key |-> key, answer |-> Unread]
NoList == [firms |-> {}, selected |-> None, live |-> FALSE]
Idle == [firm |-> None, answer |-> None]

ShellInit ==
    /\ registry \in [firms : {S \in SUBSET Firm : Demo \in S}, selected : {Demo}]
    /\ activeFirm = None
    /\ reloadKey = 0 /\ actives = {Read(0)}
    /\ loads = 0 /\ lists = {Read(0)}
    /\ list = NoList /\ busy = Idle /\ enriching = FALSE
    /\ panel = [kind |-> "chat", firm |-> None, since |-> 1, call |-> 0, shown |-> None,
                asked |-> {}, late |-> FALSE]
    /\ calls = {}
    /\ uses = 0
    /\ newest = [active |-> 0, list |-> 0]
    /\ excused = FALSE

-------------------------------------------------------------------------------
(* The panel.  One that takes the firm asks again when the firm changes;    *)
(* useLoaded drops the answer to a call that was superseded, and the master *)
(* data and the chat show whatever comes last.  An answer to a panel that   *)
(* was unmounted is lost.                                                   *)

Asks(kind, since, firm, shown, asked) ==
    /\ Cardinality(calls) < MaxCalls
    /\ panel' = [kind |-> kind, firm |-> firm, since |-> since, call |-> panel.call + 1,
                 shown |-> shown, asked |-> asked \cup {firm}, late |-> FALSE]
    /\ calls' = calls \cup {Call(panel.call + 1, kind, firm)}

\* The chat waits for a question.
Mounted(kind, firm) ==
    IF kind = "chat"
    THEN /\ panel' = [kind |-> kind, firm |-> firm, since |-> panel.call + 1, call |-> panel.call,
                      shown |-> None, asked |-> {}, late |-> FALSE]
         /\ UNCHANGED calls
    ELSE Asks(kind, panel.call + 1, IF kind \in ByFirm THEN firm ELSE None, None, {})

Rescoped(firm) ==
    IF panel.kind \in ByFirm /\ firm # panel.firm
    THEN Asks(panel.kind, panel.since, firm, panel.shown, panel.asked)
    ELSE UNCHANGED panelVars

\* Another panel is opened; ingestion, which asks nothing, may have come between.
Visit ==
    /\ uses < MaxUses
    /\ uses' = uses + 1
    /\ \E kind \in Kind : Mounted(kind, activeFirm)
    /\ UNCHANGED <<registry, activeFirm, selectorVars, readVars>>

\* A question, or a toggle that asks it again, also while one is under way.
Ask ==
    /\ panel.kind = "chat" /\ uses < MaxUses
    /\ uses' = uses + 1
    /\ Asks("chat", panel.since, activeFirm, panel.shown, panel.asked)
    /\ UNCHANGED <<registry, activeFirm, selectorVars, readVars>>

\* The server scopes by the firm asked for, or else by the one selected.
\* loaded: live data, else the fixture where it is allowed, else nothing.
Sample == "sample"
Empty == "empty"
Loaded(c) ==
    (IF c.firm = None THEN registry.firms ELSE {c.firm})
        \cup {IF c.kind = "own" \/ (c.kind # "fetched" /\ c.firm = Demo) THEN Sample ELSE Empty}

\* Mutant: an answer is shown whatever has been mounted or asked since.
NeverSuperseded(c) == FALSE

Superseded(c) == c.id < (IF panel.kind \in {"loaded", "own"} THEN panel.call ELSE panel.since)

DeliverPanel ==
    /\ \E c \in calls :
        /\ calls' = calls \ {c}
        /\ \E data \in Loaded(c) :
            panel' = IF Superseded(c) THEN panel
                     ELSE [panel EXCEPT !.shown = data,
                            !.late = c.id < panel.call /\ \A d \in calls : d.id # panel.call]
    /\ UNCHANGED <<registry, activeFirm, uses, selectorVars, readVars>>

-------------------------------------------------------------------------------
(* App: the registry is read again whenever the key is bumped *)

Load ==
    /\ Cardinality(lists) < MaxReads
    /\ loads' = loads + 1
    /\ lists' = lists \cup {Read(loads + 1)}

Reload(firm) ==
    /\ Cardinality(actives) < MaxReads
    /\ reloadKey' = reloadKey + 1
    /\ actives' = actives \cup {Read(reloadKey + 1)}
    /\ Load
    /\ Mounted(panel.kind, firm)

\* Mutant: the registry is not read again.
OnSelectOnly(firm) ==
    /\ activeFirm' = firm
    /\ Rescoped(firm)
    /\ UNCHANGED <<reloadKey, actives, loads, lists>>

OnSelect(firm) ==
    /\ activeFirm' = firm
    /\ Reload(firm)

\* No reload: reading the registry again would end the scope.
SelectAll ==
    /\ list # NoList /\ uses < MaxUses
    /\ uses' = uses + 1
    /\ activeFirm' = AllData
    /\ Rescoped(AllData)
    /\ UNCHANGED <<registry, selectorVars, readVars>>

\* What stands in for a failed read, also of a registry with no firm selected.
Fixture == [firms |-> {Demo}, selected |-> Demo, fixture |-> TRUE]

Answers(reads) ==
    {<<r, [r EXCEPT !.answer = a]>> : r \in {x \in reads : x.answer = Unread}, a \in {registry, Fixture}}

AnswerActive ==
    /\ \E p \in Answers(actives) : actives' = (actives \ {p[1]}) \cup {p[2]}
    /\ UNCHANGED <<registry, activeFirm, uses, panelVars, selectorVars, reloadKey, loads, lists, newest,
                   excused>>

AnswerList ==
    /\ \E p \in Answers(lists) : lists' = (lists \ {p[1]}) \cup {p[2]}
    /\ UNCHANGED <<registry, activeFirm, uses, panelVars, selectorVars, reloadKey, actives, loads, newest,
                   excused>>

Late(r, kind) == r.answer = Fixture \/ r.key < newest[kind]
AtLeast(a, b) == IF a < b THEN b ELSE a

\* Whatever was chosen since, and in whatever order the answers come.
DeliverActive ==
    /\ \E r \in actives :
        /\ r.answer # Unread
        /\ actives' = actives \ {r}
        /\ activeFirm' = r.answer.selected
        /\ Rescoped(r.answer.selected)
        /\ excused' = (excused \/ Late(r, "active"))
        /\ newest' = [newest EXCEPT !.active = AtLeast(@, r.key)]
    /\ UNCHANGED <<registry, uses, selectorVars, reloadKey, loads, lists>>

DeliverList ==
    /\ \E r \in lists :
        /\ r.answer # Unread
        /\ lists' = lists \ {r}
        /\ list' = [firms |-> r.answer.firms, selected |-> r.answer.selected, live |-> r.answer # Fixture]
        /\ excused' = (excused \/ Late(r, "list"))
        /\ newest' = [newest EXCEPT !.list = AtLeast(@, r.key)]
    /\ UNCHANGED <<registry, activeFirm, uses, panelVars, busy, enriching, reloadKey, actives, loads>>

-------------------------------------------------------------------------------
(* The selector *)

\* The registry's own firm is only shown again, when All data was.
ChooseShown ==
    /\ list.live /\ busy = Idle
    /\ activeFirm = AllData /\ uses < MaxUses
    /\ uses' = uses + 1
    /\ OnSelect(list.selected)
    /\ UNCHANGED <<registry, selectorVars, newest, excused>>

Choose ==
    /\ list.live /\ busy = Idle /\ uses < MaxUses
    /\ uses' = uses + 1
    /\ \E f \in list.firms \ {list.selected} : busy' = [firm |-> f, answer |-> Waiting]
    /\ UNCHANGED <<registry, activeFirm, panelVars, list, enriching, readVars>>

\* It may fail before the server selects or after.
ServerSelects ==
    /\ busy.answer = Waiting
    /\ \E ok, selects \in BOOLEAN :
        /\ ok => selects
        /\ registry' = IF selects THEN [registry EXCEPT !.selected = busy.firm] ELSE registry
        /\ busy' = [busy EXCEPT !.answer = IF ok THEN busy.firm ELSE Failed]
        /\ excused' = (excused \/ ~ok)
    /\ UNCHANGED <<activeFirm, uses, panelVars, list, enriching, reloadKey, actives, loads, lists, newest>>

\* The answer is not looked at: the firm is shown as selected either way.
Chosen ==
    /\ busy.answer \notin {None, Waiting}
    /\ list' = [list EXCEPT !.selected = IF busy.firm \in list.firms THEN busy.firm ELSE None]
    /\ OnSelect(busy.firm)
    /\ busy' = Idle
    /\ UNCHANGED <<registry, uses, enriching, newest, excused>>

\* The demo firm cannot be enriched.
EnrichBegins ==
    /\ list.live /\ ~enriching /\ list.firms # {Demo} /\ uses < MaxUses
    /\ uses' = uses + 1
    /\ enriching' = TRUE
    /\ UNCHANGED <<registry, activeFirm, panelVars, list, busy, readVars>>

\* The list alone is read again, unless the enrichment failed.
EnrichEnds ==
    /\ enriching
    /\ enriching' = FALSE
    /\ Load \/ UNCHANGED <<loads, lists>>
    /\ UNCHANGED <<registry, activeFirm, uses, panelVars, list, busy, reloadKey, actives, newest, excused>>

ShellNext ==
    \/ Visit \/ Ask \/ DeliverPanel \/ SelectAll \/ AnswerActive \/ AnswerList
    \/ DeliverActive \/ DeliverList \/ ChooseShown \/ Choose \/ ServerSelects \/ Chosen
    \/ EnrichBegins \/ EnrichEnds

-------------------------------------------------------------------------------
(* Properties *)

ShellQuiet == actives = {} /\ lists = {} /\ busy = Idle

\* "threaded into every scoped panel so ... the server (and the fixture
\* guard) scope to the right firm" (App.tsx): once every call is answered, the
\* panels and the selector show the server's selection, or all data; unless a
\* call failed or an answer overtook that of a later read.
ScopeFollowsServer ==
    ShellQuiet /\ ~excused =>
        /\ activeFirm \in {registry.selected, AllData}
        /\ list.selected = registry.selected

\* What may be shown as the answer to a call for the firm.
About(kind, firm) ==
    (IF firm = None THEN Firm ELSE {firm}) \cup {Empty}
        \cup (IF firm = Demo /\ kind # "fetched" THEN {Sample} ELSE {})

\* "a backend hiccup never resurfaces the demo's data under a firm it doesn't
\* belong to" (api.ts): a panel that follows the firm has asked for the shell's
\* last.  Once its last call is answered, what useLoaded shows is of that firm,
\* or nothing, and the fixture only for the demo firm.  The master data and
\* the chat never show what was asked before they were mounted, as on every
\* switch to a firm, and show the last firm asked for once it is answered,
\* unless an answer to an earlier call came after.
PanelKeepsToItsFirm ==
    LET answered == \A c \in calls : c.id # panel.call
        asked == panel.since <= panel.call
    IN  /\ panel.kind \in ByFirm => panel.firm = activeFirm
        /\ panel.kind # "own" =>
            /\ panel.shown \in {None} \cup UNION {About(panel.kind, firm) : firm \in panel.asked}
            /\ asked /\ answered /\ ~panel.late => panel.shown \in About(panel.kind, panel.firm)
===============================================================================
