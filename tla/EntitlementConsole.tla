-------------------------- MODULE EntitlementConsole --------------------------
(***************************************************************************)
(* The entitlement console (entitlement-console/server): an Express server *)
(* that turns a column rule into REVOKE and GRANT on one table, a row rule *)
(* into rows of gov.entitlement, and bootstraps the demo warehouse.        *)
(*                                                                         *)
(* Each q() is a statement of its own, committed by itself, and a handler  *)
(* awaits it: calls interleave between any two statements.  A statement    *)
(* may fail, and so may the server after one (Cut).                        *)
(***************************************************************************)
EXTENDS Integers, Sequences, FiniteSets

CONSTANTS
    Request,        \* the calls made to the console
    User,           \* principals the warehouse may know
    Me,             \* the identity the console connects as
    Column,         \* the columns of the table
    Region, All,    \* the regions of sales.orders, and 'All'
    Call(_)         \* a request's inputs: [kind, user, columns] or [kind, user, region]

Whole == "whole"    \* an object-level SELECT grant, minor_id = 0
Rows == {"row-rule.add", "row-rule.remove"}

ASSUME ConsoleAssumption ==
    /\ IsFiniteSet(Column) /\ Column # {} /\ Whole \notin Column
    /\ Me \in User /\ All \notin Region
    /\ \A r \in Request : \A c \in Call(r) :
        \/ c.kind = "push" /\ c.user \in User /\ c.columns \subseteq Column
        \/ c.kind \in Rows /\ c.user \in User /\ c.region \in Region \cup {All}
        \/ c.kind = "setup"

VARIABLES
    principals,     \* users the warehouse has been shared with
    grants,         \* user -> its SELECT grants on the table
    rows,           \* gov.entitlement: <<user, region>> -> copies of the row
    objects,        \* what exists of the demo; "policy" also when it is off
    enabled,        \* the security policy's STATE
    orders,         \* times sales.orders was seeded
    change_log,     \* gov.change_log, oldest first
    call,           \* request -> its input and where its handler is
    gained, dropped,\* history: per push, columns others granted or revoked
    blurred,        \* history: what overlapping or cut calls wrote
    undone          \* history: setups whose work was undone since they began

warehouse == <<principals, grants, rows, objects, enabled, orders, change_log>>
history == <<gained, dropped, blurred, undone>>
vars == <<warehouse, call, history>>

Makes(what, needs) == [makes |-> what, needs |-> needs]
BOOTSTRAP == <<
    Makes("sales", {}), Makes("gov", {}), Makes("sec", {}),
    Makes("sales.orders", {"sales"}),
    Makes("seed", {"sales.orders"}),
    Makes("gov.entitlement", {"gov"}), Makes("gov.change_log", {"gov"}),
    Makes("sec.fn_rls_region", {"sec", "gov.entitlement"}),
    Makes("policy", {"sec.fn_rls_region", "sales.orders"}),
    Makes("mask", {"sales.orders"}) >>
Demo == {BOOTSTRAP[i].makes : i \in DOMAIN BOOTSTRAP}

MeLogged == [action |-> "row-rule.add", key |-> <<Me, All>>]
RunLogged == [action |-> "setup.run", key |-> <<>>]

NoCall == [kind |-> "none"]
Visible(g) == IF Whole \in g THEN Column ELSE g

\* A warehouse as it comes, or one that a setup has prepared.
Init == \E demo \in BOOLEAN :
    /\ principals = {Me}
    /\ grants = [u \in User |-> {}]
    /\ rows = [k \in User \X (Region \cup {All}) |-> IF demo /\ k = <<Me, All>> THEN 1 ELSE 0]
    /\ objects = IF demo THEN Demo ELSE {}
    /\ enabled = demo /\ orders = IF demo THEN 1 ELSE 0
    /\ change_log = IF demo THEN <<MeLogged, RunLogged>> ELSE <<>>
    /\ call = [r \in Request |-> [in |-> NoCall, pc |-> "idle", read |-> {},
                             n |-> 0, failed |-> FALSE]]
    /\ gained = [r \in Request |-> {}] /\ dropped = [r \in Request |-> {}]
    /\ blurred = {} /\ undone = {}

Running(r) == call[r].pc \notin {"idle", "ok", "refused", "failed"}
Goto(r, pc) == call' = [call EXCEPT ![r].pc = pc]
Key(in) == IF in.kind \in Rows THEN <<in.user, in.region>>
           ELSE IF in.kind = "push" THEN <<in.user>> ELSE <<Me, All>>

\* What the other running calls write blurs with this call's.
Overlapping(in) == \E o \in Request : Running(o) /\ Key(call[o].in) = Key(in)

Begin(r) ==
    /\ call[r].pc = "idle"
    /\ \E in \in Call(r) :
        /\ call' = [call EXCEPT ![r].in = in, ![r].pc =
                CASE in.kind = "push" -> "principal" [] in.kind \in Rows -> "region" [] OTHER -> "look"]
        /\ blurred' = IF Overlapping(in) THEN blurred \cup {Key(in)} ELSE blurred
    /\ UNCHANGED <<warehouse, gained, dropped, undone>>

\* A statement fails, or the server goes down after the last one.
Cut(r) ==
    /\ Running(r)
    /\ Goto(r, "failed")
    /\ blurred' = blurred \cup {Key(call[r].in)}
    /\ UNCHANGED <<warehouse, gained, dropped, undone>>

-------------------------------------------------------------------------------
(* POST /column-rules *)

At(r, kind, pc) == call[r].in.kind = kind /\ call[r].pc = pc

\* The principal must exist: Fabric makes it when the warehouse is shared.
CheckPrincipal(r) ==
    /\ At(r, "push", "principal")
    /\ Goto(r, IF call[r].in.user \in principals THEN "revoke" ELSE "refused")
    /\ UNCHANGED <<warehouse, history>>

\* Other pushes for this user that are past their first REVOKE.
Others(r) == {o \in Request \ {r} : call[o].in.kind = "push" /\ call[o].in.user = call[r].in.user}

Revoked(r, g) ==
    /\ grants' = [grants EXCEPT ![call[r].in.user] = @ \ g]
    /\ dropped' = [o \in Request |->
            IF o \in Others(r) THEN dropped[o] \cup Visible(g) ELSE dropped[o]]

Granted(r, g) ==
    /\ grants' = [grants EXCEPT ![call[r].in.user] = @ \cup g]
    /\ gained' = [o \in Request |->
            IF o \in Others(r) THEN gained[o] \cup Visible(g) ELSE gained[o]]
    /\ dropped' = [dropped EXCEPT ![r] = {}]

RevokeObject(r) ==
    /\ At(r, "push", "revoke")
    /\ Revoked(r, {Whole})
    /\ gained' = [gained EXCEPT ![r] = {}]
    /\ Goto(r, "read")
    /\ UNCHANGED <<principals, rows, objects, enabled, orders, change_log, blurred, undone>>

ReadColumnGrants(r) ==
    /\ At(r, "push", "read")
    /\ call' = [call EXCEPT ![r].read = grants[call[r].in.user] \ {Whole}, ![r].pc = "revokeColumns"]
    /\ UNCHANGED <<warehouse, history>>

\* Mutant: skips the second REVOKE.
RevokeColumnsSkipped(r) ==
    /\ At(r, "push", "revokeColumns") /\ Goto(r, "grant")
    /\ UNCHANGED <<warehouse, history>>

RevokeColumns(r) ==
    /\ At(r, "push", "revokeColumns")
    /\ Revoked(r, call[r].read)
    /\ Goto(r, "grant")
    /\ UNCHANGED <<principals, rows, objects, enabled, orders, change_log, gained, blurred, undone>>

\* All columns become one object-level grant, none no statement at all.
RuleOf(columns) == IF columns = Column THEN {Whole} ELSE columns

Grant(r) ==
    /\ At(r, "push", "grant")
    /\ Granted(r, RuleOf(call[r].in.columns))
    /\ Goto(r, "log")
    /\ UNCHANGED <<principals, rows, objects, enabled, orders, change_log, blurred, undone>>

-------------------------------------------------------------------------------
(* POST and DELETE /entitlements *)

\* A region is legal when some order has it, and 'All' always; without
\* sales.orders the call fails (Cut).
CheckRegion(r) ==
    /\ call[r].in.kind \in Rows /\ call[r].pc = "region" /\ "sales.orders" \in objects
    /\ Goto(r, IF orders > 0 \/ call[r].in.region = All THEN "row" ELSE "refused")
    /\ UNCHANGED <<warehouse, history>>

\* IF NOT EXISTS and INSERT are one batch but two statements.
LookForRow(r) ==
    /\ At(r, "row-rule.add", "row") /\ "gov.entitlement" \in objects
    /\ Goto(r, IF rows[Key(call[r].in)] > 0 THEN "ok" ELSE "insert")
    /\ UNCHANGED <<warehouse, history>>

\* Mutant: the row is there, and no entry says so.
InsertRowUnlogged(r) ==
    /\ At(r, "row-rule.add", "insert")
    /\ rows' = [rows EXCEPT ![Key(call[r].in)] = @ + 1]
    /\ Goto(r, "ok")
    /\ UNCHANGED <<principals, grants, objects, enabled, orders, change_log, history>>

InsertRow(r) ==
    /\ At(r, "row-rule.add", "insert")
    /\ rows' = [rows EXCEPT ![Key(call[r].in)] = @ + 1]
    /\ Goto(r, "log")
    /\ UNCHANGED <<principals, grants, objects, enabled, orders, change_log, history>>

Setups == {r \in Request : call[r].in.kind = "setup"}

RemoveRow(r) ==
    /\ At(r, "row-rule.remove", "row") /\ "gov.entitlement" \in objects
    /\ rows' = [rows EXCEPT ![Key(call[r].in)] = 0]
    /\ Goto(r, IF rows[Key(call[r].in)] > 0 THEN "log" ELSE "ok")
    /\ undone' = IF Key(call[r].in) = <<Me, All>> THEN Setups ELSE undone
    /\ UNCHANGED <<principals, grants, objects, enabled, orders, change_log,
                   gained, dropped, blurred>>

Entry(in) == IF in.kind = "push" THEN [action |-> in.kind, key |-> Key(in), columns |-> in.columns]
             ELSE [action |-> in.kind, key |-> Key(in)]

\* logChange, with gov.change_log there; without it the call fails (Cut).
LogChange(r) ==
    /\ call[r].pc = "log" /\ "gov.change_log" \in objects
    /\ change_log' = Append(change_log, Entry(call[r].in))
    /\ Goto(r, "ok")
    /\ UNCHANGED <<principals, grants, rows, objects, enabled, orders, history>>

-------------------------------------------------------------------------------
(* POST /setup *)

StepOf(r) == BOOTSTRAP[call[r].n + 1]
NextStep(r, failed) ==
    call' = [call EXCEPT ![r].n = @ + 1, ![r].failed = @ \/ failed,
                         ![r].pc = IF call[r].n + 1 = Len(BOOTSTRAP) THEN "entitle" ELSE "look"]

\* Mutant: idempotent but not convergent, an existing policy is left off.
StepLooksByName(r) ==
    /\ At(r, "setup", "look") /\ StepOf(r).needs \subseteq objects
    /\ IF StepOf(r).makes \in objects THEN NextStep(r, FALSE) ELSE Goto(r, "act")
    /\ UNCHANGED <<warehouse, history>>

\* The step's own guard: what exists already is left alone, but a policy
\* that is off is turned on.
StepLooks(r) ==
    /\ At(r, "setup", "look") /\ StepOf(r).needs \subseteq objects
    /\ IF StepOf(r).makes \in objects /\ (StepOf(r).makes = "policy" => enabled)
       THEN NextStep(r, FALSE) ELSE Goto(r, "act")
    /\ UNCHANGED <<warehouse, history>>

\* Creating what another setup has created since is an error; seeding again
\* is not.
StepActs(r) ==
    /\ At(r, "setup", "act")
    /\ LET what == StepOf(r).makes IN
        /\ what \notin objects \/ what \in {"seed", "policy"}
        /\ objects' = objects \cup {what}
        /\ enabled' = IF what = "policy" THEN TRUE ELSE enabled
        /\ orders' = IF what = "seed" THEN orders + 1 ELSE orders
    /\ NextStep(r, FALSE)
    /\ UNCHANGED <<principals, grants, rows, change_log, history>>

\* A step that fails is reported and the next one is tried.
StepFails(r) ==
    /\ At(r, "setup", "look") \/ At(r, "setup", "act")
    /\ NextStep(r, TRUE)
    /\ UNCHANGED <<warehouse, history>>

LookForMe(r) ==
    /\ At(r, "setup", "entitle") /\ "gov.entitlement" \in objects
    /\ Goto(r, IF rows[<<Me, All>>] > 0 THEN "logRun" ELSE "entitleMe")
    /\ UNCHANGED <<warehouse, history>>

EntitleMe(r) ==
    /\ At(r, "setup", "entitleMe")
    /\ rows' = [rows EXCEPT ![<<Me, All>>] = @ + 1]
    /\ Goto(r, "logMe")
    /\ UNCHANGED <<principals, grants, objects, enabled, orders, change_log, history>>

EntitleFails(r) ==
    /\ At(r, "setup", "entitle") \/ At(r, "setup", "entitleMe")
    /\ call' = [call EXCEPT ![r].pc = "logRun", ![r].failed = TRUE]
    /\ UNCHANGED <<warehouse, history>>

LogMe(r) ==
    /\ At(r, "setup", "logMe") /\ "gov.change_log" \in objects
    /\ change_log' = Append(change_log, MeLogged)
    /\ Goto(r, "logRun")
    /\ UNCHANGED <<principals, grants, rows, objects, enabled, orders, history>>

LogRun(r) ==
    /\ At(r, "setup", "logRun") /\ "gov.change_log" \in objects
    /\ change_log' = Append(change_log, RunLogged)
    /\ Goto(r, "ok")
    /\ UNCHANGED <<principals, grants, rows, objects, enabled, orders, history>>

\* The last step, "Write change log", fails: setup answers all the same.
LogFails(r) ==
    /\ At(r, "setup", "logMe") \/ At(r, "setup", "logRun")
    /\ call' = [call EXCEPT ![r].pc = "ok", ![r].failed = TRUE]
    /\ blurred' = IF call[r].pc = "logMe" THEN blurred \cup {<<Me, All>>} ELSE blurred
    /\ UNCHANGED <<warehouse, gained, dropped, undone>>

-------------------------------------------------------------------------------
(* The warehouse's own administrators *)

Share(u) ==
    /\ u \notin principals /\ principals' = principals \cup {u}
    /\ UNCHANGED <<grants, rows, objects, enabled, orders, change_log, call, history>>

PolicyOff ==
    /\ enabled /\ enabled' = FALSE
    /\ undone' = Setups
    /\ UNCHANGED <<principals, grants, rows, objects, orders, change_log, call,
                   gained, dropped, blurred>>

Next ==
    \/ \E r \in Request :
        \/ Begin(r) \/ Cut(r)
        \/ CheckPrincipal(r) \/ RevokeObject(r) \/ ReadColumnGrants(r)
        \/ RevokeColumns(r) \/ Grant(r)
        \/ CheckRegion(r) \/ LookForRow(r) \/ InsertRow(r) \/ RemoveRow(r)
        \/ LogChange(r)
        \/ StepLooks(r) \/ StepActs(r) \/ StepFails(r)
        \/ LookForMe(r) \/ EntitleMe(r) \/ EntitleFails(r)
        \/ LogMe(r) \/ LogRun(r) \/ LogFails(r)
    \/ \E u \in User : Share(u)
    \/ PolicyOff

Spec == Init /\ [][Next]_vars

-------------------------------------------------------------------------------
(* Properties *)

\* "Push a column rule: exact allow-list of columns for one user on one table":
\* once a push has granted, the user sees its columns and no other, but for
\* what other pushes for that user have granted since its first REVOKE or
\* revoked since its GRANT.
AllowListExact ==
    \A r \in Request : call[r].in.kind = "push" /\ call[r].pc \in {"log", "ok"} =>
        LET sees == Visible(grants[call[r].in.user]) IN
        /\ sees \subseteq call[r].in.columns \cup gained[r]
        /\ call[r].in.columns \subseteq sees \cup dropped[r]

LastEntry(key) ==
    LET at == {i \in DOMAIN change_log : change_log[i].key = key}
    IN  change_log[CHOOSE i \in at : \A j \in at : j <= i]
Logged(key) == \E i \in DOMAIN change_log : change_log[i].key = key
AtRest(key) == key \notin blurred /\ \A r \in Request : Running(r) => Key(call[r].in) # key

\* audit.js: the evidence trail tells what the warehouse enforces.  When the
\* calls about a user's columns, or about a row, did not overlap and none was
\* cut, its newest entry is the rule in force; and without an entry there is none.
EvidenceMatches ==
    /\ \A u \in User : AtRest(<<u>>) =>
        Visible(grants[u]) = IF Logged(<<u>>) THEN LastEntry(<<u>>).columns ELSE {}
    /\ \A k \in DOMAIN rows : AtRest(k) =>
        (rows[k] > 0 <=> Logged(k) /\ LastEntry(k).action = "row-rule.add")

\* setup.js: "Idempotent bootstrap" that is also convergent.  Setups that do
\* not overlap seed the orders once and entitle the operator once, and one
\* that answers ok leaves the whole demo, the policy on and its operator
\* entitled, until somebody undoes that.
SetupConverges ==
    /\ <<Me, All>> \notin blurred => orders <= 1 /\ rows[<<Me, All>>] <= 1
    /\ \A r \in Setups \ undone : call[r].pc = "ok" /\ ~call[r].failed =>
        objects = Demo /\ enabled /\ rows[<<Me, All>>] > 0
===============================================================================
