----------------------------- MODULE FirmRegistry -----------------------------
(***************************************************************************)
(* api/firms/store.py under concurrent callers.  FastAPI runs every        *)
(* synchronous route on a thread pool and the onboarding pipeline on a     *)
(* thread of its own, each with a SQLite connection of its own.  Python's  *)
(* sqlite3 opens a transaction at the first INSERT, UPDATE or DELETE, so   *)
(* the SELECT each operation starts with sees one committed state and its  *)
(* write transaction, which runs alone, may find another.  An operation is *)
(* therefore a read step that remembers what it saw and a write step.      *)
(***************************************************************************)
EXTENDS FirmTable

CONSTANTS
    Conn,       \* the connections: one request or one worker at a time on each
    Upserts,    \* the upsert_firm calls the program makes
    MaxClock    \* bound on updated_at

ASSUME UpsertsAssumption == Upserts \subseteq UpsertKind
ASSUME ClockAssumption == MaxClock \in Nat

VARIABLES
    firms,      \* the committed table
    clock,      \* the second the last upsert stamped
    call,       \* what each connection is in the middle of
    outcome     \* how each connection's last call ended

vars == <<firms, clock, call, outcome>>

Idle == [pc |-> "idle"]

Call ==
    {Idle}
    \cup [pc : {"select_write", "select_reread", "delete_read"}, firm : FirmId]
    \cup [pc : {"delete_write"}, firm : FirmId, was_active : BOOLEAN]
    \cup [pc : {"upsert_write"}, name : Name, kind : Upserts, exists : BOOLEAN]

Outcome == {"none", "selected", "deleted", "upserted", "unknown_firm",
            "assertion_failed", "integrity_error", "write_failed"}

Init ==
    /\ firms = EmptyTable
    /\ clock = 0
    /\ call = [c \in Conn |-> Idle]
    /\ outcome = [c \in Conn |-> "none"]

\* Connection c goes on with its call as m; its last outcome stands meanwhile.
Continue(c, m) == call' = [call EXCEPT ![c] = m] /\ UNCHANGED outcome

Return(c, o) ==
    /\ call' = [call EXCEPT ![c] = Idle]
    /\ outcome' = [outcome EXCEPT ![c] = o]

\* Mutant: the existence check is dropped.
SelectReadUnchecked(c, f) ==
    /\ call[c] = Idle
    /\ Continue(c, [pc |-> "select_write", firm |-> f])
    /\ UNCHANGED <<firms, clock>>

(***************************************************************************)
(* set_active_firm: SELECT the row or raise KeyError (404); _activate and  *)
(* commit; read the row back and assert that it is there.                  *)
(***************************************************************************)
SelectRead(c, f) ==
    /\ call[c] = Idle
    /\ IF f \in DOMAIN firms
       THEN Continue(c, [pc |-> "select_write", firm |-> f])
       ELSE Return(c, "unknown_firm")
    /\ UNCHANGED <<firms, clock>>

SelectWrite(c) ==
    /\ call[c].pc = "select_write"
    /\ firms' = Activate(firms, call[c].firm)
    /\ Continue(c, [call[c] EXCEPT !.pc = "select_reread"])
    /\ UNCHANGED clock

SelectReread(c) ==
    /\ call[c].pc = "select_reread"
    /\ Return(c, IF call[c].firm \in DOMAIN firms THEN "selected" ELSE "assertion_failed")
    /\ UNCHANGED <<firms, clock>>

(***************************************************************************)
(* DELETE /firms/{id}, its registry half: the route looks the firm up      *)
(* (404), delete_firm reads is_active (False when the row has gone: the    *)
(* route ignores that), then one transaction deletes and re-activates.     *)
(***************************************************************************)
DeleteLookup(c, f) ==
    /\ call[c] = Idle
    /\ IF f \in DOMAIN firms
       THEN Continue(c, [pc |-> "delete_read", firm |-> f])
       ELSE Return(c, "unknown_firm")
    /\ UNCHANGED <<firms, clock>>

\* Mutant: is_active is not read.
DeleteReadForgettingFlag(c) ==
    /\ call[c].pc = "delete_read"
    /\ Continue(c, [call[c] EXCEPT !.pc = "delete_write"])
    /\ UNCHANGED <<firms, clock>>

DeleteRead(c) ==
    LET f == call[c].firm IN
    /\ call[c].pc = "delete_read"
    /\ IF f \in DOMAIN firms
       THEN Continue(c, [pc |-> "delete_write", firm |-> f,
                         was_active |-> firms[f].active])
       ELSE Return(c, "deleted")
    /\ UNCHANGED <<firms, clock>>

DeleteWrite(c) ==
    /\ call[c].pc = "delete_write"
    /\ firms' \in AfterDelete(firms, call[c].firm, call[c].was_active)
    /\ Return(c, "deleted")
    /\ UNCHANGED clock

(***************************************************************************)
(* upsert_firm: SELECT by name, then UPDATE or INSERT, then _activate.     *)
(***************************************************************************)
UpsertRead(c, n, k) ==
    /\ call[c] = Idle
    /\ Continue(c, [pc |-> "upsert_write", name |-> n, kind |-> k,
                    exists |-> HasName(firms, n)])
    /\ UNCHANGED <<firms, clock>>

UpsertWrite(c) ==
    LET m == call[c] IN
    /\ m.pc = "upsert_write"
    /\ m.exists \/ ~InsertConflicts(firms, m.name)
    /\ clock' \in {clock, clock + 1} \cap 0 .. MaxClock
    /\ firms' = AfterUpsert(firms, m.exists, m.name, m.kind, clock')
    /\ Return(c, "upserted")

\* The INSERT meets a row its SELECT had not seen, or another name's slug:
\* sqlite3.IntegrityError, nothing is committed.
UpsertConflict(c) ==
    LET m == call[c] IN
    /\ m.pc = "upsert_write"
    /\ ~m.exists /\ InsertConflicts(firms, m.name)
    /\ Return(c, "integrity_error")
    /\ UNCHANGED <<firms, clock>>

\* A write gives up (another connection holds the lock past the busy timeout,
\* the disk fails): the exception leaves the call, closing rolls back.
WriteFails(c) ==
    /\ call[c].pc \in {"select_write", "delete_write", "upsert_write"}
    /\ Return(c, "write_failed")
    /\ UNCHANGED <<firms, clock>>

Next ==
    \E c \in Conn :
        \/ \E f \in FirmId : SelectRead(c, f) \/ DeleteLookup(c, f)
        \/ SelectWrite(c) \/ SelectReread(c)
        \/ DeleteRead(c) \/ DeleteWrite(c)
        \/ \E n \in Name, k \in Upserts : UpsertRead(c, n, k)
        \/ UpsertWrite(c) \/ UpsertConflict(c) \/ WriteFails(c)

Spec == Init /\ [][Next]_vars

-------------------------------------------------------------------------------
TypeOK ==
    /\ IsTable(firms)
    /\ clock \in Nat
    /\ call \in [Conn -> Call]
    /\ outcome \in [Conn -> Outcome]

\* store.py's "single-active invariant: at most one row has is_active=1",
\* whatever the interleaving of selects, deletes and upserts.
AtMostOneActive ==
    \A f, g \in Active(firms) : f = g

\* A registry that has firms has a selected one: upsert_firm bootstraps the
\* flag and delete_firm hands it on, leaving none "when the registry becomes
\* empty".  It is what GET /firms/active and every firm-scoped view rely on.
SomeActive ==
    DOMAIN firms # {} => Active(firms) # {}

\* An upsert that does not ask for activation (an onboarding that starts or
\* fails, the demo firm's registration) leaves the user's selection alone.
UpsertKeepsSelection ==
    [][\A c \in Conn :
          /\ call[c].pc = "upsert_write" /\ ~call[c].kind.activate
          /\ call'[c] = Idle /\ Active(firms) # {}
          => Active(firms') = Active(firms)]_vars

\* The selection never moves without cause: a firm becomes the selected one
\* by a select or an upsert that names it, or when a delete that had read its
\* own firm as the selected one hands the flag on.
SelectionHasCause ==
    [][\A f \in Active(firms') \ Active(firms) :
          \E c \in Conn :
             /\ call'[c] # call[c]
             /\ \/ call[c].pc = "select_write" /\ call[c].firm = f
                \/ /\ call[c].pc = "upsert_write"
                   /\ slugify[call[c].name] = f
                \/ call[c].pc = "delete_write" /\ call[c].was_active]_vars

\* What a call read is still so when it writes, and no row sits under a slug
\* other than its name's: with a single connection nothing intervenes.
SerialInv ==
    /\ \A f \in DOMAIN firms : slugify[firms[f].name] = f
    /\ \A c \in Conn :
          /\ call[c].pc \in {"select_write", "select_reread", "delete_read", "delete_write"}
                => call[c].firm \in DOMAIN firms
          /\ call[c].pc = "delete_write"
                => call[c].was_active = firms[call[c].firm].active
          /\ call[c].pc = "upsert_write"
                => call[c].exists = HasName(firms, call[c].name)

\* No two calls overlap.
OneAtATime == \A c, d \in Conn : c = d

Selection == INSTANCE ActiveSelection WITH
                 known <- DOMAIN firms, selected <- Active(firms)

\* The registry keeps the selector's promise (ActiveSelection): firms are
\* registered, selected and removed one at a time and a selection is never
\* lost.  It does so when calls do not overlap, with a single connection.
ImplementsSelection == Selection!Spec
==============================================================================
