------------------------------ MODULE FirmTable ------------------------------
(***************************************************************************)
(* The SQLite table `firms` (api/stores/sqlite.py, SCHEMA) as a value, and *)
(* the transactions api/firms/store.py runs on it, as operators from a     *)
(* table to a table.  A table is a function from the primary keys present  *)
(* to their rows.                                                          *)
(*                                                                         *)
(* Columns no statement ever tests are left out: lei, cik, identifiers,    *)
(* created_at, and source, which every caller sets together with status.   *)
(* updated_at is a logical clock; rows of one second are ordered by rowid  *)
(* in the code and by choice here.                                         *)
(***************************************************************************)
EXTENDS Naturals

CONSTANTS
    Name,       \* firm names
    FirmId,     \* slugs, the primary keys
    slugify,    \* the slug of each name; two names may share one
    Fund        \* what the funds column lists

ASSUME SlugAssumption == slugify \in [Name -> FirmId]

Status == {"demo", "onboarding", "ready", "failed"}

Row == [name : Name, status : Status, funds : SUBSET Fund,
        active : BOOLEAN, updated : Nat]

IsTable(t) == DOMAIN t \subseteq FirmId /\ t \in [DOMAIN t -> Row]

EmptyTable == [f \in {} |-> f]

HasName(t, n) == \E f \in DOMAIN t : t[f].name = n

Active(t) == {f \in DOMAIN t : t[f].active}

\* Mutant: the flag is set without clearing the others.
ActivateKeepingOthers(t, f) ==
    [g \in DOMAIN t |-> [t[g] EXCEPT !.active = @ \/ g = f]]

\* UPDATE .. SET is_active = 0 WHERE is_active = 1, then = 1 WHERE firm_id = f:
\* every flag is cleared even when no row has the key f.
Activate(t, f) == [g \in DOMAIN t |-> [t[g] EXCEPT !.active = (g = f)]]

\* The arguments of one upsert_firm call, the name apart.
UpsertKind == [status : Status, funds : SUBSET Fund, activate : BOOLEAN]

\* UPDATE firms SET .. WHERE name = n: no row, no effect.
UpdateByName(t, n, k, now) ==
    [g \in DOMAIN t |->
        IF t[g].name = n
        THEN [t[g] EXCEPT !.status = k.status, !.funds = k.funds, !.updated = now]
        ELSE t[g]]

\* The primary key on firm_id and UNIQUE on name make the INSERT raise.
InsertConflicts(t, n) == slugify[n] \in DOMAIN t \/ HasName(t, n)

Insert(t, n, k, now) ==
    [g \in DOMAIN t \cup {slugify[n]} |->
        IF g = slugify[n]
        THEN [name |-> n, status |-> k.status, funds |-> k.funds,
              active |-> FALSE, updated |-> now]
        ELSE t[g]]

\* Mutant: every upsert takes the selection.
AfterUpsertTakingSelection(t, exists, n, k, now) ==
    LET w == IF exists THEN UpdateByName(t, n, k, now) ELSE Insert(t, n, k, now)
    IN  Activate(w, slugify[n])

\* The write transaction of upsert_firm, given what its SELECT found.
AfterUpsert(t, exists, n, k, now) ==
    LET w == IF exists THEN UpdateByName(t, n, k, now) ELSE Insert(t, n, k, now)
    IN  IF k.activate \/ Active(w) = {} THEN Activate(w, slugify[n]) ELSE w

Without(t, f) == [g \in DOMAIN t \ {f} |-> t[g]]

MostRecent(t) == {f \in DOMAIN t : \A g \in DOMAIN t : t[g].updated <= t[f].updated}

\* Mutant: the flag goes with its row.
AfterDeleteLosingSelection(t, f, was_active) == {Without(t, f)}

\* Mutant: every delete re-selects, the flag it read ignored.
AfterDeleteReselecting(t, f, was_active) ==
    LET rest == Without(t, f)
    IN  IF DOMAIN rest # {} THEN {Activate(rest, g) : g \in MostRecent(rest)} ELSE {rest}

\* The outcomes of delete_firm's write transaction, given the flag its SELECT read.
AfterDelete(t, f, was_active) ==
    LET rest == Without(t, f)
    IN  IF was_active /\ DOMAIN rest # {}
        THEN {Activate(rest, g) : g \in MostRecent(rest)}
        ELSE {rest}
==============================================================================
