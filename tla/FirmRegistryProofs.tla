-------------------------- MODULE FirmRegistryProofs --------------------------
(***************************************************************************)
(* Theorems about FirmRegistry, for every set of names, slugs, connections *)
(* and upserts: type correctness, the single-active invariant under every  *)
(* interleaving, and, when calls do not overlap, that a registry with      *)
(* firms has a selected one and implements ActiveSelection.                *)
(***************************************************************************)
EXTENDS FirmRegistry, TLAPS

-------------------------------------------------------------------------------
(* What the table's transactions preserve.                                 *)

\* No row that both tables have is renamed.
SameNames(t, u) == \A g \in DOMAIN t \cap DOMAIN u : u[g].name = t[g].name

\* The keys after an upsert of n: the same, or with a new row, which is n's.
KeysAfterUpsert(t, n, exists, u) ==
    /\ exists = TRUE => DOMAIN u = DOMAIN t
    /\ exists = FALSE => /\ DOMAIN u = DOMAIN t \cup {slugify[n]}
                         /\ u[slugify[n]].name = n

\* What the UPDATE or the INSERT of an upsert leaves: every flag as it was.
WriteEffect(t, n, exists, u) ==
    /\ IsTable(u)
    /\ KeysAfterUpsert(t, n, exists, u)
    /\ Active(u) = Active(t)
    /\ SameNames(t, u)

\* What a whole upsert leaves.
UpsertEffect(t, n, exists, activate, u) ==
    /\ IsTable(u)
    /\ KeysAfterUpsert(t, n, exists, u)
    /\ \/ Active(u) = DOMAIN u \cap {slugify[n]} /\ (activate = TRUE \/ Active(t) = {})
       \/ Active(u) = Active(t) /\ activate = FALSE /\ Active(t) # {}
    /\ SameNames(t, u)

\* What a delete of f leaves when it had read f's flag as was_active.
DeleteEffect(t, f, was_active, u) ==
    /\ IsTable(u)
    /\ DOMAIN u = DOMAIN t \ {f}
    /\ \/ was_active = TRUE /\ \E g \in DOMAIN u : Active(u) = {g}
       \/ was_active = TRUE /\ DOMAIN u = {} /\ Active(u) = {}
       \/ was_active = FALSE /\ Active(u) = Active(t) \ {f}
    /\ SameNames(t, u)

\* _activate keeps the rows, and leaves the flag on f alone, if f is there.
LEMMA ActivateFacts ==
    ASSUME NEW t, NEW f, IsTable(t)
    PROVE  /\ IsTable(Activate(t, f))
           /\ DOMAIN Activate(t, f) = DOMAIN t
           /\ Active(Activate(t, f)) = DOMAIN t \cap {f}
           /\ SameNames(t, Activate(t, f))
  BY DEF IsTable, Activate, Active, Row, SameNames

\* An UPDATE by name keeps keys, names and flags.
LEMMA UpdateFacts ==
    ASSUME NEW t, NEW n, NEW k, NEW now, NEW u,
           IsTable(t), n \in Name, k \in UpsertKind, now \in Nat,
           u = UpdateByName(t, n, k, now)
    PROVE  WriteEffect(t, n, TRUE, u)
  BY DEF IsTable, UpdateByName, Active, Row, UpsertKind, SameNames, KeysAfterUpsert,
         WriteEffect

\* An INSERT that does not conflict adds one row, not active.
LEMMA InsertFacts ==
    ASSUME NEW t, NEW n, NEW k, NEW now, NEW u,
           IsTable(t), n \in Name, k \in UpsertKind, now \in Nat,
           ~InsertConflicts(t, n), u = Insert(t, n, k, now)
    PROVE  WriteEffect(t, n, FALSE, u)
  BY SlugAssumption
     DEF IsTable, Insert, InsertConflicts, Active, Row, UpsertKind, HasName,
         SameNames, KeysAfterUpsert, WriteEffect

\* A DELETE takes the row and its flag, nothing else.
LEMMA WithoutFacts ==
    ASSUME NEW t, NEW f, IsTable(t)
    PROVE  /\ IsTable(Without(t, f))
           /\ DOMAIN Without(t, f) = DOMAIN t \ {f}
           /\ Active(Without(t, f)) = Active(t) \ {f}
           /\ SameNames(t, Without(t, f))
  BY DEF IsTable, Without, Active, Row, SameNames

\* upsert_firm's transaction keeps the table a table and the flag single.
LEMMA AfterUpsertFacts ==
    ASSUME NEW t, NEW n, NEW k, NEW now, NEW exists, NEW u,
           IsTable(t), n \in Name, k \in UpsertKind, now \in Nat,
           exists \in BOOLEAN, exists = TRUE \/ ~InsertConflicts(t, n),
           u = AfterUpsert(t, exists, n, k, now)
    PROVE  UpsertEffect(t, n, exists, k.activate, u)
<1> DEFINE w == IF exists THEN UpdateByName(t, n, k, now) ELSE Insert(t, n, k, now)
<1>1. WriteEffect(t, n, exists, w)
  <2>1. CASE exists = TRUE
    <3>1. w = UpdateByName(t, n, k, now)
      BY <2>1
    <3> HIDE DEF w
    <3> QED BY <2>1, <3>1, UpdateFacts
  <2>2. CASE exists = FALSE
    <3>1. w = Insert(t, n, k, now) /\ ~InsertConflicts(t, n)
      BY <2>2
    <3> HIDE DEF w
    <3> QED BY <2>2, <3>1, InsertFacts
  <2> QED BY <2>1, <2>2
<1>2. k.activate \in BOOLEAN
  BY DEF UpsertKind
<1>3. u = IF k.activate \/ Active(w) = {} THEN Activate(w, slugify[n]) ELSE w
  BY DEF AfterUpsert
<1> HIDE DEF w
<1>4. CASE k.activate = TRUE \/ Active(w) = {}
  <2>1. u = Activate(w, slugify[n]) /\ IsTable(w)
    BY <1>1, <1>3, <1>4 DEF WriteEffect
  <2>2. /\ IsTable(u)
        /\ DOMAIN u = DOMAIN w
        /\ Active(u) = DOMAIN w \cap {slugify[n]}
        /\ SameNames(w, u)
    BY <2>1, ActivateFacts
  <2>3. KeysAfterUpsert(t, n, exists, u) /\ SameNames(t, u)
    BY <1>1, <2>2 DEF WriteEffect, SameNames, KeysAfterUpsert
  <2> QED BY <1>1, <1>4, <2>2, <2>3 DEF WriteEffect, UpsertEffect
<1>5. CASE k.activate = FALSE /\ Active(w) # {}
  <2>1. u = w
    BY <1>3, <1>5
  <2> QED BY <1>1, <1>5, <2>1 DEF WriteEffect, UpsertEffect
<1> QED BY <1>2, <1>4, <1>5

\* delete_firm's transaction takes the row, and hands the flag to one remaining
\* row when it had read it set.
LEMMA AfterDeleteFacts ==
    ASSUME NEW t, NEW f, NEW was_active, NEW u,
           IsTable(t), was_active \in BOOLEAN, u \in AfterDelete(t, f, was_active)
    PROVE  DeleteEffect(t, f, was_active, u)
<1> DEFINE rest == Without(t, f)
<1>1. /\ IsTable(rest)
      /\ DOMAIN rest = DOMAIN t \ {f}
      /\ Active(rest) = Active(t) \ {f}
      /\ SameNames(t, rest)
  BY WithoutFacts
<1>2. u \in IF was_active /\ DOMAIN rest # {}
            THEN {Activate(rest, g) : g \in MostRecent(rest)}
            ELSE {rest}
  BY DEF AfterDelete
<1> HIDE DEF rest
<1>3. CASE was_active = TRUE /\ DOMAIN rest # {}
  <2>1. PICK g \in MostRecent(rest) : u = Activate(rest, g)
    BY <1>2, <1>3
  <2>2. g \in DOMAIN rest
    BY DEF MostRecent
  <2>3. /\ IsTable(u)
        /\ DOMAIN u = DOMAIN rest
        /\ Active(u) = {g}
        /\ SameNames(rest, u)
    BY <1>1, <2>1, <2>2, ActivateFacts
  <2> QED BY <1>1, <1>3, <2>2, <2>3 DEF SameNames, DeleteEffect
<1>4. CASE ~(was_active = TRUE /\ DOMAIN rest # {})
  <2>1. u = rest
    BY <1>2, <1>4
  <2>2. Active(rest) \subseteq DOMAIN rest
    BY DEF Active
  <2> QED BY <1>1, <1>4, <2>1, <2>2 DEF DeleteEffect
<1> QED BY <1>3, <1>4

-------------------------------------------------------------------------------
(* Type correctness.                                                       *)

\* A connection holds a call whose fields its pc determines.
LEMMA CallFacts ==
    ASSUME TypeOK, NEW c \in Conn
    PROVE  /\ call[c].pc \in {"select_write", "select_reread", "delete_read"}
                => call[c] \in [pc : {"select_write", "select_reread", "delete_read"},
                                firm : FirmId]
           /\ call[c].pc = "delete_write"
                => call[c] \in [pc : {"delete_write"}, firm : FirmId,
                                was_active : BOOLEAN]
           /\ call[c].pc = "upsert_write"
                => call[c] \in [pc : {"upsert_write"}, name : Name, kind : Upserts,
                                exists : BOOLEAN]
  BY DEF TypeOK, Call, Idle

\* A committed upsert, from what its SELECT had found.
LEMMA UpsertWriteFacts ==
    ASSUME TypeOK, NEW c \in Conn, UpsertWrite(c)
    PROVE  /\ UpsertEffect(firms, call[c].name, call[c].exists, call[c].kind.activate,
                           firms')
           /\ clock' \in Nat
           /\ call[c].kind.activate \in BOOLEAN
           /\ call[c].exists \in BOOLEAN
<1> DEFINE n == call[c].name
           k == call[c].kind
           e == call[c].exists
<1>1. /\ IsTable(firms) /\ clock' \in Nat
      /\ n \in Name /\ k \in UpsertKind /\ e \in BOOLEAN
      /\ e = TRUE \/ ~InsertConflicts(firms, n)
      /\ firms' = AfterUpsert(firms, e, n, k, clock')
  <2>1. n \in Name /\ k \in UpsertKind /\ e \in BOOLEAN
    BY CallFacts, UpsertsAssumption DEF UpsertWrite
  <2> QED BY <2>1, ClockAssumption DEF UpsertWrite, TypeOK
<1> HIDE DEF n, k, e
<1>2. k.activate \in BOOLEAN
  BY <1>1 DEF UpsertKind
<1>3. UpsertEffect(firms, n, e, k.activate, firms')
  BY <1>1, AfterUpsertFacts
<1> QED BY <1>1, <1>2, <1>3 DEF n, k, e

\* A committed delete, from what its SELECT had read.
LEMMA DeleteWriteFacts ==
    ASSUME TypeOK, NEW c \in Conn, DeleteWrite(c)
    PROVE  /\ DeleteEffect(firms, call[c].firm, call[c].was_active, firms')
           /\ call[c].was_active \in BOOLEAN
<1> DEFINE f == call[c].firm
           w == call[c].was_active
<1>1. IsTable(firms) /\ w \in BOOLEAN /\ firms' \in AfterDelete(firms, f, w)
  BY CallFacts DEF DeleteWrite, TypeOK
<1> HIDE DEF f, w
<1>2. DeleteEffect(firms, f, w, firms')
  BY <1>1, AfterDeleteFacts
<1> QED BY <1>1, <1>2 DEF f, w

\* Every variable keeps its type: the committed table stays a table whatever
\* transaction commits, and a call is always one of its operation's steps.
THEOREM TypeCorrect == Spec => []TypeOK
<1>1. Init => TypeOK
  BY DEF Init, TypeOK, IsTable, EmptyTable, Call, Outcome
<1>2. TypeOK /\ [Next]_vars => TypeOK'
  <2> SUFFICES ASSUME TypeOK, [Next]_vars PROVE TypeOK'
    OBVIOUS
  <2> USE DEF TypeOK, Continue, Return
  <2>1. ASSUME NEW c \in Conn, NEW f \in FirmId, SelectRead(c, f) PROVE TypeOK'
    BY <2>1 DEF SelectRead, Call, Outcome
  <2>2. ASSUME NEW c \in Conn, NEW f \in FirmId, DeleteLookup(c, f) PROVE TypeOK'
    BY <2>2 DEF DeleteLookup, Call, Outcome
  <2>3. ASSUME NEW c \in Conn, SelectWrite(c) PROVE TypeOK'
    <3>1. IsTable(firms')
      BY <2>3, ActivateFacts DEF SelectWrite
    <3>2. call' \in [Conn -> Call]
      <4>1. [call[c] EXCEPT !.pc = "select_reread"] \in Call
        BY <2>3, CallFacts DEF SelectWrite, Call
      <4> QED BY <2>3, <4>1 DEF SelectWrite
    <3> QED BY <2>3, <3>1, <3>2 DEF SelectWrite
  <2>4. ASSUME NEW c \in Conn, SelectReread(c) PROVE TypeOK'
    BY <2>4 DEF SelectReread, Call, Outcome
  <2>5. ASSUME NEW c \in Conn, DeleteRead(c) PROVE TypeOK'
    <3>1. call[c].firm \in FirmId
      BY <2>5, CallFacts DEF DeleteRead
    <3>2. CASE call[c].firm \in DOMAIN firms
      <4>1. firms[call[c].firm].active \in BOOLEAN
        BY <3>2 DEF IsTable, Row
      <4>2. [pc |-> "delete_write", firm |-> call[c].firm,
             was_active |-> firms[call[c].firm].active] \in Call
        BY <3>1, <4>1 DEF Call
      <4> QED BY <2>5, <3>2, <4>2 DEF DeleteRead
    <3>3. CASE call[c].firm \notin DOMAIN firms
      BY <2>5, <3>3 DEF DeleteRead, Call, Outcome
    <3> QED BY <3>2, <3>3
  <2>6. ASSUME NEW c \in Conn, DeleteWrite(c) PROVE TypeOK'
    BY <2>6, DeleteWriteFacts DEF DeleteWrite, DeleteEffect, Call, Outcome
  <2>7. ASSUME NEW c \in Conn, NEW n \in Name, NEW k \in Upserts, UpsertRead(c, n, k)
        PROVE TypeOK'
    <3>1. [pc |-> "upsert_write", name |-> n, kind |-> k,
           exists |-> HasName(firms, n)] \in Call
      BY DEF Call, HasName
    <3> QED BY <2>7, <3>1 DEF UpsertRead
  <2>8. ASSUME NEW c \in Conn, UpsertWrite(c) PROVE TypeOK'
    BY <2>8, UpsertWriteFacts DEF UpsertWrite, UpsertEffect, Call, Outcome
  <2>9. ASSUME NEW c \in Conn, UpsertConflict(c) PROVE TypeOK'
    BY <2>9 DEF UpsertConflict, Call, Outcome
  <2>10. ASSUME NEW c \in Conn, WriteFails(c) PROVE TypeOK'
    BY <2>10 DEF WriteFails, Call, Outcome
  <2>11. CASE UNCHANGED vars
    BY <2>11 DEF vars
  <2> QED
    BY <2>1, <2>2, <2>3, <2>4, <2>5, <2>6, <2>7, <2>8, <2>9, <2>10, <2>11 DEF Next
<1> QED BY <1>1, <1>2, PTL DEF Spec

-------------------------------------------------------------------------------
(* What holds under every interleaving.                                    *)

\* Each kind of step, seen from the selection: who is active afterwards.
LEMMA StepEffect ==
    ASSUME TypeOK, [Next]_vars
    PROVE  \/ UNCHANGED firms
           \/ \E c \in Conn :
                /\ call[c].pc = "select_write"
                /\ call' = [call EXCEPT ![c] = [call[c] EXCEPT !.pc = "select_reread"]]
                /\ Active(firms') = DOMAIN firms \cap {call[c].firm}
           \/ \E c \in Conn :
                /\ call[c].pc = "upsert_write" /\ call' = [call EXCEPT ![c] = Idle]
                /\ \/ Active(firms') = DOMAIN firms' \cap {slugify[call[c].name]}
                   \/ Active(firms') = Active(firms)
                /\ ~call[c].kind.activate /\ Active(firms) # {}
                      => Active(firms') = Active(firms)
           \/ \E c \in Conn :
                /\ call[c].pc = "delete_write" /\ call' = [call EXCEPT ![c] = Idle]
                /\ \/ call[c].was_active /\ \E g : Active(firms') \subseteq {g}
                   \/ Active(firms') \subseteq Active(firms)
<1> USE DEF Continue, Return
<1>1. ASSUME NEW c \in Conn, NEW f \in FirmId, SelectRead(c, f) \/ DeleteLookup(c, f)
      PROVE  UNCHANGED firms
  BY <1>1 DEF SelectRead, DeleteLookup
<1>2. ASSUME NEW c \in Conn, SelectWrite(c)
      PROVE  /\ call[c].pc = "select_write"
             /\ call' = [call EXCEPT ![c] = [call[c] EXCEPT !.pc = "select_reread"]]
             /\ Active(firms') = DOMAIN firms \cap {call[c].firm}
  BY <1>2, ActivateFacts DEF SelectWrite, TypeOK
<1>3. ASSUME NEW c \in Conn, SelectReread(c) \/ DeleteRead(c) \/ UpsertConflict(c)
                             \/ WriteFails(c)
      PROVE  UNCHANGED firms
  BY <1>3 DEF SelectReread, DeleteRead, UpsertConflict, WriteFails
<1>4. ASSUME NEW c \in Conn, NEW n \in Name, NEW k \in Upserts, UpsertRead(c, n, k)
      PROVE  UNCHANGED firms
  BY <1>4 DEF UpsertRead
<1>5. ASSUME NEW c \in Conn, UpsertWrite(c)
      PROVE  /\ call[c].pc = "upsert_write" /\ call' = [call EXCEPT ![c] = Idle]
             /\ \/ Active(firms') = DOMAIN firms' \cap {slugify[call[c].name]}
                \/ Active(firms') = Active(firms)
             /\ ~call[c].kind.activate /\ Active(firms) # {}
                   => Active(firms') = Active(firms)
  BY <1>5, UpsertWriteFacts DEF UpsertWrite, UpsertEffect
<1>6. ASSUME NEW c \in Conn, DeleteWrite(c)
      PROVE  /\ call[c].pc = "delete_write" /\ call' = [call EXCEPT ![c] = Idle]
             /\ \/ call[c].was_active /\ \E g : Active(firms') \subseteq {g}
                \/ Active(firms') \subseteq Active(firms)
  BY <1>6, DeleteWriteFacts DEF DeleteWrite, DeleteEffect
<1>7. CASE UNCHANGED vars
  BY <1>7 DEF vars
<1> QED BY <1>1, <1>2, <1>3, <1>4, <1>5, <1>6, <1>7 DEF Next

\* store.py's single-active invariant holds for any number of connections: no
\* write trusts the flags its read saw, each clears them all before it sets one.
THEOREM SingleActive == Spec => []AtMostOneActive
<1>1. Init => AtMostOneActive
  BY DEF Init, AtMostOneActive, EmptyTable, Active
<1>2. TypeOK /\ AtMostOneActive /\ [Next]_vars => AtMostOneActive'
  <2> SUFFICES ASSUME TypeOK, AtMostOneActive, [Next]_vars PROVE AtMostOneActive'
    OBVIOUS
  <2>1. \/ Active(firms') \subseteq Active(firms)
        \/ \E g : Active(firms') \subseteq {g}
    BY StepEffect
  <2> QED BY <2>1 DEF AtMostOneActive
<1> QED BY <1>1, <1>2, TypeCorrect, PTL DEF Spec

\* An onboarding that starts or fails, or the demo firm's registration, never
\* takes the selection from the firm the user selected.
THEOREM UpsertsKeepSelection == Spec => UpsertKeepsSelection
<1>1. TypeOK /\ [Next]_vars =>
        [\A c \in Conn :
            /\ call[c].pc = "upsert_write" /\ ~call[c].kind.activate
            /\ call'[c] = Idle /\ Active(firms) # {}
            => Active(firms') = Active(firms)]_vars
  <2> SUFFICES ASSUME TypeOK, [Next]_vars, NEW c \in Conn,
                      call[c].pc = "upsert_write", ~call[c].kind.activate,
                      call'[c] = Idle, Active(firms) # {}
               PROVE  Active(firms') = Active(firms)
    OBVIOUS
  <2>1. ASSUME NEW d \in Conn, call[d].pc = "select_write",
               call' = [call EXCEPT ![d] = [call[d] EXCEPT !.pc = "select_reread"]]
        PROVE  FALSE
    <3>1. call[d] \in [pc : {"select_write", "select_reread", "delete_read"}, firm : FirmId]
      BY <2>1, CallFacts
    <3>2. call'[d].pc = "select_reread" /\ \A e \in Conn : e # d => call'[e] = call[e]
      BY <2>1, <3>1 DEF TypeOK
    <3> QED BY <2>1, <3>2 DEF Idle
  <2>2. ASSUME NEW d \in Conn, call[d].pc = "delete_write",
               call' = [call EXCEPT ![d] = Idle]
        PROVE  FALSE
    BY <2>2 DEF TypeOK, Idle
  <2>3. ASSUME NEW d \in Conn, call[d].pc = "upsert_write",
               call' = [call EXCEPT ![d] = Idle],
               ~call[d].kind.activate /\ Active(firms) # {}
                  => Active(firms') = Active(firms)
        PROVE  Active(firms') = Active(firms)
    <3>1. d = c
      BY <2>3 DEF TypeOK, Idle
    <3> QED BY <2>3, <3>1
  <2> QED BY <2>1, <2>2, <2>3, StepEffect
<1> QED BY <1>1, TypeCorrect, PTL DEF Spec, UpsertKeepsSelection

\* The selection never moves on its own: only a select, an upsert or a delete
\* whose caller asked for it makes a firm active that was not.
THEOREM SelectionMovesWithCause == Spec => SelectionHasCause
<1>1. TypeOK /\ [Next]_vars =>
        [\A f \in Active(firms') \ Active(firms) :
            \E c \in Conn :
               /\ call'[c] # call[c]
               /\ \/ call[c].pc = "select_write" /\ call[c].firm = f
                  \/ /\ call[c].pc = "upsert_write"
                     /\ slugify[call[c].name] = f
                  \/ call[c].pc = "delete_write" /\ call[c].was_active]_vars
  <2> SUFFICES ASSUME TypeOK, [Next]_vars, NEW f \in Active(firms') \ Active(firms)
               PROVE  \E c \in Conn :
                         /\ call'[c] # call[c]
                         /\ \/ call[c].pc = "select_write" /\ call[c].firm = f
                            \/ /\ call[c].pc = "upsert_write"
                               /\ slugify[call[c].name] = f
                            \/ call[c].pc = "delete_write" /\ call[c].was_active
    OBVIOUS
  <2>1. ASSUME NEW d \in Conn, call[d].pc = "select_write",
               call' = [call EXCEPT ![d] = [call[d] EXCEPT !.pc = "select_reread"]]
        PROVE  call'[d] # call[d]
    <3>1. call[d] \in [pc : {"select_write", "select_reread", "delete_read"}, firm : FirmId]
      BY <2>1, CallFacts
    <3> QED BY <2>1, <3>1 DEF TypeOK
  <2>2. ASSUME NEW d \in Conn, call[d].pc \in {"upsert_write", "delete_write"},
               call' = [call EXCEPT ![d] = Idle]
        PROVE  call'[d] # call[d]
    BY <2>2 DEF TypeOK, Idle
  <2> QED BY <2>1, <2>2, StepEffect
<1> QED BY <1>1, TypeCorrect, PTL DEF Spec, SelectionHasCause

-------------------------------------------------------------------------------
(* What holds when calls do not overlap.                                   *)

\* With one connection, what a call read is what its write finds.
LEMMA SerialReads ==
    ASSUME OneAtATime
    PROVE  Spec => []SerialInv
<1>1. Init => SerialInv
  BY DEF Init, SerialInv, EmptyTable, Idle
<1>2. TypeOK /\ SerialInv /\ [Next]_vars => SerialInv'
  <2> SUFFICES ASSUME TypeOK, SerialInv, [Next]_vars PROVE SerialInv'
    OBVIOUS
  <2> USE DEF Continue, Return, TypeOK
  <2>1. ASSUME NEW c \in Conn, NEW f \in FirmId, SelectRead(c, f) \/ DeleteLookup(c, f)
        PROVE  SerialInv'
    BY <2>1 DEF SelectRead, DeleteLookup, SerialInv, Idle
  <2>2. ASSUME NEW c \in Conn, SelectWrite(c) PROVE SerialInv'
    <3>1. call[c] \in [pc : {"select_write", "select_reread", "delete_read"}, firm : FirmId]
      BY <2>2, CallFacts DEF SelectWrite
    <3>2. /\ call'[c].pc = "select_reread" /\ call'[c].firm = call[c].firm
          /\ \A d \in Conn : d = c
      BY <2>2, <3>1 DEF SelectWrite, OneAtATime
    <3>3. /\ DOMAIN firms' = DOMAIN firms
          /\ SameNames(firms, firms')
      BY <2>2, ActivateFacts DEF SelectWrite
    <3> QED BY <2>2, <3>2, <3>3 DEF SelectWrite, SerialInv, SameNames
  <2>3. ASSUME NEW c \in Conn, SelectReread(c) \/ UpsertConflict(c) \/ WriteFails(c)
        PROVE  SerialInv'
    BY <2>3 DEF SelectReread, UpsertConflict, WriteFails, SerialInv, Idle
  <2>4. ASSUME NEW c \in Conn, DeleteRead(c) PROVE SerialInv'
    BY <2>4 DEF DeleteRead, SerialInv, Idle
  <2>5. ASSUME NEW c \in Conn, DeleteWrite(c) PROVE SerialInv'
    <3>2. /\ DOMAIN firms' = DOMAIN firms \ {call[c].firm}
          /\ SameNames(firms, firms')
      BY <2>5, DeleteWriteFacts DEF DeleteEffect
    <3>3. \A d \in Conn : d = c
      BY DEF OneAtATime
    <3> QED BY <2>5, <3>2, <3>3 DEF DeleteWrite, SerialInv, Idle, SameNames
  <2>6. ASSUME NEW c \in Conn, NEW n \in Name, NEW k \in Upserts, UpsertRead(c, n, k)
        PROVE  SerialInv'
    BY <2>6 DEF UpsertRead, SerialInv, HasName
  <2>7. ASSUME NEW c \in Conn, UpsertWrite(c) PROVE SerialInv'
    <3>4. /\ KeysAfterUpsert(firms, call[c].name, call[c].exists, firms')
          /\ SameNames(firms, firms')
      BY <2>7, UpsertWriteFacts DEF UpsertEffect
    <3>5. \A f \in DOMAIN firms' : slugify[firms'[f].name] = f
      <4>1. call[c].exists \in BOOLEAN
        BY <2>7, CallFacts DEF UpsertWrite
      <4> QED BY <3>4, <4>1 DEF SerialInv, SameNames, KeysAfterUpsert
    <3>6. \A d \in Conn : call'[d] = Idle
      BY <2>7 DEF UpsertWrite, OneAtATime
    <3> QED BY <3>5, <3>6 DEF SerialInv, Idle
  <2>8. CASE UNCHANGED vars
    BY <2>8 DEF vars, SerialInv, HasName
  <2> QED BY <2>1, <2>2, <2>3, <2>4, <2>5, <2>6, <2>7, <2>8 DEF Next
<1> QED BY <1>1, <1>2, TypeCorrect, PTL DEF Spec

\* Only the three kinds of write transaction change the table.
LEMMA WritersOnly ==
    ASSUME [Next]_vars
    PROVE  \/ UNCHANGED firms
           \/ \E c \in Conn : SelectWrite(c) \/ UpsertWrite(c) \/ DeleteWrite(c)
  BY DEF Next, vars, SelectRead, DeleteLookup, SelectReread, DeleteRead, UpsertRead,
         UpsertConflict, WriteFails

\* One call at a time, the row an upsert names is there when it commits.
LEMMA UpsertedKey ==
    ASSUME TypeOK, SerialInv, NEW c \in Conn, UpsertWrite(c)
    PROVE  /\ slugify[call[c].name] \in FirmId
           /\ slugify[call[c].name] \in DOMAIN firms'
<1>1. /\ call[c].name \in Name /\ call[c].exists \in BOOLEAN
      /\ call[c].exists = HasName(firms, call[c].name)
  BY CallFacts DEF UpsertWrite, SerialInv
<1>2. CASE call[c].exists = TRUE
  <2>1. PICK g \in DOMAIN firms : firms[g].name = call[c].name
    BY <1>1, <1>2 DEF HasName
  <2>2. slugify[call[c].name] \in DOMAIN firms
    BY <2>1 DEF SerialInv
  <2>3. DOMAIN firms' = DOMAIN firms
    BY <1>2, UpsertWriteFacts DEF UpsertEffect, KeysAfterUpsert
  <2> QED BY <1>1, <2>2, <2>3, SlugAssumption
<1>3. CASE call[c].exists = FALSE
  BY <1>1, <1>3, SlugAssumption, UpsertWriteFacts DEF UpsertEffect, KeysAfterUpsert
<1> QED BY <1>1, <1>2, <1>3

\* One call at a time, a registry that has firms has a selected firm: the
\* upsert bootstraps it, the select re-reads what it sets, the delete hands on.
THEOREM SerialSomeActive ==
    ASSUME OneAtATime
    PROVE  Spec => []SomeActive
<1>1. Init => SomeActive
  BY DEF Init, SomeActive, EmptyTable
<1>2. TypeOK /\ SerialInv /\ SomeActive /\ [Next]_vars => SomeActive'
  <2> SUFFICES ASSUME TypeOK, SerialInv, SomeActive, [Next]_vars PROVE SomeActive'
    OBVIOUS
  <2>1. CASE UNCHANGED firms
    BY <2>1 DEF SomeActive
  <2>2. ASSUME NEW c \in Conn, SelectWrite(c) PROVE SomeActive'
    <3>1. call[c].firm \in DOMAIN firms
      BY <2>2 DEF SelectWrite, SerialInv
    <3>2. Active(firms') = DOMAIN firms \cap {call[c].firm}
      BY <2>2, ActivateFacts DEF SelectWrite, TypeOK
    <3> QED BY <3>1, <3>2 DEF SomeActive
  <2>3. ASSUME NEW c \in Conn, UpsertWrite(c) PROVE SomeActive'
    <3>1. slugify[call[c].name] \in DOMAIN firms'
      BY <2>3, UpsertedKey
    <3>2. \/ Active(firms') = DOMAIN firms' \cap {slugify[call[c].name]}
          \/ Active(firms') = Active(firms) /\ Active(firms) # {}
      BY <2>3, UpsertWriteFacts DEF UpsertEffect
    <3> QED BY <3>1, <3>2 DEF SomeActive
  <2>4. ASSUME NEW c \in Conn, DeleteWrite(c) PROVE SomeActive'
    <3>1. /\ call[c].firm \in DOMAIN firms
          /\ call[c].was_active = firms[call[c].firm].active
      BY <2>4 DEF DeleteWrite, SerialInv
    <3>2. call[c].was_active = FALSE => call[c].firm \notin Active(firms)
      BY <3>1 DEF Active
    <3>3. DOMAIN firms' = DOMAIN firms \ {call[c].firm}
          /\ DeleteEffect(firms, call[c].firm, call[c].was_active, firms')
      BY <2>4, DeleteWriteFacts DEF DeleteEffect
    <3>4. CASE call[c].was_active = FALSE
      <4>1. Active(firms') = Active(firms)
        BY <3>2, <3>3, <3>4 DEF DeleteEffect
      <4> QED BY <3>1, <4>1 DEF SomeActive
    <3>5. CASE call[c].was_active # FALSE
      BY <3>3, <3>5 DEF DeleteEffect, SomeActive
    <3> QED BY <3>4, <3>5
  <2> QED BY <2>1, <2>2, <2>3, <2>4, WritersOnly
<1> QED BY <1>1, <1>2, TypeCorrect, SerialReads, PTL DEF Spec

\* One call at a time, every write of the registry is one step of the abstract
\* selector, and every read a stuttering step.
THEOREM SerialSelection ==
    ASSUME OneAtATime
    PROVE  Spec => ImplementsSelection
<1>1. Init => Selection!Init
  BY DEF Init, Selection!Init, EmptyTable, Active
<1>2. TypeOK /\ SerialInv /\ SerialInv' /\ AtMostOneActive /\ [Next]_vars
        => [Selection!Next]_(Selection!vars)
  <2> SUFFICES ASSUME TypeOK, SerialInv, AtMostOneActive, [Next]_vars
               PROVE  [Selection!Next]_(Selection!vars)
    OBVIOUS
  <2>1. CASE UNCHANGED firms
    BY <2>1 DEF Selection!vars
  <2>2. ASSUME NEW c \in Conn, SelectWrite(c) PROVE Selection!Next
    <3> DEFINE f == call[c].firm
    <3>1. f \in FirmId /\ f \in DOMAIN firms
      BY <2>2, CallFacts DEF SelectWrite, SerialInv
    <3>2. DOMAIN firms' = DOMAIN firms /\ Active(firms') = DOMAIN firms \cap {f}
      BY <2>2, ActivateFacts DEF SelectWrite, TypeOK
    <3> HIDE DEF f
    <3>3. Selection!Select(f)
      BY <3>1, <3>2 DEF Selection!Select
    <3> QED BY <3>1, <3>3 DEF Selection!Next
  <2>3. ASSUME NEW c \in Conn, UpsertWrite(c) PROVE Selection!Next
    <3> DEFINE f == slugify[call[c].name]
    <3>1. f \in FirmId /\ f \in DOMAIN firms'
      BY <2>3, UpsertedKey
    <3>2. \/ DOMAIN firms' = DOMAIN firms
          \/ DOMAIN firms' = DOMAIN firms \cup {f}
      <4>1. call[c].exists \in BOOLEAN
        BY <2>3, CallFacts DEF UpsertWrite
      <4> QED BY <2>3, <4>1, UpsertWriteFacts DEF UpsertEffect, KeysAfterUpsert
    <3>3. \/ Active(firms') = DOMAIN firms' \cap {f}
          \/ Active(firms') = Active(firms) /\ Active(firms) # {}
      BY <2>3, UpsertWriteFacts DEF UpsertEffect
    <3> HIDE DEF f
    <3>4. Selection!Register(f)
      BY <3>1, <3>2, <3>3 DEF Selection!Register
    <3> QED BY <3>1, <3>4 DEF Selection!Next
  <2>4. ASSUME NEW c \in Conn, DeleteWrite(c) PROVE Selection!Next
    <3> DEFINE f == call[c].firm
               w == call[c].was_active
    <3>1. /\ f \in FirmId /\ f \in DOMAIN firms /\ w \in BOOLEAN
          /\ w = firms[f].active
      BY <2>4, CallFacts DEF DeleteWrite, SerialInv
    <3>2. w = TRUE <=> f \in Active(firms)
      BY <3>1 DEF Active
    <3>3. DOMAIN firms' = DOMAIN firms \ {f} /\ DeleteEffect(firms, f, w, firms')
      BY <2>4, DeleteWriteFacts DEF DeleteEffect
    <3> HIDE DEF f, w
    <3>4. Selection!Remove(f)
      <4>1. CASE w = TRUE
        BY <3>1, <3>2, <3>3, <4>1 DEF Selection!Remove, DeleteEffect
      <4>2. CASE w = FALSE
        <5>1. Active(firms') = Active(firms)
          BY <3>2, <3>3, <4>2 DEF DeleteEffect
        <5> QED BY <3>1, <3>2, <3>3, <4>2, <5>1 DEF Selection!Remove
      <4> QED BY <3>1, <4>1, <4>2
    <3> QED BY <3>1, <3>4 DEF Selection!Next
  <2> QED BY <2>1, <2>2, <2>3, <2>4, WritersOnly
<1> QED BY <1>1, <1>2, TypeCorrect, SingleActive, SerialReads, PTL
    DEF Spec, ImplementsSelection, Selection!Spec
==============================================================================
