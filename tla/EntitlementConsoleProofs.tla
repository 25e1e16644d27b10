------------------------ MODULE EntitlementConsoleProofs ------------------------
(***************************************************************************)
(* Theorems about EntitlementConsole, for every set of requests, users,    *)
(* columns and regions, every interleaving of the calls and every failure  *)
(* between two statements: type correctness, that a pushed column rule is  *)
(* exact, that the evidence trail tells what the warehouse enforces, and   *)
(* that the bootstrap converges.                                           *)
(***************************************************************************)
EXTENDS EntitlementConsole, TLAPS

Input == {NoCall} \cup UNION {Call(r) : r \in Request}

\* Where a handler may be.
Pc == {"idle", "principal", "revoke", "read", "revokeColumns", "grant", "log", "ok",
       "refused", "failed", "region", "row", "insert", "look", "act", "entitle",
       "entitleMe", "logMe", "logRun"}

\* The types of the part of the state a column rule reads and writes.
RuleType ==
    /\ grants \in [User -> SUBSET (Column \cup {Whole})]
    /\ call \in [Request -> [in : Input, pc : Pc, read : SUBSET Column,
                             n : Nat, failed : BOOLEAN]]
    /\ gained \in [Request -> SUBSET Column]
    /\ dropped \in [Request -> SUBSET Column]

\* How far a push of `in` has come when it is at pc and has read the column
\* grants `read`, the user holds g, and others granted ga and revoked dr.
Reached(in, pc, read, g, ga, dr) ==
    /\ pc \in {"read", "revokeColumns"} => (Whole \in g => Column \subseteq ga)
    /\ pc = "revokeColumns" => g \ {Whole} \subseteq read \cup ga
    /\ pc = "grant" => Visible(g) \subseteq ga
    /\ pc \in {"log", "ok"} =>
        /\ Visible(g) \subseteq in.columns \cup ga
        /\ in.columns \subseteq Visible(g) \cup dr

IsPush(r) == call[r].in.kind = "push"
ReachedBy(r) == Reached(call[r].in, call[r].pc, call[r].read, grants[call[r].in.user],
                        gained[r], dropped[r])
RuleInv == \A r \in Request : IsPush(r) => ReachedBy(r)

-------------------------------------------------------------------------------
(* What the statements do to what a user sees. *)

\* Granting more shows what was granted before and what is granted now.
LEMMA VisibleGrows ==
    ASSUME NEW g \in SUBSET (Column \cup {Whole}), NEW h \in SUBSET (Column \cup {Whole})
    PROVE  Visible(g \cup h) = Visible(g) \cup Visible(h)
  BY ConsoleAssumption DEF Visible

\* Revoking takes away no more than what the revoked grants showed.
LEMMA VisibleShrinks ==
    ASSUME NEW g \in SUBSET (Column \cup {Whole}), NEW h \in SUBSET (Column \cup {Whole})
    PROVE  /\ Visible(g \ h) \subseteq Visible(g)
           /\ Visible(g) \subseteq Visible(g \ h) \cup Visible(h)
           /\ Visible(g) \in SUBSET Column
  BY ConsoleAssumption DEF Visible

\* A push names a user of the warehouse and columns of the table.
LEMMA PushInput ==
    ASSUME RuleType, NEW r \in Request, IsPush(r)
    PROVE  /\ call[r].in.user \in User
           /\ call[r].in.columns \in SUBSET Column
<1>1. call[r].in \in Input
  BY DEF RuleType
<1>2. CASE call[r].in = NoCall
  BY <1>2 DEF IsPush, NoCall
<1>3. CASE \E q \in Request : call[r].in \in Call(q)
  BY <1>3, ConsoleAssumption DEF IsPush, Rows
<1> QED BY <1>1, <1>2, <1>3 DEF Input

\* A grant by another push for the same user disturbs no push.
LEMMA GrantedByOther ==
    ASSUME NEW in, NEW pc, NEW read, NEW ga, NEW dr,
           NEW g \in SUBSET (Column \cup {Whole}), NEW h \in SUBSET (Column \cup {Whole}),
           Reached(in, pc, read, g, ga, dr)
    PROVE  Reached(in, pc, read, g \cup h, ga \cup Visible(h), dr)
<1>1. Visible(g \cup h) = Visible(g) \cup Visible(h)
  BY VisibleGrows
<1>2. h \ {Whole} \subseteq Visible(h) /\ (Whole \in h => Visible(h) = Column)
  BY DEF Visible
<1> QED BY <1>1, <1>2 DEF Reached

\* Nor does a REVOKE by another one.
LEMMA RevokedByOther ==
    ASSUME NEW in, NEW pc, NEW read, NEW ga, NEW dr,
           NEW g \in SUBSET (Column \cup {Whole}), NEW h \in SUBSET (Column \cup {Whole}),
           Reached(in, pc, read, g, ga, dr)
    PROVE  Reached(in, pc, read, g \ h, ga, dr \cup Visible(h))
  BY VisibleShrinks DEF Reached

-------------------------------------------------------------------------------
(* Steps that leave grants alone. *)

CallType == [Request -> [in : Input, pc : Pc, read : SUBSET Column,
                         n : Nat, failed : BOOLEAN]]

\* A step of r that changes no grant and no other call, and takes r, if it is
\* a push, nowhere its stage does not allow.
QuietStep(r) ==
    /\ UNCHANGED <<grants, gained, dropped>>
    /\ call' \in CallType
    /\ \A o \in Request \ {r} : call'[o] = call[o]
    /\ call'[r].in.kind = "push" =>
        \/ call'[r].pc \in {"principal", "revoke", "refused", "failed"}
        \/ call[r].in = call'[r].in /\ call[r].pc = "log" /\ call'[r].pc = "ok"

LEMMA QuietKeeps ==
    ASSUME RuleType, RuleInv, NEW r \in Request, QuietStep(r)
    PROVE  RuleType' /\ RuleInv'
<1>1. RuleType'
  BY DEF RuleType, QuietStep, CallType
<1>2. ASSUME NEW o \in Request, IsPush(o)'
      PROVE  ReachedBy(o)'
  <2>1. CASE o # r
    BY <1>2, <2>1 DEF QuietStep, RuleInv, IsPush, ReachedBy, Reached
  <2>2. CASE o = r /\ call'[r].pc \in {"principal", "revoke", "refused", "failed"}
    BY <2>2 DEF ReachedBy, Reached
  <2>3. CASE o = r /\ call[r].in = call'[r].in /\ call[r].pc = "log" /\ call'[r].pc = "ok"
    BY <1>2, <2>3 DEF QuietStep, RuleInv, IsPush, ReachedBy, Reached
  <2> QED BY <1>2, <2>1, <2>2, <2>3 DEF QuietStep, IsPush
<1> QED BY <1>1, <1>2 DEF RuleInv

\* Moving on keeps the type, the other calls and the input.
LEMMA GotoFacts ==
    ASSUME RuleType, NEW r \in Request, NEW pc \in Pc, Goto(r, pc)
    PROVE  /\ call' \in CallType
           /\ \A o \in Request \ {r} : call'[o] = call[o]
           /\ call'[r].in = call[r].in /\ call'[r].pc = pc
  BY DEF RuleType, Goto, CallType

LEMMA BeginQuiet ==
    ASSUME RuleType, NEW r \in Request, Begin(r)
    PROVE  QuietStep(r)
<1> DEFINE First(in) == CASE in.kind = "push" -> "principal"
                          [] in.kind \in Rows -> "region" [] OTHER -> "look"
<1>1. PICK in \in Call(r) : call' = [call EXCEPT ![r].in = in, ![r].pc = First(in)]
  BY DEF Begin
<1>2. First(in) \in Pc /\ (in.kind = "push" => First(in) = "principal")
  BY DEF Pc, Rows
<1>3. in \in Input
  BY DEF Input
<1> HIDE DEF First
<1> QED BY <1>1, <1>2, <1>3 DEF Begin, RuleType, CallType, QuietStep, warehouse

LEMMA CutQuiet ==
    ASSUME RuleType, NEW r \in Request, Cut(r)
    PROVE  QuietStep(r)
  BY GotoFacts DEF Cut, warehouse, QuietStep, Pc

LEMMA CheckPrincipalQuiet ==
    ASSUME RuleType, NEW r \in Request, CheckPrincipal(r)
    PROVE  QuietStep(r)
  BY GotoFacts DEF CheckPrincipal, warehouse, history, QuietStep, Pc

LEMMA LogChangeQuiet ==
    ASSUME RuleType, NEW r \in Request, LogChange(r)
    PROVE  QuietStep(r)
  BY GotoFacts DEF LogChange, QuietStep, Pc, history

\* Row rules.
LEMMA RowRuleQuiet ==
    ASSUME RuleType, NEW r \in Request,
           CheckRegion(r) \/ LookForRow(r) \/ InsertRow(r) \/ RemoveRow(r)
    PROVE  QuietStep(r)
<1>1. CASE CheckRegion(r)
  BY <1>1, GotoFacts DEF CheckRegion, QuietStep, Pc, warehouse, history, Rows
<1>2. CASE LookForRow(r)
  BY <1>2, GotoFacts DEF LookForRow, At, QuietStep, Pc, warehouse, history
<1>3. CASE InsertRow(r)
  BY <1>3, GotoFacts DEF InsertRow, At, QuietStep, Pc, history
<1>4. CASE RemoveRow(r)
  BY <1>4, GotoFacts DEF RemoveRow, At, QuietStep, Pc
<1> QED BY <1>1, <1>2, <1>3, <1>4

\* A step of a setup.
LEMMA SetupQuiet ==
    ASSUME RuleType, NEW r \in Request,
           \/ StepLooks(r) \/ StepActs(r) \/ StepFails(r)
           \/ LookForMe(r) \/ EntitleMe(r) \/ EntitleFails(r)
           \/ LogMe(r) \/ LogRun(r) \/ LogFails(r)
    PROVE  QuietStep(r)
<1>1. ASSUME NEW failed \in BOOLEAN, NextStep(r, failed)
      PROVE  /\ call' \in CallType /\ call'[r].in = call[r].in
             /\ \A o \in Request \ {r} : call'[o] = call[o]
  <2> DEFINE pc == IF call[r].n + 1 = Len(BOOTSTRAP) THEN "entitle" ELSE "look"
             n == call[r].n + 1
             some == call[r].failed \/ failed
  <2>1. call' = [call EXCEPT ![r].n = n, ![r].failed = some, ![r].pc = pc]
    BY <1>1 DEF NextStep
  <2>2. pc \in Pc
    BY DEF Pc
  <2>3. n \in Nat /\ some \in BOOLEAN
    BY <1>1 DEF RuleType
  <2> HIDE DEF pc, n, some
  <2> QED BY <2>1, <2>2, <2>3 DEF RuleType, CallType
<1>2. CASE StepLooks(r)
  BY <1>1, <1>2, GotoFacts DEF StepLooks, At, QuietStep, Pc, warehouse, history
<1>3. CASE StepActs(r)
  BY <1>1, <1>3 DEF StepActs, At, QuietStep, Pc, history
<1>4. CASE StepFails(r)
  BY <1>1, <1>4 DEF StepFails, At, QuietStep, Pc, warehouse, history
<1>5. CASE LookForMe(r)
  BY <1>5, GotoFacts DEF LookForMe, At, QuietStep, Pc, warehouse, history
<1>6. CASE EntitleMe(r)
  BY <1>6, GotoFacts DEF EntitleMe, At, QuietStep, Pc, history
<1>7. CASE EntitleFails(r)
  BY <1>7 DEF EntitleFails, At, QuietStep, Pc, CallType, RuleType, warehouse, history
<1>8. CASE LogMe(r)
  BY <1>8, GotoFacts DEF LogMe, At, QuietStep, Pc, history
<1>9. CASE LogRun(r)
  BY <1>9, GotoFacts DEF LogRun, At, QuietStep, Pc, history
<1>10. CASE LogFails(r)
  <2>1. call' = [call EXCEPT ![r].pc = "ok", ![r].failed = TRUE] /\ call[r].in.kind = "setup"
    BY <1>10 DEF LogFails, At
  <2>2. call' \in CallType
    BY <2>1 DEF CallType, RuleType, Pc
  <2>3. UNCHANGED <<grants, gained, dropped>>
    BY <1>10 DEF LogFails, warehouse
  <2> QED BY <2>1, <2>2, <2>3 DEF QuietStep, RuleType
<1> QED BY <1>2, <1>3, <1>4, <1>5, <1>6, <1>7, <1>8, <1>9, <1>10

-------------------------------------------------------------------------------
(* The statements of a push. *)

\* What REVOKE of g by r leaves of the grants and the history.
LEMMA RevokedFacts ==
    ASSUME RuleType, NEW r \in Request, IsPush(r),
           NEW g \in SUBSET (Column \cup {Whole}), Revoked(r, g)
    PROVE  /\ grants' \in [User -> SUBSET (Column \cup {Whole})]
           /\ dropped' \in [Request -> SUBSET Column]
           /\ grants'[call[r].in.user] = grants[call[r].in.user] \ g
           /\ \A u \in User \ {call[r].in.user} : grants'[u] = grants[u]
           /\ dropped'[r] = dropped[r]
           /\ \A o \in Others(r) : dropped'[o] = dropped[o] \cup Visible(g)
<1>1. Visible(g) \in SUBSET Column
  BY VisibleShrinks
<1> QED BY <1>1, PushInput DEF Revoked, RuleType, Others

\* What GRANT of g by r leaves of them.
LEMMA GrantedFacts ==
    ASSUME RuleType, NEW r \in Request, IsPush(r),
           NEW g \in SUBSET (Column \cup {Whole}), Granted(r, g)
    PROVE  /\ grants' \in [User -> SUBSET (Column \cup {Whole})]
           /\ gained' \in [Request -> SUBSET Column]
           /\ dropped' \in [Request -> SUBSET Column]
           /\ grants'[call[r].in.user] = grants[call[r].in.user] \cup g
           /\ \A u \in User \ {call[r].in.user} : grants'[u] = grants[u]
           /\ gained'[r] = gained[r] /\ dropped'[r] = {}
           /\ \A o \in Request \ {r} : dropped'[o] = dropped[o]
           /\ \A o \in Others(r) : gained'[o] = gained[o] \cup Visible(g)
           /\ \A o \in Request \ Others(r) : gained'[o] = gained[o]
<1>1. Visible(g) \in SUBSET Column
  BY VisibleShrinks
<1> QED BY <1>1, PushInput DEF Granted, RuleType, Others

\* Another push keeps its stage through a REVOKE by r.
LEMMA OthersKeptByRevoke ==
    ASSUME RuleType, RuleInv, NEW r \in Request, IsPush(r),
           NEW g \in SUBSET (Column \cup {Whole}), Revoked(r, g),
           NEW o \in Request \ {r}, IsPush(o),
           call'[o] = call[o], gained'[o] = gained[o]
    PROVE  ReachedBy(o)'
<1>1. ReachedBy(o)
  BY DEF RuleInv
<1>2. call[o].in.user \in User
  BY PushInput
<1>3. CASE call[o].in.user = call[r].in.user
  <2>1. o \in Others(r)
    BY <1>3 DEF Others, IsPush
  <2>2. grants[call[o].in.user] \in SUBSET (Column \cup {Whole})
    BY <1>2 DEF RuleType
  <2>3. Reached(call[o].in, call[o].pc, call[o].read, grants[call[o].in.user] \ g,
                gained[o], dropped[o] \cup Visible(g))
    BY <1>1, <2>2, RevokedByOther DEF ReachedBy
  <2>4. /\ grants'[call[o].in.user] = grants[call[o].in.user] \ g
        /\ dropped'[o] = dropped[o] \cup Visible(g)
    BY <1>3, <2>1, RevokedFacts
  <2> QED BY <2>3, <2>4 DEF ReachedBy
<1>4. CASE call[o].in.user # call[r].in.user
  <2>1. grants'[call[o].in.user] = grants[call[o].in.user]
    BY <1>2, <1>4, RevokedFacts
  <2>2. dropped'[o] = dropped[o]
    BY <1>4 DEF Revoked, Others, RuleType
  <2> QED BY <1>1, <2>1, <2>2 DEF ReachedBy
<1> QED BY <1>3, <1>4

\* And through a GRANT by r.
LEMMA OthersKeptByGrant ==
    ASSUME RuleType, RuleInv, NEW r \in Request, IsPush(r),
           NEW g \in SUBSET (Column \cup {Whole}), Granted(r, g),
           NEW o \in Request \ {r}, IsPush(o), call'[o] = call[o]
    PROVE  ReachedBy(o)'
<1>1. ReachedBy(o)
  BY DEF RuleInv
<1>2. call[o].in.user \in User
  BY PushInput
<1>3. CASE call[o].in.user = call[r].in.user
  <2>1. o \in Others(r)
    BY <1>3 DEF Others, IsPush
  <2>2. grants[call[o].in.user] \in SUBSET (Column \cup {Whole})
    BY <1>2 DEF RuleType
  <2>3. Reached(call[o].in, call[o].pc, call[o].read, grants[call[o].in.user] \cup g,
                gained[o] \cup Visible(g), dropped[o])
    BY <1>1, <2>2, GrantedByOther DEF ReachedBy
  <2>4. /\ grants'[call[o].in.user] = grants[call[o].in.user] \cup g
        /\ gained'[o] = gained[o] \cup Visible(g) /\ dropped'[o] = dropped[o]
    BY <1>3, <2>1, GrantedFacts
  <2> QED BY <2>3, <2>4 DEF ReachedBy
<1>4. CASE call[o].in.user # call[r].in.user
  <2>1. grants'[call[o].in.user] = grants[call[o].in.user]
    BY <1>2, <1>4, GrantedFacts
  <2>2. o \in Request \ Others(r)
    BY <1>4 DEF Others
  <2> QED BY <1>1, <2>1, <2>2, GrantedFacts DEF ReachedBy
<1> QED BY <1>3, <1>4

LEMMA RevokeObjectKeeps ==
    ASSUME RuleType, RuleInv, NEW r \in Request, RevokeObject(r)
    PROVE  RuleType' /\ RuleInv'
<1>1. IsPush(r) /\ Revoked(r, {Whole}) /\ Goto(r, "read")
  BY DEF RevokeObject, At, IsPush
<1>2. "read" \in Pc /\ {Whole} \in SUBSET (Column \cup {Whole})
  BY DEF Pc
<1>3. /\ call' \in CallType /\ \A o \in Request \ {r} : call'[o] = call[o]
      /\ call'[r].in = call[r].in /\ call'[r].pc = "read"
  BY <1>1, <1>2, GotoFacts
<1>4. gained' = [gained EXCEPT ![r] = {}]
  BY DEF RevokeObject
<1>5. RuleType'
  BY <1>1, <1>2, <1>3, <1>4, RevokedFacts DEF RuleType, CallType
<1>6. ASSUME NEW o \in Request, IsPush(o)' PROVE ReachedBy(o)'
  <2>1. CASE o = r
    <3>1. Whole \notin grants'[call'[r].in.user] /\ call'[r].pc = "read"
      BY <1>1, <1>2, <1>3, RevokedFacts
    <3>2. ReachedBy(r)'
      BY <3>1 DEF ReachedBy, Reached
    <3> QED BY <2>1, <3>2
  <2>2. CASE o # r
    <3>1. call'[o] = call[o] /\ gained'[o] = gained[o] /\ IsPush(o)
      BY <2>2, <1>3, <1>4, <1>6 DEF IsPush, RuleType
    <3> QED BY <2>2, <3>1, <1>1, <1>2, OthersKeptByRevoke
  <2> QED BY <2>1, <2>2
<1> QED BY <1>5, <1>6 DEF RuleInv

LEMMA ReadColumnGrantsKeeps ==
    ASSUME RuleType, RuleInv, NEW r \in Request, ReadColumnGrants(r)
    PROVE  RuleType' /\ RuleInv'
<1>1. /\ IsPush(r) /\ call[r].pc = "read"
      /\ UNCHANGED <<grants, gained, dropped>>
      /\ call' = [call EXCEPT ![r].read = grants[call[r].in.user] \ {Whole}, ![r].pc = "revokeColumns"]
  BY DEF ReadColumnGrants, At, IsPush, warehouse, history
<1>2. grants[call[r].in.user] \ {Whole} \in SUBSET Column
  BY <1>1, PushInput DEF RuleType
<1>3. RuleType'
  BY <1>1, <1>2 DEF RuleType, Pc
<1>4. ASSUME NEW o \in Request, IsPush(o)' PROVE ReachedBy(o)'
  <2>1. CASE o = r
    <3>1. /\ call'[r].in = call[r].in /\ call'[r].pc = "revokeColumns"
          /\ call'[r].read = grants[call[r].in.user] \ {Whole}
      BY <1>1 DEF RuleType
    <3>2. Whole \in grants[call[r].in.user] => Column \subseteq gained[r]
      BY <1>1 DEF RuleInv, ReachedBy, Reached
    <3> QED BY <2>1, <3>1, <3>2, <1>1 DEF ReachedBy, Reached
  <2>2. CASE o # r
    <3>1. call'[o] = call[o] /\ IsPush(o)
      BY <2>2, <1>1, <1>4 DEF IsPush, RuleType
    <3>2. ReachedBy(o)
      BY <3>1 DEF RuleInv
    <3> QED BY <3>1, <3>2, <1>1 DEF ReachedBy
  <2> QED BY <2>1, <2>2
<1> QED BY <1>3, <1>4 DEF RuleInv

LEMMA RevokeColumnsKeeps ==
    ASSUME RuleType, RuleInv, NEW r \in Request, RevokeColumns(r)
    PROVE  RuleType' /\ RuleInv'
<1>1. /\ IsPush(r) /\ call[r].pc = "revokeColumns" /\ gained' = gained
      /\ Revoked(r, call[r].read) /\ Goto(r, "grant")
  BY DEF RevokeColumns, At, IsPush
<1>2. "grant" \in Pc /\ call[r].read \in SUBSET Column
  BY DEF Pc, RuleType
<1>3. /\ call' \in CallType /\ \A o \in Request \ {r} : call'[o] = call[o]
      /\ call'[r].in = call[r].in /\ call'[r].pc = "grant"
  BY <1>1, <1>2, GotoFacts
<1>4. /\ grants' \in [User -> SUBSET (Column \cup {Whole})]
      /\ dropped' \in [Request -> SUBSET Column]
      /\ grants'[call[r].in.user] = grants[call[r].in.user] \ call[r].read
  BY <1>1, <1>2, RevokedFacts
<1>5. RuleType'
  BY <1>1, <1>3, <1>4 DEF RuleType, CallType
<1>6. ASSUME NEW o \in Request, IsPush(o)' PROVE ReachedBy(o)'
  <2>1. CASE o = r
    <3>1. /\ Whole \in grants[call[r].in.user] => Column \subseteq gained[r]
          /\ grants[call[r].in.user] \ {Whole} \subseteq call[r].read \cup gained[r]
          /\ grants[call[r].in.user] \subseteq Column \cup {Whole}
      BY <1>1, PushInput DEF RuleInv, ReachedBy, Reached, RuleType
    <3>2. gained[r] \subseteq Column
      BY DEF RuleType
    <3>3. Visible(grants[call[r].in.user] \ call[r].read) \subseteq gained[r]
      BY <3>1, <3>2 DEF Visible
    <3> QED BY <2>1, <3>3, <1>1, <1>3, <1>4 DEF ReachedBy, Reached
  <2>2. CASE o # r
    <3>1. call'[o] = call[o] /\ gained'[o] = gained[o] /\ IsPush(o)
      BY <2>2, <1>1, <1>3, <1>6 DEF IsPush
    <3> QED BY <2>2, <3>1, <1>1, <1>2, OthersKeptByRevoke
  <2> QED BY <2>1, <2>2
<1> QED BY <1>5, <1>6 DEF RuleInv

LEMMA GrantKeeps ==
    ASSUME RuleType, RuleInv, NEW r \in Request, Grant(r)
    PROVE  RuleType' /\ RuleInv'
<1> DEFINE g == RuleOf(call[r].in.columns)
<1>1. IsPush(r) /\ call[r].pc = "grant" /\ Granted(r, g) /\ Goto(r, "log")
  BY DEF Grant, At, IsPush
<1>2. /\ "log" \in Pc /\ g \in SUBSET (Column \cup {Whole})
      /\ Visible(g) = call[r].in.columns
  BY <1>1, PushInput, ConsoleAssumption DEF Pc, RuleOf, Visible
<1> HIDE DEF g
<1>3. /\ call' \in CallType /\ \A o \in Request \ {r} : call'[o] = call[o]
      /\ call'[r].in = call[r].in /\ call'[r].pc = "log"
  BY <1>1, <1>2, GotoFacts
<1>4. /\ grants' \in [User -> SUBSET (Column \cup {Whole})]
      /\ gained' \in [Request -> SUBSET Column] /\ dropped' \in [Request -> SUBSET Column]
      /\ grants'[call[r].in.user] = grants[call[r].in.user] \cup g
      /\ gained'[r] = gained[r]
  BY <1>1, <1>2, GrantedFacts
<1>5. RuleType'
  BY <1>3, <1>4 DEF RuleType, CallType
<1>6. ASSUME NEW o \in Request, IsPush(o)' PROVE ReachedBy(o)'
  <2>1. CASE o = r
    <3>1. Visible(grants[call[r].in.user]) \subseteq gained[r]
      BY <1>1 DEF RuleInv, ReachedBy, Reached
    <3>2. grants[call[r].in.user] \in SUBSET (Column \cup {Whole})
      BY <1>1, PushInput DEF RuleType
    <3>3. Visible(grants'[call'[r].in.user]) = Visible(grants[call[r].in.user]) \cup call[r].in.columns
      BY <3>2, <1>2, <1>3, <1>4, VisibleGrows
    <3> QED BY <2>1, <3>1, <3>3, <1>3, <1>4 DEF ReachedBy, Reached
  <2>2. CASE o # r
    <3>1. call'[o] = call[o] /\ IsPush(o)
      BY <2>2, <1>3, <1>6 DEF IsPush
    <3> QED BY <2>2, <3>1, <1>1, <1>2, OthersKeptByGrant
  <2> QED BY <2>1, <2>2
<1> QED BY <1>5, <1>6 DEF RuleInv

-------------------------------------------------------------------------------
(* The theorem. *)

LEMMA InitRule == Init => RuleType /\ RuleInv
<1> SUFFICES ASSUME Init PROVE RuleType /\ RuleInv
  OBVIOUS
<1>1. NoCall \in Input /\ NoCall.kind = "none"
  BY DEF Input, NoCall
<1>2. /\ grants = [u \in User |-> {}]
      /\ call = [r \in Request |-> [in |-> NoCall, pc |-> "idle", read |-> {},
                                    n |-> 0, failed |-> FALSE]]
      /\ gained = [r \in Request |-> {}] /\ dropped = [r \in Request |-> {}]
  BY DEF Init
<1>3. RuleType
  BY <1>1, <1>2 DEF RuleType, Pc
<1>4. RuleInv
  BY <1>1, <1>2 DEF RuleInv, IsPush
<1> QED BY <1>3, <1>4

LEMMA NextKeeps ==
    ASSUME RuleType, RuleInv, [Next]_vars
    PROVE  RuleType' /\ RuleInv'
<1>1. CASE UNCHANGED <<grants, call, gained, dropped>>
  BY <1>1 DEF RuleType, RuleInv, IsPush, ReachedBy
<1>2. CASE UNCHANGED vars
  BY <1>1, <1>2 DEF vars, warehouse, history
<1>3. CASE (\E u \in User : Share(u)) \/ PolicyOff
  BY <1>1, <1>3 DEF Share, PolicyOff, history
<1>4. ASSUME NEW r \in Request, Begin(r) \/ Cut(r) \/ CheckPrincipal(r) \/ LogChange(r)
      PROVE  RuleType' /\ RuleInv'
  BY <1>4, BeginQuiet, CutQuiet, CheckPrincipalQuiet, LogChangeQuiet, QuietKeeps
<1>5. ASSUME NEW r \in Request,
             CheckRegion(r) \/ LookForRow(r) \/ InsertRow(r) \/ RemoveRow(r)
      PROVE  RuleType' /\ RuleInv'
  BY <1>5, RowRuleQuiet, QuietKeeps
<1>6. ASSUME NEW r \in Request,
             \/ StepLooks(r) \/ StepActs(r) \/ StepFails(r)
             \/ LookForMe(r) \/ EntitleMe(r) \/ EntitleFails(r)
             \/ LogMe(r) \/ LogRun(r) \/ LogFails(r)
      PROVE  RuleType' /\ RuleInv'
  BY <1>6, SetupQuiet, QuietKeeps
<1>7. ASSUME NEW r \in Request,
             RevokeObject(r) \/ ReadColumnGrants(r) \/ RevokeColumns(r) \/ Grant(r)
      PROVE  RuleType' /\ RuleInv'
  BY <1>7, RevokeObjectKeeps, ReadColumnGrantsKeeps, RevokeColumnsKeeps, GrantKeeps
<1> QED BY <1>2, <1>3, <1>4, <1>5, <1>6, <1>7 DEF Next

\* Column rules keep the types of what they read and write, and each push is at
\* every statement as far as its place in the handler says: what it has revoked is
\* gone and what it has granted is there, but for other pushes.
THEOREM RuleInvariant == Spec => [](RuleType /\ RuleInv)
<1>1. Init => RuleType /\ RuleInv
  BY InitRule
<1>2. (RuleType /\ RuleInv) /\ [Next]_vars => (RuleType /\ RuleInv)'
  BY NextKeeps
<1> QED BY <1>1, <1>2, PTL DEF Spec

\* A column rule that was pushed is exact (columnRules.js), whatever other
\* calls run meanwhile and wherever they stop, but for what other pushes for
\* that user have granted and revoked.
THEOREM PushedRuleIsExact == Spec => []AllowListExact
<1>1. RuleType /\ RuleInv => AllowListExact
  BY DEF RuleInv, IsPush, ReachedBy, Reached, AllowListExact
<1> QED BY <1>1, RuleInvariant, PTL

-------------------------------------------------------------------------------
(* The evidence trail *)

Named(log, key) == \E i \in DOMAIN log : log[i].key = key

LastAt(log, key, i) ==
    i \in DOMAIN log /\ log[i].key = key /\ \A j \in DOMAIN log : log[j].key = key => j <= i

\* The newest entry, if there is one, tells what a user sees ...
ColumnsMatch(log, u, g) ==
    /\ ~Named(log, <<u>>) => Visible(g) = {}
    /\ Named(log, <<u>>) => \E i \in DOMAIN log : LastAt(log, <<u>>, i) /\ Visible(g) = log[i].columns

\* ... and whether a row that is there n times is in force.
RowMatches(log, k, n) ==
    /\ ~Named(log, k) => n = 0
    /\ Named(log, k) => \E i \in DOMAIN log : LastAt(log, k, i) /\ (n > 0 <=> log[i].action = "row-rule.add")

RowKey == User \X (Region \cup {All})
PushPc == {"principal", "revoke", "read", "revokeColumns", "grant", "log", "ok", "refused", "failed"}
RowPc == {"region", "row", "insert", "log", "ok", "refused", "failed"}
SetupPc == {"look", "act", "entitle", "entitleMe", "logMe", "logRun", "ok", "failed"}

Logs == Seq({Entry(in) : in \in Input} \cup {MeLogged, RunLogged})

\* Each handler is at a statement of its own, and a setup at a step of the list.
Handling(c) ==
    /\ (c.pc = "idle" <=> c.in = NoCall) /\ (c.pc = "idle" => c.n = 0)
    /\ c.in.kind = "push" => c.pc \in PushPc
    /\ c.in.kind \in Rows => c.pc \in RowPc /\ (c.pc = "insert" => c.in.kind = "row-rule.add")
    /\ c.in.kind = "setup" =>
        /\ c.pc \in SetupPc
        /\ c.n \in 0 .. Len(BOOTSTRAP)
        /\ c.pc \in {"look", "act"} => c.n < Len(BOOTSTRAP)
        /\ c.pc \in SetupPc \ {"look", "act", "failed"} => c.n = Len(BOOTSTRAP)

TrailType ==
    /\ rows \in [RowKey -> Nat] /\ orders \in Nat /\ enabled \in BOOLEAN
    /\ objects \subseteq Demo /\ change_log \in Logs
    /\ undone \subseteq Setups
    /\ \A r \in Request : Handling(call[r])

\* Two calls that are under way blur what they are both about.
Alone ==
    \A q, r \in Request :
        /\ Running(q) /\ Running(r) /\ Key(call[q].in) = Key(call[r].in)
        /\ Key(call[r].in) \notin blurred
        => q = r

Pushing(r, u) == IsPush(r) /\ call[r].in.user = u /\ Running(r)

\* A push that nothing blurs finds its user's columns as its own statements
\* left them.
PushStage(c, g) ==
    /\ c.pc = "read" => Whole \notin g
    /\ c.pc = "revokeColumns" => g \subseteq c.read
    /\ c.pc = "grant" => g = {}
    /\ c.pc = "log" => Visible(g) = c.in.columns

UserInv(u) ==
    <<u>> \notin blurred =>
        /\ \A r \in Request : Pushing(r, u) => PushStage(call[r], grants[u])
        /\ (\A r \in Request : Pushing(r, u) => call[r].pc \in {"principal", "revoke"}) =>
                ColumnsMatch(change_log, u, grants[u])

\* So does a call about a row.
RowStage(c, n) ==
    /\ c.pc \in {"insert", "entitleMe"} => n = 0
    /\ c.pc = "logMe" => n > 0
    /\ c.pc = "log" => (n > 0 <=> c.in.kind = "row-rule.add")

AboutRow(r, k) == Running(r) /\ Key(call[r].in) = k

RowInv(k) ==
    k \notin blurred =>
        /\ rows[k] <= 1
        /\ \A r \in Request : AboutRow(r, k) => RowStage(call[r], rows[k])
        /\ (\A r \in Request : AboutRow(r, k) => call[r].pc \notin {"log", "logMe"}) =>
                RowMatches(change_log, k, rows[k])

\* The orders are seeded by a setup that has found them missing.
OrdersInv ==
    <<Me, All>> \notin blurred =>
        /\ orders <= 1 /\ (orders > 0 => "seed" \in objects)
        /\ \A r \in Request :
            At(r, "setup", "act") /\ StepOf(r).makes = "seed" => "seed" \notin objects

\* What a setup without a failure has gone by is there, until it is undone.
Converging(r) ==
    /\ \A i \in 1 .. call[r].n :
        /\ BOOTSTRAP[i].makes \in objects
        /\ BOOTSTRAP[i].makes = "policy" => enabled
    /\ call[r].pc \in {"logMe", "logRun", "ok"} => rows[<<Me, All>>] > 0

SetupInv ==
    \A r \in Setups \ undone : ~call[r].failed => Converging(r)

TrailInv ==
    /\ TrailType /\ Alone
    /\ \A u \in User : UserInv(u)
    /\ \A k \in RowKey : RowInv(k)
    /\ OrdersInv /\ SetupInv

-------------------------------------------------------------------------------
(* Keys and entries *)

LEMMA KeysDiffer ==
    /\ \A u, v : <<u>> = <<v>> => u = v
    /\ \A u : \A k \in RowKey : <<u>> # k /\ <<>> # k
    /\ \A u : <<>> # <<u>>
    /\ <<Me, All>> \in RowKey
<1>1. \A u, v : <<u>> = <<v>> => u = v
  <2> TAKE u, v
  <2>1. <<u>>[1] = u /\ <<v>>[1] = v
    OBVIOUS
  <2>2. QED
    BY <2>1
<1>2. Len(<<>>) = 0 /\ \A u : Len(<<u>>) = 1
  OBVIOUS
<1>3. ASSUME NEW k \in RowKey PROVE Len(k) = 2
  <2>1. PICK a \in User, b \in Region \cup {All} : k = <<a, b>>
    BY DEF RowKey
  <2>2. QED
    BY <2>1
<1>4. <<Me, All>> \in RowKey
  BY ConsoleAssumption DEF RowKey
<1>5. \A u : \A k \in RowKey : <<u>> # k /\ <<>> # k
  BY <1>2, <1>3
<1>6. \A u : <<>> # <<u>>
  BY <1>2
<1>7. QED
  BY <1>1, <1>4, <1>5, <1>6

\* What a call is about.
LEMMA InputIs ==
    ASSUME RuleType, NEW r \in Request
    PROVE  LET in == call[r].in IN
           \/ in = NoCall
           \/ in.kind = "push" /\ in.user \in User /\ in.columns \subseteq Column /\ Key(in) = <<in.user>>
           \/ in.kind \in Rows /\ in.user \in User /\ in.region \in Region \cup {All}
                /\ Key(in) = <<in.user, in.region>> /\ Key(in) \in RowKey
           \/ in.kind = "setup" /\ Key(in) = <<Me, All>>
<1>1. call[r].in \in Input
  BY DEF RuleType
<1>2. CASE call[r].in = NoCall
  BY <1>2
<1>3. CASE \E q \in Request : call[r].in \in Call(q)
  BY <1>3, ConsoleAssumption DEF Rows, Key, RowKey
<1>4. QED
  BY <1>1, <1>2, <1>3 DEF Input

\* An entry that is added is the newest of its key, and of no other.
LEMMA Appended ==
    ASSUME NEW S, NEW log \in Seq(S), NEW e \in S, NEW key
    PROVE  LET more == Append(log, e) IN
           /\ more \in Seq(S) /\ Len(more) = Len(log) + 1 /\ more[Len(log) + 1] = e
           /\ e.key = key => Named(more, key) /\ LastAt(more, key, Len(log) + 1)
           /\ e.key # key =>
                /\ Named(more, key) => Named(log, key)
                /\ Named(log, key) => Named(more, key)
                /\ \A i : LastAt(log, key, i) => LastAt(more, key, i) /\ more[i] = log[i]
<1> DEFINE more == Append(log, e)
<1>1. more \in Seq(S)
  OBVIOUS
<1>2. /\ Len(log) \in Nat /\ DOMAIN log = 1 .. Len(log)
      /\ DOMAIN more = 1 .. (Len(log) + 1) /\ more[Len(log) + 1] = e
      /\ \A i \in DOMAIN log : more[i] = log[i]
      /\ Len(more) = Len(log) + 1
  OBVIOUS
<1> HIDE DEF more
<1>3. DOMAIN more = DOMAIN log \cup {Len(log) + 1} /\ \A i \in DOMAIN log : i <= Len(log) + 1
  BY <1>2
<1>4. ASSUME e.key = key PROVE Named(more, key) /\ LastAt(more, key, Len(log) + 1)
  <2>1. Len(log) + 1 <= Len(log) + 1
    BY <1>2
  <2>2. QED
    BY <1>2, <1>3, <1>4, <2>1 DEF Named, LastAt
<1>5. ASSUME e.key # key
      PROVE  /\ Named(more, key) => Named(log, key)
             /\ Named(log, key) => Named(more, key)
             /\ \A i : LastAt(log, key, i) => LastAt(more, key, i) /\ more[i] = log[i]
  BY <1>2, <1>3, <1>5 DEF Named, LastAt
<1>6. QED
  BY <1>1, <1>2, <1>4, <1>5 DEF more

\* What an entry about something else leaves.
LEMMA MatchStays ==
    ASSUME NEW S, NEW log \in Seq(S), NEW e \in S
    PROVE  /\ \A u, g : e.key # <<u>> /\ ColumnsMatch(log, u, g) => ColumnsMatch(Append(log, e), u, g)
           /\ \A k, n : e.key # k /\ RowMatches(log, k, n) => RowMatches(Append(log, e), k, n)
<1> DEFINE more == Append(log, e)
<1>1. ASSUME NEW key, e.key # key
      PROVE  /\ Named(more, key) => Named(log, key)
             /\ Named(log, key) => Named(more, key)
             /\ \A i : LastAt(log, key, i) => LastAt(more, key, i) /\ more[i] = log[i]
             /\ \A i : LastAt(log, key, i) => i \in DOMAIN log
             /\ \A i : LastAt(more, key, i) => i \in DOMAIN more
  BY <1>1, Appended DEF LastAt
<1> HIDE DEF more
<1>2. ASSUME NEW u, NEW g, e.key # <<u>>, ColumnsMatch(log, u, g) PROVE ColumnsMatch(more, u, g)
  <2>1. CASE ~Named(log, <<u>>)
    BY <1>1, <1>2, <2>1 DEF ColumnsMatch
  <2>2. CASE Named(log, <<u>>)
    <3>1. PICK i \in DOMAIN log : LastAt(log, <<u>>, i) /\ Visible(g) = log[i].columns
      BY <1>2, <2>2 DEF ColumnsMatch
    <3>2. LastAt(more, <<u>>, i) /\ more[i] = log[i] /\ i \in DOMAIN more /\ Named(more, <<u>>)
      BY <1>1, <1>2, <2>2, <3>1
    <3>3. QED
      BY <3>1, <3>2 DEF ColumnsMatch
  <2>3. QED
    BY <2>1, <2>2
<1>3. ASSUME NEW k, NEW n, e.key # k, RowMatches(log, k, n) PROVE RowMatches(more, k, n)
  <2>1. CASE ~Named(log, k)
    BY <1>1, <1>3, <2>1 DEF RowMatches
  <2>2. CASE Named(log, k)
    <3>1. PICK i \in DOMAIN log : LastAt(log, k, i) /\ (n > 0 <=> log[i].action = "row-rule.add")
      BY <1>3, <2>2 DEF RowMatches
    <3>2. LastAt(more, k, i) /\ more[i] = log[i] /\ i \in DOMAIN more /\ Named(more, k)
      BY <1>1, <1>3, <2>2, <3>1
    <3>3. QED
      BY <3>1, <3>2 DEF RowMatches
  <2>3. QED
    BY <2>1, <2>2
<1>4. QED
  BY <1>2, <1>3 DEF more

\* The newest entry of the trail is the one LastEntry takes.
LEMMA LastEntryIs ==
    ASSUME NEW key, NEW i, LastAt(change_log, key, i), DOMAIN change_log \subseteq Nat
    PROVE  LastEntry(key) = change_log[i]
<1> DEFINE at == {j \in DOMAIN change_log : change_log[j].key = key}
<1>1. i \in at /\ \A j \in at : j <= i
  BY DEF LastAt
<1>2. \A k \in at : (\A j \in at : j <= k) => k = i
  <2> SUFFICES ASSUME NEW k \in at, \A j \in at : j <= k PROVE k = i
    OBVIOUS
  <2>1. k \in Nat /\ i \in Nat /\ k <= i /\ i <= k
    BY <1>1 DEF LastAt
  <2>2. QED
    BY <2>1
<1> HIDE DEF at
<1>3. (CHOOSE k \in at : \A j \in at : j <= k) = i
  BY <1>1, <1>2
<1>4. QED
  BY <1>3 DEF LastEntry, at

-------------------------------------------------------------------------------
(* A step of one call, and what others are about *)

Entries == {Entry(in) : in \in Input} \cup {MeLogged, RunLogged}

\* A step of r's handler changes what its call is about, and nothing else that
\* the trail tells of.
MovesOn(r) ==
    /\ Running(r) /\ call' \in CallType /\ call'[r].in = call[r].in
    /\ \A o \in Request \ {r} : call'[o] = call[o]
    /\ blurred \subseteq blurred'

Elsewhere(r) ==
    /\ MovesOn(r)
    /\ \A u \in User : <<u>> # Key(call[r].in) => grants'[u] = grants[u]
    /\ \A k \in RowKey : k # Key(call[r].in) => rows'[k] = rows[k]
    /\ \/ change_log' = change_log
       \/ \E e \in Entries :
            change_log' = Append(change_log, e) /\ e.key \in {<<>>, Key(call[r].in)}

\* The call that alone is about a user or a row knows where it stands.
OwnUser(c, g, log, u) ==
    /\ PushStage(c, g)
    /\ c.pc \notin {"read", "revokeColumns", "grant", "log"} => ColumnsMatch(log, u, g)

OwnRow(c, n, log, k) ==
    /\ n <= 1 /\ RowStage(c, n)
    /\ c.pc \notin {"log", "logMe"} => RowMatches(log, k, n)

LEMMA AloneStays ==
    ASSUME Alone, NEW r \in Request, MovesOn(r) PROVE Alone'
<1>1. \A q \in Request : Running(q)' => Running(q) /\ call'[q].in = call[q].in
  BY DEF MovesOn, Running
<1>2. blurred \subseteq blurred'
  BY DEF MovesOn
<1>3. QED
  BY <1>1, <1>2 DEF Alone

LEMMA UserElsewhere ==
    ASSUME TrailType, NEW r \in Request, Elsewhere(r), NEW u \in User, UserInv(u),
           <<u>> # Key(call[r].in)
    PROVE  UserInv(u)'
<1>1. /\ MovesOn(r) /\ grants'[u] = grants[u]
      /\ \/ change_log' = change_log
         \/ \E e \in Entries : change_log' = Append(change_log, e) /\ e.key # <<u>>
  BY KeysDiffer DEF Elsewhere
<1>2. ~Pushing(r, u) /\ ~Pushing(r, u)'
  BY <1>1 DEF MovesOn, Pushing, IsPush, Key, Rows
<1>3. \A o \in Request \ {r} : call'[o] = call[o] /\ (Pushing(o, u)' <=> Pushing(o, u))
  BY <1>1 DEF MovesOn, Pushing, IsPush, Running
<1>4. change_log \in Seq(Entries)
  BY DEF TrailType, Logs, Entries
<1>5. ColumnsMatch(change_log, u, grants[u]) => ColumnsMatch(change_log', u, grants'[u])
  BY <1>1, <1>4, MatchStays
<1>6. ASSUME <<u>> \notin blurred'
      PROVE  /\ \A o \in Request : Pushing(o, u) => PushStage(call[o], grants[u])
             /\ (\A o \in Request : Pushing(o, u) => call[o].pc \in {"principal", "revoke"}) =>
                    ColumnsMatch(change_log, u, grants[u])
  BY <1>1, <1>6 DEF MovesOn, UserInv
<1>7. ASSUME <<u>> \notin blurred', NEW o \in Request, Pushing(o, u)'
      PROVE  PushStage(call'[o], grants'[u])
  <2>1. o # r
    BY <1>2, <1>7
  <2>2. QED
    BY <1>1, <1>3, <1>6, <1>7, <2>1
<1>8. ASSUME <<u>> \notin blurred',
             \A o \in Request : Pushing(o, u)' => call'[o].pc \in {"principal", "revoke"}
      PROVE  ColumnsMatch(change_log', u, grants'[u])
  <2>1. \A o \in Request : Pushing(o, u) => call[o].pc \in {"principal", "revoke"}
    BY <1>2, <1>3, <1>8
  <2>2. QED
    BY <1>5, <1>6, <1>8, <2>1
<1>9. QED
  BY <1>7, <1>8 DEF UserInv

LEMMA RowElsewhere ==
    ASSUME TrailType, NEW r \in Request, Elsewhere(r), NEW k \in RowKey, RowInv(k),
           k # Key(call[r].in)
    PROVE  RowInv(k)'
<1>1. /\ MovesOn(r) /\ rows'[k] = rows[k]
      /\ \/ change_log' = change_log
         \/ \E e \in Entries : change_log' = Append(change_log, e) /\ e.key # k
  BY KeysDiffer DEF Elsewhere
<1>2. ~AboutRow(r, k) /\ ~AboutRow(r, k)'
  BY <1>1 DEF MovesOn, AboutRow
<1>3. \A o \in Request \ {r} : call'[o] = call[o] /\ (AboutRow(o, k)' <=> AboutRow(o, k))
  BY <1>1 DEF MovesOn, AboutRow, Running
<1>4. change_log \in Seq(Entries)
  BY DEF TrailType, Logs, Entries
<1>5. RowMatches(change_log, k, rows[k]) => RowMatches(change_log', k, rows'[k])
  BY <1>1, <1>4, MatchStays
<1>6. ASSUME k \notin blurred'
      PROVE  /\ rows[k] <= 1
             /\ \A o \in Request : AboutRow(o, k) => RowStage(call[o], rows[k])
             /\ (\A o \in Request : AboutRow(o, k) => call[o].pc \notin {"log", "logMe"}) =>
                    RowMatches(change_log, k, rows[k])
  BY <1>1, <1>6 DEF MovesOn, RowInv
<1>7. ASSUME k \notin blurred', NEW o \in Request, AboutRow(o, k)'
      PROVE  RowStage(call'[o], rows'[k])
  <2>1. o # r
    BY <1>2, <1>7
  <2>2. QED
    BY <1>1, <1>3, <1>6, <1>7, <2>1
<1>8. ASSUME k \notin blurred',
             \A o \in Request : AboutRow(o, k)' => call'[o].pc \notin {"log", "logMe"}
      PROVE  RowMatches(change_log', k, rows'[k])
  <2>1. \A o \in Request : AboutRow(o, k) => call[o].pc \notin {"log", "logMe"}
    BY <1>2, <1>3, <1>8
  <2>2. QED
    BY <1>5, <1>6, <1>8, <2>1
<1>9. ASSUME k \notin blurred' PROVE rows'[k] <= 1
  BY <1>1, <1>6, <1>9
<1>10. QED
  BY <1>7, <1>8, <1>9 DEF RowInv

LEMMA UserBefore ==
    ASSUME TrailType, Alone, NEW r \in Request, NEW u \in User, UserInv(u), Pushing(r, u),
           <<u>> \notin blurred
    PROVE  /\ OwnUser(call[r], grants[u], change_log, u)
           /\ \A o \in Request : Pushing(o, u) => o = r
<1>1. \A o \in Request : Pushing(o, u) => o = r
  BY DEF Alone, Pushing, IsPush, Key, Rows
<1>2. PushStage(call[r], grants[u])
  BY DEF UserInv
<1>3. call[r].pc \notin {"read", "revokeColumns", "grant", "log"} => call[r].pc \in {"principal", "revoke"}
  BY DEF TrailType, Handling, Pushing, IsPush, Running, PushPc
<1>4. ASSUME call[r].pc \in {"principal", "revoke"} PROVE ColumnsMatch(change_log, u, grants[u])
  BY <1>1, <1>4 DEF UserInv
<1>5. QED
  BY <1>1, <1>2, <1>3, <1>4 DEF OwnUser

LEMMA RowBefore ==
    ASSUME Alone, NEW r \in Request, NEW k \in RowKey, RowInv(k), AboutRow(r, k), k \notin blurred
    PROVE  /\ OwnRow(call[r], rows[k], change_log, k)
           /\ \A o \in Request : AboutRow(o, k) => o = r
<1>1. \A o \in Request : AboutRow(o, k) => o = r
  BY DEF Alone, AboutRow
<1>2. RowStage(call[r], rows[k]) /\ rows[k] <= 1
  BY DEF RowInv
<1>3. ASSUME call[r].pc \notin {"log", "logMe"} PROVE RowMatches(change_log, k, rows[k])
  BY <1>1, <1>3 DEF RowInv
<1>4. QED
  BY <1>1, <1>2, <1>3 DEF OwnRow

\* A step of a push, as to the trail.
LEMMA PushMoves ==
    ASSUME RuleType, TrailInv, NEW r \in Request, Elsewhere(r), IsPush(r),
           NEW u, u = call[r].in.user,
           <<u>> \notin blurred' => OwnUser(call'[r], grants'[u], change_log', u)
    PROVE  Alone' /\ (\A v \in User : UserInv(v)') /\ (\A k \in RowKey : RowInv(k)')
<1>1. MovesOn(r) /\ Alone' /\ TrailType /\ Alone
  BY AloneStays DEF Elsewhere, TrailInv
<1>2. u \in User /\ Key(call[r].in) = <<u>>
  BY InputIs DEF IsPush, Rows, NoCall
<1>3. Pushing(r, u) /\ blurred \subseteq blurred'
  BY <1>1 DEF MovesOn, Pushing
<1>4. ASSUME NEW v \in User, v # u PROVE UserInv(v)'
  <2>1. <<v>> # Key(call[r].in)
    BY <1>2, <1>4, KeysDiffer
  <2>2. UserInv(v)
    BY DEF TrailInv
  <2>3. QED
    BY <1>1, <2>1, <2>2, UserElsewhere
<1>5. ASSUME NEW k \in RowKey PROVE RowInv(k)'
  <2>1. k # Key(call[r].in)
    BY <1>2, KeysDiffer
  <2>2. RowInv(k)
    BY DEF TrailInv
  <2>3. QED
    BY <1>1, <2>1, <2>2, RowElsewhere
<1>6. UserInv(u)'
  <2>1. ASSUME <<u>> \notin blurred'
        PROVE  /\ \A o \in Request : Pushing(o, u)' => PushStage(call'[o], grants'[u])
               /\ (\A o \in Request : Pushing(o, u)' => call'[o].pc \in {"principal", "revoke"}) =>
                    ColumnsMatch(change_log', u, grants'[u])
    <3>1. UserInv(u) /\ <<u>> \notin blurred
      BY <1>2, <1>3, <2>1 DEF TrailInv
    <3>2. \A o \in Request : Pushing(o, u) => o = r
      BY <1>1, <1>2, <1>3, <3>1, UserBefore
    <3>3. \A o \in Request : Pushing(o, u)' => o = r
      BY <1>1, <3>2 DEF MovesOn, Pushing, IsPush, Running
    <3>4. call'[r].pc \in {"read", "revokeColumns", "grant", "log"} => Pushing(r, u)'
      BY <1>1, <1>3 DEF MovesOn, Pushing, IsPush, Running
    <3>5. OwnUser(call'[r], grants'[u], change_log', u)
      BY <2>1
    <3>6. QED
      BY <3>3, <3>4, <3>5 DEF OwnUser
  <2>2. QED
    BY <2>1 DEF UserInv
<1>7. QED
  BY <1>1, <1>4, <1>5, <1>6

\* A step of a row rule or of a setup.
LEMMA RowMoves ==
    ASSUME RuleType, TrailInv, NEW r \in Request, Elsewhere(r), NEW k \in RowKey,
           k = Key(call[r].in),
           k \notin blurred' => OwnRow(call'[r], rows'[k], change_log', k)
    PROVE  Alone' /\ (\A v \in User : UserInv(v)') /\ (\A j \in RowKey : RowInv(j)')
<1>1. MovesOn(r) /\ Alone' /\ TrailType /\ Alone
  BY AloneStays DEF Elsewhere, TrailInv
<1>2. AboutRow(r, k) /\ blurred \subseteq blurred'
  BY <1>1 DEF MovesOn, AboutRow
<1>3. ASSUME NEW v \in User PROVE UserInv(v)'
  <2>1. <<v>> # Key(call[r].in)
    BY KeysDiffer
  <2>2. UserInv(v)
    BY DEF TrailInv
  <2>3. QED
    BY <1>1, <2>1, <2>2, UserElsewhere
<1>4. ASSUME NEW j \in RowKey, j # k PROVE RowInv(j)'
  <2>1. RowInv(j)
    BY DEF TrailInv
  <2>2. QED
    BY <1>1, <1>4, <2>1, RowElsewhere
<1>5. RowInv(k)'
  <2>1. ASSUME k \notin blurred'
        PROVE  /\ rows'[k] <= 1
               /\ \A o \in Request : AboutRow(o, k)' => RowStage(call'[o], rows'[k])
               /\ (\A o \in Request : AboutRow(o, k)' => call'[o].pc \notin {"log", "logMe"}) =>
                    RowMatches(change_log', k, rows'[k])
    <3>1. RowInv(k) /\ k \notin blurred
      BY <1>2, <2>1 DEF TrailInv
    <3>2. \A o \in Request : AboutRow(o, k) => o = r
      BY <1>1, <1>2, <3>1, RowBefore
    <3>3. \A o \in Request : AboutRow(o, k)' => o = r
      BY <1>1, <3>2 DEF MovesOn, AboutRow, Running
    <3>4. call'[r].pc \in {"log", "logMe"} => AboutRow(r, k)'
      BY <1>1, <1>2 DEF MovesOn, AboutRow, Running
    <3>5. OwnRow(call'[r], rows'[k], change_log', k)
      BY <2>1
    <3>6. QED
      BY <3>3, <3>4, <3>5 DEF OwnRow
  <2>2. QED
    BY <2>1 DEF RowInv
<1>6. QED
  BY <1>1, <1>3, <1>4, <1>5

-------------------------------------------------------------------------------
(* What a step leaves of the rest *)

LEMMA TypeStays ==
    ASSUME TrailType, NEW r \in Request, MovesOn(r), Handling(call'[r]),
           rows' \in [RowKey -> Nat], orders' \in Nat, enabled' \in BOOLEAN,
           objects' \subseteq Demo, change_log' \in Logs, undone' \subseteq Setups
    PROVE  TrailType' /\ Setups' = Setups
<1>1. Setups' = Setups
  BY DEF MovesOn, Setups
<1>2. \A o \in Request : Handling(call'[o])
  BY DEF MovesOn, TrailType
<1>3. QED
  BY <1>1, <1>2 DEF TrailType

LEMMA OrdersStay ==
    ASSUME OrdersInv, NEW r \in Request, MovesOn(r), orders' = orders, objects' = objects,
           <<Me, All>> \notin blurred /\ At(r, "setup", "act")' /\ StepOf(r)'.makes = "seed" =>
                "seed" \notin objects
    PROVE  OrdersInv'
<1>1. \A o \in Request \ {r} :
        (At(o, "setup", "act")' <=> At(o, "setup", "act")) /\ StepOf(o)' = StepOf(o)
  BY DEF MovesOn, At, StepOf
<1>2. blurred \subseteq blurred'
  BY DEF MovesOn
<1>3. ASSUME <<Me, All>> \notin blurred'
      PROVE  /\ orders <= 1 /\ (orders > 0 => "seed" \in objects)
             /\ \A o \in Request :
                    At(o, "setup", "act")' /\ StepOf(o)'.makes = "seed" => "seed" \notin objects
  BY <1>1, <1>2, <1>3 DEF OrdersInv
<1>4. QED
  BY <1>3 DEF OrdersInv

LEMMA SetupStays ==
    ASSUME SetupInv, NEW r \in Request, MovesOn(r), Setups' = Setups, undone \subseteq undone',
           objects \subseteq objects', enabled => enabled',
           rows[<<Me, All>>] > 0 => rows'[<<Me, All>>] > 0,
           r \in Setups \ undone /\ ~call'[r].failed => Converging(r)'
    PROVE  SetupInv'
<1>1. ASSUME NEW o \in Setups \ undone', o # r, ~call'[o].failed PROVE Converging(o)'
  <2>1. o \in Setups \ undone /\ call'[o] = call[o]
    BY <1>1 DEF MovesOn, Setups
  <2>2. Converging(o)
    BY <1>1, <2>1 DEF SetupInv
  <2>3. QED
    BY <2>1, <2>2 DEF Converging
<1>2. QED
  BY <1>1 DEF SetupInv

LEMMA GotoKeeps ==
    ASSUME RuleType, NEW r \in Request, NEW pc \in Pc, Goto(r, pc), Running(r), blurred \subseteq blurred'
    PROVE  /\ MovesOn(r) /\ call'[r].in = call[r].in /\ call'[r].pc = pc
           /\ call'[r].read = call[r].read /\ call'[r].n = call[r].n
           /\ call'[r].failed = call[r].failed
<1>1. /\ call' \in CallType /\ \A o \in Request \ {r} : call'[o] = call[o]
      /\ call'[r].in = call[r].in /\ call'[r].pc = pc
  BY GotoFacts
<1>2. /\ call'[r].read = call[r].read /\ call'[r].n = call[r].n
      /\ call'[r].failed = call[r].failed
  BY DEF Goto, RuleType
<1>3. QED
  BY <1>1, <1>2 DEF MovesOn

-------------------------------------------------------------------------------
(* Column rules and the trail *)

LEMMA PushKeeps ==
    ASSUME RuleType, TrailInv, NEW r \in Request, IsPush(r), Elsewhere(r), Handling(call'[r]),
           rows' = rows, orders' = orders, enabled' = enabled, objects' = objects,
           undone' = undone, change_log' \in Logs,
           NEW u, u = call[r].in.user,
           <<u>> \notin blurred' => OwnUser(call'[r], grants'[u], change_log', u)
    PROVE  TrailInv'
<1>1. /\ MovesOn(r) /\ TrailType /\ OrdersInv /\ SetupInv
      /\ rows \in [RowKey -> Nat] /\ orders \in Nat /\ enabled \in BOOLEAN
      /\ objects \subseteq Demo /\ undone \subseteq Setups
  BY DEF TrailInv, TrailType, Elsewhere
<1>2. TrailType' /\ Setups' = Setups
  BY <1>1, TypeStays
<1>3. Alone' /\ (\A v \in User : UserInv(v)') /\ (\A k \in RowKey : RowInv(k)')
  BY PushMoves
<1>4. call'[r].in.kind = "push" /\ call[r].in.kind = "push"
  BY <1>1 DEF MovesOn, IsPush
<1>5. OrdersInv'
  BY <1>1, <1>4, OrdersStay DEF At
<1>6. SetupInv'
  BY <1>1, <1>2, <1>4, SetupStays DEF Setups
<1>7. QED
  BY <1>2, <1>3, <1>5, <1>6 DEF TrailInv

\* Where a push is that runs.
LEMMA PushAt ==
    ASSUME RuleType, TrailInv, NEW r \in Request, IsPush(r), Running(r), NEW u, u = call[r].in.user
    PROVE  /\ Key(call[r].in) = <<u>> /\ u \in User /\ call[r].in.columns \subseteq Column
           /\ call[r].read \subseteq Column /\ grants[u] \subseteq Column \cup {Whole}
           /\ change_log \in Logs
           /\ <<u>> \notin blurred => OwnUser(call[r], grants[u], change_log, u)
<1>1. Key(call[r].in) = <<u>> /\ u \in User /\ call[r].in.columns \subseteq Column
  BY InputIs DEF IsPush, Rows, NoCall
<1>2. Pushing(r, u) /\ UserInv(u) /\ TrailType /\ Alone
  BY <1>1 DEF Pushing, TrailInv
<1>3. <<u>> \notin blurred => OwnUser(call[r], grants[u], change_log, u)
  BY <1>1, <1>2, UserBefore
<1>4. call[r].read \subseteq Column /\ grants[u] \subseteq Column \cup {Whole}
  BY <1>1 DEF RuleType
<1>5. QED
  BY <1>1, <1>2, <1>3, <1>4 DEF TrailType

LEMMA CheckPrincipalTrail ==
    ASSUME RuleType, TrailInv, NEW r \in Request, CheckPrincipal(r) PROVE TrailInv'
<1> DEFINE u == call[r].in.user
           pc == IF u \in principals THEN "revoke" ELSE "refused"
<1>1. /\ IsPush(r) /\ call[r].pc = "principal" /\ Running(r) /\ Goto(r, pc)
      /\ grants' = grants /\ rows' = rows /\ orders' = orders /\ enabled' = enabled
      /\ objects' = objects /\ undone' = undone /\ change_log' = change_log /\ blurred' = blurred
  BY DEF CheckPrincipal, At, IsPush, Running, warehouse, history
<1>2. pc \in Pc /\ pc \in {"revoke", "refused"}
  BY DEF Pc
<1> HIDE DEF pc
<1>3. MovesOn(r) /\ call'[r].in = call[r].in /\ call'[r].pc = pc
  BY <1>1, <1>2, GotoKeeps
<1>4. Elsewhere(r)
  BY <1>1, <1>3 DEF Elsewhere
<1>5. Handling(call'[r])
  BY <1>1, <1>2, <1>3 DEF Handling, PushPc, IsPush, NoCall, Rows
<1>6. change_log' \in Logs /\ (<<u>> \notin blurred' => OwnUser(call[r], grants[u], change_log, u))
  BY <1>1, PushAt
<1>7. <<u>> \notin blurred' => OwnUser(call'[r], grants'[u], change_log', u)
  BY <1>1, <1>2, <1>3, <1>6 DEF OwnUser, PushStage
<1>8. QED
  BY <1>1, <1>4, <1>5, <1>6, <1>7, PushKeeps

LEMMA RevokeObjectTrail ==
    ASSUME RuleType, TrailInv, NEW r \in Request, RevokeObject(r) PROVE TrailInv'
<1> DEFINE u == call[r].in.user
<1>1. /\ IsPush(r) /\ call[r].pc = "revoke" /\ Running(r) /\ Goto(r, "read")
      /\ Revoked(r, {Whole})
      /\ rows' = rows /\ orders' = orders /\ enabled' = enabled
      /\ objects' = objects /\ undone' = undone /\ change_log' = change_log /\ blurred' = blurred
  BY DEF RevokeObject, At, IsPush, Running
<1>2. MovesOn(r) /\ call'[r].in = call[r].in /\ call'[r].pc = "read"
  BY <1>1, GotoKeeps DEF Pc
<1>3. Key(call[r].in) = <<u>> /\ u \in User /\ change_log' \in Logs
  BY <1>1, PushAt
<1>4. /\ grants'[u] = grants[u] \ {Whole}
      /\ \A v \in User \ {u} : grants'[v] = grants[v]
  BY <1>1, RevokedFacts
<1>5. Elsewhere(r)
  BY <1>1, <1>2, <1>3, <1>4 DEF Elsewhere
<1>6. Handling(call'[r])
  BY <1>1, <1>2 DEF Handling, PushPc, IsPush, NoCall, Rows
<1>7. OwnUser(call'[r], grants'[u], change_log', u)
  BY <1>2, <1>4 DEF OwnUser, PushStage
<1>8. QED
  BY <1>1, <1>3, <1>5, <1>6, <1>7, PushKeeps

LEMMA ReadColumnGrantsTrail ==
    ASSUME RuleType, TrailInv, NEW r \in Request, ReadColumnGrants(r) PROVE TrailInv'
<1> DEFINE u == call[r].in.user
<1>1. /\ IsPush(r) /\ call[r].pc = "read" /\ Running(r)
      /\ call' = [call EXCEPT ![r].read = grants[u] \ {Whole}, ![r].pc = "revokeColumns"]
      /\ grants' = grants /\ rows' = rows /\ orders' = orders /\ enabled' = enabled
      /\ objects' = objects /\ undone' = undone /\ change_log' = change_log /\ blurred' = blurred
  BY DEF ReadColumnGrants, At, IsPush, Running, warehouse, history
<1>2. /\ u \in User /\ grants[u] \subseteq Column \cup {Whole} /\ change_log' \in Logs
      /\ <<u>> \notin blurred' => OwnUser(call[r], grants[u], change_log, u)
  BY <1>1, PushAt
<1>3. /\ call' \in CallType /\ call'[r].in = call[r].in /\ call'[r].pc = "revokeColumns"
      /\ call'[r].read = grants[u] \ {Whole} /\ \A o \in Request \ {r} : call'[o] = call[o]
  BY <1>1, <1>2 DEF RuleType, CallType, Pc
<1>4. MovesOn(r)
  BY <1>1, <1>3 DEF MovesOn
<1>5. Elsewhere(r)
  BY <1>1, <1>4 DEF Elsewhere
<1>6. Handling(call'[r])
  BY <1>1, <1>3 DEF Handling, PushPc, IsPush, NoCall, Rows
<1>7. <<u>> \notin blurred' => OwnUser(call'[r], grants'[u], change_log', u)
  BY <1>1, <1>2, <1>3 DEF OwnUser, PushStage
<1>8. QED
  BY <1>1, <1>2, <1>5, <1>6, <1>7, PushKeeps

LEMMA RevokeColumnsTrail ==
    ASSUME RuleType, TrailInv, NEW r \in Request, RevokeColumns(r) PROVE TrailInv'
<1> DEFINE u == call[r].in.user
<1>1. /\ IsPush(r) /\ call[r].pc = "revokeColumns" /\ Running(r) /\ Goto(r, "grant")
      /\ Revoked(r, call[r].read)
      /\ rows' = rows /\ orders' = orders /\ enabled' = enabled
      /\ objects' = objects /\ undone' = undone /\ change_log' = change_log /\ blurred' = blurred
  BY DEF RevokeColumns, At, IsPush, Running
<1>2. MovesOn(r) /\ call'[r].in = call[r].in /\ call'[r].pc = "grant"
  BY <1>1, GotoKeeps DEF Pc
<1>3. /\ Key(call[r].in) = <<u>> /\ u \in User /\ change_log' \in Logs /\ call[r].read \subseteq Column
      /\ <<u>> \notin blurred' => OwnUser(call[r], grants[u], change_log, u)
  BY <1>1, PushAt
<1>4. /\ grants'[u] = grants[u] \ call[r].read
      /\ \A v \in User \ {u} : grants'[v] = grants[v]
  BY <1>1, <1>3, RevokedFacts
<1>5. Elsewhere(r)
  BY <1>1, <1>2, <1>3, <1>4 DEF Elsewhere
<1>6. Handling(call'[r])
  BY <1>1, <1>2 DEF Handling, PushPc, IsPush, NoCall, Rows
<1>7. <<u>> \notin blurred' => OwnUser(call'[r], grants'[u], change_log', u)
  BY <1>1, <1>2, <1>3, <1>4 DEF OwnUser, PushStage
<1>8. QED
  BY <1>1, <1>3, <1>5, <1>6, <1>7, PushKeeps

LEMMA GrantTrail ==
    ASSUME RuleType, TrailInv, NEW r \in Request, Grant(r) PROVE TrailInv'
<1> DEFINE u == call[r].in.user
           g == RuleOf(call[r].in.columns)
<1>1. /\ IsPush(r) /\ call[r].pc = "grant" /\ Running(r) /\ Goto(r, "log")
      /\ Granted(r, g)
      /\ rows' = rows /\ orders' = orders /\ enabled' = enabled
      /\ objects' = objects /\ undone' = undone /\ change_log' = change_log /\ blurred' = blurred
  BY DEF Grant, At, IsPush, Running
<1>2. MovesOn(r) /\ call'[r].in = call[r].in /\ call'[r].pc = "log"
  BY <1>1, GotoKeeps DEF Pc
<1>3. /\ Key(call[r].in) = <<u>> /\ u \in User /\ change_log' \in Logs
      /\ call[r].in.columns \subseteq Column
      /\ <<u>> \notin blurred' => OwnUser(call[r], grants[u], change_log, u)
  BY <1>1, PushAt
<1>4. g \in SUBSET (Column \cup {Whole}) /\ Visible(g) = call[r].in.columns
  BY <1>3, ConsoleAssumption DEF RuleOf, Visible
<1>5. /\ grants'[u] = grants[u] \cup g
      /\ \A v \in User \ {u} : grants'[v] = grants[v]
  BY <1>1, <1>4, GrantedFacts
<1>6. Elsewhere(r)
  BY <1>1, <1>2, <1>3, <1>5 DEF Elsewhere
<1>7. Handling(call'[r])
  BY <1>1, <1>2 DEF Handling, PushPc, IsPush, NoCall, Rows
<1>8. <<u>> \notin blurred' => grants'[u] = g
  BY <1>1, <1>3, <1>5 DEF OwnUser, PushStage
<1>9. <<u>> \notin blurred' => OwnUser(call'[r], grants'[u], change_log', u)
  BY <1>2, <1>4, <1>8 DEF OwnUser, PushStage
<1>10. QED
  BY <1>1, <1>3, <1>6, <1>7, <1>9, PushKeeps

LEMMA LogPushTrail ==
    ASSUME RuleType, TrailInv, NEW r \in Request, LogChange(r), IsPush(r) PROVE TrailInv'
<1> DEFINE u == call[r].in.user
           e == Entry(call[r].in)
<1>1. /\ call[r].pc = "log" /\ Running(r) /\ Goto(r, "ok")
      /\ change_log' = Append(change_log, e)
      /\ grants' = grants /\ rows' = rows /\ orders' = orders /\ enabled' = enabled
      /\ objects' = objects /\ undone' = undone /\ blurred' = blurred
  BY DEF LogChange, Running, history
<1>2. MovesOn(r) /\ call'[r].in = call[r].in /\ call'[r].pc = "ok"
  BY <1>1, GotoKeeps DEF Pc
<1>3. /\ Key(call[r].in) = <<u>> /\ u \in User /\ change_log \in Logs
      /\ <<u>> \notin blurred' => OwnUser(call[r], grants[u], change_log, u)
  BY <1>1, PushAt
<1>4. e.key = <<u>> /\ e.columns = call[r].in.columns
  BY <1>3 DEF Entry, IsPush
<1>5. e \in Entries /\ change_log \in Seq(Entries)
  BY <1>3 DEF Entries, Logs, RuleType
<1> HIDE DEF e
<1>6. change_log' \in Logs
  BY <1>1, <1>5 DEF Logs, Entries
<1>7. Elsewhere(r)
  BY <1>1, <1>2, <1>3, <1>4, <1>5 DEF Elsewhere
<1>8. Handling(call'[r])
  BY <1>1, <1>2 DEF Handling, PushPc, IsPush, NoCall, Rows
<1>9. <<u>> \notin blurred' => Visible(grants'[u]) = e.columns
  BY <1>1, <1>3, <1>4 DEF OwnUser, PushStage
<1>10. /\ LastAt(change_log', <<u>>, Len(change_log) + 1) /\ Named(change_log', <<u>>)
       /\ change_log'[Len(change_log) + 1] = e
  BY <1>1, <1>4, <1>5, Appended
<1>11. Len(change_log) + 1 \in DOMAIN change_log'
  BY <1>10 DEF LastAt
<1>12. <<u>> \notin blurred' => OwnUser(call'[r], grants'[u], change_log', u)
  BY <1>2, <1>9, <1>10, <1>11 DEF OwnUser, PushStage, ColumnsMatch
<1>13. QED
  BY <1>1, <1>6, <1>7, <1>8, <1>12, PushKeeps

-------------------------------------------------------------------------------
(* Row rules and the trail *)

\* Where a row rule or a setup is that runs.
LEMMA RowAt ==
    ASSUME RuleType, TrailInv, NEW r \in Request, call[r].in.kind \in Rows \cup {"setup"}, Running(r),
           NEW k, k = Key(call[r].in)
    PROVE  /\ k \in RowKey /\ change_log \in Logs /\ rows \in [RowKey -> Nat]
           /\ k \notin blurred => OwnRow(call[r], rows[k], change_log, k)
<1>1. k \in RowKey
  BY InputIs, KeysDiffer DEF NoCall, Rows
<1>2. AboutRow(r, k) /\ RowInv(k) /\ Alone
  BY <1>1 DEF AboutRow, TrailInv
<1>3. k \notin blurred => OwnRow(call[r], rows[k], change_log, k)
  BY <1>1, <1>2, RowBefore
<1>4. QED
  BY <1>1, <1>3 DEF TrailInv, TrailType

LEMMA RowRuleKeeps ==
    ASSUME RuleType, TrailInv, NEW r \in Request, call[r].in.kind \in Rows, Elsewhere(r),
           Handling(call'[r]), rows' \in [RowKey -> Nat], change_log' \in Logs,
           orders' = orders, enabled' = enabled, objects' = objects,
           \/ undone' = undone /\ (rows[<<Me, All>>] > 0 => rows'[<<Me, All>>] > 0)
           \/ undone' = Setups,
           NEW k, k = Key(call[r].in),
           k \notin blurred' => OwnRow(call'[r], rows'[k], change_log', k)
    PROVE  TrailInv'
<1>1. /\ MovesOn(r) /\ TrailType /\ OrdersInv /\ SetupInv
      /\ orders \in Nat /\ enabled \in BOOLEAN /\ objects \subseteq Demo /\ undone \subseteq Setups
  BY DEF TrailInv, TrailType, Elsewhere
<1>2. undone' \subseteq Setups
  BY <1>1
<1>3. TrailType' /\ Setups' = Setups
  BY <1>1, <1>2, TypeStays
<1>4. k \in RowKey
  BY InputIs DEF NoCall, Rows
<1>5. Alone' /\ (\A v \in User : UserInv(v)') /\ (\A j \in RowKey : RowInv(j)')
  BY <1>4, RowMoves
<1>6. call'[r].in.kind # "setup" /\ call[r].in.kind # "setup"
  BY <1>1 DEF MovesOn, Rows
<1>7. OrdersInv'
  BY <1>1, <1>6, OrdersStay DEF At
<1>8. SetupInv'
  <2>1. CASE undone' = Setups
    BY <1>3, <2>1 DEF SetupInv
  <2>2. CASE undone' = undone /\ (rows[<<Me, All>>] > 0 => rows'[<<Me, All>>] > 0)
    <3>1. r \notin Setups
      BY <1>6 DEF Setups
    <3>2. QED
      BY <1>1, <1>3, <2>2, <3>1, SetupStays
  <2>3. QED
    BY <2>1, <2>2
<1>9. QED
  BY <1>3, <1>5, <1>7, <1>8 DEF TrailInv

LEMMA CheckRegionTrail ==
    ASSUME RuleType, TrailInv, NEW r \in Request, CheckRegion(r) PROVE TrailInv'
<1> DEFINE k == Key(call[r].in)
           pc == IF orders > 0 \/ call[r].in.region = All THEN "row" ELSE "refused"
<1>1. /\ call[r].in.kind \in Rows /\ call[r].pc = "region" /\ Running(r) /\ Goto(r, pc)
      /\ grants' = grants /\ rows' = rows /\ orders' = orders /\ enabled' = enabled
      /\ objects' = objects /\ undone' = undone /\ change_log' = change_log /\ blurred' = blurred
  BY DEF CheckRegion, Running, warehouse, history
<1>2. pc \in Pc /\ pc \in {"row", "refused"}
  BY DEF Pc
<1> HIDE DEF pc
<1>3. MovesOn(r) /\ call'[r].in = call[r].in /\ call'[r].pc = pc
  BY <1>1, <1>2, GotoKeeps
<1>4. Elsewhere(r)
  BY <1>1, <1>3 DEF Elsewhere
<1>5. Handling(call'[r])
  BY <1>1, <1>2, <1>3 DEF Handling, RowPc, NoCall, Rows
<1>6. /\ change_log' \in Logs /\ rows' \in [RowKey -> Nat]
      /\ k \notin blurred' => OwnRow(call[r], rows[k], change_log, k)
  BY <1>1, RowAt
<1>7. k \notin blurred' => OwnRow(call'[r], rows'[k], change_log', k)
  BY <1>1, <1>2, <1>3, <1>6 DEF OwnRow, RowStage
<1>8. QED
  BY <1>1, <1>4, <1>5, <1>6, <1>7, RowRuleKeeps

LEMMA LookForRowTrail ==
    ASSUME RuleType, TrailInv, NEW r \in Request, LookForRow(r) PROVE TrailInv'
<1> DEFINE k == Key(call[r].in)
           pc == IF rows[k] > 0 THEN "ok" ELSE "insert"
<1>1. /\ call[r].in.kind = "row-rule.add" /\ call[r].pc = "row" /\ Running(r) /\ Goto(r, pc)
      /\ grants' = grants /\ rows' = rows /\ orders' = orders /\ enabled' = enabled
      /\ objects' = objects /\ undone' = undone /\ change_log' = change_log /\ blurred' = blurred
  BY DEF LookForRow, At, Running, warehouse, history
<1>2. call[r].in.kind \in Rows
  BY <1>1 DEF Rows
<1>3. /\ k \in RowKey /\ change_log' \in Logs /\ rows' \in [RowKey -> Nat] /\ rows[k] \in Nat
      /\ k \notin blurred' => OwnRow(call[r], rows[k], change_log, k)
  BY <1>1, <1>2, RowAt
<1>4. pc \in Pc /\ pc \in {"ok", "insert"} /\ (pc = "insert" => rows[k] = 0)
  BY <1>3 DEF Pc
<1> HIDE DEF pc
<1>5. MovesOn(r) /\ call'[r].in = call[r].in /\ call'[r].pc = pc
  BY <1>1, <1>4, GotoKeeps
<1>6. Elsewhere(r)
  BY <1>1, <1>5 DEF Elsewhere
<1>7. Handling(call'[r])
  BY <1>1, <1>4, <1>5 DEF Handling, RowPc, NoCall, Rows
<1>8. k \notin blurred' => OwnRow(call'[r], rows'[k], change_log', k)
  BY <1>1, <1>3, <1>4, <1>5 DEF OwnRow, RowStage
<1>9. QED
  BY <1>1, <1>2, <1>3, <1>6, <1>7, <1>8, RowRuleKeeps

LEMMA InsertRowTrail ==
    ASSUME RuleType, TrailInv, NEW r \in Request, InsertRow(r) PROVE TrailInv'
<1> DEFINE k == Key(call[r].in)
<1>1. /\ call[r].in.kind = "row-rule.add" /\ call[r].pc = "insert" /\ Running(r) /\ Goto(r, "log")
      /\ rows' = [rows EXCEPT ![k] = @ + 1]
      /\ grants' = grants /\ orders' = orders /\ enabled' = enabled
      /\ objects' = objects /\ undone' = undone /\ change_log' = change_log /\ blurred' = blurred
  BY DEF InsertRow, At, Running, history
<1>2. call[r].in.kind \in Rows
  BY <1>1 DEF Rows
<1>3. /\ k \in RowKey /\ change_log' \in Logs /\ rows \in [RowKey -> Nat] /\ rows[k] \in Nat
      /\ k \notin blurred' => OwnRow(call[r], rows[k], change_log, k)
  BY <1>1, <1>2, RowAt
<1>4. MovesOn(r) /\ call'[r].in = call[r].in /\ call'[r].pc = "log"
  BY <1>1, GotoKeeps DEF Pc
<1> HIDE DEF k
<1>5. /\ rows' \in [RowKey -> Nat] /\ rows'[k] = rows[k] + 1
      /\ \A j \in RowKey \ {k} : rows'[j] = rows[j]
  BY <1>1, <1>3
<1>6. Elsewhere(r)
  BY <1>1, <1>4, <1>5 DEF Elsewhere, k
<1>7. Handling(call'[r])
  BY <1>1, <1>4 DEF Handling, RowPc, NoCall, Rows
<1>8. k \notin blurred' => OwnRow(call'[r], rows'[k], change_log', k)
  BY <1>1, <1>3, <1>4, <1>5 DEF OwnRow, RowStage
<1>9. rows[<<Me, All>>] > 0 => rows'[<<Me, All>>] > 0
  <2>1. <<Me, All>> \in RowKey
    BY KeysDiffer
  <2>2. QED
    BY <1>3, <1>5, <2>1
<1>10. QED
  BY <1>1, <1>2, <1>3, <1>5, <1>6, <1>7, <1>8, <1>9, RowRuleKeeps DEF k

LEMMA RemoveRowTrail ==
    ASSUME RuleType, TrailInv, NEW r \in Request, RemoveRow(r) PROVE TrailInv'
<1> DEFINE k == Key(call[r].in)
           pc == IF rows[k] > 0 THEN "log" ELSE "ok"
<1>1. /\ call[r].in.kind = "row-rule.remove" /\ call[r].pc = "row" /\ Running(r) /\ Goto(r, pc)
      /\ rows' = [rows EXCEPT ![k] = 0]
      /\ undone' = IF k = <<Me, All>> THEN Setups ELSE undone
      /\ grants' = grants /\ orders' = orders /\ enabled' = enabled
      /\ objects' = objects /\ change_log' = change_log /\ blurred' = blurred
  BY DEF RemoveRow, At, Running
<1>2. call[r].in.kind \in Rows
  BY <1>1 DEF Rows
<1>3. /\ k \in RowKey /\ change_log' \in Logs /\ rows \in [RowKey -> Nat] /\ rows[k] \in Nat
      /\ k \notin blurred' => OwnRow(call[r], rows[k], change_log, k)
  BY <1>1, <1>2, RowAt
<1>4. pc \in Pc /\ pc \in {"log", "ok"} /\ (pc = "ok" => rows[k] = 0)
  BY <1>3 DEF Pc
<1> HIDE DEF pc
<1>5. MovesOn(r) /\ call'[r].in = call[r].in /\ call'[r].pc = pc
  BY <1>1, <1>4, GotoKeeps
<1> HIDE DEF k
<1>6. /\ rows' \in [RowKey -> Nat] /\ rows'[k] = 0
      /\ \A j \in RowKey \ {k} : rows'[j] = rows[j]
  BY <1>1, <1>3
<1>7. Elsewhere(r)
  BY <1>1, <1>5, <1>6 DEF Elsewhere, k
<1>8. Handling(call'[r])
  BY <1>1, <1>4, <1>5 DEF Handling, RowPc, NoCall, Rows
<1>9. k \notin blurred' => OwnRow(call'[r], rows'[k], change_log', k)
  BY <1>1, <1>3, <1>4, <1>5, <1>6 DEF OwnRow, RowStage
<1>10. \/ undone' = undone /\ (rows[<<Me, All>>] > 0 => rows'[<<Me, All>>] > 0)
       \/ undone' = Setups
  <2>1. <<Me, All>> \in RowKey
    BY KeysDiffer
  <2>2. QED
    BY <1>1, <1>6, <2>1
<1>11. QED
  BY <1>1, <1>2, <1>3, <1>6, <1>7, <1>8, <1>9, <1>10, RowRuleKeeps DEF k

\* An entry about a row is the one that tells whether it is in force.
LEMMA EntryMatches ==
    ASSUME NEW log \in Logs, NEW e \in Entries, NEW k, NEW n, e.key = k,
           n > 0 <=> e.action = "row-rule.add"
    PROVE  RowMatches(Append(log, e), k, n) /\ Append(log, e) \in Logs
<1> DEFINE more == Append(log, e)
<1>1. log \in Seq(Entries)
  BY DEF Logs, Entries
<1>2. /\ more \in Logs /\ more[Len(log) + 1] = e
      /\ Named(more, k) /\ LastAt(more, k, Len(log) + 1)
  BY <1>1, Appended DEF Logs, Entries
<1> HIDE DEF more
<1>3. Len(log) + 1 \in DOMAIN more
  BY <1>2 DEF LastAt
<1>4. RowMatches(more, k, n)
  BY <1>2, <1>3 DEF RowMatches
<1>5. QED
  BY <1>2, <1>4 DEF more

LEMMA LogRowTrail ==
    ASSUME RuleType, TrailInv, NEW r \in Request, LogChange(r), call[r].in.kind \in Rows
    PROVE  TrailInv'
<1> DEFINE k == Key(call[r].in)
           e == Entry(call[r].in)
<1>1. /\ call[r].pc = "log" /\ Running(r) /\ Goto(r, "ok")
      /\ change_log' = Append(change_log, e)
      /\ grants' = grants /\ rows' = rows /\ orders' = orders /\ enabled' = enabled
      /\ objects' = objects /\ undone' = undone /\ blurred' = blurred
  BY DEF LogChange, Running, history
<1>2. MovesOn(r) /\ call'[r].in = call[r].in /\ call'[r].pc = "ok"
  BY <1>1, GotoKeeps DEF Pc
<1>3. /\ k \in RowKey /\ change_log \in Logs /\ rows' \in [RowKey -> Nat]
      /\ k \notin blurred' => OwnRow(call[r], rows[k], change_log, k)
  BY <1>1, RowAt
<1>4. e.key = k /\ e.action = call[r].in.kind
  BY DEF Entry, Rows
<1>5. e \in Entries
  BY DEF Entries, RuleType
<1> HIDE DEF e, k
<1>6. change_log' \in Logs
  BY <1>1, <1>3, <1>5 DEF Logs, Entries
<1>7. Elsewhere(r)
  BY <1>1, <1>2, <1>4, <1>5 DEF Elsewhere, k
<1>8. Handling(call'[r])
  BY <1>1, <1>2 DEF Handling, RowPc, NoCall, Rows
<1>9. ASSUME k \notin blurred' PROVE OwnRow(call'[r], rows'[k], change_log', k)
  <2>1. /\ rows[k] <= 1 /\ (rows[k] > 0 <=> e.action = "row-rule.add")
    BY <1>1, <1>3, <1>4, <1>9 DEF OwnRow, RowStage
  <2>2. RowMatches(change_log', k, rows'[k])
    BY <1>1, <1>3, <1>4, <1>5, <2>1, EntryMatches
  <2>3. QED
    BY <1>1, <1>2, <2>1, <2>2 DEF OwnRow, RowStage
<1>10. QED
  BY <1>1, <1>3, <1>6, <1>7, <1>8, <1>9, RowRuleKeeps DEF k

-------------------------------------------------------------------------------
(* Setups and the trail *)

LEMMA BootstrapIs ==
    /\ Len(BOOTSTRAP) \in Nat /\ DOMAIN BOOTSTRAP = 1 .. Len(BOOTSTRAP) /\ 9 \in DOMAIN BOOTSTRAP
    /\ BOOTSTRAP[9].makes = "policy" /\ Len(BOOTSTRAP) > 0
    /\ \A i \in DOMAIN BOOTSTRAP : BOOTSTRAP[i].makes \in Demo
<1>1. Len(BOOTSTRAP) = 10 /\ DOMAIN BOOTSTRAP = 1 .. 10
  BY DEF BOOTSTRAP
<1>2. BOOTSTRAP[9].makes = "policy"
  BY DEF BOOTSTRAP, Makes
<1>3. QED
  BY <1>1, <1>2 DEF Demo

LEMMA SetupKeeps ==
    ASSUME RuleType, TrailInv, NEW r \in Request, call[r].in.kind = "setup", Elsewhere(r),
           Handling(call'[r]), rows' \in [RowKey -> Nat], change_log' \in Logs,
           orders' \in Nat, enabled' \in BOOLEAN, objects' \subseteq Demo, undone' = undone,
           NEW k, k = <<Me, All>>,
           k \notin blurred' => OwnRow(call'[r], rows'[k], change_log', k),
           objects \subseteq objects', enabled => enabled', rows[k] > 0 => rows'[k] > 0,
           OrdersInv',
           ~call'[r].failed /\ Converging(r) => Converging(r)',
           ~call'[r].failed => ~call[r].failed
    PROVE  TrailInv'
<1>1. /\ MovesOn(r) /\ TrailType /\ SetupInv /\ undone' \subseteq Setups
  BY DEF TrailInv, TrailType, Elsewhere
<1>2. TrailType' /\ Setups' = Setups
  BY <1>1, TypeStays
<1>3. k \in RowKey /\ k = Key(call[r].in)
  BY KeysDiffer DEF Key, Rows
<1>4. Alone' /\ (\A v \in User : UserInv(v)') /\ (\A j \in RowKey : RowInv(j)')
  BY <1>3, RowMoves
<1>5. r \in Setups \ undone /\ ~call'[r].failed => Converging(r)'
  BY <1>1 DEF SetupInv
<1>6. SetupInv'
  BY <1>1, <1>2, <1>5, SetupStays
<1>7. QED
  BY <1>2, <1>4, <1>6 DEF TrailInv

LEMMA NextStepKeeps ==
    ASSUME RuleType, TrailInv, NEW r \in Request, NEW failed \in BOOLEAN, NextStep(r, failed),
           call[r].in.kind = "setup", call[r].pc \in {"look", "act"}, blurred' = blurred
    PROVE  /\ MovesOn(r) /\ call'[r].n = call[r].n + 1
           /\ call'[r].failed = (call[r].failed \/ failed)
           /\ call'[r].pc \in {"entitle", "look"} /\ Handling(call'[r])
           /\ call[r].n + 1 \in DOMAIN BOOTSTRAP
<1> DEFINE pc == IF call[r].n + 1 = Len(BOOTSTRAP) THEN "entitle" ELSE "look"
           n == call[r].n + 1
           some == call[r].failed \/ failed
<1>1. call' = [call EXCEPT ![r].n = n, ![r].failed = some, ![r].pc = pc]
  BY DEF NextStep
<1>2. /\ call[r].n \in Nat /\ call[r].n < Len(BOOTSTRAP) /\ some \in BOOLEAN
  BY DEF RuleType, TrailInv, TrailType, Handling
<1>3. /\ pc \in Pc /\ pc \in {"entitle", "look"} /\ n \in 1 .. Len(BOOTSTRAP)
      /\ pc = "look" => n < Len(BOOTSTRAP)
      /\ pc = "entitle" => n = Len(BOOTSTRAP)
  BY <1>2, BootstrapIs DEF Pc
<1> HIDE DEF pc, n, some
<1>4. /\ call' \in CallType /\ \A o \in Request \ {r} : call'[o] = call[o]
      /\ call'[r].in = call[r].in /\ call'[r].pc = pc /\ call'[r].n = n /\ call'[r].failed = some
  <2>1. n \in Nat
    BY <1>2 DEF n
  <2>2. call' \in CallType
    <3>1. pc \in Pc /\ some \in BOOLEAN
      BY <1>2, <1>3
    <3>2. PICK z : z = [call[r] EXCEPT !.n = n, !.failed = some, !.pc = pc]
      OBVIOUS
    <3>3. z \in [in : Input, pc : Pc, read : SUBSET Column, n : Nat, failed : BOOLEAN]
      BY <2>1, <3>1, <3>2 DEF RuleType
    <3>4. call' = [call EXCEPT ![r] = z]
      BY <1>1, <3>2 DEF RuleType
    <3>5. QED
      BY <3>3, <3>4 DEF RuleType, CallType
  <2>3. \A o \in Request \ {r} : call'[o] = call[o]
    BY <1>1 DEF RuleType
  <2>4. call'[r].in = call[r].in /\ call'[r].pc = pc /\ call'[r].n = n
    BY <1>1 DEF RuleType
  <2>5. call'[r].failed = some
    BY <1>1 DEF RuleType
  <2>6. QED
    BY <2>2, <2>3, <2>4, <2>5
<1>5. MovesOn(r)
  BY <1>4 DEF MovesOn, Running
<1>6. Handling(call'[r])
  BY <1>3, <1>4 DEF Handling, SetupPc, NoCall, Rows
<1>7. QED
  BY <1>3, <1>4, <1>5, <1>6, BootstrapIs DEF n, some

\* Where a setup is that runs.
LEMMA SetupAt ==
    ASSUME RuleType, TrailInv, NEW r \in Request, call[r].in.kind = "setup", Running(r),
           NEW k, k = <<Me, All>>
    PROVE  /\ k \in RowKey /\ k = Key(call[r].in) /\ change_log \in Logs
           /\ rows \in [RowKey -> Nat] /\ orders \in Nat /\ enabled \in BOOLEAN
           /\ objects \subseteq Demo
           /\ k \notin blurred => OwnRow(call[r], rows[k], change_log, k)
           /\ Handling(call[r]) /\ OrdersInv
<1>1. k = Key(call[r].in)
  BY DEF Key, Rows
<1>2. QED
  BY <1>1, RowAt DEF TrailInv, TrailType

LEMMA StepLooksTrail ==
    ASSUME RuleType, TrailInv, NEW r \in Request, StepLooks(r) PROVE TrailInv'
<1> DEFINE k == <<Me, All>>
           there == StepOf(r).makes \in objects /\ (StepOf(r).makes = "policy" => enabled)
<1>1. /\ call[r].in.kind = "setup" /\ call[r].pc = "look" /\ Running(r)
      /\ IF there THEN NextStep(r, FALSE) ELSE Goto(r, "act")
      /\ grants' = grants /\ rows' = rows /\ orders' = orders /\ enabled' = enabled
      /\ objects' = objects /\ undone' = undone /\ change_log' = change_log /\ blurred' = blurred
  BY DEF StepLooks, At, Running, warehouse, history
<1>2. /\ k \in RowKey /\ change_log \in Logs /\ rows \in [RowKey -> Nat]
      /\ orders \in Nat /\ enabled \in BOOLEAN /\ objects \subseteq Demo
      /\ k \notin blurred => OwnRow(call[r], rows[k], change_log, k)
      /\ Handling(call[r]) /\ OrdersInv
  BY <1>1, SetupAt
<1>3. /\ MovesOn(r) /\ Handling(call'[r]) /\ call'[r].pc \in {"look", "act", "entitle"}
      /\ ~call'[r].failed => ~call[r].failed
      /\ call'[r].pc = "act" => ~there /\ call'[r].n = call[r].n
      /\ Converging(r) => Converging(r)'
  <2>1. CASE there
    <3>1. NextStep(r, FALSE)
      BY <1>1, <2>1
    <3>2. /\ MovesOn(r) /\ call'[r].n = call[r].n + 1
          /\ call'[r].failed = (call[r].failed \/ FALSE)
          /\ call'[r].pc \in {"entitle", "look"} /\ Handling(call'[r])
      BY <1>1, <3>1, NextStepKeeps
    <3>3. ASSUME Converging(r) PROVE Converging(r)'
      <4>1. ASSUME NEW i \in 1 .. call'[r].n
            PROVE  BOOTSTRAP[i].makes \in objects /\ (BOOTSTRAP[i].makes = "policy" => enabled)
        <5>1. i \in 1 .. call[r].n \/ i = call[r].n + 1
          BY <3>2 DEF RuleType
        <5>2. QED
          BY <2>1, <3>3, <5>1 DEF Converging, StepOf
      <4>2. QED
        BY <1>1, <3>2, <4>1 DEF Converging
    <3>4. QED
      BY <3>2, <3>3
  <2>2. CASE ~there
    <3>1. Goto(r, "act")
      BY <1>1, <2>2
    <3>2. /\ MovesOn(r) /\ call'[r].in = call[r].in /\ call'[r].pc = "act"
          /\ call'[r].n = call[r].n /\ call'[r].failed = call[r].failed
      BY <1>1, <3>1, GotoKeeps DEF Pc
    <3>3. Handling(call'[r])
      BY <1>1, <1>2, <3>2 DEF Handling, SetupPc, NoCall, Rows
    <3>4. Converging(r) => Converging(r)'
      BY <1>1, <3>2 DEF Converging
    <3>5. QED
      BY <2>2, <3>2, <3>3, <3>4
  <2>3. QED
    BY <2>1, <2>2
<1>4. Elsewhere(r)
  BY <1>1, <1>3 DEF Elsewhere
<1>5. At(r, "setup", "act")' /\ StepOf(r)'.makes = "seed" => "seed" \notin objects
  <2> SUFFICES ASSUME At(r, "setup", "act")', StepOf(r)'.makes = "seed" PROVE "seed" \notin objects
    OBVIOUS
  <2>1. ~there /\ StepOf(r).makes = "seed"
    BY <1>3 DEF At, StepOf
  <2>2. QED
    BY <2>1
<1>6. OrdersInv'
  BY <1>1, <1>2, <1>3, <1>5, OrdersStay
<1>7. k \notin blurred' => OwnRow(call'[r], rows'[k], change_log', k)
  BY <1>1, <1>2, <1>3 DEF OwnRow, RowStage
<1>8. /\ rows' \in [RowKey -> Nat] /\ change_log' \in Logs /\ orders' \in Nat /\ enabled' \in BOOLEAN
      /\ objects' \subseteq Demo /\ objects \subseteq objects' /\ (enabled => enabled')
      /\ rows[k] > 0 => rows'[k] > 0
  BY <1>1, <1>2
<1>9. QED
  BY <1>1, <1>3, <1>4, <1>6, <1>7, <1>8, SetupKeeps

LEMMA StepActsTrail ==
    ASSUME RuleType, TrailInv, NEW r \in Request, StepActs(r) PROVE TrailInv'
<1> DEFINE k == <<Me, All>>
           what == StepOf(r).makes
<1>1. /\ call[r].in.kind = "setup" /\ call[r].pc = "act" /\ Running(r) /\ NextStep(r, FALSE)
      /\ objects' = objects \cup {what}
      /\ enabled' = IF what = "policy" THEN TRUE ELSE enabled
      /\ orders' = IF what = "seed" THEN orders + 1 ELSE orders
      /\ grants' = grants /\ rows' = rows
      /\ undone' = undone /\ change_log' = change_log /\ blurred' = blurred
  BY DEF StepActs, At, Running, history
<1>2. /\ k \in RowKey /\ k = Key(call[r].in) /\ change_log \in Logs /\ rows \in [RowKey -> Nat]
      /\ orders \in Nat /\ enabled \in BOOLEAN /\ objects \subseteq Demo
      /\ k \notin blurred => OwnRow(call[r], rows[k], change_log, k)
      /\ OrdersInv
  BY <1>1, SetupAt
<1>3. /\ MovesOn(r) /\ call'[r].n = call[r].n + 1
      /\ call'[r].failed = (call[r].failed \/ FALSE)
      /\ call'[r].pc \in {"entitle", "look"} /\ Handling(call'[r])
      /\ call[r].n + 1 \in DOMAIN BOOTSTRAP
  BY <1>1, NextStepKeeps
<1>4. what \in Demo
  BY <1>3, BootstrapIs DEF StepOf
<1>5. ASSUME Converging(r) PROVE Converging(r)'
  <2>1. ASSUME NEW i \in 1 .. call'[r].n
        PROVE  BOOTSTRAP[i].makes \in objects' /\ (BOOTSTRAP[i].makes = "policy" => enabled')
    <3>1. i \in 1 .. call[r].n \/ i = call[r].n + 1
      BY <1>3 DEF RuleType
    <3>2. QED
      BY <1>1, <1>5, <3>1 DEF Converging, StepOf
  <2>2. QED
    BY <1>3, <2>1 DEF Converging
<1> HIDE DEF what
<1>6. Elsewhere(r)
  BY <1>1, <1>3 DEF Elsewhere
<1>7. OrdersInv'
  <2>1. ASSUME k \notin blurred'
        PROVE  /\ orders' <= 1 /\ (orders' > 0 => "seed" \in objects')
               /\ \A o \in Request :
                    At(o, "setup", "act")' /\ StepOf(o)'.makes = "seed" => "seed" \notin objects'
    <3>1. /\ orders <= 1 /\ (orders > 0 => "seed" \in objects)
          /\ what = "seed" => "seed" \notin objects
      BY <1>1, <1>2, <2>1 DEF OrdersInv, At, what
    <3>2. orders' <= 1 /\ (orders' > 0 => "seed" \in objects')
      BY <1>1, <1>2, <3>1
    <3>3. \A o \in Request : AboutRow(o, k) => o = r
      BY <1>1, <1>2, <2>1 DEF TrailInv, Alone, AboutRow
    <3>4. ASSUME NEW o \in Request, At(o, "setup", "act")' PROVE FALSE
      <4>1. o # r
        BY <1>3, <3>4 DEF At
      <4>2. call'[o] = call[o]
        BY <1>3, <4>1 DEF MovesOn
      <4>3. AboutRow(o, k)
        BY <3>4, <4>2 DEF At, AboutRow, Running, Key, Rows
      <4>4. QED
        BY <3>3, <4>1, <4>3
    <3>5. QED
      BY <3>2, <3>4
  <2>2. QED
    BY <2>1 DEF OrdersInv
<1>8. k \notin blurred' => OwnRow(call'[r], rows'[k], change_log', k)
  BY <1>1, <1>2, <1>3 DEF OwnRow, RowStage
<1>9. /\ rows' \in [RowKey -> Nat] /\ change_log' \in Logs /\ orders' \in Nat /\ enabled' \in BOOLEAN
      /\ objects' \subseteq Demo /\ objects \subseteq objects' /\ (enabled => enabled')
      /\ rows[k] > 0 => rows'[k] > 0
  <2>1. enabled' \in BOOLEAN /\ (enabled => enabled')
    <3>1. CASE what = "policy"
      BY <1>1, <3>1
    <3>2. CASE what # "policy"
      BY <1>1, <1>2, <3>2
    <3>3. QED
      BY <3>1, <3>2
  <2>2. objects' \subseteq Demo /\ objects \subseteq objects'
    BY <1>1, <1>2, <1>4
  <2>3. /\ rows' \in [RowKey -> Nat] /\ change_log' \in Logs /\ orders' \in Nat
        /\ rows[k] > 0 => rows'[k] > 0
    BY <1>1, <1>2
  <2>4. QED
    BY <2>1, <2>2, <2>3
<1>10. ~call'[r].failed => ~call[r].failed
  BY <1>3
<1>11. QED
  BY <1>1, <1>3, <1>5, <1>6, <1>7, <1>8, <1>9, <1>10, SetupKeeps

LEMMA StepFailsTrail ==
    ASSUME RuleType, TrailInv, NEW r \in Request, StepFails(r) PROVE TrailInv'
<1> DEFINE k == <<Me, All>>
<1>1. /\ call[r].in.kind = "setup" /\ call[r].pc \in {"look", "act"} /\ Running(r) /\ NextStep(r, TRUE)
      /\ grants' = grants /\ rows' = rows /\ orders' = orders /\ enabled' = enabled
      /\ objects' = objects /\ undone' = undone /\ change_log' = change_log /\ blurred' = blurred
  BY DEF StepFails, At, Running, warehouse, history
<1>2. /\ k \in RowKey /\ change_log \in Logs /\ rows \in [RowKey -> Nat]
      /\ orders \in Nat /\ enabled \in BOOLEAN /\ objects \subseteq Demo
      /\ k \notin blurred => OwnRow(call[r], rows[k], change_log, k)
      /\ OrdersInv
  BY <1>1, SetupAt
<1>3. /\ MovesOn(r) /\ call'[r].failed
      /\ call'[r].pc \in {"entitle", "look"} /\ Handling(call'[r])
  BY <1>1, NextStepKeeps
<1>4. Elsewhere(r)
  BY <1>1, <1>3 DEF Elsewhere
<1>5. OrdersInv'
  BY <1>1, <1>2, <1>3, OrdersStay DEF At
<1>6. k \notin blurred' => OwnRow(call'[r], rows'[k], change_log', k)
  BY <1>1, <1>2, <1>3 DEF OwnRow, RowStage
<1>7. /\ rows' \in [RowKey -> Nat] /\ change_log' \in Logs /\ orders' \in Nat /\ enabled' \in BOOLEAN
      /\ objects' \subseteq Demo /\ objects \subseteq objects' /\ (enabled => enabled')
      /\ rows[k] > 0 => rows'[k] > 0
  BY <1>1, <1>2
<1>8. QED
  BY <1>1, <1>3, <1>4, <1>5, <1>6, <1>7, SetupKeeps

\* The list has been gone through: a setup entitles its operator and logs.
LEMMA LateStep ==
    ASSUME RuleType, TrailInv, NEW r \in Request, call[r].in.kind = "setup",
           call[r].pc \in {"entitle", "entitleMe", "logMe", "logRun"}, Running(r), MovesOn(r),
           call'[r].pc \in {"entitleMe", "logMe", "logRun", "ok"}, call'[r].n = call[r].n,
           objects' = objects, enabled' = enabled, orders' = orders
    PROVE  /\ Handling(call'[r]) /\ OrdersInv'
           /\ orders' \in Nat /\ enabled' \in BOOLEAN /\ objects' \subseteq Demo
           /\ objects \subseteq objects' /\ (enabled => enabled')
           /\ Converging(r) /\ (call'[r].pc \in {"logMe", "logRun", "ok"} => rows'[<<Me, All>>] > 0)
                => Converging(r)'
<1>1. Handling(call[r]) /\ OrdersInv /\ orders \in Nat /\ enabled \in BOOLEAN /\ objects \subseteq Demo
  BY SetupAt
<1>2. call[r].n = Len(BOOTSTRAP) /\ Len(BOOTSTRAP) \in Nat
  BY <1>1, BootstrapIs DEF Handling, SetupPc
<1>3. call'[r].in = call[r].in
  BY DEF MovesOn
<1>4. Handling(call'[r])
  BY <1>2, <1>3 DEF Handling, SetupPc, NoCall, Rows
<1>5. OrdersInv'
  BY <1>1, OrdersStay DEF At
<1>6. Converging(r) /\ (call'[r].pc \in {"logMe", "logRun", "ok"} => rows'[<<Me, All>>] > 0)
        => Converging(r)'
  BY DEF Converging
<1>7. QED
  BY <1>1, <1>4, <1>5, <1>6

LEMMA LookForMeTrail ==
    ASSUME RuleType, TrailInv, NEW r \in Request, LookForMe(r) PROVE TrailInv'
<1> DEFINE k == <<Me, All>>
           pc == IF rows[k] > 0 THEN "logRun" ELSE "entitleMe"
<1>1. /\ call[r].in.kind = "setup" /\ call[r].pc = "entitle" /\ Running(r) /\ Goto(r, pc)
      /\ grants' = grants /\ rows' = rows /\ orders' = orders /\ enabled' = enabled
      /\ objects' = objects /\ undone' = undone /\ change_log' = change_log /\ blurred' = blurred
  BY DEF LookForMe, At, Running, warehouse, history
<1>2. /\ k \in RowKey /\ change_log \in Logs /\ rows \in [RowKey -> Nat] /\ rows[k] \in Nat
      /\ k \notin blurred => OwnRow(call[r], rows[k], change_log, k)
  BY <1>1, SetupAt
<1>3. /\ pc \in Pc /\ pc \in {"logRun", "entitleMe"}
      /\ pc = "entitleMe" => rows[k] = 0
      /\ pc = "logRun" => rows[k] > 0
  BY <1>2 DEF Pc
<1> HIDE DEF pc
<1>4. /\ MovesOn(r) /\ call'[r].pc = pc /\ call'[r].n = call[r].n
      /\ call'[r].failed = call[r].failed
  BY <1>1, <1>3, GotoKeeps
<1>5. /\ Handling(call'[r]) /\ OrdersInv'
      /\ orders' \in Nat /\ enabled' \in BOOLEAN /\ objects' \subseteq Demo
      /\ objects \subseteq objects' /\ (enabled => enabled')
      /\ Converging(r) /\ (call'[r].pc \in {"logMe", "logRun", "ok"} => rows'[k] > 0)
            => Converging(r)'
  BY <1>1, <1>3, <1>4, LateStep
<1>6. Converging(r) => Converging(r)'
  BY <1>1, <1>3, <1>4, <1>5
<1>7. Elsewhere(r)
  BY <1>1, <1>4 DEF Elsewhere
<1>8. k \notin blurred' => OwnRow(call'[r], rows'[k], change_log', k)
  BY <1>1, <1>2, <1>3, <1>4 DEF OwnRow, RowStage
<1>9. rows' \in [RowKey -> Nat] /\ change_log' \in Logs /\ (rows[k] > 0 => rows'[k] > 0)
  BY <1>1, <1>2
<1>10. ~call'[r].failed => ~call[r].failed
  BY <1>4
<1>11. QED
  BY <1>1, <1>5, <1>6, <1>7, <1>8, <1>9, <1>10, SetupKeeps

LEMMA EntitleMeTrail ==
    ASSUME RuleType, TrailInv, NEW r \in Request, EntitleMe(r) PROVE TrailInv'
<1> DEFINE k == <<Me, All>>
<1>1. /\ call[r].in.kind = "setup" /\ call[r].pc = "entitleMe" /\ Running(r) /\ Goto(r, "logMe")
      /\ rows' = [rows EXCEPT ![k] = @ + 1]
      /\ grants' = grants /\ orders' = orders /\ enabled' = enabled
      /\ objects' = objects /\ undone' = undone /\ change_log' = change_log /\ blurred' = blurred
  BY DEF EntitleMe, At, Running, history
<1>2. /\ k \in RowKey /\ k = Key(call[r].in) /\ change_log \in Logs
      /\ rows \in [RowKey -> Nat] /\ rows[k] \in Nat
      /\ k \notin blurred => OwnRow(call[r], rows[k], change_log, k)
  BY <1>1, SetupAt
<1>3. /\ MovesOn(r) /\ call'[r].pc = "logMe" /\ call'[r].n = call[r].n
      /\ call'[r].failed = call[r].failed
  BY <1>1, GotoKeeps DEF Pc
<1> HIDE DEF k
<1>4. /\ rows' \in [RowKey -> Nat] /\ rows'[k] = rows[k] + 1
      /\ \A j \in RowKey \ {k} : rows'[j] = rows[j]
  BY <1>1, <1>2
<1>5. /\ Handling(call'[r]) /\ OrdersInv'
      /\ orders' \in Nat /\ enabled' \in BOOLEAN /\ objects' \subseteq Demo
      /\ objects \subseteq objects' /\ (enabled => enabled')
      /\ Converging(r) /\ (call'[r].pc \in {"logMe", "logRun", "ok"} => rows'[<<Me, All>>] > 0)
            => Converging(r)'
  BY <1>1, <1>3, LateStep
<1>6. Converging(r) => Converging(r)'
  BY <1>2, <1>4, <1>5 DEF k
<1>7. Elsewhere(r)
  BY <1>1, <1>2, <1>3, <1>4 DEF Elsewhere
<1>8. k \notin blurred' => OwnRow(call'[r], rows'[k], change_log', k)
  BY <1>1, <1>2, <1>3, <1>4 DEF OwnRow, RowStage
<1>9. change_log' \in Logs /\ (rows[k] > 0 => rows'[k] > 0)
  BY <1>1, <1>2, <1>4
<1>10. ~call'[r].failed => ~call[r].failed
  BY <1>3
<1>11. QED
  BY <1>1, <1>4, <1>5, <1>6, <1>7, <1>8, <1>9, <1>10, SetupKeeps DEF k

LEMMA EntitleFailsTrail ==
    ASSUME RuleType, TrailInv, NEW r \in Request, EntitleFails(r) PROVE TrailInv'
<1> DEFINE k == <<Me, All>>
<1>1. /\ call[r].in.kind = "setup" /\ call[r].pc \in {"entitle", "entitleMe"} /\ Running(r)
      /\ call' = [call EXCEPT ![r].pc = "logRun", ![r].failed = TRUE]
      /\ grants' = grants /\ rows' = rows /\ orders' = orders /\ enabled' = enabled
      /\ objects' = objects /\ undone' = undone /\ change_log' = change_log /\ blurred' = blurred
  BY DEF EntitleFails, At, Running, warehouse, history
<1>2. /\ k \in RowKey /\ change_log \in Logs /\ rows \in [RowKey -> Nat]
      /\ k \notin blurred => OwnRow(call[r], rows[k], change_log, k)
  BY <1>1, SetupAt
<1>3. /\ call' \in CallType /\ call'[r].in = call[r].in /\ call'[r].pc = "logRun"
      /\ call'[r].n = call[r].n /\ call'[r].failed
      /\ \A o \in Request \ {r} : call'[o] = call[o]
  BY <1>1 DEF RuleType, CallType, Pc
<1>4. MovesOn(r)
  BY <1>1, <1>3 DEF MovesOn
<1>5. /\ Handling(call'[r]) /\ OrdersInv'
      /\ orders' \in Nat /\ enabled' \in BOOLEAN /\ objects' \subseteq Demo
      /\ objects \subseteq objects' /\ (enabled => enabled')
  BY <1>1, <1>3, <1>4, LateStep
<1>6. Elsewhere(r)
  BY <1>1, <1>4 DEF Elsewhere
<1>7. k \notin blurred' => OwnRow(call'[r], rows'[k], change_log', k)
  BY <1>1, <1>2, <1>3 DEF OwnRow, RowStage
<1>8. rows' \in [RowKey -> Nat] /\ change_log' \in Logs /\ (rows[k] > 0 => rows'[k] > 0)
  BY <1>1, <1>2
<1>9. QED
  BY <1>1, <1>3, <1>5, <1>6, <1>7, <1>8, SetupKeeps

LEMMA LogMeTrail ==
    ASSUME RuleType, TrailInv, NEW r \in Request, LogMe(r) PROVE TrailInv'
<1> DEFINE k == <<Me, All>>
<1>1. /\ call[r].in.kind = "setup" /\ call[r].pc = "logMe" /\ Running(r) /\ Goto(r, "logRun")
      /\ change_log' = Append(change_log, MeLogged)
      /\ grants' = grants /\ rows' = rows /\ orders' = orders /\ enabled' = enabled
      /\ objects' = objects /\ undone' = undone /\ blurred' = blurred
  BY DEF LogMe, At, Running, history
<1>2. /\ k \in RowKey /\ k = Key(call[r].in) /\ change_log \in Logs /\ rows \in [RowKey -> Nat]
      /\ k \notin blurred => OwnRow(call[r], rows[k], change_log, k)
  BY <1>1, SetupAt
<1>3. /\ MovesOn(r) /\ call'[r].pc = "logRun" /\ call'[r].n = call[r].n
      /\ call'[r].failed = call[r].failed
  BY <1>1, GotoKeeps DEF Pc
<1>4. MeLogged \in Entries /\ MeLogged.key = k /\ MeLogged.action = "row-rule.add"
  BY DEF Entries, MeLogged
<1>5. /\ Handling(call'[r]) /\ OrdersInv'
      /\ orders' \in Nat /\ enabled' \in BOOLEAN /\ objects' \subseteq Demo
      /\ objects \subseteq objects' /\ (enabled => enabled')
      /\ Converging(r) /\ (call'[r].pc \in {"logMe", "logRun", "ok"} => rows'[k] > 0)
            => Converging(r)'
  BY <1>1, <1>3, LateStep
<1>6. Converging(r) => Converging(r)'
  BY <1>1, <1>5 DEF Converging
<1> HIDE DEF k
<1>7. Elsewhere(r)
  BY <1>1, <1>2, <1>3, <1>4 DEF Elsewhere
<1>8. change_log' \in Logs
  <2>1. change_log \in Seq(Entries)
    BY <1>2 DEF Logs, Entries
  <2>2. QED
    BY <1>1, <1>4, <2>1 DEF Logs, Entries
<1>9. ASSUME k \notin blurred' PROVE OwnRow(call'[r], rows'[k], change_log', k)
  <2>1. rows[k] <= 1 /\ rows[k] > 0
    BY <1>1, <1>2, <1>9 DEF OwnRow, RowStage
  <2>2. RowMatches(change_log', k, rows'[k])
    BY <1>1, <1>2, <1>4, <2>1, EntryMatches
  <2>3. QED
    BY <1>1, <1>3, <2>1, <2>2 DEF OwnRow, RowStage
<1>10. rows' \in [RowKey -> Nat] /\ (rows[k] > 0 => rows'[k] > 0)
  BY <1>1, <1>2
<1>11. ~call'[r].failed => ~call[r].failed
  BY <1>3
<1>12. QED
  BY <1>1, <1>5, <1>6, <1>7, <1>8, <1>9, <1>10, <1>11, SetupKeeps DEF k

LEMMA LogRunTrail ==
    ASSUME RuleType, TrailInv, NEW r \in Request, LogRun(r) PROVE TrailInv'
<1> DEFINE k == <<Me, All>>
<1>1. /\ call[r].in.kind = "setup" /\ call[r].pc = "logRun" /\ Running(r) /\ Goto(r, "ok")
      /\ change_log' = Append(change_log, RunLogged)
      /\ grants' = grants /\ rows' = rows /\ orders' = orders /\ enabled' = enabled
      /\ objects' = objects /\ undone' = undone /\ blurred' = blurred
  BY DEF LogRun, At, Running, history
<1>2. /\ k \in RowKey /\ k = Key(call[r].in) /\ change_log \in Logs /\ rows \in [RowKey -> Nat]
      /\ k \notin blurred => OwnRow(call[r], rows[k], change_log, k)
  BY <1>1, SetupAt
<1>3. /\ MovesOn(r) /\ call'[r].pc = "ok" /\ call'[r].n = call[r].n
      /\ call'[r].failed = call[r].failed
  BY <1>1, GotoKeeps DEF Pc
<1>4. RunLogged \in Entries /\ RunLogged.key = <<>>
  BY DEF Entries, RunLogged
<1>5. /\ Handling(call'[r]) /\ OrdersInv'
      /\ orders' \in Nat /\ enabled' \in BOOLEAN /\ objects' \subseteq Demo
      /\ objects \subseteq objects' /\ (enabled => enabled')
      /\ Converging(r) /\ (call'[r].pc \in {"logMe", "logRun", "ok"} => rows'[k] > 0)
            => Converging(r)'
  BY <1>1, <1>3, LateStep
<1>6. Converging(r) => Converging(r)'
  BY <1>1, <1>5 DEF Converging
<1> HIDE DEF k
<1>7. Elsewhere(r)
  BY <1>1, <1>3, <1>4 DEF Elsewhere
<1>8. change_log \in Seq(Entries) /\ change_log' \in Logs
  <2>1. change_log \in Seq(Entries)
    BY <1>2 DEF Logs, Entries
  <2>2. QED
    BY <1>1, <1>4, <2>1 DEF Logs, Entries
<1>9. ASSUME k \notin blurred' PROVE OwnRow(call'[r], rows'[k], change_log', k)
  <2>1. rows[k] <= 1 /\ RowMatches(change_log, k, rows[k])
    BY <1>1, <1>2, <1>9 DEF OwnRow
  <2>2. RunLogged.key # k
    BY <1>2, <1>4, KeysDiffer
  <2>3. RowMatches(change_log', k, rows'[k])
    BY <1>1, <1>4, <1>8, <2>1, <2>2, MatchStays
  <2>4. QED
    BY <1>1, <1>3, <2>1, <2>3 DEF OwnRow, RowStage
<1>10. rows' \in [RowKey -> Nat] /\ (rows[k] > 0 => rows'[k] > 0)
  BY <1>1, <1>2
<1>11. ~call'[r].failed => ~call[r].failed
  BY <1>3
<1>12. QED
  BY <1>1, <1>5, <1>6, <1>7, <1>8, <1>9, <1>10, <1>11, SetupKeeps DEF k

LEMMA LogFailsTrail ==
    ASSUME RuleType, TrailInv, NEW r \in Request, LogFails(r) PROVE TrailInv'
<1> DEFINE k == <<Me, All>>
<1>1. /\ call[r].in.kind = "setup" /\ call[r].pc \in {"logMe", "logRun"} /\ Running(r)
      /\ call' = [call EXCEPT ![r].pc = "ok", ![r].failed = TRUE]
      /\ blurred' = IF call[r].pc = "logMe" THEN blurred \cup {k} ELSE blurred
      /\ grants' = grants /\ rows' = rows /\ orders' = orders /\ enabled' = enabled
      /\ objects' = objects /\ undone' = undone /\ change_log' = change_log
  BY DEF LogFails, At, Running, warehouse
<1>2. /\ k \in RowKey /\ change_log \in Logs /\ rows \in [RowKey -> Nat]
      /\ k \notin blurred => OwnRow(call[r], rows[k], change_log, k)
  BY <1>1, SetupAt
<1>3. /\ call' \in CallType /\ call'[r].in = call[r].in /\ call'[r].pc = "ok"
      /\ call'[r].n = call[r].n /\ call'[r].failed
      /\ \A o \in Request \ {r} : call'[o] = call[o]
  BY <1>1 DEF RuleType, CallType, Pc
<1>4. MovesOn(r)
  BY <1>1, <1>3 DEF MovesOn
<1>5. /\ Handling(call'[r]) /\ OrdersInv'
      /\ orders' \in Nat /\ enabled' \in BOOLEAN /\ objects' \subseteq Demo
      /\ objects \subseteq objects' /\ (enabled => enabled')
  BY <1>1, <1>3, <1>4, LateStep
<1>6. Elsewhere(r)
  BY <1>1, <1>4 DEF Elsewhere
<1>7. k \notin blurred' => OwnRow(call'[r], rows'[k], change_log', k)
  BY <1>1, <1>2, <1>3 DEF OwnRow, RowStage
<1>8. rows' \in [RowKey -> Nat] /\ change_log' \in Logs /\ (rows[k] > 0 => rows'[k] > 0)
  BY <1>1, <1>2
<1>9. QED
  BY <1>1, <1>3, <1>5, <1>6, <1>7, <1>8, SetupKeeps

-------------------------------------------------------------------------------
(* Calls begin and are cut; the warehouse's administrators *)

LEMMA CutTrail ==
    ASSUME RuleType, TrailInv, NEW r \in Request, Cut(r) PROVE TrailInv'
<1>1. /\ Running(r) /\ Goto(r, "failed") /\ blurred' = blurred \cup {Key(call[r].in)}
      /\ grants' = grants /\ rows' = rows /\ orders' = orders /\ enabled' = enabled
      /\ objects' = objects /\ undone' = undone /\ change_log' = change_log
  BY DEF Cut, warehouse
<1>2. MovesOn(r) /\ call'[r].in = call[r].in /\ call'[r].pc = "failed" /\ call'[r].n = call[r].n
  BY <1>1, GotoKeeps DEF Pc
<1>3. Elsewhere(r)
  BY <1>1, <1>2 DEF Elsewhere
<1>4. /\ Handling(call[r]) /\ change_log' \in Logs /\ rows' \in [RowKey -> Nat]
      /\ OrdersInv /\ SetupInv
  BY <1>1 DEF TrailInv, TrailType
<1>5. /\ call[r].in # NoCall
      /\ call[r].in.kind = "push" \/ call[r].in.kind \in Rows \/ call[r].in.kind = "setup"
  BY <1>1, <1>4, InputIs DEF Handling, Running
<1>6. Handling(call'[r])
  BY <1>2, <1>4, <1>5 DEF Handling, PushPc, RowPc, SetupPc, NoCall, Rows
<1>7. CASE IsPush(r)
  <2>1. Key(call[r].in) = <<call[r].in.user>>
    BY <1>7 DEF IsPush, Key, Rows
  <2>2. <<call[r].in.user>> \in blurred'
    BY <1>1, <2>1
  <2>3. QED
    BY <1>1, <1>3, <1>4, <1>6, <1>7, <2>2, PushKeeps
<1>8. CASE call[r].in.kind \in Rows
  <2>1. Key(call[r].in) \in blurred'
    BY <1>1
  <2>2. QED
    BY <1>1, <1>3, <1>4, <1>6, <1>8, <2>1, RowRuleKeeps
<1>9. CASE call[r].in.kind = "setup"
  <2>1. /\ <<Me, All>> \in blurred' /\ orders' \in Nat /\ enabled' \in BOOLEAN /\ objects' \subseteq Demo
    BY <1>1, <1>9, SetupAt
  <2>2. OrdersInv'
    BY <2>1 DEF OrdersInv
  <2>3. Converging(r) => Converging(r)'
    BY <1>1, <1>2 DEF Converging
  <2>4. ~call'[r].failed => ~call[r].failed
    BY <1>1 DEF Goto, RuleType
  <2>5. QED
    BY <1>1, <1>3, <1>4, <1>6, <1>9, <2>1, <2>2, <2>3, <2>4, SetupKeeps
<1>10. QED
  BY <1>5, <1>7, <1>8, <1>9 DEF IsPush

\* A call that begins finds what it is about as the last one left it, or
\* blurs it.
LEMMA BeginTrail ==
    ASSUME RuleType, TrailInv, NEW r \in Request, Begin(r) PROVE TrailInv'
<1> DEFINE First(in) == CASE in.kind = "push" -> "principal"
                          [] in.kind \in Rows -> "region" [] OTHER -> "look"
<1>1. PICK in \in Call(r) :
        /\ call' = [call EXCEPT ![r].in = in, ![r].pc = First(in)]
        /\ blurred' = IF Overlapping(in) THEN blurred \cup {Key(in)} ELSE blurred
  BY DEF Begin
<1>2. /\ call[r].pc = "idle"
      /\ grants' = grants /\ rows' = rows /\ orders' = orders /\ enabled' = enabled
      /\ objects' = objects /\ undone' = undone /\ change_log' = change_log
  BY DEF Begin, warehouse
<1>3. /\ \/ in.kind = "push" /\ in.user \in User /\ Key(in) = <<in.user>>
         \/ in.kind \in Rows /\ Key(in) \in RowKey
         \/ in.kind = "setup" /\ Key(in) = <<Me, All>>
      /\ in # NoCall
  BY ConsoleAssumption DEF Rows, Key, RowKey, NoCall
<1>4. PICK pc : pc = First(in)
  OBVIOUS
<1>5. /\ in.kind = "push" => pc = "principal"
      /\ in.kind \in Rows => pc = "region"
      /\ in.kind = "setup" => pc = "look"
      /\ pc \in {"principal", "region", "look"}
  BY <1>3, <1>4 DEF Rows
<1>6. call' = [call EXCEPT ![r].in = in, ![r].pc = pc]
  BY <1>1, <1>4
<1> HIDE DEF First
<1>7. /\ call'[r].in = in /\ call'[r].pc = pc /\ call'[r].n = call[r].n
      /\ \A o \in Request \ {r} : call'[o] = call[o]
  BY <1>6 DEF RuleType
<1>8. /\ call[r].in = NoCall /\ call[r].n = 0 /\ TrailType /\ ~Running(r)
  BY <1>2 DEF TrailInv, TrailType, Handling, Running
<1>9. blurred \subseteq blurred' /\ (Key(in) \notin blurred' => ~Overlapping(in))
  BY <1>1
<1>10. Handling(call'[r])
  BY <1>3, <1>5, <1>7, <1>8, BootstrapIs DEF Handling, PushPc, RowPc, SetupPc, NoCall, Rows
<1>11. r \notin Setups /\ Setups \subseteq Setups'
  BY <1>7, <1>8 DEF Setups, NoCall
<1>12. TrailType'
  <2>1. \A o \in Request : Handling(call'[o])
    BY <1>7, <1>8, <1>10 DEF TrailType
  <2>2. undone' \subseteq Setups'
    BY <1>2, <1>8, <1>11 DEF TrailType
  <2>3. QED
    BY <1>2, <1>8, <2>1, <2>2 DEF TrailType
<1>13. Alone'
  <2>1. \A o \in Request \ {r} : (Running(o)' <=> Running(o)) /\ call'[o].in = call[o].in
    BY <1>7 DEF Running
  <2>2. Key(in) \notin blurred' => \A o \in Request \ {r} : Running(o) => Key(call[o].in) # Key(in)
    BY <1>9 DEF Overlapping
  <2>3. QED
    BY <1>7, <1>9, <2>1, <2>2 DEF Alone, TrailInv
<1>14. ASSUME NEW u \in User PROVE UserInv(u)'
  <2>1. \A o \in Request \ {r} : call'[o] = call[o] /\ (Pushing(o, u)' <=> Pushing(o, u))
    BY <1>7 DEF Pushing, IsPush, Running
  <2>2. Pushing(r, u)' => call'[r].pc = "principal"
    BY <1>5, <1>7 DEF Pushing, IsPush
  <2>3. ~Pushing(r, u)
    BY <1>8 DEF Pushing
  <2>4. ASSUME <<u>> \notin blurred'
        PROVE  /\ \A o \in Request : Pushing(o, u) => PushStage(call[o], grants[u])
               /\ (\A o \in Request : Pushing(o, u) => call[o].pc \in {"principal", "revoke"}) =>
                    ColumnsMatch(change_log, u, grants[u])
    BY <1>9, <2>4 DEF TrailInv, UserInv
  <2>5. PushStage(call'[r], grants[u]) \/ ~Pushing(r, u)'
    BY <2>2 DEF PushStage
  <2>6. ASSUME <<u>> \notin blurred'
        PROVE  /\ \A o \in Request : Pushing(o, u)' => PushStage(call'[o], grants'[u])
               /\ (\A o \in Request : Pushing(o, u)' => call'[o].pc \in {"principal", "revoke"}) =>
                    ColumnsMatch(change_log', u, grants'[u])
    BY <1>2, <2>1, <2>3, <2>4, <2>5, <2>6
  <2>7. QED
    BY <2>6 DEF UserInv
<1>15. ASSUME NEW k \in RowKey PROVE RowInv(k)'
  <2>1. \A o \in Request \ {r} : call'[o] = call[o] /\ (AboutRow(o, k)' <=> AboutRow(o, k))
    BY <1>7 DEF AboutRow, Running
  <2>2. call'[r].pc \notin {"log", "logMe", "insert", "entitleMe"}
    BY <1>5, <1>7
  <2>3. ~AboutRow(r, k) /\ RowStage(call'[r], rows[k])
    BY <1>8, <2>2 DEF AboutRow, RowStage
  <2>4. ASSUME k \notin blurred'
        PROVE  /\ rows[k] <= 1
               /\ \A o \in Request : AboutRow(o, k) => RowStage(call[o], rows[k])
               /\ (\A o \in Request : AboutRow(o, k) => call[o].pc \notin {"log", "logMe"}) =>
                    RowMatches(change_log, k, rows[k])
    BY <1>9, <2>4 DEF TrailInv, RowInv
  <2>5. ASSUME k \notin blurred'
        PROVE  /\ rows'[k] <= 1
               /\ \A o \in Request : AboutRow(o, k)' => RowStage(call'[o], rows'[k])
               /\ (\A o \in Request : AboutRow(o, k)' => call'[o].pc \notin {"log", "logMe"}) =>
                    RowMatches(change_log', k, rows'[k])
    BY <1>2, <2>1, <2>2, <2>3, <2>4, <2>5
  <2>6. QED
    BY <2>5 DEF RowInv
<1>16. OrdersInv'
  <2>1. ~At(r, "setup", "act")'
    BY <1>5, <1>7 DEF At
  <2>2. \A o \in Request \ {r} :
          (At(o, "setup", "act")' <=> At(o, "setup", "act")) /\ StepOf(o)' = StepOf(o)
    BY <1>7 DEF At, StepOf
  <2>3. QED
    BY <1>2, <1>9, <2>1, <2>2 DEF TrailInv, OrdersInv
<1>17. SetupInv'
  <2>1. ASSUME NEW o \in Setups' \ undone', ~call'[o].failed PROVE Converging(o)'
    <3>1. CASE o = r
      BY <1>3, <1>5, <1>7, <1>8, <2>1, <3>1 DEF Converging, Setups, Rows
    <3>2. CASE o # r
      <4>1. call'[o] = call[o] /\ o \in Setups \ undone
        BY <1>2, <1>7, <2>1, <3>2 DEF Setups
      <4>2. Converging(o)
        BY <2>1, <4>1 DEF TrailInv, SetupInv
      <4>3. QED
        BY <1>2, <4>1, <4>2 DEF Converging
    <3>3. QED
      BY <3>1, <3>2
  <2>2. QED
    BY <2>1 DEF SetupInv
<1>18. QED
  BY <1>12, <1>13, <1>14, <1>15, <1>16, <1>17 DEF TrailInv

\* Nothing happens to calls, rules and rows.
LEMMA CallsStay ==
    ASSUME TrailInv, call' = call, grants' = grants, rows' = rows, change_log' = change_log,
           blurred' = blurred
    PROVE  /\ Alone' /\ (\A u \in User : UserInv(u)') /\ (\A k \in RowKey : RowInv(k)')
           /\ Setups' = Setups
<1>1. Alone' /\ Setups' = Setups
  BY DEF TrailInv, Alone, Running, Setups
<1>2. ASSUME NEW u \in User PROVE UserInv(u)'
  <2>1. UserInv(u)
    BY DEF TrailInv
  <2>2. QED
    BY <2>1 DEF UserInv, Pushing, IsPush, Running
<1>3. ASSUME NEW k \in RowKey PROVE RowInv(k)'
  <2>1. RowInv(k)
    BY DEF TrailInv
  <2>2. QED
    BY <2>1 DEF RowInv, AboutRow, Running
<1>4. QED
  BY <1>1, <1>2, <1>3

LEMMA PolicyOffTrail == ASSUME TrailInv, PolicyOff PROVE TrailInv'
<1>1. /\ call' = call /\ grants' = grants /\ rows' = rows /\ change_log' = change_log
      /\ blurred' = blurred /\ orders' = orders /\ objects' = objects
      /\ undone' = Setups /\ enabled' = FALSE
  BY DEF PolicyOff
<1>2. /\ Alone' /\ (\A u \in User : UserInv(u)') /\ (\A k \in RowKey : RowInv(k)')
      /\ Setups' = Setups
  BY <1>1, CallsStay
<1>3. TrailType' /\ OrdersInv' /\ SetupInv'
  <2>1. TrailType'
    BY <1>1, <1>2 DEF TrailInv, TrailType
  <2>2. OrdersInv'
    BY <1>1 DEF TrailInv, OrdersInv, At, StepOf
  <2>3. SetupInv'
    BY <1>1, <1>2 DEF SetupInv
  <2>4. QED
    BY <2>1, <2>2, <2>3
<1>4. QED
  BY <1>2, <1>3 DEF TrailInv

LEMMA NothingTrail ==
    ASSUME TrailInv, UNCHANGED <<grants, rows, objects, enabled, orders, change_log, call, history>>
    PROVE  TrailInv'
<1>1. /\ call' = call /\ grants' = grants /\ rows' = rows /\ change_log' = change_log
      /\ blurred' = blurred /\ orders' = orders /\ objects' = objects
      /\ undone' = undone /\ enabled' = enabled
  BY DEF history
<1>2. /\ Alone' /\ (\A u \in User : UserInv(u)') /\ (\A k \in RowKey : RowInv(k)')
      /\ Setups' = Setups
  BY <1>1, CallsStay
<1>3. TrailType' /\ OrdersInv' /\ SetupInv'
  <2>1. TrailType'
    BY <1>1, <1>2 DEF TrailInv, TrailType
  <2>2. OrdersInv'
    BY <1>1 DEF TrailInv, OrdersInv, At, StepOf
  <2>3. SetupInv'
    BY <1>1, <1>2 DEF TrailInv, SetupInv, Converging
  <2>4. QED
    BY <2>1, <2>2, <2>3
<1>4. QED
  BY <1>2, <1>3 DEF TrailInv

-------------------------------------------------------------------------------
(* The invariant *)

\* The trail of a warehouse that a setup has prepared.
LEMMA DemoTrail ==
    /\ \A u : ~Named(<<MeLogged, RunLogged>>, <<u>>)
    /\ LastAt(<<MeLogged, RunLogged>>, <<Me, All>>, 1)
    /\ \A k \in RowKey : k # <<Me, All>> => ~Named(<<MeLogged, RunLogged>>, k)
<1> DEFINE log == <<MeLogged, RunLogged>>
<1>1. DOMAIN log = {1, 2} /\ log[1] = MeLogged /\ log[2] = RunLogged
  OBVIOUS
<1>2. MeLogged.key = <<Me, All>> /\ RunLogged.key = <<>>
  BY DEF MeLogged, RunLogged
<1> HIDE DEF log
<1>3. /\ \A u : <<u>> # MeLogged.key /\ <<u>> # RunLogged.key
      /\ \A k \in RowKey : k # RunLogged.key
      /\ MeLogged.key \in RowKey
  BY <1>2, KeysDiffer
<1>4. \A u : ~Named(log, <<u>>)
  BY <1>1, <1>3 DEF Named
<1>5. LastAt(log, <<Me, All>>, 1)
  BY <1>1, <1>2, <1>3 DEF LastAt
<1>6. \A k \in RowKey : k # <<Me, All>> => ~Named(log, k)
  BY <1>1, <1>2, <1>3 DEF Named
<1>7. QED
  BY <1>4, <1>5, <1>6 DEF log

LEMMA InitTrail == Init => TrailInv
<1> SUFFICES ASSUME Init PROVE TrailInv
  OBVIOUS
<1>1. PICK demo \in BOOLEAN :
        /\ grants = [u \in User |-> {}]
        /\ rows = [k \in RowKey |-> IF demo /\ k = <<Me, All>> THEN 1 ELSE 0]
        /\ objects = IF demo THEN Demo ELSE {}
        /\ enabled = demo /\ orders = IF demo THEN 1 ELSE 0
        /\ change_log = IF demo THEN <<MeLogged, RunLogged>> ELSE <<>>
        /\ call = [r \in Request |-> [in |-> NoCall, pc |-> "idle", read |-> {},
                                      n |-> 0, failed |-> FALSE]]
        /\ undone = {}
  BY DEF Init, RowKey
<1>2. \A r \in Request : call[r].in = NoCall /\ call[r].pc = "idle" /\ call[r].n = 0
  BY <1>1
<1>3. NoCall.kind = "none"
  BY DEF NoCall
<1>4. \A r \in Request : ~Running(r) /\ Handling(call[r])
  BY <1>2, <1>3 DEF Running, Handling, Rows
<1>5. Setups = {}
  BY <1>2, <1>3 DEF Setups
<1>6. /\ rows \in [RowKey -> Nat] /\ orders \in Nat /\ enabled \in BOOLEAN
      /\ objects \subseteq Demo /\ orders <= 1 /\ (orders > 0 => demo)
  BY <1>1
<1>7. change_log \in Logs
  <2>1. MeLogged \in Entries /\ RunLogged \in Entries
    BY DEF Entries
  <2>2. <<MeLogged, RunLogged>> \in Seq(Entries) /\ <<>> \in Seq(Entries)
    BY <2>1
  <2>3. QED
    BY <1>1, <2>2 DEF Logs, Entries
<1>8. TrailType
  BY <1>1, <1>4, <1>5, <1>6, <1>7 DEF TrailType
<1>9. Alone
  BY <1>4 DEF Alone
<1>10. ASSUME NEW u \in User PROVE UserInv(u)
  <2>1. grants[u] = {} /\ Visible(grants[u]) = {}
    BY <1>1 DEF Visible
  <2>2. ~Named(change_log, <<u>>)
    <3>1. CASE demo
      BY <1>1, <3>1, DemoTrail
    <3>2. CASE ~demo
      BY <1>1, <3>2 DEF Named
    <3>3. QED
      BY <3>1, <3>2
  <2>3. ColumnsMatch(change_log, u, grants[u])
    BY <2>1, <2>2 DEF ColumnsMatch
  <2>4. QED
    BY <1>4, <2>3 DEF UserInv, Pushing
<1>11. ASSUME NEW k \in RowKey PROVE RowInv(k)
  <2>1. RowMatches(change_log, k, rows[k])
    <3>1. CASE demo /\ k = <<Me, All>>
      <4>1. rows[k] = 1 /\ LastAt(change_log, k, 1) /\ change_log[1] = MeLogged
        BY <1>1, <3>1, DemoTrail
      <4>2. 1 \in DOMAIN change_log /\ change_log[1].key = k
        BY <4>1 DEF LastAt
      <4>3. Named(change_log, k) /\ change_log[1].action = "row-rule.add"
        BY <4>1, <4>2 DEF Named, MeLogged
      <4>4. QED
        BY <4>1, <4>2, <4>3 DEF RowMatches
    <3>2. CASE demo /\ k # <<Me, All>>
      <4>1. rows[k] = 0 /\ ~Named(change_log, k)
        BY <1>1, <3>2, DemoTrail
      <4>2. QED
        BY <4>1 DEF RowMatches
    <3>3. CASE ~demo
      <4>1. rows[k] = 0 /\ ~Named(change_log, k)
        BY <1>1, <3>3 DEF Named
      <4>2. QED
        BY <4>1 DEF RowMatches
    <3>4. QED
      BY <3>1, <3>2, <3>3
  <2>2. rows[k] <= 1
    BY <1>1
  <2>3. QED
    BY <1>4, <2>1, <2>2 DEF RowInv, AboutRow
<1>12. OrdersInv
  <2>1. orders > 0 => "seed" \in objects
    <3>1. "seed" \in Demo
      <4>1. 5 \in DOMAIN BOOTSTRAP /\ BOOTSTRAP[5].makes = "seed"
        BY DEF BOOTSTRAP, Makes
      <4>2. QED
        BY <4>1 DEF Demo
    <3>2. QED
      BY <1>1, <1>6, <3>1
  <2>2. QED
    BY <1>2, <1>6, <2>1 DEF OrdersInv, At
<1>13. SetupInv
  BY <1>5 DEF SetupInv
<1>14. QED
  BY <1>8, <1>9, <1>10, <1>11, <1>12, <1>13 DEF TrailInv

LEMMA LogChangeTrail ==
    ASSUME RuleType, TrailInv, NEW r \in Request, LogChange(r) PROVE TrailInv'
<1>1. call[r].pc = "log" /\ Handling(call[r])
  BY DEF LogChange, TrailInv, TrailType
<1>2. call[r].in # NoCall /\ call[r].in.kind # "setup"
  BY <1>1 DEF Handling, SetupPc
<1>3. IsPush(r) \/ call[r].in.kind \in Rows
  BY <1>2, InputIs DEF IsPush
<1>4. QED
  BY <1>3, LogPushTrail, LogRowTrail

LEMMA NextKeepsTrail ==
    ASSUME RuleType, TrailInv, [Next]_vars
    PROVE  TrailInv'
<1>1. CASE UNCHANGED vars \/ \E u \in User : Share(u)
  <2>1. UNCHANGED <<grants, rows, objects, enabled, orders, change_log, call, history>>
    BY <1>1 DEF vars, warehouse, Share
  <2>2. QED
    BY <2>1, NothingTrail
<1>2. CASE PolicyOff
  BY <1>2, PolicyOffTrail
<1>3. ASSUME NEW r \in Request, Begin(r) \/ Cut(r) PROVE TrailInv'
  BY <1>3, BeginTrail, CutTrail
<1>4. ASSUME NEW r \in Request,
             \/ CheckPrincipal(r) \/ RevokeObject(r) \/ ReadColumnGrants(r)
             \/ RevokeColumns(r) \/ Grant(r)
      PROVE  TrailInv'
  BY <1>4, CheckPrincipalTrail, RevokeObjectTrail, ReadColumnGrantsTrail, RevokeColumnsTrail, GrantTrail
<1>5. ASSUME NEW r \in Request,
             CheckRegion(r) \/ LookForRow(r) \/ InsertRow(r) \/ RemoveRow(r) \/ LogChange(r)
      PROVE  TrailInv'
  BY <1>5, CheckRegionTrail, LookForRowTrail, InsertRowTrail, RemoveRowTrail, LogChangeTrail
<1>6. ASSUME NEW r \in Request, StepLooks(r) \/ StepActs(r) \/ StepFails(r) PROVE TrailInv'
  BY <1>6, StepLooksTrail, StepActsTrail, StepFailsTrail
<1>7. ASSUME NEW r \in Request,
             \/ LookForMe(r) \/ EntitleMe(r) \/ EntitleFails(r)
             \/ LogMe(r) \/ LogRun(r) \/ LogFails(r)
      PROVE  TrailInv'
  BY <1>7, LookForMeTrail, EntitleMeTrail, EntitleFailsTrail, LogMeTrail, LogRunTrail, LogFailsTrail
<1>8. QED
  BY <1>1, <1>2, <1>3, <1>4, <1>5, <1>6, <1>7 DEF Next

\* Whatever calls run, and wherever they stop: a call that no other blurs finds
\* its user's columns, or its row, as its own statements left them, the newest
\* entry of gov.change_log tells what no call is about to change, and what a
\* setup has gone by without a failure is there until somebody undoes it.
THEOREM TrailInvariant == Spec => []TrailInv
<1>1. Init => TrailInv
  BY InitTrail
<1>2. RuleType /\ TrailInv /\ [Next]_vars => TrailInv'
  BY NextKeepsTrail
<1>3. Spec => [](RuleType /\ RuleInv)
  BY RuleInvariant
<1> QED BY <1>1, <1>2, <1>3, PTL DEF Spec

LEMMA TrailTells == ASSUME RuleType, TrailInv PROVE EvidenceMatches
<1>1. DOMAIN change_log \subseteq Nat /\ rows \in [RowKey -> Nat]
  BY DEF TrailInv, TrailType, Logs
<1>2. \A key : Logged(key) <=> Named(change_log, key)
  BY DEF Logged, Named
<1>3. ASSUME NEW u \in User, AtRest(<<u>>)
      PROVE  Visible(grants[u]) = IF Logged(<<u>>) THEN LastEntry(<<u>>).columns ELSE {}
  <2>1. \A r \in Request : ~Pushing(r, u)
    BY <1>3 DEF AtRest, Pushing, IsPush, Key, Rows
  <2>2. UserInv(u) /\ <<u>> \notin blurred
    BY <1>3 DEF TrailInv, AtRest
  <2>3. ColumnsMatch(change_log, u, grants[u])
    BY <2>1, <2>2 DEF UserInv
  <2>4. CASE ~Named(change_log, <<u>>)
    BY <1>2, <2>3, <2>4 DEF ColumnsMatch
  <2>5. CASE Named(change_log, <<u>>)
    <3>1. PICK i \in DOMAIN change_log :
            LastAt(change_log, <<u>>, i) /\ Visible(grants[u]) = change_log[i].columns
      BY <2>3, <2>5 DEF ColumnsMatch
    <3>2. LastEntry(<<u>>) = change_log[i]
      BY <1>1, <3>1, LastEntryIs
    <3>3. QED
      BY <1>2, <2>5, <3>1, <3>2
  <2>6. QED
    BY <2>4, <2>5
<1>4. ASSUME NEW k \in RowKey, AtRest(k)
      PROVE  rows[k] > 0 <=> Logged(k) /\ LastEntry(k).action = "row-rule.add"
  <2>1. \A r \in Request : ~AboutRow(r, k)
    BY <1>4 DEF AtRest, AboutRow
  <2>2. RowInv(k) /\ k \notin blurred
    BY <1>4 DEF TrailInv, AtRest
  <2>3. RowMatches(change_log, k, rows[k])
    BY <2>1, <2>2 DEF RowInv
  <2>4. CASE ~Named(change_log, k)
    BY <1>2, <2>3, <2>4 DEF RowMatches
  <2>5. CASE Named(change_log, k)
    <3>1. PICK i \in DOMAIN change_log :
            LastAt(change_log, k, i) /\ (rows[k] > 0 <=> change_log[i].action = "row-rule.add")
      BY <2>3, <2>5 DEF RowMatches
    <3>2. LastEntry(k) = change_log[i]
      BY <1>1, <3>1, LastEntryIs
    <3>3. QED
      BY <1>2, <2>5, <3>1, <3>2
  <2>6. QED
    BY <2>4, <2>5
<1>5. QED
  BY <1>1, <1>3, <1>4 DEF EvidenceMatches

\* The evidence trail (audit.js) tells what the warehouse enforces of every user
\* and row whose calls did not overlap and were not cut, however long the trail.
THEOREM EvidenceMatchesHolds == Spec => []EvidenceMatches
<1>1. RuleType /\ TrailInv => EvidenceMatches
  BY TrailTells
<1>2. Spec => [](RuleType /\ RuleInv)
  BY RuleInvariant
<1> QED BY <1>1, <1>2, TrailInvariant, PTL

LEMMA SetupsConverge == ASSUME TrailInv PROVE SetupConverges
<1>1. <<Me, All>> \notin blurred => orders <= 1 /\ rows[<<Me, All>>] <= 1
  <2>1. RowInv(<<Me, All>>) /\ OrdersInv
    BY KeysDiffer DEF TrailInv
  <2>2. QED
    BY <2>1 DEF RowInv, OrdersInv
<1>2. ASSUME NEW r \in Setups \ undone, call[r].pc = "ok", ~call[r].failed
      PROVE  objects = Demo /\ enabled /\ rows[<<Me, All>>] > 0
  <2>1. r \in Request /\ call[r].in.kind = "setup" /\ Handling(call[r]) /\ Converging(r)
    BY <1>2 DEF TrailInv, TrailType, SetupInv, Setups
  <2>2. call[r].n = Len(BOOTSTRAP)
    BY <1>2, <2>1 DEF Handling, SetupPc
  <2>3. \A i \in DOMAIN BOOTSTRAP :
          BOOTSTRAP[i].makes \in objects /\ (BOOTSTRAP[i].makes = "policy" => enabled)
    BY <2>1, <2>2, BootstrapIs DEF Converging
  <2>4. Demo \subseteq objects /\ enabled
    BY <2>3, BootstrapIs DEF Demo
  <2>5. objects \subseteq Demo
    BY DEF TrailInv, TrailType
  <2>6. rows[<<Me, All>>] > 0
    BY <1>2, <2>1 DEF Converging
  <2>7. QED
    BY <2>4, <2>5, <2>6
<1>3. QED
  BY <1>1, <1>2 DEF SetupConverges

\* The bootstrap (setup.js) is idempotent and convergent: setups that do not
\* overlap seed once and entitle once, and one that answers ok without a failure
\* leaves the whole demo with its policy on, wherever earlier ones were cut.
THEOREM SetupConvergesHolds == Spec => []SetupConverges
<1>1. TrailInv => SetupConverges
  BY SetupsConverge
<1> QED BY <1>1, TrailInvariant, PTL
===============================================================================
