------------------------- MODULE MCEntitlementConsole -------------------------
(* Two calls of any kind, which overlap or follow one another, and one that *)
(* takes the operator's own row away before, during or after a setup.       *)
EXTENDS EntitlementConsole

CONSTANTS me, ann, ssn, name, eu, r1, r2, r3

MCUser == {me, ann}
MCColumn == {ssn, name}
Pushes == {[kind |-> "push", user |-> ann, columns |-> c] : c \in {{}, {name}, MCColumn}}
AnnRows == [kind : Rows, user : {ann}, region : {eu}]
MeRows == {[kind |-> "row-rule.remove", user |-> me, region |-> All]}
Setup == {[kind |-> "setup"]}
MCCall(r) == CASE r = r1 -> Pushes \cup AnnRows \cup Setup
               [] r = r2 -> Pushes \cup AnnRows \cup Setup
               [] r = r3 -> MeRows
===============================================================================
