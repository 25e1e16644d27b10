----------------------------- MODULE MCOnboarding -----------------------------
(***************************************************************************)
(* An instance of Onboarding for TLC: the demo firm and one more, which    *)
(* share the fund `growth`; the demo firm is itself an issuer that the     *)
(* fund `income` holds.                                                    *)
(***************************************************************************)
EXTENDS Onboarding

CONSTANTS demo, acme, s1, s2, growth, income

Slugs == [n \in Name |-> n]
Offered == [n \in Name |-> IF n = acme THEN <<s1, s2>> ELSE <<s1>>]
Filing == [s \in Series |-> IF s = s1 THEN growth ELSE income]
Portfolio == [f \in Fund |-> IF f = income THEN {demo} ELSE {}]
==============================================================================
