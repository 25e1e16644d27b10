------------------------------ MODULE MCReconcile ------------------------------
(***************************************************************************)
(* An instance of Reconcile for TLC.  `acme` is a mention the resolver     *)
(* does not know, with a title of the spine, `corp`, as its candidate.     *)
(* The first document relates acme and tsmc both ways; the second says of  *)
(* corp what the first says of acme, and relates acme to it.               *)
(***************************************************************************)
EXTENDS Reconcile, TLC

CONSTANTS acme, corp, tsmc, supplies, d1, d2, filer,
    nAcme, nCorp, nTsmc

Texts == [d \in Doc |-> IF d = d1 THEN <<acme>> ELSE <<corp>>]
Resolved == (acme :> None) @@ (corp :> filer) @@ (tsmc :> None)
Printed == [d \in Doc |-> [m \in Entity |-> None]]
Normal == (acme :> nAcme) @@ (corp :> nCorp) @@ (tsmc :> nTsmc)
ByLength == (acme :> 0) @@ (corp :> 1) @@ (tsmc :> 2)
Facts == [d \in Doc |->
            IF d = d1 THEN <<<<acme, supplies, tsmc>>, <<tsmc, supplies, acme>>>>
            ELSE <<<<corp, supplies, tsmc>>, <<acme, supplies, corp>>>>]
Titles == [m \in Entity |-> IF m = acme THEN {corp} ELSE {}]

\* Which analyst does what makes no difference.
Symmetry == Permutations(Analyst)
==============================================================================
