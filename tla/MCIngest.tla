------------------------------- MODULE MCIngest -------------------------------
(***************************************************************************)
(* An instance of Ingest for TLC.  `tsmc` and `taiwan` are two names of    *)
(* one SEC filer; `acme` is a company the resolver does not know.  The     *)
(* first document says that acme is a subsidiary of the filer; the second  *)
(* doubtfully says so under the other name, and also that acme is a        *)
(* subsidiary of `birch`, a name it does not list as an entity.            *)
(***************************************************************************)
EXTENDS Ingest, TLC

CONSTANTS acme, tsmc, taiwan, birch, subsidiary, d1, d2, filer,
    nAcme, nTsmc, nTaiwan, nBirch, w1, w2, w3

Texts == [d \in Doc |-> IF d = d1 THEN <<tsmc, acme>> ELSE <<taiwan, acme>>]
Resolved == [m \in Entity |-> IF m \in {tsmc, taiwan} THEN filer ELSE None]
\* The second document's text gives the filer's CIK for acme.
Printed == [d \in Doc |-> [m \in Entity |-> IF d = d2 /\ m = acme THEN filer ELSE None]]
Normal == (acme :> nAcme) @@ (tsmc :> nTsmc) @@ (taiwan :> nTaiwan) @@ (birch :> nBirch)
ByLength == (acme :> 0) @@ (tsmc :> 1) @@ (birch :> 2) @@ (taiwan :> 3)
Facts == [d \in Doc |->
            IF d = d1 THEN <<<<acme, subsidiary, tsmc>>>>
            ELSE <<<<acme, subsidiary, taiwan>>, <<acme, subsidiary, birch>>>>]
\* Which upload does what makes no difference.
Symmetry == Permutations({w1, w2})
LowConfidence == {<<acme, subsidiary, taiwan>>}
==============================================================================
