---------------------------- MODULE MCFirmRegistry ----------------------------
(***************************************************************************)
(* Instances of FirmRegistry for TLC.  A slug is written as one of the     *)
(* names it belongs to.                                                    *)
(***************************************************************************)
EXTENDS FirmRegistry

CONSTANTS acme, acmeInc, birch

\* Every name has a slug of its own.
DistinctSlugs == [n \in Name |-> n]

\* slugify("Acme Inc") = slugify("Acme, Inc."): two names, one primary key.
SharedSlug == [n \in Name |-> IF n = acmeInc THEN acme ELSE n]

\* The upsert_firm calls of onboarding/pipeline.py: it starts, it is ready.
PipelineUpserts ==
    {[status |-> "onboarding", funds |-> {}, activate |-> FALSE],
     [status |-> "ready", funds |-> Fund, activate |-> TRUE]}
==============================================================================
