----------------------------- MODULE MCEnrichment -----------------------------
(***************************************************************************)
(* An instance of Enrichment for TLC: four rows of holdings, one blank,    *)
(* and four of funds, one without a key and two under one registrant.      *)
(***************************************************************************)
EXTENDS Enrichment

CONSTANTS apple, intel, nvidia, cik1, cik2

HeldRows == <<apple, Blank, intel, nvidia>>
FundRows == <<NoKey, cik1, cik1, cik2>>
Requests == {-1, 0, 1, 5}
==============================================================================
