---------------------------- MODULE MCLookupCache -----------------------------
(***************************************************************************)
(* Lookups for LookupCache: two overlapping runs over one file that may    *)
(* hold what earlier ones left.                                            *)
(***************************************************************************)
EXTENDS LookupCache, TLC

CONSTANTS r1, r2

MCRuns == {r1, r2}
=============================================================================
