-------------------------- MODULE MCRateLimitRollup ---------------------------
(***************************************************************************)
(* Two servers that observe the same two keys.                             *)
(***************************************************************************)
EXTENDS RateLimitRollup, TLC

CONSTANTS s1, s2, k1, k2

=============================================================================
