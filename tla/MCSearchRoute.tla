---------------------------- MODULE MCSearchRoute -----------------------------
(***************************************************************************)
(* Searches and retries of one word for SearchRoute.                       *)
(***************************************************************************)
EXTENDS SearchRoute

CONSTANTS r1, r2, c1, c2

MCKey == [model |-> "fast", prompt |-> "now", head |-> "lupus"]
MCKeys == {MCKey}

(* What the desk sends for a translation it shows.                         *)
MCRequests ==
    {[id |-> MCKey, fields |-> {"id", "source", "head"}, only |-> Statuses,
      reason |-> TRUE, limited |-> TRUE]}
=============================================================================
