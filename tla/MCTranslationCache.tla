-------------------------- MODULE MCTranslationCache --------------------------
(***************************************************************************)
(* Keys and requests for TranslationCache.                                 *)
(***************************************************************************)
EXTENDS TranslationCache, TLC

CONSTANTS r1, r2, c1, c2

MCRuns   == {r1, r2}
MCClears == {c1, c2}
Symmetry == Permutations(MCRuns) \cup Permutations(MCClears)

(* Two models, two prompts.                                                *)
KeyOf(m, p) == [model |-> m, prompt |-> p, head |-> "lupus"]
MCKeys == {KeyOf("fast", "now"), KeyOf("slow", "now"), KeyOf("fast", "before")}

(* Rejections by identity and id, by identity (with and without a limit)   *)
(* and by id; a maintenance clear of failed rows.                          *)
Args(k, fields, only, reason, limited) ==
    [id |-> k, fields |-> fields, only |-> only, reason |-> reason, limited |-> limited]
MCRequests ==
    {Args(k, {"id", "source", "head"}, Statuses, TRUE, TRUE) : k \in MCKeys}
    \cup {Args(KeyOf("fast", "now"), {"source"}, Statuses, TRUE, limited) :
             limited \in BOOLEAN}
    \cup {Args(KeyOf("fast", "now"), {"id"}, Statuses, TRUE, TRUE),
          Args(KeyOf("fast", "now"), {}, {"error"}, FALSE, FALSE)}
=============================================================================
