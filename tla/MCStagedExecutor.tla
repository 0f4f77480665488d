--------------------------- MODULE MCStagedExecutor ---------------------------
(***************************************************************************)
(* Plans for StagedExecutor: what is left of a Greek plan under several    *)
(* tool filters, a plan that fetches again after an extraction, and plans  *)
(* that cannot finish.  The planner makes none of the latter.              *)
(***************************************************************************)
EXTENDS StagedExecutor, ToolPlanner, TLC

MCMaxVariants == 2
MCDicts == 1

MCCalls == Diogenes \X Steps \cup Chain(Surface \cup Cts)

CallOf(numbers, step) == CHOOSE c \in numbers \X {step} : TRUE
f1 == CallOf(Diogenes, "fetch")
x1 == CallOf(Diogenes, "extract")
d1 == CallOf(Diogenes, "derive")
c1 == CallOf(Diogenes, "claim")
f2 == CallOf(Surface, "fetch")
x2 == CallOf(Surface, "extract")
f3 == CallOf(Cts, "fetch")

(* The plan as far as it concerns the calls of the instance.               *)
Here(p) ==
    [p EXCEPT !.stage = [c \in MCCalls |-> @[c]], !.source = [c \in MCCalls |-> @[c]],
              !.optional = @ \cap MCCalls, !.pos = [c \in MCCalls |-> @[c]]]

Greek(surface) == Build([language |-> "grc", variants |-> 1, surface |-> surface], {})

Filtered(surface, Keeps(_)) ==
    Here(FilterPlanTools(Greek(surface), {t \in Tools : Keeps(t)}))

Filters ==
    {Filtered(FALSE, LAMBDA t : t[2] = "diogenes"), Filtered(TRUE, LAMBDA t : t[1] = "fetch"),
     Filtered(TRUE, LAMBDA t : t[1] = "extract"), Filtered(TRUE, LAMBDA t : t[2] = "cts_index")}

(* Two sources without the tails of their chains, and a third fetch.       *)
Kept(kept) == [Here(Greek(TRUE)) EXCEPT !.calls = kept, !.deps = @ \cap (kept \X kept)]
Sources == Kept({f1, x1, f2, x2, f3})

(* f2 needs the extraction x1; x2 is required and listed before f2, its    *)
(* source.                                                                 *)
RefetchOptional ==
    [Kept({f1, x1, f2, x2}) EXCEPT
        !.optional = MCCalls, !.deps = @ \cup {<<x1, f2>>},
        !.pos[x2] = 6 * f2[1] + Rank("fetch"), !.pos[f2] = 6 * f2[1] + Rank("extract")]
Refetch == [RefetchOptional EXCEPT !.optional = @ \ {x2}]

(* x1 and d1 wait for each other; c1 has a stage the executor rejects.     *)
Stuck == [Kept({f1, x1, d1}) EXCEPT !.deps = @ \cup {<<d1, x1>>}]
Unsupported ==
    [Kept({f1, c1}) EXCEPT
        !.deps = {<<f1, c1>>}, !.source[c1] = f1, !.stage[c1] = "unsupported"]

MCPlans == {Sources, Refetch, RefetchOptional, Stuck, Unsupported} \cup Filters

-----------------------------------------------------------------------------
(* Whole plans are too large to run, and small enough to look at: no       *)
(* required call is in want of a tool, and what nobody serves is the       *)
(* citations of a Greek parse and their lookup in the CTS index.           *)
SomeOptions == {{}, Options} \cup {{o} : o \in Options} \cup {Options \ {o} : o \in Options}
WholePlans == {Build(query, options) : query \in Queries, options \in SomeOptions}

ASSUME WholePlansServed ==
    \A p \in WholePlans :
        /\ \A c \in p.calls \ p.optional : Tool(c) \in HttpTools
        /\ \A c \in p.calls : p.stage[c] = "fetch" \/ Tool(c) \in Registered
              \/ c[2] \in {"derive_citation", "claim_citation"} \/ c[1] \in Cts
=============================================================================
