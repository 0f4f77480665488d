----------------------------- MODULE PlanDataflow -----------------------------
(***************************************************************************)
(* What a staged run promises, without batches, passes or threads: calls   *)
(* settle once, after everything they depend on, and whether a call is     *)
(* made or skipped follows from its source alone.  A run that gives up     *)
(* settles nothing further.                                                *)
(***************************************************************************)
CONSTANTS Calls, NoCall, Plans

VARIABLES
    plan,      \* the plan of the run; never changes
    served,    \* calls with a client or handler; never changes
    outcome,   \* open, made or skipped, for each call
    verdict    \* running, done or failed

vars == <<plan, served, outcome, verdict>>

IsOpen(c) == outcome[c] = "open"

Deps(c) == {d \in Calls : <<d, c>> \in plan.deps}

(* Sources settle before the calls that read them.                         *)
SourceMade(c) ==
    plan.stage[c] # "fetch" => plan.source[c] \in Calls /\ outcome[plan.source[c]] = "made"

Init ==
    /\ plan \in Plans
    /\ served \in SUBSET plan.calls
    /\ \E seeded \in SUBSET {c \in Calls : plan.stage[c] = "fetch"} :
          outcome = [c \in Calls |-> IF c \in seeded THEN "made" ELSE "open"]
    /\ verdict = "running"

(* Calls S settle together: skipped if optional and not to be had, else    *)
(* made from a source that was made.                                       *)
Settle(S) ==
    /\ verdict = "running"
    /\ S # {} /\ S \subseteq plan.calls
    /\ \A c \in S : IsOpen(c) /\ \A d \in Deps(c) : ~IsOpen(d)
    /\ \E made \in SUBSET S :
          /\ \A c \in made : c \in served /\ SourceMade(c)
          /\ \A c \in S \ made : c \in plan.optional /\ ~(c \in served /\ SourceMade(c))
          /\ outcome' = [c \in Calls |-> IF c \in made THEN "made"
                                         ELSE IF c \in S THEN "skipped" ELSE outcome[c]]
    /\ UNCHANGED <<plan, served, verdict>>

Finish ==
    /\ verdict = "running"
    /\ \A c \in plan.calls : ~IsOpen(c)
    /\ verdict' = "done"
    /\ UNCHANGED <<plan, served, outcome>>

(* A call raised, a required call cannot be had, or nothing can settle.    *)
Fail ==
    /\ verdict = "running"
    /\ verdict' = "failed"
    /\ UNCHANGED <<plan, served, outcome>>

Next == (\E S \in SUBSET plan.calls : Settle(S)) \/ Finish \/ Fail

Spec == Init /\ [][Next]_vars
=============================================================================
