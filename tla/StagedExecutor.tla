---------------------------- MODULE StagedExecutor ----------------------------
(***************************************************************************)
(* One run of execute_plan_staged (src/langnet/execution/executor.py): a   *)
(* plan of tool calls goes through fetch, extract, derive and claim.       *)
(* Responses the plan index remembers are seeded first.  Then, until no    *)
(* call is pending, an iteration either fetches every ready fetch call in  *)
(* a thread pool or walks the pending calls once in plan order.            *)
(*                                                                         *)
(* Responses and effects are abstracted to the call they belong to: a      *)
(* handler makes at most one effect per call.  `served' holds the calls    *)
(* whose tool has a client (fetch) or a handler (the other stages).        *)
(* Operators named M_... are mutants: what the definition after them would *)
(* be with a bug.  Nothing in the specification uses them.                 *)
(***************************************************************************)
EXTENDS Naturals, FiniteSets

CONSTANTS
    Calls,        \* identifiers of calls
    NoCall,       \* the empty source_call_id
    Plans,        \* the plans a run may be given, tool filter applied
    MaxParallel   \* MAX_PARALLEL_FETCHES, the size of the fetch pool

Stages == {"fetch", "extract", "derive", "claim", "unsupported"}

PlanType ==
    [calls    : SUBSET Calls,
     stage    : [Calls -> Stages],
     source   : [Calls -> Calls \cup {NoCall}],
     optional : SUBSET Calls,
     deps     : SUBSET (Calls \X Calls),
     pos      : [Calls -> Nat]]

(* Calls have positions of their own; the source of every call but a fetch *)
(* is listed as a dependency; dependencies join plan calls.                *)
WellFormed(p) ==
    /\ p \in PlanType
    /\ \A c, d \in Calls : p.pos[c] = p.pos[d] => c = d
    /\ \A c \in p.calls :
          p.stage[c] # "fetch" /\ p.source[c] \in p.calls => <<p.source[c], c>> \in p.deps
    /\ p.deps \subseteq p.calls \X p.calls

ASSUME PlansAssumption ==
    /\ NoCall \notin Calls
    /\ MaxParallel \in Nat \ {0}
    /\ \A p \in Plans : WellFormed(p)

VARIABLES
    plan,                \* the plan of this run; never changes
    served,              \* calls with a client or handler; never changes
    hasIndex,            \* a plan_response_index was passed; never changes
    pc,                  \* where the executing thread stands
    pending,             \* calls not handled yet
    completed,           \* calls whose dependents may run
    skipped,             \* optional calls recorded as skipped
    raw_by_call,         \* response per call: none, from the cache, fetched now
    extraction_by_call,  \* calls with an extraction effect
    derivation_by_call,  \* calls with a derivation effect
    claims,              \* calls with a claim effect
    responses,           \* references the executed plan lists
    thread,              \* what the fetch pool does for a call
    processed,           \* calls handled by the current fetch batch
    unvisited,           \* calls the current pass has not reached
    progressed,          \* the current pass handled a call
    failure,             \* why the run raised
    upserted             \* the plan index was written

rigid   == <<plan, served, hasIndex>>
effects == <<raw_by_call, extraction_by_call, derivation_by_call, claims, responses>>
batch   == <<thread, processed>>
pass    == <<unvisited, progressed>>
vars    == <<plan, served, hasIndex, pc, pending, completed, skipped, raw_by_call,
             extraction_by_call, derivation_by_call, claims, responses, thread,
             processed, unvisited, progressed, failure, upserted>>

-----------------------------------------------------------------------------
Deps(c) == {d \in Calls : <<d, c>> \in plan.deps}

M_Ready(c) == Deps(c) = {} \/ Deps(c) \cap (completed \cup pending) # {}
Ready(c) == Deps(c) \subseteq completed

(* c comes before every other member of S in the plan.                     *)
IsFirst(c, S) == c \in S /\ \A d \in S : plan.pos[c] <= plan.pos[d]

(* The pending fetch calls whose dependencies are completed.               *)
ReadyFetches == {c \in pending : plan.stage[c] = "fetch" /\ Ready(c)}

(* The effect of the previous stage that the handler of c reads.           *)
M_HasInput(c) ==
    plan.stage[c] = "extract" =>
        plan.source[c] \in Calls \ skipped /\ raw_by_call[plan.source[c]] # "none"
HasInput(c) ==
    /\ plan.stage[c] # "fetch" => plan.source[c] \in Calls \ skipped
    /\ plan.stage[c] = "extract" => raw_by_call[plan.source[c]] # "none"
    /\ plan.stage[c] = "derive"  => plan.source[c] \in extraction_by_call
    /\ plan.stage[c] = "claim"   => plan.source[c] \in derivation_by_call

Runnable(c) == plan.stage[c] # "unsupported" /\ c \in served /\ HasInput(c)

(* A fetch call that already has its response.                             *)
Cached(c) == plan.stage[c] = "fetch" /\ raw_by_call[c] # "none"

(* The run raises; everything it holds in memory is dropped.               *)
Raise(why) ==
    /\ pc' = "failed"
    /\ failure' = why

-----------------------------------------------------------------------------
(* References the plan index lists for the plan's hash; those whose stored *)
(* response is still there are completed calls before the run begins.  The *)
(* index may hold fetch calls the tool filter removed from this plan.      *)
M_Seed ==
    \E cached \in SUBSET {c \in Calls : plan.stage[c] = "fetch"} :
       \E resolved \in SUBSET cached :
          /\ ~hasIndex => cached = {}
          /\ raw_by_call = [c \in Calls |-> IF c \in resolved THEN "cached" ELSE "none"]
          /\ completed = cached
          /\ responses = cached \X {"cached"}
Seed ==
    \E cached \in SUBSET {c \in Calls : plan.stage[c] = "fetch"} :
       \E resolved \in SUBSET cached :
          /\ ~hasIndex => cached = {}
          /\ raw_by_call = [c \in Calls |-> IF c \in resolved THEN "cached" ELSE "none"]
          /\ completed = resolved
          /\ responses = cached \X {"cached"}

Init ==
    /\ plan \in Plans
    /\ served \in SUBSET plan.calls
    /\ hasIndex \in BOOLEAN
    /\ Seed
    /\ pc = "loop"
    /\ pending = plan.calls
    /\ skipped = {}
    /\ extraction_by_call = {} /\ derivation_by_call = {} /\ claims = {}
    /\ thread = [c \in Calls |-> "idle"]
    /\ processed = {}
    /\ unvisited = {} /\ progressed = FALSE
    /\ failure = "none"
    /\ upserted = FALSE

-----------------------------------------------------------------------------
(* A batch: scan the ready fetch calls, submit those to run to the pool,   *)
(* collect their results in plan order.                                    *)

Unobtainable(c) == ~Cached(c) /\ c \notin served

StartBatch ==
    /\ pc = "loop"
    /\ ReadyFetches # {}
    /\ \A c \in ReadyFetches : Unobtainable(c) => c \in plan.optional
    /\ LET skips == {c \in ReadyFetches : Unobtainable(c)}
           runs  == {c \in ReadyFetches : ~Cached(c) /\ c \in served}
       IN  /\ skipped' = skipped \cup skips
           /\ processed' = ReadyFetches \ runs
           /\ thread' = [c \in Calls |-> IF c \in runs THEN "queued" ELSE thread[c]]
    /\ pc' = "collect"
    /\ UNCHANGED <<rigid, effects, pass, pending, completed, failure, upserted>>

(* A required fetch without a client ends the run before anything is       *)
(* submitted.                                                              *)
RejectBatch ==
    /\ pc = "loop"
    /\ \E c \in ReadyFetches : Unobtainable(c) /\ c \notin plan.optional
    /\ Raise("required_missing")
    /\ UNCHANGED <<rigid, effects, batch, pass, pending, completed, skipped, upserted>>

Queued   == {c \in Calls : thread[c] = "queued"}
Running  == {c \in Calls : thread[c] = "running"}
InFlight == {c \in Calls : thread[c] # "idle"}

(* The pool takes work in submission order.                                *)
BeginFetch(c) ==
    /\ IsFirst(c, Queued)
    /\ Cardinality(Running) < MaxParallel
    /\ thread' = [thread EXCEPT ![c] = "running"]
    /\ UNCHANGED <<rigid, effects, pass, pc, pending, completed, skipped, processed,
                   failure, upserted>>

EndFetch(c) ==
    /\ thread[c] = "running"
    /\ \E result \in {"ok", "raised"} : thread' = [thread EXCEPT ![c] = result]
    /\ UNCHANGED <<rigid, effects, pass, pc, pending, completed, skipped, processed,
                   failure, upserted>>

(* The next submitted call to collect.                                     *)
Awaited(c) == pc = "collect" /\ IsFirst(c, InFlight)

M_StoreFetch(c) ==
    /\ raw_by_call' = [raw_by_call EXCEPT ![c] = "fresh"]
    /\ UNCHANGED <<extraction_by_call, derivation_by_call, claims, responses>>
M_StoreResult(c) ==
    /\ raw_by_call' = [raw_by_call EXCEPT ![c] = thread[c]]
    /\ responses' = responses \cup {<<c, "fresh">>}
    /\ UNCHANGED <<extraction_by_call, derivation_by_call, claims>>
StoreFetch(c) ==
    /\ raw_by_call' = [raw_by_call EXCEPT ![c] = "fresh"]
    /\ responses' = responses \cup {<<c, "fresh">>}
    /\ UNCHANGED <<extraction_by_call, derivation_by_call, claims>>

Collect(c) ==
    /\ Awaited(c) /\ thread[c] = "ok"
    /\ StoreFetch(c)
    /\ thread' = [thread EXCEPT ![c] = "idle"]
    /\ processed' = processed \cup {c}
    /\ UNCHANGED <<rigid, pass, pc, pending, completed, skipped, failure, upserted>>

(* The call raised, or storing its response did.  Leaving the pool waits   *)
(* for the calls still submitted; their responses are dropped.             *)
M_CollectFailure(c) ==
    /\ Awaited(c) /\ thread[c] \in {"ok", "raised"}
    /\ thread' = [thread EXCEPT ![c] = "idle"]
    /\ Raise("call_raised")
    /\ UNCHANGED <<rigid, effects, pass, pending, completed, skipped, processed, upserted>>
CollectFailure(c) ==
    /\ Awaited(c) /\ thread[c] \in {"ok", "raised"}
    /\ thread' = [thread EXCEPT ![c] = "idle"]
    /\ pc' = "drain"
    /\ UNCHANGED <<rigid, effects, pass, pending, completed, skipped, processed,
                   failure, upserted>>

Drained ==
    /\ pc = "drain"
    /\ Queued \cup Running = {}
    /\ thread' = [c \in Calls |-> "idle"]
    /\ Raise("call_raised")
    /\ UNCHANGED <<rigid, effects, pass, pending, completed, skipped, processed, upserted>>

FinishBatch ==
    /\ pc = "collect"
    /\ InFlight = {}
    /\ completed' = completed \cup processed
    /\ pending' = pending \ processed
    /\ processed' = {}
    /\ pc' = "loop"
    /\ UNCHANGED <<rigid, effects, pass, skipped, thread, failure, upserted>>

-----------------------------------------------------------------------------
(* A pass: visit each pending call once, in plan order.  A call handled    *)
(* early in the pass makes later ones ready within it.                     *)

StartPass ==
    /\ pc = "loop"
    /\ pending # {} /\ ReadyFetches = {}
    /\ unvisited' = pending
    /\ progressed' = FALSE
    /\ pc' = "pass"
    /\ UNCHANGED <<rigid, effects, batch, pending, completed, skipped, failure, upserted>>

(* The pass reaches c.                                                     *)
Visit(c) ==
    /\ pc = "pass"
    /\ IsFirst(c, unvisited)
    /\ unvisited' = unvisited \ {c}
    /\ UNCHANGED <<rigid, batch, upserted>>

M_Handled(c) ==
    /\ completed' = completed \cup {c}
    /\ pending' = pending \ {c}
    /\ UNCHANGED <<pc, failure, progressed>>
Handled(c) ==
    /\ completed' = completed \cup {c}
    /\ pending' = pending \ {c}
    /\ progressed' = TRUE
    /\ UNCHANGED <<pc, failure>>

VisitBlocked(c) ==
    /\ Visit(c)
    /\ ~Ready(c)
    /\ UNCHANGED <<effects, pc, pending, completed, skipped, progressed, failure>>

VisitCached(c) ==
    /\ Visit(c)
    /\ Ready(c) /\ Cached(c)
    /\ Handled(c)
    /\ UNCHANGED <<effects, skipped>>

M_VisitSkip(c) ==
    /\ Visit(c)
    /\ Ready(c) /\ ~Cached(c) /\ ~Runnable(c)
    /\ plan.stage[c] # "unsupported" /\ c \in plan.optional
    /\ Handled(c)
    /\ UNCHANGED <<effects, skipped>>
VisitSkip(c) ==
    /\ Visit(c)
    /\ Ready(c) /\ ~Cached(c) /\ ~Runnable(c)
    /\ plan.stage[c] # "unsupported" /\ c \in plan.optional
    /\ skipped' = skipped \cup {c}
    /\ Handled(c)
    /\ UNCHANGED effects

VisitReject(c) ==
    /\ Visit(c)
    /\ Ready(c) /\ ~Cached(c) /\ ~Runnable(c)
    /\ plan.stage[c] = "unsupported" \/ c \notin plan.optional
    /\ Raise("required_missing")
    /\ UNCHANGED <<effects, pending, completed, skipped, progressed>>

(* A handler stores the effect of its stage.                               *)
StoreEffect(c) ==
    /\ extraction_by_call' =
          IF plan.stage[c] = "extract" THEN extraction_by_call \cup {c} ELSE extraction_by_call
    /\ derivation_by_call' =
          IF plan.stage[c] = "derive" THEN derivation_by_call \cup {c} ELSE derivation_by_call
    /\ claims' = IF plan.stage[c] = "claim" THEN claims \cup {c} ELSE claims
    /\ UNCHANGED <<raw_by_call, responses>>

VisitRun(c) ==
    /\ Visit(c)
    /\ Ready(c) /\ ~Cached(c) /\ Runnable(c)
    /\ IF plan.stage[c] = "fetch" THEN StoreFetch(c) ELSE StoreEffect(c)
    /\ Handled(c)
    /\ UNCHANGED skipped

(* The client, the handler or the index raised.                            *)
VisitRaise(c) ==
    /\ Visit(c)
    /\ Ready(c) /\ ~Cached(c) /\ Runnable(c)
    /\ Raise("call_raised")
    /\ UNCHANGED <<effects, pending, completed, skipped, progressed>>

M_EndPass ==
    /\ pc = "pass"
    /\ unvisited = {}
    /\ pc' = "loop" /\ UNCHANGED failure
    /\ UNCHANGED <<rigid, effects, batch, pass, pending, completed, skipped, upserted>>
EndPass ==
    /\ pc = "pass"
    /\ unvisited = {}
    /\ IF progressed THEN pc' = "loop" /\ UNCHANGED failure ELSE Raise("cycle")
    /\ UNCHANGED <<rigid, effects, batch, pass, pending, completed, skipped, upserted>>

(* The plan index is written whenever the run holds a response, seeded     *)
(* ones included.                                                          *)
Finish ==
    /\ pc = "loop"
    /\ pending = {}
    /\ upserted' = (hasIndex /\ \E c \in Calls : raw_by_call[c] # "none")
    /\ pc' = "done"
    /\ UNCHANGED <<rigid, effects, batch, pass, pending, completed, skipped, failure>>

-----------------------------------------------------------------------------
MainStep ==
    \/ StartBatch \/ RejectBatch \/ FinishBatch \/ Drained
    \/ StartPass \/ EndPass \/ Finish
    \/ \E c \in Calls :
          \/ Collect(c) \/ CollectFailure(c)
          \/ VisitBlocked(c) \/ VisitCached(c) \/ VisitSkip(c)
          \/ VisitReject(c) \/ VisitRun(c) \/ VisitRaise(c)

PoolStep(c) == BeginFetch(c) \/ EndFetch(c)

Next == MainStep \/ \E c \in Calls : PoolStep(c)

(* The main thread runs until it ends or waits; a client call returns or   *)
(* raises.                                                                 *)
Fairness == WF_vars(MainStep) /\ \A c \in Calls : WF_vars(PoolStep(c))

Spec == Init /\ [][Next]_vars /\ Fairness

-----------------------------------------------------------------------------
TypeOK ==
    /\ plan \in Plans
    /\ served \subseteq plan.calls
    /\ hasIndex \in BOOLEAN
    /\ pc \in {"loop", "collect", "drain", "pass", "done", "failed"}
    /\ pending \subseteq plan.calls
    /\ completed \subseteq Calls
    /\ skipped \subseteq plan.calls
    /\ raw_by_call \in [Calls -> {"none", "cached", "fresh"}]
    /\ extraction_by_call \subseteq plan.calls
    /\ derivation_by_call \subseteq plan.calls
    /\ claims \subseteq plan.calls
    /\ responses \subseteq Calls \X {"cached", "fresh"}
    /\ thread \in [Calls -> {"idle", "queued", "running", "ok", "raised"}]
    /\ InFlight \subseteq plan.calls
    /\ processed \subseteq plan.calls
    /\ unvisited \subseteq plan.calls
    /\ progressed \in BOOLEAN
    /\ failure \in {"none", "required_missing", "call_raised", "cycle"}
    /\ upserted \in BOOLEAN

(* Calls with an effect this run made.                                     *)
Made == {c \in Calls : raw_by_call[c] = "fresh"} \cup extraction_by_call
            \cup derivation_by_call \cup claims

(* Nothing is fetched, handled or skipped before every call it depends on  *)
(* is completed: execute_plan_staged follows the plan's dependencies        *)
(* whatever the plan order and the order in which fetches return.          *)
DependenciesFirst ==
    \A c \in Made \cup InFlight \cup skipped : Deps(c) \subseteq completed

(* Every claim rests on a derivation, that on an extraction and that on a  *)
(* response which the executed plan lists, although seeds, skips and       *)
(* filtered plans all feed the stages from different places.               *)
EvidenceChain ==
    /\ \A c \in claims : plan.source[c] \in derivation_by_call
    /\ \A c \in derivation_by_call : plan.source[c] \in extraction_by_call
    /\ \A c \in extraction_by_call :
          /\ plan.source[c] \in Calls
          /\ <<plan.source[c], raw_by_call[plan.source[c]]>> \in responses

(* A skip is final: a call skipped for want of a client, a handler or a    *)
(* source never turns out to have had one later in the run, so the set of  *)
(* skipped calls does not depend on plan order or timing.                  *)
SkipsAreFinal == \A c \in skipped : ~Cached(c) /\ ~Runnable(c)

(* When a run ends, every planned call either has its effect or is         *)
(* reported skipped, never both, and no required call is skipped.          *)
HasEffect(c) == Cached(c) \/ c \in extraction_by_call \cup derivation_by_call \cup claims
DoneIsComplete ==
    pc = "done" => /\ \A c \in plan.calls : HasEffect(c) <=> c \notin skipped
                   /\ skipped \subseteq plan.optional

(* The last reference the executed plan lists for a call is the response   *)
(* the run used: a dangling cached reference of a fetched call is always   *)
(* followed by the fresh one, the one a later run will read.               *)
LatestReferenceHolds ==
    \A c \in Calls :
        /\ raw_by_call[c] = "fresh" <=> <<c, "fresh">> \in responses
        /\ raw_by_call[c] = "cached" => <<c, "cached">> \in responses

(* A run that has raised leaves no fetch behind: the pool is drained.      *)
AbortWaitsForPool == pc = "failed" => Queued \cup Running = {}

(* "Dependency cycle detected" is raised only for a cycle: each call still *)
(* pending waits for another pending one.                                  *)
CycleIsReal ==
    failure = "cycle" => pending # {} /\ \A c \in pending : Deps(c) \cap pending # {}

(* Every run ends.                                                         *)
Terminates == <>(pc \in {"done", "failed"})

(* What makes these invariants inductive.  Calls that are both pending and *)
(* completed are seeded responses; a call leaves pending with an outcome;  *)
(* a call in flight waits for its first response; a pass without progress  *)
(* has met only calls that are not ready; a run that raised is over.        *)
Settled == (plan.calls \ pending) \cup processed

PendingOnce ==
    /\ \A c \in pending \cap completed : Cached(c)
    /\ \A c \in pending \cap skipped : c \in processed
    /\ \A c \in pending : c \notin extraction_by_call \cup derivation_by_call \cup claims
    /\ pc = "pass" => unvisited \subseteq pending
    /\ plan.calls \subseteq pending \cup completed

OutcomeOnce ==
    /\ \A c \in Settled : HasEffect(c) \/ c \in skipped
    /\ \A c \in skipped : ~HasEffect(c)
    /\ skipped \subseteq Settled \cap plan.optional
    /\ pc = "done" => pending = {}

FetchesInFlight ==
    /\ \A c \in InFlight : c \in pending \ processed /\ c \in served /\ plan.stage[c] = "fetch"
    /\ \A c \in InFlight : raw_by_call[c] = "none" /\ Ready(c)
    /\ pc \notin {"collect", "drain"} => InFlight = {}
    /\ pc \notin {"collect", "drain", "failed"} => processed = {}
    /\ \A c \in processed : plan.stage[c] = "fetch" /\ Ready(c)

BlockedPass ==
    pc = "pass" /\ ~progressed =>
        pending # {} /\ \A c \in pending \ unvisited : ~Ready(c)

Raised == failure # "none" <=> pc = "failed"

RunInv ==
    /\ TypeOK /\ Raised /\ PendingOnce /\ OutcomeOnce /\ FetchesInFlight /\ BlockedPass
    /\ DependenciesFirst /\ EvidenceChain /\ SkipsAreFinal
    /\ LatestReferenceHolds /\ CycleIsReal

(* The run implements the dataflow promise: batches, passes and threads    *)
(* settle each call once, in dependency order.                             *)
Outcome(c) ==
    IF c \in skipped THEN "skipped"
    ELSE IF HasEffect(c) THEN "made" ELSE "open"

Dataflow == INSTANCE PlanDataflow WITH
    outcome <- [c \in Calls |-> Outcome(c)],
    verdict <- IF pc \in {"done", "failed"} THEN pc ELSE "running"

ImplementsDataflow == Dataflow!Spec

(* What the refinement needs besides: effects are those of a call's stage, *)
(* and calls read calls of the stage before theirs.                        *)
EffectsMatch ==
    \A c \in Calls :
        /\ raw_by_call[c] # "none" => plan.stage[c] = "fetch"
        /\ c \in extraction_by_call => plan.stage[c] = "extract"
        /\ c \in derivation_by_call => plan.stage[c] = "derive"
        /\ c \in claims => plan.stage[c] = "claim"

StagesFollow(p) ==
    \A c \in Calls : p.source[c] \in Calls =>
        /\ p.stage[c] = "extract" => p.stage[p.source[c]] = "fetch"
        /\ p.stage[c] = "derive"  => p.stage[p.source[c]] = "extract"
        /\ p.stage[c] = "claim"   => p.stage[p.source[c]] = "derive"
=============================================================================
