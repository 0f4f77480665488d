------------------------ MODULE StagedExecutor_proofs ------------------------
(***************************************************************************)
(* Proofs about StagedExecutor, for every set of plans, any number of      *)
(* calls and any size of the pool.  RunInv is the inductive invariant; the *)
(* lemma StepShape says what a step may do to the outcome of a call, each  *)
(* part of RunInv follows from it, and the refinement from RunInv.  Last,  *)
(* the plans of ToolPlanner: the executor's assumption holds of them, and  *)
(* RunInv says how a run of one can fail.                                  *)
(***************************************************************************)
EXTENDS StagedExecutor, ToolPlanner, WellFoundedInduction, TLAPS

(* What the proofs use of PlansAssumption.                                 *)
LEMMA PlanShape ==
    /\ NoCall \notin Calls
    /\ MaxParallel \in Nat \ {0}
    /\ Plans \subseteq PlanType
    /\ \A p \in Plans : \A c, d \in Calls : p.pos[c] = p.pos[d] => c = d
    /\ \A p \in Plans : \A c \in p.calls :
          p.stage[c] # "fetch" /\ p.source[c] \in p.calls => <<p.source[c], c>> \in p.deps
    /\ \A p \in Plans : p.deps \subseteq p.calls \X p.calls
  BY PlansAssumption DEF WellFormed

LEMMA InitType == Init => TypeOK
<1> SUFFICES ASSUME Init PROVE TypeOK
  OBVIOUS
<1>1. PICK cached \in SUBSET Calls, resolved \in SUBSET Calls :
        /\ raw_by_call = [c \in Calls |-> IF c \in resolved THEN "cached" ELSE "none"]
        /\ completed = resolved
        /\ responses = cached \X {"cached"}
  BY DEF Init, Seed
<1>2. plan \in PlanType
  BY PlanShape DEF Init
<1>3. raw_by_call \in [Calls -> {"none", "cached", "fresh"}]
  BY <1>1
<1>4. responses \subseteq Calls \X {"cached", "fresh"}
  BY <1>1
<1>5. completed \subseteq Calls
  BY <1>1
<1> QED
  BY <1>2, <1>3, <1>4, <1>5 DEF Init, TypeOK, InFlight

LEMMA TypeStep == TypeOK /\ [Next]_vars => TypeOK'
<1> SUFFICES ASSUME TypeOK, [Next]_vars PROVE TypeOK'
  OBVIOUS
<1> USE PlanShape DEF TypeOK, PlanType, InFlight, rigid, effects, batch, pass, Raise
<1>1. CASE StartBatch
  BY <1>1 DEF StartBatch, ReadyFetches, Unobtainable
<1>2. CASE RejectBatch
  BY <1>2 DEF RejectBatch
<1>3. CASE FinishBatch
  BY <1>3 DEF FinishBatch
<1>4. CASE Drained
  BY <1>4 DEF Drained
<1>5. CASE StartPass
  BY <1>5 DEF StartPass
<1>6. CASE EndPass
  BY <1>6 DEF EndPass
<1>7. CASE Finish
  BY <1>7 DEF Finish
<1>8. ASSUME NEW c \in Calls, Collect(c) PROVE TypeOK'
  <2>1. c \in plan.calls
    BY <1>8 DEF Collect, Awaited, IsFirst
  <2>2. /\ raw_by_call' \in [Calls -> {"none", "cached", "fresh"}]
        /\ responses' \subseteq Calls \X {"cached", "fresh"}
    BY <1>8 DEF Collect, StoreFetch
  <2>3. /\ thread' \in [Calls -> {"idle", "queued", "running", "ok", "raised"}]
        /\ InFlight' \subseteq plan.calls
    BY <1>8 DEF Collect
  <2> QED
    BY <1>8, <2>1, <2>2, <2>3 DEF Collect, StoreFetch
<1>9. ASSUME NEW c \in Calls, CollectFailure(c) PROVE TypeOK'
  BY <1>9 DEF CollectFailure
<1>10. ASSUME NEW c \in Calls, VisitBlocked(c) PROVE TypeOK'
  BY <1>10 DEF VisitBlocked, Visit
<1>11. ASSUME NEW c \in Calls, VisitCached(c) PROVE TypeOK'
  BY <1>11 DEF VisitCached, Visit, Handled
<1>12. ASSUME NEW c \in Calls, VisitSkip(c) PROVE TypeOK'
  BY <1>12 DEF VisitSkip, Visit, Handled, IsFirst
<1>13. ASSUME NEW c \in Calls, VisitReject(c) PROVE TypeOK'
  BY <1>13 DEF VisitReject, Visit
<1>14. ASSUME NEW c \in Calls, VisitRun(c) PROVE TypeOK'
  BY <1>14 DEF VisitRun, Visit, Handled, IsFirst, StoreFetch, StoreEffect
<1>15. ASSUME NEW c \in Calls, VisitRaise(c) PROVE TypeOK'
  BY <1>15 DEF VisitRaise, Visit
<1>16. ASSUME NEW c \in Calls, PoolStep(c) PROVE TypeOK'
  BY <1>16 DEF PoolStep, BeginFetch, EndFetch, IsFirst, Queued
<1>17. CASE UNCHANGED vars
  BY <1>17 DEF vars
<1> QED
  BY <1>1, <1>2, <1>3, <1>4, <1>5, <1>6, <1>7, <1>8, <1>9, <1>10, <1>11, <1>12,
     <1>13, <1>14, <1>15, <1>16, <1>17 DEF Next, MainStep

(* The variables keep their types: the calls a run skips, handles and      *)
(* records are always calls of its plan.                                   *)
THEOREM TypeCorrect == Spec => []TypeOK
BY InitType, TypeStep, PTL DEF Spec

-----------------------------------------------------------------------------
(* A call that may get an outcome in this step.                            *)
Open(c) == c \in pending /\ Ready(c) /\ ~Cached(c) /\ c \in plan.calls

(* What a step may do to outcomes: sets only grow, pending only shrinks,   *)
(* and whatever is added belongs to an open call that may be run, or may   *)
(* not be run if it is skipped.                                            *)
OutcomesGrow ==
    /\ UNCHANGED rigid
    /\ pending' \subseteq pending /\ completed \subseteq completed'
    /\ skipped \subseteq skipped' /\ responses \subseteq responses'
    /\ extraction_by_call \subseteq extraction_by_call'
    /\ derivation_by_call \subseteq derivation_by_call'
    /\ claims \subseteq claims'
    /\ \A c \in skipped' \ skipped : Open(c) /\ ~Runnable(c) /\ c \in plan.optional
    /\ \A c \in Calls : raw_by_call'[c] # raw_by_call[c] =>
          Open(c) /\ Runnable(c) /\ plan.stage[c] = "fetch" /\ raw_by_call'[c] = "fresh"
    /\ \A c \in extraction_by_call' \ extraction_by_call :
          Open(c) /\ Runnable(c) /\ plan.stage[c] = "extract"
    /\ \A c \in derivation_by_call' \ derivation_by_call :
          Open(c) /\ Runnable(c) /\ plan.stage[c] = "derive"
    /\ \A c \in claims' \ claims :
          Open(c) /\ Runnable(c) /\ plan.stage[c] = "claim"

LEMMA StepShape == RunInv /\ [Next]_vars => OutcomesGrow
<1> SUFFICES ASSUME RunInv, [Next]_vars PROVE OutcomesGrow
  OBVIOUS
<1> USE PlanShape DEF RunInv, TypeOK, PlanType, OutcomesGrow, rigid, effects, batch, pass, Raise
<1>1. CASE StartBatch
  BY <1>1 DEF StartBatch, ReadyFetches, Unobtainable, Open, Runnable
<1>2. CASE RejectBatch \/ FinishBatch \/ Drained \/ StartPass \/ EndPass \/ Finish
  BY <1>2 DEF RejectBatch, FinishBatch, Drained, StartPass, EndPass, Finish
<1>3. ASSUME NEW c \in Calls, Collect(c) PROVE OutcomesGrow
  <2>1. c \in InFlight
    BY <1>3 DEF Collect, Awaited, IsFirst
  <2>2. Open(c) /\ Runnable(c) /\ plan.stage[c] = "fetch"
    BY <2>1 DEF FetchesInFlight, Open, Runnable, HasInput, Cached, InFlight
  <2> QED
    BY <1>3, <2>2 DEF Collect, StoreFetch
<1>4. ASSUME NEW c \in Calls,
             CollectFailure(c) \/ VisitBlocked(c) \/ VisitReject(c) \/ VisitRaise(c) \/ PoolStep(c)
      PROVE OutcomesGrow
  BY <1>4 DEF CollectFailure, VisitBlocked, VisitReject, VisitRaise, Visit, PoolStep,
              BeginFetch, EndFetch
<1>5. ASSUME NEW c \in Calls, VisitCached(c) PROVE OutcomesGrow
  BY <1>5 DEF VisitCached, Visit, Handled
<1>6. ASSUME NEW c \in Calls, VisitSkip(c) PROVE OutcomesGrow
  <2>1. Open(c)
    BY <1>6 DEF VisitSkip, Visit, IsFirst, Open, PendingOnce
  <2> QED
    BY <1>6, <2>1 DEF VisitSkip, Visit, Handled
<1>7. ASSUME NEW c \in Calls, VisitRun(c) PROVE OutcomesGrow
  <2>1. Open(c) /\ Runnable(c)
    BY <1>7 DEF VisitRun, Visit, IsFirst, Open, PendingOnce
  <2>2. CASE plan.stage[c] = "fetch"
    BY <1>7, <2>1, <2>2 DEF VisitRun, Visit, Handled, StoreFetch
  <2>3. CASE plan.stage[c] # "fetch"
    BY <1>7, <2>1, <2>3 DEF VisitRun, Visit, Handled, StoreEffect
  <2> QED
    BY <2>2, <2>3
<1>8. CASE UNCHANGED vars
  BY <1>8 DEF vars
<1> QED
  BY <1>1, <1>2, <1>3, <1>4, <1>5, <1>6, <1>7, <1>8 DEF Next, MainStep

-----------------------------------------------------------------------------
LEMMA InitInv == Init => RunInv
<1> SUFFICES ASSUME Init PROVE RunInv
  OBVIOUS
<1> USE PlanShape DEF Init
<1>1. TypeOK
  BY InitType
<1>2. PICK cached \in SUBSET {c \in Calls : plan.stage[c] = "fetch"}, resolved \in SUBSET Calls :
        /\ resolved \subseteq cached
        /\ raw_by_call = [c \in Calls |-> IF c \in resolved THEN "cached" ELSE "none"]
        /\ completed = resolved
        /\ responses = cached \X {"cached"}
  BY DEF Seed
<1>3. PendingOnce
  BY <1>2 DEF PendingOnce, Cached
<1>4. OutcomeOnce
  BY <1>1 DEF OutcomeOnce, Settled, HasEffect
<1>5. FetchesInFlight /\ BlockedPass
  BY DEF FetchesInFlight, BlockedPass, InFlight
<1>6. DependenciesFirst
  BY <1>2 DEF DependenciesFirst, Made, InFlight
<1>7. EvidenceChain /\ SkipsAreFinal /\ CycleIsReal
  BY DEF EvidenceChain, SkipsAreFinal, CycleIsReal
<1>8. LatestReferenceHolds /\ Raised
  BY <1>2 DEF LatestReferenceHolds, Raised
<1> QED
  BY <1>1, <1>3, <1>4, <1>5, <1>6, <1>7, <1>8 DEF RunInv

(* Each part of the invariant is preserved by every step.                  *)
LEMMA FetchesStep == RunInv /\ [Next]_vars => FetchesInFlight'
<1> SUFFICES ASSUME RunInv, [Next]_vars PROVE FetchesInFlight'
  OBVIOUS
<1> USE PlanShape DEF RunInv, TypeOK, FetchesInFlight, rigid, effects, batch, pass,
                            Raise, InFlight, Ready, Deps
<1>1. CASE StartBatch
  BY <1>1 DEF StartBatch, ReadyFetches, Unobtainable, Cached
<1>2. CASE RejectBatch \/ FinishBatch \/ StartPass \/ EndPass \/ Finish
  BY <1>2 DEF RejectBatch, FinishBatch, StartPass, EndPass, Finish
<1>3. CASE Drained
  BY <1>3 DEF Drained
<1>4. ASSUME NEW c \in Calls, Collect(c) PROVE FetchesInFlight'
  BY <1>4 DEF Collect, Awaited, IsFirst, StoreFetch
<1>5. ASSUME NEW c \in Calls, CollectFailure(c) PROVE FetchesInFlight'
  BY <1>5 DEF CollectFailure, Awaited
<1>6. ASSUME NEW c \in Calls, PoolStep(c) PROVE FetchesInFlight'
  BY <1>6 DEF PoolStep, BeginFetch, EndFetch, IsFirst, Queued
<1>7. ASSUME NEW c \in Calls,
             \/ VisitBlocked(c) \/ VisitCached(c) \/ VisitSkip(c)
             \/ VisitReject(c) \/ VisitRun(c) \/ VisitRaise(c)
      PROVE FetchesInFlight'
  <2>1. pc = "pass" /\ UNCHANGED <<plan, served, hasIndex, thread, processed>>
    BY <1>7 DEF VisitBlocked, VisitCached, VisitSkip, VisitReject, VisitRun, VisitRaise, Visit
  <2> QED
    BY <2>1
<1>8. CASE UNCHANGED vars
  BY <1>8 DEF vars
<1> QED
  BY <1>1, <1>2, <1>3, <1>4, <1>5, <1>6, <1>7, <1>8 DEF Next, MainStep

LEMMA DependenciesStep == RunInv /\ [Next]_vars => DependenciesFirst'
<1> SUFFICES ASSUME RunInv, [Next]_vars PROVE DependenciesFirst'
  OBVIOUS
<1>1. OutcomesGrow /\ FetchesInFlight'
  BY StepShape, FetchesStep
<1> SUFFICES ASSUME NEW c \in (Made \cup InFlight \cup skipped)' PROVE Deps(c) \subseteq completed'
  BY <1>1 DEF DependenciesFirst, OutcomesGrow, rigid, Deps
<1>2. CASE c \in InFlight'
  BY <1>1, <1>2 DEF FetchesInFlight, Ready, OutcomesGrow, rigid, Deps
<1>3. CASE c \in Made \cup skipped
  BY <1>1, <1>3 DEF RunInv, DependenciesFirst, OutcomesGrow
<1>4. CASE c \in (Made \cup skipped)' /\ c \notin Made \cup skipped
  <2>1. Ready(c)
    BY <1>1, <1>4 DEF Made, OutcomesGrow, Open
  <2> QED
    BY <1>1, <2>1 DEF Ready, OutcomesGrow
<1> QED
  BY <1>2, <1>3, <1>4

(* The source of a call that is ready is not open: nothing it lacks will   *)
(* still be made.                                                          *)
LEMMA SourceSettled ==
    ASSUME RunInv, NEW c \in plan.calls, plan.stage[c] # "fetch", Deps(c) \subseteq completed
    PROVE  ~Open(plan.source[c])
<1> SUFFICES ASSUME Open(plan.source[c]) PROVE FALSE
  OBVIOUS
<1>1. plan \in Plans /\ plan.calls \subseteq Calls
  BY PlanShape DEF RunInv, TypeOK, PlanType
<1>2. plan.source[c] \in Deps(c)
  BY <1>1, PlanShape DEF Open, Deps
<1> QED
  BY <1>2 DEF Open, RunInv, PendingOnce

LEMMA SkipsStep == RunInv /\ [Next]_vars => SkipsAreFinal'
<1> SUFFICES ASSUME RunInv, [Next]_vars PROVE SkipsAreFinal'
  OBVIOUS
<1>1. OutcomesGrow
  BY StepShape
<1> SUFFICES ASSUME NEW c \in skipped' PROVE (~Cached(c) /\ ~Runnable(c))'
  BY DEF SkipsAreFinal
<1>2. plan' = plan /\ served' = served
  BY <1>1 DEF OutcomesGrow, rigid
<1>3. c \in plan.calls /\ c \in Calls /\ ~Runnable(c) /\ Deps(c) \subseteq completed
  <2>1. CASE c \in skipped
    BY <2>1, PlanShape DEF RunInv, TypeOK, PlanType, SkipsAreFinal, DependenciesFirst
  <2>2. CASE c \notin skipped
    BY <1>1, <2>2, PlanShape DEF OutcomesGrow, Open, Ready, RunInv, TypeOK, PlanType
  <2> QED
    BY <2>1, <2>2
<1>4. ~Cached(c)'
  <2>1. ~Cached(c)
    BY <1>1 DEF OutcomesGrow, Open, RunInv, SkipsAreFinal
  <2> QED
    BY <1>1, <1>2, <1>3, <2>1 DEF Cached, OutcomesGrow
<1>5. ~Runnable(c)'
  <2>1. CASE plan.stage[c] \in {"fetch", "unsupported"} \/ c \notin served
    BY <1>2, <1>3, <2>1 DEF Runnable, HasInput
  <2>2. CASE plan.stage[c] \notin {"fetch", "unsupported"} /\ c \in served
    <3> DEFINE s == plan.source[c]
    <3>1. ~Open(s)
      BY <1>3, <2>2, SourceSettled
    <3>2. ~HasInput(c)
      BY <1>3, <2>2 DEF Runnable
    <3>3. s \notin skipped' => s \notin skipped
      BY <1>1 DEF OutcomesGrow
    <3>4. s \in Calls => raw_by_call'[s] = raw_by_call[s]
      BY <1>1, <3>1 DEF OutcomesGrow
    <3>5. /\ s \in extraction_by_call' => s \in extraction_by_call
          /\ s \in derivation_by_call' => s \in derivation_by_call
      BY <1>1, <3>1 DEF OutcomesGrow
    <3> HIDE DEF s
    <3>6. ~HasInput(c)'
      BY <1>2, <3>2, <3>3, <3>4, <3>5 DEF HasInput, s
    <3> QED
      BY <3>6 DEF Runnable
  <2> QED
    BY <2>1, <2>2
<1> QED
  BY <1>4, <1>5

LEMMA EvidenceStep == RunInv /\ [Next]_vars => EvidenceChain'
<1> SUFFICES ASSUME RunInv, [Next]_vars PROVE EvidenceChain'
  OBVIOUS
<1>1. OutcomesGrow
  BY StepShape
<1>2. plan' = plan
  BY <1>1 DEF OutcomesGrow, rigid
<1>3. ASSUME NEW c \in claims' PROVE plan'.source[c] \in derivation_by_call'
  BY <1>1, <1>2, <1>3 DEF OutcomesGrow, RunInv, EvidenceChain, Runnable, HasInput
<1>4. ASSUME NEW c \in derivation_by_call' PROVE plan'.source[c] \in extraction_by_call'
  BY <1>1, <1>2, <1>4 DEF OutcomesGrow, RunInv, EvidenceChain, Runnable, HasInput
<1>5. ASSUME NEW c \in extraction_by_call'
      PROVE /\ plan'.source[c] \in Calls
            /\ <<plan'.source[c], raw_by_call'[plan'.source[c]]>> \in responses'
  <2> DEFINE s == plan.source[c]
  <2>1. s \in Calls /\ raw_by_call[s] # "none" /\ <<s, raw_by_call[s]>> \in responses
    <3>1. CASE c \in extraction_by_call
      BY <3>1 DEF RunInv, TypeOK, EvidenceChain
    <3>2. CASE c \notin extraction_by_call
      <4>1. s \in Calls /\ raw_by_call[s] # "none"
        BY <1>1, <1>5, <3>2 DEF OutcomesGrow, Runnable, HasInput
      <4> QED
        BY <4>1 DEF RunInv, TypeOK, LatestReferenceHolds
    <3> QED
      BY <3>1, <3>2
  <2>2. raw_by_call'[s] = raw_by_call[s]
    BY <1>1, <2>1 DEF OutcomesGrow, Open, Cached
  <2> QED
    BY <1>1, <1>2, <2>1, <2>2 DEF OutcomesGrow
<1> QED
  BY <1>3, <1>4, <1>5 DEF EvidenceChain

LEMMA ReferencesStep == RunInv /\ [Next]_vars => LatestReferenceHolds'
<1> SUFFICES ASSUME RunInv, [Next]_vars PROVE LatestReferenceHolds'
  OBVIOUS
<1> USE DEF RunInv, TypeOK, LatestReferenceHolds, rigid, effects, batch, pass, Raise
<1>1. ASSUME NEW c \in Calls, StoreFetch(c), ~Cached(c), plan.stage[c] = "fetch"
      PROVE LatestReferenceHolds'
  BY <1>1 DEF StoreFetch, Cached
<1>2. ASSUME NEW c \in Calls, Collect(c) PROVE LatestReferenceHolds'
  <2>1. c \in InFlight /\ StoreFetch(c)
    BY <1>2 DEF Collect, Awaited, IsFirst
  <2> QED
    BY <1>1, <2>1 DEF FetchesInFlight, Cached
<1>3. ASSUME NEW c \in Calls, VisitRun(c) PROVE LatestReferenceHolds'
  BY <1>1, <1>3 DEF VisitRun, StoreEffect
<1>4. ASSUME UNCHANGED <<raw_by_call, responses>> PROVE LatestReferenceHolds'
  BY <1>4
<1>5. \/ UNCHANGED <<raw_by_call, responses>>
      \/ \E c \in Calls : Collect(c) \/ VisitRun(c)
  BY DEF Next, MainStep, PoolStep, StartBatch, RejectBatch, FinishBatch, Drained, StartPass,
         EndPass, Finish, CollectFailure, VisitBlocked, VisitCached, VisitSkip, VisitReject,
         VisitRaise, BeginFetch, EndFetch, vars
<1> QED
  BY <1>2, <1>3, <1>4, <1>5

LEMMA PendingStep == RunInv /\ [Next]_vars => PendingOnce'
<1> SUFFICES ASSUME RunInv, [Next]_vars PROVE PendingOnce'
  OBVIOUS
<1> USE PlanShape
    DEF RunInv, TypeOK, PlanType, PendingOnce, rigid, effects, batch, pass, Raise
<1>1. CASE StartBatch
  <2>1. pending \cap skipped = {}
    BY <1>1 DEF StartBatch, FetchesInFlight
  <2>2. skipped' \cap pending' \subseteq processed'
    BY <1>1, <2>1 DEF StartBatch, ReadyFetches, Unobtainable
  <2> QED
    BY <1>1, <2>2 DEF StartBatch, ReadyFetches, Cached
<1>2. CASE RejectBatch \/ StartPass \/ EndPass \/ Finish \/ Drained
  BY <1>2 DEF RejectBatch, StartPass, EndPass, Finish, Drained, Cached
<1>3. CASE FinishBatch
  BY <1>3 DEF FinishBatch, Cached
<1>4. ASSUME NEW c \in Calls, Collect(c) PROVE PendingOnce'
  BY <1>4 DEF Collect, Awaited, StoreFetch, Cached
<1>5. ASSUME NEW c \in Calls, CollectFailure(c) \/ PoolStep(c) PROVE PendingOnce'
  BY <1>5 DEF CollectFailure, Awaited, PoolStep, BeginFetch, EndFetch, Cached
<1>6. ASSUME NEW c \in Calls, VisitBlocked(c) \/ VisitReject(c) \/ VisitRaise(c)
      PROVE PendingOnce'
  BY <1>6 DEF VisitBlocked, VisitReject, VisitRaise, Visit, Cached
<1>7. ASSUME NEW c \in Calls, VisitCached(c) \/ VisitSkip(c) PROVE PendingOnce'
  BY <1>7 DEF VisitCached, VisitSkip, Visit, Handled, Cached
<1>8. ASSUME NEW c \in Calls, VisitRun(c) PROVE PendingOnce'
  BY <1>8 DEF VisitRun, Visit, Handled, Cached, StoreFetch, StoreEffect
<1>9. CASE UNCHANGED vars
  BY <1>9 DEF vars, Cached
<1> QED
  BY <1>1, <1>2, <1>3, <1>4, <1>5, <1>6, <1>7, <1>8, <1>9 DEF Next, MainStep

LEMMA OutcomeStep == RunInv /\ [Next]_vars => OutcomeOnce'
<1> SUFFICES ASSUME RunInv, [Next]_vars PROVE OutcomeOnce'
  OBVIOUS
<1> USE PlanShape
    DEF RunInv, TypeOK, PlanType, OutcomeOnce, Settled, HasEffect, rigid, effects, batch,
        pass, Raise
<1>1. CASE StartBatch
  BY <1>1 DEF StartBatch, ReadyFetches, Unobtainable, Cached, FetchesInFlight, PendingOnce
<1>2. CASE RejectBatch \/ StartPass \/ EndPass \/ Finish \/ Drained
  BY <1>2 DEF RejectBatch, StartPass, EndPass, Finish, Drained, Cached
<1>3. CASE FinishBatch
  BY <1>3 DEF FinishBatch, Cached
<1>4. ASSUME NEW c \in Calls, Collect(c) PROVE OutcomeOnce'
  BY <1>4 DEF Collect, Awaited, IsFirst, InFlight, StoreFetch, Cached, FetchesInFlight,
              PendingOnce
<1>5. ASSUME NEW c \in Calls, CollectFailure(c) \/ PoolStep(c) PROVE OutcomeOnce'
  BY <1>5 DEF CollectFailure, Awaited, PoolStep, BeginFetch, EndFetch, Cached
<1>6. ASSUME NEW c \in Calls, VisitBlocked(c) \/ VisitReject(c) \/ VisitRaise(c)
      PROVE OutcomeOnce'
  BY <1>6 DEF VisitBlocked, VisitReject, VisitRaise, Visit, Cached
<1>7. ASSUME NEW c \in Calls, VisitCached(c) PROVE OutcomeOnce'
  BY <1>7 DEF VisitCached, Visit, Handled, Cached
<1>8. ASSUME NEW c \in Calls, VisitSkip(c) PROVE OutcomeOnce'
  BY <1>8 DEF VisitSkip, Visit, IsFirst, Handled, Cached, PendingOnce
<1>9. ASSUME NEW c \in Calls, VisitRun(c) PROVE OutcomeOnce'
  <2>1. processed = {} /\ c \in pending \ skipped
    BY <1>9 DEF VisitRun, Visit, IsFirst, PendingOnce, FetchesInFlight
  <2>2. Settled' = Settled \cup {c} /\ skipped' = skipped
    BY <1>9, <2>1 DEF VisitRun, Visit, Handled
  <2>3. \A d \in Calls : HasEffect(d)' <=> HasEffect(d) \/ d = c
    <3>1. CASE plan.stage[c] = "fetch"
      BY <1>9, <3>1 DEF VisitRun, Visit, StoreFetch, Cached
    <3>2. CASE plan.stage[c] # "fetch"
      BY <1>9, <3>2 DEF VisitRun, Visit, StoreEffect, Runnable, Stages, Cached
    <3> QED
      BY <3>1, <3>2
  <2>4. pc' = "pass" /\ plan' = plan
    BY <1>9 DEF VisitRun, Visit, Handled
  <2> HIDE DEF HasEffect, Settled
  <2>5. c \notin skipped /\ skipped \subseteq Calls /\ Settled \subseteq Calls
    BY <2>1 DEF Settled
  <2> QED
    BY <2>1, <2>2, <2>3, <2>4, <2>5
<1>10. CASE UNCHANGED vars
  BY <1>10 DEF vars, Cached
<1> QED
  BY <1>1, <1>2, <1>3, <1>4, <1>5, <1>6, <1>7, <1>8, <1>9, <1>10 DEF Next, MainStep

LEMMA BlockedStep == RunInv /\ [Next]_vars => BlockedPass'
<1> SUFFICES ASSUME RunInv, [Next]_vars PROVE BlockedPass'
  OBVIOUS
<1> USE DEF RunInv, TypeOK, BlockedPass, Ready, Deps, rigid, effects, batch, pass, Raise
<1>1. ASSUME pc' # "pass" PROVE BlockedPass'
  BY <1>1
<1>2. CASE StartPass
  BY <1>2 DEF StartPass
<1>3. ASSUME NEW c \in Calls, VisitBlocked(c) PROVE BlockedPass'
  BY <1>3 DEF VisitBlocked, Visit
<1>4. ASSUME NEW c \in Calls, VisitCached(c) \/ VisitSkip(c) \/ VisitRun(c)
      PROVE BlockedPass'
  BY <1>4 DEF VisitCached, VisitSkip, VisitRun, Handled
<1>5. ASSUME NEW c \in Calls, PoolStep(c) PROVE BlockedPass'
  BY <1>5 DEF PoolStep, BeginFetch, EndFetch
<1>6. ASSUME NEW c \in Calls,
             Collect(c) \/ CollectFailure(c) \/ VisitReject(c) \/ VisitRaise(c)
      PROVE BlockedPass'
  BY <1>6 DEF Collect, CollectFailure, VisitReject, VisitRaise, Awaited
<1>7. CASE StartBatch \/ RejectBatch \/ FinishBatch \/ Drained \/ EndPass \/ Finish
  BY <1>7 DEF StartBatch, RejectBatch, FinishBatch, Drained, EndPass, Finish
<1>8. CASE UNCHANGED vars
  BY <1>8 DEF vars
<1> QED
  BY <1>2, <1>3, <1>4, <1>5, <1>6, <1>7, <1>8 DEF Next, MainStep

LEMMA RaisedStep == RunInv /\ [Next]_vars => Raised'
<1> SUFFICES ASSUME RunInv, [Next]_vars PROVE Raised'
  OBVIOUS
<1>1. ASSUME Raise("required_missing") \/ Raise("call_raised") \/ Raise("cycle") PROVE Raised'
  BY <1>1 DEF Raise, Raised
<1>2. ASSUME pc # "failed", pc' # "failed", failure' = failure PROVE Raised'
  BY <1>2 DEF Raised, RunInv
<1>3. ASSUME UNCHANGED <<pc, failure>> PROVE Raised'
  BY <1>3 DEF Raised, RunInv
<1>4. ASSUME NEW c \in Calls, Collect(c) \/ CollectFailure(c) PROVE Raised'
  BY <1>2, <1>3, <1>4 DEF Collect, CollectFailure, Awaited
<1>5. ASSUME NEW c \in Calls,
             VisitBlocked(c) \/ VisitCached(c) \/ VisitSkip(c) \/ VisitReject(c)
                \/ VisitRun(c) \/ VisitRaise(c)
      PROVE Raised'
  BY <1>1, <1>3, <1>5
     DEF VisitBlocked, VisitCached, VisitSkip, VisitReject, VisitRun, VisitRaise, Handled
<1>6. ASSUME NEW c \in Calls, PoolStep(c) PROVE Raised'
  BY <1>3, <1>6 DEF PoolStep, BeginFetch, EndFetch
<1>7. CASE StartBatch \/ RejectBatch \/ FinishBatch \/ Drained \/ StartPass \/ EndPass \/ Finish
  BY <1>1, <1>2, <1>7
     DEF StartBatch, RejectBatch, FinishBatch, Drained, StartPass, EndPass, Finish
<1>8. CASE UNCHANGED vars
  BY <1>3, <1>8 DEF vars
<1> QED
  BY <1>4, <1>5, <1>6, <1>7, <1>8 DEF Next, MainStep

(* A pass without progress leaves every pending call waiting for a pending *)
(* one: its dependencies are planned calls and those are pending or        *)
(* completed.                                                              *)
LEMMA CycleStep == RunInv /\ [Next]_vars => CycleIsReal'
<1> SUFFICES ASSUME RunInv, [Next]_vars PROVE CycleIsReal'
  OBVIOUS
<1>1. CASE EndPass /\ ~progressed
  <2>1. pending # {} /\ \A c \in pending : ~Ready(c)
    BY <1>1 DEF EndPass, RunInv, BlockedPass
  <2>2. plan \in Plans /\ plan.calls \subseteq Calls /\ pending \subseteq plan.calls
    BY PlanShape DEF RunInv, TypeOK, PlanType
  <2>3. \A c \in pending : Deps(c) \subseteq plan.calls
    BY <2>2, PlanShape DEF Deps
  <2>4. \A c \in pending : Deps(c) \cap pending # {}
    BY <2>1, <2>2, <2>3 DEF Ready, RunInv, PendingOnce
  <2>5. plan' = plan /\ pending' = pending
    BY <1>1 DEF EndPass, rigid
  <2> QED
    BY <2>1, <2>4, <2>5 DEF CycleIsReal, Deps
<1>2. CASE failure' # "cycle"
  BY <1>2 DEF CycleIsReal
<1>3. CASE UNCHANGED <<plan, pending, failure>>
  BY <1>3 DEF CycleIsReal, Deps, RunInv
<1>4. CASE ~(EndPass /\ ~progressed) /\ failure' = "cycle"
  <2>1. ASSUME NEW c \in Calls, PoolStep(c) PROVE UNCHANGED <<plan, pending, failure>>
    BY <2>1 DEF PoolStep, BeginFetch, EndFetch, rigid
  <2>2. ASSUME MainStep PROVE FALSE
    BY <1>4, <2>2
       DEF MainStep, StartBatch, RejectBatch, FinishBatch, Drained, StartPass, EndPass,
           Finish, Collect, CollectFailure, Awaited, VisitBlocked, VisitCached, VisitSkip,
           VisitReject, VisitRun, VisitRaise, Visit, Handled, Raise, RunInv, Raised
  <2> QED
    BY <1>3, <2>1, <2>2 DEF Next, vars
<1> QED
  BY <1>1, <1>2, <1>4

-----------------------------------------------------------------------------
LEMMA InvStep == RunInv /\ [Next]_vars => RunInv'
BY TypeStep, RaisedStep, PendingStep, OutcomeStep, FetchesStep, BlockedStep, DependenciesStep,
   EvidenceStep, SkipsStep, ReferencesStep, CycleStep DEF RunInv

(* RunInv is inductive.                                                    *)
THEOREM RunInvariant == Spec => []RunInv
BY InitInv, InvStep, PTL DEF Spec

(* No call is fetched, handled or skipped before its dependencies are      *)
(* completed, for every plan, every order in which the pool's calls return *)
(* and every set of seeded responses.                                      *)
THEOREM DependenciesCorrect == Spec => []DependenciesFirst
BY RunInvariant, PTL DEF RunInv

(* Every claim leads back to a response the executed plan lists.           *)
THEOREM EvidenceCorrect == Spec => []EvidenceChain
BY RunInvariant, PTL DEF RunInv

(* No skipped call is ever one that could have been run.                   *)
THEOREM SkipsCorrect == Spec => []SkipsAreFinal
BY RunInvariant, PTL DEF RunInv

(* The last reference the executed plan lists for a call is the response   *)
(* the run used.                                                           *)
THEOREM ReferencesCorrect == Spec => []LatestReferenceHolds
BY RunInvariant, PTL DEF RunInv

(* "Dependency cycle detected" is raised only for a cycle.                 *)
THEOREM CycleCorrect == Spec => []CycleIsReal
BY RunInvariant, PTL DEF RunInv

(* A run that ends normally has made or skipped every planned call.        *)
THEOREM CompletionCorrect == Spec => []DoneIsComplete
<1>1. RunInv => DoneIsComplete
  <2> SUFFICES ASSUME RunInv, pc = "done"
               PROVE  /\ \A c \in plan.calls : HasEffect(c) <=> c \notin skipped
                      /\ skipped \subseteq plan.optional
    BY DEF DoneIsComplete
  <2> QED
    BY DEF RunInv, OutcomeOnce, Settled
<1> QED
  BY <1>1, RunInvariant, PTL

(* A run that has raised has left no fetch in the pool.                    *)
THEOREM AbortCorrect == Spec => []AbortWaitsForPool
<1>1. RunInv => AbortWaitsForPool
  BY DEF RunInv, FetchesInFlight, AbortWaitsForPool, InFlight, Queued, Running
<1> QED
  BY <1>1, RunInvariant, PTL

-----------------------------------------------------------------------------
(* StagedExecutor implements PlanDataflow: each step of the executor       *)
(* settles calls, finishes, fails or changes nothing that is promised.     *)

(* The seeded responses are responses of fetch calls.                      *)
LEMMA SeedShape ==
    ASSUME Init
    PROVE  \E seeded \in SUBSET {c \in Calls : plan.stage[c] = "fetch"} :
              raw_by_call = [c \in Calls |-> IF c \in seeded THEN "cached" ELSE "none"]
<1>1. PICK cached \in SUBSET {c \in Calls : plan.stage[c] = "fetch"}, resolved \in SUBSET Calls :
        /\ resolved \subseteq cached
        /\ raw_by_call = [c \in Calls |-> IF c \in resolved THEN "cached" ELSE "none"]
  BY DEF Init, Seed
<1> QED
  BY <1>1

LEMMA EffectsInit == Init => EffectsMatch
<1> SUFFICES ASSUME Init PROVE EffectsMatch
  OBVIOUS
<1>1. PICK seeded \in SUBSET {c \in Calls : plan.stage[c] = "fetch"} :
        raw_by_call = [c \in Calls |-> IF c \in seeded THEN "cached" ELSE "none"]
  BY SeedShape
<1> QED
  BY <1>1 DEF Init, EffectsMatch

LEMMA EffectsStep == RunInv /\ EffectsMatch /\ [Next]_vars => EffectsMatch'
<1> SUFFICES ASSUME RunInv, EffectsMatch, [Next]_vars PROVE EffectsMatch'
  OBVIOUS
<1>1. OutcomesGrow
  BY StepShape
<1>2. plan' = plan
  BY <1>1 DEF OutcomesGrow, rigid
<1> QED
  BY <1>1, <1>2 DEF EffectsMatch, OutcomesGrow

(* The run's calls settle in the promise as they do in the run.            *)
LEMMA DataflowInit == Init => Dataflow!Init
<1> SUFFICES ASSUME Init PROVE Dataflow!Init
  OBVIOUS
<1>1. PICK seeded \in SUBSET {c \in Calls : plan.stage[c] = "fetch"} :
        raw_by_call = [c \in Calls |-> IF c \in seeded THEN "cached" ELSE "none"]
  BY SeedShape
<1>2. ASSUME NEW c \in Calls
      PROVE  Outcome(c) = IF c \in seeded THEN "made" ELSE "open"
  BY <1>1 DEF Init, Outcome, HasEffect, Cached
<1>3. [c \in Calls |-> Outcome(c)] = [c \in Calls |-> IF c \in seeded THEN "made" ELSE "open"]
  BY <1>2
<1> QED
  BY <1>3 DEF Init, Dataflow!Init

(* A handler finds the effect it reads exactly if its source was made.     *)
LEMMA InputIsSource ==
    ASSUME EffectsMatch, StagesFollow(plan), NEW c \in Calls, plan.stage[c] \in Stages \ {"unsupported"}
    PROVE  HasInput(c) <=> Dataflow!SourceMade(c)
<1>1. CASE plan.stage[c] = "fetch"
  BY <1>1 DEF HasInput, Dataflow!SourceMade
<1>2. CASE plan.stage[c] # "fetch" /\ plan.source[c] \in Calls
  <2> DEFINE s == plan.source[c]
  <2>1. Dataflow!SourceMade(c) <=> s \notin skipped /\ HasEffect(s)
    BY <1>2 DEF Dataflow!SourceMade, Outcome
  <2>2. HasEffect(s) <=> /\ plan.stage[c] = "extract" => raw_by_call[s] # "none"
                         /\ plan.stage[c] = "derive" => s \in extraction_by_call
                         /\ plan.stage[c] = "claim" => s \in derivation_by_call
    BY <1>2 DEF HasEffect, Cached, EffectsMatch, StagesFollow, Stages
  <2> QED
    BY <1>2, <2>1, <2>2 DEF HasInput
<1>3. CASE plan.stage[c] # "fetch" /\ plan.source[c] \notin Calls
  BY <1>3 DEF HasInput, Dataflow!SourceMade
<1> QED
  BY <1>1, <1>2, <1>3

(* A step that settles the calls S of an executor that still runs settles  *)
(* them in the promise.                                                    *)
LEMMA Settles ==
    ASSUME RunInv, EffectsMatch, StagesFollow(plan),
           UNCHANGED rigid, pc \notin {"done", "failed"}, pc' \notin {"done", "failed"},
           NEW S \in SUBSET plan.calls, S # {}, NEW made \in SUBSET S,
           \A c \in S : Open(c) /\ c \notin skipped /\ plan.stage[c] # "unsupported",
           \A c \in made : Runnable(c),
           \A c \in S \ made : c \in plan.optional /\ ~Runnable(c),
           skipped' = skipped \cup (S \ made),
           \A c \in Calls : HasEffect(c)' <=> HasEffect(c) \/ c \in made
    PROVE  Dataflow!Settle(S)
<1>0. plan \in PlanType /\ plan.calls \subseteq Calls /\ S \subseteq Calls
  BY PlanShape DEF RunInv, TypeOK, PlanType
<1>1. ASSUME NEW c \in S PROVE Outcome(c) = "open"
  BY <1>1 DEF Outcome, HasEffect, Open, RunInv, PendingOnce
<1>2. ASSUME NEW c \in S, NEW d \in Deps(c) PROVE Outcome(d) # "open"
  <2>1. d \in completed /\ d \in plan.calls
    BY <1>0, <1>2, PlanShape DEF Open, Ready, Deps, RunInv, TypeOK
  <2> QED
    BY <2>1 DEF Outcome, HasEffect, RunInv, PendingOnce, OutcomeOnce, Settled
<1>3. ASSUME NEW c \in S
      PROVE  Runnable(c) <=> c \in served /\ Dataflow!SourceMade(c)
  <2>1. c \in Calls /\ plan.stage[c] \in Stages \ {"unsupported"}
    BY <1>0, <1>3 DEF PlanType
  <2> QED
    BY <2>1, <1>3, InputIsSource DEF Runnable
<1>4. ASSUME NEW c \in Calls
      PROVE  Outcome(c)' = IF c \in made THEN "made"
                           ELSE IF c \in S THEN "skipped" ELSE Outcome(c)
  <2>1. c \in made => c \notin skipped /\ c \notin S \ made
    OBVIOUS
  <2> QED
    BY <2>1 DEF Outcome
<1> QED
  BY <1>0, <1>1, <1>2, <1>3, <1>4 DEF Dataflow!Settle, Dataflow!IsOpen, Dataflow!Deps, Deps, rigid

(* A step that skips the calls S settles them in the promise.              *)
LEMMA SkipsSettle ==
    ASSUME RunInv, EffectsMatch, StagesFollow(plan),
           UNCHANGED <<rigid, raw_by_call, extraction_by_call, derivation_by_call, claims>>,
           pc \notin {"done", "failed"}, pc' \notin {"done", "failed"},
           NEW S \in SUBSET plan.calls, S # {},
           \A c \in S : /\ Open(c) /\ c \notin skipped /\ plan.stage[c] # "unsupported"
                        /\ c \in plan.optional /\ ~Runnable(c),
           skipped' = skipped \cup S
    PROVE  Dataflow!Settle(S)
<1> DEFINE made == {}
<1>1. /\ made \in SUBSET S /\ skipped' = skipped \cup (S \ made)
      /\ \A c \in made : Runnable(c)
      /\ \A c \in S \ made : c \in plan.optional /\ ~Runnable(c)
      /\ \A c \in Calls : HasEffect(c)' <=> HasEffect(c) \/ c \in made
  BY DEF HasEffect, Cached, rigid
<1> HIDE DEF made
<1> QED
  BY <1>1, Settles DEF rigid

-----------------------------------------------------------------------------
(* A step that changes no outcome and does not end the run is no step of   *)
(* the promise.                                                            *)
LEMMA Stutters ==
    ASSUME UNCHANGED <<rigid, raw_by_call, extraction_by_call, derivation_by_call, claims, skipped>>
    PROVE  [c \in Calls |-> Outcome(c)]' = [c \in Calls |-> Outcome(c)]
BY DEF Outcome, HasEffect, Cached, rigid

(* A batch settles the optional fetches nobody can serve.                  *)
LEMMA BatchMaps ==
    ASSUME RunInv, EffectsMatch, StagesFollow(plan), StartBatch
    PROVE  [Dataflow!Next]_(Dataflow!vars)
<1> DEFINE skips == {c \in ReadyFetches : Unobtainable(c)}
<1>1. /\ UNCHANGED <<rigid, raw_by_call, extraction_by_call, derivation_by_call, claims>>
      /\ pc = "loop" /\ pc' = "collect" /\ skipped' = skipped \cup skips
  BY DEF StartBatch, effects
<1>2. CASE skips = {}
  <2>1. skipped' = skipped
    BY <1>1, <1>2
  <2> QED
    BY <1>1, <2>1, Stutters DEF Dataflow!vars, rigid
<1>3. CASE skips # {}
  <2>1. skips \subseteq plan.calls
    BY DEF ReadyFetches, RunInv, TypeOK
  <2>2. ASSUME NEW c \in skips
        PROVE  /\ Open(c) /\ c \notin skipped /\ plan.stage[c] # "unsupported"
               /\ c \in plan.optional /\ ~Runnable(c)
    <3>1. processed = {} /\ c \in pending
      BY <1>1, <2>2 DEF ReadyFetches, RunInv, FetchesInFlight
    <3> QED
      BY <2>1, <2>2, <3>1 DEF ReadyFetches, Unobtainable, Open, Runnable, StartBatch, RunInv,
         PendingOnce
  <2>3. Dataflow!Settle(skips)
    <3> HIDE DEF skips
    <3> QED
      BY <1>1, <1>3, <2>1, <2>2, SkipsSettle DEF rigid
  <2> QED
    BY <2>1, <2>3 DEF Dataflow!Next
<1> QED
  BY <1>2, <1>3

(* A fetch collected, or a call run by a pass, is made.                    *)
LEMMA MakingMaps ==
    ASSUME RunInv, EffectsMatch, StagesFollow(plan), NEW c \in Calls,
           Collect(c) \/ VisitRun(c)
    PROVE  Dataflow!Settle({c})
<1>1. CASE Collect(c)
  <2>1. c \in InFlight
    BY <1>1 DEF Collect, Awaited, IsFirst
  <2>2. /\ c \in pending \ processed /\ c \in served /\ plan.stage[c] = "fetch"
        /\ raw_by_call[c] = "none" /\ Ready(c) /\ c \in plan.calls
    BY <2>1 DEF RunInv, FetchesInFlight, TypeOK
  <2>3. Open(c) /\ c \notin skipped /\ Runnable(c)
    BY <2>2 DEF Open, Cached, Runnable, HasInput, RunInv, PendingOnce
  <2>4. /\ UNCHANGED <<rigid, extraction_by_call, derivation_by_call, claims, skipped, pc>>
        /\ raw_by_call' = [raw_by_call EXCEPT ![c] = "fresh"] /\ pc = "collect"
    BY <1>1 DEF Collect, StoreFetch, Awaited
  <2>5. ASSUME NEW d \in Calls PROVE HasEffect(d)' <=> HasEffect(d) \/ d \in {c}
    BY <2>2, <2>4 DEF HasEffect, Cached, rigid, RunInv, TypeOK
  <2> QED
    BY <2>2, <2>3, <2>4, <2>5, Settles
<1>2. CASE VisitRun(c)
  <2>1. /\ Ready(c) /\ ~Cached(c) /\ Runnable(c) /\ c \in unvisited
        /\ pc = "pass" /\ pc' = "pass" /\ UNCHANGED <<rigid, skipped>>
    BY <1>2 DEF VisitRun, Visit, IsFirst, Handled
  <2>2. Open(c) /\ c \notin skipped /\ plan.stage[c] # "unsupported" /\ c \in plan.calls
    BY <2>1 DEF Open, Runnable, RunInv, PendingOnce, FetchesInFlight, TypeOK
  <2>3. ASSUME NEW d \in Calls PROVE HasEffect(d)' <=> HasEffect(d) \/ d \in {c}
    <3>1. CASE plan.stage[c] = "fetch"
      BY <1>2, <2>1, <3>1 DEF VisitRun, StoreFetch, HasEffect, Cached, rigid, RunInv, TypeOK
    <3>2. CASE plan.stage[c] # "fetch"
      <4>1. plan.stage[c] \in {"extract", "derive", "claim"}
        BY <2>2, <3>2, PlanShape DEF RunInv, TypeOK, PlanType, Stages
      <4> QED
        BY <1>2, <2>1, <3>2, <4>1 DEF VisitRun, StoreEffect, HasEffect, Cached, rigid
    <3> QED
      BY <3>1, <3>2
  <2> QED
    BY <2>1, <2>2, <2>3, Settles
<1> QED
  BY <1>1, <1>2

(* A call a pass skips is skipped.                                         *)
LEMMA SkipMaps ==
    ASSUME RunInv, EffectsMatch, StagesFollow(plan), NEW c \in Calls, VisitSkip(c)
    PROVE  Dataflow!Settle({c})
<1>1. /\ Ready(c) /\ ~Cached(c) /\ ~Runnable(c) /\ c \in unvisited
      /\ plan.stage[c] # "unsupported" /\ c \in plan.optional
      /\ pc = "pass" /\ pc' = "pass" /\ UNCHANGED <<rigid, effects>>
      /\ skipped' = skipped \cup {c}
  BY DEF VisitSkip, Visit, IsFirst, Handled
<1>2. Open(c) /\ c \notin skipped /\ c \in plan.calls
  BY <1>1 DEF Open, RunInv, PendingOnce, FetchesInFlight, TypeOK
<1> QED
  BY <1>1, <1>2, SkipsSettle DEF rigid, effects

(* A run gives up without changing an outcome.                             *)
LEMMA RaiseMaps ==
    ASSUME RunInv, pc \notin {"done", "failed"}, pc' = "failed",
           UNCHANGED <<rigid, effects, skipped>>
    PROVE  Dataflow!Fail
<1>1. UNCHANGED <<rigid, raw_by_call, extraction_by_call, derivation_by_call, claims, skipped>>
  BY DEF effects
<1> QED
  BY <1>1, Stutters DEF Dataflow!Fail, rigid

(* A run ends with every call settled.                                     *)
LEMMA FinishMaps == ASSUME RunInv, Finish PROVE Dataflow!Finish
<1>1. UNCHANGED <<rigid, raw_by_call, extraction_by_call, derivation_by_call, claims, skipped>>
  BY DEF Finish, effects
<1>2. ASSUME NEW c \in plan.calls PROVE c \in Calls /\ Outcome(c) # "open"
  <2>1. c \in Settled /\ c \in Calls
    BY <1>2, PlanShape DEF Finish, Settled, RunInv, TypeOK, PlanType
  <2> QED
    BY <2>1 DEF RunInv, OutcomeOnce, Outcome
<1> QED
  BY <1>1, <1>2, Stutters DEF Finish, Dataflow!Finish, Dataflow!IsOpen, rigid

LEMMA DataflowStep ==
    ASSUME RunInv, EffectsMatch, StagesFollow(plan), [Next]_vars
    PROVE  [Dataflow!Next]_(Dataflow!vars)
<1>1. CASE StartBatch
  BY <1>1, BatchMaps
<1>2. ASSUME NEW c \in Calls, Collect(c) \/ VisitRun(c) \/ VisitSkip(c)
      PROVE  Dataflow!Next
  <2>1. c \in plan.calls
    BY <1>2 DEF Collect, Awaited, IsFirst, VisitRun, VisitSkip, Visit, RunInv, TypeOK
  <2>2. Dataflow!Settle({c})
    BY <1>2, MakingMaps, SkipMaps
  <2> QED
    BY <2>1, <2>2 DEF Dataflow!Next
<1>3. CASE RejectBatch \/ Drained
  BY <1>3, RaiseMaps DEF RejectBatch, Drained, Raise, Dataflow!Next
<1>4. ASSUME NEW c \in Calls, VisitReject(c) \/ VisitRaise(c) PROVE Dataflow!Next
  BY <1>4, RaiseMaps DEF VisitReject, VisitRaise, Visit, Raise, Dataflow!Next
<1>5. CASE Finish
  BY <1>5, FinishMaps DEF Dataflow!Next
<1>6. CASE EndPass
  <2>1. CASE progressed
    BY <1>6, <2>1, Stutters DEF EndPass, effects, Dataflow!vars, rigid
  <2>2. CASE ~progressed
    BY <1>6, <2>2, RaiseMaps DEF EndPass, Raise, Dataflow!Next
  <2> QED
    BY <2>1, <2>2
<1>7. CASE FinishBatch \/ StartPass
  BY <1>7, Stutters DEF FinishBatch, StartPass, effects, Dataflow!vars, rigid
<1>8. ASSUME NEW c \in Calls,
             CollectFailure(c) \/ VisitBlocked(c) \/ VisitCached(c) \/ PoolStep(c)
      PROVE  UNCHANGED Dataflow!vars
  <2>1. /\ UNCHANGED <<rigid, effects, skipped>>
        /\ pc' = pc \/ (pc = "collect" /\ pc' = "drain")
    BY <1>8 DEF CollectFailure, Awaited, VisitBlocked, VisitCached, Visit, Handled, PoolStep,
       BeginFetch, EndFetch
  <2> QED
    BY <2>1, Stutters DEF effects, Dataflow!vars, rigid
<1>9. CASE UNCHANGED vars
  BY <1>9, Stutters DEF vars, Dataflow!vars, rigid
<1> QED
  BY <1>1, <1>2, <1>3, <1>4, <1>5, <1>6, <1>7, <1>8, <1>9 DEF Next, MainStep

(* A staged run keeps the promise of the plan's dataflow: whatever the     *)
(* batches, the passes and the order in which fetches return, calls settle *)
(* once, after what they depend on, made exactly if they are served and    *)
(* their source was made.                                                  *)
THEOREM DataflowImplemented ==
    ASSUME \A p \in Plans : StagesFollow(p)
    PROVE  Spec => ImplementsDataflow
<1>1. Init => EffectsMatch
  BY EffectsInit
<1>2. RunInv /\ EffectsMatch /\ [Next]_vars => EffectsMatch'
  BY EffectsStep
<1>3. RunInv /\ EffectsMatch /\ [Next]_vars => [Dataflow!Next]_(Dataflow!vars)
  <2>1. RunInv => StagesFollow(plan)
    BY DEF RunInv, TypeOK
  <2> QED
    BY <2>1, DataflowStep
<1>4. Spec => []RunInv
  BY RunInvariant
<1>5. Init => Dataflow!Init
  BY DataflowInit
<1> QED
  BY <1>1, <1>2, <1>3, <1>4, <1>5, PTL DEF Spec, ImplementsDataflow, Dataflow!Spec

-----------------------------------------------------------------------------
(* What the planner gives the executor.  Every plan it builds, cut down by *)
(* any tool filter, meets the executor's assumption, and a run of such a   *)
(* plan can fail in one way only: a client or handler raises.              *)
LEMMA StepTypes ==
    ASSUME NEW s \in Steps
    PROVE  /\ StageOfStep(s) \in Stages \ {"unsupported"}
           /\ StageOfStep(s) = "fetch" <=> s = "fetch"
           /\ Rank(s) \in 1 .. 6
           /\ s # "fetch" => SourceStep(s) \in Steps /\ Rank(SourceStep(s)) < Rank(s)
BY DEF Steps, ChainSteps, StageOfStep, Stages, Rank, SourceStep

(* Two steps of a rank are one.                                            *)
LEMMA RankInjective ==
    ASSUME NEW s \in Steps, NEW t \in Steps, Rank(s) = Rank(t)
    PROVE  s = t
BY DEF Steps, ChainSteps, Rank

LEMMA PipelineTypes ==
    /\ MaxVariants \in Nat /\ Dicts \in Nat /\ Pipelines \subseteq Nat \ {0}
    /\ 1 \in Pipelines
    /\ Heritage \subseteq Pipelines /\ Cdsl \subseteq Pipelines
    /\ \A k \in 1 .. 12 : Nth(k) \subseteq Pipelines
BY PlannerAssumption DEF Pipelines, Heritage, Cdsl, Nth

(* Planned calls are calls.                                                *)
LEMMA PlannedAreCalls ==
    ASSUME NEW query \in Queries, NEW options
    PROVE  PlannedCalls(query, options) \subseteq CallIds
<1>1. ASSUME NEW numbers, numbers \subseteq Pipelines
      PROVE  Chain(numbers) \subseteq CallIds
  BY <1>1 DEF Chain, CallIds, Steps
<1>2. ASSUME NEW numbers, numbers \subseteq Pipelines, NEW option
      PROVE  When(option, options, numbers) \subseteq CallIds
  BY <1>1, <1>2 DEF When
<1>3. /\ Dico \subseteq Pipelines /\ Diogenes \subseteq Pipelines /\ Surface \subseteq Pipelines
      /\ Cts \subseteq Pipelines /\ Bailly \subseteq Pipelines
      /\ StrongsGreek \subseteq Pipelines /\ Spacy \subseteq Pipelines
      /\ Whitakers \subseteq Pipelines /\ Cltk \subseteq Pipelines /\ Gaffiot \subseteq Pipelines
      /\ Lewis1890 \subseteq Pipelines /\ Georges1913 \subseteq Pipelines
  BY PipelineTypes DEF Dico, Diogenes, Surface, Cts, Bailly, StrongsGreek, Spacy, Whitakers,
     Cltk, Gaffiot, Lewis1890, Georges1913
<1>4. SanskritCalls(query, options) \subseteq CallIds
  <2>1. {n \in Heritage : n <= query.variants} \subseteq Pipelines /\ Cdsl \subseteq Pipelines
    BY PipelineTypes
  <2>2. /\ Chain({n \in Heritage : n <= query.variants}) \subseteq CallIds
        /\ When("cdsl", options, Cdsl) \subseteq CallIds
        /\ When("dico", options, Dico) \subseteq CallIds
    BY <1>1, <1>2, <1>3, <2>1
  <2> QED
    BY <2>2 DEF SanskritCalls
<1>5. LatinCalls(options) \subseteq CallIds
  <2>1. /\ Chain(Diogenes) \subseteq CallIds
        /\ When("whitakers", options, Whitakers) \subseteq CallIds
        /\ When("cltk", options, Cltk) \subseteq CallIds
        /\ When("gaffiot", options, Gaffiot) \subseteq CallIds
        /\ When("lewis_1890", options, Lewis1890) \subseteq CallIds
        /\ When("georges_1913", options, Georges1913) \subseteq CallIds
    BY <1>1, <1>2, <1>3
  <2> QED
    BY <2>1 DEF LatinCalls
<1>6. GreekCalls(query, options) \subseteq CallIds
  <2>1. /\ Diogenes \X Steps \subseteq CallIds
        /\ Chain(Cts) \subseteq CallIds
        /\ Chain(Surface) \subseteq CallIds
        /\ When("bailly", options, Bailly) \subseteq CallIds
        /\ When("strongs_greek", options, StrongsGreek) \subseteq CallIds
        /\ When("spacy", options, Spacy) \subseteq CallIds
        /\ When("cltk", options, Cltk) \subseteq CallIds
    BY <1>1, <1>2, <1>3 DEF CallIds
  <2> QED
    BY <2>1 DEF GreekCalls
<1> QED
  BY <1>4, <1>5, <1>6 DEF PlannedCalls

(* The shape of a planned plan: the attributes of calls are the planner's, *)
(* and what waits for something waits for its source, which comes first.   *)
LEMMA PlannedShape ==
    ASSUME NEW p, Planned(p)
    PROVE  /\ p.calls \subseteq CallIds
           /\ p = [calls    |-> p.calls,
                   stage    |-> [c \in CallIds |-> StageOfStep(c[2])],
                   source   |-> [c \in CallIds |-> SourceOf(c)],
                   optional |-> CallIds \ Required,
                   deps     |-> p.deps,
                   pos      |-> [c \in CallIds |-> 6 * c[1] + Rank(c[2])]]
           /\ p.deps = {d \in Waits(p.calls) : d[1] \in p.calls}
<1>1. PICK query \in Queries, options \in SUBSET Options, tools \in SUBSET Tools :
        p = FilterPlanTools(Build(query, options), tools)
  BY DEF Planned
<1> DEFINE calls == PlannedCalls(query, options)
           kept  == {c \in calls : Tool(c) \in tools}
<1>2. calls \subseteq CallIds
  BY PlannedAreCalls
<1>3. p = [Build(query, options) EXCEPT
             !.calls = kept, !.deps = {d \in @ : d[1] \in kept /\ d[2] \in kept}]
  BY <1>1 DEF FilterPlanTools, Build
<1>4. /\ p.calls = kept
      /\ p.deps = {d \in Waits(calls) : d[1] \in kept /\ d[2] \in kept}
      /\ p = [calls    |-> p.calls,
              stage    |-> [c \in CallIds |-> StageOfStep(c[2])],
              source   |-> [c \in CallIds |-> SourceOf(c)],
              optional |-> CallIds \ Required,
              deps     |-> p.deps,
              pos      |-> [c \in CallIds |-> 6 * c[1] + Rank(c[2])]]
  BY <1>3 DEF Build
<1>5. {d \in Waits(calls) : d[1] \in kept /\ d[2] \in kept}
        = {d \in Waits(kept) : d[1] \in kept}
  BY DEF Waits
<1> QED
  BY <1>2, <1>4, <1>5

LEMMA SourceTypes ==
    ASSUME NEW c \in CallIds
    PROVE  /\ c[1] \in Pipelines /\ c[2] \in Steps /\ c = <<c[1], c[2]>>
           /\ SourceOf(c) \in CallIds \cup {NoSource}
           /\ c[2] # "fetch" => /\ SourceOf(c) \in CallIds
                               /\ SourceOf(c)[1] = c[1]
                               /\ Rank(SourceOf(c)[2]) < Rank(c[2])
<1>1. c[1] \in Pipelines /\ c[2] \in Steps /\ c = <<c[1], c[2]>>
  BY DEF CallIds
<1>2. CASE c[2] # "fetch"
  <2>1. SourceOf(c) = <<c[1], SourceStep(c[2])>>
    BY <1>2 DEF SourceOf
  <2>2. SourceStep(c[2]) \in Steps /\ Rank(SourceStep(c[2])) < Rank(c[2])
    BY <1>1, <1>2, StepTypes
  <2> QED
    BY <1>1, <2>1, <2>2 DEF CallIds
<1>3. CASE c[2] = "fetch"
  <2>1. <<MaxVariants + Dicts + 2, "derive_citation">> \in CallIds
    BY PlannerAssumption DEF CallIds, Pipelines, Steps
  <2> QED
    BY <1>1, <1>3, <2>1 DEF SourceOf
<1> QED
  BY <1>2, <1>3

(* The number of a call in plan order tells it from every other.           *)
LEMMA PosInjective ==
    ASSUME NEW c \in CallIds, NEW d \in CallIds,
           6 * c[1] + Rank(c[2]) = 6 * d[1] + Rank(d[2])
    PROVE  c = d
<1>1. /\ c[1] \in Nat /\ d[1] \in Nat /\ c[2] \in Steps /\ d[2] \in Steps
      /\ c = <<c[1], c[2]>> /\ d = <<d[1], d[2]>>
  BY SourceTypes, PipelineTypes
<1>2. Rank(c[2]) \in 1 .. 6 /\ Rank(d[2]) \in 1 .. 6
  BY <1>1, StepTypes
<1>3. c[1] = d[1] /\ Rank(c[2]) = Rank(d[2])
  BY <1>1, <1>2
<1> QED
  BY <1>1, <1>3, RankInjective

(* Every plan ToolPlanner.build makes, whatever the word, the options and  *)
(* the tool filter, is one the executor's theorems are about: sources are  *)
(* listed as dependencies and no dependency leaves the plan.               *)
THEOREM PlannedPlansFit ==
    ASSUME Calls = CallIds, NoCall = NoSource, NEW p, Planned(p)
    PROVE  WellFormed(p) /\ NoCall \notin Calls
<1>1. /\ p.calls \subseteq CallIds
      /\ p = [calls    |-> p.calls,
              stage    |-> [c \in CallIds |-> StageOfStep(c[2])],
              source   |-> [c \in CallIds |-> SourceOf(c)],
              optional |-> CallIds \ Required,
              deps     |-> p.deps,
              pos      |-> [c \in CallIds |-> 6 * c[1] + Rank(c[2])]]
      /\ p.deps = {d \in Waits(p.calls) : d[1] \in p.calls}
  BY PlannedShape
<1>2. p.deps \subseteq p.calls \X p.calls
  BY <1>1 DEF Waits
<1>3. p \in PlanType
  <2>1. [c \in CallIds |-> StageOfStep(c[2])] \in [Calls -> Stages]
    BY SourceTypes, StepTypes
  <2>2. [c \in CallIds |-> SourceOf(c)] \in [Calls -> Calls \cup {NoCall}]
    BY SourceTypes
  <2>3. [c \in CallIds |-> 6 * c[1] + Rank(c[2])] \in [Calls -> Nat]
    <3> SUFFICES ASSUME NEW c \in CallIds PROVE 6 * c[1] + Rank(c[2]) \in Nat
      OBVIOUS
    <3>1. c[1] \in Nat /\ Rank(c[2]) \in 1 .. 6
      BY SourceTypes, StepTypes, PipelineTypes
    <3> QED
      BY <3>1
  <2>4. p.deps \subseteq Calls \X Calls
    BY <1>1, <1>2
  <2> QED
    BY <1>1, <2>1, <2>2, <2>3, <2>4 DEF PlanType
<1>4. ASSUME NEW c \in Calls, NEW d \in Calls, p.pos[c] = p.pos[d]
      PROVE  c = d
  BY <1>1, <1>4, PosInjective
<1>5. ASSUME NEW c \in p.calls, p.stage[c] # "fetch", p.source[c] \in p.calls
      PROVE  <<p.source[c], c>> \in p.deps
  BY <1>1, <1>5, SourceTypes, StepTypes DEF Waits
<1>6. NoCall \notin Calls
  BY PipelineTypes DEF NoSource, CallIds
<1> QED
  BY <1>2, <1>3, <1>4, <1>5, <1>6 DEF WellFormed

(* In a planned plan a call reads a call of the stage before its own.      *)
LEMMA PlannedStagesFollow == ASSUME NEW p, Planned(p), Calls = CallIds PROVE StagesFollow(p)
<1>1. ASSUME NEW c \in Calls
      PROVE  p.stage[c] = StageOfStep(c[2]) /\ p.source[c] = SourceOf(c)
  BY <1>1, PlannedShape
<1>2. ASSUME NEW c \in Calls, c[2] # "fetch"
      PROVE  SourceOf(c)[2] = SourceStep(c[2])
  BY <1>2 DEF SourceOf
<1>3. ASSUME NEW s \in Steps
      PROVE  /\ StageOfStep(s) = "extract" => StageOfStep(SourceStep(s)) = "fetch"
             /\ StageOfStep(s) = "derive" => StageOfStep(SourceStep(s)) = "extract"
             /\ StageOfStep(s) = "claim" => StageOfStep(SourceStep(s)) = "derive"
  BY <1>3 DEF Steps, ChainSteps, StageOfStep, SourceStep
<1> SUFFICES ASSUME NEW c \in Calls, p.source[c] \in Calls
             PROVE  /\ p.stage[c] = "extract" => p.stage[p.source[c]] = "fetch"
                    /\ p.stage[c] = "derive"  => p.stage[p.source[c]] = "extract"
                    /\ p.stage[c] = "claim"   => p.stage[p.source[c]] = "derive"
  BY DEF StagesFollow
<1>4. c[2] \in Steps
  BY SourceTypes
<1>5. CASE c[2] = "fetch"
  BY <1>1, <1>4, <1>5, StepTypes
<1>6. CASE c[2] # "fetch"
  <2>1. p.stage[p.source[c]] = StageOfStep(SourceStep(c[2]))
    BY <1>1, <1>2, <1>6
  <2> QED
    BY <1>1, <1>3, <1>4, <2>1
<1> QED
  BY <1>5, <1>6

(* A lookup settles the calls of its plan as the plan's dataflow promises. *)
THEOREM PlannedRunsImplement ==
    ASSUME Calls = CallIds, \A p \in Plans : Planned(p)
    PROVE  Spec => ImplementsDataflow
<1>1. \A p \in Plans : StagesFollow(p)
  BY PlannedStagesFollow
<1> QED
  BY <1>1, DataflowImplemented

(* In a planned plan calls wait for calls listed before them.              *)
LEMMA WaitsForEarlier ==
    ASSUME NEW p, Planned(p), NEW c, NEW d, <<d, c>> \in p.deps
    PROVE  c \in CallIds /\ d \in CallIds /\ p.pos[d] < p.pos[c]
<1>1. p.calls \subseteq CallIds /\ p.deps = {e \in Waits(p.calls) : e[1] \in p.calls}
  BY PlannedShape
<1>2. p.pos = [e \in CallIds |-> 6 * e[1] + Rank(e[2])]
  <2> DEFINE pos == [e \in CallIds |-> 6 * e[1] + Rank(e[2])]
  <2> HIDE DEF pos
  <2>1. p = [calls |-> p.calls, stage |-> [e \in CallIds |-> StageOfStep(e[2])],
             source |-> [e \in CallIds |-> SourceOf(e)], optional |-> CallIds \ Required,
             deps |-> p.deps, pos |-> pos]
    BY PlannedShape DEF pos
  <2>2. p.pos = pos
    BY <2>1
  <2> QED
    BY <2>2 DEF pos
<1>3. c \in CallIds /\ c[2] # "fetch" /\ d = SourceOf(c)
  BY <1>1 DEF Waits
<1>4. d \in CallIds /\ d[1] = c[1] /\ Rank(d[2]) < Rank(c[2])
  BY <1>3, SourceTypes
<1>5. c[1] \in Nat /\ Rank(c[2]) \in 1 .. 6 /\ Rank(d[2]) \in 1 .. 6
  BY <1>3, <1>4, SourceTypes, StepTypes, PipelineTypes
<1>6. 6 * d[1] + Rank(d[2]) < 6 * c[1] + Rank(c[2])
  BY <1>4, <1>5
<1> QED
  BY <1>2, <1>3, <1>4, <1>6

(* A required call is a fetch over HTTP.                                   *)
LEMMA RequiredAreHttp ==
    ASSUME NEW c \in Required
    PROVE  c[2] = "fetch" /\ Tool(c) \in HttpTools
<1> USE PlannerAssumption
<1>1. CASE c = <<1, "fetch">>
  <2>1. /\ 1 \in Heritage /\ 1 \notin Cdsl
        /\ \A k \in 1 .. 12 : 1 \notin Nth(k)
    BY DEF Heritage, Cdsl, Nth
  <2>2. Family(1) = "heritage"
    BY <2>1 DEF Family, Dico, Diogenes, Surface, Cts, Bailly, StrongsGreek, Spacy, Whitakers,
       Cltk, Gaffiot, Lewis1890
  <2> QED
    BY <1>1, <2>2 DEF Tool, HttpTools
<1>2. CASE c \in Diogenes \X {"fetch"}
  <2> DEFINE n == MaxVariants + Dicts + 2
  <2>1. c[1] = n /\ c[2] = "fetch"
    BY <1>2 DEF Diogenes, Nth
  <2>2. /\ n \notin Heritage /\ n \notin Cdsl /\ n \in Nth(2)
        /\ \A k \in 1 .. 12 : k # 2 => n \notin Nth(k)
    BY DEF Heritage, Cdsl, Nth
  <2> HIDE DEF n
  <2>3. Family(n) = "diogenes"
    BY <2>2 DEF Family, Dico, Diogenes, Surface, Cts, Bailly, StrongsGreek, Spacy, Whitakers,
       Cltk, Gaffiot, Lewis1890
  <2> QED
    BY <2>1, <2>3 DEF Tool, HttpTools
<1> QED
  BY <1>1, <1>2 DEF Required

(* A run of a planned plan never reports a dependency cycle: what is       *)
(* listed first among the calls still pending waits for none of them.      *)
THEOREM PlannedRunsNeverStick ==
    ASSUME Calls = CallIds, \A p \in Plans : Planned(p)
    PROVE  Spec => [](failure # "cycle")
<1>1. TypeOK /\ CycleIsReal => failure # "cycle"
  <2> SUFFICES ASSUME TypeOK, CycleIsReal, failure = "cycle" PROVE FALSE
    OBVIOUS
  <2>1. /\ Planned(plan) /\ plan \in PlanType
        /\ pending # {} /\ pending \subseteq Calls
        /\ \A c \in pending : \E d \in pending : <<d, c>> \in plan.deps
    BY PlanShape DEF TypeOK, CycleIsReal, Deps, PlanType
  <2> DEFINE places == {plan.pos[c] : c \in pending}
  <2>2. places \subseteq Nat /\ places # {}
    BY <2>1 DEF PlanType
  <2>3. PICK least \in places : \A n \in places : <<n, least>> \notin OpToRel(<, Nat)
    BY <2>2, WFMin, NatLessThanWellFounded, Zenon
  <2>4. PICK c \in pending : plan.pos[c] = least
    OBVIOUS
  <2>5. PICK d \in pending : <<d, c>> \in plan.deps
    BY <2>1
  <2>6. plan.pos[d] < plan.pos[c]
    BY <2>1, <2>5, WaitsForEarlier
  <2>7. <<plan.pos[d], least>> \in Nat \X Nat
    BY <2>1, <2>2
  <2>8. <<plan.pos[d], least>> \in OpToRel(<, Nat)
    BY <2>4, <2>6, <2>7, Zenon DEF OpToRel
  <2> QED
    BY <2>3, <2>8
<1> QED
  BY <1>1, TypeCorrect, CycleCorrect, PTL

(* The HTTP clients are there: they need nothing installed.                *)
Equipped == \A c \in plan.calls : Tool(c) \in HttpTools => c \in served

(* A lookup fails only because a client or a handler raises: no planned    *)
(* plan sticks, and none demands a call that nobody serves.                *)
THEOREM LookupFailures ==
    ASSUME Calls = CallIds, \A p \in Plans : Planned(p)
    PROVE  Spec /\ Equipped => [](failure \in {"none", "call_raised"})
<1> DEFINE Supplied == Equipped /\ failure # "required_missing"
<1>1. Init /\ Equipped => Supplied
  BY DEF Init
<1>2. RunInv /\ Supplied /\ [Next]_vars => Supplied'
  <2> SUFFICES ASSUME RunInv, Supplied, [Next]_vars PROVE Supplied'
    OBVIOUS
  <2>1. plan' = plan /\ served' = served
    BY StepShape DEF OutcomesGrow, rigid
  <2>2. plan.calls \subseteq CallIds /\ Planned(plan)
    BY PlanShape DEF RunInv, TypeOK, PlanType
  <2>3. ASSUME NEW c \in plan.calls
        PROVE  /\ plan.stage[c] # "unsupported"
               /\ c \notin plan.optional => c \in served /\ plan.stage[c] = "fetch"
    <3>1. plan.stage[c] = StageOfStep(c[2]) /\ plan.optional = CallIds \ Required
      BY <2>2, PlannedShape
    <3>2. c \in CallIds /\ c[2] \in Steps
      BY <2>2, SourceTypes
    <3> QED
      BY <3>1, <3>2, StepTypes, RequiredAreHttp DEF Equipped
  <2>4. failure' # "required_missing"
    <3>1. CASE RejectBatch
      BY <3>1, <2>3 DEF RejectBatch, ReadyFetches, Unobtainable, RunInv, TypeOK
    <3>2. ASSUME NEW c \in Calls, VisitReject(c) PROVE FALSE
      <4>1. /\ c \in plan.calls /\ ~Runnable(c)
            /\ plan.stage[c] = "unsupported" \/ c \notin plan.optional
        BY <3>2 DEF VisitReject, Visit, IsFirst, RunInv, TypeOK
      <4>2. plan.stage[c] = "fetch" /\ c \in served
        BY <4>1, <2>3
      <4> QED
        BY <4>1, <4>2 DEF Runnable, HasInput
    <3>3. CASE StartBatch \/ FinishBatch \/ Drained \/ StartPass \/ EndPass \/ Finish
      BY <3>3 DEF StartBatch, FinishBatch, Drained, StartPass, EndPass, Finish, Raise
    <3>4. ASSUME NEW c \in Calls,
                 \/ Collect(c) \/ CollectFailure(c) \/ VisitBlocked(c) \/ VisitCached(c)
                 \/ VisitSkip(c) \/ VisitRun(c) \/ VisitRaise(c) \/ PoolStep(c)
          PROVE  failure' # "required_missing"
      BY <3>4 DEF Collect, CollectFailure, VisitBlocked, VisitCached, VisitSkip, VisitRun,
         VisitRaise, PoolStep, BeginFetch, EndFetch, Handled, Raise
    <3>5. CASE UNCHANGED vars
      BY <3>5 DEF vars
    <3> QED
      BY <3>1, <3>2, <3>3, <3>4, <3>5 DEF Next, MainStep
  <2> QED
    BY <2>1, <2>4 DEF Equipped
<1>3. Spec => []RunInv
  BY RunInvariant
<1>4. Spec => [](failure # "cycle")
  BY PlannedRunsNeverStick
<1>5. RunInv /\ Supplied /\ failure # "cycle" => failure \in {"none", "call_raised"}
  BY DEF RunInv, TypeOK
<1> HIDE DEF Supplied
<1> QED
  BY <1>1, <1>2, <1>3, <1>4, <1>5, PTL DEF Spec
=============================================================================
