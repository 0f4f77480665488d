------------------------ MODULE RateLimitRollup_proofs ------------------------
(***************************************************************************)
(* Rollups are well-formed and lose no request and no second in which one  *)
(* was seen, for any number of servers, keys and retries.                  *)
(***************************************************************************)
EXTENDS RateLimitRollup, FiniteSetTheorems, WellFoundedInduction, TLAPS

(* Merging rows merges their seconds.                                      *)
LEMMA PlusType == ASSUME NEW a \in Rollup, NEW b \in Rollup
                  PROVE  Plus(a, b) \in Rollup /\ Plus(a, b).seconds = a.seconds \cup b.seconds
    BY DEF Plus, Rollup

LEMMA MergeType ==
    ASSUME NEW rows \in [Keys -> Rollup], NEW others \in [Keys -> Rollup]
    PROVE  Merge(rows, others) \in [Keys -> Rollup]
    BY PlusType DEF Merge

LEMMA MergeSeconds ==
    ASSUME NEW rows, NEW others, NEW k \in Keys
    PROVE  Merge(rows, others)[k].seconds = rows[k].seconds \cup others[k].seconds
    BY DEF Merge, Plus

LEMMA NoRowsType == /\ NoRows \in [Keys -> Rollup]
                    /\ \A k \in Keys : NoRows[k].seconds = {}
    BY DEF NoRows, Nothing, Rollup

(* Every rollup stays well-formed, retries stay within bounds.             *)
THEOREM RollupTypeCorrect == Spec => []TypeOK
<1>1. Init => TypeOK
    BY NoRowsType, RollupAssumption DEF Init, TypeOK
<1>2. TypeOK /\ [Next]_vars => TypeOK'
    <2> SUFFICES ASSUME TypeOK, [Next]_vars PROVE TypeOK'
        OBVIOUS
    <2> USE DEF TypeOK
    <2>1. ASSUME NEW s \in Servers, NEW k \in Keys, NEW second \in Seconds,
                 Observe(s, k, second)
          PROVE  TypeOK'
        <3> DEFINE one == [count |-> 1, seconds |-> {second}]
        <3>1. one \in Rollup
            BY DEF Rollup
        <3>2. Plus(memory[s][k], one) \in Rollup /\ Plus(observed[k], one) \in Rollup
            BY <3>1, PlusType
        <3>3. memory' = [memory EXCEPT ![s] = [memory[s] EXCEPT ![k] = Plus(memory[s][k], one)]]
            BY <2>1 DEF Observe
        <3>4. memory' \in [Servers -> [Keys -> Rollup]]
            BY <3>2, <3>3
        <3>5. observed' \in [Keys -> Rollup]
            BY <2>1, <3>2 DEF Observe
        <3> QED BY <2>1, <3>4, <3>5 DEF Observe
    <2>2. ASSUME NEW s \in Servers, FireTimer(s) PROVE TypeOK'
        <3>1. CASE ~flushing[s] /\ memory[s] # NoRows
            <4>1. /\ pending' = [pending EXCEPT ![s] = memory[s]]
                  /\ memory' = [memory EXCEPT ![s] = NoRows]
                  /\ retries' = [retries EXCEPT ![s] = 0]
                  /\ flushing' = [flushing EXCEPT ![s] = TRUE]
                BY <2>2, <3>1 DEF FireTimer
            <4>2. pending' \in [Servers -> [Keys -> Rollup]]
                BY <4>1
            <4>3. memory' \in [Servers -> [Keys -> Rollup]]
                BY <4>1, NoRowsType
            <4>4. retries' \in [Servers -> 0..MaxRetries]
                BY <4>1, RollupAssumption
            <4> QED BY <2>2, <4>1, <4>2, <4>3, <4>4 DEF FireTimer
        <3>2. CASE ~(~flushing[s] /\ memory[s] # NoRows)
            BY <2>2, <3>2 DEF FireTimer
        <3> QED BY <3>1, <3>2
    <2>3. ASSUME NEW s \in Servers, Write(s) PROVE TypeOK'
        <3>1. Merge(table, pending[s]) \in [Keys -> Rollup]
            BY MergeType
        <3> QED BY <2>3, <3>1, NoRowsType DEF Write
    <2>4. ASSUME NEW s \in Servers, Retry(s) PROVE TypeOK'
        BY <2>4, RollupAssumption DEF Retry
    <2>5. ASSUME NEW s \in Servers, GiveUp(s) PROVE TypeOK'
        <3>1. Merge(memory[s], pending[s]) \in [Keys -> Rollup]
            BY MergeType
        <3> QED BY <2>5, <3>1, NoRowsType DEF GiveUp
    <2>6. ASSUME NEW s \in Servers, Crash(s) PROVE TypeOK'
        <3>1. /\ Merge(table, pending[s]) \in [Keys -> Rollup]
              /\ Merge(memory[s], pending[s]) \in [Keys -> Rollup]
            BY MergeType
        <3>2. /\ Merge(lost, memory[s]) \in [Keys -> Rollup]
              /\ Merge(lost, Merge(memory[s], pending[s])) \in [Keys -> Rollup]
            BY <3>1, MergeType
        <3>3. table' \in [Keys -> Rollup] /\ lost' \in [Keys -> Rollup]
            BY <2>6, <3>1, <3>2 DEF Crash
        <3> QED BY <2>6, <3>3, NoRowsType, RollupAssumption DEF Crash
    <2>7. CASE UNCHANGED vars
        BY <2>7 DEF vars
    <2> QED BY <2>1, <2>2, <2>3, <2>4, <2>5, <2>6, <2>7 DEF Next, Flush
<1> QED BY <1>1, <1>2, PTL DEF Spec

(* Rows are in flight only while the server knows of it.                   *)
InFlightIsKnown == \A s \in Servers : ~flushing[s] => pending[s] = NoRows

(* A server has rows in flight only while its flushPromise is set, so that *)
(* the next flush overwrites none.                                         *)
THEOREM InFlightCorrect == Spec => []InFlightIsKnown
<1>1. Init => InFlightIsKnown
    BY DEF Init, InFlightIsKnown
<1>2. TypeOK /\ InFlightIsKnown /\ [Next]_vars => InFlightIsKnown'
    <2> SUFFICES ASSUME TypeOK, InFlightIsKnown, [Next]_vars,
                        NEW t \in Servers, ~flushing'[t]
                 PROVE  pending'[t] = NoRows
        BY DEF InFlightIsKnown
    <2> USE DEF TypeOK, InFlightIsKnown
    <2>1. ASSUME NEW s \in Servers, NEW k \in Keys, NEW second \in Seconds,
                 Observe(s, k, second)
          PROVE  pending'[t] = NoRows
        BY <2>1 DEF Observe
    <2>2. ASSUME NEW s \in Servers, FireTimer(s) PROVE pending'[t] = NoRows
        BY <2>2 DEF FireTimer
    <2>3. ASSUME NEW s \in Servers, Flush(s) PROVE pending'[t] = NoRows
        BY <2>3 DEF Flush, Write, Retry, GiveUp
    <2>4. ASSUME NEW s \in Servers, Crash(s) PROVE pending'[t] = NoRows
        BY <2>4 DEF Crash
    <2>5. CASE UNCHANGED vars
        BY <2>5 DEF vars
    <2> QED BY <2>1, <2>2, <2>3, <2>4, <2>5 DEF Next
<1> QED BY <1>1, <1>2, RollupTypeCorrect, PTL DEF Spec

(* No second is dropped, and none appears that was not observed.           *)
THEOREM SecondsCorrect == Spec => []SecondsConserved
<1> DEFINE SecondsHeld(s, k) == memory[s][k].seconds \cup pending[s][k].seconds
<1>1. Init => SecondsConserved
    BY NoRowsType DEF Init, SecondsConserved
<1>2. TypeOK /\ TypeOK' /\ InFlightIsKnown /\ SecondsConserved /\ [Next]_vars
         => SecondsConserved'
    <2> SUFFICES ASSUME TypeOK, TypeOK', InFlightIsKnown, SecondsConserved, [Next]_vars,
                        NEW k \in Keys
                 PROVE  observed'[k].seconds =
                            table'[k].seconds \cup lost'[k].seconds
                            \cup UNION {SecondsHeld(s, k)' : s \in Servers}
        BY DEF SecondsConserved
    <2> USE DEF TypeOK
    <2> DEFINE Rest(s) == UNION {SecondsHeld(t, k) : t \in Servers \ {s}}
               Goal == observed'[k].seconds =
                          table'[k].seconds \cup lost'[k].seconds
                          \cup UNION {SecondsHeld(s, k)' : s \in Servers}
    <2>0. \A s \in Servers :
             observed[k].seconds =
                table[k].seconds \cup lost[k].seconds \cup SecondsHeld(s, k) \cup Rest(s)
        BY DEF SecondsConserved
    (* A step of s alone keeps what the others hold.                       *)
    <2>a. ASSUME NEW s \in Servers,
                 \A t \in Servers \ {s} : memory'[t] = memory[t] /\ pending'[t] = pending[t],
                 observed'[k].seconds =
                    table'[k].seconds \cup lost'[k].seconds \cup SecondsHeld(s, k)' \cup Rest(s)
          PROVE  Goal
        <3>1. \A t \in Servers \ {s} : SecondsHeld(t, k)' = SecondsHeld(t, k)
            BY <2>a
        <3>2. UNION {SecondsHeld(t, k)' : t \in Servers}
                 = SecondsHeld(s, k)' \cup UNION {SecondsHeld(t, k)' : t \in Servers \ {s}}
            OBVIOUS
        <3>3. {SecondsHeld(t, k)' : t \in Servers \ {s}} = {SecondsHeld(t, k) : t \in Servers \ {s}}
            BY <3>1
        <3> QED BY <2>a, <3>2, <3>3
    <2>1. ASSUME NEW s \in Servers, NEW j \in Keys, NEW second \in Seconds,
                 Observe(s, j, second)
          PROVE  Goal
        <3> DEFINE one == [count |-> 1, seconds |-> {second}]
                   new == IF k = j THEN {second} ELSE {}
        <3>1. /\ Plus(memory[s][j], one).seconds = memory[s][j].seconds \cup {second}
              /\ Plus(observed[j], one).seconds = observed[j].seconds \cup {second}
            BY DEF Plus
        <3>2. \A t \in Servers \ {s} : memory'[t] = memory[t] /\ pending'[t] = pending[t]
            BY <2>1 DEF Observe
        <3>3. memory'[s] = [memory[s] EXCEPT ![j] = Plus(memory[s][j], one)]
            BY <2>1 DEF Observe
        <3>4. memory'[s][k].seconds = memory[s][k].seconds \cup new
            BY <3>1, <3>3
        <3>5. SecondsHeld(s, k)' = SecondsHeld(s, k) \cup new
            BY <2>1, <3>4 DEF Observe
        <3>6. observed'[k].seconds = observed[k].seconds \cup new
            BY <2>1, <3>1 DEF Observe
        <3>7. table' = table /\ lost' = lost
            BY <2>1 DEF Observe
        <3> HIDE DEF SecondsHeld, Rest, new
        <3>8. observed'[k].seconds =
                 table'[k].seconds \cup lost'[k].seconds \cup SecondsHeld(s, k)' \cup Rest(s)
            BY <2>0, <3>5, <3>6, <3>7
        <3> QED BY <2>a, <3>2, <3>8
    <2>2. ASSUME NEW s \in Servers, FireTimer(s) PROVE Goal
        <3>1. \A t \in Servers \ {s} : memory'[t] = memory[t] /\ pending'[t] = pending[t]
            BY <2>2 DEF FireTimer
        <3>2. SecondsHeld(s, k)' = SecondsHeld(s, k)
            BY <2>2, NoRowsType DEF FireTimer, InFlightIsKnown
        <3>3. table' = table /\ lost' = lost /\ observed' = observed
            BY <2>2 DEF FireTimer
        <3> HIDE DEF SecondsHeld, Rest
        <3>4. observed'[k].seconds =
                 table'[k].seconds \cup lost'[k].seconds \cup SecondsHeld(s, k)' \cup Rest(s)
            BY <2>0, <3>2, <3>3
        <3> QED BY <2>a, <3>1, <3>4
    <2>3. ASSUME NEW s \in Servers, Write(s) PROVE Goal
        <3>1. \A t \in Servers \ {s} : memory'[t] = memory[t] /\ pending'[t] = pending[t]
            BY <2>3 DEF Write
        <3>2. table'[k].seconds = table[k].seconds \cup pending[s][k].seconds
            <4>1. table' = Merge(table, pending[s])
                BY <2>3 DEF Write
            <4> QED BY <4>1, MergeSeconds
        <3>3. pending'[s] = NoRows /\ memory' = memory
            BY <2>3 DEF Write
        <3>4. SecondsHeld(s, k)' = memory[s][k].seconds
            BY <3>3, NoRowsType
        <3>5. lost' = lost /\ observed' = observed
            BY <2>3 DEF Write
        <3>6. SecondsHeld(s, k) = memory[s][k].seconds \cup pending[s][k].seconds
            OBVIOUS
        <3> HIDE DEF SecondsHeld, Rest
        <3>7. observed'[k].seconds =
                 table'[k].seconds \cup lost'[k].seconds \cup SecondsHeld(s, k)' \cup Rest(s)
            BY <2>0, <3>2, <3>4, <3>5, <3>6
        <3> QED BY <2>a, <3>1, <3>7
    <2>4. ASSUME NEW s \in Servers, Retry(s) PROVE Goal
        <3>1. /\ memory' = memory /\ pending' = pending
              /\ table' = table /\ lost' = lost /\ observed' = observed
            BY <2>4 DEF Retry
        <3> QED BY <2>0, <2>a, <3>1
    <2>5. ASSUME NEW s \in Servers, GiveUp(s) PROVE Goal
        <3>1. \A t \in Servers \ {s} : memory'[t] = memory[t] /\ pending'[t] = pending[t]
            BY <2>5 DEF GiveUp
        <3>2. memory'[s] = Merge(memory[s], pending[s]) /\ pending'[s] = NoRows
            BY <2>5 DEF GiveUp
        <3>3. SecondsHeld(s, k)' = SecondsHeld(s, k)
            BY <3>2, MergeSeconds, NoRowsType
        <3>4. table' = table /\ lost' = lost /\ observed' = observed
            BY <2>5 DEF GiveUp
        <3> HIDE DEF SecondsHeld, Rest
        <3>5. observed'[k].seconds =
                 table'[k].seconds \cup lost'[k].seconds \cup SecondsHeld(s, k)' \cup Rest(s)
            BY <2>0, <3>3, <3>4
        <3> QED BY <2>a, <3>1, <3>5
    <2>6. ASSUME NEW s \in Servers, Crash(s) PROVE Goal
        <3>1. \A t \in Servers \ {s} : memory'[t] = memory[t] /\ pending'[t] = pending[t]
            BY <2>6 DEF Crash
        <3>2. memory'[s] = NoRows /\ pending'[s] = NoRows
            BY <2>6 DEF Crash
        <3>3. SecondsHeld(s, k)' = {}
            BY <3>2, NoRowsType
        <3>4. table'[k].seconds \cup lost'[k].seconds
                 = table[k].seconds \cup lost[k].seconds \cup SecondsHeld(s, k)
            <4>1. CASE /\ table' = Merge(table, pending[s])
                       /\ lost' = Merge(lost, memory[s])
                <5>1. /\ table'[k].seconds = table[k].seconds \cup pending[s][k].seconds
                      /\ lost'[k].seconds = lost[k].seconds \cup memory[s][k].seconds
                    BY <4>1, MergeSeconds
                <5> QED BY <5>1
            <4>2. CASE /\ table' = table
                       /\ lost' = Merge(lost, Merge(memory[s], pending[s]))
                <5>1. lost'[k].seconds = lost[k].seconds \cup Merge(memory[s], pending[s])[k].seconds
                    BY <4>2, MergeSeconds
                <5>2. Merge(memory[s], pending[s])[k].seconds = SecondsHeld(s, k)
                    BY MergeSeconds
                <5> QED BY <4>2, <5>1, <5>2
            <4> QED BY <2>6, <4>1, <4>2 DEF Crash
        <3>5. observed' = observed
            BY <2>6 DEF Crash
        <3> HIDE DEF SecondsHeld, Rest
        <3>6. observed'[k].seconds =
                 table'[k].seconds \cup lost'[k].seconds \cup SecondsHeld(s, k)' \cup Rest(s)
            BY <2>0, <3>3, <3>4, <3>5
        <3> QED BY <2>a, <3>1, <3>6
    <2>7. CASE UNCHANGED vars
        BY <2>7 DEF vars, SecondsConserved
    <2> QED BY <2>1, <2>2, <2>3, <2>4, <2>5, <2>6, <2>7 DEF Next, Flush
<1> QED BY <1>1, <1>2, RollupTypeCorrect, InFlightCorrect, PTL DEF Spec

-----------------------------------------------------------------------------
(* Sums over a finite set.                                                 *)

(* The library sums by a recursive function over the subsets of a set,     *)
(* which takes away one chosen element at a time.                          *)
Pick(T) == CHOOSE x \in T : TRUE
Sums(f, T, w) ==
    f = [U \in SUBSET T |-> IF U = {} THEN 0 ELSE w[Pick(U)] + f[U \ {Pick(U)}]]
Total(T, w) == (CHOOSE f : Sums(f, T, w))[T]

LEMMA Picked == ASSUME NEW T, T # {} PROVE Pick(T) \in T
BY DEF Pick

LEMMA LeastSet ==
    ASSUME NEW S, IsFiniteSet(S), NEW bad, bad \subseteq SUBSET S, bad # {}
    PROVE  \E m \in bad : \A V \in SUBSET m : V # m => V \notin bad
<1> DEFINE R == StrictSubsetOrdering(S)
<1>1. IsWellFoundedOn(R, SUBSET S)
  BY FS_StrictSubsetOrderingWellFounded, FS_FiniteSubsetsOfFinite
<1> HIDE DEF R
<1>2. PICK m \in bad : \A l \in bad : ~ (<<l, m>> \in R)
  BY <1>1, WFMin
<1>3. ASSUME NEW V \in SUBSET m, V # m, V \in bad PROVE FALSE
  <2>1. <<V, m>> \in R
    BY <1>3 DEF R, StrictSubsetOrdering
  <2> QED
    BY <1>2, <1>3, <2>1
<1> QED
  BY <1>2, <1>3

LEMMA SumsAt ==
    ASSUME NEW T, NEW w, NEW f, Sums(f, T, w), NEW U \in SUBSET T
    PROVE  f[U] = IF U = {} THEN 0 ELSE w[Pick(U)] + f[U \ {Pick(U)}]
BY Zenon DEF Sums

LEMMA SumsAgree ==
    ASSUME NEW T, IsFiniteSet(T), NEW w, NEW S, NEW f, NEW g, Sums(f, T, w), Sums(g, S, w),
           NEW U \in SUBSET (S \cap T)
    PROVE  f[U] = g[U]
<1> DEFINE bad == {V \in SUBSET (S \cap T) : f[V] # g[V]}
<1> SUFFICES ASSUME bad # {} PROVE FALSE
  OBVIOUS
<1>1. PICK m \in bad : \A V \in SUBSET m : V # m => V \notin bad
  <2>1. bad \subseteq SUBSET T
    OBVIOUS
  <2> HIDE DEF bad
  <2> QED
    BY <2>1, LeastSet
<1>2. m \in SUBSET T /\ m \in SUBSET S
  OBVIOUS
<1>3. CASE m = {}
  BY <1>2, <1>3, SumsAt
<1>4. CASE m # {}
  <2>1. m \ {Pick(m)} \in SUBSET m /\ m \ {Pick(m)} # m
    BY <1>4, Picked
  <2>2. f[m \ {Pick(m)}] = g[m \ {Pick(m)}]
    BY <1>1, <2>1
  <2>3. f[m] = w[Pick(m)] + f[m \ {Pick(m)}] /\ g[m] = w[Pick(m)] + g[m \ {Pick(m)}]
    BY <1>2, <1>4, SumsAt
  <2> QED
    BY <2>2, <2>3
<1> QED
  BY <1>3, <1>4

LEMMA SumsExist == ASSUME NEW T, IsFiniteSet(T), NEW w PROVE \E f : Sums(f, T, w)
<1> DEFINE bad == {V \in SUBSET T : ~ \E f : Sums(f, V, w)}
<1> SUFFICES ASSUME bad # {} PROVE FALSE
  BY DEF bad
<1>1. PICK m \in bad : \A V \in SUBSET m : V # m => V \notin bad
  <2>1. bad \subseteq SUBSET T
    OBVIOUS
  <2> HIDE DEF bad
  <2> QED
    BY <2>1, LeastSet
<1> DEFINE h(V) == CHOOSE f : Sums(f, V, w)
           g    == [V \in SUBSET m |->
                      IF V = {} THEN 0 ELSE w[Pick(V)] + h(V \ {Pick(V)})[V \ {Pick(V)}]]
<1>2. ASSUME NEW V \in SUBSET m, V # m PROVE Sums(h(V), V, w) /\ IsFiniteSet(V)
  <2>1. V \in SUBSET T
    BY DEF bad
  <2>2. \E f : Sums(f, V, w)
    BY <1>1, <1>2, <2>1 DEF bad
  <2> QED
    BY <2>1, <2>2, FS_Subset
<1>3. ASSUME NEW V \in SUBSET m, V # m PROVE g[V] = h(V)[V]
  <2>1. CASE V = {}
    BY <1>2, <1>3, <2>1, SumsAt
  <2>2. CASE V # {}
    <3>1. V \ {Pick(V)} \in SUBSET m /\ V \ {Pick(V)} # m /\ V \ {Pick(V)} \in SUBSET V
      BY <1>3
    <3>2. /\ Sums(h(V), V, w) /\ IsFiniteSet(V)
          /\ Sums(h(V \ {Pick(V)}), V \ {Pick(V)}, w)
      BY <1>2, <1>3, <3>1
    <3> HIDE DEF h
    <3>3. h(V)[V \ {Pick(V)}] = h(V \ {Pick(V)})[V \ {Pick(V)}]
      BY <3>1, <3>2, SumsAgree
    <3>4. h(V)[V] = w[Pick(V)] + h(V)[V \ {Pick(V)}]
      BY <2>2, <3>2, SumsAt
    <3>5. g[V] = w[Pick(V)] + h(V \ {Pick(V)})[V \ {Pick(V)}]
      BY <2>2
    <3> QED
      BY <3>3, <3>4, <3>5
  <2> QED
    BY <2>1, <2>2
<1>4. ASSUME NEW V \in SUBSET m, V # {}
      PROVE  h(V \ {Pick(V)})[V \ {Pick(V)}] = g[V \ {Pick(V)}]
  <2>1. V \ {Pick(V)} \in SUBSET m /\ V \ {Pick(V)} # m
    BY <1>4, Picked
  <2> HIDE DEF g, h
  <2> QED
    BY <1>3, <2>1
<1> DEFINE k == [V \in SUBSET m |-> IF V = {} THEN 0 ELSE w[Pick(V)] + g[V \ {Pick(V)}]]
<1>5. ASSUME NEW V \in SUBSET m PROVE g[V] = k[V]
  <2>1. g[V] = IF V = {} THEN 0 ELSE w[Pick(V)] + h(V \ {Pick(V)})[V \ {Pick(V)}]
    OBVIOUS
  <2>2. k[V] = IF V = {} THEN 0 ELSE w[Pick(V)] + g[V \ {Pick(V)}]
    OBVIOUS
  <2> HIDE DEF g, h, k
  <2> QED
    BY <1>4, <2>1, <2>2
<1>6. g = k
  BY <1>5
<1> QED
  <2>1. Sums(g, m, w)
    BY <1>6, Zenon DEF Sums
  <2>2. m \in bad
    BY <1>1
  <2> HIDE DEF g, h
  <2> QED
    BY <2>1, <2>2 DEF bad

(* A sum over a finite set, one chosen element at a time.                  *)
LEMMA TotalStep ==
    ASSUME NEW T, IsFiniteSet(T), NEW w
    PROVE  Total(T, w) = IF T = {} THEN 0 ELSE w[Pick(T)] + Total(T \ {Pick(T)}, w)
<1> DEFINE h(V) == CHOOSE f : Sums(f, V, w)
<1>1. \A V \in SUBSET T : Sums(h(V), V, w)
  BY SumsExist, FS_Subset
<1>2. \A V : Total(V, w) = h(V)[V]
  BY DEF Total
<1> HIDE DEF h
<1>3. CASE T = {}
  BY <1>1, <1>2, <1>3, SumsAt
<1>4. CASE T # {}
  <2> DEFINE V == T \ {Pick(T)}
  <2>1. V \in SUBSET T /\ IsFiniteSet(V)
    BY FS_Subset
  <2>2. h(T)[T] = w[Pick(T)] + h(T)[V]
    BY <1>1, <1>4, SumsAt
  <2>3. h(T)[V] = h(V)[V]
    <3>1. Sums(h(T), T, w) /\ Sums(h(V), V, w)
      BY <1>1, <2>1
    <3> HIDE DEF V
    <3> QED
      BY <2>1, <3>1, SumsAgree
  <2> QED
    BY <1>2, <1>4, <2>2, <2>3
<1> QED
  BY <1>3, <1>4

LEMMA TotalType ==
    ASSUME NEW T, IsFiniteSet(T), NEW w, \A x \in T : w[x] \in Nat
    PROVE  Total(T, w) \in Nat
<1> DEFINE bad == {V \in SUBSET T : Total(V, w) \notin Nat}
<1> SUFFICES ASSUME bad # {} PROVE FALSE
  BY DEF bad
<1>1. PICK m \in bad : \A V \in SUBSET m : V # m => V \notin bad
  <2>1. bad \subseteq SUBSET T
    OBVIOUS
  <2> HIDE DEF bad
  <2> QED
    BY <2>1, LeastSet
<1>2. m \in SUBSET T /\ IsFiniteSet(m) /\ Total(m, w) \notin Nat
  BY FS_Subset DEF bad
<1>3. m # {} /\ Total(m, w) = w[Pick(m)] + Total(m \ {Pick(m)}, w)
  <2>1. Total(m, w) = IF m = {} THEN 0 ELSE w[Pick(m)] + Total(m \ {Pick(m)}, w)
    BY <1>2, TotalStep
  <2> QED
    BY <1>2, <2>1
<1>4. Pick(m) \in m
  BY <1>3, Picked
<1>5. m \ {Pick(m)} \in SUBSET m /\ m \ {Pick(m)} # m
  BY <1>4
<1>6. m \ {Pick(m)} \in SUBSET T
  BY <1>2
<1>7. Total(m \ {Pick(m)}, w) \in Nat
  BY <1>1, <1>5, <1>6 DEF bad
<1> QED
  BY <1>2, <1>3, <1>4, <1>7

(* Any element can be taken first.                                         *)
LEMMA TotalWithout ==
    ASSUME NEW T, IsFiniteSet(T), NEW w, \A x \in T : w[x] \in Nat, NEW s \in T
    PROVE  Total(T, w) = w[s] + Total(T \ {s}, w)
<1> DEFINE bad == {V \in SUBSET T : \E x \in V : Total(V, w) # w[x] + Total(V \ {x}, w)}
<1> SUFFICES ASSUME bad # {} PROVE FALSE
  BY DEF bad
<1>1. PICK m \in bad : \A V \in SUBSET m : V # m => V \notin bad
  <2>1. bad \subseteq SUBSET T
    OBVIOUS
  <2> HIDE DEF bad
  <2> QED
    BY <2>1, LeastSet
<1>2. PICK x \in m : Total(m, w) # w[x] + Total(m \ {x}, w)
  BY DEF bad
<1> DEFINE c == Pick(m)
<1>3. m \in SUBSET T /\ IsFiniteSet(m) /\ c \in m
  BY <1>2, Picked, FS_Subset DEF bad
<1>4. Total(m, w) = w[c] + Total(m \ {c}, w)
  BY <1>3, TotalStep
<1>5. c # x
  BY <1>2, <1>4
<1> HIDE DEF c
<1>6. ASSUME NEW y \in m, NEW z \in m, y # z
      PROVE  Total(m \ {y}, w) = w[z] + Total((m \ {y}) \ {z}, w)
  <2>1. m \ {y} \in SUBSET m /\ m \ {y} # m /\ m \ {y} \in SUBSET T /\ z \in m \ {y}
    BY <1>3, <1>6
  <2> QED
    BY <1>1, <2>1 DEF bad
<1>7. Total(m \ {c}, w) = w[x] + Total((m \ {c}) \ {x}, w)
  BY <1>3, <1>5, <1>6
<1>8. Total(m \ {x}, w) = w[c] + Total((m \ {x}) \ {c}, w)
  BY <1>3, <1>5, <1>6
<1>9. (m \ {c}) \ {x} = (m \ {x}) \ {c}
  OBVIOUS
<1>10. w[c] \in Nat /\ w[x] \in Nat /\ Total((m \ {c}) \ {x}, w) \in Nat
  <2>1. (m \ {c}) \ {x} \in SUBSET T
    BY <1>3
  <2> QED
    BY <1>2, <1>3, <2>1, TotalType, FS_Subset
<1> DEFINE rest == Total((m \ {c}) \ {x}, w)
<1>11. Total(m, w) = w[c] + (w[x] + rest) /\ Total(m \ {x}, w) = w[c] + rest
  BY <1>4, <1>7, <1>8, <1>9
<1>12. rest \in Nat
  BY <1>10
<1> HIDE DEF rest
<1>13. Total(m, w) = w[x] + Total(m \ {x}, w)
  BY <1>10, <1>11, <1>12
<1> QED
  BY <1>2, <1>13

LEMMA TotalSame ==
    ASSUME NEW T, IsFiniteSet(T), NEW w, NEW v, \A x \in T : w[x] = v[x]
    PROVE  Total(T, w) = Total(T, v)
<1> DEFINE bad == {V \in SUBSET T : Total(V, w) # Total(V, v)}
<1> SUFFICES ASSUME bad # {} PROVE FALSE
  BY DEF bad
<1>1. PICK m \in bad : \A V \in SUBSET m : V # m => V \notin bad
  <2>1. bad \subseteq SUBSET T
    OBVIOUS
  <2> HIDE DEF bad
  <2> QED
    BY <2>1, LeastSet
<1>2. m \in SUBSET T /\ IsFiniteSet(m) /\ Total(m, w) # Total(m, v)
  BY FS_Subset DEF bad
<1>3. m # {} /\ Total(m, w) = w[Pick(m)] + Total(m \ {Pick(m)}, w)
             /\ Total(m, v) = v[Pick(m)] + Total(m \ {Pick(m)}, v)
  BY <1>2, TotalStep
<1>4. Pick(m) \in m
  BY <1>3, Picked
<1>5. m \ {Pick(m)} \in SUBSET m /\ m \ {Pick(m)} # m /\ m \ {Pick(m)} \in SUBSET T
  BY <1>2, <1>4
<1>6. Total(m \ {Pick(m)}, w) = Total(m \ {Pick(m)}, v)
  BY <1>1, <1>5 DEF bad
<1> QED
  BY <1>2, <1>3, <1>4, <1>6

(* Where one summand changes, the sum changes by as much.                  *)
LEMMA TotalChange ==
    ASSUME NEW T, IsFiniteSet(T), NEW w, \A x \in T : w[x] \in Nat,
           NEW v, \A x \in T : v[x] \in Nat,
           NEW s \in T, \A x \in T \ {s} : w[x] = v[x]
    PROVE  /\ Total(T, w) + v[s] = Total(T, v) + w[s]
           /\ Total(T, w) \in Nat /\ Total(T, v) \in Nat
<1>1. IsFiniteSet(T \ {s})
  BY FS_RemoveElement
<1>2. Total(T, w) = w[s] + Total(T \ {s}, w) /\ Total(T, v) = v[s] + Total(T \ {s}, v)
  BY TotalWithout
<1>3. Total(T \ {s}, w) = Total(T \ {s}, v) /\ Total(T \ {s}, w) \in Nat
  BY <1>1, TotalSame, TotalType
<1> QED
  BY <1>2, <1>3, TotalType

LEMMA TotalZero ==
    ASSUME NEW T, IsFiniteSet(T), NEW w, \A x \in T : w[x] = 0
    PROVE  Total(T, w) = 0
<1> DEFINE bad == {V \in SUBSET T : Total(V, w) # 0}
<1> SUFFICES ASSUME bad # {} PROVE FALSE
  BY DEF bad
<1>1. PICK m \in bad : \A V \in SUBSET m : V # m => V \notin bad
  <2>1. bad \subseteq SUBSET T
    OBVIOUS
  <2> HIDE DEF bad
  <2> QED
    BY <2>1, LeastSet
<1>2. m \in SUBSET T /\ IsFiniteSet(m) /\ Total(m, w) # 0
  BY FS_Subset DEF bad
<1>3. m # {} /\ Total(m, w) = w[Pick(m)] + Total(m \ {Pick(m)}, w)
  BY <1>2, TotalStep
<1>4. Pick(m) \in m
  BY <1>3, Picked
<1>5. m \ {Pick(m)} \in SUBSET m /\ m \ {Pick(m)} # m /\ m \ {Pick(m)} \in SUBSET T
  BY <1>2, <1>4
<1>6. Total(m \ {Pick(m)}, w) = 0
  BY <1>1, <1>5 DEF bad
<1> QED
  BY <1>2, <1>3, <1>4, <1>6

-----------------------------------------------------------------------------
(* What a server holds of each key, in memory and in flight.               *)
HeldCount(k) == [s \in Servers |-> memory[s][k].count + pending[s][k].count]

Balanced(k) == observed[k].count = table[k].count + lost[k].count + Total(Servers, HeldCount(k))

LEMMA HeldIsTotal ==
    ASSUME NEW k
    PROVE  Held(k) = Total(Servers, HeldCount(k)) /\ Held(k)' = Total(Servers, HeldCount(k)')
BY Zenon DEF Held, MapThenSumSet, MapThenFoldSet, Total, Sums, HeldCount, Pick

LEMMA ConservedIsBalanced ==
    /\ Conserved <=> \A k \in Keys : Balanced(k)
    /\ Conserved' <=> \A k \in Keys : Balanced(k)'
BY HeldIsTotal DEF Conserved, Balanced

(* What a step of s brings in, it brings into what s holds, the table or   *)
(* the losses; what it takes from one of these, it adds to another.        *)
Accounted(s, k) ==
    /\ \A t \in Servers \ {s} : memory'[t] = memory[t] /\ pending'[t] = pending[t]
    /\ observed'[k].count + table[k].count + lost[k].count + HeldCount(k)[s]
          = observed[k].count + table'[k].count + lost'[k].count + HeldCount(k)'[s]

LEMMA CountTypes ==
    ASSUME TypeOK, NEW k \in Keys
    PROVE  /\ \A s \in Servers : memory[s][k].count \in Nat /\ pending[s][k].count \in Nat
           /\ \A s \in Servers :
                 /\ HeldCount(k)[s] = memory[s][k].count + pending[s][k].count
                 /\ HeldCount(k)[s] \in Nat
           /\ table[k].count \in Nat /\ lost[k].count \in Nat /\ observed[k].count \in Nat
<1>1. \A s \in Servers : memory[s][k] \in Rollup /\ pending[s][k] \in Rollup
  BY DEF TypeOK
<1>2. table[k] \in Rollup /\ lost[k] \in Rollup /\ observed[k] \in Rollup
  BY DEF TypeOK
<1>3. \A row \in Rollup : row.count \in Nat
  BY DEF Rollup
<1>4. \A s \in Servers : memory[s][k].count \in Nat /\ pending[s][k].count \in Nat
  BY <1>1, <1>3
<1>5. \A s \in Servers : HeldCount(k)[s] = memory[s][k].count + pending[s][k].count
  BY DEF HeldCount
<1> QED
  BY <1>2, <1>3, <1>4, <1>5

LEMMA Balances ==
    ASSUME NEW o \in Nat, NEW p \in Nat, NEW a \in Nat, NEW b \in Nat,
           NEW x \in Nat, NEW y \in Nat,
           NEW before \in Nat, NEW after \in Nat,
           NEW gone \in Nat, NEW come \in Nat,
           before + come = after + gone, o = a + x + before,
           p + a + x + gone = o + b + y + come
    PROVE  p = b + y + after
OBVIOUS

LEMMA BalanceKept ==
    ASSUME TypeOK, TypeOK', NEW k \in Keys, Balanced(k), NEW s \in Servers, Accounted(s, k)
    PROVE  Balanced(k)'
<1> DEFINE w == HeldCount(k)
           v == HeldCount(k)'
<1>1. /\ \A t \in Servers : w[t] \in Nat
      /\ table[k].count \in Nat /\ lost[k].count \in Nat /\ observed[k].count \in Nat
  BY CountTypes
<1>2. \A t \in Servers \ {s} : w[t] = v[t]
  BY DEF Accounted, HeldCount
<1>3. /\ \A t \in Servers : v[t] \in Nat
      /\ table'[k].count \in Nat /\ lost'[k].count \in Nat /\ observed'[k].count \in Nat
  <2>1. \A t \in Servers \ {s} : v[t] \in Nat
    BY <1>1, <1>2
  <2>2. \A row \in Rollup : row.count \in Nat
    BY DEF Rollup
  <2>3. /\ memory'[s][k] \in Rollup /\ pending'[s][k] \in Rollup
        /\ table'[k] \in Rollup /\ lost'[k] \in Rollup /\ observed'[k] \in Rollup
    BY DEF TypeOK
  <2>4. v[s] = memory'[s][k].count + pending'[s][k].count
    BY DEF HeldCount
  <2> QED
    BY <2>1, <2>2, <2>3, <2>4
<1>4. /\ Total(Servers, w) + v[s] = Total(Servers, v) + w[s]
      /\ Total(Servers, w) \in Nat /\ Total(Servers, v) \in Nat
  <2> HIDE DEF w, v
  <2> QED
    BY <1>1, <1>2, <1>3, TotalChange, RollupAssumption
<1>5. observed[k].count = table[k].count + lost[k].count + Total(Servers, w)
  BY DEF Balanced
<1>6. observed'[k].count + table[k].count + lost[k].count + w[s]
         = observed[k].count + table'[k].count + lost'[k].count + v[s]
  BY DEF Accounted
<1> HIDE DEF w, v
<1>7. observed'[k].count = table'[k].count + lost'[k].count + Total(Servers, v)
  BY <1>1, <1>3, <1>4, <1>5, <1>6, Balances
<1> QED
  BY <1>7 DEF Balanced, v

LEMMA MergeCount ==
    ASSUME NEW rows, NEW others, NEW k \in Keys
    PROVE  Merge(rows, others)[k].count = rows[k].count + others[k].count
BY DEF Merge, Plus

LEMMA NoRowsCount == \A k \in Keys : NoRows[k].count = 0
BY DEF NoRows, Nothing

LEMMA ObserveAccounted ==
    ASSUME TypeOK, NEW k \in Keys, NEW s \in Servers, NEW j \in Keys, NEW second \in Seconds,
           Observe(s, j, second)
    PROVE  Accounted(s, k)
<1> DEFINE one == [count |-> 1, seconds |-> {second}]
           new == IF k = j THEN 1 ELSE 0
<1>1. /\ Plus(memory[s][j], one).count = memory[s][j].count + 1
      /\ Plus(observed[j], one).count = observed[j].count + 1
  BY DEF Plus
<1>2. \A t \in Servers \ {s} : memory'[t] = memory[t] /\ pending'[t] = pending[t]
  BY DEF Observe, TypeOK
<1>3. memory'[s] = [memory[s] EXCEPT ![j] = Plus(memory[s][j], one)]
  BY DEF Observe, TypeOK
<1>4. memory[s] \in [Keys -> Rollup] /\ observed \in [Keys -> Rollup]
  BY DEF TypeOK
<1>5. memory'[s][k].count = memory[s][k].count + new
  <2>1. CASE k = j
    BY <1>1, <1>3, <1>4, <2>1
  <2>2. CASE k # j
    BY <1>3, <1>4, <2>2, CountTypes
  <2> QED BY <2>1, <2>2
<1>6. observed'[k].count = observed[k].count + new
  <2>1. CASE k = j
    BY <1>1, <1>4, <2>1 DEF Observe
  <2>2. CASE k # j
    BY <1>4, <2>2, CountTypes DEF Observe
  <2> QED BY <2>1, <2>2
<1>7. table' = table /\ lost' = lost /\ pending' = pending
  BY DEF Observe
<1>8. /\ HeldCount(k)[s] = memory[s][k].count + pending[s][k].count
      /\ HeldCount(k)'[s] = memory'[s][k].count + pending'[s][k].count
  BY DEF HeldCount
<1>9. new \in Nat
  OBVIOUS
<1> HIDE DEF new
<1>10. observed'[k].count + table[k].count + lost[k].count + HeldCount(k)[s]
          = observed[k].count + table'[k].count + lost'[k].count + HeldCount(k)'[s]
  BY <1>5, <1>6, <1>7, <1>8, <1>9, CountTypes
<1> QED
  BY <1>2, <1>10 DEF Accounted

LEMMA FlushAccounted ==
    ASSUME TypeOK, InFlightIsKnown, NEW k \in Keys, NEW s \in Servers,
           FireTimer(s) \/ Flush(s)
    PROVE  Accounted(s, k)
<1>1. \A t \in Servers \ {s} : memory'[t] = memory[t] /\ pending'[t] = pending[t]
  BY DEF FireTimer, Flush, Write, Retry, GiveUp, TypeOK
<1>2. observed' = observed /\ lost' = lost
  BY DEF FireTimer, Flush, Write, Retry, GiveUp
<1>3. /\ HeldCount(k)[s] = memory[s][k].count + pending[s][k].count
      /\ HeldCount(k)'[s] = memory'[s][k].count + pending'[s][k].count
  BY DEF HeldCount
<1>4. CASE FireTimer(s)
  <2>1. table' = table
    BY <1>4 DEF FireTimer
  <2>2. \/ memory'[s] = NoRows /\ pending'[s] = memory[s] /\ pending[s] = NoRows
        \/ memory' = memory /\ pending' = pending
    BY <1>4 DEF FireTimer, InFlightIsKnown, TypeOK
  <2>3. HeldCount(k)'[s] = HeldCount(k)[s]
    BY <1>3, <2>2, CountTypes, NoRowsCount
  <2> QED
    BY <1>1, <1>2, <2>1, <2>3 DEF Accounted
<1>5. CASE Write(s)
  <2>1. table' = Merge(table, pending[s]) /\ pending'[s] = NoRows /\ memory' = memory
    BY <1>5 DEF Write, TypeOK
  <2>2. table'[k].count = table[k].count + pending[s][k].count /\ pending'[s][k].count = 0
    BY <2>1, MergeCount, NoRowsCount
  <2>3. observed'[k].count + table[k].count + lost[k].count + HeldCount(k)[s]
          = observed[k].count + table'[k].count + lost'[k].count + HeldCount(k)'[s]
    BY <1>2, <1>3, <2>1, <2>2, CountTypes
  <2> QED
    BY <1>1, <2>3 DEF Accounted
<1>6. CASE Retry(s)
  BY <1>1, <1>2, <1>6 DEF Retry, Accounted, HeldCount
<1>7. CASE GiveUp(s)
  <2>1. memory'[s] = Merge(memory[s], pending[s]) /\ pending'[s] = NoRows /\ table' = table
    BY <1>7 DEF GiveUp, TypeOK
  <2>2. HeldCount(k)'[s] = HeldCount(k)[s]
    BY <1>3, <2>1, MergeCount, NoRowsCount, CountTypes
  <2> QED
    BY <1>1, <1>2, <2>1, <2>2 DEF Accounted
<1> QED
  BY <1>4, <1>5, <1>6, <1>7 DEF Flush

LEMMA CrashAccounted ==
    ASSUME TypeOK, NEW k \in Keys, NEW s \in Servers, Crash(s)
    PROVE  Accounted(s, k)
<1>1. /\ \A t \in Servers \ {s} : memory'[t] = memory[t] /\ pending'[t] = pending[t]
      /\ memory'[s] = NoRows /\ pending'[s] = NoRows /\ observed' = observed
  BY DEF Crash, TypeOK
<1>2. /\ HeldCount(k)[s] = memory[s][k].count + pending[s][k].count
      /\ HeldCount(k)'[s] = memory'[s][k].count + pending'[s][k].count
  BY DEF HeldCount
<1>3. HeldCount(k)'[s] = 0
  BY <1>1, <1>2, NoRowsCount
<1>4. table'[k].count + lost'[k].count = table[k].count + lost[k].count + HeldCount(k)[s]
  <2>1. CASE table' = Merge(table, pending[s]) /\ lost' = Merge(lost, memory[s])
    BY <1>2, <2>1, MergeCount, CountTypes
  <2>2. CASE table' = table /\ lost' = Merge(lost, Merge(memory[s], pending[s]))
    BY <1>2, <2>2, MergeCount, CountTypes
  <2> QED
    BY <2>1, <2>2 DEF Crash
<1>5. table'[k].count \in Nat /\ lost'[k].count \in Nat
  <2>1. CASE table' = Merge(table, pending[s]) /\ lost' = Merge(lost, memory[s])
    BY <2>1, MergeCount, CountTypes
  <2>2. CASE table' = table /\ lost' = Merge(lost, Merge(memory[s], pending[s]))
    BY <2>2, MergeCount, CountTypes
  <2> QED
    BY <2>1, <2>2 DEF Crash
<1>6. observed'[k].count + table[k].count + lost[k].count + HeldCount(k)[s]
         = observed[k].count + table'[k].count + lost'[k].count + HeldCount(k)'[s]
  BY <1>1, <1>3, <1>4, <1>5, CountTypes
<1> QED
  BY <1>1, <1>6 DEF Accounted

(* Every request observed for a key is counted exactly once, in the table, *)
(* in the memory or in a flush of one of the servers, or in what servers   *)
(* that died had, for any number of servers.                               *)
THEOREM CountsCorrect == Spec => []Conserved
<1>1. Init => Conserved
  <2> SUFFICES ASSUME Init, NEW k \in Keys PROVE Balanced(k)
    BY ConservedIsBalanced
  <2>1. \A s \in Servers : HeldCount(k)[s] = 0
    BY NoRowsCount DEF Init, HeldCount
  <2>2. Total(Servers, HeldCount(k)) = 0
    BY <2>1, TotalZero, RollupAssumption
  <2> QED
    BY <2>2, NoRowsCount DEF Init, Balanced
<1>2. TypeOK /\ TypeOK' /\ InFlightIsKnown /\ Conserved /\ [Next]_vars => Conserved'
  <2> SUFFICES ASSUME TypeOK, TypeOK', InFlightIsKnown, Conserved, [Next]_vars
               PROVE  Conserved'
    OBVIOUS
  <2>0. \A k \in Keys : Balanced(k)
    BY ConservedIsBalanced
  <2>a. (\A k \in Keys : Balanced(k)') => Conserved'
    BY ConservedIsBalanced
  <2>1. CASE UNCHANGED vars
    BY <2>0, <2>a, <2>1 DEF vars, Balanced, HeldCount
  <2>2. ASSUME NEW s \in Servers, NEW k \in Keys,
               \/ \E j \in Keys, second \in Seconds : Observe(s, j, second)
               \/ FireTimer(s) \/ Flush(s) \/ Crash(s)
        PROVE  Balanced(k)'
    <3>1. Accounted(s, k)
      BY <2>2, ObserveAccounted, FlushAccounted, CrashAccounted
    <3> QED
      BY <2>0, <3>1, BalanceKept
  <2> QED
    BY <2>a, <2>1, <2>2 DEF Next
<1> QED BY <1>1, <1>2, RollupTypeCorrect, InFlightCorrect, PTL DEF Spec
=============================================================================
