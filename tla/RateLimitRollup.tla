--------------------------- MODULE RateLimitRollup ----------------------------
(***************************************************************************)
(* Traffic observations of the web server: counted in memory per rollup    *)
(* key, flushed now and then into a DuckDB table that several servers      *)
(* share.  A flush takes everything, writes it in one statement that adds  *)
(* to the rows there, retries while the file is busy, and puts its rows    *)
(* back when it gives up.                                                  *)
(*                                                                         *)
(* A key stands for minute window, client class, attestation, bucket and   *)
(* principal; `count' for the nine counters of a rollup, which are all     *)
(* added alike; `seconds' for the set of bits in secondBits.  The test     *)
(* hooks and the switch that turns automatic flushes off are left out.     *)
(***************************************************************************)
EXTENDS Naturals, FiniteSets, FiniteSetsExt

CONSTANTS
    Servers,
    Keys,        \* rollup keys
    Seconds,     \* seconds of a minute window
    MaxRetries,  \* duckDbBusyRetryAttempts
    MaxRequests  \* bound on the requests observed for a key

ASSUME RollupAssumption ==
    /\ IsFiniteSet(Servers)
    /\ MaxRetries \in Nat /\ MaxRequests \in Nat

Rollup == [count : Nat, seconds : SUBSET Seconds]
Nothing == [count |-> 0, seconds |-> {}]
NoRows == [k \in Keys |-> Nothing]

VARIABLES
    memory,   \* rollupStateByKey of each server
    pending,  \* the rows a flush has taken
    flushing, \* flushPromise is set
    retries,  \* busy answers the flush has had
    timer,    \* flushTimer is set
    table,    \* rate_limit_rollups
    observed, \* history: all requests observed
    lost      \* history: what servers that died had in memory

process == <<memory, pending, flushing, retries, timer>>
vars    == <<memory, pending, flushing, retries, timer, table, observed, lost>>

Plus(a, b) == [count |-> a.count + b.count, seconds |-> a.seconds \cup b.seconds]

(* Rows are merged key by key.                                             *)
M_Merge(rows, others) ==
    [k \in Keys |-> IF others[k].count = 0 THEN rows[k] ELSE others[k]]
Merge(rows, others) == [k \in Keys |-> Plus(rows[k], others[k])]

Init ==
    /\ memory = [s \in Servers |-> NoRows]
    /\ pending = [s \in Servers |-> NoRows]
    /\ flushing = [s \in Servers |-> FALSE]
    /\ retries = [s \in Servers |-> 0]
    /\ timer = [s \in Servers |-> FALSE]
    /\ table = NoRows
    /\ observed = NoRows
    /\ lost = NoRows

-----------------------------------------------------------------------------
(* observeRateLimitRequest, also while a flush waits for its next attempt. *)
Observe(s, k, second) ==
    LET one == [count |-> 1, seconds |-> {second}]
    IN  /\ observed[k].count < MaxRequests
        /\ memory' = [memory EXCEPT ![s][k] = Plus(@, one)]
        /\ observed' = [observed EXCEPT ![k] = Plus(@, one)]
        /\ timer' = [timer EXCEPT ![s] = TRUE]
        /\ UNCHANGED <<pending, flushing, retries, table, lost>>

(* The timer fires: a flush under way or an empty memory make it a no-op.  *)
M_FireTimer(s) ==
    /\ timer[s]
    /\ timer' = [timer EXCEPT ![s] = FALSE]
    /\ IF memory[s] # NoRows
       THEN /\ pending' = [pending EXCEPT ![s] = memory[s]]
            /\ memory' = [memory EXCEPT ![s] = NoRows]
            /\ flushing' = [flushing EXCEPT ![s] = TRUE]
            /\ retries' = [retries EXCEPT ![s] = 0]
       ELSE UNCHANGED <<memory, pending, flushing, retries>>
    /\ UNCHANGED <<table, observed, lost>>
FireTimer(s) ==
    /\ timer[s]
    /\ timer' = [timer EXCEPT ![s] = FALSE]
    /\ IF ~flushing[s] /\ memory[s] # NoRows
       THEN /\ pending' = [pending EXCEPT ![s] = memory[s]]
            /\ memory' = [memory EXCEPT ![s] = NoRows]
            /\ flushing' = [flushing EXCEPT ![s] = TRUE]
            /\ retries' = [retries EXCEPT ![s] = 0]
       ELSE UNCHANGED <<memory, pending, flushing, retries>>
    /\ UNCHANGED <<table, observed, lost>>

(* The statement committed: INSERT ... ON CONFLICT DO UPDATE adds.         *)
M_Write(s) ==
    /\ flushing[s]
    /\ table' = Merge(table, pending[s])
    /\ pending' = [pending EXCEPT ![s] = NoRows]
    /\ memory' = [memory EXCEPT ![s] = NoRows]
    /\ flushing' = [flushing EXCEPT ![s] = FALSE]
    /\ UNCHANGED <<retries, timer, observed, lost>>
Write(s) ==
    /\ flushing[s]
    /\ table' = Merge(table, pending[s])
    /\ pending' = [pending EXCEPT ![s] = NoRows]
    /\ flushing' = [flushing EXCEPT ![s] = FALSE]
    /\ UNCHANGED <<memory, retries, timer, observed, lost>>

(* Another process has the file: the flush waits and tries again.          *)
M_RetryOnce(s) ==
    /\ flushing[s] /\ retries[s] <= MaxRetries
    /\ retries' = [retries EXCEPT ![s] = @ + 1]
    /\ UNCHANGED <<memory, pending, flushing, timer, table, observed, lost>>
M_Retry(s) ==
    /\ flushing[s] /\ retries[s] < MaxRetries
    /\ retries' = [retries EXCEPT ![s] = IF retries[s] + 1 < MaxRetries THEN @ + 1 ELSE 0]
    /\ UNCHANGED <<memory, pending, flushing, timer, table, observed, lost>>
Retry(s) ==
    /\ flushing[s] /\ retries[s] < MaxRetries
    /\ retries' = [retries EXCEPT ![s] = @ + 1]
    /\ UNCHANGED <<memory, pending, flushing, timer, table, observed, lost>>

(* Busy for too long, or another error.                                    *)
GiveUp(s) ==
    /\ flushing[s]
    /\ memory' = [memory EXCEPT ![s] = Merge(@, pending[s])]
    /\ pending' = [pending EXCEPT ![s] = NoRows]
    /\ flushing' = [flushing EXCEPT ![s] = FALSE]
    /\ UNCHANGED <<retries, timer, table, observed, lost>>

(* The server dies and is started again; the statement it was waiting for  *)
(* may have committed.                                                     *)
Crash(s) ==
    /\ \E committed \in BOOLEAN :
          /\ committed => flushing[s]
          /\ table' = IF committed THEN Merge(table, pending[s]) ELSE table
          /\ lost' = Merge(lost, IF committed THEN memory[s] ELSE Merge(memory[s], pending[s]))
    /\ memory' = [memory EXCEPT ![s] = NoRows]
    /\ pending' = [pending EXCEPT ![s] = NoRows]
    /\ flushing' = [flushing EXCEPT ![s] = FALSE]
    /\ retries' = [retries EXCEPT ![s] = 0]
    /\ timer' = [timer EXCEPT ![s] = FALSE]
    /\ UNCHANGED observed

Flush(s) == Write(s) \/ Retry(s) \/ GiveUp(s)

Next ==
    \E s \in Servers :
        \/ \E k \in Keys, second \in Seconds : Observe(s, k, second)
        \/ FireTimer(s) \/ Flush(s) \/ Crash(s)

(* A timer fires and an attempt ends, with one outcome or another.         *)
Spec == Init /\ [][Next]_vars
             /\ \A s \in Servers : WF_vars(FireTimer(s)) /\ WF_vars(Flush(s))

-----------------------------------------------------------------------------
TypeOK ==
    /\ memory \in [Servers -> [Keys -> Rollup]]
    /\ pending \in [Servers -> [Keys -> Rollup]]
    /\ flushing \in [Servers -> BOOLEAN]
    /\ retries \in [Servers -> 0..MaxRetries]
    /\ timer \in [Servers -> BOOLEAN]
    /\ table \in [Keys -> Rollup]
    /\ observed \in [Keys -> Rollup]
    /\ lost \in [Keys -> Rollup]

(* The requests servers hold of a key, in memory and in flight.            *)
Held(k) == MapThenSumSet(LAMBDA s : memory[s][k].count + pending[s][k].count, Servers)

(* No request is counted twice and none is dropped, but by a server that   *)
(* dies: what was observed for a key is in the table, in memory or in      *)
(* flight, across busy files, failed flushes, observations that arrive     *)
(* during a flush and servers that write the same row.                     *)
Conserved ==
    \A k \in Keys :
        observed[k].count = table[k].count + lost[k].count + Held(k)

(* Neither is a second in which a request was seen, in the same places.    *)
SecondsConserved ==
    \A k \in Keys :
        observed[k].seconds =
            table[k].seconds \cup lost[k].seconds
            \cup UNION {memory[s][k].seconds \cup pending[s][k].seconds : s \in Servers}

(* A flush always ends, so that a later one can start.                     *)
FlushEnds == \A s \in Servers : flushing[s] ~> ~flushing[s]
=============================================================================
