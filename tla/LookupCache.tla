----------------------------- MODULE LookupCache ------------------------------
(***************************************************************************)
(* Lookups of one query that share a DuckDB file.  Each run is a process:  *)
(* it reads the references the plan index has for the plan's hash, reads   *)
(* the responses they name, fetches and stores what is missing, and writes *)
(* the references back.  Each of these opens the file for itself: readers  *)
(* without a lock, writers under a file lock.  DuckDB refuses a connection *)
(* that conflicts with one of another process; `index clear' unlinks the   *)
(* file under the open connections.                                        *)
(*                                                                         *)
(* A tool filter removes calls after the plan was hashed, so runs of       *)
(* different filters share one row.  Of an execution only its fetch calls  *)
(* are modelled (StagedExecutor has the rest), each with a client; of the  *)
(* file, the rows that are ever read back.  A run with the cache off never *)
(* opens the file and is left out.                                         *)
(***************************************************************************)
EXTENDS Naturals, Sequences, FiniteSets

CONSTANTS
    Runs,       \* processes, each one lookup
    Earlier,    \* lookups of the plan that ended before
    NoRun,      \* nobody
    NumCalls,   \* fetch calls of the plan, numbered in plan order
    MaxClears,  \* bound on how often the file is cleared
    NoRow,      \* the plan index has no row for the plan
    Absent      \* there is no file

Calls == 1..NumCalls

(* A response is named after the run that fetched it; ids are unique.      *)
Id == (Runs \cup {Earlier}) \X Calls

(* A row of the plan index: the references of each call, in list order.    *)
Row == [Calls -> Seq(Id)]
Database == [row : {NoRow} \cup Row, stored : SUBSET Id]
Empty == [row |-> NoRow, stored |-> {}]

(* What earlier lookups leave: all responses stored, some of them listed,  *)
(* for they were filtered or killed.                                       *)
Left ==
    {[row |-> [c \in Calls |-> IF c \in listed THEN <<<<Earlier, c>>>> ELSE <<>>],
      stored |-> {Earlier} \X Calls] : listed \in SUBSET Calls}

ASSUME LookupAssumption ==
    /\ NoRun \notin Runs /\ Earlier \notin Runs \cup {NoRun}
    /\ NumCalls \in Nat /\ MaxClears \in Nat
    /\ NoRow \notin Row /\ Absent \notin Database

VARIABLES
    file,       \* the database: the plan's row and the stored responses
    lock,       \* holder of the file lock
    pc,         \* what each run does
    conn,       \* its connection: none, opening, reading, locked, writing
    orphan,     \* its connection is to a file that was unlinked
    policy,     \* read-write or read-only
    kept,       \* calls the tool filter keeps
    refs,       \* references of its executed plan, per call
    unresolved, \* calls whose reference it has still to read
    have,       \* calls it has a response for
    clears      \* how often the file was cleared

run  == <<policy, kept>>
vars == <<file, lock, pc, conn, orphan, policy, kept, refs, unresolved, have, clears>>

IsFirst(c, S) == c \in S /\ \A d \in S : c <= d
LastRef(s) == s[Len(s)]

(* cached_refs: a dictionary by call, the last reference of each wins.     *)
CachedRefs(row) ==
    [c \in Calls |-> IF row = NoRow \/ row[c] = <<>> THEN <<>> ELSE <<LastRef(row[c])>>]

Init ==
    /\ file \in {Absent} \cup Left
    /\ lock = NoRun
    /\ pc = [r \in Runs |-> "idle"]
    /\ conn = [r \in Runs |-> "none"]
    /\ orphan = [r \in Runs |-> FALSE]
    /\ policy = [r \in Runs |-> "read-write"]
    /\ kept = [r \in Runs |-> Calls]
    /\ refs = [r \in Runs |-> [c \in Calls |-> <<>>]]
    /\ unresolved = [r \in Runs |-> {}]
    /\ have = [r \in Runs |-> {}]
    /\ clears = 0

-----------------------------------------------------------------------------
(* Connections to the file that is there now.                              *)
Live(kind) == {r \in Runs : conn[r] = kind /\ ~orphan[r]}

(* Where a run goes once it has the responses `had' and none to resolve.   *)
AfterSeeding(r, had) ==
    IF ~(kept[r] \subseteq had) THEN "fetch"
    ELSE IF had = {} THEN "done" ELSE "upsert"

(* r reads what it asked for from db.                                      *)
Peek(r, db) ==
    /\ pc[r] = "peek"
    /\ pc' = [pc EXCEPT ![r] = IF db.row = NoRow THEN "done" ELSE "plan"]
    /\ UNCHANGED <<refs, unresolved, have>>

ReadPlan(r, db) ==
    /\ pc[r] = "plan"
    /\ refs' = [refs EXCEPT ![r] = CachedRefs(db.row)]
    /\ unresolved' = [unresolved EXCEPT ![r] = {c \in Calls : refs'[r][c] # <<>>}]
    /\ pc' = [pc EXCEPT ![r] =
                 IF unresolved'[r] # {} THEN "resolve" ELSE AfterSeeding(r, {})]
    /\ UNCHANGED have

M_ResolveRef(r, db) ==
    /\ pc[r] = "resolve"
    /\ \E c \in Calls :
          /\ IsFirst(c, unresolved[r])
          /\ have' = [have EXCEPT ![r] = IF LastRef(refs[r][c]) \in db.stored THEN @ \cup {c} ELSE @]
          /\ unresolved' = [unresolved EXCEPT ![r] = @ \cap have'[r]]
    /\ pc' = [pc EXCEPT ![r] =
                 IF unresolved'[r] # {} THEN "resolve" ELSE AfterSeeding(r, have'[r])]
    /\ UNCHANGED refs
ResolveRef(r, db) ==
    /\ pc[r] = "resolve"
    /\ \E c \in Calls :
          /\ IsFirst(c, unresolved[r])
          /\ have' = [have EXCEPT ![r] = IF LastRef(refs[r][c]) \in db.stored THEN @ \cup {c} ELSE @]
          /\ unresolved' = [unresolved EXCEPT ![r] = @ \ {c}]
    /\ pc' = [pc EXCEPT ![r] =
                 IF unresolved'[r] # {} THEN "resolve" ELSE AfterSeeding(r, have'[r])]
    /\ UNCHANGED refs

Receive(r, db) == Peek(r, db) \/ ReadPlan(r, db) \/ ResolveRef(r, db)

(* The run raises or its process dies: locks and connections go with it.   *)
Fail(r) ==
    /\ pc' = [pc EXCEPT ![r] = "failed"]
    /\ conn' = [conn EXCEPT ![r] = "none"]
    /\ orphan' = [orphan EXCEPT ![r] = FALSE]
    /\ lock' = IF lock = r THEN NoRun ELSE lock
    /\ UNCHANGED <<file, run, refs, unresolved, have, clears>>

-----------------------------------------------------------------------------
(* A read-only lookup first peeks: without a row it runs in memory.        *)
Start(r) ==
    /\ pc[r] = "idle"
    /\ \E p \in {"read-write", "read-only"} : policy' = [policy EXCEPT ![r] = p]
    /\ \E calls \in SUBSET Calls : kept' = [kept EXCEPT ![r] = calls]
    /\ pc' = [pc EXCEPT ![r] =
                 IF policy'[r] = "read-write" THEN "plan"
                 ELSE IF file # Absent THEN "peek" ELSE "done"]
    /\ UNCHANGED <<file, lock, conn, orphan, refs, unresolved, have, clears>>

Reads(r) == pc[r] \in {"peek", "plan", "resolve"} /\ conn[r] = "none"

(* No file, no answer.                                                     *)
FindNothing(r) ==
    /\ Reads(r) /\ file = Absent
    /\ Receive(r, Empty)
    /\ UNCHANGED <<file, lock, conn, orphan, run, clears>>

FindFile(r) ==
    /\ Reads(r) /\ file # Absent
    /\ conn' = [conn EXCEPT ![r] = "opening"]
    /\ UNCHANGED <<file, lock, pc, orphan, run, refs, unresolved, have, clears>>

OpenRead(r) ==
    /\ conn[r] = "opening"
    /\ file # Absent /\ Live("writing") = {}
    /\ Receive(r, file)
    /\ conn' = [conn EXCEPT ![r] = "reading"]
    /\ UNCHANGED <<file, lock, orphan, run, clears>>

(* The file has gone, or a writer keeps it longer than the retries last.   *)
ReadRaises(r) ==
    /\ conn[r] = "opening"
    /\ file = Absent \/ Live("writing") # {}
    /\ Fail(r)

CloseRead(r) ==
    /\ conn[r] = "reading"
    /\ conn' = [conn EXCEPT ![r] = "none"]
    /\ orphan' = [orphan EXCEPT ![r] = FALSE]
    /\ UNCHANGED <<file, lock, pc, run, refs, unresolved, have, clears>>

-----------------------------------------------------------------------------
Writes(r) == pc[r] \in {"fetch", "upsert"} /\ conn[r] = "none"

TakeLock(r) ==
    /\ Writes(r) /\ lock = NoRun
    /\ lock' = r
    /\ conn' = [conn EXCEPT ![r] = "locked"]
    /\ UNCHANGED <<file, pc, orphan, run, refs, unresolved, have, clears>>

LockTimeout(r) == Writes(r) /\ lock # NoRun /\ Fail(r)

(* Opening for writing creates the file and its tables.                    *)
OpenWrite(r) ==
    /\ conn[r] = "locked"
    /\ Live("reading") = {}
    /\ file' = IF file = Absent THEN Empty ELSE file
    /\ conn' = [conn EXCEPT ![r] = "writing"]
    /\ UNCHANGED <<lock, pc, orphan, run, refs, unresolved, have, clears>>

WriteBusy(r) == conn[r] = "locked" /\ Live("reading") # {} /\ Fail(r)

CloseWrite(r) ==
    /\ conn[r] = "writing"
    /\ conn' = [conn EXCEPT ![r] = "none"]
    /\ orphan' = [orphan EXCEPT ![r] = FALSE]
    /\ lock' = NoRun
    /\ UNCHANGED <<run, unresolved, clears>>

(* What is written to an unlinked file is gone.                            *)
Write(r, db) == file' = IF orphan[r] THEN file ELSE db

(* The next missing call was fetched; its response is stored and listed.   *)
M_StoreResponse(r) ==
    /\ pc[r] = "fetch"
    /\ CloseWrite(r)
    /\ \E c \in Calls :
          /\ IsFirst(c, kept[r] \ have[r])
          /\ UNCHANGED file
          /\ refs' = [refs EXCEPT ![r][c] = Append(@, <<r, c>>)]
          /\ have' = [have EXCEPT ![r] = @ \cup {c}]
    /\ pc' = [pc EXCEPT ![r] = AfterSeeding(r, have'[r])]
M_ListFirst(r) ==
    /\ pc[r] = "fetch"
    /\ CloseWrite(r)
    /\ \E c \in Calls :
          /\ IsFirst(c, kept[r] \ have[r])
          /\ Write(r, [file EXCEPT !.stored = @ \cup {<<r, c>>}])
          /\ refs' = [refs EXCEPT ![r][c] = <<<<r, c>>>> \o @]
          /\ have' = [have EXCEPT ![r] = @ \cup {c}]
    /\ pc' = [pc EXCEPT ![r] = AfterSeeding(r, have'[r])]
StoreResponse(r) ==
    /\ pc[r] = "fetch"
    /\ CloseWrite(r)
    /\ \E c \in Calls :
          /\ IsFirst(c, kept[r] \ have[r])
          /\ Write(r, [file EXCEPT !.stored = @ \cup {<<r, c>>}])
          /\ refs' = [refs EXCEPT ![r][c] = Append(@, <<r, c>>)]
          /\ have' = [have EXCEPT ![r] = @ \cup {c}]
    /\ pc' = [pc EXCEPT ![r] = AfterSeeding(r, have'[r])]

M_Upsert(r) ==
    /\ pc[r] = "upsert"
    /\ CloseWrite(r)
    /\ Write(r, [file EXCEPT !.row = [c \in Calls |-> IF c \in kept[r] THEN refs[r][c] ELSE <<>>]])
    /\ pc' = [pc EXCEPT ![r] = "done"]
    /\ UNCHANGED <<refs, have>>
M_UpsertKept(r) ==
    /\ pc[r] = "upsert"
    /\ CloseWrite(r)
    /\ Write(r, [file EXCEPT !.row = [c \in kept[r] |-> refs[r][c]]])
    /\ pc' = [pc EXCEPT ![r] = "done"]
    /\ UNCHANGED <<refs, have>>
Upsert(r) ==
    /\ pc[r] = "upsert"
    /\ CloseWrite(r)
    /\ Write(r, [file EXCEPT !.row = refs[r]])
    /\ pc' = [pc EXCEPT ![r] = "done"]
    /\ UNCHANGED <<refs, have>>

-----------------------------------------------------------------------------
(* The process is killed, or a client raises.                              *)
Kill(r) == pc[r] \notin {"idle", "done", "failed"} /\ Fail(r)

(* index clear unlinks the file without taking the lock.                   *)
Clear ==
    /\ clears < MaxClears
    /\ file # Absent
    /\ file' = Absent
    /\ orphan' = [r \in Runs |-> orphan[r] \/ conn[r] \in {"reading", "writing"}]
    /\ clears' = clears + 1
    /\ UNCHANGED <<lock, pc, conn, run, refs, unresolved, have>>

Step(r) ==
    \/ FindNothing(r) \/ FindFile(r) \/ OpenRead(r) \/ ReadRaises(r) \/ CloseRead(r)
    \/ TakeLock(r) \/ LockTimeout(r) \/ OpenWrite(r) \/ WriteBusy(r)
    \/ StoreResponse(r) \/ Upsert(r)

Next == (\E r \in Runs : Start(r) \/ Step(r) \/ Kill(r)) \/ Clear

(* A process that was started keeps running; every wait has a deadline.    *)
Spec == Init /\ [][Next]_vars /\ \A r \in Runs : WF_vars(Step(r))

-----------------------------------------------------------------------------
TypeOK ==
    /\ file \in Database \cup {Absent}
    /\ lock \in Runs \cup {NoRun}
    /\ pc \in [Runs -> {"idle", "peek", "plan", "resolve", "fetch", "upsert", "done", "failed"}]
    /\ conn \in [Runs -> {"none", "opening", "reading", "locked", "writing"}]
    /\ orphan \in [Runs -> BOOLEAN]
    /\ policy \in [Runs -> {"read-write", "read-only"}]
    /\ kept \in [Runs -> SUBSET Calls]
    /\ refs \in [Runs -> Row]
    /\ unresolved \in [Runs -> SUBSET Calls]
    /\ have \in [Runs -> SUBSET Calls]
    /\ clears \in Nat

(* The references the row holds for c.                                     *)
Listed(c) == IF file = Absent \/ file.row = NoRow THEN <<>> ELSE file.row[c]
Stored == IF file = Absent THEN {} ELSE file.stored

(* Of the references a row holds for a call, the one readers take is       *)
(* stored if any is: overlapping runs, crashes and a cleared file leave no *)
(* row whose stored response is hidden behind a dangling reference.        *)
LastIsBest ==
    \A c \in Calls : \A i \in 1..Len(Listed(c)) :
        Listed(c)[i] \in Stored => LastRef(Listed(c)) \in Stored

(* A response is stored before it is listed: while the file has not been   *)
(* cleared every reference can be read.                                    *)
ListedAreStored ==
    clears = 0 => \A c \in Calls : \A i \in 1..Len(Listed(c)) : Listed(c)[i] \in Stored

(* A run whose plan was filtered forgets nothing: if the row is the one it *)
(* read, every call with a stored response there still has one after it    *)
(* writes.                                                                 *)
HasStored(c) == Listed(c) # <<>> /\ LastRef(Listed(c)) \in Stored
ReadRow(r) ==
    [c \in Calls |-> IF refs[r][c] # <<>> /\ refs[r][c][1][1] # r
                     THEN <<refs[r][c][1]>> ELSE <<>>]
FilteredRunsForgetNothing ==
    [][\A r \in Runs : Upsert(r) /\ file # Absent /\ CachedRefs(file.row) = ReadRow(r)
          => \A c \in Calls : HasStored(c) => HasStored(c)']_vars

(* Every lookup that was started ends, whoever holds the lock or the file. *)
EveryLookupEnds == \A r \in Runs : pc[r] # "idle" ~> pc[r] \in {"done", "failed"}
=============================================================================
