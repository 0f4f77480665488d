-------------------------- MODULE LookupCache_proofs --------------------------
(***************************************************************************)
(* What lookups that share a file leave in the plan's row, for any number  *)
(* of processes, calls and clears.                                         *)
(***************************************************************************)
EXTENDS LookupCache, SequenceTheorems, TLAPS

(* The references in a list; a list readers can use if it has any use.     *)
Refs(s)         == {s[i] : i \in 1 .. Len(s)}
Best(s, stored) == Refs(s) \cap stored = {} \/ LastRef(s) \in stored

LEMMA RefsEmpty == Refs(<<>>) = {}
BY DEF Refs

LEMMA RefsSingle == ASSUME NEW id PROVE Refs(<<id>>) = {id} /\ LastRef(<<id>>) = id
BY DEF Refs, LastRef

LEMMA RefsAppend ==
    ASSUME NEW s \in Seq(Id), NEW id \in Id
    PROVE  /\ Refs(Append(s, id)) = Refs(s) \cup {id}
           /\ LastRef(Append(s, id)) = id
<1>1. Len(Append(s, id)) = Len(s) + 1 /\ Len(s) \in Nat
  OBVIOUS
<1>2. Append(s, id)[Len(s) + 1] = id /\ \A i \in 1 .. Len(s) : Append(s, id)[i] = s[i]
  OBVIOUS
<1> QED
  BY <1>1, <1>2 DEF Refs, LastRef

LEMMA LastInRefs ==
    ASSUME NEW s \in Seq(Id), s # <<>>
    PROVE  LastRef(s) \in Refs(s) /\ LastRef(s) \in Id
<1>1. Len(s) \in Nat /\ Len(s) # 0
  OBVIOUS
<1> QED
  BY <1>1 DEF LastRef, Refs

-----------------------------------------------------------------------------
(* Reading the row.                                                        *)
LEMMA EmptyType == Empty \in Database /\ Empty.row = NoRow /\ Empty.stored = {}
BY DEF Empty, Database

LEMMA CachedShape ==
    ASSUME NEW db \in Database, NEW c \in Calls
    PROVE  \/ CachedRefs(db.row)[c] = <<>>
           \/ /\ db.row # NoRow /\ CachedRefs(db.row)[c] = <<LastRef(db.row[c])>>
              /\ LastRef(db.row[c]) \in Refs(db.row[c]) /\ LastRef(db.row[c]) \in Id
<1>1. CASE db.row = NoRow \/ db.row[c] = <<>>
  BY <1>1 DEF CachedRefs
<1>2. CASE db.row # NoRow /\ db.row[c] # <<>>
  <2>1. db.row[c] \in Seq(Id)
    BY <1>2 DEF Database, Row
  <2> QED
    BY <1>2, <2>1, LastInRefs DEF CachedRefs
<1> QED
  BY <1>1, <1>2

LEMMA CachedType == ASSUME NEW db \in Database PROVE CachedRefs(db.row) \in Row
<1>1. ASSUME NEW c \in Calls PROVE CachedRefs(db.row)[c] \in Seq(Id)
  <2>1. CASE CachedRefs(db.row)[c] = <<>>
    BY <2>1
  <2>2. ASSUME NEW id \in Id, CachedRefs(db.row)[c] = <<id>> PROVE CachedRefs(db.row)[c] \in Seq(Id)
    BY <2>2
  <2> QED
    BY <2>1, <2>2, CachedShape
<1>2. CachedRefs(db.row) = [c \in Calls |-> CachedRefs(db.row)[c]]
  BY DEF CachedRefs
<1>3. [c \in Calls |-> CachedRefs(db.row)[c]] \in [Calls -> Seq(Id)]
  BY <1>1
<1> QED
  BY <1>2, <1>3, Zenon DEF Row

(* What a run sees when it reads: the file, or an empty one if it is gone. *)
Seen == IF file = Absent THEN Empty ELSE file
Reading(r) == Receive(r, Seen) /\ UNCHANGED <<file, lock, orphan, run, clears>>

LEMMA SeenType ==
    ASSUME TypeOK
    PROVE  /\ Seen \in Database /\ Seen.stored = Stored
           /\ \A c \in Calls : Listed(c) = IF Seen.row = NoRow THEN <<>> ELSE Seen.row[c]
<1>1. CASE file = Absent
  BY <1>1, EmptyType DEF Seen, Stored, Listed
<1>2. CASE file # Absent
  BY <1>2 DEF Seen, Stored, Listed, TypeOK
<1> QED
  BY <1>1, <1>2

LEMMA ListedType == ASSUME TypeOK, NEW c \in Calls PROVE Listed(c) \in Seq(Id)
BY DEF TypeOK, Listed, Database, Row

(* What a run holds after it read the row are references the row lists.    *)
LEMMA ReadListed ==
    ASSUME TypeOK, NEW c \in Calls
    PROVE  \/ CachedRefs(Seen.row)[c] = <<>>
           \/ \E id \in Refs(Listed(c)) \cap Id : CachedRefs(Seen.row)[c] = <<id>>
BY SeenType, CachedShape

-----------------------------------------------------------------------------
States == {"idle", "peek", "plan", "resolve", "fetch", "upsert", "done", "failed"}

LEMMA NextState == ASSUME NEW r, NEW had PROVE AfterSeeding(r, had) \in {"fetch", "done", "upsert"}
BY DEF AfterSeeding

LEMMA ReceiveType ==
    ASSUME TypeOK, NEW r \in Runs, Receive(r, Seen)
    PROVE  /\ pc' \in [Runs -> States] /\ refs' \in [Runs -> Row]
           /\ unresolved' \in [Runs -> SUBSET Calls] /\ have' \in [Runs -> SUBSET Calls]
<1>1. CASE Peek(r, Seen)
  BY <1>1 DEF Peek, TypeOK, States
<1>2. CASE ReadPlan(r, Seen)
  BY <1>2, SeenType, CachedType, NextState DEF ReadPlan, TypeOK, States
<1>3. CASE ResolveRef(r, Seen)
  BY <1>3, NextState DEF ResolveRef, TypeOK, States
<1> QED
  BY <1>1, <1>2, <1>3 DEF Receive

LEMMA FailType == ASSUME TypeOK, NEW r \in Runs, Fail(r) PROVE TypeOK'
BY DEF Fail, TypeOK, run

(* The steps that only wait, connect or give up.                           *)
Failing(r) == Kill(r) \/ ReadRaises(r) \/ LockTimeout(r) \/ WriteBusy(r)
LEMMA Failures == ASSUME NEW r, Failing(r) PROVE Fail(r)
BY DEF Failing, Kill, ReadRaises, LockTimeout, WriteBusy

LEMMA Readings == ASSUME NEW r, FindNothing(r) \/ OpenRead(r) PROVE Reading(r)
BY DEF FindNothing, OpenRead, Reading, Seen

LEMMA InitType == Init => TypeOK
<1> SUFFICES ASSUME Init PROVE TypeOK
  OBVIOUS
<1>1. ASSUME NEW db \in Left PROVE db \in Database
  <2>1. PICK listed \in SUBSET Calls :
          db = [row |-> [c \in Calls |-> IF c \in listed THEN <<<<Earlier, c>>>> ELSE <<>>],
                stored |-> {Earlier} \X Calls]
    BY DEF Left
  <2>2. ASSUME NEW c \in Calls PROVE <<Earlier, c>> \in Id
    BY DEF Id
  <2>3. [c \in Calls |-> IF c \in listed THEN <<<<Earlier, c>>>> ELSE <<>>] \in Row
    BY <2>2 DEF Row
  <2>4. {Earlier} \X Calls \subseteq Id
    BY DEF Id
  <2> QED
    BY <2>1, <2>3, <2>4 DEF Database
<1>2. file \in Database \cup {Absent}
  BY <1>1 DEF Init
<1>3. refs \in [Runs -> Row]
  <2>1. [c \in Calls |-> <<>>] \in Row
    BY DEF Row
  <2> QED
    BY <2>1 DEF Init
<1> QED
  BY <1>2, <1>3 DEF Init, TypeOK

(* The response of c that r fetched and stores.                            *)
Storing(r, c) ==
    /\ pc[r] = "fetch" /\ c \in kept[r] \ have[r]
    /\ CloseWrite(r)
    /\ Write(r, [file EXCEPT !.stored = @ \cup {<<r, c>>}])
    /\ refs' = [refs EXCEPT ![r][c] = Append(@, <<r, c>>)]
    /\ have' = [have EXCEPT ![r] = @ \cup {c}]
    /\ pc' = [pc EXCEPT ![r] = AfterSeeding(r, have'[r])]

LEMMA StoreIsStoring ==
    ASSUME NEW r, StoreResponse(r)
    PROVE  \E c \in Calls : Storing(r, c)
BY DEF StoreResponse, Storing, IsFirst

(* An open connection for writing whose file was not unlinked.             *)
LiveHasFile == \A r \in Runs : conn[r] = "writing" /\ ~orphan[r] => file # Absent
TypeInv == TypeOK /\ LiveHasFile

LEMMA WriteType ==
    ASSUME TypeInv, NEW r \in Runs, conn[r] = "writing", NEW db,
           file # Absent => db \in Database, Write(r, db)
    PROVE  /\ file' \in Database \cup {Absent}
           /\ file # Absent => file' # Absent
           /\ file' = IF orphan[r] THEN file ELSE db
           /\ ~orphan[r] => file # Absent
BY LookupAssumption DEF Write, TypeOK, LiveHasFile, TypeInv

LEMMA StoringType ==
    ASSUME TypeInv, NEW r \in Runs, NEW c \in Calls, Storing(r, c)
    PROVE  TypeInv'
<1>1. <<r, c>> \in Id
  BY DEF Id
<1>2. file # Absent => [file EXCEPT !.stored = @ \cup {<<r, c>>}] \in Database
  BY <1>1 DEF TypeInv, TypeOK, Database
<1>3. conn[r] = "writing" /\ file' \in Database \cup {Absent} /\ (file # Absent => file' # Absent)
  BY <1>2, WriteType DEF Storing, CloseWrite
<1>4. refs' \in [Runs -> Row]
  BY <1>1 DEF Storing, TypeInv, TypeOK, Row
<1>5. TypeOK'
  BY <1>3, <1>4, NextState DEF Storing, CloseWrite, TypeInv, TypeOK, run
<1>6. LiveHasFile'
  BY <1>3 DEF Storing, CloseWrite, TypeInv, TypeOK, LiveHasFile
<1> QED
  BY <1>5, <1>6 DEF TypeInv

LEMMA UpsertType ==
    ASSUME TypeInv, NEW r \in Runs, Upsert(r)
    PROVE  TypeInv'
<1>1. file # Absent => [file EXCEPT !.row = refs[r]] \in Database
  BY DEF TypeInv, TypeOK, Database
<1>2. conn[r] = "writing" /\ file' \in Database \cup {Absent} /\ (file # Absent => file' # Absent)
  BY <1>1, WriteType DEF Upsert, CloseWrite
<1>3. TypeOK'
  BY <1>2 DEF Upsert, CloseWrite, TypeInv, TypeOK, run
<1>4. LiveHasFile'
  BY <1>2 DEF Upsert, CloseWrite, TypeInv, TypeOK, LiveHasFile
<1> QED
  BY <1>3, <1>4 DEF TypeInv

LEMMA TypeStep == TypeInv /\ [Next]_vars => TypeInv'
<1> SUFFICES ASSUME TypeInv, [Next]_vars PROVE TypeInv'
  OBVIOUS
<1> USE DEF TypeInv
<1>1. ASSUME NEW r \in Runs, Start(r) PROVE TypeInv'
  BY <1>1 DEF Start, TypeOK, LiveHasFile
<1>2. ASSUME NEW r \in Runs, Failing(r) PROVE TypeInv'
  <2>1. Fail(r)
    BY <1>2, Failures
  <2> QED
    BY <2>1, FailType DEF Fail, TypeOK, LiveHasFile
<1>3. ASSUME NEW r \in Runs, FindNothing(r) \/ OpenRead(r) PROVE TypeInv'
  <2>1. Reading(r)
    BY <1>3, Readings
  <2>2. /\ conn' \in [Runs -> {"none", "opening", "reading", "locked", "writing"}]
        /\ \A s \in Runs : conn'[s] = "writing" => conn[s] = "writing"
    BY <1>3 DEF FindNothing, OpenRead, TypeOK
  <2> QED
    BY <2>1, <2>2, ReceiveType DEF Reading, TypeOK, LiveHasFile, States, run
<1>4. ASSUME NEW r \in Runs, FindFile(r) \/ CloseRead(r) \/ TakeLock(r) PROVE TypeInv'
  BY <1>4 DEF FindFile, CloseRead, TakeLock, TypeOK, LiveHasFile, run
<1>5. ASSUME NEW r \in Runs, OpenWrite(r) PROVE TypeInv'
  BY <1>5, EmptyType, LookupAssumption DEF OpenWrite, TypeOK, LiveHasFile, run
<1>6. ASSUME NEW r \in Runs, StoreResponse(r) PROVE TypeInv'
  BY <1>6, StoreIsStoring, StoringType
<1>7. ASSUME NEW r \in Runs, Upsert(r) PROVE TypeInv'
  BY <1>7, UpsertType
<1>8. CASE Clear
  <2>1. orphan' \in [Runs -> BOOLEAN]
    BY <1>8 DEF Clear
  <2>2. \A r \in Runs : conn'[r] = "writing" => orphan'[r]
    BY <1>8 DEF Clear
  <2>3. TypeOK'
    BY <1>8, <2>1 DEF Clear, TypeOK, run
  <2> QED
    BY <2>2, <2>3 DEF LiveHasFile
<1>9. CASE UNCHANGED vars
  BY <1>9 DEF vars, TypeOK, LiveHasFile
<1> QED
  BY <1>1, <1>2, <1>3, <1>4, <1>5, <1>6, <1>7, <1>8, <1>9 DEF Next, Step, Failing

LEMMA TypeInvariant == Spec => []TypeInv
<1>1. Init => TypeInv
  BY InitType DEF TypeInv, LiveHasFile, Init
<1> QED
  BY <1>1, TypeStep, PTL DEF Spec

(* The variables keep their types, for any number of lookups and clears.   *)
THEOREM LookupTypes == Spec => []TypeOK
<1>1. TypeInv => TypeOK
  BY DEF TypeInv
<1> QED
  BY <1>1, TypeInvariant, PTL

-----------------------------------------------------------------------------
(* After it has read, a run has no reference left to resolve.              *)
Seeded == \A r \in Runs : pc[r] \in {"fetch", "upsert"} => unresolved[r] = {}

(* No reference is made twice: to a response its run has not yet fetched,  *)
(* there is none, and the response is not stored.                          *)
Fresh(id) ==
    /\ id \notin Stored
    /\ \A c \in Calls : id \notin Refs(Listed(c))
    /\ \A s \in Runs, c \in Calls : id \notin Refs(refs[s][c])
FetchedOnce == \A r \in Runs, c \in Calls : c \notin have[r] => Fresh(<<r, c>>)

(* What a run looked for and did not find is not there later either.       *)
MissingStays ==
    \A r \in Runs, c \in Calls :
        c \notin have[r] \cup unresolved[r] => Refs(refs[r][c]) \cap Stored = {}

(* The rows that runs are about to write, and the row of the file, are     *)
(* best: if a reference in a list is of use, the last one is.              *)
HeldAreBest   == \A r \in Runs, c \in Calls : Best(refs[r][c], Stored)
ListedAreBest == \A c \in Calls : Best(Listed(c), Stored)

BestInv == Seeded /\ FetchedOnce /\ MissingStays /\ HeldAreBest /\ ListedAreBest

LEMMA BestInit == Init => BestInv
<1> SUFFICES ASSUME Init PROVE BestInv
  OBVIOUS
<1>1. Seeded
  BY DEF Init, Seeded
<1>2. \A r \in Runs, c \in Calls : refs[r][c] = <<>>
  BY DEF Init
<1>3. ASSUME NEW c \in Calls
      PROVE  /\ Listed(c) = <<>> \/ Listed(c) = <<<<Earlier, c>>>>
             /\ Stored \subseteq {Earlier} \X Calls
             /\ Listed(c) # <<>> => Stored = {Earlier} \X Calls
  <2>1. CASE file = Absent
    BY <2>1 DEF Listed, Stored
  <2>2. CASE file # Absent
    <3>1. PICK listed \in SUBSET Calls :
            file = [row |-> [d \in Calls |-> IF d \in listed THEN <<<<Earlier, d>>>> ELSE <<>>],
                    stored |-> {Earlier} \X Calls]
      BY <2>2 DEF Init, Left
    <3> QED
      BY <2>2, <3>1 DEF Listed, Stored
  <2> QED
    BY <2>1, <2>2
<1>4. FetchedOnce
  <2> SUFFICES ASSUME NEW r \in Runs, NEW c \in Calls PROVE Fresh(<<r, c>>)
    BY DEF FetchedOnce
  <2>1. <<r, c>> \notin Stored
    BY <1>3, LookupAssumption
  <2>2. ASSUME NEW d \in Calls PROVE <<r, c>> \notin Refs(Listed(d))
    BY <1>3, RefsEmpty, RefsSingle, LookupAssumption
  <2>3. ASSUME NEW s \in Runs, NEW d \in Calls PROVE <<r, c>> \notin Refs(refs[s][d])
    BY <1>2, RefsEmpty
  <2> QED
    BY <2>1, <2>2, <2>3 DEF Fresh
<1>5. MissingStays /\ HeldAreBest
  BY <1>2, RefsEmpty DEF MissingStays, HeldAreBest, Best
<1>6. ListedAreBest
  <2> SUFFICES ASSUME NEW c \in Calls PROVE Best(Listed(c), Stored)
    BY DEF ListedAreBest
  <2>1. CASE Listed(c) = <<>>
    BY <2>1, RefsEmpty DEF Best
  <2>2. CASE Listed(c) # <<>>
    BY <1>3, <2>2, RefsSingle DEF Best
  <2> QED
    BY <2>1, <2>2
<1> QED
  BY <1>1, <1>4, <1>5, <1>6 DEF BestInv

(* Steps that leave the rows and what runs hold alone.                     *)
LEMMA BestSame ==
    ASSUME BestInv, Seeded', UNCHANGED <<file, refs, unresolved, have>>
    PROVE  BestInv'
BY DEF BestInv, FetchedOnce, Fresh, MissingStays, HeldAreBest, ListedAreBest, Best, Refs,
       LastRef, Listed, Stored

(* A cleared file stores nothing, and a new one neither.                   *)
LEMMA BestCleared ==
    ASSUME BestInv, UNCHANGED <<pc, refs, unresolved, have>>,
           Stored' = {}, \A c \in Calls : Listed(c)' = <<>>
    PROVE  BestInv'
<1>1. Seeded'
  BY DEF BestInv, Seeded
<1>2. FetchedOnce'
  BY RefsEmpty DEF BestInv, FetchedOnce, Fresh
<1>3. MissingStays' /\ HeldAreBest' /\ ListedAreBest'
  BY DEF MissingStays, HeldAreBest, ListedAreBest, Best
<1> QED
  BY <1>1, <1>2, <1>3 DEF BestInv

LEMMA BestReading ==
    ASSUME TypeOK, BestInv, NEW r \in Runs, Reading(r)
    PROVE  BestInv'
<1>1. Stored' = Stored /\ \A c \in Calls : Listed(c)' = Listed(c)
  BY DEF Reading, Stored, Listed
<1>2. CASE Peek(r, Seen)
  BY <1>2, BestSame DEF Peek, Reading, BestInv, Seeded, TypeOK
<1>3. CASE ReadPlan(r, Seen)
  <2>1. /\ have' = have /\ refs' = [refs EXCEPT ![r] = CachedRefs(Seen.row)]
        /\ \A s \in Runs : s # r => unresolved'[s] = unresolved[s] /\ refs'[s] = refs[s]
        /\ refs'[r] = CachedRefs(Seen.row)
        /\ unresolved'[r] = {c \in Calls : refs'[r][c] # <<>>}
    BY <1>3 DEF ReadPlan, TypeOK
  <2>2. ASSUME NEW c \in Calls
        PROVE  /\ Refs(refs'[r][c]) \subseteq Refs(Listed(c))
               /\ Best(refs'[r][c], Stored)
    <3>1. CASE refs'[r][c] = <<>>
      BY <3>1, RefsEmpty DEF Best
    <3>2. CASE \E id \in Refs(Listed(c)) \cap Id : refs'[r][c] = <<id>>
      BY <3>2, RefsSingle DEF Best
    <3> QED
      BY <2>1, <3>1, <3>2, ReadListed
  <2>3. Seeded'
    <3>1. pc'[r] \in {"fetch", "upsert"} => unresolved'[r] = {}
      BY <1>3 DEF ReadPlan, TypeOK
    <3>2. \A s \in Runs : s # r => pc'[s] = pc[s] /\ unresolved'[s] = unresolved[s]
      BY <1>3 DEF ReadPlan, TypeOK
    <3> QED
      BY <3>1, <3>2 DEF BestInv, Seeded
  <2>4. FetchedOnce'
    <3> SUFFICES ASSUME NEW s \in Runs, NEW c \in Calls, c \notin have[s]
                 PROVE  Fresh(<<s, c>>)'
      BY <2>1 DEF FetchedOnce
    <3>1. Fresh(<<s, c>>)
      BY DEF BestInv, FetchedOnce
    <3> QED
      BY <1>1, <2>1, <2>2, <3>1 DEF Fresh
  <2>5. MissingStays' /\ HeldAreBest' /\ ListedAreBest'
    BY <1>1, <2>1, <2>2, RefsEmpty DEF BestInv, MissingStays, HeldAreBest, ListedAreBest, Best
  <2> QED
    BY <2>3, <2>4, <2>5 DEF BestInv
<1>4. CASE ResolveRef(r, Seen)
  <2>1. PICK c \in Calls :
          /\ c \in unresolved[r]
          /\ have' = [have EXCEPT ![r] = IF LastRef(refs[r][c]) \in Seen.stored THEN @ \cup {c} ELSE @]
          /\ unresolved' = [unresolved EXCEPT ![r] = @ \ {c}]
    BY <1>4 DEF ResolveRef, IsFirst
  <2>2. /\ refs' = refs
        /\ \A s \in Runs : have[s] \subseteq have'[s]
        /\ \A s \in Runs : s # r => have'[s] = have[s] /\ unresolved'[s] = unresolved[s]
        /\ unresolved'[r] = unresolved[r] \ {c}
        /\ LastRef(refs[r][c]) \in Stored => c \in have'[r]
    BY <1>4, <2>1, SeenType DEF ResolveRef, TypeOK
  <2>3. Seeded'
    <3>1. pc'[r] \in {"fetch", "upsert"} => unresolved'[r] = {}
      BY <1>4 DEF ResolveRef, TypeOK
    <3>2. \A s \in Runs : s # r => pc'[s] = pc[s]
      BY <1>4 DEF ResolveRef, TypeOK
    <3> QED
      BY <2>2, <3>1, <3>2 DEF BestInv, Seeded
  <2>4. FetchedOnce'
    BY <1>1, <2>2 DEF BestInv, FetchedOnce, Fresh
  <2>5. MissingStays'
    <3> SUFFICES ASSUME NEW s \in Runs, NEW d \in Calls, d \notin have'[s] \cup unresolved'[s]
                 PROVE  Refs(refs[s][d]) \cap Stored = {}
      BY <1>1, <2>2 DEF MissingStays
    <3>1. CASE s = r /\ d = c
      BY <2>2, <3>1 DEF BestInv, HeldAreBest, Best
    <3>2. CASE ~(s = r /\ d = c)
      BY <2>2, <3>2 DEF BestInv, MissingStays
    <3> QED
      BY <3>1, <3>2
  <2>6. HeldAreBest' /\ ListedAreBest'
    BY <1>1, <2>2 DEF BestInv, HeldAreBest, ListedAreBest
  <2> QED
    BY <2>3, <2>4, <2>5, <2>6 DEF BestInv
<1> QED
  BY <1>2, <1>3, <1>4 DEF Reading, Receive

(* What storing the response of c does to what r and the file hold; if the *)
(* file r writes to was unlinked, nothing is stored.                       *)
LEMMA StoringShape ==
    ASSUME TypeInv, NEW r \in Runs, NEW c \in Calls, Storing(r, c)
    PROVE  /\ <<r, c>> \in Id
           /\ have' = [have EXCEPT ![r] = @ \cup {c}]
           /\ Refs(refs'[r][c]) = Refs(refs[r][c]) \cup {<<r, c>>}
           /\ LastRef(refs'[r][c]) = <<r, c>>
           /\ \A s \in Runs, d \in Calls : s # r \/ d # c => refs'[s][d] = refs[s][d]
           /\ unresolved' = unresolved
           /\ Stored' = IF orphan[r] THEN Stored ELSE Stored \cup {<<r, c>>}
           /\ \A d \in Calls : Listed(d)' = Listed(d)
<1>1. <<r, c>> \in Id
  BY DEF Id
<1>2. /\ refs'[r][c] = Append(refs[r][c], <<r, c>>) /\ refs[r][c] \in Seq(Id)
      /\ \A s \in Runs, d \in Calls : s # r \/ d # c => refs'[s][d] = refs[s][d]
  BY DEF Storing, TypeInv, TypeOK, Row
<1>3. /\ file' = IF orphan[r] THEN file ELSE [file EXCEPT !.stored = @ \cup {<<r, c>>}]
      /\ ~orphan[r] => file # Absent
  BY DEF Storing, CloseWrite, Write, TypeInv, TypeOK, LiveHasFile
<1>4. CASE orphan[r]
  BY <1>1, <1>2, <1>3, <1>4, RefsAppend DEF Storing, CloseWrite, Stored, Listed
<1>5. CASE ~orphan[r]
  <2>1. file \in Database /\ file # Absent
    BY <1>3, <1>5 DEF TypeInv, TypeOK
  <2>2. /\ file' = [file EXCEPT !.stored = @ \cup {<<r, c>>}] /\ file' # Absent
        /\ file'.row = file.row /\ file'.stored = file.stored \cup {<<r, c>>}
    <3>1. [file EXCEPT !.stored = @ \cup {<<r, c>>}] \in Database
      BY <1>1, <2>1 DEF Database
    <3> QED
      BY <1>3, <1>5, <2>1, <3>1, LookupAssumption DEF Database
  <2>3. Stored' = Stored \cup {<<r, c>>} /\ \A d \in Calls : Listed(d)' = Listed(d)
    BY <2>1, <2>2 DEF Stored, Listed
  <2> QED
    BY <1>1, <1>2, <1>5, <2>3, RefsAppend DEF Storing, CloseWrite
<1> QED
  BY <1>4, <1>5

LEMMA BestStoring ==
    ASSUME TypeInv, BestInv, NEW r \in Runs, NEW c \in Calls, Storing(r, c)
    PROVE  BestInv'
<1>0. /\ have' = [have EXCEPT ![r] = @ \cup {c}]
      /\ Refs(refs'[r][c]) = Refs(refs[r][c]) \cup {<<r, c>>}
      /\ LastRef(refs'[r][c]) = <<r, c>>
      /\ \A s \in Runs, d \in Calls : s # r \/ d # c => refs'[s][d] = refs[s][d]
      /\ unresolved' = unresolved
      /\ Stored' = IF orphan[r] THEN Stored ELSE Stored \cup {<<r, c>>}
      /\ \A d \in Calls : Listed(d)' = Listed(d)
  BY StoringShape
<1>1. c \notin have[r] /\ Fresh(<<r, c>>) /\ Refs(refs[r][c]) \cap Stored = {}
  BY DEF Storing, BestInv, FetchedOnce, Seeded, MissingStays
<1>2. \A s \in Runs : have[s] \subseteq have'[s] /\ (s # r => have'[s] = have[s])
  BY <1>0 DEF TypeInv, TypeOK
<1>3. have'[r] = have[r] \cup {c}
  BY <1>0 DEF TypeInv, TypeOK
<1>4. Seeded'
  <2>1. \A s \in Runs : s # r => pc'[s] = pc[s]
    BY DEF Storing, TypeInv, TypeOK
  <2>2. unresolved'[r] = {} /\ unresolved' = unresolved
    BY <1>0 DEF Storing, BestInv, Seeded
  <2> QED
    BY <2>1, <2>2 DEF BestInv, Seeded
<1>5. FetchedOnce'
  <2> SUFFICES ASSUME NEW s \in Runs, NEW d \in Calls, d \notin have'[s]
               PROVE  Fresh(<<s, d>>)'
    BY DEF FetchedOnce
  <2>1. Fresh(<<s, d>>) /\ <<s, d>> # <<r, c>>
    BY <1>2, <1>3 DEF BestInv, FetchedOnce
  <2>2. \A t \in Runs, e \in Calls : <<s, d>> \notin Refs(refs'[t][e])
    <3> SUFFICES ASSUME NEW t \in Runs, NEW e \in Calls PROVE <<s, d>> \notin Refs(refs'[t][e])
      OBVIOUS
    <3>1. CASE t = r /\ e = c
      BY <1>0, <2>1, <3>1 DEF Fresh
    <3>2. CASE t # r \/ e # c
      BY <1>0, <2>1, <3>2 DEF Fresh
    <3> QED
      BY <3>1, <3>2
  <2> QED
    BY <1>0, <2>1, <2>2 DEF Fresh
<1>6. ASSUME NEW s \in Runs, NEW d \in Calls, s # r \/ d # c
      PROVE  Refs(refs'[s][d]) \cap Stored' = Refs(refs[s][d]) \cap Stored
  BY <1>0, <1>1, <1>6 DEF Fresh
<1>7. MissingStays'
  <2> SUFFICES ASSUME NEW s \in Runs, NEW d \in Calls, d \notin have'[s] \cup unresolved'[s]
               PROVE  Refs(refs'[s][d]) \cap Stored' = {}
    BY DEF MissingStays
  <2>1. s # r \/ d # c
    BY <1>3
  <2> QED
    BY <1>0, <1>2, <1>6, <2>1 DEF BestInv, MissingStays
<1>8. HeldAreBest'
  <2> SUFFICES ASSUME NEW s \in Runs, NEW d \in Calls PROVE Best(refs'[s][d], Stored')
    BY DEF HeldAreBest, Best, Refs, LastRef
  <2>1. CASE s # r \/ d # c
    <3>1. Best(refs[s][d], Stored)
      BY DEF BestInv, HeldAreBest
    <3> QED
      BY <1>0, <1>6, <2>1, <3>1 DEF Best
  <2>2. CASE s = r /\ d = c
    BY <1>0, <1>1, <2>2 DEF Best, Fresh
  <2> QED
    BY <2>1, <2>2
<1>9. ListedAreBest'
  <2> SUFFICES ASSUME NEW d \in Calls PROVE Best(Listed(d), Stored')
    BY <1>0 DEF ListedAreBest
  <2>1. Best(Listed(d), Stored) /\ <<r, c>> \notin Refs(Listed(d))
    BY <1>1 DEF BestInv, ListedAreBest, Fresh
  <2> QED
    BY <1>0, <2>1 DEF Best
<1> QED
  BY <1>4, <1>5, <1>7, <1>8, <1>9 DEF BestInv

(* A write to the plan's row lists what the run holds.                     *)
LEMMA UpsertShape ==
    ASSUME TypeInv, NEW r \in Runs, Upsert(r)
    PROVE  /\ Stored' = Stored /\ UNCHANGED <<refs, unresolved, have, clears>>
           /\ \/ \A c \in Calls : Listed(c)' = Listed(c)
              \/ ~orphan[r] /\ \A c \in Calls : Listed(c)' = refs[r][c]
<1>1. /\ file' = IF orphan[r] THEN file ELSE [file EXCEPT !.row = refs[r]]
      /\ ~orphan[r] => file # Absent
  BY DEF Upsert, CloseWrite, Write, TypeInv, TypeOK, LiveHasFile
<1>2. CASE orphan[r]
  BY <1>1, <1>2 DEF Upsert, CloseWrite, Stored, Listed
<1>3. CASE ~orphan[r]
  <2>1. file \in Database /\ file # Absent /\ refs[r] \in Row
    BY <1>1, <1>3 DEF TypeInv, TypeOK
  <2>2. file' # Absent /\ file'.row = refs[r] /\ file'.stored = file.stored
    <3>1. [file EXCEPT !.row = refs[r]] \in Database
      BY <2>1 DEF Database
    <3> QED
      BY <1>1, <1>3, <2>1, <3>1, LookupAssumption DEF Database
  <2>3. refs[r] # NoRow
    BY <2>1, LookupAssumption
  <2> QED
    BY <1>3, <2>1, <2>2, <2>3 DEF Upsert, CloseWrite, Stored, Listed
<1> QED
  BY <1>2, <1>3

LEMMA BestUpsert ==
    ASSUME TypeInv, BestInv, NEW r \in Runs, Upsert(r)
    PROVE  BestInv'
<1>1. Seeded'
  BY DEF Upsert, CloseWrite, TypeInv, TypeOK, BestInv, Seeded
<1>2. FetchedOnce' /\ MissingStays' /\ HeldAreBest'
  BY UpsertShape DEF BestInv, FetchedOnce, Fresh, MissingStays, HeldAreBest
<1>3. ListedAreBest'
  BY UpsertShape DEF BestInv, HeldAreBest, ListedAreBest
<1> QED
  BY <1>1, <1>2, <1>3 DEF BestInv

(* A step that creates the file, or finds it, changes no row.              *)
LEMMA OpenShape ==
    ASSUME TypeInv, NEW r \in Runs, OpenWrite(r)
    PROVE  /\ UNCHANGED <<pc, orphan, refs, unresolved, have, clears>>
           /\ Stored' = Stored /\ \A c \in Calls : Listed(c)' = Listed(c)
<1>1. CASE file = Absent
  BY <1>1, EmptyType, LookupAssumption DEF OpenWrite, Stored, Listed
<1>2. CASE file # Absent
  BY <1>2 DEF OpenWrite, Stored, Listed
<1> QED
  BY <1>1, <1>2 DEF OpenWrite

LEMMA BestStep == TypeInv /\ BestInv /\ [Next]_vars => BestInv'
<1> SUFFICES ASSUME TypeInv, BestInv, [Next]_vars PROVE BestInv'
  OBVIOUS
<1>1. ASSUME NEW r \in Runs, Start(r) PROVE BestInv'
  <2>1. Seeded'
    BY <1>1 DEF Start, TypeInv, TypeOK, BestInv, Seeded
  <2> QED
    BY <1>1, <2>1, BestSame DEF Start
<1>2. ASSUME NEW r \in Runs, Failing(r) PROVE BestInv'
  <2>1. Fail(r)
    BY <1>2, Failures
  <2>2. Seeded'
    BY <2>1 DEF Fail, TypeInv, TypeOK, BestInv, Seeded
  <2> QED
    BY <2>1, <2>2, BestSame DEF Fail
<1>3. ASSUME NEW r \in Runs, FindNothing(r) \/ OpenRead(r) PROVE BestInv'
  BY <1>3, Readings, BestReading DEF TypeInv
<1>4. ASSUME UNCHANGED <<file, pc, refs, unresolved, have>> PROVE BestInv'
  BY <1>4, BestSame DEF BestInv, Seeded
<1>5. ASSUME NEW r \in Runs, FindFile(r) \/ CloseRead(r) \/ TakeLock(r) PROVE BestInv'
  BY <1>4, <1>5 DEF FindFile, CloseRead, TakeLock
<1>6. ASSUME NEW r \in Runs, OpenWrite(r) PROVE BestInv'
  BY <1>6, OpenShape
     DEF BestInv, Seeded, FetchedOnce, Fresh, MissingStays, HeldAreBest, ListedAreBest
<1>7. ASSUME NEW r \in Runs, StoreResponse(r) PROVE BestInv'
  BY <1>7, StoreIsStoring, BestStoring
<1>8. ASSUME NEW r \in Runs, Upsert(r) PROVE BestInv'
  BY <1>8, BestUpsert
<1>9. CASE Clear
  BY <1>9, BestCleared DEF Clear, Stored, Listed
<1>10. CASE UNCHANGED vars
  BY <1>4, <1>10 DEF vars
<1> QED
  BY <1>1, <1>2, <1>3, <1>5, <1>6, <1>7, <1>8, <1>9, <1>10 DEF Next, Step, Failing

(* No interleaving of lookups, crashes and clears leaves a stored response *)
(* behind a reference that leads nowhere.                                  *)
THEOREM LastIsBestCorrect == Spec => []LastIsBest
<1>1. TypeInv /\ BestInv => LastIsBest
  <2> SUFFICES ASSUME TypeInv, BestInv, NEW c \in Calls, NEW i \in 1 .. Len(Listed(c)),
                      Listed(c)[i] \in Stored
               PROVE  LastRef(Listed(c)) \in Stored
    BY DEF LastIsBest
  <2>1. Listed(c)[i] \in Refs(Listed(c))
    BY DEF Refs
  <2> QED
    BY <2>1 DEF BestInv, ListedAreBest, Best
<1> QED
  BY <1>1, BestInit, BestStep, TypeInvariant, PTL DEF Spec

-----------------------------------------------------------------------------
(* Until the file is cleared, all that is held or listed is stored.        *)
KeptWhole ==
    clears = 0 =>
        /\ \A r \in Runs : ~orphan[r]
        /\ \A r \in Runs, c \in Calls : Refs(refs[r][c]) \subseteq Stored
        /\ \A c \in Calls : Refs(Listed(c)) \subseteq Stored

LEMMA KeptInit == Init => KeptWhole
<1> SUFFICES ASSUME Init PROVE KeptWhole
  OBVIOUS
<1>1. \A r \in Runs, c \in Calls : refs[r][c] = <<>> /\ ~orphan[r]
  BY DEF Init
<1>2. ASSUME NEW c \in Calls PROVE Refs(Listed(c)) \subseteq Stored
  <2>1. CASE file = Absent
    BY <2>1, RefsEmpty DEF Listed
  <2>2. CASE file # Absent
    <3>1. PICK listed \in SUBSET Calls :
            file = [row |-> [d \in Calls |-> IF d \in listed THEN <<<<Earlier, d>>>> ELSE <<>>],
                    stored |-> {Earlier} \X Calls]
      BY <2>2 DEF Init, Left
    <3>2. Stored = {Earlier} \X Calls /\ Listed(c) \in {<<>>, <<<<Earlier, c>>>>}
      BY <2>2, <3>1 DEF Listed, Stored
    <3> QED
      BY <3>2, RefsEmpty, RefsSingle
  <2> QED
    BY <2>1, <2>2
<1>3. \A r \in Runs : ~orphan[r]
  BY DEF Init
<1> QED
  BY <1>1, <1>2, <1>3, RefsEmpty DEF KeptWhole

(* Only clearing the file counts.                                          *)
LEMMA OnlyClearCounts ==
    ASSUME NEW r \in Runs, Start(r) \/ Step(r) \/ Kill(r)
    PROVE  clears' = clears
<1>1. CASE Start(r) \/ Failing(r)
  BY <1>1, Failures DEF Start, Fail
<1>2. CASE FindNothing(r) \/ OpenRead(r)
  BY <1>2 DEF FindNothing, OpenRead
<1>3. CASE FindFile(r) \/ CloseRead(r) \/ TakeLock(r) \/ OpenWrite(r)
  BY <1>3 DEF FindFile, CloseRead, TakeLock, OpenWrite
<1>4. CASE StoreResponse(r) \/ Upsert(r)
  BY <1>4 DEF StoreResponse, Upsert, CloseWrite
<1> QED
  BY <1>1, <1>2, <1>3, <1>4 DEF Step, Failing

LEMMA KeptStep == TypeInv /\ KeptWhole /\ [Next]_vars => KeptWhole'
<1> SUFFICES ASSUME TypeInv, KeptWhole, [Next]_vars PROVE KeptWhole'
  OBVIOUS
<1> SUFFICES ASSUME clears' = 0 PROVE KeptWhole'
  BY DEF KeptWhole
<1>0. clears = 0
  <2>1. clears' = clears \/ clears' = clears + 1
    BY OnlyClearCounts DEF Next, Clear, vars
  <2> QED
    BY <2>1 DEF TypeInv, TypeOK
<1>1. /\ \A r \in Runs : ~orphan[r]
      /\ \A r \in Runs, c \in Calls : Refs(refs[r][c]) \subseteq Stored
      /\ \A c \in Calls : Refs(Listed(c)) \subseteq Stored
  BY <1>0 DEF KeptWhole
<1>2. ASSUME UNCHANGED <<file, refs>>, \A r \in Runs : ~orphan'[r] PROVE KeptWhole'
  BY <1>1, <1>2 DEF KeptWhole, Stored, Listed
<1>3. ASSUME NEW r \in Runs,
             \/ Start(r) \/ Failing(r) \/ FindFile(r) \/ CloseRead(r) \/ TakeLock(r)
             \/ UNCHANGED vars
      PROVE  KeptWhole'
  <2>1. Start(r) \/ Fail(r) \/ FindFile(r) \/ CloseRead(r) \/ TakeLock(r) \/ UNCHANGED vars
    BY <1>3, Failures
  <2> QED
    BY <1>1, <1>2, <2>1
       DEF Start, Fail, FindFile, CloseRead, TakeLock, vars, TypeInv, TypeOK
<1>4. ASSUME NEW r \in Runs, FindNothing(r) \/ OpenRead(r) PROVE KeptWhole'
  <2>1. Reading(r)
    BY <1>4, Readings
  <2>2. Stored' = Stored /\ (\A c \in Calls : Listed(c)' = Listed(c)) /\ orphan' = orphan
    BY <2>1 DEF Reading, Stored, Listed
  <2>3. ASSUME NEW c \in Calls PROVE Refs(CachedRefs(Seen.row)[c]) \subseteq Stored
    <3>1. CASE CachedRefs(Seen.row)[c] = <<>>
      BY <3>1, RefsEmpty
    <3>2. ASSUME NEW id \in Refs(Listed(c)), CachedRefs(Seen.row)[c] = <<id>>
          PROVE  Refs(CachedRefs(Seen.row)[c]) \subseteq Stored
      BY <1>1, <3>2, RefsSingle
    <3> QED
      BY <3>1, <3>2, ReadListed DEF TypeInv
  <2>4. ASSUME NEW s \in Runs, NEW c \in Calls
        PROVE  refs'[s][c] \in {refs[s][c], CachedRefs(Seen.row)[c]}
    BY <2>1, <2>4 DEF Reading, Receive, Peek, ReadPlan, ResolveRef, TypeInv, TypeOK
  <2> QED
    BY <1>1, <2>2, <2>3, <2>4 DEF KeptWhole
<1>5. ASSUME NEW r \in Runs, OpenWrite(r) PROVE KeptWhole'
  BY <1>1, <1>5, OpenShape DEF KeptWhole
<1>6. ASSUME NEW r \in Runs, NEW c \in Calls, Storing(r, c) PROVE KeptWhole'
  <2>1. /\ Refs(refs'[r][c]) = Refs(refs[r][c]) \cup {<<r, c>>}
        /\ \A s \in Runs, d \in Calls : s # r \/ d # c => refs'[s][d] = refs[s][d]
        /\ Stored' = Stored \cup {<<r, c>>}
        /\ \A d \in Calls : Listed(d)' = Listed(d)
    BY <1>1, <1>6, StoringShape
  <2>2. \A s \in Runs : ~orphan'[s]
    BY <1>1, <1>6 DEF Storing, CloseWrite, TypeInv, TypeOK
  <2>3. ASSUME NEW s \in Runs, NEW d \in Calls PROVE Refs(refs'[s][d]) \subseteq Stored'
    <3>1. CASE s = r /\ d = c
      BY <1>1, <2>1, <3>1
    <3>2. CASE s # r \/ d # c
      <4>1. refs'[s][d] = refs[s][d]
        BY <2>1, <3>2
      <4> QED
        BY <1>1, <2>1, <4>1
    <3> QED
      BY <3>1, <3>2
  <2> QED
    BY <1>1, <2>1, <2>2, <2>3 DEF KeptWhole
<1>7. ASSUME NEW r \in Runs, Upsert(r) PROVE KeptWhole'
  <2>1. \A s \in Runs : ~orphan'[s]
    BY <1>1, <1>7 DEF Upsert, CloseWrite, TypeInv, TypeOK
  <2> QED
    BY <1>1, <1>7, <2>1, UpsertShape DEF KeptWhole
<1>8. ~Clear
  BY <1>0 DEF Clear
<1>9. CASE UNCHANGED vars
  BY <1>1, <1>2, <1>9 DEF vars
<1> QED
  BY <1>3, <1>4, <1>5, <1>6, <1>7, <1>8, <1>9, StoreIsStoring DEF Next, Step, Failing

(* Responses are stored before they are listed, whoever else runs, waits   *)
(* or dies: as long as no one clears the file, no reference dangles.       *)
THEOREM ListedCorrect == Spec => []ListedAreStored
<1>1. KeptWhole => ListedAreStored
  BY DEF KeptWhole, ListedAreStored, Refs
<1> QED
  BY <1>1, KeptInit, KeptStep, TypeInvariant, PTL DEF Spec

-----------------------------------------------------------------------------
(* What a run read of a call is among what it holds of it.                 *)
LEMMA ReadIsHeld ==
    ASSUME NEW r \in Runs, NEW c \in Calls, refs[r][c] \in Seq(Id), NEW id,
           ReadRow(r)[c] = <<id>>
    PROVE  refs[r][c] # <<>> /\ id \in Refs(refs[r][c])
<1>1. refs[r][c] # <<>> /\ id = refs[r][c][1]
  BY DEF ReadRow
<1>2. Len(refs[r][c]) \in Nat /\ Len(refs[r][c]) # 0
  BY <1>1
<1> QED
  BY <1>1, <1>2 DEF Refs

(* A write of a row that holds all the row had of use loses none of it.    *)
LEMMA UpsertForgetsNothing ==
    ASSUME TypeInv, BestInv, NEW r \in Runs, Upsert(r), file # Absent,
           CachedRefs(file.row) = ReadRow(r), NEW c \in Calls, HasStored(c)
    PROVE  HasStored(c)'
<1>1. file \in Database /\ refs[r][c] \in Seq(Id)
  BY DEF TypeInv, TypeOK, Row
<1>2. Listed(c) = file.row[c] /\ file.row # NoRow /\ file.row[c] # <<>>
  BY DEF HasStored, Listed
<1>3. ReadRow(r)[c] = <<LastRef(Listed(c))>>
  BY <1>2 DEF CachedRefs
<1>4. refs[r][c] # <<>> /\ LastRef(Listed(c)) \in Refs(refs[r][c])
  BY <1>1, <1>3, ReadIsHeld
<1>5. LastRef(refs[r][c]) \in Stored
  BY <1>4 DEF BestInv, HeldAreBest, Best, HasStored
<1>6. Stored' = Stored /\ (Listed(c)' = Listed(c) \/ Listed(c)' = refs[r][c])
  BY UpsertShape
<1> QED
  BY <1>4, <1>5, <1>6 DEF HasStored, LastRef

(* A lookup that ran some calls of the plan and read the row there keeps a *)
(* stored response listed for every call that had one.                     *)
THEOREM FilteredRunsCorrect == Spec => FilteredRunsForgetNothing
<1>1. TypeInv /\ BestInv /\ [Next]_vars
         => [\A r \in Runs : Upsert(r) /\ file # Absent /\ CachedRefs(file.row) = ReadRow(r)
                => \A c \in Calls : HasStored(c) => HasStored(c)']_vars
  BY UpsertForgetsNothing
<1> QED
  BY <1>1, BestInit, BestStep, TypeInvariant, PTL DEF Spec, FilteredRunsForgetNothing
=============================================================================
