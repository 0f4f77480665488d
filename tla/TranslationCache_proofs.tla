------------------------ MODULE TranslationCache_proofs -----------------------
(***************************************************************************)
(* For any number of lookups and clears.  The accounting of rejected       *)
(* translations: the record of rejections and the clears that rejected     *)
(* agree, and clears with a limit keep it.  The table: what a run has      *)
(* translated it shows, and no failed answer hides a translation.          *)
(***************************************************************************)
EXTENDS TranslationCache, FiniteSetTheorems, WellFoundedInduction, TLAPS

(* Of the state, what the accounting depends on.                           *)
ClearTypes ==
    /\ rejections \in Seq(Keys \cup {NoKey})
    /\ lock \in Clears \cup {Nobody}
    /\ pc \in [Runs \cup Clears -> RunStates \cup ClearStates]
    /\ request \in [Clears -> Requests]
    /\ deleted \in [Clears -> BOOLEAN]

(* A clear that deletes holds the lock, and was within its limit when it   *)
(* took it; one that has deleted is done.                                  *)
Deleting ==
    /\ \A c \in Clears : pc[c] = "delete" =>
          /\ lock = c
          /\ request[c].limited => Generation(request[c]) < MaxRetries
    /\ \A c \in Clears : deleted[c] => pc[c] = "done"

RejectedClears == {c \in Clears : Rejected(c)}
LimitedClears  == {c \in Clears : Rejected(c) /\ request[c].limited}

AccountInv == ClearTypes /\ Deleting /\ RejectionsAccounted /\ RejectionsCapped

(* What a request is made of.                                              *)
LEMMA RequestShape ==
    ASSUME NEW q \in Requests
    PROVE  q.limited \in BOOLEAN /\ q.reason \in BOOLEAN /\ q.id \in Keys
BY TranslationAssumption DEF Request

(* A generation is a number.                                               *)
LEMMA GenerationType ==
    ASSUME ClearTypes, NEW q
    PROVE  Generation(q) \in Nat
<1>1. Len(rejections) \in Nat /\ DOMAIN rejections = 1 .. Len(rejections)
  BY DEF ClearTypes
<1>2. IsFiniteSet(1 .. Len(rejections))
  BY <1>1, FS_Interval
<1>3. Cardinality({i \in DOMAIN rejections : rejections[i] = q.id}) \in Nat
  BY <1>1, <1>2, FS_Subset, FS_CardinalityType
<1> QED
  BY <1>1, <1>3 DEF Generation

LEMMA AccountInit == Init => AccountInv
<1> SUFFICES ASSUME Init PROVE AccountInv
  OBVIOUS
<1>1. ClearTypes
  BY TranslationAssumption DEF Init, ClearTypes, RunStates, ClearStates
<1>2. Deleting
  BY TranslationAssumption DEF Init, Deleting
<1>3. RejectedClears = {} /\ LimitedClears = {}
  BY DEF Init, RejectedClears, LimitedClears, Rejected
<1>4. Cardinality(RejectedClears) = 0 /\ Cardinality(LimitedClears) = 0 /\ Len(rejections) = 0
  BY <1>3, FS_EmptySet DEF Init
<1>5. RejectionsAccounted
  BY <1>4 DEF RejectionsAccounted, RejectedClears
<1>6. RejectionsCapped
  <2>1. Cardinality(LimitedClears) <= MaxRetries
    BY <1>4, TranslationAssumption
  <2> QED
    BY <2>1 DEF RejectionsCapped, LimitedClears
<1> QED
  BY <1>1, <1>2, <1>5, <1>6 DEF AccountInv

(* Steps that record nothing: the request of a clear may change while it   *)
(* is idle, and nothing else the accounts are made of.                     *)
Quiet ==
    /\ UNCHANGED <<rejections, deleted>>
    /\ \A c \in Clears : request'[c] = request[c] \/ pc[c] = "idle"

LEMMA QuietAccounts ==
    ASSUME ClearTypes, Deleting, RejectionsAccounted, RejectionsCapped, Quiet
    PROVE  RejectionsAccounted' /\ RejectionsCapped'
<1>1. ASSUME NEW c \in Clears PROVE Rejected(c)' <=> Rejected(c)
  BY <1>1 DEF Quiet, Deleting, Rejected
<1>2. ASSUME NEW c \in Clears, Rejected(c) PROVE request'[c] = request[c]
  BY <1>2 DEF Quiet, Deleting, Rejected
<1>3. {c \in Clears : Rejected(c)}' = {c \in Clears : Rejected(c)}
  BY <1>1
<1>4. {c \in Clears : Rejected(c) /\ request[c].limited}'
        = {c \in Clears : Rejected(c) /\ request[c].limited}
  BY <1>1, <1>2
<1> QED
  BY <1>3, <1>4 DEF Quiet, RejectionsAccounted, RejectionsCapped

LEMMA CommitAccounts ==
    ASSUME AccountInv, NEW c \in Clears, CommitClear(c)
    PROVE  AccountInv'
<1> DEFINE q    == request[c]
           some == Matching(q) # {}
<1>1. /\ pc[c] = "delete" /\ lock = c /\ ~deleted[c] /\ q \in Requests
      /\ q.limited => Generation(q) < MaxRetries
  BY DEF CommitClear, AccountInv, Deleting, ClearTypes
<1>2. /\ deleted' = [deleted EXCEPT ![c] = some]
      /\ rejections' = IF some /\ q.reason /\ "source" \in q.fields
                       THEN Append(rejections, IF "id" \in q.fields THEN q.id ELSE NoKey)
                       ELSE rejections
      /\ lock' = Nobody /\ pc' = [pc EXCEPT ![c] = "done"]
      /\ request' = request
  BY DEF CommitClear, Goto, config
<1> HIDE DEF some
<1>3. ClearTypes'
  <2>1. (IF "id" \in q.fields THEN q.id ELSE NoKey) \in Keys \cup {NoKey}
    BY <1>1, RequestShape
  <2>2. rejections' \in Seq(Keys \cup {NoKey})
    BY <1>2, <2>1 DEF AccountInv, ClearTypes
  <2>3. some \in BOOLEAN
    BY DEF some
  <2> QED
    BY <1>2, <2>2, <2>3 DEF AccountInv, ClearTypes, ClearStates
<1>4. Deleting'
  <2>1. ASSUME NEW d \in Clears PROVE pc'[d] # "delete"
    BY <1>1, <1>2, <2>1, TranslationAssumption DEF AccountInv, Deleting, ClearTypes
  <2>2. ASSUME NEW d \in Clears, deleted'[d] PROVE pc'[d] = "done"
    BY <1>2, <2>2 DEF AccountInv, Deleting, ClearTypes
  <2> QED
    BY <2>1, <2>2 DEF Deleting
<1>5. /\ IsFiniteSet(RejectedClears) /\ IsFiniteSet(LimitedClears)
      /\ c \notin RejectedClears /\ c \notin LimitedClears
  BY <1>1, FS_Subset, TranslationAssumption DEF RejectedClears, LimitedClears, Rejected
<1>6. ASSUME NEW d \in Clears PROVE Rejected(d)' <=> Rejected(d) \/ (d = c /\ Rejected(c)')
  BY <1>1, <1>2 DEF Rejected, AccountInv, ClearTypes
<1>7. Rejected(c)' <=> some /\ q.reason /\ "source" \in q.fields
  BY <1>2 DEF Rejected, AccountInv, ClearTypes
<1>8. /\ Len(rejections) = Cardinality(RejectedClears)
      /\ Cardinality(LimitedClears) <= MaxRetries
  BY DEF AccountInv, RejectionsAccounted, RejectionsCapped, RejectedClears, LimitedClears
<1>9. CASE Rejected(c)'
  <2>1. RejectedClears' = RejectedClears \cup {c}
    BY <1>6, <1>9 DEF RejectedClears
  <2>2. Len(rejections') = Len(rejections) + 1
    BY <1>2, <1>7, <1>9 DEF AccountInv, ClearTypes
  <2>3. Cardinality(RejectedClears') = Cardinality(RejectedClears) + 1
    BY <1>5, <2>1, FS_AddElement
  <2>4. RejectionsAccounted'
    BY <1>8, <2>2, <2>3 DEF RejectionsAccounted, RejectedClears
  <2>5. ASSUME q.limited PROVE RejectionsCapped'
    <3>1. LimitedClears' = LimitedClears \cup {c}
      BY <1>2, <1>6, <1>9, <2>5 DEF LimitedClears
    <3>2. Cardinality(LimitedClears') = Cardinality(LimitedClears) + 1
      BY <1>5, <3>1, FS_AddElement
    <3>3. Len(rejections) < MaxRetries
      BY <1>1, <1>7, <1>9, <2>5 DEF Generation
    <3>4. Cardinality(LimitedClears) <= Cardinality(RejectedClears)
      BY <1>5, FS_Subset DEF LimitedClears, RejectedClears
    <3>5. /\ Cardinality(LimitedClears) \in Nat /\ Cardinality(RejectedClears) \in Nat
          /\ MaxRetries \in Nat
      BY <1>5, FS_CardinalityType, TranslationAssumption
    <3>6. Cardinality(LimitedClears') <= MaxRetries
      BY <1>8, <3>2, <3>3, <3>4, <3>5
    <3> QED
      BY <3>6 DEF RejectionsCapped, LimitedClears
  <2>6. ASSUME ~q.limited PROVE RejectionsCapped'
    <3>1. LimitedClears' = LimitedClears
      BY <1>2, <1>6, <2>6 DEF LimitedClears
    <3> QED
      BY <1>8, <3>1, TranslationAssumption DEF RejectionsCapped, LimitedClears
  <2> QED
    BY <1>3, <1>4, <2>4, <2>5, <2>6 DEF AccountInv
<1>10. CASE ~Rejected(c)'
  <2>1. RejectedClears' = RejectedClears /\ LimitedClears' = LimitedClears
    BY <1>2, <1>6, <1>10 DEF RejectedClears, LimitedClears
  <2>2. rejections' = rejections
    BY <1>2, <1>7, <1>10
  <2>3. RejectionsAccounted' /\ RejectionsCapped'
    BY <1>8, <2>1, <2>2, TranslationAssumption
       DEF RejectionsAccounted, RejectionsCapped, RejectedClears, LimitedClears
  <2> QED
    BY <1>3, <1>4, <2>3 DEF AccountInv
<1> QED
  BY <1>9, <1>10

(* A clear takes the lock and counts in one step.                          *)
LEMMA BeginDeleting ==
    ASSUME ClearTypes, Deleting, NEW c \in Clears, BeginClear(c)
    PROVE  Deleting'
<1>1. UNCHANGED <<request, rejections, deleted>> /\ pc[c] = "open" /\ lock = Nobody
  BY DEF BeginClear, table, config
<1>2. ASSUME NEW d \in Clears, d # c PROVE pc'[d] = pc[d] /\ pc[d] # "delete"
  BY <1>1, <1>2, TranslationAssumption DEF BeginClear, Deleting, ClearTypes, Goto
<1>3. /\ pc'[c] \in {"delete", "limit"} /\ ~deleted[c]
      /\ pc'[c] = "delete" => lock' = c /\ ~(request[c].limited /\ Generation(request[c]) >= MaxRetries)
  BY <1>1 DEF BeginClear, Deleting, ClearTypes, Goto
<1>4. Generation(request[c]) \in Nat /\ MaxRetries \in Nat
  BY GenerationType, TranslationAssumption
<1>5. Generation(request[c])' = Generation(request[c])
  BY <1>1 DEF Generation
<1>6. pc'[c] = "delete" => lock' = c /\ (request'[c].limited => Generation(request[c])' < MaxRetries)
  BY <1>1, <1>3, <1>4, <1>5
<1> QED
  BY <1>1, <1>2, <1>3, <1>6 DEF Deleting

(* A run's step moves that run alone, and touches nothing of the accounts. *)
RunMoves(r, where) ==
    pc' = [pc EXCEPT ![r] = where] /\ UNCHANGED <<rejections, lock, request, deleted>>

LEMMA RunStepMoves ==
    ASSUME NEW r, RunStep(r)
    PROVE  \E where \in RunStates : RunMoves(r, where)
<1> USE DEF RunMoves, RunStates, Goto, table, config
<1>1. CASE Count(r)
  BY <1>1 DEF Count
<1>2. CASE Look(r)
  BY <1>2 DEF Look
<1>3. CASE Translate(r)
  BY <1>3 DEF Translate
<1>4. CASE Project(r)
  BY <1>4 DEF Project
<1> QED
  BY <1>1, <1>2, <1>3, <1>4 DEF RunStep

LEMMA RunKeeps ==
    ASSUME AccountInv, NEW r \in Runs, NEW where \in RunStates, RunMoves(r, where)
    PROVE  ClearTypes' /\ Deleting' /\ Quiet
<1>1. ClearTypes'
  BY DEF AccountInv, ClearTypes, RunMoves
<1>2. \A c \in Clears : pc'[c] = pc[c]
  BY TranslationAssumption DEF AccountInv, ClearTypes, RunMoves
<1>3. \A q : Generation(q)' = Generation(q)
  BY DEF RunMoves, Generation
<1>4. Deleting'
  BY <1>2, <1>3 DEF AccountInv, Deleting, RunMoves
<1> QED
  BY <1>1, <1>4 DEF Quiet, RunMoves

LEMMA AccountStep == AccountInv /\ [Next]_vars => AccountInv'
<1> SUFFICES ASSUME AccountInv, [Next]_vars PROVE AccountInv'
  OBVIOUS
<1> USE TranslationAssumption
<1>1. ASSUME ClearTypes', Deleting', Quiet PROVE AccountInv'
  BY <1>1, QuietAccounts DEF AccountInv
<1>2. ASSUME NEW r \in Runs, RunStep(r) PROVE AccountInv'
  <2>1. PICK where \in RunStates : RunMoves(r, where)
    BY <1>2, RunStepMoves
  <2> QED
    BY <1>1, <2>1, RunKeeps
<1> USE DEF AccountInv, ClearTypes, Deleting, Quiet, RunStates, ClearStates, Goto, table, config,
            Generation
<1>3. ASSUME NEW r \in Runs, NEW m, NEW k, Start(r, m, k) PROVE AccountInv'
  BY <1>1, <1>3 DEF Start
<1>4. ASSUME NEW c \in Clears, NEW q \in Requests, Ask(c, q) PROVE AccountInv'
  BY <1>1, <1>4 DEF Ask
<1>5. ASSUME NEW c \in Clears, BeginClear(c) PROVE AccountInv'
  BY <1>1, <1>5, BeginDeleting DEF BeginClear
<1>6. ASSUME NEW c \in Clears, CommitClear(c) PROVE AccountInv'
  BY <1>6, CommitAccounts
<1>7. ASSUME NEW p \in Runs \cup Clears, Stop(p) PROVE AccountInv'
  BY <1>1, <1>7 DEF Stop
<1>8. CASE UNCHANGED vars
  BY <1>1, <1>8 DEF vars
<1> QED
  BY <1>2, <1>3, <1>4, <1>5, <1>6, <1>7, <1>8 DEF Next, ClearStep

(* The inductive invariant, for any finite number of clears.               *)
THEOREM AccountInvariant == Spec => []AccountInv
BY AccountInit, AccountStep, PTL DEF Spec

(* The rejections on record are those of the clears that took rows, though *)
(* clears overlap, wait for the lock and die at any moment.                *)
THEOREM AccountsCorrect == Spec => []RejectionsAccounted
<1>1. AccountInv => RejectionsAccounted
  BY DEF AccountInv
<1> QED
  BY <1>1, AccountInvariant, PTL

(* Clears that give a limit never reject a text more often than it allows. *)
THEOREM CapCorrect == Spec => []RejectionsCapped
<1>1. AccountInv => RejectionsCapped
  BY DEF AccountInv
<1> QED
  BY <1>1, AccountInvariant, PTL

-----------------------------------------------------------------------------
(* Orders by last use.                                                     *)

(* Renewing a member, new or not, keeps the order and makes it the last.   *)
LEMMA RenewOrders ==
    ASSUME NEW b, NEW S, NEW x \in DOMAIN b, Orders(b, S)
    PROVE  Orders(Renew(b, S, x), S \cup {x})
<1> DEFINE n == Renew(b, S, x)
           T == S \cup {x}
<1>1. /\ DOMAIN n = DOMAIN b
      /\ \A y \in DOMAIN b : n[y] = IF y = x THEN S \ {x} ELSE b[y] \ {x}
  BY DEF Renew
<1>2. \A y \in DOMAIN n : n[y] \subseteq T /\ y \notin n[y]
  BY <1>1 DEF Orders
<1>3. \A y \in DOMAIN n \ T : n[y] = {}
  BY <1>1 DEF Orders
<1>4. /\ \A y, z \in T : y # z => y \in n[z] \/ z \in n[y]
      /\ \A y, z \in T : y \in n[z] => n[y] \subseteq n[z]
  BY <1>1 DEF Orders
<1> QED
  BY <1>1, <1>2, <1>3, <1>4 DEF Orders

LEMMA WithoutOrders ==
    ASSUME NEW b, NEW S, NEW gone, Orders(b, S)
    PROVE  Orders(Without(b, gone), S \ gone)
BY DEF Without, Orders

(* The last and the first of the members of a finite set: one with the     *)
(* fewest members after it, and one with the fewest before it.             *)
LEMMA LastExists ==
    ASSUME NEW b, NEW S, Orders(b, S), IsFiniteSet(S),
           NEW T, T \subseteq S, T # {}
    PROVE  \E x \in T : \A y \in T \ {x} : y \in b[x]
<1> DEFINE later(x) == {y \in T : x \in b[y]}
           sets     == {later(x) : x \in T}
           R        == StrictSubsetOrdering(S)
<1>1. sets \subseteq SUBSET S /\ sets # {}
  OBVIOUS
<1>2. IsWellFoundedOn(R, SUBSET S)
  BY FS_StrictSubsetOrderingWellFounded, FS_FiniteSubsetsOfFinite
<1> HIDE DEF R, sets
<1>3. PICK m \in sets : \A l \in sets : ~ (<<l, m>> \in R)
  BY <1>1, <1>2, WFMin
<1>4. PICK x \in T : m = later(x)
  BY DEF sets
<1>5. ASSUME NEW y \in T \ {x}, y \notin b[x] PROVE FALSE
  <2>1. x \in b[y]
    BY <1>5 DEF Orders
  <2>2. later(y) \subseteq later(x)
    BY <2>1 DEF Orders
  <2>3. y \in later(x) /\ y \notin later(y)
    BY <2>1, <1>5 DEF Orders
  <2>4. <<later(y), later(x)>> \in R
    BY <2>2, <2>3 DEF R, StrictSubsetOrdering
  <2> QED
    BY <1>3, <1>4, <2>4 DEF sets
<1> QED
  BY <1>5

LEMMA FirstExists ==
    ASSUME NEW b, NEW S, Orders(b, S), IsFiniteSet(S),
           NEW T, T \subseteq S, T # {}
    PROVE  \E x \in T : \A y \in T \ {x} : x \in b[y]
<1> DEFINE earlier(x) == {y \in T : y \in b[x]}
           sets       == {earlier(x) : x \in T}
           R          == StrictSubsetOrdering(S)
<1>1. sets \subseteq SUBSET S /\ sets # {}
  OBVIOUS
<1>2. IsWellFoundedOn(R, SUBSET S)
  BY FS_StrictSubsetOrderingWellFounded, FS_FiniteSubsetsOfFinite
<1> HIDE DEF R, sets
<1>3. PICK m \in sets : \A l \in sets : ~ (<<l, m>> \in R)
  BY <1>1, <1>2, WFMin
<1>4. PICK x \in T : m = earlier(x)
  BY DEF sets
<1>5. ASSUME NEW y \in T \ {x}, x \notin b[y] PROVE FALSE
  <2>1. y \in b[x]
    BY <1>5 DEF Orders
  <2>2. earlier(y) \subseteq earlier(x)
    BY <2>1 DEF Orders
  <2>3. y \in earlier(x) /\ y \notin earlier(y)
    BY <2>1, <1>5 DEF Orders
  <2>4. <<earlier(y), earlier(x)>> \in R
    BY <2>2, <2>3 DEF R, StrictSubsetOrdering
  <2> QED
    BY <1>3, <1>4, <2>4 DEF sets
<1> QED
  BY <1>5

-----------------------------------------------------------------------------
(* The table.                                                              *)

(* A text is that of a run of the row's own key, which that run keeps once *)
(* it has started, and a run that has yet to translate has none anywhere;  *)
(* rows without a translation hold none.                                   *)
Early == {"idle", "count", "look", "translate"}
Texts ==
    /\ IsFiniteSet(Stored)
    /\ \A k \in Stored : rows[k].text # Nobody =>
          rows[k].status = "ok" /\ key[rows[k].text] = k /\ pc[rows[k].text] \notin Early
    /\ \A r \in Runs : shown[r] # Nobody => pc[r] \notin Early /\ pc[shown[r]] \notin Early

TableInv == TypeOK /\ Texts /\ OwnTextShown

LEMMA TableInit == Init => TableInv
<1> SUFFICES ASSUME Init PROVE TableInv
  OBVIOUS
<1>1. Stored = {} /\ IsFiniteSet(Stored)
  BY FS_EmptySet DEF Init, Stored
<1>2. (CHOOSE q \in Requests : TRUE) \in Requests
  BY TranslationAssumption
<1>3. PICK q : q \in Requests
  BY TranslationAssumption
<1>4. (CHOOSE k \in Keys : TRUE) \in Keys
  BY <1>3, RequestShape
<1>5. Orders(before, Stored)
  BY <1>1 DEF Orders, Init
<1>6. TypeOK
  BY <1>1, <1>2, <1>4, <1>5 DEF TypeOK, Init, RunStates, ClearStates, NoRow
<1>7. Texts /\ OwnTextShown
  BY <1>1 DEF Init, Texts, OwnTextShown
<1> QED
  BY <1>6, <1>7 DEF TableInv

(* What a lookup finds.                                                    *)
LEMMA GetFinds ==
    ASSUME TableInv, NEW k, NEW seen \in Get(k)
    PROVE  /\ seen.status \in Statuses \cup {"missing"} /\ seen.text \in Runs \cup {Nobody}
           /\ seen.text # Nobody => pc[seen.text] \notin Early
<1>1. CASE seen = NoRow
  BY <1>1 DEF NoRow
<1>2. CASE seen # NoRow
  <2>1. PICK i \in Best(k) : seen = rows[i]
    BY <1>2 DEF Get
  <2>2. i \in Stored /\ rows[i] \in Row /\ Rank(k, i) > 0
    BY <2>1 DEF Best, Stored, TableInv, TypeOK
  <2>3. seen.status \in Statuses /\ seen.text \in Runs \cup {Nobody}
    BY <2>1, <2>2 DEF Row
  <2> QED
    BY <2>1, <2>2, <2>3 DEF TableInv, Texts
<1> QED
  BY <1>1, <1>2

(* Where the exact row has a translation a lookup returns that row.        *)
LEMMA GetExact ==
    ASSUME NEW k \in Stored, rows[k].status = "ok", NEW seen \in Get(k)
    PROVE  seen \in {rows[k], NoRow}
<1> SUFFICES ASSUME NEW i \in Best(k), i # k PROVE FALSE
  BY DEF Get
<1>1. Rank(k, k) = 4
  BY DEF Rank
<1>2. i \in Stored /\ Rank(k, i) \in {0, 1, 2, 3}
  BY DEF Best, Rank
<1>3. Rank(k, k) < Rank(k, i) \/ Rank(k, k) = Rank(k, i)
  BY DEF Best
<1> QED
  BY <1>1, <1>2, <1>3

(* Steps that leave the table, the keys and what is shown alone.           *)
LEMMA MoveTable ==
    ASSUME TableInv, NEW p \in Runs \cup Clears, NEW where \in RunStates \cup ClearStates,
           Goto(p, where), p \in Clears \/ pc[p] \in Early \/ where \notin Early,
           UNCHANGED <<rows, before, rejections, mode, key, shown, deleted>>,
           lock' \in Clears \cup {Nobody}, request' \in [Clears -> Requests]
    PROVE  TableInv'
<1>1. \A x \in Runs : pc[x] \notin Early => pc'[x] \notin Early
  BY TranslationAssumption DEF Goto, TableInv, TypeOK
<1>2. Stored' = Stored
  BY DEF Stored
<1>3. TypeOK'
  BY <1>2 DEF TableInv, TypeOK, Goto
<1>4. Texts'
  BY <1>1, <1>2 DEF TableInv, TypeOK, Texts, Stored, Row, NoRow
<1>5. OwnTextShown'
  BY DEF TableInv, OwnTextShown
<1> QED
  BY <1>3, <1>4, <1>5 DEF TableInv

(* A run takes its key before it has a text anywhere.                      *)
LEMMA StartTable ==
    ASSUME TableInv, NEW r \in Runs, NEW m \in {"cache", "auto", "warm"}, NEW k \in Keys,
           Start(r, m, k)
    PROVE  TableInv'
<1>1. /\ pc[r] = "idle" /\ key' = [key EXCEPT ![r] = k] /\ mode' = [mode EXCEPT ![r] = m]
      /\ UNCHANGED <<rows, before, rejections, lock, shown, request, deleted>>
      /\ \E where \in {"project", "look", "count"} : pc' = [pc EXCEPT ![r] = where]
  BY DEF Start, Goto, table
<1>2. Stored' = Stored
  BY <1>1 DEF Stored
<1>3. TypeOK'
  BY <1>1, <1>2 DEF TableInv, TypeOK, RunStates, ClearStates
<1>4. \A x \in Runs : pc[x] \notin Early => pc'[x] \notin Early
  BY <1>1 DEF Early, TableInv, TypeOK
<1>5. \A s \in Runs : pc[s] \notin Early => key'[s] = key[s]
  BY <1>1 DEF Early, TableInv, TypeOK
<1>6. \A s \in Runs : shown[s] \in Runs \cup {Nobody}
  BY DEF TableInv, TypeOK
<1>7. \A j \in Stored : rows[j].text \in Runs \cup {Nobody}
  BY DEF TableInv, TypeOK, Stored, Row
<1>8. Texts'
  BY <1>1, <1>2, <1>4, <1>5, <1>6, <1>7 DEF TableInv, Texts
<1>9. OwnTextShown'
  <2>1. ASSUME NEW s \in Runs, rows[key'[s]].text = s PROVE shown[s] \in {s, Nobody}
    <3>1. key'[s] \in Keys /\ s # Nobody
      BY <1>1, TranslationAssumption DEF TableInv, TypeOK
    <3>2. key'[s] \in Stored
      BY <2>1, <3>1 DEF Stored, NoRow
    <3>3. pc[s] \notin Early
      BY <2>1, <3>1, <3>2 DEF TableInv, Texts
    <3> QED
      BY <1>5, <2>1, <3>3 DEF TableInv, OwnTextShown
  <2> QED
    BY <1>1, <2>1 DEF OwnTextShown
<1> QED
  BY <1>3, <1>8, <1>9 DEF TableInv

(* A run's answer replaces the row of its key, and becomes the latest.     *)
LEMMA TranslateTable ==
    ASSUME TableInv, NEW r \in Runs, Translate(r)
    PROVE  TableInv'
<1> DEFINE k == key[r]
<1>1. PICK status \in Statuses :
        /\ Put(k, status, IF status = "ok" THEN r ELSE Nobody)
        /\ Goto(r, IF Shows(r) THEN "project" ELSE IF status = "error" THEN "failed" ELSE "done")
  BY DEF Translate
<1> DEFINE new == [status |-> status, text |-> IF status = "ok" THEN r ELSE Nobody]
<1>2. /\ k \in Keys /\ new \in Row /\ new # NoRow
      /\ rows' = [rows EXCEPT ![k] = new] /\ before' = Renew(before, Stored, k)
  BY <1>1 DEF Put, Row, NoRow, Statuses, TableInv, TypeOK
<1>3. /\ pc[r] = "translate"
      /\ UNCHANGED <<rejections, lock, mode, key, request, shown, deleted>>
      /\ \E where \in {"project", "failed", "done"} : pc' = [pc EXCEPT ![r] = where]
  BY <1>1 DEF Translate, Goto, config
<1>4. Stored' = Stored \cup {k}
  BY <1>2 DEF Stored, TableInv, TypeOK
<1>5. IsFiniteSet(Stored')
  BY <1>4, FS_AddElement DEF TableInv, Texts
<1>6. Orders(before', Stored')
  BY <1>2, <1>4, RenewOrders DEF TableInv, TypeOK
<1>7. before' \in [Keys -> SUBSET Keys]
  <2>1. \A j \in Keys : before[j] \subseteq Keys
    BY DEF TableInv, TypeOK
  <2> QED
    BY <1>2, <2>1 DEF Renew, Stored, TableInv, TypeOK
<1>8. rows' \in [Keys -> Row \cup {NoRow}]
  BY <1>2 DEF TableInv, TypeOK
<1>9. TypeOK'
  BY <1>3, <1>6, <1>7, <1>8 DEF TableInv, TypeOK, RunStates, ClearStates
<1>10. \A x \in Runs : x = r \/ pc[x] \notin Early => pc'[x] \notin Early
  BY <1>3 DEF Early, TableInv, TypeOK
<1>11. Texts'
  <2>1. ASSUME NEW j \in Stored', rows'[j].text # Nobody
        PROVE  rows'[j].status = "ok" /\ key'[rows'[j].text] = j /\ pc'[rows'[j].text] \notin Early
    <3>1. CASE j = k
      <4>1. rows'[j] = new
        BY <1>2, <3>1 DEF TableInv, TypeOK
      <4>2. status = "ok" /\ rows'[j].text = r /\ rows'[j].status = "ok"
        BY <2>1, <4>1
      <4> QED
        BY <1>3, <1>10, <3>1, <4>2
    <3>2. CASE j # k
      <4>1. j \in Stored /\ rows'[j] = rows[j]
        BY <1>2, <1>4, <3>2 DEF TableInv, TypeOK, Stored
      <4>2. rows[j].text \in Runs
        BY <2>1, <4>1 DEF TableInv, TypeOK, Stored, Row
      <4> QED
        BY <1>3, <1>10, <2>1, <4>1, <4>2 DEF TableInv, Texts
    <3> QED
      BY <3>1, <3>2
  <2>2. ASSUME NEW s \in Runs, shown'[s] # Nobody
        PROVE  pc'[s] \notin Early /\ pc'[shown'[s]] \notin Early
    BY <1>3, <1>10, <2>2 DEF TableInv, TypeOK, Texts
  <2> QED
    BY <1>5, <2>1, <2>2 DEF Texts
<1>12. OwnTextShown'
  <2>1. shown[r] = Nobody
    BY <1>3 DEF TableInv, Texts, Early
  <2>2. ASSUME NEW s \in Runs, s # r, rows'[key[s]].text = s PROVE rows[key[s]].text = s
    <3>1. key[s] \in Keys /\ s # Nobody
      BY TranslationAssumption DEF TableInv, TypeOK
    <3>2. key[s] # k
      BY <1>2, <2>2, <3>1 DEF TableInv, TypeOK
    <3> QED
      BY <1>2, <2>2, <3>1, <3>2 DEF TableInv, TypeOK
  <2> QED
    BY <1>3, <2>1, <2>2 DEF TableInv, OwnTextShown
<1> QED
  BY <1>9, <1>11, <1>12 DEF TableInv

(* A run shows what its last lookup found.                                 *)
LEMMA ProjectTable ==
    ASSUME TableInv, NEW r \in Runs, Project(r)
    PROVE  TableInv'
<1>1. PICK seen \in Get(key[r]) : shown' = [shown EXCEPT ![r] = seen.text]
  BY DEF Project
<1>2. /\ pc' = [pc EXCEPT ![r] = "done"]
      /\ UNCHANGED <<rows, before, rejections, lock, mode, key, request, deleted>>
  BY DEF Project, Goto, table, config
<1>3. /\ seen.text \in Runs \cup {Nobody}
      /\ seen.text # Nobody => pc[seen.text] \notin Early
  BY GetFinds
<1>4. Stored' = Stored
  BY <1>2 DEF Stored
<1>5. TypeOK'
  BY <1>1, <1>2, <1>3, <1>4 DEF TableInv, TypeOK, RunStates, ClearStates
<1>6. \A x \in Runs : x = r \/ pc[x] \notin Early => pc'[x] \notin Early
  BY <1>2 DEF Early, TableInv, TypeOK
<1>7. \A s \in Runs : s # r => shown'[s] = shown[s]
  BY <1>1 DEF TableInv, TypeOK
<1>8. shown'[r] = seen.text
  BY <1>1 DEF TableInv, TypeOK
<1>9. \A s \in Runs : shown[s] \in Runs \cup {Nobody}
  BY DEF TableInv, TypeOK
<1>10. \A j \in Stored : rows[j].text \in Runs \cup {Nobody}
  BY DEF TableInv, TypeOK, Stored, Row
<1>11. Texts'
  <2>1. ASSUME NEW s \in Runs, shown'[s] # Nobody
        PROVE  pc'[s] \notin Early /\ pc'[shown'[s]] \notin Early
    BY <1>3, <1>6, <1>7, <1>8, <1>9, <2>1 DEF TableInv, Texts
  <2> QED
    BY <1>2, <1>4, <1>6, <1>10, <2>1 DEF TableInv, Texts
<1>12. OwnTextShown'
  <2>1. ASSUME rows[key[r]].text = r PROVE seen.text \in {r, Nobody}
    <3>1. key[r] \in Keys /\ r # Nobody
      BY TranslationAssumption DEF TableInv, TypeOK
    <3>2. key[r] \in Stored
      BY <2>1, <3>1 DEF Stored, NoRow
    <3>3. rows[key[r]].status = "ok"
      BY <2>1, <3>1, <3>2 DEF TableInv, Texts
    <3>4. seen \in {rows[key[r]], NoRow}
      BY <3>2, <3>3, GetExact
    <3> QED
      BY <2>1, <3>4 DEF NoRow
  <2> QED
    BY <1>2, <1>7, <1>8, <2>1 DEF TableInv, OwnTextShown
<1> QED
  BY <1>5, <1>11, <1>12 DEF TableInv

(* A clear takes rows out of the order.                                    *)
LEMMA CommitTable ==
    ASSUME TableInv, NEW c \in Clears, CommitClear(c)
    PROVE  TableInv'
<1> DEFINE q    == request[c]
           gone == Matching(q)
<1>1. /\ rows' = [k \in Keys |-> IF k \in gone THEN NoRow ELSE rows[k]]
      /\ before' = Without(before, gone)
      /\ lock' = Nobody /\ pc' = [pc EXCEPT ![c] = "done"]
      /\ UNCHANGED <<mode, key, request, shown>>
  BY DEF CommitClear, Goto, config
<1>2. gone \subseteq Stored
  BY DEF Matching
<1>3. Stored' = Stored \ gone
  BY <1>1 DEF Stored, NoRow
<1>4. Orders(before', Stored') /\ IsFiniteSet(Stored')
  BY <1>1, <1>3, WithoutOrders, FS_Subset DEF TableInv, TypeOK, Texts
<1>5. before' \in [Keys -> SUBSET Keys] /\ rows' \in [Keys -> Row \cup {NoRow}]
  BY <1>1 DEF Without, TableInv, TypeOK
<1>6. rejections' \in Seq(Keys \cup {NoKey})
  <2>1. q \in Requests
    BY DEF TableInv, TypeOK
  <2> DEFINE id == IF "id" \in q.fields THEN q.id ELSE NoKey
  <2>2. id \in Keys \cup {NoKey}
    BY <2>1, RequestShape
  <2>3. rejections' = rejections \/ rejections' = Append(rejections, id)
    BY DEF CommitClear
  <2>4. rejections \in Seq(Keys \cup {NoKey})
    BY DEF TableInv, TypeOK
  <2> HIDE DEF id
  <2> QED
    BY <2>2, <2>3, <2>4
<1>7. deleted' \in [Clears -> BOOLEAN]
  <2> DEFINE some == gone # {}
  <2>1. deleted' = [deleted EXCEPT ![c] = some]
    BY DEF CommitClear
  <2>2. some \in BOOLEAN /\ deleted \in [Clears -> BOOLEAN]
    BY DEF TableInv, TypeOK
  <2> HIDE DEF some
  <2> QED
    BY <2>1, <2>2
<1>8. TypeOK'
  BY <1>1, <1>4, <1>5, <1>6, <1>7 DEF TableInv, TypeOK, RunStates, ClearStates
<1>9. \A x \in Runs : pc[x] \notin Early => pc'[x] \notin Early
  BY <1>1 DEF Early, TableInv, TypeOK
<1>10. Texts'
  <2>1. \A j \in Stored' : j \in Stored /\ rows'[j] = rows[j] /\ rows[j].text \in Runs \cup {Nobody}
    BY <1>1, <1>3 DEF TableInv, TypeOK, Stored, Row
  <2>2. \A s \in Runs : shown[s] \in Runs \cup {Nobody}
    BY DEF TableInv, TypeOK
  <2> QED
    BY <1>1, <1>4, <1>9, <2>1, <2>2 DEF TableInv, Texts
<1>11. OwnTextShown'
  <2>1. ASSUME NEW s \in Runs, rows'[key[s]].text = s PROVE rows[key[s]].text = s
    <3>1. key[s] \in Keys /\ s # Nobody
      BY TranslationAssumption DEF TableInv, TypeOK
    <3> QED
      BY <1>1, <2>1, <3>1 DEF NoRow
  <2> QED
    BY <1>1, <2>1 DEF TableInv, OwnTextShown
<1> QED
  BY <1>8, <1>10, <1>11 DEF TableInv

LEMMA TableStep == TableInv /\ [Next]_vars => TableInv'
<1> SUFFICES ASSUME TableInv, [Next]_vars PROVE TableInv'
  OBVIOUS
<1>1. ASSUME NEW r \in Runs, NEW m \in {"cache", "auto", "warm"}, NEW k \in Keys, Start(r, m, k)
      PROVE  TableInv'
  BY <1>1, StartTable
<1>2. ASSUME NEW r \in Runs, RunStep(r) PROVE TableInv'
  <2>1. CASE Count(r) \/ Look(r)
    <3>1. pc[r] \in Early /\ \E where \in RunStates \cup ClearStates : Goto(r, where)
      BY <2>1 DEF Count, Look, RunStates, Early
    <3>2. UNCHANGED <<rows, before, rejections, lock, mode, key, request, shown, deleted>>
      BY <2>1 DEF Count, Look, table, config
    <3>3. lock' \in Clears \cup {Nobody} /\ request' \in [Clears -> Requests]
      BY <3>2 DEF TableInv, TypeOK
    <3> QED
      BY <3>1, <3>2, <3>3, MoveTable
  <2> QED
    BY <1>2, <2>1, TranslateTable, ProjectTable DEF RunStep
<1>3. ASSUME NEW c \in Clears, (\E q \in Requests : Ask(c, q)) \/ ClearStep(c) PROVE TableInv'
  <2>1. ASSUME NEW q \in Requests, Ask(c, q) PROVE TableInv'
    <3>1. \E where \in RunStates \cup ClearStates : Goto(c, where)
      BY <2>1 DEF Ask, ClearStates
    <3>2. /\ UNCHANGED <<rows, before, rejections, lock, mode, key, shown, deleted>>
          /\ request' = [request EXCEPT ![c] = q]
      BY <2>1 DEF Ask, table
    <3>3. lock' \in Clears \cup {Nobody} /\ request' \in [Clears -> Requests]
      BY <3>2 DEF TableInv, TypeOK
    <3> QED
      BY <3>1, <3>2, <3>3, MoveTable
  <2>2. ASSUME BeginClear(c) PROVE TableInv'
    <3>1. \E where \in RunStates \cup ClearStates : Goto(c, where)
      BY <2>2 DEF BeginClear, ClearStates
    <3>2. /\ UNCHANGED <<rows, before, rejections, mode, key, request, shown, deleted>>
          /\ lock' = lock \/ lock' = c
      BY <2>2 DEF BeginClear, table, config
    <3>3. lock' \in Clears \cup {Nobody} /\ request' \in [Clears -> Requests]
      BY <3>2 DEF TableInv, TypeOK
    <3> QED
      BY <3>1, <3>2, <3>3, MoveTable
  <2> QED
    BY <1>3, <2>1, <2>2, CommitTable DEF ClearStep
<1>4. ASSUME NEW p \in Runs \cup Clears, Stop(p) PROVE TableInv'
  <2>1. Goto(p, "failed") /\ "failed" \in RunStates \cup ClearStates /\ "failed" \notin Early
    BY <1>4 DEF Stop, RunStates, Early
  <2>2. /\ UNCHANGED <<rows, before, rejections, mode, key, request, shown, deleted>>
        /\ lock' = lock \/ lock' = Nobody
    BY <1>4 DEF Stop, table, config
  <2>3. lock' \in Clears \cup {Nobody} /\ request' \in [Clears -> Requests]
    BY <2>2 DEF TableInv, TypeOK
  <2> QED
    BY <2>1, <2>2, <2>3, MoveTable
<1>5. CASE UNCHANGED vars
  <2>1. UNCHANGED <<rows, before, rejections, lock, pc, mode, key, request, shown, deleted>>
    BY <1>5 DEF vars, table, config
  <2>2. Stored' = Stored
    BY <2>1 DEF Stored
  <2> QED
    BY <2>1, <2>2 DEF TableInv, TypeOK, Texts, OwnTextShown
<1> QED
  BY <1>1, <1>2, <1>3, <1>4, <1>5 DEF Next

(* The inductive invariant of the table.                                   *)
THEOREM TableInvariant == Spec => []TableInv
BY TableInit, TableStep, PTL DEF Spec

(* Every reachable state is well formed; the order by update is one of the *)
(* rows stored, whatever is replaced and cleared.                          *)
THEOREM TypeCorrect == Spec => []TypeOK
<1>1. TableInv => TypeOK
  BY DEF TableInv
<1> QED
  BY <1>1, TableInvariant, PTL

(* What a run has translated it shows, as long as the table has it,        *)
(* whatever other runs store for other models and prompts.                 *)
THEOREM OwnTextCorrect == Spec => []OwnTextShown
<1>1. TableInv => OwnTextShown
  BY DEF TableInv
<1> QED
  BY <1>1, TableInvariant, PTL

(* Of the rows of the highest rank that is stored, the latest is found.    *)
LEMMA HighestFound ==
    ASSUME TableInv, NEW k \in Keys, NEW n \in 1 .. 4,
           \A j \in Stored : Rank(k, j) <= n,
           \E j \in Stored : Rank(k, j) = n
    PROVE  \E i \in Best(k) : Rank(k, i) = n
<1> DEFINE T == {j \in Stored : Rank(k, j) = n}
<1>1. Orders(before, Stored) /\ IsFiniteSet(Stored)
  BY DEF TableInv, TypeOK, Texts
<1>2. PICK x \in T : \A y \in T \ {x} : y \in before[x]
  <2>1. T \subseteq Stored /\ T # {}
    OBVIOUS
  <2> HIDE DEF T
  <2> QED
    BY <1>1, <2>1, LastExists
<1>3. \A j \in Stored : Rank(k, j) \in Nat
  BY DEF Rank
<1>4. ASSUME NEW j \in Stored \ {x}
      PROVE  Rank(k, j) < Rank(k, x) \/ (Rank(k, j) = Rank(k, x) /\ j \in before[x])
  BY <1>2, <1>3
<1>5. x \in Best(k)
  BY <1>2, <1>4 DEF Best
<1> QED
  BY <1>2, <1>5

(* If any row of the same prompt or model has a translation, a lookup that *)
(* can read the table finds one.                                           *)
THEOREM NothingHidden == Spec => []ErrorsHideNothing
<1>1. ASSUME TableInv PROVE ErrorsHideNothing
  <2> SUFFICES ASSUME NEW k \in Keys, NEW i \in Stored, rows[i].status = "ok",
                      i.prompt = k.prompt \/ i.model = k.model
               PROVE  \E j \in Best(k) : rows[j].status = "ok"
    BY DEF ErrorsHideNothing
  <2>1. \A j \in Stored : Rank(k, j) \in 0 .. 4 /\ (Rank(k, j) >= 2 => rows[j].status = "ok")
    BY DEF Rank
  <2>2. Rank(k, i) >= 2
    BY DEF Rank
  <2>3. PICK n \in 2 .. 4 : /\ \A j \in Stored : Rank(k, j) <= n
                           /\ \E j \in Stored : Rank(k, j) = n
    <3>1. CASE \E j \in Stored : Rank(k, j) = 4
      BY <2>1, <3>1
    <3>2. CASE (\E j \in Stored : Rank(k, j) = 3) /\ ~ \E j \in Stored : Rank(k, j) = 4
      BY <2>1, <3>2
    <3>3. CASE ~ \E j \in Stored : Rank(k, j) \in {3, 4}
      BY <2>1, <2>2, <3>3
    <3> QED
      BY <3>1, <3>2, <3>3
  <2>4. PICK j \in Best(k) : Rank(k, j) = n
    BY <1>1, <2>3, HighestFound
  <2> QED
    BY <2>1, <2>4 DEF Best
<1> QED
  BY <1>1, TableInvariant, PTL
=============================================================================
