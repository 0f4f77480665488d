--------------------------- MODULE SearchRoute_proofs --------------------------
(***************************************************************************)
(* Searches and retries of any number, over any URLs.  The CLI processes   *)
(* the web server starts are runs and clears of TranslationCache, so what  *)
(* is proved of those holds behind the server; RouteInv is the inductive   *)
(* invariant of the server's own state.                                    *)
(***************************************************************************)
EXTENDS SearchRoute, TranslationCache_proofs

-----------------------------------------------------------------------------
(* The CLI.                                                                *)

(* Each step of the server or of a process it started is one of the CLI,   *)
(* or leaves the CLI alone.                                                *)
LEMMA RouteIsCli == [RouteNext]_all => [Next]_vars
<1> SUFFICES ASSUME [RouteNext]_all PROVE [Next]_vars
  OBVIOUS
<1>1. ASSUME NEW r \in Runs, NEW u \in Urls, NEW m \in {"cache", "auto"}, Search(r, u, m)
      PROVE  Next
  BY <1>1, SearchAssumption DEF Search, Next
<1>2. ASSUME NEW r \in Runs, Encounter(r) PROVE Next
  BY <1>2 DEF Encounter, Next
<1>3. ASSUME NEW c \in Clears, ClearCli(c) PROVE Next
  BY <1>3 DEF ClearCli, Next
<1>4. ASSUME NEW c \in Clears, RunClear(c) PROVE Next
  BY <1>4 DEF RunClear, Next
<1>5. ASSUME NEW p \in Runs \cup Clears, Die(p) PROVE Next
  BY <1>5 DEF Die, Next
<1>6. ASSUME NEW r \in Runs, CountAfter(r) \/ Answer(r) \/ Fail(r) \/ Fallback(r) \/ SearchTimeout(r)
      PROVE  UNCHANGED vars
  BY <1>6 DEF CountAfter, Answer, Fail, Fallback, SearchTimeout
<1>7. ASSUME NEW c \in Clears, Post(c) \/ EndClear(c) \/ FailClear(c) PROVE UNCHANGED vars
  BY <1>7 DEF Post, EndClear, FailClear
<1>8. ASSUME (\E u \in Urls : Hit(u)) \/ Tick \/ UNCHANGED all PROVE UNCHANGED vars
  BY <1>8 DEF Hit, Tick, all
<1> QED
  BY <1>1, <1>2, <1>3, <1>4, <1>5, <1>6, <1>7, <1>8 DEF RouteNext, Handle

(* Behind the web server the translation cache is the one that             *)
(* TranslationCache specifies, whatever the server answers, caches, times  *)
(* out and queues: every theorem about the latter holds here too.          *)
THEOREM CliBehindServer == RouteSpec => Spec
<1>1. RouteInit => Init
  BY DEF RouteInit
<1> QED
  BY <1>1, RouteIsCli, PTL DEF RouteSpec, Spec

-----------------------------------------------------------------------------
(* The response cache.                                                     *)

CacheFits ==
    /\ cached \in [Urls -> Entry \cup {NoEntry}]
    /\ IsFiniteSet(Kept) /\ Cardinality(Kept) <= MaxEntries
    /\ used \in [Urls -> SUBSET Urls] /\ Orders(used, Kept)

(* What is kept after a step was kept before it.                           *)
Shrinks == \A u \in Kept' : u \in Kept /\ cached'[u] = cached[u]

LEMMA EntryShape ==
    ASSUME NEW r \in Runs, NEW text, NEW time
    PROVE  [text |-> text, by |-> r, expires |-> time] # NoEntry
BY TranslationAssumption DEF NoEntry

LEMMA ForgetFits ==
    ASSUME CacheFits, NEW urls, Forget(urls)
    PROVE  CacheFits' /\ Kept' = Kept \ urls /\ Shrinks
<1>1. /\ cached' = [u \in Urls |-> IF u \in urls THEN NoEntry ELSE cached[u]]
      /\ used' = Without(used, urls)
  BY DEF Forget
<1>2. Kept' = Kept \ urls
  BY <1>1 DEF Kept
<1>3. IsFiniteSet(Kept') /\ Cardinality(Kept') <= Cardinality(Kept)
  BY <1>2, FS_Subset DEF CacheFits
<1>4. Cardinality(Kept) \in Nat /\ Cardinality(Kept') \in Nat /\ MaxEntries \in Nat
  BY <1>3, FS_CardinalityType, SearchAssumption DEF CacheFits
<1>5. Orders(used', Kept')
  BY <1>1, <1>2, WithoutOrders DEF CacheFits
<1>6. cached' \in [Urls -> Entry \cup {NoEntry}] /\ used' \in [Urls -> SUBSET Urls]
  BY <1>1 DEF CacheFits, Without
<1>7. CacheFits'
  BY <1>3, <1>4, <1>5, <1>6 DEF CacheFits
<1>8. Shrinks
  BY <1>1, <1>2 DEF Shrinks, Kept
<1> QED
  BY <1>2, <1>7, <1>8

LEMMA TouchFits ==
    ASSUME CacheFits, NEW u \in Kept, Touch(u)
    PROVE  CacheFits' /\ Shrinks
<1>1. cached' = cached /\ used' = Renew(used, Kept, u)
  BY DEF Touch
<1>2. Kept' = Kept /\ Kept \cup {u} = Kept /\ u \in Urls
  BY <1>1 DEF Kept
<1>3. Orders(used', Kept')
  <2>1. u \in DOMAIN used
    BY <1>2 DEF CacheFits
  <2> QED
    BY <1>1, <1>2, <2>1, RenewOrders DEF CacheFits
<1>4. used' \in [Urls -> SUBSET Urls]
  BY <1>1 DEF CacheFits, Renew, Kept
<1> QED
  BY <1>1, <1>2, <1>3, <1>4 DEF CacheFits, Shrinks

(* The one kept longest unused has the others kept after it, and is kept   *)
(* because fewer than the capacity are.                                    *)
LEMMA RememberFits ==
    ASSUME CacheFits, NEW r \in Runs, url[r] \in Urls, now \in Nat,
           NEW text \in Runs \cup {Nobody}, Remember(r, text)
    PROVE  /\ CacheFits'
           /\ \A u \in Kept' : \/ u \in Kept /\ cached'[u] = cached[u]
                               \/ cached'[u] = [text |-> text, by |-> r, expires |-> now + TTL]
<1> DEFINE kept  == Kept \cup {url[r]}
           order == Renew(used, Kept, url[r])
           over  == {u \in kept : After(order, kept, u) >= MaxEntries}
           new   == [text |-> text, by |-> r, expires |-> now + TTL]
<1>1. /\ cached' = [u \in Urls |-> IF u \in over THEN NoEntry
                                   ELSE IF u = url[r] THEN new ELSE cached[u]]
      /\ used' = Without(order, over)
  BY DEF Remember
<1>2. new \in Entry /\ new # NoEntry
  BY SearchAssumption, EntryShape DEF Entry
<1>3. kept \subseteq Urls /\ IsFiniteSet(kept) /\ Orders(order, kept)
  BY RenewOrders, FS_AddElement DEF CacheFits, Kept
<1>4. order \in [Urls -> SUBSET Urls]
  BY DEF CacheFits, Renew, Kept
<1> HIDE DEF new, order
<1>5. Kept' = kept \ over
  BY <1>1, <1>2 DEF Kept
<1>6. Orders(used', Kept')
  BY <1>1, <1>3, <1>5, WithoutOrders
<1>7. used' \in [Urls -> SUBSET Urls] /\ cached' \in [Urls -> Entry \cup {NoEntry}]
  BY <1>1, <1>2, <1>4 DEF Without, CacheFits
<1>8. IsFiniteSet(Kept')
  BY <1>3, <1>5, FS_Subset
<1>9. Cardinality(Kept') <= MaxEntries
  <2>1. CASE Kept' = {}
    BY <2>1, FS_EmptySet, SearchAssumption
  <2>2. CASE Kept' # {}
    <3>1. Kept' \subseteq kept
      BY <1>5
    <3>2. PICK x \in Kept' : \A y \in Kept' \ {x} : x \in order[y]
      BY <1>3, <2>2, <3>1, FirstExists
    <3> DEFINE later == {y \in kept : x \in order[y]}
    <3>3. Kept' \ {x} \subseteq later /\ IsFiniteSet(later)
      BY <1>3, <3>1, <3>2, FS_Subset
    <3>4. Cardinality(Kept' \ {x}) <= Cardinality(later)
      BY <3>3, FS_Subset
    <3>5. ~(Cardinality(later) >= MaxEntries)
      BY <1>5, <3>2 DEF After
    <3>6. Cardinality(Kept' \ {x}) = Cardinality(Kept') - 1 /\ IsFiniteSet(Kept' \ {x})
      BY <1>8, <3>2, FS_RemoveElement
    <3>7. /\ Cardinality(Kept') \in Nat /\ Cardinality(later) \in Nat
          /\ Cardinality(Kept' \ {x}) \in Nat /\ MaxEntries \in Nat
      BY <1>8, <3>3, <3>6, FS_CardinalityType, SearchAssumption
    <3> QED
      BY <3>4, <3>5, <3>6, <3>7
  <2> QED
    BY <2>1, <2>2
<1>10. \A u \in Kept' : (u \in Kept /\ cached'[u] = cached[u]) \/ cached'[u] = new
  BY <1>1, <1>3, <1>5
<1> QED
  BY <1>6, <1>7, <1>8, <1>9, <1>10 DEF CacheFits, new

-----------------------------------------------------------------------------
(* The inductive invariant.                                                *)

WebTypes ==
    /\ route \in [Runs \cup Clears -> {"idle", "waiting", "cli", "fallback", "answered"}]
    /\ url \in [Runs -> Urls]
    /\ counts \in [Runs -> Statuses \cup {"missing", "none"}]
    /\ queue \in Seq(Clears)
    /\ now \in 0 .. MaxTime
    /\ born \in [Runs -> Nat]
    /\ gone \in [Clears -> SUBSET Runs] /\ rejected \subseteq Runs
    /\ overlapped \in [Runs -> BOOLEAN]
    /\ served \in [text : Runs \cup {Nobody}, age : Nat]

(* A retry waits in the queue, or its command runs and it is the first;    *)
(* the queue holds nothing else, and nothing twice.                        *)
Queued ==
    /\ \A c \in Clears : route[c] = "waiting" => \E i \in DOMAIN queue : queue[i] = c
    /\ \A c \in Clears : route[c] = "cli" => queue # <<>> /\ Head(queue) = c
    /\ \A i \in DOMAIN queue : route[queue[i]] \in {"waiting", "cli"}
    /\ \A i, j \in DOMAIN queue : queue[i] = queue[j] => i = j

(* An entry expires a time to live after its answer was made, and that was *)
(* the only answer of its search.                                          *)
Ages ==
    /\ \A r \in Runs : born[r] <= now
    /\ \A u \in Kept : /\ route[cached[u].by] = "answered"
                       /\ cached[u].expires = born[cached[u].by] + TTL
    /\ ServedWithinTTL

(* A deleted text is in no row and nobody has yet to translate it.         *)
LostTexts ==
    /\ \A k \in Stored : rows[k].text \notin rejected
    /\ \A k \in Stored, c \in Clears : rows[k].text \notin gone[c]
    /\ \A r \in rejected : pc[r] \notin Early
    /\ \A c \in Clears : \A r \in gone[c] : pc[r] \notin Early

(* A search under way that no retry has ended during shows no text that    *)
(* was rejected, and so none is kept.                                      *)
Unrevived ==
    /\ \A r \in Runs : route[r] \in {"cli", "fallback"} /\ shown[r] \in rejected => overlapped[r]
    /\ OnlyOverlapRevives

RouteInv ==
    TableInv /\ WebTypes /\ CacheFits /\ Queued /\ Ages /\ LostTexts /\ Unrevived

LEMMA RouteInitInv == RouteInit => RouteInv
<1> SUFFICES ASSUME RouteInit PROVE RouteInv
  OBVIOUS
<1>1. TableInv
  BY TableInit DEF RouteInit
<1>2. Kept = {} /\ IsFiniteSet(Kept) /\ Cardinality(Kept) = 0
  BY FS_EmptySet DEF RouteInit, Kept
<1>3. CacheFits
  BY <1>2, SearchAssumption DEF RouteInit, CacheFits, Orders
<1>4. WebTypes
  <2>1. url \in [Runs -> Urls]
    BY SearchAssumption DEF RouteInit
  <2> QED
    BY <2>1, SearchAssumption, TranslationAssumption DEF RouteInit, WebTypes
<1>5. Queued /\ Ages /\ LostTexts /\ Unrevived
  BY <1>2, SearchAssumption
     DEF RouteInit, Queued, Ages, LostTexts, Unrevived, ServedWithinTTL, OnlyOverlapRevives
<1> QED
  BY <1>1, <1>3, <1>4, <1>5 DEF RouteInv

-----------------------------------------------------------------------------
(* What steps that change little keep.                                     *)

LEMMA RouteTable == RouteInv /\ [RouteNext]_all => TableInv'
BY RouteIsCli, TableStep DEF RouteInv

(* Answers once made stand.                                                *)
LEMMA AgesKept ==
    ASSUME RouteInv, Shrinks, WebTypes', UNCHANGED served,
           \A r \in Runs : born'[r] <= now',
           \A r \in Runs : route[r] = "answered" => route'[r] = "answered" /\ born'[r] = born[r]
    PROVE  Ages'
<1>1. \A u \in Kept : cached[u].by \in Runs
  BY DEF RouteInv, CacheFits, Kept, Entry
<1>2. \A u \in Kept' : /\ route'[cached'[u].by] = "answered"
                      /\ cached'[u].expires = born'[cached'[u].by] + TTL
  BY <1>1 DEF RouteInv, Ages, Shrinks
<1> QED
  BY <1>2 DEF RouteInv, Ages, ServedWithinTTL

LEMMA QueuedKept ==
    ASSUME RouteInv, UNCHANGED queue, \A c \in Clears : route'[c] = route[c]
    PROVE  Queued'
<1>1. \A i \in DOMAIN queue : queue[i] \in Clears
  BY DEF RouteInv, WebTypes
<1> QED
  BY <1>1 DEF RouteInv, Queued

(* No search under way shows another text that was rejected.               *)
ShowsKeep ==
    \A r \in Runs : \/ route'[r] \notin {"cli", "fallback"}
                    \/ shown'[r] \notin rejected
                    \/ route[r] \in {"cli", "fallback"} /\ shown'[r] = shown[r]

LEMMA UnrevivedKept ==
    ASSUME RouteInv, Shrinks, UNCHANGED <<rejected, overlapped>>, ShowsKeep
    PROVE  Unrevived'
<1>1. \A r \in Runs : route'[r] \in {"cli", "fallback"} /\ shown'[r] \in rejected' => overlapped'[r]
  BY DEF RouteInv, Unrevived, ShowsKeep
<1>2. OnlyOverlapRevives'
  BY DEF RouteInv, Unrevived, OnlyOverlapRevives, Shrinks
<1> QED
  BY <1>1, <1>2 DEF Unrevived

(* No deleted text comes back into the table, and no run starts again.     *)
RowsKeep ==
    \A k \in Stored' : \/ k \in Stored /\ rows'[k] = rows[k]
                      \/ /\ rows'[k].text \notin rejected
                         /\ \A c \in Clears : rows'[k].text \notin gone[c]
LateStay == \A r \in Runs : pc[r] \notin Early => pc'[r] \notin Early

LEMMA LostKept ==
    ASSUME RouteInv, UNCHANGED <<gone, rejected>>, RowsKeep, LateStay
    PROVE  LostTexts'
<1>1. rejected \subseteq Runs /\ \A c \in Clears : gone[c] \subseteq Runs
  BY DEF RouteInv, WebTypes
<1>2. \A k \in Stored' : rows'[k].text \notin rejected'
  BY DEF RouteInv, LostTexts, RowsKeep
<1>3. \A k \in Stored', c \in Clears : rows'[k].text \notin gone'[c]
  BY DEF RouteInv, LostTexts, RowsKeep
<1>4. \A r \in rejected' : pc'[r] \notin Early
  BY <1>1 DEF RouteInv, LostTexts, LateStay
<1>5. \A c \in Clears : \A r \in gone'[c] : pc'[r] \notin Early
  BY <1>1 DEF RouteInv, LostTexts, LateStay
<1> QED
  BY <1>2, <1>3, <1>4, <1>5 DEF LostTexts

LEMMA CacheKept ==
    ASSUME RouteInv, UNCHANGED <<cached, used>>
    PROVE  CacheFits' /\ Shrinks
<1>1. Kept' = Kept
  BY DEF Kept
<1> QED
  BY <1>1 DEF RouteInv, CacheFits, Shrinks

(* Steps of the server leave the CLI's texts alone.                        *)
LEMMA ServerLost ==
    ASSUME RouteInv, UNCHANGED <<vars, gone, rejected>>
    PROVE  LostTexts'
<1>1. Stored' = Stored /\ UNCHANGED <<rows, pc>>
  BY DEF Stored, vars, table
<1>2. RowsKeep /\ LateStay
  BY <1>1 DEF RowsKeep, LateStay
<1> QED
  BY <1>2, LostKept

-----------------------------------------------------------------------------
(* Steps of the CLI processes.                                             *)

(* A run's step replaces its own row, and shows what a row holds.          *)
LEMMA RunShape ==
    ASSUME TableInv, NEW r \in Runs, RunStep(r)
    PROVE  /\ LateStay
           /\ \A k \in Stored' : \/ k \in Stored /\ rows'[k] = rows[k]
                                 \/ rows'[k].text \in {r, Nobody} /\ pc[r] \in Early
           /\ \A s \in Runs : \/ shown'[s] \in {shown[s], Nobody}
                              \/ \E k \in Stored : shown'[s] = rows[k].text
<1>1. pc \in [Runs \cup Clears -> RunStates \cup ClearStates] /\ shown \in [Runs -> Runs \cup {Nobody}]
  BY DEF TableInv, TypeOK
<1>2. CASE Count(r) \/ Look(r)
  <2>1. pc[r] \in Early /\ UNCHANGED <<rows, shown>> /\ \E where : pc' = [pc EXCEPT ![r] = where]
    BY <1>2 DEF Count, Look, table, Goto, Early
  <2> QED
    BY <1>1, <2>1 DEF Stored, LateStay
<1>3. CASE Translate(r)
  <2>1. PICK status \in Statuses : Put(key[r], status, IF status = "ok" THEN r ELSE Nobody)
    BY <1>3 DEF Translate
  <2>2. /\ pc[r] \in Early /\ shown' = shown
        /\ \E where : pc' = [pc EXCEPT ![r] = where]
    BY <1>3 DEF Translate, Early, Goto
  <2>3. /\ key[r] \in Keys /\ rows \in [Keys -> Row \cup {NoRow}]
        /\ rows' = [rows EXCEPT ![key[r]] = [status |-> status, text |-> IF status = "ok" THEN r ELSE Nobody]]
    BY <2>1 DEF Put, TableInv, TypeOK
  <2>4. \A k \in Stored' : \/ k \in Stored /\ rows'[k] = rows[k]
                           \/ rows'[k].text \in {r, Nobody}
    BY <2>3 DEF Stored
  <2> QED
    BY <1>1, <2>2, <2>4 DEF LateStay
<1>4. CASE Project(r)
  <2>1. PICK seen \in Get(key[r]) : shown' = [shown EXCEPT ![r] = seen.text]
    BY <1>4 DEF Project
  <2>2. rows' = rows /\ pc' = [pc EXCEPT ![r] = "done"]
    BY <1>4 DEF Project, table, Goto
  <2>3. seen.text = Nobody \/ \E k \in Stored : seen.text = rows[k].text
    BY DEF Get, Best, NoRow
  <2> QED
    BY <1>1, <2>1, <2>2, <2>3 DEF Stored, Early, LateStay
<1> QED
  BY <1>2, <1>3, <1>4 DEF RunStep

LEMMA EncounterInv ==
    ASSUME RouteInv, TableInv', NEW r \in Runs, Encounter(r)
    PROVE  RouteInv'
<1>1. RunStep(r) /\ UNCHANGED <<route, url, counts, cached, used, queue, now, born, gone, rejected,
                                overlapped, served>>
  BY DEF Encounter, web, history
<1>2. WebTypes'
  BY <1>1 DEF RouteInv, WebTypes
<1>3. CacheFits' /\ Shrinks
  BY <1>1, CacheKept
<1>4. Queued'
  BY <1>1, QueuedKept
<1>5. Ages'
  <2>1. \A s \in Runs : born'[s] <= now'
    BY <1>1 DEF RouteInv, Ages
  <2> QED
    BY <1>1, <1>2, <1>3, <2>1, AgesKept
<1>6. TableInv /\ Nobody \notin rejected /\ \A c \in Clears : Nobody \notin gone[c]
  BY TranslationAssumption DEF RouteInv, WebTypes
<1>7. LostTexts'
  <2>1. pc[r] \in Early => r \notin rejected /\ \A c \in Clears : r \notin gone[c]
    BY DEF RouteInv, LostTexts
  <2>2. RowsKeep /\ LateStay
    BY <1>1, <1>6, <2>1, RunShape DEF RowsKeep
  <2> QED
    BY <1>1, <2>2, LostKept
<1>8. Unrevived'
  <2>1. \A s \in Runs : shown'[s] = shown[s] \/ shown'[s] \notin rejected
    BY <1>1, <1>6, RunShape DEF RouteInv, LostTexts
  <2>2. route' = route
    BY <1>1
  <2>3. ShowsKeep
    BY <2>1, <2>2 DEF ShowsKeep
  <2> QED
    BY <1>1, <1>3, <2>3, UnrevivedKept
<1> QED
  BY <1>2, <1>3, <1>4, <1>5, <1>7, <1>8 DEF RouteInv

LEMMA DieInv ==
    ASSUME RouteInv, TableInv', NEW p \in Runs \cup Clears, Die(p)
    PROVE  RouteInv'
<1>1. UNCHANGED <<route, url, counts, cached, used, queue, now, born, gone, rejected, overlapped, served>>
  BY DEF Die, web, history
<1>2. UNCHANGED <<rows, shown>> /\ pc' = [pc EXCEPT ![p] = "failed"] /\ Stored' = Stored
  BY DEF Die, Stop, table, Goto, Stored
<1>3. WebTypes'
  BY <1>1 DEF RouteInv, WebTypes
<1>4. CacheFits' /\ Shrinks
  BY <1>1, CacheKept
<1>5. Queued'
  BY <1>1, QueuedKept
<1>6. Ages'
  <2>1. \A s \in Runs : born'[s] <= now'
    BY <1>1 DEF RouteInv, Ages
  <2> QED
    BY <1>1, <1>3, <1>4, <2>1, AgesKept
<1>7. LostTexts'
  <2>1. RowsKeep /\ LateStay
    BY <1>2 DEF RouteInv, TableInv, TypeOK, Early, RowsKeep, LateStay
  <2> QED
    BY <1>1, <1>2, <2>1, LostKept
<1>8. Unrevived'
  <2>1. ShowsKeep
    BY <1>1, <1>2 DEF ShowsKeep
  <2> QED
    BY <1>1, <1>4, <2>1, UnrevivedKept
<1> QED
  BY <1>3, <1>4, <1>5, <1>6, <1>7, <1>8 DEF RouteInv

(* What a clear takes out of the table is in it no more.                   *)
LEMMA ClearCliInv ==
    ASSUME RouteInv, TableInv', NEW c \in Clears, ClearCli(c)
    PROVE  RouteInv'
<1> DEFINE old == {rows[k].text : k \in Keys}
           new == {rows'[k].text : k \in Keys}
<1>1. /\ UNCHANGED <<route, url, counts, cached, used, queue, now, born, rejected, overlapped, served>>
      /\ gone' = [gone EXCEPT ![c] = @ \cup (old \ new)]
  BY DEF ClearCli, web
<1>2. /\ shown' = shown /\ (\E where : pc' = [pc EXCEPT ![c] = where])
      /\ \A k \in Keys : rows'[k] \in {rows[k], NoRow}
  <2>1. CASE BeginClear(c)
    BY <2>1 DEF BeginClear, table, Goto
  <2>2. CASE CommitClear(c)
    BY <2>2 DEF CommitClear, Goto
  <2> QED
    BY <2>1, <2>2 DEF ClearCli, ClearStep
<1>3. \A r \in Runs : pc'[r] = pc[r]
  BY <1>2, TranslationAssumption DEF RouteInv, TableInv, TypeOK
<1>4. \A k \in Stored' : k \in Stored /\ rows'[k] = rows[k]
  BY <1>2 DEF Stored
<1>5. \A r \in old \ new : r \in Runs /\ pc[r] \notin Early
  <2> SUFFICES ASSUME NEW k \in Keys, rows[k].text \notin new
               PROVE  rows[k].text \in Runs /\ pc[rows[k].text] \notin Early
    OBVIOUS
  <2>1. rows'[k] = NoRow /\ rows[k].text # Nobody
    BY <1>2 DEF NoRow
  <2>2. k \in Stored
    BY <2>1 DEF Stored, NoRow
  <2> QED
    BY <2>1, <2>2 DEF RouteInv, TableInv, TypeOK, Texts, Stored, Row
<1> HIDE DEF old
<1>6. WebTypes'
  <2>1. gone' \in [Clears -> SUBSET Runs]
    BY <1>1, <1>5 DEF RouteInv, WebTypes
  <2> QED
    BY <1>1, <2>1 DEF RouteInv, WebTypes
<1>7. CacheFits' /\ Shrinks
  BY <1>1, CacheKept
<1>8. Queued'
  BY <1>1, QueuedKept
<1>9. Ages'
  <2>1. \A s \in Runs : born'[s] <= now'
    BY <1>1 DEF RouteInv, Ages
  <2> QED
    BY <1>1, <1>6, <1>7, <2>1, AgesKept
<1>10. LostTexts'
  <2>1. \A d \in Clears : gone'[d] = gone[d] \/ (d = c /\ gone'[d] = gone[d] \cup (old \ new))
    BY <1>1 DEF RouteInv, WebTypes
  <2>2. \A k \in Stored' : rows'[k].text \in new
    BY DEF Stored
  <2>3. \A k \in Stored' : rows'[k].text \notin rejected'
    BY <1>1, <1>4 DEF RouteInv, LostTexts
  <2>4. \A k \in Stored', d \in Clears : rows'[k].text \notin gone'[d]
    BY <1>4, <2>1, <2>2 DEF RouteInv, LostTexts
  <2>5. \A r \in rejected' : pc'[r] \notin Early
    BY <1>1, <1>3 DEF RouteInv, LostTexts, WebTypes
  <2>6. \A d \in Clears : \A r \in gone'[d] : pc'[r] \notin Early
    BY <1>3, <1>5, <2>1 DEF RouteInv, LostTexts, WebTypes
  <2> QED
    BY <2>3, <2>4, <2>5, <2>6 DEF LostTexts
<1>11. Unrevived'
  <2>1. ShowsKeep
    BY <1>1, <1>2 DEF ShowsKeep
  <2> QED
    BY <1>1, <1>7, <2>1, UnrevivedKept
<1> QED
  BY <1>6, <1>7, <1>8, <1>9, <1>10, <1>11 DEF RouteInv

-----------------------------------------------------------------------------
(* Steps of the server.                                                    *)

(* A hit is younger than the time to live, and what it shows is unchanged. *)
LEMMA HitInv ==
    ASSUME RouteInv, TableInv', NEW u \in Urls, Hit(u)
    PROVE  RouteInv'
<1>1. /\ u \in Kept /\ now < cached[u].expires /\ Touch(u)
      /\ served' = [text |-> cached[u].text, age |-> now - born[cached[u].by]]
      /\ UNCHANGED <<vars, route, url, counts, queue, now, born, gone, rejected, overlapped>>
  BY DEF Hit, Live
<1>2. cached[u].by \in Runs /\ cached[u].text \in Runs \cup {Nobody}
  BY <1>1 DEF RouteInv, CacheFits, Kept, Entry
<1>3. CacheFits' /\ Shrinks
  BY <1>1, TouchFits DEF RouteInv
<1>4. /\ now \in Nat /\ born[cached[u].by] \in Nat /\ TTL \in Nat /\ born[cached[u].by] <= now
      /\ cached[u].expires = born[cached[u].by] + TTL
  BY <1>1, <1>2, SearchAssumption DEF RouteInv, WebTypes, Ages
<1>5. served'.age \in Nat /\ served'.age < TTL
  BY <1>1, <1>4
<1>6. WebTypes'
  BY <1>1, <1>2, <1>5 DEF RouteInv, WebTypes
<1>7. Queued'
  BY <1>1, QueuedKept
<1>8. Ages'
  BY <1>1, <1>2, <1>5 DEF RouteInv, Ages, ServedWithinTTL, Touch, Kept
<1>9. LostTexts'
  <2>1. UNCHANGED <<vars, gone, rejected>>
    BY <1>1
  <2> QED
    BY <2>1, ServerLost
<1>10. Unrevived'
  <2>1. ShowsKeep
    BY <1>1 DEF ShowsKeep, vars
  <2> QED
    BY <1>1, <1>3, <2>1, UnrevivedKept
<1> QED
  BY <1>3, <1>6, <1>7, <1>8, <1>9, <1>10 DEF RouteInv

(* A search starts with nothing to show.                                   *)
LEMMA SearchInv ==
    ASSUME RouteInv, TableInv', NEW r \in Runs, NEW u \in Urls, NEW m, Search(r, u, m)
    PROVE  RouteInv'
<1>1. /\ route[r] = "idle" /\ url' \in {url, [url EXCEPT ![r] = u]}
      /\ route' = [route EXCEPT ![r] = "cli"]
      /\ UNCHANGED <<counts, queue, now, born, gone, rejected, overlapped, served>>
      /\ Forget({u}) \/ UNCHANGED <<cached, used>>
  BY DEF Search, Reply, history
<1>2. /\ pc[r] = "idle" /\ UNCHANGED <<rows, shown>> /\ Stored' = Stored
      /\ \E where \in {"project", "look", "count"} : pc' = [pc EXCEPT ![r] = where]
  BY DEF Search, Start, Goto, table, Stored
<1>3. WebTypes'
  BY <1>1 DEF RouteInv, WebTypes
<1>4. CacheFits' /\ Shrinks
  BY <1>1, CacheKept, ForgetFits DEF RouteInv
<1>5. \A p \in Runs \cup Clears : p # r => route'[p] = route[p]
  BY <1>1 DEF RouteInv, WebTypes
<1>6. Queued'
  BY <1>1, <1>5, QueuedKept, TranslationAssumption
<1>7. Ages'
  <2>1. \A s \in Runs : born'[s] <= now'
    BY <1>1 DEF RouteInv, Ages
  <2>2. \A s \in Runs : route[s] = "answered" => route'[s] = "answered" /\ born'[s] = born[s]
    BY <1>1, <1>5
  <2> QED
    BY <1>1, <1>3, <1>4, <2>1, <2>2, AgesKept
<1>8. LostTexts'
  <2>1. RowsKeep /\ LateStay
    BY <1>2 DEF RouteInv, TableInv, TypeOK, Early, RowsKeep, LateStay
  <2> QED
    BY <1>1, <2>1, LostKept
<1>9. Unrevived'
  <2>1. shown[r] = Nobody /\ Nobody \notin rejected
    BY <1>2, TranslationAssumption DEF RouteInv, TableInv, Texts, Early, WebTypes
  <2>2. ShowsKeep
    BY <1>2, <1>5, <2>1 DEF ShowsKeep
  <2> QED
    BY <1>1, <1>4, <2>2, UnrevivedKept
<1> QED
  BY <1>3, <1>4, <1>6, <1>7, <1>8, <1>9 DEF RouteInv

(* An answer, with or without translations: what is kept of it is as old   *)
(* as it is, and no rejected text unless a retry ended meanwhile.          *)
LEMMA AnswerInv ==
    ASSUME RouteInv, TableInv', NEW r \in Runs, Answer(r) \/ Fallback(r)
    PROVE  RouteInv'
<1>1. /\ route[r] \in {"cli", "fallback"} /\ route' = [route EXCEPT ![r] = "answered"]
      /\ born' = [born EXCEPT ![r] = now]
      /\ UNCHANGED <<vars, url, counts, queue, now, gone, rejected, overlapped, served>>
      /\ \/ UNCHANGED <<cached, used>>
         \/ \E text \in {shown[r], Nobody} : Remember(r, text)
  BY DEF Answer, Fallback, Reply
<1>2. /\ url[r] \in Urls /\ now \in Nat /\ TTL \in Nat
      /\ shown \in [Runs -> Runs \cup {Nobody}] /\ shown' = shown
  BY <1>1, SearchAssumption DEF RouteInv, WebTypes, TableInv, TypeOK, vars
<1>3. /\ CacheFits'
      /\ \A u \in Kept' :
            \/ u \in Kept /\ cached'[u] = cached[u]
            \/ \E text \in {shown[r], Nobody} :
                  cached'[u] = [text |-> text, by |-> r, expires |-> now + TTL]
  <2>1. CASE UNCHANGED <<cached, used>>
    BY <2>1, CacheKept DEF Shrinks
  <2>2. ASSUME NEW text \in {shown[r], Nobody}, Remember(r, text)
        PROVE  /\ CacheFits'
               /\ \A u \in Kept' :
                     \/ u \in Kept /\ cached'[u] = cached[u]
                     \/ cached'[u] = [text |-> text, by |-> r, expires |-> now + TTL]
    <3>1. text \in Runs \cup {Nobody} /\ CacheFits
      BY <1>2 DEF RouteInv
    <3> QED
      BY <1>2, <2>2, <3>1, RememberFits
  <2> QED
    BY <1>1, <2>1, <2>2
<1>4. \A p \in Runs \cup Clears : p # r => route'[p] = route[p]
  BY <1>1 DEF RouteInv, WebTypes
<1>5. route'[r] = "answered" /\ born'[r] = now /\ \A s \in Runs \ {r} : born'[s] = born[s]
  BY <1>1 DEF RouteInv, WebTypes
<1>6. WebTypes'
  BY <1>1 DEF RouteInv, WebTypes
<1>7. Queued'
  BY <1>1, <1>4, QueuedKept, TranslationAssumption
<1>8. Ages'
  <2>1. \A s \in Runs : born'[s] <= now'
    BY <1>1, <1>2, <1>5 DEF RouteInv, Ages
  <2>2. ASSUME NEW u \in Kept'
        PROVE  /\ route'[cached'[u].by] = "answered"
               /\ cached'[u].expires = born'[cached'[u].by] + TTL
    <3>1. CASE u \in Kept /\ cached'[u] = cached[u]
      <4>1. /\ cached[u].by \in Runs /\ route[cached[u].by] = "answered"
            /\ cached[u].expires = born[cached[u].by] + TTL
        BY <3>1 DEF RouteInv, CacheFits, Kept, Entry, Ages
      <4>2. cached[u].by # r
        BY <1>1, <4>1
      <4> QED
        BY <1>4, <1>5, <3>1, <4>1, <4>2
    <3>2. CASE \E text \in {shown[r], Nobody} :
                  cached'[u] = [text |-> text, by |-> r, expires |-> now + TTL]
      BY <1>5, <3>2
    <3> QED
      BY <1>3, <3>1, <3>2
  <2> QED
    BY <1>1, <2>1, <2>2 DEF RouteInv, Ages, ServedWithinTTL
<1>9. LostTexts'
  <2>1. UNCHANGED <<vars, gone, rejected>>
    BY <1>1
  <2> QED
    BY <2>1, ServerLost
<1>10. Unrevived'
  <2>1. /\ shown[r] \in rejected => overlapped[r]
        /\ Nobody \notin rejected
    BY <1>1, TranslationAssumption DEF RouteInv, Unrevived, WebTypes
  <2>2. ASSUME NEW u \in Kept', cached'[u].text \in rejected PROVE overlapped[cached'[u].by]
    <3>1. CASE u \in Kept /\ cached'[u] = cached[u]
      BY <2>2, <3>1 DEF RouteInv, Unrevived, OnlyOverlapRevives
    <3>2. CASE \E text \in {shown[r], Nobody} :
                  cached'[u] = [text |-> text, by |-> r, expires |-> now + TTL]
      BY <2>1, <2>2, <3>2
    <3> QED
      BY <1>3, <3>1, <3>2
  <2>3. OnlyOverlapRevives'
    BY <1>1, <2>2 DEF OnlyOverlapRevives
  <2>4. ASSUME NEW s \in Runs, route'[s] \in {"cli", "fallback"}, shown'[s] \in rejected'
        PROVE  overlapped'[s]
    <3>1. s # r
      BY <1>5, <2>4
    <3> QED
      BY <1>1, <1>2, <1>4, <2>4, <3>1 DEF RouteInv, Unrevived
  <2> QED
    BY <2>3, <2>4 DEF Unrevived
<1> QED
  BY <1>3, <1>6, <1>7, <1>8, <1>9, <1>10 DEF RouteInv

(* A search that fails or times out is answered, or asked again without    *)
(* translations.                                                           *)
LEMMA FailInv ==
    ASSUME RouteInv, TableInv', NEW r \in Runs, Fail(r) \/ SearchTimeout(r)
    PROVE  RouteInv'
<1>1. /\ route[r] \in {"cli", "fallback"}
      /\ \E next \in {"fallback", "answered"} : route' = [route EXCEPT ![r] = next]
      /\ UNCHANGED <<vars, url, counts, cached, used, queue, now, born, gone, rejected, overlapped, served>>
  BY DEF Fail, SearchTimeout, Reply, history
<1>2. WebTypes'
  BY <1>1 DEF RouteInv, WebTypes
<1>3. CacheFits' /\ Shrinks
  BY <1>1, CacheKept
<1>4. \A p \in Runs \cup Clears : p # r => route'[p] = route[p]
  BY <1>1 DEF RouteInv, WebTypes
<1>5. Queued'
  BY <1>1, <1>4, QueuedKept, TranslationAssumption
<1>6. Ages'
  <2>1. \A s \in Runs : born'[s] <= now'
    BY <1>1 DEF RouteInv, Ages
  <2>2. \A s \in Runs : route[s] = "answered" => route'[s] = "answered" /\ born'[s] = born[s]
    BY <1>1, <1>4
  <2> QED
    BY <1>1, <1>2, <1>3, <2>1, <2>2, AgesKept
<1>7. LostTexts'
  <2>1. UNCHANGED <<vars, gone, rejected>>
    BY <1>1
  <2> QED
    BY <2>1, ServerLost
<1>8. Unrevived'
  <2>1. ShowsKeep
    BY <1>1, <1>4 DEF ShowsKeep, vars
  <2> QED
    BY <1>1, <1>3, <2>1, UnrevivedKept
<1> QED
  BY <1>2, <1>3, <1>5, <1>6, <1>7, <1>8 DEF RouteInv

(* Steps that move the clock, the queue or a count.                        *)
LEMMA ServerKeeps ==
    ASSUME RouteInv, TableInv', WebTypes', Queued', now <= now',
           UNCHANGED <<vars, cached, used, born, gone, rejected, overlapped, served>>,
           \A r \in Runs : route'[r] = route[r]
    PROVE  RouteInv'
<1>1. CacheFits' /\ Shrinks
  BY CacheKept
<1>2. Ages'
  <2>1. \A s \in Runs : born'[s] <= now'
    BY DEF RouteInv, Ages, WebTypes
  <2>2. \A s \in Runs : route[s] = "answered" => route'[s] = "answered" /\ born'[s] = born[s]
    OBVIOUS
  <2> QED
    BY <1>1, <2>1, <2>2, AgesKept
<1>3. LostTexts'
  <2>1. UNCHANGED <<vars, gone, rejected>>
    OBVIOUS
  <2> QED
    BY <2>1, ServerLost
<1>4. Unrevived'
  <2>1. ShowsKeep
    BY DEF ShowsKeep, vars
  <2> QED
    BY <1>1, <2>1, UnrevivedKept
<1> QED
  BY <1>1, <1>2, <1>3, <1>4 DEF RouteInv

LEMMA CountInv ==
    ASSUME RouteInv, TableInv', NEW r \in Runs, CountAfter(r)
    PROVE  RouteInv'
<1>1. PICK seen \in Get(key[r]) : counts' = [counts EXCEPT ![r] = seen.status]
  BY DEF CountAfter
<1>2. UNCHANGED <<vars, route, url, cached, used, queue, now, born, gone, rejected, overlapped, served>>
  BY DEF CountAfter, history
<1>3. seen.status \in Statuses \cup {"missing"}
  BY GetFinds DEF RouteInv
<1>4. WebTypes'
  BY <1>1, <1>2, <1>3 DEF RouteInv, WebTypes
<1>5. Queued'
  BY <1>2, QueuedKept
<1>6. now <= now' /\ \A s \in Runs : route'[s] = route[s]
  BY <1>2, SearchAssumption DEF RouteInv, WebTypes
<1> QED
  BY <1>2, <1>4, <1>5, <1>6, ServerKeeps

LEMMA TickInv ==
    ASSUME RouteInv, TableInv', Tick \/ UNCHANGED all
    PROVE  RouteInv'
<1>1. /\ now' = now \/ (now < MaxTime /\ now' = now + 1)
      /\ UNCHANGED <<vars, route, url, counts, cached, used, queue, born, gone, rejected, overlapped, served>>
  BY DEF Tick, history, all, web
<1>2. WebTypes' /\ now <= now'
  BY <1>1, SearchAssumption DEF RouteInv, WebTypes
<1>3. Queued'
  BY <1>1, QueuedKept
<1> QED
  BY <1>1, <1>2, <1>3, ServerKeeps

(* A retry joins the queue last.                                           *)
LEMMA PostInv ==
    ASSUME RouteInv, TableInv', NEW c \in Clears, Post(c)
    PROVE  RouteInv'
<1>1. /\ route[c] = "idle" /\ route' = [route EXCEPT ![c] = "waiting"]
      /\ queue' = Append(queue, c)
      /\ UNCHANGED <<vars, url, counts, cached, used, now, born, gone, rejected, overlapped, served>>
  BY DEF Post, Reply, history
<1>2. \A p \in Runs \cup Clears : p # c => route'[p] = route[p]
  BY <1>1 DEF RouteInv, WebTypes
<1>3. queue \in Seq(Clears)
  BY DEF RouteInv, WebTypes
<1>4. /\ DOMAIN queue' = 1 .. Len(queue) + 1 /\ queue'[Len(queue) + 1] = c
      /\ \A i \in DOMAIN queue : i \in DOMAIN queue' /\ queue'[i] = queue[i]
      /\ queue # <<>> => Head(queue') = Head(queue)
      /\ queue' # <<>>
  BY <1>1, <1>3
<1>5. WebTypes'
  BY <1>1, <1>3 DEF RouteInv, WebTypes
<1>6. Queued'
  <2>1. route'[c] = "waiting"
    BY <1>1 DEF RouteInv, WebTypes
  <2>2. Len(queue) + 1 \in DOMAIN queue'
    BY <1>3, <1>4
  <2>3. ASSUME NEW d \in Clears, route'[d] = "waiting" PROVE \E i \in DOMAIN queue' : queue'[i] = d
    BY <1>2, <1>4, <2>2, <2>3 DEF RouteInv, Queued
  <2>4. ASSUME NEW d \in Clears, route'[d] = "cli" PROVE queue' # <<>> /\ Head(queue') = d
    BY <1>2, <1>4, <2>1, <2>4 DEF RouteInv, Queued
  <2>5. \A i \in DOMAIN queue : queue[i] \in Clears /\ queue[i] # c
    BY <1>1, <1>3 DEF RouteInv, Queued
  <2>6. ASSUME NEW i \in DOMAIN queue' PROVE i = Len(queue) + 1 \/ i \in DOMAIN queue
    BY <1>3, <1>4
  <2>7. \A i \in DOMAIN queue' : route'[queue'[i]] \in {"waiting", "cli"}
    BY <1>2, <1>4, <2>1, <2>5, <2>6 DEF RouteInv, Queued
  <2>8. \A i, j \in DOMAIN queue' : queue'[i] = queue'[j] => i = j
    BY <1>4, <2>5, <2>6 DEF RouteInv, Queued
  <2> QED
    BY <2>3, <2>4, <2>7, <2>8 DEF Queued
<1>7. now <= now' /\ \A s \in Runs : route'[s] = route[s]
  BY <1>1, <1>2, SearchAssumption, TranslationAssumption DEF RouteInv, WebTypes
<1> QED
  BY <1>1, <1>5, <1>6, <1>7, ServerKeeps

(* The first retry of the queue leaves it when it ends.                    *)
LEMMA LeaveQueue ==
    ASSUME RouteInv, NEW c \in Clears, route[c] = "cli",
           route' = [route EXCEPT ![c] = "answered"], queue' = Tail(queue)
    PROVE  Queued' /\ queue' \in Seq(Clears)
<1>1. queue \in Seq(Clears) /\ queue # <<>> /\ queue[1] = c
  BY DEF RouteInv, WebTypes, Queued
<1>2. /\ queue' \in Seq(Clears) /\ DOMAIN queue = 1 .. Len(queue) /\ Len(queue) \in Nat
      /\ DOMAIN queue' = 1 .. Len(queue) - 1
      /\ \A i \in DOMAIN queue' : queue'[i] = queue[i + 1]
  BY <1>1
<1>3. \A d \in Clears : d # c => route'[d] = route[d] /\ route'[d] # "cli"
  BY <1>1 DEF RouteInv, WebTypes, Queued
<1>4. route'[c] = "answered"
  BY DEF RouteInv, WebTypes
<1>5. ASSUME NEW d \in Clears, route'[d] = "waiting" PROVE \E i \in DOMAIN queue' : queue'[i] = d
  <2>1. PICK i \in DOMAIN queue : queue[i] = d
    BY <1>3, <1>4, <1>5 DEF RouteInv, Queued
  <2>2. i # 1
    BY <1>1, <1>4, <1>5, <2>1
  <2>3. i - 1 \in DOMAIN queue' /\ queue'[i - 1] = queue[i]
    BY <1>2, <2>1, <2>2
  <2> QED
    BY <2>1, <2>3
<1>6. ASSUME NEW i \in DOMAIN queue'
      PROVE  i + 1 \in DOMAIN queue /\ queue'[i] = queue[i + 1] /\ queue[i + 1] \in Clears \ {c}
  <2>1. i + 1 \in DOMAIN queue /\ 1 \in DOMAIN queue /\ i + 1 # 1
    BY <1>2
  <2> QED
    BY <1>1, <1>2, <2>1 DEF RouteInv, Queued
<1>7. \A i \in DOMAIN queue' : route'[queue'[i]] \in {"waiting", "cli"}
  BY <1>3, <1>6 DEF RouteInv, Queued
<1>8. \A i, j \in DOMAIN queue' : queue'[i] = queue'[j] => i = j
  <2>1. \A i \in DOMAIN queue' : i \in Int
    BY <1>2
  <2> QED
    BY <1>6, <2>1 DEF RouteInv, Queued
<1> QED
  BY <1>2, <1>3, <1>4, <1>5, <1>7, <1>8 DEF Queued

LEMMA FailClearInv ==
    ASSUME RouteInv, TableInv', NEW c \in Clears, FailClear(c)
    PROVE  RouteInv'
<1>1. /\ route[c] = "cli" /\ route' = [route EXCEPT ![c] = "answered"] /\ queue' = Tail(queue)
      /\ UNCHANGED <<vars, url, counts, cached, used, now, born, gone, rejected, overlapped, served>>
  BY DEF FailClear, Reply, history
<1>2. Queued' /\ queue' \in Seq(Clears)
  BY <1>1, LeaveQueue
<1>3. WebTypes'
  BY <1>1, <1>2 DEF RouteInv, WebTypes
<1>4. now <= now' /\ \A s \in Runs : route'[s] = route[s]
  BY <1>1, SearchAssumption, TranslationAssumption DEF RouteInv, WebTypes
<1> QED
  BY <1>1, <1>2, <1>3, <1>4, ServerKeeps

(* A retry that succeeded empties the response cache, and every search     *)
(* under way overlaps it.                                                  *)
LEMMA EndClearInv ==
    ASSUME RouteInv, TableInv', NEW c \in Clears, EndClear(c)
    PROVE  RouteInv'
<1>1. /\ route[c] = "cli" /\ route' = [route EXCEPT ![c] = "answered"] /\ queue' = Tail(queue)
      /\ Forget(Urls) /\ rejected' = rejected \cup gone[c]
      /\ overlapped' = [r \in Runs |-> overlapped[r] \/ route[r] \in {"cli", "fallback"}]
      /\ UNCHANGED <<vars, url, counts, now, born, gone, served>>
  BY DEF EndClear, Reply
<1>2. CacheFits' /\ Kept' = {}
  BY <1>1, ForgetFits DEF RouteInv, Kept
<1>3. Queued' /\ queue' \in Seq(Clears)
  BY <1>1, LeaveQueue
<1>4. WebTypes'
  <2>1. overlapped' \in [Runs -> BOOLEAN]
    BY <1>1 DEF RouteInv, WebTypes
  <2> QED
    BY <1>1, <1>3, <2>1 DEF RouteInv, WebTypes
<1>5. Ages'
  BY <1>1, <1>2 DEF RouteInv, Ages, ServedWithinTTL
<1>6. LostTexts'
  <2>1. Stored' = Stored /\ UNCHANGED <<rows, pc, gone>>
    BY <1>1 DEF Stored, vars, table
  <2> QED
    BY <1>1, <2>1 DEF RouteInv, LostTexts
<1>7. Unrevived'
  <2>1. \A r \in Runs : route'[r] = route[r]
    BY <1>1, TranslationAssumption DEF RouteInv, WebTypes
  <2> QED
    BY <1>1, <1>2, <2>1 DEF Unrevived, OnlyOverlapRevives
<1> QED
  BY <1>2, <1>3, <1>4, <1>5, <1>6, <1>7 DEF RouteInv

(* The command of the first retry in the queue is started.                 *)
LEMMA RunClearInv ==
    ASSUME RouteInv, TableInv', NEW c \in Clears, RunClear(c)
    PROVE  RouteInv'
<1>1. /\ route[c] = "waiting" /\ Head(queue) = c /\ route' = [route EXCEPT ![c] = "cli"]
      /\ UNCHANGED <<url, counts, cached, used, queue, now, born, gone, rejected, overlapped, served>>
  BY DEF RunClear, Reply, history
<1>2. UNCHANGED <<rows, shown>> /\ Stored' = Stored /\ \E where : pc' = [pc EXCEPT ![c] = where]
  BY DEF RunClear, Ask, Goto, table, Stored
<1>3. \A p \in Runs \cup Clears : p # c => route'[p] = route[p] /\ pc'[p] = pc[p]
  BY <1>1, <1>2 DEF RouteInv, WebTypes, TableInv, TypeOK
<1>4. WebTypes'
  BY <1>1 DEF RouteInv, WebTypes
<1>5. CacheFits' /\ Shrinks
  BY <1>1, CacheKept
<1>6. Queued'
  <2>1. queue \in Seq(Clears) /\ queue # <<>> /\ route'[c] = "cli"
    BY <1>1 DEF RouteInv, WebTypes, Queued
  <2> QED
    BY <1>1, <1>3, <2>1 DEF RouteInv, Queued
<1>7. \A s \in Runs : route'[s] = route[s] /\ pc'[s] = pc[s]
  BY <1>3, TranslationAssumption
<1>8. Ages'
  <2>1. \A s \in Runs : born'[s] <= now'
    BY <1>1 DEF RouteInv, Ages
  <2>2. \A s \in Runs : route[s] = "answered" => route'[s] = "answered" /\ born'[s] = born[s]
    BY <1>1, <1>7
  <2> QED
    BY <1>1, <1>4, <1>5, <2>1, <2>2, AgesKept
<1>9. LostTexts'
  <2>1. RowsKeep /\ LateStay
    BY <1>2, <1>7 DEF RowsKeep, LateStay
  <2> QED
    BY <1>1, <2>1, LostKept
<1>10. Unrevived'
  <2>1. ShowsKeep
    BY <1>2, <1>7 DEF ShowsKeep
  <2> QED
    BY <1>1, <1>5, <2>1, UnrevivedKept
<1> QED
  BY <1>4, <1>5, <1>6, <1>8, <1>9, <1>10 DEF RouteInv

LEMMA RouteStep == RouteInv /\ [RouteNext]_all => RouteInv'
<1> SUFFICES ASSUME RouteInv, [RouteNext]_all, TableInv' PROVE RouteInv'
  BY RouteTable
<1>1. ASSUME NEW u \in Urls, Hit(u) PROVE RouteInv'
  BY <1>1, HitInv
<1>2. ASSUME NEW r \in Runs, NEW u \in Urls, NEW m \in {"cache", "auto"}, Search(r, u, m)
      PROVE  RouteInv'
  BY <1>2, SearchInv
<1>3. ASSUME NEW r \in Runs, CountAfter(r) \/ Encounter(r) PROVE RouteInv'
  BY <1>3, CountInv, EncounterInv
<1>4. ASSUME NEW c \in Clears, Post(c) \/ ClearCli(c) PROVE RouteInv'
  BY <1>4, PostInv, ClearCliInv
<1>5. ASSUME NEW p \in Runs \cup Clears, Handle(p) \/ Die(p) PROVE RouteInv'
  BY <1>5, AnswerInv, FailInv, RunClearInv, EndClearInv, FailClearInv, DieInv DEF Handle
<1>6. ASSUME Tick \/ UNCHANGED all PROVE RouteInv'
  BY <1>6, TickInv
<1> QED
  BY <1>1, <1>2, <1>3, <1>4, <1>5, <1>6 DEF RouteNext

-----------------------------------------------------------------------------
(* The inductive invariant, for any number of searches, retries and URLs   *)
(* and any capacity and time to live.                                      *)
THEOREM RouteInvariant == RouteSpec => []RouteInv
BY RouteInitInv, RouteStep, PTL DEF RouteSpec

(* Every reachable state is well formed: the response cache never exceeds  *)
(* its capacity, its order by use is one, and the queue's first is always  *)
(* there to be taken off.                                                  *)
THEOREM RouteTypeCorrect == RouteSpec => []RouteTypeOK
<1>1. RouteInv => RouteTypeOK
  BY DEF RouteInv, TableInv, WebTypes, CacheFits, RouteTypeOK
<1> QED
  BY <1>1, RouteInvariant, PTL

(* No answer served from the response cache is as old as its time to live, *)
(* however often it was asked for.                                         *)
THEOREM AgeCorrect == RouteSpec => []ServedWithinTTL
<1>1. RouteInv => ServedWithinTTL
  BY DEF RouteInv, Ages
<1> QED
  BY <1>1, RouteInvariant, PTL

(* Only a search that was running when a retry ended can keep a rejected   *)
(* text.                                                                   *)
THEOREM RevivalCorrect == RouteSpec => []OnlyOverlapRevives
<1>1. RouteInv => OnlyOverlapRevives
  BY DEF RouteInv, Unrevived
<1> QED
  BY <1>1, RouteInvariant, PTL

(* A retry whose command was not started has no process.                   *)
Unstarted == \A c \in Clears : route[c] \in {"idle", "waiting"} => pc[c] = "idle"

LEMMA UnstartedStep == RouteInv /\ Unstarted /\ [RouteNext]_all => Unstarted'
<1> SUFFICES ASSUME RouteInv, Unstarted, [RouteNext]_all, NEW c \in Clears
             PROVE  route'[c] \in {"idle", "waiting"} => pc'[c] = "idle"
  BY DEF Unstarted
<1> USE TranslationAssumption DEF RouteInv, WebTypes, TableInv, TypeOK, Unstarted
<1>1. ASSUME NEW r \in Runs, (\E u \in Urls, m \in {"cache", "auto"} : Search(r, u, m)) \/ Encounter(r)
      PROVE  route'[c] = route[c] /\ pc'[c] = pc[c]
  <2>1. \/ route' = [route EXCEPT ![r] = "cli"] /\ \E where : pc' = [pc EXCEPT ![r] = where]
        \/ route' = route /\ RunStep(r)
    BY <1>1 DEF Search, Start, Encounter, Goto, Reply, web
  <2>2. RunStep(r) => \E where : pc' = [pc EXCEPT ![r] = where]
    BY DEF RunStep, Count, Look, Translate, Project, Goto
  <2> QED
    BY <2>1, <2>2
<1>2. ASSUME NEW r \in Runs, CountAfter(r) \/ Answer(r) \/ Fail(r) \/ Fallback(r) \/ SearchTimeout(r)
      PROVE  route'[c] = route[c] /\ pc'[c] = pc[c]
  BY <1>2 DEF CountAfter, Answer, Fail, Fallback, SearchTimeout, Reply, vars
<1>3. ASSUME NEW d \in Clears, Post(d)
      PROVE  pc'[c] = pc[c] /\ (route'[c] = route[c] \/ route[c] = "idle")
  BY <1>3 DEF Post, Reply, vars
<1>4. ASSUME NEW d \in Clears, EndClear(d) \/ FailClear(d)
      PROVE  pc'[c] = pc[c] /\ (route'[c] = route[c] \/ route'[c] = "answered")
  BY <1>4 DEF EndClear, FailClear, Reply, vars
<1>5. ASSUME NEW d \in Clears, RunClear(d)
      PROVE  (route'[c] = route[c] /\ pc'[c] = pc[c]) \/ route'[c] = "cli"
  BY <1>5 DEF RunClear, Ask, Goto, Reply
<1>6. ASSUME NEW d \in Clears, ClearCli(d)
      PROVE  route'[c] = route[c] /\ (pc'[c] = pc[c] \/ pc[c] # "idle")
  BY <1>6 DEF ClearCli, ClearStep, BeginClear, CommitClear, Goto, web
<1>7. ASSUME NEW p \in Runs \cup Clears, Die(p)
      PROVE  route'[c] = route[c] /\ (pc'[c] = pc[c] \/ pc[c] # "idle")
  BY <1>7 DEF Die, Stop, Goto, web
<1>8. ASSUME (\E u \in Urls : Hit(u)) \/ Tick \/ UNCHANGED all
      PROVE  route'[c] = route[c] /\ pc'[c] = pc[c]
  BY <1>8 DEF Hit, Tick, all, web, vars
<1> QED
  BY <1>1, <1>2, <1>3, <1>4, <1>5, <1>6, <1>7, <1>8 DEF RouteNext, Handle

(* The queue never blocks: a retry that waits is in it, and its first      *)
(* always has a step of the server's, which starts its command or, once it *)
(* was started, gives it up and takes it off.                              *)
FirstCanGo ==
    /\ \A c \in Clears : route[c] = "waiting" => \E i \in DOMAIN queue : queue[i] = c
    /\ queue # <<>> => \/ route[Head(queue)] = "waiting" /\ pc[Head(queue)] = "idle"
                      \/ route[Head(queue)] = "cli"

(* For any number of retries, whatever their commands do.                  *)
THEOREM QueueCorrect == RouteSpec => []FirstCanGo
<1>1. RouteInit => Unstarted
  BY DEF RouteInit, Init, Unstarted
<1>2. RouteInv /\ Unstarted => FirstCanGo
  <2> SUFFICES ASSUME RouteInv, Unstarted PROVE FirstCanGo
    OBVIOUS
  <2>1. queue \in Seq(Clears)
    BY DEF RouteInv, WebTypes
  <2>2. queue # <<>> => 1 \in DOMAIN queue /\ Head(queue) = queue[1] /\ queue[1] \in Clears
    BY <2>1
  <2> QED
    BY <2>2 DEF RouteInv, Queued, Unstarted, FirstCanGo
<1> QED
  BY <1>1, <1>2, UnstartedStep, RouteInvariant, PTL DEF RouteSpec
=============================================================================
