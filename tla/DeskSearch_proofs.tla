--------------------------- MODULE DeskSearch_proofs --------------------------
(***************************************************************************)
(* What the desk shows answers what was asked last, for any lookups and    *)
(* any number of requests under way.                                       *)
(***************************************************************************)
EXTENDS DeskSearch, TLAPS

(* Requests that are current, and the tables of requests.                  *)
Current(reqs, i) == reqs[i] # None /\ reqs[i].live
Table == [Slots -> Request \cup {None}]

(* First passes ask for a lookup, not for whatever the box holds.          *)
FirstAsks == \A i \in Slots :
    requests[i] # None /\ requests[i].kind = "first" => requests[i].asks \in Lookups

(* Whatever is current belongs to the last search.                         *)
CurrentIsLast == \A i \in Slots : Current(requests, i) => requests[i].search = submitted

(* While a search loads the box holds what it asked for, unless it was     *)
(* cleared, and then nothing is shown.                                     *)
LoadingAsked ==
    loading => IF submitted = None THEN encounter = None ELSE submitted = box

DeskInv ==
    /\ TypeOK
    /\ FirstAsks
    /\ CurrentIsLast
    /\ LoadingAsked
    /\ ShownServesSearch
    /\ EnrichingHasCause

LEMMA BoxType == None \notin Box /\ Lookups \subseteq Box /\ Blank \in Box
BY DeskAssumption DEF Box

LEMMA DeskInit == Init => DeskInv
<1> SUFFICES ASSUME Init PROVE DeskInv
  OBVIOUS
<1>1. TypeOK
  BY BoxType DEF Init, TypeOK
<1>2. \A i \in Slots : requests[i] = None
  BY DEF Init
<1>3. FirstAsks /\ CurrentIsLast
  BY <1>2 DEF FirstAsks, CurrentIsLast, Current
<1>4. LoadingAsked /\ ShownServesSearch /\ EnrichingHasCause
  BY DEF Init, LoadingAsked, ShownServesSearch, EnrichingHasCause
<1> QED
  BY <1>1, <1>3, <1>4 DEF DeskInv

(* Of superseded requests none is current.                                 *)
LEMMA Superseded ==
    ASSUME NEW reqs \in Table
    PROVE  /\ Supersede(reqs) \in Table
           /\ \A i \in Slots : ~Current(Supersede(reqs), i)
           /\ \A i \in Slots : Supersede(reqs)[i] # None =>
                 /\ reqs[i] # None
                 /\ Supersede(reqs)[i].kind = reqs[i].kind
                 /\ Supersede(reqs)[i].asks = reqs[i].asks
<1> SUFFICES ASSUME NEW i \in Slots
             PROVE  /\ Supersede(reqs)[i] \in Request \cup {None}
                    /\ ~Current(Supersede(reqs), i)
                    /\ Supersede(reqs)[i] # None =>
                         /\ reqs[i] # None
                         /\ Supersede(reqs)[i].kind = reqs[i].kind
                         /\ Supersede(reqs)[i].asks = reqs[i].asks
  BY DEF Supersede, Table
<1>1. CASE reqs[i] = None
  BY <1>1 DEF Supersede, Current
<1>2. CASE reqs[i] # None
  <2>1. reqs[i] \in Request
    BY <1>2 DEF Table
  <2>2. Supersede(reqs)[i] = [reqs[i] EXCEPT !.live = FALSE]
    BY <1>2 DEF Supersede
  <2> QED
    BY <1>2, <2>1, <2>2 DEF Request, Current
<1> QED
  BY <1>1, <1>2

(* A search leaves itself as the only current request.                     *)
LEMMA Started ==
    ASSUME NEW reqs \in Table, NEW l \in Lookups, StartSearch(reqs, l),
           \A i \in Slots : reqs[i] # None /\ reqs[i].kind = "first" => reqs[i].asks \in Lookups
    PROVE  /\ requests' \in Table /\ FirstAsks'
           /\ \A i \in Slots : Current(requests, i)' => requests'[i].search = l
           /\ loading' = TRUE /\ enriching' = FALSE /\ arrived' = FALSE /\ submitted' = l
<1> DEFINE new == [kind |-> "first", live |-> TRUE, asks |-> l, group |-> l, search |-> l]
<1>1. PICK i \in Slots : requests' = [Supersede(reqs) EXCEPT ![i] = new]
  BY DEF StartSearch
<1>2. new \in Request /\ new.kind = "first" /\ new.asks = l /\ new.search = l
  BY BoxType DEF Request
<1> HIDE DEF new
<1>3. requests'[i] = new /\ \A j \in Slots : j # i => requests'[j] = Supersede(reqs)[j]
  BY <1>1, Superseded DEF Table
<1>4. requests' \in Table
  BY <1>1, <1>2, Superseded DEF Table
<1>5. ASSUME NEW j \in Slots
      PROVE  /\ requests'[j] # None /\ requests'[j].kind = "first" => requests'[j].asks \in Lookups
             /\ Current(requests, j)' => requests'[j].search = l
  <2>1. CASE j = i
    BY <1>2, <1>3, <2>1
  <2>2. CASE j # i
    BY <1>3, <2>2, Superseded DEF Current
  <2> QED
    BY <2>1, <2>2
<1> QED
  BY <1>4, <1>5 DEF FirstAsks, StartSearch

-----------------------------------------------------------------------------
(* What a step does to the page, kept apart from the requests.             *)
PageTypes ==
    /\ box' \in Box
    /\ {loading', enriching', arrived'} \subseteq BOOLEAN
    /\ retrying' \in SUBSET Lookups

(* A step that starts a search.                                            *)
LEMMA SearchKeeps ==
    ASSUME DeskInv, PageTypes, NEW reqs \in {requests, Supersede(requests)}, NEW l \in Lookups,
           StartSearch(reqs, l), box' = l, encounter' \in {encounter, None}
    PROVE  DeskInv'
<1>1. requests \in Table /\ l # None
  BY DeskAssumption DEF DeskInv, TypeOK, Table
<1>2. reqs \in Table
      /\ \A i \in Slots : reqs[i] # None /\ reqs[i].kind = "first" => reqs[i].asks \in Lookups
  BY <1>1, Superseded DEF DeskInv, FirstAsks
<1>3. /\ requests' \in Table /\ FirstAsks'
      /\ \A i \in Slots : Current(requests, i)' => requests'[i].search = l
      /\ loading' = TRUE /\ enriching' = FALSE /\ submitted' = l
  BY <1>2, Started
<1>4. TypeOK'
  BY <1>3 DEF DeskInv, TypeOK, PageTypes, Table
<1>5. CurrentIsLast' /\ LoadingAsked' /\ ShownServesSearch' /\ EnrichingHasCause'
  BY <1>1, <1>3 DEF CurrentIsLast, LoadingAsked, ShownServesSearch, EnrichingHasCause
<1> QED
  BY <1>3, <1>4, <1>5 DEF DeskInv

(* A step that clears the page.                                            *)
LEMMA ForgetKeeps ==
    ASSUME DeskInv, PageTypes, requests' = Supersede(requests), encounter' = None,
           enriching' = FALSE, submitted' = None
    PROVE  DeskInv'
<1>1. requests \in Table
  BY DEF DeskInv, TypeOK, Table
<1>2. TypeOK'
  BY <1>1, Superseded DEF TypeOK, PageTypes, Table
<1>3. FirstAsks' /\ CurrentIsLast'
  BY <1>1, Superseded DEF DeskInv, FirstAsks, CurrentIsLast
<1>4. LoadingAsked' /\ ShownServesSearch' /\ EnrichingHasCause'
  BY DEF LoadingAsked, ShownServesSearch, EnrichingHasCause
<1> QED
  BY <1>2, <1>3, <1>4 DEF DeskInv

(* The cases of hydration: it starts a search, clears the page, or leaves  *)
(* the requests, and then may drop what is shown and the notices.          *)
LEMMA HydrateCases ==
    ASSUME TypeOK, NEW l \in Box, NEW load, Hydrate(l, load)
    PROVE  /\ box' = l /\ retrying' = retrying
           /\ \/ /\ l \in Lookups /\ encounter' \in {encounter, None}
                 /\ StartSearch(requests, l) \/ StartSearch(Supersede(requests), l)
              \/ /\ requests' = Supersede(requests) /\ encounter' = None
                 /\ loading' = FALSE /\ enriching' = FALSE /\ arrived' = FALSE
                 /\ submitted' = None
              \/ /\ box = l /\ requests' = requests /\ submitted' = submitted
                 /\ arrived' = arrived
                 /\ \/ UNCHANGED <<encounter, loading, enriching>>
                    \/ /\ loading' = FALSE /\ enriching' = FALSE
                       /\ encounter' = encounter \/ encounter' = None
                       /\ encounter' # None => encounter'.for = l
<1> DEFINE matches == encounter # None /\ encounter.for = l
           wanted  == l # Blank /\ (load = "yes" \/ (load = "unset" /\ ~matches))
<1>1. PICK reset \in BOOLEAN :
        /\ reset \in IF box # l THEN {TRUE} ELSE IF l = Blank THEN BOOLEAN ELSE {FALSE}
        /\ LET kept     == IF reset THEN None ELSE encounter
               restores == load = "unset" /\ ~reset /\ l # Blank
               restored == IF restores /\ ~(matches /\ ~encounter.partial) THEN None ELSE kept
               reqs     == IF reset THEN Supersede(requests) ELSE requests
           IN  /\ box' = l /\ encounter' = restored
               /\ IF wanted /\ ~(restores /\ restored # None)
                  THEN StartSearch(reqs, l)
                  ELSE /\ requests' = reqs
                       /\ loading' = (loading /\ ~reset /\ ~restores)
                       /\ enriching' = (enriching /\ ~reset /\ ~restores)
                       /\ arrived' = (arrived /\ ~reset)
                       /\ submitted' = IF reset THEN None ELSE submitted
               /\ UNCHANGED retrying
  BY Zenon DEF Hydrate
<1>2. wanted => l \in Lookups
  BY DEF Box
<1>3. {loading, enriching, arrived} \subseteq BOOLEAN
  BY DEF TypeOK
<1>4. CASE reset
  BY <1>1, <1>2, <1>4
<1>5. CASE ~reset
  <2>1. box = l
    BY <1>1, <1>5
  <2>2. CASE load = "unset" /\ l # Blank
    BY <1>1, <1>2, <1>5, <2>1, <2>2, <1>3
  <2>3. CASE ~(load = "unset" /\ l # Blank)
    BY <1>1, <1>2, <1>5, <2>1, <2>3, <1>3
  <2> QED
    BY <2>2, <2>3
<1> QED
  BY <1>4, <1>5

-----------------------------------------------------------------------------
(* A step that changes one request, which is then no first pass.           *)
LEMMA OneRequest ==
    ASSUME DeskInv, NEW i \in Slots, NEW v \in Request \cup {None},
           requests' = [requests EXCEPT ![i] = v], submitted' = submitted,
           v # None => v.kind # "first" /\ (v.live => v.search = submitted)
    PROVE  /\ requests' \in Table /\ FirstAsks' /\ CurrentIsLast'
           /\ requests'[i] = v /\ \A j \in Slots : j # i => requests'[j] = requests[j]
<1>1. requests \in Table
  BY DEF DeskInv, TypeOK, Table
<1>2. requests' \in Table /\ requests'[i] = v /\ \A j \in Slots : j # i => requests'[j] = requests[j]
  BY <1>1 DEF Table
<1>3. FirstAsks'
  BY <1>2 DEF DeskInv, FirstAsks
<1>4. CurrentIsLast'
  BY <1>2 DEF DeskInv, CurrentIsLast, Current
<1> QED
  BY <1>2, <1>3, <1>4

LEMMA ShowType ==
    ASSUME NEW r \in Request, r.asks \in Lookups, NEW partial \in BOOLEAN, Show(r, partial)
    PROVE  encounter' \in Encounter /\ encounter'.search = r.search
BY DEF Show, Encounter, Request

(* A request that ended, while the notice has a cause elsewhere or is gone *)
(* as well, and what is shown stays or is what a current request asked.    *)
LEMMA EndKeeps ==
    ASSUME DeskInv, PageTypes, NEW i \in Slots, requests[i] # None,
           requests' = [requests EXCEPT ![i] = None], submitted' = submitted,
           box' = box, loading' => loading,
           enriching' => enriching /\ ~(requests[i].kind = "enrich" /\ requests[i].live),
           \/ encounter' = encounter /\ loading' = loading
           \/ encounter' = None
           \/ /\ requests[i].live /\ encounter' \in Encounter
              /\ encounter'.search = requests[i].search
    PROVE  DeskInv'
<1>1. requests' \in Table /\ FirstAsks' /\ CurrentIsLast'
      /\ requests'[i] = None /\ \A j \in Slots : j # i => requests'[j] = requests[j]
  BY OneRequest
<1>2. requests[i] \in Request /\ (requests[i].live => requests[i].search = submitted)
  BY DEF DeskInv, TypeOK, CurrentIsLast, Current
<1>3. EnrichingHasCause'
  BY <1>1 DEF DeskInv, EnrichingHasCause
<1>4. CASE (encounter' = encounter /\ loading' = loading) \/ encounter' = None
  <2>1. TypeOK'
    BY <1>1, <1>4 DEF DeskInv, TypeOK, PageTypes, Table
  <2>2. LoadingAsked' /\ ShownServesSearch'
    BY <1>4 DEF DeskInv, LoadingAsked, ShownServesSearch, TypeOK, PageTypes
  <2> QED
    BY <1>1, <1>3, <2>1, <2>2 DEF DeskInv
<1>5. ASSUME requests[i].live, encounter' \in Encounter,
             encounter'.search = requests[i].search
      PROVE  DeskInv'
  <2>1. encounter'.search = submitted /\ submitted \in Lookups /\ submitted # None
    BY <1>2, <1>5, DeskAssumption DEF Request
  <2>2. TypeOK'
    BY <1>1, <1>5, <2>1 DEF DeskInv, TypeOK, PageTypes, Table
  <2>3. LoadingAsked' /\ ShownServesSearch'
    BY <2>1 DEF DeskInv, LoadingAsked, ShownServesSearch, TypeOK, PageTypes
  <2> QED
    BY <1>1, <1>3, <2>2, <2>3 DEF DeskInv
<1> QED
  BY <1>4, <1>5

LEMMA FirstKeeps ==
    ASSUME DeskInv, NEW i \in Slots, AnswerFirst(i)
    PROVE  DeskInv'
<1> DEFINE r == requests[i]
<1>1. /\ r # None /\ r.kind = "first" /\ r.asks \in Lookups /\ r \in Request
      /\ UNCHANGED <<box, retrying, arrived, submitted>>
      /\ r.live => r.search = submitted
  BY DEF AnswerFirst, DeskInv, FirstAsks, TypeOK, CurrentIsLast, Current
<1>2. ASSUME r.live, loading' = FALSE,
             NEW partial \in BOOLEAN, NEW enrich \in {FALSE, partial}, Show(r, partial),
             requests' = [requests EXCEPT ![i] =
                 IF enrich THEN [r EXCEPT !.kind = "enrich", !.asks = box] ELSE None],
             enriching' = (enrich \/ enriching)
      PROVE  DeskInv'
  <2>1. CASE enrich
    <3> DEFINE v == [r EXCEPT !.kind = "enrich", !.asks = box]
    <3>1. v \in Request /\ v.kind = "enrich" /\ v.live /\ v.search = submitted /\ v # None
      BY <1>1, <1>2, DeskAssumption DEF Request, DeskInv, TypeOK
    <3> HIDE DEF v
    <3>2. requests' \in Table /\ FirstAsks' /\ CurrentIsLast' /\ requests'[i] = v
      <4>1. requests' = [requests EXCEPT ![i] = v]
        BY <1>2, <2>1 DEF v
      <4> QED
        BY <1>1, <3>1, <4>1, OneRequest
    <3>3. EnrichingHasCause'
      BY <3>1, <3>2 DEF EnrichingHasCause
    <3>4. encounter' \in Encounter /\ encounter'.search = submitted /\ enriching' = TRUE
      BY <1>1, <1>2, <2>1, ShowType
    <3>5. TypeOK'
      BY <1>1, <1>2, <3>2, <3>4 DEF DeskInv, TypeOK, Table
    <3>6. LoadingAsked' /\ ShownServesSearch'
      BY <1>1, <1>2, <3>4 DEF LoadingAsked, ShownServesSearch
    <3> QED
      BY <3>2, <3>3, <3>5, <3>6 DEF DeskInv
  <2>2. CASE ~enrich
    <3>1. requests' = [requests EXCEPT ![i] = None] /\ enriching' = enriching
      BY <1>2, <2>2 DEF DeskInv, TypeOK
    <3>2. PageTypes
      BY <1>1, <1>2, <3>1 DEF PageTypes, DeskInv, TypeOK
    <3>3. encounter' \in Encounter /\ encounter'.search = r.search
      BY <1>1, <1>2, ShowType
    <3>4. submitted' = submitted /\ box' = box /\ (loading' => loading)
      BY <1>1, <1>2
    <3>5. enriching' => enriching /\ ~(requests[i].kind = "enrich" /\ requests[i].live)
      BY <1>1, <3>1
    <3>6. \/ encounter' = encounter /\ loading' = loading
          \/ encounter' = None
          \/ /\ requests[i].live /\ encounter' \in Encounter
             /\ encounter'.search = requests[i].search
      BY <1>2, <3>3
    <3> QED
      BY <1>1, <3>1, <3>2, <3>4, <3>5, <3>6, EndKeeps
  <2> QED
    BY <2>1, <2>2
<1>3. CASE encounter' = None /\ loading' = FALSE /\ requests' = Free(i) /\ enriching' = enriching
  <2>1. PageTypes
    BY <1>1, <1>3 DEF PageTypes, DeskInv, TypeOK
  <2> QED
    BY <1>1, <1>3, <2>1, EndKeeps DEF Free
<1>4. CASE requests' = Free(i) /\ UNCHANGED <<encounter, loading, enriching>>
  <2>1. PageTypes
    BY <1>1, <1>4 DEF PageTypes, DeskInv, TypeOK
  <2> QED
    BY <1>1, <1>4, <2>1, EndKeeps DEF Free
<1> QED
  BY <1>2, <1>3, <1>4 DEF AnswerFirst

LEMMA EnrichKeeps ==
    ASSUME DeskInv, NEW i \in Slots, AnswerEnrich(i)
    PROVE  DeskInv'
<1>1. /\ requests[i] # None /\ requests' = [requests EXCEPT ![i] = None]
      /\ UNCHANGED <<box, loading, retrying, submitted>>
      /\ \/ requests[i].live /\ enriching' = FALSE
         \/ ~requests[i].live /\ enriching' = enriching
      /\ \/ encounter' = encounter /\ arrived' = arrived
         \/ /\ requests[i].live /\ arrived' = TRUE
            /\ encounter' \in Encounter /\ encounter'.search = requests[i].search
  BY ShowType DEF AnswerEnrich, Free, DeskInv, TypeOK
<1>2. PageTypes
  BY <1>1 DEF PageTypes, DeskInv, TypeOK
<1>3. submitted' = submitted /\ box' = box /\ (loading' => loading)
  BY <1>1
<1>4. enriching' => enriching /\ ~(requests[i].kind = "enrich" /\ requests[i].live)
  BY <1>1
<1>5. \/ encounter' = encounter /\ loading' = loading
      \/ encounter' = None
      \/ /\ requests[i].live /\ encounter' \in Encounter
         /\ encounter'.search = requests[i].search
  BY <1>1
<1> QED
  BY <1>1, <1>2, <1>3, <1>4, <1>5, EndKeeps

LEMMA RetryAnswerKeeps ==
    ASSUME DeskInv, NEW i \in Slots, AnswerPost(i) \/ AnswerRefresh(i)
    PROVE  DeskInv'
<1> DEFINE r == requests[i]
<1>1. /\ r # None /\ r.kind \in {"post", "refresh"} /\ r \in Request
      /\ UNCHANGED <<box, loading, enriching, submitted>>
      /\ r.live => r.search = submitted
  BY DEF AnswerPost, AnswerRefresh, DeskInv, TypeOK, CurrentIsLast, Current
<1>2. ASSUME r.live, UNCHANGED <<encounter, arrived, retrying>>,
             requests' = [requests EXCEPT ![i] = [r EXCEPT !.kind = "refresh", !.asks = box]]
      PROVE  DeskInv'
  <2> DEFINE v == [r EXCEPT !.kind = "refresh", !.asks = box]
  <2>1. v \in Request /\ v.kind = "refresh" /\ v.search = submitted
    BY <1>1, <1>2 DEF Request, DeskInv, TypeOK
  <2>2. requests' = [requests EXCEPT ![i] = v]
    BY <1>2
  <2> HIDE DEF v
  <2>3. requests' \in Table /\ FirstAsks' /\ CurrentIsLast'
        /\ \A j \in Slots : j # i => requests'[j] = requests[j]
    BY <1>1, <2>1, <2>2, OneRequest
  <2>4. EnrichingHasCause'
    BY <1>1, <2>3 DEF DeskInv, EnrichingHasCause
  <2>5. TypeOK'
    BY <1>1, <1>2, <2>3 DEF DeskInv, TypeOK, Table
  <2>6. LoadingAsked' /\ ShownServesSearch'
    BY <1>1, <1>2 DEF DeskInv, LoadingAsked, ShownServesSearch
  <2> QED
    BY <2>3, <2>4, <2>5, <2>6 DEF DeskInv
<1>3. ASSUME requests' = Free(i), retrying' = retrying \ {r.group},
             \/ encounter' = encounter /\ arrived' = arrived
             \/ /\ r.live /\ arrived' = TRUE
                /\ encounter' \in Encounter /\ encounter'.search = r.search
      PROVE  DeskInv'
  <2>1. PageTypes
    BY <1>1, <1>3 DEF PageTypes, DeskInv, TypeOK
  <2> QED
    BY <1>1, <1>3, <2>1, EndKeeps DEF Free
<1>4. CASE AnswerPost(i)
  BY <1>2, <1>3, <1>4 DEF AnswerPost
<1>5. CASE AnswerRefresh(i)
  BY <1>1, <1>3, <1>5, ShowType DEF AnswerRefresh
<1> QED
  BY <1>4, <1>5

LEMMA RetryKeeps ==
    ASSUME DeskInv, Retry
    PROVE  DeskInv'
<1> DEFINE v == [kind |-> "post", live |-> TRUE, asks |-> box,
                 group |-> encounter.for, search |-> submitted]
<1>1. /\ ~loading /\ encounter # None
      /\ retrying' = retrying \cup {encounter.for}
      /\ UNCHANGED <<box, encounter, loading, enriching, arrived, submitted>>
  BY DEF Retry
<1>2. PICK i \in Slots : requests[i] = None /\ requests' = [requests EXCEPT ![i] = v]
  BY DEF Retry, FirstFree
<1>3. submitted \in Lookups /\ encounter.for \in Lookups
  BY <1>1 DEF DeskInv, TypeOK, ShownServesSearch, Encounter
<1>4. v \in Request /\ v.kind = "post" /\ v.search = submitted
  BY <1>3 DEF Request, DeskInv, TypeOK
<1> HIDE DEF v
<1>5. requests' \in Table /\ FirstAsks' /\ CurrentIsLast'
      /\ \A j \in Slots : j # i => requests'[j] = requests[j]
  BY <1>1, <1>2, <1>4, OneRequest
<1>6. EnrichingHasCause'
  BY <1>1, <1>2, <1>5 DEF DeskInv, EnrichingHasCause
<1>7. TypeOK'
  BY <1>1, <1>3, <1>5 DEF DeskInv, TypeOK, Table
<1>8. LoadingAsked' /\ ShownServesSearch'
  BY <1>1 DEF DeskInv, LoadingAsked, ShownServesSearch
<1> QED
  BY <1>5, <1>6, <1>7, <1>8 DEF DeskInv

LEMMA HydrateKeeps ==
    ASSUME DeskInv, NEW l \in Box, NEW load, Hydrate(l, load)
    PROVE  DeskInv'
<1>1. TypeOK
  BY DEF DeskInv
<1>2. box' = l /\ retrying' = retrying
  BY <1>1, HydrateCases
<1>3. ASSUME l \in Lookups, encounter' \in {encounter, None},
             NEW reqs \in {requests, Supersede(requests)}, StartSearch(reqs, l)
      PROVE  DeskInv'
  <2>1. PageTypes
    BY <1>1, <1>2, <1>3 DEF PageTypes, StartSearch, TypeOK
  <2> QED
    BY <1>2, <1>3, <2>1, SearchKeeps
<1>4. CASE /\ requests' = Supersede(requests) /\ encounter' = None
           /\ loading' = FALSE /\ enriching' = FALSE /\ arrived' = FALSE /\ submitted' = None
  <2>1. PageTypes
    BY <1>1, <1>2, <1>4 DEF PageTypes, TypeOK
  <2> QED
    BY <1>4, <2>1, ForgetKeeps
<1>5. CASE /\ box = l /\ requests' = requests /\ submitted' = submitted /\ arrived' = arrived
           /\ \/ UNCHANGED <<encounter, loading, enriching>>
              \/ /\ loading' = FALSE /\ enriching' = FALSE
                 /\ encounter' = encounter \/ encounter' = None
                 /\ encounter' # None => encounter'.for = l
  <2>1. TypeOK' /\ FirstAsks' /\ CurrentIsLast'
    BY <1>2, <1>5 DEF DeskInv, TypeOK, FirstAsks, CurrentIsLast, Current
  <2>2. EnrichingHasCause'
    BY <1>5 DEF DeskInv, EnrichingHasCause
  <2>3. CASE UNCHANGED <<encounter, loading, enriching>>
    BY <1>2, <1>5, <2>1, <2>2, <2>3 DEF DeskInv, LoadingAsked, ShownServesSearch
  <2>4. CASE /\ loading' = FALSE /\ enriching' = FALSE
             /\ encounter' = encounter \/ encounter' = None
             /\ encounter' # None => encounter'.for = l
    <3>1. LoadingAsked'
      BY <2>4 DEF LoadingAsked
    <3>2. ASSUME encounter # None, encounter' = encounter
          PROVE  submitted \in {encounter.search, encounter.for}
      BY <1>5, <2>4, <3>2 DEF DeskInv, LoadingAsked, ShownServesSearch
    <3>3. ShownServesSearch'
      BY <1>5, <2>4, <3>2 DEF ShownServesSearch
    <3> QED
      BY <2>1, <2>2, <3>1, <3>3 DEF DeskInv
  <2> QED
    BY <1>5, <2>3, <2>4
<1> QED
  BY <1>1, <1>3, <1>4, <1>5, HydrateCases

LEMMA DeskStep == DeskInv /\ [Next]_vars => DeskInv'
<1> SUFFICES ASSUME DeskInv, [Next]_vars PROVE DeskInv'
  OBVIOUS
<1>0. TypeOK
  BY DEF DeskInv
<1>1. ASSUME UNCHANGED <<encounter, loading, enriching, requests, submitted>>,
             box' = box \/ ~loading, TypeOK'
      PROVE  DeskInv'
  BY <1>1 DEF DeskInv, FirstAsks, CurrentIsLast, Current, LoadingAsked, ShownServesSearch,
              EnrichingHasCause
<1>2. ASSUME NEW w \in Box, Type(w) PROVE DeskInv'
  BY <1>0, <1>1, <1>2 DEF Type, TypeOK
<1>3. ASSUME Submit PROVE DeskInv'
  <2>1. CASE box \in Lookups
    <3>1. StartSearch(requests, box) /\ encounter' = encounter /\ box' = box
      BY <1>3, <2>1 DEF Submit
    <3>2. PageTypes
      BY <1>0, <1>3, <2>1 DEF Submit, StartSearch, PageTypes, TypeOK
    <3> QED
      BY <2>1, <3>1, <3>2, SearchKeeps
  <2>2. CASE box \notin Lookups
    <3>1. PageTypes
      BY <1>0, <1>3, <2>2 DEF Submit, Forget, PageTypes, TypeOK
    <3> QED
      BY <1>3, <2>2, <3>1, ForgetKeeps DEF Submit, Forget
  <2> QED
    BY <2>1, <2>2
<1>4. CASE ClearSearch \/ SelectLanguage \/ GoHome
  <2>1. PageTypes
    BY <1>0, <1>4, BoxType DEF ClearSearch, SelectLanguage, GoHome, Forget, PageTypes, TypeOK
  <2> QED
    BY <1>4, <2>1, ForgetKeeps DEF ClearSearch, SelectLanguage, GoHome, Forget
<1>5. CASE ArrivalTimer
  BY <1>0, <1>1, <1>5 DEF ArrivalTimer, TypeOK
<1>6. CASE UNCHANGED vars
  BY <1>0, <1>1, <1>6 DEF vars, TypeOK
<1> QED
  BY <1>2, <1>3, <1>4, <1>5, <1>6, RetryKeeps, HydrateKeeps, FirstKeeps, EnrichKeeps,
     RetryAnswerKeeps DEF Next

(* The inductive invariant, for any lookups and number of requests.        *)
THEOREM DeskInvariant == Spec => []DeskInv
BY DeskInit, DeskStep, PTL DEF Spec

(* The page and its requests keep their types.                             *)
THEOREM DeskTypes == Spec => []TypeOK
<1>1. DeskInv => TypeOK
  BY DEF DeskInv
<1> QED
  BY <1>1, DeskInvariant, PTL

(* No late answer is shown in the place of, or after, a newer search.      *)
THEOREM ShownCorrect == Spec => []ShownServesSearch
<1>1. DeskInv => ShownServesSearch
  BY DEF DeskInv
<1> QED
  BY <1>1, DeskInvariant, PTL

(* The notice of a second pass never outlives it.                          *)
THEOREM EnrichingCorrect == Spec => []EnrichingHasCause
<1>1. DeskInv => EnrichingHasCause
  BY DEF DeskInv
<1> QED
  BY <1>1, DeskInvariant, PTL
=============================================================================
