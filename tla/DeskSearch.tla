------------------------------ MODULE DeskSearch ------------------------------
(***************************************************************************)
(* The search of the word desk, in one browser page: a first pass that     *)
(* answers from the translation cache, a second one that enriches the      *)
(* answer, retries of single translations, and everything that makes them  *)
(* obsolete while their answers are under way.                             *)
(*                                                                         *)
(* activeSearchId is abstracted to the flag `live' of a request: the id a  *)
(* request captured is still the active one.  A lookup stands for language *)
(* and word; Blank for a text that is not one word, in any language.  The  *)
(* group of an encounter that can be retried is named by the lookup it     *)
(* answers.  Filters, layers, sections, error texts and the word index are *)
(* left out.                                                               *)
(***************************************************************************)
EXTENDS Naturals

CONSTANTS
    Lookups,
    Blank,
    None,
    MaxInFlight  \* bound on the requests under way

Slots == 1..MaxInFlight
Box == Lookups \cup {Blank}
Request == [kind : {"first", "enrich", "post", "refresh"}, live : BOOLEAN,
            asks : Box, group : Lookups, search : Lookups]

(* What is shown: the lookup it answers, the search it was asked for, and  *)
(* whether reader translations are missing.                                *)
Encounter == [for : Lookups, search : Lookups, partial : BOOLEAN]

ASSUME DeskAssumption ==
    None \notin Lookups \cup Request /\ Blank \notin Lookups \cup {None}

VARIABLES
    box,        \* language and query
    encounter,
    loading,
    enriching,  \* enrichingTranslations
    retrying,   \* the groups with translationRetrying set
    arrived,    \* translationArrived, with its timer
    requests,   \* slot -> the request under way
    submitted   \* history: the lookup of the last search, until it is cleared

vars == <<box, encounter, loading, enriching, retrying, arrived, requests, submitted>>

Init ==
    /\ box = Blank
    /\ encounter = None
    /\ loading = FALSE /\ enriching = FALSE /\ arrived = FALSE
    /\ retrying = {}
    /\ requests = [i \in Slots |-> None]
    /\ submitted = None

-----------------------------------------------------------------------------
(* activeSearchId += 1: no request under way is current any more.          *)
Supersede(reqs) ==
    [i \in Slots |-> IF reqs[i] = None THEN None ELSE [reqs[i] EXCEPT !.live = FALSE]]

FirstFree(reqs, i) == reqs[i] = None /\ \A j \in Slots : j < i => reqs[j] # None

(* What runSearch does up to its first await.                              *)
StartSearch(reqs, l) ==
    \E i \in Slots :
        /\ FirstFree(reqs, i)
        /\ requests' = [Supersede(reqs) EXCEPT ![i] =
               [kind |-> "first", live |-> TRUE, asks |-> l, group |-> l, search |-> l]]
        /\ loading' = TRUE /\ enriching' = FALSE /\ arrived' = FALSE
        /\ submitted' = l

(* Nothing is shown and nothing under way may be shown.                    *)
Forget ==
    /\ requests' = Supersede(requests)
    /\ encounter' = None
    /\ enriching' = FALSE
    /\ submitted' = None

-----------------------------------------------------------------------------
(* The user.  The text field and the buttons Search and Clear are disabled *)
(* while a search is loading; the languages are not.                       *)

Type(w) ==
    /\ ~loading
    /\ box # w
    /\ box' = w
    /\ UNCHANGED <<encounter, loading, enriching, retrying, arrived, requests, submitted>>

(* handleSubmit and runSearch.                                             *)
Submit ==
    /\ ~loading
    /\ IF box \in Lookups
       THEN StartSearch(requests, box) /\ UNCHANGED encounter
       ELSE Forget /\ arrived' = FALSE /\ UNCHANGED loading
    /\ UNCHANGED <<box, retrying>>

ClearSearch ==
    /\ ~loading
    /\ Forget
    /\ box' = Blank
    /\ UNCHANGED <<loading, retrying, arrived>>

M_SelectLanguage ==
    /\ box' = Blank
    /\ encounter' = None /\ submitted' = None
    /\ requests' = Supersede(requests)
    /\ UNCHANGED <<loading, enriching, retrying, arrived>>
SelectLanguage ==
    /\ Forget
    /\ box' = Blank
    /\ UNCHANGED <<loading, retrying, arrived>>

(* resetAppState.                                                          *)
GoHome ==
    /\ Forget
    /\ box' = Blank
    /\ loading' = FALSE /\ arrived' = FALSE
    /\ UNCHANGED retrying

(* retryGroupTranslation.  Results are not rendered while a search loads.  *)
Retry ==
    /\ ~loading /\ encounter # None /\ encounter.for \notin retrying
    /\ \E i \in Slots :
           /\ FirstFree(requests, i)
           /\ requests' = [requests EXCEPT ![i] =
                  [kind |-> "post", live |-> TRUE, asks |-> box,
                   group |-> encounter.for, search |-> submitted]]
    /\ retrying' = retrying \cup {encounter.for}
    /\ UNCHANGED <<box, encounter, loading, enriching, arrived, submitted>>

(* A link inside the desk, or back and forward in the history:             *)
(* hydrateRouteStateFromUrl.  The session store holds the state of the box *)
(* as it was, so it restores only when the box stays, and keeps no partial *)
(* encounter.  Whether the URL matches the encounter is judged before the  *)
(* encounter is cleared; two empty boxes may differ in their language.     *)
Hydrate(l, load) ==
    \E reset \in IF box # l THEN {TRUE} ELSE IF l = Blank THEN BOOLEAN ELSE {FALSE} :
        LET matches  == encounter # None /\ encounter.for = l
            wanted   == /\ l # Blank
                        /\ load = "yes" \/ (load = "unset" /\ ~matches)
            kept     == IF reset THEN None ELSE encounter
            restores == load = "unset" /\ ~reset /\ l # Blank
            restored == IF restores /\ ~(matches /\ ~encounter.partial)
                        THEN None ELSE kept
            reqs     == IF reset THEN Supersede(requests) ELSE requests
        IN  /\ box' = l
            /\ encounter' = restored
            /\ IF wanted /\ ~(restores /\ restored # None)
               THEN StartSearch(reqs, l)
               ELSE /\ requests' = reqs
                    /\ loading' = (loading /\ ~reset /\ ~restores)
                    /\ enriching' = (enriching /\ ~reset /\ ~restores)
                    /\ arrived' = (arrived /\ ~reset)
                    /\ submitted' = IF reset THEN None ELSE submitted
            /\ UNCHANGED retrying

-----------------------------------------------------------------------------
(* The answers.                                                            *)

Free(i) == [requests EXCEPT ![i] = None]
Show(r, partial) ==
    encounter' = [for |-> r.asks, search |-> r.search, partial |-> partial]

(* The first pass.  The second follows when reader translations are        *)
(* missing and the translation mode asks for them.                         *)
AnswerFirst(i) ==
    LET r == requests[i]
    IN  /\ r # None /\ r.kind = "first"
        /\ \/ /\ r.live
              /\ \E partial \in BOOLEAN : \E enrich \in {FALSE, partial} :
                     /\ Show(r, partial)
                     /\ requests' = [requests EXCEPT ![i] =
                            IF enrich THEN [r EXCEPT !.kind = "enrich", !.asks = box] ELSE None]
                     /\ enriching' = (enrich \/ enriching)
              /\ loading' = FALSE
           \/ /\ r.live
              /\ encounter' = None
              /\ loading' = FALSE
              /\ requests' = Free(i)
              /\ UNCHANGED enriching
           \/ /\ ~r.live
              /\ requests' = Free(i)
              /\ UNCHANGED <<encounter, loading, enriching>>
        /\ UNCHANGED <<box, retrying, arrived, submitted>>

(* refreshDeskSearchTranslations.  A failure leaves what is shown.         *)
AnswerEnrich(i) ==
    LET r == requests[i]
    IN  /\ r # None /\ r.kind = "enrich"
        /\ requests' = Free(i)
        /\ \/ /\ r.live /\ r.asks \in Lookups
              /\ \E partial \in BOOLEAN : Show(r, partial)
              /\ arrived' = TRUE /\ enriching' = FALSE
           \/ /\ r.live
              /\ enriching' = FALSE
              /\ UNCHANGED <<encounter, arrived>>
           \/ /\ ~r.live
              /\ UNCHANGED <<encounter, arrived, enriching>>
        /\ UNCHANGED <<box, loading, retrying, submitted>>

(* retryDeskGroupTranslation, after the retry was posted: the search is    *)
(* asked again, for what the box holds now.                                *)
M_AnswerPost(i) ==
    LET r == requests[i]
    IN  /\ r # None /\ r.kind = "post"
        /\ \/ /\ r.live
              /\ requests' = [requests EXCEPT ![i] = [r EXCEPT !.kind = "refresh", !.asks = box]]
              /\ UNCHANGED retrying
           \/ /\ r.live
              /\ requests' = Free(i)
              /\ retrying' = retrying \ {r.group}
           \/ /\ ~r.live
              /\ requests' = Free(i)
              /\ UNCHANGED retrying
        /\ UNCHANGED <<box, encounter, loading, enriching, arrived, submitted>>
AnswerPost(i) ==
    LET r == requests[i]
    IN  /\ r # None /\ r.kind = "post"
        /\ \/ /\ r.live
              /\ requests' = [requests EXCEPT ![i] = [r EXCEPT !.kind = "refresh", !.asks = box]]
              /\ UNCHANGED retrying
           \/ /\ requests' = Free(i)
              /\ retrying' = retrying \ {r.group}
        /\ UNCHANGED <<box, encounter, loading, enriching, arrived, submitted>>

M_AnswerBlank(i) ==
    LET r == requests[i]
    IN  /\ r # None /\ r.kind = "refresh"
        /\ requests' = Free(i)
        /\ retrying' = retrying \ {r.group}
        /\ \/ /\ r.live
              /\ \E partial \in BOOLEAN : Show(r, partial)
              /\ arrived' = TRUE
           \/ UNCHANGED <<encounter, arrived>>
        /\ UNCHANGED <<box, loading, enriching, submitted>>
M_AnswerRefresh(i) ==
    LET r == requests[i]
    IN  /\ r # None /\ r.kind = "refresh"
        /\ requests' = Free(i)
        /\ retrying' = retrying \ {r.group}
        /\ \/ /\ r.asks \in Lookups
              /\ \E partial \in BOOLEAN : Show(r, partial)
              /\ arrived' = TRUE
           \/ UNCHANGED <<encounter, arrived>>
        /\ UNCHANGED <<box, loading, enriching, submitted>>
AnswerRefresh(i) ==
    LET r == requests[i]
    IN  /\ r # None /\ r.kind = "refresh"
        /\ requests' = Free(i)
        /\ retrying' = retrying \ {r.group}
        /\ \/ /\ r.live /\ r.asks \in Lookups
              /\ \E partial \in BOOLEAN : Show(r, partial)
              /\ arrived' = TRUE
           \/ UNCHANGED <<encounter, arrived>>
        /\ UNCHANGED <<box, loading, enriching, submitted>>

(* The timer of createDeskTranslationArrivalController.                    *)
ArrivalTimer ==
    /\ arrived
    /\ arrived' = FALSE
    /\ UNCHANGED <<box, encounter, loading, enriching, retrying, requests, submitted>>

-----------------------------------------------------------------------------
Answer(i) == AnswerFirst(i) \/ AnswerEnrich(i) \/ AnswerPost(i) \/ AnswerRefresh(i)

Next ==
    \/ \E w \in Box : Type(w)
    \/ Submit
    \/ ClearSearch
    \/ SelectLanguage
    \/ GoHome
    \/ Retry
    \/ \E l \in Box, load \in {"yes", "no", "unset"} : Hydrate(l, load)
    \/ \E i \in Slots : AnswerFirst(i) \/ AnswerEnrich(i) \/ AnswerPost(i) \/ AnswerRefresh(i)
    \/ ArrivalTimer

(* The browser ends every fetch, with an answer or with an error.          *)
Spec == Init /\ [][Next]_vars /\ \A i \in Slots : WF_vars(Answer(i))

-----------------------------------------------------------------------------
TypeOK ==
    /\ box \in Box
    /\ encounter \in Encounter \cup {None}
    /\ {loading, enriching, arrived} \subseteq BOOLEAN
    /\ retrying \in SUBSET Lookups
    /\ requests \in [Slots -> Request \cup {None}]
    /\ submitted \in Lookups \cup {None}

(* An encounter on the page was asked for by the search that was last      *)
(* submitted and not cleared since, by its second pass, or by a retry of   *)
(* what it showed, or is about the same lookup: no late answer of an older *)
(* search is put in its place, or on a page that was cleared.              *)
ShownServesSearch ==
    encounter # None /\ ~loading => submitted \in {encounter.search, encounter.for}

(* The notice that translations are being added is up only while the       *)
(* second pass whose answer takes it down is under way.                    *)
EnrichingHasCause ==
    enriching => \E i \in Slots : /\ requests[i] # None
                                  /\ requests[i].kind = "enrich" /\ requests[i].live

(* A retry that was started ends: its button is enabled again, also when   *)
(* the search it belonged to was superseded meanwhile.                     *)
RetryEnds == \A g \in Lookups : g \in retrying ~> g \notin retrying
=============================================================================
