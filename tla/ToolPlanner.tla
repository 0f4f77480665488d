----------------------------- MODULE ToolPlanner ------------------------------
(***************************************************************************)
(* The plans ToolPlanner.build makes (src/langnet/planner) and the tool    *)
(* filter of a lookup cuts down, in the form StagedExecutor takes them.    *)
(*                                                                         *)
(* A plan is made of pipelines: a fetch, its extraction, a derivation and  *)
(* a claim, each reading the call before it.  A call is a pipeline and a   *)
(* step; pipelines are numbered in the order the planner appends them, so  *)
(* that numbers give plan order.  Texts, endpoints and priorities are left *)
(* out: the executor reads none of them.                                   *)
(***************************************************************************)
EXTENDS Naturals, FiniteSets

CONSTANTS
    MaxVariants,   \* spellings of a Sanskrit word tried at most
    Dicts          \* length of cdsl_dicts

ASSUME PlannerAssumption == MaxVariants \in Nat \ {0} /\ Dicts \in Nat

Languages == {"san", "lat", "grc", "unspecified"}

(* The include_ flags of PlannerConfig that are set.                       *)
Options == {"whitakers", "cltk", "spacy", "cdsl", "dico", "gaffiot", "georges_1913",
            "lewis_1890", "bailly", "strongs_greek"}

(* What the shape of a plan depends on: the language, how many spellings   *)
(* are tried, and whether the word as typed differs from its lemma.        *)
Queries == [language : Languages, variants : 0 .. MaxVariants, surface : BOOLEAN]

-----------------------------------------------------------------------------
(* Pipelines, as sets of numbers.  Heritage has one per spelling and CDSL  *)
(* one per dictionary.                                                     *)

Nth(k) == {MaxVariants + Dicts + k}

Heritage == 1 .. MaxVariants
Cdsl == (MaxVariants + 1) .. (MaxVariants + Dicts)
Dico == Nth(1)
Diogenes == Nth(2)
Surface == Nth(3)
Cts == Nth(4)
Bailly == Nth(5)
StrongsGreek == Nth(6)
Spacy == Nth(7)
Whitakers == Nth(8)
Cltk == Nth(9)
Gaffiot == Nth(10)
Lewis1890 == Nth(11)
Georges1913 == Nth(12)

Pipelines == 1 .. (MaxVariants + Dicts + 12)

(* The tools of a pipeline share a family; the typed word is parsed by the *)
(* tools that parse the lemma.                                             *)
Family(n) ==
    CASE n \in Heritage -> "heritage"
      [] n \in Cdsl -> "cdsl"
      [] n \in Dico -> "dico"
      [] n \in Diogenes \cup Surface -> "diogenes"
      [] n \in Cts -> "cts_index"
      [] n \in Bailly -> "bailly"
      [] n \in StrongsGreek -> "strongs_greek"
      [] n \in Spacy -> "spacy"
      [] n \in Whitakers -> "whitakers"
      [] n \in Cltk -> "cltk"
      [] n \in Gaffiot -> "gaffiot"
      [] n \in Lewis1890 -> "lewis_1890"
      [] OTHER -> "georges_1913"

-----------------------------------------------------------------------------
(* Calls.                                                                  *)

ChainSteps == {"fetch", "extract", "derive", "claim"}

(* A Greek parse is derived and claimed twice, the second time for its     *)
(* citations.                                                              *)
Steps == ChainSteps \cup {"derive_citation", "claim_citation"}

CallIds == Pipelines \X Steps

(* The empty source_call_id.                                               *)
NoSource == <<0, "fetch">>

StageOfStep(s) ==
    CASE s = "derive_citation" -> "derive"
      [] s = "claim_citation" -> "claim"
      [] OTHER -> s

Rank(s) ==
    CASE s = "fetch" -> 1
      [] s = "extract" -> 2
      [] s = "derive" -> 3
      [] s = "derive_citation" -> 4
      [] s = "claim" -> 5
      [] OTHER -> 6

SourceStep(s) ==
    CASE s = "extract" -> "fetch"
      [] s \in {"derive", "derive_citation"} -> "extract"
      [] s = "claim" -> "derive"
      [] OTHER -> "derive_citation"

(* The call whose effect c reads.  The CTS fetch names the citations of    *)
(* the parse, although nothing makes it wait for them.                     *)
SourceOf(c) ==
    IF c[2] # "fetch" THEN <<c[1], SourceStep(c[2])>>
    ELSE IF c[1] \in Cts THEN <<MaxVariants + Dicts + 2, "derive_citation">>
    ELSE NoSource

(* The first spelling and the parse of the lemma must be had.              *)
Required == {<<1, "fetch">>} \cup (Diogenes \X {"fetch"})

Chain(numbers) == numbers \X ChainSteps

When(option, options, numbers) == IF option \in options THEN Chain(numbers) ELSE {}

SanskritCalls(query, options) ==
    Chain({n \in Heritage : n <= query.variants})
        \cup When("cdsl", options, Cdsl) \cup When("dico", options, Dico)

LatinCalls(options) ==
    Chain(Diogenes)
        \cup When("whitakers", options, Whitakers) \cup When("cltk", options, Cltk)
        \cup When("gaffiot", options, Gaffiot) \cup When("lewis_1890", options, Lewis1890)
        \cup When("georges_1913", options, Georges1913)

GreekCalls(query, options) ==
    Diogenes \X Steps \cup Chain(Cts)
        \cup (IF query.surface THEN Chain(Surface) ELSE {})
        \cup When("bailly", options, Bailly) \cup When("strongs_greek", options, StrongsGreek)
        \cup When("spacy", options, Spacy) \cup When("cltk", options, Cltk)

PlannedCalls(query, options) ==
    CASE query.language = "san" -> SanskritCalls(query, options)
      [] query.language = "lat" -> LatinCalls(options)
      [] query.language = "grc" -> GreekCalls(query, options)
      [] OTHER -> {}

-----------------------------------------------------------------------------
(* Plans.  Every call but a fetch depends on its source.                   *)

Waits(calls) == {<<SourceOf(c), c>> : c \in {d \in calls : d[2] # "fetch"}}

Build(query, options) ==
    LET calls == PlannedCalls(query, options)
    IN  [calls    |-> calls,
         stage    |-> [c \in CallIds |-> StageOfStep(c[2])],
         source   |-> [c \in CallIds |-> SourceOf(c)],
         optional |-> CallIds \ Required,
         deps     |-> Waits(calls),
         pos      |-> [c \in CallIds |-> 6 * c[1] + Rank(c[2])]]

Tool(c) == <<c[2], Family(c[1])>>

(* The filter word of a lookup is abstracted to the tools it is a prefix   *)
(* of, with the stage or without.                                          *)
FilterPlanTools(p, tools) ==
    LET kept == {c \in p.calls : Tool(c) \in tools}
    IN  [p EXCEPT !.calls = kept, !.deps = {d \in @ : d[1] \in kept /\ d[2] \in kept}]

Tools == {Tool(c) : c \in CallIds}

(* p is a plan a lookup may give the executor.                             *)
Planned(p) ==
    \E query \in Queries, options \in SUBSET Options, tools \in SUBSET Tools :
        p = FilterPlanTools(Build(query, options), tools)

-----------------------------------------------------------------------------
(* What serves the calls: clients for fetches, of which these need nothing *)
(* installed, and the handlers the registry knows: none for citations.      *)

HttpTools == {<<"fetch", "diogenes">>, <<"fetch", "heritage">>}

Registered ==
    {t \in Tools : t[1] \in {"extract", "derive", "claim"} /\ t[2] # "cts_index"}
=============================================================================
