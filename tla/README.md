# LangNet in TLA+

A verification development for `langnet-cli` (LangNet, "Project Orion"): a
command-line evidence engine for Latin, Greek and Sanskrit (Python, under
`src/src/langnet`) and a SvelteKit web application in front of it (under
`src/webapp`). The modules model the parts whose correctness depends on order,
overlap and failure; TLC checks them on small instances and TLAPS proves the
most important invariants for all of them.

Every definition that stands for code is listed with its lines in
`PROJECT.json` under `map`. Operators named `M_...` are mutated definitions,
kept beside the definitions they mutate; no specification uses them. They show
that a property would notice the bug.

## 1. The system

A lookup normalizes a word, *plans* calls to dictionaries and morphology tools,
*executes* the plan in stages (fetch, extract, derive, claim), reduces the claims
and displays them, optionally with machine translations of French and Latin
glosses. Responses, plans and translations are cached in DuckDB files, which
several processes share. The web server spawns one CLI process per request.

| Component | State | Operations | What is hard | What makes it correct |
|---|---|---|---|---|
| Staged executor (`execution/executor.py`) | effects per call, completed and skipped calls, references | `execute_plan_staged` | fetch pool, passes that release calls as they go, seeds from a cache, skips, raising in the middle | order follows dependencies, claims rest on evidence, skips are final, a run ends and leaves nothing running |
| Response and plan indexes (`storage/`) | one DuckDB file: stored responses, one row of references per plan | `store`, `get`, `upsert`, `index clear` | processes that overlap, die, time out, or lose the file under their feet; tool filters share a row | a row lists what can be read and hides nothing that is stored |
| Translation cache (`translation/`, `encounter_translation.py`, `cli.py`) | `entry_translations`, `entry_translation_rejections` | project, translate missing, warm, clear | reads without locks, compatible keys as fallbacks, failed rows, capped retries that race | errors hide nothing, the cap holds, rejections are counted exactly |
| Web search route (`routes/api/search`, `routes/api/translation-cache`, `lib/server/search-cache.ts`, `langnet-cli.ts`) | response cache, queue of CLI commands | search, retry | processes that outlive their request, answers older than the last retry | answers expire, a queue never blocks, a retry refreshes |
| Rate-limit rollups (`lib/server/rate-limit-rollup*.ts`) | counters in memory, rows in flight, a table | observe, flush, retry, give up | observations during a flush, busy files, several servers, crashes | nothing lost or counted twice |
| Rate-limit decisions, client attestation | fixed windows per principal | `getRateLimitDecision` | window edges | a limit is a limit |
| Tool planner (`planner/core.py`, `planner/local_lexicons.py`, the tool filter of `cli.py`) | none | plan a query, filter the plan | calls of a dozen tools per language, wired by identifiers; a filter cuts chains anywhere | a call waits for the one it reads, nothing waits in a circle, what must be had can be had |
| Tool clients (`clients/`) | none | blocking HTTP and subprocess calls | timeouts | a response or an exception |
| Extract, derive, claim handlers | none | pure functions of text | - | data |
| Normalizer and its index | normalized queries | read-through | stale entries | a stale entry is not served |
| Reduction, display, pedagogy; parsers, morphology, paradigms | none | pure transformations | - | data |
| Reader catalog (`reader/builder.py`, `reader/storage.py`) | one catalog file, a file per book: works, artifacts, witnesses, citations, aliases, classifications | build in full, over what is there, or a slice of source files; sync classifications; resolve a reference | a build is many transactions; builds of different scope follow one another; sources supersede each other; text ids depend on what is built together | what a build reports built can be found and read, the superseded is gone, a slice leaves the rest alone |
| Reader library (`reader/service.py`, `adapters.py`) | none | payloads, search, passages; parsing sources | - | data |
| Reader bulk classification | numbered response files of batches | classify in a pool, resume | batch numbers depend on thread timing | a resumed run reads its own answers |
| Source acquisition, data builds, word index | files built offline | download, build, query | readers during a build | one operator at a time |
| Message-of-the-day pool | a snapshot of candidates | build, restore, sample | exclusion against balance | sampling ends |
| Desk browser controllers (`lib/desk/`) | box, encounter, flags, active search id | search, enrich, retry, clear, select a language, hydrate from the URL | answers that arrive late, after what they belong to was superseded | no late answer is shown; notices and retries end |
| Reader browser controllers | displayed passages, request tokens | select, load | answers that arrive late | no answer of an earlier request is shown |

`PROJECT.json` lists each of them under `components`, with its sources and what
is or is not modelled, and the hazards, each at its line, under `hazards`.

How the components meet: the planner gives the executor a plan; the executor
reads and writes the indexes through objects that open the file anew for every
call; `encounter` runs the executor, then reads (and in mode `auto` writes) the
translation cache; the web server starts `encounter` for a search and
`translation-cache clear` for a retry; the browser controllers call the server.
The reader's catalog is built and its classifications are synced offline; the
classifications come from the files that bulk classification writes.

## 2. The modules

```
PlanDataflow  <--implements--  StagedExecutor  <--plans--  ToolPlanner
                               StagedExecutor_proofs
Recency  <--extends--  TranslationCache  <--extends--  SearchRoute
                       TranslationCache_proofs         SearchRoute_proofs
LookupCache         RateLimitRollup         DeskSearch
LookupCache_proofs  RateLimitRollup_proofs  DeskSearch_proofs
BulkClassification         ReaderCatalog
BulkClassification_proofs  ReaderCatalog_proofs
MC<module>: constants of a module for TLC
```

### StagedExecutor

One run of `execute_plan_staged`. The state is the code's: `pending`, the
completed calls, the skipped ones, an effect per call and stage, and the
references of the executed plan. A call is abstracted to its stage, source,
optionality, position and dependencies, a response or an effect to the call it
belongs to.

| Code | Model |
|---|---|
| `_initialize_cache_and_state`: references of the plan index, those still resolvable are completed | `Seed` |
| scanning the ready fetch calls and submitting them | `StartBatch`, `RejectBatch` |
| the thread pool | `BeginFetch`, `EndFetch` (one step of any thread each) |
| collecting futures in plan order; an exception leaves through the pool's exit, which waits | `Collect`, `CollectFailure`, `Drained`, `FinishBatch` |
| the pass over the pending calls | `StartPass`, one `Visit...` per call and outcome, `EndPass` |
| the upsert after the loop | `Finish` |

`served` (which calls have a client or a handler), whether there is an index and
what was cached are chosen in `Init`; every client and handler may raise.

`PlanDataflow` says what a run promises without batches, passes or threads: calls
settle once, after their dependencies, and made or skipped follows from the
source alone. `ImplementsDataflow` maps the executor to it: a call is made when
it has its effect, skipped when it is recorded so, else open.

### ToolPlanner

`ToolPlanner.build` for the three languages, and the tool filter of a lookup, as
operators from a query and the options to a plan of `StagedExecutor`. Every tool the
planner calls is a pipeline, numbered in the order in which the planner appends
it; a call is a pipeline with a step (`Steps`: fetch, extract, derive, claim, and the
second derivation and claim a Greek parse has for its citations). `Heritage` and
`Cdsl` are the pipelines of which there are several, bounded by `MaxVariants` and
`Dicts`. `PlannedCalls` is which pipelines a query gets, `SourceOf` the
`source_call_id`, `Waits` the dependency edges, `Required` the calls that are not
optional, `FilterPlanTools` the filter, given by the tools its word is a prefix of.

`HttpTools` and `Registered` are the tools with an HTTP client and those with a
handler. Nobody serves the CTS index or the citations of a Greek parse, so these
calls are planned and always skipped; the CTS fetch names the citations as its source
and does not wait for them. Query texts, parameters, priorities, the plan hash and the
choice of the normalized candidate are left out: no step of the executor reads them.

### LookupCache

Processes that run the same plan over one file. Each of `peek` (the read-only
policy's first look), reading the row, resolving each reference, storing each
response and the final upsert opens the file for itself. Reading takes no lock;
DuckDB refuses it while a writer of another process has the file open, and the
code retries for two seconds and raises (`OpenRead`, `ReadRaises`). Writing takes
the lock file, at most thirty seconds (`TakeLock`, `LockTimeout`), then opens
(`OpenWrite`, `WriteBusy`). `Clear` is `index clear`: it unlinks the file with
connections open, which from then on write to a file that nobody can open
(`orphan`). A read may find the file gone after its existence test. The row is a
sequence of references per call, because the executor keeps a dangling reference
in front of the one it fetches anew; the readers' dictionary keeps the last.

DuckDB's exclusion between processes is modelled from how the code handles it and
is the only external behaviour; it is the guard of `OpenRead` and `OpenWrite`.

### TranslationCache

The rows of one source text, by model, prompt and headword. `Rank` is `_get_row`:
an exact row that is usable, then the same prompt, then the same model, then the
exact row whatever it says. Runs are encounters (mode `cache` or `auto`) and
`translation-warm`, each with one gloss: they look, ask the model with no lock
held, store what came, and look again to show it. A read may be a miss because the
file was busy. Of several rows of a rank the one updated last is taken: `Recency` is an
order of the members of a set, kept as the members before each (`before`, `Renew`,
`After`), so the table needs no sequence of its rows. Clears count the rejections and
delete in one locked transaction (`BeginClear`, `CommitClear`); they may be killed in between.

### SearchRoute

EXTENDS `TranslationCache`: its runs and clears are the CLI processes of web
searches and retries. It adds the handlers (`Search`, `Hit`, `Answer`, `Fail`,
`Fallback`, `SearchTimeout`, `Post`, `RunClear`, `EndClear`, `FailClear`), the
queue `cliQueue`, `TimedResponseCache` with expiry and eviction (an entry per URL and
the order of its `Map`, a `Recency`), and a clock. A
request that times out is answered at once while its process may go on; a
process may hang for ever. An `encounter` counts its translations before it
projects them (`CountAfter`), and the count decides whether the answer is kept.
The variables called history record what the properties speak of.

### RateLimitRollup

Servers that share one table: observation, the flush timer, the statement, busy
retries, giving up and a crash in which the statement may have committed. The
nine counters of a rollup are added alike and stand as one, `secondBits` as the
set of its bits.

### DeskSearch

One page of the word desk. The code guards every answer by comparing the
`activeSearchId` it captured; the model keeps with each request the flag `live`,
whether they are still equal, and `Supersede` lowers it wherever the code
increments the id.

| Code | Model |
|---|---|
| `handleSubmit`, `runSearch` up to its first `await` | `Submit`, `StartSearch` |
| the rest of `runSearch`, with `catch` and `finally` | `AnswerFirst` |
| `refreshDeskSearchTranslations` | `AnswerEnrich` |
| `retryDeskGroupTranslation`: post, then ask again | `Retry`, `AnswerPost`, `AnswerRefresh` |
| `clearSearchDesk`, `selectLanguage`, `resetAppState` | `ClearSearch`, `SelectLanguage`, `GoHome` |
| `hydrateRouteStateFromUrl` with the session store | `Hydrate` |

A request reads the box when it is sent, so `asks`, what the server is asked, can
differ from `search`, the search it belongs to. What the buttons allow while a
search is loading follows `DeskHeroSearch.svelte`.

### BulkClassification

`classify_work_csv`, in several runs over one directory of kept answers. Batches
are intervals of the batch order, which a fixed seed makes the same in each run. A
thread of the pool works through its batch depth first (`stack`); a batch with an
incomplete row is split, and a half takes its number when the thread reaches it
(`NumberHead`). `files` is the directory: a function on the numbers that have an answer,
extended by `Keep`. A kept answer is used under its number without a comparison of the
works it was made for. The rows of an answer may be any, as for `_response_rows`: `Answers`
gives for each batch a set of sequences of rows, each naming a work of any batch or a
`Stranger` (a missing, misspelled or foreign id), complete or not. `RowsFor` takes them as
`_merge_generated_rows` does: the last row that names the work, or, when none does and
there are as many rows as works, the row in its place. Model calls fail (`Fail`),
runs are killed (`Interrupt`) and started again with any of `Concurrencies`. Works have
distinct ids that are not blank.

### ReaderCatalog

The catalog's tables as functions of the works, and the build that fills them: one
action per transaction, in the order of `ReaderBuilder.build` (`FlushBook`,
`Register`, `DeleteSuperseded` three times, `Witness`, `RegisterAliases`,
`RegisterRefs`), and `Fail` between any two of them and between the delete and the
insert of the tables that have no transaction. A text is the number of its edition;
`UniqueId` is the suffix that works built together with one text id get, and is
why the id of a work depends on the scope of the build. `Sync` resolves the ids of a
classification file as `_catalog_work_classification_id_map` does; `SyncFails` is
the delete without the insert. `Resolve` is `resolve_work_ref`.

## 3. What is checked

| Run | Properties | Shows |
|---|---|---|
| `staged_executor` | `TypeOK`, `DependenciesFirst`, `EvidenceChain`, `SkipsAreFinal`, `DoneIsComplete`, `LatestReferenceHolds`, `AbortWaitsForPool`, `CycleIsReal`, `Terminates`, `ImplementsDataflow` | every run settles each call once in dependency order, ends, and keeps the promise of `PlanDataflow` |
| `lookup_cache` | `TypeOK`, `LastIsBest`, `ListedAreStored`, `FilteredRunsForgetNothing`, `EveryLookupEnds` | overlapping, filtered, killed and cleared lookups leave a usable row, and none waits for ever |
| `translation_cache` | `TypeOK`, `ErrorsHideNothing`, `OwnTextShown`, `RejectionsCapped`, `RejectionsAccounted` | failures hide no translation and fallbacks replace no own one; limits hold under races |
| `search_route` | `RouteTypeOK`, `ServedWithinTTL`, `OnlyOverlapRevives`, `EveryRequestAnswered` | kept answers expire; a rejected text returns only through a search that overlapped the retry; every request is answered although processes hang |
| `retry_refresh` | `RetryRefreshes` (violated) | such an overlapping search does bring the rejected text back |
| `rate_limit_rollup` | `TypeOK`, `Conserved`, `SecondsConserved`, `FlushEnds` | nothing is lost or counted twice; flushes end |
| `desk_search` | `TypeOK`, `ShownServesSearch`, `EnrichingHasCause`, `RetryEnds` | no late answer takes the place of the last search; notices and retries end |
| `bulk_classification` | `ReusedAnswersFit`, `UnclassifiedWasAskedAlone`, `WrittenIsSupported` | one run, or several with one worker, reuse only fitting answers; who is left out was asked for alone; what is written is in an answer to the work's own batch, whatever rows the model returns |
| `bulk_parallel_resume` | `WrittenIsOwn` (violated) | a resumed run with two workers writes one work's classification for another, although every answer is as it was asked for |
| `reader_catalog` | `TypeOK`, `SupersededAreGone`, `ClassifiedAreListed`, `BuiltFits`, `SliceKeepsOthers` | a successful build is consistent and findable whatever went before, with no legacy text beside a better one of its URN or listed text id; slices keep the rest |
| `reader_sync` | `SyncKeeps` (violated) | a merge sync loses the classification of a work that shares its URN with another |
| `reader_overlap` | `OverlapIsGone` (violated) | a full build keeps a TLG text beside the First1K text that mints its text id |

### Where code and documents differ

1. `BACKEND.md:100-101` says a successful retry lets the next encounter show the
   refreshed translation; a cache-mode search under way during the retry puts its
   old answer into the emptied response cache, where it stays for 15 minutes
   (`retry_refresh`).
2. `READER_WEB_CONTRACT.md:402-409` recommends concurrency for resumable runs; the
   numbers under which answers are reused depend on thread timing
   (`bulk_parallel_resume`).
3. `READER_DATA_BUILD.md:205-207` says equivalent works keep their classifications;
   works that share a URN lose them when they are synced (`reader_sync`).
4. `READER_DATA_BUILD.md:279-281` says a legacy TLG row that overlaps a First1K text by
   text id is removed; a build of both gives each a suffix of its own before the ids are
   compared, and both stay (`reader_overlap`). `SupersededAreGone` says what is
   removed: legacy texts beside one with their URN, or with their text id as listed, as
   slices leave them.

Seen while modelling, true of the models, and not stated by a run:

- `executor.py:669` says the upsert is done "only ... when we have new
  responses"; the test counts seeded responses as well, so a run answered from
  the cache rewrites the row under the write lock (`Finish`).
- `CLI_CONCURRENCY_STABILIZATION.md:28` says a read-only lookup "reads" only;
  when the plan has a row, what is missing is stored and the row is upserted
  (`cli.py:12230-12245`; `Peek`, `StoreResponse`, `Upsert`).
- `_heritage_variants` (`planner/core.py:358-367`) iterates over a set of strings, so
  from the second on the spellings of a word come in an order that changes from
  process to process; the plan hash changes with it and the plan's row is missed.
  `tests/test_planner_core.py:284` says the hash "may not be stable" and names the
  protobuf conversion.
- The planner adds CTS and citation calls to every Greek plan; they have neither
  client nor handler and are recorded as skipped (`WholePlansServed`).
- `TRANSLATION_CACHE_PLAN.md:59-60` says of the cache key "This prevents stale
  translations from being reused when source text, prompt instructions, or model choices
  change." `_get_row` (`translation/cache.py:203-239`) falls back to a row of another
  model under the same prompt and then to one of the same model under any prompt
  (`Rank`), and such a row is shown (`Project`). `tests/test_translation_cache.py:66` asks
  for the first kind of reuse and no test for the second. No property says what a fallback
  may serve; `OwnTextShown` says that it never takes the place of the run's own text.
- `_merge_generated_rows` (`reader/bulk_classification.py:1039-1043`) pairs rows with works
  by their place when no row names the work and the lengths agree, whatever the row
  names. A reply of the right length with a wrong or doubled id gives a work the
  classification of another, in one run of one worker. The instructions to the model
  (`:626-628`) ask for exact ids and no document says what becomes of other replies, so
  this is no finding: `Merged` has it, `WrittenIsSupported` allows it, and
  `WrittenIsOwn` speaks of replies that keep to the instructions (`WellFormed`).
- In the desk, selecting a language while a search loads leaves `loading` set with
  no search that resets it, and the form disabled (`SelectLanguage`).
- `retryGroupTranslation` asks again for what the box holds then, which may be
  another word than the one whose translation was retried (`AnswerPost`);
  `ShownServesSearch` allows it, as the search that is shown asked for it.
- Aliases of a superseded work stay, because they target its text id and
  `delete_reader_works` compares work ids; they dangle until the next full build.
- Two works that mint one text id in separate builds both keep it:
  `_ensure_unique_canonical_text_ids` (`reader/builder.py:1534-1568`) sees the
  current build only. The second replaces the first one's aliases
  (`register_aliases` deletes by target), and the id of either then resolves to the
  text, hence perhaps to the other work. `validation.py:165` reports such duplicates.
  `BuiltFits` and `SliceKeepsOthers` allow for them; with `Resolve(w) = {{w}}` the
  first is violated.
- The id of a work may also be the URN of another: a text of the OGL collections is
  listed under the URN it shares with a TLG work. Built alone and then together in
  slices, an alias of that URN to a text id that is no longer given stays, wins the
  lookup by its language, and the id resolves to nothing. `OwnsId` says of which works
  `BuiltFits` promises that their id leads to them: those whose id is no other work's
  URN, or is their own URN and they come before the others by language, or supersede them.
- A build without `--wipe` over some collection roots replaces all aliases,
  witnesses and citations by its own; those of the other works are gone.

### Bounds, and why they are enough

- `staged_executor`: nine plans over fourteen calls, a pool of two. Four are what
  filters leave of a Greek plan: the parse alone (one chain that derives twice), the
  three fetches, the three extractions without their sources, the CTS calls. Five are
  made by hand: two sources with an extraction each and a third fetch; a plan that
  fetches after an extraction and lists a call before its source, with a required and
  an optional tail; a cyclic one; one with an unsupported stage. Seeds, missing
  handlers, the presence of an index and fetch results range over all values.
  Three fetch calls over a pool of two make one wait. The properties relate at
  most a call, its source and one dependent. Whole plans have about thirty calls:
  TLC only evaluates `WholePlansServed` over them, and the theorems cover their runs.
- `lookup_cache`: two lookups over any file an earlier one may have left (`Left`:
  responses listed or stored only), two calls, two clears. The earlier lookup is the
  third party that a reference needs to dangle behind another: listed by it,
  cleared, fetched again by the first run and read by the second. `MaxClears` bounds
  `Clear`.
- `translation_cache`: two runs, two clears, three keys: one shares the model,
  one the prompt, with the first; the limit is one, so that two clears can break
  it. Requests are what the desk sends, with and without the identity, and a
  maintenance clear of failed rows. Each process acts once, which bounds the run.
- `search_route`, `retry_refresh`: two searches, one retry, two URLs or one, a
  response cache of one entry (the next one evicts), a time to live of two ticks
  and a clock bounded by `MaxTime`. With one retry the queue has no second; that it moves
  on for any number of retries is proved (`QueueCorrect`).
- `rate_limit_rollup`: two servers, two keys, two requests a key (`MaxRequests`),
  two busy retries: one request is in flight or in the table while the other is
  in memory, in the same or the other server.

- `desk_search`: two lookups and the blank box, two requests under way
  (`MaxInFlight`): one belongs to what is shown, the other to what superseded it.
  With a third, no pair of an old and a new request arises that two do not make.
- `bulk_classification`, `bulk_parallel_resume`: four works in batches of two, so
  that two batches split and compete for two pairs of numbers; one or two workers;
  two runs (`MaxRuns`), one to leave answers and one to reuse them. `MCAnswers` has nine
  answers to a pair and four to a single work: all rows as asked, either work alone,
  none, the two swapped, incomplete rows, one work twice, a stranger in a work's place, and
  rows about a work of another batch. `bulk_parallel_resume` has two workers in both runs.
- `reader_catalog`: six works are one of each relation (same URN, same text id in
  one build or in two, stem twin, same book); five book files, each as a slice, two partial commands and
  a full one with and without `--wipe`; three builds (`MaxBuilds`), so that a failed
  build and a slice can precede the one judged; one edit of a text (`MaxEdits`).
  `reader_sync` has the two works and two builds its counterexample needs,
  `reader_overlap` two works and one build.

`CHECK_DEADLOCK FALSE` stands in every configuration but that of `desk_search`: runs
end, clears, builds and clocks reach their bounds, and the system is then at rest.

Symmetry is used in `translation_cache`, over runs and clears, which no definition
orders. No run with a liveness property uses it.

### Fairness

- `StagedExecutor`: `WF(MainStep)`, as the thread runs unless it waits for a
  future, and `WF(PoolStep(c))` for each call, as a client returns or raises (HTTP
  calls have timeouts).
- `LookupCache`: `WF(Step(r))` for each process. Every wait has a deadline in the
  code (two seconds to connect, thirty for the lock), so a waiting process always
  has a step. Starting, killing and clearing are not fair.
- `SearchRoute`: `WF(Handle(p))` for each request: the server's handlers run and
  its timers fire. Nothing is assumed of CLI processes.
- `DeskSearch`: `WF(Answer(i))` for each request: the browser ends every fetch, with
  an answer or an error. Nothing is assumed of the user.
- `RateLimitRollup`: `WF(FireTimer(s))` and `WF(Flush(s))`: timers fire, and an
  attempt ends in one way or another.

## 4. What is proved

`StagedExecutor_proofs`: for every set of calls, every set of plans and every pool
size that meet `PlansAssumption`, `Spec` keeps `TypeOK`, `DependenciesFirst`,
`EvidenceChain`, `SkipsAreFinal`, `LatestReferenceHolds`, `CycleIsReal`,
`DoneIsComplete` and `AbortWaitsForPool`. The assumption says what the planner
guarantees (`PlanShape` spells it out): calls have distinct positions, dependencies join calls of the plan,
and every call but a fetch depends on its source if that is in the plan.

None of these is inductive alone. `SkipsAreFinal`, for one, needs that a skipped
call's source was settled before it and that settled calls gain no further
effect; that needs each call to leave `pending` with one outcome. The inductive
invariant is `RunInv`: the type invariant and the properties themselves, and

- `PendingOnce`: a pending call has no effect of a later stage, and is completed
  only if it was seeded;
- `OutcomeOnce`: a settled call has an effect or a skip, never both;
- `FetchesInFlight`: what is in the pool is pending, ready, served, without a
  response, and there only while a batch is collected or drained;
- `BlockedPass`: a pass that has made no progress has met only calls that are not
  ready, from which it follows that a reported cycle is one;
- `Raised`: a failure is recorded exactly when the run has failed.

The lemma `StepShape` says once what any step does to the outcomes (effects,
skips and completed calls only grow, by pending calls); most of the
preservation lemmas rest on it rather than on the actions. There is one lemma per conjunct,
`InvStep` joins them, `RunInvariant` is the temporal step, and the named theorems
are corollaries.

The refinement: `DataflowImplemented`, that every run implements `PlanDataflow`, for
plans whose calls read calls of the stage before their own (`StagesFollow`). `InputIsSource` is the heart of it: with `EffectsMatch` (an effect is
of its call's stage), a handler finds what it reads exactly if the source is made in
the promise. `Settles` says when a step settles a set of calls; a batch settles its
skips, and collecting a fetch, running or skipping a call settles that call. A raise
maps to `Fail`, the end to `Finish`, everything else to a stutter.

Planned runs: that the two assumptions on plans are met, and what follows. For
every bound, word, set of options and tool filter (`Planned`), a plan is `WellFormed`
(`PlannedPlansFit`) and its stages follow, so its runs implement the promise
(`PlannedRunsImplement`); with the identifiers of calls being the planner's (`Calls =
CallIds`, `NoCall = NoSource`). `PlannedRunsNeverStick`: no run of a planned plan reports
a cycle, because a call waits only for calls of smaller number, so the least number
pending waits for none (`WaitsForEarlier`, with the library's `WFMin`), while
`CycleIsReal` says each would wait for another. `LookupFailures`: if the HTTP clients
are there (`Equipped`), a run fails only by a raise, because every required call is an
HTTP fetch (`RequiredAreHttp`).

`RateLimitRollup_proofs`: for all servers, keys, seconds and bounds, `TypeOK`,
`InFlightIsKnown`, `SecondsConserved` and `Conserved`. The lemmas `PlusType`, `MergeType`,
`MergeSeconds` and `NoRowsType` say what merging rows does. A step moves a second
from memory to the rows in flight, from there to the table or back, or to what was
lost; `SecondsConserved` with the type invariant is inductive, and so is `Conserved` with
`InFlightIsKnown`, without which a timer could overwrite rows in flight. `Conserved` is
about a sum over the servers (`Held`), a fold of the library. `Total` is that
fold with its recursion spelled out: it exists for every finite set (`SumsExist`), and
`TotalChange`, that it changes by what one member changes by, holds because there is no
least set without it (`LeastSet`, from the library's `WFMin`). Each action then
accounts for one server (`Accounted`).

`LookupCache_proofs`: for any processes, calls and clears, `TypeOK`, `LastIsBest` and
`ListedAreStored`. The second rests on `BestInv`: a reference is made once
(`FetchedOnce`: before its run fetched the response there is none and it is not stored),
so what a run looked for and did not find never appears later (`MissingStays`), and the
list a run holds is best again when its own response goes to an unlinked file and is
lost. The type invariant needs that a connection for writing has a file unless that was
unlinked under it (`LiveHasFile`). For the third, `KeptWhole`: until a clear no
connection is orphaned and all that runs hold is stored. The action property
`FilteredRunsForgetNothing` follows from `BestInv`: an upsert changes the lists of its
own calls only, each of these still holds the reference that the run read
(`ReadIsHeld`), so it has a stored one, and its last is stored if any is
(`UpsertForgetsNothing`).

`TranslationCache_proofs`: for any runs and any finite set of clears, all that the run
checks. `RejectionsAccounted` and `RejectionsCapped` need `Deleting`: a clear
that deletes holds the lock, and was within its limit when it took it, which is still
so when it commits because only the holder of the lock records a rejection. Both
properties count clears; the library's facts about finite sets say what one more does.
For the table, `TableInv`: the order by update is one of exactly the rows stored
(`Orders`, kept by `RenewOrders` and `WithoutOrders`), and a text in a row is that of a run
which asked for the row's own key and is past its translation (`Texts`). From it, what a
lookup finds when the run's own row has its text is that text, since an exact usable row
has the highest rank alone (`OwnTextShown`), however rows were replaced and cleared
between the two looks of a run; and as a non-empty finite set of rows has one of
the highest rank, the last by update (`LastExists`, `HighestFound`), no failed row hides a
translation (`ErrorsHideNothing`).

`SearchRoute_proofs`: for any requests, URLs, capacity, time to live and time,
`RouteTypeOK`, `ServedWithinTTL` and `OnlyOverlapRevives`, and that the queue of
retries moves on (`QueueCorrect`). `CliBehindServer` is the
refinement of `TranslationCache`, step by step (`RouteIsCli`): the processes the server
starts are runs and clears of that module, so its theorems hold behind the server.
`RouteInv` joins `TableInv` with `CacheFits` (never more than `MaxEntries`, with an order of
just what is kept), `Queued` (a retry is in the queue, once, and first when its command
runs, and nothing else is in it),
`Ages` (an entry expires a time to live after its answer was made), `LostTexts` (a
rejected text is in no row, and none who made one has yet to translate) and `Unrevived`
(a search that shows a rejected text overlapped the end of the retry). The last needs
`LostTexts`: after the rows are deleted nobody can read the text anew, so only a
search that had read it before can bring it back.

`DeskSearch_proofs`: for any lookups and number of requests, `TypeOK`,
`ShownServesSearch` and `EnrichingHasCause`. `CurrentIsLast` (whatever is current belongs
to the last search) and `LoadingAsked` (while a search loads the box holds what it asked
for, or nothing is shown) make them inductive; the second is needed for hydration, which
drops `loading` without an answer.

`ReaderCatalog_proofs`: for any works, sources, commands, classification files and
numbers of builds and edits, `TypeOK`, `ClassifiedAreListed`, `SupersededAreGone`,
`SliceKeepsOthers` and `BuiltFits`. `GoneInv` says which kinds of superseded text are
absent after each of the three delete passes (by twin, by URN, by URN or listed text id);
they stay so because a build lists nothing after its first step. `FitInv` says what each step of a build has put in order for the works that
survive it (book files, artifacts, witnesses, aliases), and that every name of an alias
that is not a text id comes from a work of its language (`AliasNames`). What the first
alias of a name leads to then follows for the works that own their id (`OwnIsGenerated`,
`FoundById`). That text ids are neither work ids nor URNs is an assumption (`CatalogAssumption`),
met by their form in the code.

`BulkClassification_proofs`: for any number of works and runs, any size of batches, any
concurrency and any answers of the model, `TypeOK`, `ReusedAnswersFit`,
`UnclassifiedWasAskedAlone` and `WrittenIsSupported`; and `WritesOwn`: a run that is the only
one, or has one worker like all before it, writes for a work what was said of that work,
if every kept answer is `WellFormed`. Without that condition it is false, as pairing by
place shows; with it, `WrittenIsOwn` fails only through several workers and a rerun. In the
first run, numbers are fresh (`Fresh`): whatever the order of the workers, the next
answer of a batch gets a number that has none. Runs with one worker repeat one another:
`Replay` is a set of positions (what is to be done, and the numbers given) that
contains the start and is closed under reading a kept answer, up to one position, the
last, at which the numbers are fresh. Whoever finds an answer goes on in the set
(`ReplayRead`); whoever has to ask is at the last position and extends the set
(`ReplayAsk`). That such a set exists (`InTurn`) is the inductive invariant. `Covered` says
where a work is that has no classification yet, and `TodoCovers` that splitting a batch
loses none.

Only model-checked: liveness (`Terminates`, `EveryLookupEnds`, `EveryRequestAnswered`,
`RetryEnds`, `FlushEnds`), as the prover does not reason about fairness and `ENABLED` here.
`EveryRequestAnswered` is checked with one retry in the queue; `QueueCorrect` is the part
of it that more retries could break. Every invariant and action property of the passing runs, and the refinement, is proved
for all values of the constants that meet the modules' assumptions.

## 5. What is not modelled

Pure functions of text (handlers, parsers, morphology, paradigms, reduction,
display) are data. Their results are abstracted to "an effect or an exception".
Blocking I/O of the clients is abstracted to its outcomes. Of the offline builders
only the reader's builds on what earlier ones left; the others drop a file and write
a new one, run by one operator. The normalization index is read through without a lock; a
busy file and a stale entry are misses, and the result computed then replaces the row
under the lock. No decision is taken on it after a write, and entries do not refer to
each other.
The reader's browser controllers hold one request each behind a token. Within the modelled components: prompt texts, structured
translations and segments; the extraction, derivation and claim indexes, which a
lookup writes but does not read back; search mode `off`, the sample backend and
the other queued commands of the web server; the test hooks of the rollups; in the
desk, filters, layers, paradigms, the word index and the message of the day; in the
reader catalog, curated tables, contained works, author classifications, pruning and
`--limit`; in bulk classification, prompts, field rules and the escalation export.

## 6. Plan

Written so far, in this order: StagedExecutor with PlanDataflow, LookupCache,
TranslationCache, SearchRoute, RateLimitRollup, DeskSearch, BulkClassification,
ReaderCatalog, ToolPlanner, Recency, and the proofs of all of them.

Later modules: rate-limit windows, the message-of-the-day pool, the desk's paradigm
and word-index controllers, author classifications and pruning in the catalog.
