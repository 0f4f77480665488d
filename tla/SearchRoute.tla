----------------------------- MODULE SearchRoute ------------------------------
(***************************************************************************)
(* The web server between the desk and the CLI.  A search spawns an        *)
(* encounter and keeps complete cache-mode answers in a response cache     *)
(* with a time to live; a retry POST queues a `translation-cache clear'    *)
(* and then empties the response cache.  The CLI processes are the runs    *)
(* and clears of TranslationCache: all searches are for one word.          *)
(*                                                                         *)
(* A request that times out is answered at once and its process is sent    *)
(* SIGTERM, which may come too late: the two go on independently.  Mode    *)
(* off, the sample backend and other queued commands are left out; time    *)
(* passes in ticks.                                                        *)
(***************************************************************************)
EXTENDS TranslationCache

CONSTANTS
    Urls,        \* cache-mode search URLs: the word with other parameters
    WebKey,      \* the key web searches translate under
    MaxEntries,  \* capacity of the response cache
    TTL,         \* time to live of its entries
    MaxTime      \* bound on the clock

ASSUME SearchAssumption ==
    /\ WebKey \in Keys /\ Urls # {}
    /\ MaxEntries \in Nat \ {0} /\ TTL \in Nat \ {0} /\ MaxTime \in Nat

VARIABLES
    route,      \* what the handler of each request does
    url,        \* the URL of a cache-mode search
    counts,     \* the status a CLI run counted before it projected
    cached,     \* the response cache: the entry of each URL, or NoEntry
    used,       \* its order by use: the URLs used before each
    queue,      \* retry POSTs in cliQueue, the first of them running
    now,        \* the clock
    born,       \* history: when the answer of a run was made
    gone,       \* history: texts a clear deleted
    rejected,   \* history: texts deleted by retries that have succeeded
    overlapped, \* history: a retry ended while the search ran
    served      \* history: the last response from the cache

web     == <<route, url, counts, cached, used, queue, now>>
history == <<born, gone, rejected, overlapped, served>>
all     == <<vars, web, history>>

Entry   == [text : Runs \cup {Nobody}, by : Runs, expires : Nat]
NoEntry == [text |-> Nobody, by |-> Nobody, expires |-> 0]
Kept    == {u \in Urls : cached[u] # NoEntry}

RouteInit ==
    /\ Init
    /\ route = [p \in Runs \cup Clears |-> "idle"]
    /\ url = [r \in Runs |-> CHOOSE u \in Urls : TRUE]
    /\ counts = [r \in Runs |-> "none"]
    /\ cached = [u \in Urls |-> NoEntry] /\ used = [u \in Urls |-> {}]
    /\ queue = <<>>
    /\ now = 0
    /\ born = [r \in Runs |-> 0]
    /\ gone = [c \in Clears |-> {}]
    /\ rejected = {}
    /\ overlapped = [r \in Runs |-> FALSE]
    /\ served = [text |-> Nobody, age |-> 0]

Reply(p, state) == route' = [route EXCEPT ![p] = state]

-----------------------------------------------------------------------------
(* TimedResponseCache.                                                     *)

Live(u) == u \in Kept /\ now < cached[u].expires

(* get: a hit makes the entry the most recent; it does not renew it.       *)
M_Touch(u) == /\ used' = Renew(used, Kept, u)
              /\ cached' = [cached EXCEPT ![u].expires = now + TTL]
Touch(u)   == used' = Renew(used, Kept, u) /\ UNCHANGED cached

(* set: the least recently used entries make room.                         *)
M_Remember(r, text) ==
    /\ cached' = [cached EXCEPT ![url[r]] =
          [text |-> text, by |-> r, expires |-> now + TTL]]
    /\ used' = Renew(used, Kept, url[r])
Remember(r, text) ==
    LET kept  == Kept \cup {url[r]}
        order == Renew(used, Kept, url[r])
        over  == {u \in kept : After(order, kept, u) >= MaxEntries}
        new   == [text |-> text, by |-> r, expires |-> now + TTL]
    IN  /\ cached' = [u \in Urls |-> IF u \in over THEN NoEntry
                                     ELSE IF u = url[r] THEN new ELSE cached[u]]
        /\ used' = Without(order, over)

(* clear.                                                                  *)
Forget(urls) ==
    /\ cached' = [u \in Urls |-> IF u \in urls THEN NoEntry ELSE cached[u]]
    /\ used' = Without(used, urls)

-----------------------------------------------------------------------------
(* GET /api/search.                                                        *)

Hit(u) ==
    /\ Live(u)
    /\ Touch(u)
    /\ served' = [text |-> cached[u].text, age |-> now - born[cached[u].by]]
    /\ UNCHANGED <<vars, route, url, counts, queue, now, born, gone, rejected, overlapped>>

(* Looking an expired entry up removes it.                                 *)
Search(r, u, m) ==
    /\ route[r] = "idle"
    /\ m = "cache" => ~Live(u)
    /\ Start(r, m, WebKey)
    /\ IF m = "cache" THEN url' = [url EXCEPT ![r] = u] /\ Forget({u})
       ELSE UNCHANGED <<url, cached, used>>
    /\ Reply(r, "cli")
    /\ UNCHANGED <<counts, queue, now, history>>

(* The counts in the answer are read before its translation.               *)
CountAfter(r) ==
    /\ pc[r] = "project" /\ counts[r] = "none"
    /\ \E seen \in Get(key[r]) : counts' = [counts EXCEPT ![r] = seen.status]
    /\ UNCHANGED <<vars, route, url, cached, used, queue, now, history>>

Encounter(r) ==
    /\ RunStep(r)
    /\ pc[r] = "project" => counts[r] # "none"
    /\ UNCHANGED <<web, history>>

(* canCacheSearchResponse: cache mode, with nothing missing or failed.     *)
Answer(r) ==
    /\ route[r] = "cli" /\ pc[r] = "done"
    /\ IF mode[r] = "cache" /\ counts[r] = "ok"
       THEN Remember(r, shown[r]) ELSE UNCHANGED <<cached, used>>
    /\ born' = [born EXCEPT ![r] = now]
    /\ Reply(r, "answered")
    /\ UNCHANGED <<vars, url, counts, queue, now, gone, rejected, overlapped, served>>

(* An encounter that blames the translation cache is repeated without it.  *)
Fail(r) ==
    /\ route[r] = "cli" /\ pc[r] = "failed"
    /\ \E next \in {"fallback", "answered"} : Reply(r, next)
    /\ UNCHANGED <<vars, url, counts, cached, used, queue, now, history>>

(* Its answer counts no translations, so cache mode keeps it.              *)
Fallback(r) ==
    /\ route[r] = "fallback"
    /\ IF mode[r] = "cache" THEN Remember(r, Nobody) ELSE UNCHANGED <<cached, used>>
    /\ born' = [born EXCEPT ![r] = now]
    /\ Reply(r, "answered")
    /\ UNCHANGED <<vars, url, counts, queue, now, gone, rejected, overlapped, served>>

M_SearchTimeout(r) ==
    /\ route[r] = "fallback"
    /\ Reply(r, "answered")
    /\ UNCHANGED <<vars, url, counts, cached, used, queue, now, history>>
SearchTimeout(r) ==
    /\ route[r] \in {"cli", "fallback"}
    /\ Reply(r, "answered")
    /\ UNCHANGED <<vars, url, counts, cached, used, queue, now, history>>

-----------------------------------------------------------------------------
(* POST /api/translation-cache.                                            *)

Post(c) ==
    /\ route[c] = "idle"
    /\ queue' = Append(queue, c)
    /\ Reply(c, "waiting")
    /\ UNCHANGED <<vars, url, counts, cached, used, now, history>>

RunClear(c) ==
    /\ route[c] = "waiting" /\ Head(queue) = c
    /\ \E q \in Requests : Ask(c, q)
    /\ Reply(c, "cli")
    /\ UNCHANGED <<url, counts, cached, used, queue, now, history>>

ClearCli(c) ==
    /\ ClearStep(c)
    /\ gone' = [gone EXCEPT ![c] = @ \cup
                  ({rows[k].text : k \in Keys} \ {rows'[k].text : k \in Keys})]
    /\ UNCHANGED <<web, born, rejected, overlapped, served>>

(* The command returned a payload, be it a limit or an error; the response *)
(* cache is emptied.                                                       *)
M_EndClear(c) ==
    /\ route[c] = "cli" /\ pc[c] \in {"done", "limit", "unavailable"}
    /\ UNCHANGED <<cached, used>>
    /\ queue' = Tail(queue)
    /\ Reply(c, "answered")
    /\ rejected' = rejected \cup gone[c]
    /\ overlapped' = [r \in Runs |-> overlapped[r] \/ route[r] \in {"cli", "fallback"}]
    /\ UNCHANGED <<vars, url, counts, now, born, gone, served>>
EndClear(c) ==
    /\ route[c] = "cli" /\ pc[c] \in {"done", "limit", "unavailable"}
    /\ Forget(Urls)
    /\ queue' = Tail(queue)
    /\ Reply(c, "answered")
    /\ rejected' = rejected \cup gone[c]
    /\ overlapped' = [r \in Runs |-> overlapped[r] \/ route[r] \in {"cli", "fallback"}]
    /\ UNCHANGED <<vars, url, counts, now, born, gone, served>>

(* The command failed or timed out: the error skips the response cache,    *)
(* and the queue moves on.                                                 *)
FailClear(c) ==
    /\ route[c] = "cli"
    /\ queue' = Tail(queue)
    /\ Reply(c, "answered")
    /\ UNCHANGED <<vars, url, counts, cached, used, now, history>>

-----------------------------------------------------------------------------
(* A CLI process fails or is killed.                                       *)
Die(p) == Stop(p) /\ UNCHANGED <<web, history>>

Tick ==
    /\ now < MaxTime
    /\ now' = now + 1
    /\ UNCHANGED <<vars, route, url, counts, cached, used, queue, history>>

Handle(p) ==
    \/ p \in Runs /\ (Answer(p) \/ Fail(p) \/ Fallback(p) \/ SearchTimeout(p))
    \/ p \in Clears /\ (RunClear(p) \/ EndClear(p) \/ FailClear(p))

RouteNext ==
    \/ \E u \in Urls : Hit(u)
    \/ \E r \in Runs : \/ \E u \in Urls, m \in {"cache", "auto"} : Search(r, u, m)
                       \/ CountAfter(r) \/ Encounter(r)
    \/ \E c \in Clears : Post(c) \/ ClearCli(c)
    \/ \E p \in Runs \cup Clears : Handle(p) \/ Die(p)
    \/ Tick

(* The server handles what has arrived and its timers fire; nothing is     *)
(* asked of the CLI processes, which may hang.                             *)
RouteSpec ==
    RouteInit /\ [][RouteNext]_all /\ \A p \in Runs \cup Clears : WF_all(Handle(p))

-----------------------------------------------------------------------------
RouteTypeOK ==
    /\ TypeOK
    /\ route \in [Runs \cup Clears -> {"idle", "waiting", "cli", "fallback", "answered"}]
    /\ url \in [Runs -> Urls]
    /\ counts \in [Runs -> Statuses \cup {"missing", "none"}]
    /\ cached \in [Urls -> Entry \cup {NoEntry}] /\ Cardinality(Kept) <= MaxEntries
    /\ used \in [Urls -> SUBSET Urls] /\ Orders(used, Kept)
    /\ queue \in Seq(Clears)
    /\ now \in 0..MaxTime
    /\ born \in [Runs -> Nat]
    /\ gone \in [Clears -> SUBSET Runs]
    /\ rejected \subseteq Runs
    /\ overlapped \in [Runs -> BOOLEAN]
    /\ served \in [text : Runs \cup {Nobody}, age : Nat]

(* Being asked for again does not keep an answer alive: none is served     *)
(* from the cache when it is as old as the time to live.                   *)
ServedWithinTTL == served.age < TTL

(* Only a search that was running when a retry ended can bring a rejected  *)
(* text back into the response cache; every other answer kept was made     *)
(* without it.                                                             *)
OnlyOverlapRevives ==
    \A u \in Kept : cached[u].text \in rejected => overlapped[cached[u].by]

(* Each request is answered in the end, whatever CLI processes hang.  (An  *)
(* answered one stays so: from some time on, all are that were ever made.) *)
EveryRequestAnswered ==
    []<>(\A p \in Runs \cup Clears : route[p] \in {"idle", "answered"})

(* BACKEND.md says of the retry API: "A successful retry clears the        *)
(* in-process search response cache so the next encounter can show the     *)
(* refreshed translation layer."                                           *)
RetryRefreshes ==
    [][\A u \in Urls : Hit(u) => served'.text \notin rejected]_all
=============================================================================
