--------------------------- MODULE TranslationCache ---------------------------
(***************************************************************************)
(* Translations of one source text in entry_translations, the table that   *)
(* encounters, translation-warm and `translation-cache clear' share across *)
(* processes.                                                              *)
(*                                                                         *)
(* A key is what separates the rows of one text: the model, the prompt     *)
(* (its hint included) and the headword.  Every query also asks for the    *)
(* source lexicon, entry, occurrence, text hash and languages, which these *)
(* rows share.  A run translates one gloss; the text a model returned is   *)
(* named after the run that asked for it.                                  *)
(*                                                                         *)
(* Reads take no lock and treat a busy file as a miss; a write holds the   *)
(* file lock, so it is one step here unless it reads first.  The counts    *)
(* that are only reported are left out.                                    *)
(***************************************************************************)
EXTENDS Sequences, Recency

CONSTANTS
    Runs,        \* processes that look translations up
    Clears,      \* processes that clear rows
    Nobody,      \* no process
    Models, Prompts, Heads,
    Keys,        \* keys in use
    NoKey,       \* no translation_id was given
    Requests,    \* arguments a clear may be given
    MaxRetries   \* --max-retries

Statuses == {"ok", "error", "empty"}
Row   == [status : Statuses, text : Runs \cup {Nobody}]
NoRow == [status |-> "missing", text |-> Nobody]

(* fields: what is given of translation id, full source identity, headword *)
(* and none else;  only: the statuses cleared;  reason: a --retry-reason   *)
(* is given;  limited: so is --max-retries.                                *)
Request == [id : Keys, fields : SUBSET {"id", "source", "head"},
            only : SUBSET Statuses, reason : BOOLEAN, limited : BOOLEAN]

ASSUME TranslationAssumption ==
    /\ Nobody \notin Runs \cup Clears /\ Runs \cap Clears = {} /\ IsFiniteSet(Clears)
    /\ Keys \subseteq [model : Models, prompt : Prompts, head : Heads]
    /\ NoKey \notin Keys
    /\ Requests \subseteq Request /\ Requests # {}
    /\ MaxRetries \in Nat

VARIABLES
    rows,        \* the table: the row of each key, or NoRow
    before,      \* its order by update: the keys updated before each
    rejections,  \* translation id of each recorded rejection
    lock,        \* holder of the file lock between two steps
    pc,          \* what each run and each clear does
    mode,        \* cache, auto or warm
    key,         \* the key of the gloss a run translates
    shown,       \* the text a run shows, by the run that asked for it
    request,     \* arguments of a clear
    deleted      \* a clear deleted rows

table  == <<rows, before, rejections>>
config == <<mode, key, request>>
vars   == <<table, lock, pc, config, shown, deleted>>

Stored == {k \in Keys : rows[k] # NoRow}

-----------------------------------------------------------------------------
(* A row with a translation, however stored, before one without: the exact *)
(* row, then any of the same prompt, then any of the same model, then the  *)
(* exact row whatever its status.                                          *)
M_Rank(k, j) ==
    IF j = k THEN 4
    ELSE IF rows[j].status = "ok" /\ j.prompt = k.prompt THEN 3
    ELSE IF rows[j].status = "ok" /\ j.model = k.model THEN 2
    ELSE 0
M_RankPrompt(k, j) ==
    IF rows[j].status = "ok" /\ j.prompt = k.prompt THEN 3
    ELSE IF rows[j].status = "ok" /\ j.model = k.model THEN 2
    ELSE IF j = k THEN 1 ELSE 0
Rank(k, j) ==
    IF rows[j].status = "ok" /\ j = k THEN 4
    ELSE IF rows[j].status = "ok" /\ j.prompt = k.prompt THEN 3
    ELSE IF rows[j].status = "ok" /\ j.model = k.model THEN 2
    ELSE IF j = k THEN 1 ELSE 0

(* The key of the row a lookup of k returns: the best, of equals the       *)
(* latest.                                                                 *)
Best(k) ==
    {i \in Stored :
        /\ Rank(k, i) > 0
        /\ \A j \in Stored \ {i} : \/ Rank(k, j) < Rank(k, i)
                                   \/ Rank(k, j) = Rank(k, i) /\ j \in before[i]}

(* get: the row, or a miss when there is none or the file was busy.        *)
Get(k) == {NoRow} \cup {rows[i] : i \in Best(k)}

Usable(seen) == seen.status = "ok"

Init ==
    /\ rows = [k \in Keys |-> NoRow] /\ before = [k \in Keys |-> {}]
    /\ rejections = <<>>
    /\ lock = Nobody
    /\ pc = [p \in Runs \cup Clears |-> "idle"]
    /\ mode = [r \in Runs |-> "cache"]
    /\ key = [r \in Runs |-> CHOOSE k \in Keys : TRUE]
    /\ shown = [r \in Runs |-> Nobody]
    /\ request = [c \in Clears |-> CHOOSE q \in Requests : TRUE]
    /\ deleted = [c \in Clears |-> FALSE]

Goto(p, where) == pc' = [pc EXCEPT ![p] = where]

-----------------------------------------------------------------------------
(* Lookups.  Mode cache reads, auto also translates what is missing, and   *)
(* translation-warm does so without showing anything, unless its count     *)
(* says that nothing is missing.                                           *)

Start(r, m, k) ==
    /\ pc[r] = "idle"
    /\ mode' = [mode EXCEPT ![r] = m]
    /\ key' = [key EXCEPT ![r] = k]
    /\ Goto(r, CASE m = "cache" -> "project" [] m = "auto" -> "look" [] OTHER -> "count")
    /\ UNCHANGED <<table, lock, shown, request, deleted>>

Count(r) ==
    /\ pc[r] = "count"
    /\ \E seen \in Get(key[r]) : Goto(r, IF Usable(seen) THEN "done" ELSE "look")
    /\ UNCHANGED <<table, lock, config, shown, deleted>>

Shows(r) == mode[r] # "warm"

Look(r) ==
    /\ pc[r] = "look"
    /\ \E seen \in Get(key[r]) :
          Goto(r, IF ~Usable(seen) THEN "translate"
                  ELSE IF Shows(r) THEN "project" ELSE "done")
    /\ UNCHANGED <<table, lock, config, shown, deleted>>

(* upsert: the key's row is replaced and becomes the latest.               *)
Put(k, status, text) ==
    /\ rows' = [rows EXCEPT ![k] = [status |-> status, text |-> text]]
    /\ before' = Renew(before, Stored, k)

(* The model answers, with no connection held meanwhile, and the answer is *)
(* stored, a failed one as well; translation-warm then raises.             *)
Translate(r) ==
    /\ pc[r] = "translate" /\ lock = Nobody
    /\ \E status \in Statuses :
          /\ Put(key[r], status, IF status = "ok" THEN r ELSE Nobody)
          /\ Goto(r, IF Shows(r) THEN "project"
                     ELSE IF status = "error" THEN "failed" ELSE "done")
    /\ UNCHANGED <<rejections, lock, config, shown, deleted>>

Project(r) ==
    /\ pc[r] = "project"
    /\ \E seen \in Get(key[r]) : shown' = [shown EXCEPT ![r] = seen.text]
    /\ Goto(r, "done")
    /\ UNCHANGED <<table, lock, config, deleted>>

-----------------------------------------------------------------------------
(* Clearing.                                                               *)

Matching(q) ==
    {k \in Stored : /\ "id" \in q.fields => k = q.id
                    /\ "head" \in q.fields => k.head = q.id.head
                    /\ rows[k].status \in q.only}

(* _translation_retry_generation: the rejections of the source text, or of *)
(* the translation id when the source was not given in full.               *)
Generation(q) ==
    IF "source" \in q.fields THEN Len(rejections)
    ELSE IF "id" \in q.fields
         THEN Cardinality({i \in DOMAIN rejections : rejections[i] = q.id})
         ELSE 0

(* The status before the clear: a busy file ends the command.              *)
Ask(c, q) ==
    /\ pc[c] = "idle"
    /\ request' = [request EXCEPT ![c] = q]
    /\ \E next \in {"open", "unavailable"} : Goto(c, next)
    /\ UNCHANGED <<table, lock, mode, key, shown, deleted>>

M_BeginClear(c) ==
    /\ pc[c] = "open"
    /\ IF request[c].limited /\ Generation(request[c]) >= MaxRetries
       THEN Goto(c, "limit") /\ UNCHANGED lock
       ELSE Goto(c, "delete") /\ UNCHANGED lock
    /\ UNCHANGED <<table, config, shown, deleted>>
BeginClear(c) ==
    /\ pc[c] = "open" /\ lock = Nobody
    /\ IF request[c].limited /\ Generation(request[c]) >= MaxRetries
       THEN Goto(c, "limit") /\ UNCHANGED lock
       ELSE Goto(c, "delete") /\ lock' = c
    /\ UNCHANGED <<table, config, shown, deleted>>

(* One transaction: the matching rows go, and a rejection is recorded if   *)
(* there were any and the source was given.                                *)
M_CommitClear(c) ==
    /\ pc[c] = "delete"
    /\ LET q    == request[c]
           gone == Matching(q)
       IN  /\ rows' = [k \in Keys |-> IF k \in gone THEN NoRow ELSE rows[k]]
           /\ before' = Without(before, gone)
           /\ deleted' = [deleted EXCEPT ![c] = gone # {}]
           /\ rejections' = IF q.reason /\ "source" \in q.fields
                            THEN Append(rejections, IF "id" \in q.fields THEN q.id ELSE NoKey)
                            ELSE rejections
    /\ lock' = Nobody
    /\ Goto(c, "done")
    /\ UNCHANGED <<config, shown>>
CommitClear(c) ==
    /\ pc[c] = "delete"
    /\ LET q    == request[c]
           gone == Matching(q)
       IN  /\ rows' = [k \in Keys |-> IF k \in gone THEN NoRow ELSE rows[k]]
           /\ before' = Without(before, gone)
           /\ deleted' = [deleted EXCEPT ![c] = gone # {}]
           /\ rejections' = IF gone # {} /\ q.reason /\ "source" \in q.fields
                            THEN Append(rejections, IF "id" \in q.fields THEN q.id ELSE NoKey)
                            ELSE rejections
    /\ lock' = Nobody
    /\ Goto(c, "done")
    /\ UNCHANGED <<config, shown>>

(* A process raises or is killed; an open transaction is rolled back.      *)
Stop(p) ==
    /\ pc[p] \notin {"idle", "done", "limit", "unavailable", "failed"}
    /\ Goto(p, "failed")
    /\ lock' = IF lock = p THEN Nobody ELSE lock
    /\ UNCHANGED <<table, config, shown, deleted>>

-----------------------------------------------------------------------------
RunStep(r) ==
    \/ Count(r) \/ Look(r) \/ Translate(r) \/ Project(r)
ClearStep(c) == BeginClear(c) \/ CommitClear(c)

Next ==
    \/ \E r \in Runs : \/ \E m \in {"cache", "auto", "warm"}, k \in Keys : Start(r, m, k)
                       \/ RunStep(r)
    \/ \E c \in Clears : (\E q \in Requests : Ask(c, q)) \/ ClearStep(c)
    \/ \E p \in Runs \cup Clears : Stop(p)

Spec == Init /\ [][Next]_vars

-----------------------------------------------------------------------------
RunStates   == {"idle", "count", "look", "translate", "project", "done", "failed"}
ClearStates == {"idle", "open", "delete", "done", "limit", "unavailable", "failed"}

TypeOK ==
    /\ rows \in [Keys -> Row \cup {NoRow}]
    /\ before \in [Keys -> SUBSET Keys] /\ Orders(before, Stored)
    /\ rejections \in Seq(Keys \cup {NoKey})
    /\ lock \in Clears \cup {Nobody}
    /\ pc \in [Runs \cup Clears -> RunStates \cup ClearStates]
    /\ mode \in [Runs -> {"cache", "auto", "warm"}]
    /\ key \in [Runs -> Keys]
    /\ shown \in [Runs -> Runs \cup {Nobody}]
    /\ request \in [Clears -> Requests]
    /\ deleted \in [Clears -> BOOLEAN]

(* Failed and empty answers never hide a translation: if any row of the    *)
(* same prompt or the same model has one, a lookup that can read the table *)
(* finds one, whichever runs stored, failed and cleared in between.        *)
ErrorsHideNothing ==
    \A k \in Keys :
        (\E i \in Stored : /\ rows[i].status = "ok"
                           /\ i.prompt = k.prompt \/ i.model = k.model)
        => \E i \in Best(k) : rows[i].status = "ok"

(* A run that has translated shows its own text as long as the table has   *)
(* it: the rows of other models and prompts that the same lookup may fall  *)
(* back on, and that other runs store between its write and its reading    *)
(* back, never come first, however late they are.                          *)
OwnTextShown ==
    \A r \in Runs : rows[key[r]].text = r => shown[r] \in {r, Nobody}

(* Every rejection on record took rows with it, and every rejection that   *)
(* took rows is on record, even if its process died before it reported.    *)
Rejected(c) == deleted[c] /\ request[c].reason /\ "source" \in request[c].fields
RejectionsAccounted == Len(rejections) = Cardinality({c \in Clears : Rejected(c)})

(* Clears that name the source text and give --max-retries record no more  *)
(* rejections of it than that, however many run at once and with whichever *)
(* unlimited ones: each counts the rejections and records its own under    *)
(* one lock.  (A clear by translation id alone is refused at the limit but *)
(* records nothing.)                                                       *)
RejectionsCapped ==
    Cardinality({c \in Clears : Rejected(c) /\ request[c].limited}) <= MaxRetries
=============================================================================
