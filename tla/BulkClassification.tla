-------------------------- MODULE BulkClassification --------------------------
(***************************************************************************)
(* Bulk classification of works by a model: the rows are cut into batches, *)
(* each batch is asked for, and a batch that was answered in part is split *)
(* and asked for again.  Answers are kept in files named by the number of  *)
(* the batch, so that a run that was interrupted can be resumed; the       *)
(* classifications are written when all batches are done.                  *)
(*                                                                         *)
(* Works are numbered in the order of the batches, which is the same in    *)
(* every run (_batch_ordered_rows with its seed), so a batch is an         *)
(* interval.  Of a row of an answer it matters which work it names and     *)
(* whether its metadata is complete; the rows of an answer may be any.  A  *)
(* run keeps its answers (raw_response_dir is set) and all runs have the   *)
(* same input, batch size, seed and directory; their concurrency may       *)
(* differ.                                                                 *)
(***************************************************************************)
EXTENDS Naturals, Sequences, FiniteSets, FiniteSetsExt

CONSTANTS
    NumWorks,
    BatchSize,
    Concurrencies,  \* values of --concurrency
    MaxRuns,        \* bound on the runs over the same directory
    Answers,        \* what the model may answer for the works lo to hi
    Stranger,       \* work_id of a row that names no work of the input
    None

ASSUME BulkAssumption ==
    /\ NumWorks \in Nat /\ BatchSize \in Nat \ {0}
    /\ Concurrencies \subseteq Nat
    /\ MaxRuns \in Nat

Works == 1..NumWorks

(* A row of an answer, as _response_rows takes it: any object.             *)
Row == [id : Works \cup {Stranger}, good : BOOLEAN]

ASSUME AnswersAssumption ==
    /\ \A lo, hi \in Works : Answers[lo][hi] \subseteq Seq(Row)
    /\ None \notin Works \cup {Stranger}

(* batch_count before any split.                                           *)
NumBatches == (NumWorks + BatchSize - 1) \div BatchSize
Batches == 1..NumBatches

(* A batch: its works and its number, 0 until it is its turn.              *)
Item == [lo : Works, hi : Works, n : Nat]
Part(item) == item.lo..item.hi

(* An answer, and the batch it was made for.                               *)
Reply == [lo : Works, hi : Works, rows : Seq(Row)]
RepliesTo(item) ==
    {[lo |-> item.lo, hi |-> item.hi, rows |-> rows] : rows \in Answers[item.lo][item.hi]}

VARIABLES
    running,
    workers,  \* batches in flight at most
    stack,    \* what classify_batch still has to do for each batch
    count,    \* batch_count
    broken,   \* a batch of the run has failed
    got,      \* work -> what its classification's row names, or None
    files,    \* number -> the answer kept, of the numbers that have one
    csv,      \* the classifications written last
    runs,     \* history: runs started
    mixed     \* history: of several runs, one had several workers

vars == <<running, workers, stack, count, broken, got, files, csv, runs, mixed>>

Init ==
    /\ running = FALSE
    /\ workers = 1
    /\ stack = [b \in Batches |-> <<>>]
    /\ count = NumBatches
    /\ broken = FALSE
    /\ got = [w \in Works |-> None]
    /\ files = <<>>
    /\ csv = None
    /\ runs = 0
    /\ mixed = FALSE

-----------------------------------------------------------------------------
(* The process of a run ends; its files stay.                              *)
Exit ==
    /\ running' = FALSE /\ broken' = FALSE
    /\ workers' = 1
    /\ stack' = [b \in Batches |-> <<>>]
    /\ count' = NumBatches
    /\ got' = [w \in Works |-> None]
    /\ mixed' = (mixed \/ workers > 1)
    /\ UNCHANGED runs

(* _batches.                                                               *)
FirstItem(b) ==
    [lo |-> (b - 1) * BatchSize + 1, hi |-> Min({b * BatchSize, NumWorks}), n |-> b]

M_Start(c) ==
    /\ ~running /\ runs < MaxRuns
    /\ running' = TRUE
    /\ workers' = IF NumBatches > 1 THEN Max({c, 1}) ELSE 1
    /\ stack' = [b \in Batches |-> <<FirstItem(b)>>]
    /\ count' = 0
    /\ broken' = FALSE
    /\ got' = [w \in Works |-> None]
    /\ runs' = runs + 1
    /\ mixed' = (mixed \/ (workers' > 1 /\ runs > 0))
    /\ UNCHANGED <<files, csv>>
Start(c) ==
    /\ ~running /\ runs < MaxRuns
    /\ running' = TRUE
    /\ workers' = IF NumBatches > 1 THEN Max({c, 1}) ELSE 1
    /\ stack' = [b \in Batches |-> <<FirstItem(b)>>]
    /\ count' = NumBatches
    /\ broken' = FALSE
    /\ got' = [w \in Works |-> None]
    /\ runs' = runs + 1
    /\ mixed' = (mixed \/ (workers' > 1 /\ runs > 0))
    /\ UNCHANGED <<files, csv>>

(* The pool takes the batches in order: those at work are the first that   *)
(* are not done.                                                           *)
AtWork(b) ==
    /\ running /\ stack[b] # <<>>
    /\ Cardinality({c \in Batches : c < b /\ stack[c] # <<>>}) < workers

(* _merge_generated_rows: a work takes the last row that names it.  When   *)
(* none does and there are as many rows as works, it takes the row in its  *)
(* place, whatever that one names.                                         *)
Naming(rows, w) == {k \in DOMAIN rows : rows[k].id = w}
RowsFor(item, rows, w) ==
    IF Naming(rows, w) # {}
    THEN {k \in Naming(rows, w) : \A j \in Naming(rows, w) : j <= k}
    ELSE {k \in DOMAIN rows : Len(rows) = Cardinality(Part(item)) /\ k = w - item.lo + 1}

(* The work each work's complete row is about.                             *)
Merged(item, rows) ==
    [w \in Part(item) |->
        LET complete == {k \in RowsFor(item, rows, w) : rows[k].good}
        IN  IF complete = {} THEN None ELSE rows[CHOOSE k \in complete : TRUE].id]

(* _merged_response_rows: the first half gets the next number at once, the *)
(* second one when the first is done.                                      *)
M_NeedsSplit(item, merged) ==
    /\ item.lo < item.hi
    /\ \A w \in Part(item) : merged[w] = None
NeedsSplit(item, merged) ==
    /\ item.lo < item.hi
    /\ \E w \in Part(item) : merged[w] = None

Halves(item) ==
    LET half == (item.hi - item.lo + 1) \div 2
    IN  <<[lo |-> item.lo, hi |-> item.lo + half - 1, n |-> 0],
          [lo |-> item.lo + half, hi |-> item.hi, n |-> 0]>>

(* next_split_batch_index, for the next item to do.                        *)
M_NumberHead(items) ==
    IF items = <<>> THEN items ELSE [items EXCEPT ![1].n = count]
NumberHead(items) ==
    IF items = <<>> THEN items ELSE [items EXCEPT ![1].n = count + 1]

(* _write_raw_response.                                                    *)
Keep(n, reply) == [m \in DOMAIN files \cup {n} |-> IF m = n THEN reply ELSE files[m]]

(* classify_batch with _response_rows_from_cache_or_model: a kept answer   *)
(* that can be parsed is used, else the model is asked and its answer kept.*)
Classify(b) ==
    /\ AtWork(b)
    /\ LET item == Head(stack[b])
           rest == Tail(stack[b])
       IN  \E reply \in IF item.n \in DOMAIN files THEN {files[item.n]} ELSE RepliesTo(item) :
               LET merged == Merged(item, reply.rows)
                   todo   == IF NeedsSplit(item, merged) THEN Halves(item) \o rest ELSE rest
               IN  /\ files' = Keep(item.n, reply)
                   /\ stack' = [stack EXCEPT ![b] = NumberHead(todo)]
                   /\ count' = IF todo = <<>> THEN count ELSE count + 1
                   /\ got' = IF NeedsSplit(item, merged) THEN got
                             ELSE [w \in Works |->
                                     IF w \in Part(item) THEN merged[w] ELSE got[w]]
    /\ UNCHANGED <<running, workers, broken, csv, runs, mixed>>

(* The model call fails or its answer cannot be parsed; nothing is kept.   *)
(* In sequence the run ends, in a pool the other batches are finished.     *)
Fail(b) ==
    /\ AtWork(b)
    /\ Head(stack[b]).n \notin DOMAIN files
    /\ IF workers = 1
       THEN Exit
       ELSE /\ stack' = [stack EXCEPT ![b] = <<>>]
            /\ broken' = TRUE
            /\ UNCHANGED <<running, workers, count, got, runs, mixed>>
    /\ UNCHANGED <<files, csv>>

Finish ==
    /\ running
    /\ \A b \in Batches : stack[b] = <<>>
    /\ csv' = IF broken THEN csv ELSE got
    /\ Exit
    /\ UNCHANGED files

(* The run is killed.  An answer half written counts as none: it cannot be *)
(* parsed, or, cut inside a character, not be read, and its batch fails.   *)
Interrupt ==
    /\ running
    /\ Exit
    /\ UNCHANGED <<files, csv>>

Next ==
    \/ \E c \in Concurrencies : Start(c)
    \/ \E b \in Batches : Classify(b) \/ Fail(b)
    \/ Finish
    \/ Interrupt

Spec == Init /\ [][Next]_vars

-----------------------------------------------------------------------------
TypeOK ==
    /\ running \in BOOLEAN /\ broken \in BOOLEAN /\ mixed \in BOOLEAN
    /\ workers \in Nat /\ count \in Nat
    /\ stack \in [Batches -> Seq(Item)]
    /\ got \in [Works -> Works \cup {Stranger, None}]
    /\ DOMAIN files \subseteq Nat /\ files \in [DOMAIN files -> Reply]
    /\ csv \in [Works -> Works \cup {Stranger, None}] \cup {None}
    /\ runs \in 0..MaxRuns

(* A batch finds only an answer that was made for it under its number: in  *)
(* one run with any number of workers, and in runs one after the other     *)
(* with one worker each, however often they fail or are killed.            *)
ReusedAnswersFit ==
    running /\ ~mixed =>
        \A b \in Batches : stack[b] # <<>> =>
            LET item == Head(stack[b])
            IN  item.n \in DOMAIN files =>
                    files[item.n].lo = item.lo /\ files[item.n].hi = item.hi

(* A work is left without a classification only when the model was asked   *)
(* for that work alone: an answer in part is never taken for the batch.    *)
UnclassifiedWasAskedAlone ==
    running /\ ~mixed /\ ~broken /\ (\A b \in Batches : stack[b] = <<>>) =>
        \A w \in Works : got[w] = None =>
            \E n \in DOMAIN files : files[n].lo = w /\ files[n].hi = w

(* A classification is written for a work only from a kept answer to a     *)
(* batch that holds the work: from a complete row that names it, or, when  *)
(* none does, from the row in its place if there is one row per work.      *)
(* Halves are merged and numbered apart and the answers of earlier runs    *)
(* are taken again, but no row comes from the answer of another batch.     *)
Supports(reply, w, id) ==
    /\ w \in Part(reply)
    /\ \E k \in RowsFor(reply, reply.rows, w) : reply.rows[k].good /\ reply.rows[k].id = id
WrittenIsSupported ==
    [][csv' # csv /\ ~mixed =>
          \A w \in Works : csv'[w] # None =>
              \E n \in DOMAIN files : Supports(files[n], w, csv'[w])]_vars

(* If the model keeps to its instructions, and every row names a work of   *)
(* its batch, none of them twice, then what is written for a work is about *)
(* that work; the contract recommends several workers and says that the    *)
(* completed responses of an interrupted run are reused.                   *)
WellFormed(reply) ==
    \A j, k \in DOMAIN reply.rows :
        reply.rows[k].id \in Part(reply) /\ (j # k => reply.rows[j].id # reply.rows[k].id)
WrittenIsOwn ==
    csv # None /\ (\A n \in DOMAIN files : WellFormed(files[n])) =>
        \A w \in Works : csv[w] \in {w, None}
=============================================================================
