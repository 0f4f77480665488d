---------------------- MODULE BulkClassification_proofs -----------------------
(***************************************************************************)
(* Which answers a run of the bulk classification takes, for any number of *)
(* works, any batch size and any number of runs.  Runs with one worker are *)
(* shown to repeat one another: the positions they go through are those of *)
(* one run, up to the first answer that is not kept yet.                   *)
(***************************************************************************)
EXTENDS BulkClassification, SequenceTheorems, FiniteSetTheorems, TLAPS

(* Cutting the works into batches.                                         *)
LEMMA Division ==
    ASSUME NEW a \in Nat, NEW d \in Nat \ {0}
    PROVE  a \div d \in Nat /\ d * (a \div d) <= a /\ a < d * (a \div d) + d
OBVIOUS

LEMMA Times ==
    ASSUME NEW d \in Nat \ {0}, NEW x \in Nat, NEW y \in Nat, x <= y
    PROVE  d * x \in Nat /\ d * x <= d * y /\ (x < y => d * x + d <= d * y)
OBVIOUS

LEMMA MinOfTwo ==
    ASSUME NEW x \in Nat, NEW y \in Nat
    PROVE  Min({x, y}) = IF x <= y THEN x ELSE y
BY DEF Min

LEMMA MaxOfTwo ==
    ASSUME NEW x \in Nat, NEW y \in Nat
    PROVE  Max({x, y}) = IF x >= y THEN x ELSE y
BY DEF Max

LEMMA CountType == NumBatches \in Nat /\ BatchSize * NumBatches < NumWorks + BatchSize
                   /\ NumWorks <= BatchSize * NumBatches
<1>1. NumWorks + BatchSize - 1 \in Nat /\ NumWorks \in Nat /\ BatchSize \in Nat \ {0}
  BY BulkAssumption
<1>2. NumBatches = (NumWorks + BatchSize - 1) \div BatchSize
  BY DEF NumBatches
<1> DEFINE a == NumWorks + BatchSize - 1
<1>3. /\ NumBatches \in Nat /\ BatchSize * NumBatches <= a
      /\ a < BatchSize * NumBatches + BatchSize
  BY <1>1, <1>2, Division
<1>4. BatchSize * NumBatches \in Nat
  BY <1>1, <1>3
<1> QED
  BY <1>1, <1>3, <1>4

LEMMA FirstItemShape ==
    ASSUME NEW b \in Batches
    PROVE  /\ FirstItem(b) \in Item /\ FirstItem(b).n = b
           /\ FirstItem(b).lo = BatchSize * (b - 1) + 1
           /\ FirstItem(b).hi = IF BatchSize * b <= NumWorks THEN BatchSize * b ELSE NumWorks
<1>1. NumWorks \in Nat /\ BatchSize \in Nat \ {0} /\ NumBatches \in Nat
  BY BulkAssumption, CountType
<1>2. b \in Nat /\ b - 1 \in Nat /\ b <= NumBatches
  BY <1>1 DEF Batches
<1>3. /\ BatchSize * (b - 1) \in Nat /\ BatchSize * b \in Nat /\ BatchSize * NumBatches \in Nat
      /\ BatchSize * (b - 1) + BatchSize <= BatchSize * b
      /\ BatchSize * b <= BatchSize * NumBatches
  BY <1>1, <1>2, Times
<1>4. BatchSize * (b - 1) + 1 \in Works
  BY <1>1, <1>3, CountType DEF Works
<1>5. Min({b * BatchSize, NumWorks}) = IF BatchSize * b <= NumWorks THEN BatchSize * b ELSE NumWorks
  <2>1. b * BatchSize = BatchSize * b
    BY <1>1, <1>2
  <2> QED
    BY <1>1, <1>3, <2>1, MinOfTwo
<1>6. Min({b * BatchSize, NumWorks}) \in Works
  BY <1>1, <1>3, <1>4, <1>5 DEF Works
<1>7. (b - 1) * BatchSize + 1 = BatchSize * (b - 1) + 1
  BY <1>1, <1>2
<1> QED
  BY <1>2, <1>4, <1>5, <1>6, <1>7 DEF FirstItem, Item

(* Every work is in a batch.                                               *)
LEMMA BatchOf ==
    ASSUME NEW w \in Works
    PROVE  \E b \in Batches : w \in Part(FirstItem(b))
<1>1. NumWorks \in Nat /\ BatchSize \in Nat \ {0} /\ NumBatches \in Nat
  BY BulkAssumption, CountType
<1>2. w \in Nat /\ w - 1 \in Nat /\ w <= NumWorks
  BY <1>1 DEF Works
<1> DEFINE q == (w - 1) \div BatchSize
<1>3. q \in Nat /\ BatchSize * q <= w - 1 /\ w - 1 < BatchSize * q + BatchSize
  BY <1>1, <1>2, Division
<1> HIDE DEF q
<1>4. q < NumBatches
  <2> SUFFICES ASSUME NumBatches <= q PROVE FALSE
    BY <1>1, <1>3
  <2>1. BatchSize * NumBatches <= BatchSize * q /\ BatchSize * q \in Nat /\ BatchSize * NumBatches \in Nat
    BY <1>1, <1>3, Times
  <2> QED
    BY <1>1, <1>2, <1>3, <2>1, CountType
<1>5. q + 1 \in Batches /\ (q + 1) - 1 = q
  BY <1>1, <1>3, <1>4 DEF Batches
<1>6. BatchSize * (q + 1) = BatchSize * q + BatchSize /\ BatchSize * q \in Nat
  BY <1>1, <1>3
<1>7. /\ FirstItem(q + 1).lo = BatchSize * q + 1
      /\ FirstItem(q + 1).hi = IF BatchSize * (q + 1) <= NumWorks THEN BatchSize * (q + 1) ELSE NumWorks
  BY <1>5, FirstItemShape
<1> QED
  BY <1>1, <1>2, <1>3, <1>5, <1>6, <1>7 DEF Part

-----------------------------------------------------------------------------
(* Items to do.                                                            *)
LEMMA HalvesShape ==
    ASSUME NEW item \in Item, item.lo < item.hi
    PROVE  /\ Halves(item) \in Seq(Item) /\ Len(Halves(item)) = 2
           /\ Part(item) = Part(Halves(item)[1]) \cup Part(Halves(item)[2])
<1> DEFINE half == (item.hi - item.lo + 1) \div 2
           left  == [lo |-> item.lo, hi |-> item.lo + half - 1, n |-> 0]
           right == [lo |-> item.lo + half, hi |-> item.hi, n |-> 0]
<1>1. item.lo \in Works /\ item.hi \in Works /\ NumWorks \in Nat
  BY BulkAssumption DEF Item
<1>2. half \in Nat /\ 1 <= half /\ item.lo + half <= item.hi
  BY <1>1 DEF Works
<1>3. item.lo + half - 1 \in Works /\ item.lo + half \in Works
  BY <1>1, <1>2 DEF Works
<1>4. Halves(item) = <<left, right>>
  BY DEF Halves
<1>5. left \in Item /\ right \in Item
  BY <1>1, <1>3 DEF Item
<1> HIDE DEF half
<1>6. Part(item) = Part(left) \cup Part(right)
  BY <1>1, <1>2 DEF Part, Works
<1> HIDE DEF left, right
<1> QED
  BY <1>4, <1>5, <1>6

Numbered(items, n) == IF items = <<>> THEN items ELSE [items EXCEPT ![1].n = n]

LEMMA NumberedShape ==
    ASSUME NEW items \in Seq(Item), NEW n \in Nat
    PROVE  /\ Numbered(items, n) \in Seq(Item)
           /\ Numbered(items, n) = <<>> <=> items = <<>>
           /\ Len(Numbered(items, n)) = Len(items)
           /\ \A i \in 1 .. Len(items) : Part(Numbered(items, n)[i]) = Part(items[i])
           /\ items # <<>> => Head(Numbered(items, n)).n = n
<1>1. CASE items = <<>>
  BY <1>1 DEF Numbered
<1>2. CASE items # <<>>
  <2>1. /\ Len(items) \in Nat /\ 1 \in 1 .. Len(items) /\ items[1] \in Item
    BY <1>2
  <2>2. Numbered(items, n) = [items EXCEPT ![1] = [items[1] EXCEPT !.n = n]]
    BY <1>2 DEF Numbered
  <2> DEFINE first == [items[1] EXCEPT !.n = n]
  <2>3. first \in Item /\ first.lo = items[1].lo /\ first.hi = items[1].hi /\ first.n = n
    BY <2>1 DEF Item
  <2> HIDE DEF first
  <2>4. /\ Numbered(items, n) \in Seq(Item) /\ Len(Numbered(items, n)) = Len(items)
        /\ \A i \in 1 .. Len(items) : Numbered(items, n)[i] = IF i = 1 THEN first ELSE items[i]
    BY <2>1, <2>2, <2>3, ExceptSeq DEF first
  <2>5. Numbered(items, n) # <<>> /\ Head(Numbered(items, n)) = first
    BY <2>1, <2>4
  <2> QED
    BY <1>2, <2>1, <2>3, <2>4, <2>5 DEF Part
<1> QED
  BY <1>1, <1>2

Splits(item, reply) == NeedsSplit(item, Merged(item, reply.rows))
Todo(items, reply) ==
    IF Splits(Head(items), reply) THEN Halves(Head(items)) \o Tail(items) ELSE Tail(items)

LEMMA TodoShape ==
    ASSUME NEW items \in Seq(Item), items # <<>>, NEW reply
    PROVE  /\ Todo(items, reply) \in Seq(Item)
           /\ Head(items) \in Item /\ Tail(items) \in Seq(Item)
<1>1. Head(items) \in Item /\ Tail(items) \in Seq(Item)
  BY HeadTailProperties
<1>2. CASE Splits(Head(items), reply)
  <2>1. Head(items).lo < Head(items).hi
    BY <1>2 DEF Splits, NeedsSplit
  <2>2. Halves(Head(items)) \in Seq(Item)
    BY <1>1, <2>1, HalvesShape
  <2> QED
    BY <1>1, <1>2, <2>2, ConcatProperties DEF Todo
<1>3. CASE ~Splits(Head(items), reply)
  BY <1>1, <1>3 DEF Todo
<1> QED
  BY <1>1, <1>2, <1>3

(* What a work gets is what one of the rows for it names.                  *)
LEMMA MergedIsRow ==
    ASSUME NEW item, NEW rows, NEW w \in Part(item), Merged(item, rows)[w] # None
    PROVE  \E k \in RowsFor(item, rows, w) : rows[k].good /\ rows[k].id = Merged(item, rows)[w]
<1> DEFINE complete == {k \in RowsFor(item, rows, w) : rows[k].good}
<1>1. Merged(item, rows)[w] = IF complete = {} THEN None ELSE rows[CHOOSE k \in complete : TRUE].id
  BY DEF Merged
<1> HIDE DEF complete
<1>2. complete # {} /\ Merged(item, rows)[w] = rows[CHOOSE k \in complete : TRUE].id
  BY <1>1
<1>3. (CHOOSE k \in complete : TRUE) \in complete
  BY <1>2
<1> QED
  BY <1>2, <1>3 DEF complete

LEMMA MergedType ==
    ASSUME NEW item \in Item, NEW reply \in Reply, NEW w \in Part(item)
    PROVE  w \in Works /\ Merged(item, reply.rows)[w] \in Works \cup {Stranger, None}
<1>1. w \in Works
  BY BulkAssumption DEF Part, Item, Works
<1>2. reply.rows \in Seq(Row)
  BY DEF Reply
<1>3. CASE Merged(item, reply.rows)[w] # None
  <2>1. PICK k \in RowsFor(item, reply.rows, w) : reply.rows[k].id = Merged(item, reply.rows)[w]
    BY <1>3, MergedIsRow
  <2>2. k \in DOMAIN reply.rows
    BY <2>1 DEF RowsFor, Naming
  <2>3. reply.rows[k] \in Row
    BY <1>2, <2>2
  <2> QED
    BY <1>1, <2>1, <2>3 DEF Row
<1> QED
  BY <1>1, <1>3

LEMMA RepliesType ==
    ASSUME NEW item \in Item, NEW reply \in RepliesTo(item)
    PROVE  reply \in Reply /\ reply.lo = item.lo /\ reply.hi = item.hi
<1>1. item.lo \in Works /\ item.hi \in Works
  BY DEF Item
<1>2. PICK rows \in Answers[item.lo][item.hi] :
        reply = [lo |-> item.lo, hi |-> item.hi, rows |-> rows]
  BY DEF RepliesTo
<1>3. rows \in Seq(Row)
  BY <1>1, <1>2, AnswersAssumption
<1> QED
  BY <1>1, <1>2, <1>3 DEF Reply

(* What classifying the batch at the head of b does, given the answer.     *)
Answered(b, reply) ==
    /\ reply \in Reply
    /\ Head(stack[b]).n \in DOMAIN files => reply = files[Head(stack[b]).n]
    /\ Head(stack[b]).n \notin DOMAIN files =>
          reply.lo = Head(stack[b]).lo /\ reply.hi = Head(stack[b]).hi

Classified(b, reply) ==
    /\ AtWork(b)
    /\ Answered(b, reply)
    /\ files' = Keep(Head(stack[b]).n, reply)
    /\ stack' = [stack EXCEPT ![b] = Numbered(Todo(stack[b], reply), count + 1)]
    /\ count' = IF Todo(stack[b], reply) = <<>> THEN count ELSE count + 1
    /\ got' = IF Splits(Head(stack[b]), reply) THEN got
              ELSE [w \in Works |-> IF w \in Part(Head(stack[b]))
                                    THEN Merged(Head(stack[b]), reply.rows)[w] ELSE got[w]]
    /\ UNCHANGED <<running, workers, broken, csv, runs, mixed>>

LEMMA ClassifyShape ==
    ASSUME TypeOK, NEW b \in Batches, Classify(b)
    PROVE  \E reply : Classified(b, reply)
<1>1. stack[b] \in Seq(Item) /\ stack[b] # <<>>
  BY DEF TypeOK, Classify, AtWork
<1>2. Head(stack[b]) \in Item
  BY <1>1, TodoShape
<1>3. PICK reply \in IF Head(stack[b]).n \in DOMAIN files THEN {files[Head(stack[b]).n]}
                     ELSE RepliesTo(Head(stack[b])) :
        /\ files' = Keep(Head(stack[b]).n, reply)
        /\ stack' = [stack EXCEPT ![b] = NumberHead(Todo(stack[b], reply))]
        /\ count' = IF Todo(stack[b], reply) = <<>> THEN count ELSE count + 1
        /\ got' = IF Splits(Head(stack[b]), reply) THEN got
                  ELSE [w \in Works |-> IF w \in Part(Head(stack[b]))
                                        THEN Merged(Head(stack[b]), reply.rows)[w] ELSE got[w]]
  BY DEF Classify, Todo, Splits
<1>4. Answered(b, reply)
  BY <1>2, <1>3, RepliesType DEF Answered, TypeOK
<1>5. NumberHead(Todo(stack[b], reply)) = Numbered(Todo(stack[b], reply), count + 1)
  BY DEF NumberHead, Numbered
<1> QED
  BY <1>3, <1>4, <1>5 DEF Classified, Classify

LEMMA KeepShape ==
    ASSUME NEW n, NEW reply, files' = Keep(n, reply)
    PROVE  /\ DOMAIN files' = DOMAIN files \cup {n}
           /\ files'[n] = reply
           /\ \A m \in DOMAIN files : m # n => files'[m] = files[m]
BY DEF Keep

-----------------------------------------------------------------------------
(* Types.                                                                  *)
TypeInv == TypeOK /\ workers # 0 /\ (running => runs # 0)

LEMMA InitType == Init => TypeInv
<1> SUFFICES ASSUME Init PROVE TypeInv
  OBVIOUS
<1>1. count \in Nat
  BY CountType DEF Init
<1>2. stack \in [Batches -> Seq(Item)]
  BY DEF Init
<1>3. DOMAIN files = {} /\ files \in [DOMAIN files -> Reply]
  BY DEF Init
<1>4. runs \in 0 .. MaxRuns
  BY BulkAssumption DEF Init
<1>5. workers \in Nat /\ workers # 0
  BY DEF Init
<1>6. running \in BOOLEAN /\ broken \in BOOLEAN /\ mixed \in BOOLEAN /\ ~running
  BY Zenon DEF Init
<1>7. got \in [Works -> Works \cup {Stranger, None}] /\ csv = None
  BY DEF Init
<1> QED
  BY <1>1, <1>2, <1>3, <1>4, <1>5, <1>6, <1>7 DEF TypeInv, TypeOK

LEMMA ExitType == ASSUME TypeInv, Exit, UNCHANGED files, csv' \in {csv, got} PROVE TypeInv'
<1>1. count' \in Nat
  BY CountType DEF Exit
<1>2. stack' \in [Batches -> Seq(Item)]
  BY DEF Exit
<1>3. running' \in BOOLEAN /\ broken' \in BOOLEAN /\ mixed' \in BOOLEAN /\ ~running'
  BY Zenon DEF Exit
<1>4. workers' \in Nat /\ workers' # 0 /\ runs' = runs
  BY DEF Exit
<1>5. got' \in [Works -> Works \cup {Stranger, None}]
  BY DEF Exit
<1>6. csv' \in [Works -> Works \cup {Stranger, None}] \cup {None}
  BY DEF TypeInv, TypeOK
<1> QED
  BY <1>1, <1>2, <1>3, <1>4, <1>5, <1>6 DEF TypeInv, TypeOK

LEMMA StartType == ASSUME TypeInv, NEW c \in Concurrencies, Start(c) PROVE TypeInv'
<1>1. c \in Nat
  BY BulkAssumption
<1>2. workers' \in Nat \ {0}
  BY <1>1, MaxOfTwo DEF Start
<1>3. count' \in Nat
  BY CountType DEF Start
<1>4. stack' \in [Batches -> Seq(Item)]
  BY FirstItemShape DEF Start
<1>5. runs' \in 0 .. MaxRuns /\ runs' # 0
  BY BulkAssumption DEF Start, TypeInv, TypeOK
<1>6. running' \in BOOLEAN /\ broken' \in BOOLEAN /\ mixed' \in BOOLEAN
  BY Zenon DEF Start
<1> QED
  BY <1>2, <1>3, <1>4, <1>5, <1>6 DEF Start, TypeInv, TypeOK

LEMMA ClassifyType == ASSUME TypeInv, NEW b \in Batches, Classify(b) PROVE TypeInv'
<1>1. PICK reply : Classified(b, reply)
  BY ClassifyShape DEF TypeInv
<1>2. stack[b] \in Seq(Item) /\ stack[b] # <<>> /\ count \in Nat /\ reply \in Reply
  BY <1>1 DEF TypeInv, TypeOK, Classified, Answered, AtWork
<1>3. Head(stack[b]) \in Item /\ Todo(stack[b], reply) \in Seq(Item)
  BY <1>2, TodoShape
<1>4. count' \in Nat
  BY <1>1, <1>2 DEF Classified
<1>5. stack' \in [Batches -> Seq(Item)]
  <2>1. Numbered(Todo(stack[b], reply), count + 1) \in Seq(Item)
    BY <1>2, <1>3, NumberedShape
  <2>2. stack \in [Batches -> Seq(Item)]
    BY DEF TypeInv, TypeOK
  <2>3. stack' = [stack EXCEPT ![b] = Numbered(Todo(stack[b], reply), count + 1)]
    BY <1>1 DEF Classified
  <2> QED
    BY <2>1, <2>2, <2>3
<1>6. DOMAIN files' \subseteq Nat /\ files' \in [DOMAIN files' -> Reply]
  <2>1. Head(stack[b]).n \in Nat
    BY <1>3 DEF Item
  <2>2. files' = Keep(Head(stack[b]).n, reply)
    BY <1>1 DEF Classified
  <2>3. /\ DOMAIN files' = DOMAIN files \cup {Head(stack[b]).n}
        /\ files'[Head(stack[b]).n] = reply
        /\ \A m \in DOMAIN files : m # Head(stack[b]).n => files'[m] = files[m]
    BY <2>2, KeepShape
  <2>4. files' = [m \in DOMAIN files' |-> files'[m]]
    BY <2>2 DEF Keep
  <2>5. \A m \in DOMAIN files' : files'[m] \in Reply
    BY <1>2, <2>3 DEF TypeInv, TypeOK
  <2> QED
    BY <2>1, <2>3, <2>4, <2>5 DEF TypeInv, TypeOK
<1>7. got' \in [Works -> Works \cup {Stranger, None}]
  BY <1>1, <1>2, <1>3, MergedType DEF Classified, TypeInv, TypeOK
<1> QED
  BY <1>1, <1>4, <1>5, <1>6, <1>7 DEF Classified, TypeInv, TypeOK

LEMMA TypeStep == TypeInv /\ [Next]_vars => TypeInv'
<1> SUFFICES ASSUME TypeInv, [Next]_vars PROVE TypeInv'
  OBVIOUS
<1>1. ASSUME NEW c \in Concurrencies, Start(c) PROVE TypeInv'
  BY <1>1, StartType
<1>2. ASSUME NEW b \in Batches, Classify(b) PROVE TypeInv'
  BY <1>2, ClassifyType
<1>3. ASSUME NEW b \in Batches, Fail(b) PROVE TypeInv'
  <2>1. CASE workers = 1
    BY <1>3, <2>1, ExitType DEF Fail
  <2>2. CASE workers # 1
    <3>1. stack' = [stack EXCEPT ![b] = <<>>] /\ broken' = TRUE
      BY <1>3, <2>2 DEF Fail
    <3>2. UNCHANGED <<running, workers, count, got, runs, mixed, files, csv>>
      BY <1>3, <2>2 DEF Fail
    <3>3. stack' \in [Batches -> Seq(Item)]
      BY <3>1 DEF TypeInv, TypeOK
    <3>4. broken' \in BOOLEAN
      BY <3>1
    <3> QED
      BY <3>2, <3>3, <3>4 DEF TypeInv, TypeOK
  <2> QED
    BY <2>1, <2>2
<1>4. CASE Finish \/ Interrupt
  BY <1>4, ExitType DEF Finish, Interrupt
<1>5. CASE UNCHANGED vars
  BY <1>5 DEF vars, TypeInv, TypeOK
<1> QED
  BY <1>1, <1>2, <1>3, <1>4, <1>5 DEF Next

LEMMA TypeInvariant == Spec => []TypeInv
BY InitType, TypeStep, PTL DEF Spec

(* Every batch has its works and every file an answer, however often runs  *)
(* are killed and whatever the answers are.                                *)
THEOREM BulkTypes == Spec => []TypeOK
<1>1. TypeInv => TypeOK
  BY DEF TypeInv
<1> QED
  BY <1>1, TypeInvariant, PTL

-----------------------------------------------------------------------------
(* Where a run is: what it still has to do, and the numbers it has given.  *)
Position == [stack : [Batches -> Seq(Item)], count : Nat]
Pos      == [stack |-> stack, count |-> count]
StartPos == [stack |-> [b \in Batches |-> <<FirstItem(b)>>], count |-> NumBatches]
NextPos(p, b, reply) ==
    [stack |-> [p.stack EXCEPT ![b] = Numbered(Todo(p.stack[b], reply), p.count + 1)],
     count |-> IF Todo(p.stack[b], reply) = <<>> THEN p.count ELSE p.count + 1]

Busy(p, b)   == p.stack[b] # <<>>
HeadOf(p, b) == Head(p.stack[b])

(* The next answers of a run get numbers that have none yet, each its own. *)
Fresh(p, used) ==
    /\ NumBatches <= p.count
    /\ used \subseteq 1 .. p.count
    /\ \A b \in Batches : Busy(p, b) =>
          /\ HeadOf(p, b).n \in 1 .. p.count
          /\ HeadOf(p, b).n \notin used
          /\ HeadOf(p, b).n <= NumBatches => HeadOf(p, b) = FirstItem(b)
    /\ \A b, c \in Batches :
          Busy(p, b) /\ Busy(p, c) /\ b # c => HeadOf(p, b).n # HeadOf(p, c).n

LEMMA StartFresh == StartPos \in Position /\ Fresh(StartPos, {})
<1>1. NumBatches \in Nat
  BY CountType
<1>2. StartPos.stack = [b \in Batches |-> <<FirstItem(b)>>] /\ StartPos.count = NumBatches
  BY DEF StartPos
<1>3. StartPos.stack \in [Batches -> Seq(Item)]
  BY <1>2, FirstItemShape
<1>4. \A b \in Batches : HeadOf(StartPos, b) = FirstItem(b) /\ FirstItem(b).n = b
  BY <1>2, FirstItemShape DEF HeadOf
<1> QED
  BY <1>1, <1>2, <1>3, <1>4 DEF StartPos, Position, Fresh, Batches

LEMMA NextShape ==
    ASSUME NEW p \in Position, NEW b \in Batches, Busy(p, b), NEW reply
    PROVE  /\ NextPos(p, b, reply) \in Position
           /\ NextPos(p, b, reply).count \in {p.count, p.count + 1}
           /\ \A c \in Batches : c # b => NextPos(p, b, reply).stack[c] = p.stack[c]
           /\ Busy(NextPos(p, b, reply), b) =>
                 /\ NextPos(p, b, reply).count = p.count + 1
                 /\ HeadOf(NextPos(p, b, reply), b).n = p.count + 1
<1> DEFINE todo == Todo(p.stack[b], reply)
           q    == NextPos(p, b, reply)
<1>1. p.stack \in [Batches -> Seq(Item)] /\ p.count \in Nat /\ p.stack[b] \in Seq(Item)
  BY DEF Position
<1>2. todo \in Seq(Item)
  BY <1>1, TodoShape DEF Busy
<1>3. /\ q.stack = [p.stack EXCEPT ![b] = Numbered(todo, p.count + 1)]
      /\ q.count = IF todo = <<>> THEN p.count ELSE p.count + 1
      /\ q = [stack |-> q.stack, count |-> q.count]
  BY DEF NextPos
<1> HIDE DEF todo, q
<1>4. Numbered(todo, p.count + 1) \in Seq(Item) /\ (Numbered(todo, p.count + 1) = <<>> <=> todo = <<>>)
      /\ (todo # <<>> => Head(Numbered(todo, p.count + 1)).n = p.count + 1)
  BY <1>1, <1>2, NumberedShape
<1>5. q.stack[b] = Numbered(todo, p.count + 1) /\ \A c \in Batches : c # b => q.stack[c] = p.stack[c]
  BY <1>1, <1>3
<1>6. q.stack \in [Batches -> Seq(Item)] /\ q.count \in Nat
  BY <1>1, <1>3, <1>4
<1>7. q \in Position
  BY <1>3, <1>6 DEF Position
<1> QED
  BY <1>3, <1>4, <1>5, <1>7 DEF Busy, HeadOf, q

LEMMA FreshNext ==
    ASSUME NEW p \in Position, NEW used, Fresh(p, used), NEW b \in Batches, Busy(p, b), NEW reply
    PROVE  Fresh(NextPos(p, b, reply), used \cup {HeadOf(p, b).n})
<1> DEFINE q == NextPos(p, b, reply)
<1>1. NumBatches \in Nat /\ p.count \in Nat
  BY CountType DEF Position
<1>2. /\ q.count \in {p.count, p.count + 1}
      /\ \A c \in Batches : c # b => q.stack[c] = p.stack[c]
      /\ Busy(q, b) => q.count = p.count + 1 /\ HeadOf(q, b).n = p.count + 1
  BY NextShape
<1> HIDE DEF q
<1>3. \A c \in Batches : c # b => (Busy(q, c) <=> Busy(p, c)) /\ HeadOf(q, c) = HeadOf(p, c)
  BY <1>2 DEF Busy, HeadOf
<1>4. NumBatches <= q.count /\ used \cup {HeadOf(p, b).n} \subseteq 1 .. q.count
  <2>1. /\ NumBatches <= p.count /\ used \subseteq 1 .. p.count
        /\ HeadOf(p, b).n \in 1 .. p.count
    BY DEF Fresh
  <2>2. p.count <= q.count /\ q.count \in Nat
    BY <1>1, <1>2
  <2>3. 1 .. p.count \subseteq 1 .. q.count
    BY <1>1, <2>2
  <2>4. NumBatches <= q.count
    BY <1>1, <2>1, <2>2
  <2> QED
    BY <2>1, <2>3, <2>4
<1>5. ASSUME NEW c \in Batches, Busy(q, c)
      PROVE  /\ HeadOf(q, c).n \in 1 .. q.count
             /\ HeadOf(q, c).n \notin used \cup {HeadOf(p, b).n}
             /\ HeadOf(q, c).n <= NumBatches => HeadOf(q, c) = FirstItem(c)
  <2>1. CASE c = b
    BY <1>1, <1>2, <1>5, <2>1 DEF Fresh
  <2>2. CASE c # b
    BY <1>1, <1>2, <1>3, <1>5, <2>2 DEF Fresh
  <2> QED
    BY <2>1, <2>2
<1>6. ASSUME NEW c \in Batches, NEW d \in Batches, Busy(q, c), Busy(q, d), c # d
      PROVE  HeadOf(q, c).n # HeadOf(q, d).n
  <2>1. ASSUME NEW e \in Batches, e # b, Busy(q, e), Busy(q, b) PROVE HeadOf(q, e).n # HeadOf(q, b).n
    BY <1>1, <1>2, <1>3, <2>1 DEF Fresh
  <2> QED
    BY <1>3, <1>6, <2>1 DEF Fresh
<1>7. Fresh(q, used \cup {HeadOf(p, b).n})
  BY <1>4, <1>5, <1>6 DEF Fresh
<1> QED
  BY <1>7 DEF q

-----------------------------------------------------------------------------
(* Runs with one worker over the same files.  With the answers kept they   *)
(* all go through the same positions, up to one that asks for a new one.   *)
First(p, b) == Busy(p, b) /\ \A c \in Batches : c < b => ~Busy(p, c)
InOrder(p)  == \A b \in Batches : Busy(p, b) => First(p, b) \/ p.stack[b] = <<FirstItem(b)>>
Fits(file, item) == file.lo = item.lo /\ file.hi = item.hi

Read(p, b, F) == First(p, b) /\ HeadOf(p, b).n \in DOMAIN F /\ Fits(F[HeadOf(p, b).n], HeadOf(p, b))

Replay(P, last, F) ==
    /\ P \subseteq Position /\ StartPos \in P /\ last \in P
    /\ Fresh(last, DOMAIN F)
    /\ \A p \in P : InOrder(p)
    /\ \A p \in P : p # last =>
          \E b \in Batches : Read(p, b, F) /\ NextPos(p, b, F[HeadOf(p, b).n]) \in P
    /\ \A n \in DOMAIN F : n \in Batches => Fits(F[n], FirstItem(n))

LEMMA OneIsFirst ==
    ASSUME NEW p, NEW b \in Batches, NEW c \in Batches, First(p, b), First(p, c)
    PROVE  b = c
<1>1. b \in Nat /\ c \in Nat
  BY CountType DEF Batches
<1> QED
  BY <1>1 DEF First

LEMMA StartInOrder == InOrder(StartPos)
BY DEF InOrder, StartPos

LEMMA NextInOrder ==
    ASSUME NEW p \in Position, InOrder(p), NEW b \in Batches, First(p, b), NEW reply
    PROVE  InOrder(NextPos(p, b, reply))
<1> DEFINE q == NextPos(p, b, reply)
<1>1. \A c \in Batches : c # b => q.stack[c] = p.stack[c]
  BY NextShape DEF First
<1> HIDE DEF q
<1>2. \A c \in Batches : c \in Nat
  BY CountType DEF Batches
<1>3. ASSUME NEW d \in Batches, Busy(q, d) PROVE First(q, d) \/ q.stack[d] = <<FirstItem(d)>>
  <2>1. CASE d = b
    BY <1>1, <1>2, <1>3, <2>1 DEF First, Busy
  <2>2. CASE d # b
    <3>1. Busy(p, d) /\ ~First(p, d)
      BY <1>1, <1>3, <2>2, OneIsFirst DEF Busy
    <3> QED
      BY <1>1, <2>2, <3>1 DEF InOrder
  <2> QED
    BY <2>1, <2>2
<1>4. InOrder(q)
  BY <1>3 DEF InOrder
<1> QED
  BY <1>4 DEF q

(* A run that finds an answer goes where the run before went.              *)
LEMMA ReplayRead ==
    ASSUME NEW P, NEW last, NEW F, Replay(P, last, F), NEW p \in P, NEW b \in Batches, First(p, b),
           HeadOf(p, b).n \in DOMAIN F
    PROVE  Fits(F[HeadOf(p, b).n], HeadOf(p, b)) /\ NextPos(p, b, F[HeadOf(p, b).n]) \in P
<1>1. p # last
  BY DEF Replay, Fresh, First
<1>2. PICK c \in Batches : Read(p, c, F) /\ NextPos(p, c, F[HeadOf(p, c).n]) \in P
  BY <1>1 DEF Replay
<1>3. b = c
  BY <1>2, OneIsFirst DEF Read
<1> QED
  BY <1>2, <1>3 DEF Read

(* A run that has to ask has gone through all of them.                     *)
LEMMA ReplayAsk ==
    ASSUME NEW P, NEW last, NEW F, Replay(P, last, F), NEW p \in P, NEW b \in Batches, First(p, b),
           HeadOf(p, b).n \notin DOMAIN F,
           NEW reply, Fits(reply, HeadOf(p, b)),
           NEW G, DOMAIN G = DOMAIN F \cup {HeadOf(p, b).n}, G[HeadOf(p, b).n] = reply,
           \A m \in DOMAIN F : m # HeadOf(p, b).n => G[m] = F[m]
    PROVE  Replay(P \cup {NextPos(p, b, reply)}, NextPos(p, b, reply), G)
<1> DEFINE n == HeadOf(p, b).n
           q == NextPos(p, b, reply)
<1>1. p = last
  <2> SUFFICES ASSUME p # last PROVE FALSE
    OBVIOUS
  <2>1. PICK c \in Batches : Read(p, c, F)
    BY DEF Replay
  <2>2. b = c
    BY <2>1, OneIsFirst DEF Read
  <2> QED
    BY <2>1, <2>2 DEF Read
<1>2. p \in Position /\ InOrder(p) /\ Busy(p, b) /\ Fresh(p, DOMAIN F)
  BY <1>1 DEF Replay, First
<1>3. q \in Position /\ InOrder(q)
  BY <1>2, NextShape, NextInOrder
<1>4. Fresh(q, DOMAIN G)
  BY <1>2, FreshNext
<1>5. \A m \in DOMAIN F : m \in DOMAIN G /\ G[m] = F[m]
  OBVIOUS
<1> HIDE DEF q
<1>6. ASSUME NEW s \in P, s # last
      PROVE  \E c \in Batches : Read(s, c, G) /\ NextPos(s, c, G[HeadOf(s, c).n]) \in P
  <2>1. PICK c \in Batches : Read(s, c, F) /\ NextPos(s, c, F[HeadOf(s, c).n]) \in P
    BY <1>6 DEF Replay
  <2>2. HeadOf(s, c).n \in DOMAIN G /\ G[HeadOf(s, c).n] = F[HeadOf(s, c).n]
    BY <1>5, <2>1 DEF Read
  <2> QED
    BY <2>1, <2>2 DEF Read
<1>7. Read(p, b, G) /\ NextPos(p, b, G[n]) = q
  BY DEF Read, q
<1>8. ASSUME NEW m \in DOMAIN G, m \in Batches PROVE Fits(G[m], FirstItem(m))
  <2>1. CASE m \in DOMAIN F
    BY <1>5, <1>8, <2>1 DEF Replay
  <2>2. CASE m = n
    <3>1. m <= NumBatches
      BY <1>8, CountType DEF Batches
    <3>2. HeadOf(p, b) = FirstItem(b)
      BY <1>2, <2>2, <3>1 DEF Fresh
    <3>3. b = m
      BY <2>2, <3>2, FirstItemShape
    <3> QED
      BY <2>2, <3>2, <3>3
  <2> QED
    BY <2>1, <2>2
<1>9. ASSUME NEW s \in P \cup {q}, s # q
      PROVE  \E c \in Batches : Read(s, c, G) /\ NextPos(s, c, G[HeadOf(s, c).n]) \in P \cup {q}
  <2>1. CASE s = p
    BY <1>7, <2>1
  <2>2. CASE s # p
    BY <1>1, <1>6, <1>9, <2>2
  <2> QED
    BY <2>1, <2>2
<1>10. P \cup {q} \subseteq Position /\ StartPos \in P \cup {q} /\ q \in P \cup {q}
       /\ \A s \in P \cup {q} : InOrder(s)
  BY <1>3 DEF Replay
<1>11. Replay(P \cup {q}, q, G)
  BY <1>4, <1>8, <1>9, <1>10 DEF Replay
<1> QED
  BY <1>11 DEF q

-----------------------------------------------------------------------------
(* The inductive invariant.  The answers come from this run, the first, or *)
(* all runs had one worker and repeat one another.                         *)
Unused    == runs = 0 => DOMAIN files = {}
OneIfMany == running /\ ~mixed /\ workers # 1 => runs = 1
FirstRun  == running /\ runs = 1 => Fresh(Pos, DOMAIN files)
InTurn ==
    ~mixed /\ (running => workers = 1) =>
        \E P, last : Replay(P, last, files) /\ (running => Pos \in P)

BulkInv == Unused /\ OneIfMany /\ FirstRun /\ InTurn

LEMMA FirstReplay == ASSUME NEW F, DOMAIN F = {} PROVE Replay({StartPos}, StartPos, F)
BY StartFresh, StartInOrder DEF Replay

LEMMA BulkInit == Init => BulkInv
<1> SUFFICES ASSUME Init PROVE BulkInv
  OBVIOUS
<1>1. ~running /\ DOMAIN files = {}
  BY DEF Init
<1> QED
  BY <1>1, FirstReplay DEF BulkInv, Unused, OneIfMany, FirstRun, InTurn

LEMMA BulkStart ==
    ASSUME TypeInv, BulkInv, NEW c \in Concurrencies, Start(c)
    PROVE  BulkInv'
<1>1. /\ ~running /\ running' /\ runs' = runs + 1 /\ files' = files
      /\ stack' = [b \in Batches |-> <<FirstItem(b)>>] /\ count' = NumBatches
  BY DEF Start
<1>2. runs \in Nat
  BY BulkAssumption DEF TypeInv, TypeOK
<1>3. Pos' = StartPos
  BY <1>1 DEF Pos, StartPos
<1>4. ~mixed' => ~mixed /\ (workers' > 1 => runs = 0)
  <2>1. ~mixed' => ~mixed /\ ~(workers' > 1 /\ runs > 0)
    BY Zenon DEF Start
  <2> QED
    BY <1>2, <2>1
<1>5. c \in Nat
  BY BulkAssumption
<1>6. workers' \in Nat \ {0}
  BY <1>5, MaxOfTwo DEF Start
<1>7. Unused' /\ OneIfMany'
  BY <1>1, <1>2, <1>4, <1>6 DEF Unused, OneIfMany
<1>8. FirstRun'
  <2>1. runs' = 1 => DOMAIN files' = {}
    BY <1>1, <1>2 DEF BulkInv, Unused
  <2> QED
    BY <1>3, <2>1, StartFresh DEF FirstRun
<1>9. InTurn'
  <2> SUFFICES ASSUME ~mixed' PROVE \E P, last : Replay(P, last, files') /\ Pos' \in P
    BY DEF InTurn
  <2>1. PICK P, last : Replay(P, last, files)
    BY <1>1, <1>4 DEF BulkInv, InTurn
  <2>2. Replay(P, last, files') /\ StartPos \in P
    BY <1>1, <2>1 DEF Replay
  <2> QED
    BY <1>3, <2>2
<1> QED
  BY <1>7, <1>8, <1>9 DEF BulkInv

LEMMA BulkExit == ASSUME TypeInv, BulkInv, running, Exit, UNCHANGED files PROVE BulkInv'
<1>1. ~running' /\ runs' = runs /\ (~mixed' => ~mixed /\ ~(workers > 1))
  BY DEF Exit
<1>2. ~mixed' => workers = 1
  BY <1>1 DEF TypeInv, TypeOK
<1>3. InTurn'
  BY <1>1, <1>2 DEF BulkInv, InTurn
<1> QED
  BY <1>1, <1>3 DEF BulkInv, Unused, OneIfMany, FirstRun

(* In the pool a batch that failed has nothing left to do.                 *)
LEMMA BulkFail ==
    ASSUME TypeInv, BulkInv, NEW b \in Batches, Fail(b), workers # 1
    PROVE  BulkInv'
<1>1. /\ stack' = [stack EXCEPT ![b] = <<>>]
      /\ UNCHANGED <<running, workers, count, runs, mixed, files>>
  BY DEF Fail
<1>2. running
  BY DEF Fail, AtWork
<1>3. stack'[b] = <<>> /\ \A c \in Batches : c # b => stack'[c] = stack[c]
  BY <1>1 DEF TypeInv, TypeOK
<1>4. Fresh(Pos, DOMAIN files) => Fresh(Pos, DOMAIN files)'
  <2>1. \A c \in Batches : Busy(Pos, c)' => Busy(Pos, c) /\ HeadOf(Pos, c)' = HeadOf(Pos, c)
    BY <1>3 DEF Busy, HeadOf, Pos
  <2>2. Pos.count' = Pos.count /\ files' = files
    BY <1>1 DEF Pos
  <2> QED
    BY <2>1, <2>2 DEF Fresh
<1> QED
  BY <1>1, <1>2, <1>4 DEF BulkInv, Unused, OneIfMany, FirstRun, InTurn

(* With one worker the batch at work is the first that is not done.        *)
LEMMA OneAtATime ==
    ASSUME NEW b \in Batches, AtWork(b), workers = 1
    PROVE  First(Pos, b)
<1> DEFINE before == {c \in Batches : c < b /\ stack[c] # <<>>}
<1>1. IsFiniteSet(before)
  <2>1. IsFiniteSet(Batches)
    BY CountType, FS_Interval DEF Batches
  <2> QED
    BY <2>1, FS_Subset
<1>2. Cardinality(before) \in Nat /\ Cardinality(before) < 1
  BY <1>1, FS_CardinalityType DEF AtWork
<1>3. before = {}
  BY <1>1, <1>2, FS_EmptySet
<1> QED
  BY <1>3 DEF AtWork, First, Busy, Pos

LEMMA BulkClassify ==
    ASSUME TypeInv, BulkInv, NEW b \in Batches, Classify(b)
    PROVE  BulkInv'
<1>1. PICK reply : Classified(b, reply)
  BY ClassifyShape DEF TypeInv
<1>2. /\ running /\ stack[b] # <<>> /\ AtWork(b)
      /\ UNCHANGED <<running, workers, runs, mixed>>
  BY <1>1 DEF Classified, AtWork
<1>3. Pos \in Position /\ Busy(Pos, b) /\ HeadOf(Pos, b) = Head(stack[b])
  BY <1>2 DEF TypeInv, TypeOK, Pos, Position, Busy, HeadOf
<1>4. Pos' = NextPos(Pos, b, reply)
  BY <1>1 DEF Classified, Pos, NextPos
<1>5. /\ DOMAIN files' = DOMAIN files \cup {HeadOf(Pos, b).n}
      /\ files'[HeadOf(Pos, b).n] = reply
      /\ \A m \in DOMAIN files : m # HeadOf(Pos, b).n => files'[m] = files[m]
  BY <1>1, <1>3, KeepShape DEF Classified
<1>6. Unused' /\ OneIfMany'
  BY <1>2 DEF BulkInv, Unused, OneIfMany, TypeInv
<1>7. FirstRun'
  BY <1>2, <1>3, <1>4, <1>5, FreshNext DEF BulkInv, FirstRun
<1>8. InTurn'
  <2> SUFFICES ASSUME ~mixed, workers = 1
               PROVE  \E P, last : Replay(P, last, files') /\ Pos' \in P
    BY <1>2 DEF InTurn
  <2>1. PICK P, last : Replay(P, last, files) /\ Pos \in P
    BY <1>2 DEF BulkInv, InTurn
  <2>2. First(Pos, b)
    BY <1>2, OneAtATime
  <2>3. CASE HeadOf(Pos, b).n \in DOMAIN files
    <3>1. reply = files[HeadOf(Pos, b).n]
      BY <1>1, <1>3, <2>3 DEF Classified, Answered
    <3>2. Pos' \in P
      BY <1>4, <2>1, <2>2, <2>3, <3>1, ReplayRead
    <3>3. files' = files
      <4>1. files' = [m \in DOMAIN files |-> files[m]]
        BY <1>1, <1>3, <2>3, <3>1 DEF Classified, Keep
      <4>2. files = [m \in DOMAIN files |-> files[m]]
        BY DEF TypeInv, TypeOK
      <4> QED
        BY <4>1, <4>2
    <3> QED
      BY <2>1, <3>2, <3>3
  <2>4. CASE HeadOf(Pos, b).n \notin DOMAIN files
    <3>1. Fits(reply, HeadOf(Pos, b))
      BY <1>1, <1>3, <2>4 DEF Classified, Answered, Fits
    <3>2. Replay(P \cup {NextPos(Pos, b, reply)}, NextPos(Pos, b, reply), files')
      BY <1>5, <2>1, <2>2, <2>4, <3>1, ReplayAsk
    <3> QED
      BY <1>4, <3>2
  <2> QED
    BY <2>3, <2>4
<1> QED
  BY <1>6, <1>7, <1>8 DEF BulkInv

LEMMA BulkStep == TypeInv /\ BulkInv /\ [Next]_vars => BulkInv'
<1> SUFFICES ASSUME TypeInv, BulkInv, [Next]_vars PROVE BulkInv'
  OBVIOUS
<1>1. ASSUME NEW c \in Concurrencies, Start(c) PROVE BulkInv'
  BY <1>1, BulkStart
<1>2. ASSUME NEW b \in Batches, Classify(b) PROVE BulkInv'
  BY <1>2, BulkClassify
<1>3. ASSUME NEW b \in Batches, Fail(b) PROVE BulkInv'
  <2>1. CASE workers = 1
    BY <1>3, <2>1, BulkExit DEF Fail, AtWork
  <2>2. CASE workers # 1
    BY <1>3, <2>2, BulkFail
  <2> QED
    BY <2>1, <2>2
<1>4. CASE Finish \/ Interrupt
  BY <1>4, BulkExit DEF Finish, Interrupt
<1>5. CASE UNCHANGED vars
  BY <1>5 DEF vars, BulkInv, Unused, OneIfMany, FirstRun, InTurn, Pos
<1> QED
  BY <1>1, <1>2, <1>3, <1>4, <1>5 DEF Next

LEMMA AnswersFit == ASSUME TypeInv, BulkInv PROVE ReusedAnswersFit
<1> SUFFICES ASSUME running, ~mixed, NEW b \in Batches, stack[b] # <<>>,
                    Head(stack[b]).n \in DOMAIN files
             PROVE  Fits(files[Head(stack[b]).n], Head(stack[b]))
  BY DEF ReusedAnswersFit, Fits
<1>1. Busy(Pos, b) /\ HeadOf(Pos, b) = Head(stack[b])
  BY DEF Busy, HeadOf, Pos
<1>2. CASE workers # 1
  <2>1. Fresh(Pos, DOMAIN files)
    BY <1>2 DEF BulkInv, OneIfMany, FirstRun
  <2> QED
    BY <1>1, <2>1 DEF Fresh
<1>3. CASE workers = 1
  <2>1. PICK P, last : Replay(P, last, files) /\ Pos \in P
    BY <1>3 DEF BulkInv, InTurn
  <2>2. CASE First(Pos, b)
    BY <1>1, <2>1, <2>2, ReplayRead
  <2>3. CASE Pos.stack[b] = <<FirstItem(b)>>
    <3>1. Head(stack[b]) = FirstItem(b) /\ FirstItem(b).n = b
      BY <2>3, FirstItemShape DEF Pos
    <3> QED
      BY <2>1, <3>1 DEF Replay
  <2> QED
    BY <1>1, <2>1, <2>2, <2>3 DEF Replay, InOrder
<1> QED
  BY <1>2, <1>3

(* In one run with any number of workers, or in any number of runs with    *)
(* one worker each, whenever they stop, no batch takes the answer that was *)
(* made for another.                                                       *)
THEOREM ReuseCorrect == Spec => []ReusedAnswersFit
BY TypeInvariant, BulkInit, BulkStep, AnswersFit, PTL DEF Spec

-----------------------------------------------------------------------------
(* Who is still without a classification is in a batch that is to be done, *)
(* or the model was asked for that work alone.                             *)
InBatch(w) == \E b \in Batches : \E i \in 1 .. Len(stack[b]) : w \in Part(stack[b][i])
Alone(w)   == \E n \in DOMAIN files : files[n].lo = w /\ files[n].hi = w
Covered ==
    running /\ ~mixed /\ ~broken =>
        \A w \in Works : InBatch(w) \/ got[w] # None \/ Alone(w)

(* An item is replaced by its halves, or is done.                          *)
LEMMA TodoCovers ==
    ASSUME NEW items \in Seq(Item), items # <<>>, NEW reply, NEW n \in Nat, NEW w,
           NEW i \in 1 .. Len(items), w \in Part(items[i]),
           i = 1 => Splits(Head(items), reply)
    PROVE  LET todo == Numbered(Todo(items, reply), n)
           IN  \E j \in 1 .. Len(todo) : w \in Part(todo[j])
<1> DEFINE todo  == Todo(items, reply)
           other == Numbered(todo, n)
<1>1. /\ todo \in Seq(Item) /\ Head(items) \in Item /\ Tail(items) \in Seq(Item)
      /\ Head(items) = items[1] /\ Len(items) \in Nat
  BY TodoShape
<1>2. /\ Len(Tail(items)) = Len(items) - 1
      /\ \A k \in 1 .. Len(items) - 1 : Tail(items)[k] = items[k + 1]
  BY HeadTailProperties
<1>3. \E j \in 1 .. Len(todo) : w \in Part(todo[j])
  <2>1. CASE Splits(Head(items), reply)
    <3>1. Head(items).lo < Head(items).hi
      BY <2>1 DEF Splits, NeedsSplit
    <3>2. /\ Halves(Head(items)) \in Seq(Item) /\ Len(Halves(Head(items))) = 2
          /\ Part(Head(items)) = Part(Halves(Head(items))[1]) \cup Part(Halves(Head(items))[2])
      BY <1>1, <3>1, HalvesShape
    <3>3. todo = Halves(Head(items)) \o Tail(items)
      BY <2>1 DEF Todo
    <3> HIDE DEF todo
    <3>4. /\ Len(todo) = 2 + (Len(items) - 1)
          /\ todo[1] = Halves(Head(items))[1] /\ todo[2] = Halves(Head(items))[2]
          /\ \A k \in 1 .. Len(items) - 1 : todo[2 + k] = Tail(items)[k]
      <4> DEFINE halves == Halves(Head(items))
                 rest   == Tail(items)
      <4>1. /\ halves \in Seq(Item) /\ Len(halves) = 2 /\ rest \in Seq(Item)
            /\ Len(rest) = Len(items) - 1 /\ Len(rest) \in Nat /\ todo = halves \o rest
        BY <1>1, <1>2, <3>2, <3>3
      <4> HIDE DEF halves, rest
      <4>2. /\ Len(todo) = 2 + Len(rest)
            /\ \A j \in 1 .. 2 + Len(rest) : todo[j] = IF j <= 2 THEN halves[j] ELSE rest[j - 2]
        <5>1. /\ Len(halves \o rest) = Len(halves) + Len(rest)
              /\ \A j \in 1 .. Len(halves) + Len(rest) :
                    (halves \o rest)[j] = IF j <= Len(halves) THEN halves[j] ELSE rest[j - Len(halves)]
          BY <4>1, ConcatProperties
        <5> QED
          BY <4>1, <5>1, Zenon
      <4>3. todo[1] = halves[1] /\ todo[2] = halves[2]
        BY <4>1, <4>2
      <4>4. \A k \in 1 .. Len(rest) : 2 + k \in 1 .. 2 + Len(rest) /\ ~(2 + k <= 2) /\ (2 + k) - 2 = k
        BY <4>1
      <4>5. \A k \in 1 .. Len(rest) : todo[2 + k] = rest[k]
        BY <4>2, <4>4
      <4> QED
        BY <4>1, <4>2, <4>3, <4>5 DEF halves, rest
    <3>5. CASE i = 1
      BY <1>1, <3>2, <3>4, <3>5
    <3>6. CASE i # 1
      <4>1. i - 1 \in 1 .. Len(items) - 1 /\ (i - 1) + 1 = i /\ 2 + (i - 1) \in 1 .. 2 + (Len(items) - 1)
        BY <1>1, <3>6
      <4>2. todo[2 + (i - 1)] = items[i]
        BY <1>2, <3>4, <4>1
      <4> QED
        BY <3>4, <4>1, <4>2
    <3> QED
      BY <3>5, <3>6
  <2>2. CASE ~Splits(Head(items), reply)
    <3>1. todo = Tail(items)
      BY <2>2 DEF Todo
    <3>2. i - 1 \in 1 .. Len(items) - 1 /\ (i - 1) + 1 = i
      BY <1>1, <2>2
    <3>3. Tail(items)[i - 1] = items[i]
      BY <1>2, <3>2
    <3> QED
      BY <1>2, <3>1, <3>2, <3>3
  <2> QED
    BY <2>1, <2>2
<1> HIDE DEF todo
<1>4. Len(other) = Len(todo) /\ \A j \in 1 .. Len(todo) : Part(other[j]) = Part(todo[j])
  BY <1>1, NumberedShape
<1> HIDE DEF other
<1>5. \E j \in 1 .. Len(other) : w \in Part(other[j])
  BY <1>3, <1>4
<1> QED
  BY <1>5 DEF other, todo

LEMMA CoverClassify ==
    ASSUME TypeInv, BulkInv, Covered, NEW b \in Batches, Classify(b)
    PROVE  Covered'
<1>1. PICK reply : Classified(b, reply)
  BY ClassifyShape DEF TypeInv
<1>2. /\ running /\ stack[b] # <<>> /\ count + 1 \in Nat /\ stack[b] \in Seq(Item)
      /\ stack \in [Batches -> Seq(Item)] /\ got \in [Works -> Works \cup {Stranger, None}]
      /\ UNCHANGED <<running, mixed, broken>>
  BY <1>1 DEF Classified, AtWork, TypeInv, TypeOK
<1> DEFINE item == Head(stack[b])
<1> SUFFICES ASSUME ~mixed, ~broken, NEW w \in Works
             PROVE  (InBatch(w) \/ got[w] # None \/ Alone(w))'
  BY <1>2 DEF Covered
<1>3. item \in Item /\ item = stack[b][1]
  BY <1>2, TodoShape
<1>4. /\ DOMAIN files' = DOMAIN files \cup {item.n} /\ files'[item.n] = reply
      /\ \A m \in DOMAIN files : m # item.n => files'[m] = files[m]
  BY <1>1, KeepShape DEF Classified
<1>5. reply.lo = item.lo /\ reply.hi = item.hi
  <2>1. ReusedAnswersFit
    BY AnswersFit
  <2> QED
    BY <1>1, <1>2, <2>1 DEF Classified, Answered, ReusedAnswersFit
<1>6. \A m \in DOMAIN files : m \in DOMAIN files' /\ files'[m] = files[m]
  BY <1>1, <1>4 DEF Classified, Answered
<1>7. /\ stack'[b] = Numbered(Todo(stack[b], reply), count + 1)
      /\ \A c \in Batches : c # b => stack'[c] = stack[c]
      /\ got' = IF Splits(item, reply) THEN got
                ELSE [v \in Works |-> IF v \in Part(item) THEN Merged(item, reply.rows)[v] ELSE got[v]]
  BY <1>1, <1>2 DEF Classified
<1> HIDE DEF item
<1>8. CASE Alone(w)
  BY <1>6, <1>8 DEF Alone
<1>9. CASE InBatch(w)
  <2>1. PICK c \in Batches : \E i \in 1 .. Len(stack[c]) : w \in Part(stack[c][i])
    BY <1>9 DEF InBatch
  <2>a. PICK i \in 1 .. Len(stack[c]) : w \in Part(stack[c][i])
    BY <2>1
  <2>2. CASE c # b
    BY <1>7, <2>a, <2>2 DEF InBatch
  <2>3. CASE c = b /\ (i = 1 => Splits(item, reply))
    <3> DEFINE items == stack[b]
    <3>a. /\ items \in Seq(Item) /\ items # <<>> /\ count + 1 \in Nat
          /\ i \in 1 .. Len(items) /\ w \in Part(items[i])
          /\ i = 1 => Splits(Head(items), reply)
      BY <1>2, <2>a, <2>3 DEF item
    <3> HIDE DEF items
    <3>b. LET todo == Numbered(Todo(items, reply), count + 1)
          IN  \E j \in 1 .. Len(todo) : w \in Part(todo[j])
      BY <3>a, TodoCovers
    <3>1. \E j \in 1 .. Len(stack'[b]) : w \in Part(stack'[b][j])
      BY <1>7, <3>b DEF items
    <3> QED
      BY <3>1 DEF InBatch
  <2>4. CASE c = b /\ i = 1 /\ ~Splits(item, reply)
    <3>a. w \in Part(item)
      BY <1>3, <2>a, <2>4
    <3>b. got' = [v \in Works |-> IF v \in Part(item) THEN Merged(item, reply.rows)[v] ELSE got[v]]
      BY <1>7, <2>4
    <3>1. w \in Part(item) /\ got'[w] = Merged(item, reply.rows)[w]
      BY <3>a, <3>b
    <3>2. CASE item.lo < item.hi
      BY <2>4, <3>1, <3>2 DEF Splits, NeedsSplit
    <3>3. CASE ~(item.lo < item.hi)
      <4>1. item.lo = w /\ item.hi = w
        BY <1>3, <3>1, <3>3, BulkAssumption DEF Part, Item, Works
      <4> QED
        BY <1>4, <1>5, <4>1 DEF Alone
    <3> QED
      BY <3>2, <3>3
  <2> QED
    BY <2>2, <2>3, <2>4
<1>10. CASE ~InBatch(w) /\ got[w] # None
  <2>1. 1 \in 1 .. Len(stack[b])
    BY <1>2
  <2>2. w \notin Part(item)
    BY <1>3, <1>10, <2>1 DEF InBatch
  <2> QED
    BY <1>7, <1>10, <2>2
<1> QED
  BY <1>2, <1>8, <1>9, <1>10 DEF Covered

LEMMA CoverStep == TypeInv /\ BulkInv /\ Covered /\ [Next]_vars => Covered'
<1> SUFFICES ASSUME TypeInv, BulkInv, Covered, [Next]_vars PROVE Covered'
  OBVIOUS
<1>1. ASSUME NEW c \in Concurrencies, Start(c) PROVE Covered'
  <2> SUFFICES ASSUME NEW w \in Works PROVE InBatch(w)'
    BY DEF Covered
  <2>1. PICK b \in Batches : w \in Part(FirstItem(b))
    BY BatchOf
  <2>2. stack'[b] = <<FirstItem(b)>>
    BY <1>1 DEF Start
  <2> QED
    BY <2>1, <2>2 DEF InBatch
<1>2. ASSUME NEW b \in Batches, Classify(b) PROVE Covered'
  BY <1>2, CoverClassify
<1>3. CASE Exit
  BY <1>3 DEF Exit, Covered
<1>4. ASSUME NEW b \in Batches, Fail(b) PROVE Covered'
  BY <1>3, <1>4 DEF Fail, Covered
<1>5. CASE Finish \/ Interrupt
  BY <1>3, <1>5 DEF Finish, Interrupt
<1>6. CASE UNCHANGED vars
  BY <1>6 DEF vars, Covered, InBatch, Alone
<1> QED
  BY <1>1, <1>2, <1>4, <1>5, <1>6 DEF Next

(* When all batches are done, a work has no classification only because    *)
(* the model gave none when it was asked for that work alone: an answer in *)
(* part is never the last word, in the runs ReuseCorrect is about.         *)
THEOREM AskedAloneCorrect == Spec => []UnclassifiedWasAskedAlone
<1>1. Init => Covered
  BY DEF Init, Covered
<1>2. TypeInv /\ Covered => UnclassifiedWasAskedAlone
  <2> SUFFICES ASSUME TypeInv, Covered, running, ~mixed, ~broken,
                      \A b \in Batches : stack[b] = <<>>, NEW w \in Works, got[w] = None
               PROVE  Alone(w)
    BY DEF UnclassifiedWasAskedAlone, Alone
  <2>1. ~InBatch(w)
    BY DEF InBatch
  <2> QED
    BY <2>1 DEF Covered
<1> QED
  BY <1>1, <1>2, TypeInvariant, BulkInit, BulkStep, CoverStep, PTL DEF Spec

-----------------------------------------------------------------------------
(* Every classification is what a row for the work in a kept answer says,  *)
(* of an answer to a batch with the work.                                  *)
IsSupported(rows) ==
    \A w \in Works : rows[w] # None => \E n \in DOMAIN files : Supports(files[n], w, rows[w])
SupportInv == running /\ ~mixed => IsSupported(got)

LEMMA SupportClassify ==
    ASSUME TypeInv, BulkInv, SupportInv, NEW b \in Batches, Classify(b)
    PROVE  SupportInv'
<1>1. PICK reply : Classified(b, reply)
  BY ClassifyShape DEF TypeInv
<1> DEFINE item == Head(stack[b])
<1>2. /\ stack[b] # <<>> /\ stack[b] \in Seq(Item) /\ reply \in Reply
      /\ running /\ UNCHANGED <<running, mixed>>
  BY <1>1 DEF Classified, Answered, AtWork, TypeInv, TypeOK
<1>3. item \in Item
  BY <1>2, TodoShape
<1>4. /\ DOMAIN files' = DOMAIN files \cup {item.n} /\ files'[item.n] = reply
      /\ \A m \in DOMAIN files : m # item.n => files'[m] = files[m]
  BY <1>1, KeepShape DEF Classified
<1>5. \A m \in DOMAIN files : m \in DOMAIN files' /\ files'[m] = files[m]
  BY <1>1, <1>4 DEF Classified, Answered
<1> SUFFICES ASSUME ~mixed, NEW w \in Works, got'[w] # None
             PROVE  \E n \in DOMAIN files' : Supports(files'[n], w, got'[w])
  BY <1>2 DEF SupportInv, IsSupported, Supports
<1>6. Fits(reply, item)
  <2>1. ReusedAnswersFit
    BY AnswersFit
  <2> QED
    BY <1>1, <1>2, <2>1 DEF Classified, Answered, ReusedAnswersFit, Fits
<1>7. /\ got' = IF Splits(item, reply) THEN got
               ELSE [v \in Works |-> IF v \in Part(item) THEN Merged(item, reply.rows)[v] ELSE got[v]]
      /\ got \in [Works -> Works \cup {Stranger, None}]
  BY <1>1 DEF Classified, TypeInv, TypeOK
<1> HIDE DEF item
<1>8. CASE got'[w] = got[w]
  <2>1. PICK n \in DOMAIN files : Supports(files[n], w, got[w])
    BY <1>2, <1>8 DEF SupportInv, IsSupported
  <2>2. n \in DOMAIN files' /\ files'[n] = files[n]
    BY <1>5
  <2> QED
    BY <1>8, <2>1, <2>2
<1>9. CASE w \in Part(item) /\ got'[w] = Merged(item, reply.rows)[w]
  <2>1. PICK k \in RowsFor(item, reply.rows, w) : reply.rows[k].good /\ reply.rows[k].id = got'[w]
    BY <1>9, MergedIsRow
  <2>2. Part(reply) = Part(item)
    BY <1>6 DEF Fits, Part
  <2>3. RowsFor(reply, reply.rows, w) = RowsFor(item, reply.rows, w)
    BY <1>6, <2>2 DEF Fits, RowsFor
  <2>4. Supports(reply, w, got'[w])
    BY <1>9, <2>1, <2>2, <2>3 DEF Supports
  <2> QED
    BY <1>4, <2>4
<1> QED
  BY <1>7, <1>8, <1>9

LEMMA SupportStep == TypeInv /\ BulkInv /\ SupportInv /\ [Next]_vars => SupportInv'
<1> SUFFICES ASSUME TypeInv, BulkInv, SupportInv, [Next]_vars PROVE SupportInv'
  OBVIOUS
<1>1. ASSUME NEW c \in Concurrencies, Start(c) PROVE SupportInv'
  BY <1>1 DEF Start, SupportInv, IsSupported
<1>2. ASSUME NEW b \in Batches, Classify(b) PROVE SupportInv'
  BY <1>2, SupportClassify
<1>3. CASE Exit
  BY <1>3 DEF Exit, SupportInv
<1>4. ASSUME NEW b \in Batches, Fail(b) PROVE SupportInv'
  BY <1>3, <1>4 DEF Fail, SupportInv, IsSupported
<1>5. CASE Finish \/ Interrupt
  BY <1>3, <1>5 DEF Finish, Interrupt
<1>6. CASE UNCHANGED vars
  BY <1>6 DEF vars, SupportInv, IsSupported
<1> QED
  BY <1>1, <1>2, <1>4, <1>5, <1>6 DEF Next

LEMMA SupportInvariant == Spec => []SupportInv
<1>1. Init => SupportInv
  BY DEF Init, SupportInv
<1> QED
  BY <1>1, TypeInvariant, BulkInit, BulkStep, SupportStep, PTL DEF Spec

LEMMA WrittenIsGot == ASSUME Next, csv' # csv PROVE running /\ csv' = got
<1>1. Finish
  BY DEF Next, Start, Classify, Fail, Interrupt
<1> QED
  BY <1>1 DEF Finish

(* In the runs ReuseCorrect is about, whatever the model answers: what is  *)
(* written for a work comes from a complete row of an answer that was made *)
(* for a batch with the work, and the row names it, or stands in its place *)
(* where no row names it and there is one row for each work of the batch.  *)
THEOREM SupportCorrect == Spec => WrittenIsSupported
<1>1. SupportInv /\ [Next]_vars =>
        [csv' # csv /\ ~mixed =>
            \A w \in Works : csv'[w] # None =>
                \E n \in DOMAIN files : Supports(files[n], w, csv'[w])]_vars
  BY WrittenIsGot DEF SupportInv, IsSupported
<1> QED
  BY <1>1, SupportInvariant, PTL DEF Spec, WrittenIsSupported

(* In an answer whose rows name works of its batch, no work twice, there   *)
(* are as many rows as works only if every work is named.                  *)
LEMMA NamesAll ==
    ASSUME NEW reply \in Reply, WellFormed(reply), NEW w \in Part(reply),
           Len(reply.rows) = Cardinality(Part(reply))
    PROVE  Naming(reply.rows, w) # {}
<1> SUFFICES ASSUME \A k \in DOMAIN reply.rows : reply.rows[k].id # w PROVE FALSE
  BY DEF Naming
<1> DEFINE S == 1 .. Len(reply.rows)
           T == Part(reply) \ {w}
           names == [k \in S |-> reply.rows[k].id]
<1>1. reply.rows \in Seq(Row) /\ reply.lo \in Int /\ reply.hi \in Int
  BY BulkAssumption DEF Reply, Works
<1>2. Len(reply.rows) \in Nat /\ DOMAIN reply.rows = S
  BY <1>1
<1>3. IsFiniteSet(Part(reply))
  BY <1>1, FS_Interval DEF Part
<1>4. IsFiniteSet(T) /\ Cardinality(T) = Cardinality(Part(reply)) - 1
  BY <1>3, FS_RemoveElement
<1>5. IsFiniteSet(S) /\ Cardinality(S) = Len(reply.rows)
  <2>1. 1 \in Int /\ Len(reply.rows) \in Int /\ Len(reply.rows) - 1 + 1 = Len(reply.rows)
    BY <1>2
  <2>2. IsFiniteSet(S) /\ Cardinality(S) = IF 1 > Len(reply.rows) THEN 0 ELSE Len(reply.rows) - 1 + 1
    BY <2>1, FS_Interval
  <2> QED
    BY <1>2, <2>2
<1>6. names \in [S -> T]
  BY <1>2 DEF WellFormed
<1>7. Cardinality(T) < Cardinality(S)
  BY <1>2, <1>4, <1>5
<1> HIDE DEF S, T, names
<1>8. PICK j, k \in S : j # k /\ names[j] = names[k]
  BY <1>4, <1>5, <1>6, <1>7, FS_PigeonHole
<1> QED
  BY <1>2, <1>8 DEF WellFormed, names

LEMMA SupportedIsOwn ==
    ASSUME NEW reply \in Reply, WellFormed(reply), NEW w, NEW id, Supports(reply, w, id)
    PROVE  id = w
<1>1. w \in Part(reply)
  BY DEF Supports
<1>2. PICK k \in RowsFor(reply, reply.rows, w) : reply.rows[k].id = id
  BY DEF Supports
<1>3. Naming(reply.rows, w) # {}
  BY <1>1, <1>2, NamesAll DEF RowsFor
<1> QED
  BY <1>2, <1>3 DEF RowsFor, Naming

(* If moreover the model names in each answer only works of the batch, and *)
(* none twice, then a run that is the only one, or that has one worker     *)
(* like all before it, writes for each work what was said of that work: it *)
(* takes several workers and a second run for WrittenIsOwn to fail.        *)
WritesOwn ==
    [][csv' # csv /\ ~mixed /\ (\A n \in DOMAIN files : WellFormed(files[n])) =>
          \A w \in Works : csv'[w] \in {w, None}]_vars

THEOREM OwnCorrect == Spec => WritesOwn
<1>1. TypeInv /\ SupportInv /\ [Next]_vars =>
        [csv' # csv /\ ~mixed /\ (\A n \in DOMAIN files : WellFormed(files[n])) =>
            \A w \in Works : csv'[w] \in {w, None}]_vars
  <2> SUFFICES ASSUME TypeInv, SupportInv, Next, csv' # csv, ~mixed,
                      \A n \in DOMAIN files : WellFormed(files[n]),
                      NEW w \in Works, csv'[w] # None
               PROVE  csv'[w] = w
    OBVIOUS
  <2>1. running /\ csv' = got
    BY WrittenIsGot
  <2>2. PICK n \in DOMAIN files : Supports(files[n], w, got[w])
    BY <2>1 DEF SupportInv, IsSupported
  <2>3. files[n] \in Reply
    BY DEF TypeInv, TypeOK
  <2> QED
    BY <2>1, <2>2, <2>3, SupportedIsOwn
<1> QED
  BY <1>1, TypeInvariant, SupportInvariant, PTL DEF Spec, WritesOwn
=============================================================================
