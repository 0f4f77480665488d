------------------------- MODULE MCBulkClassification -------------------------
(***************************************************************************)
(* Four works in batches of two, in up to two runs, and answers in which   *)
(* rows are missing, incomplete, swapped, doubled, or name another work or *)
(* none.                                                                   *)
(***************************************************************************)
EXTENDS BulkClassification

Good(w) == [id |-> w, good |-> TRUE]
Poor(w) == [id |-> w, good |-> FALSE]
Other(lo) == IF lo = 1 THEN NumWorks ELSE 1

MCAnswers ==
    [lo \in Works |-> [hi \in Works |->
        IF lo = hi
        THEN {<<>>, <<Good(lo)>>, <<Poor(lo)>>, <<Good(Stranger)>>}
        ELSE {<<>>,
              <<Good(hi)>>,
              <<Good(lo), Good(hi)>>,
              <<Good(hi), Good(lo)>>,
              <<Good(lo), Poor(hi)>>,
              <<Good(lo), Good(lo)>>,
              <<Good(lo), Good(Stranger)>>,
              <<Poor(lo), Good(hi), Good(lo)>>,
              <<Good(Other(lo)), Good(hi)>>}]]
=============================================================================
