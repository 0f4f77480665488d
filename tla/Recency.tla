-------------------------------- MODULE Recency --------------------------------
(***************************************************************************)
(* The order in which the members of a set were last written or used, kept *)
(* as the members before each: what an updated_at column says of the rows  *)
(* of a table, and the order of insertion of a JavaScript Map.             *)
(***************************************************************************)
EXTENDS Naturals, FiniteSets

(* before is an order of the members of S, and says nothing of others.     *)
Orders(before, S) ==
    /\ S \subseteq DOMAIN before
    /\ \A x \in DOMAIN before : before[x] \subseteq S /\ x \notin before[x]
    /\ \A x \in DOMAIN before \ S : before[x] = {}
    /\ \A x, y \in S : x # y => x \in before[y] \/ y \in before[x]
    /\ \A x, y \in S : x \in before[y] => before[x] \subseteq before[y]

(* x becomes the last of S and itself.                                     *)
M_Renew(before, S, x) == [before EXCEPT ![x] = S]
Renew(before, S, x) ==
    [y \in DOMAIN before |-> IF y = x THEN S \ {x} ELSE before[y] \ {x}]

(* Members are taken out.                                                  *)
Without(before, gone) ==
    [y \in DOMAIN before |-> IF y \in gone THEN {} ELSE before[y] \ gone]

(* How many members of S came after x.                                     *)
After(before, S, x) == Cardinality({y \in S : x \in before[y]})
=============================================================================
