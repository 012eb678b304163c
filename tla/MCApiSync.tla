------------------------------ MODULE MCApiSync ------------------------------
(***************************************************************************)
(* ApiSync on small instances: the changes of a one-off reminder, created  *)
(* in second 1, deleted in second 2 (and edited in a later one).           *)
(***************************************************************************)
EXTENDS ApiSync, TLC

CONSTANTS alice, i1, Stamps

MCPeriod == [m \in Messages |-> 0]

Edit(i, t) ==
  [id |-> i,
   row |-> [NewRow(CHOOSE m \in Messages : TRUE, 0, t) EXCEPT !.deleted = (t = 2)]]

(* alice's devices hold every reminder; one of them was bob's once, and he *)
(* still pushes the first version of i1.                                   *)
AlicesChanges == {Edit(i, 1) : i \in Ids} \cup {Edit(i1, t) : t \in Stamps}
BobsChanges == {Edit(i1, 1)}

MCChanges ==
  [u \in Users |-> IF u = alice THEN AlicesChanges ELSE BobsChanges]
=============================================================================
