------------------------------ MODULE HaltTable ------------------------------
(***************************************************************************)
(* What the halt_state table promises its readers (repositories/halts.py): *)
(* a halt is raised once and cleared once; a cleared halt never stops an   *)
(* agent again, and stopping again takes a new row.                        *)
(***************************************************************************)
CONSTANTS Ids   \* ids of rows of halt_state

VARIABLE status \* [Ids -> "unset", "active" or "cleared"]

Init == status = [h \in Ids |-> "unset"]

(* A row is inserted, by an operator or by the budget monitor.             *)
Raise(h) ==
  /\ status[h] = "unset"
  /\ status' = [status EXCEPT ![h] = "active"]

Active == {h \in Ids : status[h] = "active"}

(* Rows stop being active: one that is cleared, or all of those of a       *)
(* budget that is deleted.                                                 *)
Clear(H) == status' = [h \in Ids |-> IF h \in H THEN "cleared" ELSE status[h]]

Next == \/ \E h \in Ids : Raise(h)
        \/ \E H \in SUBSET Active : Clear(H)

Spec == Init /\ [][Next]_status
=============================================================================
