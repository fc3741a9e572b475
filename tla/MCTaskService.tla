---------------------------- MODULE MCTaskService ----------------------------
(* TLC instance of TaskService.  Tasks are interchangeable, so a submission *)
(* takes the first name that is still unused: a symmetry reduction by hand, *)
(* which, unlike TLC's, may be used for liveness too.                      *)
EXTENDS TaskService

CONSTANTS t1, t2, t3, t4

Tasks == {t1, t2, t3, t4}
Order == <<t1, t2, t3, t4>>

InOrder ==
  \A i, j \in 1..4 : i < j /\ pc[Order[j]] # "absent" => pc[Order[i]] # "absent"

(* At most two of the tasks are asked to cancel.                            *)
FewCancelled == Cardinality(asking) <= 2

MCSpec == Init /\ [][Next /\ InOrder' /\ FewCancelled']_vars /\ \A t \in Task : WF_vars(Work(t))
=============================================================================
