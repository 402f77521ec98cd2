---------------------------- MODULE MCOfflineQueue ----------------------------
(* Small instances of OfflineQueue for TLC: users of one organization. *)
EXTENDS OfflineQueue

TogetherTasksOf == [who \in Identity |-> Task]
=============================================================================
