------------------------------ MODULE MCTaskPage ------------------------------
(* Instances of TaskPage for TLC. *)
EXTENDS TaskPage

TwoTasks == <<Task(1, 1), Task(2, 2)>>
=============================================================================
