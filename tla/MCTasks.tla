------------------------------ MODULE MCTasks ------------------------------
(* One format, so two kinds of tasks for its case, over two days. *)
EXTENDS Tasks
=============================================================================
