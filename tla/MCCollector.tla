---------------------------- MODULE MCCollector ----------------------------
(* One log file and its writer; two inodes, so that one is used again. *)
EXTENDS Collector
=============================================================================
