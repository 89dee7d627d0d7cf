------------------------------ MODULE MCBackup ------------------------------
(* A live directory, its backup and what is restored from the backup. *)
EXTENDS Backup, TLC

CONSTANTS d1, d2, d3

MCSymmetry == Permutations(Directories \ {Live}) \cup Permutations(Commands)
                \cup Permutations(Plans)
=============================================================================
