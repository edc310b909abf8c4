---------------------------- MODULE MCTaskQueue ----------------------------
(* Small clusters for TLC.  All tasks are of one type.                      *)
EXTENDS TaskQueue, TLC

OneType == [t \in Task |-> CHOOSE ty \in Type : TRUE]

ThreadSymmetry == Permutations(Thread)
NodeSymmetry == Permutations(Node)
=============================================================================
