---------------------------- MODULE MCToolWorker ----------------------------
(* Instances of ToolWorker for TLC *)
EXTENDS ToolWorker, TLC

PidSymmetry == Permutations(Pids)

=============================================================================
