-------------------------- MODULE MCParallelExecutor --------------------------
(***************************************************************************)
(* A batch larger than the guard, an empty batch, and a batch after them.  *)
(***************************************************************************)
EXTENDS ParallelExecutor

MCBatchSizes == <<4, 0, 2>>

=============================================================================
