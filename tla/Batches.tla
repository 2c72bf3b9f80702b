------------------------------- MODULE Batches -------------------------------
(***************************************************************************)
(* The argument of executor.Executor.Run, [][]Executable: a list of        *)
(* batches, each a list of executables.  An executable is identified by    *)
(* its batch and its place in it; a batch may be empty.                    *)
(***************************************************************************)
EXTENDS Naturals, Sequences

CONSTANT BatchSizes    \* the number of executables in each batch

ASSUME BatchSizesAssumption == BatchSizes \in Seq(Nat)

Batches == DOMAIN BatchSizes
ExecutablesOf(b) == {b} \X (1 .. BatchSizes[b])
Executables == UNION {ExecutablesOf(b) : b \in Batches}

=============================================================================
