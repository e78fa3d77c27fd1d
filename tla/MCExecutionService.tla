------------------------- MODULE MCExecutionService -------------------------
(* Instances of the service for TLC.                                       *)
EXTENDS ExecutionService, TLC

\* A hash without collisions: each program is a slot of its own.
HashIdentity == [p \in Program |-> p]

\* Executions are told apart by nothing but their ids.
Symmetry == Permutations(Handlers)
=============================================================================
