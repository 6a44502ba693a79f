---------------------- MODULE MCExecutionStateMachine -----------------------
(* The execution state machine with two threads. *)
EXTENDS ExecutionStateMachine
=============================================================================
