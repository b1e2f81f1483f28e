------------------------- MODULE MCExecutionDispatch -------------------------
(* A small instance of ExecutionDispatch: one dispatcher, or two.           *)
EXTENDS ExecutionDispatch

CONSTANTS d1, d2

OneOrTwo == {{d1}, {d1, d2}}

\* Every step may raise, before and after the start of a process.
FaultPoints == Guarded \cup {"load", "poll"}
=============================================================================
