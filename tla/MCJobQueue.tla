----------------------------- MODULE MCJobQueue -----------------------------
(* JobQueue alone for TLC: no job is retried.                              *)
EXTENDS JobQueue

CONSTANTS a, b, c

NoneRetries == [j \in Jobs |-> 0]
=============================================================================
