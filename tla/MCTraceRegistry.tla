--------------------------- MODULE MCTraceRegistry ----------------------------
(* Instances of TraceRegistry for TLC. *)
EXTENDS TraceRegistry

CONSTANTS t1, t2, o1, o2

\* Every thread with a pthread_self() that differs in the low 32 bits.
OwnKeys == [t \in Thread |-> IF t = t1 THEN 11 ELSE 12]
===============================================================================
