------------------------------ MODULE TraceStore ------------------------------
(***************************************************************************)
(* What the trace registry of libkieker promises to the probes, with every *)
(* operation in one step: each thread has at most one current trace, only  *)
(* the thread itself starts and ends it, and a trace that is open is never *)
(* exchanged for another one.  TraceRegistry implements this with a hash   *)
(* table, a read/write lock and heap objects.                              *)
(***************************************************************************)
CONSTANTS
  Thread,    \* the threads of the instrumented program
  TraceId,   \* the numbers a trace can have
  NoTrace    \* not a TraceId: this thread has no open trace

VARIABLE current   \* current[t] is the id of the open trace of t, or NoTrace

TypeOK == current \in [Thread -> TraceId \cup {NoTrace}]

Init == current = [t \in Thread |-> NoTrace]

\* kieker_trace_get for a thread that has no trace yet.
Start(t) ==
  /\ current[t] = NoTrace
  /\ current'[t] \in TraceId
  /\ current' = [current EXCEPT ![t] = current'[t]]

\* kieker_trace_remove.
End(t) ==
  /\ current[t] # NoTrace
  /\ current' = [current EXCEPT ![t] = NoTrace]

Next == \E t \in Thread : Start(t) \/ End(t)

Spec == Init /\ [][Next]_current
===============================================================================
