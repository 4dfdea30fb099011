----------------------------- MODULE MonitoringLog ----------------------------
(***************************************************************************)
(* What the probes promise to whoever reads the log: for every thread the  *)
(* log tells which operations it entered and left, in the order in which   *)
(* it did, cut into traces.  A trace starts when a thread enters an        *)
(* operation while it is in none, ends when it leaves the last one, and    *)
(* numbers its events from 0 without a gap.                                *)
(*                                                                         *)
(* The only state is the log: everything else follows from it.             *)
(***************************************************************************)
EXTENDS Integers, FiniteSets, Sequences, SequencesExt

CONSTANTS
  ThreadKey,   \* the threads, as the log names them
  TraceId,     \* the ids of traces
  Op,          \* the operations of the instrumented program
  Origin       \* what the log says of the process: its session and host

VARIABLE log

Metadata(id, k) == [type |-> "metadata", trace |-> id, thread |-> k, texts |-> Origin]
BeforeEvent(id, n, op) == [type |-> "before", trace |-> id, order |-> n, texts |-> op]
AfterEvent(id, n, op) == [type |-> "after", trace |-> id, order |-> n, texts |-> op]

\* Where the log tells of events of a trace.
EventsOf(id) == {n \in DOMAIN log : log[n].trace = id /\ log[n].type # "metadata"}
Started(id) == \E n \in DOMAIN log : log[n].trace = id

\* The operations a trace is in after an event, innermost last.
After(ops, e) == IF e.type = "before" THEN Append(ops, e.texts) ELSE Front(ops)

\* The operations a trace is in at each length of the records l.
InsideAt(l, id) ==
  LET inside[n \in 0 .. Len(l)] ==
        IF n = 0 THEN <<>>
        ELSE IF l[n].trace = id /\ l[n].type # "metadata" THEN After(inside[n - 1], l[n])
        ELSE inside[n - 1]
  IN  inside

Inside(id) == InsideAt(log, id)[Len(log)]

OpenTraces(k) ==
  {id \in TraceId : Metadata(id, k) \in ToSet(log) /\ Inside(id) # <<>>}

Init == log = <<>>

\* A thread in no operation enters one: a new trace starts.
Begin(k, op) ==
  /\ OpenTraces(k) = {}
  /\ \E id \in TraceId :
       /\ ~Started(id)
       /\ log' = log \o <<Metadata(id, k), BeforeEvent(id, 0, op)>>

Enter(k, op) ==
  \E id \in OpenTraces(k) :
    log' = Append(log, BeforeEvent(id, Cardinality(EventsOf(id)), op))

\* A thread leaves the operation it entered last.
Leave(k) ==
  \E id \in OpenTraces(k) :
    log' = Append(log, AfterEvent(id, Cardinality(EventsOf(id)), Last(Inside(id))))

Next == \E k \in ThreadKey : Leave(k) \/ \E op \in Op : Begin(k, op) \/ Enter(k, op)

Spec == Init /\ [][Next]_log
===============================================================================
