----------------------------- MODULE AspectProbes -----------------------------
(***************************************************************************)
(* The probes of libkieker that AspectC++ weaves around the operations of  *)
(* a program (monitoring/probes/aspect/event_trace.c and controlflow.c):   *)
(* the event aspect, which writes an event before and one after each       *)
(* operation whose class is not excluded, and the control flow aspect,     *)
(* which makes one record of an operation when it returns.                 *)
(*                                                                         *)
(* The aspects keep the pointer to the trace object during the operation.  *)
(* The registry is the atomic one of TraceStore, and a probe is one step:  *)
(* probes do not overlap.  The list of classes is that of                  *)
(* AdaptiveMonitoring; the collector knows all strings.                    *)
(***************************************************************************)
EXTENDS AdaptiveMonitoring, SequencesExt

CONSTANTS
  Thread,     \* the threads of the program
  NoTrace,    \* no object in the registry
  InitialId,  \* kieker_trace_current_id after kieker_trace_init
  MaxDepth,   \* bound on the nesting of operations in a thread
  MaxCalls    \* bound on the operations of a run

ASSUME AspectBoundsAssumption == MaxDepth \in Nat /\ MaxCalls \in Nat /\ InitialId \in Nat
ASSUME NoTraceAssumption == NoTrace \notin [trace_id : Nat, order_index : Int, stack : Nat]

VARIABLES
  aspect,     \* which of the two aspects is woven into the program
  trace,      \* per thread: the fields of its trace object
  kieker_trace_current_id,
  frames,     \* per thread: the operations it is in, with the record of the advice
  thrown,     \* the threads in which an operation ended with an exception
  lost,       \* TRUE once a write failed
  buffer,     \* the send buffer of the controller: what a send will write
  finished,   \* per thread: the operation records made, as they are in trace->buffer
  log,        \* what reached the collector
  calls       \* the number of operations so far

program_vars == <<frames, thrown, calls>>
aspect_vars == <<aspect, trace, kieker_trace_current_id, program_vars, lost, buffer, finished, log>>
vars == <<adaptive_vars, aspect_vars>>

-----------------------------------------------------------------------------
(* The registry and the socket.                                             *)

\* kieker_trace_get, with kieker_trace_create.
Got(t) ==
  IF trace[t] # NoTrace THEN trace[t]
  ELSE [trace_id |-> kieker_trace_current_id, order_index |-> -1, stack |-> 0]

NextId(t) ==
  kieker_trace_current_id' = kieker_trace_current_id + (IF trace[t] = NoTrace THEN 1 ELSE 0)

\* What register_event_types leaves in the buffer: the keys of three type names.
TypeKeys == <<[type |-> "keys"]>>

MetadataRecord(tr) == [type |-> "metadata", trace |-> tr.trace_id]

EventRecord(type, tr, class) ==
  [type |-> type, trace |-> tr.trace_id, order |-> tr.order_index, class |-> class]

\* kieker_controller_send of what is in the buffer.
Send(records) ==
  \/ log' = log \o records /\ UNCHANGED lost
  \/ lost' = TRUE /\ UNCHANGED log

Running == load = "done" /\ UNCHANGED <<adaptive_vars, aspect>>

\* Seeded bug: the object is removed when one operation is left.
EndOfTraceEarly(t, tr) == trace' = [trace EXCEPT ![t] = IF tr.stack = 1 THEN NoTrace ELSE tr]

\* if (trace->stack == -1) kieker_trace_remove(trace).
EndOfTrace(t, tr) == trace' = [trace EXCEPT ![t] = IF tr.stack = -1 THEN NoTrace ELSE tr]

-----------------------------------------------------------------------------
(* The event aspect.                                                        *)

\* Seeded bug: the order index is not incremented.
EventBeforeUncounted(t, class) ==
  /\ Running /\ aspect = "event"
  /\ calls < MaxCalls /\ Len(frames[t]) < MaxDepth /\ calls' = calls + 1
  /\ NextId(t)
  /\ LET got == Got(t)
         metadata == IF got.order_index = -1 THEN <<MetadataRecord(got)>> ELSE <<>>
         counted == [got EXCEPT !.stack = @ + 1]
     IN  /\ trace' = [trace EXCEPT ![t] = counted]
         /\ IF Excluded(class)
            THEN /\ buffer' = IF metadata = <<>> THEN buffer ELSE metadata
                 /\ UNCHANGED <<log, lost>>
            ELSE buffer' = Append(metadata, EventRecord("before", counted, class)) /\ Send(buffer')
  /\ frames' = [frames EXCEPT ![t] = Append(@, [class |-> class])]
  /\ UNCHANGED <<thrown, finished>>

\* kieker_probe_aspect_event_before_operation.
EventBefore(t, class) ==
  /\ Running /\ aspect = "event"
  /\ calls < MaxCalls /\ Len(frames[t]) < MaxDepth /\ calls' = calls + 1
  /\ NextId(t)
  /\ LET got == Got(t)
         metadata == IF got.order_index = -1 THEN <<MetadataRecord(got)>> ELSE <<>>
         counted == [got EXCEPT !.stack = @ + 1]
         sent == [counted EXCEPT !.order_index = @ + 1]
     IN  IF Excluded(class)
         THEN /\ trace' = [trace EXCEPT ![t] = counted]
              /\ buffer' = IF metadata = <<>> THEN buffer ELSE metadata
              /\ UNCHANGED <<log, lost>>
         ELSE /\ trace' = [trace EXCEPT ![t] = sent]
              /\ buffer' = Append(metadata, EventRecord("before", sent, class))
              /\ Send(buffer')
  /\ frames' = [frames EXCEPT ![t] = Append(@, [class |-> class])]
  /\ UNCHANGED <<thrown, finished>>

\* Seeded bug: the after event is sent whether the class is excluded or not.
EventAfterUnasked(t) ==
  /\ Running /\ aspect = "event" /\ frames[t] # <<>>
  /\ EndOfTrace(t, [trace[t] EXCEPT !.order_index = @ + 1, !.stack = @ - 1])
  /\ buffer' = <<EventRecord("after", trace[t], Last(frames[t]).class)>> /\ Send(buffer')
  /\ frames' = [frames EXCEPT ![t] = Front(@)]
  /\ UNCHANGED <<kieker_trace_current_id, thrown, calls, finished>>

\* kieker_probe_aspect_event_after_operation: the record is made before order_index
\* is incremented.
EventAfter(t) ==
  /\ Running /\ aspect = "event" /\ frames[t] # <<>>
  /\ LET class == Last(frames[t]).class
         shown == IF Excluded(class) THEN trace[t] ELSE [trace[t] EXCEPT !.order_index = @ + 1]
     IN  /\ EndOfTrace(t, [shown EXCEPT !.stack = @ - 1])
         /\ IF Excluded(class) THEN UNCHANGED <<buffer, log, lost>>
            ELSE buffer' = <<EventRecord("after", trace[t], class)>> /\ Send(buffer')
  /\ frames' = [frames EXCEPT ![t] = Front(@)]
  /\ UNCHANGED <<kieker_trace_current_id, thrown, calls, finished>>

-----------------------------------------------------------------------------
(* The control flow aspect.                                                 *)

\* kieker_probe_aspect_controlflow_before; the record is a variable of the advice.
FlowBefore(t, class) ==
  /\ Running /\ aspect = "controlflow"
  /\ calls < MaxCalls /\ Len(frames[t]) < MaxDepth /\ calls' = calls + 1
  /\ NextId(t)
  /\ LET indexed == [Got(t) EXCEPT !.order_index = @ + 1]
         counted == [indexed EXCEPT !.stack = @ + 1]
     IN  /\ trace' = [trace EXCEPT ![t] = counted]
         /\ frames' = [frames EXCEPT ![t] =
              Append(@, [class |-> class, trace |-> counted.trace_id,
                         eoi |-> counted.order_index, ess |-> counted.stack])]
  /\ UNCHANGED <<thrown, lost, buffer, finished, log>>

\* Seeded bug: the stack is not counted down.
FlowAfterUncounted(t) ==
  /\ Running /\ aspect = "controlflow" /\ frames[t] # <<>>
  /\ finished' = [finished EXCEPT ![t] = Append(@, Last(frames[t]))]
  /\ Send(buffer)
  /\ EndOfTrace(t, trace[t])
  /\ frames' = [frames EXCEPT ![t] = Front(@)]
  /\ UNCHANGED <<kieker_trace_current_id, thrown, calls, buffer>>

\* kieker_probe_aspect_controlflow_after and _after2, which the advice calls in a
\* row: the record is put into trace->buffer, and the controller's buffer is sent.
FlowAfter(t) ==
  /\ Running /\ aspect = "controlflow" /\ frames[t] # <<>>
  /\ finished' = [finished EXCEPT ![t] = Append(@, Last(frames[t]))]
  /\ Send(buffer)
  /\ EndOfTrace(t, [trace[t] EXCEPT !.stack = @ - 1])
  /\ frames' = [frames EXCEPT ![t] = Front(@)]
  /\ UNCHANGED <<kieker_trace_current_id, thrown, calls, buffer>>

-----------------------------------------------------------------------------
\* An operation ends with an exception: the around advice calls nothing after it.
Throw(t) ==
  /\ Running /\ frames[t] # <<>>
  /\ frames' = [frames EXCEPT ![t] = Front(@)]
  /\ thrown' = thrown \cup {t}
  /\ UNCHANGED <<trace, kieker_trace_current_id, lost, buffer, finished, log, calls>>

\* The constructor of the aspect: the event aspect loads its list, and the program
\* ends with exit(-1) when that fails.  The file is forgotten.
Load == aspect = "event" /\ LoaderStep /\ UNCHANGED aspect_vars

Start ==
  /\ \/ aspect = "controlflow" /\ load = "open"
     \/ aspect = "event" /\ load = "loaded" /\ result = 0
  /\ load' = "done" /\ file' = NoContent /\ line' = 0 /\ i' = 0
  /\ UNCHANGED <<result, table_vars, aspect_vars>>

\* The bound on operations is used up, or the program has exited.
Over ==
  /\ \/ load = "loaded" /\ result # 0
     \/ load = "done" /\ calls = MaxCalls /\ \A t \in Thread : frames[t] = <<>>
  /\ UNCHANGED vars

Init ==
  /\ AdaptiveInit
  /\ \/ aspect = "event" /\ file \in Files
     \/ aspect = "controlflow" /\ file = NoContent
  /\ trace = [t \in Thread |-> NoTrace]
  /\ kieker_trace_current_id = InitialId
  /\ frames = [t \in Thread |-> <<>>] /\ thrown = {} /\ calls = 0
  /\ lost = FALSE /\ buffer = TypeKeys
  /\ finished = [t \in Thread |-> <<>>] /\ log = <<>>

ThreadStep(t) ==
  \/ \E class \in Class : EventBefore(t, class) \/ FlowBefore(t, class)
  \/ EventAfter(t) \/ FlowAfter(t) \/ Throw(t)

Next == Load \/ Start \/ (\E t \in Thread : ThreadStep(t)) \/ Over

Spec == Init /\ [][Next]_vars

-----------------------------------------------------------------------------
(* Properties.                                                              *)

IsEvent(e) == e.type \in {"before", "after"}

\* The operations a trace is in after an event, innermost last.
Follow(inside, e) ==
  IF e.type = "before" THEN Append(inside, e.class)
  ELSE IF inside # <<>> /\ Last(inside) = e.class THEN Front(inside)
  ELSE <<"mismatch">>

\* The operations the records l tell a trace is in.
Told(l, id) ==
  LET inside[n \in 0 .. Len(l)] ==
        IF n = 0 THEN <<>>
        ELSE IF IsEvent(l[n]) /\ l[n].trace = id THEN Follow(inside[n - 1], l[n])
        ELSE inside[n - 1]
  IN  inside[Len(l)]

Hidden == {class \in Class : Excluded(class)}

\* The classes of the operations f that are not hidden.
Shown(f, hidden) ==
  LET shown[n \in 0 .. Len(f)] ==
        IF n = 0 THEN <<>>
        ELSE IF f[n].class \in hidden THEN shown[n - 1]
        ELSE Append(shown[n - 1], f[n].class)
  IN  shown[Len(f)]

\* Unless a write failed or an operation threw an exception, the log of a thread tells
\* in which operations of classes that are not excluded it is.
LogTellsShownFrames ==
  load = "done" /\ aspect = "event" /\ ~lost =>
    \A t \in Thread \ thrown :
      (IF trace[t] = NoTrace THEN <<>> ELSE Told(log, trace[t].trace_id))
        = Shown(frames[t], Hidden)

\* Whatever is lost or thrown, within a trace the order indexes never fall, and a
\* before event has one of its own: only an after event repeats the one before it.
OrderNeverFalls ==
  \A m, n \in DOMAIN log :
    m < n /\ IsEvent(log[m]) /\ IsEvent(log[n]) /\ log[m].trace = log[n].trace =>
      /\ log[m].order =< log[n].order
      /\ log[n].type = "before" => log[m].order < log[n].order

\* A trace is announced by metadata once, before its first event; not at all if that
\* write was lost, never again.
MetadataFirst ==
  \A n \in DOMAIN log : log[n].type # "keys" =>
    IF log[n].type = "metadata"
    THEN \A m \in 1 .. n - 1 : log[m].type = "keys" \/ log[m].trace # log[n].trace
    ELSE lost \/ \E m \in 1 .. n - 1 : log[m].type = "metadata" /\ log[m].trace = log[n].trace

\* The comment "detect end of trace" of the aspects: a trace does not end before the
\* operations in it.  While a thread goes from one operation into another or back, by
\* a return or an exception, it keeps its trace; when it is in none the trace may end.
NoEndInside ==
  [][\A t \in Thread : frames[t] # <<>> /\ frames'[t] # <<>> =>
       /\ trace[t] # NoTrace /\ trace'[t] # NoTrace
       /\ trace'[t].trace_id = trace[t].trace_id]_vars

\* The operations of r that finished after the n-th and were entered before it.
Outside(r, n) == {m \in DOMAIN r : m > n /\ r[m].eoi < r[n].eoi}

\* The operation records of a thread tell its call tree: an operation that finished
\* earlier and was entered later is inside, and ess counts the operations around.
FlowTellsCallTree ==
  \A t \in Thread \ thrown : frames[t] = <<>> =>
    \A n \in DOMAIN finished[t] :
      finished[t][n].ess = 1 + Cardinality(Outside(finished[t], n))

\* The comment in trace_kirat_monitoring.ah: the data is sent.  Without lost writes
\* the collector has each operation record that was made.
FlowRecordsArrive ==
  ~lost => \A t \in Thread : \A n \in DOMAIN finished[t] : finished[t][n] \in ToSet(log)

LogEntry ==
  [type : {"keys"}] \cup [type : {"metadata"}, trace : Nat]
    \cup [type : {"before", "after"}, trace : Nat, order : Nat, class : Class]

\* What the advice keeps of an operation it surrounds.
Frame == [class : Class] \cup [class : Class, trace : Nat, eoi : Nat, ess : Nat]

\* The fields of a trace object that count.
Object == [trace_id : Nat, order_index : Nat \cup {-1}, stack : Nat]

TypeInv ==
  /\ aspect \in {"event", "controlflow"} /\ kieker_trace_current_id \in Nat
  /\ log \in Seq(LogEntry) /\ buffer \in Seq(LogEntry)
  /\ frames \in [Thread -> Seq(Frame)]
  /\ lost \in BOOLEAN
  /\ trace \in [Thread -> Object \cup {NoTrace}]

\* Before the aspect is made there are no traces; a thread inside an operation has
\* one, whose stack is at least its depth, and which no other thread has.
TraceInv ==
  /\ \A t \in Thread :
       IF trace[t] = NoTrace THEN frames[t] = <<>>
       ELSE /\ load = "done"
            /\ trace[t].trace_id < kieker_trace_current_id
            /\ trace[t].stack >= Len(frames[t])
            /\ aspect = "event" =>
                 \A n \in DOMAIN frames[t] :
                   frames[t][n].class \in Hidden \/ trace[t].order_index >= 0
  /\ \A t, u \in Thread :
       trace[t] # NoTrace /\ trace[u] # NoTrace /\ trace[t].trace_id = trace[u].trace_id => t = u

\* What the log says of a trace, its trace object knows: no event is ahead of it, and
\* a trace with a record in the log has left the order index -1.
LogInv ==
  /\ \A n \in DOMAIN log : log[n].type # "keys" =>
       /\ log[n].trace < kieker_trace_current_id
       /\ \A t \in Thread : trace[t] # NoTrace /\ log[n].trace = trace[t].trace_id =>
            /\ trace[t].order_index >= 0
            /\ IsEvent(log[n]) => log[n].order =< trace[t].order_index
  /\ aspect = "event" => \A t \in Thread : trace[t] # NoTrace /\ trace[t].order_index >= 0 =>
       lost \/ \E n \in DOMAIN log :
                 log[n].type = "metadata" /\ log[n].trace = trace[t].trace_id
  /\ aspect = "controlflow" => buffer = TypeKeys

\* The array stays whole; stacks, order indexes, frames and log agree, so that no
\* order index falls and no trace is without its metadata.
ProbesInv ==
  /\ AdaptiveInv /\ TypeInv /\ TraceInv /\ LogInv
  /\ OrderNeverFalls /\ MetadataFirst

FlowRecord == [class : Class, trace : Nat, eoi : Nat, ess : Nat]

\* The operations of f that were entered before the index eoi.
Around(f, eoi) == {j \in DOMAIN f : f[j].eoi < eoi}

\* A thread no exception has passed, in the operations f, with the operation records r:
\* the stack is its depth, ess the depth at which an operation was entered, and the
\* indexes of entry ascend; of the operations around a finished one some are finished
\* and some are not.
FlowFits(tr, f, r) ==
  /\ f \in Seq(FlowRecord) /\ r \in Seq(FlowRecord)
  /\ tr = NoTrace => r = <<>>
  /\ tr # NoTrace =>
       /\ tr.stack = Len(f)
       /\ \A j \in DOMAIN f :
            /\ f[j].ess = j /\ f[j].eoi =< tr.order_index
            /\ \A k \in 1 .. j - 1 : f[k].eoi < f[j].eoi
       /\ \A n \in DOMAIN r :
            /\ r[n].eoi =< tr.order_index
            /\ r[n].ess = 1 + Cardinality(Outside(r, n)) + Cardinality(Around(f, r[n].eoi))

FlowInv ==
  /\ finished \in [Thread -> Seq(Frame)]
  /\ aspect = "event" => \A t \in Thread : finished[t] = <<>>
  /\ aspect = "controlflow" =>
       \A t \in Thread \ thrown : FlowFits(trace[t], frames[t], finished[t])

\* The same, and the array holds what the list says, the log tells where the threads
\* are, and the operation records tell their call trees.
AspectInv == ProbesInv /\ ListInv /\ LogTellsShownFrames /\ FlowInv
===============================================================================
