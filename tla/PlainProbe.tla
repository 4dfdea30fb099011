------------------------------ MODULE PlainProbe ------------------------------
(***************************************************************************)
(* The plain probes of libkieker (monitoring/probes/kieker_probe_plain.c   *)
(* and kieker_probe_events.c) at work: an instrumented program calls       *)
(* kieker_probe_before_operation_event and _after_operation_event, these   *)
(* fetch the trace object of the thread from the registry, put one or two  *)
(* records into the send buffer of the controller and write it out.        *)
(*                                                                         *)
(* The registry is the one of TraceRegistry, step for step.  The buffer    *)
(* holds whole records at the offsets they are serialised to.  The strings *)
(* of a record are looked up one after the other before it is made: a step *)
(* is one access to the table, its counter, the string buffer or the       *)
(* socket, as in StringLookup, but for the loop over the table, which is   *)
(* one step here, and the growth of the array, which is left to that       *)
(* module.  The collector decodes what reaches it with the strings it has  *)
(* been told so far.                                                       *)
(*                                                                         *)
(* The probes of gcc's -finstrument-functions                              *)
(* (kieker_probe_gcc_profiling.c) are the same functions, called with a    *)
(* name that kieker_controller_get_operation_fqn formats into one static   *)
(* buffer.                                                                 *)
(***************************************************************************)
EXTENDS TraceRegistry, Sequences, SequencesExt

CONSTANTS
  Op,            \* the operations of the program, by their signature
  ClassName,     \* the class signature passed with all of them
  NoSession,     \* "<no-session>"
  LocalHost,     \* kieker_controller_get_hostname()
  NoMessage,     \* buffer contents that are no record
  MaxDepth,      \* bound on the nesting of operations in a thread
  MaxCalls,      \* bound on the probe calls of a run
  MayUnwind,     \* TRUE: a thread may end inside its operations
  WriteMayFail,  \* TRUE: write() may return -1
  GccProfiling   \* TRUE: the probes are called by those for gcc

ASSUME ProbeBoundsAssumption == MaxDepth \in Nat /\ MaxCalls \in Nat
ASSUME ProbeSwitchAssumption ==
  MayUnwind \in BOOLEAN /\ WriteMayFail \in BOOLEAN /\ GccProfiling \in BOOLEAN

VARIABLES
  order_index, stack,  \* the fields of the trace objects the probes use
  frames,              \* per thread: the operations it is in, innermost last
  fqn,                 \* kieker_controllor_get_operation_fqn_result
  call,                \* per thread: the probe it runs and the operation
  step,                \* per thread: how far it got
  position,            \* per thread: the local variable position
  buffer,              \* the send buffer: offset -> record
  table,               \* kieker_lookup_string_list: the cells ever written
  top,                 \* kieker_lookup_table_top
  string_buffer,       \* the announcement being written: id and text
  lookup, value, at,   \* per thread: place in the lookup, the copied string, its cell
  keys,                \* per thread: the keys found for the record being made
  announced,           \* the strings the collector knows: key -> text
  log,                 \* the records the collector received, decoded
  calls                \* the number of probe calls so far

object_vars == <<order_index, stack>>
program_vars == <<frames, calls, fqn>>
wire_vars == <<announced, log>>
lookup_vars == <<top, string_buffer, lookup, value, at, keys>>
out_vars == <<buffer, table, wire_vars, lookup_vars>>
probe_vars == <<object_vars, program_vars, call, step, position, out_vars>>
all_vars == <<vars, probe_vars>>

-----------------------------------------------------------------------------
(* Records and the socket.                                                  *)

\* The ids kieker_probe_events.h gives the record types, and the order in which
\* kieker_controller_register_event_types enters their names in the table.
KIEKER_FLOW_TRACE_METADATA == 0
KIEKER_FLOW_BEFORE_OPERATION == 1
KIEKER_FLOW_AFTER_OPERATION == 2
EventTypes == <<"TraceMetadata", "BeforeOperationEvent", "AfterOperationEvent">>

\* Bytes that are no record.
Nothing == [kind |-> NoMessage]

\* Bytes of prefix (4 + 8) and fields: 8 + 8 + 4 + 4 + 8 + 4, and 8 + 8 + 4 + 4 + 4.
Size(record) ==
  IF record.kind = "record"
  THEN 12 + IF record.type = KIEKER_FLOW_TRACE_METADATA THEN 36 ELSE 28
  ELSE 0

MetadataRecord(o, strings) ==
  [kind |-> "record", type |-> KIEKER_FLOW_TRACE_METADATA, trace |-> trace[o].trace_id,
   thread |-> trace[o].thread_id, strings |-> strings]

EventRecord(type, o, strings) ==
  [kind |-> "record", type |-> type, trace |-> trace[o].trace_id,
   order |-> order_index[o], strings |-> strings]

\* The records in the first length bytes of the buffer, as the collector cuts them.
Contents(length) ==
  LET first == buffer[0]
      second == buffer[Size(first)]
  IN  IF Size(first) = length THEN <<first>>
      ELSE IF /\ Size(first) \in DOMAIN buffer \ {0}
              /\ Size(first) + Size(second) = length
           THEN <<first, second>>
      ELSE <<Nothing>>

\* The collector resolves the keys in a record with the strings it knows.
TextOf(k) == IF k \in DOMAIN announced THEN announced[k] ELSE NoMessage

TypeNamed(name) ==
  CASE name = "TraceMetadata" -> "metadata" [] name = "BeforeOperationEvent" -> "before"
    [] name = "AfterOperationEvent" -> "after" [] OTHER -> "unknown"

Decode(record) ==
  IF record.kind # "record" THEN Nothing
  ELSE LET type == TypeNamed(TextOf(record.type))
           texts == <<TextOf(record.strings[1]), TextOf(record.strings[2])>>
       IN  IF record.type = KIEKER_FLOW_TRACE_METADATA
           THEN [type |-> type, trace |-> record.trace, thread |-> record.thread, texts |-> texts]
           ELSE [type |-> type, trace |-> record.trace, order |-> record.order, texts |-> texts]

-----------------------------------------------------------------------------
(* The steps of a probe.                                                    *)

NoCall == [probe |-> "none", op |-> ClassName]

Stage(t, from, to) == step[t] = from /\ step' = [step EXCEPT ![t] = to]

\* kieker_controller_get_operation_fqn, which only the probes for gcc call.
FormatName(op) == fqn' = IF GccProfiling THEN op ELSE fqn

\* The operation_signature a probe of t sees: a pointer, read when it is serialised.
Signature(t) == IF GccProfiling THEN fqn ELSE call[t].op

\* The program enters an operation: kieker_probe_before_operation_event.
CallBefore(t, op) ==
  /\ calls < MaxCalls /\ Len(frames[t]) < MaxDepth
  /\ Stage(t, "out", "get")
  /\ Get(t)
  /\ call' = [call EXCEPT ![t] = [probe |-> "before", op |-> op]]
  /\ FormatName(op)
  /\ calls' = calls + 1
  /\ UNCHANGED <<object_vars, frames, position, out_vars>>

\* The program leaves its innermost operation: kieker_probe_after_operation_event.
CallAfter(t) ==
  /\ calls < MaxCalls /\ frames[t] # <<>>
  /\ Stage(t, "out", "get")
  /\ Get(t)
  /\ call' = [call EXCEPT ![t] = [probe |-> "after", op |-> Last(frames[t])]]
  /\ FormatName(Last(frames[t]))
  /\ calls' = calls + 1
  /\ UNCHANGED <<object_vars, frames, position, out_vars>>

\* The probe is inside kieker_trace_get; a new object starts at -1 and 0.
InGet(t) ==
  /\ step[t] = "get"
  /\ GetStep(t)
  /\ IF pc[t] = "bump"
     THEN /\ order_index' = [order_index EXCEPT ![data[t]] = -1]
          /\ stack' = [stack EXCEPT ![data[t]] = 0]
     ELSE UNCHANGED object_vars
  /\ UNCHANGED <<program_vars, call, step, position, out_vars>>

-----------------------------------------------------------------------------
(* kieker_lookup_find_key_by_string, for the strings of a record.           *)

\* if (trace->order_index == -1) kieker_probe_create_trace_metadata.
NeedsMetadata(t) == call[t].probe = "before" /\ order_index[data[t]] = -1

\* The strings of the record the probe of t makes next, in the order of its fields.
Wanted(t) ==
  IF step[t] = "event" THEN <<Signature(t), ClassName>>
  ELSE IF step[t] = "get" /\ pc[t] = "got" /\ NeedsMetadata(t) THEN <<NoSession, LocalHost>>
  ELSE <<>>

Looks(t, from, to) == lookup[t] = from /\ lookup' = [lookup EXCEPT ![t] = to]

\* The loop over the table; a string that is not in it is copied, to be added.
Scan(t) ==
  /\ lookup[t] = "scan" /\ Len(keys[t]) < Len(Wanted(t))
  /\ LET s == Wanted(t)[Len(keys[t]) + 1]
     IN  \/ \E k \in 0 .. top - 1 :
               /\ table[k + 1] = s /\ \A j \in 0 .. k - 1 : table[j + 1] # s
               /\ keys' = [keys EXCEPT ![t] = Append(@, k)]
               /\ UNCHANGED <<lookup, value>>
         \/ /\ \A k \in 0 .. top - 1 : table[k + 1] # s
            /\ Looks(t, "scan", "fill") /\ value' = [value EXCEPT ![t] = s]
            /\ UNCHANGED keys
  /\ UNCHANGED <<table, announced, top, string_buffer, at>>

\* Seeded bug: the id announced is that of the string before.
FillLastId(t) ==
  /\ Looks(t, "fill", "write")
  /\ string_buffer' = [id |-> top - 1, text |-> value[t]]
  /\ UNCHANGED <<table, announced, top, value, at, keys>>

\* kieker_controller_send_string fills the shared buffer ...
Fill(t) ==
  /\ Looks(t, "fill", "write")
  /\ string_buffer' = [id |-> top, text |-> value[t]]
  /\ UNCHANGED <<table, announced, top, value, at, keys>>

\* ... and writes what is in it, as a whole or not at all; the program goes on.
Write(t) ==
  /\ Looks(t, "write", "store")
  /\ \/ announced' = [k \in DOMAIN announced \cup {string_buffer.id} |->
                        IF k = string_buffer.id THEN string_buffer.text ELSE announced[k]]
     \/ WriteMayFail /\ UNCHANGED announced
  /\ UNCHANGED <<table, top, string_buffer, value, at, keys>>

\* The store of list[top++] = value ...
StoreValue(t) ==
  /\ Looks(t, "store", "bump")
  /\ at' = [at EXCEPT ![t] = top]
  /\ table' = IF top = Len(table) THEN Append(table, value[t])
              ELSE [table EXCEPT ![top + 1] = value[t]]
  /\ UNCHANGED <<announced, top, string_buffer, value, keys>>

\* ... and its increment.
BumpTop(t) ==
  /\ Looks(t, "bump", "added")
  /\ top' = at[t] + 1
  /\ UNCHANGED <<table, announced, string_buffer, value, at, keys>>

\* return top - 1.
Added(t) ==
  /\ Looks(t, "added", "scan")
  /\ keys' = [keys EXCEPT ![t] = Append(@, top - 1)]
  /\ value' = [value EXCEPT ![t] = NoMessage] /\ at' = [at EXCEPT ![t] = 0]
  /\ UNCHANGED <<table, announced, top, string_buffer>>

Lookup(t) ==
  /\ Scan(t) \/ Fill(t) \/ Write(t) \/ StoreValue(t) \/ BumpTop(t) \/ Added(t)
  /\ UNCHANGED <<vars, object_vars, program_vars, call, step, position, buffer, log>>

\* The keys are in the record, and the next one starts with none.
UsesKeys(t) ==
  /\ Len(keys[t]) = Len(Wanted(t)) /\ keys' = [keys EXCEPT ![t] = <<>>]
  /\ UNCHANGED <<table, wire_vars, top, string_buffer, lookup, value, at>>

-----------------------------------------------------------------------------
(* The steps of a probe that has its trace object.                          *)

\* kieker_probe_create_trace_metadata, if it is called.
Metadata(t) ==
  /\ pc[t] = "got" /\ UsesKeys(t) /\ Stage(t, "get", "count")
  /\ IF NeedsMetadata(t)
     THEN /\ buffer' = [buffer EXCEPT ![0] = MetadataRecord(data[t], keys[t])]
          /\ position' = [position EXCEPT ![t] = 48]
     ELSE position' = [position EXCEPT ![t] = 0] /\ UNCHANGED buffer
  /\ UNCHANGED <<vars, object_vars, program_vars, call>>

\* Seeded bug: the stack is not counted down.
CountNeverDown(t) ==
  /\ Stage(t, "count", "event")
  /\ order_index' = [order_index EXCEPT ![data[t]] = @ + 1]
  /\ stack' = [stack EXCEPT ![data[t]] = IF call[t].probe = "before" THEN @ + 1 ELSE @]
  /\ UNCHANGED <<vars, program_vars, call, position, out_vars>>

\* Seeded bug: an after event counts two operations down.
CountDownTwice(t) ==
  /\ Stage(t, "count", "event")
  /\ order_index' = [order_index EXCEPT ![data[t]] = @ + 1]
  /\ stack' = [stack EXCEPT ![data[t]] = IF call[t].probe = "before" THEN @ + 1 ELSE @ - 2]
  /\ UNCHANGED <<vars, program_vars, call, position, out_vars>>

\* Seeded bug: the after event takes the order index of the event before it.
CountOnlyBefore(t) ==
  /\ Stage(t, "count", "event")
  /\ order_index' = [order_index EXCEPT ![data[t]] =
                       IF call[t].probe = "before" THEN @ + 1 ELSE @]
  /\ stack' = [stack EXCEPT ![data[t]] = IF call[t].probe = "before" THEN @ + 1 ELSE @ - 1]
  /\ UNCHANGED <<vars, program_vars, call, position, out_vars>>

Count(t) ==
  /\ Stage(t, "count", "event")
  /\ order_index' = [order_index EXCEPT ![data[t]] = @ + 1]
  /\ stack' = [stack EXCEPT ![data[t]] = IF call[t].probe = "before" THEN @ + 1 ELSE @ - 1]
  /\ UNCHANGED <<vars, program_vars, call, position, out_vars>>

\* Seeded bug: the prefix of the after event is copied from the before event.
EventOfCopied(t) == EventRecord(KIEKER_FLOW_BEFORE_OPERATION, data[t], keys[t])

EventOf(t) ==
  EventRecord(IF call[t].probe = "before" THEN KIEKER_FLOW_BEFORE_OPERATION
                                          ELSE KIEKER_FLOW_AFTER_OPERATION,
              data[t], keys[t])

\* kieker_probe_create_before_operation_event, _after_operation_event.
Event(t) ==
  /\ UsesKeys(t) /\ Stage(t, "event", "send")
  /\ buffer' = [buffer EXCEPT ![position[t]] = EventOf(t)]
  /\ position' = [position EXCEPT ![t] = @ + 40]
  /\ UNCHANGED <<vars, object_vars, program_vars, call>>


\* kieker_controller_send(position).
Send(t) ==
  /\ Stage(t, "send", "leave")
  /\ \/ log' = log \o [n \in DOMAIN Contents(position[t]) |-> Decode(Contents(position[t])[n])]
     \/ WriteMayFail /\ UNCHANGED log
  /\ UNCHANGED <<vars, object_vars, program_vars, call, position, buffer, table, announced,
                 lookup_vars>>

\* Seeded bug: the object is freed without being unlinked.
EndFreesAtOnce(t) ==
  /\ step[t] = "leave"
  /\ IF call[t].probe = "after" /\ stack[data[t]] = 0
     THEN /\ Goto(t, "got", "free") /\ step' = [step EXCEPT ![t] = "remove"]
          /\ UNCHANGED <<lock_vars, kieker_traces, heap_vars, id_vars, data>>
     ELSE Return(t) /\ step' = [step EXCEPT ![t] = "out"]
  /\ frames' = [frames EXCEPT ![t] = IF call[t].probe = "before" THEN Append(@, call[t].op)
                                                                 ELSE Front(@)]
  /\ position' = [position EXCEPT ![t] = 0]
  /\ call' = [call EXCEPT ![t] = NoCall]
  /\ UNCHANGED <<object_vars, calls, fqn, out_vars>>

\* The probe returns, unless it is the last of the trace.
EndOfProbe(t) ==
  /\ step[t] = "leave"
  /\ IF call[t].probe = "after" /\ stack[data[t]] = 0
     THEN CallRemove(t) /\ step' = [step EXCEPT ![t] = "remove"]
     ELSE Return(t) /\ step' = [step EXCEPT ![t] = "out"]
  /\ frames' = [frames EXCEPT ![t] = IF call[t].probe = "before" THEN Append(@, call[t].op)
                                                                 ELSE Front(@)]
  /\ position' = [position EXCEPT ![t] = 0]
  /\ call' = [call EXCEPT ![t] = NoCall]
  /\ UNCHANGED <<object_vars, calls, fqn, out_vars>>

\* The probe is inside kieker_trace_remove.
InRemove(t) ==
  /\ step[t] = "remove"
  /\ RemoveStep(t)
  /\ step' = [step EXCEPT ![t] = IF pc[t] = "free" THEN "out" ELSE "remove"]
  /\ UNCHANGED <<object_vars, program_vars, call, position, out_vars>>

\* A thread ends inside its operations (pthread_exit, exit of the thread by a
\* longjmp), and the next thread gets its pthread_self().
Unwind(t) ==
  /\ MayUnwind /\ step[t] = "out" /\ frames[t] # <<>>
  /\ frames' = [frames EXCEPT ![t] = <<>>]
  /\ UNCHANGED <<vars, object_vars, calls, fqn, call, step, position, out_vars>>

\* The bound on calls is used up.
RunOver ==
  /\ calls = MaxCalls /\ \A t \in Thread : step[t] = "out"
  /\ UNCHANGED all_vars

-----------------------------------------------------------------------------
ProbeInit ==
  /\ Init
  /\ order_index = [o \in Obj |-> -1] /\ stack = [o \in Obj |-> 0]
  /\ frames = [t \in Thread |-> <<>>] /\ calls = 0
  /\ call = [t \in Thread |-> NoCall] /\ fqn = ClassName
  /\ step = [t \in Thread |-> "out"]
  /\ position = [t \in Thread |-> 0]
  /\ buffer = [k \in {0, 48} |-> Nothing]
  /\ table = EventTypes /\ top = Len(EventTypes)
  /\ string_buffer = [id |-> Len(EventTypes) - 1, text |-> Last(EventTypes)]
  /\ lookup = [t \in Thread |-> "scan"] /\ keys = [t \in Thread |-> <<>>]
  /\ value = [t \in Thread |-> NoMessage] /\ at = [t \in Thread |-> 0]
  /\ announced = [k \in 0 .. Len(EventTypes) - 1 |-> EventTypes[k + 1]]
  /\ log = <<>>

ProbeStep(t) ==
  \/ InGet(t) \/ Lookup(t) \/ Metadata(t) \/ Count(t) \/ Event(t)
  \/ Send(t) \/ EndOfProbe(t) \/ InRemove(t)

ProbeNext ==
  \/ \E t \in Thread :
       \/ ProbeStep(t) \/ CallAfter(t) \/ Unwind(t)
       \/ \E op \in Op : CallBefore(t, op)
  \/ RunOver

ProbeSpec == ProbeInit /\ [][ProbeNext]_all_vars

\* Threads inside a probe keep running (see TraceRegistry on the lock).
ProbeLiveSpec ==
  /\ ProbeSpec
  /\ \A t \in Thread : WF_all_vars(ProbeStep(t)) /\ SF_all_vars(InGet(t) /\ RdLock(t))

-----------------------------------------------------------------------------
(* Properties.                                                              *)

\* Between probes a thread has a trace object exactly while it is inside an
\* instrumented operation, and stack counts these operations.  So the trace ends,
\* and its memory is given back, with the last of them.
StackIsDepth ==
  \A t \in Thread : step[t] = "out" =>
    /\ Matches(t) = {} <=> frames[t] = <<>>
    /\ \A o \in Matches(t) : stack[o] = Len(frames[t])

\* Even after threads that ended inside their operations, a trace never ends while
\* its thread is inside one: stack may be too high, never too low.
TraceOutlivesFrames ==
  \A t \in Thread : step[t] = "out" /\ frames[t] # <<>> =>
    \E o \in Matches(t) : stack[o] >= Len(frames[t])

\* What an object of thread t has counted: the operations t is in, and the one its
\* probe is entering or leaving.
Depth(t) ==
  Len(frames[t]) +
    (IF step[t] \notin {"event", "send", "leave"} THEN 0
     ELSE IF call[t].probe = "before" THEN 1 ELSE -1)

InProbe(t) == step[t] \in {"get", "count", "event", "send", "leave"}

\* Where a probe is, and where the registry is for it.
StageInv(t) ==
  /\ step[t] = "out" <=> pc[t] = "idle"
  /\ step[t] = "remove" <=> pc[t] \in {"dellock", "del"} \cup Dropping
  /\ step[t] \in {"count", "event", "send", "leave"} => pc[t] = "got"
  /\ InProbe(t) => call[t].op \in Op /\ call[t].probe \in {"before", "after"}
  /\ InProbe(t) /\ call[t].probe = "after" => frames[t] # <<>>

\* Whichever step its probe is at, the object of a thread has counted its operations,
\* exactly unless a thread may end inside them; a thread without object is in none.
DepthInv(t) ==
  /\ \A o \in Matches(t) : step[t] # "remove" =>
       stack[o] >= Depth(t) /\ (MayUnwind \/ stack[o] = Depth(t))
  /\ pc[t] \in {"wrlock", "add"} => stack[data[t]] = 0
  /\ Matches(t) = {} \/ step[t] = "remove" => frames[t] = <<>>
  /\ step[t] = "out" /\ frames[t] = <<>> => MayUnwind \/ Matches(t) = {}

\* The invariant the proofs of the probes rest on, together with that of the registry.
ProbeInv ==
  /\ stack \in [Obj -> Int] /\ frames \in [Thread -> Seq(Op)]
  /\ step \in [Thread -> {"out", "get", "count", "event", "send", "leave", "remove"}]
  /\ call \in [Thread -> [probe : {"none", "before", "after"}, op : Op \cup {ClassName}]]
  /\ \A t \in Thread : StageInv(t) /\ DepthInv(t)

\* The probes call get and remove only as TraceRegistry allows its callers.
ProbesUseRegistry == Spec

\* A record e that tells what the probe of t does, up to names the collector misses.
Tells(e, t) ==
  /\ e.trace = trace[data[t]].trace_id
  /\ \/ /\ e.type = "metadata" /\ e.thread = Key[t]
        /\ e.texts \in {NoSession, NoMessage} \X {LocalHost, NoMessage}
     \/ /\ e.type = call[t].probe /\ e.order = order_index[data[t]]
        /\ e.texts \in {call[t].op, NoMessage} \X {ClassName, NoMessage}

\* Whatever announcements and records were lost before, a record that does arrive is
\* decoded as what the probe that sends it was called for: a name may be missing, for
\* good, but no key is taken for another name, and the trace is that of the thread.
LoggedAsCalled ==
  [][\A n \in DOMAIN log' \ DOMAIN log :
       \E t \in Thread : step[t] = "send" /\ Tells(log'[n], t)]_all_vars

\* With writes that fail, the events of a trace that do arrive are in order, so
\* that a hole in the order indexes shows every loss between two of them.
OrderIndexesIncrease ==
  \A m, n \in DOMAIN log :
    m < n /\ log[m].trace = log[n].trace /\ log[m].type # "metadata" =>
      log[n].type # "metadata" /\ log[m].order < log[n].order

\* The collector's log is that of MonitoringLog: per thread, operations entered and
\* left in order, cut into traces, without a gap, with all texts known in time.
Monitor == INSTANCE MonitoringLog
             WITH ThreadKey <- {Key[t] : t \in Thread},
                  TraceId <- InitialId .. InitialId + MaxTraces,
                  Op <- {<<op, ClassName>> : op \in Op},
                  Origin <- <<NoSession, LocalHost>>
ImplementsMonitoringLog == Monitor!Spec

\* The log is true: whoever reads it between two probes of a thread finds that the
\* thread is in the operations it really is in, and in one trace, or in none.
LogTellsFrames ==
  \A t \in Thread : step[t] = "out" =>
    {Monitor!Inside(id) : id \in Monitor!OpenTraces(Key[t])} =
      IF frames[t] = <<>> THEN {}
      ELSE {[n \in DOMAIN frames[t] |-> <<frames[t][n], ClassName>>]}


-----------------------------------------------------------------------------
(* The inductive invariants of the log.                                     *)

\* The strings the probes put into records.
Text == ToSet(EventTypes) \cup Op \cup {ClassName, NoSession, LocalHost}

\* The keys a thread has are those of its strings, and what it knows of the one it adds.
LookupInv(t) ==
  /\ Len(keys[t]) <= Len(Wanted(t))
  /\ \A n \in DOMAIN keys[t] : keys[t][n] < top /\ table[keys[t][n] + 1] = Wanted(t)[n]
  /\ lookup[t] # "scan" => /\ Len(keys[t]) < Len(Wanted(t))
                           /\ value[t] = Wanted(t)[Len(keys[t]) + 1]
  /\ lookup[t] = "write" => string_buffer = [id |-> top, text |-> value[t]]
  /\ lookup[t] \in {"store", "bump"} => WriteMayFail \/ top \in DOMAIN announced
  /\ lookup[t] = "bump" => at[t] = top /\ top < Len(table) /\ table[top + 1] = value[t]
  /\ lookup[t] = "added" => top > 0 /\ table[top] = value[t]

\* The collector knows the string of a key, or of the next one before it is stored.
Announced(k) ==
  \/ k < top /\ announced[k] = table[k + 1]
  \/ k = top /\ \E t \in Thread : lookup[t] \in {"store", "bump"} /\ announced[k] = value[t]

\* When lookups do not overlap, the collector knows a part of the table, the names of
\* the record types always, and all of it if no write fails.
TableInv ==
  /\ table \in Seq(Text) /\ top \in Nat /\ fqn \in Op \cup {ClassName}
  /\ lookup \in [Thread -> {"scan", "fill", "write", "store", "bump", "added"}]
  /\ value \in [Thread -> Text \cup {NoMessage}] /\ at \in [Thread -> Nat]
  /\ keys \in [Thread -> Seq(Nat)]
  /\ top = Len(table) \/ \E t \in Thread : lookup[t] = "bump" /\ Len(table) = top + 1
  /\ \A n \in DOMAIN EventTypes : /\ n <= top /\ table[n] = EventTypes[n]
                                  /\ n - 1 \in DOMAIN announced
  /\ DOMAIN announced \subseteq Nat /\ \A k \in DOMAIN announced : Announced(k)
  /\ WriteMayFail \/ 0 .. top - 1 \subseteq DOMAIN announced
  /\ \A t \in Thread : LookupInv(t)

\* What a record has to be, up to the keys of its strings.
IsMetadata(record, o) ==
  \E k, l \in DOMAIN table :
    /\ table[k] = NoSession /\ table[l] = LocalHost
    /\ record = [kind |-> "record", type |-> KIEKER_FLOW_TRACE_METADATA,
                 trace |-> trace[o].trace_id, thread |-> trace[o].thread_id,
                 strings |-> <<k - 1, l - 1>>]

IsEvent(record, probe, o, op) ==
  \E k, l \in DOMAIN table :
    /\ table[k] = op /\ table[l] = ClassName
    /\ record = [kind |-> "record",
                 type |-> IF probe = "before" THEN KIEKER_FLOW_BEFORE_OPERATION
                                              ELSE KIEKER_FLOW_AFTER_OPERATION,
                 trace |-> trace[o].trace_id, order |-> order_index[o],
                 strings |-> <<k - 1, l - 1>>]

\* What the buffer holds at each step of a probe nobody interrupts.
BufferInv(t) ==
  LET o == data[t]
      probe == call[t].probe
      made == IF step[t] = "send" THEN position[t] - 40 ELSE position[t]
  IN  /\ step[t] \in {"count", "event", "send"} =>
           \/ /\ made = 48 /\ probe = "before" /\ IsMetadata(buffer[0], o)
              /\ order_index[o] = IF step[t] = "count" THEN -1 ELSE 0
           \/ /\ made = 0
              /\ order_index[o] >= (IF step[t] = "count" THEN -1 ELSE 0)
                                     + (IF probe = "before" THEN 1 ELSE 0)
      /\ step[t] = "send" => IsEvent(buffer[made], probe, o, call[t].op)
      /\ GccProfiling /\ InProbe(t) => fqn = call[t].op

\* The events of the trace of o that went through the socket, or were lost there.
Sent(o) ==
  order_index[o] +
    IF \E t \in Thread : data[t] = o /\ step[t] \in {"event", "send"} THEN 0 ELSE 1

\* The records the collector decodes.
Texts == (Text \cup {NoMessage}) \X (Text \cup {NoMessage})
Received ==
  [type : {"metadata"}, trace : Nat, thread : Int, texts : Texts] \cup
  [type : {"before", "after"}, trace : Nat, order : Nat, texts : Texts]

\* The log of probes that do not overlap is behind the objects: their trace ids are
\* drawn before they are logged, and an event is counted before it is sent.
OrderInv ==
  /\ order_index \in [Obj -> Int] /\ position \in [Thread -> Int]
  /\ DOMAIN buffer = {0, 48} /\ log \in Seq(Received)
  /\ \A t \in Thread : BufferInv(t)
  /\ kieker_trace_current_id >= InitialId
  /\ \A o \in Obj : Numbered(o) => order_index[o] >= -1 /\ trace[o].trace_id >= InitialId
  /\ \A n \in DOMAIN log : log[n].trace \in InitialId .. kieker_trace_current_id - 1
  /\ \A t \in Thread : pc[t] \in {"wrlock", "add"} =>
       /\ order_index[data[t]] = -1
       /\ \A n \in DOMAIN log : log[n].trace # trace[data[t]].trace_id
  /\ \A o \in kieker_traces, n \in DOMAIN log :
       log[n].trace = trace[o].trace_id /\ log[n].type # "metadata" => log[n].order < Sent(o)
  /\ OrderIndexesIncrease

\* The operations of t as the log has to tell them: a probe that has sent its event
\* has still to return.
Shown(t) ==
  IF step[t] # "leave" THEN frames[t]
  ELSE IF call[t].probe = "before" THEN Append(frames[t], call[t].op) ELSE Front(frames[t])

\* What the log tells of the trace of o, the object of t.
ToldOf(t, o) ==
  LET id == trace[o].trace_id
  IN  /\ Monitor!Inside(id) = [n \in DOMAIN Shown(t) |-> <<Shown(t)[n], ClassName>>]
      /\ Cardinality(Monitor!EventsOf(id)) = Sent(o)
      /\ Shown(t) # <<>> => Monitor!Metadata(id, Key[t]) \in ToSet(log)
      /\ frames[t] = <<>> /\ step[t] \notin {"leave", "remove"} => Sent(o) = 0

\* When no write fails and every operation returns, the log tells of each trace what
\* its thread is in, and nothing of other traces but that they have ended.
LogInv ==
  /\ kieker_trace_current_id <= InitialId + MaxTraces
  /\ \A t \in Thread : pc[t] \in {"rdlock", "find", "rdunlock", "create", "bump"} =>
       kieker_trace_current_id < InitialId + MaxTraces
  /\ \A t \in Thread : InProbe(t) /\ call[t].probe = "after" => call[t].op = Last(frames[t])
  /\ \A n \in DOMAIN log : Monitor!EventsOf(log[n].trace) # {}
  /\ \A t \in Thread : \A o \in Matches(t) : ToldOf(t, o)
  /\ \A n \in DOMAIN log : log[n].type = "metadata" =>
       \/ Monitor!Inside(log[n].trace) = <<>>
       \/ \E t \in Thread : \E o \in Matches(t) :
            trace[o].trace_id = log[n].trace /\ Key[t] = log[n].thread

\* The invariants of the probes together, each under the conditions it needs.
PlainInv ==
  /\ ProbeInv
  /\ Serialised => SerialInv /\ TableInv /\ OrderInv
  /\ Serialised /\ ~MayUnwind /\ ~WriteMayFail => LogInv
===============================================================================
