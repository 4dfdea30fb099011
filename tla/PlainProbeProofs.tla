--------------------------- MODULE PlainProbeProofs ---------------------------
(***************************************************************************)
(* Proofs about PlainProbe, for any number of threads inside the probes at *)
(* once, any operations and any nesting: the probes are callers the        *)
(* registry allows, so what TraceRegistryProofs proves holds for them; and *)
(* the stack counted in a trace object is the number of operations its     *)
(* thread is in, so that traces end with the last of them.                 *)
(*                                                                         *)
(* ProbeInv is inductive relative to RegistryInv.  Its core is DepthInv,   *)
(* which has to hold at every step of a probe, also while the trace object *)
(* is being made and unlinked.                                             *)
(***************************************************************************)
EXTENDS PlainProbe, TraceRegistryProofs, SequenceTheorems

-----------------------------------------------------------------------------
(* The probes as callers of the registry.                                   *)

LEMMA ProbeStepsRegistry == [ProbeNext]_all_vars => [Next]_vars
<1> SUFFICES ASSUME [ProbeNext]_all_vars PROVE [Next]_vars
  OBVIOUS
<1>1. CASE UNCHANGED all_vars BY <1>1 DEF all_vars
<1>2. CASE RunOver BY <1>2 DEF RunOver, all_vars
<1>3. ASSUME NEW t \in Thread, ProbeStep(t) PROVE [Next]_vars
  <2>1. CASE InGet(t) BY <2>1 DEF InGet, Next
  <2>2. CASE Metadata(t) BY <2>2 DEF Metadata
  <2>3. CASE Count(t) BY <2>3 DEF Count
  <2>4. CASE Event(t) BY <2>4 DEF Event
  <2>5. CASE Send(t) BY <2>5 DEF Send
  <2>6. CASE EndOfProbe(t)
    <3>1. CallRemove(t) \/ Return(t) BY <2>6 DEF EndOfProbe
    <3> QED BY <3>1 DEF Next, CallerStep
  <2>7. CASE InRemove(t) BY <2>7 DEF InRemove, Next
  <2>8. CASE Lookup(t) BY <2>8 DEF Lookup
  <2> QED BY <1>3, <2>1, <2>2, <2>3, <2>4, <2>5, <2>6, <2>7, <2>8 DEF ProbeStep
<1>4. ASSUME NEW t \in Thread, CallAfter(t) \/ \E op \in Op : CallBefore(t, op)
      PROVE  [Next]_vars
  <2>1. Get(t) BY <1>4 DEF CallAfter, CallBefore
  <2> QED BY <2>1 DEF Next, CallerStep
<1>5. ASSUME NEW t \in Thread, Unwind(t) PROVE [Next]_vars
  BY <1>5 DEF Unwind
<1> QED BY <1>1, <1>2, <1>3, <1>4, <1>5 DEF ProbeNext

\* The probes call kieker_trace_get and kieker_trace_remove only as the registry is
\* modelled to be called: one call at a time per thread, remove with the object of get.
THEOREM ProbesAreCallers == ProbeSpec => ProbesUseRegistry
<1>1. ProbeInit => Init BY DEF ProbeInit
<1> QED BY <1>1, ProbeStepsRegistry, PTL DEF ProbeSpec, Spec, ProbesUseRegistry

-----------------------------------------------------------------------------
(* What a step of one thread leaves alone.                                  *)

\* The calls of u change neither the entries of t nor what t knows.
LEMMA OthersUntouched ==
  ASSUME InjectiveKey, RegistryInv, NEW t \in Thread, NEW u \in Thread, t # u,
         GetStep(u) \/ RemoveStep(u) \/ CallerStep(u)
  PROVE  /\ Matches(t)' = Matches(t) /\ pc'[t] = pc[t] /\ data'[t] = data[t]
<1>1. TypeOK /\ DataInv /\ EntryInv BY DEF RegistryInv
<1>2. pc'[t] = pc[t] /\ data'[t] = data[t]
  BY <1>1 DEF TypeOK, GetStep, RemoveStep, CallerStep, RdLock, Find, RdUnlock, ReadId, BumpId, Created,
     WrLock, Add, WrUnlock, DelLock, Del, DelUnlock, Free, Get, Return, CallRemove, Goto
<1>3. CASE Add(u)
  <2>1. trace[data[u]].thread_id = Key[u] /\ Key[u] # Key[t]
    BY <1>1, <1>3, NullAssumption
       DEF Add, Goto, EntryInv, DataInv, TypeOK, InjectiveKey, Adding, Using
  <2> QED BY <1>2, <1>3, <2>1 DEF Add, heap_vars, Matches
<1>4. CASE Del(u)
  <2>1. trace[data[u]].thread_id = Key[u] /\ Key[u] # Key[t]
    BY <1>1, <1>4, NullAssumption
       DEF Del, Goto, EntryInv, DataInv, TypeOK, InjectiveKey, Adding, Using
  <2> QED BY <1>2, <1>4, <2>1 DEF Del, heap_vars, Matches
<1>5. CASE BumpId(u)
  <2>1. data[u] \notin kieker_traces /\ trace \in [Obj -> [thread_id : Int, trace_id : Nat]]
        /\ kieker_traces \subseteq Obj
    BY <1>1, <1>5 DEF BumpId, Created, Goto, DataInv, Adding, TypeOK
  <2>2. kieker_traces' = kieker_traces
        /\ \A o \in kieker_traces : trace'[o] = trace[o]
    BY <1>5, <2>1 DEF BumpId, Created
  <2> QED BY <1>2, <2>2 DEF Matches
<1>6. CASE /\ UNCHANGED <<kieker_traces, trace>>
  BY <1>2, <1>6 DEF Matches
<1> QED
  BY <1>3, <1>4, <1>5, <1>6
     DEF GetStep, RemoveStep, CallerStep, RdLock, Find, RdUnlock, ReadId,
     WrLock, WrUnlock, DelLock, DelUnlock, Free, Get, Return, CallRemove, heap_vars

\* An object another thread counts in, or has just made, is not one of t.
LEMMA OtherObject ==
  ASSUME InjectiveKey, RegistryInv, NEW t \in Thread, NEW u \in Thread, t # u,
         pc[u] \in {"bump", "got"}
  PROVE  /\ data[u] \notin Matches(t)
         /\ pc[t] \in {"wrlock", "add"} => data[u] # data[t]
<1>1. TypeOK /\ DataInv /\ EntryInv /\ OwnObject BY DEF RegistryInv
<1>2. CASE pc[u] = "bump" BY <1>1, <1>2 DEF DataInv, Adding, Matches, OwnObject, Holding
<1>3. CASE pc[u] = "got"
  <2>1. trace[data[u]].thread_id = Key[u] /\ Key[u] # Key[t]
    BY <1>1, <1>3, NullAssumption DEF EntryInv, DataInv, TypeOK, InjectiveKey, Using
  <2> QED BY <2>1, <1>1, <1>3 DEF Matches, OwnObject, Holding, Using, Adding
<1> QED BY <1>2, <1>3

\* A thread whose own state and entries stay keeps what ProbeInv says of it.
LEMMA Untouched ==
  ASSUME ProbeInv, NEW t \in Thread,
         Matches(t)' = Matches(t), pc'[t] = pc[t], data'[t] = data[t],
         step'[t] = step[t], frames'[t] = frames[t], call'[t] = call[t],
         \A o \in Matches(t) : stack'[o] = stack[o],
         pc[t] \in {"wrlock", "add"} => stack'[data[t]] = stack[data[t]]
  PROVE  StageInv(t)' /\ DepthInv(t)'
<1>1. StageInv(t) /\ DepthInv(t) BY DEF ProbeInv
<1>2. StageInv(t)' BY <1>1 DEF StageInv, InProbe
<1>3. Depth(t)' = Depth(t) BY DEF Depth
<1>4. DepthInv(t)' BY <1>1, <1>3 DEF DepthInv
<1> QED BY <1>2, <1>4

\* A step of u, in the probe or around it, leaves what ProbeInv says of t.
ThreadNext(u) == ProbeStep(u) \/ CallAfter(u) \/ Unwind(u) \/ \E op \in Op : CallBefore(u, op)

LEMMA StepOfOther ==
  ASSUME InjectiveKey, RegistryInv, ProbeInv, NEW t \in Thread, NEW u \in Thread, t # u,
         ThreadNext(u)
  PROVE  StageInv(t)' /\ DepthInv(t)'
<1>1. /\ stack \in [Obj -> Int] /\ frames \in [Thread -> Seq(Op)]
      /\ DOMAIN step = Thread /\ DOMAIN call = Thread /\ StageInv(u)
  BY DEF ProbeInv
<1>2. \/ GetStep(u) \/ RemoveStep(u) \/ CallerStep(u)
      \/ UNCHANGED vars
  BY DEF ThreadNext, ProbeStep, InGet, Lookup, Metadata, Count, Event, Send, EndOfProbe,
         InRemove, CallAfter, CallBefore, Unwind, CallerStep
<1>3. Matches(t)' = Matches(t) /\ pc'[t] = pc[t] /\ data'[t] = data[t]
  <2>1. CASE UNCHANGED vars BY <2>1 DEF vars, Matches
  <2> QED BY <1>2, <2>1, OthersUntouched
<1>4. step'[t] = step[t] /\ frames'[t] = frames[t] /\ call'[t] = call[t]
  BY <1>1 DEF ThreadNext, ProbeStep, InGet, Lookup, Metadata, Count, Event, Send, EndOfProbe,
         InRemove, CallAfter, CallBefore, Unwind, Stage, program_vars
<1>5. \/ UNCHANGED stack
      \/ pc[u] \in {"bump", "got"} /\ \A o \in Obj : o # data[u] => stack'[o] = stack[o]
  <2>1. CASE InGet(u) BY <1>1, <2>1 DEF InGet, object_vars
  <2>2. CASE Count(u)
    <3>1. pc[u] = "got" BY <1>1, <2>2 DEF Count, Stage, StageInv
    <3> QED BY <1>1, <2>2, <3>1 DEF Count
  <2> QED
    BY <2>1, <2>2 DEF ThreadNext, ProbeStep, Lookup, Metadata, Event, Send, EndOfProbe, InRemove,
       CallAfter, CallBefore, Unwind, object_vars
<1>6. Matches(t) \subseteq Obj BY DEF RegistryInv, TypeOK, Matches
<1>7. pc[t] \in {"wrlock", "add"} => data[t] \in Obj
  BY DEF RegistryInv, DataInv, TypeOK, Adding
<1>8. /\ \A o \in Matches(t) : stack'[o] = stack[o]
      /\ pc[t] \in {"wrlock", "add"} => stack'[data[t]] = stack[data[t]]
  BY <1>5, <1>6, <1>7, OtherObject
<1> QED BY <1>3, <1>4, <1>8, Untouched

-----------------------------------------------------------------------------
(* What a step of a thread does to its own part of the invariant.           *)

\* A beginning of a sequence.
LEMMA PrefixOf ==
  ASSUME NEW S, NEW f \in Seq(S), NEW k \in 0 .. Len(f)
  PROVE  SubSeq(f, 1, k) \in Seq(S) /\ Len(SubSeq(f, 1, k)) = k
<1>1. SubSeq(f, 1, k) = [n \in 1 .. k |-> f[n]] BY SubSeqRestrict DEF Restrict
<1>2. \A n \in 1 .. k : f[n] \in S OBVIOUS
<1> QED BY <1>1, <1>2

\* The innermost operation is one of the operations, and the rest is one shorter.
LEMMA Innermost ==
  ASSUME NEW S, NEW f \in Seq(S), f # <<>>
  PROVE  /\ Len(f) \in Nat \ {0} /\ Last(f) \in S
         /\ Front(f) \in Seq(S) /\ Len(Front(f)) = Len(f) - 1
<1>1. Len(f) \in Nat \ {0} OBVIOUS
<1>2. Last(f) \in S BY <1>1 DEF Last
<1>3. Len(f) - 1 \in 0 .. Len(f) BY <1>1
<1>4. PICK k \in 0 .. Len(f) : k = Len(f) - 1 BY <1>3
<1>5. SubSeq(f, 1, k) \in Seq(S) /\ Len(SubSeq(f, 1, k)) = k BY PrefixOf
<1>6. Front(f) \in Seq(S) /\ Len(Front(f)) = Len(f) - 1 BY <1>4, <1>5 DEF Front
<1> QED BY <1>1, <1>2, <1>6

\* While a thread uses its object, that is its only entry in the table.
LEMMA OnlyEntry ==
  ASSUME RegistryInv, NEW t \in Thread, pc[t] \in Using
  PROVE  Matches(t) = {data[t]} /\ data[t] \in Obj
BY NullAssumption
   DEF RegistryInv, TypeOK, DataInv, EntryInv, OneTracePerThread, Matches, Using, Adding

\* The types of the variables of the probes.
ProbeTyped ==
  /\ stack \in [Obj -> Int] /\ frames \in [Thread -> Seq(Op)]
  /\ step \in [Thread -> {"out", "get", "count", "event", "send", "leave", "remove"}]
  /\ call \in [Thread -> [probe : {"none", "before", "after"}, op : Op \cup {ClassName}]]

LEMMA TypesKept ==
  ASSUME ProbeInv, NEW t \in Thread, ThreadNext(t)
  PROVE  ProbeTyped'
<1>1. ProbeTyped /\ StageInv(t) BY DEF ProbeInv, ProbeTyped
<1> USE <1>1 DEF ProbeTyped
<1>2. ASSUME NEW op \in Op, CallBefore(t, op) PROVE ProbeTyped'
  BY <1>2 DEF CallBefore, Stage, object_vars
<1>3. CASE CallAfter(t)
  <2>1. Last(frames[t]) \in Op BY <1>3, Innermost DEF CallAfter
  <2> QED BY <1>3, <2>1 DEF CallAfter, Stage, object_vars
<1>4. CASE InGet(t) BY <1>4 DEF InGet, object_vars, program_vars
<1>5. CASE Metadata(t) BY <1>5 DEF Metadata, Stage, object_vars, program_vars
<1>6. CASE Count(t)
  <2>1. stack' = [stack EXCEPT ![data[t]] =
                    IF call[t].probe = "before" THEN @ + 1 ELSE @ - 1]
    BY <1>6 DEF Count
  <2>2. \A o \in Obj : stack[o] + 1 \in Int /\ stack[o] - 1 \in Int OBVIOUS
  <2>3. stack' \in [Obj -> Int] BY <2>1, <2>2
  <2> QED BY <1>6, <2>3 DEF Count, Stage, program_vars
<1>7. CASE Event(t) BY <1>7 DEF Event, Stage, object_vars, program_vars
<1>8. CASE Send(t) BY <1>8 DEF Send, Stage, object_vars, program_vars
<1>9. CASE EndOfProbe(t)
  <2>1. call[t].probe = "after" \/ call[t].probe = "before" BY <1>9 DEF EndOfProbe, StageInv, InProbe
  <2>2. call[t].op \in Op /\ (call[t].probe = "after" => frames[t] # <<>>)
    BY <1>9 DEF EndOfProbe, StageInv, InProbe
  <2>3. (IF call[t].probe = "before" THEN Append(frames[t], call[t].op) ELSE Front(frames[t]))
          \in Seq(Op)
    <3>1. frames[t] \in Seq(Op) OBVIOUS
    <3>2. Append(frames[t], call[t].op) \in Seq(Op) BY <2>2, <3>1
    <3>3. call[t].probe # "before" => Front(frames[t]) \in Seq(Op)
      BY <2>1, <2>2, <3>1, Innermost
    <3> QED BY <3>2, <3>3
  <2>4. frames' \in [Thread -> Seq(Op)] BY <1>9, <2>3 DEF EndOfProbe
  <2> QED BY <1>9, <2>4 DEF EndOfProbe, NoCall, object_vars
<1>10. CASE InRemove(t) BY <1>10 DEF InRemove, object_vars, program_vars
<1>11. CASE Unwind(t) BY <1>11 DEF Unwind, object_vars
<1>12. CASE Lookup(t) BY <1>12 DEF Lookup, object_vars, program_vars
<1> QED
  BY <1>2, <1>3, <1>4, <1>5, <1>6, <1>7, <1>8, <1>9, <1>10, <1>11, <1>12 DEF ThreadNext, ProbeStep

\* A probe begins.
LEMMA CallCorrect ==
  ASSUME RegistryInv, ProbeInv, NEW t \in Thread,
         CallAfter(t) \/ \E op \in Op : CallBefore(t, op)
  PROVE  StageInv(t)' /\ DepthInv(t)'
<1>1. ProbeTyped /\ StageInv(t) /\ DepthInv(t) BY DEF ProbeInv, ProbeTyped
<1>2. pc \in [Thread -> Position] BY DEF RegistryInv, TypeOK
<1>3. /\ step[t] = "out" /\ step'[t] = "get" /\ pc'[t] = "rdlock"
      /\ UNCHANGED <<stack, frames, kieker_traces, trace>>
  BY <1>1, <1>2 DEF ProbeTyped, CallAfter, CallBefore, Stage, Get, Goto, heap_vars, object_vars
<1>4. /\ call'[t].op \in Op /\ call'[t].probe \in {"before", "after"}
      /\ call'[t].probe = "after" => frames[t] # <<>>
  <2>1. CASE CallAfter(t)
    <3>1. Last(frames[t]) \in Op BY <1>1, <2>1, Innermost DEF CallAfter, ProbeTyped
    <3> QED BY <1>1, <2>1, <3>1 DEF CallAfter, ProbeTyped
  <2>2. ASSUME NEW op \in Op, CallBefore(t, op)
        PROVE  call'[t].op \in Op /\ call'[t].probe = "before"
    <3>1. call'[t] = [probe |-> "before", op |-> op] BY <1>1, <2>2 DEF CallBefore, ProbeTyped
    <3> QED BY <3>1
  <2> QED BY <2>1, <2>2
<1>5. StageInv(t)' BY <1>3, <1>4 DEF StageInv, InProbe, Dropping
<1>6. Depth(t)' = Depth(t) BY <1>1, <1>3 DEF Depth, ProbeTyped
<1>7. Matches(t)' = Matches(t) BY <1>3 DEF Matches
<1>8. DepthInv(t)' BY <1>1, <1>3, <1>6, <1>7 DEF DepthInv
<1> QED BY <1>5, <1>8

\* A probe is inside kieker_trace_get: a thread that has no object is in no operation,
\* so the object it makes may start at 0.
LEMMA GetCorrect ==
  ASSUME InjectiveKey, RegistryInv, ProbeInv, NEW t \in Thread, InGet(t)
  PROVE  StageInv(t)' /\ DepthInv(t)'
<1>1. ProbeTyped /\ StageInv(t) /\ DepthInv(t) BY DEF ProbeInv, ProbeTyped
<1>2. TypeOK /\ DataInv /\ EntryInv BY DEF RegistryInv
<1>3. step[t] = "get" /\ step'[t] = "get" /\ UNCHANGED <<frames, call>>
  BY DEF InGet, program_vars
<1>4. GetStep(t) BY DEF InGet
<1>5. pc'[t] \notin {"idle", "dellock", "del"} \cup Dropping
  BY <1>2, <1>4 DEF TypeOK, GetStep, RdLock, Find, RdUnlock, ReadId, BumpId, Created,
     WrLock, Add, WrUnlock, Goto, Dropping
<1>6. StageInv(t)' BY <1>1, <1>3, <1>5 DEF StageInv, InProbe
<1>7. Depth(t)' = Len(frames[t]) /\ Depth(t) = Len(frames[t]) /\ Len(frames[t]) \in Nat
  BY <1>1, <1>3 DEF Depth, ProbeTyped
<1>8. CASE pc[t] = "bump"
  <2>1. BumpId(t)
    BY <1>4, <1>8 DEF GetStep, RdLock, Find, RdUnlock, ReadId, WrLock, Add, WrUnlock, Goto
  <2>2. data[t] \in Obj \ kieker_traces BY <1>2, <1>8 DEF TypeOK, DataInv, Adding
  <2>3. Matches(t) = {} BY <1>2, <1>8 DEF EntryInv, Adding
  <2>4. kieker_traces' = kieker_traces /\ (\A o \in kieker_traces : trace'[o] = trace[o])
        /\ data' = data
    BY <1>2, <2>1, <2>2 DEF BumpId, Created, TypeOK
  <2>5. Matches(t)' = {} BY <2>3, <2>4 DEF Matches
  <2>6. stack'[data[t]] = 0 BY <1>1, <1>8, <2>2 DEF InGet, ProbeTyped
  <2> QED BY <1>1, <1>3, <1>6, <2>3, <2>4, <2>5, <2>6 DEF DepthInv
<1>9. CASE pc[t] # "bump"
  <2>1. UNCHANGED stack BY <1>9 DEF InGet, object_vars
  <2>2. CASE Add(t)
    <3>1. pc[t] = "add" /\ pc'[t] = "wrunlock" /\ UNCHANGED trace
          /\ kieker_traces' = kieker_traces \cup {data[t]}
      BY <1>2, <2>2 DEF Add, Goto, TypeOK, heap_vars
    <3>2. Matches(t) = {} BY <1>2, <3>1 DEF EntryInv, Adding
    <3>3. Matches(t)' \subseteq {data[t]} BY <3>1, <3>2 DEF Matches
    <3>4. trace[data[t]].thread_id = Key[t]
      BY <1>2, <3>1, NullAssumption DEF EntryInv, DataInv, TypeOK, Adding
    <3>5. data[t] \in Matches(t)' BY <3>1, <3>4 DEF Matches
    <3>6. frames[t] = <<>> /\ stack[data[t]] = 0 BY <1>1, <3>1, <3>2 DEF DepthInv
    <3>7. Len(frames[t]) = 0 BY <3>6
    <3> QED BY <1>3, <1>6, <1>7, <2>1, <3>1, <3>3, <3>5, <3>6, <3>7 DEF DepthInv
  <2>3. CASE ~Add(t)
    <3>1. UNCHANGED <<kieker_traces, trace>>
      BY <1>4, <1>9, <2>3 DEF GetStep, RdLock, Find, RdUnlock, ReadId, BumpId, Created, WrLock, WrUnlock,
         Goto, heap_vars
    <3>2. Matches(t)' = Matches(t) BY <3>1 DEF Matches
    <3>3. pc'[t] \in {"wrlock", "add"} => pc[t] \in {"wrlock", "add"} /\ data'[t] = data[t]
      BY <1>2, <1>4, <1>9, <2>3 DEF TypeOK, GetStep, RdLock, Find, RdUnlock, ReadId, BumpId,
         Created, WrLock, WrUnlock, Goto
    <3> QED BY <1>1, <1>3, <1>6, <1>7, <2>1, <3>2, <3>3 DEF DepthInv
  <2> QED BY <2>2, <2>3
<1> QED BY <1>8, <1>9

\* A probe looks up a string: nothing the invariant speaks of changes.
LEMMA LookupCorrect ==
  ASSUME ProbeInv, NEW t \in Thread, Lookup(t)
  PROVE  StageInv(t)' /\ DepthInv(t)'
<1>1. UNCHANGED <<stack, frames, step, call, kieker_traces, trace, pc, data>>
  BY DEF Lookup, vars, object_vars, program_vars, heap_vars
<1>2. Matches(t)' = Matches(t) BY <1>1 DEF Matches
<1> QED BY <1>1, <1>2, Untouched

\* A probe builds its records and sends them.
LEMMA RecordCorrect ==
  ASSUME RegistryInv, ProbeInv, NEW t \in Thread, Metadata(t) \/ Event(t) \/ Send(t)
  PROVE  StageInv(t)' /\ DepthInv(t)'
<1>1. ProbeTyped /\ StageInv(t) /\ DepthInv(t) BY DEF ProbeInv, ProbeTyped
<1>2. /\ UNCHANGED <<stack, frames, call, kieker_traces, trace, pc, data>> /\ pc[t] = "got"
      /\ \/ step[t] = "get" /\ step'[t] = "count"
         \/ step[t] = "event" /\ step'[t] = "send"
         \/ step[t] = "send" /\ step'[t] = "leave"
  BY <1>1 DEF ProbeTyped, StageInv, Metadata, Event, Send, Stage, vars, object_vars, program_vars
<1>3. StageInv(t)' BY <1>1, <1>2 DEF StageInv, InProbe
<1>4. Depth(t)' = Depth(t) BY <1>2 DEF Depth
<1>5. Matches(t)' = Matches(t) BY <1>2 DEF Matches
<1>6. DepthInv(t)' BY <1>1, <1>2, <1>4, <1>5 DEF DepthInv
<1> QED BY <1>3, <1>6

\* A probe counts, in the only object of its thread.
LEMMA CountCorrect ==
  ASSUME RegistryInv, ProbeInv, NEW t \in Thread, Count(t)
  PROVE  StageInv(t)' /\ DepthInv(t)'
<1>1. ProbeTyped /\ StageInv(t) /\ DepthInv(t) BY DEF ProbeInv, ProbeTyped
<1>2. /\ step[t] = "count" /\ step'[t] = "event" /\ pc[t] = "got"
      /\ UNCHANGED <<frames, call, kieker_traces, trace, pc, data>>
  BY <1>1 DEF ProbeTyped, StageInv, Count, Stage, vars, program_vars
<1>3. StageInv(t)' BY <1>1, <1>2 DEF StageInv, InProbe
<1>4. Matches(t) = {data[t]} /\ data[t] \in Obj BY <1>2, OnlyEntry DEF Using
<1>5. Matches(t)' = {data[t]} BY <1>2, <1>4 DEF Matches
<1>6. stack[data[t]] \in Int /\ Len(frames[t]) \in Nat BY <1>1, <1>4 DEF ProbeTyped
<1>7. stack[data[t]] >= Len(frames[t]) /\ (MayUnwind \/ stack[data[t]] = Len(frames[t]))
  BY <1>1, <1>2, <1>4 DEF DepthInv, Depth
<1>8. call[t].probe # "before" => call[t].probe = "after"
  BY <1>1, <1>2 DEF StageInv, InProbe
<1>9. PICK d \in {1, -1} : d = (IF call[t].probe = "before" THEN 1 ELSE -1) OBVIOUS
<1>10. stack'[data[t]] = stack[data[t]] + d BY <1>1, <1>4, <1>6, <1>9 DEF Count, ProbeTyped
<1>11. Depth(t)' = Len(frames[t]) + d BY <1>2, <1>9 DEF Depth
<1>12. stack'[data[t]] >= Depth(t)' /\ (MayUnwind \/ stack'[data[t]] = Depth(t)')
  BY <1>6, <1>7, <1>10, <1>11
<1>13. DepthInv(t)' BY <1>2, <1>5, <1>12 DEF DepthInv
<1> QED BY <1>3, <1>13

\* A probe returns, or ends the trace: then its operation is the last.
LEMMA EndCorrect ==
  ASSUME RegistryInv, ProbeInv, NEW t \in Thread, EndOfProbe(t)
  PROVE  StageInv(t)' /\ DepthInv(t)'
<1>1. ProbeTyped /\ StageInv(t) /\ DepthInv(t) BY DEF ProbeInv, ProbeTyped
<1>2. pc \in [Thread -> Position] BY DEF RegistryInv, TypeOK
<1>3. step[t] = "leave" /\ pc[t] = "got" /\ UNCHANGED <<stack, kieker_traces, trace>>
  BY <1>1 DEF StageInv, EndOfProbe, CallRemove, Return, object_vars, heap_vars
<1>4. Matches(t) = {data[t]} /\ data[t] \in Obj BY <1>3, OnlyEntry DEF Using
<1>5. Matches(t)' = {data[t]} BY <1>3, <1>4 DEF Matches
<1>6. /\ call[t].op \in Op /\ call[t].probe \in {"before", "after"}
      /\ call[t].probe = "after" => frames[t] # <<>>
  BY <1>1, <1>3 DEF StageInv, InProbe
<1>7. stack[data[t]] \in Int /\ frames[t] \in Seq(Op) BY <1>1, <1>4 DEF ProbeTyped
<1>8. Len(frames'[t]) = Depth(t) /\ Len(frames'[t]) \in Nat
  <2>1. frames'[t] = IF call[t].probe = "before" THEN Append(frames[t], call[t].op)
                                                  ELSE Front(frames[t])
    BY <1>1 DEF EndOfProbe, ProbeTyped
  <2>2. CASE call[t].probe = "before"
    <3>1. Depth(t) = Len(frames[t]) + 1 BY <1>3, <2>2 DEF Depth
    <3>2. Len(frames'[t]) = Len(frames[t]) + 1 BY <1>6, <1>7, <2>1, <2>2
    <3> QED BY <1>7, <3>1, <3>2
  <2>3. CASE call[t].probe = "after"
    <3>1. Depth(t) = Len(frames[t]) + -1 BY <1>3, <2>3 DEF Depth
    <3>2. Len(Front(frames[t])) = Len(frames[t]) - 1 /\ Len(frames[t]) \in Nat \ {0}
      BY <1>6, <1>7, <2>3, Innermost
    <3>3. Len(frames'[t]) = Len(frames[t]) - 1 BY <2>1, <2>3, <3>2
    <3> QED BY <3>1, <3>2, <3>3
  <2> QED BY <1>6, <2>2, <2>3
<1>9. stack[data[t]] >= Len(frames'[t]) /\ (MayUnwind \/ stack[data[t]] = Len(frames'[t]))
  BY <1>1, <1>3, <1>4, <1>8 DEF DepthInv
<1>10. frames'[t] = <<>> <=> Len(frames'[t]) = 0
  <2>1. frames' \in [Thread -> Seq(Op)] BY TypesKept DEF ThreadNext, ProbeStep, ProbeTyped
  <2>2. frames'[t] \in Seq(Op) BY <2>1
  <2> QED BY <2>2
<1>11. call[t].probe = "before" => frames'[t] # <<>>
  BY <1>1, <1>6, <1>7 DEF EndOfProbe, ProbeTyped
<1>12. CASE call[t].probe = "after" /\ stack[data[t]] = 0
  <2>1. step'[t] = "remove" /\ pc'[t] = "dellock"
    BY <1>1, <1>2, <1>12 DEF EndOfProbe, CallRemove, Goto, ProbeTyped
  <2>2. frames'[t] = <<>> BY <1>8, <1>9, <1>10, <1>12
  <2>3. StageInv(t)' BY <2>1 DEF StageInv, InProbe, Dropping
  <2> QED BY <1>5, <2>1, <2>2, <2>3 DEF DepthInv
<1>13. CASE ~(call[t].probe = "after" /\ stack[data[t]] = 0)
  <2>1. step'[t] = "out" /\ pc'[t] = "idle"
    BY <1>1, <1>2, <1>13 DEF EndOfProbe, Return, Goto, ProbeTyped
  <2>2. StageInv(t)' BY <2>1 DEF StageInv, InProbe, Dropping
  <2>3. Depth(t)' = Len(frames'[t]) BY <1>8, <2>1 DEF Depth
  <2>4. frames'[t] = <<>> => MayUnwind BY <1>6, <1>9, <1>10, <1>11, <1>13
  <2> QED BY <1>3, <1>5, <1>9, <2>1, <2>2, <2>3, <2>4 DEF DepthInv
<1> QED BY <1>12, <1>13

\* A probe is inside kieker_trace_remove.
LEMMA RemoveCorrect ==
  ASSUME RegistryInv, ProbeInv, NEW t \in Thread, InRemove(t)
  PROVE  StageInv(t)' /\ DepthInv(t)'
<1>1. ProbeTyped /\ StageInv(t) /\ DepthInv(t) BY DEF ProbeInv, ProbeTyped
<1>2. TypeOK /\ EntryInv BY DEF RegistryInv
<1>3. /\ step[t] = "remove" /\ RemoveStep(t) /\ UNCHANGED <<stack, frames, call>>
      /\ step'[t] = IF pc[t] = "free" THEN "out" ELSE "remove"
  BY <1>1 DEF InRemove, ProbeTyped, object_vars, program_vars
<1>4. frames[t] = <<>> BY <1>1, <1>3 DEF DepthInv
<1>5. CASE Free(t)
  <2>1. pc[t] = "free" /\ pc'[t] = "idle" /\ UNCHANGED <<kieker_traces, trace>>
    BY <1>2, <1>5 DEF Free, Goto, TypeOK
  <2>2. Matches(t) = {} BY <1>2, <2>1 DEF EntryInv, Dropping
  <2>3. Matches(t)' = {} BY <2>1, <2>2 DEF Matches
  <2>4. StageInv(t)' BY <1>3, <2>1 DEF StageInv, InProbe, Dropping
  <2> QED BY <1>3, <1>4, <2>1, <2>3, <2>4 DEF DepthInv
<1>6. CASE ~Free(t)
  <2>1. pc[t] # "free" /\ pc'[t] \in {"del", "delunlock", "free"}
    BY <1>2, <1>3, <1>6 DEF RemoveStep, DelLock, Del, DelUnlock, Goto, TypeOK
  <2>2. step'[t] = "remove" BY <1>3, <2>1
  <2>3. StageInv(t)' BY <2>1, <2>2 DEF StageInv, InProbe, Dropping
  <2> QED BY <1>3, <1>4, <2>1, <2>2, <2>3 DEF DepthInv
<1> QED BY <1>5, <1>6

\* A thread ends inside its operations: its object stays and is too high from now on.
LEMMA UnwindCorrect ==
  ASSUME RegistryInv, ProbeInv, NEW t \in Thread, Unwind(t)
  PROVE  StageInv(t)' /\ DepthInv(t)'
<1>1. ProbeTyped /\ StageInv(t) /\ DepthInv(t) BY DEF ProbeInv, ProbeTyped
<1>2. /\ MayUnwind /\ step[t] = "out" /\ frames'[t] = <<>>
      /\ UNCHANGED <<stack, step, call, kieker_traces, trace, pc, data>>
  BY <1>1 DEF Unwind, ProbeTyped, vars, object_vars
<1>3. StageInv(t)' BY <1>1, <1>2 DEF StageInv, InProbe
<1>4. Matches(t)' = Matches(t) BY <1>2 DEF Matches
<1>5. Depth(t) = Len(frames[t]) /\ Depth(t)' = 0 /\ Len(frames[t]) \in Nat
  BY <1>1, <1>2 DEF Depth, ProbeTyped
<1>6. \A o \in Matches(t) : stack[o] >= 0
  <2> SUFFICES ASSUME NEW o \in Matches(t) PROVE stack[o] >= 0 OBVIOUS
  <2>1. stack[o] >= Len(frames[t]) BY <1>1, <1>2, <1>5 DEF DepthInv
  <2>2. stack[o] \in Int BY <1>1 DEF ProbeTyped, RegistryInv, TypeOK, Matches
  <2> QED BY <1>5, <2>1, <2>2
<1>7. DepthInv(t)' BY <1>1, <1>2, <1>4, <1>5, <1>6 DEF DepthInv
<1> QED BY <1>3, <1>7

-----------------------------------------------------------------------------
(* The theorems.                                                            *)

LEMMA ThreadCorrect ==
  ASSUME InjectiveKey, RegistryInv, ProbeInv, NEW u \in Thread, ThreadNext(u)
  PROVE  ProbeInv'
<1>1. ProbeTyped' BY TypesKept
<1>2. StageInv(u)' /\ DepthInv(u)'
  BY CallCorrect, GetCorrect, LookupCorrect, RecordCorrect, CountCorrect, EndCorrect, RemoveCorrect, UnwindCorrect
     DEF ThreadNext, ProbeStep
<1>3. ASSUME NEW t \in Thread, t # u PROVE StageInv(t)' /\ DepthInv(t)'
  BY <1>3, StepOfOther
<1> QED BY <1>1, <1>2, <1>3 DEF ProbeInv, ProbeTyped

LEMMA ProbeStepCorrect ==
  ASSUME InjectiveKey, RegistryInv, ProbeInv, [ProbeNext]_all_vars
  PROVE  ProbeInv'
<1>1. CASE UNCHANGED all_vars
  <2>1. ASSUME NEW t \in Thread PROVE StageInv(t)' /\ DepthInv(t)'
    <3>1. Matches(t)' = Matches(t) BY <1>1 DEF all_vars, vars, Matches
    <3> QED BY <1>1, <2>1, <3>1, Untouched
            DEF all_vars, vars, probe_vars, object_vars, program_vars
  <2>2. UNCHANGED <<stack, frames, step, call>>
    BY <1>1 DEF all_vars, probe_vars, object_vars, program_vars
  <2> QED BY <2>1, <2>2 DEF ProbeInv
<1>2. CASE RunOver BY <1>1, <1>2 DEF RunOver
<1>3. ASSUME NEW t \in Thread, ThreadNext(t) PROVE ProbeInv'
  BY <1>3, ThreadCorrect
<1> QED BY <1>1, <1>2, <1>3 DEF ProbeNext, ThreadNext

LEMMA ProbeInitCorrect == ProbeInit => ProbeInv
<1> SUFFICES ASSUME ProbeInit PROVE ProbeInv OBVIOUS
<1>1. ProbeTyped BY DEF ProbeInit, ProbeTyped, NoCall
<1>2. ASSUME NEW t \in Thread PROVE StageInv(t) /\ DepthInv(t)
  <2>1. Matches(t) = {} BY DEF ProbeInit, Init, Matches
  <2>2. step[t] = "out" /\ pc[t] = "idle" /\ frames[t] = <<>> BY DEF ProbeInit, Init
  <2> QED BY <2>1, <2>2 DEF StageInv, DepthInv, InProbe, Dropping
<1> QED BY <1>1, <1>2 DEF ProbeInv, ProbeTyped

\* What the registry guarantees its callers, the probes get.
THEOREM RegistryUnderProbes ==
  ASSUME InjectiveKey
  PROVE  ProbeSpec => []RegistryInv
<1>1. ProbeSpec => Spec BY ProbesAreCallers DEF ProbesUseRegistry
<1> QED BY <1>1, RegistryCorrect, PTL

\* The inductive invariant of the probes: at every step of a probe, the object of its
\* thread has counted the operations the thread is in.
THEOREM ProbeCorrect ==
  ASSUME InjectiveKey
  PROVE  ProbeSpec => []ProbeInv
<1>1. RegistryInv /\ ProbeInv /\ [ProbeNext]_all_vars => ProbeInv' BY ProbeStepCorrect
<1> QED BY <1>1, ProbeInitCorrect, RegistryUnderProbes, PTL DEF ProbeSpec

\* Unless threads end inside their operations, a thread has a trace object between
\* probes exactly while it is in an operation, and its stack is their number.
THEOREM StackCounts ==
  ASSUME InjectiveKey, ~MayUnwind
  PROVE  ProbeSpec => []StackIsDepth
<1>1. ProbeInv => StackIsDepth
  <2> SUFFICES ASSUME ProbeInv, NEW t \in Thread, step[t] = "out"
               PROVE  /\ Matches(t) = {} <=> frames[t] = <<>>
                      /\ \A o \in Matches(t) : stack[o] = Len(frames[t])
    BY DEF StackIsDepth
  <2>1. DepthInv(t) /\ frames[t] \in Seq(Op) BY DEF ProbeInv
  <2>2. Depth(t) = Len(frames[t]) BY <2>1 DEF Depth
  <2> QED BY <2>1, <2>2 DEF DepthInv
<1> QED BY <1>1, ProbeCorrect, PTL

\* Even if threads end inside their operations, and others come with their keys, no
\* trace ends before the operations of its thread do.
THEOREM TraceOutlives ==
  ASSUME InjectiveKey
  PROVE  ProbeSpec => []TraceOutlivesFrames
<1>1. ProbeInv => TraceOutlivesFrames
  <2> SUFFICES ASSUME ProbeInv, NEW t \in Thread, step[t] = "out", frames[t] # <<>>
               PROVE  \E o \in Matches(t) : stack[o] >= Len(frames[t])
    BY DEF TraceOutlivesFrames
  <2>1. DepthInv(t) /\ frames[t] \in Seq(Op) BY DEF ProbeInv
  <2>2. Depth(t) = Len(frames[t]) BY <2>1 DEF Depth
  <2> QED BY <2>1, <2>2 DEF DepthInv
<1> QED BY <1>1, ProbeCorrect, PTL

\* When the program runs one probe at a time, the open traces have different ids.
THEOREM IdsUnderProbes ==
  ASSUME InjectiveKey, Serialised
  PROVE  ProbeSpec => []UniqueTraceIds
<1>1. ProbeSpec => Spec BY ProbesAreCallers DEF ProbesUseRegistry
<1> QED BY <1>1, UniqueIdsWhenSerialised, PTL
===============================================================================
