----------------------------- MODULE AspectProofs -----------------------------
(***************************************************************************)
(* Proofs about AspectProbes, for any threads, classes, lists and bounds:  *)
(* the array of hashes is never used past its end, order indexes never     *)
(* fall, every trace has its metadata, a trace never ends, the log tells   *)
(* in which operations a thread is, and the operation records of the       *)
(* control flow aspect tell the call tree.                                 *)
(*                                                                         *)
(* ProbesInv is inductive.  Its parts before the two properties of the log *)
(* say what the trace object of a thread knows of the log, and that a      *)
(* thread inside an operation has such an object.  Beside it,              *)
(* LogTellsShownFrames is inductive once the recursions over the log and   *)
(* over the operations of a thread are unrolled by one record, and so is   *)
(* FlowInv.  The second half is about the list of excluded classes.        *)
(***************************************************************************)
EXTENDS AspectProbes, DataInduction, SequenceTheorems, FiniteSetTheorems, TLAPS

-----------------------------------------------------------------------------
(* Lemmas about what the steps share.                                       *)

\* What is appended to a sequence comes behind what it had.
LEMMA Appended ==
  ASSUME NEW S, NEW a \in Seq(S), NEW b \in Seq(S)
  PROVE  /\ a \o b \in Seq(S)
         /\ DOMAIN (a \o b) = 1 .. Len(a) + Len(b)
         /\ DOMAIN a = 1 .. Len(a) /\ DOMAIN b = 1 .. Len(b)
         /\ \A n \in 1 .. Len(a) : (a \o b)[n] = a[n]
         /\ \A n \in 1 .. Len(b) : (a \o b)[Len(a) + n] = b[n]
OBVIOUS

\* The first k elements of a sequence.
LEMMA Prefix ==
  ASSUME NEW S, NEW f \in Seq(S), NEW k \in 0 .. Len(f)
  PROVE  /\ SubSeq(f, 1, k) \in Seq(S) /\ Len(SubSeq(f, 1, k)) = k
         /\ \A n \in 1 .. k : SubSeq(f, 1, k)[n] = f[n]
<1>1. SubSeq(f, 1, k) = [n \in 1 .. k |-> f[n]] BY SubSeqRestrict DEF Restrict
<1>2. \A n \in 1 .. k : f[n] \in S OBVIOUS
<1> QED BY <1>1, <1>2

\* The innermost operation is one of the operations, and the rest stay.
LEMMA Innermost ==
  ASSUME NEW S, NEW f \in Seq(S), f # <<>>
  PROVE  /\ Len(f) \in Nat \ {0}
         /\ Last(f) = f[Len(f)] /\ Last(f) \in S
         /\ Front(f) \in Seq(S) /\ Len(Front(f)) = Len(f) - 1
         /\ DOMAIN f = 1 .. Len(f) /\ DOMAIN Front(f) = 1 .. Len(f) - 1
         /\ \A n \in 1 .. Len(f) - 1 : Front(f)[n] = f[n]
<1>1. Len(f) \in Nat \ {0} OBVIOUS
<1>2. Last(f) = f[Len(f)] /\ f[Len(f)] \in S BY <1>1 DEF Last
<1>3. Front(f) = SubSeq(f, 1, Len(f) - 1) BY DEF Front
<1>4. /\ Front(f) \in Seq(S) /\ Len(Front(f)) = Len(f) - 1
      /\ \A n \in 1 .. Len(f) - 1 : Front(f)[n] = f[n]
  <2>1. Len(f) - 1 \in 0 .. Len(f) BY <1>1
  <2>2. /\ SubSeq(f, 1, Len(f) - 1) \in Seq(S) /\ Len(SubSeq(f, 1, Len(f) - 1)) = Len(f) - 1
        /\ \A n \in 1 .. Len(f) - 1 : SubSeq(f, 1, Len(f) - 1)[n] = f[n]
    BY <2>1, Prefix
  <2> QED BY <1>3, <2>2
<1>5. DOMAIN f = 1 .. Len(f) /\ DOMAIN Front(f) = 1 .. Len(f) - 1 BY <1>1, <1>4
<1> QED BY <1>1, <1>2, <1>4, <1>5

\* The aspects only use the answer of the list, which stays once the aspect is made.
LEMMA AnswersStay ==
  ASSUME UNCHANGED table_vars
  PROVE  Hidden' = Hidden
BY DEF Hidden, Excluded, Search, table_vars

-----------------------------------------------------------------------------
(* The loader.                                                              *)

LEMMA LoaderKeepsArray == ASSUME AdaptiveInv, LoaderStep PROVE AdaptiveInv'
<1> USE CapacityAssumption, HashAssumption
<1>1. CASE OpenList
  BY <1>1 DEF OpenList, AdaptiveInv, Returns
<1>2. CASE ReadLine
  <2>1. i \in 0 .. MaxHashes /\ load = "read" BY <1>2 DEF ReadLine, AdaptiveInv
  <2>2. CASE IsEntry(file.lines[line + 1])
    <3> DEFINE h == Hash[<<file.lines[line + 1].white, file.lines[line + 1].text>>]
    <3>1. /\ hashes' = [hashes EXCEPT ![i] = h] /\ i' = i + 1 /\ excludes_size' = excludes_size
          /\ IF i' > MaxHashes THEN load' = "loaded" /\ result' = -4
                               ELSE load' = load /\ result' = result
      BY <1>2, <2>2 DEF ReadLine, Returns
    <3>2. DOMAIN hashes' = 0 .. MaxHashes BY <3>1 DEF AdaptiveInv
    <3>3. hashes'[MaxHashes] # 0 => i' > MaxHashes \/ hashes[MaxHashes] # 0
      <4>1. CASE i = MaxHashes BY <4>1, <3>1, <2>1
      <4>2. CASE i # MaxHashes BY <4>2, <3>1, <2>1 DEF AdaptiveInv
      <4> QED BY <4>1, <4>2
    <3> HIDE DEF h
    <3> QED BY <3>1, <3>2, <3>3, <2>1 DEF AdaptiveInv
  <2>3. CASE ~IsEntry(file.lines[line + 1])
    BY <1>2, <2>3 DEF ReadLine, AdaptiveInv
  <2> QED BY <2>2, <2>3
<1>3. CASE FinishList
  <2>1. /\ load = "read" /\ load' = "loaded" /\ excludes_size' = i /\ i' = i
        /\ hashes' = Sorted(hashes, i)
    BY <1>3 DEF FinishList, Returns
  <2>2. i \in 0 .. MaxHashes /\ hashes[MaxHashes] = 0 /\ DOMAIN hashes = 0 .. MaxHashes
    BY <2>1 DEF AdaptiveInv
  <2>3. DOMAIN Sorted(hashes, i) = 0 .. MaxHashes BY <2>2 DEF Sorted
  <2>4. Sorted(hashes, i)[MaxHashes] = 0 BY <2>2 DEF Sorted
  <2> QED BY <2>1, <2>2, <2>3, <2>4 DEF AdaptiveInv
<1> QED BY <1>1, <1>2, <1>3 DEF LoaderStep

\* As long as the aspect is not made, nothing else of the state matters.
LEMMA NoTracesYet ==
  ASSUME ProbesInv, load # "done", UNCHANGED aspect_vars, AdaptiveInv'
  PROVE  ProbesInv'
<1>1. \A t \in Thread : trace[t] = NoTrace /\ frames[t] = <<>> BY DEF ProbesInv, TraceInv
<1>2. TypeInv' BY DEF ProbesInv, TypeInv, aspect_vars, program_vars
<1>3. TraceInv' BY <1>1 DEF TraceInv, aspect_vars, program_vars
<1>4. LogInv' BY <1>1 DEF ProbesInv, LogInv, aspect_vars, program_vars, IsEvent
<1>5. OrderNeverFalls' /\ MetadataFirst'
  BY DEF ProbesInv, OrderNeverFalls, MetadataFirst, IsEvent, aspect_vars, program_vars
<1> QED BY <1>2, <1>3, <1>4, <1>5 DEF ProbesInv

LEMMA InitCorrect == Init => ProbesInv
<1> SUFFICES ASSUME Init PROVE ProbesInv OBVIOUS
<1>1. AdaptiveInv BY CapacityAssumption DEF Init, AdaptiveInit, AdaptiveInv
<1>2. TypeInv
  <2>1. TypeKeys \in Seq(LogEntry) BY DEF TypeKeys, LogEntry
  <2>2. <<>> \in Seq(LogEntry) /\ <<>> \in Seq(Frame) OBVIOUS
  <2> QED BY <2>1, <2>2, AspectBoundsAssumption DEF Init, TypeInv
<1>3. TraceInv BY DEF Init, TraceInv
<1>4. LogInv BY DEF Init, LogInv
<1>5. OrderNeverFalls /\ MetadataFirst BY DEF Init, OrderNeverFalls, MetadataFirst
<1> QED BY <1>1, <1>2, <1>3, <1>4, <1>5 DEF ProbesInv

-----------------------------------------------------------------------------
(* Trace objects and the log.                                               *)

\* The log has nothing of a trace before its first event, and its metadata after that.
Known(id, order) ==
  /\ \A n \in DOMAIN log : log[n].type # "keys" /\ log[n].trace = id =>
       /\ order >= 0
       /\ IsEvent(log[n]) => log[n].order =< order
  /\ aspect = "event" /\ order >= 0 =>
       lost \/ \E n \in DOMAIN log : log[n].type = "metadata" /\ log[n].trace = id

\* The object tr fits a thread inside the operations f.
Fits(tr, f) ==
  /\ tr.stack >= Len(f)
  /\ aspect = "event" => \A n \in DOMAIN f : f[n].class \in Hidden \/ tr.order_index >= 0

\* No thread but t has a trace with this id.
OwnId(t, id) == \A u \in Thread : u # t /\ trace[u] # NoTrace => trace[u].trace_id # id

\* The counter of trace ids is past this one.
IdsGrow(id) ==
  /\ kieker_trace_current_id' \in Nat
  /\ kieker_trace_current_id' >= kieker_trace_current_id
  /\ id < kieker_trace_current_id'

\* The object of t becomes tr, and its operations become f.
Moves(t, tr, f) ==
  /\ load = "done" /\ UNCHANGED <<adaptive_vars, aspect>>
  /\ trace' = [trace EXCEPT ![t] = tr]
  /\ frames' = [frames EXCEPT ![t] = f]

\* The same, without the operations.
Becomes(t, id, order) ==
  /\ \A u \in Thread : u # t => trace'[u] = trace[u]
  /\ trace'[t] # NoTrace /\ trace'[t].trace_id = id /\ trace'[t].order_index = order

\* What a step of the event aspect sends.
Records(new, id, before, after) ==
  \/ /\ before = -1 /\ Len(new) = 2
     /\ new[1].type = "metadata" /\ new[1].trace = id
     /\ IsEvent(new[2]) /\ new[2].trace = id /\ new[2].order =< after
  \/ /\ before >= 0 /\ Len(new) = 1
     /\ IsEvent(new[1]) /\ new[1].trace = id
     /\ new[1].order >= before /\ new[1].order =< after
     /\ new[1].type = "before" => new[1].order > before

\* The trace object kieker_trace_get returns: what ProbesInv says of it.
LEMMA GotObject ==
  ASSUME ProbesInv, load = "done", NEW t \in Thread, NextId(t)
  PROVE  /\ Got(t) \in Object
         /\ IdsGrow(Got(t).trace_id)
         /\ Fits(Got(t), frames[t])
         /\ OwnId(t, Got(t).trace_id)
         /\ Known(Got(t).trace_id, Got(t).order_index)
<1> USE DEF Object, IdsGrow, Fits, OwnId, Known
<1>1. TypeInv /\ TraceInv /\ LogInv BY DEF ProbesInv
<1>2. CASE trace[t] # NoTrace
  <2>1. Got(t) = trace[t] /\ kieker_trace_current_id' = kieker_trace_current_id + 0
    BY <1>2 DEF Got, NextId
  <2>2. /\ trace[t] \in [trace_id : Nat, order_index : Nat \cup {-1}, stack : Nat]
        /\ kieker_trace_current_id \in Nat
    BY <1>1, <1>2 DEF TypeInv
  <2>3. /\ trace[t].trace_id < kieker_trace_current_id /\ trace[t].stack >= Len(frames[t])
        /\ aspect = "event" => \A n \in DOMAIN frames[t] :
             frames[t][n].class \in Hidden \/ trace[t].order_index >= 0
        /\ \A u \in Thread : u # t /\ trace[u] # NoTrace => trace[u].trace_id # trace[t].trace_id
    BY <1>1, <1>2 DEF TraceInv
  <2>4. /\ \A n \in DOMAIN log : log[n].type # "keys" /\ log[n].trace = trace[t].trace_id =>
             /\ trace[t].order_index >= 0
             /\ IsEvent(log[n]) => log[n].order =< trace[t].order_index
        /\ aspect = "event" /\ trace[t].order_index >= 0 =>
             lost \/ \E n \in DOMAIN log :
                       log[n].type = "metadata" /\ log[n].trace = trace[t].trace_id
    BY <1>1, <1>2 DEF LogInv
  <2> QED BY <2>1, <2>2, <2>3, <2>4
<1>3. CASE trace[t] = NoTrace
  <2>1. /\ Got(t) = [trace_id |-> kieker_trace_current_id, order_index |-> -1, stack |-> 0]
        /\ kieker_trace_current_id' = kieker_trace_current_id + 1
    BY <1>3 DEF Got, NextId
  <2>2. kieker_trace_current_id \in Nat /\ frames[t] = <<>>
    BY <1>1, <1>3 DEF TypeInv, TraceInv
  <2>3. \A u \in Thread : u # t /\ trace[u] # NoTrace => trace[u].trace_id # kieker_trace_current_id
    BY <1>1, <2>2 DEF TypeInv, TraceInv
  <2>4. \A n \in DOMAIN log : log[n].type # "keys" => log[n].trace # kieker_trace_current_id
    <3> SUFFICES ASSUME NEW n \in DOMAIN log, log[n].type # "keys"
                 PROVE  log[n].trace # kieker_trace_current_id
      OBVIOUS
    <3>1. log[n].trace < kieker_trace_current_id BY <1>1 DEF LogInv
    <3>2. log[n] \in LogEntry BY <1>1 DEF TypeInv
    <3>3. log[n].trace \in Nat BY <3>2 DEF LogEntry
    <3> QED BY <3>1, <3>3, <2>2
  <2> QED BY <2>1, <2>2, <2>3, <2>4
<1> QED BY <1>2, <1>3

\* A thread's trace object changes and records of that trace are sent: what is left
\* to show of a step of the event aspect.
LEMMA TraceMoves ==
  ASSUME ProbesInv, NEW t \in Thread, NEW tr \in Object, NEW f \in Seq(Frame),
         Moves(t, tr, f), IdsGrow(tr.trace_id), Fits(tr, f), OwnId(t, tr.trace_id)
  PROVE  /\ AdaptiveInv' /\ TraceInv'
         /\ frames' \in [Thread -> Seq(Frame)] /\ trace' \in [Thread -> Object \cup {NoTrace}]
         /\ Becomes(t, tr.trace_id, tr.order_index)
<1> USE DEF Object, IdsGrow, Fits, OwnId, Moves
<1>0. tr # NoTrace BY NoTraceAssumption
<1>1. AdaptiveInv'
  BY DEF ProbesInv, AdaptiveInv, adaptive_vars, loader_vars, table_vars
<1>2. TypeInv /\ TraceInv BY DEF ProbesInv
<1>3. DOMAIN trace = Thread /\ frames \in [Thread -> Seq(Frame)] BY <1>2 DEF TypeInv
<1>4. /\ DOMAIN trace' = Thread /\ trace'[t] = tr
      /\ \A u \in Thread : u # t => trace'[u] = trace[u]
  BY <1>3
<1>5. /\ frames' \in [Thread -> Seq(Frame)] /\ frames'[t] = f
      /\ \A u \in Thread : u # t => frames'[u] = frames[u]
  BY <1>3
<1>6. Hidden' = Hidden BY AnswersStay DEF adaptive_vars
<1>7. aspect' = aspect /\ load' = "done" BY DEF adaptive_vars, loader_vars
<1>8. TraceInv'
  <2>1. ASSUME NEW u \in Thread
        PROVE  IF trace'[u] = NoTrace THEN frames'[u] = <<>>
               ELSE /\ load' = "done"
                    /\ trace'[u].trace_id < kieker_trace_current_id'
                    /\ trace'[u].stack >= Len(frames'[u])
                    /\ aspect' = "event" => \A n \in DOMAIN frames'[u] :
                         frames'[u][n].class \in Hidden' \/ trace'[u].order_index >= 0
    <3>1. CASE u = t BY <3>1, <1>0, <1>4, <1>5, <1>6, <1>7
    <3>2. CASE u # t /\ trace[u] = NoTrace BY <3>2, <1>2, <1>4, <1>5 DEF TraceInv
    <3>3. CASE u # t /\ trace[u] # NoTrace
      <4>1. /\ trace[u].trace_id \in Nat /\ kieker_trace_current_id \in Nat
        BY <3>3, <1>2 DEF TypeInv
      <4>2. /\ trace[u].trace_id < kieker_trace_current_id
            /\ trace[u].stack >= Len(frames[u])
            /\ aspect = "event" => \A n \in DOMAIN frames[u] :
                 frames[u][n].class \in Hidden \/ trace[u].order_index >= 0
        BY <3>3, <1>2 DEF TraceInv
      <4> QED BY <3>3, <4>1, <4>2, <1>4, <1>5, <1>6, <1>7
    <3> QED BY <3>1, <3>2, <3>3
  <2>2. \A u, v \in Thread :
          trace'[u] # NoTrace /\ trace'[v] # NoTrace /\ trace'[u].trace_id = trace'[v].trace_id
            => u = v
    BY <1>2, <1>4 DEF TraceInv
  <2> QED BY <2>1, <2>2 DEF TraceInv
<1>9. trace' \in [Thread -> Object \cup {NoTrace}]
  BY <1>2 DEF TypeInv
<1>10. Becomes(t, tr.trace_id, tr.order_index) BY <1>0, <1>4 DEF Becomes
<1> QED BY <1>1, <1>3, <1>4, <1>5, <1>8, <1>9, <1>10

\* The records of one step come behind the log: metadata if the trace is new to the
\* log, then an event that is ahead of what the log has of the trace.
LEMMA LogGrows ==
  ASSUME ProbesInv, aspect' = aspect, aspect = "event",
         NEW t \in Thread, NEW new \in Seq(LogEntry),
         NEW id \in Nat, NEW before \in Nat \cup {-1}, NEW after \in Nat,
         before =< after, IdsGrow(id), log' = log \o new, UNCHANGED lost,
         Known(id, before), Records(new, id, before, after),
         Becomes(t, id, after), OwnId(t, id)
  PROVE  LogInv' /\ OrderNeverFalls' /\ MetadataFirst'
<1> USE DEF IdsGrow, Known, Becomes, OwnId
<1> DEFINE k == Len(log)
<1>1. /\ LogInv /\ OrderNeverFalls /\ MetadataFirst /\ TypeInv BY DEF ProbesInv
<1>2. /\ log' \in Seq(LogEntry) /\ k \in Nat
      /\ DOMAIN log' = 1 .. k + Len(new) /\ DOMAIN log = 1 .. k /\ DOMAIN new = 1 .. Len(new)
      /\ \A n \in 1 .. k : log'[n] = log[n]
      /\ \A n \in 1 .. Len(new) : log'[k + n] = new[n]
  BY <1>1, Appended DEF TypeInv
<1>3. \A n \in DOMAIN log : log[n].type # "keys" =>
        /\ log[n].trace \in Nat /\ log[n].trace < kieker_trace_current_id
        /\ IsEvent(log[n]) => log[n].order \in Nat
  BY <1>1 DEF TypeInv, LogInv, LogEntry, IsEvent
<1>4. \A n \in DOMAIN new : /\ new[n].type # "keys" /\ new[n].trace = id
                            /\ IsEvent(new[n]) => new[n].order \in Nat /\ new[n].order =< after
  <2> SUFFICES ASSUME NEW n \in 1 .. Len(new)
               PROVE  /\ new[n].type # "keys" /\ new[n].trace = id
                      /\ IsEvent(new[n]) => new[n].order \in Nat /\ new[n].order =< after
    BY <1>2
  <2>1. new[n] \in LogEntry OBVIOUS
  <2>2. IsEvent(new[n]) => new[n].order \in Nat BY <2>1 DEF LogEntry, IsEvent
  <2>3. Len(new) = 1 => n = 1 OBVIOUS
  <2>4. Len(new) = 2 => n = 1 \/ n = 2 OBVIOUS
  <2>5. new[n].type # "keys" /\ new[n].trace = id BY <2>3, <2>4 DEF IsEvent, Records
  <2>6. IsEvent(new[n]) => new[n].order =< after BY <2>3, <2>4 DEF IsEvent, Records
  <2> QED BY <2>2, <2>5, <2>6
<1>5. kieker_trace_current_id \in Nat BY <1>1 DEF TypeInv
<1>9. \A n \in DOMAIN log : log[n].type # "keys" /\ log[n].trace = id =>
        before >= 0 /\ (IsEvent(log[n]) => log[n].order =< before)
  OBVIOUS
<1>6. \A n \in DOMAIN log' : n \notin 1 .. k => n - k \in 1 .. Len(new) /\ log'[n] = new[n - k]
  <2> SUFFICES ASSUME NEW n \in 1 .. k + Len(new), n \notin 1 .. k
               PROVE  n - k \in 1 .. Len(new) /\ log'[n] = new[n - k]
    BY <1>2
  <2>1. n - k \in 1 .. Len(new) /\ n = k + (n - k) BY <1>2
  <2> QED BY <2>1, <1>2
<1> HIDE DEF k
<1>7. CASE /\ before = -1 /\ Len(new) = 2
           /\ new[1].type = "metadata" /\ new[1].trace = id
           /\ IsEvent(new[2]) /\ new[2].trace = id /\ new[2].order =< after
  <2>1. \A n \in 1 .. k : log'[n].type # "keys" => log'[n].trace # id
    <3>1. ~(before >= 0) BY <1>7
    <3> QED BY <3>1, <1>2, <1>9
  <2>2. /\ DOMAIN log' = 1 .. k + 2 /\ log'[k + 1] = new[1] /\ log'[k + 2] = new[2]
        /\ \A n \in DOMAIN log' : n \in 1 .. k \/ n = k + 1 \/ n = k + 2
    BY <1>2, <1>7
  <2>3. ~IsEvent(log'[k + 1]) BY <2>2, <1>7 DEF IsEvent
  <2>4. log'[k + 1].type = "metadata" /\ log'[k + 1].trace = id /\ log'[k + 2].trace = id
    BY <2>2, <1>7
  <2>5. log'[k + 2].type # "keys" /\ log'[k + 2].type # "metadata" BY <2>2, <1>7 DEF IsEvent
  <2>6. OrderNeverFalls'
    <3> SUFFICES ASSUME NEW m \in DOMAIN log', NEW n \in DOMAIN log', m < n,
                        IsEvent(log'[m]), IsEvent(log'[n]), log'[m].trace = log'[n].trace
                 PROVE  /\ log'[m].order =< log'[n].order
                        /\ log'[n].type = "before" => log'[m].order < log'[n].order
      BY DEF OrderNeverFalls, IsEvent
    <3>5. m # k + 1 BY <2>3
    <3>6. m \in 1 .. k \/ m = k + 2 BY <3>5, <2>2
    <3>1. m \in 1 .. k BY <3>6, <2>2, <1>2
    <3>2. log'[m].type # "keys" BY DEF IsEvent
    <3>3. log'[n].trace # id BY <2>1, <3>1, <3>2
    <3>4. n \in 1 .. k BY <2>2, <2>4, <3>3
    <3> QED BY <3>1, <3>4, <1>1, <1>2 DEF OrderNeverFalls
  <2>7. MetadataFirst'
    <3> SUFFICES ASSUME NEW n \in DOMAIN log', log'[n].type # "keys"
                 PROVE  IF log'[n].type = "metadata"
                        THEN \A m \in 1 .. n - 1 :
                               log'[m].type = "keys" \/ log'[m].trace # log'[n].trace
                        ELSE lost' \/ \E m \in 1 .. n - 1 : /\ log'[m].type = "metadata"
                                                            /\ log'[m].trace = log'[n].trace
      BY DEF MetadataFirst
    <3>1. CASE n \in 1 .. k
      <4>1. \A m \in 1 .. n - 1 : m \in 1 .. k /\ log'[m] = log[m] BY <3>1, <1>2
      <4> QED BY <3>1, <4>1, <1>1, <1>2 DEF MetadataFirst
    <3>2. CASE n = k + 1
      <4>1. \A m \in 1 .. n - 1 : m \in 1 .. k BY <3>2, <1>2
      <4> QED BY <3>2, <4>1, <2>1, <2>4
    <3>3. CASE n = k + 2
      <4>1. k + 1 \in 1 .. n - 1 BY <3>3, <1>2
      <4> QED BY <3>3, <4>1, <2>4, <2>5
    <3> QED BY <3>1, <3>2, <3>3, <2>2
  <2>8. LogInv'
    <3>1. ASSUME NEW n \in DOMAIN log', log'[n].type # "keys"
          PROVE  /\ log'[n].trace < kieker_trace_current_id'
                 /\ \A u \in Thread : trace'[u] # NoTrace /\ log'[n].trace = trace'[u].trace_id =>
                      /\ trace'[u].order_index >= 0
                      /\ IsEvent(log'[n]) => log'[n].order =< trace'[u].order_index
      <4>1. CASE n \in 1 .. k
        <5>1. log'[n] = log[n] /\ n \in DOMAIN log /\ log[n].trace # id
          BY <4>1, <1>2, <2>1, <3>1
        <5>2. log[n].trace < kieker_trace_current_id' BY <5>1, <1>3, <1>5, <3>1
        <5>3. \A u \in Thread : trace'[u] # NoTrace /\ log[n].trace = trace'[u].trace_id =>
                trace'[u] = trace[u]
          BY <5>1
        <5> QED BY <5>1, <5>2, <5>3, <1>1, <3>1 DEF LogInv
      <4>2. CASE n = k + 1 \/ n = k + 2
        <5>1. log'[n].trace = id BY <4>2, <2>4
        <5>2. IsEvent(log'[n]) => log'[n].order =< after BY <4>2, <2>2, <2>3, <1>7
        <5>3. \A u \in Thread : trace'[u] # NoTrace /\ id = trace'[u].trace_id => u = t
          OBVIOUS
        <5> QED BY <5>1, <5>2, <5>3
      <4> QED BY <4>1, <4>2, <2>2
    <3>2. ASSUME NEW u \in Thread, trace'[u] # NoTrace, trace'[u].order_index >= 0
          PROVE  lost' \/ \E n \in DOMAIN log' : /\ log'[n].type = "metadata"
                                                 /\ log'[n].trace = trace'[u].trace_id
      <4>1. CASE u = t
        <5>1. k + 1 \in DOMAIN log' BY <2>2, <1>2
        <5> QED BY <4>1, <5>1, <2>4
      <4>2. CASE u # t
        <5>1. lost \/ \E n \in DOMAIN log : /\ log[n].type = "metadata"
                                            /\ log[n].trace = trace[u].trace_id
          BY <4>2, <3>2, <1>1 DEF LogInv
        <5>2. DOMAIN log \subseteq DOMAIN log' /\ \A n \in DOMAIN log : log'[n] = log[n]
          BY <1>2
        <5> QED BY <4>2, <5>1, <5>2
      <4> QED BY <4>1, <4>2
    <3> QED BY <3>1, <3>2 DEF LogInv, IsEvent
  <2> QED BY <2>6, <2>7, <2>8
<1>8. CASE /\ before >= 0 /\ Len(new) = 1
           /\ IsEvent(new[1]) /\ new[1].trace = id
           /\ new[1].order >= before /\ new[1].order =< after
           /\ new[1].type = "before" => new[1].order > before
  <2>1. /\ DOMAIN log' = 1 .. k + 1 /\ log'[k + 1] = new[1]
        /\ \A n \in DOMAIN log' : n \in 1 .. k \/ n = k + 1
    BY <1>2, <1>8
  <2>2. /\ log'[k + 1].trace = id /\ log'[k + 1].order \in Nat
        /\ log'[k + 1].type # "keys" /\ log'[k + 1].type # "metadata"
    BY <2>1, <1>2, <1>4, <1>8 DEF IsEvent
  <2>3. OrderNeverFalls'
    <3> SUFFICES ASSUME NEW m \in DOMAIN log', NEW n \in DOMAIN log', m < n,
                        IsEvent(log'[m]), IsEvent(log'[n]), log'[m].trace = log'[n].trace
                 PROVE  /\ log'[m].order =< log'[n].order
                        /\ log'[n].type = "before" => log'[m].order < log'[n].order
      BY DEF OrderNeverFalls, IsEvent
    <3>1. m \in 1 .. k /\ log'[m] = log[m] /\ m \in DOMAIN log BY <2>1, <1>2
    <3>2. CASE n \in 1 .. k BY <3>1, <3>2, <1>1, <1>2 DEF OrderNeverFalls
    <3>3. CASE n = k + 1
      <4>1. log[m].trace = id /\ IsEvent(log[m]) BY <3>1, <3>3, <2>2
      <4>2. log[m].order \in Nat /\ log[m].order =< before
        BY <4>1, <3>1, <1>3, <1>9 DEF IsEvent
      <4>3. /\ log'[n].order \in Nat /\ log'[n].order >= before
            /\ log'[n].type = "before" => log'[n].order > before
        BY <3>3, <2>1, <2>2, <1>8
      <4>4. log[m].order =< log'[n].order /\ (log'[n].type = "before" => log[m].order < log'[n].order)
        <5> DEFINE a == log[m].order
                   c == log'[n].order
        <5>1. a \in Nat /\ a =< before /\ before \in Int /\ c \in Nat /\ c >= before
          BY <4>2, <4>3
        <5>2. log'[n].type = "before" => c > before BY <4>3
        <5> HIDE DEF a, c
        <5>3. a =< c /\ (log'[n].type = "before" => a < c) BY <5>1, <5>2
        <5> QED BY <5>3 DEF a, c
      <4> QED BY <4>4, <3>1
    <3> QED BY <3>2, <3>3, <2>1
  <2>4. MetadataFirst'
    <3> SUFFICES ASSUME NEW n \in DOMAIN log', log'[n].type # "keys"
                 PROVE  IF log'[n].type = "metadata"
                        THEN \A m \in 1 .. n - 1 :
                               log'[m].type = "keys" \/ log'[m].trace # log'[n].trace
                        ELSE lost' \/ \E m \in 1 .. n - 1 : /\ log'[m].type = "metadata"
                                                            /\ log'[m].trace = log'[n].trace
      BY DEF MetadataFirst
    <3>1. CASE n \in 1 .. k
      <4>1. \A m \in 1 .. n - 1 : m \in 1 .. k /\ log'[m] = log[m] BY <3>1, <1>2
      <4> QED BY <3>1, <4>1, <1>1, <1>2 DEF MetadataFirst
    <3>2. CASE n = k + 1
      <4>1. lost' \/ \E m \in 1 .. k : log'[m].type = "metadata" /\ log'[m].trace = id
        BY <1>2, <1>8
      <4>2. \A m \in 1 .. k : m \in 1 .. n - 1 BY <3>2, <1>2
      <4> QED BY <3>2, <4>1, <4>2, <2>2
    <3> QED BY <3>1, <3>2, <2>1
  <2>5. LogInv'
    <3>1. ASSUME NEW n \in DOMAIN log', log'[n].type # "keys"
          PROVE  /\ log'[n].trace < kieker_trace_current_id'
                 /\ \A u \in Thread : trace'[u] # NoTrace /\ log'[n].trace = trace'[u].trace_id =>
                      /\ trace'[u].order_index >= 0
                      /\ IsEvent(log'[n]) => log'[n].order =< trace'[u].order_index
      <4>1. CASE n \in 1 .. k
        <5>1. log'[n] = log[n] /\ n \in DOMAIN log BY <4>1, <1>2
        <5>2. log[n].trace < kieker_trace_current_id' BY <5>1, <1>3, <1>5, <3>1
        <5>3. ASSUME NEW u \in Thread, trace'[u] # NoTrace, log'[n].trace = trace'[u].trace_id
              PROVE  /\ trace'[u].order_index >= 0
                     /\ IsEvent(log'[n]) => log'[n].order =< trace'[u].order_index
          <6>1. CASE u # t BY <6>1, <5>1, <5>3, <3>1, <1>1 DEF LogInv
          <6>2. CASE u = t
            <7>1. IsEvent(log[n]) => log[n].order \in Nat /\ log[n].order =< before
              BY <6>2, <5>1, <5>3, <3>1, <1>3
            <7> QED BY <7>1, <6>2, <5>1
          <6> QED BY <6>1, <6>2
        <5> QED BY <5>1, <5>2, <5>3
      <4>2. CASE n = k + 1
        <5>1. \A u \in Thread : trace'[u] # NoTrace /\ id = trace'[u].trace_id => u = t
          OBVIOUS
        <5> QED BY <4>2, <5>1, <2>1, <2>2, <1>8
      <4> QED BY <4>1, <4>2, <2>1
    <3>2. ASSUME NEW u \in Thread, trace'[u] # NoTrace, trace'[u].order_index >= 0
          PROVE  lost' \/ \E n \in DOMAIN log' : /\ log'[n].type = "metadata"
                                                 /\ log'[n].trace = trace'[u].trace_id
      <4>1. lost \/ \E n \in DOMAIN log : /\ log[n].type = "metadata"
                                          /\ log[n].trace = trace'[u].trace_id
        <5>1. CASE u = t BY <5>1, <1>8
        <5>2. CASE u # t BY <5>2, <3>2, <1>1 DEF LogInv
        <5> QED BY <5>1, <5>2
      <4>2. DOMAIN log \subseteq DOMAIN log' /\ \A n \in DOMAIN log : log'[n] = log[n]
        BY <1>2
      <4> QED BY <4>1, <4>2
    <3> QED BY <3>1, <3>2 DEF LogInv, IsEvent
  <2> QED BY <2>3, <2>4, <2>5
<1> QED BY <1>7, <1>8 DEF Records

\* No record is added to the log: the operation is not shown, or the write is lost, or
\* the aspect is the other one, which only ever sends the keys in the buffer.
LEMMA LogStays ==
  ASSUME ProbesInv, aspect' = aspect,
         NEW t \in Thread, NEW id \in Nat,
         NEW before \in Nat \cup {-1}, NEW after \in Nat \cup {-1},
         before =< after, IdsGrow(id), log' = log \/ log' = log \o TypeKeys, lost => lost',
         aspect = "event" => lost' \/ after = before,
         aspect = "controlflow" => buffer' = buffer,
         Known(id, before), Becomes(t, id, after)
  PROVE  LogInv' /\ OrderNeverFalls' /\ MetadataFirst' /\ log' \in Seq(LogEntry)
<1>1. /\ LogInv /\ OrderNeverFalls /\ MetadataFirst /\ TypeInv BY DEF ProbesInv
<1>2. kieker_trace_current_id \in Nat /\ kieker_trace_current_id' \in Nat
      /\ kieker_trace_current_id' >= kieker_trace_current_id
  BY <1>1 DEF TypeInv, IdsGrow
<1>3. \A n \in DOMAIN log : log[n].type # "keys" =>
        /\ log[n].trace \in Nat /\ log[n].trace < kieker_trace_current_id
        /\ IsEvent(log[n]) => log[n].order \in Nat
  BY <1>1 DEF TypeInv, LogInv, LogEntry, IsEvent
<1>4. \A n \in DOMAIN log : log[n].type # "keys" /\ log[n].trace = id =>
        before >= 0 /\ (IsEvent(log[n]) => log[n].order =< before)
  BY DEF Known
<1>5. /\ log' \in Seq(LogEntry)
      /\ DOMAIN log = 1 .. Len(log) /\ DOMAIN log \subseteq DOMAIN log'
      /\ \A n \in DOMAIN log : log'[n] = log[n]
      /\ \A n \in DOMAIN log' : log'[n].type # "keys" => n \in DOMAIN log
  <2>1. log \in Seq(LogEntry) BY <1>1 DEF TypeInv
  <2>2. CASE log' = log BY <2>1, <2>2
  <2>3. CASE log' = log \o TypeKeys
    <3>1. TypeKeys \in Seq(LogEntry) /\ Len(TypeKeys) = 1 /\ TypeKeys[1].type = "keys"
      BY DEF TypeKeys, LogEntry
    <3>2. /\ log' \in Seq(LogEntry) /\ DOMAIN log' = 1 .. Len(log) + 1
          /\ DOMAIN log = 1 .. Len(log)
          /\ \A n \in 1 .. Len(log) : log'[n] = log[n]
          /\ log'[Len(log) + 1] = TypeKeys[1]
      <4>1. PICK new \in Seq(LogEntry) : new = TypeKeys BY <3>1
      <4>2. log' = log \o new /\ Len(new) = 1 /\ new[1] = TypeKeys[1] BY <2>3, <3>1, <4>1
      <4>3. /\ log \o new \in Seq(LogEntry)
            /\ DOMAIN (log \o new) = 1 .. Len(log) + Len(new) /\ DOMAIN log = 1 .. Len(log)
            /\ \A n \in 1 .. Len(log) : (log \o new)[n] = log[n]
            /\ \A n \in 1 .. Len(new) : (log \o new)[Len(log) + n] = new[n]
        BY <2>1, Appended
      <4>4. 1 \in 1 .. Len(new) BY <4>2
      <4> QED BY <4>2, <4>3, <4>4
    <3>3. \A n \in 1 .. Len(log) + 1 : n \in 1 .. Len(log) \/ n = Len(log) + 1 BY <2>1
    <3>4. 1 .. Len(log) \subseteq 1 .. Len(log) + 1 BY <2>1
    <3> QED BY <3>1, <3>2, <3>3, <3>4
  <2> QED BY <2>2, <2>3
<1>6. OrderNeverFalls'
  <2> SUFFICES ASSUME NEW m \in DOMAIN log', NEW n \in DOMAIN log', m < n,
                      IsEvent(log'[m]), IsEvent(log'[n]), log'[m].trace = log'[n].trace
               PROVE  /\ log'[m].order =< log'[n].order
                      /\ log'[n].type = "before" => log'[m].order < log'[n].order
    BY DEF OrderNeverFalls, IsEvent
  <2>1. m \in DOMAIN log /\ n \in DOMAIN log BY <1>5 DEF IsEvent
  <2> QED BY <2>1, <1>1, <1>5 DEF OrderNeverFalls
<1>7. MetadataFirst'
  <2> SUFFICES ASSUME NEW n \in DOMAIN log', log'[n].type # "keys"
               PROVE  IF log'[n].type = "metadata"
                      THEN \A m \in 1 .. n - 1 :
                             log'[m].type = "keys" \/ log'[m].trace # log'[n].trace
                      ELSE lost' \/ \E m \in 1 .. n - 1 : /\ log'[m].type = "metadata"
                                                          /\ log'[m].trace = log'[n].trace
    BY DEF MetadataFirst
  <2>1. n \in DOMAIN log BY <1>5
  <2>2. \A m \in 1 .. n - 1 : m \in DOMAIN log /\ log'[m] = log[m] BY <2>1, <1>5
  <2> QED BY <2>1, <2>2, <1>1, <1>5 DEF MetadataFirst
<1>8. ASSUME NEW n \in DOMAIN log, log[n].type # "keys"
      PROVE  /\ log[n].trace < kieker_trace_current_id'
             /\ \A u \in Thread : trace'[u] # NoTrace /\ log[n].trace = trace'[u].trace_id =>
                  /\ trace'[u].order_index >= 0
                  /\ IsEvent(log[n]) => log[n].order =< trace'[u].order_index
  <2>1. log[n].trace < kieker_trace_current_id' BY <1>2, <1>3, <1>8
  <2>2. ASSUME NEW u \in Thread, trace'[u] # NoTrace, log[n].trace = trace'[u].trace_id
        PROVE  /\ trace'[u].order_index >= 0
               /\ IsEvent(log[n]) => log[n].order =< trace'[u].order_index
    <3>1. CASE u # t BY <3>1, <2>2, <1>8, <1>1 DEF LogInv, Becomes
    <3>2. CASE u = t
      <4>1. trace'[t].trace_id = id /\ trace'[t].order_index = after BY DEF Becomes
      <4>2. /\ before >= 0
            /\ IsEvent(log[n]) => log[n].order \in Nat /\ log[n].order =< before
        BY <3>2, <4>1, <2>2, <1>8, <1>3, <1>4
      <4>3. after >= 0 /\ (IsEvent(log[n]) => log[n].order =< after) BY <4>2
      <4> QED BY <4>1, <4>3, <3>2
    <3> QED BY <3>1, <3>2
  <2> QED BY <2>1, <2>2
<1>9. ASSUME aspect = "event",
             NEW u \in Thread, trace'[u] # NoTrace, trace'[u].order_index >= 0
      PROVE  lost' \/ \E n \in DOMAIN log : /\ log[n].type = "metadata"
                                            /\ log[n].trace = trace'[u].trace_id
  <2>1. CASE u = t BY <2>1, <1>9 DEF Known, Becomes
  <2>2. CASE u # t
    <3>1. lost \/ \E n \in DOMAIN log : /\ log[n].type = "metadata"
                                        /\ log[n].trace = trace[u].trace_id
      BY <2>2, <1>9, <1>1 DEF LogInv, Becomes
    <3> QED BY <3>1, <2>2 DEF Becomes
  <2> QED BY <2>1, <2>2
<1>10. aspect' = "controlflow" => buffer' = TypeKeys BY <1>1 DEF LogInv
<1>11. ASSUME NEW n \in DOMAIN log', log'[n].type # "keys"
       PROVE  /\ log'[n].trace < kieker_trace_current_id'
              /\ \A u \in Thread : trace'[u] # NoTrace /\ log'[n].trace = trace'[u].trace_id =>
                   /\ trace'[u].order_index >= 0
                   /\ IsEvent(log'[n]) => log'[n].order =< trace'[u].order_index
  <2>1. n \in DOMAIN log /\ log'[n] = log[n] BY <1>5, <1>11
  <2> QED BY <2>1, <1>8, <1>11
<1>12. ASSUME aspect' = "event",
              NEW u \in Thread, trace'[u] # NoTrace, trace'[u].order_index >= 0
       PROVE  lost' \/ \E n \in DOMAIN log' : /\ log'[n].type = "metadata"
                                              /\ log'[n].trace = trace'[u].trace_id
  BY <1>5, <1>9, <1>12
<1>13. LogInv' BY <1>10, <1>11, <1>12 DEF LogInv, IsEvent
<1> QED BY <1>5, <1>6, <1>7, <1>13

\* No trace ends, and none becomes another.
TracesStay ==
  \A t \in Thread : trace[t] # NoTrace =>
    trace'[t] # NoTrace /\ trace'[t].trace_id = trace[t].trace_id

LEMMA SameId ==
  ASSUME NEW t \in Thread, NEW id, NEW order, Becomes(t, id, order),
         trace[t] # NoTrace => id = trace[t].trace_id
  PROVE  TracesStay
BY DEF Becomes, TracesStay

-----------------------------------------------------------------------------
(* The event aspect.                                                        *)

\* One level deeper: the object still fits.
LEMMA Deeper ==
  ASSUME NEW t \in Thread, frames[t] \in Seq(Frame), NEW g \in Frame, NEW tr \in Object,
         NEW order \in Nat \cup {-1}, order >= tr.order_index,
         Fits(tr, frames[t]), aspect = "event" => g.class \in Hidden \/ order >= 0
  PROVE  /\ Append(frames[t], g) \in Seq(Frame)
         /\ [trace_id |-> tr.trace_id, order_index |-> order, stack |-> tr.stack + 1] \in Object
         /\ Fits([trace_id |-> tr.trace_id, order_index |-> order, stack |-> tr.stack + 1],
                 Append(frames[t], g))
<1> DEFINE f == Append(frames[t], g)
<1>1. /\ f \in Seq(Frame) /\ Len(f) = Len(frames[t]) + 1 /\ Len(frames[t]) \in Nat
      /\ \A n \in DOMAIN f : f[n] = g \/ (n \in DOMAIN frames[t] /\ f[n] = frames[t][n])
  OBVIOUS
<1> HIDE DEF f
<1>2. tr.stack \in Nat /\ tr.order_index \in Nat \cup {-1} /\ tr.trace_id \in Nat BY DEF Object
<1>3. tr.stack + 1 >= Len(f) BY <1>1, <1>2 DEF Fits
<1>4. aspect = "event" => \A n \in DOMAIN f : f[n].class \in Hidden \/ order >= 0
  BY <1>1, <1>2 DEF Fits
<1> QED BY <1>1, <1>2, <1>3, <1>4 DEF Fits, Object, f

\* Incrementing a field of an object.
LEMMA FieldSet ==
  ASSUME NEW a, NEW b, NEW c, NEW tr,
         tr = [trace_id |-> a, order_index |-> b, stack |-> c]
  PROVE  /\ [tr EXCEPT !.stack = @ + 1] = [trace_id |-> a, order_index |-> b, stack |-> c + 1]
         /\ [tr EXCEPT !.stack = @ - 1] = [trace_id |-> a, order_index |-> b, stack |-> c - 1]
         /\ [tr EXCEPT !.order_index = @ + 1] = [trace_id |-> a, order_index |-> b + 1, stack |-> c]
<1>1. [tr EXCEPT !.stack = @ + 1] = [trace_id |-> a, order_index |-> b, stack |-> c + 1]
  OBVIOUS
<1>2. [tr EXCEPT !.stack = @ - 1] = [trace_id |-> a, order_index |-> b, stack |-> c - 1]
  OBVIOUS
<1>3. [tr EXCEPT !.order_index = @ + 1] = [trace_id |-> a, order_index |-> b + 1, stack |-> c]
  OBVIOUS
<1> QED BY <1>1, <1>2, <1>3

LEMMA Counted ==
  ASSUME NEW tr \in Object
  PROVE  /\ [tr EXCEPT !.stack = @ - 1] =
              [trace_id |-> tr.trace_id, order_index |-> tr.order_index, stack |-> tr.stack - 1]
         /\ [tr EXCEPT !.stack = @ + 1] =
              [trace_id |-> tr.trace_id, order_index |-> tr.order_index, stack |-> tr.stack + 1]
         /\ [[tr EXCEPT !.stack = @ + 1] EXCEPT !.order_index = @ + 1] =
              [trace_id |-> tr.trace_id, order_index |-> tr.order_index + 1,
               stack |-> tr.stack + 1]
         /\ [[tr EXCEPT !.order_index = @ + 1] EXCEPT !.stack = @ + 1] =
              [trace_id |-> tr.trace_id, order_index |-> tr.order_index + 1,
               stack |-> tr.stack + 1]
         /\ [[tr EXCEPT !.order_index = @ + 1] EXCEPT !.stack = @ - 1] =
              [trace_id |-> tr.trace_id, order_index |-> tr.order_index + 1,
               stack |-> tr.stack - 1]
<1> DEFINE a == tr.trace_id
           b == tr.order_index
           c == tr.stack
           up == [tr EXCEPT !.stack = @ + 1]
           on == [tr EXCEPT !.order_index = @ + 1]
<1>1. tr = [trace_id |-> a, order_index |-> b, stack |-> c] BY DEF Object
<1> HIDE DEF a, b, c
<1>2. /\ up = [trace_id |-> a, order_index |-> b, stack |-> c + 1]
      /\ [tr EXCEPT !.stack = @ - 1] = [trace_id |-> a, order_index |-> b, stack |-> c - 1]
      /\ on = [trace_id |-> a, order_index |-> b + 1, stack |-> c]
  BY <1>1, FieldSet
<1> HIDE DEF up, on
<1>3. [up EXCEPT !.order_index = @ + 1] = [trace_id |-> a, order_index |-> b + 1, stack |-> c + 1]
  BY <1>2, FieldSet
<1>4. /\ [on EXCEPT !.stack = @ + 1] = [trace_id |-> a, order_index |-> b + 1, stack |-> c + 1]
      /\ [on EXCEPT !.stack = @ - 1] = [trace_id |-> a, order_index |-> b + 1, stack |-> c - 1]
  BY <1>2, FieldSet
<1> QED BY <1>2, <1>3, <1>4 DEF a, b, c, up, on

LEMMA EventBeforeCorrect ==
  ASSUME ProbesInv, NEW t \in Thread, NEW class \in Class, EventBefore(t, class)
  PROVE  ProbesInv' /\ TracesStay
<1> DEFINE got == Got(t)
           metadata == IF got.order_index = -1 THEN <<MetadataRecord(got)>> ELSE <<>>
           f == Append(frames[t], [class |-> class])
           counted == [trace_id |-> got.trace_id, order_index |-> got.order_index,
                       stack |-> got.stack + 1]
           sent == [trace_id |-> got.trace_id, order_index |-> got.order_index + 1,
                    stack |-> got.stack + 1]
           event == EventRecord("before", sent, class)
<1>1. /\ load = "done" /\ UNCHANGED <<adaptive_vars, aspect>> /\ aspect = "event" /\ NextId(t)
  BY DEF EventBefore, Running
<1>2. TypeInv /\ frames[t] \in Seq(Frame) /\ buffer \in Seq(LogEntry) /\ log \in Seq(LogEntry)
  BY DEF ProbesInv, TypeInv
<1>3. /\ got \in Object /\ IdsGrow(got.trace_id) /\ Fits(got, frames[t])
      /\ OwnId(t, got.trace_id) /\ Known(got.trace_id, got.order_index)
  BY <1>1, GotObject
<1>4. got.trace_id \in Nat /\ got.order_index \in Nat \cup {-1} /\ got.stack \in Nat
  BY <1>3 DEF Object
<1>5. /\ [got EXCEPT !.stack = @ + 1] = counted
      /\ [[got EXCEPT !.stack = @ + 1] EXCEPT !.order_index = @ + 1] = sent
  BY <1>3, Counted
<1>6. /\ frames' = [frames EXCEPT ![t] = f]
      /\ IF Excluded(class)
         THEN /\ trace' = [trace EXCEPT ![t] = counted]
              /\ buffer' = IF metadata = <<>> THEN buffer ELSE metadata
              /\ log' = log /\ lost' = lost
         ELSE /\ trace' = [trace EXCEPT ![t] = sent]
              /\ buffer' = Append(metadata, event)
              /\ Send(buffer')
  BY <1>5 DEF EventBefore
<1>7. /\ metadata \in Seq(LogEntry)
      /\ got.order_index = -1 =>
           /\ Len(metadata) = 1
           /\ metadata[1].type = "metadata" /\ metadata[1].trace = got.trace_id
      /\ got.order_index >= 0 => metadata = <<>>
  <2>1. /\ MetadataRecord(got) \in LogEntry /\ MetadataRecord(got).type = "metadata"
        /\ MetadataRecord(got).trace = got.trace_id
    BY <1>4 DEF MetadataRecord, LogEntry
  <2>2. CASE got.order_index = -1 BY <2>1, <2>2
  <2>3. CASE got.order_index # -1 BY <1>4, <2>3
  <2> QED BY <2>2, <2>3
<1>8. [class |-> class] \in Frame /\ [class |-> class].class = class BY DEF Frame
<1>id. trace[t] # NoTrace => got.trace_id = trace[t].trace_id BY DEF Got
<1> HIDE DEF got, metadata, f
<1>9. CASE Excluded(class)
  <2>1. class \in Hidden BY <1>9 DEF Hidden
  <2>2. f \in Seq(Frame) /\ counted \in Object /\ Fits(counted, f)
    BY <1>2, <1>3, <1>4, <1>8, <2>1, Deeper DEF f
  <2>3. /\ counted.trace_id = got.trace_id /\ counted.order_index = got.order_index OBVIOUS
  <2> HIDE DEF counted
  <2>4. Moves(t, counted, f) BY <1>1, <1>6, <1>9 DEF Moves
  <2>5. /\ AdaptiveInv' /\ TraceInv'
        /\ frames' \in [Thread -> Seq(Frame)] /\ trace' \in [Thread -> Object \cup {NoTrace}]
        /\ Becomes(t, got.trace_id, got.order_index)
    BY <1>3, <2>2, <2>3, <2>4, TraceMoves
  <2>6. got.order_index =< got.order_index /\ log' = log /\ lost' = lost BY <1>4, <1>6, <1>9
  <2>7. LogInv' /\ OrderNeverFalls' /\ MetadataFirst'
    BY <1>1, <1>3, <1>4, <2>5, <2>6, LogStays
  <2>8. buffer' \in Seq(LogEntry) BY <1>6, <1>9, <1>2, <1>7
  <2>9. TypeInv' BY <1>1, <1>2, <1>3, <2>5, <2>6, <2>8 DEF TypeInv, IdsGrow
  <2> QED BY <2>5, <2>7, <2>9, <1>id, SameId DEF ProbesInv
<1>10. CASE ~Excluded(class)
  <2>1. got.order_index + 1 \in Nat /\ got.order_index + 1 \in Nat \cup {-1}
        /\ got.order_index + 1 >= got.order_index /\ got.order_index =< got.order_index + 1
        /\ got.order_index + 1 >= 0
    BY <1>4
  <2>2. f \in Seq(Frame) /\ sent \in Object /\ Fits(sent, f)
    BY <1>2, <1>3, <1>8, <2>1, Deeper DEF f
  <2>3. /\ sent.trace_id = got.trace_id /\ sent.order_index = got.order_index + 1 OBVIOUS
  <2>4. Moves(t, sent, f) BY <1>1, <1>6, <1>10 DEF Moves
  <2>5. /\ event \in LogEntry /\ IsEvent(event)
        /\ event.trace = got.trace_id /\ event.order = got.order_index + 1
    BY <1>4, <2>1 DEF EventRecord, LogEntry, IsEvent
  <2>6. buffer' = Append(metadata, event) /\ Send(buffer') BY <1>6, <1>10
  <2> HIDE DEF sent, event
  <2>7. /\ AdaptiveInv' /\ TraceInv'
        /\ frames' \in [Thread -> Seq(Frame)] /\ trace' \in [Thread -> Object \cup {NoTrace}]
        /\ Becomes(t, got.trace_id, got.order_index + 1)
    BY <1>3, <2>2, <2>3, <2>4, TraceMoves
  <2>8. /\ buffer' \in Seq(LogEntry) /\ Len(buffer') = Len(metadata) + 1
        /\ buffer'[Len(metadata) + 1] = event
        /\ \A n \in 1 .. Len(metadata) : buffer'[n] = metadata[n]
    BY <2>5, <2>6, <1>7
  <2>9. Records(buffer', got.trace_id, got.order_index, got.order_index + 1)
    <3>1. CASE got.order_index = -1
      <4>1. Len(buffer') = 2 /\ buffer'[1] = metadata[1] /\ buffer'[2] = event
        <5>1. Len(metadata) = 1 /\ 1 \in 1 .. 1 BY <3>1, <1>7
        <5>2. /\ Len(buffer') = 1 + 1 /\ buffer'[1 + 1] = event
              /\ \A n \in 1 .. 1 : buffer'[n] = metadata[n]
          BY <5>1, <2>8
        <5> QED BY <5>1, <5>2
      <4> QED BY <3>1, <4>1, <1>7, <2>5, <2>1 DEF Records
    <3>2. CASE got.order_index >= 0
      <4>1. Len(buffer') = 1 /\ buffer'[1] = event BY <3>2, <1>7, <2>8
      <4> QED BY <3>2, <4>1, <2>5, <1>4 DEF Records
    <3> QED BY <3>1, <3>2, <1>4
  <2>10. CASE log' = log \o buffer' /\ lost' = lost
    <3>1. LogInv' /\ OrderNeverFalls' /\ MetadataFirst'
      BY <1>1, <1>3, <1>4, <2>1, <2>7, <2>8, <2>9, <2>10, LogGrows
    <3>2. log' \in Seq(LogEntry) BY <2>8, <2>10, <1>2, Appended
    <3>3. TypeInv' BY <1>1, <1>2, <1>3, <2>7, <2>8, <2>10, <3>2 DEF TypeInv, IdsGrow
    <3> QED BY <2>7, <3>1, <3>3, <1>id, SameId DEF ProbesInv
  <2>11. CASE log' = log /\ lost' = TRUE
    <3>1. LogInv' /\ OrderNeverFalls' /\ MetadataFirst'
      BY <1>1, <1>3, <1>4, <2>1, <2>7, <2>11, LogStays
    <3>2. TypeInv' BY <1>1, <1>2, <1>3, <2>7, <2>8, <2>11 DEF TypeInv, IdsGrow
    <3> QED BY <2>7, <3>1, <3>2, <1>id, SameId DEF ProbesInv
  <2> QED BY <2>6, <2>10, <2>11 DEF Send
<1> QED BY <1>9, <1>10

\* The object of a thread inside an operation.
LEMMA InsideHasObject ==
  ASSUME ProbesInv, NEW t \in Thread, frames[t] # <<>>
  PROVE  /\ trace[t] \in Object /\ trace[t] # NoTrace
         /\ trace[t].trace_id \in Nat /\ trace[t].order_index \in Nat \cup {-1}
         /\ trace[t].stack \in Nat
         /\ frames[t] \in Seq(Frame) /\ kieker_trace_current_id \in Nat
         /\ trace[t].trace_id < kieker_trace_current_id
         /\ Fits(trace[t], frames[t])
         /\ OwnId(t, trace[t].trace_id)
         /\ Known(trace[t].trace_id, trace[t].order_index)
<1>1. TypeInv /\ TraceInv /\ LogInv BY DEF ProbesInv
<1>2. trace[t] # NoTrace BY <1>1 DEF TraceInv
<1>3. trace[t] \in Object /\ frames[t] \in Seq(Frame) /\ kieker_trace_current_id \in Nat
  BY <1>1, <1>2 DEF TypeInv
<1>4. /\ trace[t].trace_id < kieker_trace_current_id
      /\ Fits(trace[t], frames[t]) /\ OwnId(t, trace[t].trace_id)
  BY <1>1, <1>2 DEF TraceInv, Fits, OwnId
<1>5. Known(trace[t].trace_id, trace[t].order_index) BY <1>1, <1>2 DEF LogInv, Known
<1> QED BY <1>2, <1>3, <1>4, <1>5 DEF Object

\* Leaving an operation: the stack was at least 1, so the object still fits, and the
\* trace does not end.
LEMMA Leaving ==
  ASSUME NEW tr \in Object, NEW f \in Seq(Frame), f # <<>>, Fits(tr, f),
         NEW order \in Nat \cup {-1}, order >= tr.order_index,
         NEW stack \in {tr.stack, tr.stack - 1}
  PROVE  /\ Front(f) \in Seq(Frame) /\ Last(f) \in Frame /\ Last(f) = f[Len(f)] /\ Len(f) \in DOMAIN f
         /\ [trace_id |-> tr.trace_id, order_index |-> order, stack |-> stack] \in Object
         /\ stack >= 0
         /\ Fits([trace_id |-> tr.trace_id, order_index |-> order, stack |-> stack], Front(f))
<1>1. /\ Len(f) \in Nat \ {0}
      /\ Last(f) = f[Len(f)] /\ Last(f) \in Frame
      /\ Front(f) \in Seq(Frame) /\ Len(Front(f)) = Len(f) - 1
      /\ DOMAIN f = 1 .. Len(f) /\ DOMAIN Front(f) = 1 .. Len(f) - 1
      /\ \A n \in 1 .. Len(f) - 1 : Front(f)[n] = f[n]
  BY Innermost
<1>2. tr.stack \in Nat /\ tr.order_index \in Nat \cup {-1} /\ tr.trace_id \in Nat BY DEF Object
<1>3. stack \in Nat /\ stack >= 0 /\ stack >= Len(f) - 1 BY <1>1, <1>2 DEF Fits
<1>4. aspect = "event" => \A n \in 1 .. Len(f) - 1 : Front(f)[n].class \in Hidden \/ order >= 0
  BY <1>1, <1>2 DEF Fits
<1> QED BY <1>1, <1>2, <1>3, <1>4 DEF Fits, Object

LEMMA EventAfterCorrect ==
  ASSUME ProbesInv, NEW t \in Thread, EventAfter(t)
  PROVE  ProbesInv' /\ TracesStay
<1> DEFINE tr == trace[t]
           class == Last(frames[t]).class
           hidden == [trace_id |-> tr.trace_id, order_index |-> tr.order_index,
                      stack |-> tr.stack - 1]
           shown == [trace_id |-> tr.trace_id, order_index |-> tr.order_index + 1,
                     stack |-> tr.stack - 1]
           event == EventRecord("after", tr, class)
<1>1. /\ load = "done" /\ UNCHANGED <<adaptive_vars, aspect>> /\ aspect = "event"
      /\ frames[t] # <<>> /\ kieker_trace_current_id' = kieker_trace_current_id
      /\ frames' = [frames EXCEPT ![t] = Front(frames[t])]
  BY DEF EventAfter, Running
<1>2. TypeInv /\ buffer \in Seq(LogEntry) /\ log \in Seq(LogEntry)
  BY DEF ProbesInv, TypeInv
<1>3. /\ tr \in Object /\ tr.trace_id \in Nat /\ tr.order_index \in Nat \cup {-1} /\ tr.stack \in Nat
      /\ frames[t] \in Seq(Frame) /\ Fits(tr, frames[t])
      /\ OwnId(t, tr.trace_id) /\ Known(tr.trace_id, tr.order_index)
  BY <1>1, InsideHasObject
<1>4. IdsGrow(tr.trace_id) BY <1>1, InsideHasObject DEF IdsGrow
<1>5. /\ Front(frames[t]) \in Seq(Frame) /\ class \in Class /\ tr.stack - 1 >= 0
      /\ Len(frames[t]) \in DOMAIN frames[t] /\ frames[t][Len(frames[t])].class = class
  <2>1. tr.order_index >= tr.order_index BY <1>3
  <2>2. /\ Front(frames[t]) \in Seq(Frame) /\ Last(frames[t]) \in Frame
        /\ Last(frames[t]) = frames[t][Len(frames[t])]
        /\ Len(frames[t]) \in DOMAIN frames[t] /\ tr.stack - 1 >= 0
    BY <1>1, <1>3, <2>1, Leaving
  <2> QED BY <2>2 DEF Frame
<1>6. /\ [tr EXCEPT !.stack = @ - 1] = hidden
      /\ [[tr EXCEPT !.order_index = @ + 1] EXCEPT !.stack = @ - 1] = shown
  BY <1>3, Counted
<1>7. IF Excluded(class)
      THEN /\ EndOfTrace(t, hidden) /\ buffer' = buffer /\ log' = log /\ lost' = lost
      ELSE /\ EndOfTrace(t, shown) /\ buffer' = <<event>> /\ Send(buffer')
  BY <1>6 DEF EventAfter
<1>id. trace[t] # NoTrace => tr.trace_id = trace[t].trace_id OBVIOUS
<1> HIDE DEF tr, class
<1>8. CASE Excluded(class)
  <2>1. tr.order_index >= tr.order_index /\ tr.order_index =< tr.order_index BY <1>3
  <2>2. hidden \in Object /\ Fits(hidden, Front(frames[t])) BY <1>1, <1>3, <2>1, Leaving
  <2>3. hidden.trace_id = tr.trace_id /\ hidden.order_index = tr.order_index
        /\ hidden.stack = tr.stack - 1
    OBVIOUS
  <2> HIDE DEF hidden
  <2>4. hidden.stack # -1 BY <2>3, <1>5, <1>3
  <2>5. Moves(t, hidden, Front(frames[t])) BY <1>1, <1>7, <1>8, <2>4 DEF Moves, EndOfTrace
  <2>6. /\ AdaptiveInv' /\ TraceInv'
        /\ frames' \in [Thread -> Seq(Frame)] /\ trace' \in [Thread -> Object \cup {NoTrace}]
        /\ Becomes(t, tr.trace_id, tr.order_index)
    BY <1>3, <1>4, <1>5, <2>2, <2>3, <2>5, TraceMoves
  <2>7. log' = log /\ lost' = lost /\ buffer' = buffer BY <1>7, <1>8
  <2>8. LogInv' /\ OrderNeverFalls' /\ MetadataFirst' /\ log' \in Seq(LogEntry)
    BY <1>1, <1>3, <1>4, <2>1, <2>6, <2>7, LogStays
  <2>9. TypeInv' BY <1>1, <1>2, <1>4, <2>6, <2>7, <2>8 DEF TypeInv, IdsGrow
  <2> QED BY <2>6, <2>8, <2>9, <1>id, SameId DEF ProbesInv
<1>9. CASE ~Excluded(class)
  <2>1. tr.order_index >= 0
    <3>1. class \notin Hidden BY <1>9 DEF Hidden
    <3> QED BY <3>1, <1>1, <1>3, <1>5 DEF Fits
  <2>2. /\ tr.order_index \in Nat /\ tr.order_index + 1 \in Nat
        /\ tr.order_index + 1 \in Nat \cup {-1}
        /\ tr.order_index + 1 >= tr.order_index /\ tr.order_index =< tr.order_index + 1
    BY <1>3, <2>1
  <2>3. shown \in Object /\ Fits(shown, Front(frames[t])) BY <1>1, <1>3, <2>2, Leaving
  <2>4. shown.trace_id = tr.trace_id /\ shown.order_index = tr.order_index + 1
        /\ shown.stack = tr.stack - 1
    OBVIOUS
  <2>5. /\ event \in LogEntry /\ IsEvent(event) /\ event.type # "before"
        /\ event.trace = tr.trace_id /\ event.order = tr.order_index
    BY <1>3, <1>5, <2>2 DEF EventRecord, LogEntry, IsEvent
  <2> HIDE DEF shown, event
  <2>6. shown.stack # -1 BY <2>4, <1>5, <1>3
  <2>7. Moves(t, shown, Front(frames[t])) BY <1>1, <1>7, <1>9, <2>6 DEF Moves, EndOfTrace
  <2>8. /\ AdaptiveInv' /\ TraceInv'
        /\ frames' \in [Thread -> Seq(Frame)] /\ trace' \in [Thread -> Object \cup {NoTrace}]
        /\ Becomes(t, tr.trace_id, tr.order_index + 1)
    BY <1>3, <1>4, <1>5, <2>3, <2>4, <2>7, TraceMoves
  <2>9. buffer' \in Seq(LogEntry) /\ Len(buffer') = 1 /\ buffer'[1] = event
    <3>1. buffer' = <<event>> BY <1>7, <1>9
    <3> QED BY <3>1, <2>5
  <2>10. Records(buffer', tr.trace_id, tr.order_index, tr.order_index + 1)
    BY <2>1, <2>2, <2>5, <2>9 DEF Records
  <2>11. CASE log' = log \o buffer' /\ lost' = lost
    <3>1. LogInv' /\ OrderNeverFalls' /\ MetadataFirst'
      BY <1>1, <1>3, <1>4, <2>2, <2>8, <2>9, <2>10, <2>11, LogGrows
    <3>2. log' \in Seq(LogEntry) BY <2>9, <2>11, <1>2, Appended
    <3>3. TypeInv' BY <1>1, <1>2, <1>4, <2>8, <2>9, <2>11, <3>2 DEF TypeInv, IdsGrow
    <3> QED BY <2>8, <3>1, <3>3, <1>id, SameId DEF ProbesInv
  <2>12. CASE log' = log /\ lost' = TRUE
    <3>1. LogInv' /\ OrderNeverFalls' /\ MetadataFirst' /\ log' \in Seq(LogEntry)
      BY <1>1, <1>3, <1>4, <2>2, <2>8, <2>12, LogStays
    <3>2. TypeInv' BY <1>1, <1>2, <1>4, <2>8, <2>9, <2>12, <3>1 DEF TypeInv, IdsGrow
    <3> QED BY <2>8, <3>1, <3>2, <1>id, SameId DEF ProbesInv
  <2> QED BY <1>7, <1>9, <2>11, <2>12 DEF Send
<1> QED BY <1>8, <1>9

-----------------------------------------------------------------------------
(* The control flow aspect, and exceptions.                                 *)

LEMMA FlowBeforeCorrect ==
  ASSUME ProbesInv, NEW t \in Thread, NEW class \in Class, FlowBefore(t, class)
  PROVE  ProbesInv' /\ TracesStay
<1> DEFINE got == Got(t)
           counted == [trace_id |-> got.trace_id, order_index |-> got.order_index + 1,
                       stack |-> got.stack + 1]
           g == [class |-> class, trace |-> counted.trace_id,
                 eoi |-> counted.order_index, ess |-> counted.stack]
           f == Append(frames[t], g)
<1>1. /\ load = "done" /\ UNCHANGED <<adaptive_vars, aspect>> /\ aspect = "controlflow"
      /\ NextId(t) /\ UNCHANGED <<lost, buffer, log>>
  BY DEF FlowBefore, Running
<1>2. TypeInv /\ frames[t] \in Seq(Frame) BY DEF ProbesInv, TypeInv
<1>3. /\ got \in Object /\ IdsGrow(got.trace_id) /\ Fits(got, frames[t])
      /\ OwnId(t, got.trace_id) /\ Known(got.trace_id, got.order_index)
  BY <1>1, GotObject
<1>4. /\ got.trace_id \in Nat /\ got.order_index \in Nat \cup {-1} /\ got.stack \in Nat
      /\ got.order_index + 1 \in Nat \cup {-1} /\ got.order_index + 1 \in Nat
      /\ got.order_index + 1 >= got.order_index /\ got.order_index =< got.order_index + 1
  BY <1>3 DEF Object
<1>5. [[got EXCEPT !.order_index = @ + 1] EXCEPT !.stack = @ + 1] = counted
  BY <1>3, Counted
<1>6. trace' = [trace EXCEPT ![t] = counted] /\ frames' = [frames EXCEPT ![t] = f]
  BY <1>5 DEF FlowBefore
<1>id. trace[t] # NoTrace => got.trace_id = trace[t].trace_id BY DEF Got
<1> HIDE DEF got
<1>7. g \in Frame BY <1>4 DEF Frame
<1>8. f \in Seq(Frame) /\ counted \in Object /\ Fits(counted, f)
  BY <1>1, <1>2, <1>3, <1>4, <1>7, Deeper
<1>9. counted.trace_id = got.trace_id /\ counted.order_index = got.order_index + 1 OBVIOUS
<1> HIDE DEF counted, f
<1>10. Moves(t, counted, f) BY <1>1, <1>6 DEF Moves
<1>11. /\ AdaptiveInv' /\ TraceInv'
       /\ frames' \in [Thread -> Seq(Frame)] /\ trace' \in [Thread -> Object \cup {NoTrace}]
       /\ Becomes(t, got.trace_id, got.order_index + 1)
  BY <1>3, <1>8, <1>9, <1>10, TraceMoves
<1>12. LogInv' /\ OrderNeverFalls' /\ MetadataFirst' /\ log' \in Seq(LogEntry)
  BY <1>1, <1>3, <1>4, <1>11, LogStays
<1>13. TypeInv' BY <1>1, <1>2, <1>3, <1>11, <1>12 DEF TypeInv, IdsGrow
<1> QED BY <1>11, <1>12, <1>13, <1>id, SameId DEF ProbesInv

LEMMA FlowAfterCorrect ==
  ASSUME ProbesInv, NEW t \in Thread, FlowAfter(t)
  PROVE  ProbesInv' /\ TracesStay
<1> DEFINE tr == trace[t]
           left == [trace_id |-> tr.trace_id, order_index |-> tr.order_index,
                    stack |-> tr.stack - 1]
<1>1. /\ load = "done" /\ UNCHANGED <<adaptive_vars, aspect>> /\ aspect = "controlflow"
      /\ frames[t] # <<>> /\ kieker_trace_current_id' = kieker_trace_current_id
      /\ frames' = [frames EXCEPT ![t] = Front(frames[t])]
      /\ buffer' = buffer /\ Send(buffer)
  BY DEF FlowAfter, Running
<1>2. TypeInv /\ LogInv BY DEF ProbesInv
<1>3. /\ tr \in Object /\ tr.trace_id \in Nat /\ tr.order_index \in Nat \cup {-1} /\ tr.stack \in Nat
      /\ frames[t] \in Seq(Frame) /\ Fits(tr, frames[t])
      /\ OwnId(t, tr.trace_id) /\ Known(tr.trace_id, tr.order_index)
      /\ IdsGrow(tr.trace_id)
  BY <1>1, InsideHasObject DEF IdsGrow
<1>4. [tr EXCEPT !.stack = @ - 1] = left BY <1>3, Counted
<1>5. EndOfTrace(t, left) BY <1>4 DEF FlowAfter
<1>id. trace[t] # NoTrace => tr.trace_id = trace[t].trace_id OBVIOUS
<1> HIDE DEF tr
<1>6. tr.order_index >= tr.order_index /\ tr.order_index =< tr.order_index BY <1>3
<1>7. /\ Front(frames[t]) \in Seq(Frame) /\ left \in Object /\ tr.stack - 1 >= 0
      /\ Fits(left, Front(frames[t]))
  BY <1>1, <1>3, <1>6, Leaving
<1>8. /\ left.trace_id = tr.trace_id /\ left.order_index = tr.order_index
      /\ left.stack = tr.stack - 1
  OBVIOUS
<1> HIDE DEF left
<1>9. left.stack # -1 BY <1>7, <1>8, <1>3
<1>10. Moves(t, left, Front(frames[t])) BY <1>1, <1>5, <1>9 DEF Moves, EndOfTrace
<1>11. /\ AdaptiveInv' /\ TraceInv'
       /\ frames' \in [Thread -> Seq(Frame)] /\ trace' \in [Thread -> Object \cup {NoTrace}]
       /\ Becomes(t, tr.trace_id, tr.order_index)
  BY <1>3, <1>7, <1>8, <1>10, TraceMoves
<1>12. /\ log' = log \/ log' = log \o TypeKeys
       /\ (lost => lost') /\ lost' \in BOOLEAN
  BY <1>1, <1>2 DEF Send, LogInv, TypeInv
<1>13. LogInv' /\ OrderNeverFalls' /\ MetadataFirst' /\ log' \in Seq(LogEntry)
  BY <1>1, <1>3, <1>6, <1>11, <1>12, LogStays
<1>14. TypeInv' BY <1>1, <1>2, <1>3, <1>11, <1>12, <1>13 DEF TypeInv, IdsGrow
<1> QED BY <1>11, <1>13, <1>14, <1>id, SameId DEF ProbesInv

LEMMA ThrowCorrect ==
  ASSUME ProbesInv, NEW t \in Thread, Throw(t)
  PROVE  ProbesInv' /\ TracesStay
<1> DEFINE tr == trace[t]
<1>1. /\ load = "done" /\ UNCHANGED <<adaptive_vars, aspect>> /\ frames[t] # <<>>
      /\ kieker_trace_current_id' = kieker_trace_current_id
      /\ frames' = [frames EXCEPT ![t] = Front(frames[t])]
      /\ buffer' = buffer /\ log' = log /\ lost' = lost /\ trace' = trace
  BY DEF Throw, Running
<1>2. TypeInv BY DEF ProbesInv
<1>3. /\ tr \in Object /\ tr.trace_id \in Nat /\ tr.order_index \in Nat \cup {-1} /\ tr.stack \in Nat
      /\ frames[t] \in Seq(Frame) /\ Fits(tr, frames[t])
      /\ OwnId(t, tr.trace_id) /\ Known(tr.trace_id, tr.order_index)
      /\ IdsGrow(tr.trace_id)
  BY <1>1, InsideHasObject DEF IdsGrow
<1>4. trace' = [trace EXCEPT ![t] = tr] BY <1>1, <1>2 DEF TypeInv
<1>5. tr = [trace_id |-> tr.trace_id, order_index |-> tr.order_index, stack |-> tr.stack]
  BY <1>3 DEF Object
<1>id. trace[t] # NoTrace => tr.trace_id = trace[t].trace_id OBVIOUS
<1> HIDE DEF tr
<1>6. tr.order_index >= tr.order_index /\ tr.order_index =< tr.order_index BY <1>3
<1>7. Front(frames[t]) \in Seq(Frame) /\ Fits(tr, Front(frames[t]))
  <2>1. /\ Front(frames[t]) \in Seq(Frame)
        /\ Fits([trace_id |-> tr.trace_id, order_index |-> tr.order_index, stack |-> tr.stack],
                Front(frames[t]))
    BY <1>1, <1>3, <1>6, Leaving
  <2> QED BY <2>1, <1>5
<1>8. Moves(t, tr, Front(frames[t])) BY <1>1, <1>4 DEF Moves
<1>9. /\ AdaptiveInv' /\ TraceInv'
      /\ frames' \in [Thread -> Seq(Frame)] /\ trace' \in [Thread -> Object \cup {NoTrace}]
      /\ Becomes(t, tr.trace_id, tr.order_index)
  BY <1>3, <1>7, <1>8, TraceMoves
<1>10. LogInv' /\ OrderNeverFalls' /\ MetadataFirst' /\ log' \in Seq(LogEntry)
  BY <1>1, <1>3, <1>6, <1>9, LogStays
<1>11. TypeInv' BY <1>1, <1>2, <1>3, <1>9, <1>10 DEF TypeInv, IdsGrow
<1> QED BY <1>9, <1>10, <1>11, <1>id, SameId DEF ProbesInv

-----------------------------------------------------------------------------
(* Theorems.                                                                *)

LEMMA StartCorrect == ASSUME ProbesInv, Start PROVE ProbesInv'
<1>1. /\ load # "done" /\ load' = "done" /\ UNCHANGED <<result, table_vars, aspect_vars>>
      /\ line' = 0 /\ i' = 0
  BY DEF Start
<1>2. load = "open" \/ result = 0 BY DEF Start
<1>3. AdaptiveInv' BY <1>1, <1>2, CapacityAssumption DEF ProbesInv, AdaptiveInv, table_vars
<1> QED BY <1>1, <1>3, NoTracesYet

LEMMA StepCorrect == ProbesInv /\ [Next]_vars => ProbesInv' /\ TracesStay
<1> SUFFICES ASSUME ProbesInv, [Next]_vars PROVE ProbesInv' /\ TracesStay
  OBVIOUS
<1>5. trace' = trace => TracesStay BY DEF TracesStay
<1>1. CASE Load
  <2>1. AdaptiveInv' BY <1>1, LoaderKeepsArray DEF ProbesInv, Load
  <2>2. load # "done" BY <1>1 DEF Load, LoaderStep, OpenList, ReadLine, FinishList
  <2> QED BY <1>1, <1>5, <2>1, <2>2, NoTracesYet DEF Load, aspect_vars
<1>2. CASE Start BY <1>2, <1>5, StartCorrect DEF Start, aspect_vars
<1>3. CASE \E t \in Thread : ThreadStep(t)
  <2>1. PICK t \in Thread : ThreadStep(t) BY <1>3
  <2>2. CASE \E class \in Class : EventBefore(t, class) BY <2>2, EventBeforeCorrect
  <2>3. CASE \E class \in Class : FlowBefore(t, class) BY <2>3, FlowBeforeCorrect
  <2>4. CASE EventAfter(t) BY <2>4, EventAfterCorrect
  <2>5. CASE FlowAfter(t) BY <2>5, FlowAfterCorrect
  <2>6. CASE Throw(t) BY <2>6, ThrowCorrect
  <2> QED BY <2>1, <2>2, <2>3, <2>4, <2>5, <2>6 DEF ThreadStep
<1>4. CASE UNCHANGED vars
  <2>1. UNCHANGED <<adaptive_vars, aspect_vars>> BY <1>4 DEF vars
  <2>2. Hidden' = Hidden BY <2>1, AnswersStay DEF adaptive_vars
  <2> USE DEF adaptive_vars, loader_vars, table_vars, aspect_vars, program_vars
  <2>3. AdaptiveInv' BY <2>1 DEF ProbesInv, AdaptiveInv
  <2>4. TypeInv' BY <2>1 DEF ProbesInv, TypeInv
  <2>5. TraceInv' BY <2>1, <2>2 DEF ProbesInv, TraceInv
  <2>6. LogInv' BY <2>1 DEF ProbesInv, LogInv, IsEvent
  <2>7. OrderNeverFalls' /\ MetadataFirst'
    BY <2>1 DEF ProbesInv, OrderNeverFalls, MetadataFirst, IsEvent
  <2> QED BY <1>5, <2>1, <2>3, <2>4, <2>5, <2>6, <2>7 DEF ProbesInv
<1> QED BY <1>1, <1>2, <1>3, <1>4 DEF Next, Over

\* The inductive invariant: with any number of threads and any list, the loader stays
\* inside its array, and trace objects, operations and log agree.
THEOREM ProbesCorrect == Spec => []ProbesInv
<1>1. ProbesInv /\ [Next]_vars => ProbesInv' BY StepCorrect
<1> QED BY <1>1, InitCorrect, PTL DEF Spec

\* Order indexes never fall within a trace, whatever is lost or thrown.
THEOREM OrderKept == Spec => []OrderNeverFalls
<1>1. ProbesInv => OrderNeverFalls BY DEF ProbesInv
<1> QED BY <1>1, ProbesCorrect, PTL

\* A trace's metadata comes once and before its events, even when the first operations
\* of the trace are excluded.
THEOREM MetadataKept == Spec => []MetadataFirst
<1>1. ProbesInv => MetadataFirst BY DEF ProbesInv
<1> QED BY <1>1, ProbesCorrect, PTL

\* A thread that stays inside operations keeps its trace object and its trace id: no
\* return and no exception takes the stack to the -1 that ends a trace.
THEOREM NoTraceEndsInside == Spec => NoEndInside
<1>1. ProbesInv /\ [Next]_vars => TracesStay BY StepCorrect
<1>2. TracesStay <=> \A t \in Thread : trace[t] # NoTrace =>
        trace'[t] # NoTrace /\ trace'[t].trace_id = trace[t].trace_id
  BY DEF TracesStay
<1>3. ProbesInv => \A t \in Thread : frames[t] # <<>> => trace[t] # NoTrace
  BY DEF ProbesInv, TraceInv
<1>4. ProbesInv /\ [Next]_vars =>
        [\A t \in Thread : frames[t] # <<>> /\ frames'[t] # <<>> =>
           /\ trace[t] # NoTrace /\ trace'[t] # NoTrace
           /\ trace'[t].trace_id = trace[t].trace_id]_vars
  BY <1>1, <1>2, <1>3
<1> QED BY <1>4, ProbesCorrect, PTL DEF Spec, NoEndInside

-----------------------------------------------------------------------------
(* What the log tells.                                                      *)

\* The operations of a trace, or what Told has for a log that tells none.
Telling == Class \cup {"mismatch"}

\* Following an event keeps a sequence of operations one.
LEMMA FollowTyped ==
  ASSUME NEW inside \in Seq(Telling), NEW e \in LogEntry, IsEvent(e)
  PROVE  Follow(inside, e) \in Seq(Telling)
<1>1. e.class \in Telling BY DEF LogEntry, IsEvent, Telling
<1>2. Append(inside, e.class) \in Seq(Telling) BY <1>1
<1>3. inside # <<>> => Front(inside) \in Seq(Telling) BY Innermost
<1>4. <<"mismatch">> \in Seq(Telling) BY DEF Telling
<1> QED BY <1>2, <1>3, <1>4 DEF Follow

\* The function by which Told is defined.
ToldAt(l, id) ==
  CHOOSE inside : inside =
    [n \in 0 .. Len(l) |->
       IF n = 0 THEN <<>>
       ELSE IF IsEvent(l[n]) /\ l[n].trace = id THEN Follow(inside[n - 1], l[n])
       ELSE inside[n - 1]]

\* The recursion of Told has a solution, which steps through the log.
LEMMA ToldSolves ==
  ASSUME NEW l \in Seq(LogEntry), NEW id
  PROVE  /\ Told(l, id) = ToldAt(l, id)[Len(l)]
         /\ ToldAt(l, id) \in [0 .. Len(l) -> Seq(Telling)]
         /\ ToldAt(l, id)[0] = <<>>
         /\ \A n \in 1 .. Len(l) :
              ToldAt(l, id)[n] =
                IF IsEvent(l[n]) /\ l[n].trace = id THEN Follow(ToldAt(l, id)[n - 1], l[n])
                ELSE ToldAt(l, id)[n - 1]
<1> DEFINE D == [n \in Nat |-> [ops \in Seq(Telling) |->
                   IF n \in DOMAIN l /\ IsEvent(l[n]) /\ l[n].trace = id
                   THEN Follow(ops, l[n]) ELSE ops]]
           Body(g) == [n \in 0 .. Len(l) |->
                         IF n = 0 THEN <<>>
                         ELSE IF IsEvent(l[n]) /\ l[n].trace = id THEN Follow(g[n - 1], l[n])
                         ELSE g[n - 1]]
<1>1. <<>> \in Seq(Telling) /\ Len(l) \in Nat /\ DOMAIN l = 1 .. Len(l)
      /\ \A n \in DOMAIN l : l[n] \in LogEntry
  OBVIOUS
<1>2. D \in [Nat -> [Seq(Telling) -> Seq(Telling)]] BY <1>1, FollowTyped
<1>3. PICK g : Solves(g, Seq(Telling), <<>>, D, Len(l)) BY <1>1, <1>2, RecursionUpTo
<1>4. g \in [0 .. Len(l) -> Seq(Telling)] /\ g[0] = <<>>
  <2> HIDE DEF D
  <2> QED BY <1>3 DEF Solves
<1>5. ASSUME NEW n \in 1 .. Len(l)
      PROVE  g[n] = IF IsEvent(l[n]) /\ l[n].trace = id THEN Follow(g[n - 1], l[n]) ELSE g[n - 1]
  <2>1. g[n - 1] \in Seq(Telling) BY <1>4
  <2>2. D[n][g[n - 1]] =
          IF IsEvent(l[n]) /\ l[n].trace = id THEN Follow(g[n - 1], l[n]) ELSE g[n - 1]
    BY <2>1, <1>1
  <2> QED BY <1>3, <2>2 DEF Solves
<1>6. g = Body(g)
  <2> HIDE DEF D
  <2>1. \A n \in 0 .. Len(l) : g[n] = Body(g)[n] BY <1>4, <1>5
  <2> QED BY <1>4, <2>1
<1>7. ToldAt(l, id) = Body(ToldAt(l, id)) BY <1>6 DEF ToldAt
<1> DEFINE f == ToldAt(l, id)
<1>8. /\ f[0] = <<>>
      /\ \A n \in 1 .. Len(l) :
           f[n] = IF IsEvent(l[n]) /\ l[n].trace = id THEN Follow(f[n - 1], l[n]) ELSE f[n - 1]
  <2>1. f = Body(f) BY <1>7
  <2> HIDE DEF f
  <2>2. \A n \in 0 .. Len(l) : f[n] = Body(f)[n] BY <2>1
  <2> QED BY <2>2, <1>1
<1>9. f \in [0 .. Len(l) -> Seq(Telling)]
  <2>1. f = [n \in 0 .. Len(l) |-> f[n]] BY <1>7
  <2> HIDE DEF f
  <2>2. GrowAlike(f, g, Len(l)) BY <1>4, <1>5, <1>8 DEF GrowAlike
  <2>3. \A n \in 0 .. Len(l) : f[n] = g[n] BY <1>1, <2>2, SameUpTo
  <2> QED BY <2>1, <2>3, <1>4
<1>10. Told(l, id) = ToldAt(l, id)[Len(l)] BY DEF Told, ToldAt
<1> QED BY <1>8, <1>9, <1>10

\* One more record is one more step of the recursion.
LEMMA ToldAppend ==
  ASSUME NEW l \in Seq(LogEntry), NEW e \in LogEntry, NEW id
  PROVE  /\ Told(l, id) \in Seq(Telling)
         /\ Told(Append(l, e), id) =
              IF IsEvent(e) /\ e.trace = id THEN Follow(Told(l, id), e) ELSE Told(l, id)
<1> DEFINE k == Append(l, e)
           f == ToldAt(l, id)
           g == ToldAt(k, id)
<1>1. /\ k \in Seq(LogEntry) /\ Len(l) \in Nat /\ Len(k) = Len(l) + 1
      /\ k[Len(l) + 1] = e /\ \A n \in 1 .. Len(l) : k[n] = l[n]
  OBVIOUS
<1>2. /\ Told(l, id) = f[Len(l)] /\ f \in [0 .. Len(l) -> Seq(Telling)] /\ f[0] = <<>>
      /\ \A n \in 1 .. Len(l) :
           f[n] = IF IsEvent(l[n]) /\ l[n].trace = id THEN Follow(f[n - 1], l[n]) ELSE f[n - 1]
  BY ToldSolves
<1>3. /\ Told(k, id) = g[Len(k)] /\ g[0] = <<>>
      /\ \A n \in 1 .. Len(k) :
           g[n] = IF IsEvent(k[n]) /\ k[n].trace = id THEN Follow(g[n - 1], k[n]) ELSE g[n - 1]
  <2> HIDE DEF k
  <2> QED BY <1>1, ToldSolves
<1> HIDE DEF k, f, g
<1>4. \A n \in 0 .. Len(l) : f[n] = g[n]
  <2>1. GrowAlike(f, g, Len(l)) BY <1>1, <1>2, <1>3 DEF GrowAlike
  <2> QED BY <1>1, <2>1, SameUpTo
<1>5. Len(k) \in 1 .. Len(k) /\ Len(k) - 1 = Len(l) /\ k[Len(k)] = e /\ g[Len(l)] = f[Len(l)]
  BY <1>1, <1>4
<1>6. Told(k, id) = IF IsEvent(e) /\ e.trace = id THEN Follow(f[Len(l)], e) ELSE f[Len(l)]
  BY <1>3, <1>5
<1>7. f[Len(l)] \in Seq(Telling) BY <1>1, <1>2
<1> QED BY <1>2, <1>6, <1>7 DEF k

\* A log without an event of a trace tells of no operation.
LEMMA ToldNothing ==
  ASSUME NEW l \in Seq(LogEntry), NEW id, \A n \in DOMAIN l : IsEvent(l[n]) => l[n].trace # id
  PROVE  Told(l, id) = <<>>
<1> DEFINE f == ToldAt(l, id)
           T == {n \in Nat : n <= Len(l) => f[n] = <<>>}
<1>1. /\ Told(l, id) = f[Len(l)] /\ f[0] = <<>> /\ Len(l) \in Nat
      /\ \A n \in 1 .. Len(l) :
           f[n] = IF IsEvent(l[n]) /\ l[n].trace = id THEN Follow(f[n - 1], l[n]) ELSE f[n - 1]
  BY ToldSolves
<1> HIDE DEF f
<1>2. \A n \in 1 .. Len(l) : f[n] = f[n - 1] BY <1>1
<1>3. 0 \in T /\ \A n \in 1 .. Len(l) : n - 1 \in T => n \in T
  <2>1. \A n \in 1 .. Len(l) : n \in Nat /\ n - 1 <= Len(l) BY <1>1
  <2> QED BY <1>1, <1>2, <2>1
<1>4. 0 .. Len(l) \subseteq T
  <2> HIDE DEF T
  <2> QED BY <1>1, <1>3, InductionUpTo
<1>5. Len(l) \in T BY <1>1, <1>4
<1> QED BY <1>1, <1>5

\* The function by which Shown is defined.
ShownAt(f, hidden) ==
  CHOOSE shown : shown =
    [n \in 0 .. Len(f) |->
       IF n = 0 THEN <<>>
       ELSE IF f[n].class \in hidden THEN shown[n - 1] ELSE Append(shown[n - 1], f[n].class)]

\* The recursion of Shown has a solution, which steps through the operations.
LEMMA ShownSolves ==
  ASSUME NEW l \in Seq(Frame), NEW hidden
  PROVE  /\ Shown(l, hidden) = ShownAt(l, hidden)[Len(l)]
         /\ ShownAt(l, hidden) \in [0 .. Len(l) -> Seq(Class)]
         /\ ShownAt(l, hidden)[0] = <<>>
         /\ \A n \in 1 .. Len(l) :
              ShownAt(l, hidden)[n] =
                IF l[n].class \in hidden THEN ShownAt(l, hidden)[n - 1]
                ELSE Append(ShownAt(l, hidden)[n - 1], l[n].class)
<1> DEFINE D == [n \in Nat |-> [ops \in Seq(Class) |->
                   IF n \in DOMAIN l /\ l[n].class \notin hidden
                   THEN Append(ops, l[n].class) ELSE ops]]
           Body(g) == [n \in 0 .. Len(l) |->
                         IF n = 0 THEN <<>>
                         ELSE IF l[n].class \in hidden THEN g[n - 1]
                         ELSE Append(g[n - 1], l[n].class)]
<1>1. <<>> \in Seq(Class) /\ Len(l) \in Nat /\ DOMAIN l = 1 .. Len(l)
      /\ \A n \in DOMAIN l : l[n].class \in Class
  BY DEF Frame
<1>2. D \in [Nat -> [Seq(Class) -> Seq(Class)]] BY <1>1
<1>3. PICK g : Solves(g, Seq(Class), <<>>, D, Len(l)) BY <1>1, <1>2, RecursionUpTo
<1>4. g \in [0 .. Len(l) -> Seq(Class)] /\ g[0] = <<>>
  <2> HIDE DEF D
  <2> QED BY <1>3 DEF Solves
<1>5. ASSUME NEW n \in 1 .. Len(l)
      PROVE  g[n] = IF l[n].class \in hidden THEN g[n - 1] ELSE Append(g[n - 1], l[n].class)
  <2>1. g[n - 1] \in Seq(Class) BY <1>4
  <2>2. D[n][g[n - 1]] =
          IF l[n].class \in hidden THEN g[n - 1] ELSE Append(g[n - 1], l[n].class)
    BY <2>1, <1>1
  <2> QED BY <1>3, <2>2 DEF Solves
<1>6. g = Body(g)
  <2> HIDE DEF D
  <2>1. Body(g)[0] = g[0] BY <1>1, <1>4
  <2>2. \A n \in 1 .. Len(l) : g[n] = Body(g)[n]
    <3> SUFFICES ASSUME NEW n \in 1 .. Len(l) PROVE g[n] = Body(g)[n] OBVIOUS
    <3>1. Body(g)[n] = IF l[n].class \in hidden THEN g[n - 1] ELSE Append(g[n - 1], l[n].class)
      BY <1>1
    <3> HIDE DEF Body
    <3> QED BY <1>5, <3>1
  <2>3. \A n \in 0 .. Len(l) : n = 0 \/ n \in 1 .. Len(l) BY <1>1
  <2>4. \A n \in 0 .. Len(l) : g[n] = Body(g)[n]
    <3> HIDE DEF Body
    <3> QED BY <2>1, <2>2, <2>3
  <2> QED BY <1>4, <2>4
<1>7. ShownAt(l, hidden) = Body(ShownAt(l, hidden)) BY <1>6 DEF ShownAt
<1> DEFINE f == ShownAt(l, hidden)
<1>8. /\ f[0] = <<>>
      /\ \A n \in 1 .. Len(l) :
           f[n] = IF l[n].class \in hidden THEN f[n - 1] ELSE Append(f[n - 1], l[n].class)
  <2>1. f = Body(f) BY <1>7
  <2> HIDE DEF f
  <2>2. \A n \in 0 .. Len(l) : f[n] = Body(f)[n] BY <2>1
  <2> QED BY <2>2, <1>1
<1>9. f \in [0 .. Len(l) -> Seq(Class)]
  <2>1. f = [n \in 0 .. Len(l) |-> f[n]] BY <1>7
  <2> HIDE DEF f
  <2>2. GrowAlike(f, g, Len(l)) BY <1>4, <1>5, <1>8 DEF GrowAlike
  <2>3. \A n \in 0 .. Len(l) : f[n] = g[n] BY <1>1, <2>2, SameUpTo
  <2> QED BY <2>1, <2>3, <1>4
<1>10. Shown(l, hidden) = ShownAt(l, hidden)[Len(l)] BY DEF Shown, ShownAt
<1> QED BY <1>8, <1>9, <1>10

\* An operation that is entered is shown behind the ones around it, unless hidden.
LEMMA ShownAppend ==
  ASSUME NEW l \in Seq(Frame), NEW e \in Frame, NEW hidden
  PROVE  /\ Shown(<<>>, hidden) = <<>>
         /\ Shown(l, hidden) \in Seq(Class)
         /\ Shown(Append(l, e), hidden) =
              IF e.class \in hidden THEN Shown(l, hidden) ELSE Append(Shown(l, hidden), e.class)
<1> DEFINE k == Append(l, e)
           f == ShownAt(l, hidden)
           g == ShownAt(k, hidden)
<1>1. /\ k \in Seq(Frame) /\ Len(l) \in Nat /\ Len(k) = Len(l) + 1
      /\ k[Len(l) + 1] = e /\ \A n \in 1 .. Len(l) : k[n] = l[n]
  OBVIOUS
<1>2. /\ Shown(l, hidden) = f[Len(l)] /\ f \in [0 .. Len(l) -> Seq(Class)] /\ f[0] = <<>>
      /\ \A n \in 1 .. Len(l) :
           f[n] = IF l[n].class \in hidden THEN f[n - 1] ELSE Append(f[n - 1], l[n].class)
  BY ShownSolves
<1>3. /\ Shown(k, hidden) = g[Len(k)] /\ g[0] = <<>>
      /\ \A n \in 1 .. Len(k) :
           g[n] = IF k[n].class \in hidden THEN g[n - 1] ELSE Append(g[n - 1], k[n].class)
  <2> HIDE DEF k
  <2> QED BY <1>1, ShownSolves
<1> HIDE DEF k, f, g
<1>4. \A n \in 0 .. Len(l) : f[n] = g[n]
  <2>1. GrowAlike(f, g, Len(l)) BY <1>1, <1>2, <1>3 DEF GrowAlike
  <2> QED BY <1>1, <2>1, SameUpTo
<1>5. Len(k) \in 1 .. Len(k) /\ Len(k) - 1 = Len(l) /\ k[Len(k)] = e /\ g[Len(l)] = f[Len(l)]
  BY <1>1, <1>4
<1>6. Shown(k, hidden) = IF e.class \in hidden THEN f[Len(l)] ELSE Append(f[Len(l)], e.class)
  BY <1>3, <1>5
<1>7. f[Len(l)] \in Seq(Class) BY <1>1, <1>2
<1>8. Shown(<<>>, hidden) = <<>>
  <2>1. <<>> \in Seq(Frame) /\ Len(<<>>) = 0 OBVIOUS
  <2> QED BY <2>1, ShownSolves
<1> QED BY <1>2, <1>6, <1>7, <1>8 DEF k

\* Metadata, if any, and one event come behind the log.
LEMMA ToldGrows ==
  ASSUME NEW l \in Seq(LogEntry), NEW m \in Seq(LogEntry), NEW e \in LogEntry, NEW id,
         m = <<>> \/ (Len(m) = 1 /\ m[1].type = "metadata"), IsEvent(e)
  PROVE  Told(l \o Append(m, e), id) =
           IF e.trace = id THEN Follow(Told(l, id), e) ELSE Told(l, id)
<1>1. CASE m = <<>>
  <2>1. l \o Append(m, e) = Append(l, e) BY <1>1
  <2> QED BY <2>1, ToldAppend
<1>2. CASE Len(m) = 1 /\ m[1].type = "metadata"
  <2> DEFINE k == Append(l, m[1])
  <2>1. m[1] \in LogEntry /\ k \in Seq(LogEntry) /\ m = <<m[1]>> BY <1>2
  <2>2. l \o Append(<<m[1]>>, e) = Append(k, e) BY <2>1
  <2>3. ~IsEvent(m[1]) BY <1>2 DEF IsEvent
  <2>4. Told(k, id) = Told(l, id) BY <2>1, <2>3, ToldAppend
  <2> HIDE DEF k
  <2>5. Told(Append(k, e), id) = IF e.trace = id THEN Follow(Told(k, id), e) ELSE Told(k, id)
    BY <2>1, ToldAppend
  <2> QED BY <2>1, <2>2, <2>4, <2>5
<1> QED BY <1>1, <1>2

\* What the log tells of the trace object a probe works with.
LEMMA GotTells ==
  ASSUME ProbesInv, LogTellsShownFrames, load = "done", aspect = "event", ~lost,
         NEW t \in Thread, t \notin thrown, NextId(t)
  PROVE  Told(log, Got(t).trace_id) = Shown(frames[t], Hidden)
<1>1. CASE trace[t] # NoTrace BY <1>1 DEF Got, LogTellsShownFrames
<1>2. CASE trace[t] = NoTrace
  <2>1. Known(Got(t).trace_id, Got(t).order_index) BY GotObject
  <2>2. ~(Got(t).order_index >= 0) BY <1>2 DEF Got
  <2>3. \A n \in DOMAIN log : IsEvent(log[n]) => log[n].trace # Got(t).trace_id
    BY <2>1, <2>2 DEF Known, IsEvent
  <2>4. log \in Seq(LogEntry) BY DEF ProbesInv, TypeInv
  <2>5. Told(log, Got(t).trace_id) = <<>> BY <2>3, <2>4, ToldNothing
  <2>6. Shown(frames[t], Hidden) = <<>> BY <1>2 DEF LogTellsShownFrames
  <2> QED BY <2>5, <2>6
<1> QED BY <1>1, <1>2

\* A step of one thread changes what the log tells of its trace, and of no other.
LEMMA ShownMoves ==
  ASSUME ProbesInv, LogTellsShownFrames, load = "done", aspect = "event", lost => lost',
         UNCHANGED <<adaptive_vars, aspect, thrown>>,
         NEW t \in Thread, NEW id, OwnId(t, id), NEW f, frames' = [frames EXCEPT ![t] = f],
         trace'[t] # NoTrace, trace'[t].trace_id = id,
         \A u \in Thread : u # t => trace'[u] = trace[u],
         ~lost' => \A other : other # id => Told(log', other) = Told(log, other),
         ~lost' /\ t \notin thrown => Told(log', id) = Shown(f, Hidden)
  PROVE  LogTellsShownFrames'
<1>1. Hidden' = Hidden BY AnswersStay DEF adaptive_vars
<1>2. DOMAIN frames = Thread BY DEF ProbesInv, TypeInv
<1>3. ASSUME ~lost', NEW u \in Thread \ thrown
      PROVE  (IF trace'[u] = NoTrace THEN <<>> ELSE Told(log', trace'[u].trace_id))
               = Shown(frames'[u], Hidden)
  <2>1. CASE u = t
    <3>1. frames'[u] = f /\ trace'[u] = trace'[t] /\ t \notin thrown BY <1>2, <2>1
    <3>2. Told(log', id) = Shown(f, Hidden) BY <1>3, <3>1
    <3> QED BY <3>1, <3>2
  <2>2. CASE u # t
    <3>1. frames'[u] = frames[u] /\ trace'[u] = trace[u] BY <1>2, <2>2
    <3>2. (IF trace[u] = NoTrace THEN <<>> ELSE Told(log, trace[u].trace_id))
            = Shown(frames[u], Hidden)
      BY <1>3 DEF LogTellsShownFrames
    <3>3. trace[u] # NoTrace => trace[u].trace_id # id BY <2>2 DEF OwnId
    <3>4. trace[u] # NoTrace => Told(log', trace[u].trace_id) = Told(log, trace[u].trace_id)
      BY <1>3, <3>3
    <3> QED BY <3>1, <3>2, <3>4
  <2> QED BY <2>1, <2>2
<1>4. thrown' = thrown OBVIOUS
<1> QED BY <1>1, <1>3, <1>4 DEF LogTellsShownFrames

\* An operation is entered: the log tells so, unless it is hidden or the write fails.
LEMMA ShownBefore ==
  ASSUME ProbesInv, LogTellsShownFrames, NEW t \in Thread, NEW class \in Class,
         EventBefore(t, class)
  PROVE  LogTellsShownFrames'
<1> DEFINE got == Got(t)
           metadata == IF got.order_index = -1 THEN <<MetadataRecord(got)>> ELSE <<>>
           new == [class |-> class]
           f == Append(frames[t], new)
           counted == [got EXCEPT !.stack = @ + 1]
           sent == [counted EXCEPT !.order_index = @ + 1]
           event == EventRecord("before", sent, class)
<1>1. /\ load = "done" /\ UNCHANGED <<adaptive_vars, aspect, thrown>> /\ aspect = "event" /\ NextId(t)
      /\ frames' = [frames EXCEPT ![t] = f]
      /\ IF Excluded(class)
         THEN /\ trace' = [trace EXCEPT ![t] = counted]
              /\ log' = log /\ lost' = lost
         ELSE /\ trace' = [trace EXCEPT ![t] = sent]
              /\ \/ log' = log \o Append(metadata, event) /\ lost' = lost
                 \/ lost' = TRUE
  BY DEF EventBefore, Running, Send
<1>2. /\ TypeInv /\ frames[t] \in Seq(Frame) /\ log \in Seq(LogEntry) /\ lost \in BOOLEAN
      /\ DOMAIN trace = Thread
  BY DEF ProbesInv, TypeInv
<1>3. got \in Object /\ OwnId(t, got.trace_id) BY <1>1, GotObject
<1>4. got.trace_id \in Nat /\ got.order_index \in Nat \cup {-1} /\ got.stack \in Nat
  BY <1>3 DEF Object
<1>5. /\ counted = [trace_id |-> got.trace_id, order_index |-> got.order_index,
                    stack |-> got.stack + 1]
      /\ sent = [trace_id |-> got.trace_id, order_index |-> got.order_index + 1,
                 stack |-> got.stack + 1]
  BY <1>3, Counted
<1>6. counted \in Object /\ sent \in Object /\ counted.trace_id = got.trace_id
      /\ sent.trace_id = got.trace_id
  BY <1>4, <1>5 DEF Object
<1>7. metadata \in Seq(LogEntry) /\ (metadata = <<>> \/ (Len(metadata) = 1 /\ metadata[1].type = "metadata"))
  <2>1. MetadataRecord(got) \in LogEntry /\ MetadataRecord(got).type = "metadata"
    BY <1>4 DEF MetadataRecord, LogEntry
  <2> QED BY <2>1
<1>8. event \in LogEntry /\ IsEvent(event) /\ event.type = "before"
      /\ event.trace = got.trace_id /\ event.class = class
  <2>1. sent.order_index \in Nat BY <1>4, <1>5
  <2> HIDE DEF sent
  <2> QED BY <1>4, <1>6, <2>1 DEF EventRecord, LogEntry, IsEvent
<1>9. /\ Shown(frames[t], Hidden) \in Seq(Class)
      /\ Shown(f, Hidden) = IF class \in Hidden THEN Shown(frames[t], Hidden)
                            ELSE Append(Shown(frames[t], Hidden), class)
  <2>1. new \in Frame /\ new.class = class BY DEF Frame
  <2> HIDE DEF new
  <2> QED BY <1>2, <2>1, ShownAppend
<1>10. ~lost /\ t \notin thrown => Told(log, got.trace_id) = Shown(frames[t], Hidden)
  BY <1>1, GotTells
<1>11. trace'[t] # NoTrace /\ trace'[t].trace_id = got.trace_id
       /\ \A u \in Thread : u # t => trace'[u] = trace[u]
  <2>1. NoTrace \notin Object BY NoTraceAssumption DEF Object
  <2> HIDE DEF counted, sent
  <2> QED BY <1>1, <1>2, <1>6, <2>1
<1> HIDE DEF got, metadata, f, counted, sent, event
<1>12. lost => lost' BY <1>1, <1>2
<1>13. CASE Excluded(class)
  <2>1. class \in Hidden /\ log' = log /\ lost' = lost BY <1>1, <1>13 DEF Hidden
  <2>2. ~lost' /\ t \notin thrown => Told(log', got.trace_id) = Shown(f, Hidden)
    BY <1>9, <1>10, <2>1
  <2>3. ~lost' => \A other : other # got.trace_id => Told(log', other) = Told(log, other)
    BY <2>1
  <2> QED BY <1>1, <1>3, <1>11, <1>12, <2>2, <2>3, ShownMoves
<1>14. CASE ~Excluded(class)
  <2>1. class \notin Hidden BY <1>14 DEF Hidden
  <2>2. ~lost' => log' = log \o Append(metadata, event) /\ ~lost BY <1>1, <1>2, <1>14
  <2>3. ~lost' => \A other : Told(log', other) = IF got.trace_id = other
                               THEN Follow(Told(log, other), event) ELSE Told(log, other)
    <3> SUFFICES ASSUME ~lost', NEW other
                 PROVE  Told(log', other) = IF got.trace_id = other
                          THEN Follow(Told(log, other), event) ELSE Told(log, other)
      OBVIOUS
    <3>1. Told(log \o Append(metadata, event), other) =
            IF event.trace = other THEN Follow(Told(log, other), event) ELSE Told(log, other)
      BY <1>2, <1>7, <1>8, ToldGrows
    <3>2. log' = log \o Append(metadata, event) BY <2>2
    <3> QED BY <1>8, <3>1, <3>2
  <2>4. ~lost' /\ t \notin thrown => Told(log', got.trace_id) = Shown(f, Hidden)
    BY <1>8, <1>9, <1>10, <2>1, <2>2, <2>3 DEF Follow
  <2>5. ~lost' => \A other : other # got.trace_id => Told(log', other) = Told(log, other)
    BY <2>3
  <2> QED BY <1>1, <1>3, <1>11, <1>12, <2>4, <2>5, ShownMoves
<1> QED BY <1>13, <1>14

\* Outside of all operations nothing is shown.
LEMMA ShownNothing == ASSUME NEW h PROVE Shown(<<>>, h) = <<>>
<1>1. <<>> \in Seq(Frame) /\ Len(<<>>) = 0 OBVIOUS
<1>2. /\ Shown(<<>>, h) = ShownAt(<<>>, h)[Len(<<>>)]
      /\ ShownAt(<<>>, h)[0] = <<>>
  BY <1>1, ShownSolves
<1> QED BY <1>1, <1>2

\* A sequence is its front with its last element behind it.
LEMMA FrontAppend ==
  ASSUME NEW S
  PROVE  /\ \A f \in Seq(S) : f # <<>> => Append(Front(f), Last(f)) = f
         /\ \A f \in Seq(S), e \in S :
              Front(Append(f, e)) = f /\ Last(Append(f, e)) = e /\ Append(f, e) # <<>>
<1>1. ASSUME NEW f \in Seq(S), f # <<>> PROVE Append(Front(f), Last(f)) = f
  <2>1. /\ Len(f) \in Nat \ {0} /\ Last(f) = f[Len(f)] /\ Last(f) \in S
        /\ Front(f) \in Seq(S) /\ Len(Front(f)) = Len(f) - 1
        /\ \A n \in 1 .. Len(f) - 1 : Front(f)[n] = f[n]
    BY <1>1, Innermost
  <2> QED BY <2>1
<1>2. ASSUME NEW f \in Seq(S), NEW e \in S
      PROVE  Front(Append(f, e)) = f /\ Last(Append(f, e)) = e /\ Append(f, e) # <<>>
  <2> DEFINE k == Append(f, e)
  <2>1. k \in Seq(S) /\ k # <<>> /\ Len(k) = Len(f) + 1 /\ k[Len(f) + 1] = e
        /\ Len(f) \in Nat /\ \A n \in 1 .. Len(f) : k[n] = f[n]
    OBVIOUS
  <2>2. /\ Last(k) = k[Len(k)] /\ Front(k) \in Seq(S) /\ Len(Front(k)) = Len(k) - 1
        /\ \A n \in 1 .. Len(k) - 1 : Front(k)[n] = k[n]
    BY <2>1, Innermost
  <2> HIDE DEF k
  <2>3. Front(k) = f BY <2>1, <2>2
  <2> QED BY <2>1, <2>2, <2>3 DEF k
<1> QED BY <1>1, <1>2

\* An operation returns: the event after it takes back the innermost one shown.
LEMMA ShownAfter ==
  ASSUME ProbesInv, LogTellsShownFrames, NEW t \in Thread, EventAfter(t)
  PROVE  LogTellsShownFrames'
<1> DEFINE tr == trace[t]
           class == Last(frames[t]).class
           f == Front(frames[t])
           left(order) == [trace_id |-> tr.trace_id, order_index |-> order, stack |-> tr.stack - 1]
           event == EventRecord("after", tr, class)
<1>1. /\ load = "done" /\ UNCHANGED <<adaptive_vars, aspect, thrown>> /\ aspect = "event"
      /\ frames[t] # <<>> /\ frames' = [frames EXCEPT ![t] = f]
  BY DEF EventAfter, Running
<1>2. /\ TypeInv /\ log \in Seq(LogEntry) /\ lost \in BOOLEAN /\ DOMAIN trace = Thread
  BY DEF ProbesInv, TypeInv
<1>3. /\ tr \in Object /\ tr # NoTrace
      /\ tr.trace_id \in Nat /\ tr.order_index \in Nat \cup {-1} /\ tr.stack \in Nat
      /\ frames[t] \in Seq(Frame) /\ Fits(tr, frames[t]) /\ OwnId(t, tr.trace_id)
  BY <1>1, InsideHasObject
<1>4. /\ f \in Seq(Frame) /\ Last(frames[t]) \in Frame /\ class \in Class /\ tr.stack - 1 >= 0
      /\ frames[t] = Append(f, Last(frames[t]))
  <2>1. tr.order_index >= tr.order_index BY <1>3
  <2>2. f \in Seq(Frame) /\ Last(frames[t]) \in Frame /\ tr.stack - 1 >= 0
    BY <1>1, <1>3, <2>1, Leaving
  <2>3. frames[t] = Append(f, Last(frames[t])) BY <1>1, <1>3, FrontAppend
  <2> QED BY <2>2, <2>3 DEF Frame
<1>5. /\ [tr EXCEPT !.stack = @ - 1] = left(tr.order_index)
      /\ [[tr EXCEPT !.order_index = @ + 1] EXCEPT !.stack = @ - 1] = left(tr.order_index + 1)
  BY <1>3, Counted
<1>6. IF Excluded(class)
      THEN EndOfTrace(t, left(tr.order_index)) /\ log' = log /\ lost' = lost
      ELSE EndOfTrace(t, left(tr.order_index + 1)) /\ Send(<<event>>)
  <2>1. IF Excluded(class)
        THEN /\ EndOfTrace(t, left(tr.order_index)) /\ UNCHANGED <<buffer, log, lost>>
        ELSE /\ EndOfTrace(t, left(tr.order_index + 1)) /\ buffer' = <<event>> /\ Send(buffer')
    BY <1>5 DEF EventAfter
  <2> HIDE DEF left, event, class, tr
  <2> QED BY <2>1 DEF Send
<1>7. /\ Shown(f, Hidden) \in Seq(Class)
      /\ Shown(frames[t], Hidden) = IF class \in Hidden THEN Shown(f, Hidden)
                                    ELSE Append(Shown(f, Hidden), class)
  <2> DEFINE e == Last(frames[t])
  <2>1. f \in Seq(Frame) /\ e \in Frame /\ frames[t] = Append(f, e) BY <1>4
  <2>2. class = e.class OBVIOUS
  <2> HIDE DEF f, e, class
  <2>3. /\ Shown(f, Hidden) \in Seq(Class)
        /\ Shown(Append(f, e), Hidden) = IF e.class \in Hidden THEN Shown(f, Hidden)
                                         ELSE Append(Shown(f, Hidden), e.class)
    BY <2>1, ShownAppend
  <2> QED BY <2>1, <2>2, <2>3
<1>8. ~lost /\ t \notin thrown => Told(log, tr.trace_id) = Shown(frames[t], Hidden)
  BY <1>1, <1>3 DEF LogTellsShownFrames
<1>9. \A order \in Int : EndOfTrace(t, left(order)) =>
        /\ trace'[t] # NoTrace /\ trace'[t].trace_id = tr.trace_id
        /\ \A u \in Thread : u # t => trace'[u] = trace[u]
  <2> SUFFICES ASSUME NEW order \in Int, EndOfTrace(t, left(order))
               PROVE  /\ trace'[t] # NoTrace /\ trace'[t].trace_id = tr.trace_id
                      /\ \A u \in Thread : u # t => trace'[u] = trace[u]
    OBVIOUS
  <2>1. left(order).stack # -1 BY <1>3, <1>4
  <2>2. trace' = [trace EXCEPT ![t] = left(order)] BY <2>1 DEF EndOfTrace
  <2>3. trace'[t] = left(order) /\ \A u \in Thread : u # t => trace'[u] = trace[u] BY <1>2, <2>2
  <2>4. left(order).trace_id = tr.trace_id OBVIOUS
  <2>5. left(order) # NoTrace
    <3>1. left(order) \in [trace_id : Nat, order_index : Int, stack : Nat]
      BY <1>3, <1>4
    <3> QED BY <3>1, NoTraceAssumption
  <2> QED BY <2>3, <2>4, <2>5
<1>10. (event \in LogEntry /\ IsEvent(event)) \/ tr.order_index = -1
  BY <1>3, <1>4 DEF EventRecord, LogEntry, IsEvent
<1>11. event.type = "after" /\ event.trace = tr.trace_id /\ event.class = class
  BY DEF EventRecord
<1>12. tr.order_index \in Int /\ tr.order_index + 1 \in Int BY <1>3
<1>13. ~Excluded(class) => event \in LogEntry /\ IsEvent(event)
  <2>1. tr.order_index = -1 => class \in Hidden
    <3>1. Len(frames[t]) \in DOMAIN frames[t] /\ frames[t][Len(frames[t])].class = class
      <4>1. /\ Last(frames[t]) = frames[t][Len(frames[t])] /\ Len(frames[t]) \in Nat \ {0}
            /\ DOMAIN frames[t] = 1 .. Len(frames[t])
        BY <1>1, <1>3, Innermost
      <4>2. Len(frames[t]) \in 1 .. Len(frames[t]) BY <4>1
      <4> QED BY <4>1, <4>2
    <3> QED BY <3>1, <1>1, <1>3 DEF Fits
  <2> QED BY <1>10, <2>1 DEF Hidden
<1> HIDE DEF tr, class, f, left, event
<1>14. lost => lost' BY <1>2, <1>6 DEF Send
<1>15. /\ trace'[t] # NoTrace /\ trace'[t].trace_id = tr.trace_id
       /\ \A u \in Thread : u # t => trace'[u] = trace[u]
  BY <1>6, <1>9, <1>12
<1>16. CASE Excluded(class)
  <2>1. class \in Hidden /\ log' = log /\ lost' = lost BY <1>4, <1>6, <1>16 DEF Hidden
  <2>2. ~lost' /\ t \notin thrown => Told(log', tr.trace_id) = Shown(f, Hidden)
    BY <1>7, <1>8, <2>1
  <2>3. ~lost' => \A other : other # tr.trace_id => Told(log', other) = Told(log, other)
    BY <2>1
  <2> QED BY <1>1, <1>3, <1>14, <1>15, <2>2, <2>3, ShownMoves
<1>17. CASE ~Excluded(class)
  <2>1. class \notin Hidden BY <1>17 DEF Hidden
  <2>2. ~lost' => log' = log \o <<event>> /\ ~lost BY <1>2, <1>6, <1>17 DEF Send
  <2>3. ASSUME ~lost', NEW other
        PROVE  Told(log', other) = IF tr.trace_id = other
                 THEN Follow(Told(log, other), event) ELSE Told(log, other)
    <3>1. log' = Append(log, event) BY <1>2, <2>2, <2>3
    <3>2. Told(Append(log, event), other) =
            IF IsEvent(event) /\ event.trace = other
            THEN Follow(Told(log, other), event) ELSE Told(log, other)
      BY <1>2, <1>13, <1>17, ToldAppend
    <3> QED BY <1>11, <1>13, <1>17, <3>1, <3>2
  <2>4. ASSUME ~lost', t \notin thrown PROVE Told(log', tr.trace_id) = Shown(f, Hidden)
    <3> DEFINE ops == Told(log, tr.trace_id)
    <3>1. ops = Append(Shown(f, Hidden), class) BY <1>7, <1>8, <2>1, <2>2, <2>4
    <3>2. Front(ops) = Shown(f, Hidden) /\ Last(ops) = class /\ ops # <<>>
      BY <1>4, <1>7, <3>1, FrontAppend
    <3> HIDE DEF ops
    <3>3. Follow(ops, event) = Front(ops) BY <1>11, <3>2 DEF Follow
    <3>4. Told(log', tr.trace_id) = Follow(ops, event) BY <2>3, <2>4 DEF ops
    <3> QED BY <3>2, <3>3, <3>4
  <2>5. ~lost' => \A other : other # tr.trace_id => Told(log', other) = Told(log, other)
    BY <2>3
  <2>6. ~lost' /\ t \notin thrown => Told(log', tr.trace_id) = Shown(f, Hidden) BY <2>4
  <2> QED BY <1>1, <1>3, <1>14, <1>15, <2>5, <2>6, ShownMoves
<1> QED BY <1>16, <1>17

\* A thrown exception takes the thread out of what the property is about.
LEMMA ShownThrow ==
  ASSUME ProbesInv, LogTellsShownFrames, NEW t \in Thread, Throw(t)
  PROVE  LogTellsShownFrames'
<1>1. /\ UNCHANGED <<adaptive_vars, aspect, trace, log, lost>> /\ thrown' = thrown \cup {t}
      /\ frames' = [frames EXCEPT ![t] = Front(frames[t])] /\ load' = load
  BY DEF Throw, Running, adaptive_vars, loader_vars
<1>2. Hidden' = Hidden BY <1>1, AnswersStay DEF adaptive_vars
<1>3. \A u \in Thread \ thrown' : u \notin thrown /\ frames'[u] = frames[u]
  BY <1>1 DEF ProbesInv, TypeInv
<1> QED BY <1>1, <1>2, <1>3 DEF LogTellsShownFrames

\* Nothing changes.
LEMMA ShownStays ==
  ASSUME LogTellsShownFrames, UNCHANGED <<adaptive_vars, aspect_vars>>
  PROVE  LogTellsShownFrames'
<1>1. /\ UNCHANGED <<load, aspect, trace, log, lost, thrown, frames>> /\ Hidden' = Hidden
  BY AnswersStay DEF adaptive_vars, loader_vars, aspect_vars, program_vars
<1> QED BY <1>1 DEF LogTellsShownFrames

\* Once the aspect is made, no thread is in an operation yet.
LEMMA ShownStarts ==
  ASSUME ProbesInv, Start
  PROVE  LogTellsShownFrames'
<1>1. load # "done" /\ UNCHANGED <<trace, frames>>
  BY DEF Start, aspect_vars, program_vars
<1>2. \A t \in Thread : trace'[t] = NoTrace /\ frames'[t] = <<>>
  BY <1>1 DEF ProbesInv, TraceInv
<1>3. Shown(<<>>, Hidden') = <<>> BY ShownNothing
<1> QED BY <1>2, <1>3 DEF LogTellsShownFrames

\* Every step keeps what the log tells.
LEMMA ShownStep == ProbesInv /\ LogTellsShownFrames /\ [Next]_vars => LogTellsShownFrames'
<1> SUFFICES ASSUME ProbesInv, LogTellsShownFrames, [Next]_vars PROVE LogTellsShownFrames'
  OBVIOUS
<1>1. CASE Load
  <2>1. load' # "done"
    BY <1>1 DEF Load, LoaderStep, OpenList, ReadLine, FinishList, Returns, ProbesInv, AdaptiveInv
  <2> QED BY <2>1 DEF LogTellsShownFrames
<1>2. CASE Start BY <1>2, ShownStarts
<1>3. CASE \E t \in Thread : ThreadStep(t)
  <2>1. PICK t \in Thread : ThreadStep(t) BY <1>3
  <2>2. CASE \E class \in Class : EventBefore(t, class) BY <2>2, ShownBefore
  <2>3. CASE (\E class \in Class : FlowBefore(t, class)) \/ FlowAfter(t)
    <3>1. aspect' # "event" BY <2>3 DEF FlowBefore, FlowAfter, Running
    <3> QED BY <3>1 DEF LogTellsShownFrames
  <2>4. CASE EventAfter(t) BY <2>4, ShownAfter
  <2>5. CASE Throw(t) BY <2>5, ShownThrow
  <2> QED BY <2>1, <2>2, <2>3, <2>4, <2>5 DEF ThreadStep
<1>4. CASE UNCHANGED vars BY <1>4, ShownStays DEF vars
<1> QED BY <1>1, <1>2, <1>3, <1>4 DEF Next, Over

\* At any moment the log of a thread tells exactly the operations of classes that are
\* not excluded it is in, unless a write failed or an exception passed.
THEOREM ShownTold == Spec => []LogTellsShownFrames
<1>1. Init => LogTellsShownFrames
  <2>1. Init => load # "done" BY DEF Init, AdaptiveInit
  <2> QED BY <2>1 DEF LogTellsShownFrames
<1> QED BY <1>1, ShownStep, ProbesCorrect, PTL DEF Spec

-----------------------------------------------------------------------------
(* The operation records and the call tree.                                 *)

\* The records behind the n-th and the operations around it are finitely many.
LEMMA FewAround ==
  ASSUME NEW f \in Seq(FlowRecord), NEW r \in Seq(FlowRecord), NEW n, NEW eoi
  PROVE  /\ IsFiniteSet(Outside(r, n)) /\ Cardinality(Outside(r, n)) \in Nat
         /\ IsFiniteSet(Around(f, eoi)) /\ Cardinality(Around(f, eoi)) \in Nat
<1>1. IsFiniteSet(1 .. Len(r)) /\ IsFiniteSet(1 .. Len(f)) BY FS_Interval
<1>2. Outside(r, n) \subseteq 1 .. Len(r) BY DEF Outside
<1>3. Around(f, eoi) \subseteq 1 .. Len(f) BY DEF Around
<1>4. IsFiniteSet(Outside(r, n)) /\ IsFiniteSet(Around(f, eoi)) BY <1>1, <1>2, <1>3, FS_Subset
<1> QED BY <1>4, FS_CardinalityType

\* What a record of an operation counts with.
LEMMA FlowNumbers ==
  ASSUME NEW f \in Seq(FlowRecord)
  PROVE  \A j \in DOMAIN f : f[j] \in FlowRecord /\ f[j].eoi \in Nat /\ f[j].ess \in Nat
<1> TAKE j \in DOMAIN f
<1>1. f[j] \in FlowRecord OBVIOUS
<1> QED BY <1>1 DEF FlowRecord

\* An operation is entered: its index of entry is behind all others.
LEMMA FlowEnters ==
  ASSUME NEW tr \in Object, NEW f, NEW r, FlowFits(tr, f, r), NEW class \in Class,
         NEW now \in Object, now = [trace_id |-> tr.trace_id, order_index |-> tr.order_index + 1,
                                    stack |-> tr.stack + 1]
  PROVE  FlowFits(now, Append(f, [class |-> class, trace |-> now.trace_id,
                                  eoi |-> now.order_index, ess |-> now.stack]), r)
<1> DEFINE g == [class |-> class, trace |-> now.trace_id, eoi |-> now.order_index, ess |-> now.stack]
           k == Append(f, g)
<1>1. /\ tr # NoTrace /\ now # NoTrace BY NoTraceAssumption DEF Object
<1>2. /\ now.order_index = tr.order_index + 1 /\ now.stack = tr.stack + 1
      /\ tr.order_index \in Int /\ tr.order_index >= -1
      /\ now.order_index \in Nat /\ now.stack \in Nat /\ now.trace_id \in Nat
  BY DEF Object
<1>3. /\ f \in Seq(FlowRecord) /\ r \in Seq(FlowRecord) /\ tr.stack = Len(f)
      /\ \A j \in DOMAIN f : /\ f[j].ess = j /\ f[j].eoi =< tr.order_index
                             /\ \A m \in 1 .. j - 1 : f[m].eoi < f[j].eoi
      /\ \A n \in DOMAIN r :
            /\ r[n].eoi =< tr.order_index
            /\ r[n].ess = 1 + Cardinality(Outside(r, n)) + Cardinality(Around(f, r[n].eoi))
  BY <1>1 DEF FlowFits
<1>4. g \in FlowRecord /\ g.eoi = now.order_index /\ g.ess = now.stack BY <1>2 DEF FlowRecord
<1> HIDE DEF g
<1>5. /\ k \in Seq(FlowRecord) /\ Len(k) = Len(f) + 1 /\ Len(f) \in Nat
      /\ DOMAIN k = 1 .. Len(f) + 1 /\ DOMAIN f = 1 .. Len(f)
      /\ k[Len(f) + 1] = g /\ \A j \in 1 .. Len(f) : k[j] = f[j]
  BY <1>3, <1>4
<1> HIDE DEF k
<1>6. \A j \in DOMAIN f : f[j].eoi \in Nat BY <1>3, FlowNumbers
<1>7. \A n \in DOMAIN r : r[n].eoi \in Nat BY <1>3, FlowNumbers
<1>8. ASSUME NEW j \in DOMAIN k
      PROVE  /\ k[j].ess = j /\ k[j].eoi =< now.order_index
             /\ \A m \in 1 .. j - 1 : k[m].eoi < k[j].eoi
  <2>1. CASE j = Len(f) + 1
    <3>1. \A m \in 1 .. j - 1 : m \in DOMAIN f /\ k[m] = f[m] BY <1>5, <2>1
    <3>2. k[j] = g BY <1>5, <2>1
    <3> QED BY <1>2, <1>3, <1>4, <1>6, <2>1, <3>1, <3>2
  <2>2. CASE j # Len(f) + 1
    <3>1. j \in DOMAIN f /\ k[j] = f[j] BY <1>5, <2>2
    <3>2. \A m \in 1 .. j - 1 : m \in DOMAIN f /\ k[m] = f[m] BY <1>5, <3>1
    <3> QED BY <1>2, <1>3, <1>6, <3>1, <3>2
  <2> QED BY <2>1, <2>2
<1>9. ASSUME NEW n \in DOMAIN r
      PROVE  /\ r[n].eoi =< now.order_index
             /\ Around(k, r[n].eoi) = Around(f, r[n].eoi)
  <2>1. ~(k[Len(f) + 1].eoi < r[n].eoi) BY <1>2, <1>3, <1>4, <1>5, <1>7
  <2>2. Around(k, r[n].eoi) = Around(f, r[n].eoi) BY <1>5, <2>1 DEF Around
  <2> QED BY <1>2, <1>3, <1>7, <2>2
<1>10. FlowFits(now, k, r) BY <1>1, <1>2, <1>3, <1>5, <1>8, <1>9 DEF FlowFits
<1> QED BY <1>10 DEF k, g

\* An operation returns: it leaves the operations around the finished ones it was
\* entered before, and joins the finished ones around them.
LEMMA FlowLeaves ==
  ASSUME NEW tr \in Object, NEW f, NEW r, FlowFits(tr, f, r), f # <<>>,
         NEW now \in Object, now = [trace_id |-> tr.trace_id, order_index |-> tr.order_index,
                                    stack |-> tr.stack - 1]
  PROVE  FlowFits(now, Front(f), Append(r, Last(f)))
<1> DEFINE e == Last(f)
           k == Append(r, e)
           g == Front(f)
           z == Len(f)
<1>1. tr # NoTrace /\ now # NoTrace BY NoTraceAssumption DEF Object
<1>2. /\ now.order_index = tr.order_index /\ now.stack = tr.stack - 1
      /\ tr.order_index \in Int
  BY DEF Object
<1>3. /\ f \in Seq(FlowRecord) /\ r \in Seq(FlowRecord) /\ tr.stack = z
      /\ \A j \in DOMAIN f : /\ f[j].ess = j /\ f[j].eoi =< tr.order_index
                             /\ \A m \in 1 .. j - 1 : f[m].eoi < f[j].eoi
      /\ \A n \in DOMAIN r :
            /\ r[n].eoi =< tr.order_index
            /\ r[n].ess = 1 + Cardinality(Outside(r, n)) + Cardinality(Around(f, r[n].eoi))
  BY <1>1 DEF FlowFits
<1>4. /\ z \in Nat \ {0} /\ e = f[z] /\ e \in FlowRecord
      /\ g \in Seq(FlowRecord) /\ Len(g) = z - 1
      /\ DOMAIN f = 1 .. z /\ DOMAIN g = 1 .. z - 1
      /\ \A j \in 1 .. z - 1 : g[j] = f[j]
  BY <1>3, Innermost
<1> HIDE DEF e, g
<1>5. /\ k \in Seq(FlowRecord) /\ Len(k) = Len(r) + 1 /\ Len(r) \in Nat
      /\ DOMAIN k = 1 .. Len(r) + 1 /\ DOMAIN r = 1 .. Len(r)
      /\ k[Len(r) + 1] = e /\ \A n \in 1 .. Len(r) : k[n] = r[n]
  BY <1>3, <1>4
<1> HIDE DEF k, z
<1>6. /\ \A j \in DOMAIN f : f[j].eoi \in Nat
      /\ \A n \in DOMAIN r : r[n].eoi \in Nat /\ r[n].ess \in Nat
      /\ e.eoi \in Nat
  BY <1>3, <1>4, FlowNumbers DEF FlowRecord
<1>7. z \in DOMAIN f /\ e.ess = z /\ e.eoi =< tr.order_index
      /\ \A j \in 1 .. z - 1 : j \in DOMAIN f /\ f[j].eoi < e.eoi
  BY <1>3, <1>4
<1>8. ASSUME NEW j \in DOMAIN g
      PROVE  /\ g[j].ess = j /\ g[j].eoi =< now.order_index
             /\ \A m \in 1 .. j - 1 : g[m].eoi < g[j].eoi
  <2>1. j \in DOMAIN f /\ g[j] = f[j] BY <1>4
  <2>2. \A m \in 1 .. j - 1 : g[m] = f[m] BY <1>4
  <2> QED BY <1>2, <1>3, <2>1, <2>2
<1>9. ASSUME NEW n \in DOMAIN k
      PROVE  /\ k[n].eoi =< now.order_index
             /\ k[n].ess = 1 + Cardinality(Outside(k, n)) + Cardinality(Around(g, k[n].eoi))
  <2>1. CASE n = Len(r) + 1
    <3>1. k[n] = e BY <1>5, <2>1
    <3>2. Outside(k, n) = {} BY <1>5, <2>1 DEF Outside
    <3>3. Cardinality(Outside(k, n)) = 0 BY <3>2, FS_EmptySet
    <3>4. Around(g, e.eoi) = 1 .. z - 1 BY <1>4, <1>7 DEF Around
    <3>5. Cardinality(1 .. z - 1) = z - 1
      <4>1. 1 \in Int /\ z - 1 \in Int BY <1>4
      <4>2. Cardinality(1 .. z - 1) = IF 1 > z - 1 THEN 0 ELSE (z - 1) - 1 + 1
        BY <4>1, FS_Interval
      <4> QED BY <1>4, <4>2
    <3> QED BY <1>2, <1>4, <1>7, <3>1, <3>3, <3>4, <3>5
  <2>2. CASE n # Len(r) + 1
    <3>1. n \in DOMAIN r /\ k[n] = r[n] BY <1>5, <2>2
    <3> DEFINE eoi == r[n].eoi
    <3>2. /\ IsFiniteSet(Outside(r, n)) /\ Cardinality(Outside(r, n)) \in Nat
          /\ IsFiniteSet(Around(g, eoi)) /\ Cardinality(Around(g, eoi)) \in Nat
      BY <1>3, <1>4, FewAround
    <3>3. CASE e.eoi < eoi
      <4>1. Outside(k, n) = Outside(r, n) \cup {Len(r) + 1}
        BY <1>5, <3>1, <3>3 DEF Outside
      <4>2. Len(r) + 1 \notin Outside(r, n) BY <1>5 DEF Outside
      <4>3. Cardinality(Outside(k, n)) = Cardinality(Outside(r, n)) + 1
        BY <3>2, <4>1, <4>2, FS_AddElement
      <4>4. Around(f, eoi) = Around(g, eoi) \cup {z} BY <1>4, <1>7, <3>3 DEF Around
      <4>5. z \notin Around(g, eoi) BY <1>4 DEF Around
      <4>6. Cardinality(Around(f, eoi)) = Cardinality(Around(g, eoi)) + 1
        BY <3>2, <4>4, <4>5, FS_AddElement
      <4>7. r[n].ess = 1 + Cardinality(Outside(r, n)) + Cardinality(Around(f, eoi))
        BY <1>3, <3>1
      <4> QED BY <1>2, <1>3, <3>1, <3>2, <4>3, <4>6, <4>7
    <3>4. CASE ~(e.eoi < eoi)
      <4>1. Outside(k, n) = Outside(r, n) BY <1>5, <3>1, <3>4 DEF Outside
      <4>2. Around(f, eoi) = Around(g, eoi) BY <1>4, <1>7, <3>4 DEF Around
      <4> QED BY <1>2, <1>3, <3>1, <4>1, <4>2
    <3> QED BY <3>3, <3>4
  <2> QED BY <2>1, <2>2
<1>10. now.stack = Len(g) BY <1>2, <1>3, <1>4
<1>11. FlowFits(now, g, k) BY <1>1, <1>4, <1>5, <1>8, <1>9, <1>10 DEF FlowFits
<1> QED BY <1>11 DEF k, g, e

\* A step of one thread under the control flow aspect.
LEMMA FlowMoves ==
  ASSUME FlowInv, UNCHANGED <<aspect, thrown>>, NEW t \in Thread, NEW tr, NEW f, NEW r,
         DOMAIN trace = Thread, DOMAIN frames = Thread,
         trace' = [trace EXCEPT ![t] = tr], frames' = [frames EXCEPT ![t] = f],
         finished' = [finished EXCEPT ![t] = r], r \in Seq(Frame),
         aspect = "controlflow", t \notin thrown => FlowFits(tr, f, r)
  PROVE  FlowInv'
<1>1. finished \in [Thread -> Seq(Frame)] BY DEF FlowInv
<1>2. finished' \in [Thread -> Seq(Frame)] BY <1>1
<1>3. ASSUME aspect = "controlflow", NEW u \in Thread \ thrown
      PROVE  FlowFits(trace'[u], frames'[u], finished'[u])
  <2>1. CASE u = t
    <3>1. trace'[u] = tr /\ frames'[u] = f /\ finished'[u] = r /\ t \notin thrown BY <1>1, <2>1
    <3> QED BY <3>1
  <2>2. CASE u # t
    <3>1. trace'[u] = trace[u] /\ frames'[u] = frames[u] /\ finished'[u] = finished[u]
      BY <1>1, <2>2
    <3>2. FlowFits(trace[u], frames[u], finished[u]) BY <1>3 DEF FlowInv
    <3> QED BY <3>1, <3>2
  <2> QED BY <2>1, <2>2
<1>4. aspect' = aspect /\ thrown' = thrown OBVIOUS
<1>5. aspect' = "controlflow" =>
        \A u \in Thread \ thrown' : FlowFits(trace'[u], frames'[u], finished'[u])
  BY <1>3, <1>4
<1>6. FlowInv' <=> /\ finished' \in [Thread -> Seq(Frame)]
                   /\ aspect' = "event" => \A u \in Thread : finished'[u] = <<>>
                   /\ aspect' = "controlflow" =>
                        \A u \in Thread \ thrown' : FlowFits(trace'[u], frames'[u], finished'[u])
  BY DEF FlowInv, FlowFits
<1> QED BY <1>2, <1>4, <1>5, <1>6

\* The control flow aspect before an operation.
LEMMA FlowBeforeTells ==
  ASSUME ProbesInv, FlowInv, NEW t \in Thread, NEW class \in Class, FlowBefore(t, class)
  PROVE  FlowInv'
<1> DEFINE got == Got(t)
           counted == [trace_id |-> got.trace_id, order_index |-> got.order_index + 1,
                       stack |-> got.stack + 1]
           g == [class |-> class, trace |-> counted.trace_id,
                 eoi |-> counted.order_index, ess |-> counted.stack]
           f == Append(frames[t], g)
<1>1. /\ load = "done" /\ aspect = "controlflow" /\ NextId(t)
      /\ UNCHANGED <<aspect, thrown, finished>>
  BY DEF FlowBefore, Running
<1>2. /\ TypeInv /\ DOMAIN trace = Thread /\ DOMAIN frames = Thread
      /\ finished \in [Thread -> Seq(Frame)]
  BY DEF ProbesInv, TypeInv, FlowInv
<1>3. got \in Object BY <1>1, GotObject
<1>4. [[got EXCEPT !.order_index = @ + 1] EXCEPT !.stack = @ + 1] = counted
  BY <1>3, Counted
<1>5. trace' = [trace EXCEPT ![t] = counted] /\ frames' = [frames EXCEPT ![t] = f]
  BY <1>4 DEF FlowBefore
<1>6. finished' = [finished EXCEPT ![t] = finished[t]] BY <1>1, <1>2
<1>7. ASSUME t \notin thrown PROVE FlowFits(got, frames[t], finished[t])
  <2>1. FlowFits(trace[t], frames[t], finished[t]) BY <1>1, <1>7 DEF FlowInv
  <2>2. CASE trace[t] # NoTrace BY <2>1, <2>2 DEF Got
  <2>3. CASE trace[t] = NoTrace
    <3>1. got.stack = 0 BY <2>3 DEF Got
    <3>2. frames[t] = <<>> BY <2>3 DEF ProbesInv, TraceInv
    <3>3. finished[t] = <<>> BY <2>1, <2>3 DEF FlowFits
    <3>4. frames[t] \in Seq(FlowRecord) /\ finished[t] \in Seq(FlowRecord)
          /\ Len(frames[t]) = 0 /\ DOMAIN frames[t] = {} /\ DOMAIN finished[t] = {}
      BY <3>2, <3>3
    <3> HIDE DEF got
    <3> QED BY <3>1, <3>3, <3>4 DEF FlowFits
  <2> QED BY <2>2, <2>3
<1> HIDE DEF got
<1>8. counted \in Object BY <1>3 DEF Object
<1>9. t \notin thrown => FlowFits(counted, f, finished[t])
  <2> HIDE DEF counted
  <2>1. counted = [trace_id |-> got.trace_id, order_index |-> got.order_index + 1,
                   stack |-> got.stack + 1]
    BY DEF counted
  <2> QED BY <1>3, <1>7, <1>8, <2>1, FlowEnters
<1>10. finished[t] \in Seq(Frame) BY <1>2
<1> HIDE DEF counted, f
<1> QED BY <1>1, <1>2, <1>5, <1>6, <1>9, <1>10, FlowMoves

\* The control flow aspect after an operation.
LEMMA FlowAfterTells ==
  ASSUME ProbesInv, FlowInv, NEW t \in Thread, FlowAfter(t)
  PROVE  FlowInv'
<1> DEFINE tr == trace[t]
           left == [trace_id |-> tr.trace_id, order_index |-> tr.order_index,
                    stack |-> tr.stack - 1]
           r == Append(finished[t], Last(frames[t]))
<1>1. /\ aspect = "controlflow" /\ frames[t] # <<>> /\ UNCHANGED <<aspect, thrown>>
      /\ frames' = [frames EXCEPT ![t] = Front(frames[t])]
      /\ finished' = [finished EXCEPT ![t] = r]
  BY DEF FlowAfter, Running
<1>2. /\ TypeInv /\ DOMAIN trace = Thread /\ DOMAIN frames = Thread
      /\ finished[t] \in Seq(Frame)
  BY DEF ProbesInv, TypeInv, FlowInv
<1>3. /\ tr \in Object /\ tr.trace_id \in Nat /\ tr.order_index \in Nat \cup {-1} /\ tr.stack \in Nat
      /\ frames[t] \in Seq(Frame) /\ Fits(tr, frames[t])
  BY <1>1, InsideHasObject
<1>4. [tr EXCEPT !.stack = @ - 1] = left BY <1>3, Counted
<1>5. EndOfTrace(t, left) BY <1>4 DEF FlowAfter
<1>6. t \notin thrown => FlowFits(tr, frames[t], finished[t]) BY <1>1 DEF FlowInv
<1> HIDE DEF tr
<1>7. left \in Object /\ tr.stack - 1 >= 0 /\ Last(frames[t]) \in Frame
  <2>1. tr.order_index >= tr.order_index BY <1>3
  <2> QED BY <1>1, <1>3, <2>1, Leaving
<1>8. left.stack = tr.stack - 1 OBVIOUS
<1>9. left = [trace_id |-> tr.trace_id, order_index |-> tr.order_index, stack |-> tr.stack - 1]
  OBVIOUS
<1>10. r \in Seq(Frame) BY <1>2, <1>7
<1> HIDE DEF left
<1>11. trace' = [trace EXCEPT ![t] = left]
  <2>1. left.stack # -1 BY <1>3, <1>7, <1>8
  <2> QED BY <1>5, <2>1 DEF EndOfTrace
<1>12. t \notin thrown => FlowFits(left, Front(frames[t]), r)
  BY <1>1, <1>3, <1>6, <1>7, <1>9, FlowLeaves
<1> HIDE DEF r
<1> QED BY <1>1, <1>2, <1>10, <1>11, <1>12, FlowMoves

\* A step that leaves traces and records alone, and the operations of all threads but
\* those an exception passes.
LEMMA FlowStays ==
  ASSUME FlowInv, UNCHANGED <<aspect, trace, finished>>, thrown \subseteq thrown',
         \A u \in Thread \ thrown' : frames'[u] = frames[u]
  PROVE  FlowInv'
<1>1. FlowInv' <=> /\ finished' \in [Thread -> Seq(Frame)]
                   /\ aspect' = "event" => \A u \in Thread : finished'[u] = <<>>
                   /\ aspect' = "controlflow" =>
                        \A u \in Thread \ thrown' : FlowFits(trace'[u], frames'[u], finished'[u])
  BY DEF FlowInv, FlowFits
<1>2. aspect = "controlflow" =>
        \A u \in Thread \ thrown : FlowFits(trace[u], frames[u], finished[u])
  BY DEF FlowInv
<1>3. \A u \in Thread \ thrown' : u \notin thrown OBVIOUS
<1> QED BY <1>1, <1>2, <1>3 DEF FlowInv

\* Every step keeps what the operation records tell.
LEMMA FlowStep == ProbesInv /\ FlowInv /\ [Next]_vars => FlowInv'
<1> SUFFICES ASSUME ProbesInv, FlowInv, [Next]_vars PROVE FlowInv'
  OBVIOUS
<1>1. CASE Load \/ Start
  <2>1. UNCHANGED aspect_vars BY <1>1 DEF Load, Start
  <2> QED BY <2>1, FlowStays DEF aspect_vars, program_vars
<1>2. CASE \E t \in Thread : ThreadStep(t)
  <2>1. PICK t \in Thread : ThreadStep(t) BY <1>2
  <2>2. CASE \E class \in Class : FlowBefore(t, class) BY <2>2, FlowBeforeTells
  <2>3. CASE FlowAfter(t) BY <2>3, FlowAfterTells
  <2>4. CASE (\E class \in Class : EventBefore(t, class)) \/ EventAfter(t)
    <3>1. aspect = "event" /\ aspect' = aspect /\ finished' = finished
      BY <2>4 DEF EventBefore, EventAfter, Running
    <3> QED BY <3>1 DEF FlowInv
  <2>5. CASE Throw(t)
    <3>1. /\ UNCHANGED <<aspect, trace, finished>> /\ thrown' = thrown \cup {t}
          /\ frames' = [frames EXCEPT ![t] = Front(frames[t])]
      BY <2>5 DEF Throw, Running
    <3>2. \A u \in Thread \ thrown' : frames'[u] = frames[u]
      BY <3>1 DEF ProbesInv, TypeInv
    <3> QED BY <3>1, <3>2, FlowStays
  <2> QED BY <2>1, <2>2, <2>3, <2>4, <2>5 DEF ThreadStep
<1>3. CASE UNCHANGED vars
  <2>1. UNCHANGED aspect_vars BY <1>3 DEF vars
  <2> QED BY <2>1, FlowStays DEF aspect_vars, program_vars
<1> QED BY <1>1, <1>2, <1>3 DEF Next, Over

\* The invariant of the operation records holds, for any nesting and number of operations.
THEOREM FlowCorrect == Spec => []FlowInv
<1>1. Init => FlowInv
  <2> SUFFICES ASSUME Init PROVE FlowInv OBVIOUS
  <2>1. \A t \in Thread : trace[t] = NoTrace /\ frames[t] = <<>> /\ finished[t] = <<>>
    BY DEF Init
  <2>2. <<>> \in Seq(FlowRecord) /\ <<>> \in Seq(Frame) OBVIOUS
  <2>3. finished \in [Thread -> Seq(Frame)] BY <2>2 DEF Init
  <2>4. FlowFits(NoTrace, <<>>, <<>>) BY <2>2 DEF FlowFits
  <2> QED BY <2>1, <2>3, <2>4 DEF FlowInv
<1> QED BY <1>1, FlowStep, ProbesCorrect, PTL DEF Spec

\* Once a thread no exception has passed is outside of all operations, the execution
\* stack size of each of its operation records is one more than the number of records
\* that the indexes of entry and the order of the records put around it.
THEOREM CallTreeTold == Spec => []FlowTellsCallTree
<1>1. ProbesInv /\ FlowInv => FlowTellsCallTree
  <2> SUFFICES ASSUME ProbesInv, FlowInv,
                      NEW t \in Thread \ thrown, frames[t] = <<>>, NEW n \in DOMAIN finished[t]
               PROVE  finished[t][n].ess = 1 + Cardinality(Outside(finished[t], n))
    BY DEF FlowTellsCallTree
  <2>1. CASE aspect = "controlflow"
    <3>1. FlowFits(trace[t], frames[t], finished[t]) BY <2>1 DEF FlowInv
    <3>2. trace[t] # NoTrace BY <3>1 DEF FlowFits
    <3>3. /\ finished[t] \in Seq(FlowRecord)
          /\ finished[t][n].ess = 1 + Cardinality(Outside(finished[t], n))
                                    + Cardinality(Around(frames[t], finished[t][n].eoi))
      BY <3>1, <3>2 DEF FlowFits
    <3>4. Around(frames[t], finished[t][n].eoi) = {} BY DEF Around
    <3>5. Cardinality(Outside(finished[t], n)) \in Nat
      <4>1. <<>> \in Seq(FlowRecord) OBVIOUS
      <4> QED BY <3>3, <4>1, FewAround
    <3>6. Cardinality(Around(frames[t], finished[t][n].eoi)) = 0 BY <3>4, FS_EmptySet
    <3> DEFINE c == Cardinality(Outside(finished[t], n))
    <3>7. finished[t][n].ess = 1 + c + 0 /\ c \in Nat BY <3>3, <3>5, <3>6
    <3> HIDE DEF c
    <3>8. finished[t][n].ess = 1 + c BY <3>7
    <3> QED BY <3>8 DEF c
  <2>2. CASE aspect # "controlflow"
    <3>1. finished[t] = <<>> BY <2>2 DEF ProbesInv, TypeInv, FlowInv
    <3>2. DOMAIN finished[t] = {} BY <3>1
    <3> QED BY <3>2
  <2> QED BY <2>1, <2>2
<1> QED BY <1>1, ProbesCorrect, FlowCorrect, PTL

-----------------------------------------------------------------------------
(***************************************************************************)
(* Adaptive monitoring: the loader takes the lists that fit and no others, *)
(* and the binary search in the sorted array answers for each class what   *)
(* the list says.                                                          *)
(*                                                                         *)
(* ListInv is inductive together with AdaptiveInv, which ProbesInv holds.  *)
(* While the list is read, a bijection takes the cells of the array to the *)
(* entries read; the sort is another bijection; and the search is a        *)
(* recursion over ranges of cells, of which induction over their length    *)
(* shows what it computes.                                                 *)
(***************************************************************************)

-----------------------------------------------------------------------------
(* Bijections.                                                              *)

\* What a bijection is.
LEMMA OneToOne ==
  ASSUME NEW S, NEW T, NEW f \in Bijection(S, T)
  PROVE  /\ f \in [S -> T]
         /\ \A x, y \in S : f[x] = f[y] => x = y
         /\ \A y \in T : \E x \in S : f[x] = y
BY DEF Bijection, Injection, Surjection, IsInjective

\* And what suffices for one.
LEMMA IsOneToOne ==
  ASSUME NEW S, NEW T, NEW f \in [S -> T],
         \A x, y \in S : f[x] = f[y] => x = y,
         \A y \in T : \E x \in S : f[x] = y
  PROVE  f \in Bijection(S, T)
BY DEF Bijection, Injection, Surjection, IsInjective

-----------------------------------------------------------------------------
(* Sorting.                                                                 *)

\* p tells where each of the first n cells gets its value, so that they ascend.
Sorts(h, n, p) ==
  /\ p \in Bijection(Cells(n), Cells(n))
  /\ \A k \in 1 .. n - 1 : h[p[k - 1]] <= h[p[k]]

\* One more cell is put before the first one that is greater.
LEMMA InsertCell ==
  ASSUME NEW n \in Nat, NEW h, \A k \in 0 .. n : h[k] \in Nat, NEW p, Sorts(h, n, p)
  PROVE  \E q : Sorts(h, n + 1, q)
<1>1. /\ p \in [0 .. n - 1 -> 0 .. n - 1]
      /\ \A a, b \in 0 .. n - 1 : a # b => p[a] # p[b]
      /\ \A b \in 0 .. n - 1 : \E a \in 0 .. n - 1 : p[a] = b
  <2>1. p \in Bijection(Cells(n), Cells(n)) BY DEF Sorts
  <2>2. /\ p \in [Cells(n) -> Cells(n)]
        /\ \A a, b \in Cells(n) : p[a] = p[b] => a = b
        /\ \A b \in Cells(n) : \E a \in Cells(n) : p[a] = b
    BY <2>1, OneToOne
  <2> QED BY <2>2 DEF Cells
<1> DEFINE Behind == {k \in 0 .. n : k = n \/ h[n] < h[p[k]]}
<1>2. PICK place \in Behind : \A k \in Behind : place <= k
  <2>1. Behind \in SUBSET Nat /\ n \in Behind OBVIOUS
  <2> HIDE DEF Behind
  <2> QED BY <2>1, LeastNumber
<1>3. /\ place \in 0 .. n /\ (place # n => h[n] < h[p[place]])
      /\ \A k \in 0 .. n - 1 : k < place => h[p[k]] <= h[n]
  <2>1. place \in 0 .. n /\ (place # n => h[n] < h[p[place]]) BY <1>2
  <2>2. ASSUME NEW k \in 0 .. n - 1, k < place PROVE h[p[k]] <= h[n]
    <3>1. k \notin Behind BY <1>2, <2>1, <2>2
    <3>2. k \in 0 .. n /\ k # n /\ p[k] \in 0 .. n BY <1>1
    <3>3. ~(h[n] < h[p[k]]) BY <3>1, <3>2
    <3> HIDE DEF Behind
    <3> QED BY <3>2, <3>3
  <2> QED BY <2>1, <2>2
<1> HIDE DEF Behind
<1> DEFINE q == [k \in 0 .. n |-> IF k < place THEN p[k] ELSE IF k = place THEN n ELSE p[k - 1]]
<1>4. \A k \in 0 .. n : /\ k < place => k \in 0 .. n - 1 /\ q[k] = p[k]
                        /\ k = place => q[k] = n
                        /\ k > place => k - 1 \in 0 .. n - 1 /\ q[k] = p[k - 1]
  BY <1>3
<1>5. q \in [0 .. n -> 0 .. n]
  <2>1. \A k \in 0 .. n : q[k] \in 0 .. n
    <3> SUFFICES ASSUME NEW k \in 0 .. n PROVE q[k] \in 0 .. n OBVIOUS
    <3>1. \A a \in 0 .. n - 1 : p[a] \in 0 .. n BY <1>1
    <3> HIDE DEF q
    <3> QED BY <1>3, <1>4, <3>1
  <2> QED BY <2>1
<1> HIDE DEF q
<1>6. \A a, b \in 0 .. n : q[a] = q[b] => a = b
  <2>1. \A k \in 0 .. n - 1 : p[k] # n /\ p[k] \in 0 .. n - 1 BY <1>1
  <2>2. ASSUME NEW a \in 0 .. n, NEW b \in 0 .. n, a < b PROVE q[a] # q[b]
    <3>1. CASE b < place
      <4>1. a < place BY <1>3, <2>2, <3>1
      <4> QED BY <1>1, <1>4, <2>2, <3>1, <4>1
    <3>2. CASE b = place BY <1>4, <2>1, <2>2, <3>2
    <3>3. CASE b > place /\ a < place
      <4>1. a # b - 1 /\ a \in 0 .. n - 1 /\ b - 1 \in 0 .. n - 1 BY <1>3, <3>3
      <4> QED BY <1>1, <1>4, <3>3, <4>1
    <3>4. CASE b > place /\ a = place BY <1>4, <2>1, <3>4
    <3>5. CASE b > place /\ a > place
      <4>1. a - 1 # b - 1 /\ a - 1 \in 0 .. n - 1 /\ b - 1 \in 0 .. n - 1
        BY <1>3, <2>2, <3>5
      <4> QED BY <1>1, <1>4, <3>5, <4>1
    <3> QED BY <1>3, <3>1, <3>2, <3>3, <3>4, <3>5
  <2>3. ASSUME NEW a \in 0 .. n, NEW b \in 0 .. n, a # b PROVE a < b \/ b < a
    BY <2>3
  <2> QED BY <2>2, <2>3
<1>7. ASSUME NEW b \in 0 .. n PROVE \E a \in 0 .. n : q[a] = b
  <2>1. CASE b = n BY <1>3, <1>4, <2>1
  <2>2. CASE b # n
    <3>1. PICK a \in 0 .. n - 1 : p[a] = b
      <4>1. b \in 0 .. n - 1 BY <2>2
      <4> QED BY <1>1, <4>1
    <3>2. CASE a < place
      <4>1. a \in 0 .. n OBVIOUS
      <4> QED BY <1>4, <3>1, <3>2, <4>1
    <3>3. CASE a >= place
      <4>1. a + 1 \in 0 .. n /\ a + 1 > place /\ (a + 1) - 1 = a BY <1>3, <3>3
      <4> QED BY <1>4, <3>1, <4>1
    <3> QED BY <1>3, <3>2, <3>3
  <2> QED BY <2>1, <2>2
<1>8. ASSUME NEW k \in 1 .. n PROVE h[q[k - 1]] <= h[q[k]]
  <2>1. k - 1 \in 0 .. n /\ k \in 0 .. n /\ n \in Nat OBVIOUS
  <2>2. \A a \in 0 .. n - 1 : p[a] \in 0 .. n /\ h[p[a]] \in Nat BY <1>1
  <2>3. CASE k < place
    <3>1. k \in 1 .. n - 1 /\ k - 1 < place BY <1>3, <2>3
    <3> QED BY <1>4, <2>1, <2>3, <3>1 DEF Sorts
  <2>4. CASE k = place
    <3>1. k - 1 < place BY <2>4
    <3> QED BY <1>3, <1>4, <2>1, <2>4, <3>1
  <2>5. CASE k - 1 = place
    <3>1. k > place /\ place # n /\ q[k] = p[place] /\ q[k - 1] = n /\ place \in 0 .. n - 1
      BY <1>3, <1>4, <2>1, <2>5
    <3> QED BY <1>3, <2>2, <3>1
  <2>6. CASE k - 1 > place
    <3>1. k > place /\ k - 1 \in 1 .. n - 1 BY <1>3, <2>6
    <3>2. q[k] = p[k - 1] /\ q[k - 1] = p[(k - 1) - 1] BY <1>4, <2>1, <2>6, <3>1
    <3> QED BY <3>1, <3>2 DEF Sorts
  <2> QED BY <1>3, <2>3, <2>4, <2>5, <2>6
<1>9. Sorts(h, n + 1, q)
  <2>1. (n + 1) - 1 = n OBVIOUS
  <2>2. Cells(n + 1) = 0 .. n BY DEF Cells
  <2>3. q \in Bijection(Cells(n + 1), Cells(n + 1))
    <3>1. /\ q \in [Cells(n + 1) -> Cells(n + 1)]
          /\ \A a, b \in Cells(n + 1) : q[a] = q[b] => a = b
          /\ \A b \in Cells(n + 1) : \E a \in Cells(n + 1) : q[a] = b
      BY <1>5, <1>6, <1>7, <2>2
    <3> QED BY <3>1, IsOneToOne
  <2> QED BY <1>8, <2>1, <2>3 DEF Sorts
<1> QED BY <1>9

\* Any cells can be sorted.
LEMMA SortExists ==
  ASSUME NEW m \in Nat, NEW h, \A k \in 0 .. m - 1 : h[k] \in Nat
  PROVE  \E p : Sorts(h, m, p)
<1> DEFINE T == {n \in Nat : \E p : Sorts(h, n, p)}
<1>1. 0 \in T
  <2> DEFINE none == [k \in Cells(0) |-> k]
  <2>1. none \in Bijection(Cells(0), Cells(0))
    <3>1. none \in [Cells(0) -> Cells(0)] OBVIOUS
    <3>2. Cells(0) = {} BY DEF Cells
    <3> QED BY <3>1, <3>2, IsOneToOne
  <2>2. Sorts(h, 0, none) BY <2>1 DEF Sorts
  <2> QED BY <2>2
<1>2. ASSUME NEW n \in 1 .. m, n - 1 \in T PROVE n \in T
  <2>1. PICK p : Sorts(h, n - 1, p) BY <1>2
  <2>2. \A k \in 0 .. n - 1 : h[k] \in Nat OBVIOUS
  <2>3. \E q : Sorts(h, (n - 1) + 1, q)
    <3>1. n - 1 \in Nat OBVIOUS
    <3> QED BY <2>1, <2>2, <3>1, InsertCell
  <2>4. (n - 1) + 1 = n OBVIOUS
  <2> QED BY <2>3, <2>4
<1>3. 0 .. m \subseteq T
  <2> HIDE DEF T
  <2> QED BY <1>1, <1>2, InductionUpTo
<1> QED BY <1>3

\* qsort only moves the values of the cells, and leaves them in order.
LEMMA SortedCells ==
  ASSUME NEW m \in Nat, NEW h, 0 .. m - 1 \subseteq DOMAIN h, \A k \in 0 .. m - 1 : h[k] \in Nat
  PROVE  \E p \in Bijection(Cells(m), Cells(m)) :
           /\ \A k \in 0 .. m - 1 : Sorted(h, m)[k] = h[p[k]]
           /\ \A k \in 1 .. m - 1 : Sorted(h, m)[k - 1] <= Sorted(h, m)[k]
<1> DEFINE p == Ascending(h, m)
<1>1. \E q : Sorts(h, m, q) BY SortExists
<1>2. Sorts(h, m, p) BY <1>1 DEF Sorts, Ascending
<1>3. \A k \in 0 .. m - 1 : Sorted(h, m)[k] = h[p[k]] BY DEF Sorted
<1>4. \A k \in 1 .. m - 1 : k - 1 \in 0 .. m - 1 /\ k \in 0 .. m - 1 OBVIOUS
<1> HIDE DEF p
<1> QED BY <1>2, <1>3, <1>4 DEF Sorts

\* Cells that ascend from each to the next ascend from each to all behind it.
LEMMA AscendingFar ==
  ASSUME NEW m \in Nat, NEW h, \A k \in 0 .. m - 1 : h[k] \in Nat,
         \A k \in 1 .. m - 1 : h[k - 1] < h[k]
  PROVE  \A a, b \in 0 .. m - 1 : a < b => h[a] < h[b]
<1> DEFINE T == {n \in Nat : n < m => \A a \in 0 .. n - 1 : h[a] < h[n]}
<1>1. 0 \in T OBVIOUS
<1>2. ASSUME NEW n \in Nat, n \in T PROVE n + 1 \in T
  <2> SUFFICES ASSUME n + 1 < m, NEW a \in 0 .. n PROVE h[a] < h[n + 1] OBVIOUS
  <2>1. h[(n + 1) - 1] < h[n + 1] /\ (n + 1) - 1 = n
    <3>1. n + 1 \in 1 .. m - 1 OBVIOUS
    <3> QED BY <3>1
  <2>2. h[a] \in Nat /\ h[n] \in Nat /\ h[n + 1] \in Nat OBVIOUS
  <2>3. CASE a = n BY <2>1, <2>3
  <2>4. CASE a # n
    <3>1. h[a] < h[n] BY <1>2, <2>4
    <3> QED BY <2>1, <2>2, <3>1
  <2> QED BY <2>3, <2>4
<1>3. Nat \subseteq T
  <2> HIDE DEF T
  <2> QED BY <1>1, <1>2, InductionOnNat
<1> QED BY <1>3
-----------------------------------------------------------------------------
(* The binary search.                                                       *)

Ranges == (0 .. excludes_size) \X (0 .. excludes_size)

\* One round of the search for h, for a range of cells of which found tells the parts.
Round(h, found, low, high) ==
  LET middle == (low + high) \div 2
  IN  /\ low < high
      /\ \/ h = hashes[middle]
         \/ h < hashes[middle] /\ found[<<low, middle>>]
         \/ h > hashes[middle] /\ found[<<middle + 1, high>>]

HasHash(h, low, high) == \E k \in 0 .. excludes_size - 1 : low <= k /\ k < high /\ hashes[k] = h

\* The cells ascend, so that those before and behind one are smaller and greater.
TableAscends ==
  /\ excludes_size \in Nat
  /\ \A k \in 0 .. excludes_size - 1 : hashes[k] \in Nat
  /\ \A k \in 1 .. excludes_size - 1 : hashes[k - 1] < hashes[k]

\* A range has the hash if the middle has it, or the part the round goes on with.
LEMMA PartsTell ==
  ASSUME TableAscends, NEW h \in Nat, NEW low \in 0 .. excludes_size, NEW high \in 0 .. excludes_size,
         NEW middle \in 0 .. excludes_size - 1, low <= middle, middle < high
  PROVE  /\ hashes[middle] \in Nat
         /\ HasHash(h, low, high) <=>
              \/ h = hashes[middle]
              \/ h < hashes[middle] /\ HasHash(h, low, middle)
              \/ h > hashes[middle] /\ HasHash(h, middle + 1, high)
<1>1. excludes_size \in Nat BY DEF TableAscends
<1>2. \A a, b \in 0 .. excludes_size - 1 : a < b => hashes[a] < hashes[b]
  BY AscendingFar DEF TableAscends
<1>3. hashes[middle] \in Nat BY <1>1 DEF TableAscends
<1>4. ASSUME HasHash(h, low, high)
      PROVE  \/ h = hashes[middle]
             \/ h < hashes[middle] /\ HasHash(h, low, middle)
             \/ h > hashes[middle] /\ HasHash(h, middle + 1, high)
  <2>1. PICK k \in 0 .. excludes_size - 1 : low <= k /\ k < high /\ hashes[k] = h
    BY <1>4 DEF HasHash
  <2>2. CASE k = middle BY <2>1, <2>2
  <2>3. CASE k < middle BY <1>1, <1>2, <2>1, <2>3 DEF HasHash
  <2>4. CASE k > middle
    <3>1. middle + 1 <= k BY <1>1, <2>4
    <3> QED BY <1>1, <1>2, <2>1, <2>4, <3>1 DEF HasHash
  <2> QED BY <1>1, <2>2, <2>3, <2>4
<1>5. h = hashes[middle] => HasHash(h, low, high) BY <1>1 DEF HasHash
<1>6. HasHash(h, low, middle) => HasHash(h, low, high) BY <1>1 DEF HasHash
<1>7. HasHash(h, middle + 1, high) => HasHash(h, low, high) BY <1>1 DEF HasHash
<1> QED BY <1>1, <1>3, <1>4, <1>5, <1>6, <1>7

\* One more round tells of a range what the rounds before tell of its parts.
LEMMA RoundTells ==
  ASSUME TableAscends, NEW h \in Nat, NEW found, NEW n \in Nat,
         NEW low \in 0 .. excludes_size, NEW high \in 0 .. excludes_size, high - low <= n + 1,
         \A a, b \in 0 .. excludes_size : b - a <= n => (found[<<a, b>>] <=> HasHash(h, a, b))
  PROVE  HasHash(h, low, high) <=> Round(h, found, low, high)
<1>1. CASE ~(low < high)
  <2>1. ~HasHash(h, low, high) BY <1>1 DEF HasHash, TableAscends
  <2>2. ~Round(h, found, low, high) BY <1>1 DEF Round
  <2> QED BY <2>1, <2>2
<1>2. CASE low < high
  <2>1. PICK middle \in 0 .. excludes_size - 1 :
          middle = (low + high) \div 2 /\ low <= middle /\ middle < high
    BY <1>2 DEF TableAscends
  <2>2. HasHash(h, low, high) <=>
          \/ h = hashes[middle]
          \/ h < hashes[middle] /\ HasHash(h, low, middle)
          \/ h > hashes[middle] /\ HasHash(h, middle + 1, high)
    BY <2>1, PartsTell
  <2>3. /\ middle - low <= n /\ high - (middle + 1) <= n
        /\ middle \in 0 .. excludes_size /\ middle + 1 \in 0 .. excludes_size
    BY <2>1 DEF TableAscends
  <2>4. /\ found[<<low, middle>>] <=> HasHash(h, low, middle)
        /\ found[<<middle + 1, high>>] <=> HasHash(h, middle + 1, high)
    BY <2>3
  <2> QED BY <1>2, <2>1, <2>2, <2>4 DEF Round
<1> QED BY <1>1, <1>2

\* The recursion of the search has a solution, so that the search is one.
LEMMA SearchExists ==
  ASSUME TableAscends, NEW h \in Nat
  PROVE  \E found : found = [range \in Ranges |-> Round(h, found, range[1], range[2])]
<1> DEFINE answer == [range \in Ranges |-> HasHash(h, range[1], range[2])]
<1>1. \A low, high \in 0 .. excludes_size :
        answer[<<low, high>>] <=> HasHash(h, low, high)
  BY DEF Ranges
<1>2. ASSUME NEW low \in 0 .. excludes_size, NEW high \in 0 .. excludes_size
      PROVE  HasHash(h, low, high) <=> Round(h, answer, low, high)
  <2> HIDE DEF answer
  <2>1. excludes_size \in Nat /\ high - low <= excludes_size + 1 BY DEF TableAscends
  <2> QED BY <1>1, <2>1, RoundTells
<1>3. answer = [range \in Ranges |-> Round(h, answer, range[1], range[2])]
  <2>1. \A range \in Ranges :
          HasHash(h, range[1], range[2]) <=> Round(h, answer, range[1], range[2])
    <3> HIDE DEF answer
    <3> QED BY <1>2 DEF Ranges
  <2>2. \A range \in Ranges :
          HasHash(h, range[1], range[2]) = Round(h, answer, range[1], range[2])
    <3> HIDE DEF answer
    <3> QED BY <2>1 DEF HasHash, Round
  <2> QED BY <2>2, Zenon
<1> QED BY <1>3

\* Whatever satisfies the recursion tells of each range whether it has the hash.
LEMMA RoundsTell ==
  ASSUME TableAscends, NEW h \in Nat, NEW found,
         \A low, high \in 0 .. excludes_size :
           found[<<low, high>>] <=> Round(h, found, low, high)
  PROVE  \A low, high \in 0 .. excludes_size : found[<<low, high>>] <=> HasHash(h, low, high)
<1> DEFINE T == {n \in Nat : \A low, high \in 0 .. excludes_size :
                   high - low <= n => (found[<<low, high>>] <=> HasHash(h, low, high))}
<1>1. ASSUME NEW low \in 0 .. excludes_size, NEW high \in 0 .. excludes_size
      PROVE  high - low <= 0 => (found[<<low, high>>] <=> HasHash(h, low, high))
  <2> SUFFICES ASSUME high - low <= 0 PROVE found[<<low, high>>] <=> HasHash(h, low, high)
    OBVIOUS
  <2>1. ~(low < high) BY DEF TableAscends
  <2>2. ~HasHash(h, low, high) BY <2>1 DEF HasHash, TableAscends
  <2>3. ~Round(h, found, low, high) BY <2>1 DEF Round
  <2> QED BY <2>2, <2>3
<1>2. 0 \in T BY <1>1
<1>3. ASSUME NEW n \in Nat, n \in T PROVE n + 1 \in T
  <2> SUFFICES ASSUME NEW low \in 0 .. excludes_size, NEW high \in 0 .. excludes_size,
                      high - low <= n + 1
               PROVE  found[<<low, high>>] <=> HasHash(h, low, high)
    OBVIOUS
  <2>1. HasHash(h, low, high) <=> Round(h, found, low, high) BY <1>3, RoundTells
  <2>2. found[<<low, high>>] <=> Round(h, found, low, high) OBVIOUS
  <2> QED BY <2>1, <2>2
<1>4. Nat \subseteq T
  <2> HIDE DEF T
  <2> QED BY <1>2, <1>3, InductionOnNat
<1>5. \A low, high \in 0 .. excludes_size : high - low <= excludes_size BY DEF TableAscends
<1>6. excludes_size \in T BY <1>4 DEF TableAscends
<1> QED BY <1>5, <1>6

\* bsearch finds a hash if and only if a cell holds it.
LEMMA SearchTells ==
  ASSUME TableAscends, NEW h \in Nat
  PROVE  Search(h) <=> \E k \in Cells(excludes_size) : hashes[k] = h
<1> DEFINE found == CHOOSE found : found = [range \in Ranges |-> Round(h, found, range[1], range[2])]
<1>1. Search(h) = found[<<0, excludes_size>>] BY DEF Search, Ranges, Round
<1>2. found = [range \in Ranges |-> Round(h, found, range[1], range[2])]
  BY SearchExists
<1> HIDE DEF found
<1>3. \A low, high \in 0 .. excludes_size :
        found[<<low, high>>] <=> Round(h, found, low, high)
  <2> SUFFICES ASSUME NEW low \in 0 .. excludes_size, NEW high \in 0 .. excludes_size
               PROVE  found[<<low, high>>] <=> Round(h, found, low, high)
    OBVIOUS
  <2>1. <<low, high>> \in Ranges BY DEF Ranges
  <2>2. found[<<low, high>>] = Round(h, found, <<low, high>>[1], <<low, high>>[2])
    BY <1>2, <2>1
  <2> QED BY <2>2
<1>4. 0 \in 0 .. excludes_size /\ excludes_size \in 0 .. excludes_size BY DEF TableAscends
<1>5. found[<<0, excludes_size>>] <=> HasHash(h, 0, excludes_size) BY <1>3, <1>4, RoundsTell
<1>6. HasHash(h, 0, excludes_size) <=> \E k \in Cells(excludes_size) : hashes[k] = h
  BY DEF HasHash, Cells, TableAscends
<1> QED BY <1>1, <1>5, <1>6
-----------------------------------------------------------------------------
(* The loader.                                                              *)

EntriesUpTo(n) == {m \in Entries : m <= n}

\* The array holds the hashes of the entries read so far, in their order of arrival.
Holds(entry) ==
  /\ entry \in Bijection(Cells(i), EntriesUpTo(line))
  /\ \A k \in Cells(i) : hashes[k] = HashOf(entry[k])

\* A header that is not refused is compared as it stands in the file.
LEMMA AcceptedHeader ==
  ASSUME NEW h, HeaderText(h) # Blank PROVE HeaderText(h) = h.text
BY DEF HeaderText

\* A step that keeps the file keeps what it says.
LEMMA FileStays ==
  ASSUME file' = file
  PROVE  /\ Entries' = Entries /\ HeaderMode' = HeaderMode
         /\ \A n : HashOf(n)' = HashOf(n)
         /\ \A n : EntriesUpTo(n)' = EntriesUpTo(n)
BY DEF Entries, HeaderMode, HashOf, EntriesUpTo

\* The entries of a list are finitely many of its lines, each with a hash.
LEMMA EntryFacts ==
  ASSUME file \in Content
  PROVE  /\ Len(file.lines) \in Nat /\ Entries \subseteq 1 .. Len(file.lines)
         /\ \A n \in Entries : HashOf(n) \in Nat
         /\ IsFiniteSet(Entries) /\ Cardinality(Entries) \in Nat
<1>1. file.lines \in Seq(Line) BY DEF Content
<1>2. Len(file.lines) \in Nat /\ DOMAIN file.lines = 1 .. Len(file.lines) BY <1>1
<1>3. Entries \subseteq 1 .. Len(file.lines) BY <1>2 DEF Entries
<1>4. ASSUME NEW n \in Entries PROVE HashOf(n) \in Nat
  <2>1. n \in DOMAIN file.lines /\ IsEntry(file.lines[n]) BY DEF Entries
  <2>2. file.lines[n] \in Line BY <1>1, <2>1
  <2>3. file.lines[n].white \in BOOLEAN /\ file.lines[n].text \in Class \cup {Comment}
    BY <2>1, <2>2 DEF Line, IsEntry
  <2> QED BY <2>3, HashAssumption DEF HashOf
<1>5. IsFiniteSet(1 .. Len(file.lines))
  <2>1. 1 \in Int /\ Len(file.lines) \in Int BY <1>2
  <2> QED BY <2>1, FS_Interval
<1>6. IsFiniteSet(Entries) BY <1>3, <1>5, FS_Subset
<1> QED BY <1>2, <1>3, <1>4, <1>6, FS_CardinalityType

\* As many hashes are in the array as entries were read.
LEMMA EntriesCounted ==
  ASSUME file \in Content, line \in 0 .. Len(file.lines), i \in Nat, NEW entry, Holds(entry)
  PROVE  Cardinality(EntriesUpTo(line)) = i /\ i <= Cardinality(Entries)
<1>1. entry \in Bijection(Cells(i), EntriesUpTo(line)) BY DEF Holds
<1>2. IsFiniteSet(Cells(i)) /\ Cardinality(Cells(i)) = i
  <2>1. Cells(i) = 0 .. i - 1 /\ i - 1 \in Int /\ 0 \in Int BY DEF Cells
  <2>2. IsFiniteSet(0 .. i - 1) /\ Cardinality(0 .. i - 1) = IF 0 > i - 1 THEN 0 ELSE (i - 1) - 0 + 1
    BY <2>1, FS_Interval
  <2> QED BY <2>1, <2>2
<1>3. Cardinality(EntriesUpTo(line)) = i
  <2>1. ExistsBijection(Cells(i), EntriesUpTo(line)) BY <1>1 DEF ExistsBijection
  <2> QED BY <1>2, <2>1, FS_Bijection
<1>4. Cardinality(EntriesUpTo(line)) <= Cardinality(Entries)
  BY EntryFacts, FS_Subset DEF EntriesUpTo
<1> QED BY <1>3, <1>4

\* The list with the next entry, if the line is one.
LEMMA NextLine ==
  ASSUME file \in Content, line \in 0 .. Len(file.lines) - 1
  PROVE  /\ line + 1 \in DOMAIN file.lines
         /\ EntriesUpTo(line + 1) =
              IF IsEntry(file.lines[line + 1]) THEN EntriesUpTo(line) \cup {line + 1}
              ELSE EntriesUpTo(line)
         /\ line + 1 \notin EntriesUpTo(line)
<1>1. file.lines \in Seq(Line) BY DEF Content
<1>2. DOMAIN file.lines = 1 .. Len(file.lines) /\ Len(file.lines) \in Nat BY <1>1
<1>3. line + 1 \in DOMAIN file.lines /\ line \in Nat BY <1>2
<1>4. line + 1 \notin EntriesUpTo(line) BY <1>3 DEF EntriesUpTo
<1>5. \A m \in DOMAIN file.lines : m <= line + 1 <=> m <= line \/ m = line + 1 BY <1>2, <1>3
<1> QED BY <1>3, <1>4, <1>5 DEF EntriesUpTo, Entries

\* Opening the list and reading its header.
LEMMA ListOpens ==
  ASSUME AdaptiveInv, ListInv, OpenList PROVE ListInv'
<1>1. /\ load = "open" /\ file' = file /\ line' = line /\ i' = i
      /\ file \in Content /\ line = 0 /\ i = 0 /\ Len(file.lines) \in Nat
  BY EntryFacts DEF OpenList, ListInv
<1>2. \/ file.kind = "absent" /\ load' = "loaded" /\ result' = -1
      \/ file.kind = "empty" /\ load' = "loaded" /\ result' = -2
      \/ /\ file.kind = "list" /\ HeaderText(file.header) = Blank
         /\ load' = "loaded" /\ result' = -3
      \/ /\ file.kind = "list" /\ HeaderText(file.header) # Blank
         /\ mode' = HeaderMode /\ load' = "read"
  BY AcceptedHeader DEF OpenList, Returns, HeaderMode
<1>3. CASE load' = "loaded"
  <2>1. LoadsWhatFits' BY <1>1, <1>2, <1>3 DEF LoadsWhatFits
  <2>2. result' # 0 BY <1>2, <1>3
  <2> QED BY <1>1, <1>3, <2>1, <2>2 DEF ListInv
<1>4. CASE load' = "read"
  <2>1. LoadsWhatFits' BY <1>4 DEF LoadsWhatFits
  <2>2. mode' = HeaderMode' /\ file.kind = "list" /\ HeaderText(file.header) # Blank
    BY <1>1, <1>2, <1>4, FileStays
  <2>3. Cells(0) = {} /\ EntriesUpTo(0) = {}
    <3>1. \A n \in Entries : n \in 1 .. Len(file.lines) BY <1>1, EntryFacts
    <3>2. \A n \in Entries : ~(n <= 0) BY <1>1, <3>1
    <3> QED BY <3>2 DEF Cells, EntriesUpTo
  <2>4. [k \in Cells(0) |-> 0] \in Bijection(Cells(0), EntriesUpTo(0)) BY <2>3, IsOneToOne
  <2>5. Cells(i)' = Cells(0) /\ {n \in Entries : n <= line}' = EntriesUpTo(0)
    BY <1>1, FileStays DEF EntriesUpTo
  <2>6. \E entry \in Bijection(Cells(i), {n \in Entries : n <= line})' :
          \A k \in Cells(i)' : hashes'[k] = HashOf(entry[k])'
    BY <2>3, <2>4, <2>5
  <2> QED BY <1>1, <1>4, <2>1, <2>2, <2>6 DEF ListInv
<1> QED BY <1>2, <1>3, <1>4

\* Reading a line.
LEMMA ListGrows ==
  ASSUME AdaptiveInv, ListInv, ReadLine PROVE ListInv'
<1>1. /\ load = "read" /\ line < Len(file.lines) /\ line' = line + 1
      /\ file' = file /\ mode' = mode
      /\ file \in Content /\ line \in 0 .. Len(file.lines) /\ Len(file.lines) \in Nat
      /\ file.kind = "list" /\ HeaderText(file.header) # Blank /\ mode = HeaderMode
      /\ i \in Nat /\ i <= MaxHashes /\ DOMAIN hashes = 0 .. MaxHashes
  BY EntryFacts, CapacityAssumption DEF ReadLine, ListInv, AdaptiveInv
<1>2. PICK entry : Holds(entry) BY <1>1 DEF ListInv, Holds, EntriesUpTo
<1>3. /\ line \in 0 .. Len(file.lines) - 1 /\ line' \in 0 .. Len(file.lines') BY <1>1
<1>4. {n \in Entries : n <= line}' = EntriesUpTo(line + 1) /\ HeaderMode' = HeaderMode
  BY <1>1, FileStays DEF EntriesUpTo
<1>5. SUFFICES
        /\ \E e \in Bijection(Cells(i'), EntriesUpTo(line + 1)) :
             \A k \in Cells(i') : hashes'[k] = HashOf(e[k])
        /\ \/ load' = "read"
           \/ load' = "loaded" /\ result' = -4 /\ Cardinality(Entries) > MaxHashes
  <2>1. Cells(i)' = Cells(i') BY DEF Cells
  <2>2. \E e \in Bijection(Cells(i), {n \in Entries : n <= line})' :
          \A k \in Cells(i)' : hashes'[k] = HashOf(e[k])'
    BY <1>1, <1>4, <1>5, <2>1, FileStays
  <2>3. LoadsWhatFits'
    <3>1. CASE load' = "read" BY <3>1 DEF LoadsWhatFits
    <3>2. CASE load' = "loaded" /\ result' = -4 /\ Cardinality(Entries) > MaxHashes
      <4>1. Cardinality(Entries') > MaxHashes BY <1>1, <3>2, FileStays
      <4> QED BY <1>1, <3>2, <4>1 DEF LoadsWhatFits
    <3> QED BY <1>5, <3>1, <3>2
  <2>4. /\ file'.kind = "list" /\ HeaderText(file'.header) # Blank /\ mode' = HeaderMode'
        /\ file' \in Content /\ line' \in 0 .. Len(file'.lines)
    BY <1>1, <1>3, <1>4
  <2>5. load' # "open" /\ ~(load' = "loaded" /\ result' = 0) BY <1>5
  <2> QED BY <2>2, <2>3, <2>4, <2>5 DEF ListInv
<1>6. CASE IsEntry(file.lines[line + 1])
  <2> DEFINE e == [k \in Cells(i + 1) |-> IF k = i THEN line + 1 ELSE entry[k]]
  <2>1. /\ i' = i + 1 /\ hashes' = [hashes EXCEPT ![i] = HashOf(line + 1)]
        /\ IF i' > MaxHashes THEN load' = "loaded" /\ result' = -4 ELSE load' = load
    BY <1>6 DEF ReadLine, Returns, HashOf
  <2>2. Cells(i + 1) = Cells(i) \cup {i} /\ i \notin Cells(i) /\ Cells(i) \subseteq 0 .. MaxHashes
    BY <1>1, CapacityAssumption DEF Cells
  <2>3. EntriesUpTo(line + 1) = EntriesUpTo(line) \cup {line + 1} /\ line + 1 \notin EntriesUpTo(line)
    BY <1>1, <1>3, <1>6, NextLine
  <2>4. /\ entry \in [Cells(i) -> EntriesUpTo(line)]
        /\ \A x, y \in Cells(i) : entry[x] = entry[y] => x = y
        /\ \A y \in EntriesUpTo(line) : \E x \in Cells(i) : entry[x] = y
    BY <1>2, OneToOne DEF Holds
  <2>5. e[i] = line + 1 /\ \A k \in Cells(i) : e[k] = entry[k] BY <2>2
  <2>6. e \in Bijection(Cells(i + 1), EntriesUpTo(line + 1))
    <3>1. e \in [Cells(i + 1) -> EntriesUpTo(line + 1)] BY <2>2, <2>3, <2>4
    <3> HIDE DEF e
    <3>2. \A x, y \in Cells(i + 1) : e[x] = e[y] => x = y BY <2>2, <2>3, <2>4, <2>5
    <3>3. \A y \in EntriesUpTo(line + 1) : \E x \in Cells(i + 1) : e[x] = y
      BY <2>2, <2>3, <2>4, <2>5
    <3> QED BY <3>1, <3>2, <3>3, IsOneToOne
  <2> HIDE DEF e
  <2>7. \A k \in Cells(i + 1) : hashes'[k] = HashOf(e[k])
    <3>1. hashes'[i] = HashOf(line + 1) BY <1>1, <2>1
    <3>2. \A k \in Cells(i) : hashes'[k] = hashes[k] BY <1>1, <2>1, <2>2
    <3>3. \A k \in Cells(i) : hashes[k] = HashOf(entry[k]) BY <1>2 DEF Holds
    <3> QED BY <2>2, <2>5, <3>1, <3>2, <3>3
  <2>8. i' > MaxHashes => Cardinality(Entries) > MaxHashes
    <3>1. IsFiniteSet(EntriesUpTo(line)) /\ Cardinality(EntriesUpTo(line)) = i
      BY <1>1, <1>2, EntriesCounted, EntryFacts, FS_Subset DEF EntriesUpTo
    <3>2. Cardinality(EntriesUpTo(line + 1)) = i + 1 BY <2>3, <3>1, FS_AddElement
    <3>3. Cardinality(EntriesUpTo(line + 1)) <= Cardinality(Entries)
      BY <1>1, EntryFacts, FS_Subset DEF EntriesUpTo
    <3>4. Cardinality(Entries) \in Nat BY <1>1, EntryFacts
    <3> QED BY <2>1, <3>2, <3>3, <3>4, CapacityAssumption
  <2> QED BY <1>1, <2>1, <2>6, <2>7, <2>8
<1>7. CASE ~IsEntry(file.lines[line + 1])
  <2>1. i' = i /\ hashes' = hashes /\ load' = load BY <1>7 DEF ReadLine
  <2>2. EntriesUpTo(line + 1) = EntriesUpTo(line) BY <1>1, <1>3, <1>7, NextLine
  <2> QED BY <1>1, <1>2, <2>1, <2>2 DEF Holds
<1> QED BY <1>6, <1>7

\* At the end of the file the sorted array has the hash of each entry, and two equal
\* cells side by side if and only if two entries have one hash.
LEMMA SortedEntries ==
  ASSUME AdaptiveInv, ListInv, load = "read", line = Len(file.lines)
  PROVE  /\ Cardinality(Entries) = i
         /\ {Sorted(hashes, i)[k] : k \in Cells(i)} = {HashOf(n) : n \in Entries}
         /\ HasTwins(Sorted(hashes, i), i)
              <=> \E m, n \in Entries : m # n /\ HashOf(m) = HashOf(n)
         /\ ~HasTwins(Sorted(hashes, i), i) =>
              \A k \in 1 .. i - 1 : Sorted(hashes, i)[k - 1] < Sorted(hashes, i)[k]
<1> DEFINE s == Sorted(hashes, i)
<1>1. /\ file \in Content /\ line \in 0 .. Len(file.lines) /\ Len(file.lines) \in Nat
      /\ i \in Nat /\ i <= MaxHashes /\ DOMAIN hashes = 0 .. MaxHashes
  BY EntryFacts, CapacityAssumption DEF ListInv, AdaptiveInv
<1>2. PICK entry : Holds(entry) BY DEF ListInv, Holds, EntriesUpTo
<1>3. EntriesUpTo(line) = Entries
  <2>1. \A n \in Entries : n <= Len(file.lines) BY <1>1, EntryFacts
  <2> QED BY <2>1 DEF EntriesUpTo
<1>4. Cardinality(Entries) = i BY <1>1, <1>2, <1>3, EntriesCounted
<1>5. /\ entry \in [Cells(i) -> Entries]
      /\ \A x, y \in Cells(i) : entry[x] = entry[y] => x = y
      /\ \A y \in Entries : \E x \in Cells(i) : entry[x] = y
  BY <1>2, <1>3, OneToOne DEF Holds
<1>6. \A k \in Cells(i) : hashes[k] = HashOf(entry[k]) /\ hashes[k] \in Nat
  BY <1>1, <1>2, <1>5, EntryFacts DEF Holds
<1>7. PICK p \in Bijection(Cells(i), Cells(i)) :
        /\ \A k \in Cells(i) : s[k] = hashes[p[k]]
        /\ \A k \in 1 .. i - 1 : s[k - 1] <= s[k]
  <2>1. 0 .. i - 1 \subseteq DOMAIN hashes /\ \A k \in 0 .. i - 1 : hashes[k] \in Nat
    BY <1>1, <1>6, CapacityAssumption DEF Cells
  <2>2. \E p \in Bijection(Cells(i), Cells(i)) :
          /\ \A k \in 0 .. i - 1 : s[k] = hashes[p[k]]
          /\ \A k \in 1 .. i - 1 : s[k - 1] <= s[k]
    BY <1>1, <2>1, SortedCells
  <2> QED BY <2>2 DEF Cells
<1>8. /\ p \in [Cells(i) -> Cells(i)]
      /\ \A x, y \in Cells(i) : p[x] = p[y] => x = y
      /\ \A y \in Cells(i) : \E x \in Cells(i) : p[x] = y
  BY <1>7, OneToOne
<1> HIDE DEF s
\* The entry a sorted cell stands for.
<1> DEFINE source == [k \in Cells(i) |-> entry[p[k]]]
<1>9. /\ \A k \in Cells(i) : source[k] \in Entries /\ s[k] = HashOf(source[k]) /\ s[k] \in Nat
      /\ \A x, y \in Cells(i) : source[x] = source[y] => x = y
      /\ \A y \in Entries : \E x \in Cells(i) : source[x] = y
  <2>1. \A k \in Cells(i) : source[k] = entry[p[k]] /\ p[k] \in Cells(i) BY <1>8
  <2> HIDE DEF source
  <2>2. \A k \in Cells(i) : source[k] \in Entries /\ s[k] = HashOf(source[k]) /\ s[k] \in Nat
    BY <1>5, <1>6, <1>7, <2>1
  <2>3. \A x, y \in Cells(i) : source[x] = source[y] => x = y BY <1>5, <1>8, <2>1
  <2>4. ASSUME NEW y \in Entries PROVE \E x \in Cells(i) : source[x] = y
    <3>1. PICK c \in Cells(i) : entry[c] = y BY <1>5
    <3>2. PICK x \in Cells(i) : p[x] = c BY <1>8, <3>1
    <3> QED BY <2>1, <3>1, <3>2
  <2> QED BY <2>2, <2>3, <2>4
<1> HIDE DEF source
<1>10. {s[k] : k \in Cells(i)} = {HashOf(n) : n \in Entries} BY <1>9
<1>11. ASSUME HasTwins(s, i) PROVE \E m, n \in Entries : m # n /\ HashOf(m) = HashOf(n)
  <2>1. PICK k \in 0 .. i - 2 : s[k] = s[k + 1] BY <1>11 DEF HasTwins
  <2>2. k \in Cells(i) /\ k + 1 \in Cells(i) /\ k # k + 1 BY <1>1 DEF Cells
  <2> QED BY <1>9, <2>1, <2>2
<1>12. ASSUME ~HasTwins(s, i)
       PROVE  /\ \A k \in 1 .. i - 1 : s[k - 1] < s[k]
              /\ ~\E m, n \in Entries : m # n /\ HashOf(m) = HashOf(n)
  <2>1. ASSUME NEW k \in 1 .. i - 1 PROVE s[k - 1] < s[k]
    <3>1. k - 1 \in Cells(i) /\ k \in Cells(i) /\ k - 1 \in 0 .. i - 2 /\ (k - 1) + 1 = k
      BY <1>1 DEF Cells
    <3>2. s[k - 1] # s[k] BY <1>12, <3>1 DEF HasTwins
    <3>3. s[k - 1] \in Nat /\ s[k] \in Nat /\ s[k - 1] <= s[k] BY <1>7, <1>9, <3>1
    <3> QED BY <3>2, <3>3
  <2>2. \A a, b \in Cells(i) : a < b => s[a] < s[b]
    <3>1. \A k \in 0 .. i - 1 : s[k] \in Nat BY <1>9 DEF Cells
    <3>2. \A a, b \in 0 .. i - 1 : a < b => s[a] < s[b] BY <1>1, <2>1, <3>1, AscendingFar
    <3> QED BY <3>2 DEF Cells
  <2>3. \A a, b \in Cells(i) : a # b => s[a] # s[b]
    <3> SUFFICES ASSUME NEW a \in Cells(i), NEW b \in Cells(i), a # b PROVE s[a] # s[b]
      OBVIOUS
    <3>1. a < b \/ b < a BY DEF Cells
    <3>2. s[a] \in Nat /\ s[b] \in Nat BY <1>9
    <3> QED BY <2>2, <3>1, <3>2
  <2>4. ASSUME NEW m \in Entries, NEW n \in Entries, m # n PROVE HashOf(m) # HashOf(n)
    <3>1. PICK a \in Cells(i) : source[a] = m BY <1>9
    <3>2. PICK b \in Cells(i) : source[b] = n BY <1>9
    <3> QED BY <1>9, <2>3, <2>4, <3>1, <3>2
  <2> QED BY <2>1, <2>4
<1> QED BY <1>4, <1>10, <1>11, <1>12 DEF s

\* The end of the file, the sort and the search for equal hashes.
LEMMA ListCloses ==
  ASSUME AdaptiveInv, ListInv, FinishList PROVE ListInv'
<1>1. /\ load = "read" /\ line = Len(file.lines) /\ load' = "loaded"
      /\ file' = file /\ line' = line /\ mode' = mode
      /\ excludes_size' = i /\ hashes' = Sorted(hashes, i)
      /\ result' = IF HasTwins(Sorted(hashes, i), i) THEN -5 ELSE 0
  BY DEF FinishList, Returns
<1>2. /\ file \in Content /\ line \in 0 .. Len(file.lines)
      /\ file.kind = "list" /\ HeaderText(file.header) # Blank /\ mode = HeaderMode
      /\ ~(i > MaxHashes)
  BY <1>1 DEF ListInv, AdaptiveInv
<1>3. /\ Cardinality(Entries) = i
      /\ {hashes'[k] : k \in Cells(i)} = {HashOf(n) : n \in Entries}
      /\ HasTwins(Sorted(hashes, i), i) <=> \E m, n \in Entries : m # n /\ HashOf(m) = HashOf(n)
      /\ ~HasTwins(Sorted(hashes, i), i) => \A k \in 1 .. i - 1 : hashes'[k - 1] < hashes'[k]
  BY <1>1, SortedEntries
<1>4. LoadsWhatFits'
  <2>1. /\ Cardinality(Entries') = i
        /\ (\E m, n \in Entries' : m # n /\ HashOf(m)' = HashOf(n)')
             <=> (\E m, n \in Entries : m # n /\ HashOf(m) = HashOf(n))
    BY <1>1, <1>3, FileStays
  <2>2. result' = IF \E m, n \in Entries' : m # n /\ HashOf(m)' = HashOf(n)' THEN -5 ELSE 0
    BY <1>1, <1>3, <2>1
  <2> QED BY <1>1, <1>2, <2>1, <2>2 DEF LoadsWhatFits
<1>5. ASSUME result' = 0
      PROVE  /\ mode' = HeaderMode'
             /\ {hashes[k] : k \in Cells(excludes_size)}' = {HashOf(n) : n \in Entries}'
             /\ \A k \in 1 .. excludes_size' - 1 : hashes'[k - 1] < hashes'[k]
  <2>1. ~HasTwins(Sorted(hashes, i), i) BY <1>1, <1>5
  <2>2. Cells(excludes_size)' = Cells(i) BY <1>1 DEF Cells
  <2>3. {HashOf(n) : n \in Entries}' = {HashOf(n) : n \in Entries} BY <1>1, FileStays
  <2>4. {hashes[k] : k \in Cells(excludes_size)}' = {hashes'[k] : k \in Cells(i)} BY <2>2
  <2> QED BY <1>1, <1>2, <1>3, <2>1, <2>3, <2>4, FileStays
<1>6. file' \in Content /\ line' \in 0 .. Len(file'.lines) BY <1>1, <1>2
<1>7. load' # "open" /\ load' # "read" BY <1>1
<1> QED BY <1>4, <1>5, <1>6, <1>7 DEF ListInv

-----------------------------------------------------------------------------
(* Theorems.                                                                *)

\* Before the load nothing is in the array.
LEMMA ListStarts == Init => ListInv
<1> SUFFICES ASSUME Init PROVE ListInv OBVIOUS
<1>1. load = "open" /\ line = 0 /\ i = 0 BY DEF Init, AdaptiveInit
<1>2. NoContent \in Content
  <2>1. <<>> \in Seq(Line) OBVIOUS
  <2> QED BY <2>1 DEF NoContent, Content, Header
<1>3. file \in Content BY <1>2, FilesAssumption DEF Init
<1>4. Len(file.lines) \in Nat BY <1>3, EntryFacts
<1> QED BY <1>1, <1>3, <1>4 DEF ListInv, LoadsWhatFits

\* Once the aspect is made the list is forgotten.
LEMMA ListForgotten == load = "done" => ListInv
BY DEF ListInv, LoadsWhatFits

\* A step of the program leaves the list alone.
LEMMA ListStays == ASSUME ListInv, UNCHANGED adaptive_vars PROVE ListInv'
<1> USE DEF adaptive_vars, loader_vars, table_vars
<1>1. Entries' = Entries /\ HeaderMode' = HeaderMode /\ \A n : HashOf(n)' = HashOf(n)
  BY FileStays
<1>2. LoadsWhatFits' BY <1>1 DEF ListInv, LoadsWhatFits
<1>3. Cells(i)' = Cells(i) /\ Cells(excludes_size)' = Cells(excludes_size) BY DEF Cells
<1> QED BY <1>1, <1>2, <1>3 DEF ListInv

\* The invariant of the loader is inductive.
LEMMA ListStep == AdaptiveInv /\ ListInv /\ [Next]_vars => ListInv'
<1> SUFFICES ASSUME AdaptiveInv, ListInv, [Next]_vars PROVE ListInv' OBVIOUS
<1>1. CASE Load BY <1>1, ListOpens, ListGrows, ListCloses DEF Load, LoaderStep
<1>2. CASE Start
  <2>1. load' = "done" BY <1>2 DEF Start
  <2> QED BY <2>1 DEF ListInv, LoadsWhatFits
<1>3. CASE \E t \in Thread : ThreadStep(t)
  <2>1. UNCHANGED adaptive_vars
    BY <1>3 DEF ThreadStep, EventBefore, EventAfter, FlowBefore, FlowAfter, Throw, Running
  <2> QED BY <2>1, ListStays
<1>4. CASE UNCHANGED vars BY <1>4, ListStays DEF vars
<1> QED BY <1>1, <1>2, <1>3, <1>4 DEF Next, Over

\* What the invariant says of the array makes the search answer as the list does.
LEMMA ListAnswers == AdaptiveInv /\ ListInv => AnswersAsListed
<1> SUFFICES ASSUME AdaptiveInv, ListInv, load = "loaded", result = 0, NEW class \in Class
             PROVE  Excluded(class) <=>
                      (file.header.text = "EXCLUDE"
                         <=> \E n \in Entries : HashOf(n) = Hash[<<FALSE, class>>])
  BY DEF AnswersAsListed
<1> DEFINE h == Hash[<<FALSE, class>>]
<1>1. /\ file \in Content /\ mode = HeaderMode /\ excludes_size \in Nat
      /\ {hashes[k] : k \in Cells(excludes_size)} = {HashOf(n) : n \in Entries}
      /\ \A k \in 1 .. excludes_size - 1 : hashes[k - 1] < hashes[k]
  <2>1. file \in Content BY DEF ListInv
  <2>2. excludes_size \in Nat BY CapacityAssumption DEF AdaptiveInv
  <2>3. /\ mode = HeaderMode
        /\ {hashes[k] : k \in Cells(excludes_size)} = {HashOf(n) : n \in Entries}
        /\ \A k \in 1 .. excludes_size - 1 : hashes[k - 1] < hashes[k]
    BY Zenon DEF ListInv
  <2> QED BY <2>1, <2>2, <2>3
<1>2. \A k \in Cells(excludes_size) : hashes[k] \in Nat BY <1>1, EntryFacts
<1>3. TableAscends BY <1>1, <1>2 DEF TableAscends, Cells
<1>4. h \in Nat BY HashAssumption
<1>5. Search(h) <=> \E k \in Cells(excludes_size) : hashes[k] = h BY <1>3, <1>4, SearchTells
<1> HIDE DEF h
<1>6. Search(h) <=> \E n \in Entries : HashOf(n) = h BY <1>1, <1>5
<1>7. Excluded(class) <=> (Search(h) /\ mode = 1) \/ (~Search(h) /\ mode = 0) BY DEF Excluded, h
<1>8. (mode = 1 <=> file.header.text = "EXCLUDE") /\ (mode = 0 <=> file.header.text # "EXCLUDE")
  BY <1>1 DEF HeaderMode
<1>9. Excluded(class) <=> (file.header.text = "EXCLUDE" <=> \E n \in Entries : HashOf(n) = h)
  BY <1>6, <1>7, <1>8, Zenon
<1> QED BY <1>9 DEF h

\* The loader's part of the inductive invariant: with any list, hash function and size
\* of the array, the array holds the hashes of the entries read, then all of them sorted.
THEOREM ListCorrect == Spec => []ListInv
<1>1. ProbesInv => AdaptiveInv BY DEF ProbesInv
<1> QED BY <1>1, ListStarts, ListStep, ProbesCorrect, PTL DEF Spec

\* The whole inductive invariant of aspects and loader.
THEOREM AspectsCorrect == Spec => []AspectInv
<1>1. ProbesInv /\ ListInv /\ LogTellsShownFrames /\ FlowInv => AspectInv BY DEF AspectInv
<1> QED BY <1>1, ProbesCorrect, ListCorrect, ShownTold, FlowCorrect, PTL

\* The loader takes a list if and only if it has a header, fits the array and has no
\* two entries with one hash.
THEOREM ListFits == Spec => []LoadsWhatFits
<1>1. ListInv => LoadsWhatFits BY DEF ListInv
<1> QED BY <1>1, ListCorrect, PTL

\* After a successful load the binary search answers for each class what the list says.
THEOREM ListTold == Spec => []AnswersAsListed
<1>1. ProbesInv => AdaptiveInv BY DEF ProbesInv
<1> QED BY <1>1, ListAnswers, ProbesCorrect, ListCorrect, PTL
===============================================================================
