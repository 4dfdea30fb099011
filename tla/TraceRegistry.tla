---------------------------- MODULE TraceRegistry -----------------------------
(***************************************************************************)
(* The trace registry of libkieker (monitoring/controller/kieker_trace.c): *)
(* a uthash table of heap allocated trace objects, one per thread, behind  *)
(* one pthread read/write lock, and the counter trace ids are drawn from.  *)
(*                                                                         *)
(* Threads run kieker_trace_get and kieker_trace_remove concurrently.  A   *)
(* step is what a thread does between two points at which another thread   *)
(* can observe the difference: taking or releasing the lock, one operation *)
(* on the table, the read and the write of the unprotected id counter.     *)
(* The caller is any code that uses the returned object for a while and    *)
(* then drops it or removes it, as the probes do.                          *)
(***************************************************************************)
EXTENDS Integers, FiniteSets

CONSTANTS
  Thread,      \* the threads that run probes
  NoThread,    \* nobody holds the lock for writing
  Obj,         \* heap addresses malloc can return for a kieker_trace_t
  NoObj,       \* NULL
  Key,         \* Key[t] is (int) pthread_self() of thread t
  InitialId,   \* kieker_trace_current_id after kieker_trace_init
  Serialised,  \* TRUE: the program never runs two probes at a time
  MaxTraces    \* bound on kieker_trace_current_id - InitialId

ASSUME KeyAssumption == Key \in [Thread -> Int]
ASSUME NullAssumption == NoObj \notin Obj /\ NoThread \notin Thread
ASSUME InitialIdAssumption == InitialId \in Nat
ASSUME SerialisedAssumption == Serialised \in BOOLEAN
ASSUME MaxTracesAssumption == MaxTraces \in Nat

VARIABLES
  readers,                  \* threads holding kieker_trace_hash_lock shared
  writer,                   \* the thread holding it exclusively, or NoThread
  kieker_traces,            \* the objects linked in the hash table
  live,                     \* the objects malloc returned and free did not take
  trace,                    \* the fields of each object, stale once it is freed
  kieker_trace_current_id,  \* the id counter, no lock protects it
  id_read,                  \* the value a thread read of it before writing it back
  data,                     \* the local variable data of each thread
  pc                        \* where each thread is in get or remove

lock_vars == <<readers, writer>>
heap_vars == <<live, trace>>
id_vars == <<kieker_trace_current_id, id_read>>
vars == <<readers, writer, kieker_traces, live, trace,
          kieker_trace_current_id, id_read, data, pc>>

-----------------------------------------------------------------------------
(* The lock, and the one field of the table lookup depends on.             *)

Goto(t, from, to) == pc[t] = from /\ pc' = [pc EXCEPT ![t] = to]

LockShared(t) ==
  /\ writer = NoThread
  /\ readers' = readers \cup {t}
  /\ UNCHANGED writer

UnlockShared(t) == readers' = readers \ {t} /\ UNCHANGED writer

\* Seeded bug: the writer does not wait for the readers.
LockExclusiveAmongReaders(t) ==
  writer = NoThread /\ writer' = t /\ UNCHANGED readers

LockExclusive(t) ==
  /\ readers = {} /\ writer = NoThread
  /\ writer' = t
  /\ UNCHANGED readers

UnlockExclusive(t) == writer' = NoThread /\ UNCHANGED readers

\* Seeded bug: the lookup does not compare the key.
MatchesAnyKey(t) == {o \in kieker_traces : TRUE}

\* HASH_FIND_INT: one of the linked objects with this thread_id.  The macro
\* returns the first in its bucket chain, an order bucket expansion reverses.
Matches(t) == {o \in kieker_traces : trace[o].thread_id = Key[t]}

-----------------------------------------------------------------------------
(* kieker_trace_get.                                                        *)

\* Bounds the ids a run draws: each running call may still draw one.
Budget ==
  kieker_trace_current_id + Cardinality({u \in Thread : pc[u] # "idle"})
    < InitialId + MaxTraces

\* A probe calls kieker_trace_get.
Get(t) ==
  /\ Serialised => \A u \in Thread : pc[u] = "idle"
  /\ Budget
  /\ Goto(t, "idle", "rdlock")
  /\ UNCHANGED <<lock_vars, kieker_traces, heap_vars, id_vars, data>>

RdLock(t) ==
  /\ LockShared(t)
  /\ Goto(t, "rdlock", "find")
  /\ UNCHANGED <<kieker_traces, heap_vars, id_vars, data>>

\* kieker_trace_find.
Find(t) ==
  /\ Goto(t, "find", "rdunlock")
  /\ \/ \E o \in Matches(t) : data' = [data EXCEPT ![t] = o]
     \/ Matches(t) = {} /\ data' = [data EXCEPT ![t] = NoObj]
  /\ UNCHANGED <<lock_vars, kieker_traces, heap_vars, id_vars>>

\* Seeded bug: the test of data is missing.
RdUnlockCreates(t) ==
  /\ UnlockShared(t)
  /\ Goto(t, "rdunlock", "create")
  /\ UNCHANGED <<kieker_traces, heap_vars, id_vars, data>>

RdUnlock(t) ==
  /\ UnlockShared(t)
  /\ Goto(t, "rdunlock", IF data[t] = NoObj THEN "create" ELSE "got")
  /\ UNCHANGED <<kieker_traces, heap_vars, id_vars, data>>

\* malloc, then the read of kieker_trace_current_id++; malloc never fails here.
ReadId(t) ==
  /\ Goto(t, "create", "bump")
  /\ \E o \in Obj \ live : data' = [data EXCEPT ![t] = o] /\ live' = live \cup {o}
  /\ id_read' = [id_read EXCEPT ![t] = kieker_trace_current_id]
  /\ UNCHANGED <<lock_vars, kieker_traces, trace, kieker_trace_current_id>>

\* The fields kieker_trace_create sets; order_index and stack, which the registry does
\* not look at, are added by the modules that use it.
Created(t) == [thread_id |-> Key[t], trace_id |-> id_read[t]]

\* Seeded bug: the incremented id is not written back.
BumpIdLost(t) ==
  /\ Goto(t, "bump", "wrlock")
  /\ trace' = [trace EXCEPT ![data[t]] = Created(t)]
  /\ UNCHANGED <<lock_vars, kieker_traces, live, id_vars, data>>

\* The write of kieker_trace_current_id++, then kieker_trace_create.
BumpId(t) ==
  /\ Goto(t, "bump", "wrlock")
  /\ kieker_trace_current_id' = id_read[t] + 1
  /\ id_read' = [id_read EXCEPT ![t] = 0]
  /\ trace' = [trace EXCEPT ![data[t]] = Created(t)]
  /\ UNCHANGED <<lock_vars, kieker_traces, live, data>>

WrLock(t) ==
  /\ LockExclusive(t)
  /\ Goto(t, "wrlock", "add")
  /\ UNCHANGED <<kieker_traces, heap_vars, id_vars, data>>

\* HASH_ADD_INT, which links the object without looking for an equal key.
Add(t) ==
  /\ Goto(t, "add", "wrunlock")
  /\ kieker_traces' = kieker_traces \cup {data[t]}
  /\ UNCHANGED <<lock_vars, heap_vars, id_vars, data>>

WrUnlock(t) ==
  /\ UnlockExclusive(t)
  /\ Goto(t, "wrunlock", "got")
  /\ UNCHANGED <<kieker_traces, heap_vars, id_vars, data>>

\* The probe returns to the program and forgets the pointer.
Return(t) ==
  /\ Goto(t, "got", "idle")
  /\ data' = [data EXCEPT ![t] = NoObj]
  /\ UNCHANGED <<lock_vars, kieker_traces, heap_vars, id_vars>>

-----------------------------------------------------------------------------
(* kieker_trace_remove, called with the pointer get returned.               *)

CallRemove(t) ==
  /\ Goto(t, "got", "dellock")
  /\ UNCHANGED <<lock_vars, kieker_traces, heap_vars, id_vars, data>>

DelLock(t) ==
  /\ LockExclusive(t)
  /\ Goto(t, "dellock", "del")
  /\ UNCHANGED <<kieker_traces, heap_vars, id_vars, data>>

\* Seeded bug: HASH_CLEAR in place of HASH_DEL.
DelAll(t) ==
  /\ Goto(t, "del", "delunlock")
  /\ kieker_traces' = {}
  /\ UNCHANGED <<lock_vars, heap_vars, id_vars, data>>

\* kieker_trace_delete, HASH_DEL.
Del(t) ==
  /\ Goto(t, "del", "delunlock")
  /\ kieker_traces' = kieker_traces \ {data[t]}
  /\ UNCHANGED <<lock_vars, heap_vars, id_vars, data>>

\* Seeded bug: the removal is started over.
DelUnlockRepeats(t) ==
  /\ UnlockExclusive(t)
  /\ Goto(t, "delunlock", "dellock")
  /\ UNCHANGED <<kieker_traces, heap_vars, id_vars, data>>

DelUnlock(t) ==
  /\ UnlockExclusive(t)
  /\ Goto(t, "delunlock", "free")
  /\ UNCHANGED <<kieker_traces, heap_vars, id_vars, data>>

\* Seeded bug: free(data->buffer) only.
FreeBufferOnly(t) ==
  /\ Goto(t, "free", "idle")
  /\ data' = [data EXCEPT ![t] = NoObj]
  /\ UNCHANGED <<lock_vars, kieker_traces, heap_vars, id_vars>>

\* free(data->buffer); free(data), and the probe returns.
Free(t) ==
  /\ Goto(t, "free", "idle")
  /\ live' = live \ {data[t]}
  /\ data' = [data EXCEPT ![t] = NoObj]
  /\ UNCHANGED <<lock_vars, kieker_traces, trace, id_vars>>

-----------------------------------------------------------------------------
\* The bound on ids is used up and every call has returned.
Exhausted ==
  /\ ~Budget
  /\ \A t \in Thread : pc[t] = "idle"
  /\ UNCHANGED vars

Init ==
  /\ readers = {} /\ writer = NoThread
  /\ kieker_traces = {} /\ live = {}
  /\ trace = [o \in Obj |-> [thread_id |-> 0, trace_id |-> 0]]
  /\ kieker_trace_current_id = InitialId
  /\ id_read = [t \in Thread |-> 0]
  /\ data = [t \in Thread |-> NoObj]
  /\ pc = [t \in Thread |-> "idle"]

GetStep(t) ==
  \/ RdLock(t) \/ Find(t) \/ RdUnlock(t)
  \/ ReadId(t) \/ BumpId(t)
  \/ WrLock(t) \/ Add(t) \/ WrUnlock(t)

RemoveStep(t) == DelLock(t) \/ Del(t) \/ DelUnlock(t) \/ Free(t)

CallerStep(t) == Get(t) \/ Return(t) \/ CallRemove(t)

Next ==
  \/ \E t \in Thread : GetStep(t) \/ RemoveStep(t) \/ CallerStep(t)
  \/ Exhausted

Spec == Init /\ [][Next]_vars

\* Every thread inside a call keeps running.  glibc's default rwlock hands over
\* to the waiting readers when a writer leaves (strong fairness for readers),
\* but lets new readers overtake a waiting writer (weak fairness for writers).
LiveSpec ==
  /\ Spec
  /\ \A t \in Thread : /\ WF_vars(GetStep(t)) /\ WF_vars(RemoveStep(t))
                       /\ SF_vars(RdLock(t))

-----------------------------------------------------------------------------
(* Properties.                                                              *)

Adding == {"bump", "wrlock", "add"}
Using == {"wrunlock", "got", "dellock", "del"}
Dropping == {"delunlock", "free"}
Position ==
  {"idle", "rdlock", "find", "rdunlock", "create"} \cup Adding \cup Using \cup Dropping

Holding(t) ==
  \/ pc[t] \in Adding \cup Using \cup Dropping
  \/ pc[t] = "rdunlock" /\ data[t] # NoObj

\* Every variable keeps the type the C declarations give it.
TypeOK ==
  /\ readers \subseteq Thread
  /\ writer \in Thread \cup {NoThread}
  /\ live \subseteq Obj
  /\ kieker_traces \subseteq Obj
  /\ trace \in [Obj -> [thread_id : Int, trace_id : Nat]]
  /\ kieker_trace_current_id \in Nat
  /\ id_read \in [Thread -> Nat]
  /\ data \in [Thread -> Obj \cup {NoObj}]
  /\ pc \in [Thread -> Position]

\* kieker_trace_get gives a thread its own object, a valid one, and no two
\* threads ever hold the same pointer: neither the reader that found it, nor the
\* one that removes and frees it.
OwnObject ==
  \A t \in Thread : Holding(t) =>
    /\ data[t] \in live
    /\ pc[t] \in {"rdunlock"} \cup Using => trace[data[t]].thread_id = Key[t]
    /\ \A u \in Thread \ {t} : Holding(u) => data[u] # data[t]

\* No two entries of the table are equal under the key, though HASH_ADD_INT
\* does not check: the read lock is given back between the find and the add.
OneTracePerThread ==
  \A o, p \in kieker_traces : trace[o].thread_id = trace[p].thread_id => o = p

\* The table links no freed memory, and memory that is neither linked nor in the
\* hands of the thread that adds or frees it does not exist: nothing leaks.
NothingDangles ==
  /\ kieker_traces \subseteq live
  /\ \A o \in live \ kieker_traces :
       \E t \in Thread : data[t] = o /\ pc[t] \in Adding \cup Dropping

\* Open traces have different ids, which is how the collector tells them apart.
UniqueTraceIds ==
  \A o, p \in kieker_traces : trace[o].trace_id = trace[p].trace_id => o = p

\* The table never changes while another thread walks it in HASH_FIND_INT.
NoMutationDuringFind ==
  [][kieker_traces' # kieker_traces => \A t \in Thread : pc[t] # "find"]_vars

\* The comment of kieker_trace_current_id: it is incremented with each call of
\* kieker_trace_get_next_id.
IncrementedWithEachCall ==
  [][\A t \in Thread :
       BumpId(t) => kieker_trace_current_id' = kieker_trace_current_id + 1]_vars

\* Only a stream of readers can keep a thread from adding or removing its trace.
OnlyReadersStarveWriters ==
  \A t \in Thread :
    <>[](readers = {}) =>
      (pc[t] \in {"create", "dellock"} ~> pc[t] \in {"got", "idle"})

\* Seen from outside, the registry is TraceStore: the open trace of a thread is
\* the one linked under its key.
AnyOf(S) == CHOOSE o \in S : TRUE

CurrentTrace ==
  [t \in Thread |-> IF Matches(t) = {} THEN -1 ELSE trace[AnyOf(Matches(t))].trace_id]

Store == INSTANCE TraceStore
           WITH TraceId <- Nat, NoTrace <- -1, current <- CurrentTrace

\* kieker_trace_get and kieker_trace_remove take effect atomically, and only on
\* the trace of the calling thread.
ImplementsTraceStore == Store!Spec

-----------------------------------------------------------------------------
(* The inductive invariant of the registry when pthread_self() truncated to *)
(* int still tells the threads apart.                                       *)

InjectiveKey == \A t, u \in Thread : Key[t] = Key[u] => t = u

\* Who holds the lock follows from where the threads are.
LockInv ==
  /\ writer # NoThread => readers = {}
  /\ \A t \in Thread : t \in readers <=> pc[t] \in {"find", "rdunlock"}
  /\ \A t \in Thread :
       writer = t <=> pc[t] \in {"add", "wrunlock", "del", "delunlock"}

\* What a thread knows about the pointer in data at each of its steps.
DataInv ==
  \A t \in Thread :
    /\ pc[t] \in {"idle", "rdlock", "find", "create"} => data[t] = NoObj
    /\ pc[t] \in Adding => data[t] \in live \ kieker_traces
    /\ pc[t] \in Using => data[t] \in kieker_traces
    /\ pc[t] \in Dropping => data[t] \in live \ kieker_traces
    /\ pc[t] = "rdunlock" => data[t] \in kieker_traces \cup {NoObj}

\* A thread finds its entry, and knows when there is none: nobody else adds it.
EntryInv ==
  \A t \in Thread :
    /\ pc[t] \in {"create"} \cup Adding \cup Dropping => Matches(t) = {}
    /\ pc[t] = "rdunlock" /\ data[t] = NoObj => Matches(t) = {}
    /\ pc[t] \in {"wrlock", "add", "rdunlock"} \cup Using /\ data[t] # NoObj =>
         trace[data[t]].thread_id = Key[t]

\* Every linked object is that of one of the threads.
KeyInv == \A o \in kieker_traces : \E t \in Thread : trace[o].thread_id = Key[t]

\* The invariant the proofs of the registry rest on.
RegistryInv ==
  /\ TypeOK /\ LockInv /\ DataInv /\ EntryInv /\ KeyInv
  /\ OneTracePerThread /\ OwnObject /\ NothingDangles

\* An object whose trace id has been drawn: malloc'ed, and past the counter.
Numbered(o) == o \in live /\ \A t \in Thread : pc[t] = "bump" => data[t] # o

\* What running one probe at a time adds: the counter is ahead of every id drawn.
SerialInv ==
  Serialised =>
    /\ \A t, u \in Thread : pc[t] # "idle" /\ pc[u] # "idle" => t = u
    /\ \A t \in Thread : pc[t] = "bump" => id_read[t] = kieker_trace_current_id
    /\ \A o \in Obj : Numbered(o) => trace[o].trace_id < kieker_trace_current_id
    /\ \A o, p \in Obj :
         Numbered(o) /\ Numbered(p) /\ trace[o].trace_id = trace[p].trace_id => o = p
===============================================================================
