------------------------- MODULE TraceRegistryProofs --------------------------
(***************************************************************************)
(* Proofs about TraceRegistry for every set of threads, every number of    *)
(* objects and every bound, as long as InjectiveKey holds: the truncated   *)
(* pthread_self() still tells the threads apart.                           *)
(***************************************************************************)
EXTENDS TraceRegistry, TLAPS

\* A step keeps the types; the table only ever gets a pointer malloc returned.
LEMMA TypeStep ==
  ASSUME TypeOK, DataInv, [Next]_vars
  PROVE  TypeOK'
<1> USE NullAssumption, KeyAssumption, InitialIdAssumption DEF TypeOK, DataInv,
   Position, Adding, Using, Dropping
<1>1. CASE UNCHANGED vars
  BY <1>1 DEF vars, lock_vars, heap_vars, id_vars
<1>2. CASE Exhausted
  BY <1>2 DEF Exhausted, vars, lock_vars, heap_vars, id_vars
<1>3. ASSUME NEW t \in Thread, GetStep(t) \/ RemoveStep(t) \/ CallerStep(t)
      PROVE  TypeOK'
  <2>1. CASE Get(t)
    BY <2>1 DEF Get, Goto, lock_vars, heap_vars, id_vars
  <2>2. CASE RdLock(t)
    BY <2>2 DEF RdLock, Goto, lock_vars, heap_vars, id_vars, LockShared
  <2>3. CASE Find(t)
    BY <2>3 DEF Find, Goto, lock_vars, heap_vars, id_vars, Matches
  <2>4. CASE RdUnlock(t)
    BY <2>4 DEF RdUnlock, Goto, lock_vars, heap_vars, id_vars, UnlockShared
  <2>5. CASE ReadId(t)
    BY <2>5 DEF ReadId, Goto, lock_vars, heap_vars, id_vars
  <2>6. CASE BumpId(t)
    BY <2>6 DEF BumpId, Created, Goto, lock_vars, heap_vars, id_vars
  <2>7. CASE WrLock(t)
    BY <2>7 DEF WrLock, Goto, lock_vars, heap_vars, id_vars, LockExclusive
  <2>8. CASE Add(t)
    BY <2>8 DEF Add, Goto, lock_vars, heap_vars, id_vars
  <2>9. CASE WrUnlock(t)
    BY <2>9 DEF WrUnlock, Goto, lock_vars, heap_vars, id_vars, UnlockExclusive
  <2>10. CASE Return(t)
    BY <2>10 DEF Return, Goto, lock_vars, heap_vars, id_vars
  <2>11. CASE CallRemove(t)
    BY <2>11 DEF CallRemove, Goto, lock_vars, heap_vars, id_vars
  <2>12. CASE DelLock(t)
    BY <2>12 DEF DelLock, Goto, lock_vars, heap_vars, id_vars, LockExclusive
  <2>13. CASE Del(t)
    BY <2>13 DEF Del, Goto, lock_vars, heap_vars, id_vars
  <2>14. CASE DelUnlock(t)
    BY <2>14 DEF DelUnlock, Goto, lock_vars, heap_vars, id_vars, UnlockExclusive
  <2>15. CASE Free(t)
    BY <2>15 DEF Free, Goto, lock_vars, heap_vars, id_vars
  <2>16. QED
    BY <1>3, <2>1, <2>2, <2>3, <2>4, <2>5, <2>6, <2>7, <2>8, <2>9, <2>10,
       <2>11, <2>12, <2>13, <2>14, <2>15 DEF GetStep, RemoveStep, CallerStep
<1>4. QED
  BY <1>1, <1>2, <1>3 DEF Next

\* A step keeps the lock in line with the positions of the threads.
LEMMA LockStep ==
  ASSUME TypeOK, LockInv, [Next]_vars
  PROVE  LockInv'
<1> USE NullAssumption, KeyAssumption, InitialIdAssumption DEF TypeOK, LockInv,
   Position, Adding, Using, Dropping
<1>1. CASE UNCHANGED vars
  BY <1>1 DEF vars, lock_vars, heap_vars, id_vars
<1>2. CASE Exhausted
  BY <1>2 DEF Exhausted, vars, lock_vars, heap_vars, id_vars
<1>3. ASSUME NEW t \in Thread, GetStep(t) \/ RemoveStep(t) \/ CallerStep(t)
      PROVE  LockInv'
  <2>1. CASE Get(t)
    BY <2>1 DEF Get, Goto, lock_vars, heap_vars, id_vars
  <2>2. CASE RdLock(t)
    BY <2>2 DEF RdLock, Goto, lock_vars, heap_vars, id_vars, LockShared
  <2>3. CASE Find(t)
    BY <2>3 DEF Find, Goto, lock_vars, heap_vars, id_vars, Matches
  <2>4. CASE RdUnlock(t)
    BY <2>4 DEF RdUnlock, Goto, lock_vars, heap_vars, id_vars, UnlockShared
  <2>5. CASE ReadId(t)
    BY <2>5 DEF ReadId, Goto, lock_vars, heap_vars, id_vars
  <2>6. CASE BumpId(t)
    BY <2>6 DEF BumpId, Created, Goto, lock_vars, heap_vars, id_vars
  <2>7. CASE WrLock(t)
    BY <2>7 DEF WrLock, Goto, lock_vars, heap_vars, id_vars, LockExclusive
  <2>8. CASE Add(t)
    BY <2>8 DEF Add, Goto, lock_vars, heap_vars, id_vars
  <2>9. CASE WrUnlock(t)
    BY <2>9 DEF WrUnlock, Goto, lock_vars, heap_vars, id_vars, UnlockExclusive
  <2>10. CASE Return(t)
    BY <2>10 DEF Return, Goto, lock_vars, heap_vars, id_vars
  <2>11. CASE CallRemove(t)
    BY <2>11 DEF CallRemove, Goto, lock_vars, heap_vars, id_vars
  <2>12. CASE DelLock(t)
    BY <2>12 DEF DelLock, Goto, lock_vars, heap_vars, id_vars, LockExclusive
  <2>13. CASE Del(t)
    BY <2>13 DEF Del, Goto, lock_vars, heap_vars, id_vars
  <2>14. CASE DelUnlock(t)
    BY <2>14 DEF DelUnlock, Goto, lock_vars, heap_vars, id_vars, UnlockExclusive
  <2>15. CASE Free(t)
    BY <2>15 DEF Free, Goto, lock_vars, heap_vars, id_vars
  <2>16. QED
    BY <1>3, <2>1, <2>2, <2>3, <2>4, <2>5, <2>6, <2>7, <2>8, <2>9, <2>10,
       <2>11, <2>12, <2>13, <2>14, <2>15 DEF GetStep, RemoveStep, CallerStep
<1>4. QED
  BY <1>1, <1>2, <1>3 DEF Next

\* A step keeps what each thread knows of its pointer.
LEMMA DataStep ==
  ASSUME InjectiveKey, RegistryInv, [Next]_vars
  PROVE  DataInv'
<1> USE NullAssumption, KeyAssumption, InitialIdAssumption DEF RegistryInv,
   TypeOK, LockInv, DataInv, OwnObject, NothingDangles, Holding, Matches,
   Position, Adding, Using, Dropping
<1>1. CASE UNCHANGED vars
  BY <1>1 DEF vars, lock_vars, heap_vars, id_vars
<1>2. CASE Exhausted
  BY <1>2 DEF Exhausted, vars, lock_vars, heap_vars, id_vars
<1>3. ASSUME NEW t \in Thread, GetStep(t) \/ RemoveStep(t) \/ CallerStep(t)
      PROVE  DataInv'
  <2>1. CASE Get(t)
    BY <2>1 DEF Get, Goto, lock_vars, heap_vars, id_vars
  <2>2. CASE RdLock(t)
    BY <2>2 DEF RdLock, Goto, lock_vars, heap_vars, id_vars, LockShared
  <2>3. CASE Find(t)
    BY <2>3 DEF Find, Goto, lock_vars, heap_vars, id_vars
  <2>4. CASE RdUnlock(t)
    BY <2>4 DEF RdUnlock, Goto, lock_vars, heap_vars, id_vars, UnlockShared
  <2>5. CASE ReadId(t)
    <3>1. PICK o \in Obj \ live : data' = [data EXCEPT ![t] = o] /\ live' = live \cup {o}
      BY <2>5 DEF ReadId
    <3>2. pc[t] = "create" /\ pc' = [pc EXCEPT ![t] = "bump"] /\ UNCHANGED <<kieker_traces, trace>>
      BY <2>5 DEF ReadId, Goto
    <3>3. QED
      BY <3>1, <3>2
  <2>6. CASE BumpId(t)
    BY <2>6 DEF BumpId, Created, Goto, lock_vars, heap_vars, id_vars
  <2>7. CASE WrLock(t)
    BY <2>7 DEF WrLock, Goto, lock_vars, heap_vars, id_vars, LockExclusive
  <2>8. CASE Add(t)
    BY <2>8 DEF Add, Goto, lock_vars, heap_vars, id_vars
  <2>9. CASE WrUnlock(t)
    BY <2>9 DEF WrUnlock, Goto, lock_vars, heap_vars, id_vars, UnlockExclusive
  <2>10. CASE Return(t)
    BY <2>10 DEF Return, Goto, lock_vars, heap_vars, id_vars
  <2>11. CASE CallRemove(t)
    BY <2>11 DEF CallRemove, Goto, lock_vars, heap_vars, id_vars
  <2>12. CASE DelLock(t)
    BY <2>12 DEF DelLock, Goto, lock_vars, heap_vars, id_vars, LockExclusive
  <2>13. CASE Del(t)
    BY <2>13 DEF Del, Goto, lock_vars, heap_vars, id_vars
  <2>14. CASE DelUnlock(t)
    BY <2>14 DEF DelUnlock, Goto, lock_vars, heap_vars, id_vars, UnlockExclusive
  <2>15. CASE Free(t)
    BY <2>15 DEF Free, Goto, lock_vars, heap_vars, id_vars
  <2>16. QED
    BY <1>3, <2>1, <2>2, <2>3, <2>4, <2>5, <2>6, <2>7, <2>8, <2>9, <2>10,
       <2>11, <2>12, <2>13, <2>14, <2>15 DEF GetStep, RemoveStep, CallerStep
<1>4. QED
  BY <1>1, <1>2, <1>3 DEF Next

\* A step keeps the pointers of different threads apart.
LEMMA OwnStep ==
  ASSUME InjectiveKey, RegistryInv, [Next]_vars
  PROVE  OwnObject'
<1> USE NullAssumption, KeyAssumption, InitialIdAssumption DEF RegistryInv,
   TypeOK, LockInv, DataInv, EntryInv, OwnObject, NothingDangles, InjectiveKey,
   Holding, Matches, Position, Adding, Using, Dropping
<1>1. CASE UNCHANGED vars
  BY <1>1 DEF vars, lock_vars, heap_vars, id_vars
<1>2. CASE Exhausted
  BY <1>2 DEF Exhausted, vars, lock_vars, heap_vars, id_vars
<1>3. ASSUME NEW t \in Thread, GetStep(t) \/ RemoveStep(t) \/ CallerStep(t)
      PROVE  OwnObject'
  <2>1. CASE Get(t)
    BY <2>1 DEF Get, Goto, lock_vars, heap_vars, id_vars
  <2>2. CASE RdLock(t)
    BY <2>2 DEF RdLock, Goto, lock_vars, heap_vars, id_vars, LockShared
  <2>3. CASE Find(t)
    <3>1. data' = [data EXCEPT ![t] = data'[t]] /\ data'[t] \in Matches(t) \cup {NoObj}
      BY <2>3 DEF Find, Goto
    <3>2. pc' = [pc EXCEPT ![t] = "rdunlock"] /\ UNCHANGED <<heap_vars, kieker_traces>>
      BY <2>3 DEF Find, Goto
    <3>3. QED
      BY <3>1, <3>2 DEF heap_vars
  <2>4. CASE RdUnlock(t)
    BY <2>4 DEF RdUnlock, Goto, lock_vars, heap_vars, id_vars, UnlockShared
  <2>5. CASE ReadId(t)
    BY <2>5 DEF ReadId, Goto, lock_vars, heap_vars, id_vars
  <2>6. CASE BumpId(t)
    BY <2>6 DEF BumpId, Created, Goto, lock_vars, heap_vars, id_vars
  <2>7. CASE WrLock(t)
    BY <2>7 DEF WrLock, Goto, lock_vars, heap_vars, id_vars, LockExclusive
  <2>8. CASE Add(t)
    BY <2>8 DEF Add, Goto, lock_vars, heap_vars, id_vars
  <2>9. CASE WrUnlock(t)
    BY <2>9 DEF WrUnlock, Goto, lock_vars, heap_vars, id_vars, UnlockExclusive
  <2>10. CASE Return(t)
    BY <2>10 DEF Return, Goto, lock_vars, heap_vars, id_vars
  <2>11. CASE CallRemove(t)
    BY <2>11 DEF CallRemove, Goto, lock_vars, heap_vars, id_vars
  <2>12. CASE DelLock(t)
    BY <2>12 DEF DelLock, Goto, lock_vars, heap_vars, id_vars, LockExclusive
  <2>13. CASE Del(t)
    BY <2>13 DEF Del, Goto, lock_vars, heap_vars, id_vars
  <2>14. CASE DelUnlock(t)
    BY <2>14 DEF DelUnlock, Goto, lock_vars, heap_vars, id_vars, UnlockExclusive
  <2>15. CASE Free(t)
    BY <2>15 DEF Free, Goto, lock_vars, heap_vars, id_vars
  <2>16. QED
    BY <1>3, <2>1, <2>2, <2>3, <2>4, <2>5, <2>6, <2>7, <2>8, <2>9, <2>10,
       <2>11, <2>12, <2>13, <2>14, <2>15 DEF GetStep, RemoveStep, CallerStep
<1>4. QED
  BY <1>1, <1>2, <1>3 DEF Next

\* A step keeps what each thread knows of its entry in the table.
LEMMA EntryStep ==
  ASSUME InjectiveKey, RegistryInv, [Next]_vars
  PROVE  EntryInv'
<1> USE NullAssumption, KeyAssumption, InitialIdAssumption DEF RegistryInv,
   TypeOK, LockInv, DataInv, EntryInv, OwnObject, OneTracePerThread,
   InjectiveKey, Holding, Matches, Position, Adding, Using, Dropping
<1>1. CASE UNCHANGED vars
  BY <1>1 DEF vars, lock_vars, heap_vars, id_vars
<1>2. CASE Exhausted
  BY <1>2 DEF Exhausted, vars, lock_vars, heap_vars, id_vars
<1>3. ASSUME NEW t \in Thread, GetStep(t) \/ RemoveStep(t) \/ CallerStep(t)
      PROVE  EntryInv'
  <2>1. CASE Get(t)
    BY <2>1 DEF Get, Goto, lock_vars, heap_vars, id_vars
  <2>2. CASE RdLock(t)
    BY <2>2 DEF RdLock, Goto, lock_vars, heap_vars, id_vars, LockShared
  <2>3. CASE Find(t)
    BY <2>3 DEF Find, Goto, lock_vars, heap_vars, id_vars
  <2>4. CASE RdUnlock(t)
    BY <2>4 DEF RdUnlock, Goto, lock_vars, heap_vars, id_vars, UnlockShared
  <2>5. CASE ReadId(t)
    BY <2>5 DEF ReadId, Goto, lock_vars, heap_vars, id_vars
  <2>6. CASE BumpId(t)
    BY <2>6 DEF BumpId, Created, Goto, lock_vars, heap_vars, id_vars
  <2>7. CASE WrLock(t)
    BY <2>7 DEF WrLock, Goto, lock_vars, heap_vars, id_vars, LockExclusive
  <2>8. CASE Add(t)
    BY <2>8 DEF Add, Goto, lock_vars, heap_vars, id_vars
  <2>9. CASE WrUnlock(t)
    BY <2>9 DEF WrUnlock, Goto, lock_vars, heap_vars, id_vars, UnlockExclusive
  <2>10. CASE Return(t)
    BY <2>10 DEF Return, Goto, lock_vars, heap_vars, id_vars
  <2>11. CASE CallRemove(t)
    BY <2>11 DEF CallRemove, Goto, lock_vars, heap_vars, id_vars
  <2>12. CASE DelLock(t)
    BY <2>12 DEF DelLock, Goto, lock_vars, heap_vars, id_vars, LockExclusive
  <2>13. CASE Del(t)
    BY <2>13 DEF Del, Goto, lock_vars, heap_vars, id_vars
  <2>14. CASE DelUnlock(t)
    BY <2>14 DEF DelUnlock, Goto, lock_vars, heap_vars, id_vars, UnlockExclusive
  <2>15. CASE Free(t)
    BY <2>15 DEF Free, Goto, lock_vars, heap_vars, id_vars
  <2>16. QED
    BY <1>3, <2>1, <2>2, <2>3, <2>4, <2>5, <2>6, <2>7, <2>8, <2>9, <2>10,
       <2>11, <2>12, <2>13, <2>14, <2>15 DEF GetStep, RemoveStep, CallerStep
<1>4. QED
  BY <1>1, <1>2, <1>3 DEF Next

\* A step keeps the table free of double, foreign, freed and lost entries.
LEMMA TableStep ==
  ASSUME InjectiveKey, RegistryInv, [Next]_vars
  PROVE  (KeyInv /\ OneTracePerThread /\ NothingDangles)'
<1> USE NullAssumption, KeyAssumption, InitialIdAssumption DEF RegistryInv,
   TypeOK, LockInv, DataInv, EntryInv, OwnObject, OneTracePerThread, KeyInv,
   NothingDangles, Holding, Matches, Position, Adding, Using, Dropping
<1>1. CASE UNCHANGED vars
  BY <1>1 DEF vars, lock_vars, heap_vars, id_vars
<1>2. CASE Exhausted
  BY <1>2 DEF Exhausted, vars, lock_vars, heap_vars, id_vars
<1>3. ASSUME NEW t \in Thread, GetStep(t) \/ RemoveStep(t) \/ CallerStep(t)
      PROVE  (KeyInv /\ OneTracePerThread /\ NothingDangles)'
  <2>1. CASE Get(t)
    BY <2>1 DEF Get, Goto, lock_vars, heap_vars, id_vars
  <2>2. CASE RdLock(t)
    BY <2>2 DEF RdLock, Goto, lock_vars, heap_vars, id_vars, LockShared
  <2>3. CASE Find(t)
    BY <2>3 DEF Find, Goto, lock_vars, heap_vars, id_vars
  <2>4. CASE RdUnlock(t)
    BY <2>4 DEF RdUnlock, Goto, lock_vars, heap_vars, id_vars, UnlockShared
  <2>5. CASE ReadId(t)
    BY <2>5 DEF ReadId, Goto, lock_vars, heap_vars, id_vars
  <2>6. CASE BumpId(t)
    BY <2>6 DEF BumpId, Created, Goto, lock_vars, heap_vars, id_vars
  <2>7. CASE WrLock(t)
    BY <2>7 DEF WrLock, Goto, lock_vars, heap_vars, id_vars, LockExclusive
  <2>8. CASE Add(t)
    BY <2>8 DEF Add, Goto, lock_vars, heap_vars, id_vars
  <2>9. CASE WrUnlock(t)
    BY <2>9 DEF WrUnlock, Goto, lock_vars, heap_vars, id_vars, UnlockExclusive
  <2>10. CASE Return(t)
    BY <2>10 DEF Return, Goto, lock_vars, heap_vars, id_vars
  <2>11. CASE CallRemove(t)
    BY <2>11 DEF CallRemove, Goto, lock_vars, heap_vars, id_vars
  <2>12. CASE DelLock(t)
    BY <2>12 DEF DelLock, Goto, lock_vars, heap_vars, id_vars, LockExclusive
  <2>13. CASE Del(t)
    BY <2>13 DEF Del, Goto, lock_vars, heap_vars, id_vars
  <2>14. CASE DelUnlock(t)
    BY <2>14 DEF DelUnlock, Goto, lock_vars, heap_vars, id_vars, UnlockExclusive
  <2>15. CASE Free(t)
    BY <2>15 DEF Free, Goto, lock_vars, heap_vars, id_vars
  <2>16. QED
    BY <1>3, <2>1, <2>2, <2>3, <2>4, <2>5, <2>6, <2>7, <2>8, <2>9, <2>10,
       <2>11, <2>12, <2>13, <2>14, <2>15 DEF GetStep, RemoveStep, CallerStep
<1>4. QED
  BY <1>1, <1>2, <1>3 DEF Next

\* A step keeps the id counter ahead when probes run one at a time.
LEMMA SerialStep ==
  ASSUME InjectiveKey, RegistryInv, SerialInv, [Next]_vars
  PROVE  SerialInv'
<1> USE NullAssumption, KeyAssumption, InitialIdAssumption DEF RegistryInv,
   TypeOK, DataInv, NothingDangles, SerialInv, Numbered, Position, Adding,
   Using, Dropping
<1>1. CASE UNCHANGED vars
  BY <1>1 DEF vars, lock_vars, heap_vars, id_vars
<1>2. CASE Exhausted
  BY <1>2 DEF Exhausted, vars, lock_vars, heap_vars, id_vars
<1>3. ASSUME NEW t \in Thread, GetStep(t) \/ RemoveStep(t) \/ CallerStep(t)
      PROVE  SerialInv'
  <2>1. CASE Get(t)
    BY <2>1 DEF Get, Goto, lock_vars, heap_vars, id_vars
  <2>2. CASE RdLock(t)
    BY <2>2 DEF RdLock, Goto, lock_vars, heap_vars, id_vars, LockShared
  <2>3. CASE Find(t)
    BY <2>3 DEF Find, Goto, lock_vars, heap_vars, id_vars, Matches
  <2>4. CASE RdUnlock(t)
    BY <2>4 DEF RdUnlock, Goto, lock_vars, heap_vars, id_vars, UnlockShared
  <2>5. CASE ReadId(t)
    BY <2>5 DEF ReadId, Goto, lock_vars, heap_vars, id_vars
  <2>6. CASE BumpId(t)
    <3> SUFFICES ASSUME Serialised PROVE SerialInv'
      BY DEF SerialInv
    <3>1. pc[t] = "bump" /\ pc' = [pc EXCEPT ![t] = "wrlock"] /\ data[t] \in live
      BY <2>6 DEF BumpId, Created, Goto
    <3>2. /\ kieker_trace_current_id' = kieker_trace_current_id + 1
          /\ trace' = [trace EXCEPT ![data[t]] =
                         [thread_id |-> Key[t], trace_id |-> kieker_trace_current_id]]
          /\ UNCHANGED <<live, data>>
      BY <2>6, <3>1 DEF BumpId, Created
    <3>3. \A o \in Obj : Numbered(o)' /\ o # data[t] => Numbered(o) /\ trace'[o] = trace[o]
      BY <3>1, <3>2
    <3>4. \A o \in Obj : Numbered(o)' => trace'[o].trace_id < kieker_trace_current_id'
      BY <3>2, <3>3
    <3>5. \A o, p \in Obj :
            Numbered(o)' /\ Numbered(p)' /\ trace'[o].trace_id = trace'[p].trace_id => o = p
      BY <3>2, <3>3
    <3>6. \A u, v \in Thread : pc'[u] # "idle" /\ pc'[v] # "idle" => u = v
      BY <3>1
    <3>7. \A u \in Thread : pc'[u] # "bump"
      BY <3>1
    <3>8. QED
      BY <3>4, <3>5, <3>6, <3>7
  <2>7. CASE WrLock(t)
    BY <2>7 DEF WrLock, Goto, lock_vars, heap_vars, id_vars, LockExclusive
  <2>8. CASE Add(t)
    BY <2>8 DEF Add, Goto, lock_vars, heap_vars, id_vars
  <2>9. CASE WrUnlock(t)
    BY <2>9 DEF WrUnlock, Goto, lock_vars, heap_vars, id_vars, UnlockExclusive
  <2>10. CASE Return(t)
    BY <2>10 DEF Return, Goto, lock_vars, heap_vars, id_vars
  <2>11. CASE CallRemove(t)
    BY <2>11 DEF CallRemove, Goto, lock_vars, heap_vars, id_vars
  <2>12. CASE DelLock(t)
    BY <2>12 DEF DelLock, Goto, lock_vars, heap_vars, id_vars, LockExclusive
  <2>13. CASE Del(t)
    BY <2>13 DEF Del, Goto, lock_vars, heap_vars, id_vars
  <2>14. CASE DelUnlock(t)
    BY <2>14 DEF DelUnlock, Goto, lock_vars, heap_vars, id_vars, UnlockExclusive
  <2>15. CASE Free(t)
    BY <2>15 DEF Free, Goto, lock_vars, heap_vars, id_vars
  <2>16. QED
    BY <1>3, <2>1, <2>2, <2>3, <2>4, <2>5, <2>6, <2>7, <2>8, <2>9, <2>10,
       <2>11, <2>12, <2>13, <2>14, <2>15 DEF GetStep, RemoveStep, CallerStep
<1>4. QED
  BY <1>1, <1>2, <1>3 DEF Next

-----------------------------------------------------------------------------
\* The registry is correct in every reachable state: the threads, the lock, the
\* table and the heap agree on who owns which trace object.
THEOREM RegistryCorrect ==
  ASSUME InjectiveKey
  PROVE  Spec => []RegistryInv
<1>1. Init => RegistryInv
  BY NullAssumption, KeyAssumption, InitialIdAssumption
     DEF Init, RegistryInv, TypeOK, LockInv, DataInv, EntryInv, KeyInv, OwnObject,
         OneTracePerThread, NothingDangles, Holding, Matches, Position, Adding, Using, Dropping
<1>2. RegistryInv /\ [Next]_vars => RegistryInv'
  <2> SUFFICES ASSUME RegistryInv, [Next]_vars PROVE RegistryInv'
    OBVIOUS
  <2>1. TypeOK' /\ LockInv'
    BY TypeStep, LockStep DEF RegistryInv
  <2>2. DataInv' /\ OwnObject' /\ EntryInv'
    BY DataStep, OwnStep, EntryStep
  <2>3. KeyInv' /\ OneTracePerThread' /\ NothingDangles'
    BY TableStep
  <2>4. QED
    BY <2>1, <2>2, <2>3 DEF RegistryInv
<1>3. QED
  BY <1>1, <1>2, PTL DEF Spec

\* Every variable keeps its C type, kieker_traces links only what malloc returned.
THEOREM TypeCorrect ==
  ASSUME InjectiveKey
  PROVE  Spec => []TypeOK
<1>1. RegistryInv => TypeOK
  BY DEF RegistryInv
<1>2. QED
  BY RegistryCorrect, <1>1, PTL

\* kieker_trace_get hands no object to two threads, and none that was freed.
THEOREM ExclusiveOwnership ==
  ASSUME InjectiveKey
  PROVE  Spec => []OwnObject
<1>1. RegistryInv => OwnObject
  BY DEF RegistryInv
<1>2. QED
  BY RegistryCorrect, <1>1, PTL

\* The find and the add of kieker_trace_get lie in different critical sections,
\* and the table still never gets a second entry for a thread.
THEOREM NoDoubleEntry ==
  ASSUME InjectiveKey
  PROVE  Spec => []OneTracePerThread
<1>1. RegistryInv => OneTracePerThread
  BY DEF RegistryInv
<1>2. QED
  BY RegistryCorrect, <1>1, PTL

\* The table links no freed object, and no unlinked object is lost.
THEOREM NoLeakNoDangling ==
  ASSUME InjectiveKey
  PROVE  Spec => []NothingDangles
<1>1. RegistryInv => NothingDangles
  BY DEF RegistryInv
<1>2. QED
  BY RegistryCorrect, <1>1, PTL

\* HASH_FIND_INT never walks a table another thread is changing.  The lock alone
\* sees to it, so this holds for colliding keys too.
THEOREM StableDuringFind == Spec => NoMutationDuringFind
<1> DEFINE Inv == LockInv /\ pc \in [Thread -> Position]
              /\ readers \subseteq Thread /\ writer \in Thread \cup {NoThread}
<1>1. Init => Inv
  BY NullAssumption DEF Init, LockInv, Position
<1>2. Inv /\ [Next]_vars => Inv'
  <2> SUFFICES ASSUME Inv, [Next]_vars PROVE Inv'
    OBVIOUS
  <2> USE NullAssumption DEF LockInv, Position, Adding, Using, Dropping
  <2>1. CASE UNCHANGED vars
    BY <2>1 DEF vars
  <2>2. CASE Exhausted
    BY <2>2 DEF Exhausted, vars
  <2>3. ASSUME NEW t \in Thread, GetStep(t) PROVE Inv'
    BY <2>3 DEF GetStep, RdLock, Find, RdUnlock, ReadId, BumpId, Created, WrLock, Add,
      WrUnlock, Goto, LockShared, UnlockShared, LockExclusive, UnlockExclusive, lock_vars
  <2>4. ASSUME NEW t \in Thread, RemoveStep(t) PROVE Inv'
    BY <2>4 DEF RemoveStep, DelLock, Del, DelUnlock, Free, Goto, LockExclusive,
      UnlockExclusive, lock_vars
  <2>5. ASSUME NEW t \in Thread, CallerStep(t) PROVE Inv'
    BY <2>5 DEF CallerStep, Get, Return, CallRemove, Goto, lock_vars
  <2>6. QED
    BY <2>1, <2>2, <2>3, <2>4, <2>5 DEF Next
<1>3. Inv /\ [Next]_vars =>
        [kieker_traces' # kieker_traces => \A t \in Thread : pc[t] # "find"]_vars
  <2> SUFFICES ASSUME Inv, Next, kieker_traces' # kieker_traces
               PROVE  \A t \in Thread : pc[t] # "find"
    OBVIOUS
  <2>1. PICK u \in Thread : pc[u] \in {"add", "del"}
    BY DEF Next, Exhausted, vars, GetStep, RdLock, Find, RdUnlock, ReadId, BumpId, Created,
      WrLock, Add, WrUnlock, RemoveStep, DelLock, Del, DelUnlock, Free, CallerStep,
      Get, Return, CallRemove, Goto
  <2>2. QED
    BY <2>1, NullAssumption DEF LockInv
<1>4. QED
  BY <1>1, <1>2, <1>3, PTL DEF Spec, NoMutationDuringFind

-----------------------------------------------------------------------------
\* A program that runs one probe at a time draws every trace id once.
THEOREM UniqueIdsWhenSerialised ==
  ASSUME InjectiveKey, Serialised
  PROVE  Spec => []UniqueTraceIds
<1>1. Init => SerialInv
  BY DEF Init, SerialInv, Numbered
<1>2. RegistryInv /\ SerialInv /\ [Next]_vars => SerialInv'
  BY SerialStep
<1>3. RegistryInv /\ SerialInv => UniqueTraceIds
  BY Serialised DEF RegistryInv, TypeOK, DataInv, NothingDangles, SerialInv,
     Numbered,
     UniqueTraceIds, Adding
<1>4. QED
  BY RegistryCorrect, <1>1, <1>2, <1>3, PTL DEF Spec

-----------------------------------------------------------------------------
(* The registry implements TraceStore.                                      *)

LEMMA AnyOfMember == \A S : S # {} => AnyOf(S) \in S
BY DEF AnyOf

\* Steps that leave the table and its entries alone are invisible.
LEMMA InvisibleStep ==
  ASSUME UNCHANGED kieker_traces, \A o \in kieker_traces : trace'[o] = trace[o]
  PROVE  UNCHANGED CurrentTrace
<1>1. \A t \in Thread : Matches(t)' = Matches(t)
  BY DEF Matches
<1>2. \A t \in Thread : Matches(t) # {} =>
        trace'[AnyOf(Matches(t))] = trace[AnyOf(Matches(t))]
  BY AnyOfMember DEF Matches
<1>3. QED
  BY <1>1, <1>2 DEF CurrentTrace

\* Linking the object of a thread without entry starts its trace.
LEMMA AddStarts ==
  ASSUME InjectiveKey, RegistryInv, NEW t \in Thread, Add(t)
  PROVE  Store!Start(t)
<1>1. /\ data[t] \in Obj \ kieker_traces
      /\ trace[data[t]].thread_id = Key[t] /\ trace[data[t]].trace_id \in Nat
      /\ Matches(t) = {} /\ UNCHANGED trace
      /\ kieker_traces' = kieker_traces \cup {data[t]}
  BY NullAssumption DEF RegistryInv, TypeOK, DataInv, EntryInv, Adding, Add,
     Goto, heap_vars
<1>2. Matches(t)' = {data[t]}
  BY <1>1 DEF Matches
<1>3. \A u \in Thread \ {t} : Matches(u)' = Matches(u)
  BY <1>1 DEF Matches, InjectiveKey
<1>4. AnyOf({data[t]}) = data[t]
  BY AnyOfMember
<1>5. CurrentTrace' = [CurrentTrace EXCEPT ![t] = trace[data[t]].trace_id]
  BY <1>1, <1>2, <1>3, <1>4 DEF CurrentTrace
<1>6. CurrentTrace[t] = -1
  BY <1>1 DEF CurrentTrace
<1>7. QED
  BY <1>1, <1>5, <1>6 DEF Store!Start, CurrentTrace

\* Unlinking the object of a thread ends its trace and no other.
LEMMA DelEnds ==
  ASSUME InjectiveKey, RegistryInv, NEW t \in Thread, Del(t)
  PROVE  Store!End(t)
<1>1. /\ data[t] \in kieker_traces
      /\ trace[data[t]].thread_id = Key[t] /\ UNCHANGED trace
      /\ kieker_traces' = kieker_traces \ {data[t]}
  BY NullAssumption DEF RegistryInv, TypeOK, DataInv, EntryInv, Using, Del,
     Goto, heap_vars
<1>2. Matches(t) = {data[t]} /\ Matches(t)' = {}
  BY <1>1 DEF RegistryInv, OneTracePerThread, Matches
<1>3. \A u \in Thread \ {t} : Matches(u)' = Matches(u)
  BY <1>1 DEF Matches, InjectiveKey
<1>4. CurrentTrace' = [CurrentTrace EXCEPT ![t] = -1]
  BY <1>1, <1>2, <1>3 DEF CurrentTrace
<1>5. CurrentTrace[t] \in Nat
  BY <1>1, <1>2, AnyOfMember DEF CurrentTrace, RegistryInv, TypeOK
<1>6. QED
  BY <1>4, <1>5 DEF Store!End

\* Whatever the interleaving, the registry opens and closes the trace of a thread
\* in one step, and only on behalf of that thread.
THEOREM RegistryRefinesStore ==
  ASSUME InjectiveKey
  PROVE  Spec => ImplementsTraceStore
<1>1. Init => Store!Init
  BY DEF Init, Store!Init, CurrentTrace, Matches
<1>2. RegistryInv /\ [Next]_vars => [Store!Next]_CurrentTrace
  <2> SUFFICES ASSUME RegistryInv, [Next]_vars PROVE [Store!Next]_CurrentTrace
    OBVIOUS
  <2>1. CASE UNCHANGED vars \/ Exhausted
    BY <2>1, InvisibleStep DEF vars, Exhausted
  <2>2. ASSUME NEW t \in Thread, Add(t) PROVE [Store!Next]_CurrentTrace
    BY <2>2, AddStarts DEF Store!Next
  <2>3. ASSUME NEW t \in Thread, Del(t) PROVE [Store!Next]_CurrentTrace
    BY <2>3, DelEnds DEF Store!Next
  <2>4. ASSUME NEW t \in Thread, BumpId(t) PROVE [Store!Next]_CurrentTrace
    <3>1. data[t] \notin kieker_traces
      BY <2>4 DEF BumpId, Created, Goto, RegistryInv, DataInv, Adding
    <3>2. UNCHANGED kieker_traces /\ \A o \in kieker_traces : trace'[o] = trace[o]
      BY <2>4, <3>1 DEF BumpId, Created, RegistryInv, TypeOK
    <3>3. QED
      BY <3>2, InvisibleStep
  <2>5. ASSUME NEW t \in Thread,
               \/ GetStep(t) /\ ~Add(t) /\ ~BumpId(t)
               \/ RemoveStep(t) /\ ~Del(t)
               \/ CallerStep(t)
        PROVE  [Store!Next]_CurrentTrace
    <3>1. UNCHANGED <<kieker_traces, trace>>
      BY <2>5 DEF GetStep, RdLock, Find, RdUnlock, ReadId, WrLock,
         WrUnlock, RemoveStep,
        DelLock, DelUnlock, Free, CallerStep, Get, Return, CallRemove, heap_vars
    <3>2. QED
      BY <3>1, InvisibleStep
  <2>6. QED
    BY <2>1, <2>2, <2>3, <2>4, <2>5 DEF Next
<1>3. QED
  BY RegistryCorrect, <1>1, <1>2, PTL DEF Spec, ImplementsTraceStore, Store!Spec
===============================================================================
