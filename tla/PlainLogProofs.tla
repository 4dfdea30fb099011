----------------------------- MODULE PlainLogProofs ---------------------------
(***************************************************************************)
(* Proofs about the log the plain probes write, for any number of threads, *)
(* operations and calls.                                                   *)
(*                                                                         *)
(* They are about probes that do not overlap (Serialised); whatever writes *)
(* fail and wherever threads end, the collector knows a part of the table  *)
(* of strings and nothing else (TableInv), the buffer holds at each step   *)
(* what the running probe has put there, and the events of a trace arrive  *)
(* in the order of their indexes (OrderInv); so a record that arrives      *)
(* tells what its probe was called for (LoggedAsCalled).  If no write      *)
(* fails and every operation returns, the log follows MonitoringLog step   *)
(* by step and tells which operations the threads are in (LogInv).         *)
(***************************************************************************)
EXTENDS PlainProbeProofs, DataInduction, FiniteSetTheorems

-----------------------------------------------------------------------------
(* The functions on logs.                                                   *)

\* The operations a log tells of follow the recursion that defines them.
LEMMA InsideSolves ==
  ASSUME NEW S, NEW l \in Seq(S), NEW id, NEW X,
         \A n \in DOMAIN l : l[n].type # "metadata" => l[n].texts \in X
  PROVE  /\ Monitor!InsideAt(l, id) \in [0 .. Len(l) -> Seq(X)]
         /\ Monitor!InsideAt(l, id)[0] = <<>>
         /\ \A n \in 1 .. Len(l) :
              Monitor!InsideAt(l, id)[n] =
                IF l[n].trace = id /\ l[n].type # "metadata"
                THEN Monitor!After(Monitor!InsideAt(l, id)[n - 1], l[n]) ELSE Monitor!InsideAt(l, id)[n - 1]
<1> DEFINE D == [n \in Nat |-> [ops \in Seq(X) |->
                   IF n \in DOMAIN l /\ l[n].trace = id /\ l[n].type # "metadata"
                   THEN Monitor!After(ops, l[n]) ELSE ops]]
           Body(g) == [n \in 0 .. Len(l) |->
                         IF n = 0 THEN <<>>
                         ELSE IF l[n].trace = id /\ l[n].type # "metadata"
                         THEN Monitor!After(g[n - 1], l[n]) ELSE g[n - 1]]
<1>1. <<>> \in Seq(X) /\ Len(l) \in Nat /\ DOMAIN l = 1 .. Len(l)
  OBVIOUS
<1>2. ASSUME NEW ops \in Seq(X), NEW n \in DOMAIN l, l[n].type # "metadata"
      PROVE  Monitor!After(ops, l[n]) \in Seq(X)
  <2>1. Monitor!Front(ops) \in Seq(X)
    <3>1. CASE ops = <<>>
      BY <3>1 DEF Monitor!Front
    <3>2. CASE ops # <<>>
      <4>1. Len(ops) - 1 \in 0 .. Len(ops)
        BY <3>2
      <4>2. SubSeq(ops, 1, Len(ops) - 1) \in Seq(X)
        BY <4>1
      <4>3. QED
        BY <4>2 DEF Monitor!Front
    <3>3. QED
      BY <3>1, <3>2
  <2>2. QED
    BY <1>2, <2>1 DEF Monitor!After, Monitor!Front
<1>3. D \in [Nat -> [Seq(X) -> Seq(X)]]
  BY <1>2
<1>4. PICK g : Solves(g, Seq(X), <<>>, D, Len(l))
  BY <1>1, <1>3, RecursionUpTo
<1>5. g \in [0 .. Len(l) -> Seq(X)] /\ g[0] = <<>>
  <2> HIDE DEF D
  <2>1. QED
    BY <1>4 DEF Solves
<1>6. ASSUME NEW n \in 1 .. Len(l)
      PROVE  g[n] = IF l[n].trace = id /\ l[n].type # "metadata"
                    THEN Monitor!After(g[n - 1], l[n]) ELSE g[n - 1]
  <2>1. g[n - 1] \in Seq(X)
    BY <1>5
  <2>2. D[n][g[n - 1]] = IF l[n].trace = id /\ l[n].type # "metadata"
                         THEN Monitor!After(g[n - 1], l[n]) ELSE g[n - 1]
    BY <2>1, <1>1
  <2>3. QED
    BY <1>4, <2>2 DEF Solves
<1>7. g = Body(g)
  <2>1. \A n \in 0 .. Len(l) : g[n] = Body(g)[n]
    BY <1>5, <1>6
  <2>2. QED
    BY <1>5, <2>1
<1>8. Monitor!InsideAt(l, id) = Body(Monitor!InsideAt(l, id))
  BY <1>7 DEF Monitor!InsideAt
<1>9. Monitor!InsideAt(l, id) = g
  <2> DEFINE f == Monitor!InsideAt(l, id)
  <2>1. f = Body(f)
    BY <1>8
  <2> HIDE DEF f
  <2>2. /\ f[0] = <<>>
        /\ \A n \in 1 .. Len(l) :
             f[n] = IF l[n].trace = id /\ l[n].type # "metadata"
                    THEN Monitor!After(f[n - 1], l[n]) ELSE f[n - 1]
    <3>1. \A n \in 0 .. Len(l) : f[n] = Body(f)[n]
      BY <2>1
    <3>2. QED
      BY <3>1, <1>1
  <2>3. GrowAlike(f, g, Len(l))
    BY <1>5, <1>6, <2>2 DEF GrowAlike
  <2>4. \A n \in 0 .. Len(l) : f[n] = g[n]
    BY <1>1, <2>3, SameUpTo
  <2>5. f = [n \in 0 .. Len(l) |-> f[n]]
    BY <2>1
  <2>6. QED
    BY <2>4, <2>5, <1>5 DEF f
<1>10. QED
  BY <1>5, <1>6, <1>9

\* One more record is one more step of the recursion.
LEMMA InsideAppend ==
  ASSUME NEW l \in Seq(Received), NEW e \in Received, NEW id
  PROVE  /\ Monitor!InsideAt(l, id)[Len(l)] \in Seq(Texts)
         /\ Monitor!InsideAt(Append(l, e), id)[Len(Append(l, e))] =
             IF e.trace = id /\ e.type # "metadata"
             THEN Monitor!After(Monitor!InsideAt(l, id)[Len(l)], e) ELSE Monitor!InsideAt(l, id)[Len(l)]
<1> DEFINE k == Append(l, e)
           f == Monitor!InsideAt(l, id)
           g == Monitor!InsideAt(k, id)
<1>1. /\ k \in Seq(Received) /\ Len(l) \in Nat /\ Len(k) = Len(l) + 1
      /\ k[Len(l) + 1] = e /\ \A n \in 1 .. Len(l) : k[n] = l[n]
  OBVIOUS
<1>2. /\ f \in [0 .. Len(l) -> Seq(Texts)] /\ f[0] = <<>>
      /\ \A n \in 1 .. Len(l) :
           f[n] = IF l[n].trace = id /\ l[n].type # "metadata"
                  THEN Monitor!After(f[n - 1], l[n]) ELSE f[n - 1]
  <2>1. \A n \in DOMAIN l : l[n].type # "metadata" => l[n].texts \in Texts
    BY DEF Received
  <2>2. QED
    BY <2>1, InsideSolves
<1>3. /\ g[0] = <<>>
      /\ \A n \in 1 .. Len(k) :
           g[n] = IF k[n].trace = id /\ k[n].type # "metadata"
                  THEN Monitor!After(g[n - 1], k[n]) ELSE g[n - 1]
  <2>1. \A n \in DOMAIN k : k[n].type # "metadata" => k[n].texts \in Texts
    <3> HIDE DEF k
    <3>1. QED
      BY <1>1 DEF Received
  <2> HIDE DEF k
  <2>2. QED
    BY <1>1, <2>1, InsideSolves
<1> HIDE DEF k, f, g
<1>4. \A n \in 0 .. Len(l) : f[n] = g[n]
  <2>1. GrowAlike(f, g, Len(l))
    <3>1. ASSUME NEW n \in 1 .. Len(l), f[n - 1] = g[n - 1] PROVE f[n] = g[n]
      <4>1. n \in 1 .. Len(k) /\ k[n] = l[n]
        BY <1>1
      <4>2. g[n] = IF l[n].trace = id /\ l[n].type # "metadata"
                   THEN Monitor!After(f[n - 1], l[n]) ELSE f[n - 1]
        BY <1>3, <3>1, <4>1, Zenon
      <4>3. QED
        BY <1>2, <4>2, Zenon
    <3>2. f[0] = g[0]
      BY <1>2, <1>3
    <3>3. QED
      BY <3>1, <3>2 DEF GrowAlike
  <2>2. QED
    BY <1>1, <2>1, SameUpTo
<1>5. g[Len(k)] = IF e.trace = id /\ e.type # "metadata"
                  THEN Monitor!After(f[Len(l)], e) ELSE f[Len(l)]
  <2>1. Len(k) \in 1 .. Len(k) /\ Len(k) - 1 = Len(l) /\ k[Len(k)] = e
    BY <1>1
  <2>2. g[Len(l)] = f[Len(l)]
    BY <1>1, <1>4
  <2>3. QED
    BY <1>3, <2>1, <2>2
<1>6. f[Len(l)] \in Seq(Texts)
  BY <1>1, <1>2
<1>7. QED
  BY <1>5, <1>6 DEF f, g, k

-----------------------------------------------------------------------------
(* The table and the strings the collector knows.                           *)

\* A probe sees its strings in the set of strings.
LEMMA StringsKnown ==
  ASSUME TableInv, ProbeInv, NEW t \in Thread
  PROVE  /\ Signature(t) \in Text /\ ClassName \in Text
         /\ NoSession \in Text /\ LocalHost \in Text
<1>1. call[t].op \in Op \cup {ClassName}
  BY DEF ProbeInv
<1>2. QED
  BY <1>1 DEF TableInv, Signature, Text

\* A thread that wants no strings has no keys and looks nothing up.
LEMMA AtRest ==
  ASSUME TableInv, NEW t \in Thread, Wanted(t) = <<>>
  PROVE  lookup[t] = "scan" /\ keys[t] = <<>> /\ ~Lookup(t)
<1>1. keys[t] \in Seq(Nat) /\ LookupInv(t) /\ Len(Wanted(t)) = 0
  BY DEF TableInv
<1>2. lookup[t] = "scan" /\ Len(keys[t]) = 0
  BY <1>1 DEF LookupInv
<1>3. keys[t] = <<>>
  BY <1>1, <1>2
<1>4. ~Lookup(t)
  BY <1>1, <1>2 DEF Lookup, Scan, Fill, Write, StoreValue, BumpTop, Added, Looks
<1>5. QED
  BY <1>2, <1>3, <1>4

\* Strings are wanted at two places of a probe, two at a time.
LEMMA OnlyInProbes ==
  ASSUME TableInv, ProbeInv, NEW t \in Thread
  PROVE  /\ Wanted(t) \in Seq(Text) /\ Len(Wanted(t)) \in {0, 2}
         /\ Wanted(t) # <<>> => Len(Wanted(t)) = 2 /\ step[t] \in {"get", "event"} /\ pc[t] = "got"
         /\ step[t] = "out" => ~Lookup(t)
<1>1. /\ Signature(t) \in Text /\ ClassName \in Text
      /\ NoSession \in Text /\ LocalHost \in Text
  BY StringsKnown
<1>2. /\ <<Signature(t), ClassName>> \in Seq(Text) /\ Len(<<Signature(t), ClassName>>) = 2
      /\ <<NoSession, LocalHost>> \in Seq(Text) /\ Len(<<NoSession, LocalHost>>) = 2
      /\ <<>> \in Seq(Text) /\ Len(<<>>) = 0
  BY <1>1
<1>3. StageInv(t)
  BY DEF ProbeInv
<1>4. step[t] = "event" => pc[t] = "got"
  BY <1>3 DEF StageInv
<1>5. step[t] = "out" => Wanted(t) = <<>>
  BY DEF Wanted
<1>6. QED
  BY <1>2, <1>4, <1>5, AtRest DEF Wanted

\* A step of a probe, or a call of one.
ProbeMove(u) == ProbeStep(u) \/ CallAfter(u) \/ \E op \in Op : CallBefore(u, op)

\* While a thread is in a probe the others are not, and its steps leave them alone.
LEMMA Alone ==
  ASSUME Serialised, SerialInv, RegistryInv, ProbeInv, TableInv,
         NEW u \in Thread, ProbeMove(u), NEW t \in Thread, t # u
  PROVE  /\ pc[t] = "idle" /\ step[t] = "out" /\ pc'[t] = "idle" /\ step'[t] = "out"
         /\ data'[t] = data[t] /\ call'[t] = call[t] /\ frames'[t] = frames[t]
<1>1. StageInv(t) /\ StageInv(u) /\ DOMAIN step = Thread /\ DOMAIN call = Thread
      /\ DOMAIN frames = Thread /\ DOMAIN pc = Thread /\ DOMAIN data = Thread
  BY DEF ProbeInv, RegistryInv, TypeOK
<1>2. pc[t] = "idle"
  <2>1. CASE pc[u] # "idle"
    BY <2>1 DEF SerialInv
  <2>2. CASE pc[u] = "idle"
    <3>1. step[u] = "out"
      BY <1>1, <2>2 DEF StageInv
    <3>2. Get(u)
      BY <3>1, OnlyInProbes DEF ProbeMove, ProbeStep, InGet, Metadata, Count, Event, Send,
         EndOfProbe, InRemove, Stage, CallAfter, CallBefore
    <3>3. QED
      BY <3>2 DEF Get
  <2>3. QED
    BY <2>1, <2>2
<1>3. step[t] = "out"
  BY <1>1, <1>2 DEF StageInv
<1>4. step'[t] = step[t] /\ call'[t] = call[t] /\ frames'[t] = frames[t]
  BY <1>1 DEF ProbeMove, ProbeStep, InGet, Lookup, Metadata, Count, Event, Send, EndOfProbe,
     InRemove, Stage, CallAfter, CallBefore, program_vars
<1>5. pc'[t] = pc[t] /\ data'[t] = data[t]
  <2>1. \/ GetStep(u) \/ RemoveStep(u) \/ CallerStep(u)
        \/ UNCHANGED vars
    BY DEF ProbeMove, ProbeStep, InGet, Lookup, Metadata, Count, Event, Send, EndOfProbe, InRemove,
       CallAfter, CallBefore, CallerStep
  <2>2. QED
    BY <1>1, <2>1 DEF vars, GetStep, RemoveStep, CallerStep, RdLock, Find, RdUnlock, ReadId,
       BumpId, Created, WrLock, Add, WrUnlock, DelLock, Del, DelUnlock, Free, Get, Return,
       CallRemove, Goto
<1>6. QED
  BY <1>2, <1>3, <1>4, <1>5

\* When nobody looks up a string, the collector knows none that is not in the table.
LEMMA NobodyLooks ==
  ASSUME TableInv, \A t \in Thread : Wanted(t) = <<>>
  PROVE  /\ top = Len(table)
         /\ \A k \in DOMAIN announced :
              k \in Nat /\ k < Len(table) /\ k + 1 \in DOMAIN table /\ announced[k] = table[k + 1]
<1>1. \A t \in Thread : lookup[t] = "scan"
  BY AtRest
<1>2. top = Len(table) /\ table \in Seq(Text)
  BY <1>1 DEF TableInv
<1>3. ASSUME NEW k \in DOMAIN announced
      PROVE  k \in Nat /\ k < Len(table) /\ k + 1 \in DOMAIN table /\ announced[k] = table[k + 1]
  <2>1. k \in Nat /\ Announced(k)
    BY DEF TableInv
  <2>2. k < top /\ announced[k] = table[k + 1]
    BY <1>1, <2>1 DEF Announced
  <2>3. QED
    BY <1>2, <2>1, <2>2
<1>4. QED
  BY <1>2, <1>3

\* A step that looks up nothing, and after which nobody is at it.
LEMMA TableRests ==
  ASSUME TableInv, UNCHANGED <<table, announced, top, lookup, value, at>>,
         fqn' \in Op \cup {ClassName}, keys' \in [Thread -> Seq(Nat)],
         \A t \in Thread : lookup[t] = "scan" /\ keys'[t] = <<>>
  PROVE  TableInv'
<1>1. ASSUME NEW t \in Thread PROVE LookupInv(t)'
  <2>1. Len(Wanted(t)') \in Nat
    BY DEF Wanted
  <2>2. Len(keys'[t]) = 0 /\ DOMAIN keys'[t] = {}
    OBVIOUS
  <2>3. QED
    BY <2>1, <2>2 DEF LookupInv
<1>2. \A k \in DOMAIN announced' : Announced(k)'
  BY DEF TableInv, Announced
<1>3. QED
  BY <1>1, <1>2 DEF TableInv

\* A step that changes nothing the lookups depend on.
LEMMA TableStays ==
  ASSUME TableInv,
         UNCHANGED <<table, announced, top, string_buffer, lookup, value, at, keys, fqn>>,
         \A t \in Thread : Wanted(t)' = Wanted(t)
  PROVE  TableInv'
<1>1. \A t \in Thread : LookupInv(t)'
  BY DEF TableInv, LookupInv
<1>2. \A k \in DOMAIN announced' : Announced(k)'
  BY DEF TableInv, Announced
<1>3. QED
  BY <1>1, <1>2 DEF TableInv

\* A step of a lookup that is the only one.
LEMMA TableLookup ==
  ASSUME Serialised, SerialInv, RegistryInv, ProbeInv, TableInv, NEW u \in Thread, Lookup(u)
  PROVE  TableInv'
<1> DEFINE W == Wanted(u)
<1>1. /\ table \in Seq(Text) /\ top \in Nat /\ fqn' = fqn
      /\ lookup \in [Thread -> {"scan", "fill", "write", "store", "bump", "added"}]
      /\ value \in [Thread -> Text \cup {NoMessage}] /\ at \in [Thread -> Nat]
      /\ keys \in [Thread -> Seq(Nat)] /\ keys[u] \in Seq(Nat) /\ LookupInv(u)
      /\ Len(keys[u]) \in Nat
  BY DEF TableInv, Lookup, program_vars
<1>2. \A t \in Thread : Wanted(t)' = Wanted(t)
  BY DEF Lookup, vars, object_vars, program_vars, Wanted, Signature, NeedsMetadata
<1>3. ASSUME NEW t \in Thread, t # u PROVE lookup[t] = "scan" /\ keys[t] = <<>>
  <2>1. step[t] = "out"
    BY <1>3, Alone DEF ProbeMove, ProbeStep
  <2>2. Wanted(t) = <<>>
    BY <2>1 DEF Wanted
  <2>3. QED
    BY <2>2, AtRest
<1>4. ASSUME NEW t \in Thread, t # u, lookup'[t] = lookup[t], keys'[t] = keys[t]
      PROVE  LookupInv(t)'
  <2>1. lookup'[t] = "scan" /\ keys'[t] = <<>> /\ Len(Wanted(t)') \in Nat
    BY <1>3, <1>4 DEF Wanted
  <2>2. Len(keys'[t]) = 0 /\ DOMAIN keys'[t] = {}
    BY <2>1
  <2>3. QED
    BY <2>1, <2>2 DEF LookupInv
<1>5. /\ W \in Seq(Text) /\ Len(W) = 2 /\ Len(keys[u]) <= 2
      /\ Len(keys[u]) < Len(W) => W[Len(keys[u]) + 1] \in Text
  <2>1. W # <<>>
    BY AtRest
  <2>2. W \in Seq(Text) /\ Len(W) = 2
    BY <2>1, OnlyInProbes
  <2>3. Len(keys[u]) <= 2
    BY <1>1, <2>2 DEF LookupInv
  <2>4. \A n \in 1 .. 2 : W[n] \in Text
    <3> HIDE DEF W
    <3>1. QED
      BY <2>2
  <2>5. Len(keys[u]) < 2 => Len(keys[u]) + 1 \in 1 .. 2
    BY <1>1
  <2> HIDE DEF W
  <2>6. Len(keys[u]) < Len(W) => W[Len(keys[u]) + 1] \in Text
    BY <2>2, <2>4, <2>5
  <2>7. QED
    BY <2>2, <2>3, <2>6
<1>6. /\ \A n \in DOMAIN EventTypes : n <= top /\ table[n] = EventTypes[n]
                                      /\ n - 1 \in DOMAIN announced
      /\ top = Len(table) \/ (lookup[u] = "bump" /\ Len(table) = top + 1)
      /\ DOMAIN announced \subseteq Nat
      /\ WriteMayFail \/ 0 .. top - 1 \subseteq DOMAIN announced
  BY <1>3 DEF TableInv
<1>7. \A k \in DOMAIN announced :
        \/ k < top /\ announced[k] = table[k + 1]
        \/ k = top /\ lookup[u] \in {"store", "bump"} /\ announced[k] = value[u]
  BY <1>3 DEF TableInv, Announced
<1>8. DOMAIN EventTypes = 1 .. 3 /\ top >= 3
  <2>1. DOMAIN EventTypes = 1 .. 3
    BY DEF EventTypes
  <2>2. QED
    BY <1>1, <1>6, <2>1
<1> HIDE DEF W
<1>9. CASE Scan(u)
  <2>1. lookup[u] = "scan" /\ Len(keys[u]) < Len(W) /\ UNCHANGED <<table, announced, top, at>>
    BY <1>9 DEF Scan, W
  <2>2. CASE UNCHANGED <<lookup, value>>
    <3>1. PICK k \in 0 .. top - 1 :
            table[k + 1] = W[Len(keys[u]) + 1] /\ keys' = [keys EXCEPT ![u] = Append(@, k)]
      BY <1>1, <1>9, <2>1, <2>2 DEF Scan, Looks, W
    <3>2. keys'[u] = Append(keys[u], k) /\ k \in Nat
      BY <1>1, <3>1
    <3>3. /\ keys'[u] \in Seq(Nat) /\ Len(keys'[u]) = Len(keys[u]) + 1
          /\ DOMAIN keys'[u] = 1 .. Len(keys[u]) + 1
          /\ keys'[u][Len(keys[u]) + 1] = k
          /\ \A n \in 1 .. Len(keys[u]) : keys'[u][n] = keys[u][n]
      BY <1>1, <3>2
    <3>4. \A n \in DOMAIN keys[u] : keys[u][n] < top /\ table[keys[u][n] + 1] = W[n]
      BY <1>1 DEF LookupInv, W
    <3>5. \A n \in DOMAIN keys'[u] : keys'[u][n] < top /\ table[keys'[u][n] + 1] = W[n]
      <4> SUFFICES ASSUME NEW n \in 1 .. Len(keys[u]) + 1
                   PROVE  keys'[u][n] < top /\ table[keys'[u][n] + 1] = W[n]
        BY <3>3
      <4>1. CASE n = Len(keys[u]) + 1
        BY <1>1, <3>1, <3>3, <4>1
      <4>2. CASE n # Len(keys[u]) + 1
        <5>1. n \in DOMAIN keys[u]
          BY <1>1, <4>2
        <5>2. QED
          BY <3>3, <3>4, <5>1
      <4>3. QED
        BY <4>1, <4>2
    <3>6. Wanted(u)' = W
      BY <1>2 DEF W
    <3>7. LookupInv(u)'
      <4>1. Len(keys'[u]) <= Len(W)
        BY <1>1, <1>5, <2>1, <3>3
      <4>2. lookup'[u] = "scan"
        BY <2>1, <2>2
      <4>3. QED
        BY <2>1, <3>5, <3>6, <4>1, <4>2 DEF LookupInv
    <3>8. \A t \in Thread : t # u => keys'[t] = keys[t] /\ lookup'[t] = lookup[t]
      BY <1>1, <2>2, <3>1
    <3>9. keys' \in [Thread -> Seq(Nat)]
      BY <1>1, <3>1, <3>2, <3>3
    <3>10. \A t \in Thread : LookupInv(t)'
      BY <1>4, <3>7, <3>8
    <3>11. \A k2 \in DOMAIN announced' : Announced(k2)'
      BY <1>7, <2>1, <2>2 DEF Announced
    <3>12. QED
      BY <1>1, <1>6, <2>1, <2>2, <3>9, <3>10, <3>11 DEF TableInv
  <2>3. CASE ~UNCHANGED <<lookup, value>>
    <3>1. /\ lookup' = [lookup EXCEPT ![u] = "fill"] /\ UNCHANGED keys
          /\ value' = [value EXCEPT ![u] = W[Len(keys[u]) + 1]]
      BY <1>9, <2>3 DEF Scan, Looks, W
    <3>2. W[Len(keys[u]) + 1] \in Text
      BY <1>5, <2>1
    <3>3. Wanted(u)' = W
      BY <1>2 DEF W
    <3>4. LookupInv(u)'
      <4>1. lookup'[u] = "fill" /\ value'[u] = W[Len(keys[u]) + 1] /\ keys'[u] = keys[u]
        BY <1>1, <3>1
      <4>2. QED
        BY <1>1, <2>1, <3>3, <4>1 DEF LookupInv, W
    <3>5. \A t \in Thread : LookupInv(t)'
      BY <1>1, <1>4, <3>1, <3>4
    <3>6. \A k \in DOMAIN announced' : Announced(k)'
      BY <1>7, <2>1 DEF Announced
    <3>7. /\ lookup' \in [Thread -> {"scan", "fill", "write", "store", "bump", "added"}]
          /\ value' \in [Thread -> Text \cup {NoMessage}]
      BY <1>1, <3>1, <3>2
    <3>8. QED
      BY <1>1, <1>6, <2>1, <3>1, <3>5, <3>6, <3>7 DEF TableInv
  <2>4. QED
    BY <2>2, <2>3
<1>10. CASE Fill(u)
  <2>1. /\ lookup[u] = "fill" /\ lookup' = [lookup EXCEPT ![u] = "write"]
        /\ string_buffer' = [id |-> top, text |-> value[u]]
        /\ UNCHANGED <<table, announced, top, value, at, keys>>
    BY <1>10 DEF Fill, Looks
  <2>2. lookup'[u] = "write" /\ Wanted(u)' = W
    BY <1>1, <1>2, <2>1 DEF W
  <2>3. LookupInv(u)'
    BY <1>1, <2>1, <2>2 DEF LookupInv, W
  <2>4. \A t \in Thread : LookupInv(t)'
    BY <1>1, <1>4, <2>1, <2>3
  <2>5. \A k \in DOMAIN announced' : Announced(k)'
    BY <1>7, <2>1 DEF Announced
  <2>6. lookup' \in [Thread -> {"scan", "fill", "write", "store", "bump", "added"}]
    BY <1>1, <2>1
  <2>7. QED
    BY <1>1, <1>6, <2>1, <2>4, <2>5, <2>6 DEF TableInv
<1>11. CASE Write(u)
  <2>1. /\ lookup[u] = "write" /\ lookup' = [lookup EXCEPT ![u] = "store"]
        /\ UNCHANGED <<table, top, value, at, keys>>
        /\ string_buffer.id = top /\ string_buffer.text = value[u]
    BY <1>1, <1>11 DEF Write, Looks, LookupInv
  <2>2. lookup'[u] = "store" /\ Wanted(u)' = W
    BY <1>1, <1>2, <2>1 DEF W
  <2>3. \/ /\ DOMAIN announced' = DOMAIN announced \cup {top} /\ announced'[top] = value[u]
           /\ \A k \in DOMAIN announced \ {top} : announced'[k] = announced[k]
        \/ WriteMayFail /\ announced' = announced
    BY <1>11, <2>1 DEF Write
  <2>4. LookupInv(u)'
    BY <1>1, <2>1, <2>2, <2>3 DEF LookupInv, W
  <2>5. \A t \in Thread : LookupInv(t)'
    BY <1>1, <1>4, <2>1, <2>4
  <2>6. ASSUME NEW k \in DOMAIN announced' PROVE Announced(k)'
    <3>1. CASE k = top /\ ~(announced' = announced)
      BY <2>1, <2>2, <2>3, <3>1 DEF Announced
    <3>2. CASE k # top \/ announced' = announced
      <4>1. k \in DOMAIN announced /\ announced'[k] = announced[k]
        BY <2>3, <2>6, <3>2
      <4>2. QED
        BY <1>7, <2>1, <4>1 DEF Announced
    <3>3. QED
      BY <3>1, <3>2
  <2>7. /\ lookup' \in [Thread -> {"scan", "fill", "write", "store", "bump", "added"}]
        /\ DOMAIN announced \subseteq DOMAIN announced' /\ DOMAIN announced' \subseteq Nat
    BY <1>1, <1>6, <2>1, <2>3
  <2>8. top' = Len(table')
    BY <1>6, <2>1
  <2>9. QED
    BY <1>1, <1>6, <2>1, <2>5, <2>6, <2>7, <2>8 DEF TableInv
<1>12. CASE StoreValue(u)
  <2>1. /\ lookup[u] = "store" /\ lookup' = [lookup EXCEPT ![u] = "bump"]
        /\ at' = [at EXCEPT ![u] = top] /\ UNCHANGED <<announced, top, value, keys>>
        /\ top = Len(table) /\ table' = Append(table, value[u])
    BY <1>1, <1>6, <1>12 DEF StoreValue, Looks
  <2>2. lookup'[u] = "bump" /\ at'[u] = top /\ Wanted(u)' = W
    BY <1>1, <1>2, <2>1 DEF W
  <2>3. value[u] = W[Len(keys[u]) + 1] /\ Len(keys[u]) < Len(W)
        /\ (WriteMayFail \/ top \in DOMAIN announced)
        /\ \A n \in DOMAIN keys[u] : keys[u][n] < top /\ table[keys[u][n] + 1] = W[n]
    BY <1>1, <2>1 DEF LookupInv, W
  <2>4. value[u] \in Text
    BY <1>5, <2>3
  <2>5. /\ table' \in Seq(Text) /\ Len(table') = top + 1 /\ table'[top + 1] = value[u]
        /\ \A k \in Nat : k < top => table'[k + 1] = table[k + 1]
        /\ \A n \in 1 .. 3 : table'[n] = table[n]
    BY <1>1, <1>8, <2>1, <2>4
  <2>6. \A n \in DOMAIN keys[u] : keys[u][n] \in Nat
    BY <1>1
  <2>7. LookupInv(u)'
    BY <1>1, <2>1, <2>2, <2>3, <2>5, <2>6 DEF LookupInv, W
  <2>8. \A t \in Thread : LookupInv(t)'
    BY <1>1, <1>4, <2>1, <2>7
  <2>9. \A k \in DOMAIN announced' : Announced(k)'
    BY <1>6, <1>7, <2>1, <2>2, <2>5 DEF Announced
  <2>10. /\ lookup' \in [Thread -> {"scan", "fill", "write", "store", "bump", "added"}]
         /\ at' \in [Thread -> Nat]
    BY <1>1, <2>1
  <2>11. QED
    BY <1>1, <1>6, <1>8, <2>1, <2>2, <2>5, <2>8, <2>9, <2>10 DEF TableInv
<1>13. CASE BumpTop(u)
  <2>1. /\ lookup[u] = "bump" /\ lookup' = [lookup EXCEPT ![u] = "added"]
        /\ top' = at[u] + 1 /\ UNCHANGED <<table, announced, value, at, keys>>
    BY <1>13 DEF BumpTop, Looks
  <2>2. lookup'[u] = "added" /\ Wanted(u)' = W
    BY <1>1, <1>2, <2>1 DEF W
  <2>3. /\ at[u] = top /\ top < Len(table) /\ table[top + 1] = value[u]
        /\ (WriteMayFail \/ top \in DOMAIN announced)
        /\ \A n \in DOMAIN keys[u] : keys[u][n] < top
    BY <1>1, <2>1 DEF LookupInv
  <2>4. top' = top + 1 /\ Len(table) = top + 1 /\ Len(table) \in Nat
    BY <1>1, <1>6, <2>1, <2>3
  <2>5. \A n \in DOMAIN keys[u] : keys[u][n] \in Nat
    BY <1>1
  <2>6. LookupInv(u)'
    BY <1>1, <2>1, <2>2, <2>3, <2>4, <2>5 DEF LookupInv, W
  <2>7. \A t \in Thread : LookupInv(t)'
    BY <1>1, <1>4, <2>1, <2>6
  <2>8. \A k \in DOMAIN announced' : Announced(k)'
    BY <1>1, <1>6, <1>7, <2>1, <2>3, <2>4 DEF Announced
  <2>9. lookup' \in [Thread -> {"scan", "fill", "write", "store", "bump", "added"}]
    BY <1>1, <2>1
  <2>10. WriteMayFail \/ 0 .. top' - 1 \subseteq DOMAIN announced'
    BY <1>1, <1>6, <2>1, <2>3, <2>4
  <2>11. \A n \in 1 .. 3 : n <= top'
    BY <1>1, <1>8, <2>4
  <2>12. QED
    BY <1>1, <1>6, <1>8, <2>1, <2>4, <2>7, <2>8, <2>9, <2>10, <2>11 DEF TableInv
<1>14. CASE Added(u)
  <2>1. /\ lookup[u] = "added" /\ lookup' = [lookup EXCEPT ![u] = "scan"]
        /\ keys' = [keys EXCEPT ![u] = Append(@, top - 1)]
        /\ value' = [value EXCEPT ![u] = NoMessage] /\ at' = [at EXCEPT ![u] = 0]
        /\ UNCHANGED <<table, announced, top>>
    BY <1>14 DEF Added, Looks
  <2>2. lookup'[u] = "scan" /\ keys'[u] = Append(keys[u], top - 1) /\ Wanted(u)' = W
    BY <1>1, <1>2, <2>1 DEF W
  <2>3. /\ Len(keys[u]) < Len(W) /\ table[top] = W[Len(keys[u]) + 1]
        /\ \A n \in DOMAIN keys[u] : keys[u][n] < top /\ table[keys[u][n] + 1] = W[n]
    BY <1>1, <2>1 DEF LookupInv, W
  <2>4. top - 1 \in Nat /\ (top - 1) + 1 = top /\ top - 1 < top
    BY <1>1, <1>8
  <2>5. /\ keys'[u] \in Seq(Nat) /\ Len(keys'[u]) = Len(keys[u]) + 1
        /\ DOMAIN keys'[u] = 1 .. Len(keys[u]) + 1
        /\ keys'[u][Len(keys[u]) + 1] = top - 1
        /\ \A n \in 1 .. Len(keys[u]) : keys'[u][n] = keys[u][n]
    BY <1>1, <2>2, <2>4
  <2>6. \A n \in DOMAIN keys'[u] : keys'[u][n] < top /\ table[keys'[u][n] + 1] = W[n]
    <3> SUFFICES ASSUME NEW n \in 1 .. Len(keys[u]) + 1
                 PROVE  keys'[u][n] < top /\ table[keys'[u][n] + 1] = W[n]
      BY <2>5
    <3>1. CASE n = Len(keys[u]) + 1
      BY <1>1, <2>3, <2>4, <2>5, <3>1
    <3>2. CASE n # Len(keys[u]) + 1
      <4>1. n \in DOMAIN keys[u]
        BY <1>1, <3>2
      <4>2. QED
        BY <2>3, <2>5, <4>1
    <3>3. QED
      BY <3>1, <3>2
  <2>7. LookupInv(u)'
    BY <1>1, <1>5, <2>1, <2>2, <2>3, <2>5, <2>6 DEF LookupInv
  <2>8. \A t \in Thread : t # u => keys'[t] = keys[t] /\ lookup'[t] = lookup[t]
    BY <1>1, <2>1
  <2>9. \A t \in Thread : LookupInv(t)'
    BY <1>4, <2>7, <2>8
  <2>10. \A k \in DOMAIN announced' : Announced(k)'
    BY <1>7, <2>1 DEF Announced
  <2>11. /\ lookup' \in [Thread -> {"scan", "fill", "write", "store", "bump", "added"}]
         /\ value' \in [Thread -> Text \cup {NoMessage}] /\ at' \in [Thread -> Nat]
         /\ keys' \in [Thread -> Seq(Nat)]
    BY <1>1, <2>1, <2>4, <2>5
  <2>12. QED
    BY <1>1, <1>6, <2>1, <2>9, <2>10, <2>11 DEF TableInv
<1>15. QED
  BY <1>9, <1>10, <1>11, <1>12, <1>13, <1>14 DEF Lookup

LEMMA StringsStep ==
  ASSUME Serialised, SerialInv, RegistryInv, ProbeInv, TableInv, [ProbeNext]_all_vars
  PROVE  TableInv'
<1>1. /\ fqn \in Op \cup {ClassName} /\ keys \in [Thread -> Seq(Nat)]
      /\ \A t \in Thread : LookupInv(t)
  BY DEF TableInv
<1>2. CASE UNCHANGED all_vars
  <2>1. UNCHANGED <<table, announced, top, string_buffer, lookup, value, at, keys, fqn>>
    BY <1>2 DEF all_vars, probe_vars, out_vars, wire_vars, lookup_vars, program_vars
  <2>2. \A t \in Thread : Wanted(t)' = Wanted(t)
    BY <1>2 DEF all_vars, probe_vars, vars, object_vars, program_vars, Wanted, Signature,
       NeedsMetadata
  <2>3. QED
    BY <2>1, <2>2, TableStays
<1>3. CASE RunOver
  BY <1>2, <1>3 DEF RunOver
<1>4. ASSUME NEW u \in Thread, Unwind(u) PROVE TableInv'
  <2>1. UNCHANGED <<table, announced, top, string_buffer, lookup, value, at, keys, fqn>>
    BY <1>4 DEF Unwind, out_vars, wire_vars, lookup_vars
  <2>2. \A t \in Thread : Wanted(t)' = Wanted(t)
    BY <1>4 DEF Unwind, vars, object_vars, Wanted, Signature, NeedsMetadata
  <2>3. QED
    BY <2>1, <2>2, TableStays
<1>5. ASSUME NEW u \in Thread, ProbeMove(u) PROVE TableInv'
  <2>1. ASSUME NEW t \in Thread, t # u PROVE lookup[t] = "scan" /\ keys[t] = <<>>
    <3>1. Wanted(t) = <<>>
      BY <1>5, <2>1, Alone DEF Wanted
    <3>2. QED
      BY <3>1, AtRest
  <2>2. CASE Lookup(u)
    BY <2>2, TableLookup
  <2>3. CASE Metadata(u) \/ Event(u)
    <3>1. UsesKeys(u) /\ UNCHANGED fqn
      BY <2>3 DEF Metadata, Event, program_vars
    <3>2. /\ Len(keys[u]) = Len(Wanted(u)) /\ keys' = [keys EXCEPT ![u] = <<>>]
          /\ UNCHANGED <<table, announced, top, lookup, value, at>>
      BY <3>1 DEF UsesKeys, wire_vars
    <3>3. lookup[u] = "scan"
      BY <1>1, <3>2 DEF LookupInv
    <3>4. keys' \in [Thread -> Seq(Nat)] /\ \A t \in Thread : keys'[t] = <<>>
      <4>1. <<>> \in Seq(Nat)
        OBVIOUS
      <4>2. QED
        BY <1>1, <2>1, <3>2, <4>1
    <3>5. QED
      BY <1>1, <2>1, <3>1, <3>2, <3>3, <3>4, TableRests
  <2>4. CASE ~(Lookup(u) \/ Metadata(u) \/ Event(u))
    <3>1. \/ InGet(u) \/ Count(u) \/ Send(u) \/ EndOfProbe(u) \/ InRemove(u) \/ CallAfter(u)
          \/ \E op \in Op : CallBefore(u, op)
      BY <1>5, <2>4 DEF ProbeMove, ProbeStep
    <3>2. UNCHANGED <<table, announced, top, lookup, value, at, keys>>
      BY <3>1 DEF InGet, Count, Send, EndOfProbe, InRemove, CallAfter, CallBefore, out_vars,
         wire_vars, lookup_vars
    <3>3. fqn' \in Op \cup {ClassName}
      <4>1. CASE CallAfter(u)
        <5>1. frames[u] \in Seq(Op)
          BY DEF ProbeInv
        <5>2. Last(frames[u]) \in Op
          BY <4>1, <5>1, Innermost DEF CallAfter
        <5>3. QED
          BY <1>1, <4>1, <5>2 DEF CallAfter, FormatName
      <4>2. QED
        BY <1>1, <3>1, <4>1 DEF InGet, Count, Send, EndOfProbe, InRemove, CallBefore, FormatName,
           program_vars
    <3>4. Wanted(u) = <<>>
      <4>1. step[u] # "event"
        BY <3>1 DEF InGet, Count, Send, EndOfProbe, InRemove, CallAfter, CallBefore, Stage
      <4>2. ~(step[u] = "get" /\ pc[u] = "got")
        BY <3>1 DEF InGet, GetStep, RdLock, Find, RdUnlock, ReadId, BumpId, WrLock, Add, WrUnlock,
           Goto, Count, Send, EndOfProbe, InRemove, CallAfter, CallBefore, Stage
      <4>3. QED
        BY <4>1, <4>2 DEF Wanted
    <3>5. lookup[u] = "scan" /\ keys[u] = <<>>
      BY <3>4, AtRest
    <3>6. QED
      BY <1>1, <2>1, <3>2, <3>3, <3>5, TableRests
  <2>5. QED
    BY <2>2, <2>3, <2>4
<1>6. QED
  BY <1>2, <1>3, <1>4, <1>5 DEF ProbeNext, ProbeMove

LEMMA StringsInit == ProbeInit => TableInv
<1> SUFFICES ASSUME ProbeInit PROVE TableInv
  OBVIOUS
<1>1. /\ table = EventTypes /\ fqn = ClassName /\ top = Len(EventTypes)
      /\ announced = [k \in 0 .. Len(EventTypes) - 1 |-> EventTypes[k + 1]]
      /\ lookup = [t \in Thread |-> "scan"] /\ keys = [t \in Thread |-> <<>>]
      /\ value = [t \in Thread |-> NoMessage] /\ at = [t \in Thread |-> 0]
  BY DEF ProbeInit
<1>2. /\ EventTypes \in Seq(Text) /\ Len(EventTypes) = 3 /\ DOMAIN EventTypes = 1 .. 3
  BY DEF Text, ToSet, EventTypes
<1>3. top = 3 /\ DOMAIN announced = 0 .. 2 /\ \A k \in 0 .. 2 : announced[k] = table[k + 1]
  BY <1>1, <1>2
<1>4. <<>> \in Seq(Nat) /\ Len(<<>>) = 0 /\ DOMAIN <<>> = {}
  OBVIOUS
<1>5. ASSUME NEW t \in Thread PROVE LookupInv(t)
  <2>1. Wanted(t) = <<>>
    BY DEF ProbeInit, Wanted
  <2>2. QED
    BY <1>1, <1>4, <2>1 DEF LookupInv
<1>6. \A k \in DOMAIN announced : Announced(k)
  BY <1>3 DEF Announced
<1>7. keys \in [Thread -> Seq(Nat)]
  BY <1>1, <1>4
<1>8. QED
  BY <1>1, <1>2, <1>3, <1>5, <1>6, <1>7 DEF TableInv

\* When the program runs one probe at a time, the objects have ids of their own.
LEMMA SerialUnderProbes ==
  ASSUME InjectiveKey, Serialised
  PROVE  ProbeSpec => []SerialInv
<1>1. ProbeInit => SerialInv
  BY DEF ProbeInit, Init, SerialInv, Numbered
<1>2. RegistryInv /\ SerialInv /\ [ProbeNext]_all_vars => SerialInv'
  BY ProbeStepsRegistry, SerialStep
<1>3. QED
  BY <1>1, <1>2, RegistryUnderProbes, PTL DEF ProbeSpec

\* While no two probes overlap, the collector knows of the table what it has been told,
\* and is never told a string under the key of another.
THEOREM TableCorrect ==
  ASSUME InjectiveKey, Serialised
  PROVE  ProbeSpec => []TableInv
<1>1. SerialInv /\ RegistryInv /\ ProbeInv /\ TableInv /\ [ProbeNext]_all_vars => TableInv'
  BY StringsStep
<1>2. QED
  BY <1>1, StringsInit, RegistryUnderProbes, SerialUnderProbes, ProbeCorrect, PTL DEF ProbeSpec

\* Which events of a trace were sent, when nothing is counted.
LEMMA SentStays ==
  ASSUME UNCHANGED order_index,
         \A t \in Thread : /\ step'[t] \in {"event", "send"} <=> step[t] \in {"event", "send"}
                           /\ step[t] \in {"event", "send"} => data'[t] = data[t]
  PROVE  \A o : Sent(o)' = Sent(o)
<1> SUFFICES ASSUME NEW o PROVE Sent(o)' = Sent(o)
  OBVIOUS
<1>1. (\E t \in Thread : data'[t] = o /\ step'[t] \in {"event", "send"}) <=>
      (\E t \in Thread : data[t] = o /\ step[t] \in {"event", "send"})
  OBVIOUS
<1>2. QED
  BY <1>1 DEF Sent

\* A step that sends and counts nothing, when what the buffer holds fits.
LEMMA QuietStep ==
  ASSUME OrderInv, UNCHANGED <<order_index, log, kieker_trace_current_id, trace>>,
         position' \in [Thread -> Int], DOMAIN buffer' = {0, 48},
         \A t \in Thread : BufferInv(t)',
         \A o \in Obj : Numbered(o)' => Numbered(o),
         \A t \in Thread : pc'[t] \in {"wrlock", "add"} =>
           pc[t] \in {"wrlock", "add"} /\ data'[t] = data[t],
         \A o \in kieker_traces' :
           o \in kieker_traces \/ \A n \in DOMAIN log : log[n].trace # trace[o].trace_id,
         \A t \in Thread : /\ step'[t] \in {"event", "send"} <=> step[t] \in {"event", "send"}
                           /\ step[t] \in {"event", "send"} => data'[t] = data[t]
  PROVE  OrderInv'
<1>1. \A o : Sent(o)' = Sent(o)
  BY SentStays
<1>2. \A o \in kieker_traces', n \in DOMAIN log' :
        log'[n].trace = trace'[o].trace_id /\ log'[n].type # "metadata" =>
          log'[n].order < Sent(o)'
  BY <1>1 DEF OrderInv
<1>3. \A t \in Thread : pc'[t] \in {"wrlock", "add"} =>
        /\ order_index'[data'[t]] = -1
        /\ \A n \in DOMAIN log' : log'[n].trace # trace'[data'[t]].trace_id
  BY DEF OrderInv
<1>4. OrderIndexesIncrease'
  BY DEF OrderInv, OrderIndexesIncrease
<1>5. \A o \in Obj : Numbered(o)' => order_index'[o] >= -1 /\ trace'[o].trace_id >= InitialId
  BY DEF OrderInv
<1>6. QED
  BY <1>2, <1>3, <1>4, <1>5 DEF OrderInv

\* A thread outside the probes has no part in the buffer.
LEMMA OutsideBuffer ==
  ASSUME NEW t \in Thread, step'[t] \notin {"count", "event", "send"},
         GccProfiling /\ InProbe(t)' => fqn' = call'[t].op
  PROVE  BufferInv(t)'
BY DEF BufferInv

-----------------------------------------------------------------------------
(* The order of the log, action by action.                                  *)

\* What is known before a step of a thread that is alone in the probes.
OneProbe == Serialised /\ InjectiveKey /\ RegistryInv /\ SerialInv /\ ProbeInv /\ TableInv /\ OrderInv

\* A probe begins.
LEMMA OrderCall ==
  ASSUME OneProbe, NEW u \in Thread, CallAfter(u) \/ \E op \in Op : CallBefore(u, op)
  PROVE  OrderInv'
<1> USE DEF OneProbe
<1>1. ProbeMove(u)
  BY DEF ProbeMove
<1>2. /\ step[u] = "out" /\ step'[u] = "get" /\ pc[u] = "idle" /\ pc'[u] = "rdlock"
      /\ UNCHANGED <<order_index, position, out_vars, kieker_traces, heap_vars, id_vars, data>>
  BY DEF CallAfter, CallBefore, Stage, Get, Goto, ProbeInv, RegistryInv, TypeOK, object_vars
<1>3. GccProfiling => fqn' = call'[u].op
  BY DEF CallAfter, CallBefore, FormatName, ProbeInv
<1>4. \A t \in Thread : BufferInv(t)'
  <2>1. BufferInv(u)'
    BY <1>2, <1>3, OutsideBuffer
  <2>2. ASSUME NEW t \in Thread, t # u PROVE BufferInv(t)'
    BY <1>1, <2>2, Alone, OutsideBuffer DEF InProbe
  <2>3. QED
    BY <2>1, <2>2
<1>5. \A o \in Obj : Numbered(o)' => Numbered(o)
  <2>1. \A t \in Thread : pc[t] # "bump"
    BY <1>1, <1>2, Alone
  <2>2. QED
    BY <1>2, <2>1 DEF Numbered, heap_vars
<1>6. \A t \in Thread : pc'[t] \notin {"wrlock", "add"}
  BY <1>1, <1>2, Alone
<1>7. \A t \in Thread : step'[t] \notin {"event", "send"} /\ step[t] \notin {"event", "send"}
  BY <1>1, <1>2, Alone
<1>8. /\ UNCHANGED <<log, buffer, kieker_trace_current_id, trace>>
      /\ position \in [Thread -> Int] /\ DOMAIN buffer = {0, 48}
  BY <1>2 DEF out_vars, wire_vars, heap_vars, id_vars, OrderInv
<1>9. QED
  BY <1>2, <1>4, <1>5, <1>6, <1>7, <1>8, QuietStep

\* A thread in kieker_trace_get.
LEMMA OrderGet ==
  ASSUME OneProbe, NEW u \in Thread, InGet(u), pc[u] # "bump"
  PROVE  OrderInv'
<1> USE DEF OneProbe
<1>1. ProbeMove(u)
  BY DEF ProbeMove, ProbeStep
<1>2. /\ step[u] = "get" /\ step'[u] = "get" /\ GetStep(u)
      /\ UNCHANGED <<order_index, position, buffer, log, call, fqn>>
  BY DEF InGet, object_vars, out_vars, wire_vars, program_vars
<1>3. /\ UNCHANGED <<kieker_trace_current_id, trace>>
      /\ DOMAIN pc = Thread /\ DOMAIN data = Thread
  BY <1>2 DEF GetStep, RdLock, Find, RdUnlock, ReadId, BumpId, Created, WrLock, Add, WrUnlock, Goto,
     heap_vars, id_vars, RegistryInv, TypeOK
<1>4. \A t \in Thread : BufferInv(t)'
  <2>1. BufferInv(u)'
    <3>1. GccProfiling /\ InProbe(u) => fqn = call[u].op
      BY DEF OrderInv, BufferInv
    <3>2. InProbe(u)
      BY <1>2 DEF InProbe
    <3>3. QED
      BY <1>2, <3>1, <3>2, OutsideBuffer
  <2>2. ASSUME NEW t \in Thread, t # u PROVE BufferInv(t)'
    BY <1>1, <2>2, Alone, OutsideBuffer DEF InProbe
  <2>3. QED
    BY <2>1, <2>2
<1>5. \A o \in Obj : Numbered(o)' => Numbered(o)
  <2>1. \A t \in Thread : pc[t] # "bump"
    BY <1>1, Alone
  <2>2. CASE ReadId(u)
    BY <1>3, <2>1, <2>2 DEF ReadId, Goto, Numbered
  <2>3. CASE UNCHANGED live
    BY <2>1, <2>3 DEF Numbered
  <2>4. QED
    BY <1>2, <2>2, <2>3
       DEF GetStep, RdLock, Find, RdUnlock, BumpId, Created, WrLock, Add, WrUnlock, heap_vars
<1>6. ASSUME NEW t \in Thread, pc'[t] \in {"wrlock", "add"}
      PROVE  pc[t] \in {"wrlock", "add"} /\ data'[t] = data[t]
  <2>1. t = u
    BY <1>1, <1>6, Alone
  <2>2. QED
    BY <1>2, <1>3, <1>6, <2>1
       DEF GetStep, RdLock, Find, RdUnlock, ReadId, BumpId, Created, WrLock, Add, WrUnlock, Goto
<1>7. \A o \in kieker_traces' :
        o \in kieker_traces \/ \A n \in DOMAIN log : log[n].trace # trace[o].trace_id
  <2>1. CASE Add(u)
    <3>1. kieker_traces' = kieker_traces \cup {data[u]} /\ pc[u] = "add"
      BY <2>1 DEF Add, Goto
    <3>2. QED
      BY <3>1 DEF OrderInv
  <2>2. QED
    BY <1>2, <2>1 DEF GetStep, RdLock, Find, RdUnlock, ReadId, BumpId, Created, WrLock, WrUnlock
<1>8. \A t \in Thread : step'[t] \notin {"event", "send"} /\ step[t] \notin {"event", "send"}
  BY <1>1, <1>2, Alone
<1>9. position \in [Thread -> Int] /\ DOMAIN buffer = {0, 48}
  BY DEF OrderInv
<1>10. QED
  BY <1>2, <1>3, <1>4, <1>5, <1>6, <1>7, <1>8, <1>9, QuietStep

\* A new object starts at -1, with an id the log does not have.
LEMMA OrderBump ==
  ASSUME OneProbe, NEW u \in Thread, InGet(u), pc[u] = "bump"
  PROVE  OrderInv'
<1> USE DEF OneProbe
<1> DEFINE new == data[u]
<1>1. ProbeMove(u)
  BY DEF ProbeMove, ProbeStep
<1>2. /\ step[u] = "get" /\ step'[u] = "get" /\ BumpId(u)
      /\ order_index' = [order_index EXCEPT ![new] = -1]
      /\ UNCHANGED <<position, buffer, log, call, fqn>>
  BY DEF InGet, GetStep, RdLock, Find, RdUnlock, ReadId, WrLock, Add, WrUnlock, Goto,
     out_vars, wire_vars, program_vars
<1>3. /\ new \in Obj /\ new \notin kieker_traces /\ id_read[u] = kieker_trace_current_id
      /\ trace \in [Obj -> [thread_id : Int, trace_id : Nat]]
      /\ kieker_trace_current_id \in Nat
  BY DEF RegistryInv, TypeOK, DataInv, Adding, SerialInv
<1>4. /\ kieker_trace_current_id' = kieker_trace_current_id + 1
      /\ trace' = [trace EXCEPT ![new] =
                     [thread_id |-> Key[u], trace_id |-> kieker_trace_current_id]]
      /\ pc' = [pc EXCEPT ![u] = "wrlock"] /\ UNCHANGED <<data, live, kieker_traces>>
  BY <1>2, <1>3 DEF BumpId, Created, Goto
<1>5. /\ order_index' \in [Obj -> Int] /\ order_index'[new] = -1
      /\ \A o \in Obj : o # new => order_index'[o] = order_index[o]
      /\ trace'[new].trace_id = kieker_trace_current_id
      /\ \A o \in Obj : o # new => trace'[o] = trace[o]
  BY <1>2, <1>3, <1>4 DEF OrderInv
<1>6. \A n \in DOMAIN log : /\ log[n].trace \in InitialId .. kieker_trace_current_id - 1
                            /\ log[n].trace # kieker_trace_current_id
  BY <1>3, InitialIdAssumption DEF OrderInv
<1>7. \A t \in Thread : BufferInv(t)'
  <2>1. BufferInv(u)'
    <3>1. GccProfiling /\ InProbe(u) => fqn = call[u].op
      BY DEF OrderInv, BufferInv
    <3>2. InProbe(u)
      BY <1>2 DEF InProbe
    <3>3. QED
      BY <1>2, <3>1, <3>2, OutsideBuffer
  <2>2. ASSUME NEW t \in Thread, t # u PROVE BufferInv(t)'
    BY <1>1, <2>2, Alone, OutsideBuffer DEF InProbe
  <2>3. QED
    BY <2>1, <2>2
<1>8. \A o \in Obj : Numbered(o)' => order_index'[o] >= -1 /\ trace'[o].trace_id >= InitialId
  <2> SUFFICES ASSUME NEW o \in Obj, Numbered(o)'
               PROVE  order_index'[o] >= -1 /\ trace'[o].trace_id >= InitialId
    OBVIOUS
  <2>1. CASE o = new
    BY <1>3, <1>5, <2>1 DEF OrderInv
  <2>2. CASE o # new
    <3>1. \A t \in Thread : t # u => pc[t] # "bump"
      BY <1>1, Alone
    <3>2. Numbered(o)
      BY <1>4, <2>2, <3>1 DEF Numbered
    <3>3. QED
      BY <1>5, <2>2, <3>2 DEF OrderInv
  <2>3. QED
    BY <2>1, <2>2
<1>9. ASSUME NEW t \in Thread, pc'[t] \in {"wrlock", "add"}
      PROVE  /\ order_index'[data'[t]] = -1
             /\ \A n \in DOMAIN log' : log'[n].trace # trace'[data'[t]].trace_id
  <2>1. t = u
    BY <1>1, <1>9, Alone
  <2>2. QED
    BY <1>2, <1>4, <1>5, <1>6, <2>1
<1>10. ASSUME NEW o \in kieker_traces', NEW n \in DOMAIN log',
              log'[n].trace = trace'[o].trace_id, log'[n].type # "metadata"
       PROVE  log'[n].order < Sent(o)'
  <2>1. o \in kieker_traces /\ o \in Obj /\ o # new
    BY <1>3, <1>4 DEF RegistryInv, TypeOK
  <2>2. \A t \in Thread : step'[t] \notin {"event", "send"} /\ step[t] \notin {"event", "send"}
    BY <1>1, <1>2, Alone
  <2>3. Sent(o)' = Sent(o)
    BY <1>5, <2>1, <2>2 DEF Sent
  <2>4. QED
    BY <1>2, <1>5, <1>10, <2>1, <2>3 DEF OrderInv
<1>11. OrderIndexesIncrease'
  BY <1>2 DEF OrderInv, OrderIndexesIncrease
<1>12. /\ position' \in [Thread -> Int] /\ DOMAIN buffer' = {0, 48} /\ log' \in Seq(Received)
       /\ kieker_trace_current_id' >= InitialId
       /\ \A n \in DOMAIN log' : log'[n].trace \in InitialId .. kieker_trace_current_id' - 1
  BY <1>2, <1>3, <1>4, <1>6, InitialIdAssumption DEF OrderInv
<1>13. QED
  BY <1>5, <1>7, <1>8, <1>9, <1>10, <1>11, <1>12 DEF OrderInv

\* The object of a probe that has got one.
LEMMA GotObject ==
  ASSUME OneProbe, NEW u \in Thread, ProbeMove(u), pc[u] = "got"
  PROVE  /\ data[u] \in Obj /\ data[u] \in kieker_traces /\ Numbered(data[u])
         /\ trace[data[u]].thread_id = Key[u] /\ trace[data[u]].trace_id \in Nat
         /\ trace[data[u]].trace_id \in InitialId .. kieker_trace_current_id - 1
         /\ order_index[data[u]] \in Int /\ order_index[data[u]] >= -1
         /\ \A o \in kieker_traces : trace[o].trace_id = trace[data[u]].trace_id => o = data[u]
<1> USE DEF OneProbe
<1>1. data[u] \in kieker_traces /\ kieker_traces \subseteq Obj /\ kieker_traces \subseteq live
      /\ trace \in [Obj -> [thread_id : Int, trace_id : Nat]]
      /\ kieker_trace_current_id \in Nat
  BY DEF RegistryInv, TypeOK, DataInv, Using, NothingDangles
<1>2. trace[data[u]].thread_id = Key[u]
  BY <1>1, NullAssumption DEF RegistryInv, EntryInv, Using
<1>3. \A t \in Thread : pc[t] # "bump"
  BY Alone
<1>4. \A o \in kieker_traces : Numbered(o)
  BY <1>1, <1>3 DEF Numbered
<1>5. data[u] \in Obj /\ trace[data[u]].trace_id \in Nat
  BY <1>1
<1>6. trace[data[u]].trace_id < kieker_trace_current_id
  BY <1>1, <1>4 DEF SerialInv
<1>7. /\ trace[data[u]].trace_id >= InitialId /\ order_index[data[u]] >= -1
      /\ order_index[data[u]] \in Int
  BY <1>1, <1>4 DEF OrderInv
<1>8. trace[data[u]].trace_id \in InitialId .. kieker_trace_current_id - 1
  BY <1>1, <1>5, <1>6, <1>7, InitialIdAssumption
<1>9. \A o \in kieker_traces : trace[o].trace_id = trace[data[u]].trace_id => o = data[u]
  BY <1>1, <1>4 DEF SerialInv
<1>10. QED
  BY <1>1, <1>2, <1>4, <1>5, <1>7, <1>8, <1>9

\* The keys of two strings, when both are found.
LEMMA KeysFound ==
  ASSUME TableInv, NEW u \in Thread, NEW r, NEW s,
         Wanted(u) = <<r, s>>, Len(keys[u]) = Len(Wanted(u))
  PROVE  \E k, l \in DOMAIN table :
           table[k] = r /\ table[l] = s /\ keys[u] = <<k - 1, l - 1>>
<1>1. /\ keys[u] \in Seq(Nat) /\ Len(keys[u]) = 2 /\ table \in Seq(Text) /\ top \in Nat
      /\ LookupInv(u) /\ top <= Len(table)
  BY DEF TableInv
<1>2. PICK m, n \in Nat : keys[u] = <<m, n>>
  <2> DEFINE found == keys[u]
  <2>1. found \in Seq(Nat) /\ Len(found) = 2
    BY <1>1
  <2> HIDE DEF found
  <2>2. found[1] \in Nat /\ found[2] \in Nat /\ found = <<found[1], found[2]>>
    BY <2>1
  <2>3. QED
    BY <2>2 DEF found
<1>3. m < top /\ table[m + 1] = r /\ n < top /\ table[n + 1] = s
  <2>1. \A i \in DOMAIN keys[u] : keys[u][i] < top /\ table[keys[u][i] + 1] = Wanted(u)[i]
    BY <1>1 DEF LookupInv
  <2>2. Wanted(u)[1] = r /\ Wanted(u)[2] = s
    OBVIOUS
  <2>3. 1 \in DOMAIN keys[u] /\ 2 \in DOMAIN keys[u] /\ keys[u][1] = m /\ keys[u][2] = n
    BY <1>2
  <2>4. QED
    BY <2>1, <2>2, <2>3
<1>4. PICK k, l \in Nat : k = m + 1 /\ l = n + 1
  OBVIOUS
<1>5. k \in DOMAIN table /\ l \in DOMAIN table /\ k - 1 = m /\ l - 1 = n
  BY <1>1, <1>3, <1>4
<1>6. QED
  BY <1>2, <1>3, <1>4, <1>5

\* A lookup leaves the strings that have keys where they are.
LEMMA LookupGrows ==
  ASSUME Serialised, SerialInv, RegistryInv, ProbeInv, TableInv, NEW u \in Thread, Lookup(u)
  PROVE  \A n \in DOMAIN table : n \in DOMAIN table' /\ table'[n] = table[n]
<1>1. CASE StoreValue(u)
  <2>1. lookup[u] = "store"
    BY <1>1 DEF StoreValue, Looks
  <2>2. ASSUME NEW t \in Thread, t # u PROVE lookup[t] = "scan"
    <3>1. Wanted(t) = <<>>
      BY <2>2, Alone DEF Wanted, ProbeMove, ProbeStep
    <3>2. QED
      BY <3>1, AtRest
  <2>3. top = Len(table) /\ table \in Seq(Text)
    BY <2>1, <2>2 DEF TableInv
  <2>4. table' = Append(table, value[u])
    BY <1>1, <2>3 DEF StoreValue
  <2>5. QED
    BY <2>3, <2>4
<1>2. CASE UNCHANGED table
  BY <1>2
<1>3. QED
  BY <1>1, <1>2 DEF Lookup, Scan, Fill, Write, BumpTop, Added

\* A probe looks up a string: what it has put into the buffer stays what it is.
LEMMA OrderLookup ==
  ASSUME OneProbe, NEW u \in Thread, Lookup(u)
  PROVE  OrderInv'
<1> USE DEF OneProbe
<1>1. ProbeMove(u)
  BY DEF ProbeMove, ProbeStep
<1>2. /\ step[u] \in {"get", "event"} /\ pc[u] = "got"
      /\ UNCHANGED <<order_index, position, buffer, log, call, fqn, step, kieker_trace_current_id,
                     trace, pc, data, kieker_traces, live>>
  <2>1. Wanted(u) # <<>>
    BY AtRest
  <2>2. QED
    BY <2>1, OnlyInProbes DEF Lookup, vars, object_vars, program_vars, heap_vars, id_vars
<1>3. \A o : IsMetadata(buffer[0], o) => IsMetadata(buffer[0], o)'
  BY <1>2, LookupGrows DEF IsMetadata
<1>4. BufferInv(u)'
  <2>1. BufferInv(u)
    BY DEF OrderInv
  <2>2. QED
    BY <1>2, <1>3, <2>1 DEF BufferInv, InProbe
<1>5. \A t \in Thread : BufferInv(t)'
  BY <1>1, <1>4, Alone, OutsideBuffer DEF InProbe
<1>6. \A t \in Thread : pc'[t] \notin {"wrlock", "add"}
  BY <1>1, <1>2, Alone
<1>7. \A o \in Obj : Numbered(o)' => Numbered(o)
  BY <1>2 DEF Numbered
<1>8. position' \in [Thread -> Int] /\ DOMAIN buffer' = {0, 48}
  BY <1>2 DEF OrderInv
<1>9. QED
  BY <1>2, <1>5, <1>6, <1>7, <1>8, QuietStep

\* A probe makes the metadata record, if its object has sent no event yet.
LEMMA OrderMetadata ==
  ASSUME OneProbe, NEW u \in Thread, Metadata(u)
  PROVE  OrderInv'
<1> USE DEF OneProbe
<1>1. ProbeMove(u)
  BY DEF ProbeMove, ProbeStep
<1>2. /\ step[u] = "get" /\ step'[u] = "count" /\ pc[u] = "got"
      /\ UNCHANGED <<order_index, log, call, fqn, kieker_trace_current_id, trace, pc, data,
                     kieker_traces, live>>
  BY DEF Metadata, UsesKeys, Stage, ProbeInv, vars, object_vars, program_vars, wire_vars,
     heap_vars, id_vars
<1>3. PICK o \in Obj : /\ o = data[u] /\ trace[o].thread_id = Key[u]
                      /\ order_index[o] \in Int /\ order_index[o] >= -1
  BY <1>1, <1>2, GotObject
<1>4. GccProfiling => fqn = call[u].op
  BY <1>2 DEF OrderInv, BufferInv, InProbe
<1>5. ASSUME call[u].probe = "before", order_index[o] = -1
      PROVE  BufferInv(u)' /\ DOMAIN buffer' = {0, 48} /\ position' \in [Thread -> Int]
  <2>1. /\ NeedsMetadata(u) /\ Wanted(u) = <<NoSession, LocalHost>>
        /\ Len(keys[u]) = Len(Wanted(u)) /\ table' = table
    BY <1>2, <1>3, <1>5 DEF Metadata, UsesKeys, NeedsMetadata, Wanted
  <2>2. /\ position' = [position EXCEPT ![u] = 48]
        /\ buffer' = [buffer EXCEPT ![0] = MetadataRecord(o, keys[u])]
    BY <1>3, <2>1 DEF Metadata
  <2>3. DOMAIN buffer' = {0, 48} /\ buffer'[0] = MetadataRecord(o, keys[u])
    BY <2>2 DEF OrderInv
  <2>4. position' \in [Thread -> Int] /\ position'[u] = 48
    BY <2>2 DEF OrderInv
  <2>5. IsMetadata(buffer[0], o)'
    <3>1. PICK k, l \in DOMAIN table :
            table[k] = NoSession /\ table[l] = LocalHost /\ keys[u] = <<k - 1, l - 1>>
      BY <2>1, KeysFound
    <3>2. buffer'[0] = [kind |-> "record", type |-> KIEKER_FLOW_TRACE_METADATA,
                        trace |-> trace'[o].trace_id, thread |-> trace'[o].thread_id,
                        strings |-> <<k - 1, l - 1>>]
      BY <1>2, <2>3, <3>1 DEF MetadataRecord
    <3>3. QED
      BY <2>1, <3>1, <3>2 DEF IsMetadata
  <2>6. BufferInv(u)'
    BY <1>2, <1>3, <1>4, <1>5, <2>4, <2>5 DEF BufferInv
  <2>7. QED
    BY <2>3, <2>4, <2>6
<1>6. ASSUME ~(call[u].probe = "before" /\ order_index[o] = -1)
      PROVE  BufferInv(u)' /\ DOMAIN buffer' = {0, 48} /\ position' \in [Thread -> Int]
  <2>1. position' = [position EXCEPT ![u] = 0] /\ UNCHANGED buffer
    BY <1>3, <1>6 DEF Metadata, NeedsMetadata
  <2>2. DOMAIN buffer' = {0, 48} /\ position' \in [Thread -> Int] /\ position'[u] = 0
    BY <2>1 DEF OrderInv
  <2>3. order_index[o] >= -1 + (IF call[u].probe = "before" THEN 1 ELSE 0)
    BY <1>3, <1>6
  <2>4. BufferInv(u)'
    BY <1>2, <1>3, <1>4, <2>2, <2>3 DEF BufferInv
  <2>5. QED
    BY <2>2, <2>4
<1>7. \A t \in Thread : t # u => BufferInv(t)'
  BY <1>1, Alone, OutsideBuffer DEF InProbe
<1>8. \A t \in Thread : step'[t] \notin {"event", "send"} /\ step[t] \notin {"event", "send"}
  BY <1>1, <1>2, Alone
<1>9. \A p \in Obj : Numbered(p)' => Numbered(p)
  BY <1>2 DEF Numbered
<1>10. QED
  BY <1>2, <1>5, <1>6, <1>7, <1>8, <1>9, QuietStep

\* A probe counts its event, which is not yet sent.
LEMMA CountSends ==
  ASSUME OneProbe, NEW u \in Thread, Count(u)
  PROVE  \A p \in Obj : Sent(p)' = Sent(p)
<1> USE DEF OneProbe
<1>1. ProbeMove(u)
  BY DEF ProbeMove, ProbeStep
<1>2. /\ step[u] = "count" /\ step'[u] = "event" /\ pc[u] = "got"
      /\ order_index' = [order_index EXCEPT ![data[u]] = @ + 1] /\ UNCHANGED data
  BY DEF Count, Stage, ProbeInv, StageInv, vars
<1>3. PICK o \in Obj : o = data[u] /\ order_index[o] \in Int
  BY <1>1, <1>2, GotObject
<1>4. /\ order_index'[o] = order_index[o] + 1
      /\ \A p \in Obj : p # o => order_index'[p] = order_index[p]
  BY <1>2, <1>3 DEF OrderInv
<1>5. \A t \in Thread : t # u => step[t] = "out" /\ step'[t] = "out"
  BY <1>1, Alone
<1>6. Sent(o) = order_index[o] + 1 /\ Sent(o)' = order_index'[o] + 0
  BY <1>2, <1>3, <1>5 DEF Sent
<1>7. ASSUME NEW p \in Obj, p # o PROVE Sent(p)' = Sent(p)
  BY <1>2, <1>3, <1>4, <1>5, <1>7 DEF Sent
<1>8. QED
  BY <1>3, <1>4, <1>6, <1>7

\* A probe counts its event.
LEMMA OrderCount ==
  ASSUME OneProbe, NEW u \in Thread, Count(u)
  PROVE  OrderInv'
<1> USE DEF OneProbe
<1>1. ProbeMove(u)
  BY DEF ProbeMove, ProbeStep
<1>2. /\ step[u] = "count" /\ step'[u] = "event" /\ pc[u] = "got"
      /\ order_index' = [order_index EXCEPT ![data[u]] = @ + 1]
      /\ UNCHANGED <<position, buffer, table, log, call, fqn, kieker_trace_current_id, trace, pc,
                     data, kieker_traces, live>>
  BY DEF Count, Stage, ProbeInv, StageInv, vars, program_vars, out_vars, wire_vars,
     heap_vars, id_vars
<1>3. PICK o \in Obj : /\ o = data[u] /\ trace[o].trace_id \in Nat
                      /\ order_index[o] \in Int /\ order_index[o] >= -1
  BY <1>1, <1>2, GotObject
<1>4. /\ order_index' \in [Obj -> Int] /\ order_index'[o] = order_index[o] + 1
      /\ \A p \in Obj : p # o => order_index'[p] = order_index[p]
  <2>1. \A p \in Obj : order_index[p] + 1 \in Int
    BY DEF OrderInv
  <2>2. QED
    BY <1>2, <1>3, <2>1 DEF OrderInv
<1>5. BufferInv(u)'
  <2>1. BufferInv(u)
    BY DEF OrderInv
  <2>2. IsMetadata(buffer[0], o) => IsMetadata(buffer[0], o)'
    BY <1>2 DEF IsMetadata
  <2>3. QED
    BY <1>2, <1>3, <1>4, <2>1, <2>2 DEF BufferInv, InProbe
<1>6. \A t \in Thread : BufferInv(t)'
  BY <1>1, <1>5, Alone, OutsideBuffer DEF InProbe
<1>7. \A p \in Obj : Numbered(p)' => order_index'[p] >= -1 /\ trace'[p].trace_id >= InitialId
  <2>1. \A p \in Obj : Numbered(p)' => Numbered(p)
    BY <1>2 DEF Numbered
  <2>2. QED
    BY <1>2, <1>3, <1>4, <2>1 DEF OrderInv
<1>8. \A t \in Thread : pc'[t] \notin {"wrlock", "add"}
  BY <1>1, <1>2, Alone
<1>9. \A p \in Obj : Sent(p)' = Sent(p)
  BY CountSends
<1>10. kieker_traces \subseteq Obj
  BY DEF RegistryInv, TypeOK
<1>11. \A p \in kieker_traces', n \in DOMAIN log' :
         log'[n].trace = trace'[p].trace_id /\ log'[n].type # "metadata" =>
           log'[n].order < Sent(p)'
  BY <1>2, <1>9, <1>10 DEF OrderInv
<1>12. OrderIndexesIncrease'
  BY <1>2 DEF OrderInv, OrderIndexesIncrease
<1>13. QED
  BY <1>2, <1>4, <1>6, <1>7, <1>8, <1>11, <1>12 DEF OrderInv

\* A probe makes its event.
LEMMA OrderEvent ==
  ASSUME OneProbe, NEW u \in Thread, Event(u)
  PROVE  OrderInv'
<1> USE DEF OneProbe
<1>1. ProbeMove(u)
  BY DEF ProbeMove, ProbeStep
<1>2. /\ step[u] = "event" /\ step'[u] = "send" /\ pc[u] = "got"
      /\ buffer' = [buffer EXCEPT ![position[u]] = EventOf(u)]
      /\ position' = [position EXCEPT ![u] = @ + 40]
      /\ Len(keys[u]) = Len(Wanted(u))
      /\ UNCHANGED <<order_index, log, call, fqn, kieker_trace_current_id, trace, pc, data, table,
                     kieker_traces, live>>
  BY DEF Event, UsesKeys, Stage, ProbeInv, StageInv, vars, object_vars, program_vars, wire_vars,
     heap_vars, id_vars
<1>3. PICK o, made : /\ o = data[u] /\ made = position[u] /\ made \in {0, 48}
                   /\ BufferInv(u) /\ (GccProfiling => fqn = call[u].op)
  BY <1>2 DEF OrderInv, BufferInv, InProbe
<1>4. position' \in [Thread -> Int] /\ position'[u] - 40 = made
  <2>1. position' = [position EXCEPT ![u] = made + 40] /\ made + 40 \in Int
    BY <1>2, <1>3
  <2>2. QED
    BY <1>3, <2>1 DEF OrderInv
<1>5. Wanted(u) = <<call[u].op, ClassName>>
  BY <1>2, <1>3 DEF Wanted, Signature
<1>6. /\ DOMAIN buffer' = {0, 48} /\ buffer'[made] = EventOf(u)
      /\ made = 48 => buffer'[0] = buffer[0]
  BY <1>2, <1>3 DEF OrderInv
<1>7. PICK k, l \in DOMAIN table :
        table[k] = call[u].op /\ table[l] = ClassName /\ keys[u] = <<k - 1, l - 1>>
  BY <1>2, <1>5, KeysFound
<1>8. IsEvent(buffer[made], call[u].probe, o, call[u].op)'
  <2>1. buffer'[made] =
          [kind |-> "record",
           type |-> IF call'[u].probe = "before" THEN KIEKER_FLOW_BEFORE_OPERATION
                                                 ELSE KIEKER_FLOW_AFTER_OPERATION,
           trace |-> trace'[o].trace_id, order |-> order_index'[o],
           strings |-> <<k - 1, l - 1>>]
    BY <1>2, <1>3, <1>6, <1>7 DEF EventOf, EventRecord
  <2>2. QED
    BY <1>2, <1>7, <2>1 DEF IsEvent
<1>9. made = 48 => IsMetadata(buffer[0], o)'
  <2>1. made = 48 => IsMetadata(buffer[0], o)
    BY <1>2, <1>3 DEF BufferInv
  <2>2. QED
    BY <1>2, <1>6, <2>1 DEF IsMetadata
<1>10. BufferInv(u)'
  BY <1>2, <1>3, <1>4, <1>8, <1>9 DEF BufferInv, InProbe
<1>11. \A t \in Thread : t # u => BufferInv(t)'
  BY <1>1, Alone, OutsideBuffer DEF InProbe
<1>12. \A t \in Thread : /\ step'[t] \in {"event", "send"} <=> step[t] \in {"event", "send"}
                          /\ data'[t] = data[t]
  BY <1>1, <1>2, Alone
<1>13. \A p \in Obj : Numbered(p)' => Numbered(p)
  BY <1>2 DEF Numbered
<1>14. \A t \in Thread : pc'[t] \notin {"wrlock", "add"}
  BY <1>1, <1>2, Alone
<1>15. QED
  BY <1>2, <1>4, <1>6, <1>10, <1>11, <1>12, <1>13, <1>14, QuietStep

-----------------------------------------------------------------------------
(* What a send puts into the log.                                           *)

LoggedEvent(e, u, o) ==
  /\ e \in Received /\ e.type = call[u].probe
  /\ e.trace = trace[o].trace_id /\ e.order = order_index[o]
  /\ e.texts \in {call[u].op, NoMessage} \X {ClassName, NoMessage}
  /\ ~WriteMayFail => e.texts = <<call[u].op, ClassName>>

LoggedMetadata(m, o) ==
  /\ m \in Received /\ m.type = "metadata"
  /\ m.trace = trace[o].trace_id /\ m.thread = trace[o].thread_id
  /\ m.texts \in {NoSession, NoMessage} \X {LocalHost, NoMessage}
  /\ ~WriteMayFail => m.texts = <<NoSession, LocalHost>>

\* Nobody is at a lookup.
Rest == TableInv /\ \A t \in Thread : Wanted(t) = <<>>

\* What the collector makes of the key of a string in the table.
LEMMA TextFound ==
  ASSUME Rest, NEW n \in DOMAIN table
  PROVE  /\ table[n] \in Text /\ TextOf(n - 1) \in {table[n], NoMessage}
         /\ ~WriteMayFail => TextOf(n - 1) = table[n]
<1>1. table \in Seq(Text) /\ n \in 1 .. Len(table) /\ n - 1 \in 0 .. Len(table) - 1
      /\ (n - 1) + 1 = n
  BY DEF Rest, TableInv
<1>2. n - 1 \in DOMAIN announced => announced[n - 1] = table[n]
  BY <1>1, NobodyLooks DEF Rest
<1>3. ~WriteMayFail => n - 1 \in DOMAIN announced
  BY <1>1, NobodyLooks DEF Rest, TableInv
<1>4. table[n] \in Text
  BY <1>1
<1>5. QED
  BY <1>2, <1>3, <1>4 DEF TextOf

\* The collector knows the names of the record types from the start.
LEMMA TypeFound ==
  ASSUME Rest
  PROVE  /\ TypeNamed(TextOf(KIEKER_FLOW_TRACE_METADATA)) = "metadata"
         /\ TypeNamed(TextOf(KIEKER_FLOW_BEFORE_OPERATION)) = "before"
         /\ TypeNamed(TextOf(KIEKER_FLOW_AFTER_OPERATION)) = "after"
<1>1. /\ DOMAIN EventTypes = 1 .. 3 /\ EventTypes[1] = "TraceMetadata"
      /\ EventTypes[2] = "BeforeOperationEvent" /\ EventTypes[3] = "AfterOperationEvent"
  BY DEF EventTypes
<1>2. ASSUME NEW n \in 1 .. 3 PROVE n - 1 \in DOMAIN announced /\ announced[n - 1] = EventTypes[n]
  <2>1. table[n] = EventTypes[n] /\ n - 1 \in DOMAIN announced
    BY <1>1 DEF Rest, TableInv
  <2>2. announced[n - 1] = table[(n - 1) + 1]
    BY <2>1, NobodyLooks DEF Rest
  <2>3. QED
    BY <2>1, <2>2
<1>3. TextOf(0) = EventTypes[1] /\ TextOf(1) = EventTypes[2] /\ TextOf(2) = EventTypes[3]
  <2>1. 1 - 1 = 0 /\ 2 - 1 = 1 /\ 3 - 1 = 2
    OBVIOUS
  <2>2. QED
    BY <1>2, <2>1 DEF TextOf
<1>4. QED
  BY <1>1, <1>3 DEF TypeNamed, KIEKER_FLOW_TRACE_METADATA, KIEKER_FLOW_BEFORE_OPERATION,
     KIEKER_FLOW_AFTER_OPERATION

\* An event is decoded as what it is.
LEMMA EventDecoded ==
  ASSUME Rest, NEW u \in Thread, NEW o, NEW record,
         call[u].probe \in {"before", "after"},
         trace[o].trace_id \in Nat, order_index[o] \in Nat,
         IsEvent(record, call[u].probe, o, call[u].op)
  PROVE  Size(record) = 40 /\ LoggedEvent(Decode(record), u, o)
<1> DEFINE type == IF call[u].probe = "before" THEN KIEKER_FLOW_BEFORE_OPERATION
                                               ELSE KIEKER_FLOW_AFTER_OPERATION
<1>1. PICK k, l \in DOMAIN table :
        /\ table[k] = call[u].op /\ table[l] = ClassName
        /\ record = [kind |-> "record", type |-> type, trace |-> trace[o].trace_id,
                     order |-> order_index[o], strings |-> <<k - 1, l - 1>>]
  BY DEF IsEvent
<1>2. type # KIEKER_FLOW_TRACE_METADATA /\ TypeNamed(TextOf(type)) = call[u].probe
  BY TypeFound DEF KIEKER_FLOW_TRACE_METADATA, KIEKER_FLOW_BEFORE_OPERATION,
     KIEKER_FLOW_AFTER_OPERATION
<1> HIDE DEF type
<1>3. /\ record.kind = "record" /\ record.type = type /\ record.trace = trace[o].trace_id
      /\ record.order = order_index[o]
      /\ record.strings[1] = k - 1 /\ record.strings[2] = l - 1
  BY <1>1
<1>4. Size(record) = 40
  BY <1>2, <1>3 DEF Size
<1> DEFINE texts == <<TextOf(k - 1), TextOf(l - 1)>>
<1>5. /\ texts \in Texts /\ texts \in {call[u].op, NoMessage} \X {ClassName, NoMessage}
      /\ ~WriteMayFail => texts = <<call[u].op, ClassName>>
  BY <1>1, TextFound DEF Texts
<1>6. Decode(record) = [type |-> call[u].probe, trace |-> trace[o].trace_id,
                        order |-> order_index[o], texts |-> texts]
  BY <1>2, <1>3 DEF Decode
<1> HIDE DEF texts
<1>7. LoggedEvent(Decode(record), u, o)
  BY <1>5, <1>6 DEF LoggedEvent, Received
<1>8. QED
  BY <1>4, <1>7

LEMMA MetadataDecoded ==
  ASSUME Rest, NEW o, NEW record, trace[o].trace_id \in Nat, trace[o].thread_id \in Int,
         IsMetadata(record, o)
  PROVE  Size(record) = 48 /\ LoggedMetadata(Decode(record), o)
<1>1. PICK k, l \in DOMAIN table :
        /\ table[k] = NoSession /\ table[l] = LocalHost
        /\ record = [kind |-> "record", type |-> KIEKER_FLOW_TRACE_METADATA,
                     trace |-> trace[o].trace_id, thread |-> trace[o].thread_id,
                     strings |-> <<k - 1, l - 1>>]
  BY DEF IsMetadata
<1>2. /\ record.kind = "record" /\ record.type = KIEKER_FLOW_TRACE_METADATA
      /\ record.trace = trace[o].trace_id /\ record.thread = trace[o].thread_id
      /\ record.strings[1] = k - 1 /\ record.strings[2] = l - 1
  BY <1>1
<1>3. Size(record) = 48
  BY <1>2 DEF Size
<1> DEFINE texts == <<TextOf(k - 1), TextOf(l - 1)>>
<1>4. /\ texts \in Texts /\ texts \in {NoSession, NoMessage} \X {LocalHost, NoMessage}
      /\ ~WriteMayFail => texts = <<NoSession, LocalHost>>
  BY <1>1, TextFound DEF Texts
<1>5. Decode(record) = [type |-> "metadata", trace |-> trace[o].trace_id,
                        thread |-> trace[o].thread_id, texts |-> texts]
  BY <1>2, TypeFound DEF Decode
<1> HIDE DEF texts
<1>6. LoggedMetadata(Decode(record), o)
  BY <1>4, <1>5 DEF LoggedMetadata, Received
<1>7. QED
  BY <1>3, <1>6

\* A send puts the event of the probe into the log, after the metadata of the trace if it
\* is the first, or fails.
SendsEvent(u, o) ==
  /\ order_index[o] >= IF call[u].probe = "before" THEN 1 ELSE 0
  /\ \E e : LoggedEvent(e, u, o) /\ log' = Append(log, e)

SendsFirst(u, o) ==
  /\ order_index[o] = 0 /\ call[u].probe = "before"
  /\ \E m, e : /\ LoggedMetadata(m, o) /\ LoggedEvent(e, u, o)
               /\ log' = Append(Append(log, m), e)

LEMMA Sends ==
  ASSUME OneProbe, NEW u \in Thread, Send(u), NEW o \in Obj, o = data[u]
  PROVE  \/ WriteMayFail /\ UNCHANGED log
         \/ SendsEvent(u, o)
         \/ SendsFirst(u, o)
<1> USE DEF OneProbe
<1>1. step[u] = "send" /\ pc[u] = "got" /\ call[u].probe \in {"before", "after"}
  BY DEF Send, Stage, ProbeInv, StageInv, InProbe
<1>0. Rest
  <2>1. \A t \in Thread : step[t] \in {"send", "out"}
    BY <1>1, Alone DEF ProbeMove, ProbeStep
  <2>2. QED
    BY <2>1 DEF Rest, Wanted
<1>2. /\ trace[o].trace_id \in Nat /\ order_index[o] \in Int /\ trace[o].thread_id \in Int
  <2>1. trace \in [Obj -> [thread_id : Int, trace_id : Nat]] /\ order_index \in [Obj -> Int]
    BY DEF RegistryInv, TypeOK, OrderInv
  <2>2. QED
    BY <2>1
<1> DEFINE made == position[u] - 40
<1>3. /\ \/ /\ made = 48 /\ call[u].probe = "before" /\ IsMetadata(buffer[0], o)
            /\ order_index[o] = 0
         \/ made = 0 /\ order_index[o] >= IF call[u].probe = "before" THEN 1 ELSE 0
      /\ IsEvent(buffer[made], call[u].probe, o, call[u].op)
  BY <1>1, <1>2 DEF OrderInv, BufferInv
<1>4. order_index[o] \in Nat
  BY <1>2, <1>3
<1>5. Size(buffer[made]) = 40 /\ LoggedEvent(Decode(buffer[made]), u, o)
  BY <1>0, <1>1, <1>2, <1>3, <1>4, EventDecoded
<1>6. \/ WriteMayFail /\ UNCHANGED log
      \/ log' = log \o [n \in DOMAIN Contents(position[u]) |-> Decode(Contents(position[u])[n])]
  BY DEF Send
<1>7. log \in Seq(Received) /\ position[u] \in Int /\ DOMAIN buffer = {0, 48}
  BY DEF OrderInv
<1>8. CASE made = 0 /\ order_index[o] >= IF call[u].probe = "before" THEN 1 ELSE 0
  <2>1. position[u] = 40
    BY <1>7, <1>8
  <2>2. Contents(position[u]) = <<buffer[0]>>
    BY <1>5, <1>8, <2>1 DEF Contents
  <2>3. [n \in DOMAIN Contents(position[u]) |-> Decode(Contents(position[u])[n])]
          = <<Decode(buffer[0])>>
    BY <2>2
  <2>4. log \o <<Decode(buffer[0])>> = Append(log, Decode(buffer[0]))
    BY <1>5, <1>7, <1>8 DEF LoggedEvent
  <2>5. LoggedEvent(Decode(buffer[0]), u, o)
    BY <1>5, <1>8
  <2>6. (WriteMayFail /\ UNCHANGED log) \/ log' = Append(log, Decode(buffer[0]))
    BY <1>6, <2>3, <2>4
  <2>7. QED
    BY <1>8, <2>5, <2>6 DEF SendsEvent
<1>9. CASE /\ made = 48 /\ call[u].probe = "before" /\ IsMetadata(buffer[0], o)
           /\ order_index[o] = 0
  <2>1. position[u] = 88
    BY <1>7, <1>9
  <2>2. Size(buffer[0]) = 48 /\ LoggedMetadata(Decode(buffer[0]), o)
    BY <1>0, <1>2, <1>9, MetadataDecoded
  <2>3. Contents(position[u]) = <<buffer[0], buffer[48]>>
    BY <1>5, <1>7, <1>9, <2>1, <2>2 DEF Contents
  <2>4. [n \in DOMAIN Contents(position[u]) |-> Decode(Contents(position[u])[n])]
          = <<Decode(buffer[0]), Decode(buffer[48])>>
    BY <2>3
  <2>5. log \o <<Decode(buffer[0]), Decode(buffer[48])>>
          = Append(Append(log, Decode(buffer[0])), Decode(buffer[48]))
    BY <1>5, <1>7, <1>9, <2>2 DEF LoggedEvent, LoggedMetadata
  <2>6. LoggedEvent(Decode(buffer[48]), u, o)
    BY <1>5, <1>9
  <2>7. \/ WriteMayFail /\ UNCHANGED log
        \/ log' = Append(Append(log, Decode(buffer[0])), Decode(buffer[48]))
    BY <1>6, <2>4, <2>5
  <2>8. QED
    BY <1>9, <2>2, <2>6, <2>7 DEF SendsFirst
<1>10. QED
  BY <1>3, <1>8, <1>9

\* OrderIndexesIncrease, of any sequence of records.
Increasing(l) ==
  \A m, n \in DOMAIN l :
    m < n /\ l[m].trace = l[n].trace /\ l[m].type # "metadata" =>
      l[n].type # "metadata" /\ l[m].order < l[n].order

LEMMA IncreasingAppend ==
  ASSUME NEW l \in Seq(Received), NEW e \in Received, Increasing(l),
         \A n \in DOMAIN l : l[n].trace = e.trace /\ l[n].type # "metadata" =>
           e.type # "metadata" /\ l[n].order < e.order
  PROVE  Increasing(Append(l, e)) /\ Append(l, e) \in Seq(Received)
<1> DEFINE k == Append(l, e)
<1>1. /\ k \in Seq(Received) /\ Len(l) \in Nat /\ DOMAIN l = 1 .. Len(l)
      /\ DOMAIN k = 1 .. Len(l) + 1 /\ k[Len(l) + 1] = e
      /\ \A n \in DOMAIN l : k[n] = l[n]
  OBVIOUS
<1> HIDE DEF k
<1>2. ASSUME NEW m \in DOMAIN k, NEW n \in DOMAIN k, m < n, k[m].trace = k[n].trace,
             k[m].type # "metadata"
      PROVE  k[n].type # "metadata" /\ k[m].order < k[n].order
  <2>1. m \in DOMAIN l /\ k[m] = l[m]
    BY <1>1, <1>2
  <2>2. CASE n \in DOMAIN l
    BY <1>1, <1>2, <2>1, <2>2 DEF Increasing
  <2>3. CASE n = Len(l) + 1
    BY <1>1, <1>2, <2>1, <2>3
  <2>4. QED
    BY <1>1, <2>2, <2>3
<1>3. QED
  BY <1>1, <1>2 DEF Increasing, k

\* A probe sends: its event comes after all events of its trace.
LEMMA OrderSend ==
  ASSUME OneProbe, NEW u \in Thread, Send(u)
  PROVE  OrderInv'
<1> USE DEF OneProbe
<1>1. ProbeMove(u)
  BY DEF ProbeMove, ProbeStep
<1>2. /\ step[u] = "send" /\ step'[u] = "leave" /\ pc[u] = "got"
      /\ UNCHANGED <<order_index, position, buffer, call, fqn, kieker_trace_current_id, trace, pc,
                     data, kieker_traces, live>>
  BY DEF Send, Stage, ProbeInv, StageInv, vars, object_vars, program_vars, heap_vars, id_vars
<1>3. PICK o \in Obj : /\ o = data[u] /\ o \in kieker_traces /\ trace[o].trace_id \in Nat
                       /\ trace[o].trace_id \in InitialId .. kieker_trace_current_id - 1
                       /\ order_index[o] \in Int
                       /\ \A p \in kieker_traces : trace[p].trace_id = trace[o].trace_id => p = o
  BY <1>1, <1>2, GotObject
<1>4. \A t \in Thread : t # u => step[t] = "out" /\ step'[t] = "out"
  BY <1>1, Alone
<1>5. Sent(o) = order_index[o] /\ Sent(o)' = order_index[o] + 1
  BY <1>2, <1>3, <1>4 DEF Sent
<1>6. \A p \in Obj : p # o => Sent(p)' = Sent(p)
  BY <1>2, <1>3, <1>4 DEF Sent
<1>7. log \in Seq(Received) /\ Increasing(log) /\ kieker_traces \subseteq Obj
      /\ \A n \in DOMAIN log : log[n] \in Received
  BY DEF OrderInv, OrderIndexesIncrease, Increasing, RegistryInv, TypeOK
<1>8. \A n \in DOMAIN log : log[n].trace = trace[o].trace_id /\ log[n].type # "metadata" =>
        log[n].order < order_index[o] /\ log[n].order \in Nat
  BY <1>3, <1>5, <1>7 DEF OrderInv, Received
<1> DEFINE Of(e) == e \in Received /\ e.trace = trace[o].trace_id
                    /\ (e.type # "metadata" => e.order = order_index[o])
<1>9. /\ log' \in Seq(Received) /\ Increasing(log')
      /\ \A n \in DOMAIN log' : (n \in DOMAIN log /\ log'[n] = log[n]) \/ Of(log'[n])
  <2>1. CASE UNCHANGED log
    BY <1>7, <2>1
  <2>2. CASE SendsEvent(u, o)
    <3>1. PICK e : LoggedEvent(e, u, o) /\ log' = Append(log, e)
      BY <2>2 DEF SendsEvent
    <3>2. e \in Received /\ e.type # "metadata" /\ Of(e)
      BY <1>2, <3>1 DEF LoggedEvent, ProbeInv, StageInv, InProbe
    <3>3. log' \in Seq(Received) /\ Increasing(log')
      BY <1>7, <1>8, <3>1, <3>2, IncreasingAppend
    <3>4. \A n \in DOMAIN log' : (n \in DOMAIN log /\ log'[n] = log[n]) \/ log'[n] = e
      BY <1>7, <3>1, <3>2
    <3>5. QED
      BY <3>2, <3>3, <3>4
  <2>3. CASE SendsFirst(u, o)
    <3>1. PICK m, e : /\ LoggedMetadata(m, o) /\ LoggedEvent(e, u, o)
                      /\ log' = Append(Append(log, m), e)
      BY <2>3 DEF SendsFirst
    <3>2. /\ e \in Received /\ e.type # "metadata" /\ Of(e)
          /\ m \in Received /\ m.type = "metadata" /\ Of(m)
      BY <1>2, <3>1 DEF LoggedEvent, LoggedMetadata, ProbeInv, StageInv, InProbe
    <3>3. \A n \in DOMAIN log : ~(log[n].trace = trace[o].trace_id /\ log[n].type # "metadata")
      BY <1>8, <2>3 DEF SendsFirst
    <3> DEFINE one == Append(log, m)
    <3>4. one \in Seq(Received) /\ Increasing(one)
      BY <1>7, <3>2, <3>3, IncreasingAppend
    <3>5. \A n \in DOMAIN one : (n \in DOMAIN log /\ one[n] = log[n]) \/ one[n] = m
      BY <1>7, <3>2
    <3>6. log' = Append(one, e)
      BY <3>1
    <3> HIDE DEF one
    <3>7. \A n \in DOMAIN one : ~(one[n].trace = trace[o].trace_id /\ one[n].type # "metadata")
      BY <3>2, <3>3, <3>5
    <3>8. log' \in Seq(Received) /\ Increasing(log')
      BY <3>2, <3>4, <3>6, <3>7, IncreasingAppend
    <3>9. \A n \in DOMAIN log' : (n \in DOMAIN one /\ log'[n] = one[n]) \/ log'[n] = e
      BY <3>2, <3>4, <3>6
    <3>10. QED
      BY <3>2, <3>5, <3>8, <3>9
  <2>4. QED
    BY <1>3, <2>1, <2>2, <2>3, Sends
<1>10. \A n \in DOMAIN log' : log'[n].trace \in InitialId .. kieker_trace_current_id' - 1
  BY <1>2, <1>3, <1>9 DEF OrderInv
<1>11. ASSUME NEW p \in kieker_traces', NEW n \in DOMAIN log',
              log'[n].trace = trace'[p].trace_id, log'[n].type # "metadata"
       PROVE  log'[n].order < Sent(p)'
  <2>1. p \in kieker_traces /\ p \in Obj /\ log'[n].trace = trace[p].trace_id
    BY <1>2, <1>7, <1>11
  <2>2. CASE n \in DOMAIN log /\ log'[n] = log[n]
    <3>1. log[n].order < Sent(p)
      BY <1>11, <2>1, <2>2 DEF OrderInv
    <3>2. CASE p = o
      BY <1>3, <1>5, <1>8, <1>11, <2>1, <2>2, <3>2
    <3>3. CASE p # o
      BY <1>6, <2>1, <2>2, <3>1, <3>3
    <3>4. QED
      BY <3>2, <3>3
  <2>3. CASE Of(log'[n])
    <3>1. p = o /\ log'[n].order = order_index[o]
      BY <1>3, <1>11, <2>1, <2>3
    <3>2. QED
      BY <1>3, <1>5, <3>1
  <2>4. QED
    BY <1>9, <2>2, <2>3
<1>12. BufferInv(u)'
  <2>1. GccProfiling => fqn = call[u].op
    BY <1>2 DEF OrderInv, BufferInv, InProbe
  <2>2. QED
    BY <1>2, <2>1, OutsideBuffer
<1>13. \A t \in Thread : BufferInv(t)'
  BY <1>1, <1>12, Alone, OutsideBuffer DEF InProbe
<1>14. \A t \in Thread : pc'[t] \notin {"wrlock", "add"}
  BY <1>1, <1>2, Alone
<1>15. \A p \in Obj : Numbered(p)' => Numbered(p)
  BY <1>2 DEF Numbered
<1>16. OrderIndexesIncrease'
  BY <1>9 DEF OrderIndexesIncrease, Increasing
<1>17. QED
  BY <1>2, <1>9, <1>10, <1>11, <1>13, <1>14, <1>15, <1>16 DEF OrderInv

\* A probe returns, or goes on to end the trace.
LEMMA OrderEnd ==
  ASSUME OneProbe, NEW u \in Thread, EndOfProbe(u)
  PROVE  OrderInv'
<1> USE DEF OneProbe
<1>1. ProbeMove(u)
  BY DEF ProbeMove, ProbeStep
<1>2. /\ step[u] = "leave" /\ step'[u] \in {"out", "remove"} /\ pc'[u] \in {"idle", "dellock"}
      /\ position' = [position EXCEPT ![u] = 0]
      /\ UNCHANGED <<order_index, buffer, log, kieker_trace_current_id, trace, kieker_traces, live>>
  BY DEF EndOfProbe, CallRemove, Return, Goto, ProbeInv, RegistryInv, TypeOK, object_vars,
     out_vars, wire_vars, heap_vars, id_vars
<1>3. position' \in [Thread -> Int] /\ DOMAIN buffer' = {0, 48}
  BY <1>2 DEF OrderInv
<1>4. \A t \in Thread : step'[t] \notin {"event", "send"} /\ step[t] \notin {"event", "send"}
  BY <1>1, <1>2, Alone
<1>5. \A t \in Thread : BufferInv(t)'
  <2>1. \A t \in Thread : ~InProbe(t)' /\ step'[t] \notin {"count", "event", "send"}
    BY <1>1, <1>2, Alone DEF InProbe
  <2>2. QED
    BY <2>1, OutsideBuffer
<1>6. \A t \in Thread : pc[t] # "bump" /\ pc'[t] \notin {"wrlock", "add"}
  <2>1. pc[u] = "got"
    BY <1>2 DEF ProbeInv, StageInv
  <2>2. QED
    BY <1>1, <1>2, <2>1, Alone
<1>7. \A o \in Obj : Numbered(o)' => Numbered(o)
  BY <1>2, <1>6 DEF Numbered
<1>8. QED
  BY <1>2, <1>3, <1>4, <1>5, <1>6, <1>7, QuietStep

\* A trace ends.
LEMMA OrderRemove ==
  ASSUME OneProbe, NEW u \in Thread, InRemove(u)
  PROVE  OrderInv'
<1> USE DEF OneProbe
<1>1. ProbeMove(u)
  BY DEF ProbeMove, ProbeStep
<1>2. /\ step[u] = "remove" /\ step'[u] \in {"out", "remove"} /\ RemoveStep(u)
      /\ UNCHANGED <<order_index, position, buffer, log>>
  BY DEF InRemove, ProbeInv, object_vars, out_vars, wire_vars
<1>3. /\ pc[u] # "bump" /\ pc'[u] \in {"del", "delunlock", "free", "idle"}
      /\ UNCHANGED <<kieker_trace_current_id, trace>>
      /\ kieker_traces' \subseteq kieker_traces /\ live' \subseteq live
  BY <1>2 DEF RemoveStep, DelLock, Del, DelUnlock, Free, Goto, RegistryInv, TypeOK,
     heap_vars, id_vars
<1>4. position' \in [Thread -> Int] /\ DOMAIN buffer' = {0, 48}
  BY <1>2 DEF OrderInv
<1>5. \A t \in Thread : step'[t] \notin {"event", "send"} /\ step[t] \notin {"event", "send"}
  BY <1>1, <1>2, Alone
<1>6. \A t \in Thread : BufferInv(t)'
  <2>1. \A t \in Thread : ~InProbe(t)' /\ step'[t] \notin {"count", "event", "send"}
    BY <1>1, <1>2, Alone DEF InProbe
  <2>2. QED
    BY <2>1, OutsideBuffer
<1>7. \A t \in Thread : pc[t] # "bump" /\ pc'[t] \notin {"wrlock", "add"}
  BY <1>1, <1>3, Alone
<1>8. \A o \in Obj : Numbered(o)' => Numbered(o)
  BY <1>3, <1>7 DEF Numbered
<1>9. QED
  BY <1>2, <1>3, <1>4, <1>5, <1>6, <1>7, <1>8, QuietStep

-----------------------------------------------------------------------------
\* A step of the probes, or one of a thread that ends inside its operations.
LEMMA OrderStep ==
  ASSUME OneProbe, [ProbeNext]_all_vars
  PROVE  OrderInv'
<1>1. CASE UNCHANGED <<vars, object_vars, fqn, call, step, position, out_vars>>
  <2>1. /\ UNCHANGED <<order_index, log, kieker_trace_current_id, trace, position, buffer, table,
                       fqn, call, step, data, pc, kieker_traces, live>>
    BY <1>1 DEF vars, object_vars, out_vars, wire_vars, heap_vars, id_vars
  <2>2. \A t \in Thread : BufferInv(t)'
    <3>1. ASSUME NEW t \in Thread PROVE BufferInv(t)'
      <4>1. BufferInv(t)
        BY DEF OneProbe, OrderInv
      <4>2. IsMetadata(buffer[0], data[t]) => IsMetadata(buffer[0], data[t])'
        BY <2>1 DEF IsMetadata
      <4> DEFINE made == IF step[t] = "send" THEN position[t] - 40 ELSE position[t]
      <4>3. IsEvent(buffer[made], call[t].probe, data[t], call[t].op) =>
              IsEvent(buffer[made], call[t].probe, data[t], call[t].op)'
        BY <2>1 DEF IsEvent
      <4>4. QED
        BY <2>1, <4>1, <4>2, <4>3 DEF BufferInv, InProbe
    <3>2. QED
      BY <3>1
  <2>3. position' \in [Thread -> Int] /\ DOMAIN buffer' = {0, 48}
    BY <2>1 DEF OneProbe, OrderInv
  <2>4. \A o \in Obj : Numbered(o)' => Numbered(o)
    BY <2>1 DEF Numbered
  <2>5. QED
    BY <2>1, <2>2, <2>3, <2>4, QuietStep DEF OneProbe
<1>2. CASE UNCHANGED all_vars
  BY <1>1, <1>2 DEF all_vars, probe_vars, program_vars
<1>3. CASE RunOver
  BY <1>2, <1>3 DEF RunOver
<1>4. ASSUME NEW u \in Thread, ThreadNext(u) PROVE OrderInv'
  <2>1. CASE Unwind(u)
    BY <1>1, <2>1 DEF Unwind
  <2>2. QED
    BY <1>4, <2>1, OrderCall, OrderGet, OrderBump, OrderLookup, OrderMetadata, OrderCount, OrderEvent,
       OrderSend, OrderEnd, OrderRemove DEF ThreadNext, ProbeStep
<1>5. QED
  BY <1>2, <1>3, <1>4 DEF ProbeNext, ThreadNext

LEMMA OrderInit == ProbeInit => OrderInv
<1> SUFFICES ASSUME ProbeInit PROVE OrderInv
  OBVIOUS
<1>1. /\ order_index \in [Obj -> Int] /\ position \in [Thread -> Int] /\ DOMAIN buffer = {0, 48}
      /\ log = <<>> /\ kieker_traces = {} /\ kieker_trace_current_id = InitialId
      /\ \A o \in Obj : ~Numbered(o)
      /\ \A t \in Thread : step[t] = "out" /\ pc[t] = "idle"
  BY DEF ProbeInit, Init, Numbered
<1>2. \A t \in Thread : BufferInv(t)
  BY <1>1 DEF BufferInv, InProbe
<1>3. QED
  BY <1>1, <1>2, InitialIdAssumption DEF OrderInv, OrderIndexesIncrease

\* When the program runs one probe at a time, the log is behind the objects, whatever writes
\* fail and wherever threads end.
THEOREM OrderCorrect ==
  ASSUME InjectiveKey, Serialised
  PROVE  ProbeSpec => []OrderInv
<1>1. /\ RegistryInv /\ SerialInv /\ ProbeInv /\ TableInv /\ OrderInv
      /\ [ProbeNext]_all_vars
      => OrderInv'
  BY OrderStep DEF OneProbe
<1>2. QED
  BY <1>1, OrderInit, RegistryUnderProbes, SerialUnderProbes, ProbeCorrect, TableCorrect, PTL
     DEF ProbeSpec

\* Whatever writes fail and wherever threads end, the events of a trace arrive in order
\* when the program runs one probe at a time.
THEOREM OrderIncreases ==
  ASSUME InjectiveKey, Serialised
  PROVE  ProbeSpec => []OrderIndexesIncrease
<1>1. OrderInv => OrderIndexesIncrease
  BY DEF OrderInv
<1>2. QED
  BY <1>1, OrderCorrect, PTL

\* Whatever writes fail and wherever threads end, a record that arrives tells what the
\* probe that sends it was called for, up to names whose announcement was lost, when the
\* program runs one probe at a time.
THEOREM RecordsTellCalls ==
  ASSUME InjectiveKey, Serialised
  PROVE  ProbeSpec => LoggedAsCalled
<1> DEFINE Telling == \A n \in DOMAIN log' \ DOMAIN log :
                        \E t \in Thread : step[t] = "send" /\ Tells(log'[n], t)
<1>1. OneProbe /\ [ProbeNext]_all_vars => Telling
  <2> SUFFICES ASSUME OneProbe, [ProbeNext]_all_vars PROVE Telling
    OBVIOUS
  <2>1. CASE UNCHANGED log
    BY <2>1
  <2>2. ASSUME NEW u \in Thread, Send(u) PROVE Telling
    <3> SUFFICES ASSUME NEW n \in DOMAIN log' \ DOMAIN log PROVE Tells(log'[n], u) /\ step[u] = "send"
      OBVIOUS
    <3>1. step[u] = "send" /\ pc[u] = "got" /\ call[u].probe \in {"before", "after"}
      BY <2>2 DEF OneProbe, Send, Stage, ProbeInv, StageInv, InProbe
    <3>2. ProbeMove(u)
      BY <2>2 DEF ProbeMove, ProbeStep
    <3>3. PICK o \in Obj : o = data[u] /\ trace[o].thread_id = Key[u]
      BY <3>1, <3>2, GotObject
    <3>4. \A e : LoggedEvent(e, u, o) => e \in Received /\ Tells(e, u)
      BY <3>3 DEF LoggedEvent, Tells
    <3>5. \A m : LoggedMetadata(m, o) => m \in Received /\ Tells(m, u)
      BY <3>3 DEF LoggedMetadata, Tells
    <3>6. log \in Seq(Received)
      BY DEF OneProbe, OrderInv
    <3>7. CASE UNCHANGED log
      BY <3>7
    <3>8. CASE SendsEvent(u, o)
      <4>1. PICK e : LoggedEvent(e, u, o) /\ log' = Append(log, e)
        BY <3>8 DEF SendsEvent
      <4>2. log'[n] = e
        BY <3>4, <3>6, <4>1
      <4>3. QED
        BY <3>1, <3>4, <4>1, <4>2
    <3>9. CASE SendsFirst(u, o)
      <4>1. PICK m, e : /\ LoggedMetadata(m, o) /\ LoggedEvent(e, u, o)
                        /\ log' = Append(Append(log, m), e)
        BY <3>9 DEF SendsFirst
      <4>2. log'[n] = e \/ log'[n] = m
        BY <3>4, <3>5, <3>6, <4>1
      <4>3. QED
        BY <3>1, <3>4, <3>5, <4>1, <4>2
    <3>10. QED
      BY <2>2, <3>3, <3>7, <3>8, <3>9, Sends
  <2>3. \/ UNCHANGED log
        \/ \E u \in Thread : Send(u)
    BY DEF ProbeNext, ProbeStep, all_vars, probe_vars, out_vars, wire_vars, RunOver, InGet, Lookup,
       Metadata, UsesKeys, Count, Event, EndOfProbe, InRemove, CallAfter, CallBefore, Unwind
  <2>4. QED
    BY <2>1, <2>2, <2>3
<1>2. ProbeSpec => []OneProbe
  BY RegistryUnderProbes, SerialUnderProbes, ProbeCorrect, TableCorrect, OrderCorrect, PTL
     DEF OneProbe
<1>3. QED
  BY <1>1, <1>2, PTL DEF ProbeSpec, LoggedAsCalled

-----------------------------------------------------------------------------
(* What the log tells, when no write fails and every operation returns.     *)

\* The operations and the events of a trace, in any sequence of records.
Ins(l, id) == Monitor!InsideAt(l, id)[Len(l)]
Evs(l, id) == {n \in DOMAIN l : l[n].trace = id /\ l[n].type # "metadata"}

LEMMA TellsAppend ==
  ASSUME NEW l \in Seq(Received), NEW r \in Received, NEW id
  PROVE  /\ Ins(l, id) \in Seq(Texts)
         /\ Ins(Append(l, r), id) = IF r.trace = id /\ r.type # "metadata"
                                    THEN Monitor!After(Ins(l, id), r) ELSE Ins(l, id)
         /\ Evs(l, id) \subseteq Evs(Append(l, r), id)
         /\ r.trace = id /\ r.type # "metadata" => Evs(Append(l, r), id) # {}
         /\ Cardinality(Evs(l, id)) \in Nat
         /\ Cardinality(Evs(Append(l, r), id)) =
              Cardinality(Evs(l, id)) + IF r.trace = id /\ r.type # "metadata" THEN 1 ELSE 0
<1> DEFINE k == Append(l, r)
<1>2. /\ Ins(l, id) \in Seq(Texts)
      /\ Ins(k, id) = IF r.trace = id /\ r.type # "metadata"
                      THEN Monitor!After(Ins(l, id), r) ELSE Ins(l, id)
  BY InsideAppend DEF Ins
<1>3. /\ Len(l) \in Nat /\ DOMAIN l = 1 .. Len(l) /\ DOMAIN k = 1 .. Len(l) + 1
      /\ k[Len(l) + 1] = r /\ \A n \in DOMAIN l : k[n] = l[n]
  OBVIOUS
<1> HIDE DEF k
<1>4. IsFiniteSet(Evs(l, id))
  <2>1. Evs(l, id) \subseteq 1 .. Len(l)
    BY <1>3 DEF Evs
  <2>2. QED
    <3>1. IsFiniteSet(1 .. Len(l))
      BY <1>3, FS_Interval
    <3>2. QED
      BY <2>1, <3>1, FS_Subset
<1>5. Cardinality(Evs(l, id)) \in Nat
  BY <1>4, FS_CardinalityType
<1>6. CASE r.trace = id /\ r.type # "metadata"
  <2>1. Evs(k, id) = Evs(l, id) \cup {Len(l) + 1} /\ Len(l) + 1 \notin Evs(l, id)
    BY <1>3, <1>6 DEF Evs
  <2>2. Cardinality(Evs(k, id)) = Cardinality(Evs(l, id)) + 1
    BY <1>4, <2>1, FS_AddElement
  <2>3. QED
    BY <1>2, <1>5, <1>6, <2>1, <2>2 DEF k
<1>7. CASE ~(r.trace = id /\ r.type # "metadata")
  <2>1. Evs(k, id) = Evs(l, id)
    BY <1>3, <1>7 DEF Evs
  <2>2. QED
    BY <1>2, <1>5, <1>7, <2>1 DEF k
<1>8. QED
  BY <1>6, <1>7

\* A trace has as many events as the log tells of, none exactly if it tells of none.
LEMMA TellsFinite ==
  ASSUME NEW l \in Seq(Received), NEW id
  PROVE  /\ Cardinality(Evs(l, id)) \in Nat
         /\ Cardinality(Evs(l, id)) = 0 <=> Evs(l, id) = {}
<1>1. Evs(l, id) \subseteq 1 .. Len(l) /\ Len(l) \in Nat
  BY DEF Evs
<1>2. IsFiniteSet(1 .. Len(l))
  BY <1>1, FS_Interval
<1>3. IsFiniteSet(Evs(l, id))
  BY <1>1, <1>2, FS_Subset
<1>4. QED
  BY <1>3, FS_CardinalityType, FS_EmptySet

\* Of a trace without records the log tells nothing.
LEMMA TellsNothing ==
  ASSUME NEW l \in Seq(Received), NEW id, \A n \in DOMAIN l : l[n].trace # id
  PROVE  Ins(l, id) = <<>> /\ Evs(l, id) = {} /\ Cardinality(Evs(l, id)) = 0
<1> DEFINE f == Monitor!InsideAt(l, id)
           g == [n \in 0 .. Len(l) |-> <<>>]
<1>1. \A n \in DOMAIN l : l[n].type # "metadata" => l[n].texts \in Texts
  BY DEF Received
<1>2. Len(l) \in Nat /\ DOMAIN l = 1 .. Len(l)
  OBVIOUS
<1>3. /\ f[0] = <<>>
      /\ \A n \in 1 .. Len(l) :
           f[n] = IF l[n].trace = id /\ l[n].type # "metadata"
                  THEN Monitor!After(f[n - 1], l[n]) ELSE f[n - 1]
  BY <1>1, InsideSolves
<1>4. \A n \in 1 .. Len(l) : n \in 0 .. Len(l) /\ n - 1 \in 0 .. Len(l)
  BY <1>2
<1>5. GrowAlike(f, g, Len(l))
  <2> HIDE DEF f
  <2>1. \A n \in 1 .. Len(l) : f[n] = f[n - 1] /\ g[n] = <<>> /\ g[n - 1] = <<>>
    BY <1>2, <1>3, <1>4
  <2>2. g[0] = <<>>
    BY <1>2
  <2> HIDE DEF g
  <2>3. QED
    BY <1>3, <2>1, <2>2 DEF GrowAlike
<1>6. f[Len(l)] = g[Len(l)]
  <2> HIDE DEF f, g
  <2>1. \A n \in 0 .. Len(l) : f[n] = g[n]
    BY <1>2, <1>5, SameUpTo
  <2>2. QED
    BY <1>2, <2>1
<1>7. g[Len(l)] = <<>>
  BY <1>2
<1>8. Evs(l, id) = {}
  BY DEF Evs
<1>9. QED
  BY <1>6, <1>7, <1>8, FS_EmptySet DEF Ins

\* Operations as the log names them.
Shows(f) == [n \in DOMAIN f |-> <<f[n], ClassName>>]

LEMMA ShowsAppend ==
  ASSUME NEW f \in Seq(Op), NEW op \in Op
  PROVE  Append(Shows(f), <<op, ClassName>>) = Shows(Append(f, op))
<1>1. /\ Len(f) \in Nat /\ DOMAIN f = 1 .. Len(f) /\ DOMAIN Append(f, op) = 1 .. Len(f) + 1
      /\ Append(f, op)[Len(f) + 1] = op
      /\ \A n \in 1 .. Len(f) : Append(f, op)[n] = f[n]
  OBVIOUS
<1>2. /\ Shows(f) \in Seq(Op \X {ClassName}) /\ Len(Shows(f)) = Len(f)
      /\ \A n \in 1 .. Len(f) : Shows(f)[n] = <<f[n], ClassName>>
  BY DEF Shows
<1>3. Append(Shows(f), <<op, ClassName>>) =
        [n \in 1 .. Len(f) + 1 |-> IF n = Len(f) + 1 THEN <<op, ClassName>> ELSE Shows(f)[n]]
  BY <1>1, <1>2
<1>4. Shows(Append(f, op)) = [n \in 1 .. Len(f) + 1 |-> <<Append(f, op)[n], ClassName>>]
  BY <1>1 DEF Shows
<1>5. \A n \in 1 .. Len(f) + 1 :
        (IF n = Len(f) + 1 THEN <<op, ClassName>> ELSE Shows(f)[n]) = <<Append(f, op)[n], ClassName>>
  BY <1>1, <1>2
<1>6. QED
  BY <1>3, <1>4, <1>5

LEMMA ShowsFront ==
  ASSUME NEW f \in Seq(Op), f # <<>>
  PROVE  /\ Shows(f) # <<>> /\ Monitor!Last(Shows(f)) = <<Last(f), ClassName>>
         /\ Monitor!Front(Shows(f)) = Shows(Front(f))
<1>1. Len(f) \in Nat \ {0} /\ DOMAIN f = 1 .. Len(f)
  OBVIOUS
<1>2. /\ Shows(f) \in Seq(Op \X {ClassName}) /\ Len(Shows(f)) = Len(f)
      /\ \A n \in 1 .. Len(f) : Shows(f)[n] = <<f[n], ClassName>>
  BY DEF Shows
<1>3. Monitor!Last(Shows(f)) = <<Last(f), ClassName>>
  BY <1>1, <1>2 DEF Monitor!Last, Last
<1>4. PICK k \in 0 .. Len(f) : k = Len(f) - 1
  <2>1. Len(f) - 1 \in 0 .. Len(f)
    BY <1>1
  <2>2. QED
    BY <2>1
<1>5. Front(f) = [n \in 1 .. k |-> f[n]]
  BY <1>4, SubSeqRestrict DEF Front, Restrict
<1>6. Monitor!Front(Shows(f)) = [n \in 1 .. k |-> Shows(f)[n]]
  <2>1. SubSeq(Shows(f), 1, k) = Restrict(Shows(f), 1 .. k)
    BY <1>2, SubSeqRestrict
  <2>2. QED
    BY <1>2, <1>4, <2>1 DEF Monitor!Front, Restrict
<1>7. Shows(Front(f)) = [n \in 1 .. k |-> <<f[n], ClassName>>]
  BY <1>4, <1>5 DEF Shows
<1>8. \A n \in 1 .. k : Shows(f)[n] = <<f[n], ClassName>>
  BY <1>1, <1>2
<1>9. Monitor!Front(Shows(f)) = Shows(Front(f))
  BY <1>6, <1>7, <1>8
<1>10. QED
  BY <1>1, <1>2, <1>3, <1>9

\* What is known before a step of probes that the log tells truly of.
TrueLog == OneProbe /\ ~MayUnwind /\ ~WriteMayFail /\ LogInv

\* The operations and events of a trace, in the words of MonitoringLog.
LEMMA InOtherWords ==
  \A id : Monitor!Inside(id) = Ins(log, id) /\ Monitor!EventsOf(id) = Evs(log, id)
BY DEF Monitor!Inside, Monitor!EventsOf, Ins, Evs

\* The step of a probe leaves the objects of the others, their ids, and the ids of its own.
LEMMA OtherMatches ==
  ASSUME OneProbe, NEW u \in Thread, ProbeMove(u), NEW t \in Thread, t # u
  PROVE  Matches(t)' = Matches(t)
<1>1. \/ GetStep(u) \/ RemoveStep(u) \/ CallerStep(u)
      \/ UNCHANGED vars
  BY DEF ProbeMove, ProbeStep, InGet, Lookup, Metadata, Count, Event, Send, EndOfProbe, InRemove,
     CallAfter, CallBefore, CallerStep
<1>2. CASE UNCHANGED vars
  BY <1>2 DEF vars, Matches, heap_vars
<1>3. QED
  BY <1>1, <1>2, OthersUntouched DEF OneProbe

LEMMA IdsStay ==
  ASSUME OneProbe, NEW u \in Thread, ProbeMove(u)
  PROVE  \A o \in kieker_traces : trace'[o] = trace[o]
<1> USE DEF OneProbe
<1>1. \/ GetStep(u) \/ RemoveStep(u) \/ CallerStep(u)
      \/ UNCHANGED vars
  BY DEF ProbeMove, ProbeStep, InGet, Lookup, Metadata, Count, Event, Send, EndOfProbe, InRemove,
     CallAfter, CallBefore, CallerStep
<1>2. CASE BumpId(u)
  <2>1. data[u] \notin kieker_traces /\ kieker_traces \subseteq Obj
    BY <1>2 DEF BumpId, Created, Goto, RegistryInv, DataInv, Adding, TypeOK
  <2>2. QED
    BY <1>2, <2>1 DEF BumpId, Created, RegistryInv, TypeOK
<1>3. CASE UNCHANGED trace
  BY <1>3
<1>4. QED
  BY <1>1, <1>2, <1>3
     DEF GetStep, RemoveStep, CallerStep, RdLock, Find, RdUnlock, ReadId, WrLock, Add, WrUnlock,
     DelLock, Del, DelUnlock, Free, Get, Return, CallRemove, heap_vars, vars

\* What the log tells of a trace stays if neither the log nor what it has to tell changes.
LEMMA ToldStays ==
  ASSUME NEW t \in Thread, NEW o, ToldOf(t, o), UNCHANGED log, trace'[o] = trace[o],
         Shown(t)' = Shown(t), Sent(o)' = Sent(o),
         frames'[t] = <<>> /\ step'[t] \notin {"leave", "remove"} =>
           frames[t] = <<>> /\ step[t] \notin {"leave", "remove"}
  PROVE  ToldOf(t, o)'
<1>1. /\ \A id : Monitor!Inside(id)' = Ins(log, id) /\ Monitor!EventsOf(id)' = Evs(log, id)
      /\ \A id : Monitor!Inside(id) = Ins(log, id) /\ Monitor!EventsOf(id) = Evs(log, id)
  BY DEF Monitor!Inside, Monitor!EventsOf, Ins, Evs
<1>2. QED
  BY <1>1 DEF ToldOf

\* A step of a probe that sends nothing leaves the log true, if its thread comes to be in
\* what the log shows, and its object is unlinked only when its trace has ended.
LEMMA LogKept ==
  ASSUME TrueLog, NEW u \in Thread, ProbeMove(u), UNCHANGED log,
         \A p \in kieker_traces : Sent(p)' = Sent(p),
         kieker_trace_current_id' <= InitialId + MaxTraces,
         pc'[u] \in {"rdlock", "find", "rdunlock", "create", "bump"} =>
           kieker_trace_current_id' < InitialId + MaxTraces,
         InProbe(u)' /\ call'[u].probe = "after" => call'[u].op = Last(frames'[u]),
         \A o \in Matches(u)' : ToldOf(u, o)',
         \A o \in Matches(u) \ Matches(u)' : Monitor!Inside(trace[o].trace_id) = <<>>
  PROVE  LogInv'
<1> USE DEF TrueLog
<1>1. \A t \in Thread : kieker_traces \subseteq Obj /\ Matches(t) \subseteq kieker_traces
  BY DEF OneProbe, RegistryInv, TypeOK, Matches
<1>2. \A id : Monitor!Inside(id)' = Monitor!Inside(id)
              /\ Monitor!EventsOf(id)' = Monitor!EventsOf(id)
  BY DEF Monitor!Inside, Monitor!EventsOf
<1>3. \A t \in Thread : t # u =>
        /\ step[t] = "out" /\ step'[t] = "out" /\ pc'[t] = "idle" /\ frames'[t] = frames[t]
        /\ Matches(t)' = Matches(t)
  BY Alone, OtherMatches DEF OneProbe
<1>4. \A t \in Thread : pc'[t] \in {"rdlock", "find", "rdunlock", "create", "bump"} =>
        kieker_trace_current_id' < InitialId + MaxTraces
  BY <1>3
<1>5. \A t \in Thread : InProbe(t)' /\ call'[t].probe = "after" => call'[t].op = Last(frames'[t])
  BY <1>3 DEF InProbe
<1>6. \A n \in DOMAIN log' : (Monitor!EventsOf(log[n].trace) # {})'
  <2>1. \A n \in DOMAIN log : Monitor!EventsOf(log[n].trace) # {}
    BY DEF LogInv
  <2>2. QED
    BY <2>1 DEF Monitor!EventsOf
<1>7. ASSUME NEW t \in Thread, NEW o \in Matches(t)' PROVE ToldOf(t, o)'
  <2>1. CASE t = u
    BY <1>7, <2>1
  <2>2. CASE t # u
    <3>1. o \in Matches(t) /\ o \in kieker_traces
      BY <1>1, <1>3, <2>2
    <3>2. ToldOf(t, o) /\ trace'[o] = trace[o]
      BY <3>1, IdsStay DEF LogInv
    <3>3. Shown(t)' = Shown(t)
      BY <1>3, <2>2 DEF Shown
    <3>4. QED
      BY <1>3, <2>2, <3>1, <3>2, <3>3, ToldStays
  <2>3. QED
    BY <2>1, <2>2
<1>8. ASSUME NEW n \in DOMAIN log', log'[n].type = "metadata",
             (Monitor!Inside(log[n].trace) # <<>>)'
      PROVE  (\E t \in Thread : \E o \in Matches(t) :
                trace[o].trace_id = log[n].trace /\ Key[t] = log[n].thread)'
  <2>1. Monitor!Inside(log[n].trace) # <<>>
    BY <1>8 DEF Monitor!Inside
  <2>2. PICK t \in Thread :
          \E o \in Matches(t) : trace[o].trace_id = log[n].trace /\ Key[t] = log[n].thread
    BY <1>8, <2>1 DEF LogInv
  <2> PICK o \in Matches(t) : trace[o].trace_id = log[n].trace /\ Key[t] = log[n].thread
    BY <2>2
  <2>3. o \in Matches(t)'
    BY <1>3, <2>1
  <2>4. trace'[o] = trace[o]
    BY <1>1, IdsStay
  <2>5. QED
    BY <2>3, <2>4
<1>9. QED
  BY <1>4, <1>5, <1>6, <1>7, <1>8 DEF LogInv

\* What stays as it is where a probe has no object to link, make or forget.
Steady ==
  UNCHANGED <<log, frames, kieker_traces, trace, kieker_trace_current_id>>

\* A step of a probe on its way to the send.
LEMMA LogOnTheWay ==
  ASSUME TrueLog, NEW u \in Thread, ProbeMove(u), Steady,
         \A p \in kieker_traces : Sent(p)' = Sent(p),
         pc'[u] \in {"rdlock", "find", "rdunlock", "create", "bump"} =>
           kieker_trace_current_id < InitialId + MaxTraces,
         InProbe(u)' /\ call'[u].probe = "after" => call'[u].op = Last(frames[u]),
         step[u] \notin {"leave", "remove"}, step'[u] \notin {"leave", "remove"}
  PROVE  LogInv'
<1> USE DEF Steady
<1>1. Matches(u)' = Matches(u)
  BY DEF Matches
<1>2. ASSUME NEW o \in Matches(u)' PROVE ToldOf(u, o)'
  <2>1. o \in Matches(u) /\ o \in kieker_traces
    BY <1>1 DEF Matches
  <2>2. ToldOf(u, o) /\ Sent(o)' = Sent(o)
    BY <2>1 DEF TrueLog, LogInv
  <2>3. Shown(u)' = Shown(u)
    BY DEF Shown
  <2>4. QED
    BY <2>2, <2>3, ToldStays
<1>3. kieker_trace_current_id' <= InitialId + MaxTraces
  BY DEF TrueLog, LogInv
<1>4. Matches(u) \ Matches(u)' = {}
  BY <1>1
<1>5. QED
  BY <1>2, <1>3, <1>4, LogKept

LEMMA LogCall ==
  ASSUME TrueLog, NEW u \in Thread, CallAfter(u) \/ \E op \in Op : CallBefore(u, op)
  PROVE  LogInv'
<1> USE DEF TrueLog, OneProbe
<1>1. ProbeMove(u)
  BY DEF ProbeMove
<1>2. /\ step[u] = "out" /\ step'[u] = "get" /\ Get(u)
      /\ UNCHANGED <<order_index, frames, log>>
  BY DEF CallAfter, CallBefore, Stage, ProbeInv, object_vars, out_vars, wire_vars
<1>3. UNCHANGED <<data, kieker_traces, trace, kieker_trace_current_id>>
  BY <1>2 DEF Get, heap_vars, id_vars
<1>4. \A t \in Thread : step'[t] \notin {"event", "send"} /\ step[t] \notin {"event", "send"}
  BY <1>1, <1>2, Alone
<1>5. \A p : Sent(p)' = Sent(p)
  BY <1>2, <1>4, SentStays
<1>6. kieker_trace_current_id < InitialId + MaxTraces
  <2>1. {t \in Thread : pc[t] # "idle"} = {}
    BY <1>2 DEF Get
  <2>2. Cardinality({t \in Thread : pc[t] # "idle"}) = 0
    BY <2>1, FS_EmptySet
  <2>3. kieker_trace_current_id \in Nat
    BY DEF RegistryInv, TypeOK
  <2>4. QED
    BY <1>2, <2>2, <2>3 DEF Get, Budget
<1>7. call'[u].probe = "after" => call'[u].op = Last(frames[u])
  BY DEF CallAfter, CallBefore, ProbeInv
<1>8. QED
  BY <1>1, <1>2, <1>3, <1>5, <1>6, <1>7, LogOnTheWay DEF Steady

\* A thread in kieker_trace_get that neither draws an id nor links an object.
LEMMA LogGet ==
  ASSUME TrueLog, NEW u \in Thread, InGet(u), pc[u] # "bump", ~Add(u)
  PROVE  LogInv'
<1> USE DEF TrueLog, OneProbe
<1>1. ProbeMove(u)
  BY DEF ProbeMove, ProbeStep
<1>2. /\ step[u] = "get" /\ step'[u] = "get" /\ GetStep(u)
      /\ UNCHANGED <<order_index, log, call, frames>>
  BY DEF InGet, object_vars, out_vars, wire_vars, program_vars
<1>3. UNCHANGED <<kieker_traces, trace, kieker_trace_current_id>>
  BY <1>2 DEF GetStep, RdLock, Find, RdUnlock, ReadId, BumpId, Created, WrLock, WrUnlock, Goto,
     heap_vars, id_vars
<1>4. \A t \in Thread : step'[t] \notin {"event", "send"} /\ step[t] \notin {"event", "send"}
  BY <1>1, <1>2, Alone
<1>5. \A p : Sent(p)' = Sent(p)
  BY <1>2, <1>4, SentStays
<1>6. pc'[u] \in {"rdlock", "find", "rdunlock", "create", "bump"} =>
        kieker_trace_current_id < InitialId + MaxTraces
  <2>1. pc'[u] \in {"rdlock", "find", "rdunlock", "create", "bump"} =>
          pc[u] \in {"rdlock", "find", "rdunlock", "create", "bump"}
    BY <1>2 DEF GetStep, RdLock, Find, RdUnlock, ReadId, BumpId, Created, WrLock, Add, WrUnlock, Goto,
       RegistryInv, TypeOK
  <2>2. QED
    BY <2>1 DEF LogInv
<1>7. InProbe(u)' /\ call'[u].probe = "after" => call'[u].op = Last(frames[u])
  BY <1>2 DEF LogInv, InProbe
<1>8. QED
  BY <1>1, <1>2, <1>3, <1>5, <1>6, <1>7, LogOnTheWay DEF Steady

\* A new object is linked: its trace has no events, its thread is in no operation.
LEMMA LogAdd ==
  ASSUME TrueLog, NEW u \in Thread, InGet(u), Add(u)
  PROVE  LogInv'
<1> USE DEF TrueLog, OneProbe
<1>1. ProbeMove(u)
  BY DEF ProbeMove, ProbeStep
<1>2. /\ step[u] = "get" /\ step'[u] = "get" /\ pc[u] = "add" /\ pc'[u] = "wrunlock"
      /\ UNCHANGED <<order_index, log, call, frames, trace, data, kieker_trace_current_id>>
      /\ kieker_traces' = kieker_traces \cup {data[u]}
  BY DEF InGet, Add, Goto, RegistryInv, TypeOK, object_vars, out_vars, wire_vars, program_vars,
     heap_vars, id_vars
<1>3. Matches(u) = {} /\ Matches(u)' \subseteq {data[u]}
  BY <1>2 DEF RegistryInv, EntryInv, Adding, Matches
<1>4. \A t \in Thread : step'[t] \notin {"event", "send"} /\ step[t] \notin {"event", "send"}
  BY <1>1, <1>2, Alone
<1>5. \A p : Sent(p)' = Sent(p)
  BY <1>2, <1>4, SentStays
<1>6. PICK o : o = data[u]
  OBVIOUS
<1>7. order_index[o] = -1 /\ \A n \in DOMAIN log : log[n].trace # trace[o].trace_id
  BY <1>2, <1>6 DEF OrderInv
<1>8. frames[u] = <<>>
  BY <1>3 DEF ProbeInv, DepthInv
<1>9. Sent(o) = 0
  BY <1>4, <1>7 DEF Sent
<1>10. ToldOf(u, o)
  <2>1. log \in Seq(Received)
    BY DEF OrderInv
  <2>2. Ins(log, trace[o].trace_id) = <<>> /\ Cardinality(Evs(log, trace[o].trace_id)) = 0
    BY <1>7, <2>1, TellsNothing
  <2>3. Shown(u) = <<>>
    BY <1>2, <1>8 DEF Shown
  <2>4. [n \in DOMAIN Shown(u) |-> <<Shown(u)[n], ClassName>>] = <<>>
    BY <2>3
  <2>5. QED
    BY <1>9, <2>2, <2>3, <2>4, InOtherWords DEF ToldOf
<1>11. ToldOf(u, o)'
  <2>1. Shown(u)' = Shown(u)
    BY <1>2 DEF Shown
  <2>2. QED
    BY <1>2, <1>5, <1>8, <1>10, <2>1, ToldStays
<1>12. \A p \in Matches(u)' : ToldOf(u, p)'
  BY <1>3, <1>6, <1>11
<1>13. InProbe(u)' /\ call'[u].probe = "after" => call'[u].op = Last(frames'[u])
  BY <1>2 DEF LogInv, InProbe
<1>14. kieker_trace_current_id' <= InitialId + MaxTraces
  BY <1>2 DEF LogInv
<1>15. QED
  BY <1>1, <1>2, <1>3, <1>5, <1>12, <1>13, <1>14, LogKept

\* An id is drawn for an object that is not linked yet.
LEMMA LogBump ==
  ASSUME TrueLog, NEW u \in Thread, InGet(u), pc[u] = "bump"
  PROVE  LogInv'
<1> USE DEF TrueLog, OneProbe
<1>1. ProbeMove(u)
  BY DEF ProbeMove, ProbeStep
<1>2. /\ step[u] = "get" /\ step'[u] = "get" /\ BumpId(u)
      /\ order_index' = [order_index EXCEPT ![data[u]] = -1]
      /\ UNCHANGED <<log, call, frames>>
  BY DEF InGet, GetStep, RdLock, Find, RdUnlock, ReadId, WrLock, Add, WrUnlock, Goto,
     out_vars, wire_vars, program_vars
<1>3. /\ kieker_trace_current_id' = kieker_trace_current_id + 1 /\ pc'[u] = "wrlock"
      /\ UNCHANGED <<data, kieker_traces>> /\ data[u] \notin kieker_traces
      /\ kieker_trace_current_id \in Nat
  BY <1>2 DEF BumpId, Created, Goto, RegistryInv, TypeOK, DataInv, Adding, SerialInv
<1>4. \A o \in kieker_traces : trace'[o] = trace[o]
  BY <1>1, IdsStay
<1>5. Matches(u) = {}
  BY DEF RegistryInv, EntryInv, Adding
<1>6. Matches(u)' = {}
  BY <1>3, <1>4, <1>5 DEF Matches
<1>7. \A t \in Thread : step'[t] \notin {"event", "send"} /\ step[t] \notin {"event", "send"}
  BY <1>1, <1>2, Alone
<1>8. ASSUME NEW p \in kieker_traces PROVE Sent(p)' = Sent(p)
  <2>1. order_index'[p] = order_index[p]
    BY <1>2, <1>3 DEF RegistryInv, TypeOK, OrderInv
  <2>2. QED
    BY <1>7, <2>1 DEF Sent
<1>9. kieker_trace_current_id' <= InitialId + MaxTraces
  <2>1. kieker_trace_current_id < InitialId + MaxTraces
    BY DEF LogInv
  <2>2. QED
    BY <1>3, <2>1, InitialIdAssumption, MaxTracesAssumption
<1>10. InProbe(u)' /\ call'[u].probe = "after" => call'[u].op = Last(frames'[u])
  BY <1>2 DEF LogInv, InProbe
<1>11. QED
  BY <1>1, <1>2, <1>3, <1>5, <1>6, <1>8, <1>9, <1>10, LogKept

\* Looking up a string tells the collector of no record.
LEMMA LogLookup ==
  ASSUME TrueLog, NEW u \in Thread, Lookup(u)
  PROVE  LogInv'
<1> USE DEF TrueLog, OneProbe
<1>1. ProbeMove(u)
  BY DEF ProbeMove, ProbeStep
<1>2. /\ step[u] \in {"get", "event"} /\ pc[u] = "got"
      /\ UNCHANGED <<order_index, log, call, frames, step, pc, data, kieker_traces, trace,
                     kieker_trace_current_id>>
  <2>1. Wanted(u) # <<>>
    BY AtRest
  <2>2. QED
    BY <2>1, OnlyInProbes DEF Lookup, vars, object_vars, program_vars, heap_vars, id_vars
<1>3. \A p : Sent(p)' = Sent(p)
  BY <1>2, SentStays
<1>4. call'[u].probe = "after" => call'[u].op = Last(frames[u])
  BY <1>2 DEF LogInv, InProbe
<1>5. QED
  BY <1>1, <1>2, <1>3, <1>4, LogOnTheWay DEF Steady

\* The event of a probe has been counted before it is sent.
LEMMA LogMetadata ==
  ASSUME TrueLog, NEW u \in Thread, Metadata(u)
  PROVE  LogInv'
<1> USE DEF TrueLog, OneProbe
<1>1. ProbeMove(u)
  BY DEF ProbeMove, ProbeStep
<1>2. /\ step[u] = "get" /\ step'[u] = "count" /\ pc'[u] = "got"
      /\ UNCHANGED <<order_index, log, call, frames, data, kieker_traces, trace,
                     kieker_trace_current_id>>
  BY DEF Metadata, UsesKeys, Stage, ProbeInv, vars, object_vars, program_vars, wire_vars,
     heap_vars, id_vars
<1>3. \A t \in Thread : step'[t] \notin {"event", "send"} /\ step[t] \notin {"event", "send"}
  BY <1>1, <1>2, Alone
<1>4. \A p : Sent(p)' = Sent(p)
  BY <1>2, <1>3, SentStays
<1>5. call'[u].probe = "after" => call'[u].op = Last(frames[u])
  BY <1>2 DEF LogInv, InProbe
<1>6. QED
  BY <1>1, <1>2, <1>4, <1>5, LogOnTheWay DEF Steady

LEMMA LogCount ==
  ASSUME TrueLog, NEW u \in Thread, Count(u)
  PROVE  LogInv'
<1> USE DEF TrueLog, OneProbe
<1>1. ProbeMove(u)
  BY DEF ProbeMove, ProbeStep
<1>2. /\ step[u] = "count" /\ step'[u] = "event" /\ pc[u] = "got" /\ pc'[u] = "got"
      /\ UNCHANGED <<log, call, frames, data, kieker_traces, trace, kieker_trace_current_id>>
  BY DEF Count, Stage, ProbeInv, StageInv, vars, program_vars, out_vars, wire_vars,
     heap_vars, id_vars
<1>3. kieker_traces \subseteq Obj
  BY DEF RegistryInv, TypeOK
<1>4. \A p \in kieker_traces : Sent(p)' = Sent(p)
  BY <1>3, CountSends
<1>5. call'[u].probe = "after" => call'[u].op = Last(frames[u])
  BY <1>2 DEF LogInv, InProbe
<1>6. QED
  BY <1>1, <1>2, <1>4, <1>5, LogOnTheWay DEF Steady

LEMMA LogEvent ==
  ASSUME TrueLog, NEW u \in Thread, Event(u)
  PROVE  LogInv'
<1> USE DEF TrueLog, OneProbe
<1>1. ProbeMove(u)
  BY DEF ProbeMove, ProbeStep
<1>2. /\ step[u] = "event" /\ step'[u] = "send" /\ pc'[u] = "got"
      /\ UNCHANGED <<order_index, log, call, frames, data, kieker_traces, trace,
                     kieker_trace_current_id>>
  BY DEF Event, UsesKeys, Stage, ProbeInv, StageInv, vars, object_vars, program_vars, out_vars, wire_vars,
     heap_vars, id_vars
<1>3. \A t \in Thread : /\ step'[t] \in {"event", "send"} <=> step[t] \in {"event", "send"}
                        /\ data'[t] = data[t]
  BY <1>1, <1>2, Alone
<1>4. \A p : Sent(p)' = Sent(p)
  BY <1>2, <1>3, SentStays
<1>5. call'[u].probe = "after" => call'[u].op = Last(frames[u])
  BY <1>2 DEF LogInv, InProbe
<1>6. QED
  BY <1>1, <1>2, <1>4, <1>5, LogOnTheWay DEF Steady

\* The probe returns: its thread is now where the log has told since the send.
LEMMA LogEnd ==
  ASSUME TrueLog, ProbeInv', NEW u \in Thread, EndOfProbe(u)
  PROVE  LogInv'
<1> USE DEF TrueLog, OneProbe
<1>1. ProbeMove(u)
  BY DEF ProbeMove, ProbeStep
<1>2. /\ step[u] = "leave" /\ step'[u] \in {"out", "remove"} /\ pc'[u] \in {"idle", "dellock"}
      /\ UNCHANGED <<order_index, log, kieker_trace_current_id, trace, kieker_traces>>
      /\ frames'[u] = IF call[u].probe = "before" THEN Append(frames[u], call[u].op)
                                                  ELSE Front(frames[u])
  BY DEF EndOfProbe, CallRemove, Return, Goto, ProbeInv, RegistryInv, TypeOK, object_vars,
     out_vars, wire_vars, heap_vars, id_vars
<1>3. \A t \in Thread : step'[t] \notin {"event", "send"} /\ step[t] \notin {"event", "send"}
  BY <1>1, <1>2, Alone
<1>4. \A p : Sent(p)' = Sent(p)
  BY <1>2, <1>3, SentStays
<1>5. Matches(u)' = Matches(u)
  BY <1>2 DEF Matches
<1>6. ASSUME NEW o \in Matches(u)' PROVE ToldOf(u, o)'
  <2>1. o \in Matches(u)
    BY <1>5
  <2>2. ToldOf(u, o)
    BY <2>1 DEF LogInv
  <2>3. Shown(u)' = Shown(u)
    BY <1>2 DEF Shown
  <2>4. DepthInv(u)' /\ ~MayUnwind /\ (MayUnwind' <=> MayUnwind)
    BY DEF ProbeInv
  <2>5. ~(frames'[u] = <<>> /\ step'[u] \notin {"leave", "remove"})
    BY <1>2, <1>6, <2>4 DEF DepthInv
  <2>6. QED
    BY <1>2, <1>4, <2>2, <2>3, <2>5, ToldStays
<1>7. ~InProbe(u)'
  BY <1>2 DEF InProbe
<1>8. kieker_trace_current_id' <= InitialId + MaxTraces
  BY <1>2 DEF LogInv
<1>9. QED
  BY <1>1, <1>2, <1>4, <1>5, <1>6, <1>7, <1>8, LogKept

\* The trace ends: its thread is in no operation, and the log has told so.
LEMMA LogRemove ==
  ASSUME TrueLog, NEW u \in Thread, InRemove(u)
  PROVE  LogInv'
<1> USE DEF TrueLog, OneProbe
<1>1. ProbeMove(u)
  BY DEF ProbeMove, ProbeStep
<1>2. /\ step[u] = "remove" /\ step'[u] = (IF pc[u] = "free" THEN "out" ELSE "remove")
      /\ RemoveStep(u) /\ UNCHANGED <<order_index, log, call, frames>>
  BY DEF InRemove, ProbeInv, object_vars, out_vars, wire_vars, program_vars
<1>3. /\ pc'[u] \in {"del", "delunlock", "free", "idle"}
      /\ UNCHANGED <<kieker_trace_current_id, trace>>
      /\ kieker_traces' \subseteq kieker_traces
  BY <1>2 DEF RemoveStep, DelLock, Del, DelUnlock, Free, Goto, RegistryInv, TypeOK,
     heap_vars, id_vars
<1>4. \A t \in Thread : step'[t] \notin {"event", "send"} /\ step[t] \notin {"event", "send"}
  BY <1>1, <1>2, Alone
<1>5. \A p : Sent(p)' = Sent(p)
  BY <1>2, <1>4, SentStays
<1>6. Matches(u)' \subseteq Matches(u)
  BY <1>3 DEF Matches
<1>7. frames[u] = <<>>
  BY <1>2 DEF ProbeInv, DepthInv
<1>8. ASSUME NEW o \in Matches(u) PROVE ToldOf(u, o) /\ Monitor!Inside(trace[o].trace_id) = <<>>
  <2>1. ToldOf(u, o)
    BY DEF LogInv
  <2>2. Shown(u) = <<>>
    BY <1>2, <1>7 DEF Shown
  <2>3. [n \in DOMAIN Shown(u) |-> <<Shown(u)[n], ClassName>>] = <<>>
    BY <2>2
  <2>4. QED
    BY <2>1, <2>3 DEF ToldOf
<1>9. ASSUME NEW o \in Matches(u)' PROVE ToldOf(u, o)'
  <2>1. o \in Matches(u)
    BY <1>6
  <2>2. pc[u] # "free"
    BY <2>1 DEF RegistryInv, EntryInv, Dropping
  <2>3. step'[u] = "remove"
    BY <1>2, <2>2
  <2>4. Shown(u)' = Shown(u)
    BY <1>2, <2>3 DEF Shown
  <2>5. QED
    BY <1>2, <1>3, <1>5, <1>8, <2>1, <2>3, <2>4, ToldStays
<1>10. ~InProbe(u)'
  BY <1>2 DEF InProbe
<1>11. kieker_trace_current_id' <= InitialId + MaxTraces
  BY <1>3 DEF LogInv
<1>12. \A o \in Matches(u) \ Matches(u)' : Monitor!Inside(trace[o].trace_id) = <<>>
  BY <1>8
<1>13. QED
  BY <1>1, <1>2, <1>3, <1>5, <1>9, <1>10, <1>11, <1>12, LogKept

-----------------------------------------------------------------------------
(* A send, as the log tells of it.                                          *)

\* What the log tells of the trace of the thread that is about to send.
BeforeSend(u, o, id) ==
  /\ o \in Obj /\ o = data[u] /\ Matches(u) = {o}
  /\ id = trace[o].trace_id /\ trace[o].thread_id = Key[u]
  /\ id \in InitialId .. InitialId + MaxTraces
  /\ \A p \in kieker_traces : trace[p].trace_id = id => p = o
  /\ order_index[o] \in Nat /\ Sent(o) = order_index[o]
  /\ frames[u] \in Seq(Op) /\ call[u].op \in Op /\ call[u].probe \in {"before", "after"}
  /\ call[u].probe = "after" => frames[u] # <<>> /\ call[u].op = Last(frames[u])
  /\ Ins(log, id) = Shows(frames[u])
  /\ Cardinality(Evs(log, id)) = order_index[o]
  /\ frames[u] # <<>> => Monitor!Metadata(id, Key[u]) \in ToSet(log)
  /\ frames[u] = <<>> => order_index[o] = 0
  /\ \A n \in DOMAIN log : log[n].trace = id => Evs(log, id) # {}

LEMMA SendKnows ==
  ASSUME TrueLog, NEW u \in Thread, Send(u)
  PROVE  \E o, id : BeforeSend(u, o, id)
<1> USE DEF TrueLog
<1>1. ProbeMove(u)
  BY DEF ProbeMove, ProbeStep
<1>2. step[u] = "send" /\ pc[u] = "got"
  BY DEF Send, Stage, OneProbe, ProbeInv, StageInv
<1>3. PICK o : o = data[u]
  OBVIOUS
<1>4. PICK id : id = trace[o].trace_id
  OBVIOUS
<1>5. /\ o \in Obj /\ trace[o].thread_id = Key[u] /\ id \in Nat
      /\ id \in InitialId .. kieker_trace_current_id - 1
      /\ order_index[o] \in Int
      /\ \A p \in kieker_traces : trace[p].trace_id = id => p = o
  BY <1>1, <1>2, <1>3, <1>4, GotObject
<1>6. Matches(u) = {o}
  BY <1>2, <1>3, OnlyEntry DEF OneProbe, Using
<1>7. id \in InitialId .. InitialId + MaxTraces
  <2>1. kieker_trace_current_id <= InitialId + MaxTraces /\ kieker_trace_current_id \in Nat
    BY DEF LogInv, OneProbe, RegistryInv, TypeOK
  <2>2. QED
    BY <1>5, <2>1, InitialIdAssumption, MaxTracesAssumption
<1>8. Sent(o) = order_index[o]
  BY <1>2, <1>3, <1>5 DEF Sent
<1>9. /\ frames[u] \in Seq(Op) /\ call[u].op \in Op /\ call[u].probe \in {"before", "after"}
      /\ call[u].probe = "after" => frames[u] # <<>> /\ call[u].op = Last(frames[u])
  BY <1>2 DEF OneProbe, ProbeInv, StageInv, LogInv, InProbe
<1>10. ToldOf(u, o) /\ Shown(u) = frames[u]
  BY <1>2, <1>6 DEF LogInv, Shown
<1>11. /\ Ins(log, id) = Shows(frames[u]) /\ Cardinality(Evs(log, id)) = order_index[o]
       /\ frames[u] # <<>> => Monitor!Metadata(id, Key[u]) \in ToSet(log)
       /\ frames[u] = <<>> => order_index[o] = 0
  BY <1>2, <1>4, <1>8, <1>10, InOtherWords DEF ToldOf, Shows
<1>12. order_index[o] \in Nat
  <2>1. log \in Seq(Received)
    BY DEF OneProbe, OrderInv
  <2>2. Cardinality(Evs(log, id)) \in Nat
    BY <2>1, TellsFinite
  <2>3. QED
    BY <1>11, <2>2
<1>13. \A n \in DOMAIN log : log[n].trace = id => Evs(log, id) # {}
  BY InOtherWords DEF LogInv
<1>14. QED
  BY <1>3, <1>4, <1>5, <1>6, <1>7, <1>8, <1>9, <1>11, <1>12, <1>13 DEF BeforeSend

\* The log stays true if a send adds to the trace of its thread what it has to.
TraceGoesOn(u, o, id) ==
  /\ \A i : i # id => Ins(log', i) = Ins(log, i)
                      /\ Cardinality(Evs(log', i)) = Cardinality(Evs(log, i))
  /\ \A i : Evs(log, i) # {} => Evs(log', i) # {}
  /\ Ins(log', id) = Shows(IF call[u].probe = "before" THEN Append(frames[u], call[u].op)
                                                       ELSE Front(frames[u]))
  /\ Cardinality(Evs(log', id)) = order_index[o] + 1 /\ Evs(log', id) # {}
  /\ ToSet(log) \subseteq ToSet(log') /\ Monitor!Metadata(id, Key[u]) \in ToSet(log')
  /\ \A n \in DOMAIN log' :
       \/ n \in DOMAIN log /\ log'[n] = log[n]
       \/ log'[n].trace = id /\ (log'[n].type = "metadata" => log'[n].thread = Key[u])

LEMMA LogSent ==
  ASSUME TrueLog, NEW u \in Thread, Send(u), NEW o, NEW id, BeforeSend(u, o, id),
         TraceGoesOn(u, o, id)
  PROVE  LogInv'
<1> USE DEF TrueLog
<1>1. ProbeMove(u)
  BY DEF ProbeMove, ProbeStep
<1>2. /\ step[u] = "send" /\ step'[u] = "leave" /\ pc[u] = "got" /\ pc'[u] = "got"
      /\ UNCHANGED <<order_index, call, frames, data, kieker_traces, trace,
                     kieker_trace_current_id>>
  BY DEF Send, Stage, OneProbe, ProbeInv, StageInv, vars, object_vars, program_vars, heap_vars,
     id_vars
<1>3. \A t \in Thread : t # u =>
        step[t] = "out" /\ step'[t] = "out" /\ pc'[t] = "idle" /\ frames'[t] = frames[t]
  BY <1>1, Alone DEF OneProbe
<1>4. \A t \in Thread : Matches(t)' = Matches(t) /\ Matches(t) \subseteq kieker_traces
  BY <1>2 DEF Matches
<1>5. /\ \A i : Monitor!Inside(i)' = Ins(log', i) /\ Monitor!EventsOf(i)' = Evs(log', i)
      /\ \A i : Monitor!Inside(i) = Ins(log, i) /\ Monitor!EventsOf(i) = Evs(log, i)
  BY DEF Monitor!Inside, Monitor!EventsOf, Ins, Evs
<1>6. Sent(o)' = order_index[o] + 1
  <2>1. ~\E t \in Thread : step'[t] \in {"event", "send"}
    BY <1>2, <1>3
  <2>2. QED
    BY <1>2, <2>1 DEF Sent
<1>7. \A p : p # o => Sent(p)' = Sent(p)
  BY <1>2, <1>3 DEF Sent, BeforeSend
<1>8. ToldOf(u, o)'
  <2>1. Shown(u)' = IF call[u].probe = "before" THEN Append(frames[u], call[u].op)
                                                ELSE Front(frames[u])
    BY <1>2 DEF Shown
  <2>2. trace'[o].trace_id = id
    BY <1>2 DEF BeforeSend
  <2>3. Ins(log', id) = [n \in DOMAIN Shown(u)' |-> <<Shown(u)'[n], ClassName>>]
    BY <2>1 DEF TraceGoesOn, Shows
  <2>4. Cardinality(Evs(log', id)) = Sent(o)'
    BY <1>6 DEF TraceGoesOn
  <2>5. (Monitor!Metadata(id, Key[u]) \in ToSet(log))'
    BY DEF TraceGoesOn
  <2>6. QED
    BY <1>2, <1>5, <2>2, <2>3, <2>4, <2>5 DEF ToldOf
<1>9. ASSUME NEW t \in Thread, NEW p \in Matches(t)' PROVE ToldOf(t, p)'
  <2>1. p \in Matches(t) /\ p \in kieker_traces
    BY <1>4
  <2>2. CASE p = o
    <3>1. trace[o].thread_id = Key[t] /\ trace[o].thread_id = Key[u]
      BY <2>1, <2>2 DEF Matches, BeforeSend
    <3>2. t = u
      BY <3>1 DEF OneProbe, InjectiveKey
    <3>3. QED
      BY <1>8, <2>2, <3>2
  <2>3. CASE p # o
    <3>1. t # u
      BY <2>1, <2>3 DEF BeforeSend
    <3>2. ToldOf(t, p)
      BY <2>1 DEF LogInv
    <3>3. PICK i : i = trace[p].trace_id /\ i # id
      BY <2>1, <2>3 DEF BeforeSend
    <3>4. Shown(t) = frames[t] /\ Shown(t)' = frames[t]
      BY <1>3, <3>1 DEF Shown
    <3>5. /\ Ins(log, i) = [n \in DOMAIN frames[t] |-> <<frames[t][n], ClassName>>]
          /\ Cardinality(Evs(log, i)) = Sent(p)
          /\ frames[t] # <<>> => Monitor!Metadata(i, Key[t]) \in ToSet(log)
          /\ frames[t] = <<>> => Sent(p) = 0
      BY <1>3, <1>5, <3>1, <3>2, <3>3, <3>4 DEF ToldOf
    <3>6. Ins(log', i) = Ins(log, i) /\ Cardinality(Evs(log', i)) = Cardinality(Evs(log, i))
      BY <3>3 DEF TraceGoesOn
    <3>7. Sent(p)' = Sent(p) /\ trace'[p].trace_id = i
      BY <1>2, <1>7, <2>3, <3>3
    <3>8. (frames[t] # <<>> => Monitor!Metadata(i, Key[t]) \in ToSet(log))'
      BY <1>3, <3>1, <3>5 DEF TraceGoesOn
    <3>9. QED
      BY <1>3, <1>5, <3>1, <3>4, <3>5, <3>6, <3>7, <3>8 DEF ToldOf
  <2>4. QED
    BY <2>2, <2>3
<1>10. \A n \in DOMAIN log' : Evs(log', log'[n].trace) # {}
  <2> SUFFICES ASSUME NEW n \in DOMAIN log' PROVE Evs(log', log'[n].trace) # {}
    OBVIOUS
  <2>1. CASE n \in DOMAIN log /\ log'[n] = log[n]
    <3>1. Evs(log, log[n].trace) # {}
      BY <1>5, <2>1 DEF LogInv
    <3>2. QED
      BY <2>1, <3>1 DEF TraceGoesOn
  <2>2. CASE log'[n].trace = id
    BY <2>2 DEF TraceGoesOn
  <2>3. QED
    BY <2>1, <2>2 DEF TraceGoesOn
<1>11. \A n \in DOMAIN log' : (Monitor!EventsOf(log[n].trace) # {})'
  BY <1>10 DEF Monitor!EventsOf, Evs
<1>12. ASSUME NEW n \in DOMAIN log', log'[n].type = "metadata", Ins(log', log'[n].trace) # <<>>
       PROVE  \E t \in Thread : \E p \in Matches(t) :
                trace[p].trace_id = log'[n].trace /\ Key[t] = log'[n].thread
  <2>1. CASE n \in DOMAIN log /\ log'[n] = log[n]
    <3>1. CASE Ins(log, log[n].trace) # <<>>
      BY <1>5, <1>12, <2>1, <3>1 DEF LogInv
    <3>2. CASE Ins(log, log[n].trace) = <<>>
      <4>1. log[n].trace = id
        BY <1>12, <2>1, <3>2 DEF TraceGoesOn
      <4>2. Evs(log, id) # {}
        BY <2>1, <4>1 DEF BeforeSend
      <4>3. frames[u] = <<>>
        <5>1. Shows(frames[u]) = <<>> /\ frames[u] \in Seq(Op)
          BY <3>2, <4>1 DEF BeforeSend
        <5>2. QED
          BY <5>1, ShowsFront
      <4>4. Cardinality(Evs(log, id)) = 0
        BY <4>3 DEF BeforeSend
      <4>5. log \in Seq(Received)
        BY DEF OneProbe, OrderInv
      <4>6. Evs(log, id) = {}
        BY <4>4, <4>5, TellsFinite
      <4>7. QED
        BY <4>2, <4>6
    <3>3. QED
      BY <3>1, <3>2
  <2>2. CASE log'[n].trace = id /\ log'[n].thread = Key[u]
    BY <2>2 DEF BeforeSend
  <2>3. QED
    BY <1>12, <2>1, <2>2 DEF TraceGoesOn
<1>13. \A n \in DOMAIN log' : log'[n].type = "metadata" =>
         (\/ Monitor!Inside(log[n].trace) = <<>>
          \/ \E t \in Thread : \E p \in Matches(t) :
               trace[p].trace_id = log[n].trace /\ Key[t] = log[n].thread)'
  <2> SUFFICES ASSUME NEW n \in DOMAIN log', log'[n].type = "metadata",
                      (Monitor!Inside(log[n].trace) # <<>>)'
               PROVE  (\E t \in Thread : \E p \in Matches(t) :
                         trace[p].trace_id = log[n].trace /\ Key[t] = log[n].thread)'
    OBVIOUS
  <2>1. Ins(log', log'[n].trace) # <<>>
    BY DEF Monitor!Inside, Ins
  <2>2. PICK t \in Thread : \E p \in Matches(t) :
          trace[p].trace_id = log'[n].trace /\ Key[t] = log'[n].thread
    BY <1>12, <2>1
  <2> PICK p \in Matches(t) : trace[p].trace_id = log'[n].trace /\ Key[t] = log'[n].thread
    BY <2>2
  <2>3. p \in Matches(t)' /\ trace'[p] = trace[p]
    BY <1>2, <1>4
  <2>4. QED
    BY <2>3
<1>14. /\ kieker_trace_current_id' <= InitialId + MaxTraces
       /\ \A t \in Thread : pc'[t] \notin {"rdlock", "find", "rdunlock", "create", "bump"}
       /\ \A t \in Thread : InProbe(t)' /\ call'[t].probe = "after" =>
            call'[t].op = Last(frames'[t])
  BY <1>2, <1>3 DEF LogInv, InProbe, BeforeSend
<1>15. QED
  BY <1>9, <1>11, <1>13, <1>14 DEF LogInv

\* The event of a probe takes the trace where the thread goes.
LEMMA EventTold ==
  ASSUME NEW l \in Seq(Received), NEW u \in Thread, NEW o, NEW id, NEW e,
         BeforeSend(u, o, id), ~WriteMayFail, LoggedEvent(e, u, o), Ins(l, id) = Shows(frames[u])
  PROVE  /\ e \in Received /\ e.trace = id /\ e.type # "metadata"
         /\ Ins(Append(l, e), id) =
              Shows(IF call[u].probe = "before" THEN Append(frames[u], call[u].op)
                                                ELSE Front(frames[u]))
<1>1. /\ e \in Received /\ e.trace = id /\ e.type = call[u].probe
      /\ e.texts = <<call[u].op, ClassName>>
      /\ frames[u] \in Seq(Op) /\ call[u].op \in Op /\ call[u].probe \in {"before", "after"}
      /\ call[u].probe = "after" => frames[u] # <<>>
  BY DEF LoggedEvent, BeforeSend
<1>2. Ins(Append(l, e), id) = Monitor!After(Shows(frames[u]), e)
  BY <1>1, TellsAppend
<1>3. CASE call[u].probe = "before"
  BY <1>1, <1>2, <1>3, ShowsAppend DEF Monitor!After
<1>4. CASE call[u].probe = "after"
  BY <1>1, <1>2, <1>4, ShowsFront DEF Monitor!After
<1>5. QED
  BY <1>1, <1>3, <1>4

\* What is appended to the records of one trace leaves the others.
LEMMA OthersTold ==
  ASSUME NEW l \in Seq(Received), NEW r \in Received
  PROVE  /\ Append(l, r) \in Seq(Received)
         /\ \A i : i # r.trace \/ r.type = "metadata" =>
              /\ Ins(Append(l, r), i) = Ins(l, i)
              /\ Cardinality(Evs(Append(l, r), i)) = Cardinality(Evs(l, i))
         /\ \A i : Evs(l, i) # {} => Evs(Append(l, r), i) # {}
         /\ ToSet(l) \subseteq ToSet(Append(l, r)) /\ r \in ToSet(Append(l, r))
         /\ \A n \in DOMAIN Append(l, r) :
              \/ n \in DOMAIN l /\ Append(l, r)[n] = l[n]
              \/ Append(l, r)[n] = r
<1>1. \A i : i # r.trace \/ r.type = "metadata" =>
        /\ Ins(Append(l, r), i) = Ins(l, i)
        /\ Cardinality(Evs(Append(l, r), i)) = Cardinality(Evs(l, i))
  <2> SUFFICES ASSUME NEW i, i # r.trace \/ r.type = "metadata"
               PROVE  /\ Ins(Append(l, r), i) = Ins(l, i)
                      /\ Cardinality(Evs(Append(l, r), i)) = Cardinality(Evs(l, i))
    OBVIOUS
  <2>1. QED
    BY TellsAppend
<1>2. \A i : Evs(l, i) # {} => Evs(Append(l, r), i) # {}
  BY TellsAppend
<1>3. /\ Append(l, r) \in Seq(Received) /\ Len(l) \in Nat /\ DOMAIN l = 1 .. Len(l)
      /\ DOMAIN Append(l, r) = 1 .. Len(l) + 1 /\ Append(l, r)[Len(l) + 1] = r
      /\ \A n \in DOMAIN l : Append(l, r)[n] = l[n]
  OBVIOUS
<1>4. ToSet(l) \subseteq ToSet(Append(l, r)) /\ r \in ToSet(Append(l, r))
  BY <1>3 DEF ToSet
<1>5. QED
  BY <1>1, <1>2, <1>3, <1>4

\* Events are counted alike in both modules.
LEMMA CountedAlike == \A S : Monitor!Cardinality(S) = Cardinality(S)
BY DEF Monitor!Cardinality, Cardinality

\* The promise of a step: the log goes on as MonitoringLog allows.
LEMMA EventSent ==
  ASSUME TrueLog, NEW u \in Thread, Send(u), NEW o, NEW id, BeforeSend(u, o, id),
         SendsEvent(u, o)
  PROVE  TraceGoesOn(u, o, id) /\ Monitor!Next
<1>1. log \in Seq(Received) /\ ~WriteMayFail
  BY DEF TrueLog, OneProbe, OrderInv
<1>2. PICK e : LoggedEvent(e, u, o) /\ log' = Append(log, e)
  BY DEF SendsEvent
<1>3. Ins(log, id) = Shows(frames[u]) /\ Cardinality(Evs(log, id)) = order_index[o]
  BY DEF BeforeSend
<1>4. /\ e \in Received /\ e.trace = id /\ e.type # "metadata"
      /\ Ins(log', id) = Shows(IF call[u].probe = "before" THEN Append(frames[u], call[u].op)
                                                           ELSE Front(frames[u]))
  BY <1>1, <1>2, <1>3, EventTold
<1>5. frames[u] # <<>> /\ Monitor!Metadata(id, Key[u]) \in ToSet(log)
  BY DEF BeforeSend, SendsEvent
<1>6. TraceGoesOn(u, o, id)
  <2>1. Cardinality(Evs(log', id)) = order_index[o] + 1 /\ Evs(log', id) # {}
    BY <1>1, <1>2, <1>3, <1>4, TellsAppend
  <2>2. /\ \A i : i # id => Ins(log', i) = Ins(log, i)
                            /\ Cardinality(Evs(log', i)) = Cardinality(Evs(log, i))
        /\ \A i : Evs(log, i) # {} => Evs(log', i) # {}
        /\ ToSet(log) \subseteq ToSet(log')
        /\ \A n \in DOMAIN log' : (n \in DOMAIN log /\ log'[n] = log[n]) \/ log'[n] = e
    BY <1>1, <1>2, <1>4, OthersTold
  <2>3. QED
    BY <1>4, <1>5, <2>1, <2>2 DEF TraceGoesOn
<1>7. Monitor!Inside(id) = Shows(frames[u]) /\ Cardinality(Monitor!EventsOf(id)) = order_index[o]
  BY <1>3, InOtherWords
<1>8. id \in Monitor!OpenTraces(Key[u])
  <2>1. Shows(frames[u]) # <<>> /\ id \in InitialId .. InitialId + MaxTraces
    BY <1>5, ShowsFront DEF BeforeSend
  <2>2. QED
    BY <1>5, <1>7, <2>1 DEF Monitor!OpenTraces, Monitor!ToSet, ToSet
<1>9. e = [type |-> call[u].probe, trace |-> id, order |-> order_index[o],
           texts |-> <<call[u].op, ClassName>>]
  BY <1>1, <1>2, <1>4 DEF LoggedEvent, Received, BeforeSend
<1>10. CASE call[u].probe = "before"
  <2>1. log' = Append(log, Monitor!BeforeEvent(id, Cardinality(Monitor!EventsOf(id)),
                                               <<call[u].op, ClassName>>))
    BY <1>2, <1>7, <1>9, <1>10 DEF Monitor!BeforeEvent
  <2>2. Monitor!Enter(Key[u], <<call[u].op, ClassName>>)
    <3>1. \E i \in Monitor!OpenTraces(Key[u]) :
            log' = Append(log, Monitor!BeforeEvent(i, Cardinality(Monitor!EventsOf(i)),
                                                   <<call[u].op, ClassName>>))
      BY <1>8, <2>1, Zenon
    <3>2. QED
      BY <3>1, CountedAlike DEF Monitor!Enter
  <2>3. call[u].op \in Op
    BY DEF BeforeSend
  <2>4. QED
    BY <1>6, <2>2, <2>3 DEF Monitor!Next
<1>11. CASE call[u].probe = "after"
  <2>1. Monitor!Last(Monitor!Inside(id)) = <<call[u].op, ClassName>>
    BY <1>7, <1>11, ShowsFront DEF BeforeSend
  <2>2. log' = Append(log, Monitor!AfterEvent(id, Cardinality(Monitor!EventsOf(id)),
                                              Monitor!Last(Monitor!Inside(id))))
    BY <1>2, <1>7, <1>9, <1>11, <2>1 DEF Monitor!AfterEvent
  <2>3. Monitor!Leave(Key[u])
    <3>1. \E i \in Monitor!OpenTraces(Key[u]) :
            log' = Append(log, Monitor!AfterEvent(i, Cardinality(Monitor!EventsOf(i)),
                                                  Monitor!Last(Monitor!Inside(i))))
      BY <1>8, <2>2, Zenon
    <3>2. QED
      BY <3>1, CountedAlike DEF Monitor!Leave
  <2>4. QED
    BY <1>6, <2>3 DEF Monitor!Next
<1>12. QED
  BY <1>10, <1>11 DEF BeforeSend

\* The first send of a trace starts it in the log.
LEMMA FirstSent ==
  ASSUME TrueLog, NEW u \in Thread, Send(u), NEW o, NEW id, BeforeSend(u, o, id),
         SendsFirst(u, o)
  PROVE  TraceGoesOn(u, o, id) /\ Monitor!Next
<1>1. log \in Seq(Received) /\ ~WriteMayFail
  BY DEF TrueLog, OneProbe, OrderInv
<1>2. PICK m, e : /\ LoggedMetadata(m, o) /\ LoggedEvent(e, u, o)
                  /\ log' = Append(Append(log, m), e)
  BY DEF SendsFirst
<1>3. PICK one : one = Append(log, m)
  OBVIOUS
<1>4. /\ order_index[o] = 0 /\ call[u].probe = "before" /\ call[u].op \in Op
      /\ Ins(log, id) = Shows(frames[u]) /\ Cardinality(Evs(log, id)) = 0
  BY DEF BeforeSend, SendsFirst
<1>5. /\ m \in Received /\ m.trace = id /\ m.type = "metadata"
      /\ m = Monitor!Metadata(id, Key[u])
  BY <1>1, <1>2 DEF LoggedMetadata, Received, BeforeSend, Monitor!Metadata
<1>6. /\ one \in Seq(Received)
      /\ \A i : Ins(one, i) = Ins(log, i) /\ Cardinality(Evs(one, i)) = Cardinality(Evs(log, i))
      /\ \A i : Evs(log, i) # {} => Evs(one, i) # {}
      /\ ToSet(log) \subseteq ToSet(one) /\ m \in ToSet(one)
      /\ \A n \in DOMAIN one : (n \in DOMAIN log /\ one[n] = log[n]) \/ one[n] = m
  BY <1>1, <1>3, <1>5, OthersTold
<1>7. log' = Append(one, e)
  BY <1>2, <1>3
<1>8. /\ e \in Received /\ e.trace = id /\ e.type # "metadata"
      /\ Ins(log', id) = Shows(IF call[u].probe = "before" THEN Append(frames[u], call[u].op)
                                                           ELSE Front(frames[u]))
  BY <1>1, <1>2, <1>4, <1>6, <1>7, EventTold
<1>9. TraceGoesOn(u, o, id)
  <2>1. Cardinality(Evs(log', id)) = order_index[o] + 1 /\ Evs(log', id) # {}
    BY <1>4, <1>6, <1>7, <1>8, TellsAppend
  <2>2. /\ \A i : i # id => Ins(log', i) = Ins(one, i)
                            /\ Cardinality(Evs(log', i)) = Cardinality(Evs(one, i))
        /\ \A i : Evs(one, i) # {} => Evs(log', i) # {}
        /\ ToSet(one) \subseteq ToSet(log')
        /\ \A n \in DOMAIN log' : (n \in DOMAIN one /\ log'[n] = one[n]) \/ log'[n] = e
    BY <1>6, <1>7, <1>8, OthersTold
  <2>3. m.thread = Key[u]
    BY <1>5 DEF Monitor!Metadata
  <2>4. \A n \in DOMAIN log' : \/ n \in DOMAIN log /\ log'[n] = log[n]
                               \/ log'[n] = m \/ log'[n] = e
    BY <1>6, <2>2
  <2>5. \A n \in DOMAIN log' :
          \/ n \in DOMAIN log /\ log'[n] = log[n]
          \/ log'[n].trace = id /\ (log'[n].type = "metadata" => log'[n].thread = Key[u])
    BY <1>5, <1>8, <2>3, <2>4
  <2>6. QED
    BY <1>5, <1>6, <1>8, <2>1, <2>2, <2>5 DEF TraceGoesOn
<1>10. Evs(log, id) = {}
  BY <1>1, <1>4, TellsFinite
<1>11. \A n \in DOMAIN log : log[n].trace # id
  BY <1>10 DEF BeforeSend
<1>12. Monitor!Inside(id) = <<>>
  BY <1>1, <1>11, TellsNothing, InOtherWords
<1>13. Monitor!OpenTraces(Key[u]) = {}
  <2> SUFFICES ASSUME NEW i \in Monitor!OpenTraces(Key[u]) PROVE FALSE
    OBVIOUS
  <2>1. Monitor!Metadata(i, Key[u]) \in Monitor!ToSet(log) /\ Monitor!Inside(i) # <<>>
    BY DEF Monitor!OpenTraces
  <2>2. PICK n \in DOMAIN log : log[n] = Monitor!Metadata(i, Key[u])
    BY <2>1 DEF Monitor!ToSet
  <2>3. log[n].type = "metadata" /\ log[n].trace = i /\ log[n].thread = Key[u]
    BY <2>2 DEF Monitor!Metadata
  <2>4. PICK t \in Thread : \E p \in Matches(t) : trace[p].trace_id = i /\ Key[t] = Key[u]
    BY <2>1, <2>3 DEF TrueLog, LogInv
  <2>5. t = u
    BY <2>4 DEF TrueLog, OneProbe, InjectiveKey
  <2>6. i = id
    BY <2>4, <2>5 DEF BeforeSend
  <2>7. QED
    BY <1>12, <2>1, <2>6
<1>14. e = Monitor!BeforeEvent(id, 0, <<call[u].op, ClassName>>)
  BY <1>1, <1>2, <1>4, <1>8 DEF LoggedEvent, Received, BeforeSend, Monitor!BeforeEvent
<1>15. log' = log \o <<Monitor!Metadata(id, Key[u]),
                       Monitor!BeforeEvent(id, 0, <<call[u].op, ClassName>>)>>
  <2>1. log' = log \o <<m, e>>
    BY <1>1, <1>2, <1>5, <1>8
  <2>2. QED
    BY <1>5, <1>14, <2>1
<1>16. Monitor!Begin(Key[u], <<call[u].op, ClassName>>)
  <2>1. ~Monitor!Started(id) /\ id \in InitialId .. InitialId + MaxTraces
    BY <1>11 DEF Monitor!Started, BeforeSend
  <2>2. QED
    BY <1>13, <1>15, <2>1 DEF Monitor!Begin
<1>17. QED
  BY <1>4, <1>9, <1>16 DEF Monitor!Next

LEMMA LogSend ==
  ASSUME TrueLog, NEW u \in Thread, Send(u)
  PROVE  LogInv' /\ Monitor!Next
<1>1. PICK o, id : BeforeSend(u, o, id)
  BY SendKnows
<1>2. SendsEvent(u, o) \/ SendsFirst(u, o)
  BY <1>1, Sends DEF TrueLog, BeforeSend
<1>3. TraceGoesOn(u, o, id) /\ Monitor!Next
  BY <1>1, <1>2, EventSent, FirstSent
<1>4. QED
  BY <1>1, <1>3, LogSent

-----------------------------------------------------------------------------
\* A step keeps the log true, and is a step of MonitoringLog or leaves the log alone.
LEMMA LogStep ==
  ASSUME TrueLog, ProbeInv', [ProbeNext]_all_vars
  PROVE  LogInv' /\ [Monitor!Next]_log
<1>1. CASE UNCHANGED all_vars
  <2>1. UNCHANGED <<vars, order_index, frames, call, step, log>>
    BY <1>1 DEF all_vars, probe_vars, object_vars, program_vars, out_vars, wire_vars
  <2>2. UNCHANGED <<kieker_traces, trace, kieker_trace_current_id, pc, data>>
    BY <2>1 DEF vars, heap_vars, id_vars
  <2>3. \A t \in Thread : Matches(t)' = Matches(t) /\ Shown(t)' = Shown(t)
                            /\ (InProbe(t)' <=> InProbe(t))
    BY <2>1, <2>2 DEF Matches, Shown, InProbe
  <2>4. \A t \in Thread : \A o \in Matches(t)' : ToldOf(t, o)'
    <3> SUFFICES ASSUME NEW t \in Thread, NEW o \in Matches(t)' PROVE ToldOf(t, o)'
      OBVIOUS
    <3>1. ToldOf(t, o)
      BY <2>3 DEF TrueLog, LogInv
    <3>2. Sent(o)' = Sent(o)
      BY <2>1, <2>2, SentStays
    <3>3. QED
      BY <2>1, <2>2, <2>3, <3>1, <3>2, ToldStays
  <2>5. \A n \in DOMAIN log' : (Monitor!EventsOf(log[n].trace) # {})'
    <3>1. \A n \in DOMAIN log : Monitor!EventsOf(log[n].trace) # {}
      BY DEF TrueLog, LogInv
    <3>2. QED
      BY <2>1, <3>1 DEF Monitor!EventsOf
  <2>6. ASSUME NEW n \in DOMAIN log', log'[n].type = "metadata",
               (Monitor!Inside(log[n].trace) # <<>>)'
        PROVE  (\E t \in Thread : \E p \in Matches(t) :
                  trace[p].trace_id = log[n].trace /\ Key[t] = log[n].thread)'
    <3>1. Monitor!Inside(log[n].trace) # <<>>
      BY <2>1, <2>6 DEF Monitor!Inside
    <3>2. PICK t \in Thread : \E p \in Matches(t) :
            trace[p].trace_id = log[n].trace /\ Key[t] = log[n].thread
      BY <2>1, <2>6, <3>1 DEF TrueLog, LogInv
    <3>3. QED
      BY <2>1, <2>2, <2>3, <3>2
  <2>7. LogInv'
    BY <2>1, <2>2, <2>3, <2>4, <2>5, <2>6 DEF TrueLog, LogInv
  <2>8. QED
    BY <2>1, <2>7
<1>2. CASE RunOver
  BY <1>1, <1>2 DEF RunOver
<1>3. ASSUME NEW u \in Thread, ThreadNext(u) PROVE LogInv' /\ [Monitor!Next]_log
  <2>1. CASE Send(u)
    BY <2>1, LogSend
  <2>2. CASE CallAfter(u) \/ \E op \in Op : CallBefore(u, op)
    <3>1. UNCHANGED log
      BY <2>2 DEF CallAfter, CallBefore, out_vars, wire_vars
    <3>2. QED
      BY <2>2, <3>1, LogCall
  <2>3. CASE InGet(u)
    <3>1. UNCHANGED log
      BY <2>3 DEF InGet, out_vars, wire_vars
    <3>2. QED
      BY <2>3, <3>1, LogGet, LogAdd, LogBump
  <2>4. CASE Metadata(u)
    BY <2>4, LogMetadata DEF Metadata, UsesKeys, wire_vars
  <2>5. CASE Count(u)
    BY <2>5, LogCount DEF Count, out_vars, wire_vars
  <2>6. CASE Event(u)
    BY <2>6, LogEvent DEF Event, UsesKeys, wire_vars
  <2>7. CASE EndOfProbe(u)
    BY <2>7, LogEnd DEF EndOfProbe, out_vars, wire_vars
  <2>8. CASE InRemove(u)
    BY <2>8, LogRemove DEF InRemove, out_vars, wire_vars
  <2>9. CASE Lookup(u)
    BY <2>9, LogLookup DEF Lookup
  <2>10. ~Unwind(u)
    BY DEF Unwind, TrueLog
  <2>11. QED
    BY <1>3, <2>1, <2>2, <2>3, <2>4, <2>5, <2>6, <2>7, <2>8, <2>9, <2>10 DEF ThreadNext, ProbeStep
<1>4. QED
  BY <1>1, <1>2, <1>3 DEF ProbeNext, ThreadNext

LEMMA LogInit == ProbeInit => LogInv /\ Monitor!Init
<1> SUFFICES ASSUME ProbeInit PROVE LogInv /\ Monitor!Init
  OBVIOUS
<1>1. /\ log = <<>> /\ kieker_traces = {} /\ kieker_trace_current_id = InitialId
      /\ \A t \in Thread : step[t] = "out" /\ pc[t] = "idle"
  BY DEF ProbeInit, Init
<1>2. \A t \in Thread : Matches(t) = {} /\ ~InProbe(t)
  BY <1>1 DEF Matches, InProbe
<1>3. kieker_trace_current_id <= InitialId + MaxTraces
  BY <1>1, InitialIdAssumption, MaxTracesAssumption
<1>4. QED
  BY <1>1, <1>2, <1>3 DEF LogInv, Monitor!Init

\* The conditions under which the log is true: probes that do not overlap, writes that do not
\* fail, operations that return.
Truthful == InjectiveKey /\ Serialised /\ ~MayUnwind /\ ~WriteMayFail

\* The log tells of each trace what its thread is in, at every step of a probe.
THEOREM LogCorrect ==
  ASSUME Truthful
  PROVE  ProbeSpec => []LogInv
<1>1. /\ RegistryInv /\ SerialInv /\ ProbeInv /\ TableInv /\ OrderInv /\ LogInv
      /\ ProbeInv' /\ [ProbeNext]_all_vars
      => LogInv'
  BY LogStep DEF Truthful, TrueLog, OneProbe
<1>2. ProbeInit => LogInv
  BY LogInit
<1>3. InjectiveKey /\ Serialised
  BY DEF Truthful
<1>4. QED
  BY <1>1, <1>2, <1>3, RegistryUnderProbes, SerialUnderProbes, ProbeCorrect, TableCorrect,
     OrderCorrect, PTL DEF ProbeSpec

\* The log is that of threads that enter and leave their operations in order, in traces that
\* are numbered without a gap: the probes implement MonitoringLog.
THEOREM LogRefines ==
  ASSUME Truthful
  PROVE  ProbeSpec => ImplementsMonitoringLog
<1>1. /\ RegistryInv /\ SerialInv /\ ProbeInv /\ TableInv /\ OrderInv /\ LogInv
      /\ ProbeInv' /\ [ProbeNext]_all_vars
      => [Monitor!Next]_log
  BY LogStep DEF Truthful, TrueLog, OneProbe
<1>2. ProbeInit => Monitor!Init
  BY LogInit
<1>3. InjectiveKey /\ Serialised
  BY DEF Truthful
<1>4. QED
  BY <1>1, <1>2, <1>3, RegistryUnderProbes, SerialUnderProbes, ProbeCorrect, TableCorrect,
     OrderCorrect, LogCorrect, PTL DEF ProbeSpec, Monitor!Spec, ImplementsMonitoringLog

\* Whoever reads the log between two probes of a thread finds the operations the thread
\* is in, in one trace, or none.
THEOREM LogTells ==
  ASSUME Truthful
  PROVE  ProbeSpec => []LogTellsFrames
<1>1. RegistryInv /\ OrderInv /\ ProbeInv /\ LogInv => LogTellsFrames
  <2> SUFFICES ASSUME RegistryInv, OrderInv, ProbeInv, LogInv, NEW t \in Thread, step[t] = "out"
               PROVE  {Monitor!Inside(id) : id \in Monitor!OpenTraces(Key[t])} =
                        IF frames[t] = <<>> THEN {}
                        ELSE {[n \in DOMAIN frames[t] |-> <<frames[t][n], ClassName>>]}
    BY DEF LogTellsFrames
  <2>1. ASSUME NEW id \in Monitor!OpenTraces(Key[t])
        PROVE  \E o \in Matches(t) : trace[o].trace_id = id
    <3>1. Monitor!Metadata(id, Key[t]) \in Monitor!ToSet(log) /\ Monitor!Inside(id) # <<>>
      BY DEF Monitor!OpenTraces
    <3>2. PICK n \in DOMAIN log : log[n] = Monitor!Metadata(id, Key[t])
      BY <3>1 DEF Monitor!ToSet
    <3>3. log[n].type = "metadata" /\ log[n].trace = id /\ log[n].thread = Key[t]
      BY <3>2 DEF Monitor!Metadata
    <3>4. PICK u \in Thread : \E p \in Matches(u) : trace[p].trace_id = id /\ Key[u] = Key[t]
      BY <3>1, <3>3 DEF LogInv
    <3>5. u = t
      BY <3>4 DEF Truthful, InjectiveKey
    <3>6. QED
      BY <3>4, <3>5
  <2>2. ASSUME NEW o \in Matches(t)
        PROVE  Monitor!Inside(trace[o].trace_id) = Shows(frames[t])
    <3>1. ToldOf(t, o) /\ Shown(t) = frames[t]
      BY DEF LogInv, Shown
    <3>2. QED
      BY <3>1 DEF ToldOf, Shows
  <2>3. frames[t] \in Seq(Op) /\ DepthInv(t) /\ ~MayUnwind
    BY DEF ProbeInv, Truthful
  <2>4. CASE frames[t] = <<>>
    <3>1. Matches(t) = {}
      BY <2>3, <2>4 DEF DepthInv
    <3>2. Monitor!OpenTraces(Key[t]) = {}
      BY <2>1, <3>1
    <3>3. QED
      BY <2>4, <3>2
  <2>5. CASE frames[t] # <<>>
    <3>1. PICK o \in Matches(t) : TRUE
      BY <2>3, <2>5 DEF DepthInv
    <3>2. PICK id : id = trace[o].trace_id
      OBVIOUS
    <3>3. Monitor!Inside(id) = Shows(frames[t]) /\ Shows(frames[t]) # <<>>
      BY <2>2, <2>3, <2>5, <3>2, ShowsFront
    <3>4. Monitor!Metadata(id, Key[t]) \in Monitor!ToSet(log)
      <4>1. ToldOf(t, o) /\ Shown(t) = frames[t]
        BY DEF LogInv, Shown
      <4>2. QED
        BY <2>5, <3>2, <4>1 DEF ToldOf, ToSet, Monitor!ToSet
    <3>5. id \in InitialId .. InitialId + MaxTraces
      <4>1. PICK n \in DOMAIN log : log[n] = Monitor!Metadata(id, Key[t])
        BY <3>4 DEF Monitor!ToSet
      <4>2. log[n].trace = id
        BY <4>1 DEF Monitor!Metadata
      <4>3. id \in InitialId .. kieker_trace_current_id - 1
        BY <4>2 DEF OrderInv
      <4>4. kieker_trace_current_id \in Nat /\ kieker_trace_current_id <= InitialId + MaxTraces
        BY DEF RegistryInv, TypeOK, LogInv
      <4>5. QED
        BY <4>3, <4>4, InitialIdAssumption, MaxTracesAssumption
    <3>6. id \in Monitor!OpenTraces(Key[t])
      BY <3>3, <3>4, <3>5 DEF Monitor!OpenTraces
    <3>7. \A i \in Monitor!OpenTraces(Key[t]) : Monitor!Inside(i) = Shows(frames[t])
      BY <2>1, <2>2
    <3>8. {Monitor!Inside(i) : i \in Monitor!OpenTraces(Key[t])} = {Shows(frames[t])}
      BY <3>3, <3>6, <3>7
    <3>9. QED
      BY <2>5, <3>8 DEF Shows
  <2>6. QED
    BY <2>4, <2>5
<1>2. InjectiveKey /\ Serialised
  BY DEF Truthful
<1>3. QED
  BY <1>1, <1>2, RegistryUnderProbes, ProbeCorrect, OrderCorrect, LogCorrect, PTL

\* The inductive invariants of the probes, each under the conditions it needs.
THEOREM PlainCorrect ==
  ASSUME InjectiveKey
  PROVE  ProbeSpec => []PlainInv
<1>1. CASE ~Serialised
  <2>1. ProbeInv => PlainInv
    BY <1>1 DEF PlainInv
  <2>2. QED
    BY <2>1, ProbeCorrect, PTL
<1>2. CASE Serialised /\ ~Truthful
  <2>1. ProbeInv /\ TableInv /\ SerialInv /\ OrderInv => PlainInv
    BY <1>2 DEF PlainInv, Truthful
  <2>2. Serialised
    BY <1>2
  <2>3. QED
    BY <2>1, <2>2, ProbeCorrect, TableCorrect, SerialUnderProbes, OrderCorrect, PTL
<1>3. CASE Truthful
  <2>1. ProbeInv /\ TableInv /\ SerialInv /\ OrderInv /\ LogInv => PlainInv
    BY DEF PlainInv
  <2>2. Serialised
    BY <1>3 DEF Truthful
  <2>3. QED
    BY <1>3, <2>1, <2>2, ProbeCorrect, TableCorrect, SerialUnderProbes, OrderCorrect, LogCorrect,
       PTL
<1>4. QED
  BY <1>1, <1>2, <1>3
===============================================================================
