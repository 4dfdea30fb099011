-------------------------- MODULE StringLookupProofs --------------------------
(***************************************************************************)
(* Proofs about StringLookup for every set of strings, every increment of  *)
(* the array and any number of threads that use it one at a time.          *)
(***************************************************************************)
EXTENDS StringLookup, SequenceTheorems, TLAPS

\* A step keeps the types, whoever takes it.
LEMMA TypeStep ==
  ASSUME NEW t \in Thread, Step(t),
         TypeOK
  PROVE  TypeOK'
<1> USE NoTextAssumption, TableIncAssumption DEF list, max, top, table_vars,
   wire_vars, Goto, TypeOK, Position
<1>1. CASE Scan(t)
  <2>1. i' = i \/ i' = [i EXCEPT ![t] = i[t] + 1]
    BY <1>1 DEF Scan
  <2>2. pc' = pc \/ pc' = [pc EXCEPT ![t] = "found"] \/ pc' = [pc EXCEPT ![t] = "grow"]
    BY <1>1 DEF Scan
  <2>3. /\ UNCHANGED <<list, max, top, string_buffer>>
        /\ UNCHANGED <<stream, lost, text, at>>
    BY <1>1 DEF Scan
  <2>4. i' \in [Thread -> Nat]
    BY <2>1
  <2>5. pc' \in [Thread -> Position]
    BY <2>2
  <2>6. QED
    BY <2>3, <2>4, <2>5
<1>2. CASE Grow(t)
  BY <1>2 DEF Grow
<1>3. CASE Fill(t)
  BY <1>3 DEF Fill, Announcement
<1>4. CASE Write(t)
  <2>1. Append(stream, string_buffer) \in Seq(Announcement)
    BY AppendProperties
  <2>2. stream' \in Seq(Announcement) /\ lost' \subseteq Announcement
    BY <1>4, <2>1 DEF Write
  <2>3. pc' = [pc EXCEPT ![t] = "store"]
    BY <1>4 DEF Write
  <2>4. /\ UNCHANGED <<list, max, top>>
        /\ UNCHANGED <<string_buffer, text, i, at>>
    BY <1>4 DEF Write
  <2>5. QED
    BY <2>3, <2>2, <2>4
<1>5. CASE Store(t)
  BY <1>5 DEF Store
<1>6. CASE Bump(t)
  BY <1>6 DEF Bump
<1>7. CASE Return(t)
  BY <1>7 DEF Return
<1>8. QED
  BY <1>1, <1>2, <1>3, <1>4, <1>5, <1>6, <1>7 DEF Step

\* While one thread runs, the others are outside the table.
LEMMA OthersIdle ==
  ASSUME NEW t \in Thread, Step(t),
         TypeOK, \A u, v \in Thread : Busy(u) /\ Busy(v) => u = v
  PROVE  \A u \in Thread \ {t} : pc[u] = "idle" /\ pc'[u] = "idle"
<1> USE NoTextAssumption, TableIncAssumption DEF TypeOK, Busy, Goto
<1>1. CASE Scan(t)
  BY <1>1 DEF Scan
<1>2. CASE Grow(t)
  BY <1>2 DEF Grow
<1>3. CASE Fill(t)
  BY <1>3 DEF Fill
<1>4. CASE Write(t)
  BY <1>4 DEF Write
<1>5. CASE Store(t)
  BY <1>5 DEF Store
<1>6. CASE Bump(t)
  BY <1>6 DEF Bump
<1>7. CASE Return(t)
  BY <1>7 DEF Return
<1>8. QED
  BY <1>1, <1>2, <1>3, <1>4, <1>5, <1>6, <1>7 DEF Step

\* A step keeps what the running thread knows.
LEMMA ThreadStep ==
  ASSUME NEW t \in Thread, Step(t),
         LookupInv
  PROVE  ThreadInv(t)'
<1> USE NoTextAssumption, TableIncAssumption DEF list, max, top, table_vars,
   wire_vars, Goto, LookupInv, TypeOK, Position, ThreadInv, Busy, New
<1>1. CASE Scan(t)
  BY <1>1 DEF Scan
<1>2. CASE Grow(t)
  BY <1>2 DEF Grow
<1>3. CASE Fill(t)
  BY <1>3 DEF Fill
<1>4. CASE Write(t)
  BY <1>4 DEF Write
<1>5. CASE Store(t)
  BY <1>5 DEF Store
<1>6. CASE Bump(t)
  BY <1>6 DEF Bump
<1>7. CASE Return(t)
  BY <1>7 DEF Return
<1>8. QED
  BY <1>1, <1>2, <1>3, <1>4, <1>5, <1>6, <1>7 DEF Step

\* A step keeps the strings of the table different, and the table in the array.
LEMMA OneKeyStep ==
  ASSUME NEW t \in Thread, Step(t),
         LookupInv
  PROVE  OneKeyPerText' /\ top' <= max'
<1> USE NoTextAssumption, TableIncAssumption DEF list, max, top, table_vars,
   wire_vars, Goto, LookupInv, TypeOK, ThreadInv, New, OneKeyPerText
<1>1. CASE Scan(t)
  BY <1>1 DEF Scan
<1>2. CASE Grow(t)
  BY <1>2 DEF Grow
<1>3. CASE Fill(t)
  BY <1>3 DEF Fill
<1>4. CASE Write(t)
  BY <1>4 DEF Write
<1>5. CASE Store(t)
  BY <1>5 DEF Store
<1>6. CASE Bump(t)
  BY <1>6 DEF Bump
<1>7. CASE Return(t)
  BY <1>7 DEF Return
<1>8. QED
  BY <1>1, <1>2, <1>3, <1>4, <1>5, <1>6, <1>7 DEF Step

\* A step that leaves the cells in use and the announcements alone, while no string
\* is on its way into the table, keeps them in line.
LEMMA AnnouncedFrame ==
  ASSUME TypeOK, AnnouncedAsStored, \A u \in Thread : pc[u] \notin {"store", "bump"},
         UNCHANGED <<stream, top>>, \A k \in 0 .. top - 1 : list'[k] = list[k]
  PROVE  AnnouncedAsStored'
<1>1. ASSUME NEW n \in DOMAIN stream
      PROVE  stream[n].id < top /\ list'[stream[n].id] = stream[n].text
  <2>1. stream[n] \in Announcement /\ top \in Nat
    BY DEF TypeOK
  <2>2. stream[n].id \in Nat
    BY <2>1 DEF Announcement
  <2>3. stream[n].id < top /\ list[stream[n].id] = stream[n].text
    BY DEF AnnouncedAsStored
  <2>4. stream[n].id \in 0 .. top - 1
    BY <2>1, <2>2, <2>3
  <2>5. QED
    BY <2>3, <2>4
<1>2. QED
  BY <1>1 DEF AnnouncedAsStored

\* Enlarging the array keeps the cells in use.
LEMMA GrowKeepsCells ==
  ASSUME NEW t \in Thread, Grow(t), TypeOK, top <= max
  PROVE  UNCHANGED <<stream, top>> /\ \A k \in 0 .. top - 1 : list'[k] = list[k]
<1> USE TableIncAssumption DEF list, max, top, wire_vars
<1>1. max \in Nat /\ top \in Nat
  BY DEF TypeOK
<1>2. UNCHANGED <<stream, top>>
  BY DEF Grow
<1>3. CASE list' = [k \in 0 .. max + TableInc - 1 |-> IF k < max THEN list[k] ELSE NoText]
  <2>1. ASSUME NEW k \in 0 .. top - 1 PROVE list'[k] = list[k]
    <3>1. k \in 0 .. max + TableInc - 1 /\ k < max
      BY <1>1
    <3>2. QED
      BY <1>3, <3>1
  <2>2. QED
    BY <1>2, <2>1
<1>4. CASE UNCHANGED list
  BY <1>2, <1>4
<1>5. QED
  BY <1>3, <1>4 DEF Grow

\* A step keeps the announcements in line with the table.
LEMMA AnnouncedStep ==
  ASSUME NEW t \in Thread, Step(t),
         LookupInv, \A u \in Thread \ {t} : pc[u] = "idle" /\ pc'[u] = "idle"
  PROVE  AnnouncedAsStored'
<1> USE NoTextAssumption, TableIncAssumption DEF list, max, top, table_vars,
   wire_vars, Goto, LookupInv, TypeOK, ThreadInv, AnnouncedAsStored
<1>1. CASE Scan(t)
  BY <1>1 DEF Scan
<1>2. CASE Grow(t)
  <2>1. UNCHANGED <<stream, top>> /\ \A k \in 0 .. top - 1 : list'[k] = list[k]
    BY <1>2, GrowKeepsCells
  <2>2. \A u \in Thread : pc[u] \notin {"store", "bump"}
    BY <1>2 DEF Grow
  <2>3. QED
    BY <2>1, <2>2, AnnouncedFrame
<1>3. CASE Fill(t)
  BY <1>3 DEF Fill
<1>4. CASE Write(t)
  <2>1. pc' = [pc EXCEPT ![t] = "store"] /\ pc[t] = "write"
          /\ UNCHANGED <<list, top, text>>
    BY <1>4 DEF Write
  <2>2. string_buffer = [id |-> top, text |-> text[t]]
    BY <2>1
  <2>3. \A u \in Thread : pc[u] \notin {"store", "bump"}
    BY <2>1
  <2>4. CASE UNCHANGED stream
    BY <2>1, <2>3, <2>4
  <2>5. CASE stream' = Append(stream, string_buffer)
    <3>1. \A n \in DOMAIN stream' :
            (n \in DOMAIN stream /\ stream'[n] = stream[n]) \/ stream'[n] = string_buffer
      BY <2>5
    <3>2. pc'[t] = "store" /\ string_buffer = [id |-> top', text |-> text'[t]]
      BY <2>1, <2>2
    <3>3. \A n \in DOMAIN stream :
            stream[n].id < top' /\ list'[stream[n].id] = stream[n].text
      BY <2>1, <2>3
    <3>4. QED
      BY <3>1, <3>2, <3>3
  <2>6. QED
    BY <1>4, <2>4, <2>5 DEF Write
<1>5. CASE Store(t)
  BY <1>5 DEF Store
<1>6. CASE Bump(t)
  <2>1. /\ top' = top + 1 /\ list[top] = text[t]
        /\ UNCHANGED <<list, stream, text>>
    BY <1>6 DEF Bump
  <2>2. \A u \in Thread : pc[u] \in {"store", "bump"} => u = t
    OBVIOUS
  <2>3. SUFFICES ASSUME NEW n \in DOMAIN stream
                 PROVE  stream[n].id < top' /\ list[stream[n].id] = stream[n].text
    BY <2>1
  <2>4. stream[n] \in Announcement
    OBVIOUS
  <2>5. stream[n].id \in Nat
    BY <2>4 DEF Announcement
  <2>6. CASE stream[n].id < top /\ list[stream[n].id] = stream[n].text
    BY <2>1, <2>5, <2>6
  <2>7. CASE stream[n] = [id |-> top, text |-> text[t]]
    BY <2>1, <2>7
  <2>8. QED
    BY <2>2, <2>6, <2>7
<1>7. CASE Return(t)
  BY <1>7 DEF Return
<1>8. QED
  BY <1>1, <1>2, <1>3, <1>4, <1>5, <1>6, <1>7 DEF Step

\* A step that announces nothing, while no string is on its way into the table and the
\* cells in use stay, leaves every announcement where it was.
LEMMA NothingAnnounced ==
  ASSUME TypeOK, AnnouncementInv, UNCHANGED <<stream, lost>>, top' = top,
         \A k \in 0 .. top - 1 : list'[k] = list[k],
         \A u \in Thread : /\ pc'[u] \in {"store", "bump"} <=> pc[u] \in {"store", "bump"}
                           /\ pc[u] \in {"store", "bump"} => text'[u] = text[u]
  PROVE  AnnouncementInv'
<1>1. Announced' = Announced
  BY DEF Announced
<1>2. \A e \in lost' :
        e.id < top' \/ \E u \in Thread : pc'[u] \in {"store", "bump"} /\ e.id = top'
  BY DEF AnnouncementInv
<1>3. \A u \in Thread : pc'[u] \in {"store", "bump"} =>
        [id |-> top', text |-> text'[u]] \in Announced' \cup lost'
  BY <1>1 DEF AnnouncementInv
<1>4. AnnouncedOrLost' /\ AnnouncedOnce'
  BY DEF AnnouncementInv, AnnouncedOrLost, AnnouncedOnce
<1>5. QED
  BY <1>2, <1>3, <1>4 DEF AnnouncementInv

\* A write announces the string of the running thread under a key no announcement had,
\* or loses that announcement.
LEMMA WriteAnnounces ==
  ASSUME NEW t \in Thread, Write(t), LookupInv,
         \A u \in Thread \ {t} : pc[u] = "idle" /\ pc'[u] = "idle"
  PROVE  AnnouncementInv'
<1> USE DEF list, max, top, table_vars, wire_vars, Goto
<1> DEFINE new == [id |-> top, text |-> text[t]]
<1>1. /\ pc[t] = "write" /\ pc'[t] = "store" /\ string_buffer = new
      /\ UNCHANGED <<list, top, text>>
      /\ \/ stream' = Append(stream, new) /\ UNCHANGED lost
         \/ lost' = lost \cup {new} /\ UNCHANGED stream
  BY DEF Write, LookupInv, TypeOK, ThreadInv
<1>2. \A n \in DOMAIN stream : stream[n].id < top
  BY <1>1 DEF LookupInv, AnnouncedAsStored
<1>3. \A e \in lost : e.id < top
  BY <1>1 DEF LookupInv, AnnouncementInv
<1>4. top \in Nat /\ stream \in Seq(Announcement) /\ lost \subseteq Announcement
  BY DEF LookupInv, TypeOK
<1>5. \A n \in DOMAIN stream : stream[n].id \in Nat
  <2>1. \A n \in DOMAIN stream : stream[n] \in Announcement
    BY <1>4
  <2>2. QED
    BY <2>1 DEF Announcement
<1>6. \A e \in lost : e.id \in Nat
  BY <1>4 DEF Announcement
<1>7. new.id = top /\ ~(top < top)
  BY <1>4
<1> HIDE DEF new
<1>8. CASE stream' = Append(stream, new) /\ UNCHANGED lost
  <2>1. /\ DOMAIN stream' = DOMAIN stream \cup {Len(stream) + 1}
        /\ Len(stream) + 1 \notin DOMAIN stream
        /\ \A n \in DOMAIN stream : stream'[n] = stream[n]
        /\ stream'[Len(stream) + 1] = new
    BY <1>4, <1>8
  <2>2. Announced' = Announced \cup {new}
    BY <2>1 DEF Announced
  <2>3. AnnouncedOrLost'
    BY <1>1, <1>8, <2>1 DEF LookupInv, AnnouncementInv, AnnouncedOrLost
  <2>4. \A n \in DOMAIN stream', e \in lost' : stream'[n].id # e.id
    BY <1>3, <1>7, <1>8, <2>1 DEF LookupInv, AnnouncementInv
  <2>5. AnnouncedOnce'
    <3>1. \A m, n \in DOMAIN stream' : stream'[m].id = stream'[n].id => m = n
      BY <1>2, <1>7, <2>1 DEF LookupInv, AnnouncementInv, AnnouncedOnce
    <3>2. QED
      BY <2>4, <3>1 DEF AnnouncedOnce
  <2>6. \A u \in Thread : pc'[u] \in {"store", "bump"} =>
          [id |-> top', text |-> text'[u]] \in Announced' \cup lost'
    BY <1>1, <2>2 DEF new
  <2>7. QED
    BY <1>1, <1>3, <1>8, <2>3, <2>4, <2>5, <2>6 DEF AnnouncementInv
<1>9. CASE lost' = lost \cup {new} /\ UNCHANGED stream
  <2>1. AnnouncedOrLost'
    BY <1>1, <1>9 DEF LookupInv, AnnouncementInv, AnnouncedOrLost
  <2>2. \A n \in DOMAIN stream', e \in lost' : stream'[n].id # e.id
    BY <1>2, <1>7, <1>9 DEF LookupInv, AnnouncementInv
  <2>3. AnnouncedOnce'
    BY <1>9, <2>2 DEF LookupInv, AnnouncementInv, AnnouncedOnce
  <2>4. \A u \in Thread : pc'[u] \in {"store", "bump"} =>
          [id |-> top', text |-> text'[u]] \in Announced' \cup lost'
    BY <1>1, <1>9 DEF new
  <2>5. \A e \in lost' :
          e.id < top' \/ \E u \in Thread : pc'[u] \in {"store", "bump"} /\ e.id = top'
    BY <1>1, <1>3, <1>7, <1>9
  <2>6. QED
    BY <2>1, <2>2, <2>3, <2>4, <2>5 DEF AnnouncementInv
<1>10. QED
  BY <1>1, <1>8, <1>9

\* Once the counter is raised the string just announced, or lost, is in the table.
LEMMA BumpEntersAnnounced ==
  ASSUME NEW t \in Thread, Bump(t), LookupInv,
         \A u \in Thread \ {t} : pc[u] = "idle" /\ pc'[u] = "idle"
  PROVE  AnnouncementInv'
<1> USE DEF list, max, top, table_vars, wire_vars, Goto
<1>1. /\ pc[t] = "bump" /\ pc'[t] = "added" /\ top' = top + 1 /\ list[top] = text[t]
      /\ UNCHANGED <<list, text, stream, lost>>
  BY DEF Bump, LookupInv, TypeOK, ThreadInv
<1>2. top \in Nat /\ lost \subseteq Announcement
  BY DEF LookupInv, TypeOK
<1>3. [id |-> top, text |-> list[top]] \in Announced \cup lost
  BY <1>1 DEF LookupInv, AnnouncementInv
<1>4. AnnouncedOrLost'
  <2> SUFFICES ASSUME NEW k \in 0 .. top
               PROVE  \/ \E n \in DOMAIN stream : stream[n] = [id |-> k, text |-> list[k]]
                      \/ [id |-> k, text |-> list[k]] \in lost
    BY <1>1, <1>2 DEF AnnouncedOrLost
  <2>1. CASE k = top
    BY <1>3, <2>1 DEF Announced
  <2>2. CASE k \in 0 .. top - 1
    BY <2>2 DEF LookupInv, AnnouncementInv, AnnouncedOrLost
  <2>3. QED
    BY <1>2, <2>1, <2>2
<1>5. AnnouncedOnce' /\ \A n \in DOMAIN stream', e \in lost' : stream'[n].id # e.id
  BY <1>1 DEF LookupInv, AnnouncementInv, AnnouncedOnce
<1>6. \A e \in lost' : e.id < top'
  <2> SUFFICES ASSUME NEW e \in lost PROVE e.id < top + 1
    BY <1>1
  <2>1. e.id \in Nat
    BY <1>2 DEF Announcement
  <2>2. e.id < top \/ e.id = top
    BY DEF LookupInv, AnnouncementInv
  <2>3. QED
    BY <1>2, <2>1, <2>2
<1>7. \A u \in Thread : pc'[u] \notin {"store", "bump"}
  BY <1>1
<1>8. QED
  BY <1>4, <1>5, <1>6, <1>7 DEF AnnouncementInv

\* A step keeps the account of what was announced and what was lost.
LEMMA AnnouncementStep ==
  ASSUME NEW t \in Thread, Step(t), LookupInv,
         \A u \in Thread \ {t} : pc[u] = "idle" /\ pc'[u] = "idle"
  PROVE  AnnouncementInv'
<1> USE DEF list, max, top, table_vars, wire_vars, Goto
<1>1. TypeOK /\ AnnouncementInv /\ top <= max
  BY DEF LookupInv
<1>2. CASE Grow(t)
  <2>1. UNCHANGED top /\ \A k \in 0 .. top - 1 : list'[k] = list[k]
    BY <1>1, <1>2, GrowKeepsCells
  <2>2. UNCHANGED <<stream, lost>> /\ pc[t] = "grow" /\ pc'[t] = "fill"
    BY <1>1, <1>2 DEF Grow, TypeOK
  <2>3. QED
    BY <1>1, <2>1, <2>2, NothingAnnounced
<1>3. CASE Store(t)
  <2>1. /\ UNCHANGED <<stream, lost, top, text>> /\ pc[t] = "store" /\ pc'[t] = "bump"
        /\ list' = [list EXCEPT ![top] = text[t]] /\ top \in Nat
    BY <1>1, <1>3 DEF Store, TypeOK
  <2>2. \A k \in 0 .. top - 1 : list'[k] = list[k]
    BY <1>1, <2>1 DEF TypeOK
  <2>3. QED
    BY <1>1, <2>1, <2>2, NothingAnnounced
<1>4. CASE Scan(t) \/ Fill(t) \/ Return(t)
  <2>1. /\ UNCHANGED <<stream, lost, top, list>>
        /\ pc[t] \notin {"store", "bump"} /\ pc'[t] \notin {"store", "bump"}
    BY <1>1, <1>4 DEF Scan, Fill, Return, TypeOK
  <2>2. QED
    BY <1>1, <2>1, NothingAnnounced
<1>5. QED
  BY <1>2, <1>3, <1>4, WriteAnnounces, BumpEntersAnnounced DEF Step

\* A step of a serialised program keeps the invariant.
LEMMA LookupStep ==
  ASSUME Serialised, LookupInv, [Next]_vars
  PROVE  LookupInv'
<1>1. CASE UNCHANGED vars
  BY <1>1 DEF vars, table_vars, wire_vars, LookupInv, TypeOK, ThreadInv, Busy, New,
     OneKeyPerText, AnnouncedAsStored, AnnouncementInv, AnnouncedOrLost, AnnouncedOnce,
     Announced, list, max, top
<1>2. ASSUME NEW t \in Thread, NEW s \in Text, Call(t, s) PROVE LookupInv'
  <2>1. /\ UNCHANGED <<list, max, top>>
        /\ UNCHANGED <<string_buffer, stream, lost, at>>
        /\ text' = [text EXCEPT ![t] = s] /\ i' = [i EXCEPT ![t] = 0]
        /\ pc' = [pc EXCEPT ![t] = "scan"] /\ \A u \in Thread : pc[u] = "idle"
    BY <1>2 DEF Call, table_vars, wire_vars, Goto, list, max, top
  <2> USE DEF LookupInv
  <2>2. TypeOK'
    BY <2>1 DEF TypeOK, Position
  <2>3. \A u, v \in Thread : Busy(u)' /\ Busy(v)' => u = v
    BY <2>1 DEF TypeOK, Busy
  <2>4. \A u \in Thread : ThreadInv(u)'
    BY <2>1 DEF TypeOK, ThreadInv, Busy, New
  <2>5. OneKeyPerText' /\ AnnouncedAsStored' /\ top' <= max'
    BY <2>1 DEF TypeOK, OneKeyPerText, AnnouncedAsStored
  <2>6. AnnouncementInv'
    <3>1. \A u \in Thread : pc[u] \notin {"store", "bump"} /\ pc'[u] \notin {"store", "bump"}
      BY <2>1 DEF TypeOK
    <3>2. QED
      BY <2>1, <3>1, NothingAnnounced
  <2>7. QED
    BY <2>2, <2>3, <2>4, <2>5, <2>6
<1>3. ASSUME NEW t \in Thread, Step(t) PROVE LookupInv'
  <2>1. \A u \in Thread \ {t} : pc[u] = "idle" /\ pc'[u] = "idle"
    BY <1>3, OthersIdle DEF LookupInv
  <2>2. TypeOK'
    BY <1>3, TypeStep DEF LookupInv
  <2>3. \A u, v \in Thread : Busy(u)' /\ Busy(v)' => u = v
    BY <2>1 DEF Busy
  <2>4. ThreadInv(t)'
    BY <1>3, ThreadStep
  <2>5. \A u \in Thread \ {t} : ThreadInv(u)'
    BY <2>1 DEF ThreadInv, Busy, New
  <2>6. OneKeyPerText' /\ top' <= max'
    BY <1>3, OneKeyStep
  <2>7. AnnouncedAsStored'
    BY <1>3, <2>1, AnnouncedStep
  <2>8. AnnouncementInv'
    BY <1>3, <2>1, AnnouncementStep
  <2>9. QED
    BY <2>2, <2>3, <2>4, <2>5, <2>6, <2>7, <2>8 DEF LookupInv
<1>4. QED
  BY <1>1, <1>2, <1>3 DEF Next

-----------------------------------------------------------------------------
\* The table is correct in every reachable state of a serialised program.
THEOREM LookupCorrect ==
  ASSUME Serialised
  PROVE  Spec => []LookupInv
<1>1. Init => LookupInv
  BY NoTextAssumption DEF Init, LookupInv, TypeOK, Announcement, Position,
     ThreadInv, Busy,
     New, OneKeyPerText, AnnouncedAsStored, AnnouncementInv, AnnouncedOrLost,
     AnnouncedOnce, Announced, list, max, top
<1>2. LookupInv /\ [Next]_vars => LookupInv'
  BY LookupStep
<1>3. QED
  BY <1>1, <1>2, PTL DEF Spec

\* The key kieker_lookup_find_key_by_string returns is that of its argument.
THEOREM ReverseLookup ==
  ASSUME Serialised
  PROVE  Spec => []KeyNamesText
<1>1. LookupInv => KeyNamesText
  BY DEF LookupInv, TypeOK, ThreadInv, KeyNamesText, KeyOf
<1>2. QED
  BY LookupCorrect, <1>1, PTL

\* No string is in the table twice, so its key never depends on when it is asked.
THEOREM NoSecondKey ==
  ASSUME Serialised
  PROVE  Spec => []OneKeyPerText
<1>1. LookupInv => OneKeyPerText
  BY DEF LookupInv
<1>2. QED
  BY LookupCorrect, <1>1, PTL

\* The test top == max enlarges the array in time, for every increment.
THEOREM NoOverrun ==
  ASSUME Serialised
  PROVE  Spec => []StoreInBounds
<1>1. LookupInv => StoreInBounds
  BY DEF LookupInv, ThreadInv, StoreInBounds
<1>2. QED
  BY LookupCorrect, <1>1, PTL

\* Whatever writes fail, the collector never learns a wrong string for a key.
THEOREM TruthfulAnnouncements ==
  ASSUME Serialised
  PROVE  Spec => []AnnouncedAsStored
<1>1. LookupInv => AnnouncedAsStored
  BY DEF LookupInv
<1>2. QED
  BY LookupCorrect, <1>1, PTL

\* A key in use was announced, or its announcement was the one write() failed for.
THEOREM KeysAnnounced ==
  ASSUME Serialised
  PROVE  Spec => []AnnouncedOrLost
<1>1. LookupInv => AnnouncedOrLost
  BY DEF LookupInv, AnnouncementInv
<1>2. QED
  BY LookupCorrect, <1>1, PTL

\* No key is announced twice, and none after its announcement was lost.
THEOREM NoSecondAnnouncement ==
  ASSUME Serialised
  PROVE  Spec => []AnnouncedOnce
<1>1. LookupInv => AnnouncedOnce
  BY DEF LookupInv, AnnouncementInv
<1>2. QED
  BY LookupCorrect, <1>1, PTL

-----------------------------------------------------------------------------
\* Only the increment of the counter changes the table its callers see.
LEMMA VisibleStep ==
  ASSUME LookupInv, NEW t \in Thread, Step(t)
  PROVE  \/ /\ pc[t] = "bump" /\ top' = top + 1 /\ list[top] = text[t]
            /\ UNCHANGED list
         \/ top' = top /\ \A k \in 0 .. top - 1 : list'[k] = list[k]
<1> USE DEF list, max, top, table_vars, wire_vars, Goto, LookupInv, TypeOK,
   ThreadInv
<1>1. CASE Grow(t)
  BY <1>1, TableIncAssumption DEF Grow
<1>2. CASE Store(t)
  BY <1>2 DEF Store
<1>3. CASE Bump(t)
  BY <1>3 DEF Bump
<1>4. CASE Scan(t) \/ Fill(t) \/ Write(t) \/ Return(t)
  BY <1>4 DEF Scan, Fill, Write, Return
<1>5. QED
  BY <1>1, <1>2, <1>3, <1>4 DEF Step

\* A key is for good: the cells in use never change.
THEOREM PermanentKeys ==
  ASSUME Serialised
  PROVE  Spec => KeysAreForGood
<1>1. LookupInv /\ [Next]_vars =>
        [top' >= top /\ \A k \in 0 .. top - 1 : list'[k] = list[k]]_vars
  <2> SUFFICES ASSUME LookupInv, Next
               PROVE  top' >= top /\ \A k \in 0 .. top - 1 : list'[k] = list[k]
    OBVIOUS
  <2>1. top \in Nat
    BY DEF LookupInv, TypeOK
  <2>2. CASE \E t \in Thread : Step(t)
    BY <2>1, <2>2, VisibleStep
  <2>3. CASE \E t \in Thread, s \in Text : Call(t, s)
    BY <2>1, <2>3 DEF Call, table_vars, list, top
  <2>4. QED
    BY <2>2, <2>3 DEF Next
<1>2. QED
  BY LookupCorrect, <1>1, PTL DEF Spec, KeysAreForGood

\* A lookup takes effect in one step: it interns its string or changes nothing.
THEOREM LookupRefinesTable ==
  ASSUME Serialised
  PROVE  Spec => ImplementsStringTable
<1>1. Init => Strings!Init
  BY DEF Init, Strings!Init, Table, list, top
<1>2. LookupInv /\ [Next]_vars => [Strings!Next]_Table
  <2> SUFFICES ASSUME LookupInv, [Next]_vars PROVE [Strings!Next]_Table
    OBVIOUS
  <2> USE DEF LookupInv, TypeOK
  <2>1. ASSUME top' = top, \A k \in 0 .. top - 1 : list'[k] = list[k]
        PROVE  UNCHANGED Table
    BY <2>1 DEF Table
  <2>2. CASE UNCHANGED vars
    BY <2>1, <2>2 DEF vars, table_vars, list, top
  <2>3. CASE \E t \in Thread, s \in Text : Call(t, s)
    BY <2>1, <2>3 DEF Call, table_vars, list, top
  <2>4. ASSUME NEW t \in Thread, Step(t) PROVE [Strings!Next]_Table
    <3>1. CASE /\ pc[t] = "bump" /\ top' = top + 1 /\ list[top] = text[t]
               /\ UNCHANGED list
      <4>1. text[t] \in Text /\ \A k \in 0 .. top - 1 : list[k] # text[t]
        BY <3>1 DEF ThreadInv, Busy, New
      <4>2. Table' = Append(Table, text[t])
        BY <3>1 DEF Table
      <4>3. text[t] \notin Strings!Names(Table)
        BY <4>1 DEF Strings!Names, Table
      <4>4. QED
        BY <4>1, <4>2, <4>3 DEF Strings!Next, Strings!Intern
    <3>2. QED
      BY <2>1, <2>4, <3>1, VisibleStep
  <2>5. QED
    BY <2>2, <2>3, <2>4 DEF Next
<1>3. QED
  BY LookupCorrect, <1>1, <1>2, PTL DEF Spec, ImplementsStringTable, Strings!Spec

===============================================================================
