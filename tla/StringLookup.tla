---------------------------- MODULE StringLookup ------------------------------
(***************************************************************************)
(* The string table of libkieker (monitoring/controller/kieker_lookup.c)   *)
(* and the announcement of a new string to the collector                   *)
(* (kieker_controller_send_string).  A serializer that writes a string     *)
(* field puts the key of the string into the record; the collector knows   *)
(* the key from the announcement sent when the string was first seen.      *)
(*                                                                         *)
(* A step is one access to the shared array, its two counters, the shared  *)
(* string buffer or the socket.  No lock protects any of them.             *)
(***************************************************************************)
EXTENDS Integers, Sequences

CONSTANTS
  Thread,        \* the threads that serialise records
  Text,          \* the strings they put into records
  NoText,        \* what an array cell holds that was never written
  TableInc,      \* KIEKER_LOOKUP_TABLE_INC, 1024 in the code
  Serialised,    \* TRUE: the program never runs two probes at a time
  WriteMayFail   \* TRUE: write() may return -1

ASSUME NoTextAssumption == NoText \notin Text
ASSUME TableIncAssumption == TableInc \in Nat \ {0}
ASSUME SwitchAssumption == Serialised \in BOOLEAN /\ WriteMayFail \in BOOLEAN

VARIABLES
  kieker_lookup_string_list,   \* the array: a function on 0 .. max - 1
  kieker_lookup_table_max,     \* cells allocated
  kieker_lookup_table_top,     \* cells in use
  string_buffer,               \* the announcement being written: id and text
  stream,                      \* the announcements the collector received
  lost,                        \* the announcements write() failed for
  text, i, at, pc              \* per thread: argument, loop index, store position

list == kieker_lookup_string_list
max == kieker_lookup_table_max
top == kieker_lookup_table_top

table_vars == <<kieker_lookup_string_list, kieker_lookup_table_max,
                kieker_lookup_table_top>>
wire_vars == <<string_buffer, stream, lost>>
vars == <<table_vars, wire_vars, text, i, at, pc>>

Goto(t, from, to) == pc[t] = from /\ pc' = [pc EXCEPT ![t] = to]

-----------------------------------------------------------------------------
(* kieker_lookup_find_key_by_string.                                        *)

\* A serializer asks for the key of s.
Call(t, s) ==
  /\ Serialised => \A u \in Thread : pc[u] = "idle"
  /\ Goto(t, "idle", "scan")
  /\ text' = [text EXCEPT ![t] = s]
  /\ i' = [i EXCEPT ![t] = 0]
  /\ UNCHANGED <<table_vars, wire_vars, at>>

\* Seeded bug: the loop ends one string early.
ScanSkipsLast(t) ==
  /\ pc[t] = "scan"
  /\ \/ i[t] < top - 1 /\ list[i[t]] = text[t]
        /\ Goto(t, "scan", "found") /\ UNCHANGED i
     \/ i[t] < top - 1 /\ list[i[t]] # text[t]
        /\ i' = [i EXCEPT ![t] = i[t] + 1] /\ UNCHANGED pc
     \/ i[t] >= top - 1
        /\ Goto(t, "scan", "grow") /\ UNCHANGED i
  /\ UNCHANGED <<table_vars, wire_vars, text, at>>

\* One round of the loop, or its end.
Scan(t) ==
  /\ pc[t] = "scan"
  /\ \/ i[t] < top /\ list[i[t]] = text[t]
        /\ Goto(t, "scan", "found") /\ UNCHANGED i
     \/ i[t] < top /\ list[i[t]] # text[t]
        /\ i' = [i EXCEPT ![t] = i[t] + 1] /\ UNCHANGED pc
     \/ i[t] >= top
        /\ Goto(t, "scan", "grow") /\ UNCHANGED i
  /\ UNCHANGED <<table_vars, wire_vars, text, at>>

-----------------------------------------------------------------------------
(* kieker_lookup_string_list_add_value.                                     *)

\* Seeded bug: the array grows one string late.
GrowLate(t) ==
  /\ Goto(t, "grow", "fill")
  /\ \/ top > max
        /\ kieker_lookup_table_max' = max + TableInc
        /\ kieker_lookup_string_list' =
             [k \in 0 .. max + TableInc - 1 |-> IF k < max THEN list[k] ELSE NoText]
     \/ top <= max /\ UNCHANGED <<kieker_lookup_table_max, kieker_lookup_string_list>>
  /\ UNCHANGED <<kieker_lookup_table_top, wire_vars, text, i, at>>

\* Seeded bug: the counter is raised without realloc.
GrowCounterOnly(t) ==
  /\ Goto(t, "grow", "fill")
  /\ \/ top = max /\ kieker_lookup_table_max' = max + TableInc
     \/ top # max /\ UNCHANGED kieker_lookup_table_max
  /\ UNCHANGED <<kieker_lookup_string_list, kieker_lookup_table_top, wire_vars, text, i, at>>

\* Seeded bug: a string that enlarges the array is stored without announcement.
GrowSkipsSend(t) ==
  /\ Goto(t, "grow", IF top = max THEN "store" ELSE "fill")
  /\ \/ top = max
        /\ kieker_lookup_table_max' = max + TableInc
        /\ kieker_lookup_string_list' =
             [k \in 0 .. max + TableInc - 1 |-> IF k < max THEN list[k] ELSE NoText]
     \/ top # max /\ UNCHANGED <<kieker_lookup_table_max, kieker_lookup_string_list>>
  /\ UNCHANGED <<kieker_lookup_table_top, wire_vars, text, i, at>>

\* The array is enlarged only when the counters meet; realloc keeps its cells.
Grow(t) ==
  /\ Goto(t, "grow", "fill")
  /\ \/ top = max
        /\ kieker_lookup_table_max' = max + TableInc
        /\ kieker_lookup_string_list' =
             [k \in 0 .. max + TableInc - 1 |-> IF k < max THEN list[k] ELSE NoText]
     \/ top # max /\ UNCHANGED <<kieker_lookup_table_max, kieker_lookup_string_list>>
  /\ UNCHANGED <<kieker_lookup_table_top, wire_vars, text, i, at>>

\* kieker_controller_send_string fills the shared buffer ...
Fill(t) ==
  /\ Goto(t, "fill", "write")
  /\ string_buffer' = [id |-> top, text |-> text[t]]
  /\ UNCHANGED <<table_vars, stream, lost, text, i, at>>

\* Seeded bug: a failed write is repeated by a caller that misread its result.
WriteTwice(t) ==
  /\ Goto(t, "write", "store")
  /\ \/ stream' = stream \o <<string_buffer, string_buffer>> /\ UNCHANGED lost
     \/ WriteMayFail /\ lost' = lost \cup {string_buffer} /\ UNCHANGED stream
  /\ UNCHANGED <<table_vars, string_buffer, text, i, at>>

\* ... and writes whatever is in it; a failure is noted, never repaired.
Write(t) ==
  /\ Goto(t, "write", "store")
  /\ \/ stream' = Append(stream, string_buffer) /\ UNCHANGED lost
     \/ WriteMayFail /\ lost' = lost \cup {string_buffer} /\ UNCHANGED stream
  /\ UNCHANGED <<table_vars, string_buffer, text, i, at>>

\* Seeded bug: the last string is overwritten.
StoreAtLast(t) ==
  /\ Goto(t, "store", "bump")
  /\ at' = [at EXCEPT ![t] = top]
  /\ kieker_lookup_string_list' = [list EXCEPT ![top - 1] = text[t]]
  /\ UNCHANGED <<kieker_lookup_table_max, kieker_lookup_table_top, wire_vars, text, i>>

\* The store of list[top++] = value; past the end of the array it corrupts
\* memory that is not modelled.
Store(t) ==
  /\ Goto(t, "store", "bump")
  /\ at' = [at EXCEPT ![t] = top]
  /\ kieker_lookup_string_list' = [list EXCEPT ![top] = text[t]]
  /\ UNCHANGED <<kieker_lookup_table_max, kieker_lookup_table_top, wire_vars, text, i>>

\* Seeded bug: the counter is incremented twice.
BumpTwice(t) ==
  /\ Goto(t, "bump", "added")
  /\ kieker_lookup_table_top' = at[t] + 2
  /\ UNCHANGED <<kieker_lookup_string_list, kieker_lookup_table_max, wire_vars, text, i, at>>

\* The increment of list[top++] = value.
Bump(t) ==
  /\ Goto(t, "bump", "added")
  /\ kieker_lookup_table_top' = at[t] + 1
  /\ UNCHANGED <<kieker_lookup_string_list, kieker_lookup_table_max, wire_vars, text, i, at>>

\* Seeded bug: the key of a new string is off by one.
KeyOfNext(t) == IF pc[t] = "found" THEN i[t] ELSE top

\* return i for a string found, return top - 1 for one just added.
KeyOf(t) == IF pc[t] = "found" THEN i[t] ELSE top - 1

Return(t) ==
  /\ pc[t] \in {"found", "added"}
  /\ pc' = [pc EXCEPT ![t] = "idle"]
  /\ text' = [text EXCEPT ![t] = NoText]
  /\ i' = [i EXCEPT ![t] = 0] /\ at' = [at EXCEPT ![t] = 0]
  /\ UNCHANGED <<table_vars, wire_vars>>

-----------------------------------------------------------------------------
Init ==
  /\ kieker_lookup_string_list = [k \in {} |-> NoText]
  /\ kieker_lookup_table_max = 0 /\ kieker_lookup_table_top = 0
  /\ string_buffer = [id |-> 0, text |-> NoText]
  /\ stream = <<>> /\ lost = {}
  /\ text = [t \in Thread |-> NoText]
  /\ i = [t \in Thread |-> 0] /\ at = [t \in Thread |-> 0]
  /\ pc = [t \in Thread |-> "idle"]

Step(t) ==
  Scan(t) \/ Grow(t) \/ Fill(t) \/ Write(t) \/ Store(t) \/ Bump(t) \/ Return(t)

Next == \E t \in Thread : Step(t) \/ \E s \in Text : Call(t, s)

Spec == Init /\ [][Next]_vars

-----------------------------------------------------------------------------
(* Properties.                                                              *)

Announcement == [id : Nat, text : Text \cup {NoText}]
Position == {"idle", "scan", "grow", "fill", "write", "store", "bump", "found", "added"}

\* The counters are non-negative and the array has exactly the allocated cells.
TypeOK ==
  /\ max \in Nat /\ top \in Nat
  /\ list \in [0 .. max - 1 -> Text \cup {NoText}]
  /\ string_buffer \in Announcement
  /\ stream \in Seq(Announcement)
  /\ lost \subseteq Announcement
  /\ text \in [Thread -> Text \cup {NoText}]
  /\ i \in [Thread -> Nat] /\ at \in [Thread -> Nat]
  /\ pc \in [Thread -> Position]

\* The "reverse lookup of keys by values" the comment promises: the key a call
\* returns is that of the string it was called with.
KeyNamesText ==
  \A t \in Thread : pc[t] \in {"found", "added"} =>
    KeyOf(t) \in 0 .. top - 1 /\ list[KeyOf(t)] = text[t]

\* A string has one key: the table never holds it twice.
OneKeyPerText ==
  \A j, k \in 0 .. top - 1 : list[j] = list[k] => j = k

\* The store of a new string lands inside the array, at every multiple of the
\* increment as well.
StoreInBounds == \A t \in Thread : pc[t] = "store" => top < max

\* What was announced is what the table holds, or is about to hold: no record can
\* be decoded with the wrong string, not even after failed writes.
AnnouncedAsStored ==
  \A n \in DOMAIN stream :
    \/ stream[n].id < top /\ list[stream[n].id] = stream[n].text
    \/ \E t \in Thread : /\ pc[t] \in {"store", "bump"}
                         /\ stream[n] = [id |-> top, text |-> text[t]]

\* A key is announced before a record can use it, unless the write failed; then
\* it never is, because the string is found in the table from then on.
AnnouncedOrLost ==
  \A k \in 0 .. top - 1 :
    \/ \E n \in DOMAIN stream : stream[n] = [id |-> k, text |-> list[k]]
    \/ [id |-> k, text |-> list[k]] \in lost

\* No string is announced twice, nor after its announcement was lost.
AnnouncedOnce ==
  /\ \A m, n \in DOMAIN stream : stream[m].id = stream[n].id => m = n
  /\ \A n \in DOMAIN stream : stream[n] \notin lost

\* The keys of the table are for good: cells in use never change, keys are dense.
KeysAreForGood ==
  [][top' >= top /\ \A k \in 0 .. top - 1 : list'[k] = list[k]]_vars

\* The table as its callers see it.
Table == [n \in 1 .. top |-> list[n - 1]]
Strings == INSTANCE StringTable WITH table <- Table

\* A call of kieker_lookup_find_key_by_string takes effect in one step.
ImplementsStringTable == Strings!Spec

-----------------------------------------------------------------------------
(* The inductive invariant of a table used by one thread at a time.         *)

Busy(t) == pc[t] # "idle"
New(t) == pc[t] \in {"grow", "fill", "write", "store", "bump"}

\* What the running thread knows at each of its steps.
ThreadInv(t) ==
  /\ Busy(t) => text[t] \in Text
  /\ pc[t] = "scan" => i[t] <= top /\ \A k \in 0 .. i[t] - 1 : list[k] # text[t]
  /\ New(t) => \A k \in 0 .. top - 1 : list[k] # text[t]
  /\ pc[t] \in {"fill", "write", "store", "bump"} => top < max
  /\ pc[t] = "write" => string_buffer = [id |-> top, text |-> text[t]]
  /\ pc[t] = "bump" => at[t] = top /\ list[top] = text[t]
  /\ pc[t] = "found" => i[t] < top /\ list[i[t]] = text[t]
  /\ pc[t] = "added" => top > 0 /\ list[top - 1] = text[t]

Announced == {stream[n] : n \in DOMAIN stream}

\* Where an announcement is before its string is in the table: a key was drawn by at
\* most one announcement, made or lost, and one for each string that has it.
AnnouncementInv ==
  /\ \A e \in lost :
       e.id < top \/ \E t \in Thread : pc[t] \in {"store", "bump"} /\ e.id = top
  /\ \A t \in Thread : pc[t] \in {"store", "bump"} =>
       [id |-> top, text |-> text[t]] \in Announced \cup lost
  /\ \A n \in DOMAIN stream, e \in lost : stream[n].id # e.id
  /\ AnnouncedOrLost /\ AnnouncedOnce

\* The invariant the proofs about the table rest on.
LookupInv ==
  /\ TypeOK
  /\ \A t, u \in Thread : Busy(t) /\ Busy(u) => t = u
  /\ \A t \in Thread : ThreadInv(t)
  /\ top <= max
  /\ OneKeyPerText
  /\ AnnouncedAsStored
  /\ AnnouncementInv
===============================================================================
