------------------------------ MODULE WireFormat ------------------------------
(***************************************************************************)
(* The bytes libkieker sends.  One thread writes records into the send     *)
(* buffer with the serializers of common/record, field by field, with the  *)
(* functions of common/utilities/kieker_serialize.c, and sends them.  A    *)
(* string that is new is announced at once by a write of its own, in the   *)
(* middle of the record that needs it.  A collector that knows nothing but *)
(* the record types reads the stream.                                      *)
(*                                                                         *)
(* The host is little-endian with a long of 64 bits.  A byte has Base      *)
(* values; every other width is that of the code.  Two threads in the      *)
(* buffer are the subject of PlainProbe, not of this module.               *)
(***************************************************************************)
EXTENDS Integers, Sequences, FiniteSets, SequencesExt, RecordSchemas

CONSTANTS
  Base,              \* the number of values of a byte
  BufferSize,        \* bytes in kieker_controller.buffer
  StringBufferSize,  \* bytes in kieker_controller.string_buffer
  TypeNames,         \* the names of the two record types in use, as strings of bytes
  Samples,           \* per kind of field: a sequence of values fields take
  Variants,          \* which samples a record has: bounds the inputs
  MaxRecords         \* bound on the records of a run

ASSUME BaseAssumption == Base \in Nat /\ Base > 1 /\ Base % 2 = 0
ASSUME WireBoundsAssumption == BufferSize \in Nat /\ MaxRecords \in Nat /\ Variants \subseteq Nat

VARIABLES
  types,      \* the schemas of the record types 0 and 1
  table,      \* the string table of kieker_lookup.c
  buffer,     \* the send buffer
  position,   \* the local variable position of probe and serializer
  record,     \* the record being written: type, values, next field to write
  stream,     \* all bytes given to write(), in order
  sent        \* history: the records handed to the library, as a reader should see them

vars == <<types, table, buffer, position, record, stream, sent>>

-----------------------------------------------------------------------------
(* Bytes.                                                                   *)

Byte == 0 .. Base - 1

\* The number of values of n bytes, of which a number has eight at most.
Power[n \in 0 .. 8] == IF n = 0 THEN 1 ELSE Power[n - 1] * Base

\* The n low bytes of a two's complement number, highest first.
BigEndian(v, n) == [k \in 1 .. n |-> (v \div Power[n - k]) % Base]

Unsigned(bytes) ==
  LET sum[k \in 0 .. Len(bytes)] == IF k = 0 THEN 0 ELSE sum[k - 1] * Base + bytes[k]
  IN  sum[Len(bytes)]

\* A number of four or eight bytes.
Signed(bytes) ==
  IF bytes[1] < Base \div 2 THEN Unsigned(bytes) ELSE Unsigned(bytes) - Power[Len(bytes)]

\* What a C integer of n bytes holds of v: two's complement, modulo Power[n].
Half(n) == Power[n] \div 2
Wrapped(v, n) == ((v + Half(n)) % Power[n]) - Half(n)

Long == -Half(8) .. Half(8) - 1

-----------------------------------------------------------------------------
(* The values records take.                                                 *)

ASSUME SamplesAssumption ==
  /\ \A kind \in {Boolean, Int32, Int64, Double, Text} : Samples[kind] # <<>>
  /\ Samples[Boolean] \in Seq(Byte) /\ Samples[Double] \in Seq(Nat)
  /\ Samples[Int32] \in Seq(Long) /\ Samples[Int64] \in Seq(Long)

\* The strings: the names of the two types, which differ, and texts of records.
Texts == ToSet(TypeNames) \cup ToSet(Samples[Text])

ASSUME TextsAssumption ==
  /\ TypeNames \in Seq(Seq(Byte)) /\ Samples[Text] \in Seq(Seq(Byte))
  /\ Len(TypeNames) = 2 /\ TypeNames[1] # TypeNames[2]
  /\ \A s \in Texts : Len(s) < Half(4)
  /\ Cardinality(Texts) =< Half(4)

-----------------------------------------------------------------------------
(* The functions of kieker_serialize.c: the bytes they copy to the buffer   *)
(* and the number they return, which their caller adds to the position.     *)

Copied(bytes, size) == [bytes |-> bytes, returns |-> size]

\* Seeded bugs: bytes in the order of the host; a copy of the whole long.
LittleEndian64(v) == Copied([k \in 1 .. 8 |-> BigEndian(v, 8)[9 - k]], 8)
WholeLong(v) == Copied(BigEndian(v, 4) \o BigEndian(0, 4), 4)

kieker_serialize_boolean(v) == Copied(<<v>>, 1)

\* htonl cuts the long to 32 bits and swaps those; four bytes are copied.
kieker_serialize_int32(v) == Copied(BigEndian(v, 4), 4)

\* bswap_64, then all eight bytes.
kieker_serialize_int64(v) == Copied(BigEndian(v, 8), 8)

\* bswap_64 takes an integer, so the compiler converts the double first.  A double
\* is given by the number of its halves here; records hold no negative ones.
kieker_serialize_double(v) == kieker_serialize_int64(v \div 2)

\* kieker_lookup_find_key_by_string, on a table that only grows.
Intern(tab, s) == IF s \in ToSet(tab) THEN tab ELSE Append(tab, s)
KeyIn(tab, s) == CHOOSE k \in 0 .. Len(tab) - 1 : tab[k + 1] = s
kieker_serialize_string(s, tab) == Copied(BigEndian(KeyIn(tab, s), 4), 4)

Serialize(kind, v, tab) ==
  CASE kind = Boolean -> kieker_serialize_boolean(v)
    [] kind = Int32 -> kieker_serialize_int32(v)
    [] kind = Int64 -> kieker_serialize_int64(v)
    [] kind = Double -> kieker_serialize_double(v)
    [] kind = Text -> kieker_serialize_string(v, tab)

\* memcpy to offset at.
Put(at, bytes) ==
  [k \in DOMAIN buffer |-> IF k \in at .. at + Len(bytes) - 1 THEN bytes[k - at + 1] ELSE buffer[k]]

\* An announcement is put together in string_buffer, whose end no code checks.
ASSUME StringRoomAssumption ==
  StringBufferSize \in Nat /\ \A s \in Texts : 12 + Len(s) =< StringBufferSize

\* kieker_controller_send_string, once for each string new in tab.
Announcement(k, s) == BigEndian(-1, 4) \o BigEndian(k, 4) \o BigEndian(Len(s), 4) \o s
Announcements(tab) ==
  LET said[n \in 0 .. Len(tab) - Len(table)] ==
        IF n = 0 THEN <<>>
        ELSE said[n - 1] \o Announcement(Len(table) + n - 1, tab[Len(table) + n])
  IN  said[Len(tab) - Len(table)]

Announce(tab) == table' = tab /\ stream' = stream \o Announcements(tab)

-----------------------------------------------------------------------------
(* Writing records.                                                         *)

NoRecord == [type |-> 0, values |-> <<>>, next |-> 1]
Registered == table # <<>>
Writing == record # NoRecord

\* kieker_controller_register_event_types: the names are announced as they are
\* serialised to the buffer, whose contents nobody uses.
Register ==
  /\ ~Registered
  /\ LET tab == Intern(Intern(table, TypeNames[1]), TypeNames[2])
     IN  /\ Announce(tab)
         /\ buffer' = Put(0, kieker_serialize_string(TypeNames[1], tab).bytes
                              \o kieker_serialize_string(TypeNames[2], tab).bytes)
  /\ UNCHANGED <<types, position, record, sent>>

Sample(kind, n) == Samples[kind][(n % Len(Samples[kind])) + 1]

\* What a reader should get of a field: an integer modulo its width, a string.
\* Of a double nothing is said here but that it takes its eight bytes.
Carried(kind, v) ==
  CASE kind = Int32 -> Wrapped(v, 4) [] kind = Int64 -> Wrapped(v, 8)
    [] kind = Double -> "a double" [] OTHER -> v

\* kieker_controller_prefix_serialize: the id of the type and the time.
Prefix(type, variant) ==
  /\ Registered /\ ~Writing /\ Len(sent) < MaxRecords
  /\ LET schema == types[type + 1]
         time == Sample(Int64, variant)
         values == [i \in DOMAIN schema |-> Sample(schema[i], i + variant)]
         id == kieker_serialize_int32(type)
         stamp == kieker_serialize_int64(time)
     IN  /\ buffer' = Put(position, id.bytes \o stamp.bytes)
         /\ position' = position + id.returns + stamp.returns
         /\ record' = [type |-> type, values |-> values, next |-> 1]
         /\ sent' = Append(sent, [type |-> type, time |-> time,
                                  values |-> [i \in DOMAIN schema |-> Carried(schema[i], values[i])]])
  /\ UNCHANGED <<types, table, stream>>

\* One call of the serializer of the record.
Field ==
  LET schema == types[record.type + 1]
      n == record.next
      value == record.values[n]
      tab == IF schema[n] = Text THEN Intern(table, value) ELSE table
      done == Serialize(schema[n], value, tab)
  IN  /\ Writing /\ n =< Len(schema)
      /\ Announce(tab)
      /\ buffer' = Put(position, done.bytes)
      /\ position' = position + done.returns
      /\ record' = [record EXCEPT !.next = n + 1]
      /\ UNCHANGED <<types, sent>>

\* The serializer returns the position; the probe may append another record.
Finish ==
  /\ Writing /\ record.next > Len(types[record.type + 1])
  /\ record' = NoRecord
  /\ UNCHANGED <<types, table, buffer, position, stream, sent>>

\* kieker_controller_send(position).
Send ==
  /\ ~Writing /\ position > 0
  /\ stream' = stream \o [k \in 1 .. position |-> buffer[k - 1]]
  /\ position' = 0
  /\ UNCHANGED <<types, table, buffer, record, sent>>

AllSent == Len(sent) = MaxRecords /\ position = 0 /\ UNCHANGED vars

Uninitialised == -1

Init ==
  /\ types \in {<<TraceMetadata, schema>> : schema \in Schemas}
  /\ table = <<>> /\ stream = <<>> /\ sent = <<>>
  /\ buffer = [k \in 0 .. BufferSize - 1 |-> Uninitialised]
  /\ position = 0 /\ record = NoRecord

Next ==
  \/ Register \/ Field \/ Finish \/ Send \/ AllSent
  \/ \E type \in {0, 1}, variant \in Variants : Prefix(type, variant)

Spec == Init /\ [][Next]_vars

-----------------------------------------------------------------------------
(* The collector.                                                           *)

Width(kind) ==
  CASE kind = Boolean -> 1 [] kind \in {Int32, Text} -> 4 [] kind \in {Int64, Double} -> 8

TextOf(k, known) == IF k + 1 \in DOMAIN known THEN known[k + 1] ELSE "unknown"

ValueOf(kind, bytes, known) ==
  CASE kind = Text -> TextOf(Signed(bytes), known)
    [] kind = Double -> "a double"
    [] kind = Boolean -> bytes[1]
    [] OTHER -> Signed(bytes)

\* The last byte of each field, and before the first one that of the prefix.
Ends(schema) ==
  LET end[i \in 0 .. Len(schema)] == IF i = 0 THEN 12 ELSE end[i - 1] + Width(schema[i])
  IN  end

TypeOf(id, known) ==
  IF \E t \in {0, 1} : TypeNames[t + 1] = TextOf(id, known)
  THEN CHOOSE t \in {0, 1} : TypeNames[t + 1] = TextOf(id, known) ELSE -1

\* An announcement and the prefix of a record have twelve bytes each; -1 tells them apart.
Number(bytes, from, to) == Signed(SubSeq(bytes, from, to))
HasPrefix(bytes) == Len(bytes) >= 12

StringEnd(bytes) == 12 + Number(bytes, 9, 12)
StartsWithString(bytes, known) ==
  /\ HasPrefix(bytes) /\ Number(bytes, 1, 4) = -1
  /\ Number(bytes, 5, 8) = Len(known) /\ StringEnd(bytes) \in 12 .. Len(bytes)

TypeAt(bytes, known) == TypeOf(Number(bytes, 1, 4), known)
RecordEnd(schema) == Ends(schema)[Len(schema)]
StartsWithRecord(schemas, bytes, known) ==
  /\ HasPrefix(bytes) /\ Number(bytes, 1, 4) # -1 /\ TypeAt(bytes, known) # -1
  /\ RecordEnd(schemas[TypeAt(bytes, known) + 1]) =< Len(bytes)

FieldAt(bytes, schema, i, known) ==
  ValueOf(schema[i], SubSeq(bytes, Ends(schema)[i - 1] + 1, Ends(schema)[i]), known)

RecordAt(schemas, bytes, known) ==
  LET schema == schemas[TypeAt(bytes, known) + 1]
  IN  [type |-> TypeAt(bytes, known), time |-> Number(bytes, 5, 12),
       values |-> [i \in DOMAIN schema |-> FieldAt(bytes, schema, i, known)]]

Rest(bytes, end) == SubSeq(bytes, end + 1, Len(bytes))

\* The records in a stream, read with the strings known so far.
Read(schemas, bytes, known) ==
  LET read[p \in Seq(Int) \X Seq(Seq(Int))] ==
        IF p[1] = <<>> THEN <<>>
        ELSE IF StartsWithString(p[1], p[2])
        THEN read[<<Rest(p[1], StringEnd(p[1])),
                    Append(p[2], SubSeq(p[1], 13, StringEnd(p[1])))>>]
        ELSE IF StartsWithRecord(schemas, p[1], p[2])
        THEN <<RecordAt(schemas, p[1], p[2])>>
               \o read[<<Rest(p[1], RecordEnd(schemas[TypeAt(p[1], p[2]) + 1])), p[2]>>]
        ELSE <<"garbage">>
  IN  read[<<bytes, known>>]

\* The buffer has room for the records of a run, which no code checks.
ASSUME RoomAssumption ==
  \E size \in 0 .. BufferSize :
    (\A schema \in Schemas : RecordEnd(schema) =< size) /\ size * MaxRecords =< BufferSize

-----------------------------------------------------------------------------
(* Properties.                                                              *)

\* Once the buffer is sent the collector reads from the stream the records that
\* were written, each value as it was and each string as the text it stood for:
\* no record is cut wrongly, no key is used before it was announced, and nothing a
\* former record left in the buffer is read (kieker_serialize.c, all serializers,
\* kieker_controller_prefix_serialize, _send and _send_string together).
StreamReadsBack ==
  ~Writing /\ position = 0 => Read(types, stream, <<>>) = sent

\* A call writes the bytes between the old and the new position and no others: a
\* record already in the buffer, and what lies behind, stay as they are.
WritesItsSpan ==
  [][Registered => \A k \in DOMAIN buffer :
       buffer'[k] # buffer[k] => position =< k /\ k < position']_vars

===============================================================================
