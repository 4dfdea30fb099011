------------------------------ MODULE StringTable -----------------------------
(***************************************************************************)
(* What the string table of libkieker promises to the serializers: a list  *)
(* that only grows at its end and holds every string once, so that the     *)
(* position of a string is its key for the rest of the run.  StringLookup  *)
(* implements this with a linear scan and a reallocated array.             *)
(***************************************************************************)
EXTENDS Naturals, Sequences

CONSTANT Text    \* the strings a program passes to the serializers

VARIABLE table   \* table[k + 1] is the string with key k

Names(seq) == {seq[n] : n \in DOMAIN seq}

TypeOK == table \in Seq(Text)

Init == table = <<>>

\* kieker_lookup_find_key_by_string for a string it has not seen.
Intern(s) ==
  /\ s \notin Names(table)
  /\ table' = Append(table, s)

Next == \E s \in Text : Intern(s)

Spec == Init /\ [][Next]_table
===============================================================================
