-------------------------- MODULE AdaptiveMonitoring --------------------------
(***************************************************************************)
(* The list of classes an instrumented program excludes from monitoring,   *)
(* or of the only ones it includes (monitoring/controller/                 *)
(* kieker_adaptive_monitoring.c with the string utilities it uses): the    *)
(* loader that reads the list from a file line by line into an array of    *)
(* hashes of fixed size, sorts it and looks for equal hashes, and the      *)
(* binary search that answers whether a class is excluded.                 *)
(***************************************************************************)
EXTENDS Integers, Sequences, FiniteSets, Functions

CONSTANTS
  Class,      \* class signatures, of the program and in files
  Hash,       \* Hash[white, text]: kieker_adaptive_hash of a line
  MaxHashes,  \* MAX_NUM_FILES, 200 in the code
  Files       \* what the file may hold

\* A line is a text, possibly behind white space.  White space at its end is left
\* out: kieker_string_rtrim removes it in place.
Comment == "#"
Blank == ""
Line == [white : BOOLEAN, text : Class \cup {Comment, Blank}]

\* The first line, with the white space around it and the newline at its end.
Header ==
  [text : {"EXCLUDE", "INCLUDE", Blank}, white : BOOLEAN, behind : BOOLEAN, newline : BOOLEAN]

Content == [kind : {"absent", "empty", "list"}, header : Header, lines : Seq(Line)]

ASSUME HashAssumption == Hash \in [BOOLEAN \X (Class \cup {Comment}) -> Nat]
ASSUME CapacityAssumption == MaxHashes \in Nat
ASSUME FilesAssumption == \A f \in Files : f \in Content

VARIABLES
  file,           \* the file, forgotten when it is no longer needed
  load,           \* where the loader is
  line,           \* the number of lines read behind the header
  i,              \* the local variable i
  result,         \* what the loader returned
  hashes,         \* kieker_adaptive_function_hashes, and the word behind it
  excludes_size,  \* kieker_adaptive_excludes_size
  mode            \* kieker_adaptive_mode

loader_vars == <<file, load, line, i, result>>
table_vars == <<hashes, excludes_size, mode>>
adaptive_vars == <<loader_vars, table_vars>>

-----------------------------------------------------------------------------
(* kieker_adaptive_load_exclude_file.                                       *)

Returns(r) == load' = "loaded" /\ result' = r

NoContent ==
  [kind |-> "absent", lines |-> <<>>,
   header |-> [text |-> Blank, white |-> FALSE, behind |-> FALSE, newline |-> FALSE]]

\* The header as strcmp sees it.  Its end is trimmed only if there is a newline, and
\* its start never: the result of kieker_string_trim is not used.
HeaderText(h) == IF h.white \/ (h.behind /\ ~h.newline) THEN Blank ELSE h.text

\* fopen and the first line.
OpenList ==
  /\ load = "open"
  /\ \/ file.kind = "absent" /\ Returns(-1) /\ UNCHANGED mode
     \/ file.kind = "empty" /\ Returns(-2) /\ UNCHANGED mode
     \/ /\ file.kind = "list" /\ HeaderText(file.header) = Blank
        /\ Returns(-3) /\ UNCHANGED mode
     \/ /\ file.kind = "list" /\ HeaderText(file.header) # Blank
        /\ mode' = IF HeaderText(file.header) = "EXCLUDE" THEN 1 ELSE 0
        /\ load' = "read" /\ UNCHANGED result
  /\ UNCHANGED <<file, line, i, hashes, excludes_size>>

\* A line counts unless it is empty or # is its very first character.
IsEntry(l) == l.text # Blank /\ (l.white \/ l.text # Comment)

\* Seeded bug: the last place of the array is not used.
ReadLineEarly ==
  /\ load = "read" /\ line < Len(file.lines)
  /\ line' = line + 1
  /\ LET l == file.lines[line + 1]
     IN  IF IsEntry(l)
         THEN /\ hashes' = [hashes EXCEPT ![i] = Hash[<<l.white, l.text>>]]
              /\ i' = i + 1
              /\ IF i' >= MaxHashes THEN Returns(-4) ELSE UNCHANGED <<load, result>>
         ELSE UNCHANGED <<hashes, i, load, result>>
  /\ UNCHANGED <<file, excludes_size, mode>>

\* Seeded bug: the limit is never tested.
ReadLineUnbounded ==
  /\ load = "read" /\ line < Len(file.lines)
  /\ line' = line + 1
  /\ LET l == file.lines[line + 1]
     IN  IF IsEntry(l)
         THEN /\ hashes' = [hashes EXCEPT ![i] = Hash[<<l.white, l.text>>]]
              /\ i' = i + 1
         ELSE UNCHANGED <<hashes, i>>
  /\ UNCHANGED <<file, load, result, excludes_size, mode>>

\* One round of the loop: the hash is stored before i is compared with the limit.
ReadLine ==
  /\ load = "read" /\ line < Len(file.lines)
  /\ line' = line + 1
  /\ LET l == file.lines[line + 1]
     IN  IF IsEntry(l)
         THEN /\ hashes' = [hashes EXCEPT ![i] = Hash[<<l.white, l.text>>]]
              /\ i' = i + 1
              /\ IF i' > MaxHashes THEN Returns(-4) ELSE UNCHANGED <<load, result>>
         ELSE UNCHANGED <<hashes, i, load, result>>
  /\ UNCHANGED <<file, excludes_size, mode>>

\* qsort of the first n cells: from where each of them gets its value.
Cells(n) == 0 .. n - 1
Ascending(h, n) ==
  CHOOSE p \in Bijection(Cells(n), Cells(n)) : \A k \in 1 .. n - 1 : h[p[k - 1]] <= h[p[k]]
Sorted(h, n) == [k \in DOMAIN h |-> IF k < n THEN h[Ascending(h, n)[k]] ELSE h[k]]

HasTwins(h, n) == \E k \in 0 .. n - 2 : h[k] = h[k + 1]

\* Seeded bug: the hashes are searched for equals and not sorted.
FinishListUnsorted ==
  /\ load = "read" /\ line = Len(file.lines)
  /\ excludes_size' = i
  /\ Returns(IF HasTwins(hashes, i) THEN -5 ELSE 0)
  /\ UNCHANGED <<file, line, i, hashes, mode>>

\* The end of the file.
FinishList ==
  /\ load = "read" /\ line = Len(file.lines)
  /\ excludes_size' = i
  /\ hashes' = Sorted(hashes, i)
  /\ Returns(IF HasTwins(Sorted(hashes, i), i) THEN -5 ELSE 0)
  /\ UNCHANGED <<file, line, i, mode>>

-----------------------------------------------------------------------------
(* kieker_adaptive_is_class_excluded.                                       *)

\* bsearch among the first excludes_size hashes.
Search(h) ==
  LET found[range \in (0 .. excludes_size) \X (0 .. excludes_size)] ==
        LET low == range[1]
            high == range[2]
            middle == (low + high) \div 2
        IN  /\ low < high
            /\ \/ h = hashes[middle]
               \/ h < hashes[middle] /\ found[<<low, middle>>]
               \/ h > hashes[middle] /\ found[<<middle + 1, high>>]
  IN  found[<<0, excludes_size>>]

Excluded(class) ==
  LET found == Search(Hash[<<FALSE, class>>])
  IN  (found /\ mode = 1) \/ (~found /\ mode = 0)

-----------------------------------------------------------------------------
AdaptiveInit ==
  /\ load = "open" /\ line = 0 /\ i = 0 /\ result = 0
  /\ hashes = [k \in 0 .. MaxHashes |-> 0]
  /\ excludes_size = 0 /\ mode = 0

LoaderStep == OpenList \/ ReadLine \/ FinishList

-----------------------------------------------------------------------------
(* Properties.                                                              *)

Entries == {n \in DOMAIN file.lines : IsEntry(file.lines[n])}
HashOf(n) == Hash[<<file.lines[n].white, file.lines[n].text>>]

\* The loader accepts a list if and only if it has a header, fits the array, and has
\* no two entries with one hash; its negative results tell the reasons apart.  Of the
\* result of success the property says what the event aspect tests, that it is not
\* negative: the comment of the loader promises true, and the code returns 0.
LoadsWhatFits ==
  load = "loaded" =>
    CASE file.kind = "absent" -> result = -1
      [] file.kind = "empty" -> result = -2
      [] file.kind = "list" /\ HeaderText(file.header) = Blank -> result = -3
      [] OTHER ->
           IF Cardinality(Entries) > MaxHashes THEN result = -4
           ELSE IF \E m, n \in Entries : m # n /\ HashOf(m) = HashOf(n) THEN result = -5
           ELSE result >= 0

\* After a successful load a class is excluded if the list is one to exclude and has
\* an entry of its hash, or if it is one to include and has none.
AnswersAsListed ==
  load = "loaded" /\ result = 0 =>
    \A class \in Class :
      Excluded(class) <=>
        (file.header.text = "EXCLUDE" <=> \E n \in Entries : HashOf(n) = Hash[<<FALSE, class>>])

\* At most one hash is stored behind the array, and then the load ends with an error:
\* qsort and bsearch never leave the array.
AdaptiveInv ==
  /\ load \in {"open", "read", "loaded", "done"}
  /\ DOMAIN hashes = 0 .. MaxHashes
  /\ i \in 0 .. MaxHashes + 1 /\ excludes_size \in 0 .. MaxHashes
  /\ i > MaxHashes => load = "loaded" /\ result = -4
  /\ hashes[MaxHashes] # 0 => load = "loaded" /\ result = -4

HeaderMode == IF file.header.text = "EXCLUDE" THEN 1 ELSE 0

\* While the list is read, the array holds the hash of each entry read so far; after a
\* successful load that of each entry, in ascending order and none twice.
ListInv ==
  /\ load # "done" => file \in Content /\ line \in 0 .. Len(file.lines)
  /\ load = "open" => line = 0 /\ i = 0
  /\ load = "read" =>
       /\ file.kind = "list" /\ HeaderText(file.header) # Blank /\ mode = HeaderMode
       /\ \E entry \in Bijection(Cells(i), {n \in Entries : n <= line}) :
            \A k \in Cells(i) : hashes[k] = HashOf(entry[k])
  /\ LoadsWhatFits
  /\ load = "loaded" /\ result = 0 =>
       /\ mode = HeaderMode
       /\ {hashes[k] : k \in Cells(excludes_size)} = {HashOf(n) : n \in Entries}
       /\ \A k \in 1 .. excludes_size - 1 : hashes[k - 1] < hashes[k]
=============================================================================
