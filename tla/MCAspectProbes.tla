---------------------------- MODULE MCAspectProbes ----------------------------
(* Instances of AspectProbes for TLC. *)
EXTENDS AspectProbes

CONSTANTS t1, t2

\* Class "c" has the hash of class "a", and of no other text.
MCHash ==
  [x \in BOOLEAN \X {"a", "b", "c", Comment} |->
     CASE x[2] = "b" -> IF x[1] THEN 9 ELSE 3
       [] x[2] = Comment -> 7
       [] OTHER -> IF x[1] THEN 8 ELSE 5]

Threads == Permutations(Thread)

Lines == {[white |-> FALSE, text |-> x] : x \in {"a", "b", "c", Comment, Blank}}
           \cup {[white |-> TRUE, text |-> Comment]}

Plain(text) == [text |-> text, white |-> FALSE, behind |-> FALSE, newline |-> TRUE]

MCFiles ==
  {[kind |-> "list", header |-> Plain(h), lines |-> l] :
     h \in {"EXCLUDE", "INCLUDE"}, l \in UNION {[1 .. n -> Lines] : n \in 0 .. 4}}
  \cup {[kind |-> k, header |-> h, lines |-> <<>>] : k \in {"absent", "empty", "list"}, h \in Header}
===============================================================================
