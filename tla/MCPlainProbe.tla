----------------------------- MODULE MCPlainProbe -----------------------------
(* Instances of PlainProbe for TLC. *)
EXTENDS PlainProbe, TLC

CONSTANTS t1, t2, o1, o2

Addresses == Permutations(Obj)

OwnKeys == [t \in Thread |-> IF t = t1 THEN 11 ELSE 12]
===============================================================================
