---------------------------- MODULE MCStringLookup ----------------------------
(* Instances of StringLookup for TLC. *)
EXTENDS StringLookup

CONSTANTS t1, t2, a, b, c, d
===============================================================================
