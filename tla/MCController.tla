----------------------------- MODULE MCController -----------------------------
(* Settings of Controller for TLC. *)
EXTENDS Controller

\* A program without aspects; the collector is there or not, and may go away.
PlainProgram ==
  [outcomes |-> {"connected", "refused", "no_socket"}, may_lack_name |-> FALSE,
   may_lack_atexit |-> FALSE, may_break |-> TRUE, aspects |-> FALSE]

\* The same with every outcome of a connection, and with every other failure as well.
AnyOutcome == [PlainProgram EXCEPT !.outcomes = Outcome, !.may_break = FALSE]
AnyFailure == [AnyOutcome EXCEPT !.may_lack_name = TRUE, !.may_lack_atexit = TRUE]

\* A program with aspects, and every way an initialisation can go wrong.
Aspects == [AnyFailure EXCEPT !.aspects = TRUE]

EverySetting == {PlainProgram, AnyOutcome, AnyFailure, Aspects}

UnknownHost == {[PlainProgram EXCEPT !.outcomes = {"unknown_host"}]}

AlwaysConnected == {[PlainProgram EXCEPT !.outcomes = {"connected"}]}
===============================================================================
