-------------------------- MODULE MCThreadCounter --------------------------
(* Model-checking instance of ThreadCounter. *)
EXTENDS ThreadCounter

CONSTANTS t1, t2, t3

MCThreads == {t1, t2, t3}
=============================================================================
