----------------------------- MODULE MCMailbox -----------------------------
(* Model-checking instance of Mailbox. *)
EXTENDS Mailbox

CONSTANTS s1, s2

MCSenders == {s1, s2}
=============================================================================
