------------------------------- MODULE MCWire -------------------------------
(* Model-checking instance of Wire: the two threads that send to a client. *)
EXTENDS Wire

CONSTANTS service, delivery, ack, message

MCWriters == {service, delivery}
MCTypes == {ack, message}
=============================================================================
