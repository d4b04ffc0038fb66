------------------------------ MODULE MCBudmm -------------------------------
(* Model-checking instances of Budmm. *)
EXTENDS Budmm

(* Nothing is claimed once a list is harmed: such states are not continued.  *)
StillIntact == harm # "lists"
=============================================================================
