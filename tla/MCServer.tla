----------------------------- MODULE MCServer -----------------------------
(* Model-checking instances of Server. *)
EXTENDS Server, TLC

CONSTANTS c1, c2, h1, h2

Conns1 == {c1}
Conns2 == {c1, c2}
Handles1 == {h1}
Handles2 == {h1, h2}
Symmetry == Permutations(Conns2) \cup Permutations(Handles2)
=============================================================================
