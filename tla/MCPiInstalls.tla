----------------------------- MODULE MCPiInstalls -----------------------------
(* Small instances of the Pi supply. *)
EXTENDS PiInstalls

CONSTANTS c1, c2, k1, k2, i1, i2, i3

Symmetry == Permutations(Users) \cup Permutations(Publishers) \cup Permutations(Installs) \cup Permutations(Cleaners)
===============================================================================
