----------------------------- MODULE MCReadTasks -----------------------------
(* Small instances of the Read task service. *)
EXTENDS ReadTasks, TLC

CONSTANTS c1, c2, t1, t2, t3, r1, r2, r3, A, B, good, other, bad

MCFailures == {"timeout"}

Symmetry == Permutations(Callers) \cup Permutations(TaskIds) \cup Permutations(RequestIds)
===============================================================================
