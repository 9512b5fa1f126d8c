--------------------------- MODULE MCScreeningTasks ---------------------------
(* Small instances of the screening task service. *)
EXTENDS ScreeningTasks, TLC

CONSTANTS c1, c2, t1, t2, t3, r1, r2, A, B, good, other, bad

MCOnce == <<A>>
\* The text changes once.
MCChanging == <<A, B>>
MCVerdict == (good :> "accept") @@ (other :> "accept") @@ (bad :> "output_invalid")
MCGoodOnly == (good :> "accept")
MCReports == {"executor_error"}

Symmetry == Permutations(Callers) \cup Permutations(TaskIds) \cup Permutations(RequestIds)
===============================================================================
