------------------------------- MODULE MCBackup -------------------------------
(* Small instances of the artifact store with backups and restores. *)
EXTENDS Backup, TLC

CONSTANTS p1, p2, w1, x, y, s1, a1, a2, d1, d2, e1

MCOneShard == [b \in Blobs |-> s1]
MCShared == (a1 :> <<x, y>>) @@ (a2 :> <<x>>)
MCPair == (a1 :> <<x, y>>)
MCSingle == (a1 :> <<x>>)

Symmetry == Permutations(Publishers)
===============================================================================
