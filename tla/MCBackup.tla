------------------------------ MODULE MCBackup -------------------------------
(* A few backup jobs for TLC. *)
EXTENDS Backup, TLC

CONSTANTS j1, j2, f1, f2, f3, r1, r2, r3

LockedOps == {"create", "restore"}
CatalogueOps == {"create", "restore", "delete"}
CopyOps == {"create", "reindex"}

Symmetric == Permutations(Jobs) \cup Permutations(Files) \cup Permutations(Rows)

=============================================================================
