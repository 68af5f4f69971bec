----------------------------- MODULE MCAuditLog -----------------------------
(* Small instances of the audit log. *)
EXTENDS AuditLog, TLC

\* Operations are told apart by nothing but their names, and processes by
\* whether they may re-anchor.
Interchangeable == Permutations(Ops) \cup Permutations(Procs \ Operators)
=============================================================================
