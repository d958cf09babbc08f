------------------------------- MODULE MCAudit -------------------------------
(* Instances of AuditService for TLC.                                      *)
EXTENDS AuditService, TLC

Symmetry == Permutations(Entries) \cup Permutations(Workers) \cup Permutations(Handlers)
=============================================================================
