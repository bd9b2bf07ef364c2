---------------------------- MODULE MCAuditLoop ----------------------------
(* Small instances of AuditLoop.                                            *)
EXTENDS AuditLoop, TLC

CONSTANTS a, b, p, q

Symmetry == Permutations(Task) \cup Permutations(Proc)
=============================================================================
