----------------------------- MODULE MCAuditLog -----------------------------
(***************************************************************************)
(* A small instance of AuditLog for TLC.                                   *)
(***************************************************************************)
EXTENDS AuditLog, TLC

CONSTANTS x1, x2, m1, m2

TwoSessions == {x1, x2}
TwoBodies == {m1, m2}

\* Every hash of a chain of at most two rows, the one before the first included.
ShortHashes == UNION {[1..n -> TwoBodies] : n \in 0..2}

Symmetric == Permutations(TwoSessions) \cup Permutations(TwoBodies)
=============================================================================
