---------------------------- MODULE StatementsMC ----------------------------
(* Small instances of Statements for TLC. *)
EXTENDS Statements, TLC

\* Jobs are interchangeable.
Symmetry == Permutations(Job)
=============================================================================
