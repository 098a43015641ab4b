----------------------------- MODULE MCMetrics -----------------------------
(* Metrics for TLC: daemons are interchangeable. *)
EXTENDS Metrics, TLC

Symmetry == Permutations(Uuids)

=============================================================================
