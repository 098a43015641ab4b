--------------------------- MODULE MCRelayClient ---------------------------
(* Instances of RelayClient for TLC. *)
EXTENDS RelayClient, TLC

\* Urls are interchangeable.
Symmetry == Permutations(Urls)

=============================================================================
