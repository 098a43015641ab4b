--------------------------- MODULE MCRelayServer ---------------------------
(* Instances of RelayServer for TLC. *)
EXTENDS RelayServer, TLC

\* Sockets and calls are interchangeable; so are uuids.
Symmetry == Permutations(Sockets) \cup Permutations(Calls) \cup Permutations(Uuids)

=============================================================================
