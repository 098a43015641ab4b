----------------------------- MODULE MCStartup -----------------------------
(* Startup for TLC. *)
EXTENDS Startup

\* Every configuration whose directory can be written, and one that cannot.
MCConfigs ==
  {c \in ConfigType : c.writable}
    \cup {[key |-> "none", cert |-> "none", multi |-> FALSE, writable |-> FALSE]}

=============================================================================
