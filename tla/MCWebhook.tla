----------------------------- MODULE MCWebhook -----------------------------
(* Instances of Webhook for TLC. *)
EXTENDS Webhook, TLC

\* Calls are interchangeable.
Symmetry == Permutations(Calls)

=============================================================================
