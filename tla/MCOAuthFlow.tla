---------------------------- MODULE MCOAuthFlow ----------------------------
(* OAuthFlow for TLC: two flows, signed by different daemons. *)
EXTENDS OAuthFlow, TLC

CONSTANTS d1, d2, s1, s2

MCDaemonOf == (s1 :> d1) @@ (s2 :> d2)

\* ... or one flow of one daemon.
MCOneDaemon == s1 :> d1

=============================================================================
