---------------------------- MODULE MCLifecycle ----------------------------
(* One or two nodes and up to two clients, for TLC.                        *)
EXTENDS Lifecycle

CONSTANTS n1, n2, c1, c2

OneNode == <<n1>>
TwoNodes == <<n1, n2>>
OneClient == {c1}
TwoClients == {c1, c2}
=============================================================================
