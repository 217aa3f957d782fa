--------------------------- MODULE MCHubSessions ---------------------------
(* Small instances of HubSessions for TLC. *)
EXTENDS HubSessions

CONSTANTS c1, c2, c3, n1, n2

\* Two connections of one node, and one of another.
TwoNodes == [c \in Conns |-> IF c = c3 THEN n2 ELSE n1]

\* Three connections of one node.
OneNode == [c \in Conns |-> n1]
=============================================================================
