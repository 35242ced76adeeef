-------------------------- MODULE MCNodeConnections ---------------------------
(* Up to three sockets of a pair of nodes *)
EXTENDS NodeConnections

=============================================================================
