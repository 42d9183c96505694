--------------------------- MODULE MCConnections ---------------------------
(* Two threads, two numbers, three connections: see Connections.cfg. *)
EXTENDS Connections

=============================================================================
