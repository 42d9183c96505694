-------------------------- MODULE MCPacketHandler --------------------------
(* Names on both sides of what one entry has room for, alone and together; *)
(* lists that are empty, that have one entry and two; texts on both sides  *)
(* of the length from which the size of the packet, and then that of the   *)
(* data, wraps.                                                            *)
EXTENDS PacketHandler
=============================================================================
