----------------------------- MODULE MCRoomTick -----------------------------
(* RoomTask on a short clock, with a modulus that leaves room for a reading *)
(* of the clock that lies before _tickTime.                                 *)
EXTENDS RoomTick
=============================================================================
