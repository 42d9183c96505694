----------------------------- MODULE MCRecvPath -----------------------------
(* A buffer that holds two packets of the smaller size or one of the larger *)
(* and a part of the next, a stream long enough to fill it twice, and sizes *)
(* from nothing on.                                                         *)
EXTENDS RecvPath
=============================================================================
