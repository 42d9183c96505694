----------------------------- MODULE MCSendPath -----------------------------
(* Two threads and four buffers: see SendPath.cfg. *)
EXTENDS SendPath

=============================================================================
