------------------------------ MODULE MCRwLock ------------------------------
(* Three threads and three read sections: see RwLock.cfg. *)
EXTENDS RwLock

=============================================================================
