----------------------------- MODULE MCJobQueue -----------------------------
(* The job queue with two threads, as main() starts them, and four jobs, so *)
(* that one thread can be at a batch of two while the other one drains the  *)
(* queue again.                                                             *)
EXTENDS JobQueue
=============================================================================
