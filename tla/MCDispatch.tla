----------------------------- MODULE MCDispatch -----------------------------
(* The dispatch loop with one thread and two clients, or with the two       *)
(* threads of main() and one client.                                        *)
EXTENDS Dispatch
=============================================================================
