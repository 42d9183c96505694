------------------------------ MODULE WorkPool ------------------------------
(***************************************************************************)
(* What a job queue promises to the code that pushes to it: a job that was *)
(* submitted is started once, finishes once, and is not started before it  *)
(* was submitted.  Nothing is said about the order in which the jobs of    *)
(* several threads are started: with more than one executing thread the    *)
(* queue of CoreLib promises none.                                         *)
(***************************************************************************)
CONSTANT Jobs

VARIABLE status    \* status[j]: how far job j has come

Stages == {"new", "submitted", "running", "done"}

Init == status = [j \in Jobs |-> "new"]

Advance(j, from, to) ==
  /\ status[j] = from
  /\ status' = [status EXCEPT ![j] = to]

Submit(j) == Advance(j, "new", "submitted")
Start(j)  == Advance(j, "submitted", "running")
Finish(j) == Advance(j, "running", "done")

Next == \E j \in Jobs : Submit(j) \/ Start(j) \/ Finish(j)

Fairness == \A j \in Jobs : WF_status(Start(j)) /\ WF_status(Finish(j))

Safety == Init /\ [][Next]_status

Spec == Safety /\ Fairness

=============================================================================
