------------------------------ MODULE JobQueue ------------------------------
(***************************************************************************)
(* CoreLib/JobQueue: the queue of one game room.  Any thread may Push a    *)
(* job; every thread that comes round the main loop calls Execute, which   *)
(* takes the whole queue under the lock and runs the jobs it took outside  *)
(* of it.  Nothing keeps two threads from executing at the same time, each *)
(* with a batch of its own.                                                *)
(*                                                                         *)
(* A WriteLockGuard block is one step: only one thread is inside of one,   *)
(* and nothing in the two blocks of this class can block.                  *)
(* The atomic operations on _qSize lie outside of the blocks and are steps *)
(* of their own.                                                           *)
(***************************************************************************)
EXTENDS Integers, Sequences, FiniteSets

CONSTANTS
  Threads,   \* the threads that run the main loop
  Jobs,      \* the Job objects; each is pushed at most once
  NoJob

ASSUME NoJobAssumption == NoJob \notin Jobs

VARIABLES
  q,         \* _q
  qSize,     \* _qSize
  pc,        \* where each thread is: outside, or in one of the two operations
  arg,       \* arg[t]: the job thread t passes to Push
  jobs,      \* jobs[t]: the local queue of Execute
  jobCount,  \* jobCount[t]: the local of Execute
  (* History: *)
  tickets,   \* how many jobs were put into _q so far
  ticket,    \* ticket[j]: the place of j in the order of arrival, 0 before
  lastRun,   \* lastRun[t]: the ticket of the job thread t started last
  done       \* the jobs whose Execute() has returned

code    == <<q, qSize, pc, arg, jobs, jobCount>>
history == <<tickets, ticket, lastRun, done>>
vars    == <<q, qSize, pc, arg, jobs, jobCount, tickets, ticket, lastRun, done>>

Places == {"idle", "push", "loop", "exec"}

Goto(t, from, to) ==
  /\ pc[t] = from
  /\ pc' = [pc EXCEPT ![t] = to]

Elems(s) == {s[i] : i \in 1..Len(s)}

(***************************************************************************)
(* A job that no thread has announced and that is not in the queue yet.    *)
(***************************************************************************)
Fresh(j) == ticket[j] = 0 /\ \A t \in Threads : arg[t] # j

-----------------------------------------------------------------------------
Init ==
  /\ q = <<>>
  /\ qSize = 0
  /\ pc = [t \in Threads |-> "idle"]
  /\ arg = [t \in Threads |-> NoJob]
  /\ jobs = [t \in Threads |-> <<>>]
  /\ jobCount = [t \in Threads |-> 0]
  /\ tickets = 0
  /\ ticket = [j \in Jobs |-> 0]
  /\ lastRun = [t \in Threads |-> 0]
  /\ done = {}

-----------------------------------------------------------------------------
(***************************************************************************)
(* Push: the counter first, the queue after it.                            *)
(***************************************************************************)
PushCount(t, j) ==
  /\ Fresh(j)
  /\ Goto(t, "idle", "push")
  /\ qSize' = qSize + 1
  /\ arg' = [arg EXCEPT ![t] = j]
  /\ UNCHANGED <<q, jobs, jobCount, history>>

PutInto(t, newQ) ==
  /\ Goto(t, "push", "idle")
  /\ q' = newQ
  /\ arg' = [arg EXCEPT ![t] = NoJob]
  /\ tickets' = tickets + 1
  /\ ticket' = [ticket EXCEPT ![arg[t]] = tickets + 1]
  /\ UNCHANGED <<qSize, jobs, jobCount, lastRun, done>>

\* Mutant: the job is put in front of the queue.
PushAppendInFront(t) == PutInto(t, <<arg[t]>> \o q)

PushAppend(t) == PutInto(t, Append(q, arg[t]))

-----------------------------------------------------------------------------
(***************************************************************************)
(* Execute: take everything that is in the queue, run it front to back,    *)
(* then take the number of jobs off the counter.                           *)
(***************************************************************************)
TakeAll(t, rest, count) ==
  /\ Goto(t, "idle", "loop")
  /\ jobs' = [jobs EXCEPT ![t] = q]
  /\ jobCount' = [jobCount EXCEPT ![t] = count]
  /\ q' = rest
  /\ UNCHANGED <<qSize, arg, history>>

\* Mutant: the jobs are copied and stay in the queue.
DrainWithoutPop(t) == TakeAll(t, q, Len(q))

\* Mutant: the loop pops one job more than it counts.
DrainMiscounted(t) == TakeAll(t, <<>>, IF q = <<>> THEN 0 ELSE Len(q) - 1)

Drain(t) == TakeAll(t, <<>>, Len(q))

StartJob(t) ==
  /\ jobs[t] # <<>>
  /\ Goto(t, "loop", "exec")
  /\ lastRun' = [lastRun EXCEPT ![t] = ticket[Head(jobs[t])]]
  /\ UNCHANGED <<q, qSize, arg, jobs, jobCount, tickets, ticket, done>>

EndJob(t, rest) ==
  /\ Goto(t, "exec", "loop")
  /\ jobs' = [jobs EXCEPT ![t] = rest]
  /\ done' = done \union {Head(jobs[t])}
  /\ UNCHANGED <<q, qSize, arg, jobCount, tickets, ticket, lastRun>>

\* Mutant: the front job is not popped after it ran.
FinishJobWithoutPop(t) == EndJob(t, jobs[t])

FinishJob(t) == EndJob(t, Tail(jobs[t]))

LeaveWith(t, newQ) ==
  /\ jobs[t] = <<>>
  /\ Goto(t, "loop", "idle")
  /\ qSize' = qSize - jobCount[t]
  /\ jobCount' = [jobCount EXCEPT ![t] = 0]
  /\ q' = newQ
  /\ UNCHANGED <<arg, jobs, history>>

\* Mutant: the queue is emptied again when the batch is through.
SubtractAndClear(t) == LeaveWith(t, <<>>)

Subtract(t) == LeaveWith(t, q)

-----------------------------------------------------------------------------
Execute(t) == Drain(t) \/ StartJob(t) \/ FinishJob(t) \/ Subtract(t)

Next ==
  \E t \in Threads : \/ \E j \in Jobs : PushCount(t, j)
                     \/ PushAppend(t)
                     \/ Execute(t)

(***************************************************************************)
(* A thread runs the main loop for ever, and so finishes what it began and *)
(* calls Execute again; that it pushes is up to the clients.               *)
(***************************************************************************)
Fairness == \A t \in Threads : WF_vars(PushAppend(t) \/ Execute(t))

Safety == Init /\ [][Next]_vars

Spec == Safety /\ Fairness

-----------------------------------------------------------------------------
TypeOK ==
  /\ q \in Seq(Jobs)
  /\ qSize \in Int
  /\ pc \in [Threads -> Places]
  /\ arg \in [Threads -> Jobs \union {NoJob}]
  /\ jobs \in [Threads -> Seq(Jobs)]
  /\ jobCount \in [Threads -> Nat]
  /\ tickets \in Nat
  /\ ticket \in [Jobs -> Nat]
  /\ lastRun \in [Threads -> Nat]
  /\ done \in SUBSET Jobs

(***************************************************************************)
(* No job is in two places: it is about to be appended by one thread, or   *)
(* once in _q, or once in the batch of one thread, or done, whatever the   *)
(* threads do at the same time.                                            *)
(***************************************************************************)
NoRepeats(s) == \A i, k \in 1..Len(s) : s[i] = s[k] => i = k

JobInOnePlace ==
  /\ NoRepeats(q)
  /\ Elems(q) \intersect done = {}
  /\ \A t \in Threads :
       /\ NoRepeats(jobs[t])
       /\ Elems(jobs[t]) \intersect (Elems(q) \union done) = {}
       /\ \A u \in Threads \ {t} : Elems(jobs[t]) \intersect Elems(jobs[u]) = {}

(***************************************************************************)
(* No job is dropped: once it was appended to _q it is in the queue, in    *)
(* the batch of a thread, or done, until the end of time.                  *)
(***************************************************************************)
NoJobDropped ==
  \A j \in Jobs : ticket[j] # 0 =>
    \/ j \in Elems(q) \union done
    \/ \E t \in Threads : j \in Elems(jobs[t])

(***************************************************************************)
(* Together: a job is run once.  Whatever two threads push and execute at  *)
(* the same time, it is in one place at each moment and never in none.     *)
(***************************************************************************)
JobInExactlyOnePlace == JobInOnePlace /\ NoJobDropped

(***************************************************************************)
(* A job that still waits in _q is overtaken by nobody: whatever a thread  *)
(* started so far had arrived earlier.  Two threads can run jobs out of    *)
(* order only if each of them had already taken its job out of the queue.  *)
(***************************************************************************)
QueueNotOvertaken ==
  \A t \in Threads : \A j \in Elems(q) : lastRun[t] < ticket[j]

(***************************************************************************)
(* Each thread runs jobs in the order in which they arrived, from one      *)
(* batch to the next.                                                      *)
(***************************************************************************)
ThreadRunsInOrder ==
  [][\A t \in Threads : lastRun'[t] # lastRun[t] => lastRun'[t] > lastRun[t]]_vars

(***************************************************************************)
(* _qSize is the number of jobs announced, queued, or taken by an Execute  *)
(* that has not come to its end: the counter drifts neither way, although  *)
(* it is updated outside of the lock.                                      *)
(***************************************************************************)
Announced == {t \in Threads : pc[t] = "push"}
Taken == UNION {{t} \X (1..jobCount[t]) : t \in Threads}    \* a thread, and a place in its batch

QSizeExact == qSize = Cardinality(Announced) + Len(q) + Cardinality(Taken)

-----------------------------------------------------------------------------
(***************************************************************************)
(* The queue implements WorkPool: every job is submitted by the append,    *)
(* started by one thread once, finished once, and, the threads being fair, *)
(* started and finished at all.                                            *)
(***************************************************************************)
Running(j) == \E t \in Threads : pc[t] = "exec" /\ Head(jobs[t]) = j
Waiting(j) == j \in Elems(q) \/ \E t \in Threads : j \in Elems(jobs[t])

Stage(j) ==
  IF j \in done THEN "done"
  ELSE IF Running(j) THEN "running"
  ELSE IF Waiting(j) THEN "submitted"
  ELSE "new"

Pool == INSTANCE WorkPool WITH status <- [j \in Jobs |-> Stage(j)]

ImplementsWorkPool == Pool!Spec

=============================================================================
