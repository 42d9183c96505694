--------------------------- MODULE JobQueueProofs ---------------------------
(***************************************************************************)
(* What the job queue guarantees for any number of threads and jobs.       *)
(*                                                                         *)
(* TypeOK is inductive.  The safety invariants are not: they follow from   *)
(* the order of the tickets.  The queue is sorted by ticket, so is every   *)
(* batch, whatever sits in a batch is older than whatever sits in the      *)
(* queue, and what a thread started is older than what it has left.  Since *)
(* a ticket is given once, order implies that nothing is in two places.    *)
(***************************************************************************)
EXTENDS JobQueue, SequenceTheorems, FiniteSetTheorems, TLAPS

USE NoJobAssumption

(***************************************************************************)
(* Sequences of jobs: what is in them and in which order, under Append,    *)
(* Head and Tail.                                                          *)
(***************************************************************************)
LEMMA ElemsEmpty == Elems(<<>>) = {}
  BY DEF Elems

LEMMA ElemsJobs ==
  ASSUME NEW s \in Seq(Jobs)
  PROVE  Elems(s) \subseteq Jobs
  BY DEF Elems

LEMMA ElemsAppend ==
  ASSUME NEW s \in Seq(Jobs), NEW j \in Jobs
  PROVE  /\ Append(s, j) \in Seq(Jobs)
         /\ Elems(Append(s, j)) = Elems(s) \union {j}
<1>1. /\ Append(s, j) \in Seq(Jobs)
      /\ Len(s) \in Nat /\ Len(Append(s, j)) = Len(s) + 1
      /\ \A i \in 1..Len(s) : Append(s, j)[i] = s[i]
      /\ Append(s, j)[Len(s) + 1] = j
  OBVIOUS
<1>2. 1..(Len(s) + 1) = 1..Len(s) \union {Len(s) + 1}
  BY <1>1
<1> QED
  BY <1>1, <1>2 DEF Elems

(* Popping the front shifts the other jobs one place forward.              *)
LEMMA PopJob ==
  ASSUME NEW s \in Seq(Jobs), s # <<>>
  PROVE  /\ Head(s) = s[1]
         /\ Head(s) \in Jobs
         /\ Tail(s) \in Seq(Jobs)
         /\ Len(s) \in Nat \ {0}
         /\ Len(Tail(s)) = Len(s) - 1
         /\ \A i \in 1..Len(Tail(s)) : Tail(s)[i] = s[i + 1]
  OBVIOUS

LEMMA ElemsPop ==
  ASSUME NEW s \in Seq(Jobs), s # <<>>
  PROVE  Elems(s) = {Head(s)} \union Elems(Tail(s))
<1>1. ASSUME NEW i \in 1..Len(s)
      PROVE  s[i] \in {Head(s)} \union Elems(Tail(s))
  <2>1. CASE i = 1
    BY <2>1, PopJob
  <2>2. CASE i # 1
    <3>1. i - 1 \in 1..Len(Tail(s)) /\ Tail(s)[i - 1] = s[i]
      BY <2>2, PopJob
    <3> QED
      BY <3>1 DEF Elems
  <2> QED
    BY <2>1, <2>2
<1>2. ASSUME NEW i \in 1..Len(Tail(s))
      PROVE  Tail(s)[i] \in Elems(s)
  <2>1. i + 1 \in 1..Len(s) /\ Tail(s)[i] = s[i + 1]
    BY PopJob
  <2> QED
    BY <2>1 DEF Elems
<1>3. Head(s) \in Elems(s)
  BY PopJob DEF Elems
<1> QED
  BY <1>1, <1>2, <1>3 DEF Elems

(***************************************************************************)
(* Sequences in the order of the tickets tk.                               *)
(***************************************************************************)
Sorted(s, tk) == \A i, k \in 1..Len(s) : i < k => tk[s[i]] < tk[s[k]]

LEMMA SortedEmpty == ASSUME NEW tk PROVE Sorted(<<>>, tk)
  BY DEF Sorted

LEMMA SortedAgree ==
  ASSUME NEW s, NEW tk, NEW new, Sorted(s, tk),
         \A j \in Elems(s) : new[j] = tk[j]
  PROVE  Sorted(s, new)
  BY DEF Sorted, Elems

LEMMA SortedAppend ==
  ASSUME NEW s \in Seq(Jobs), NEW j \in Jobs, NEW tk, Sorted(s, tk),
         \A i \in Elems(s) : tk[i] < tk[j]
  PROVE  Sorted(Append(s, j), tk)
<1> DEFINE r == Append(s, j)
<1>1. /\ Len(s) \in Nat /\ Len(r) = Len(s) + 1
      /\ \A i \in 1..Len(s) : r[i] = s[i]
      /\ r[Len(s) + 1] = j
  OBVIOUS
<1> SUFFICES ASSUME NEW i \in 1..Len(r), NEW k \in 1..Len(r), i < k
             PROVE  tk[r[i]] < tk[r[k]]
  BY DEF Sorted
<1>2. i \in 1..Len(s) /\ s[i] \in Elems(s)
  BY <1>1 DEF Elems
<1>3. CASE k \in 1..Len(s)
  BY <1>1, <1>2, <1>3 DEF Sorted
<1>4. CASE k = Len(s) + 1
  BY <1>1, <1>2, <1>4
<1> QED
  BY <1>1, <1>3, <1>4

LEMMA SortedPop ==
  ASSUME NEW s \in Seq(Jobs), s # <<>>, NEW tk, Sorted(s, tk)
  PROVE  /\ Sorted(Tail(s), tk)
         /\ \A j \in Elems(Tail(s)) : tk[Head(s)] < tk[j]
<1>1. ASSUME NEW i \in 1..Len(Tail(s))
      PROVE  i + 1 \in 1..Len(s) /\ 1 \in 1..Len(s) /\ 1 < i + 1 /\ Tail(s)[i] = s[i + 1]
  BY PopJob
<1>2. ASSUME NEW i \in 1..Len(Tail(s)), NEW k \in 1..Len(Tail(s)), i < k
      PROVE  tk[Tail(s)[i]] < tk[Tail(s)[k]]
  <2>1. i + 1 < k + 1
    BY <1>2
  <2> QED
    BY <1>1, <2>1 DEF Sorted
<1>3. ASSUME NEW i \in 1..Len(Tail(s))
      PROVE  tk[Head(s)] < tk[Tail(s)[i]]
  BY <1>1, PopJob DEF Sorted
<1> QED
  BY <1>2, <1>3 DEF Sorted, Elems

-----------------------------------------------------------------------------
(***************************************************************************)
(* Type correctness, with what the place of a thread says of its locals:   *)
(* a thread has announced a job exactly while it is in Push, and has a     *)
(* batch only inside Execute.                                              *)
(***************************************************************************)
LocalsOK ==
  \A t \in Threads :
    /\ pc[t] = "push" <=> arg[t] # NoJob
    /\ pc[t] = "exec" => jobs[t] # <<>>
    /\ pc[t] \in {"idle", "push"} => jobs[t] = <<>>

TypeInv == TypeOK /\ LocalsOK

LEMMA TypeStep == TypeInv /\ [Next]_vars => TypeInv'
<1> SUFFICES ASSUME TypeInv, [Next]_vars
             PROVE  TypeInv'
  OBVIOUS
<1> USE DEF TypeInv, TypeOK, LocalsOK, Places, Goto, history
<1>1. ASSUME NEW t \in Threads, NEW j \in Jobs, PushCount(t, j)
      PROVE  TypeInv'
  BY <1>1 DEF PushCount
<1>2. ASSUME NEW t \in Threads, PushAppend(t)
      PROVE  TypeInv'
  <2>1. arg[t] \in Jobs
    BY <1>2 DEF PushAppend, PutInto
  <2>2. q' \in Seq(Jobs)
    BY <1>2, <2>1, ElemsAppend DEF PushAppend, PutInto
  <2> QED
    BY <1>2, <2>1, <2>2 DEF PushAppend, PutInto
<1>3. ASSUME NEW t \in Threads, Drain(t)
      PROVE  TypeInv'
  BY <1>3 DEF Drain, TakeAll
<1>4. ASSUME NEW t \in Threads, StartJob(t)
      PROVE  TypeInv'
  <2>1. Head(jobs[t]) \in Jobs
    BY <1>4, PopJob DEF StartJob
  <2> QED
    BY <1>4, <2>1 DEF StartJob
<1>5. ASSUME NEW t \in Threads, FinishJob(t)
      PROVE  TypeInv'
  <2>1. Head(jobs[t]) \in Jobs /\ Tail(jobs[t]) \in Seq(Jobs)
    BY <1>5, PopJob DEF FinishJob, EndJob
  <2> QED
    BY <1>5, <2>1 DEF FinishJob, EndJob
<1>6. ASSUME NEW t \in Threads, Subtract(t)
      PROVE  TypeInv'
  BY <1>6 DEF Subtract, LeaveWith
<1>7. CASE UNCHANGED vars
  BY <1>7 DEF vars
<1> QED
  BY <1>1, <1>2, <1>3, <1>4, <1>5, <1>6, <1>7 DEF Next, Execute

(***************************************************************************)
(* The type invariant holds of every state of the job queue: the queue and *)
(* the batches hold jobs only, however the threads interleave.             *)
(***************************************************************************)
THEOREM TypeCorrect == Safety => []TypeOK
<1>1. Init => TypeInv
  BY DEF Init, TypeInv, TypeOK, LocalsOK, Places
<1>2. TypeInv => TypeOK
  BY DEF TypeInv
<1> QED
  BY <1>1, <1>2, TypeStep, PTL DEF Safety

-----------------------------------------------------------------------------
(***************************************************************************)
(* The order of the tickets, the inductive invariant behind the safety     *)
(* properties.                                                             *)
(***************************************************************************)
Ticketed(S) == \A j \in S : ticket[j] \in 1..tickets

Older(S, T) == \A i \in S, j \in T : ticket[i] < ticket[j]

Left(t) ==        \* what thread t has yet to start
  IF pc[t] = "exec" THEN Elems(Tail(jobs[t])) ELSE Elems(jobs[t])

AnnouncedOK ==    \* a job that is announced has no ticket and one announcer
  \A t \in Threads : arg[t] # NoJob =>
    /\ ticket[arg[t]] = 0
    /\ \A u \in Threads : u # t => arg[u] # arg[t]

QueueOK ==        \* the queue is in the order of arrival
  /\ Sorted(q, ticket)
  /\ Ticketed(Elems(q))

BatchOK ==        \* so is every batch, and what is in it left the queue earlier
  \A t \in Threads :
    /\ Sorted(jobs[t], ticket)
    /\ Ticketed(Elems(jobs[t]))
    /\ Older(Elems(jobs[t]), Elems(q))

DisjointOK ==     \* two threads have no job in common
  \A t, u \in Threads : t # u => Elems(jobs[t]) \intersect Elems(jobs[u]) = {}

RunOK ==          \* what a thread started is older than what it may start next
  \A t \in Threads :
    /\ lastRun[t] <= tickets
    /\ \A j \in Elems(q) \union Left(t) : lastRun[t] < ticket[j]

DoneOK ==         \* what is done had arrived, and is nowhere else
  /\ Ticketed(done)
  /\ done \intersect Elems(q) = {}
  /\ \A t \in Threads : done \intersect Elems(jobs[t]) = {}

OrderInv ==
  /\ TypeInv
  /\ AnnouncedOK
  /\ QueueOK
  /\ BatchOK
  /\ DisjointOK
  /\ RunOK
  /\ DoneOK

(* What a thread has left depends on its own batch and place only.         *)
LEMMA LeftSame ==
  ASSUME NEW t \in Threads, jobs'[t] = jobs[t], pc'[t] = "exec" <=> pc[t] = "exec"
  PROVE  Left(t)' = Left(t)
  BY DEF Left, Elems

(* Announcing a job touches nothing that has an order.                     *)
LEMMA OrderPushCount ==
  ASSUME OrderInv, TypeInv', NEW t \in Threads, NEW j \in Jobs, PushCount(t, j)
  PROVE  OrderInv'
<1>1. /\ UNCHANGED <<q, jobs, tickets, ticket, lastRun, done>>
      /\ pc[t] = "idle" /\ pc' = [pc EXCEPT ![t] = "push"]
      /\ arg' = [arg EXCEPT ![t] = j]
      /\ ticket[j] = 0 /\ \A u \in Threads : arg[u] # j
  BY DEF PushCount, Fresh, Goto, history
<1>2. AnnouncedOK'
  BY <1>1 DEF OrderInv, AnnouncedOK, TypeInv, TypeOK
<1>3. QueueOK' /\ BatchOK'
  BY <1>1 DEF OrderInv, QueueOK, BatchOK, Ticketed, Older
<1>4. DisjointOK' /\ DoneOK'
  BY <1>1 DEF OrderInv, DisjointOK, DoneOK, Ticketed
<1>5. \A u \in Threads : Left(u)' = Left(u)
  BY <1>1 DEF Left, OrderInv, TypeInv, TypeOK
<1>6. RunOK'
  BY <1>1, <1>5 DEF OrderInv, RunOK
<1> QED
  BY <1>2, <1>3, <1>4, <1>6 DEF OrderInv

(* The new job gets a ticket above all others and goes to the end of the   *)
(* queue; the tickets given before stay what they were.                    *)
LEMMA OrderPushAppend ==
  ASSUME OrderInv, TypeInv', NEW t \in Threads, PushAppend(t)
  PROVE  OrderInv'
<1> DEFINE j == arg[t]
<1>1. /\ j \in Jobs /\ j # NoJob /\ ticket[j] = 0
      /\ q \in Seq(Jobs) /\ tickets \in Nat /\ ticket \in [Jobs -> Nat]
      /\ done \subseteq Jobs
      /\ \A u \in Threads : Elems(jobs[u]) \subseteq Jobs
      /\ Elems(q) \subseteq Jobs
  BY ElemsJobs DEF PushAppend, PutInto, Goto, OrderInv, AnnouncedOK, TypeInv, TypeOK, LocalsOK
<1>2. /\ UNCHANGED <<jobs, lastRun, done>>
      /\ arg' = [arg EXCEPT ![t] = NoJob]
      /\ pc[t] = "push" /\ pc' = [pc EXCEPT ![t] = "idle"]
      /\ q' = Append(q, j)
      /\ tickets' = tickets + 1
      /\ ticket' = [ticket EXCEPT ![j] = tickets + 1]
  BY DEF PushAppend, PutInto, Goto
<1>3. /\ ticket'[j] = tickets + 1
      /\ \A i \in Jobs : i # j => ticket'[i] = ticket[i]
  BY <1>1, <1>2
<1>4. /\ j \notin Elems(q)
      /\ j \notin done
      /\ \A u \in Threads : j \notin Elems(jobs[u])
  BY <1>1 DEF OrderInv, QueueOK, BatchOK, DoneOK, Ticketed
<1>5. /\ Elems(q)' = Elems(q) \union {j}
      /\ \A u \in Threads : Elems(jobs[u])' = Elems(jobs[u])
  <2>1. Elems(q)' = Elems(Append(q, j))
    BY <1>2 DEF Elems
  <2>2. \A u \in Threads : Elems(jobs[u])' = Elems(jobs[u])
    BY <1>2 DEF Elems
  <2> QED
    BY <1>1, <2>1, <2>2, ElemsAppend
<1>6. AnnouncedOK'
  BY <1>1, <1>2, <1>3 DEF OrderInv, AnnouncedOK, TypeInv, TypeOK
<1>7. QueueOK'
  <2>1. Sorted(q, ticket')
    BY <1>1, <1>3, <1>4, SortedAgree DEF OrderInv, QueueOK
  <2>2. \A i \in Elems(q) : ticket'[i] < ticket'[j]
    BY <1>1, <1>3, <1>4 DEF OrderInv, QueueOK, Ticketed
  <2>3. Sorted(q, ticket)'
    BY <1>1, <1>2, <2>1, <2>2, SortedAppend DEF Sorted
  <2>4. Ticketed(Elems(q))'
    BY <1>1, <1>2, <1>3, <1>4, <1>5 DEF OrderInv, QueueOK, Ticketed
  <2> QED
    BY <2>3, <2>4 DEF QueueOK
<1>8. BatchOK'
  <2> SUFFICES ASSUME NEW u \in Threads
               PROVE  (/\ Sorted(jobs[u], ticket)
                       /\ Ticketed(Elems(jobs[u]))
                       /\ Older(Elems(jobs[u]), Elems(q)))'
    BY DEF BatchOK
  <2>1. Elems(jobs[u])' = Elems(jobs[u])
    BY <1>5
  <2>2. \A i \in Elems(jobs[u]) : ticket'[i] = ticket[i] /\ ticket[i] \in 1..tickets
    BY <1>1, <1>3, <1>4 DEF OrderInv, BatchOK, Ticketed
  <2>3. Sorted(jobs[u], ticket)'
    <3>1. Sorted(jobs[u], ticket')
      BY <2>2, SortedAgree DEF OrderInv, BatchOK
    <3> QED
      BY <1>2, <3>1 DEF Sorted
  <2>4. Ticketed(Elems(jobs[u]))'
    BY <1>1, <1>2, <2>1, <2>2 DEF Ticketed
  <2>5. Older(Elems(jobs[u]), Elems(q))'
    BY <1>1, <1>3, <1>4, <1>5, <2>1, <2>2 DEF OrderInv, BatchOK, Older
  <2> QED
    BY <2>3, <2>4, <2>5
<1>9. DisjointOK'
  BY <1>5 DEF OrderInv, DisjointOK
<1>10. RunOK'
  <2> SUFFICES ASSUME NEW u \in Threads
               PROVE  /\ lastRun[u] <= tickets'
                      /\ \A i \in Elems(q)' \union Left(u)' : lastRun[u] < ticket'[i]
    BY <1>2 DEF RunOK
  <2>1. Left(u)' = Left(u) /\ j \notin Left(u) /\ Left(u) \subseteq Jobs
    <3>1. u = t => pc[u] # "exec" /\ pc'[u] # "exec"
      BY <1>2 DEF OrderInv, TypeInv, TypeOK
    <3>2. pc[u] = "exec" => Elems(Tail(jobs[u])) \subseteq Elems(jobs[u])
      BY ElemsPop DEF OrderInv, TypeInv, TypeOK, LocalsOK
    <3>3. pc[u] = "exec" <=> pc'[u] = "exec"
      BY <1>2, <3>1 DEF OrderInv, TypeInv, TypeOK
    <3>4. Left(u)' = IF pc'[u] = "exec" THEN Elems(Tail(jobs[u])) ELSE Elems(jobs[u])
      BY <1>2 DEF Left, Elems
    <3>5. Left(u)' = Left(u)
      BY <3>3, <3>4 DEF Left
    <3> QED
      BY <1>1, <1>4, <3>2, <3>5 DEF Left
  <2>2. lastRun[u] <= tickets /\ lastRun[u] \in Nat
    BY DEF OrderInv, RunOK, TypeInv, TypeOK
  <2>3. \A i \in Elems(q) \union Left(u) : lastRun[u] < ticket'[i]
    BY <1>1, <1>3, <1>4, <2>1 DEF OrderInv, RunOK
  <2> QED
    BY <1>1, <1>2, <1>3, <1>5, <2>1, <2>2, <2>3
<1>11. DoneOK'
  <2>1. Ticketed(done)'
    BY <1>1, <1>2, <1>3, <1>4 DEF OrderInv, DoneOK, Ticketed
  <2> QED
    BY <1>2, <1>4, <1>5, <2>1 DEF OrderInv, DoneOK
<1> QED
  BY <1>6, <1>7, <1>8, <1>9, <1>10, <1>11 DEF OrderInv

(* The queue becomes the batch of one thread: what was older than the      *)
(* queue is now older than, and apart from, that batch.                    *)
LEMMA OrderDrain ==
  ASSUME OrderInv, TypeInv', NEW t \in Threads, Drain(t)
  PROVE  OrderInv'
<1>1. /\ UNCHANGED <<arg, tickets, ticket, lastRun, done>>
      /\ pc[t] = "idle" /\ pc' = [pc EXCEPT ![t] = "loop"]
      /\ jobs' = [jobs EXCEPT ![t] = q]
      /\ q' = <<>>
  BY DEF Drain, TakeAll, Goto, history
<1>2. /\ pc \in [Threads -> Places] /\ jobs \in [Threads -> Seq(Jobs)]
      /\ ticket \in [Jobs -> Nat] /\ Elems(q) \subseteq Jobs
      /\ \A u \in Threads : Elems(jobs[u]) \subseteq Jobs
  BY ElemsJobs DEF OrderInv, TypeInv, TypeOK
<1>3. /\ jobs'[t] = q
      /\ Elems(q)' = {}
      /\ Elems(jobs[t])' = Elems(q)
      /\ \A u \in Threads : u # t => jobs'[u] = jobs[u] /\ Elems(jobs[u])' = Elems(jobs[u])
  <2>1. jobs'[t] = q /\ \A u \in Threads : u # t => jobs'[u] = jobs[u]
    BY <1>1, <1>2
  <2>2. Elems(q)' = Elems(<<>>)
    BY <1>1 DEF Elems
  <2>3. Elems(jobs[t])' = Elems(q)
    BY <2>1 DEF Elems
  <2>4. \A u \in Threads : u # t => Elems(jobs[u])' = Elems(jobs[u])
    BY <2>1 DEF Elems
  <2> QED
    BY <2>1, <2>2, <2>3, <2>4, ElemsEmpty
<1>4. AnnouncedOK'
  BY <1>1 DEF OrderInv, AnnouncedOK
<1>5. QueueOK'
  <2>1. Sorted(q, ticket)'
    BY <1>1, SortedEmpty DEF Sorted
  <2> QED
    BY <1>3, <2>1 DEF QueueOK, Ticketed
<1>6. BatchOK'
  <2> SUFFICES ASSUME NEW u \in Threads
               PROVE  (/\ Sorted(jobs[u], ticket)
                       /\ Ticketed(Elems(jobs[u]))
                       /\ Older(Elems(jobs[u]), Elems(q)))'
    BY DEF BatchOK
  <2>1. Older(Elems(jobs[u]), Elems(q))'
    BY <1>3 DEF Older
  <2>2. CASE u = t
    <3>1. Sorted(jobs[u], ticket)'
      BY <1>1, <1>3, <2>2 DEF OrderInv, QueueOK, Sorted
    <3> QED
      BY <1>1, <1>3, <2>1, <2>2, <3>1 DEF OrderInv, QueueOK, Ticketed
  <2>3. CASE u # t
    <3>1. Sorted(jobs[u], ticket)'
      BY <1>1, <1>3, <2>3 DEF OrderInv, BatchOK, Sorted
    <3> QED
      BY <1>1, <1>3, <2>1, <2>3, <3>1 DEF OrderInv, BatchOK, Ticketed
  <2> QED
    BY <2>2, <2>3
<1>7. DisjointOK'
  <2>1. \A u \in Threads : Elems(jobs[u]) \intersect Elems(q) = {}
    BY <1>2 DEF OrderInv, BatchOK, Older
  <2> QED
    BY <1>3, <2>1 DEF OrderInv, DisjointOK
<1>8. RunOK'
  <2>1. Left(t)' = Elems(q)
    BY <1>1, <1>2, <1>3 DEF Left
  <2>2. ASSUME NEW u \in Threads, u # t PROVE Left(u)' = Left(u)
    BY <1>1, <1>2, <1>3, <2>2, LeftSame
  <2> QED
    BY <1>1, <1>3, <2>1, <2>2 DEF OrderInv, RunOK
<1>9. DoneOK'
  BY <1>1, <1>3 DEF OrderInv, DoneOK, Ticketed
<1> QED
  BY <1>4, <1>5, <1>6, <1>7, <1>8, <1>9 DEF OrderInv

(* The job a thread starts is the oldest it has left.                      *)
LEMMA OrderStartJob ==
  ASSUME OrderInv, TypeInv', NEW t \in Threads, StartJob(t)
  PROVE  OrderInv' /\ lastRun'[t] > lastRun[t]
<1> DEFINE h == Head(jobs[t])
<1>1. /\ UNCHANGED <<q, arg, jobs, tickets, ticket, done>>
      /\ jobs[t] # <<>>
      /\ pc[t] = "loop" /\ pc' = [pc EXCEPT ![t] = "exec"]
      /\ lastRun' = [lastRun EXCEPT ![t] = ticket[h]]
  BY DEF StartJob, Goto
<1>2. /\ pc \in [Threads -> Places] /\ jobs[t] \in Seq(Jobs)
      /\ ticket \in [Jobs -> Nat] /\ lastRun \in [Threads -> Nat] /\ tickets \in Nat
      /\ h \in Elems(jobs[t])
      /\ Elems(jobs[t]) \subseteq Jobs /\ Elems(q) \subseteq Jobs
  BY <1>1, ElemsPop, ElemsJobs DEF OrderInv, TypeInv, TypeOK
<1>3. lastRun'[t] = ticket[h] /\ \A u \in Threads : u # t => lastRun'[u] = lastRun[u]
  BY <1>1, <1>2
<1>4. lastRun[t] < ticket[h]
  BY <1>1, <1>2 DEF OrderInv, RunOK, Left
<1>5. AnnouncedOK' /\ QueueOK' /\ BatchOK' /\ DisjointOK' /\ DoneOK'
  <2>1. Elems(q)' = Elems(q) /\ \A u \in Threads : Elems(jobs[u])' = Elems(jobs[u])
    BY <1>1 DEF Elems
  <2>2. AnnouncedOK' /\ QueueOK'
    BY <1>1, <2>1 DEF OrderInv, AnnouncedOK, QueueOK, Sorted, Ticketed
  <2>3. BatchOK'
    BY <1>1, <2>1 DEF OrderInv, BatchOK, Sorted, Ticketed, Older
  <2>4. DisjointOK' /\ DoneOK'
    BY <1>1, <2>1 DEF OrderInv, DisjointOK, DoneOK, Ticketed
  <2> QED
    BY <2>2, <2>3, <2>4
<1>6. RunOK'
  <2> SUFFICES ASSUME NEW u \in Threads
               PROVE  /\ lastRun'[u] <= tickets
                      /\ \A j \in Elems(q) \union Left(u)' : lastRun'[u] < ticket[j]
    BY <1>1 DEF RunOK, Elems
  <2>1. CASE u = t
    <3>1. Left(u)' = Elems(Tail(jobs[t]))
      BY <1>1, <1>2, <2>1 DEF Left, Elems
    <3>2. \A j \in Elems(Tail(jobs[t])) : ticket[h] < ticket[j]
      BY <1>1, <1>2, SortedPop DEF OrderInv, BatchOK
    <3>3. \A j \in Elems(q) : ticket[h] < ticket[j]
      BY <1>2 DEF OrderInv, BatchOK, Older
    <3>4. ticket[h] <= tickets
      BY <1>2 DEF OrderInv, BatchOK, Ticketed
    <3> QED
      BY <1>3, <2>1, <3>1, <3>2, <3>3, <3>4
  <2>2. CASE u # t
    <3>1. Left(u)' = Left(u)
      BY <1>1, <1>2, <2>2, LeftSame
    <3> QED
      BY <1>3, <2>2, <3>1 DEF OrderInv, RunOK
  <2> QED
    BY <2>1, <2>2
<1> QED
  BY <1>2, <1>3, <1>4, <1>5, <1>6 DEF OrderInv

(* The finished job leaves its batch; what stays in the batch is newer, so *)
(* nobody else has it.                                                     *)
LEMMA OrderFinishJob ==
  ASSUME OrderInv, TypeInv', NEW t \in Threads, FinishJob(t)
  PROVE  OrderInv'
<1> DEFINE h == Head(jobs[t])
           r == Tail(jobs[t])
<1>1. /\ UNCHANGED <<q, arg, tickets, ticket, lastRun>>
      /\ pc[t] = "exec" /\ pc' = [pc EXCEPT ![t] = "loop"]
      /\ jobs' = [jobs EXCEPT ![t] = r]
      /\ done' = done \union {h}
  BY DEF FinishJob, EndJob, Goto
<1>2. /\ pc \in [Threads -> Places] /\ jobs \in [Threads -> Seq(Jobs)]
      /\ ticket \in [Jobs -> Nat]
      /\ jobs[t] # <<>> /\ Elems(jobs[t]) \subseteq Jobs
  BY <1>1, ElemsJobs DEF OrderInv, TypeInv, TypeOK, LocalsOK
<1>3. /\ Elems(jobs[t]) = {h} \union Elems(r)
      /\ Sorted(r, ticket)
      /\ \A j \in Elems(r) : ticket[h] < ticket[j]
  BY <1>2, ElemsPop, SortedPop DEF OrderInv, BatchOK
<1>4. /\ Elems(q)' = Elems(q)
      /\ jobs'[t] = r /\ Elems(jobs[t])' = Elems(r)
      /\ \A u \in Threads : u # t => jobs'[u] = jobs[u] /\ Elems(jobs[u])' = Elems(jobs[u])
  <2>1. jobs'[t] = r /\ \A u \in Threads : u # t => jobs'[u] = jobs[u]
    BY <1>1, <1>2
  <2>2. Elems(q)' = Elems(q)
    BY <1>1 DEF Elems
  <2>3. Elems(jobs[t])' = Elems(r)
    BY <2>1 DEF Elems
  <2>4. \A u \in Threads : u # t => Elems(jobs[u])' = Elems(jobs[u])
    BY <2>1 DEF Elems
  <2> QED
    BY <2>1, <2>2, <2>3, <2>4
<1>5. AnnouncedOK' /\ QueueOK'
  BY <1>1, <1>4 DEF OrderInv, AnnouncedOK, QueueOK, Ticketed, Sorted
<1>6. BatchOK'
  <2> SUFFICES ASSUME NEW u \in Threads
               PROVE  (/\ Sorted(jobs[u], ticket)
                       /\ Ticketed(Elems(jobs[u]))
                       /\ Older(Elems(jobs[u]), Elems(q)))'
    BY DEF BatchOK
  <2>1. CASE u = t
    <3>1. Sorted(jobs[u], ticket)'
      BY <1>1, <1>3, <1>4, <2>1 DEF Sorted
    <3> QED
      BY <1>1, <1>3, <1>4, <2>1, <3>1 DEF OrderInv, BatchOK, Ticketed, Older
  <2>2. CASE u # t
    <3>1. Sorted(jobs[u], ticket)'
      BY <1>1, <1>4, <2>2 DEF OrderInv, BatchOK, Sorted
    <3> QED
      BY <1>1, <1>4, <2>2, <3>1 DEF OrderInv, BatchOK, Ticketed, Older
  <2> QED
    BY <2>1, <2>2
<1>7. DisjointOK'
  BY <1>3, <1>4 DEF OrderInv, DisjointOK
<1>8. RunOK'
  <2>1. Left(t)' = Elems(r) /\ Left(t) = Elems(r)
    BY <1>1, <1>2, <1>4 DEF Left
  <2>2. ASSUME NEW u \in Threads, u # t PROVE Left(u)' = Left(u)
    BY <1>1, <1>2, <1>4, <2>2, LeftSame
  <2>3. ASSUME NEW u \in Threads PROVE Left(u)' = Left(u)
    BY <2>1, <2>2
  <2> QED
    BY <1>1, <1>4, <2>3 DEF OrderInv, RunOK
<1>9. DoneOK'
  <2>1. Ticketed(done)'
    BY <1>1, <1>3 DEF OrderInv, DoneOK, BatchOK, Ticketed
  <2>2. done' \intersect Elems(q)' = {}
    <3>1. h \in Jobs /\ \A j \in Elems(q) : ticket[h] < ticket[j]
      BY <1>2, <1>3 DEF OrderInv, BatchOK, Older
    <3>2. h \notin Elems(q)
      BY <1>2, <3>1
    <3> QED
      BY <1>1, <1>4, <3>2 DEF OrderInv, DoneOK
  <2>3. h \notin Elems(r)
    BY <1>2, <1>3
  <2>4. ASSUME NEW u \in Threads PROVE done' \intersect Elems(jobs[u])' = {}
    BY <1>1, <1>3, <1>4, <2>3 DEF OrderInv, DoneOK, DisjointOK
  <2> QED
    BY <2>1, <2>2, <2>4 DEF DoneOK
<1> QED
  BY <1>5, <1>6, <1>7, <1>8, <1>9 DEF OrderInv

(* The counter has no part in the order, and nor has a step that leaves    *)
(* the jobs where they are.                                                *)
LEMMA OrderUnchanged ==
  ASSUME OrderInv, TypeInv',
         UNCHANGED <<q, arg, jobs, tickets, ticket, lastRun, done>>,
         \A u \in Threads : pc'[u] = "exec" <=> pc[u] = "exec"
  PROVE  OrderInv'
<1>1. Elems(q)' = Elems(q) /\ \A u \in Threads : Elems(jobs[u])' = Elems(jobs[u])
  BY DEF Elems
<1>2. AnnouncedOK' /\ QueueOK'
  BY <1>1 DEF OrderInv, AnnouncedOK, QueueOK, Sorted, Ticketed
<1>3. BatchOK'
  BY <1>1 DEF OrderInv, BatchOK, Sorted, Ticketed, Older
<1>4. DisjointOK' /\ DoneOK'
  BY <1>1 DEF OrderInv, DisjointOK, DoneOK, Ticketed
<1>5. ASSUME NEW u \in Threads PROVE Left(u)' = Left(u)
  BY LeftSame
<1>6. RunOK'
  BY <1>1, <1>5 DEF OrderInv, RunOK
<1> QED
  BY <1>2, <1>3, <1>4, <1>6 DEF OrderInv

LEMMA OrderStep ==
  ASSUME OrderInv, [Next]_vars
  PROVE  OrderInv' /\ \A t \in Threads : lastRun'[t] # lastRun[t] => lastRun'[t] > lastRun[t]
<1>1. TypeInv'
  BY TypeStep DEF OrderInv
<1>2. lastRun \in [Threads -> Nat]
  BY DEF OrderInv, TypeInv, TypeOK
<1>3. ASSUME NEW t \in Threads, NEW j \in Jobs, PushCount(t, j)
      PROVE  OrderInv' /\ lastRun' = lastRun
  BY <1>1, <1>3, OrderPushCount DEF PushCount, history
<1>4. ASSUME NEW t \in Threads, PushAppend(t)
      PROVE  OrderInv' /\ lastRun' = lastRun
  BY <1>1, <1>4, OrderPushAppend DEF PushAppend, PutInto
<1>5. ASSUME NEW t \in Threads, Drain(t)
      PROVE  OrderInv' /\ lastRun' = lastRun
  BY <1>1, <1>5, OrderDrain DEF Drain, TakeAll, history
<1>6. ASSUME NEW t \in Threads, StartJob(t)
      PROVE  /\ OrderInv' /\ lastRun'[t] > lastRun[t]
             /\ \A u \in Threads : u # t => lastRun'[u] = lastRun[u]
  BY <1>1, <1>2, <1>6, OrderStartJob DEF StartJob
<1>7. ASSUME NEW t \in Threads, FinishJob(t)
      PROVE  OrderInv' /\ lastRun' = lastRun
  BY <1>1, <1>7, OrderFinishJob DEF FinishJob, EndJob
<1>8. ASSUME NEW t \in Threads, Subtract(t)
      PROVE  OrderInv' /\ lastRun' = lastRun
  <2>1. \A u \in Threads : pc'[u] = "exec" <=> pc[u] = "exec"
    BY <1>8 DEF Subtract, LeaveWith, Goto, OrderInv, TypeInv, TypeOK
  <2> QED
    BY <1>1, <1>8, <2>1, OrderUnchanged DEF Subtract, LeaveWith, history
<1>9. CASE UNCHANGED vars
  BY <1>1, <1>9, OrderUnchanged DEF vars
<1> QED
  BY <1>3, <1>4, <1>5, <1>6, <1>7, <1>8, <1>9 DEF Next, Execute

LEMMA OrderInvariant == Safety => []OrderInv
<1>1. Init => OrderInv
  <2> SUFFICES ASSUME Init PROVE OrderInv
    OBVIOUS
  <2>1. TypeInv
    BY DEF Init, TypeInv, TypeOK, LocalsOK, Places
  <2>2. Elems(q) = {} /\ \A t \in Threads : Elems(jobs[t]) = {} /\ Left(t) = {}
    BY ElemsEmpty DEF Init, Left
  <2>3. AnnouncedOK /\ QueueOK
    BY <2>2, SortedEmpty DEF Init, AnnouncedOK, QueueOK, Ticketed
  <2>4. BatchOK
    BY <2>2, SortedEmpty DEF Init, BatchOK, Ticketed, Older
  <2>5. DisjointOK /\ RunOK /\ DoneOK
    BY <2>2 DEF Init, DisjointOK, RunOK, DoneOK, Ticketed
  <2> QED
    BY <2>1, <2>3, <2>4, <2>5 DEF OrderInv
<1>2. OrderInv /\ [Next]_vars => OrderInv'
  BY OrderStep
<1> QED
  BY <1>1, <1>2, PTL DEF Safety

-----------------------------------------------------------------------------
(***************************************************************************)
(* No job is in two places, for any number of threads that push and        *)
(* execute at the same time (JobQueue::Push, JobQueue::Execute).           *)
(***************************************************************************)
THEOREM OnePlace == Safety => []JobInOnePlace
<1>1. ASSUME OrderInv, NEW s \in Seq(Jobs), Sorted(s, ticket)
      PROVE  NoRepeats(s)
  <2> SUFFICES ASSUME NEW i \in 1..Len(s), NEW k \in 1..Len(s), s[i] = s[k]
               PROVE  i = k
    BY DEF NoRepeats
  <2>1. i < k \/ k < i \/ i = k
    OBVIOUS
  <2>2. ticket[s[i]] \in Nat
    BY <1>1 DEF OrderInv, TypeInv, TypeOK
  <2> QED
    BY <1>1, <2>1, <2>2 DEF Sorted
<1>2. OrderInv => JobInOnePlace
  <2> SUFFICES ASSUME OrderInv PROVE JobInOnePlace
    OBVIOUS
  <2>1. q \in Seq(Jobs) /\ ticket \in [Jobs -> Nat] /\ Elems(q) \subseteq Jobs
    BY ElemsJobs DEF OrderInv, TypeInv, TypeOK
  <2>2. NoRepeats(q) /\ Elems(q) \intersect done = {}
    BY <1>1, <2>1 DEF OrderInv, QueueOK, DoneOK
  <2>3. ASSUME NEW t \in Threads
        PROVE  /\ NoRepeats(jobs[t])
               /\ Elems(jobs[t]) \intersect (Elems(q) \union done) = {}
               /\ \A u \in Threads \ {t} : Elems(jobs[t]) \intersect Elems(jobs[u]) = {}
    <3>1. NoRepeats(jobs[t])
      BY <1>1 DEF OrderInv, BatchOK, TypeInv, TypeOK
    <3>2. Elems(jobs[t]) \intersect Elems(q) = {}
      BY <2>1 DEF OrderInv, BatchOK, Older
    <3>3. Elems(jobs[t]) \intersect done = {}
      BY DEF OrderInv, DoneOK
    <3>4. \A u \in Threads \ {t} : Elems(jobs[t]) \intersect Elems(jobs[u]) = {}
      BY DEF OrderInv, DisjointOK
    <3> QED
      BY <3>1, <3>2, <3>3, <3>4
  <2> QED
    BY <2>2, <2>3 DEF JobInOnePlace
<1> QED
  BY <1>2, OrderInvariant, PTL

(***************************************************************************)
(* A job that waits in the queue is overtaken by nobody, however many      *)
(* threads execute: every job started so far had arrived before it.        *)
(***************************************************************************)
THEOREM NotOvertaken == Safety => []QueueNotOvertaken
<1>1. OrderInv => QueueNotOvertaken
  BY DEF OrderInv, RunOK, QueueNotOvertaken
<1> QED
  BY <1>1, OrderInvariant, PTL

(***************************************************************************)
(* Each thread starts jobs in the order of their arrival, across all the   *)
(* batches it ever takes.                                                  *)
(***************************************************************************)
THEOREM RunsInOrder == Safety => ThreadRunsInOrder
<1>1. OrderInv /\ [Next]_vars =>
        [\A t \in Threads : lastRun'[t] # lastRun[t] => lastRun'[t] > lastRun[t]]_vars
  BY OrderStep
<1> QED
  BY <1>1, OrderInvariant, PTL DEF Safety, ThreadRunsInOrder

(***************************************************************************)
(* No job is dropped: a job that was appended stays in the queue or in a   *)
(* batch until it is done, whoever drains the queue meanwhile.             *)
(***************************************************************************)
THEOREM NoneDropped == Safety => []NoJobDropped
<1>1. Init => NoJobDropped
  BY DEF Init, NoJobDropped
<1>2. ASSUME TypeInv, NoJobDropped, [Next]_vars
      PROVE  NoJobDropped'
  <2> SUFFICES ASSUME NEW j \in Jobs, ticket'[j] # 0
               PROVE  \/ j \in Elems(q)' \union done'
                      \/ \E t \in Threads : j \in Elems(jobs[t])'
    BY DEF NoJobDropped
  <2> DEFINE Kept  == \/ j \in Elems(q) \union done
                      \/ \E t \in Threads : j \in Elems(jobs[t])
             Goal  == \/ j \in Elems(q)' \union done'
                      \/ \E t \in Threads : j \in Elems(jobs[t])'
  <2>0. Elems(q)' = Elems(q') /\ \A u \in Threads : Elems(jobs[u])' = Elems(jobs'[u])
    BY DEF Elems
  <2>1. ticket[j] # 0 => Kept
    BY <1>2 DEF NoJobDropped
  <2>2. ASSUME UNCHANGED <<q, jobs, ticket, done>>
        PROVE  Goal
    BY <2>0, <2>1, <2>2
  <2>3. ASSUME NEW t \in Threads, PushAppend(t)
        PROVE  Goal
    <3>1. /\ arg[t] \in Jobs /\ q \in Seq(Jobs)
          /\ Elems(q)' = Elems(Append(q, arg[t]))
          /\ \A u \in Threads : Elems(jobs[u])' = Elems(jobs[u])
          /\ done' = done
          /\ j # arg[t] => ticket'[j] = ticket[j]
      BY <1>2, <2>0, <2>3 DEF PushAppend, PutInto, Goto, TypeInv, TypeOK, LocalsOK
    <3>2. Elems(q)' = Elems(q) \union {arg[t]}
      BY <3>1, ElemsAppend
    <3> QED
      BY <2>1, <3>1, <3>2
  <2>4. ASSUME NEW t \in Threads, Drain(t)
        PROVE  Goal
    <3>1. jobs'[t] = q /\ \A u \in Threads : u # t => jobs'[u] = jobs[u]
      BY <1>2, <2>4 DEF Drain, TakeAll, TypeInv, TypeOK
    <3>2. /\ jobs[t] = <<>>
          /\ ticket' = ticket /\ done' = done
          /\ Elems(jobs[t])' = Elems(q)
          /\ \A u \in Threads : u # t => Elems(jobs[u])' = Elems(jobs[u])
      BY <1>2, <2>0, <2>4, <3>1 DEF Drain, TakeAll, Goto, history, TypeInv, LocalsOK
    <3> QED
      BY <2>1, <3>2, ElemsEmpty
  <2>5. ASSUME NEW t \in Threads, FinishJob(t)
        PROVE  Goal
    <3>1. jobs'[t] = Tail(jobs[t]) /\ \A u \in Threads : u # t => jobs'[u] = jobs[u]
      BY <1>2, <2>5 DEF FinishJob, EndJob, TypeInv, TypeOK
    <3>2. /\ jobs[t] \in Seq(Jobs) /\ jobs[t] # <<>>
          /\ ticket' = ticket /\ done' = done \union {Head(jobs[t])}
          /\ Elems(q)' = Elems(q)
          /\ Elems(jobs[t])' = Elems(Tail(jobs[t]))
          /\ \A u \in Threads : u # t => Elems(jobs[u])' = Elems(jobs[u])
      BY <1>2, <2>0, <2>5, <3>1 DEF FinishJob, EndJob, Goto, TypeInv, TypeOK, LocalsOK
    <3> QED
      BY <2>1, <3>2, ElemsPop
  <2> QED
    BY <1>2, <2>2, <2>3, <2>4, <2>5
    DEF Next, Execute, PushCount, StartJob, Subtract, LeaveWith, history, vars
<1> QED
  <2>1. Safety => []TypeInv
    <3>1. OrderInv => TypeInv
      BY DEF OrderInv
    <3> QED
      BY <3>1, OrderInvariant, PTL
  <2> QED
    BY <1>1, <1>2, <2>1, PTL DEF Safety

(***************************************************************************)
(* A job is in exactly one place from the moment it was appended.          *)
(***************************************************************************)
THEOREM ExactlyOnePlace == Safety => []JobInExactlyOnePlace
BY OnePlace, NoneDropped, PTL DEF JobInExactlyOnePlace

-----------------------------------------------------------------------------
(***************************************************************************)
(* The work pool.  Each step moves at most one job, by one stage.          *)
(***************************************************************************)
Stages == [j \in Jobs |-> Stage(j)]

LEMMA StagesSame ==
  ASSUME \A j \in Jobs : /\ j \in done' <=> j \in done
                         /\ Running(j)' <=> Running(j)
                         /\ Waiting(j)' <=> Waiting(j)
  PROVE  Stages' = Stages
BY DEF Stages, Stage

LEMMA StagesMove ==
  ASSUME NEW j \in Jobs, NEW from, NEW to,
         Stage(j) = from, Stage(j)' = to,
         \A k \in Jobs \ {j} : /\ k \in done' <=> k \in done
                               /\ Running(k)' <=> Running(k)
                               /\ Waiting(k)' <=> Waiting(k)
  PROVE  Pool!Advance(j, from, to)
<1>1. \A k \in Jobs \ {j} : Stage(k)' = Stage(k)
  BY DEF Stage
<1> HIDE DEF Stage
<1>2. [k \in Jobs |-> Stage(k)]' = [[k \in Jobs |-> Stage(k)] EXCEPT ![j] = to]
  BY <1>1
<1> QED
  BY <1>2 DEF Pool!Advance

(* What a thread runs is in its batch.                                     *)
LEMMA RunningIsInBatch ==
  ASSUME OrderInv, NEW t \in Threads, pc[t] = "exec"
  PROVE  Head(jobs[t]) \in Elems(jobs[t]) /\ Head(jobs[t]) \in Jobs
BY ElemsPop, PopJob DEF OrderInv, TypeInv, TypeOK, LocalsOK

(* Where the queue, the batches and what runs stay, so do the stages.      *)
LEMMA PoolRests ==
  ASSUME OrderInv, UNCHANGED <<q, jobs, done>>,
         \A t \in Threads : pc'[t] = "exec" <=> pc[t] = "exec"
  PROVE  Stages' = Stages
<1>1. \A j \in Jobs : (Running(j)' <=> Running(j)) /\ (Waiting(j)' <=> Waiting(j))
  BY DEF Running, Waiting, Elems
<1> QED
  BY <1>1, StagesSame

LEMMA AppendSubmits ==
  ASSUME OrderInv, NEW t \in Threads, PushAppend(t), NEW j \in Jobs, j = arg[t]
  PROVE  Pool!Submit(j)
<1>1. /\ j \in Jobs /\ ticket[j] = 0 /\ q \in Seq(Jobs)
      /\ q' = Append(q, j) /\ UNCHANGED <<jobs, done>>
      /\ \A u \in Threads : pc'[u] = "exec" <=> pc[u] = "exec"
  BY DEF PushAppend, PutInto, Goto, OrderInv, AnnouncedOK, TypeInv, TypeOK, LocalsOK
<1>2. j \notin Elems(q) \union done /\ \A u \in Threads : j \notin Elems(jobs[u])
  BY <1>1 DEF OrderInv, QueueOK, BatchOK, DoneOK, Ticketed
<1>3. Elems(q)' = Elems(q) \union {j} /\ \A u \in Threads : Elems(jobs[u])' = Elems(jobs[u])
  <2>1. Elems(q)' = Elems(Append(q, j)) /\ \A u \in Threads : Elems(jobs[u])' = Elems(jobs[u])
    BY <1>1 DEF Elems
  <2> QED
    BY <1>1, <2>1, ElemsAppend
<1>4. ~Running(j)
  BY <1>2, RunningIsInBatch DEF Running
<1>5. \A k \in Jobs : Running(k)' <=> Running(k)
  BY <1>1 DEF Running
<1>6. ~Waiting(j) /\ Waiting(j)' /\ \A k \in Jobs \ {j} : Waiting(k)' <=> Waiting(k)
  BY <1>2, <1>3 DEF Waiting
<1>7. Stage(j) = "new" /\ Stage(j)' = "submitted"
  BY <1>1, <1>2, <1>4, <1>5, <1>6 DEF Stage
<1> QED
  BY <1>1, <1>5, <1>6, <1>7, StagesMove DEF Pool!Submit

LEMMA DrainRests ==
  ASSUME OrderInv, NEW t \in Threads, Drain(t)
  PROVE  Stages' = Stages
<1>1. /\ pc[t] = "idle" /\ jobs[t] = <<>> /\ q' = <<>> /\ done' = done
      /\ jobs'[t] = q /\ \A u \in Threads : u # t => jobs'[u] = jobs[u]
      /\ \A u \in Threads : pc'[u] = "exec" <=> pc[u] = "exec"
      /\ pc'[t] # "exec"
  BY DEF Drain, TakeAll, Goto, history, OrderInv, TypeInv, TypeOK, LocalsOK
<1>2. /\ Elems(q)' = {} /\ Elems(jobs[t])' = Elems(q) /\ Elems(jobs[t]) = {}
      /\ \A u \in Threads : u # t => Elems(jobs[u])' = Elems(jobs[u])
  BY <1>1 DEF Elems
<1>3. \A j \in Jobs : Waiting(j)' <=> Waiting(j)
  BY <1>2 DEF Waiting
<1>4. \A j \in Jobs : Running(j)' <=> Running(j)
  BY <1>1 DEF Running
<1> QED
  BY <1>1, <1>3, <1>4, StagesSame

LEMMA StartStarts ==
  ASSUME OrderInv, NEW t \in Threads, StartJob(t), NEW j \in Jobs, j = Head(jobs[t])
  PROVE  Pool!Start(j)
<1>1. /\ jobs[t] \in Seq(Jobs) /\ jobs[t] # <<>> /\ pc[t] = "loop" /\ pc'[t] = "exec"
      /\ UNCHANGED <<q, jobs, done>>
      /\ \A u \in Threads : u # t => pc'[u] = pc[u]
  BY DEF StartJob, Goto, OrderInv, TypeInv, TypeOK
<1>2. j \in Jobs /\ j \in Elems(jobs[t])
  BY <1>1, PopJob, ElemsPop
<1>3. j \notin done /\ \A u \in Threads : u # t => j \notin Elems(jobs[u])
  BY <1>2 DEF OrderInv, DoneOK, DisjointOK
<1>4. ~Running(j)
  BY <1>1, <1>3, RunningIsInBatch DEF Running
<1>5. Running(j)' /\ \A k \in Jobs \ {j} : Running(k)' <=> Running(k)
  BY <1>1 DEF Running
<1>6. \A k \in Jobs : Waiting(k)' <=> Waiting(k)
  BY <1>1 DEF Waiting, Elems
<1>7. Waiting(j)
  BY <1>2 DEF Waiting
<1>8. Stage(j) = "submitted" /\ Stage(j)' = "running"
  BY <1>1, <1>3, <1>4, <1>5, <1>7 DEF Stage
<1> QED
  BY <1>1, <1>2, <1>5, <1>6, <1>8, StagesMove DEF Pool!Start

LEMMA FinishFinishes ==
  ASSUME OrderInv, NEW t \in Threads, FinishJob(t), NEW j \in Jobs, j = Head(jobs[t])
  PROVE  Pool!Finish(j)
<1>1. /\ jobs[t] \in Seq(Jobs) /\ jobs[t] # <<>> /\ pc[t] = "exec" /\ pc'[t] = "loop"
      /\ q' = q /\ done' = done \union {j}
      /\ jobs'[t] = Tail(jobs[t]) /\ \A u \in Threads : u # t => jobs'[u] = jobs[u]
      /\ \A u \in Threads : u # t => pc'[u] = pc[u]
  BY DEF FinishJob, EndJob, Goto, OrderInv, TypeInv, TypeOK, LocalsOK
<1>2. j \in Jobs /\ j \in Elems(jobs[t]) /\ Elems(jobs[t]) = {j} \union Elems(Tail(jobs[t]))
  BY <1>1, PopJob, ElemsPop
<1>3. j \notin done
  BY <1>2 DEF OrderInv, DoneOK
<1>4. Running(j)
  BY <1>1 DEF Running
<1>5. \A k \in Jobs \ {j} : Running(k)' <=> Running(k)
  BY <1>1 DEF Running
<1>6. /\ Elems(q)' = Elems(q) /\ Elems(jobs[t])' = Elems(Tail(jobs[t]))
      /\ \A u \in Threads : u # t => Elems(jobs[u])' = Elems(jobs[u])
  BY <1>1 DEF Elems
<1>7. \A k \in Jobs \ {j} : Waiting(k)' <=> Waiting(k)
  BY <1>2, <1>6 DEF Waiting
<1>8. Stage(j) = "running" /\ Stage(j)' = "done"
  BY <1>1, <1>3, <1>4 DEF Stage
<1> QED
  BY <1>1, <1>2, <1>5, <1>7, <1>8, StagesMove DEF Pool!Finish

LEMMA PoolStep == OrderInv /\ [Next]_vars => [Pool!Next]_Stages
<1> SUFFICES ASSUME OrderInv, [Next]_vars PROVE Pool!Next \/ Stages' = Stages
  OBVIOUS
<1>1. ASSUME NEW t \in Threads, NEW j \in Jobs, PushCount(t, j) PROVE Stages' = Stages
  <2>1. UNCHANGED <<q, jobs, done>> /\ \A u \in Threads : pc'[u] = "exec" <=> pc[u] = "exec"
    BY <1>1 DEF PushCount, Goto, history, OrderInv, TypeInv, TypeOK
  <2> QED
    BY <2>1, PoolRests
<1>2. ASSUME NEW t \in Threads, PushAppend(t) PROVE Pool!Next
  <2>1. arg[t] \in Jobs
    BY <1>2 DEF PushAppend, PutInto, Goto, OrderInv, TypeInv, TypeOK, LocalsOK
  <2> QED
    BY <1>2, <2>1, AppendSubmits DEF Pool!Next
<1>3. ASSUME NEW t \in Threads, Drain(t) PROVE Stages' = Stages
  BY <1>3, DrainRests
<1>4. ASSUME NEW t \in Threads, StartJob(t) PROVE Pool!Next
  <2>1. Head(jobs[t]) \in Jobs
    BY <1>4, PopJob DEF StartJob, OrderInv, TypeInv, TypeOK
  <2> QED
    BY <1>4, <2>1, StartStarts DEF Pool!Next
<1>5. ASSUME NEW t \in Threads, FinishJob(t) PROVE Pool!Next
  <2>1. Head(jobs[t]) \in Jobs
    BY <1>5, RunningIsInBatch DEF FinishJob, EndJob, Goto
  <2> QED
    BY <1>5, <2>1, FinishFinishes DEF Pool!Next
<1>6. ASSUME NEW t \in Threads, Subtract(t) PROVE Stages' = Stages
  <2>1. UNCHANGED <<q, jobs, done>> /\ \A u \in Threads : pc'[u] = "exec" <=> pc[u] = "exec"
    BY <1>6 DEF Subtract, LeaveWith, Goto, history, OrderInv, TypeInv, TypeOK
  <2> QED
    BY <2>1, PoolRests
<1>7. CASE UNCHANGED vars
  BY <1>7, PoolRests DEF vars
<1> QED
  BY <1>1, <1>2, <1>3, <1>4, <1>5, <1>6, <1>7 DEF Next, Execute

(***************************************************************************)
(* The queue implements the safety half of WorkPool: however many threads  *)
(* push and execute, each job is submitted, started and finished once, in  *)
(* this order.                                                             *)
(***************************************************************************)
THEOREM Implements == Safety => Pool!Safety
<1>1. Init => Pool!Init
  <2> SUFFICES ASSUME Init PROVE Pool!Init
    OBVIOUS
  <2>1. Elems(q) = {} /\ done = {} /\ \A t \in Threads : Elems(jobs[t]) = {} /\ pc[t] = "idle"
    BY ElemsEmpty DEF Init
  <2>2. \A j \in Jobs : Stage(j) = "new"
    BY <2>1 DEF Stage, Running, Waiting
  <2> QED
    BY <2>2 DEF Pool!Init
<1>2. OrderInv /\ [Next]_vars => [Pool!Next]_Stages
  BY PoolStep
<1> QED
  BY <1>1, <1>2, OrderInvariant, PTL DEF Safety, Pool!Safety, Stages

-----------------------------------------------------------------------------
(***************************************************************************)
(* The counter.  What it counts is a finite set at each moment, and each   *)
(* step changes the counter and the set alike: a thread outside of Execute *)
(* has nothing taken, so that a batch is new when it is taken, and is      *)
(* given back as a whole.                                                  *)
(***************************************************************************)
Batch(t, n) == {t} \X (1..n)

SizeInv ==
  /\ \A t \in Threads : pc[t] \in {"idle", "push"} => jobCount[t] = 0
  /\ IsFiniteSet(Announced) /\ IsFiniteSet(Taken)
  /\ QSizeExact

LEMMA BatchSize ==
  ASSUME NEW t, NEW n \in Nat
  PROVE  IsFiniteSet(Batch(t, n)) /\ Cardinality(Batch(t, n)) = n
<1>1. IsFiniteSet({t}) /\ Cardinality({t}) = 1
  BY FS_Singleton
<1>2. IsFiniteSet(1..n) /\ Cardinality(1..n) = n
  BY FS_Interval
<1>3. /\ IsFiniteSet({t} \X (1..n))
      /\ Cardinality({t} \X (1..n)) = Cardinality({t}) * Cardinality(1..n)
  BY <1>1, <1>2, FS_Product
<1>4. Cardinality({t} \X (1..n)) = 1 * n
  BY <1>1, <1>2, <1>3
<1> QED BY <1>3, <1>4 DEF Batch

LEMMA TakenSame ==
  ASSUME UNCHANGED jobCount
  PROVE  Taken' = Taken
BY DEF Taken

(* The batches but for one, and that one, make up what is taken. *)
LEMMA TakenParts ==
  ASSUME NEW t \in Threads
  PROVE  LET others == UNION {Batch(u, jobCount[u]) : u \in Threads \ {t}} IN
         /\ Taken = others \union Batch(t, jobCount[t])
         /\ \A n : others \intersect Batch(t, n) = {}
BY DEF Taken, Batch

LEMMA TakenChange ==
  ASSUME jobCount \in [Threads -> Nat], IsFiniteSet(Taken),
         NEW t \in Threads, NEW n \in Nat, jobCount' = [jobCount EXCEPT ![t] = n]
  PROVE  /\ IsFiniteSet(Taken')
         /\ Cardinality(Taken') = Cardinality(Taken) - jobCount[t] + n
<1> DEFINE others == UNION {Batch(u, jobCount[u]) : u \in Threads \ {t}}
           old == Batch(t, jobCount[t])
           new == Batch(t, n)
<1>1. Taken = others \union old /\ others \intersect old = {} /\ others \intersect new = {}
  BY TakenParts
<1>2. Taken' = others \union new
  <2>1. \A u \in Threads \ {t} : jobCount'[u] = jobCount[u]
    OBVIOUS
  <2>2. jobCount'[t] = n
    OBVIOUS
  <2>3. (UNION {Batch(u, jobCount'[u]) : u \in Threads \ {t}}) = others
    BY <2>1
  <2>4. Taken' = (UNION {Batch(u, jobCount'[u]) : u \in Threads \ {t}}) \union Batch(t, jobCount'[t])
    BY DEF Taken, Batch
  <2> QED BY <2>2, <2>3, <2>4
<1>t. jobCount[t] \in Nat
  OBVIOUS
<1>3. /\ IsFiniteSet(old) /\ Cardinality(old) = jobCount[t] /\ jobCount[t] \in Nat
      /\ IsFiniteSet(new) /\ Cardinality(new) = n
  BY <1>t, BatchSize
<1> HIDE DEF others, old, new
<1>4. others = Taken \ old /\ Taken \intersect old = old
  BY <1>1
<1>5. IsFiniteSet(others) /\ Cardinality(others) = Cardinality(Taken) - jobCount[t]
  <2>1. IsFiniteSet(Taken \ old)
        /\ Cardinality(Taken \ old) = Cardinality(Taken) - Cardinality(Taken \intersect old)
    BY FS_Difference
  <2> QED BY <1>3, <1>4, <2>1
<1>6. IsFiniteSet(others \union new)
      /\ Cardinality(others \union new) = Cardinality(others) + n - Cardinality(others \intersect new)
  BY <1>3, <1>5, FS_Union
<1>7. Cardinality(others \intersect new) = 0
  BY <1>1, FS_EmptySet
<1>8. Cardinality(Taken) \in Nat
  BY FS_CardinalityType
<1>9. Cardinality(others \union new) = Cardinality(Taken) - jobCount[t] + n
  BY <1>3, <1>5, <1>6, <1>7, <1>8
<1> QED BY <1>2, <1>6, <1>9

LEMMA SizeTypes ==
  ASSUME TypeInv, SizeInv
  PROVE  /\ Cardinality(Announced) \in Nat /\ Cardinality(Taken) \in Nat
         /\ Len(q) \in Nat /\ qSize \in Int
         /\ qSize = Cardinality(Announced) + Len(q) + Cardinality(Taken)
<1>1. Cardinality(Announced) \in Nat /\ Cardinality(Taken) \in Nat
  BY FS_CardinalityType DEF SizeInv
<1>2. Len(q) \in Nat /\ qSize \in Int
  BY DEF TypeInv, TypeOK
<1> QED BY <1>1, <1>2 DEF SizeInv, QSizeExact

LEMMA SizeStep ==
  ASSUME TypeInv, SizeInv, [Next]_vars
  PROVE  SizeInv'
<1> USE DEF Goto
<1>t. /\ pc \in [Threads -> Places] /\ jobCount \in [Threads -> Nat] /\ q \in Seq(Jobs)
      /\ arg \in [Threads -> Jobs \union {NoJob}]
  BY DEF TypeInv, TypeOK
<1>s. /\ Cardinality(Announced) \in Nat /\ Cardinality(Taken) \in Nat
      /\ Len(q) \in Nat /\ qSize \in Int
      /\ qSize = Cardinality(Announced) + Len(q) + Cardinality(Taken)
      /\ IsFiniteSet(Announced) /\ IsFiniteSet(Taken)
  BY SizeTypes DEF SizeInv
<1>1. ASSUME NEW t \in Threads, NEW j \in Jobs, PushCount(t, j)
      PROVE  SizeInv'
  <2>1. Announced' = Announced \union {t} /\ t \notin Announced
    BY <1>1, <1>t DEF PushCount, Announced
  <2>2. IsFiniteSet(Announced') /\ Cardinality(Announced') = Cardinality(Announced) + 1
    BY <1>s, <2>1, FS_AddElement
  <2>3. Taken' = Taken /\ qSize' = qSize + 1 /\ q' = q
    BY <1>1, TakenSame DEF PushCount
  <2>4. \A u \in Threads : pc'[u] \in {"idle", "push"} => jobCount'[u] = 0
    BY <1>1, <1>t DEF PushCount, SizeInv
  <2>5. qSize' = Cardinality(Announced') + Len(q') + Cardinality(Taken')
    BY <1>s, <2>2, <2>3
  <2> QED BY <1>s, <2>2, <2>3, <2>4, <2>5 DEF SizeInv, QSizeExact
<1>2. ASSUME NEW t \in Threads, PushAppend(t)
      PROVE  SizeInv'
  <2>1. Announced' = Announced \ {t} /\ t \in Announced
    BY <1>2, <1>t DEF PushAppend, PutInto, Announced
  <2>2. IsFiniteSet(Announced') /\ Cardinality(Announced') = Cardinality(Announced) - 1
    BY <1>s, <2>1, FS_RemoveElement
  <2>3. Taken' = Taken /\ qSize' = qSize /\ q' = Append(q, arg[t])
    BY <1>2, TakenSame DEF PushAppend, PutInto
  <2>4. Len(q') = Len(q) + 1
    <3>1. arg[t] \in Jobs
      BY <1>2, <1>t DEF PushAppend, PutInto, TypeInv, LocalsOK
    <3> QED BY <1>t, <2>3, <3>1
  <2>5. \A u \in Threads : pc'[u] \in {"idle", "push"} => jobCount'[u] = 0
    BY <1>2, <1>t DEF PushAppend, PutInto, SizeInv
  <2>6. qSize' = Cardinality(Announced') + Len(q') + Cardinality(Taken')
    BY <1>s, <2>2, <2>3, <2>4
  <2> QED BY <1>s, <2>2, <2>3, <2>5, <2>6 DEF SizeInv, QSizeExact
<1>3. ASSUME NEW t \in Threads, Drain(t)
      PROVE  SizeInv'
  <2>1. /\ jobCount[t] = 0 /\ jobCount' = [jobCount EXCEPT ![t] = Len(q)]
        /\ qSize' = qSize /\ q' = <<>>
    BY <1>3 DEF Drain, TakeAll, SizeInv
  <2>2. Announced' = Announced
    BY <1>3, <1>t DEF Drain, TakeAll, Announced
  <2>3. IsFiniteSet(Taken') /\ Cardinality(Taken') = Cardinality(Taken) - jobCount[t] + Len(q)
    BY <1>t, <1>s, <2>1, TakenChange
  <2>4. Len(q') = 0
    BY <2>1
  <2>5. \A u \in Threads : pc'[u] \in {"idle", "push"} => jobCount'[u] = 0
    BY <1>3, <1>t DEF Drain, TakeAll, SizeInv
  <2>6. qSize' = Cardinality(Announced') + Len(q') + Cardinality(Taken')
    BY <1>s, <2>1, <2>2, <2>3, <2>4
  <2> QED BY <1>s, <2>2, <2>3, <2>5, <2>6 DEF SizeInv, QSizeExact
<1>4. ASSUME NEW t \in Threads, StartJob(t) \/ FinishJob(t)
      PROVE  SizeInv'
  <2>1. Announced' = Announced /\ UNCHANGED <<qSize, q, jobCount>>
    BY <1>4, <1>t DEF StartJob, FinishJob, EndJob, Announced
  <2>2. Taken' = Taken
    BY <2>1, TakenSame
  <2>3. \A u \in Threads : pc'[u] \in {"idle", "push"} => jobCount'[u] = 0
    BY <1>4, <1>t, <2>1 DEF StartJob, FinishJob, EndJob, SizeInv
  <2> QED BY <1>s, <2>1, <2>2, <2>3 DEF SizeInv, QSizeExact
<1>5. ASSUME NEW t \in Threads, Subtract(t)
      PROVE  SizeInv'
  <2>1. /\ jobCount' = [jobCount EXCEPT ![t] = 0] /\ jobCount[t] \in Nat
        /\ qSize' = qSize - jobCount[t] /\ q' = q
    BY <1>5, <1>t DEF Subtract, LeaveWith
  <2>2. Announced' = Announced
    BY <1>5, <1>t DEF Subtract, LeaveWith, Announced
  <2>3. IsFiniteSet(Taken') /\ Cardinality(Taken') = Cardinality(Taken) - jobCount[t] + 0
    BY <1>t, <1>s, <2>1, TakenChange
  <2>4. \A u \in Threads : pc'[u] \in {"idle", "push"} => jobCount'[u] = 0
    BY <1>5, <1>t DEF Subtract, LeaveWith, SizeInv
  <2>5. qSize' = Cardinality(Announced') + Len(q') + Cardinality(Taken')
    BY <1>s, <2>1, <2>2, <2>3
  <2> QED BY <1>s, <2>2, <2>3, <2>4, <2>5 DEF SizeInv, QSizeExact
<1>6. ASSUME UNCHANGED vars
      PROVE  SizeInv'
  BY <1>6, TakenSame DEF vars, SizeInv, QSizeExact, Announced
<1> QED BY <1>1, <1>2, <1>3, <1>4, <1>5, <1>6 DEF Next, Execute

(***************************************************************************)
(* The counter never drifts: whatever the threads do between the increment *)
(* and the lock, and between the lock and the subtraction, _qSize is the   *)
(* number of jobs announced, queued or taken, for any number of threads.   *)
(***************************************************************************)
THEOREM CounterExact == Safety => []QSizeExact
<1>1. Init => SizeInv
  <2> SUFFICES ASSUME Init PROVE SizeInv
    OBVIOUS
  <2>1. Announced = {} /\ Len(q) = 0 /\ qSize = 0
    BY DEF Init, Announced
  <2>2. Taken = {}
    BY DEF Init, Taken
  <2>3. \A t \in Threads : jobCount[t] = 0
    BY DEF Init
  <2> QED BY <2>1, <2>2, <2>3, FS_EmptySet DEF SizeInv, QSizeExact
<1>2. Init => TypeInv
  BY DEF Init, TypeInv, TypeOK, LocalsOK, Places
<1>3. SizeInv => QSizeExact
  BY DEF SizeInv
<1> QED BY <1>1, <1>2, <1>3, TypeStep, SizeStep, PTL DEF Safety

=============================================================================
