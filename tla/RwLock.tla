------------------------------- MODULE RwLock -------------------------------
(***************************************************************************)
(* CoreLib/LockUtils: the lock of the service, of a job queue and of a     *)
(* session, over pthread_rwlock_t.  Both operations spin on a try and then *)
(* call the blocking form as well.  For a reader that is a second hold, of *)
(* which ReadUnLock gives back one; for a writer it is refused, since the  *)
(* thread has the lock already (EDEADLK).                                  *)
(*                                                                         *)
(* The users of the lock of the service are AddSession and ReleaseSession, *)
(* which write, and the two forms of Broadcast, which read and which       *)
(* nothing in the repository calls so far.                                 *)
(***************************************************************************)
EXTENDS Integers, FiniteSets

CONSTANTS
  Threads,
  MaxReads       \* bound: how many read sections there will be

ASSUME ThreadsAssumption == IsFiniteSet(Threads)
ASSUME BoundAssumption == MaxReads \in Nat

VARIABLES
  pc,
  holds,         \* pthread: how many read holds there are
  writer,        \* pthread: the threads (one, or none) that hold it for writing
  reads          \* history: how many read sections were begun

vars == <<pc, holds, writer, reads>>

Goto(t, from, to) == pc[t] = from /\ pc' = [pc EXCEPT ![t] = to]
At(places) == {t \in Threads : pc[t] \in places}

Init ==
  /\ pc = [t \in Threads |-> "idle"]
  /\ holds = 0
  /\ writer = {}
  /\ reads = 0

-----------------------------------------------------------------------------
(***************************************************************************)
(* A broadcast reads.                                                      *)
(***************************************************************************)
WantRead(t) ==
  /\ reads < MaxReads
  /\ Goto(t, "idle", "tryrdlock")
  /\ reads' = reads + 1
  /\ UNCHANGED <<holds, writer>>

TryRdlock(t) ==
  /\ writer = {}
  /\ Goto(t, "tryrdlock", "rdlock")
  /\ holds' = holds + 1
  /\ UNCHANGED <<writer, reads>>

\* Waits while there is a writer, which cannot be.
Rdlock(t) ==
  /\ writer = {}
  /\ Goto(t, "rdlock", "reading")
  /\ holds' = holds + 1
  /\ UNCHANGED <<writer, reads>>

\* Gives back one hold of the two.
ReadUnLock(t) ==
  /\ Goto(t, "reading", "idle")
  /\ holds' = holds - 1
  /\ UNCHANGED <<writer, reads>>

-----------------------------------------------------------------------------
(***************************************************************************)
(* Adding and releasing a session write.                                   *)
(***************************************************************************)
WantWrite(t) ==
  /\ Goto(t, "idle", "trywrlock")
  /\ UNCHANGED <<holds, writer, reads>>

TryWrlockIf(t, free) ==
  /\ free
  /\ Goto(t, "trywrlock", "wrlock")
  /\ writer' = {t}
  /\ UNCHANGED <<holds, reads>>

\* Mutant: a writer spins as a reader does.
TryWrlockShared(t) == TryWrlockIf(t, writer = {})

TryWrlock(t) == TryWrlockIf(t, writer = {} /\ holds = 0)

\* The thread is the writer: refused at once.
Wrlock(t) ==
  /\ Goto(t, "wrlock", "writing")
  /\ UNCHANGED <<holds, writer, reads>>

EndWrite(t, left) ==
  /\ Goto(t, "writing", "idle")
  /\ writer' = left
  /\ UNCHANGED <<holds, reads>>

\* Mutant: a path without the guard forgets to give it back.
WriteUnLockForgotten(t) == EndWrite(t, writer)

WriteUnLock(t) == EndWrite(t, {})

-----------------------------------------------------------------------------
ReadLock(t) == TryRdlock(t) \/ Rdlock(t)
WriteLock(t) == TryWrlock(t) \/ Wrlock(t)

Next ==
  \E t \in Threads :
    \/ WantRead(t) \/ ReadLock(t) \/ ReadUnLock(t)
    \/ WantWrite(t) \/ WriteLock(t) \/ WriteUnLock(t)

(***************************************************************************)
(* No section lasts for ever, and a thread that tries again and again gets *)
(* a lock that stays free.  That is all: a try may come at the wrong time  *)
(* whenever the lock is free only now and then.                            *)
(***************************************************************************)
Fairness ==
  \A t \in Threads :
    /\ WF_vars(ReadLock(t) \/ ReadUnLock(t))
    /\ WF_vars(WriteLock(t) \/ WriteUnLock(t))

Safety == Init /\ [][Next]_vars
Spec == Safety /\ Fairness

-----------------------------------------------------------------------------
TypeOK ==
  /\ pc \in [Threads -> {"idle", "tryrdlock", "rdlock", "reading",
                         "trywrlock", "wrlock", "writing"}]
  /\ holds \in Nat
  /\ writer \subseteq Threads
  /\ reads \in Nat

(***************************************************************************)
(* The comment at LockUtils.cpp:37: a trywrlock alone keeps readers out as *)
(* well.  While one thread writes nobody else reads or writes.             *)
(***************************************************************************)
Readers == At({"rdlock", "reading"})
Writers == At({"wrlock", "writing"})

Exclusion == \A t \in Writers : Readers = {} /\ Writers = {t}

(***************************************************************************)
(* Every read section that has ended has left a hold behind.               *)
(***************************************************************************)
HoldsExact ==
  holds = reads - Cardinality(At({"tryrdlock"})) + Cardinality(At({"reading"}))

(***************************************************************************)
(* Nobody can be sure to get in, but the lock never stands still: a thread *)
(* that tries for ever is passed by other writers again and again, each of *)
(* which gets in and out.  A writer may also wait for good because a       *)
(* reader has been in, whose second hold stays.                            *)
(***************************************************************************)
HandedOn == []<>(Writers = {}) /\ []<>(Writers # {})

WaitsOnlyForOthers ==
  \A t \in Threads :
    /\ <>[](pc[t] = "tryrdlock") => HandedOn
    /\ <>[](pc[t] = "trywrlock") => HandedOn \/ <>(holds > 0)

(***************************************************************************)
(* As far as safety goes it is a read-write lock.                          *)
(***************************************************************************)
Mutex == INSTANCE RwMutex WITH readers <- Readers, writers <- Writers

ImplementsRwMutex == Mutex!Spec

=============================================================================
