------------------------------ MODULE RoomTick ------------------------------
(***************************************************************************)
(* BS_GameRoom::RoomTask: every thread that comes round the main loop      *)
(* looks at the clock, and if more than _taskTime has passed since         *)
(* _tickTime tries to become the one that moves the monsters.              *)
(*                                                                         *)
(* Every access to shared memory is a step of its own: the clock is read   *)
(* before _tickTime, and the period is checked before the flag.            *)
(* The times are uint64 in the code; here they count modulo Modulus.       *)
(* _tickTime is a plain uint64 that two threads may read and write at the  *)
(* same time; an aligned load or store of it is one access on the          *)
(* platforms this is built for.                                            *)
(***************************************************************************)
EXTENDS Naturals

CONSTANTS
  Runners,   \* the threads that run the main loop
  Period,    \* _taskTime
  Modulus,   \* 2^64 in the code
  Horizon    \* bound: how far the clock runs ahead of a time still in use

ASSUME TimeAssumption ==
  /\ Period \in Nat /\ Horizon \in Nat /\ Modulus \in Nat
  /\ Period + 1 < Horizon
  /\ Horizon + Period < Modulus

VARIABLES
  now,         \* the clock: GetTickCount64_OS()
  tickTime,    \* _tickTime
  isLoopTask,  \* isLoopTask
  at,          \* where each thread is
  taskTick,    \* taskTick[t]: the clock as thread t read it last
  fresh        \* history: has nobody written _tickTime since t read the clock?

taskVars == <<now, tickTime, isLoopTask, at, taskTick, fresh>>

Times  == 0..(Modulus - 1)
Inside == {"task", "stamp", "store", "free"}     \* between the CAS and the exchange
Places == {"idle", "check", "load", "cas"} \union Inside

Since(a, b) == (a + (Modulus - b)) % Modulus     \* the uint64 a - b

TaskGoto(t, from, to) ==
  /\ at[t] = from
  /\ at' = [at EXCEPT ![t] = to]

-----------------------------------------------------------------------------
TaskInit ==
  /\ now = 0
  /\ tickTime = 0
  /\ isLoopTask = FALSE
  /\ at = [t \in Runners |-> "idle"]
  /\ taskTick = [t \in Runners |-> 0]
  /\ fresh = [t \in Runners |-> FALSE]

-----------------------------------------------------------------------------
(***************************************************************************)
(* The check of the period.                                                *)
(***************************************************************************)
ReadClock(t) ==
  /\ TaskGoto(t, "idle", "check")
  /\ taskTick' = [taskTick EXCEPT ![t] = now]
  /\ fresh' = [fresh EXCEPT ![t] = TRUE]
  /\ UNCHANGED <<now, tickTime, isLoopTask>>

\* Mutant: nothing is compared to the period.
AnyTime(t) ==
  /\ TaskGoto(t, "check", "load")
  /\ UNCHANGED <<now, tickTime, isLoopTask, taskTick, fresh>>

CheckPeriod(t) ==
  /\ IF Since(taskTick[t], tickTime) > Period
       THEN TaskGoto(t, "check", "load")
       ELSE TaskGoto(t, "check", "idle")
  /\ UNCHANGED <<now, tickTime, isLoopTask, taskTick, fresh>>

(***************************************************************************)
(* The flag: a load first, and a compare-exchange from false to true only  *)
(* if it read false.                                                       *)
(***************************************************************************)
LoadFlag(t) ==
  /\ TaskGoto(t, "load", IF isLoopTask THEN "idle" ELSE "cas")
  /\ UNCHANGED <<now, tickTime, isLoopTask, taskTick, fresh>>

\* Mutant: a plain store in the place of the compare-exchange.
SetFlag(t) ==
  /\ TaskGoto(t, "cas", "task")
  /\ isLoopTask' = TRUE
  /\ UNCHANGED <<now, tickTime, taskTick, fresh>>

TakeFlag(t) ==
  /\ TaskGoto(t, "cas", IF isLoopTask THEN "idle" ELSE "task")
  /\ isLoopTask' = TRUE
  /\ UNCHANGED <<now, tickTime, taskTick, fresh>>

(***************************************************************************)
(* SpanMoster() and MoveMosters(); then the new _tickTime, and the flag is *)
(* given back last.                                                        *)
(***************************************************************************)
LoopTask(t) ==
  /\ TaskGoto(t, "task", "stamp")
  /\ UNCHANGED <<now, tickTime, isLoopTask, taskTick, fresh>>

ReadStamp(t) ==
  /\ TaskGoto(t, "stamp", "store")
  /\ taskTick' = [taskTick EXCEPT ![t] = now]
  /\ UNCHANGED <<now, tickTime, isLoopTask, fresh>>

StoreStamp(t) ==
  /\ TaskGoto(t, "store", "free")
  /\ tickTime' = taskTick[t]
  /\ fresh' = [u \in Runners |-> FALSE]
  /\ UNCHANGED <<now, isLoopTask, taskTick>>

\* Mutant: the flag is not given back.
KeepFlag(t) ==
  /\ TaskGoto(t, "free", "idle")
  /\ UNCHANGED <<now, tickTime, isLoopTask, taskTick, fresh>>

FreeFlag(t) ==
  /\ TaskGoto(t, "free", "idle")
  /\ isLoopTask' = FALSE
  /\ UNCHANGED <<now, tickTime, taskTick, fresh>>

(***************************************************************************)
(* The clock runs on.  It stops only when it is Horizon past a time that   *)
(* is still in use, which bounds how late a thread can be.                 *)
(***************************************************************************)
InUse == {tickTime} \union {taskTick[t] : t \in {u \in Runners : at[u] \in {"check", "store"}}}

Tick ==
  /\ \A time \in InUse : Since(now, time) < Horizon
  /\ now' = (now + 1) % Modulus
  /\ UNCHANGED <<tickTime, isLoopTask, at, taskTick, fresh>>

-----------------------------------------------------------------------------
RoomTask(t) ==
  \/ ReadClock(t) \/ CheckPeriod(t)
  \/ LoadFlag(t) \/ TakeFlag(t)
  \/ LoopTask(t) \/ ReadStamp(t) \/ StoreStamp(t) \/ FreeFlag(t)

TaskNext == Tick \/ \E t \in Runners : RoomTask(t)

(***************************************************************************)
(* The main loop calls RoomTask for ever, nothing in it waits for another  *)
(* thread, and time passes.                                                *)
(***************************************************************************)
TaskFairness == WF_taskVars(Tick) /\ \A t \in Runners : WF_taskVars(RoomTask(t))

TaskSafety == TaskInit /\ [][TaskNext]_taskVars

TaskSpec == TaskSafety /\ TaskFairness

-----------------------------------------------------------------------------
TaskTypeOK ==
  /\ now \in Times
  /\ tickTime \in Times
  /\ isLoopTask \in BOOLEAN
  /\ at \in [Runners -> Places]
  /\ taskTick \in [Runners -> Times]
  /\ fresh \in [Runners -> BOOLEAN]

(***************************************************************************)
(* At most one thread moves the monsters: nothing else protects            *)
(* _monsterMap, _tick and the random generator from two MoveMosters.       *)
(***************************************************************************)
LoopTaskExclusive ==
  \A t, u \in Runners : at[t] \in Inside /\ at[u] \in Inside => t = u

(***************************************************************************)
(* The flag is never left set behind: while it is set some thread is on    *)
(* its way to clear it, so that the monsters cannot freeze for good.       *)
(***************************************************************************)
FlagHasOwner == isLoopTask <=> \E t \in Runners : at[t] \in Inside

(***************************************************************************)
(* Together: the flag is a lock, held by one thread exactly while it is    *)
(* set, from the compare-exchange to the exchange that gives it back.      *)
(***************************************************************************)
FlagIsLock == LoopTaskExclusive /\ FlagHasOwner

(***************************************************************************)
(* The comment at BS_GameRoom.cpp:268 has the task run once in 500 ms.     *)
(* With several threads that is so for a thread whose look at the clock is *)
(* not outdated, nobody having written _tickTime since; one that comes     *)
(* late to the flag may run the task a second time at once.                *)
(***************************************************************************)
Starts(t) == at[t] = "cas" /\ at'[t] = "task"

FreshCheckKeepsPeriod ==
  [][\A t \in Runners : Starts(t) /\ fresh[t] => Since(now, tickTime) > Period]_taskVars

(***************************************************************************)
(* The task keeps being run, whatever becomes of a thread that lost the    *)
(* race for the flag: the monsters never stop for good.                    *)
(***************************************************************************)
TaskRunsForEver == []<>(\E t \in Runners : at[t] = "task")

=============================================================================
