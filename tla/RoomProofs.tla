----------------------------- MODULE RoomProofs -----------------------------
(***************************************************************************)
(* What is proved of a game room: the timer of its task (RoomTick), and    *)
(* its monsters (Monster), for any number of threads and players.          *)
(*                                                                         *)
(* The flag alone is not inductive: that it is set while some thread is    *)
(* inside and that at most one is inside hold only together, because a     *)
(* thread that leaves clears the flag for everybody.  That one thread at a *)
(* time runs the task is what Monster takes for granted in BeginTask, and  *)
(* what its own invariants rest on.                                        *)
(***************************************************************************)
EXTENDS RoomTick, Monster, TLAPS

USE TimeAssumption

FlagInv == TaskTypeOK /\ LoopTaskExclusive /\ FlagHasOwner

LEMMA ModType ==
  ASSUME NEW a \in Nat
  PROVE  a % Modulus \in Times
  BY DEF Times

LEMMA FlagStep == FlagInv /\ [TaskNext]_taskVars => FlagInv'
<1> SUFFICES ASSUME FlagInv, [TaskNext]_taskVars
             PROVE  FlagInv'
  OBVIOUS
<1> USE DEF FlagInv, TaskTypeOK, Places, Inside, TaskGoto
<1> DEFINE Control == LoopTaskExclusive /\ FlagHasOwner
<1>1. CASE Tick
  <2>1. now' \in Times
    BY <1>1, ModType DEF Tick, Times
  <2> QED
    BY <1>1, <2>1 DEF Tick, LoopTaskExclusive, FlagHasOwner
<1>2. ASSUME NEW t \in Runners, RoomTask(t)
      PROVE  TaskTypeOK'
  <2>1. CASE ReadClock(t)
    BY <2>1 DEF ReadClock
  <2>2. CASE CheckPeriod(t)
    <3>1. at'[t] \in Places /\ at' = [at EXCEPT ![t] = at'[t]]
      BY <2>2 DEF CheckPeriod
    <3> QED
      BY <2>2, <3>1 DEF CheckPeriod
  <2>3. CASE LoadFlag(t) \/ TakeFlag(t)
    BY <2>3 DEF LoadFlag, TakeFlag
  <2>4. CASE LoopTask(t) \/ ReadStamp(t)
    BY <2>4 DEF LoopTask, ReadStamp
  <2>5. CASE StoreStamp(t)
    BY <2>5 DEF StoreStamp
  <2>6. CASE FreeFlag(t)
    BY <2>6 DEF FreeFlag
  <2> QED
    BY <1>2, <2>1, <2>2, <2>3, <2>4, <2>5, <2>6 DEF RoomTask
<1>3. ASSUME NEW t \in Runners, ReadClock(t) \/ CheckPeriod(t) \/ LoadFlag(t)
      PROVE  Control'
  BY <1>3 DEF ReadClock, CheckPeriod, LoadFlag, LoopTaskExclusive, FlagHasOwner
<1>4. ASSUME NEW t \in Runners, TakeFlag(t)
      PROVE  Control'
  <2>1. CASE isLoopTask
    BY <1>4, <2>1 DEF TakeFlag, LoopTaskExclusive, FlagHasOwner
  <2>2. CASE ~isLoopTask
    BY <1>4, <2>2 DEF TakeFlag, LoopTaskExclusive, FlagHasOwner
  <2> QED
    BY <2>1, <2>2
<1>5. ASSUME NEW t \in Runners, LoopTask(t) \/ ReadStamp(t) \/ StoreStamp(t)
      PROVE  Control'
  BY <1>5 DEF LoopTask, ReadStamp, StoreStamp, LoopTaskExclusive, FlagHasOwner
<1>6. ASSUME NEW t \in Runners, FreeFlag(t)
      PROVE  Control'
  <2>1. \A u \in Runners : u # t => at[u] \notin Inside /\ at'[u] = at[u]
    BY <1>6 DEF FreeFlag, LoopTaskExclusive
  <2> QED
    BY <1>6, <2>1 DEF FreeFlag, LoopTaskExclusive, FlagHasOwner
<1>7. CASE UNCHANGED taskVars
  BY <1>7 DEF taskVars, LoopTaskExclusive, FlagHasOwner
<1> QED
  BY <1>1, <1>2, <1>3, <1>4, <1>5, <1>6, <1>7 DEF TaskNext, RoomTask

LEMMA FlagInvariant == TaskSafety => []FlagInv
<1>1. TaskInit => FlagInv
  <2>1. 0 \in Times
    BY DEF Times
  <2>2. TaskInit => TaskTypeOK
    BY <2>1 DEF TaskInit, TaskTypeOK, Places
  <2>3. TaskInit => LoopTaskExclusive /\ FlagHasOwner
    BY DEF TaskInit, LoopTaskExclusive, FlagHasOwner, Inside
  <2> QED
    BY <2>2, <2>3 DEF FlagInv
<1> QED
  BY <1>1, FlagStep, PTL DEF TaskSafety

(***************************************************************************)
(* The times keep their width and the locals their type.                   *)
(***************************************************************************)
THEOREM TaskTypeCorrect == TaskSafety => []TaskTypeOK
<1>1. FlagInv => TaskTypeOK
  BY DEF FlagInv
<1> QED
  BY <1>1, FlagInvariant, PTL

(***************************************************************************)
(* However many threads run the main loop, one at most is inside of        *)
(* SpanMoster and MoveMosters.                                             *)
(***************************************************************************)
THEOREM Exclusion == TaskSafety => []LoopTaskExclusive
<1>1. FlagInv => LoopTaskExclusive
  BY DEF FlagInv
<1> QED
  BY <1>1, FlagInvariant, PTL

(***************************************************************************)
(* isLoopTask is set exactly while a thread is inside and will clear it.   *)
(***************************************************************************)
THEOREM FlagOwned == TaskSafety => []FlagHasOwner
<1>1. FlagInv => FlagHasOwner
  BY DEF FlagInv
<1> QED
  BY <1>1, FlagInvariant, PTL

(***************************************************************************)
(* The flag is a lock: it is set while exactly one thread is inside.       *)
(***************************************************************************)
THEOREM FlagLocks == TaskSafety => []FlagIsLock
BY Exclusion, FlagOwned, PTL DEF FlagIsLock

-----------------------------------------------------------------------------
(***************************************************************************)
(* Arithmetic of the clock: as long as it is less than Horizon ahead of a  *)
(* time, one taskTick takes it one further from that time.                     *)
(***************************************************************************)
LEMMA SinceTick ==
  ASSUME NEW a \in Times, NEW b \in Times, Since(a, b) < Horizon
  PROVE  Since((a + 1) % Modulus, b) = Since(a, b) + 1
  BY DEF Since, Times

LEMMA SinceNat ==
  ASSUME NEW a \in Times, NEW b \in Times
  PROVE  Since(a, b) \in Nat
  BY DEF Since, Times

(***************************************************************************)
(* While nobody has written _tickTime since thread t read the clock, the   *)
(* distance of the clock from _tickTime only grows.                        *)
(***************************************************************************)
FreshOK ==
  \A t \in Runners : fresh[t] =>
    /\ at[t] = "check" => Since(taskTick[t], tickTime) <= Since(now, tickTime)
    /\ at[t] \in {"load", "cas"} => Since(now, tickTime) > Period

LEMMA FreshStep == TaskTypeOK /\ FreshOK /\ [TaskNext]_taskVars => FreshOK'
<1> SUFFICES ASSUME TaskTypeOK, FreshOK, [TaskNext]_taskVars, NEW u \in Runners, fresh'[u]
             PROVE  /\ at'[u] = "check" => Since(taskTick[u], tickTime)' <= Since(now, tickTime)'
                    /\ at'[u] \in {"load", "cas"} => Since(now, tickTime)' > Period
  BY DEF FreshOK
<1> USE DEF TaskTypeOK, TaskGoto
<1>0. \A a, b \in Times : Since(a, b) \in Nat
  BY SinceNat
<1>1. CASE Tick
  <2>1. Since(now, tickTime)' = Since(now, tickTime) + 1
    <3>1. Since(now, tickTime) < Horizon
      BY <1>1 DEF Tick, InUse
    <3>2. Since((now + 1) % Modulus, tickTime) = Since(now, tickTime) + 1
      BY <3>1, SinceTick
    <3> QED
      BY <1>1, <3>2 DEF Tick, Since
  <2>2. Since(taskTick[u], tickTime)' = Since(taskTick[u], tickTime)
    BY <1>1 DEF Tick, Since
  <2>3. at' = at /\ fresh' = fresh
    BY <1>1 DEF Tick
  <2> QED
    BY <1>0, <2>1, <2>2, <2>3 DEF FreshOK
<1>2. ASSUME NEW t \in Runners, ReadClock(t)
      PROVE  /\ at'[u] = "check" => Since(taskTick[u], tickTime)' <= Since(now, tickTime)'
             /\ at'[u] \in {"load", "cas"} => Since(now, tickTime)' > Period
  <2>1. Since(now, tickTime)' = Since(now, tickTime)
    BY <1>2 DEF ReadClock, Since
  <2>2. CASE u = t
    <3>1. at'[u] = "check" /\ taskTick'[u] = now
      BY <1>2, <2>2 DEF ReadClock
    <3>2. Since(taskTick[u], tickTime)' = Since(now, tickTime)'
      BY <1>2, <3>1 DEF ReadClock, Since
    <3> QED
      BY <1>0, <2>1, <3>1, <3>2
  <2>3. CASE u # t
    <3>1. at'[u] = at[u] /\ taskTick'[u] = taskTick[u] /\ fresh'[u] = fresh[u] /\ tickTime' = tickTime
      BY <1>2, <2>3 DEF ReadClock
    <3>2. Since(taskTick[u], tickTime)' = Since(taskTick[u], tickTime)
      BY <3>1 DEF Since
    <3> QED
      BY <2>1, <3>1, <3>2 DEF FreshOK
  <2> QED
    BY <2>2, <2>3
<1>3. ASSUME UNCHANGED <<now, tickTime, taskTick>>
      PROVE  /\ Since(now, tickTime)' = Since(now, tickTime)
             /\ Since(taskTick[u], tickTime)' = Since(taskTick[u], tickTime)
  BY <1>3 DEF Since
<1>4. ASSUME NEW t \in Runners, CheckPeriod(t)
      PROVE  /\ at'[u] = "check" => Since(taskTick[u], tickTime)' <= Since(now, tickTime)'
             /\ at'[u] \in {"load", "cas"} => Since(now, tickTime)' > Period
  <2>1. UNCHANGED <<now, tickTime, taskTick, fresh>>
    BY <1>4 DEF CheckPeriod
  <2>2. CASE u = t
    BY <1>0, <1>3, <1>4, <2>1, <2>2 DEF CheckPeriod, FreshOK
  <2>3. CASE u # t
    BY <1>3, <1>4, <2>1, <2>3 DEF CheckPeriod, FreshOK
  <2> QED
    BY <2>2, <2>3
<1>5. ASSUME NEW t \in Runners, LoadFlag(t) \/ TakeFlag(t) \/ LoopTask(t) \/ FreeFlag(t)
      PROVE  /\ at'[u] = "check" => Since(taskTick[u], tickTime)' <= Since(now, tickTime)'
             /\ at'[u] \in {"load", "cas"} => Since(now, tickTime)' > Period
  <2>1. UNCHANGED <<now, tickTime, taskTick, fresh>>
    BY <1>5 DEF LoadFlag, TakeFlag, LoopTask, FreeFlag
  <2>2. at'[u] = "check" => at[u] = "check"
    BY <1>5 DEF LoadFlag, TakeFlag, LoopTask, FreeFlag
  <2>3. at'[u] \in {"load", "cas"} => at[u] \in {"load", "cas"}
    BY <1>5 DEF LoadFlag, TakeFlag, LoopTask, FreeFlag
  <2> QED
    BY <1>3, <2>1, <2>2, <2>3 DEF FreshOK
<1>6. ASSUME NEW t \in Runners, ReadStamp(t)
      PROVE  /\ at'[u] = "check" => Since(taskTick[u], tickTime)' <= Since(now, tickTime)'
             /\ at'[u] \in {"load", "cas"} => Since(now, tickTime)' > Period
  <2>1. CASE u = t
    BY <1>6, <2>1 DEF ReadStamp
  <2>2. CASE u # t
    <3>1. /\ at'[u] = at[u] /\ taskTick'[u] = taskTick[u]
          /\ UNCHANGED <<now, tickTime, fresh>>
      BY <1>6, <2>2 DEF ReadStamp
    <3>2. /\ Since(now, tickTime)' = Since(now, tickTime)
          /\ Since(taskTick[u], tickTime)' = Since(taskTick[u], tickTime)
      BY <3>1 DEF Since
    <3> QED
      BY <3>1, <3>2 DEF FreshOK
  <2> QED
    BY <2>1, <2>2
<1>7. ASSUME NEW t \in Runners, StoreStamp(t)
      PROVE  FALSE
  BY <1>7 DEF StoreStamp
<1>8. CASE UNCHANGED taskVars
  BY <1>3, <1>8 DEF taskVars, FreshOK
<1> QED
  BY <1>1, <1>2, <1>4, <1>5, <1>6, <1>7, <1>8 DEF TaskNext, RoomTask

(***************************************************************************)
(* A check of the period that no write of _tickTime has outdated keeps the *)
(* tasks a period apart, for any number of threads: the second run right   *)
(* after the first needs a thread that looked before the first ended.      *)
(***************************************************************************)
THEOREM FreshChecksKeepPeriod == TaskSafety => FreshCheckKeepsPeriod
<1>1. TaskInit => FreshOK
  BY DEF TaskInit, FreshOK
<1>2. FreshOK /\ [TaskNext]_taskVars =>
        [\A t \in Runners : Starts(t) /\ fresh[t] => Since(now, tickTime) > Period]_taskVars
  BY DEF FreshOK, Starts
<1> QED
  BY <1>1, <1>2, FreshStep, TaskTypeCorrect, PTL DEF TaskSafety, FreshCheckKeepsPeriod

-----------------------------------------------------------------------------
(***************************************************************************)
(* The monsters.                                                           *)
(***************************************************************************)
USE MapAssumption, HpAssumption, PlayerAssumption

Points == {"idle"} \union InTask \union InHit

PlayerStep(t) ==
  \E p \in Players : AddSession(t, p) \/ DelSession(t, p) \/ MovePlayer(t, p) \/ MonsterHit(t, p)

ThreadStep(t) == HitStep(t) \/ TaskStep(t) \/ PlayerStep(t)

(***************************************************************************)
(* The type invariant needs who is known where: a hit has an attacker, and *)
(* a chase somebody to chase.                                              *)
(***************************************************************************)
TypeInv ==
  /\ TypeOK
  /\ \A t \in Threads : reg[t] <= MaxHp
  /\ \A t \in Threads : pc[t] \in InHit => attacker[t] \in Players
  /\ \A t \in Threads : pc[t] \in {"ontarget", "chase"} => playerUUid[t] \in Players

LEMMA HitType ==
  ASSUME TypeInv, NEW t \in Threads, HitStep(t)
  PROVE  TypeInv'
<1> USE DEF TypeInv, TypeOK, InHit, InTask
<1>1. CASE LoadHp(t)
  BY <1>1 DEF LoadHp, Goto, monster, players, history
<1>2. CASE TakeDemage(t)
  <2>1. PICK to \in {"die", "alive"} : Goto(t, "store", to)
    BY <1>2 DEF TakeDemage, DieBelow
  <2>2. /\ pc' \in [Threads -> {"idle"} \union InTask \union InHit]
        /\ mixed' \in BOOLEAN
    BY <2>1 DEF Goto
  <2>3. /\ hp' = reg[t] - 1 /\ reg' = [reg EXCEPT ![t] = 0] /\ hits' = hits + 1
        /\ UNCHANGED <<spawned, moving, attaking, tick, target, pos, start, players, crashed,
                       attacker, playerUUid, rest, hitBy>>
    BY <1>2 DEF TakeDemage, DieBelow
  <2>4. hp' \in Int /\ hp' <= MaxHp /\ reg' \in [Threads -> Int] /\ hits' \in Nat
        /\ \A u \in Threads : reg'[u] <= MaxHp
    BY <2>3
  <2>5. \A u \in Threads : pc'[u] \in InHit => pc[u] \in InHit
    BY <2>1 DEF Goto
  <2>6. \A u \in Threads : pc'[u] \in {"ontarget", "chase"} => pc[u] \in {"ontarget", "chase"}
    BY <2>1 DEF Goto
  <2> QED BY <2>2, <2>3, <2>4, <2>5, <2>6 DEF players
<1>3. CASE Die(t)
  BY <1>3 DEF Die, Goto, players, locals, history
<1>4. CASE DieUnit(t)
  <2>1. attacker' \in [Threads -> Players \union {NoPlayer}]
    BY <1>4 DEF DieUnit
  <2>2. \A u \in Threads : pc'[u] \in InHit => pc[u] \in InHit /\ attacker'[u] = attacker[u]
    BY <1>4 DEF DieUnit, Goto
  <2> QED BY <1>4, <2>1, <2>2 DEF DieUnit, Goto, monster, players, history
<1>5. CASE SetAttackPlayerUUid(t)
  <2>1. attacker[t] \in Players
    BY <1>5 DEF SetAttackPlayerUUid, Goto
  <2> QED BY <1>5, <2>1 DEF SetAttackPlayerUUid, Goto, players
<1> QED BY <1>1, <1>2, <1>3, <1>4, <1>5 DEF HitStep

LEMMA PlayerType ==
  ASSUME TypeInv, NEW t \in Threads, PlayerStep(t)
  PROVE  TypeInv'
<1> USE DEF TypeInv, TypeOK, InHit, InTask
<1> PICK p \in Players : AddSession(t, p) \/ DelSession(t, p) \/ MovePlayer(t, p) \/ MonsterHit(t, p)
  BY DEF PlayerStep
<1>1. CASE AddSession(t, p)
  BY <1>1 DEF AddSession, Goto, monster, locals, history
<1>2. CASE DelSession(t, p)
  BY <1>2 DEF DelSession, Goto, monster, locals, history
<1>3. CASE MovePlayer(t, p)
  BY <1>3 DEF MovePlayer, Goto, monster, locals, history
<1>4. CASE MonsterHit(t, p)
  BY <1>4 DEF MonsterHit, Goto, players, history
<1> QED BY <1>1, <1>2, <1>3, <1>4

LEMMA TaskType ==
  ASSUME TypeInv, NEW t \in Threads, TaskStep(t)
  PROVE  TypeInv'
<1> USE DEF TypeInv, TypeOK, InHit, InTask
<1>1. CASE BeginTask(t)
  BY <1>1 DEF BeginTask, Goto, monster, players, locals, history
<1>2. CASE SpanMoster(t)
  BY <1>2 DEF SpanMoster, Goto, monster, players, locals, history
<1>3. CASE ResetSpawn(t)
  BY <1>3 DEF ResetSpawn, Goto, players, locals
<1>4. CASE ResetTarget(t)
  BY <1>4 DEF ResetTarget, ResetTargetTo, Goto, players, locals
<1>5. CASE SetSpawn(t)
  BY <1>5 DEF SetSpawn, SpawnAs, Goto, players, locals, history
<1>6. CASE SetTick(t)
  <2>1. playerUUid' \in [Threads -> Players \union {NoPlayer}] /\ rest' \in -1..4
    BY <1>6 DEF SetTick, TurnOf
  <2>2. tick' \in -1..3
    BY <1>6 DEF SetTick, TurnOf
  <2>3. attaking' \in BOOLEAN
    BY <1>6, Zenon DEF SetTick, TurnOf
  <2>4. Goto(t, "turn", "look") /\ playerUUid' = [playerUUid EXCEPT ![t] = target]
    BY <1>6 DEF SetTick, TurnOf
  <2>5. UNCHANGED <<spawned, hp, moving, target, pos, start, players, crashed,
                    attacker, reg, hits, hitBy>>
    BY <1>6 DEF SetTick, TurnOf
  <2> QED BY <2>1, <2>2, <2>3, <2>4, <2>5 DEF Goto, players
<1>7. CASE StandStill(t)
  BY <1>7 DEF StandStill, EndMove, Goto, players, inHit, history
<1>8. CASE FindTarget(t)
  BY <1>8 DEF FindTarget, Goto, monster, players, locals, history
<1>9. CASE NullSession(t)
  BY <1>9 DEF NullSession, monster, players, locals, history
<1>10. CASE OnTarget(t)
  BY <1>10 DEF OnTarget, FollowIf, Goto, monster, players, locals, history
<1>11. CASE Attack(t)
  BY <1>11 DEF Attack, EndMove, Goto, players, inHit
<1>12. CASE Approach(t)
  BY <1>12 DEF Approach, EndMove, Goto, players, inHit, history
<1>13. CASE Stroll(t)
  <2>1. pos' \in Int
    BY <1>13 DEF Stroll, InMonsterRect
  <2> QED BY <1>13, <2>1 DEF Stroll, EndMove, Goto, players, inHit, history
<1> QED
  BY <1>1, <1>2, <1>3, <1>4, <1>5, <1>6, <1>7, <1>8, <1>9, <1>10, <1>11, <1>12, <1>13 DEF TaskStep

LEMMA TypeKept == TypeInv /\ [Next]_vars => TypeInv'
<1> SUFFICES ASSUME TypeInv, [Next]_vars PROVE TypeInv'
  OBVIOUS
<1>1. CASE UNCHANGED vars
  BY <1>1 DEF vars, monster, players, locals, history, TypeInv, TypeOK
<1>2. ASSUME NEW t \in Threads, ThreadStep(t) PROVE TypeInv'
  BY <1>2, HitType, TaskType, PlayerType DEF ThreadStep
<1> QED BY <1>1, <1>2 DEF Next, ThreadStep, PlayerStep

LEMMA TypeInit == Init => TypeInv
<1> SUFFICES ASSUME Init PROVE TypeInv
  OBVIOUS
<1>1. start \in Int
  BY DEF Init
<1>2. pc \in [Threads -> {"idle"} \union InTask \union InHit]
  BY DEF Init
<1>3. /\ spawned \in BOOLEAN /\ moving \in BOOLEAN /\ attaking \in BOOLEAN
      /\ crashed \in BOOLEAN /\ mixed \in BOOLEAN /\ disturbed \in BOOLEAN
  BY DEF Init
<1>4. /\ hp \in Int /\ hp <= MaxHp /\ tick \in -1..3
      /\ hits \in Nat /\ rest \in -1..4
  BY DEF Init
<1>5. /\ pos \in Int /\ start \in StartPlaces
      /\ inRoom \in SUBSET Players /\ hitBy \in [Players -> {"nobody", "holder", "former"}]
      /\ place \in [Players -> PlayerPlaces] /\ target \in Players \union {NoPlayer}
  BY <1>1 DEF Init
<1>6. /\ attacker \in [Threads -> Players \union {NoPlayer}]
      /\ playerUUid \in [Threads -> Players \union {NoPlayer}]
      /\ reg \in [Threads -> Int] /\ \A t \in Threads : reg[t] <= MaxHp
  BY DEF Init
<1>7. \A t \in Threads : pc[t] \notin InHit \union {"ontarget", "chase"}
  BY DEF Init, InHit
<1> QED BY <1>2, <1>3, <1>4, <1>5, <1>6, <1>7 DEF TypeInv, TypeOK

LEMMA TypeInvariant == Safety => []TypeInv
BY TypeInit, TypeKept, PTL DEF Safety

(***************************************************************************)
(* The tick, the hp, the target and the locals of jobs and task keep their *)
(* ranges: hits and respawns of several threads never leave the monster    *)
(* with more than it began with.                                           *)
(***************************************************************************)
THEOREM TypeCorrect == Safety => []TypeOK
<1>1. TypeInv => TypeOK
  BY DEF TypeInv
<1> QED BY <1>1, TypeInvariant, PTL

-----------------------------------------------------------------------------
(***************************************************************************)
(* One thread at a time runs the room task: what RoomTick provides is a    *)
(* guard of BeginTask, and no other step enters the task.                  *)
(***************************************************************************)
OneTask == \A t, u \in Threads : pc[t] \in InTask /\ pc[u] \in InTask => t = u

LEMMA TaskEntered ==
  ASSUME TypeInv, NEW t \in Threads, ThreadStep(t), ~BeginTask(t), NEW u \in Threads
  PROVE  pc'[u] \in InTask => pc[u] \in InTask
<1> USE DEF InTask, InHit, Goto
<1>p. pc \in [Threads -> Points]
  BY DEF TypeInv, TypeOK, Points
<1>1. CASE HitStep(t)
  <2>1. CASE LoadHp(t) \/ TakeDemage(t) \/ Die(t)
    BY <1>p, <2>1 DEF LoadHp, TakeDemage, DieBelow, Die
  <2>2. CASE DieUnit(t) \/ SetAttackPlayerUUid(t)
    BY <1>p, <2>2 DEF DieUnit, SetAttackPlayerUUid
  <2> QED BY <1>1, <2>1, <2>2 DEF HitStep
<1>2. CASE PlayerStep(t)
  BY <1>p, <1>2 DEF PlayerStep, AddSession, DelSession, MovePlayer, MonsterHit
<1>3. CASE TaskStep(t)
  <2>1. CASE SpanMoster(t) \/ ResetSpawn(t) \/ ResetTarget(t) \/ SetSpawn(t) \/ SetTick(t)
    BY <1>p, <2>1 DEF SpanMoster, ResetSpawn, ResetTarget, ResetTargetTo, SetSpawn, SpawnAs, SetTick, TurnOf
  <2>2. CASE StandStill(t) \/ FindTarget(t) \/ NullSession(t) \/ OnTarget(t)
    BY <1>p, <2>2 DEF StandStill, EndMove, FindTarget, NullSession, OnTarget, FollowIf
  <2>3. CASE Attack(t) \/ Approach(t) \/ Stroll(t)
    BY <1>p, <2>3 DEF Attack, EndMove, Approach, Stroll
  <2> QED BY <1>3, <2>1, <2>2, <2>3 DEF TaskStep
<1> QED BY <1>1, <1>2, <1>3 DEF ThreadStep

LEMMA OneTaskKept == TypeInv /\ OneTask /\ [Next]_vars => OneTask'
<1> SUFFICES ASSUME TypeInv, OneTask, [Next]_vars PROVE OneTask'
  OBVIOUS
<1>1. CASE UNCHANGED vars
  BY <1>1 DEF vars, OneTask
<1>2. ASSUME NEW t \in Threads, BeginTask(t) PROVE OneTask'
  BY <1>2 DEF BeginTask, Goto, OneTask, TypeInv, TypeOK
<1>3. ASSUME NEW t \in Threads, ThreadStep(t), ~BeginTask(t) PROVE OneTask'
  BY <1>3, TaskEntered DEF OneTask
<1> QED BY <1>1, <1>2, <1>3 DEF Next, ThreadStep, PlayerStep

-----------------------------------------------------------------------------
(***************************************************************************)
(* Whom the monster is after, and whom the round of MoveMosters that is    *)
(* under way goes for, has a number with which it was hit since it came    *)
(* up.  That both may lag behind a respawn is ruled out by OneTask: the    *)
(* respawn and the round are of one thread.                                *)
(***************************************************************************)
InMove == {"look", "ontarget", "chase", "stroll"}

ThatHit == {p \in Players : hitBy[p] # "nobody"}

HitterInv ==
  /\ target \in ThatHit \union {NoPlayer}
  /\ \A t \in Threads : pc[t] \in InMove => playerUUid[t] \in ThatHit \union {NoPlayer}

LEMMA HitterStep ==
  ASSUME TypeInv, OneTask, HitterInv, NEW t \in Threads, ThreadStep(t)
  PROVE  HitterInv'
<1> USE DEF HitterInv, InMove, Goto
<1>h. hitBy \in [Players -> {"nobody", "holder", "former"}]
  BY DEF TypeInv, TypeOK
<1>p. pc \in [Threads -> Points]
  BY DEF TypeInv, TypeOK, Points
<1>q. playerUUid \in [Threads -> Players \union {NoPlayer}] /\ attacker \in [Threads -> Players \union {NoPlayer}]
  BY DEF TypeInv, TypeOK
<1>1. CASE LoadHp(t) \/ TakeDemage(t) \/ Die(t) \/ DieUnit(t)
  <2>1. UNCHANGED <<target, hitBy, playerUUid>>
    BY <1>1 DEF LoadHp, TakeDemage, DieBelow, Die, DieUnit, monster, locals, history
  <2>2. \A u \in Threads : pc'[u] \in InMove => pc[u] \in InMove
    BY <1>p, <1>1 DEF LoadHp, TakeDemage, DieBelow, Die, DieUnit
  <2> QED BY <2>1, <2>2 DEF ThatHit
<1>2. CASE SetAttackPlayerUUid(t)
  <2>1. target' = attacker[t] /\ playerUUid' = playerUUid /\ attacker[t] \in Players
    BY <1>2 DEF SetAttackPlayerUUid, TypeInv, InHit
  <2>2. PICK who \in {"holder", "former"} : hitBy' = [hitBy EXCEPT ![attacker[t]] = who]
    BY <1>2 DEF SetAttackPlayerUUid
  <2>3. ThatHit \subseteq ThatHit' /\ attacker[t] \in ThatHit'
    BY <1>h, <2>1, <2>2 DEF ThatHit
  <2>4. \A u \in Threads : pc'[u] \in InMove => pc[u] \in InMove
    BY <1>p, <1>2 DEF SetAttackPlayerUUid
  <2> QED BY <2>1, <2>3, <2>4
<1>3. CASE PlayerStep(t)
  <2>1. UNCHANGED <<target, playerUUid>>
    BY <1>3 DEF PlayerStep, AddSession, DelSession, MovePlayer, MonsterHit, monster, locals
  <2>2. \A u \in Threads : pc'[u] \in InMove => pc[u] \in InMove
    BY <1>p, <1>3 DEF PlayerStep, AddSession, DelSession, MovePlayer, MonsterHit
  <2>3. hitBy' = hitBy \/ \E p \in Players : hitBy' = [hitBy EXCEPT ![p] = IF @ = "holder" THEN "former" ELSE @]
    BY <1>3 DEF PlayerStep, AddSession, DelSession, MovePlayer, MonsterHit, history
  <2>4. ThatHit' = ThatHit
    BY <1>h, <2>3 DEF ThatHit
  <2> QED BY <2>1, <2>2, <2>4
<1>4. CASE BeginTask(t) \/ SpanMoster(t) \/ ResetSpawn(t) \/ SetSpawn(t)
  BY <1>p, <1>4 DEF BeginTask, SpanMoster, ResetSpawn, SetSpawn, SpawnAs, monster, locals, history, ThatHit
<1>5. CASE ResetTarget(t)
  <2>1. pc[t] \in InTask /\ pc'[t] \notin InMove
    BY <1>p, <1>5 DEF ResetTarget, ResetTargetTo, InTask
  <2>2. \A u \in Threads : u # t => pc'[u] = pc[u] /\ pc[u] \notin InMove
    BY <1>p, <1>5, <2>1 DEF ResetTarget, ResetTargetTo, OneTask, InTask
  <2>3. target' = NoPlayer /\ playerUUid' = playerUUid
    BY <1>5 DEF ResetTarget, ResetTargetTo, locals
  <2> QED BY <2>1, <2>2, <2>3
<1>6. CASE SetTick(t)
  BY <1>p, <1>q, <1>6 DEF SetTick, TurnOf, ThatHit
<1>7. CASE FindTarget(t) \/ NullSession(t) \/ OnTarget(t)
  BY <1>p, <1>7 DEF FindTarget, NullSession, OnTarget, FollowIf, monster, locals, history, ThatHit
<1>8. CASE StandStill(t) \/ Attack(t) \/ Approach(t) \/ Stroll(t)
  <2>1. pc' = [pc EXCEPT ![t] = "idle"] /\ playerUUid' = [playerUUid EXCEPT ![t] = NoPlayer]
    BY <1>8 DEF StandStill, Attack, Approach, Stroll, EndMove
  <2>2. target' = target /\ hitBy' = hitBy
    BY <1>8 DEF StandStill, Attack, Approach, Stroll, history
  <2> QED BY <1>p, <1>q, <2>1, <2>2 DEF ThatHit
<1> QED
  BY <1>1, <1>2, <1>3, <1>4, <1>5, <1>6, <1>7, <1>8 DEF ThreadStep, HitStep, TaskStep

LEMMA HitterKept == TypeInv /\ OneTask /\ HitterInv /\ [Next]_vars => HitterInv'
<1> SUFFICES ASSUME TypeInv, OneTask, HitterInv, [Next]_vars PROVE HitterInv'
  OBVIOUS
<1>1. CASE UNCHANGED vars
  BY <1>1 DEF vars, monster, locals, history, HitterInv, ThatHit
<1> QED BY <1>1, HitterStep DEF Next, ThreadStep, PlayerStep

LEMMA HitterInvariant == Safety => [](TypeInv /\ OneTask /\ HitterInv)
<1>1. Init => OneTask /\ HitterInv
  BY DEF Init, OneTask, InTask, HitterInv, InMove
<1> QED BY <1>1, TypeInit, TypeKept, OneTaskKept, HitterKept, PTL DEF Safety

(***************************************************************************)
(* A monster chases only a player with whose number it was hit since it    *)
(* came up, be it by that player or by one that had the number before it,  *)
(* for any number of threads and players.                                  *)
(***************************************************************************)
THEOREM ChasesNumbers == Safety => []ChasesNumbersThatHit
<1>1. TypeInv /\ HitterInv => ChasesNumbersThatHit
  <2> SUFFICES ASSUME TypeInv, HitterInv, NEW t \in Threads, pc[t] = "chase"
               PROVE  hitBy[playerUUid[t]] \in {"holder", "former"}
    BY DEF ChasesNumbersThatHit
  <2>1. playerUUid[t] \in Players /\ playerUUid[t] \in ThatHit
    BY DEF TypeInv, HitterInv, InMove
  <2> QED BY <2>1 DEF ThatHit, TypeInv, TypeOK
<1> QED BY <1>1, HitterInvariant, PTL

-----------------------------------------------------------------------------
(***************************************************************************)
(* The cooldown.  While the monster attacks, its tick says how long it     *)
(* still has to rest, except that the first attack finds it at -1 and is   *)
(* over one round later.  While it does not, the tick is back at zero and  *)
(* the rest is over.                                                       *)
(***************************************************************************)
SpacedInv ==
  /\ \A t \in Threads : pc[t] \in {"ontarget", "chase"} => ~attaking
  /\ attaking => \/ rest = 1 /\ tick = -1
                 \/ tick \in 0..3 /\ rest = 4 - tick
  /\ ~attaking => \/ rest = -1 /\ tick = -1
                  \/ rest = 0 /\ tick = 0

LEMMA SpacedStep ==
  ASSUME TypeInv, OneTask, SpacedInv, NEW t \in Threads, ThreadStep(t)
  PROVE  SpacedInv'
<1> USE DEF SpacedInv, Goto
<1>p. pc \in [Threads -> Points]
  BY DEF TypeInv, TypeOK, Points
<1>q. tick \in -1..3 /\ rest \in -1..4 /\ attaking \in BOOLEAN
  BY DEF TypeInv, TypeOK
<1>1. CASE LoadHp(t) \/ TakeDemage(t) \/ Die(t) \/ DieUnit(t) \/ SetAttackPlayerUUid(t)
  BY <1>p, <1>1 DEF LoadHp, TakeDemage, DieBelow, Die, DieUnit, SetAttackPlayerUUid, monster, history
<1>2. CASE PlayerStep(t)
  BY <1>p, <1>2 DEF PlayerStep, AddSession, DelSession, MovePlayer, MonsterHit, monster, history
<1>3. CASE BeginTask(t) \/ SpanMoster(t) \/ ResetSpawn(t) \/ ResetTarget(t) \/ SetSpawn(t)
  BY <1>p, <1>3 DEF BeginTask, SpanMoster, ResetSpawn, ResetTarget, ResetTargetTo, SetSpawn, SpawnAs,
     monster, history
<1>4. CASE SetTick(t)
  <2>1. \A u \in Threads : pc'[u] \notin {"ontarget", "chase"}
    BY <1>p, <1>4 DEF SetTick, TurnOf, OneTask, InTask
  <2>2. CASE ~attaking
    BY <1>4, <1>q, <2>1, <2>2 DEF SetTick, TurnOf
  <2>3. CASE attaking
    <3>1. tick' = (tick + 1) % 4 /\ (attaking' <=> tick' # 0)
      BY <1>4, <2>3 DEF SetTick, TurnOf
    <3>2. rest' = IF rest > 0 THEN rest - 1 ELSE rest
      BY <1>4 DEF SetTick, TurnOf
    <3>3. tick' = IF tick = 3 THEN 0 ELSE tick + 1
      BY <1>q, <3>1
    <3>4. CASE tick = -1
      BY <1>q, <2>1, <2>3, <3>1, <3>2, <3>3, <3>4
    <3>5. CASE tick # -1
      <4>1. tick \in 0..3 /\ rest = 4 - tick
        BY <1>q, <2>3, <3>5
      <4> QED BY <1>q, <2>1, <3>1, <3>2, <3>3, <4>1
    <3> QED BY <3>4, <3>5
  <2> QED BY <2>2, <2>3
<1>5. CASE StandStill(t) \/ FindTarget(t) \/ NullSession(t) \/ OnTarget(t)
  BY <1>p, <1>5 DEF StandStill, EndMove, FindTarget, NullSession, OnTarget, FollowIf, monster, history
<1>6. CASE Attack(t)
  <2>1. pc[t] = "chase" /\ pc'[t] = "idle" /\ \A u \in Threads \ {t} : pc'[u] = pc[u]
    BY <1>p, <1>6 DEF Attack, EndMove
  <2>2. \A u \in Threads : pc'[u] \notin {"ontarget", "chase"}
    BY <2>1 DEF OneTask, InTask
  <2>3. ~attaking
    BY <2>1
  <2>4. attaking' = TRUE /\ tick' = tick /\ rest' = IF rest = -1 THEN 1 ELSE 4
    BY <1>6 DEF Attack
  <2> QED BY <1>q, <2>2, <2>3, <2>4
<1>7. CASE Approach(t) \/ Stroll(t)
  BY <1>p, <1>7 DEF Approach, Stroll, EndMove, history
<1> QED
  BY <1>1, <1>2, <1>3, <1>4, <1>5, <1>6, <1>7 DEF ThreadStep, HitStep, TaskStep

LEMMA SpacedKept == TypeInv /\ OneTask /\ SpacedInv /\ [Next]_vars => SpacedInv'
<1> SUFFICES ASSUME TypeInv, OneTask, SpacedInv, [Next]_vars PROVE SpacedInv'
  OBVIOUS
<1>1. CASE UNCHANGED vars
  BY <1>1 DEF vars, monster, locals, history, SpacedInv
<1> QED BY <1>1, SpacedStep DEF Next, ThreadStep, PlayerStep

LEMMA AttackStarts ==
  ASSUME NEW t \in Threads, ThreadStep(t), attaking', ~attaking
  PROVE  Attack(t)
<1>1. ~HitStep(t)
  BY DEF HitStep, LoadHp, TakeDemage, DieBelow, Die, DieUnit, SetAttackPlayerUUid, monster
<1>2. ~PlayerStep(t)
  BY DEF PlayerStep, AddSession, DelSession, MovePlayer, MonsterHit, monster
<1>3. ~(BeginTask(t) \/ SpanMoster(t) \/ ResetSpawn(t) \/ ResetTarget(t) \/ SetSpawn(t))
  BY DEF BeginTask, SpanMoster, ResetSpawn, ResetTarget, ResetTargetTo, SetSpawn, SpawnAs, monster
<1>4. ~(SetTick(t) \/ StandStill(t) \/ FindTarget(t) \/ NullSession(t) \/ OnTarget(t))
  BY DEF SetTick, TurnOf, StandStill, FindTarget, NullSession, OnTarget, FollowIf, monster
<1>5. ~(Approach(t) \/ Stroll(t))
  BY DEF Approach, Stroll
<1> QED BY <1>1, <1>2, <1>3, <1>4, <1>5 DEF ThreadStep, TaskStep

(***************************************************************************)
(* Attacks are four rounds apart, but for the first two, whatever hits,    *)
(* deaths and respawns come between them, for any number of threads.       *)
(***************************************************************************)
THEOREM AttacksSpaced == Safety => AttacksAreSpaced
<1>1. Init => OneTask /\ SpacedInv
  BY DEF Init, OneTask, InTask, SpacedInv
<1>2. SpacedInv /\ TypeInv /\ [Next]_vars =>
        [attaking' /\ ~attaking => rest <= 0]_vars
  <2> SUFFICES ASSUME SpacedInv, TypeInv, Next, attaking', ~attaking
               PROVE  rest <= 0
    OBVIOUS
  <2>1. PICK t \in Threads : ThreadStep(t)
    BY DEF Next, ThreadStep, PlayerStep
  <2>2. Attack(t)
    BY <2>1, AttackStarts
  <2> QED BY <2>2 DEF Attack, EndMove, Goto, SpacedInv, TypeInv, TypeOK
<1> QED BY <1>1, <1>2, TypeInit, TypeKept, OneTaskKept, SpacedKept, PTL DEF Safety, AttacksAreSpaced

-----------------------------------------------------------------------------
(***************************************************************************)
(* What the room task has checked of the player that it goes for stays     *)
(* true until it uses it, as long as that player leaves it alone: a join   *)
(* under its number puts it at the origin, which is on the map.            *)
(***************************************************************************)
Sure(t) ==
  /\ pc[t] \in {"ontarget", "chase"} => playerUUid[t] \in inRoom
  /\ pc[t] = "chase" => InRect(place[playerUUid[t]])

OnMap == -Edge <= pos /\ pos <= Edge

SafeInv == ~disturbed => ~crashed /\ OnMap /\ \A t \in Threads : Sure(t)

LEMMA PlayerSafe ==
  ASSUME TypeInv, NEW t \in Threads, PlayerStep(t), \A u \in Threads : Sure(u), ~disturbed'
  PROVE  \A u \in Threads : Sure(u)'
<1>p. /\ pc \in [Threads -> Points] /\ playerUUid \in [Threads -> Players \union {NoPlayer}]
      /\ place \in [Players -> PlayerPlaces]
  BY DEF TypeInv, TypeOK, Points
<1>1. \A u \in Threads : /\ pc'[u] \in {"ontarget", "chase"} => pc'[u] = pc[u]
                         /\ playerUUid'[u] = playerUUid[u]
  BY <1>p DEF PlayerStep, AddSession, DelSession, MovePlayer, MonsterHit, Goto, locals
<1>2. \A u \in Threads : pc[u] \in {"ontarget", "chase"} => playerUUid[u] \in Players
  BY DEF TypeInv
<1> PICK p \in Players : AddSession(t, p) \/ DelSession(t, p) \/ MovePlayer(t, p) \/ MonsterHit(t, p)
  BY DEF PlayerStep
<1>3. CASE AddSession(t, p)
  <2>1. InRect(0)
    <3>1. start \in (1 - Edge)..(Edge - 1)
      BY DEF TypeInv, TypeOK
    <3> QED BY <3>1 DEF InRect
  <2>2. inRoom' = inRoom \union {p} /\ place' = [place EXCEPT ![p] = 0]
    BY <1>3 DEF AddSession
  <2>3. \A q \in Players : InRect(place[q]) => InRect(place'[q])
    BY <1>p, <2>1, <2>2
  <2> QED BY <1>1, <1>2, <2>2, <2>3 DEF Sure
<1>4. CASE DelSession(t, p)
  <2>1. inRoom' = inRoom \ {p} /\ place' = place /\ ~GoesFor(p, {"ontarget", "chase"})
    BY <1>4 DEF DelSession
  <2> QED BY <1>1, <2>1 DEF Sure, GoesFor
<1>5. CASE MovePlayer(t, p)
  <2>1. inRoom' = inRoom /\ ~GoesFor(p, {"chase"}) /\ \A q \in Players \ {p} : place'[q] = place[q]
    BY <1>p, <1>5 DEF MovePlayer
  <2>2. \A u \in Threads : pc[u] = "chase" => playerUUid[u] \in Players \ {p}
    BY <1>2, <2>1 DEF GoesFor
  <2> QED BY <1>1, <2>1, <2>2 DEF Sure
<1>6. CASE MonsterHit(t, p)
  BY <1>1, <1>6 DEF MonsterHit, players, Sure
<1> QED BY <1>3, <1>4, <1>5, <1>6

LEMMA SafeStep ==
  ASSUME TypeInv, SafeInv, NEW t \in Threads, ThreadStep(t)
  PROVE  SafeInv'
<1> USE DEF Goto
<1>p. pc \in [Threads -> Points] /\ playerUUid \in [Threads -> Players \union {NoPlayer}]
      /\ place \in [Players -> PlayerPlaces] /\ pos \in Int
  BY DEF TypeInv, TypeOK, Points
<1> SUFFICES ASSUME ~disturbed'
             PROVE  ~crashed' /\ OnMap' /\ \A u \in Threads : Sure(u)'
  BY DEF SafeInv
<1>d. ~disturbed
  <2>1. CASE PlayerStep(t)
    BY <2>1 DEF PlayerStep, AddSession, DelSession, MovePlayer, MonsterHit, players
  <2>2. CASE HitStep(t)
    BY <2>2 DEF HitStep, LoadHp, TakeDemage, DieBelow, Die, DieUnit, SetAttackPlayerUUid, players
  <2>3. CASE BeginTask(t) \/ SpanMoster(t) \/ ResetSpawn(t) \/ ResetTarget(t) \/ SetSpawn(t) \/ SetTick(t)
    BY <2>3 DEF BeginTask, SpanMoster, ResetSpawn, ResetTarget, ResetTargetTo, SetSpawn, SpawnAs, SetTick, TurnOf,
       players
  <2>4. CASE StandStill(t) \/ FindTarget(t) \/ NullSession(t) \/ OnTarget(t) \/ Attack(t) \/ Approach(t) \/ Stroll(t)
    BY <2>4 DEF StandStill, FindTarget, NullSession, OnTarget, FollowIf, Attack, Approach, Stroll, players
  <2> QED BY <2>1, <2>2, <2>3, <2>4 DEF ThreadStep, TaskStep
<1>i. ~crashed
  BY <1>d DEF SafeInv
<1>s. OnMap /\ \A u \in Threads : Sure(u)
  BY <1>d DEF SafeInv
<1>0. ~NullSession(t)
  BY <1>s DEF NullSession, Sure
<1>1. CASE PlayerStep(t)
  <2>1. UNCHANGED <<crashed, pos>>
    BY <1>1 DEF PlayerStep, AddSession, DelSession, MovePlayer, MonsterHit, monster
  <2> QED BY <1>1, <1>i, <1>s, <2>1, PlayerSafe DEF OnMap
<1> SUFFICES ASSUME ~PlayerStep(t)
             PROVE  ~crashed' /\ OnMap' /\ Sure(t)'
  <2>1. ASSUME ~PlayerStep(t) PROVE \A u \in Threads \ {t} : Sure(u)'
    <3>1. /\ \A u \in Threads \ {t} : pc'[u] = pc[u] /\ playerUUid'[u] = playerUUid[u]
          /\ inRoom' = inRoom /\ place' = place
      <4>1. CASE HitStep(t)
        BY <1>p, <4>1 DEF HitStep, LoadHp, TakeDemage, DieBelow, Die, DieUnit, SetAttackPlayerUUid, players, locals
      <4>2. CASE BeginTask(t) \/ SpanMoster(t) \/ ResetSpawn(t) \/ ResetTarget(t) \/ SetSpawn(t) \/ SetTick(t)
        BY <1>p, <4>2 DEF BeginTask, SpanMoster, ResetSpawn, ResetTarget, ResetTargetTo, SetSpawn, SpawnAs, SetTick,
           TurnOf, players, locals
      <4>3. CASE StandStill(t) \/ FindTarget(t) \/ OnTarget(t) \/ Attack(t) \/ Approach(t) \/ Stroll(t)
        BY <1>p, <4>3 DEF StandStill, FindTarget, OnTarget, FollowIf, Attack, Approach, Stroll, EndMove,
           players, locals
      <4> QED BY <1>0, <2>1, <4>1, <4>2, <4>3 DEF ThreadStep, TaskStep
    <3> QED BY <1>s, <3>1 DEF Sure
  <2> QED BY <1>1, <2>1
<1>2. CASE HitStep(t)
  <2>1. UNCHANGED <<crashed, pos>>
    BY <1>2 DEF HitStep, LoadHp, TakeDemage, DieBelow, Die, DieUnit, SetAttackPlayerUUid, monster
  <2>2. pc'[t] \notin {"ontarget", "chase"}
    BY <1>p, <1>2 DEF HitStep, LoadHp, TakeDemage, DieBelow, Die, DieUnit, SetAttackPlayerUUid
  <2> QED BY <1>i, <1>s, <2>1, <2>2 DEF OnMap, Sure
<1>3. CASE BeginTask(t) \/ SpanMoster(t) \/ ResetTarget(t) \/ SetSpawn(t) \/ SetTick(t) \/ StandStill(t)
  <2>1. UNCHANGED <<crashed, pos>>
    BY <1>3 DEF BeginTask, SpanMoster, ResetTarget, ResetTargetTo, SetSpawn, SpawnAs, SetTick, TurnOf,
       StandStill, monster
  <2>2. pc'[t] \notin {"ontarget", "chase"}
    BY <1>p, <1>3 DEF BeginTask, SpanMoster, ResetTarget, ResetTargetTo, SetSpawn, SpawnAs, SetTick, TurnOf,
       StandStill, EndMove
  <2> QED BY <1>i, <1>s, <2>1, <2>2 DEF OnMap, Sure
<1>4. CASE ResetSpawn(t)
  <2>1. start \in (1 - Edge)..(Edge - 1)
    BY DEF TypeInv, TypeOK
  <2>2. pos' = start /\ crashed' = crashed /\ pc'[t] = "untarget"
    BY <1>p, <1>4 DEF ResetSpawn
  <2> QED BY <1>i, <2>1, <2>2 DEF OnMap, Sure
<1>5. CASE FindTarget(t)
  <2>1. UNCHANGED <<crashed, pos, inRoom, playerUUid>>
    BY <1>5 DEF FindTarget, monster, players, locals
  <2>2. pc'[t] = IF playerUUid[t] \in inRoom THEN "ontarget" ELSE "stroll"
    BY <1>p, <1>5 DEF FindTarget
  <2> QED BY <1>i, <1>s, <2>1, <2>2 DEF OnMap, Sure
<1>6. CASE OnTarget(t)
  <2>1. UNCHANGED <<crashed, pos, inRoom, place, playerUUid>>
    BY <1>6 DEF OnTarget, FollowIf, monster, players, locals
  <2>2. playerUUid[t] \in inRoom
        /\ pc'[t] \in {"chase", "stroll"} /\ (pc'[t] = "chase" => InRect(place[playerUUid[t]]))
    BY <1>p, <1>6 DEF OnTarget, FollowIf
  <2> QED BY <1>i, <1>s, <2>1, <2>2 DEF OnMap, Sure
<1>7. CASE Attack(t)
  <2>1. pos' = pos /\ crashed' = crashed /\ pc'[t] = "idle"
    BY <1>p, <1>7 DEF Attack, EndMove
  <2> QED BY <1>i, <1>s, <2>1 DEF OnMap, Sure
<1>8. CASE Approach(t)
  <2> DEFINE x == place[playerUUid[t]]
  <2>1. pc[t] = "chase" /\ pc'[t] = "idle" /\ crashed' = crashed
        /\ playerUUid[t] \in inRoom /\ Distance(pos, x) > Radius
        /\ pos' = IF x > pos THEN pos + Step ELSE pos - Step
    BY <1>p, <1>8 DEF Approach, EndMove
  <2>2. -Edge < x /\ x < Edge /\ x \in Int
    <3>1. playerUUid[t] \in Players
      BY <2>1 DEF TypeInv
    <3> QED BY <1>p, <1>s, <2>1, <3>1 DEF Sure, InRect
  <2> HIDE DEF x
  <2>3. OnMap'
    BY <1>p, <1>s, <2>1, <2>2 DEF OnMap, Distance
  <2> QED BY <1>i, <2>1, <2>3 DEF Sure
<1>9. CASE Stroll(t)
  <2>1. pc'[t] = "idle" /\ crashed' = crashed
    BY <1>p, <1>9 DEF Stroll, EndMove
  <2>2. PICK d \in -Step..Step : pos' = InMonsterRect(pos + d)
    BY <1>9 DEF Stroll
  <2>3. OnMap'
    BY <1>p, <2>2 DEF OnMap, InMonsterRect
  <2> QED BY <1>i, <2>1, <2>3 DEF Sure
<1> QED
  BY <1>0, <1>2, <1>3, <1>4, <1>5, <1>6, <1>7, <1>8, <1>9 DEF ThreadStep, TaskStep

LEMMA SafeKept == TypeInv /\ SafeInv /\ [Next]_vars => SafeInv'
<1> SUFFICES ASSUME TypeInv, SafeInv, [Next]_vars PROVE SafeInv'
  OBVIOUS
<1>1. CASE UNCHANGED vars
  BY <1>1 DEF vars, monster, players, locals, history, SafeInv, OnMap, Sure
<1> QED BY <1>1, SafeStep DEF Next, ThreadStep, PlayerStep

(***************************************************************************)
(* The room task finds the player that it goes for and keeps the monster   *)
(* on the map, wherever clients say that they are and whatever other       *)
(* threads do, unless that player itself leaves or moves in between, for   *)
(* any map, step and radius.                                               *)
(***************************************************************************)
THEOREM TaskSafe == Safety => []TaskIsSafe
<1>1. Init => SafeInv
  BY DEF Init, SafeInv, OnMap, Sure
<1>2. SafeInv => TaskIsSafe
  BY DEF SafeInv, OnMap, TaskIsSafe
<1> QED BY <1>1, <1>2, TypeInit, TypeKept, SafeKept, PTL DEF Safety

-----------------------------------------------------------------------------
(***************************************************************************)
(* As long as hits and respawns did not overlap, life and hits agree when  *)
(* no thread is at one, and one that is knows how far they do at the place *)
(* where it is.                                                            *)
(***************************************************************************)
Counted == hp = MaxHp - hits
Lives == spawned <=> hits < MaxHp

LifeOf(t) ==
  /\ pc[t] \notin {"die", "reset", "untarget", "spawn"} => Counted /\ Lives
  /\ pc[t] = "store" => reg[t] = hp
  /\ pc[t] = "die" => Counted /\ hits >= MaxHp
  /\ pc[t] \in {"untarget", "spawn"} => Counted /\ hits = 0

LifeInv ==
  ~mixed => /\ \A t, u \in Threads : pc[t] \in InLife /\ pc[u] \in InLife => t = u
            /\ (\A t \in Threads : pc[t] \notin InLife) => Counted /\ Lives
            /\ \A t \in Threads : pc[t] \in InLife => LifeOf(t)

\* A step that neither comes from a hit or a respawn nor goes to one.
Apart(t) == pc[t] \notin InLife /\ pc'[t] \notin InLife

LEMMA OthersQuiet ==
  ASSUME TypeInv, LifeInv, NEW t \in Threads, NEW from, NEW to, Goto(t, from, to), ~mixed', ~Apart(t)
  PROVE  \A u \in Threads \ {t} : pc[u] \notin InLife /\ pc'[u] \notin InLife
<1>1. pc \in [Threads -> Points] /\ ~mixed
  BY DEF TypeInv, TypeOK, Points, Goto
<1>2. pc[t] = from /\ pc'[t] = to /\ \A u \in Threads \ {t} : pc'[u] = pc[u]
  BY <1>1 DEF Goto
<1>3. CASE to \in InLife
  BY <1>2, <1>3 DEF Goto
<1>4. CASE from \in InLife
  BY <1>1, <1>2, <1>4 DEF LifeInv
<1> QED BY <1>2, <1>3, <1>4 DEF Apart

LEMMA ApartKept ==
  ASSUME TypeInv, LifeInv, NEW t \in Threads, NEW from, NEW to, Goto(t, from, to), Apart(t),
         UNCHANGED <<hp, hits, spawned, reg>>
  PROVE  LifeInv'
<1>1. pc \in [Threads -> Points]
  BY DEF TypeInv, TypeOK, Points
<1>2. \A u \in Threads \ {t} : pc'[u] = pc[u]
  BY <1>1 DEF Goto
<1>3. ~mixed' => ~mixed
  BY DEF Goto
<1> SUFFICES ASSUME ~mixed'
             PROVE  /\ \A v, u \in Threads : pc'[v] \in InLife /\ pc'[u] \in InLife => v = u
                    /\ (\A u \in Threads : pc'[u] \notin InLife) => Counted' /\ Lives'
                    /\ \A u \in Threads : pc'[u] \in InLife => LifeOf(u)'
  BY DEF LifeInv
<1>4. \A u \in Threads : pc'[u] \in InLife <=> pc[u] \in InLife
  BY <1>2 DEF Apart
<1>5. \A u \in Threads : pc'[u] \in InLife => pc'[u] = pc[u]
  BY <1>2 DEF Apart
<1>6. \A v, u \in Threads : pc'[v] \in InLife /\ pc'[u] \in InLife => v = u
  BY <1>3, <1>4 DEF LifeInv
<1>7. (\A u \in Threads : pc'[u] \notin InLife) => Counted' /\ Lives'
  BY <1>3, <1>4 DEF LifeInv, Counted, Lives
<1>8. \A u \in Threads : pc'[u] \in InLife => LifeOf(u)'
  BY <1>3, <1>4, <1>5 DEF LifeInv, LifeOf, Counted, Lives
<1> QED BY <1>6, <1>7, <1>8

\* The steps of hits and respawns.
LifeStep(t) ==
  \/ HitStep(t) \/ (\E p \in Players : MonsterHit(t, p))
  \/ (SpanMoster(t) /\ ~spawned) \/ ResetSpawn(t) \/ ResetTarget(t) \/ SetSpawn(t)

LEMMA LifeStepKept ==
  ASSUME TypeInv, LifeInv, NEW t \in Threads, LifeStep(t)
  PROVE  LifeInv'
<1> USE DEF Counted, Lives
<1>p. pc \in [Threads -> Points] /\ reg \in [Threads -> Int] /\ hp \in Int /\ hits \in Nat
      /\ spawned \in BOOLEAN
  BY DEF TypeInv, TypeOK, Points
<1>g. PICK from, to : Goto(t, from, to) /\ (from \in InLife \/ to \in InLife)
  BY DEF LifeStep, HitStep, LoadHp, TakeDemage, DieBelow, Die, DieUnit, SetAttackPlayerUUid, MonsterHit,
     SpanMoster, ResetSpawn, ResetTarget, ResetTargetTo, SetSpawn, SpawnAs, InLife, InHit
<1>a. ~Apart(t)
  BY <1>p, <1>g DEF Goto, Apart
<1> SUFFICES ASSUME ~mixed' PROVE LifeOf(t)'
  <2>1. ASSUME ~mixed', LifeOf(t)' PROVE LifeInv'
    <3>1. \A u \in Threads \ {t} : pc'[u] \notin InLife
      BY <1>a, <1>g, <2>1, OthersQuiet
    <3>2. pc'[t] \notin InLife => Counted' /\ Lives'
      BY <2>1 DEF LifeOf, InLife, InHit
    <3> QED BY <2>1, <3>1, <3>2 DEF LifeInv
  <2> QED BY <2>1 DEF LifeInv
<1>1. LifeOf(t)
  <2>1. ~mixed /\ \A u \in Threads \ {t} : pc[u] \notin InLife
    BY <1>a, <1>g, OthersQuiet DEF Goto
  <2>2. CASE pc[t] \in InLife
    BY <2>1, <2>2 DEF LifeInv
  <2>3. CASE pc[t] \notin InLife
    <3>1. Counted /\ Lives
      BY <2>1, <2>3 DEF LifeInv
    <3> QED BY <2>3, <3>1 DEF LifeOf, InLife, InHit
  <2> QED BY <2>2, <2>3
<1> USE DEF Goto
<1>2. CASE \E p \in Players : MonsterHit(t, p)
  BY <1>p, <1>1, <1>2 DEF MonsterHit, LifeOf, history
<1>3. CASE LoadHp(t)
  BY <1>p, <1>1, <1>3 DEF LoadHp, LifeOf, monster, history
<1>4. CASE TakeDemage(t)
  <2>1. hp' = hp - 1 /\ hits' = hits + 1 /\ spawned' = spawned /\ Counted /\ Lives
    BY <1>p, <1>1, <1>4 DEF TakeDemage, DieBelow, LifeOf
  <2>2. pc'[t] = IF hp - 1 <= 0 THEN "die" ELSE "alive"
    BY <1>p, <1>1, <1>4 DEF TakeDemage, DieBelow, LifeOf
  <2> QED BY <1>p, <2>1, <2>2 DEF LifeOf
<1>5. CASE Die(t)
  BY <1>p, <1>1, <1>5 DEF Die, LifeOf, locals, history
<1>6. CASE DieUnit(t) \/ SetAttackPlayerUUid(t)
  BY <1>p, <1>1, <1>6 DEF DieUnit, SetAttackPlayerUUid, LifeOf, monster, history
<1>7. CASE SpanMoster(t) /\ ~spawned
  BY <1>p, <1>1, <1>7 DEF SpanMoster, LifeOf, monster, history, locals
<1>8. CASE ResetSpawn(t) \/ ResetTarget(t)
  BY <1>p, <1>1, <1>8 DEF ResetSpawn, ResetTarget, ResetTargetTo, LifeOf, locals
<1>9. CASE SetSpawn(t)
  BY <1>p, <1>1, <1>9 DEF SetSpawn, SpawnAs, LifeOf, locals, history
<1> QED
  BY <1>2, <1>3, <1>4, <1>5, <1>6, <1>7, <1>8, <1>9 DEF LifeStep, HitStep

LEMMA OtherStepKept ==
  ASSUME TypeInv, LifeInv, NEW t \in Threads, ThreadStep(t), ~LifeStep(t)
  PROVE  LifeInv'
<1>p. pc \in [Threads -> Points]
  BY DEF TypeInv, TypeOK, Points
<1>0. CASE NullSession(t)
  BY <1>0 DEF NullSession, LifeInv, LifeOf, Counted, Lives, monster, history, locals
<1>1. ASSUME ~NullSession(t)
      PROVE  /\ UNCHANGED <<hp, hits, spawned, reg>>
             /\ \E from, to : Goto(t, from, to) /\ from \notin InLife /\ to \notin InLife
  <2> USE DEF InLife, InHit
  <2>1. CASE PlayerStep(t)
    BY <2>1 DEF PlayerStep, LifeStep, AddSession, DelSession, MovePlayer, monster, locals, history
  <2>2. CASE BeginTask(t) \/ SpanMoster(t) \/ SetTick(t)
    BY <2>2 DEF BeginTask, SpanMoster, LifeStep, SetTick, TurnOf, monster, locals, history
  <2>3. CASE StandStill(t) \/ FindTarget(t) \/ OnTarget(t)
    BY <2>3 DEF StandStill, EndMove, FindTarget, OnTarget, FollowIf, monster, locals, inHit, history
  <2>4. CASE Attack(t) \/ Approach(t) \/ Stroll(t)
    BY <2>4 DEF Attack, EndMove, Approach, Stroll, inHit, history
  <2> QED BY <1>1, <2>1, <2>2, <2>3, <2>4 DEF ThreadStep, TaskStep, LifeStep
<1>2. ASSUME ~NullSession(t) PROVE LifeInv'
  <2>1. PICK from, to : Goto(t, from, to) /\ from \notin InLife /\ to \notin InLife
    BY <1>1, <1>2
  <2>2. Apart(t)
    BY <1>p, <2>1 DEF Goto, Apart
  <2> QED BY <1>1, <1>2, <2>1, <2>2, ApartKept
<1> QED BY <1>0, <1>2

LEMMA LifeKept == TypeInv /\ LifeInv /\ [Next]_vars => LifeInv'
<1> SUFFICES ASSUME TypeInv, LifeInv, [Next]_vars PROVE LifeInv'
  OBVIOUS
<1>1. CASE UNCHANGED vars
  BY <1>1 DEF vars, monster, locals, history, LifeInv, LifeOf, Counted, Lives
<1> QED BY <1>1, LifeStepKept, OtherStepKept DEF Next, ThreadStep, PlayerStep

(***************************************************************************)
(* As long as hits and respawns do not overlap, every hit costs a point    *)
(* and a monster is up exactly while it has any left, however many hits it *)
(* stands, and whatever else goes on during a hit.                         *)
(***************************************************************************)
THEOREM LifeMatches == Safety => []LifeMatchesHits
<1>1. Init => LifeInv
  BY DEF Init, LifeInv, LifeOf, Counted, Lives, InLife, InHit
<1>2. TypeInv /\ LifeInv => LifeMatchesHits
  BY DEF LifeInv, Counted, Lives, LifeMatchesHits, Quiet
<1> QED BY <1>1, <1>2, TypeInit, TypeKept, LifeKept, PTL DEF Safety

=============================================================================
