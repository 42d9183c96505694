------------------------- MODULE ConnectionsProofs -------------------------
(***************************************************************************)
(* What holds of sessions and descriptor numbers for any number of threads *)
(* and connections.                                                        *)
(*                                                                         *)
(* The heart of it is who can be alive under a number: a session that is   *)
(* alive while a later one has its number makes that one early (Earlier),  *)
(* and the kernel gives a number to the latest (Latest).  So that whoever  *)
(* is destroyed, and closes a number, closes it to nobody but a session    *)
(* that was accepted early.                                                *)
(***************************************************************************)
EXTENDS Connections, SequenceTheorems, FiniteSetTheorems, TLAPS

USE FdsAssumption, SessionsAssumption

Jobs == [op : Ops, session : Sessions]

-----------------------------------------------------------------------------
(***************************************************************************)
(* Sequences of jobs, and the jobs that wait.                              *)
(***************************************************************************)
LEMMA ElemsAppend ==
  ASSUME NEW s \in Seq(Jobs), NEW j \in Jobs
  PROVE  Append(s, j) \in Seq(Jobs) /\ Elems(Append(s, j)) = Elems(s) \union {j}
<1>1. /\ Append(s, j) \in Seq(Jobs)
      /\ Len(s) \in Nat /\ Len(Append(s, j)) = Len(s) + 1
      /\ \A i \in 1..Len(s) : Append(s, j)[i] = s[i]
      /\ Append(s, j)[Len(s) + 1] = j
  OBVIOUS
<1>2. 1..(Len(s) + 1) = 1..Len(s) \union {Len(s) + 1}
  BY <1>1
<1> QED BY <1>1, <1>2 DEF Elems

LEMMA ElemsPop ==
  ASSUME NEW s \in Seq(Jobs), s # <<>>
  PROVE  /\ Head(s) \in Jobs /\ Tail(s) \in Seq(Jobs)
         /\ Elems(s) = {Head(s)} \union Elems(Tail(s))
         /\ Len(s) \in Nat /\ (Len(s) = 1 <=> Tail(s) = <<>>)
<1>1. /\ Head(s) = s[1] /\ Head(s) \in Jobs /\ Tail(s) \in Seq(Jobs)
      /\ Len(s) \in Nat \ {0} /\ Len(Tail(s)) = Len(s) - 1
      /\ \A i \in 1..Len(Tail(s)) : Tail(s)[i] = s[i + 1]
  OBVIOUS
<1>2. ASSUME NEW i \in 1..Len(s) PROVE s[i] \in {Head(s)} \union Elems(Tail(s))
  <2>1. CASE i = 1
    BY <2>1, <1>1
  <2>2. CASE i # 1
    <3>1. i - 1 \in 1..Len(Tail(s)) /\ Tail(s)[i - 1] = s[i]
      BY <1>1, <2>2
    <3> QED BY <3>1 DEF Elems
  <2> QED BY <2>1, <2>2
<1>3. Elems(Tail(s)) \subseteq Elems(s)
  <2>1. \A i \in 1..Len(Tail(s)) : i + 1 \in 1..Len(s)
    BY <1>1
  <2> QED BY <1>1, <2>1 DEF Elems
<1>4. Head(s) \in Elems(s)
  BY <1>1 DEF Elems
<1>5. Elems(s) \subseteq {Head(s)} \union Elems(Tail(s))
  BY <1>2 DEF Elems
<1>6. Len(s) = 1 <=> Tail(s) = <<>>
  BY <1>1, EmptySeq
<1> QED BY <1>1, <1>3, <1>4, <1>5, <1>6

LEMMA ElemsType ==
  ASSUME NEW s \in Seq(Jobs)
  PROVE  Elems(s) \subseteq Jobs /\ (s = <<>> <=> Elems(s) = {})
<1>1. Len(s) \in Nat /\ (s # <<>> => 1 \in 1..Len(s))
  BY EmptySeq
<1> QED BY <1>1 DEF Elems

LEMMA JobFields ==
  ASSUME NEW o, NEW s
  PROVE  /\ Job(o, s).op = o /\ Job(o, s).session = s
         /\ o \in Ops /\ s \in Sessions => Job(o, s) \in Jobs
BY DEF Job, Jobs

LEMMA JobIs ==
  ASSUME NEW j \in Jobs
  PROVE  j.op \in Ops /\ j.session \in Sessions /\ j = Job(j.op, j.session)
BY DEF Job, Jobs

LEMMA SessionNumbers == Sessions \subseteq Nat /\ Nobody \notin Sessions
BY DEF Sessions, Nobody

-----------------------------------------------------------------------------
(***************************************************************************)
(* The types, what the places say of the locals, and the gate.             *)
(***************************************************************************)
Inside(t) == pc[t] \in {"event", "register", "release", "end"}

Stages ==
  \A t \in Threads :
    /\ pc[t] \in {"register", "release"} => session[t] \in Sessions
    /\ pc[t] = "execute" <=> jobs[t] # <<>>

OneReader == \A t, u \in Threads : Inside(t) /\ Inside(u) => t = u

Numbers ==
  /\ \A n \in Fds : socket[n] # Nobody => fd[socket[n]] = n
  /\ \A n \in Fds : registry[n] # Nobody => fd[registry[n]] = n
  /\ \A n \in Fds : members[n] # Nobody => fd[members[n]] = n
  /\ \A t \in Threads : pc[t] \in {"register", "release"} => fd[session[t]] \in Fds
  /\ \A j \in Waiting : fd[j.session] \in Fds

TypeInv == TypeOK /\ Stages /\ OneReader /\ Numbers

LEMMA DestroyType ==
  ASSUME TypeOK, NEW created \in SUBSET Sessions,
         NEW table \in [Fds -> Sessions \union {Nobody}], Destroy(created, table)
  PROVE  alive' \subseteq Sessions /\ socket' \in [Fds -> Sessions \union {Nobody}]
BY DEF TypeOK, Destroy

LEMMA InitTypeInv == Init => TypeInv
<1> SUFFICES ASSUME Init PROVE TypeInv
  OBVIOUS
<1>1. <<>> \in Seq([op : Ops, session : Sessions])
  BY EmptySeq
<1>2. q \in Seq([op : Ops, session : Sessions]) /\ jobs \in [Threads -> Seq([op : Ops, session : Sessions])]
  BY <1>1 DEF Init
<1>3. overlapped \in BOOLEAN
  BY DEF Init
<1>4. /\ pc \in [Threads -> {"idle", "event", "register", "release", "end", "run", "execute"}]
      /\ session \in [Threads -> Sessions \union {Nobody}]
      /\ events \subseteq Fds
      /\ socket \in [Fds -> Sessions \union {Nobody}]
      /\ fd \in [Sessions -> Fds \union {0}]
      /\ registry \in [Fds -> Sessions \union {Nobody}]
      /\ sessionCount \in Int
      /\ members \in [Fds -> Sessions \union {Nobody}]
  BY DEF Init
<1>5. /\ connected \subseteq Sessions /\ alive \subseteq Sessions
      /\ loaded \subseteq Sessions /\ early \subseteq Sessions /\ overtaken \subseteq Sessions
      /\ shown \in [Sessions -> SUBSET Fds]
  BY DEF Init
<1>6. Stages /\ OneReader
  BY DEF Init, Stages, OneReader, Inside
<1>7. Numbers
  BY DEF Init, Numbers, Waiting, Elems
<1> QED BY <1>2, <1>3, <1>4, <1>5, <1>6, <1>7 DEF TypeInv, TypeOK

(* The steps of one thread. *)
Step(t) ==
  \/ EventCount(t) \/ NotReading(t) \/ OffReading(t) \/ Accept(t) \/ Register(t) \/ Load(t)
  \/ ReleaseSession(t) \/ PushDelSession(t) \/ EndRead(t) \/ Execute(t) \/ RunJob(t)

LEMMA NextIsStep == Next <=> \E t \in Threads : Step(t)
BY DEF Next, Client, RunTask, Step

LEMMA BooleanStep ==
  ASSUME overlapped \in BOOLEAN, NEW t \in Threads, Step(t)
  PROVE  overlapped' \in BOOLEAN
BY Zenon DEF Step, EventCount, NotReading, OffReading, Accept, Register, Load, ReleaseSession, ReleaseCounted,
             PushDelSession, PushLast, EndRead, EndWith, Execute, RunJob, history

(* What a job does to the room. *)
Effect(t, j) ==
  /\ jobs[t] \in Seq(Jobs) /\ jobs[t] # <<>> /\ j = Head(jobs[t])
  /\ pc[t] = "execute"
  /\ pc' = [pc EXCEPT ![t] = IF Tail(jobs[t]) = <<>> THEN "idle" ELSE "execute"]
  /\ jobs' = [jobs EXCEPT ![t] = Tail(jobs[t])]
  /\ UNCHANGED <<session, events, fd, registry, sessionCount, connected, q, loaded, early, overlapped>>
  /\ Destroy({}, socket)
  /\ shown' \in [Sessions -> SUBSET Fds]
  /\ \/ /\ j.op = "AddSession"
        /\ members' = [members EXCEPT ![fd[j.session]] = j.session]
        /\ overtaken' = overtaken
     \/ /\ j.op = "BroadcastAnother"
        /\ members' = members /\ overtaken' = overtaken
     \/ /\ j.op = "DelSession"
        /\ members' = [n \in Fds |-> IF n = fd[j.session] THEN Nobody ELSE members[n]]
        /\ overtaken' = overtaken \union {r \in {j.session} : Job("AddSession", j.session) \in Waiting}

LEMMA JobEffect ==
  ASSUME TypeInv, NEW t \in Threads, RunJob(t)
  PROVE  \E j \in Jobs : Effect(t, j)
<1>1. /\ jobs[t] \in Seq(Jobs) /\ pc[t] = "execute" /\ jobs[t] # <<>>
  BY DEF RunJob, Goto, TypeInv, TypeOK, Stages, Jobs
<1> DEFINE j == Head(jobs[t])
<1>2. j \in Jobs /\ (Len(jobs[t]) = 1 <=> Tail(jobs[t]) = <<>>)
  BY <1>1, ElemsPop
<1>3. /\ pc' = [pc EXCEPT ![t] = IF Tail(jobs[t]) = <<>> THEN "idle" ELSE "execute"]
      /\ jobs' = [jobs EXCEPT ![t] = Tail(jobs[t])]
      /\ UNCHANGED <<session, events, fd, registry, sessionCount, connected, q, loaded, early, overlapped>>
      /\ Destroy({}, socket)
  BY <1>2 DEF RunJob, Goto
<1>4. j.session \in Sessions
  BY <1>2, JobIs
<1>5. CASE j.op = "AddSession" /\ AddSession(j.session)
  <2>1. members' = [members EXCEPT ![fd[j.session]] = j.session] /\ overtaken' = overtaken
    BY <1>5 DEF AddSession, AddAndShow
  <2>2. fd[j.session] \in Fds
    <3>1. j \in Waiting
      BY <1>1, ElemsPop DEF Waiting
    <3> QED BY <3>1 DEF TypeInv, Numbers
  <2>3. \A o \in Others(fd[j.session]) : fd[o] \in Fds
    <3>1. \A n \in Fds : members[n] # Nobody => fd[members[n]] = n
      BY DEF TypeInv, Numbers
    <3> QED BY <3>1 DEF Others
  <2>4. shown' \in [Sessions -> SUBSET Fds]
    <3> HIDE DEF j
    <3>1. shown \in [Sessions -> SUBSET Fds]
      BY DEF TypeInv, TypeOK
    <3> QED BY <1>5, <2>2, <2>3, <3>1 DEF AddSession, AddAndShow, Show
  <2> QED BY <1>1, <1>2, <1>3, <1>5, <2>1, <2>4 DEF Effect
<1>6. CASE j.op = "BroadcastAnother" /\ BroadcastAnother(j.session)
  <2>1. members' = members /\ overtaken' = overtaken /\ shown' \in [Sessions -> SUBSET Fds]
    BY <1>6 DEF BroadcastAnother, TypeInv, TypeOK
  <2> QED BY <1>1, <1>2, <1>3, <1>6, <2>1 DEF Effect
<1>7. CASE j.op = "DelSession" /\ DelSession(j.session)
  <2>1. /\ members' = [n \in Fds |-> IF n = fd[j.session] THEN Nobody ELSE members[n]]
        /\ overtaken' = overtaken \union {r \in {j.session} : Job("AddSession", j.session) \in Waiting}
        /\ shown' \in [Sessions -> SUBSET Fds]
    BY <1>7 DEF DelSession, Erase, TypeInv, TypeOK
  <2> QED BY <1>1, <1>2, <1>3, <1>7, <2>1 DEF Effect
<1> QED BY <1>5, <1>6, <1>7 DEF RunJob

(***************************************************************************)
(* How the jobs that wait change.                                          *)
(***************************************************************************)
LEMMA WaitingPush ==
  ASSUME TypeOK, NEW j \in Jobs, q' = Append(q, j), jobs' = jobs
  PROVE  q' \in Seq(Jobs) /\ Waiting' = Waiting \union {j}
<1>1. q \in Seq(Jobs)
  BY DEF TypeOK, Jobs
<1>2. q' \in Seq(Jobs) /\ Elems(q') = Elems(q) \union {j}
  BY <1>1, ElemsAppend
<1>3. Elems(q)' = Elems(q')
  BY DEF Elems
<1>4. \A t \in Threads : Elems(jobs[t])' = Elems(jobs[t])
  BY DEF Elems
<1> QED BY <1>2, <1>3, <1>4 DEF Waiting

LEMMA WaitingExecute ==
  ASSUME TypeInv, NEW t \in Threads, Execute(t)
  PROVE  Waiting' = Waiting
<1>1. jobs \in [Threads -> Seq(Jobs)] /\ q \in Seq(Jobs)
  BY DEF TypeInv, TypeOK, Jobs
<1>2. jobs[t] = <<>> /\ jobs' = [jobs EXCEPT ![t] = q] /\ q' = <<>>
  BY DEF Execute, Goto, TypeInv, Stages
<1>3. Elems(<<>>) = {}
  BY DEF Elems
<1>4. Elems(q)' = {} /\ Elems(jobs[t])' = Elems(q) /\ Elems(jobs[t]) = {}
  BY <1>1, <1>2, <1>3 DEF Elems
<1>5. \A u \in Threads \ {t} : Elems(jobs[u])' = Elems(jobs[u])
  BY <1>1, <1>2 DEF Elems
<1> QED BY <1>4, <1>5 DEF Waiting

LEMMA WaitingPop ==
  ASSUME TypeOK, NEW t \in Threads, jobs[t] # <<>>,
         jobs' = [jobs EXCEPT ![t] = Tail(jobs[t])], q' = q
  PROVE  /\ Waiting' \subseteq Waiting
         /\ Waiting \subseteq Waiting' \union {Head(jobs[t])}
         /\ Head(jobs[t]) \in Waiting
<1>1. jobs \in [Threads -> Seq(Jobs)]
  BY DEF TypeOK, Jobs
<1>2. Elems(jobs[t]) = {Head(jobs[t])} \union Elems(Tail(jobs[t]))
  BY <1>1, ElemsPop
<1>3. Elems(q)' = Elems(q) /\ Elems(jobs[t])' = Elems(Tail(jobs[t]))
  BY <1>1 DEF Elems
<1>4. \A u \in Threads \ {t} : Elems(jobs[u])' = Elems(jobs[u])
  BY <1>1 DEF Elems
<1> QED BY <1>2, <1>3, <1>4 DEF Waiting

LEMMA WaitingJobs == TypeOK => Waiting \subseteq Jobs
<1> SUFFICES ASSUME TypeOK PROVE Waiting \subseteq Jobs
  OBVIOUS
<1>1. Elems(q) \subseteq Jobs /\ \A t \in Threads : Elems(jobs[t]) \subseteq Jobs
  BY ElemsType DEF TypeOK, Jobs
<1> QED BY <1>1 DEF Waiting

-----------------------------------------------------------------------------
(* The places of the threads. *)
LEMMA StagesStep ==
  ASSUME TypeInv, NEW t \in Threads, Step(t)
  PROVE  Stages' /\ OneReader'
<1> USE DEF TypeInv, TypeOK, Stages, OneReader, Inside, Goto
<1>1. CASE EventCount(t)
  BY <1>1 DEF EventCount, Reading, objects, Keep
<1>2. CASE NotReading(t)
  BY <1>2 DEF NotReading, objects, Keep
<1>3. CASE OffReading(t)
  BY <1>3 DEF OffReading, objects, Keep
<1>4. CASE Accept(t)
  BY <1>4 DEF Accept
<1>5. CASE Register(t)
  BY <1>5 DEF Register
<1>6. CASE Load(t)
  BY <1>6 DEF Load, objects, Keep
<1>7. CASE ReleaseSession(t)
  BY <1>7 DEF ReleaseSession, ReleaseCounted
<1>8. CASE PushDelSession(t)
  BY <1>8 DEF PushDelSession, PushLast, objects, Keep
<1>9. CASE EndRead(t)
  BY <1>9 DEF EndRead, EndWith, objects
<1>10. CASE Execute(t)
  BY <1>10 DEF Execute, objects, Keep
<1>11. CASE RunJob(t)
  <2>1. /\ pc[t] = "execute" /\ session' = session
        /\ pc' = [pc EXCEPT ![t] = IF Tail(jobs[t]) = <<>> THEN "idle" ELSE "execute"]
        /\ jobs' = [jobs EXCEPT ![t] = Tail(jobs[t])]
    BY <1>11, JobEffect DEF Effect
  <2> QED BY <2>1
<1> QED BY <1>1, <1>2, <1>3, <1>4, <1>5, <1>6, <1>7, <1>8, <1>9, <1>10, <1>11 DEF Step

(***************************************************************************)
(* Sets of sessions, and the counter.                                      *)
(***************************************************************************)
LEMMA SessionSets ==
  ASSUME NEW S \in SUBSET Sessions
  PROVE  IsFiniteSet(S) /\ Cardinality(S) \in Nat
<1>1. IsFiniteSet(Sessions)
  BY FS_Interval DEF Sessions
<1>2. IsFiniteSet(S)
  BY <1>1, FS_Subset
<1> QED BY <1>2, FS_CardinalityType

LEMMA CreatedCount ==
  ASSUME NEW s, NEW p \in BOOLEAN
  PROVE  Cardinality({r \in {s} : p}) = IF p THEN 1 ELSE 0
<1>1. CASE p
  <2>1. {r \in {s} : p} = {s}
    BY <1>1
  <2>2. Cardinality({s}) = 1
    BY FS_Singleton
  <2> QED BY <1>1, <2>1, <2>2
<1>2. CASE ~p
  <2>1. {r \in {s} : p} = {}
    BY <1>2
  <2>2. Cardinality({}) = 0
    BY FS_EmptySet
  <2> QED BY <1>2, <2>1, <2>2
<1> QED BY <1>1, <1>2

LEMMA CounterStep ==
  ASSUME TypeInv, NEW t \in Threads, Step(t)
  PROVE  sessionCount' \in Int
<1>t. sessionCount \in Int
  BY DEF TypeInv, TypeOK
<1>1. CASE Register(t)
  <2>1. PICK p \in BOOLEAN : p = (socket[fd[session[t]]] = session[t])
    OBVIOUS
  <2>2. sessionCount' = sessionCount + Cardinality({r \in {session[t]} : p})
    BY <1>1, <2>1 DEF Register
  <2>3. Cardinality({r \in {session[t]} : p}) \in {0, 1}
    BY CreatedCount
  <2> QED BY <1>t, <2>2, <2>3
<1>2. CASE ReleaseSession(t)
  BY <1>t, <1>2 DEF ReleaseSession, ReleaseCounted
<1>3. CASE RunJob(t)
  BY <1>t, <1>3 DEF RunJob
<1>4. CASE ~Register(t) /\ ~ReleaseSession(t) /\ ~RunJob(t)
  BY <1>t, <1>4 DEF Step, EventCount, NotReading, OffReading, Accept, Load, PushDelSession, PushLast,
     EndRead, EndWith, Execute, objects
<1> QED BY <1>1, <1>2, <1>3, <1>4

LEMMA TypeStep ==
  ASSUME TypeInv, NEW t \in Threads, Step(t)
  PROVE  TypeOK'
<1>0. overlapped' \in BOOLEAN /\ sessionCount' \in Int
  BY BooleanStep, CounterStep DEF TypeInv, TypeOK
<1>s. /\ \A n \in Fds : registry[n] # Nobody => registry[n] \in Sessions
      /\ pc[t] \in {"register", "release"} => session[t] \in Sessions
  BY DEF TypeInv, TypeOK, Stages
<1>j. \A o \in Ops, x \in Sessions : Job(o, x) \in Jobs
  BY JobFields
<1>o. "AddSession" \in Ops /\ "BroadcastAnother" \in Ops /\ "DelSession" \in Ops
  BY DEF Ops
<1>t. TypeOK
  BY DEF TypeInv
<1> USE DEF TypeOK, Goto
<1>1. CASE EventCount(t)
  BY <1>0, <1>t, <1>1 DEF EventCount, objects, world, history, Keep
<1>2. CASE NotReading(t)
  BY <1>0, <1>t, <1>2 DEF NotReading, objects, world, history, Keep
<1>3. CASE OffReading(t)
  BY <1>0, <1>t, <1>3 DEF OffReading, objects, world, history, Keep
<1>4. CASE Accept(t)
  <2>1. PICK n \in Fds, s \in Sessions :
          /\ session' = [session EXCEPT ![t] = s]
          /\ socket' = [socket EXCEPT ![n] = s]
          /\ fd' = [fd EXCEPT ![s] = n]
          /\ early' = early \union {r \in {s} : \E older \in alive : fd[older] = n}
    BY <1>4 DEF Accept
  <2>2. early' \subseteq Sessions
    BY <1>t, <2>1
  <2>3. pc' = [pc EXCEPT ![t] = "register"]
        /\ UNCHANGED <<events, registry, members, connected, alive, q, jobs, world, overtaken>>
    BY <1>4 DEF Accept
  <2> QED BY <1>0, <1>t, <2>1, <2>2, <2>3 DEF world
<1>5. CASE Register(t)
  <2>1. {r \in {session[t]} : socket[fd[session[t]]] = session[t]} \in SUBSET Sessions
    BY <1>s, <1>5 DEF Register
  <2>2. alive' \subseteq Sessions /\ socket' \in [Fds -> Sessions \union {Nobody}]
    BY <1>t, <1>5, <2>1, DestroyType DEF Register
  <2> QED BY <1>0, <1>t, <1>s, <1>5, <2>2 DEF Register, world, history
<1>6. CASE Load(t)
  <2>1. q' \in Seq(Jobs)
    BY <1>t, <1>s, <1>j, <1>o, <1>6, WaitingPush DEF Load
  <2>2. /\ pc' = [pc EXCEPT ![t] = "event"] /\ loaded' \subseteq Sessions
        /\ UNCHANGED <<session, events, socket, fd, registry, members, connected, alive, jobs, shown,
                       early, overtaken>>
    BY <1>t, <1>s, <1>6 DEF Load, objects, history, Keep
  <2> QED BY <1>0, <1>t, <2>1, <2>2 DEF Jobs
<1>7. CASE ReleaseSession(t)
  <2>1. q' \in Seq(Jobs)
    BY <1>t, <1>s, <1>j, <1>o, <1>7, WaitingPush DEF ReleaseSession, ReleaseCounted
  <2> QED BY <1>0, <1>t, <1>s, <1>7, <2>1 DEF ReleaseSession, ReleaseCounted, world, history, Jobs
<1>8. CASE PushDelSession(t)
  <2>1. q' \in Seq(Jobs)
    BY <1>t, <1>s, <1>j, <1>o, <1>8, WaitingPush DEF PushDelSession, PushLast
  <2> QED BY <1>0, <1>t, <1>8, <2>1 DEF PushDelSession, PushLast, objects, world, history, Keep, Jobs
<1>9. CASE EndRead(t)
  <2>1. alive' \subseteq Sessions /\ socket' \in [Fds -> Sessions \union {Nobody}]
    BY <1>t, <1>9, DestroyType DEF EndRead, EndWith
  <2> QED BY <1>0, <1>t, <1>9, <2>1 DEF EndRead, EndWith, objects, world, history
<1>10. CASE Execute(t)
  <2>1. <<>> \in Seq([op : Ops, session : Sessions])
    BY EmptySeq
  <2>2. /\ q' \in Seq([op : Ops, session : Sessions])
        /\ jobs' \in [Threads -> Seq([op : Ops, session : Sessions])]
    BY <1>t, <1>10, <2>1 DEF Execute
  <2> QED BY <1>0, <1>t, <1>10, <2>2 DEF Execute, objects, world, Keep
<1>11. CASE RunJob(t)
  <2>1. PICK j \in Jobs : Effect(t, j)
    BY <1>11, JobEffect
  <2> USE DEF Effect
  <2>2. alive' \subseteq Sessions /\ socket' \in [Fds -> Sessions \union {Nobody}]
    BY <1>t, <2>1, DestroyType
  <2>3. j.session \in Sessions
    BY JobIs
  <2>4. members' \in [Fds -> Sessions \union {Nobody}] /\ overtaken' \subseteq Sessions
    BY <1>t, <2>1, <2>3
  <2>5. jobs' \in [Threads -> Seq([op : Ops, session : Sessions])]
    <3>1. Tail(jobs[t]) \in Seq(Jobs)
      BY <2>1, ElemsPop
    <3> QED BY <1>t, <2>1, <3>1 DEF Jobs
  <2> QED BY <1>0, <1>t, <2>1, <2>2, <2>4, <2>5
<1> QED BY <1>1, <1>2, <1>3, <1>4, <1>5, <1>6, <1>7, <1>8, <1>9, <1>10, <1>11 DEF Step

(* Destroying sessions closes numbers, and does no more. *)
LEMMA DestroyEffect ==
  ASSUME NEW created, NEW table, Destroy(created, table)
  PROVE  /\ \A n \in Fds : socket'[n] \in {table[n], Nobody}
         /\ \A n \in Fds : socket'[n] # table[n] =>
              \E z \in alive \union created : z \notin Held' /\ fd[z] = n
         /\ alive' = {z \in alive \union created : z \in Held'}
BY DEF Destroy

LEMMA NumbersStep ==
  ASSUME TypeInv, NEW t \in Threads, Step(t)
  PROVE  Numbers'
<1>z. 0 \notin Fds
  BY DEF Nobody
<1>s. /\ \A n \in Fds : registry[n] # Nobody => registry[n] \in Sessions
      /\ pc[t] \in {"register", "release"} => session[t] \in Sessions
      /\ \A j \in Waiting : j.session \in Sessions
      /\ \A n \in Fds : socket[n] # Nobody => socket[n] \in Sessions
      /\ \A n \in Fds : members[n] # Nobody => members[n] \in Sessions
  BY WaitingJobs, JobIs DEF TypeInv, TypeOK, Stages
<1> USE DEF Goto
<1>1. ASSUME UNCHANGED <<q, jobs>> PROVE Waiting' = Waiting
  BY <1>1 DEF Waiting, Elems
<1>2. CASE EventCount(t) \/ NotReading(t) \/ OffReading(t) \/ EndRead(t)
  <2>1. UNCHANGED <<fd, registry, members>> /\ \A n \in Fds : socket'[n] \in {socket[n], Nobody}
    BY <1>2, DestroyEffect DEF EventCount, NotReading, OffReading, EndRead, EndWith, objects, Keep
  <2>2. Waiting' = Waiting
    BY <1>1, <1>2 DEF EventCount, NotReading, OffReading, EndRead, EndWith
  <2>3. \A u \in Threads : pc'[u] \in {"register", "release"} => pc[u] = pc'[u] /\ session'[u] = session[u]
    BY <1>2 DEF EventCount, NotReading, OffReading, EndRead, EndWith, TypeInv, TypeOK
  <2> QED BY <2>1, <2>2, <2>3 DEF TypeInv, Numbers
<1>3. CASE Accept(t)
  <2>1. PICK n \in Fds, s \in Sessions :
          /\ fd[s] = 0 /\ pc[t] = "event" /\ pc' = [pc EXCEPT ![t] = "register"]
          /\ session' = [session EXCEPT ![t] = s]
          /\ socket' = [socket EXCEPT ![n] = s]
          /\ fd' = [fd EXCEPT ![s] = n]
          /\ UNCHANGED <<registry, members, q, jobs>>
    BY <1>3 DEF Accept
  <2>2. \A x \in Sessions : fd[x] \in Fds => fd'[x] = fd[x]
    BY <1>z, <2>1 DEF TypeInv, TypeOK
  <2>3. fd'[s] = n
    BY <2>1 DEF TypeInv, TypeOK
  <2>4. Waiting' = Waiting
    BY <1>1, <2>1
  <2>5. \A m \in Fds : registry'[m] # Nobody => fd'[registry'[m]] = m
    BY <1>s, <2>1, <2>2 DEF TypeInv, Numbers
  <2>6. \A m \in Fds : members'[m] # Nobody => fd'[members'[m]] = m
    BY <1>s, <2>1, <2>2 DEF TypeInv, Numbers
  <2>7. \A m \in Fds : socket'[m] # Nobody => fd'[socket'[m]] = m
    BY <1>s, <2>1, <2>2, <2>3 DEF TypeInv, TypeOK, Numbers
  <2>8. \A j \in Waiting' : fd'[j.session] \in Fds
    BY <1>s, <2>2, <2>4 DEF TypeInv, Numbers
  <2>9. \A u \in Threads : pc'[u] \in {"register", "release"} => fd'[session'[u]] \in Fds
    <3> SUFFICES ASSUME NEW u \in Threads, pc'[u] \in {"register", "release"} PROVE fd'[session'[u]] \in Fds
      OBVIOUS
    <3>1. CASE u = t
      BY <2>1, <2>3, <3>1 DEF TypeInv, TypeOK
    <3>2. CASE u # t
      BY <2>1, <2>2, <3>2 DEF TypeInv, TypeOK, Numbers, Stages
    <3> QED BY <3>1, <3>2
  <2> QED BY <2>5, <2>6, <2>7, <2>8, <2>9 DEF Numbers
<1>4. CASE Register(t)
  <2>1. /\ pc[t] = "register" /\ pc' = [pc EXCEPT ![t] = "event"]
        /\ session' = [session EXCEPT ![t] = Nobody]
        /\ \A n \in Fds : registry'[n] = registry[n] \/ (registry'[n] = session[t] /\ n = fd[session[t]])
        /\ UNCHANGED <<fd, members, q, jobs>>
        /\ \A n \in Fds : socket'[n] \in {socket[n], Nobody}
    BY <1>4, DestroyEffect DEF Register
  <2>2. Waiting' = Waiting
    BY <1>1, <2>1
  <2>3. \A u \in Threads : pc'[u] \in {"register", "release"} => pc[u] = pc'[u] /\ session'[u] = session[u]
    BY <2>1 DEF TypeInv, TypeOK
  <2> QED BY <2>1, <2>2, <2>3 DEF TypeInv, Numbers
<1>5. CASE Load(t)
  <2>1. PICK n \in events :
          /\ registry[n] # Nobody /\ pc' = [pc EXCEPT ![t] = "event"]
          /\ q' = Append(q, Job("AddSession", registry[n])) /\ jobs' = jobs
          /\ UNCHANGED <<session, fd, registry, members, socket>>
    BY <1>5 DEF Load, objects, Keep
  <2>2. n \in Fds /\ registry[n] \in Sessions
    BY <1>s, <2>1 DEF TypeInv, TypeOK
  <2>3. Waiting' = Waiting \union {Job("AddSession", registry[n])}
    BY <2>1, <2>2, WaitingPush, JobFields DEF TypeInv, Ops
  <2>4. \A j \in Waiting' : fd'[j.session] \in Fds
    BY <2>1, <2>2, <2>3, JobFields DEF TypeInv, Numbers
  <2>5. \A u \in Threads : pc'[u] \in {"register", "release"} => pc[u] = pc'[u]
    BY <2>1 DEF TypeInv, TypeOK
  <2> QED BY <2>1, <2>4, <2>5 DEF TypeInv, Numbers
<1>6. CASE ReleaseSession(t)
  <2>1. PICK n \in events :
          /\ registry[n] # Nobody /\ pc' = [pc EXCEPT ![t] = "release"]
          /\ session' = [session EXCEPT ![t] = registry[n]]
          /\ registry' = [registry EXCEPT ![n] = Nobody]
          /\ socket' = [socket EXCEPT ![n] = Nobody]
          /\ q' = Append(q, Job("BroadcastAnother", registry[n])) /\ jobs' = jobs
          /\ UNCHANGED <<fd, members>>
    BY <1>6 DEF ReleaseSession, ReleaseCounted, TypeInv, TypeOK
  <2>2. n \in Fds /\ registry[n] \in Sessions /\ fd[registry[n]] = n
    BY <1>s, <2>1 DEF TypeInv, TypeOK, Numbers
  <2>3. Waiting' = Waiting \union {Job("BroadcastAnother", registry[n])}
    BY <2>1, <2>2, WaitingPush, JobFields DEF TypeInv, Ops
  <2>4. \A j \in Waiting' : fd'[j.session] \in Fds
    BY <2>1, <2>2, <2>3, JobFields DEF TypeInv, Numbers
  <2>5. \A u \in Threads : pc'[u] \in {"register", "release"} => fd'[session'[u]] \in Fds
    BY <2>1, <2>2 DEF TypeInv, TypeOK, Numbers
  <2> QED BY <2>1, <2>4, <2>5 DEF TypeInv, TypeOK, Numbers
<1>7. CASE PushDelSession(t)
  <2>1. /\ pc[t] = "release" /\ pc' = [pc EXCEPT ![t] = "end"]
        /\ q' = Append(q, Job("DelSession", session[t])) /\ jobs' = jobs
        /\ UNCHANGED <<session, fd, registry, members, socket>>
    BY <1>7 DEF PushDelSession, PushLast, objects, Keep
  <2>2. session[t] \in Sessions /\ fd[session[t]] \in Fds
    BY <1>s, <2>1 DEF TypeInv, Numbers
  <2>3. Waiting' = Waiting \union {Job("DelSession", session[t])}
    BY <2>1, <2>2, WaitingPush, JobFields DEF TypeInv, Ops
  <2>4. \A j \in Waiting' : fd'[j.session] \in Fds
    BY <2>1, <2>2, <2>3, JobFields DEF TypeInv, Numbers
  <2>5. \A u \in Threads : pc'[u] \in {"register", "release"} => pc[u] = pc'[u]
    BY <2>1 DEF TypeInv, TypeOK
  <2> QED BY <2>1, <2>4, <2>5 DEF TypeInv, Numbers
<1>8. CASE Execute(t)
  <2>1. Waiting' = Waiting
    BY <1>8, WaitingExecute
  <2>2. \A u \in Threads : pc'[u] \in {"register", "release"} => pc[u] = pc'[u]
    BY <1>8 DEF Execute, TypeInv, TypeOK
  <2> QED BY <1>8, <2>1, <2>2 DEF Execute, objects, Keep, TypeInv, Numbers
<1>9. CASE RunJob(t)
  <2>1. PICK j \in Jobs : Effect(t, j)
    BY <1>9, JobEffect
  <2>2. j \in Waiting /\ Waiting' \subseteq Waiting
    BY <2>1, WaitingPop DEF Effect, TypeInv
  <2>3. \A n \in Fds : members'[n] # Nobody => members'[n] = members[n] \/ (members'[n] = j.session /\ n = fd[j.session])
    BY <2>1 DEF Effect, TypeInv, TypeOK
  <2>4. \A n \in Fds : socket'[n] \in {socket[n], Nobody}
    BY <2>1, DestroyEffect DEF Effect
  <2>5. \A u \in Threads : pc'[u] \in {"register", "release"} => pc[u] = pc'[u]
    BY <2>1 DEF Effect, TypeInv, TypeOK
  <2>6. UNCHANGED <<session, fd, registry>>
    BY <2>1 DEF Effect
  <2> QED BY <2>2, <2>3, <2>4, <2>5, <2>6 DEF TypeInv, Numbers
<1> QED BY <1>2, <1>3, <1>4, <1>5, <1>6, <1>7, <1>8, <1>9 DEF Step

LEMMA StepTypeInv == TypeInv /\ [Next]_vars => TypeInv'
<1>1. ASSUME TypeInv, UNCHANGED vars PROVE TypeInv'
  <2> USE <1>1 DEF vars, objects, world, history
  <2>1. TypeOK'
    BY DEF TypeInv, TypeOK
  <2>2. Stages' /\ OneReader'
    BY DEF TypeInv, Stages, OneReader, Inside
  <2>3. Waiting' = Waiting
    BY DEF Waiting, Elems
  <2>4. Numbers'
    BY <2>3 DEF TypeInv, Numbers
  <2> QED BY <2>1, <2>2, <2>4 DEF TypeInv
<1>2. ASSUME TypeInv, Next PROVE TypeInv'
  BY <1>2, NextIsStep, TypeStep, StagesStep, NumbersStep DEF TypeInv
<1> QED BY <1>1, <1>2

LEMMA AlwaysTypeInv == Safety => []TypeInv
BY InitTypeInv, StepTypeInv, PTL DEF Safety

-----------------------------------------------------------------------------
(***************************************************************************)
(* Who has which number.  Sessions are accepted in their order; the one    *)
(* that is being registered is the newest; a number belongs to the latest  *)
(* session that got it; and whoever got it while an older one was alive is *)
(* early.                                                                  *)
(***************************************************************************)
InTurn == \A y, z \in Sessions : y < z /\ fd[z] # 0 => fd[y] # 0

Newest ==
  \A t \in Threads : pc[t] = "register" =>
    session[t] \notin alive /\ \A r \in Sessions : fd[r] # 0 => r <= session[t]

AliveAccepted == \A z \in alive : fd[z] # 0

Latest == \A n \in Fds : socket[n] # Nobody => \A z \in Sessions : fd[z] = n => z <= socket[n]

Earlier == \A z \in alive, r \in Sessions : z < r /\ fd[r] = fd[z] => r \in early

NumberInv == InTurn /\ Newest /\ AliveAccepted /\ Latest /\ Earlier

(* What all steps have in common that neither accept nor register. *)
LEMMA OtherSteps ==
  ASSUME TypeInv, NEW t \in Threads, Step(t), ~Accept(t), ~Register(t)
  PROVE  /\ fd' = fd /\ early' = early
         /\ alive' \subseteq alive /\ (alive' = alive \/ Destroy({}, socket))
         /\ \A n \in Fds : socket'[n] \in {socket[n], Nobody}
         /\ \A n \in Fds : registry'[n] \in {registry[n], Nobody}
         /\ \A u \in Threads : pc'[u] = "register" => pc[u] = "register" /\ session'[u] = session[u]
<1> USE DEF Goto, TypeInv, TypeOK
<1>1. CASE EventCount(t) \/ NotReading(t) \/ OffReading(t) \/ Load(t) \/ PushDelSession(t) \/ Execute(t)
  BY <1>1 DEF EventCount, NotReading, OffReading, Load, PushDelSession, PushLast, Execute, objects, history, Keep
<1>2. CASE ReleaseSession(t)
  BY <1>2 DEF ReleaseSession, ReleaseCounted, history
<1>3. ASSUME Destroy({}, socket)
      PROVE  alive' \subseteq alive /\ \A n \in Fds : socket'[n] \in {socket[n], Nobody}
  BY <1>3, DestroyEffect
<1>4. CASE EndRead(t)
  BY <1>3, <1>4 DEF EndRead, EndWith, objects, history
<1>5. CASE RunJob(t)
  <2>1. PICK j \in Jobs : Effect(t, j)
    BY <1>5, JobEffect
  <2> QED BY <1>3, <2>1 DEF Effect
<1> QED BY <1>1, <1>2, <1>4, <1>5 DEF Step

(* What registering does. *)
LEMMA RegisterEffect ==
  ASSUME TypeInv, NEW t \in Threads, Register(t)
  PROVE  \E s \in Sessions :
           /\ s = session[t] /\ fd[s] \in Fds
           /\ pc[t] = "register" /\ pc' = [pc EXCEPT ![t] = "event"]
           /\ session' = [session EXCEPT ![t] = Nobody]
           /\ UNCHANGED <<events, fd, members, q, jobs, world, history>>
           /\ Destroy({r \in {s} : socket[fd[s]] = s}, socket)
           /\ \A n \in Fds : registry'[n] = IF n = fd[s] /\ socket[n] = s THEN s ELSE registry[n]
           /\ alive' \subseteq alive \union {s}
           /\ \A n \in Fds : socket'[n] \in {socket[n], Nobody}
<1>1. session[t] \in Sessions /\ fd[session[t]] \in Fds /\ pc[t] = "register"
  BY DEF Register, Goto, TypeInv, Stages, Numbers
<1>2. \A n \in Fds : registry'[n] = IF n = fd[session[t]] /\ socket[n] = session[t] THEN session[t] ELSE registry[n]
  BY DEF Register
<1>3. /\ alive' \subseteq alive \union {session[t]}
      /\ \A n \in Fds : socket'[n] \in {socket[n], Nobody}
  BY DestroyEffect DEF Register
<1> QED BY <1>1, <1>2, <1>3 DEF Register, Goto

LEMMA RegisterTable ==
  ASSUME NEW t \in Threads, Register(t), NEW n \in Fds
  PROVE  /\ pc[t] = "register"
         /\ registry'[n] = IF n = fd[session[t]] /\ socket[n] = session[t] THEN session[t] ELSE registry[n]
         /\ socket'[n] \in {socket[n], Nobody}
<1>1. pc[t] = "register"
  BY DEF Register, Goto
<1>2. registry'[n] = IF n = fd[session[t]] /\ socket[n] = session[t] THEN session[t] ELSE registry[n]
  BY DEF Register
<1>3. socket'[n] \in {socket[n], Nobody}
  BY DestroyEffect DEF Register
<1> QED BY <1>1, <1>2, <1>3

LEMMA NumberStep ==
  ASSUME TypeInv, NumberInv, NEW t \in Threads, Step(t)
  PROVE  NumberInv'
<1>n. Sessions \subseteq Nat /\ Nobody \notin Sessions /\ 0 \notin Fds
  BY SessionNumbers
<1>t. /\ fd \in [Sessions -> Fds \union {0}] /\ alive \subseteq Sessions
      /\ socket \in [Fds -> Sessions \union {Nobody}]
      /\ pc \in [Threads -> {"idle", "event", "register", "release", "end", "run", "execute"}]
      /\ session \in [Threads -> Sessions \union {Nobody}]
  BY DEF TypeInv, TypeOK
<1>1. CASE Accept(t)
  <2>1. PICK n \in Fds, s \in Sessions :
          /\ socket[n] = Nobody
          /\ fd[s] = 0 /\ \A r \in Sessions : fd[r] = 0 => s <= r
          /\ pc[t] = "event" /\ pc' = [pc EXCEPT ![t] = "register"]
          /\ session' = [session EXCEPT ![t] = s]
          /\ socket' = [socket EXCEPT ![n] = s]
          /\ fd' = [fd EXCEPT ![s] = n]
          /\ early' = early \union {r \in {s} : \E older \in alive : fd[older] = n}
          /\ alive' = alive
    BY <1>1 DEF Accept, Goto
  <2>2. /\ fd'[s] = n /\ n # 0 /\ \A r \in Sessions : r # s => fd'[r] = fd[r]
        /\ s \notin alive
    BY <1>n, <1>t, <2>1 DEF NumberInv, AliveAccepted
  <2>3. \A r \in Sessions : fd[r] # 0 => r <= s
    BY <1>n, <2>1 DEF NumberInv, InTurn
  <2>4. InTurn'
    BY <1>n, <2>1, <2>2 DEF NumberInv, InTurn
  <2>5. Newest'
    <3>1. \A u \in Threads : pc'[u] = "register" => u = t
      BY <1>t, <2>1 DEF TypeInv, OneReader, Inside
    <3>2. session'[t] = s
      BY <1>t, <2>1
    <3>3. \A r \in Sessions : fd'[r] # 0 => r <= s
      BY <1>n, <2>2, <2>3
    <3> QED BY <2>1, <2>2, <3>1, <3>2, <3>3 DEF Newest
  <2>6. AliveAccepted'
    BY <1>t, <2>1, <2>2 DEF NumberInv, AliveAccepted
  <2>7. Latest'
    <3> SUFFICES ASSUME NEW m \in Fds, socket'[m] # Nobody, NEW z \in Sessions, fd'[z] = m
                 PROVE  z <= socket'[m]
      BY DEF Latest
    <3>1. CASE m = n
      <4>1. socket'[m] = s
        BY <1>t, <2>1, <3>1
      <4>2. z = s \/ fd[z] # 0
        BY <1>n, <2>2
      <4> QED BY <1>n, <2>3, <4>1, <4>2
    <3>2. CASE m # n
      BY <1>t, <2>1, <2>2, <3>2 DEF NumberInv, Latest
    <3> QED BY <3>1, <3>2
  <2>8. Earlier'
    <3> SUFFICES ASSUME NEW z \in alive', NEW r \in Sessions, z < r, fd'[r] = fd'[z]
                 PROVE  r \in early'
      BY DEF Earlier
    <3>1. z \in alive /\ z \in Sessions /\ fd'[z] = fd[z]
      BY <1>t, <2>1, <2>2
    <3>2. CASE r = s
      BY <2>1, <2>2, <3>1, <3>2
    <3>3. CASE r # s
      BY <2>1, <2>2, <3>1, <3>3 DEF NumberInv, Earlier
    <3> QED BY <3>2, <3>3
  <2> QED BY <2>4, <2>5, <2>6, <2>7, <2>8 DEF NumberInv
<1>2. CASE Register(t)
  <2>1. PICK s \in Sessions :
           /\ s = session[t] /\ fd[s] \in Fds
           /\ pc[t] = "register" /\ pc' = [pc EXCEPT ![t] = "event"]
           /\ UNCHANGED <<fd, early>>
           /\ alive' \subseteq alive \union {s}
           /\ \A n \in Fds : socket'[n] \in {socket[n], Nobody}
    BY <1>2, RegisterEffect DEF history
  <2>2. \A r \in Sessions : fd[r] # 0 => r <= s
    BY <2>1 DEF NumberInv, Newest
  <2>3. InTurn' /\ Latest'
    BY <2>1 DEF NumberInv, InTurn, Latest
  <2>4. Newest'
    <3>1. \A u \in Threads : pc'[u] # "register"
      BY <1>t, <2>1 DEF TypeInv, OneReader, Inside
    <3> QED BY <3>1 DEF Newest
  <2>5. AliveAccepted'
    BY <1>n, <2>1 DEF NumberInv, AliveAccepted
  <2>6. Earlier'
    <3> SUFFICES ASSUME NEW z \in alive', NEW r \in Sessions, z < r, fd'[r] = fd'[z]
                 PROVE  r \in early'
      BY DEF Earlier
    <3>1. z = s => FALSE
      BY <1>n, <2>1, <2>2
    <3> QED BY <2>1, <3>1 DEF NumberInv, Earlier
  <2> QED BY <2>3, <2>4, <2>5, <2>6 DEF NumberInv
<1>3. CASE ~Accept(t) /\ ~Register(t)
  <2>1. /\ fd' = fd /\ early' = early /\ alive' \subseteq alive
        /\ \A n \in Fds : socket'[n] \in {socket[n], Nobody}
        /\ \A u \in Threads : pc'[u] = "register" => pc[u] = "register" /\ session'[u] = session[u]
    BY <1>3, OtherSteps
  <2> QED BY <2>1 DEF NumberInv, InTurn, Newest, AliveAccepted, Latest, Earlier
<1> QED BY <1>1, <1>2, <1>3

-----------------------------------------------------------------------------
(***************************************************************************)
(* Where members, leavers and jobs come from.                              *)
(***************************************************************************)
MemberFrom(n) ==
  \/ members'[n] \in {members[n], Nobody}
  \/ \E j \in Waiting : j.op = "AddSession" /\ n = fd[j.session] /\ members'[n] = j.session

LeaverFrom(u) ==
  \/ pc[u] = "release" /\ session'[u] = session[u]
  \/ \E n \in Fds : registry[n] # Nobody /\ session'[u] = registry[n] /\ registry'[n] = Nobody

JobFrom(j) ==
  \/ j \in Waiting
  \/ j.op = "AddSession" /\ registry' = registry
     /\ \E n \in Fds : registry[n] # Nobody /\ registry[n] = j.session
  \/ j.op = "BroadcastAnother"
  \/ j.op = "DelSession" /\ registry' = registry
     /\ \E u \in Threads : pc[u] = "release" /\ session[u] = j.session

LEMMA Origins ==
  ASSUME TypeInv, NEW t \in Threads, Step(t)
  PROVE  /\ \A n \in Fds : MemberFrom(n)
         /\ \A u \in Threads : pc'[u] = "release" => LeaverFrom(u)
         /\ \A j \in Waiting' : JobFrom(j)
<1> USE DEF Goto, MemberFrom, LeaverFrom, JobFrom
<1>t. /\ pc \in [Threads -> {"idle", "event", "register", "release", "end", "run", "execute"}]
      /\ session \in [Threads -> Sessions \union {Nobody}]
      /\ events \subseteq Fds
      /\ registry \in [Fds -> Sessions \union {Nobody}]
  BY DEF TypeInv, TypeOK
<1>1. ASSUME UNCHANGED <<q, jobs>> PROVE Waiting' = Waiting
  BY <1>1 DEF Waiting, Elems
<1>2. CASE EventCount(t) \/ NotReading(t) \/ OffReading(t) \/ Accept(t) \/ Register(t) \/ EndRead(t)
  <2>1. UNCHANGED <<members, q, jobs>>
    BY <1>2 DEF EventCount, NotReading, OffReading, Accept, Register, EndRead, EndWith, objects
  <2>2. \A u \in Threads : pc'[u] = "release" => pc[u] = "release" /\ session'[u] = session[u]
    BY <1>t, <1>2 DEF EventCount, NotReading, OffReading, Accept, Register, EndRead, EndWith
  <2> QED BY <1>1, <2>1, <2>2
<1>3. CASE Load(t)
  <2>1. PICK n \in Fds :
          /\ registry[n] # Nobody /\ pc' = [pc EXCEPT ![t] = "event"]
          /\ q' = Append(q, Job("AddSession", registry[n])) /\ jobs' = jobs
          /\ UNCHANGED <<session, registry, members>>
    BY <1>t, <1>3 DEF Load, objects
  <2>2. Waiting' = Waiting \union {Job("AddSession", registry[n])}
    BY <1>t, <2>1, WaitingPush, JobFields DEF TypeInv, Ops
  <2>3. \A u \in Threads : pc'[u] = "release" => pc[u] = "release"
    BY <1>t, <2>1
  <2>4. \A j \in Waiting' : JobFrom(j)
    <3>1. /\ Job("AddSession", registry[n]).op = "AddSession"
          /\ Job("AddSession", registry[n]).session = registry[n]
      BY JobFields
    <3> QED BY <2>1, <2>2, <3>1
  <2> QED BY <2>1, <2>3, <2>4
<1>4. CASE ReleaseSession(t)
  <2>1. PICK n \in Fds :
          /\ registry[n] # Nobody /\ pc' = [pc EXCEPT ![t] = "release"]
          /\ session' = [session EXCEPT ![t] = registry[n]]
          /\ registry' = [registry EXCEPT ![n] = Nobody]
          /\ q' = Append(q, Job("BroadcastAnother", registry[n])) /\ jobs' = jobs
          /\ members' = members
    BY <1>t, <1>4 DEF ReleaseSession, ReleaseCounted
  <2>2. Waiting' = Waiting \union {Job("BroadcastAnother", registry[n])}
    BY <1>t, <2>1, WaitingPush, JobFields DEF TypeInv, Ops
  <2>3. \A u \in Threads \ {t} : pc'[u] = "release" => pc[u] = "release" /\ session'[u] = session[u]
    BY <1>t, <2>1
  <2>4. session'[t] = registry[n] /\ registry'[n] = Nobody
    BY <1>t, <2>1
  <2>5. \A m \in Fds : MemberFrom(m)
    BY <2>1
  <2>6. \A u \in Threads : pc'[u] = "release" => LeaverFrom(u)
    BY <2>1, <2>3, <2>4
  <2>7. \A j \in Waiting' : JobFrom(j)
    <3>1. Job("BroadcastAnother", registry[n]).op = "BroadcastAnother"
      BY JobFields
    <3> QED BY <2>2, <3>1
  <2> QED BY <2>5, <2>6, <2>7
<1>5. CASE PushDelSession(t)
  <2>1. /\ pc[t] = "release" /\ pc' = [pc EXCEPT ![t] = "end"]
        /\ q' = Append(q, Job("DelSession", session[t])) /\ jobs' = jobs
        /\ UNCHANGED <<session, registry, members>>
    BY <1>5 DEF PushDelSession, PushLast, objects
  <2>2. session[t] \in Sessions
    BY <2>1 DEF TypeInv, Stages
  <2>3. Waiting' = Waiting \union {Job("DelSession", session[t])}
    BY <2>1, <2>2, WaitingPush, JobFields DEF TypeInv, Ops
  <2>4. \A u \in Threads : pc'[u] = "release" => pc[u] = "release"
    BY <1>t, <2>1
  <2>5. \A j \in Waiting' : JobFrom(j)
    <3>1. /\ Job("DelSession", session[t]).op = "DelSession"
          /\ Job("DelSession", session[t]).session = session[t]
      BY JobFields
    <3> QED BY <2>1, <2>3, <3>1
  <2> QED BY <2>1, <2>4, <2>5
<1>6. CASE Execute(t)
  <2>1. Waiting' = Waiting
    BY <1>6, WaitingExecute
  <2>2. \A u \in Threads : pc'[u] = "release" => pc[u] = "release"
    BY <1>t, <1>6 DEF Execute
  <2> QED BY <1>6, <2>1, <2>2 DEF Execute, objects
<1>7. CASE RunJob(t)
  <2>1. PICK j \in Jobs : Effect(t, j)
    BY <1>7, JobEffect
  <2>2. j \in Waiting /\ Waiting' \subseteq Waiting
    BY <2>1, WaitingPop DEF Effect, TypeInv
  <2>3. \A n \in Fds : members'[n] \in {members[n], Nobody}
          \/ (j.op = "AddSession" /\ members'[n] = j.session /\ n = fd[j.session])
    BY <2>1 DEF Effect, TypeInv, TypeOK
  <2>4. session' = session /\ \A u \in Threads : pc'[u] = "release" => pc[u] = "release"
    BY <1>t, <2>1 DEF Effect
  <2> QED BY <2>2, <2>3, <2>4
<1> QED BY <1>2, <1>3, <1>4, <1>5, <1>6, <1>7 DEF Step

(***************************************************************************)
(* Whoever is referred to is alive.                                        *)
(***************************************************************************)
RegisteredAlive == \A n \in Fds : registry[n] # Nobody => registry[n] \in alive
MembersAlive == \A n \in Fds : members[n] # Nobody => members[n] \in alive
LeaversAlive == \A t \in Threads : pc[t] = "release" => session[t] \in alive
JobsAlive == \A j \in Waiting : j.op # "BroadcastAnother" => j.session \in alive

AliveInv == RegisteredAlive /\ MembersAlive /\ LeaversAlive /\ JobsAlive

LEMMA AliveStep ==
  ASSUME TypeInv, AliveInv, NEW t \in Threads, Step(t)
  PROVE  AliveInv'
<1>1. /\ \A n \in Fds : registry'[n] \in Held' /\ members'[n] \in Held'
      /\ \A u \in Threads : session'[u] \in Held'
      /\ \A j \in Waiting' : j.op # "BroadcastAnother" => j.session \in Held'
  BY DEF Held, HeldBesides
<1>2. \A x \in alive : x \in Held' => x \in alive'
  <2>1. CASE Accept(t)
    BY <2>1 DEF Accept
  <2>2. CASE Register(t)
    BY <2>2, DestroyEffect DEF Register
  <2>3. CASE ~Accept(t) /\ ~Register(t)
    BY <2>3, OtherSteps, DestroyEffect
  <2> QED BY <2>1, <2>2, <2>3
<1>3. RegisteredAlive'
  <2> SUFFICES ASSUME NEW n \in Fds, registry'[n] # Nobody PROVE registry'[n] \in alive'
    BY DEF RegisteredAlive
  <2>1. CASE registry'[n] = registry[n]
    BY <1>1, <1>2, <2>1 DEF AliveInv, RegisteredAlive
  <2>2. CASE registry'[n] # registry[n]
    <3>1. CASE Register(t)
      <4>1. PICK s \in Sessions :
              /\ Destroy({r \in {s} : socket[fd[s]] = s}, socket)
              /\ \A m \in Fds : registry'[m] = IF m = fd[s] /\ socket[m] = s THEN s ELSE registry[m]
        BY <3>1, RegisterEffect
      <4>2. registry'[n] = s /\ s \in {r \in {s} : socket[fd[s]] = s}
        BY <2>2, <4>1
      <4> QED BY <1>1, <4>1, <4>2, DestroyEffect
    <3>2. CASE Accept(t)
      BY <2>2, <3>2 DEF Accept
    <3>3. CASE ~Accept(t) /\ ~Register(t)
      BY <2>2, <3>3, OtherSteps
    <3> QED BY <3>1, <3>2, <3>3
  <2> QED BY <2>1, <2>2
<1>4. MembersAlive'
  BY <1>1, <1>2, Origins DEF AliveInv, MembersAlive, JobsAlive, MemberFrom
<1>5. LeaversAlive'
  BY <1>1, <1>2, Origins DEF AliveInv, LeaversAlive, RegisteredAlive, LeaverFrom
<1>6. JobsAlive'
  <2> SUFFICES ASSUME NEW j \in Waiting', j.op # "BroadcastAnother" PROVE j.session \in alive'
    BY DEF JobsAlive
  <2>1. JobFrom(j)
    BY Origins
  <2>2. j.session \in alive
    BY <2>1 DEF JobFrom, AliveInv, JobsAlive, RegisteredAlive, LeaversAlive
  <2> QED BY <1>1, <1>2, <2>2
<1> QED BY <1>3, <1>4, <1>5, <1>6 DEF AliveInv

(***************************************************************************)
(* How the registry changes, and who is registered or leaves afterwards.   *)
(***************************************************************************)
Registered(t, n) ==
  /\ pc[t] = "register" /\ n = fd[session[t]]
  /\ socket[n] = session[t] /\ registry'[n] = session[t]

Released(t, n) ==
  /\ registry[n] # Nobody /\ registry'[n] = Nobody
  /\ pc'[t] = "release" /\ session'[t] = registry[n]

LEMMA RegistryStep ==
  ASSUME TypeInv, NEW t \in Threads, Step(t), NEW n \in Fds
  PROVE  registry'[n] = registry[n] \/ Registered(t, n) \/ Released(t, n)
<1> USE DEF Goto
<1>t. /\ pc \in [Threads -> {"idle", "event", "register", "release", "end", "run", "execute"}]
      /\ session \in [Threads -> Sessions \union {Nobody}]
      /\ registry \in [Fds -> Sessions \union {Nobody}]
  BY DEF TypeInv, TypeOK
<1>1. CASE EventCount(t) \/ NotReading(t) \/ OffReading(t) \/ Accept(t) \/ Load(t) \/ PushDelSession(t)
             \/ EndRead(t) \/ Execute(t)
  BY <1>1 DEF EventCount, NotReading, OffReading, Accept, Load, PushDelSession, PushLast, EndRead, EndWith,
              Execute, objects
<1>2. CASE RunJob(t)
  BY <1>2, JobEffect DEF Effect
<1>3. CASE Register(t)
  <2>1. /\ pc[t] = "register"
        /\ registry'[n] = IF n = fd[session[t]] /\ socket[n] = session[t] THEN session[t] ELSE registry[n]
    BY <1>3, RegisterTable
  <2> QED BY <2>1 DEF Registered
<1>4. CASE ReleaseSession(t)
  <2>1. PICK m \in events :
          /\ registry[m] # Nobody /\ pc' = [pc EXCEPT ![t] = "release"]
          /\ session' = [session EXCEPT ![t] = registry[m]]
          /\ registry' = [registry EXCEPT ![m] = Nobody]
    BY <1>4 DEF ReleaseSession, ReleaseCounted
  <2> QED BY <1>t, <2>1 DEF Released
<1> QED BY <1>1, <1>2, <1>3, <1>4 DEF Step

(* A session that is being registered stays so, but for its Register. *)
LEMMA RegisterStays ==
  ASSUME TypeInv, NEW t \in Threads, Step(t), ~Register(t),
         NEW u \in Threads, pc[u] = "register"
  PROVE  pc'[u] = "register" /\ session'[u] = session[u]
<1> USE DEF Goto
<1>t. /\ pc \in [Threads -> {"idle", "event", "register", "release", "end", "run", "execute"}]
      /\ session \in [Threads -> Sessions \union {Nobody}]
  BY DEF TypeInv, TypeOK
<1>1. pc[t] # "event" /\ ~EventCount(t)
  BY DEF TypeInv, OneReader, Inside, EventCount, Reading
<1>2. CASE NotReading(t) \/ PushDelSession(t) \/ EndRead(t) \/ Execute(t)
  BY <1>t, <1>2 DEF NotReading, PushDelSession, PushLast, EndRead, EndWith, Execute
<1>3. CASE RunJob(t)
  BY <1>t, <1>3, JobEffect DEF Effect
<1>4. ~OffReading(t) /\ ~Accept(t) /\ ~Load(t) /\ ~ReleaseSession(t)
  BY <1>1 DEF OffReading, Accept, Load, ReleaseSession, ReleaseCounted
<1> QED BY <1>1, <1>2, <1>3, <1>4 DEF Step

-----------------------------------------------------------------------------
(***************************************************************************)
(* What is open, and for whom.                                             *)
(***************************************************************************)
LEMMA ForgottenStep ==
  ASSUME TypeInv, NoSocketForgotten, NEW t \in Threads, Step(t)
  PROVE  NoSocketForgotten'
<1> SUFFICES ASSUME NEW n \in Fds, socket'[n] # Nobody
             PROVE  \/ registry'[n] = socket'[n]
                    \/ \E u \in Threads : pc'[u] = "register" /\ session'[u] = socket'[n]
  BY DEF NoSocketForgotten
<1>t. /\ pc \in [Threads -> {"idle", "event", "register", "release", "end", "run", "execute"}]
      /\ session \in [Threads -> Sessions \union {Nobody}]
      /\ socket \in [Fds -> Sessions \union {Nobody}]
      /\ registry \in [Fds -> Sessions \union {Nobody}]
  BY DEF TypeInv, TypeOK
<1>1. CASE Accept(t)
  <2>1. PICK m \in Fds, s \in Sessions :
          /\ pc' = [pc EXCEPT ![t] = "register"]
          /\ session' = [session EXCEPT ![t] = s]
          /\ socket' = [socket EXCEPT ![m] = s]
          /\ registry' = registry
    BY <1>1 DEF Accept, Goto
  <2>2. CASE n = m
    BY <1>t, <2>1, <2>2
  <2>3. CASE n # m
    <3>1. socket'[n] = socket[n] /\ ~Register(t)
      BY <1>t, <1>1, <2>1, <2>3 DEF Accept, Register, Goto
    <3> QED BY <2>1, <3>1, RegisterStays DEF NoSocketForgotten
  <2> QED BY <2>2, <2>3
<1>2. CASE Register(t)
  <2>1. /\ pc[t] = "register" /\ socket'[n] = socket[n]
        /\ registry'[n] = IF n = fd[session[t]] /\ socket[n] = session[t] THEN session[t] ELSE registry[n]
    <3>1. /\ pc[t] = "register" /\ socket'[n] \in {socket[n], Nobody}
          /\ registry'[n] = IF n = fd[session[t]] /\ socket[n] = session[t] THEN session[t] ELSE registry[n]
      BY <1>2, RegisterTable
    <3> QED BY <3>1
  <2>2. \A u \in Threads : pc[u] = "register" => u = t
    BY <2>1 DEF TypeInv, OneReader, Inside
  <2>3. fd[socket[n]] = n
    BY <2>1 DEF TypeInv, Numbers
  <2> QED BY <2>1, <2>2, <2>3 DEF NoSocketForgotten
<1>3. CASE ~Accept(t) /\ ~Register(t)
  <2>1. socket'[n] = socket[n]
    BY <1>3, OtherSteps
  <2>2. CASE registry[n] = socket[n]
    <3>1. ~Released(t, n)
      <4>1. ASSUME ReleaseSession(t), Released(t, n) PROVE FALSE
        <5>1. PICK m \in events :
                /\ registry' = [registry EXCEPT ![m] = Nobody]
                /\ socket' = [socket EXCEPT ![m] = Nobody]
          BY <1>t, <4>1 DEF ReleaseSession, ReleaseCounted, TypeInv, TypeOK
        <5> QED BY <1>t, <2>1, <4>1, <5>1 DEF Released
      <4>2. ASSUME ~ReleaseSession(t), Released(t, n) PROVE FALSE
        <5>1. registry' = registry
          BY <1>3, <4>2, JobEffect DEF Step, EventCount, NotReading, OffReading, Load, PushDelSession, PushLast,
               EndRead, EndWith, Execute, Effect, objects
        <5> QED BY <4>2, <5>1 DEF Released
      <4> QED BY <4>1, <4>2
    <3>2. ~Registered(t, n) \/ registry'[n] = socket[n]
      BY DEF Registered
    <3> QED BY <2>1, <2>2, <3>1, <3>2, RegistryStep
  <2>3. CASE \E u \in Threads : pc[u] = "register" /\ session[u] = socket[n]
    BY <1>3, <2>1, <2>3, RegisterStays
  <2> QED BY <2>1, <2>2, <2>3 DEF NoSocketForgotten
<1> QED BY <1>1, <1>2, <1>3

(* Destroying sessions closes no number that belongs to one in turn. *)
LEMMA NotHit ==
  ASSUME TypeInv, NumberInv, NEW created,
         \A z \in created : z \in Sessions /\ socket[fd[z]] = z,
         Destroy(created, socket),
         NEW n \in Fds, NEW r \in Sessions,
         socket[n] = r, r \notin early, r \in Held'
  PROVE  socket'[n] = r
<1> SUFFICES ASSUME socket'[n] # r PROVE FALSE
  OBVIOUS
<1>1. PICK z \in alive \union created : z \notin Held' /\ fd[z] = n
  BY DestroyEffect
<1>2. z \in Sessions /\ z # r
  BY <1>1 DEF TypeInv, TypeOK
<1>3. fd[r] = n
  BY SessionNumbers DEF TypeInv, Numbers
<1>4. z \in alive
  BY <1>1, <1>2
<1>5. ~(z < r)
  BY <1>1, <1>3, <1>4 DEF NumberInv, Earlier
<1>6. z <= r
  BY <1>1, <1>2, SessionNumbers DEF NumberInv, Latest
<1> QED BY <1>2, <1>5, <1>6, SessionNumbers

LEMMA OpenStep ==
  ASSUME TypeInv, NumberInv, RegisteredIsOpen, NEW t \in Threads, Step(t)
  PROVE  RegisteredIsOpen'
<1> SUFFICES ASSUME NEW n \in Fds, registry'[n] # Nobody, registry'[n] \notin early'
             PROVE  socket'[n] = registry'[n]
  BY DEF RegisteredIsOpen
<1> DEFINE r == registry'[n]
<1>t. /\ socket \in [Fds -> Sessions \union {Nobody}]
      /\ registry \in [Fds -> Sessions \union {Nobody}]
      /\ events \subseteq Fds
  BY DEF TypeInv, TypeOK
<1>h. r \in Held'
  BY DEF Held, HeldBesides
<1>1. CASE Accept(t)
  <2>1. PICK m \in Fds, s \in Sessions :
          /\ socket[m] = Nobody /\ socket' = [socket EXCEPT ![m] = s]
          /\ registry' = registry /\ early \subseteq early'
    BY <1>1 DEF Accept
  <2>2. socket[n] = r
    BY <2>1 DEF RegisteredIsOpen
  <2> QED BY <1>t, <2>1, <2>2
<1>2. CASE Register(t)
  <2>1. PICK s \in Sessions :
          /\ s = session[t] /\ early' = early
          /\ Destroy({x \in {s} : socket[fd[s]] = s}, socket)
          /\ \A m \in Fds : registry'[m] = IF m = fd[s] /\ socket[m] = s THEN s ELSE registry[m]
    BY <1>2, RegisterEffect DEF history
  <2>2. socket[n] = r /\ r \in Sessions
    BY <1>t, <2>1 DEF RegisteredIsOpen
  <2> QED BY <1>h, <2>1, <2>2, NotHit
<1>3. CASE ReleaseSession(t)
  <2>1. PICK m \in events :
          /\ registry' = [registry EXCEPT ![m] = Nobody]
          /\ socket' = [socket EXCEPT ![m] = Nobody]
          /\ early' = early
    BY <1>t, <1>3 DEF ReleaseSession, ReleaseCounted, history
  <2> QED BY <1>t, <2>1 DEF RegisteredIsOpen
<1>4. CASE ~Accept(t) /\ ~Register(t) /\ ~ReleaseSession(t)
  <2>1. early' = early /\ registry' = registry /\ (socket' = socket \/ Destroy({}, socket))
    BY <1>4, JobEffect DEF Step, EventCount, NotReading, OffReading, Load, PushDelSession, PushLast,
         EndRead, EndWith, Execute, Effect, objects, history, Keep
  <2>2. socket[n] = r /\ r \in Sessions
    BY <1>t, <2>1 DEF RegisteredIsOpen
  <2> QED BY <1>h, <2>1, <2>2, NotHit
<1> QED BY <1>1, <1>2, <1>3, <1>4

-----------------------------------------------------------------------------
(***************************************************************************)
(* Who leaves is not registered, and whoever is to be added is registered  *)
(* or leaves.                                                              *)
(***************************************************************************)
Departed == \A s \in Sessions : Leaving(s) => \A n \in Fds : registry[n] # s

Present(s) == (\E n \in Fds : registry[n] = s) \/ Leaving(s)

AddAccounted ==
  \A s \in Sessions : Job("AddSession", s) \in Waiting /\ s \notin early \union overtaken => Present(s)

(* What is popped is a job, and nothing else is lost. *)
LEMMA JobsStay ==
  ASSUME TypeInv, NEW t \in Threads, Step(t)
  PROVE  \/ Waiting \subseteq Waiting'
         \/ \E j \in Jobs : Effect(t, j) /\ Waiting \subseteq Waiting' \union {j}
<1>t. /\ events \subseteq Fds
      /\ registry \in [Fds -> Sessions \union {Nobody}]
  BY DEF TypeInv, TypeOK
<1>1. CASE EventCount(t) \/ NotReading(t) \/ OffReading(t) \/ Accept(t) \/ Register(t) \/ EndRead(t)
  <2>1. UNCHANGED <<q, jobs>>
    BY <1>1 DEF EventCount, NotReading, OffReading, Accept, Register, EndRead, EndWith
  <2> QED BY <2>1 DEF Waiting, Elems
<1>2. CASE Execute(t)
  BY <1>2, WaitingExecute
<1>3. CASE RunJob(t)
  <2>1. PICK j \in Jobs : Effect(t, j)
    BY <1>3, JobEffect
  <2>2. Waiting \subseteq Waiting' \union {j}
    BY <2>1, WaitingPop DEF Effect, TypeInv
  <2> QED BY <2>1, <2>2
<1>4. CASE Load(t) \/ ReleaseSession(t) \/ PushDelSession(t)
  <2>1. PICK o \in Ops, s \in Sessions : q' = Append(q, Job(o, s)) /\ jobs' = jobs
    <3>1. CASE Load(t)
      BY <1>t, <3>1 DEF Load, Ops
    <3>2. CASE ReleaseSession(t)
      BY <1>t, <3>2 DEF ReleaseSession, ReleaseCounted, Ops
    <3>3. CASE PushDelSession(t)
      BY <3>3 DEF PushDelSession, PushLast, Goto, Ops, TypeInv, Stages
    <3> QED BY <1>4, <3>1, <3>2, <3>3
  <2> QED BY <2>1, WaitingPush, JobFields DEF TypeInv
<1> QED BY <1>1, <1>2, <1>3, <1>4 DEF Step

(* A thread that releases a session goes on to push its job. *)
LEMMA LeaverStays ==
  ASSUME TypeInv, NEW t \in Threads, Step(t), NEW u \in Threads, pc[u] = "release"
  PROVE  \/ pc'[u] = "release" /\ session'[u] = session[u]
         \/ Job("DelSession", session[u]) \in Waiting'
<1> USE DEF Goto
<1>t. /\ pc \in [Threads -> {"idle", "event", "register", "release", "end", "run", "execute"}]
      /\ session \in [Threads -> Sessions \union {Nobody}]
  BY DEF TypeInv, TypeOK
<1>1. pc[t] \notin {"event", "register"} /\ ~EventCount(t)
  BY DEF TypeInv, OneReader, Inside, EventCount, Reading
<1>2. CASE NotReading(t) \/ EndRead(t) \/ Execute(t)
  BY <1>t, <1>2 DEF NotReading, EndRead, EndWith, Execute
<1>3. CASE RunJob(t)
  BY <1>t, <1>3, JobEffect DEF Effect
<1>4. CASE PushDelSession(t)
  <2>1. /\ q' = Append(q, Job("DelSession", session[t])) /\ jobs' = jobs /\ pc[t] = "release"
    BY <1>4 DEF PushDelSession, PushLast
  <2>2. u = t /\ session[t] \in Sessions
    BY <2>1 DEF TypeInv, OneReader, Inside, Stages
  <2>3. Waiting' = Waiting \union {Job("DelSession", session[t])}
    BY <2>1, <2>2, WaitingPush, JobFields DEF TypeInv, Ops
  <2> QED BY <2>2, <2>3
<1>5. ~OffReading(t) /\ ~Accept(t) /\ ~Load(t) /\ ~ReleaseSession(t) /\ ~Register(t)
  BY <1>1 DEF OffReading, Accept, Load, ReleaseSession, ReleaseCounted, Register
<1> QED BY <1>1, <1>2, <1>3, <1>4, <1>5 DEF Step

LEMMA LeavingAlive ==
  ASSUME AliveInv, NEW s, Leaving(s)
  PROVE  s \in alive
<1>1. /\ Job("DelSession", s).op = "DelSession" /\ Job("DelSession", s).session = s
  BY JobFields
<1> QED BY <1>1 DEF Leaving, AliveInv, JobsAlive, LeaversAlive

(* Nobody who is alive is registered again. *)
LEMMA NoReturn ==
  ASSUME TypeInv, NumberInv, NEW t \in Threads, Step(t), NEW s \in alive, NEW n \in Fds, registry'[n] = s
  PROVE  registry[n] = s
<1>1. ~Registered(t, n)
  BY DEF Registered, NumberInv, Newest
<1>2. ~Released(t, n)
  BY SessionNumbers DEF Released, TypeInv, TypeOK
<1> QED BY <1>1, <1>2, RegistryStep

LEMMA DepartedStep ==
  ASSUME TypeInv, NumberInv, AliveInv, Departed, NEW t \in Threads, Step(t)
  PROVE  Departed'
<1> SUFFICES ASSUME NEW s \in Sessions, Leaving(s)', NEW n \in Fds, registry'[n] = s PROVE FALSE
  BY DEF Departed
<1>1. Leaving(s) \/ \E m \in Fds : registry[m] = s /\ registry'[m] = Nobody
  <2>1. CASE \E u \in Threads : pc'[u] = "release" /\ session'[u] = s
    BY <2>1, Origins, SessionNumbers DEF LeaverFrom, Leaving
  <2>2. CASE Job("DelSession", s) \in Waiting'
    <3>1. /\ Job("DelSession", s).op = "DelSession" /\ Job("DelSession", s).session = s
      BY JobFields
    <3>2. JobFrom(Job("DelSession", s))
      BY <2>2, Origins
    <3> QED BY <3>1, <3>2 DEF JobFrom, Leaving
  <2> QED BY <2>1, <2>2 DEF Leaving
<1>2. s \in alive
  BY <1>1, LeavingAlive, SessionNumbers DEF AliveInv, RegisteredAlive
<1>3. registry[n] = s
  BY <1>2, NoReturn
<1>4. \A m \in Fds : registry[m] = s => m = n
  BY <1>3, SessionNumbers DEF TypeInv, Numbers
<1> QED BY <1>1, <1>3, <1>4, SessionNumbers DEF Departed

(* Who is present stays so, but for its DelSession. *)
LEMMA PresentStep ==
  ASSUME TypeInv, RegisteredIsOpen, NEW t \in Threads, Step(t),
         NEW s \in Sessions, Present(s), s \notin early
  PROVE  Present(s)' \/ \E j \in Jobs : Effect(t, j) /\ j = Job("DelSession", s)
<1>1. CASE \E n \in Fds : registry[n] = s
  <2>1. PICK n \in Fds : registry[n] = s
    BY <1>1
  <2>2. socket[n] = s
    BY <2>1, SessionNumbers DEF RegisteredIsOpen
  <2>3. registry'[n] = s \/ (pc'[t] = "release" /\ session'[t] = s)
    BY <2>1, <2>2, RegistryStep DEF Registered, Released
  <2> QED BY <2>3 DEF Present, Leaving
<1>2. CASE Job("DelSession", s) \in Waiting
  BY <1>2, JobsStay DEF Present, Leaving
<1>3. CASE \E u \in Threads : pc[u] = "release" /\ session[u] = s
  BY <1>3, LeaverStays DEF Present, Leaving
<1> QED BY <1>1, <1>2, <1>3 DEF Present, Leaving

LEMMA HistoryGrows ==
  ASSUME TypeInv, NEW t \in Threads, Step(t)
  PROVE  early \subseteq early' /\ overtaken \subseteq overtaken'
<1>1. CASE Accept(t)
  BY <1>1 DEF Accept
<1>2. CASE RunJob(t)
  <2>1. PICK j \in Jobs : Effect(t, j)
    BY <1>2, JobEffect
  <2> QED BY <2>1 DEF Effect
<1>3. CASE Execute(t)
  BY <1>3 DEF Execute
<1>4. CASE EventCount(t) \/ NotReading(t) \/ OffReading(t) \/ Register(t) \/ Load(t) \/ ReleaseSession(t)
             \/ PushDelSession(t) \/ EndRead(t)
  BY <1>4 DEF EventCount, NotReading, OffReading, Register, Load, ReleaseSession, ReleaseCounted,
              PushDelSession, PushLast, EndRead, EndWith, history
<1> QED BY <1>1, <1>2, <1>3, <1>4 DEF Step

LEMMA AddStep ==
  ASSUME TypeInv, RegisteredIsOpen, AddAccounted, NEW t \in Threads, Step(t)
  PROVE  AddAccounted'
<1> SUFFICES ASSUME NEW s \in Sessions, Job("AddSession", s) \in Waiting', s \notin early' \union overtaken'
             PROVE  Present(s)'
  BY DEF AddAccounted
<1>1. s \notin early \union overtaken
  BY HistoryGrows
<1>2. /\ Job("AddSession", s).op = "AddSession" /\ Job("AddSession", s).session = s
  BY JobFields
<1>3. Present(s)
  <2>1. JobFrom(Job("AddSession", s))
    BY Origins
  <2> QED BY <1>1, <1>2, <2>1 DEF JobFrom, AddAccounted, Present
<1>4. ASSUME NEW j \in Jobs, Effect(t, j), j = Job("DelSession", s) PROVE FALSE
  <2>1. j.op = "DelSession" /\ j.session = s
    BY <1>4, JobFields
  <2>2. Waiting' \subseteq Waiting
    BY <1>4, WaitingPop DEF Effect, TypeInv
  <2> QED BY <1>4, <2>1, <2>2 DEF Effect
<1> QED BY <1>1, <1>3, <1>4, PresentStep

Accounted ==
  \A n \in Fds, s \in Sessions :
    members[n] = s /\ s \notin early \union overtaken => Present(s)

LEMMA AccountedMembers == TypeOK /\ Numbers /\ Accounted => MembersAccountedFor
BY DEF TypeOK, Numbers, Accounted, Present, MembersAccountedFor

LEMMA MembersStep ==
  ASSUME TypeInv, RegisteredIsOpen, AddAccounted, Accounted, NEW t \in Threads, Step(t)
  PROVE  Accounted'
<1>0. TypeOK' /\ Numbers'
  BY TypeStep, NumbersStep
<1> SUFFICES ASSUME NEW n \in Fds, NEW s \in Sessions, members'[n] = s, s \notin early' \union overtaken'
             PROVE  Present(s)'
  BY DEF Accounted
<1>1. fd'[s] = n
  BY <1>0, SessionNumbers DEF TypeOK, Numbers
<1>2. s \notin early \union overtaken
  BY HistoryGrows
<1>3. Present(s)
  <2>1. CASE s = members[n]
    BY <1>2, <2>1 DEF Accounted
  <2>2. CASE s # members[n]
    <3>1. PICK j \in Waiting : j.op = "AddSession" /\ s = j.session
      BY <2>2, Origins, SessionNumbers DEF MemberFrom
    <3>2. j = Job("AddSession", s)
      BY <3>1, WaitingJobs, JobIs DEF TypeInv
    <3> QED BY <1>1, <1>2, <3>1, <3>2 DEF AddAccounted
  <2> QED BY <2>1, <2>2
<1>4. ASSUME NEW j \in Jobs, Effect(t, j), j = Job("DelSession", s) PROVE FALSE
  <2>1. j.op = "DelSession" /\ j.session = s
    BY <1>4, JobFields
  <2>2. fd' = fd /\ members' = [m \in Fds |-> IF m = fd[s] THEN Nobody ELSE members[m]]
    BY <1>4, <2>1 DEF Effect
  <2> QED BY <1>1, <2>2, SessionNumbers
<1> QED BY <1>2, <1>3, <1>4, PresentStep

LEMMA StayStep ==
  ASSUME TypeInv, NumberInv, AliveInv, RegisteredIsOpen, Departed, NEW t \in Threads, Step(t),
         NEW n \in Fds, members[n] # Nobody, members[n] = registry[n], members[n] \notin early
  PROVE  members'[n] = members[n]
<1> DEFINE s == members[n]
<1>1. s \in Sessions /\ fd[s] = n /\ socket[n] = s
  BY DEF TypeInv, TypeOK, Numbers, RegisteredIsOpen
<1>2. CASE RunJob(t)
  <2>1. PICK j \in Jobs : Effect(t, j)
    BY <1>2, JobEffect
  <2>2. j \in Waiting /\ j = Job(j.op, j.session) /\ j.session \in Sessions
    BY <2>1, WaitingPop, JobIs DEF Effect, TypeInv
  <2>3. ASSUME j.op # "BroadcastAnother", fd[j.session] = n PROVE j.session = s
    <3>1. j.session \in alive
      BY <2>2, <2>3 DEF AliveInv, JobsAlive
    <3>2. ~(j.session < s)
      BY <1>1, <2>3, <3>1 DEF NumberInv, Earlier
    <3>3. j.session <= s
      BY <1>1, <2>2, <2>3 DEF NumberInv, Latest
    <3>4. j.session \in Nat /\ s \in Nat
      BY <1>1, <2>2, SessionNumbers
    <3>5. \A a, b \in Nat : ~(a < b) /\ a <= b => a = b
      OBVIOUS
    <3> HIDE DEF s
    <3> QED BY <3>2, <3>3, <3>4, <3>5
  <2>4. ~(j.op = "DelSession" /\ j.session = s)
    BY <1>1, <2>2 DEF Departed, Leaving
  <2>5. CASE j.op = "AddSession"
    <3>1. members' = [members EXCEPT ![fd[j.session]] = j.session]
      BY <2>1, <2>5 DEF Effect
    <3>2. members \in [Fds -> Sessions \union {Nobody}]
      BY DEF TypeInv, TypeOK
    <3>3. fd[j.session] = n => j.session = s
      BY <2>3, <2>5
    <3> QED BY <3>1, <3>2, <3>3
  <2>6. CASE j.op # "AddSession"
    BY <2>1, <2>3, <2>4, <2>6 DEF Effect
  <2> QED BY <2>5, <2>6
<1>3. CASE ~RunJob(t)
  BY <1>3 DEF Step, EventCount, NotReading, OffReading, Accept, Register, Load, ReleaseSession, ReleaseCounted,
              PushDelSession, PushLast, EndRead, EndWith, Execute, objects
<1> QED BY <1>2, <1>3

-----------------------------------------------------------------------------
(***************************************************************************)
(* The counter.  A registered session is overwritten only by one that was  *)
(* given its number while it was registered, which has no connection then, *)
(* so that it was accepted early itself.                                   *)
(***************************************************************************)
EarlyAccepted == \A r \in early : fd[r] # 0

CountInv == EarlyAccepted /\ CountDriftsOnlyEarly

LEMMA InRegistryIs ==
  ASSUME NEW r
  PROVE  r \in InRegistry <=> r # Nobody /\ \E n \in Fds : registry[n] = r
BY DEF InRegistry

LEMMA CountedSets ==
  ASSUME TypeOK
  PROVE  /\ InRegistry \in SUBSET Sessions /\ EarlyGone \in SUBSET Sessions
         /\ Cardinality(InRegistry) \in Nat /\ Cardinality(EarlyGone) \in Nat
<1>1. InRegistry \in SUBSET Sessions
  BY DEF TypeOK, InRegistry
<1>2. EarlyGone \in SUBSET Sessions
  BY DEF TypeOK, EarlyGone
<1> QED BY <1>1, <1>2, SessionSets

(* What the counter may do, in numbers. *)
Counted(n, c, d) == n <= c /\ c <= n + d

LEMMA CountedSums ==
  ASSUME NEW n \in Nat, NEW c \in Int, NEW d \in Nat, Counted(n, c, d)
  PROVE  /\ \A e \in Nat : d <= e => Counted(n, c, e)
         /\ \A e \in Nat : d <= e => Counted(n + 1, c + 1, e)
         /\ \A e \in Nat : d <= e => Counted(n - 1, c - 1, e)
         /\ Counted(n, c + 1, d + 1)
BY DEF Counted

LEMMA GoneGrows ==
  ASSUME TypeOK, TypeOK', EarlyGone \subseteq EarlyGone'
  PROVE  /\ Cardinality(EarlyGone) \in Nat /\ Cardinality(EarlyGone') \in Nat
         /\ Cardinality(EarlyGone) <= Cardinality(EarlyGone')
<1>1. EarlyGone \in SUBSET Sessions /\ EarlyGone' \in SUBSET Sessions
  BY DEF TypeOK, EarlyGone
<1>2. IsFiniteSet(EarlyGone')
  BY <1>1, SessionSets
<1>3. Cardinality(EarlyGone) <= Cardinality(EarlyGone')
  BY <1>2, FS_Subset
<1> QED BY <1>1, <1>3, SessionSets

LEMMA CountStep ==
  ASSUME TypeInv, TypeOK', NumberInv, AliveInv, RegisteredIsOpen, CountInv,
         NEW t \in Threads, Step(t)
  PROVE  CountInv'
<1>t. /\ pc \in [Threads -> {"idle", "event", "register", "release", "end", "run", "execute"}]
      /\ session \in [Threads -> Sessions \union {Nobody}]
      /\ registry \in [Fds -> Sessions \union {Nobody}]
      /\ fd \in [Sessions -> Fds \union {0}]
      /\ events \subseteq Fds /\ early \subseteq Sessions /\ sessionCount \in Int
      /\ TypeOK
  BY DEF TypeInv, TypeOK
<1>n. Nobody \notin Sessions /\ 0 \notin Fds
  BY SessionNumbers
<1>c. /\ Cardinality(InRegistry) \in Nat /\ Cardinality(EarlyGone) \in Nat
      /\ Counted(Cardinality(InRegistry), sessionCount, Cardinality(EarlyGone))
  BY <1>t, CountedSets DEF CountInv, CountDriftsOnlyEarly, Counted
<1>r. InRegistry \in SUBSET Sessions /\ EarlyGone \in SUBSET Sessions
  BY <1>t, CountedSets
<1>e. EarlyAccepted'
  <2>1. CASE Accept(t)
    <3>1. PICK n \in Fds, s \in Sessions :
            /\ fd' = [fd EXCEPT ![s] = n]
            /\ early' = early \union {r \in {s} : \E older \in alive : fd[older] = n}
      BY <2>1 DEF Accept
    <3> QED BY <1>t, <1>n, <3>1 DEF CountInv, EarlyAccepted
  <2>2. CASE Register(t)
    BY <2>2 DEF Register, history, CountInv, EarlyAccepted
  <2>3. CASE ~Accept(t) /\ ~Register(t)
    BY <2>3, OtherSteps DEF CountInv, EarlyAccepted
  <2> QED BY <2>1, <2>2, <2>3
<1>1. ASSUME InRegistry' = InRegistry, sessionCount' = sessionCount, EarlyGone \subseteq EarlyGone'
      PROVE  CountDriftsOnlyEarly'
  BY <1>t, <1>c, <1>1, GoneGrows, CountedSums DEF CountDriftsOnlyEarly, Counted
<1>2. CASE Accept(t)
  <2>1. PICK s \in Sessions :
          /\ fd[s] = 0 /\ pc[t] = "event"
          /\ pc' = [pc EXCEPT ![t] = "register"] /\ session' = [session EXCEPT ![t] = s]
          /\ registry' = registry /\ sessionCount' = sessionCount /\ early \subseteq early'
    BY <1>2 DEF Accept, Goto
  <2>2. s \notin early
    BY <2>1 DEF CountInv, EarlyAccepted
  <2>3. \A u \in Threads : pc'[u] = "register" => session'[u] = s
    BY <1>t, <2>1 DEF TypeInv, OneReader, Inside
  <2>4. Registering' \subseteq {s}
    BY <2>3 DEF Registering
  <2>5. InRegistry' = InRegistry
    BY <2>1 DEF InRegistry
  <2>6. EarlyGone \subseteq EarlyGone'
    BY <2>1, <2>2, <2>4, <2>5 DEF EarlyGone
  <2> QED BY <1>e, <1>1, <2>1, <2>5, <2>6 DEF CountInv
<1>3. CASE Register(t)
  <2>1. PICK s \in Sessions :
           /\ s = session[t] /\ fd[s] \in Fds
           /\ pc[t] = "register" /\ pc' = [pc EXCEPT ![t] = "event"]
           /\ early' = early
           /\ \A n \in Fds : registry'[n] = IF n = fd[s] /\ socket[n] = s THEN s ELSE registry[n]
    BY <1>3, RegisterEffect DEF history
  <2>2. sessionCount' = sessionCount + (IF socket[fd[s]] = s THEN 1 ELSE 0)
    <3>1. PICK p \in BOOLEAN : p = (socket[fd[s]] = s)
      OBVIOUS
    <3>2. sessionCount' = sessionCount + Cardinality({r \in {s} : p})
      BY <1>3, <2>1, <3>1 DEF Register
    <3> QED BY <3>1, <3>2, CreatedCount
  <2>3. \A u \in Threads : pc[u] = "register" => u = t
    BY <2>1 DEF TypeInv, OneReader, Inside
  <2>4. Registering = {s} /\ Registering' = {}
    BY <1>t, <2>1, <2>3 DEF Registering
  <2>5. s \notin InRegistry
    BY <2>1, InRegistryIs DEF NumberInv, Newest, AliveInv, RegisteredAlive
  <2>6. CASE socket[fd[s]] # s
    <3>1. registry' = registry
      <4>1. registry' \in [Fds -> Sessions \union {Nobody}]
        BY DEF TypeOK
      <4> QED BY <1>t, <2>1, <2>6, <4>1
    <3>2. InRegistry' = InRegistry
      BY <3>1 DEF InRegistry
    <3>3. EarlyGone \subseteq EarlyGone'
      BY <2>1, <2>4, <3>2 DEF EarlyGone
    <3> QED BY <1>t, <1>e, <1>1, <2>2, <2>6, <3>2, <3>3 DEF CountInv
  <2>7. CASE socket[fd[s]] = s /\ registry[fd[s]] = Nobody
    <3>1. InRegistry' = InRegistry \union {s}
      <4>1. \A r : r \in InRegistry' <=> r # Nobody /\ \E n \in Fds : registry'[n] = r
        BY DEF InRegistry
      <4>2. ASSUME NEW r, r \in InRegistry' PROVE r \in InRegistry \union {s}
        BY <2>1, <4>1, <4>2, InRegistryIs
      <4>3. ASSUME NEW r \in InRegistry \union {s} PROVE r \in InRegistry'
        <5>1. CASE r = s
          BY <1>n, <2>1, <2>7, <4>1, <5>1
        <5>2. CASE r # s
          <6>1. PICK n \in Fds : registry[n] = r /\ r # Nobody
            BY <4>3, <5>2, InRegistryIs
          <6>2. registry'[n] = r
            BY <2>1, <2>7, <6>1
          <6> QED BY <4>1, <6>1, <6>2
        <5> QED BY <5>1, <5>2
      <4> QED BY <4>2, <4>3
    <3>2. EarlyGone \subseteq EarlyGone'
      BY <2>1, <2>4, <3>1 DEF EarlyGone
    <3>3. Cardinality(InRegistry') = Cardinality(InRegistry) + 1
      BY <1>r, <2>5, <3>1, SessionSets, FS_AddElement
    <3>4. sessionCount' = sessionCount + 1
      BY <2>2, <2>7
    <3>5. Counted(Cardinality(InRegistry'), sessionCount', Cardinality(EarlyGone'))
      <4>1. Cardinality(EarlyGone') \in Nat /\ Cardinality(EarlyGone) <= Cardinality(EarlyGone')
        BY <1>t, <3>2, GoneGrows
      <4>2. Counted(Cardinality(InRegistry) + 1, sessionCount + 1, Cardinality(EarlyGone'))
        BY <1>t, <1>c, <4>1, CountedSums
      <4> QED BY <3>3, <3>4, <4>2, Zenon
    <3> QED BY <1>e, <3>5 DEF CountInv, CountDriftsOnlyEarly, Counted
  <2>8. CASE socket[fd[s]] = s /\ registry[fd[s]] # Nobody
    <3> DEFINE r == registry[fd[s]]
    <3>1. r \in InRegistry /\ r # s /\ r \in early /\ fd[r] = fd[s]
      <4>1. r \in InRegistry
        BY <2>1, <2>8, InRegistryIs
      <4>2. r # s
        BY <2>5, <4>1
      <4>3. r \in early
        BY <2>1, <2>8, <4>2 DEF RegisteredIsOpen
      <4>4. fd[r] = fd[s]
        BY <2>1, <2>8 DEF TypeInv, Numbers
      <4> QED BY <4>1, <4>2, <4>3, <4>4
    <3>2. InRegistry' = (InRegistry \ {r}) \union {s}
      <4>1. \A x : x \in InRegistry' <=> x # Nobody /\ \E n \in Fds : registry'[n] = x
        BY DEF InRegistry
      <4>2. ASSUME NEW x, x \in InRegistry' PROVE x \in (InRegistry \ {r}) \union {s}
        <5>1. PICK n \in Fds : registry'[n] = x
          BY <4>1, <4>2
        <5>2. CASE n = fd[s]
          BY <2>1, <2>8, <5>1, <5>2
        <5>3. CASE n # fd[s]
          <6>1. registry[n] = x /\ x # Nobody
            BY <2>1, <4>1, <4>2, <5>1, <5>3
          <6>2. fd[x] = n
            BY <6>1 DEF TypeInv, Numbers
          <6>3. x # r
            BY <3>1, <5>3, <6>2
          <6> QED BY <6>1, <6>3, InRegistryIs
        <5> QED BY <5>2, <5>3
      <4>3. ASSUME NEW x \in (InRegistry \ {r}) \union {s} PROVE x \in InRegistry'
        <5>1. CASE x = s
          BY <1>n, <2>1, <2>8, <4>1, <5>1
        <5>2. CASE x # s
          <6>1. x # Nobody /\ x # r /\ \E n \in Fds : registry[n] = x
            BY <4>3, <5>2, InRegistryIs
          <6>2. PICK n \in Fds : registry[n] = x
            BY <6>1
          <6>3. registry'[n] = x
            BY <2>1, <6>1, <6>2
          <6> QED BY <4>1, <6>1, <6>3
        <5> QED BY <5>1, <5>2
      <4> QED BY <4>2, <4>3
    <3>3. EarlyGone' = EarlyGone \union {r} /\ r \notin EarlyGone
      <4>1. EarlyGone = (early \ InRegistry) \ {s} /\ EarlyGone' = early \ InRegistry'
        BY <2>1, <2>4 DEF EarlyGone
      <4> QED BY <3>1, <3>2, <4>1
    <3> HIDE DEF r
    <3>4. Cardinality(InRegistry') = Cardinality(InRegistry)
      <4>1. IsFiniteSet(InRegistry) /\ IsFiniteSet(InRegistry \ {r})
        BY <1>r, SessionSets, FS_RemoveElement
      <4>2. Cardinality(InRegistry \ {r}) = Cardinality(InRegistry) - 1
        BY <3>1, <4>1, FS_RemoveElement
      <4>3. Cardinality((InRegistry \ {r}) \union {s}) = Cardinality(InRegistry \ {r}) + 1
        BY <2>5, <4>1, FS_AddElement
      <4> QED BY <1>c, <3>2, <4>2, <4>3
    <3>5. Cardinality(EarlyGone') = Cardinality(EarlyGone) + 1
      BY <1>r, <3>3, SessionSets, FS_AddElement
    <3>6. sessionCount' = sessionCount + 1
      BY <2>2, <2>8
    <3>7. Counted(Cardinality(InRegistry'), sessionCount', Cardinality(EarlyGone'))
      BY <1>t, <1>c, <3>4, <3>5, <3>6, CountedSums
    <3> QED BY <1>e, <3>7 DEF CountInv, CountDriftsOnlyEarly, Counted
  <2> QED BY <2>6, <2>7, <2>8
<1>4. CASE ReleaseSession(t)
  <2>1. PICK n \in events :
          /\ registry[n] # Nobody
          /\ registry' = [registry EXCEPT ![n] = Nobody]
          /\ sessionCount' = sessionCount - 1 /\ early' = early
    BY <1>4 DEF ReleaseSession, ReleaseCounted, history
  <2>2. \A u \in Threads : pc'[u] = "register" => pc[u] = "register" /\ session'[u] = session[u]
    BY <1>4, OtherSteps DEF ReleaseSession, ReleaseCounted, Goto, Accept, Register
  <2>3. Registering' \subseteq Registering
    BY <2>2 DEF Registering
  <2> DEFINE r == registry[n]
  <2>4. r \in InRegistry /\ fd[r] = n /\ n \in Fds
    BY <1>t, <2>1, InRegistryIs DEF TypeInv, Numbers
  <2>5. InRegistry' = InRegistry \ {r}
    <3>1. \A x : x \in InRegistry' <=> x # Nobody /\ \E m \in Fds : registry'[m] = x
      BY DEF InRegistry
    <3>2. ASSUME NEW x, x \in InRegistry' PROVE x \in InRegistry \ {r}
      <4>1. PICK m \in Fds : registry'[m] = x
        BY <3>1, <3>2
      <4>2. x # Nobody
        BY <3>1, <3>2
      <4>3. m # n /\ registry[m] = x
        BY <1>t, <2>1, <2>4, <4>1, <4>2
      <4>4. fd[x] = m
        BY <4>2, <4>3 DEF TypeInv, Numbers
      <4> QED BY <2>4, <4>2, <4>3, <4>4, InRegistryIs
    <3>3. ASSUME NEW x \in InRegistry \ {r} PROVE x \in InRegistry'
      <4>1. PICK m \in Fds : registry[m] = x /\ x # Nobody
        BY <3>3, InRegistryIs
      <4>2. registry'[m] = x
        BY <1>t, <2>1, <2>4, <3>3, <4>1
      <4> QED BY <3>1, <4>1, <4>2
    <3> QED BY <3>2, <3>3
  <2>6. EarlyGone \subseteq EarlyGone'
    BY <2>1, <2>3, <2>5 DEF EarlyGone
  <2> HIDE DEF r
  <2>7. Cardinality(InRegistry') = Cardinality(InRegistry) - 1
    BY <1>r, <2>4, <2>5, SessionSets, FS_RemoveElement
  <2>8. Counted(Cardinality(InRegistry'), sessionCount', Cardinality(EarlyGone'))
    <3>1. Cardinality(EarlyGone') \in Nat /\ Cardinality(EarlyGone) <= Cardinality(EarlyGone')
      BY <1>t, <2>6, GoneGrows
    <3>2. Counted(Cardinality(InRegistry) - 1, sessionCount - 1, Cardinality(EarlyGone'))
      BY <1>t, <1>c, <3>1, CountedSums
    <3> QED BY <2>7, <2>1, <3>2, Zenon
  <2> QED BY <1>e, <2>8 DEF CountInv, CountDriftsOnlyEarly, Counted
<1>5. CASE ~Accept(t) /\ ~Register(t) /\ ~ReleaseSession(t)
  <2>1. registry' = registry /\ sessionCount' = sessionCount
    BY <1>5, JobEffect DEF Step, EventCount, NotReading, OffReading, Load, PushDelSession, PushLast,
       EndRead, EndWith, Execute, Effect, objects
  <2>2. /\ early' = early
        /\ \A u \in Threads : pc'[u] = "register" => pc[u] = "register" /\ session'[u] = session[u]
    BY <1>5, OtherSteps
  <2>3. Registering' \subseteq Registering
    BY <2>2 DEF Registering
  <2>4. InRegistry' = InRegistry
    BY <2>1 DEF InRegistry
  <2>5. EarlyGone \subseteq EarlyGone'
    BY <2>2, <2>3, <2>4 DEF EarlyGone
  <2> QED BY <1>e, <1>1, <2>1, <2>4, <2>5 DEF CountInv
<1> QED BY <1>2, <1>3, <1>4, <1>5

-----------------------------------------------------------------------------
LifeInv ==
  /\ TypeInv /\ NumberInv /\ AliveInv
  /\ NoSocketForgotten /\ RegisteredIsOpen
  /\ Departed /\ AddAccounted /\ Accounted
  /\ CountInv

LEMMA InitLifeInv == Init => LifeInv
<1> SUFFICES ASSUME Init PROVE LifeInv
  OBVIOUS
<1>1. TypeInv
  BY InitTypeInv
<1>2. Waiting = {}
  BY DEF Init, Waiting, Elems
<1>3. NumberInv
  BY DEF Init, NumberInv, InTurn, Newest, AliveAccepted, Latest, Earlier
<1>4. AliveInv
  BY <1>2 DEF Init, AliveInv, RegisteredAlive, MembersAlive, LeaversAlive, JobsAlive
<1>5. NoSocketForgotten /\ RegisteredIsOpen /\ Accounted
  BY SessionNumbers DEF Init, NoSocketForgotten, RegisteredIsOpen, Accounted
<1>6. Departed /\ AddAccounted
  BY <1>2 DEF Init, Departed, AddAccounted, Leaving
<1>7. CountInv
  <2>1. InRegistry = {} /\ EarlyGone = {}
    BY DEF Init, InRegistry, EarlyGone
  <2>2. Cardinality({}) = 0
    BY FS_EmptySet
  <2> QED BY <2>1, <2>2 DEF Init, CountInv, EarlyAccepted, CountDriftsOnlyEarly
<1> QED BY <1>1, <1>3, <1>4, <1>5, <1>6, <1>7 DEF LifeInv

LEMMA StepLifeInv == LifeInv /\ [Next]_vars => LifeInv'
<1>1. ASSUME LifeInv, Next PROVE LifeInv'
  <2>1. PICK t \in Threads : Step(t)
    BY <1>1, NextIsStep
  <2>2. TypeInv'
    BY <1>1, StepTypeInv DEF LifeInv
  <2>3. NumberInv' /\ AliveInv'
    BY <1>1, <2>1, NumberStep, AliveStep DEF LifeInv
  <2>4. NoSocketForgotten' /\ RegisteredIsOpen'
    BY <1>1, <2>1, ForgottenStep, OpenStep DEF LifeInv
  <2>5. Departed' /\ AddAccounted' /\ Accounted'
    BY <1>1, <2>1, DepartedStep, AddStep, MembersStep DEF LifeInv
  <2>6. CountInv'
    BY <1>1, <2>1, <2>2, CountStep DEF LifeInv, TypeInv
  <2> QED BY <2>2, <2>3, <2>4, <2>5, <2>6 DEF LifeInv
<1>2. ASSUME LifeInv, UNCHANGED vars PROVE LifeInv'
  <2> USE <1>2 DEF vars, objects, world, history
  <2>1. TypeInv'
    BY StepTypeInv DEF LifeInv
  <2>2. Waiting' = Waiting
    BY DEF Waiting, Elems
  <2>3. NumberInv'
    BY DEF LifeInv, NumberInv, InTurn, Newest, AliveAccepted, Latest, Earlier
  <2>4. AliveInv'
    BY <2>2 DEF LifeInv, AliveInv, RegisteredAlive, MembersAlive, LeaversAlive, JobsAlive
  <2>5. NoSocketForgotten' /\ RegisteredIsOpen'
    BY DEF LifeInv, NoSocketForgotten, RegisteredIsOpen
  <2>6. \A s : Leaving(s)' <=> Leaving(s)
    BY <2>2 DEF Leaving
  <2>7. Departed' /\ AddAccounted' /\ Accounted'
    BY <2>2, <2>6 DEF LifeInv, Departed, AddAccounted, Accounted, Present
  <2>8. CountInv'
    <3>1. InRegistry' = InRegistry /\ EarlyGone' = EarlyGone
      BY DEF InRegistry, EarlyGone, Registering
    <3> QED BY <3>1 DEF LifeInv, CountInv, EarlyAccepted, CountDriftsOnlyEarly
  <2> QED BY <2>1, <2>3, <2>4, <2>5, <2>7, <2>8 DEF LifeInv
<1> QED BY <1>1, <1>2

LEMMA AlwaysLifeInv == Safety => []LifeInv
BY InitLifeInv, StepLifeInv, PTL DEF Safety

-----------------------------------------------------------------------------
(***************************************************************************)
(* What players know of each other.  As long as one thread at a time has   *)
(* jobs, these and the queue are one sequence, in which the two jobs of a  *)
(* release follow each other: no AddSession comes between a player being   *)
(* said to leave and its being taken out of the room.                      *)
(***************************************************************************)
BatchOf(batches) ==
  IF \E t \in Threads : batches[t] # <<>>
  THEN batches[CHOOSE t \in Threads : batches[t] # <<>>] ELSE <<>>

Pending == BatchOf(jobs) \o q

OneBatch == \A t, u \in Threads : jobs[t] # <<>> /\ jobs[u] # <<>> => t = u

LEMMA BatchIs ==
  ASSUME NEW batches, NEW t \in Threads, \A u \in Threads \ {t} : batches[u] = <<>>
  PROVE  BatchOf(batches) = batches[t]
BY DEF BatchOf

LEMMA BatchType ==
  ASSUME NEW batches \in [Threads -> Seq(Jobs)]
  PROVE  /\ BatchOf(batches) \in Seq(Jobs)
         /\ BatchOf(batches) = <<>> \/ \E t \in Threads : BatchOf(batches) = batches[t]
<1>1. <<>> \in Seq(Jobs)
  BY EmptySeq
<1> QED BY <1>1 DEF BatchOf

LEMMA PendingType ==
  ASSUME TypeOK
  PROVE  Pending \in Seq(Jobs) /\ Elems(Pending) \subseteq Waiting
<1>1. jobs \in [Threads -> Seq(Jobs)] /\ q \in Seq(Jobs)
  BY DEF TypeOK, Jobs
<1> DEFINE b == BatchOf(jobs)
<1>2. b \in Seq(Jobs) /\ (b = <<>> \/ \E t \in Threads : b = jobs[t])
  BY <1>1, BatchType
<1> HIDE DEF b
<1>3. /\ b \o q \in Seq(Jobs) /\ Len(b \o q) = Len(b) + Len(q) /\ Len(b) \in Nat /\ Len(q) \in Nat
      /\ \A i \in 1..Len(b) + Len(q) : (b \o q)[i] = IF i <= Len(b) THEN b[i] ELSE q[i - Len(b)]
  BY <1>1, <1>2, ConcatProperties
<1>4. \A i \in 1..Len(b \o q) : (b \o q)[i] \in Elems(b) \union Elems(q)
  <2> SUFFICES ASSUME NEW i \in 1..Len(b \o q) PROVE (b \o q)[i] \in Elems(b) \union Elems(q)
    OBVIOUS
  <2>1. CASE i <= Len(b)
    BY <1>3, <2>1 DEF Elems
  <2>2. CASE ~(i <= Len(b))
    <3>1. i - Len(b) \in 1..Len(q)
      BY <1>3, <2>2
    <3> QED BY <1>3, <2>2, <3>1 DEF Elems
  <2> QED BY <2>1, <2>2
<1>5. Elems(b) \union Elems(q) \subseteq Waiting
  <2>1. Elems(<<>>) = {}
    BY DEF Elems
  <2> QED BY <1>2, <2>1 DEF Waiting
<1>6. Elems(b \o q) \subseteq Waiting
  BY <1>4, <1>5 DEF Elems
<1>7. Pending = b \o q
  BY DEF Pending, b
<1> QED BY <1>3, <1>6, <1>7

(* Pushing appends to what is pending, and running a job takes the first away. *)
LEMMA ConcatAppend ==
  ASSUME NEW b \in Seq(Jobs), NEW s \in Seq(Jobs), NEW j \in Jobs
  PROVE  b \o Append(s, j) = Append(b \o s, j)
<1>1. <<j>> \in Seq(Jobs)
  OBVIOUS
<1>2. b \o s \in Seq(Jobs)
  BY ConcatProperties
<1>3. Append(s, j) = s \o <<j>> /\ Append(b \o s, j) = (b \o s) \o <<j>>
  BY <1>2, AppendIsConcat
<1> QED BY <1>1, <1>3, ConcatAssociative

LEMMA ConcatTail ==
  ASSUME NEW b \in Seq(Jobs), NEW s \in Seq(Jobs), b # <<>>
  PROVE  b \o s # <<>> /\ Head(b \o s) = Head(b) /\ Tail(b \o s) = Tail(b) \o s
<1>1. Head(b) \in Jobs /\ Tail(b) \in Seq(Jobs) /\ b = <<Head(b)>> \o Tail(b)
  OBVIOUS
<1>2. b \o s = <<Head(b)>> \o (Tail(b) \o s)
  <2>1. <<Head(b)>> \in Seq(Jobs)
    BY <1>1
  <2> QED BY <1>1, <2>1, ConcatAssociative
<1>3. Tail(b) \o s \in Seq(Jobs)
  BY <1>1, ConcatProperties
<1> HIDE <1>1
<1>4. \A h \in Jobs, r \in Seq(Jobs) :
        <<h>> \o r # <<>> /\ Head(<<h>> \o r) = h /\ Tail(<<h>> \o r) = r
  OBVIOUS
<1> QED BY <1>1, <1>2, <1>3, <1>4

LEMMA PendingPush ==
  ASSUME TypeOK, NEW j \in Jobs, q' = Append(q, j), jobs' = jobs
  PROVE  Pending' = Append(Pending, j)
<1>1. q \in Seq(Jobs) /\ BatchOf(jobs) \in Seq(Jobs)
  BY BatchType DEF TypeOK, Jobs
<1>2. Pending' = BatchOf(jobs) \o Append(q, j)
  BY DEF Pending
<1> QED BY <1>1, <1>2, ConcatAppend DEF Pending

LEMMA PendingPop ==
  ASSUME TypeInv, OneBatch, NEW t \in Threads, RunJob(t)
  PROVE  /\ OneBatch' /\ Pending # <<>>
         /\ Head(Pending) = Head(jobs[t]) /\ Pending' = Tail(Pending)
<1>1. jobs \in [Threads -> Seq(Jobs)] /\ q \in Seq(Jobs)
  BY DEF TypeInv, TypeOK, Jobs
<1>2. jobs[t] # <<>> /\ jobs' = [jobs EXCEPT ![t] = Tail(jobs[t])] /\ q' = q
  BY JobEffect DEF Effect
<1>3. \A u \in Threads \ {t} : jobs[u] = <<>> /\ jobs'[u] = <<>>
  BY <1>1, <1>2 DEF OneBatch
<1>4. Pending = jobs[t] \o q
  BY <1>3, BatchIs DEF Pending
<1>5. Pending' = Tail(jobs[t]) \o q
  <2>1. BatchOf(jobs') = jobs'[t]
    BY <1>3, BatchIs
  <2>2. jobs'[t] = Tail(jobs[t])
    BY <1>1, <1>2
  <2> QED BY <1>2, <2>1, <2>2 DEF Pending, BatchOf
<1>6. OneBatch'
  BY <1>3 DEF OneBatch
<1>7. jobs[t] \in Seq(Jobs)
  BY <1>1
<1> QED BY <1>1, <1>2, <1>4, <1>5, <1>6, <1>7, ConcatTail

(* The steps that neither push a job nor run one. *)
Calm(t) == ~Load(t) /\ ~ReleaseSession(t) /\ ~PushDelSession(t) /\ ~RunJob(t)

LEMMA PendingKept ==
  ASSUME TypeInv, OneBatch, NEW t \in Threads, Step(t), Calm(t), ~overlapped'
  PROVE  OneBatch' /\ Pending' = Pending
<1>1. CASE Execute(t)
  <2>1. jobs \in [Threads -> Seq(Jobs)] /\ q \in Seq(Jobs)
    BY DEF TypeInv, TypeOK, Jobs
  <2>2. jobs[t] = <<>> /\ jobs' = [jobs EXCEPT ![t] = q] /\ q' = <<>>
    BY <1>1 DEF Execute, Goto, TypeInv, Stages
  <2>3. CASE q = <<>>
    <3>1. jobs' = jobs /\ q' = q
      BY <2>1, <2>2, <2>3
    <3> QED BY <3>1 DEF OneBatch, Pending, BatchOf
  <2>4. CASE q # <<>>
    <3>1. \A u \in Threads \ {t} : jobs[u] = <<>> /\ jobs'[u] = <<>>
      BY <1>1, <2>1, <2>2, <2>4 DEF Execute
    <3>2. jobs'[t] = q
      BY <2>1, <2>2
    <3>3. BatchOf(jobs) = <<>> /\ BatchOf(jobs') = q
      BY <2>2, <3>1, <3>2, BatchIs
    <3>4. Pending = q
      BY <2>1, <3>3, ConcatEmptySeq DEF Pending
    <3>5. Pending' = q
      BY <2>1, <2>2, <3>3, ConcatEmptySeq DEF Pending, BatchOf
    <3>6. OneBatch'
      BY <3>1 DEF OneBatch
    <3> QED BY <3>4, <3>5, <3>6
  <2> QED BY <2>3, <2>4
<1>2. CASE ~Execute(t)
  <2>1. UNCHANGED <<q, jobs>>
    BY <1>2 DEF Calm, Step, EventCount, NotReading, OffReading, Accept, Register, EndRead, EndWith
  <2> QED BY <2>1 DEF OneBatch, Pending, BatchOf
<1> QED BY <1>1, <1>2

LEMMA OverlapStays ==
  ASSUME NEW t \in Threads, Step(t), ~overlapped'
  PROVE  ~overlapped
BY Zenon DEF Step, EventCount, NotReading, OffReading, Accept, Register, Load, ReleaseSession, ReleaseCounted,
             PushDelSession, PushLast, EndRead, EndWith, Execute, RunJob, history

(* The sessions whose DelSession is yet to be pushed: one, or none. *)
Leavers == {session[u] : u \in {v \in Threads : pc[v] = "release"}}

LEMMA LeaversStep ==
  ASSUME TypeInv, NEW t \in Threads, Step(t)
  PROVE  /\ Calm(t) => Leavers' = Leavers
         /\ Load(t) => Leavers = {} /\ Leavers' = {}
         /\ ReleaseSession(t) => Leavers = {} /\ Leavers' = {session'[t]}
         /\ PushDelSession(t) => Leavers = {session[t]} /\ Leavers' = {}
         /\ RunJob(t) => Leavers' = Leavers
<1> USE DEF Goto
<1>t. /\ pc \in [Threads -> {"idle", "event", "register", "release", "end", "run", "execute"}]
      /\ session \in [Threads -> Sessions \union {Nobody}]
  BY DEF TypeInv, TypeOK
<1>1. ASSUME pc[t] # "release", pc'[t] # "release",
             \A u \in Threads \ {t} : pc'[u] = pc[u] /\ session'[u] = session[u]
      PROVE  Leavers' = Leavers
  BY <1>1 DEF Leavers
<1>2. ASSUME pc[t] \in {"event", "release"} PROVE \A u \in Threads \ {t} : pc[u] # "release"
  BY <1>2 DEF TypeInv, OneReader, Inside
<1>3. ASSUME Calm(t) PROVE Leavers' = Leavers
  BY <1>1, <1>3, <1>t DEF Calm, Step, EventCount, NotReading, OffReading, Accept, Register, EndRead, EndWith, Execute
<1>4. ASSUME RunJob(t) PROVE Leavers' = Leavers
  <2>1. pc[t] = "execute" /\ session' = session
        /\ pc' = [pc EXCEPT ![t] = IF Tail(jobs[t]) = <<>> THEN "idle" ELSE "execute"]
    BY <1>4, JobEffect DEF Effect
  <2> QED BY <1>1, <1>t, <2>1
<1>5. ASSUME Load(t) PROVE Leavers = {} /\ Leavers' = {}
  <2>1. pc[t] = "event" /\ pc' = [pc EXCEPT ![t] = "event"] /\ session' = session
    BY <1>5 DEF Load
  <2> QED BY <1>2, <1>t, <2>1 DEF Leavers
<1>6. ASSUME ReleaseSession(t) PROVE Leavers = {} /\ Leavers' = {session'[t]}
  <2>1. pc[t] = "event" /\ pc' = [pc EXCEPT ![t] = "release"]
    BY <1>6 DEF ReleaseSession, ReleaseCounted
  <2> QED BY <1>2, <1>t, <2>1 DEF Leavers
<1>7. ASSUME PushDelSession(t) PROVE Leavers = {session[t]} /\ Leavers' = {}
  <2>1. pc[t] = "release" /\ pc' = [pc EXCEPT ![t] = "end"]
    BY <1>7 DEF PushDelSession, PushLast
  <2> QED BY <1>2, <1>t, <2>1 DEF Leavers
<1> QED BY <1>3, <1>4, <1>5, <1>6, <1>7

(***************************************************************************)
(* The order of what is pending.  Told are the sessions that were said to  *)
(* leave and are not yet taken out: there is one at most, whose DelSession *)
(* is next or still to be pushed.                                          *)
(***************************************************************************)
Paired(p, leavers) ==
  /\ \A i \in 1..Len(p) : p[i].op = "DelSession" =>
       i = 1 \/ p[i - 1] = Job("BroadcastAnother", p[i].session)
  /\ \A i \in 1..Len(p) : p[i].op = "BroadcastAnother" =>
       \/ i < Len(p) /\ p[i + 1] = Job("DelSession", p[i].session)
       \/ i = Len(p) /\ leavers = {p[i].session}
  /\ \A y \in leavers : p = <<>> \/ p[Len(p)] = Job("BroadcastAnother", y)

Told(p, leavers) == IF p = <<>> THEN leavers ELSE {y \in {p[1].session} : p[1].op = "DelSession"}

LEMMA AppendFacts ==
  ASSUME NEW p \in Seq(Jobs), NEW j \in Jobs
  PROVE  /\ Append(p, j) # <<>> /\ Len(Append(p, j)) = Len(p) + 1 /\ Len(p) \in Nat
         /\ \A i \in 1..Len(p) + 1 : Append(p, j)[i] = IF i <= Len(p) THEN p[i] ELSE j
         /\ p = <<>> <=> Len(p) = 0
<1>1. p = <<>> <=> Len(p) = 0
  BY EmptySeq
<1> QED BY <1>1

LEMMA PairedAppend ==
  ASSUME NEW p \in Seq(Jobs), NEW s \in Sessions, NEW leavers, NEW last,
         Paired(p, leavers),
         NEW j \in Jobs,
         \/ j = Job("AddSession", s) /\ leavers = {} /\ last = {}
         \/ j = Job("BroadcastAnother", s) /\ leavers = {} /\ last = {s}
         \/ j = Job("DelSession", s) /\ leavers = {s} /\ last = {}
  PROVE  Paired(Append(p, j), last) /\ Told(Append(p, j), last) = Told(p, leavers)
<1> DEFINE r == Append(p, j)
<1>1. /\ r # <<>> /\ Len(r) = Len(p) + 1 /\ Len(p) \in Nat
      /\ \A i \in 1..Len(p) + 1 : r[i] = IF i <= Len(p) THEN p[i] ELSE j
      /\ p = <<>> <=> Len(p) = 0
  BY AppendFacts
<1> HIDE DEF r
<1>2. j.session = s /\ j.op \in Ops
  BY JobFields, JobIs
<1>3. /\ j.op = "AddSession" => leavers = {} /\ last = {}
      /\ j.op = "BroadcastAnother" => leavers = {} /\ last = {s}
      /\ j.op = "DelSession" => j = Job("DelSession", s) /\ leavers = {s} /\ last = {}
  BY JobFields
<1>4. ASSUME NEW i \in 1..Len(r), r[i].op = "DelSession"
      PROVE  i = 1 \/ r[i - 1] = Job("BroadcastAnother", r[i].session)
  <2>1. CASE i <= Len(p)
    <3>1. i \in 1..Len(p) /\ r[i] = p[i] /\ (i # 1 => r[i - 1] = p[i - 1])
      BY <1>1, <2>1
    <3> QED BY <1>4, <3>1 DEF Paired
  <2>2. CASE ~(i <= Len(p))
    <3>1. i = Len(p) + 1 /\ r[i] = j /\ (i # 1 => r[i - 1] = p[Len(p)] /\ p # <<>>)
      BY <1>1, <2>2
    <3> QED BY <1>2, <1>3, <1>4, <3>1 DEF Paired
  <2> QED BY <2>1, <2>2
<1>5. ASSUME NEW i \in 1..Len(r), r[i].op = "BroadcastAnother"
      PROVE  \/ i < Len(r) /\ r[i + 1] = Job("DelSession", r[i].session)
             \/ i = Len(r) /\ last = {r[i].session}
  <2>1. CASE i < Len(p)
    <3>1. i \in 1..Len(p) /\ r[i] = p[i] /\ r[i + 1] = p[i + 1] /\ i < Len(r) /\ i # Len(p)
      BY <1>1, <2>1
    <3> QED BY <1>5, <3>1 DEF Paired
  <2>2. CASE i = Len(p)
    <3>1. i \in 1..Len(p) /\ ~(i < Len(p)) /\ r[i] = p[i] /\ r[i + 1] = j /\ i < Len(r)
      BY <1>1, <2>2
    <3>2. leavers = {p[i].session}
      BY <1>5, <3>1 DEF Paired
    <3>3. leavers = {s} /\ j = Job("DelSession", s)
      BY <1>2, <1>3, <3>2 DEF Ops
    <3> QED BY <3>1, <3>2, <3>3
  <2>3. CASE i > Len(p)
    <3>1. i = Len(r) /\ r[i] = j
      BY <1>1, <2>3
    <3> QED BY <1>2, <1>3, <1>5, <3>1
  <2> QED BY <1>1, <2>1, <2>2, <2>3
<1>6. \A y \in last : r[Len(r)] = Job("BroadcastAnother", y)
  <2>1. r[Len(r)] = j
    BY <1>1
  <2> QED BY <1>2, <1>3, <2>1, JobIs DEF Ops
<1>7. Told(r, last) = Told(p, leavers)
  <2>1. CASE p = <<>>
    <3>1. r[1] = j
      BY <1>1, <2>1
    <3> QED BY <1>1, <1>2, <1>3, <2>1, <3>1 DEF Told, Ops
  <2>2. CASE p # <<>>
    <3>1. r[1] = p[1]
      BY <1>1, <2>2
    <3> QED BY <1>1, <2>2, <3>1 DEF Told
  <2> QED BY <2>1, <2>2
<1>8. Paired(r, last)
  BY <1>4, <1>5, <1>6 DEF Paired
<1> QED BY <1>7, <1>8 DEF r

LEMMA PairedTail ==
  ASSUME NEW p \in Seq(Jobs), NEW leavers, p # <<>>, Paired(p, leavers)
  PROVE  /\ Paired(Tail(p), leavers)
         /\ Told(p, leavers) = {y \in {Head(p).session} : Head(p).op = "DelSession"}
         /\ Told(Tail(p), leavers) = {y \in {Head(p).session} : Head(p).op = "BroadcastAnother"}
         /\ Head(p).op = "BroadcastAnother" =>
              Job("DelSession", Head(p).session) \in Elems(p) \/ Head(p).session \in leavers
<1> DEFINE r == Tail(p)
<1>1. /\ Len(p) \in Nat \ {0} /\ r \in Seq(Jobs) /\ Len(r) = Len(p) - 1
      /\ \A i \in 1..Len(r) : r[i] = p[i + 1]
      /\ Head(p) = p[1]
  OBVIOUS
<1>2. r = <<>> <=> Len(p) = 1
  BY ElemsPop
<1> HIDE DEF r
<1>3. ASSUME NEW i \in 1..Len(r), r[i].op = "DelSession"
      PROVE  i = 1 \/ r[i - 1] = Job("BroadcastAnother", r[i].session)
  <2>1. i + 1 \in 1..Len(p) /\ r[i] = p[i + 1] /\ i + 1 # 1 /\ (i # 1 => r[i - 1] = p[i]) /\ i + 1 - 1 = i
    BY <1>1
  <2> QED BY <1>3, <2>1 DEF Paired
<1>4. ASSUME NEW i \in 1..Len(r), r[i].op = "BroadcastAnother"
      PROVE  \/ i < Len(r) /\ r[i + 1] = Job("DelSession", r[i].session)
             \/ i = Len(r) /\ leavers = {r[i].session}
  <2>1. /\ i + 1 \in 1..Len(p) /\ r[i] = p[i + 1] /\ (i + 1 < Len(p) => r[i + 1] = p[i + 1 + 1])
        /\ (i + 1 < Len(p) <=> i < Len(r)) /\ (i + 1 = Len(p) <=> i = Len(r))
    BY <1>1
  <2> QED BY <1>4, <2>1 DEF Paired
<1>5. \A y \in leavers : r = <<>> \/ r[Len(r)] = Job("BroadcastAnother", y)
  <2>1. r # <<>> => r[Len(r)] = p[Len(p)]
    BY <1>1, <1>2
  <2> QED BY <2>1 DEF Paired
<1>6. Paired(r, leavers)
  BY <1>3, <1>4, <1>5 DEF Paired
<1>7. Told(p, leavers) = {y \in {Head(p).session} : Head(p).op = "DelSession"}
  BY <1>1 DEF Told
<1>8. 1 \in 1..Len(p) /\ (1 < Len(p) => r[1] = p[2] /\ 2 \in 1..Len(p))
  BY <1>1
<1>9. CASE Len(p) = 1
  <2>1. leavers = {y \in {p[1].session} : p[1].op = "BroadcastAnother"}
    <3>1. \A y \in leavers : p[1] = Job("BroadcastAnother", y)
      BY <1>9 DEF Paired
    <3>2. p[1].op = "BroadcastAnother" => leavers = {p[1].session}
      BY <1>8, <1>9 DEF Paired
    <3>3. p[1].op # "BroadcastAnother" => leavers = {}
      BY <3>1, JobFields
    <3> QED BY <3>2, <3>3
  <2> QED BY <1>1, <1>2, <1>6, <1>7, <1>9, <2>1 DEF Told, r
<1>10. CASE Len(p) # 1
  <2>1. 1 < Len(p) /\ 1 # Len(p)
    BY <1>1, <1>10
  <2>2. p[1].op = "BroadcastAnother" => p[2] = Job("DelSession", p[1].session)
    BY <1>8, <2>1 DEF Paired
  <2>3. p[2].op = "DelSession" => p[1] = Job("BroadcastAnother", p[2].session)
    BY <1>8, <2>1 DEF Paired
  <2>4. Told(r, leavers) = {y \in {p[1].session} : p[1].op = "BroadcastAnother"}
    BY <1>2, <1>8, <1>10, <2>1, <2>2, <2>3, JobFields DEF Told
  <2>5. p[1].op = "BroadcastAnother" => Job("DelSession", p[1].session) \in Elems(p)
    BY <1>8, <2>1, <2>2 DEF Elems
  <2> QED BY <1>1, <1>6, <1>7, <2>4, <2>5 DEF r
<1> QED BY <1>9, <1>10

(***************************************************************************)
(* A player is added once.                                                 *)
(***************************************************************************)
Once(p, known) ==
  \A i \in 1..Len(p) : p[i].op = "AddSession" =>
    p[i].session \in known /\ \A k \in 1..Len(p) : p[k] = p[i] => k = i

LEMMA OnceAppend ==
  ASSUME NEW p \in Seq(Jobs), NEW j \in Jobs, NEW known, Once(p, known),
         j.op = "AddSession" => j.session \notin known
  PROVE  Once(Append(p, j), known \union {x \in {j.session} : j.op = "AddSession"})
<1> DEFINE r == Append(p, j)
<1>1. /\ Len(r) = Len(p) + 1 /\ Len(p) \in Nat
      /\ \A i \in 1..Len(p) + 1 : r[i] = IF i <= Len(p) THEN p[i] ELSE j
  BY AppendFacts
<1> HIDE DEF r
<1> SUFFICES ASSUME NEW i \in 1..Len(r), r[i].op = "AddSession"
             PROVE  /\ r[i].session \in known \union {x \in {j.session} : j.op = "AddSession"}
                    /\ \A k \in 1..Len(r) : r[k] = r[i] => k = i
  BY DEF Once, r
<1>2. CASE i <= Len(p)
  <2>1. i \in 1..Len(p) /\ r[i] = p[i]
    BY <1>1, <1>2
  <2>2. p[i].session \in known /\ \A k \in 1..Len(p) : p[k] = p[i] => k = i
    BY <2>1 DEF Once
  <2>3. j # p[i]
    BY <2>1, <2>2
  <2>4. \A k \in 1..Len(r) : (k \in 1..Len(p) /\ r[k] = p[k]) \/ r[k] = j
    BY <1>1
  <2> QED BY <2>1, <2>2, <2>3, <2>4
<1>3. CASE ~(i <= Len(p))
  <2>1. i = Len(p) + 1 /\ r[i] = j
    BY <1>1, <1>3
  <2>2. \A k \in 1..Len(p) : p[k] # j
    BY <2>1 DEF Once
  <2>3. \A k \in 1..Len(r) : (k \in 1..Len(p) /\ r[k] = p[k]) \/ k = i
    BY <1>1, <2>1
  <2> QED BY <2>1, <2>2, <2>3
<1> QED BY <1>2, <1>3

LEMMA OnceTail ==
  ASSUME NEW p \in Seq(Jobs), NEW known, p # <<>>, Once(p, known)
  PROVE  /\ Once(Tail(p), known)
         /\ Head(p).op = "AddSession" => Head(p).session \in known /\ Head(p) \notin Elems(Tail(p))
<1> DEFINE r == Tail(p)
<1>1. /\ Len(p) \in Nat \ {0} /\ r \in Seq(Jobs) /\ Len(r) = Len(p) - 1
      /\ \A i \in 1..Len(r) : r[i] = p[i + 1]
      /\ Head(p) = p[1]
  OBVIOUS
<1> HIDE DEF r
<1>2. 1 \in 1..Len(p) /\ \A i \in 1..Len(r) : i + 1 \in 1..Len(p) /\ i + 1 # 1
  BY <1>1
<1>3. ASSUME NEW i \in 1..Len(r), r[i].op = "AddSession"
      PROVE  r[i].session \in known /\ \A k \in 1..Len(r) : r[k] = r[i] => k = i
  <2>1. i + 1 \in 1..Len(p) /\ r[i] = p[i + 1] /\ Len(r) \in Nat
    BY <1>1, <1>2
  <2>2. p[i + 1].session \in known /\ \A k \in 1..Len(p) : p[k] = p[i + 1] => k = i + 1
    BY <1>3, <2>1 DEF Once
  <2>3. \A k \in 1..Len(r) : r[k] = r[i] => k + 1 = i + 1
    BY <1>1, <1>2, <2>1, <2>2
  <2> QED BY <2>1, <2>2, <2>3
<1>4. Head(p).op = "AddSession" => Head(p).session \in known /\ Head(p) \notin Elems(r)
  BY <1>1, <1>2 DEF Once, Elems
<1>5. Once(r, known)
  BY <1>3 DEF Once
<1> QED BY <1>4, <1>5 DEF r

(***************************************************************************)
(* Who is sent to whom.  A session that was not accepted early and has its *)
(* connection is the only one alive under its number.                      *)
(***************************************************************************)
ConnectedOpen == \A s \in connected \ early : fd[s] \in Fds /\ registry[fd[s]] = s

LEMMA OneOwner ==
  ASSUME TypeInv, NumberInv, NEW o \in alive, NEW z \in Sessions \ early,
         fd[o] \in Fds, socket[fd[o]] = z
  PROVE  o = z
<1>1. o \in Sessions /\ fd[z] = fd[o]
  BY SessionNumbers DEF TypeInv, TypeOK, Numbers
<1>2. ~(o < z)
  BY <1>1 DEF NumberInv, Earlier
<1>3. o <= z
  BY <1>1, SessionNumbers DEF NumberInv, Latest
<1>4. o \in Nat /\ z \in Nat
  BY <1>1, SessionNumbers
<1> QED BY <1>2, <1>3, <1>4

LEMMA HasConnection ==
  ASSUME TypeInv, RegisteredIsOpen, ConnectedOpen, NEW s \in connected \ early
  PROVE  /\ s \in Sessions /\ fd[s] \in Fds
         /\ registry[fd[s]] = s /\ socket[fd[s]] = s
<1>1. s \in Sessions /\ fd[s] \in Fds /\ registry[fd[s]] = s
  BY DEF TypeInv, TypeOK, ConnectedOpen
<1> QED BY <1>1, SessionNumbers DEF RegisteredIsOpen

LEMMA ReachedWho ==
  ASSUME TypeInv, NumberInv, RegisteredIsOpen, ConnectedOpen,
         NEW S, S \subseteq alive, \A o \in S : fd[o] \in Fds, NEW x \in Sessions \ early
  PROVE  Reached(x, S) <=> x \in S \intersect connected
<1>1. ASSUME Reached(x, S) PROVE x \in S \intersect connected
  <2>1. PICK o \in S \intersect connected : socket[fd[o]] = x
    BY <1>1 DEF Reached
  <2>2. o \in alive /\ fd[o] \in Fds
    OBVIOUS
  <2>3. o = x
    BY <2>1, <2>2, OneOwner
  <2> QED BY <2>3
<1>2. ASSUME x \in S \intersect connected PROVE Reached(x, S)
  <2>1. socket[fd[x]] = x
    BY <1>2, HasConnection
  <2> QED BY <1>2, <2>1 DEF Reached
<1> QED BY <1>1, <1>2

LEMMA OthersAlive ==
  ASSUME TypeInv, AliveInv, NEW n
  PROVE  Others(n) \subseteq alive /\ \A o \in Others(n) : fd[o] \in Fds /\ fd[o] # n /\ members[fd[o]] = o
BY DEF Others, AliveInv, MembersAlive, TypeInv, Numbers

LEMMA ConnectedStep ==
  ASSUME TypeInv, NumberInv, AliveInv, RegisteredIsOpen, ConnectedOpen, NEW t \in Threads, Step(t)
  PROVE  ConnectedOpen'
<1> SUFFICES ASSUME NEW s \in connected' \ early' PROVE fd'[s] \in Fds /\ registry'[fd'[s]] = s
  BY DEF ConnectedOpen
<1>t. /\ fd \in [Sessions -> Fds \union {0}] /\ events \subseteq Fds
      /\ registry \in [Fds -> Sessions \union {Nobody}]
      /\ connected \subseteq Sessions /\ 0 \notin Fds
  BY DEF TypeInv, TypeOK
<1>e. s \notin early
  BY HistoryGrows
<1>1. CASE Accept(t)
  <2>1. PICK m \in Fds, r \in Sessions : fd[r] = 0 /\ fd' = [fd EXCEPT ![r] = m]
          /\ UNCHANGED <<registry, connected>>
    BY <1>1 DEF Accept
  <2>2. fd[s] \in Fds /\ registry[fd[s]] = s
    BY <1>e, <2>1 DEF ConnectedOpen
  <2> QED BY <1>t, <2>1, <2>2
<1>2. CASE Register(t)
  <2> DEFINE r == session[t]
  <2>1. /\ fd[r] \in Fds /\ fd' = fd
        /\ \A n \in Fds : registry'[n] = IF n = fd[r] /\ socket[n] = r THEN r ELSE registry[n]
    <3>1. pc[t] = "register" /\ fd' = fd
      BY <1>2 DEF Register, Goto
    <3>2. fd[r] \in Fds
      BY <3>1 DEF TypeInv, Numbers
    <3>3. \A n \in Fds : registry'[n] = IF n = fd[r] /\ socket[n] = r THEN r ELSE registry[n]
      BY <1>2, RegisterTable
    <3> QED BY <3>1, <3>2, <3>3
  <2>2. connected' = connected \union {x \in {r} : socket[fd[r]] = r}
    BY <1>2, <2>1 DEF Register
  <2>3. CASE s \in connected
    <3>1. fd[s] \in Fds /\ registry[fd[s]] = s /\ socket[fd[s]] = s
      BY <1>e, <2>3, HasConnection
    <3> QED BY <2>1, <3>1
  <2>4. CASE s \notin connected
    BY <2>1, <2>2, <2>4
  <2> QED BY <2>3, <2>4
<1>3. CASE ReleaseSession(t)
  <2>1. PICK m \in events :
          /\ registry' = [registry EXCEPT ![m] = Nobody]
          /\ connected' = connected \ {registry[m]} /\ fd' = fd
    BY <1>3 DEF ReleaseSession, ReleaseCounted
  <2>2. fd[s] \in Fds /\ registry[fd[s]] = s
    BY <1>e, <2>1 DEF ConnectedOpen
  <2> QED BY <1>t, <2>1, <2>2
<1>4. CASE ~Accept(t) /\ ~Register(t) /\ ~ReleaseSession(t)
  <2>1. UNCHANGED <<fd, registry, connected>>
    BY <1>4, JobEffect DEF Step, EventCount, NotReading, OffReading, Load, PushDelSession, PushLast,
         EndRead, EndWith, Execute, Effect, objects
  <2> QED BY <1>e, <2>1 DEF ConnectedOpen
<1> QED BY <1>1, <1>2, <1>3, <1>4

(***************************************************************************)
(* A session whose AddSession has not run is no member and was shown       *)
(* nobody; a member was shown whoever is in the room and was not told to   *)
(* leave.                                                                  *)
(***************************************************************************)
PendingInv == OneBatch /\ Paired(Pending, Leavers) /\ Once(Pending, loaded)

Fresh(s) == s \notin loaded \/ Job("AddSession", s) \in Elems(Pending)

FreshKnowNobody ==
  \A s \in Sessions : Fresh(s) => /\ \A n \in Fds : members[n] # s
                                  /\ s \notin early => shown[s] = {}

Expected(s) ==
  {n \in Fds \ {fd[s]} : members[n] # Nobody /\ \A y \in Told(Pending, Leavers) : fd[y] # n}

MembersKnow == \A s \in connected \ early : members[fd[s]] = s => shown[s] = Expected(s)

LEMMA PendingStep ==
  ASSUME TypeInv, PendingInv, NEW t \in Threads, Step(t), ~overlapped'
  PROVE  /\ PendingInv'
         /\ ~RunJob(t) => /\ Told(Pending', Leavers') = Told(Pending, Leavers)
                          /\ \A s \in Sessions : Fresh(s)' => Fresh(s)
<1>t. /\ registry \in [Fds -> Sessions \union {Nobody}] /\ events \subseteq Fds /\ TypeOK
      /\ session \in [Threads -> Sessions \union {Nobody}]
  BY DEF TypeInv, TypeOK
<1>p. Pending \in Seq(Jobs)
  BY <1>t, PendingType
<1>o. "AddSession" \in Ops /\ "BroadcastAnother" \in Ops /\ "DelSession" \in Ops
  BY DEF Ops
<1> DEFINE p == Pending
           r == Pending'
           a == Leavers
           b == Leavers'
<1>1. CASE Calm(t)
  <2>1. OneBatch' /\ r = p /\ b = a /\ loaded' = loaded
    <3>1. loaded' = loaded
      BY <1>1 DEF Calm, Step, EventCount, NotReading, OffReading, Accept, Register, EndRead, EndWith,
           Execute, world
    <3> QED BY <1>1, <3>1, PendingKept, LeaversStep DEF PendingInv
  <2>2. ~RunJob(t)
    BY <1>1 DEF Calm
  <2> QED BY <2>1, <2>2 DEF PendingInv, Fresh, Once, Paired, Elems
<1>2. CASE Load(t)
  <2>1. PICK n \in events :
          /\ registry[n] # Nobody /\ registry[n] \notin loaded
          /\ loaded' = loaded \union {registry[n]}
          /\ q' = Append(q, Job("AddSession", registry[n])) /\ jobs' = jobs
    BY <1>2 DEF Load
  <2> DEFINE s == registry[n]
             j == Job("AddSession", s)
  <2>2. s \in Sessions /\ j \in Jobs /\ j.op = "AddSession" /\ j.session = s
    BY <1>t, <1>o, <2>1, JobFields
  <2>3. r = Append(p, j) /\ a = {} /\ b = {}
    BY <1>2, <1>t, <2>1, <2>2, PendingPush, LeaversStep
  <2> HIDE DEF j, p, r, a, b
  <2>4. Paired(r, b) /\ Told(r, b) = Told(p, a)
    BY <1>p, <2>2, <2>3, PairedAppend DEF PendingInv, j, p, a
  <2>5. Once(r, loaded')
    <3>1. Once(Append(p, j), loaded \union {x \in {j.session} : j.op = "AddSession"})
      BY <1>p, <2>1, <2>2, OnceAppend DEF PendingInv, p
    <3>2. loaded \union {x \in {j.session} : j.op = "AddSession"} = loaded'
      BY <2>1, <2>2
    <3> QED BY <2>3, <3>1, <3>2
  <2>6. \A z \in Sessions : Fresh(z)' => Fresh(z)
    <3>1. Elems(r) = Elems(p) \union {j}
      BY <1>p, <2>2, <2>3, ElemsAppend DEF p
    <3>2. \A z : Job("AddSession", z) = j => z = s
      BY <2>2, JobFields
    <3>3. \A z : Fresh(z)' <=> z \notin loaded' \/ Job("AddSession", z) \in Elems(r)
      BY DEF Fresh, r, Elems, Job
    <3> QED BY <2>1, <3>1, <3>2, <3>3 DEF Fresh, p
  <2>7. OneBatch'
    BY <2>1 DEF PendingInv, OneBatch
  <2>8. ~RunJob(t)
    BY <1>2, <2>1 DEF Load, RunJob, Goto
  <2> QED BY <2>4, <2>5, <2>6, <2>7, <2>8 DEF PendingInv, p, r, a, b, Paired, Once
<1>3. CASE ReleaseSession(t) \/ PushDelSession(t)
  <2>1. PICK s \in Sessions, j \in Jobs :
          /\ q' = Append(q, j) /\ jobs' = jobs
          /\ \/ j = Job("BroadcastAnother", s) /\ a = {} /\ b = {s}
             \/ j = Job("DelSession", s) /\ a = {s} /\ b = {}
    <3>1. CASE ReleaseSession(t)
      <4>1. PICK n \in events :
              /\ registry[n] # Nobody /\ session' = [session EXCEPT ![t] = registry[n]]
              /\ q' = Append(q, Job("BroadcastAnother", registry[n])) /\ jobs' = jobs
        BY <3>1 DEF ReleaseSession, ReleaseCounted
      <4>2. a = {} /\ b = {registry[n]} /\ registry[n] \in Sessions
        BY <1>t, <3>1, <4>1, LeaversStep
      <4> QED BY <1>o, <4>1, <4>2, JobFields
    <3>2. CASE PushDelSession(t)
      <4>1. pc[t] = "release" /\ q' = Append(q, Job("DelSession", session[t])) /\ jobs' = jobs
        BY <3>2 DEF PushDelSession, PushLast, Goto
      <4>2. a = {session[t]} /\ b = {} /\ session[t] \in Sessions
        BY <3>2, <4>1, LeaversStep DEF TypeInv, Stages
      <4> QED BY <1>o, <4>1, <4>2, JobFields
    <3> QED BY <1>3, <3>1, <3>2
  <2>2. j.op # "AddSession"
    BY <2>1, JobFields
  <2>3. r = Append(p, j)
    BY <1>t, <2>1, <2>2, PendingPush
  <2>l. loaded' = loaded
    BY <1>3 DEF ReleaseSession, ReleaseCounted, PushDelSession, PushLast, world
  <2> HIDE DEF p, r, a, b
  <2>4. Paired(r, b) /\ Told(r, b) = Told(p, a)
    <3>1. p \in Seq(Jobs) /\ Paired(p, a)
      BY <1>p DEF PendingInv, p, a
    <3> QED BY <2>1, <2>2, <2>3, <3>1, PairedAppend
  <2>5. Once(r, loaded')
    <3>1. Once(Append(p, j), loaded \union {x \in {j.session} : j.op = "AddSession"})
      BY <1>p, <2>2, OnceAppend DEF PendingInv, p
    <3>2. loaded \union {x \in {j.session} : j.op = "AddSession"} = loaded'
      BY <2>2, <2>l
    <3> QED BY <2>3, <3>1, <3>2
  <2>6. \A z \in Sessions : Fresh(z)' => Fresh(z)
    <3>1. Elems(r) = Elems(p) \union {j}
      BY <1>p, <2>2, <2>3, ElemsAppend DEF p
    <3>2. \A z : Job("AddSession", z) # j
      BY <2>2, JobFields
    <3>3. \A z : Fresh(z)' <=> z \notin loaded' \/ Job("AddSession", z) \in Elems(r)
      BY DEF Fresh, r, Elems, Job
    <3> QED BY <2>l, <3>1, <3>2, <3>3 DEF Fresh, p
  <2>7. OneBatch'
    BY <2>1 DEF PendingInv, OneBatch
  <2>8. ~RunJob(t)
    BY <1>3 DEF ReleaseSession, ReleaseCounted, PushDelSession, PushLast, RunJob, Goto
  <2> QED BY <2>4, <2>5, <2>6, <2>7, <2>8 DEF PendingInv, p, r, a, b, Paired, Once
<1>4. CASE RunJob(t)
  <2>1. OneBatch' /\ p # <<>> /\ r = Tail(p) /\ b = a
    BY <1>4, PendingPop, LeaversStep DEF PendingInv
  <2>2. loaded' = loaded
    BY <1>4 DEF RunJob
  <2> HIDE DEF p, r, a, b
  <2>3. Paired(r, b) /\ Once(r, loaded')
    <3>1. p \in Seq(Jobs) /\ Paired(p, a) /\ Once(p, loaded)
      BY <1>p DEF PendingInv, p, a
    <3> QED BY <2>1, <2>2, <3>1, PairedTail, OnceTail
  <2> QED BY <1>4, <2>1, <2>3 DEF PendingInv, p, r, a, b, Paired, Once
<1> QED BY <1>1, <1>2, <1>3, <1>4 DEF Calm

(* A job of one step, with what comes next of what is pending. *)
LEMMA RunsFirst ==
  ASSUME TypeInv, PendingInv, NEW t \in Threads, RunJob(t)
  PROVE  LET j == Head(Pending) IN
         /\ j \in Jobs /\ j \in Waiting /\ j.session \in Sessions /\ fd[j.session] \in Fds
         /\ \/ j.op = "AddSession" /\ AddSession(j.session)
            \/ j.op = "BroadcastAnother" /\ BroadcastAnother(j.session)
            \/ j.op = "DelSession" /\ DelSession(j.session)
         /\ UNCHANGED <<fd, registry, connected, loaded, early>>
         /\ Told(Pending, Leavers) = {y \in {j.session} : j.op = "DelSession"}
         /\ Told(Pending', Leavers') = {y \in {j.session} : j.op = "BroadcastAnother"}
         /\ j.op # "AddSession" => Leaving(j.session)
         /\ Elems(Pending') \subseteq Elems(Pending)
         /\ j.op = "AddSession" => j \in Elems(Pending) /\ j \notin Elems(Pending')
                                   /\ j.session \in loaded
<1> DEFINE j == Head(Pending)
           p == Pending
           r == Pending'
<1>1. p \in Seq(Jobs) /\ Elems(p) \subseteq Waiting
  BY PendingType DEF TypeInv
<1>2. p # <<>> /\ j = Head(jobs[t]) /\ r = Tail(p) /\ Leavers' = Leavers
  <2>1. p # <<>> /\ j = Head(jobs[t]) /\ r = Tail(p)
    BY PendingPop DEF PendingInv
  <2>2. Leavers' = Leavers
    BY LeaversStep DEF Step
  <2> QED BY <2>1, <2>2
<1>3. /\ \/ j.op = "AddSession" /\ AddSession(j.session)
         \/ j.op = "BroadcastAnother" /\ BroadcastAnother(j.session)
         \/ j.op = "DelSession" /\ DelSession(j.session)
      /\ UNCHANGED <<fd, registry, connected, loaded, early>>
  BY <1>2 DEF RunJob
<1>4. Paired(p, Leavers) /\ Once(p, loaded)
  BY DEF PendingInv
<1> HIDE DEF p, r
<1>5. /\ Head(p) \in Jobs /\ Elems(p) = {Head(p)} \union Elems(Tail(p))
  BY <1>1, <1>2, ElemsPop
<1>6. j = Head(p)
  BY DEF p
<1>7. j \in Waiting /\ j.session \in Sessions /\ fd[j.session] \in Fds
  BY <1>1, <1>5, <1>6, JobIs DEF TypeInv, Numbers
<1>8. /\ Told(p, Leavers) = {y \in {j.session} : j.op = "DelSession"}
      /\ Told(r, Leavers) = {y \in {j.session} : j.op = "BroadcastAnother"}
      /\ j.op = "BroadcastAnother" => Job("DelSession", j.session) \in Elems(p) \/ j.session \in Leavers
  BY <1>1, <1>2, <1>4, <1>6, PairedTail
<1>9. j.op = "AddSession" => j \in Elems(p) /\ j \notin Elems(r) /\ j.session \in loaded
  BY <1>1, <1>2, <1>4, <1>5, <1>6, OnceTail
<1>10. j.op # "AddSession" => Leaving(j.session)
  <2>1. j = Job(j.op, j.session)
    BY <1>5, <1>6, JobIs
  <2>2. CASE j.op = "BroadcastAnother"
    BY <1>1, <1>8, <2>2 DEF Leaving, Leavers
  <2>3. CASE j.op = "DelSession"
    BY <1>7, <2>1, <2>3 DEF Leaving
  <2> QED BY <1>3, <2>2, <2>3
<1>11. Elems(r) \subseteq Elems(p)
  BY <1>2, <1>5
<1>12. Told(Pending', Leavers') = Told(r, Leavers)
  BY <1>2 DEF r
<1>13. Elems(Pending)' = Elems(r)
  BY DEF r, Elems
<1> QED BY <1>3, <1>5, <1>6, <1>7, <1>8, <1>9, <1>10, <1>11, <1>12, <1>13 DEF p, r

(* Who hears of an AddSession and of a BroadcastAnother. *)
LEMMA AddShows ==
  ASSUME TypeInv, NumberInv, AliveInv, RegisteredIsOpen, ConnectedOpen,
         NEW s \in alive, fd[s] \in Fds, AddSession(s), NEW x \in Sessions \ early
  PROVE  /\ x # s => shown'[x] = shown[x] \union {n \in {fd[s]} : x \in Others(fd[s]) \intersect connected}
         /\ s \notin Others(fd[s]) =>
              (x = s => shown'[x] = shown[x] \union {fd[o] : o \in {p \in Others(fd[s]) : s \in connected}})
<1>1. Others(fd[s]) \subseteq alive /\ \A o \in Others(fd[s]) : fd[o] \in Fds
  BY OthersAlive
<1>2. Reached(x, Others(fd[s])) <=> x \in Others(fd[s]) \intersect connected
  BY <1>1, ReachedWho
<1>3. Reached(x, {s}) <=> x \in {s} \intersect connected
  <2>1. {s} \subseteq alive /\ \A o \in {s} : fd[o] \in Fds
    OBVIOUS
  <2> QED BY <2>1, ReachedWho
<1>4. shown'[x] = shown[x] \union {fd[s] : o \in {p \in {s} : Reached(x, Others(fd[s]))}}
                           \union {fd[o] : o \in {p \in Others(fd[s]) : Reached(x, {s})}}
  BY DEF AddSession, AddAndShow, Show
<1>5. ASSUME x # s
      PROVE  shown'[x] = shown[x] \union {n \in {fd[s]} : x \in Others(fd[s]) \intersect connected}
  BY <1>2, <1>3, <1>4, <1>5
<1>6. ASSUME s \notin Others(fd[s]), x = s
      PROVE  shown'[x] = shown[x] \union {fd[o] : o \in {p \in Others(fd[s]) : s \in connected}}
  BY <1>2, <1>3, <1>4, <1>6
<1> QED BY <1>5, <1>6

LEMMA LeaverShows ==
  ASSUME TypeInv, NumberInv, AliveInv, RegisteredIsOpen, ConnectedOpen,
         NEW s, BroadcastAnother(s), NEW x \in Sessions \ early
  PROVE  shown'[x] = IF x \in Others(fd[s]) \intersect connected THEN shown[x] \ {fd[s]} ELSE shown[x]
<1>1. Others(fd[s]) \subseteq alive /\ \A o \in Others(fd[s]) : fd[o] \in Fds
  BY OthersAlive
<1>2. Reached(x, Others(fd[s])) <=> x \in Others(fd[s]) \intersect connected
  BY <1>1, ReachedWho
<1> QED BY <1>2 DEF BroadcastAnother

KnowInv == LifeInv /\ ConnectedOpen /\ (~overlapped => PendingInv /\ FreshKnowNobody /\ MembersKnow)

LEMMA FreshStep ==
  ASSUME LifeInv, ConnectedOpen, PendingInv, FreshKnowNobody, NEW t \in Threads, Step(t), ~overlapped'
  PROVE  FreshKnowNobody'
<1> SUFFICES ASSUME NEW x \in Sessions, Fresh(x)'
             PROVE  /\ \A n \in Fds : members'[n] # x
                    /\ x \notin early' => shown'[x] = {}
  BY DEF FreshKnowNobody
<1> USE DEF LifeInv
<1>e. early \subseteq early'
  BY HistoryGrows
<1>1. CASE ~RunJob(t)
  <2>1. Fresh(x)
    BY <1>1, PendingStep
  <2>2. members' = members /\ shown' = shown
    BY <1>1 DEF Step, EventCount, NotReading, OffReading, Accept, Register, Load, ReleaseSession, ReleaseCounted,
         PushDelSession, PushLast, EndRead, EndWith, Execute, objects, world
  <2> QED BY <1>e, <2>1, <2>2 DEF FreshKnowNobody
<1>2. CASE RunJob(t)
  <2> DEFINE j == Head(Pending)
             s == j.session
  <2>1. /\ j \in Jobs /\ j \in Waiting /\ s \in Sessions /\ fd[s] \in Fds
        /\ \/ j.op = "AddSession" /\ AddSession(s)
           \/ j.op = "BroadcastAnother" /\ BroadcastAnother(s)
           \/ j.op = "DelSession" /\ DelSession(s)
        /\ loaded' = loaded
        /\ Elems(Pending') \subseteq Elems(Pending)
        /\ j.op = "AddSession" => j \notin Elems(Pending') /\ s \in loaded
    BY <1>2, RunsFirst
  <2>2. j = Job(j.op, s)
    BY <2>1, JobIs
  <2>j. j.op # "BroadcastAnother" => s \in alive
    BY <2>1 DEF AliveInv, JobsAlive
  <2> HIDE DEF j
  <2>3. x \notin loaded' \/ Job("AddSession", x) \in Elems(Pending')
    BY DEF Fresh, Elems, Job
  <2>4. Fresh(x) /\ (j.op = "AddSession" => x # s)
    BY <2>1, <2>2, <2>3 DEF Fresh
  <2>5. (\A n \in Fds : members[n] # x) /\ (x \notin early => shown[x] = {})
    BY <2>4 DEF FreshKnowNobody
  <2>6. \A n : x \notin Others(n)
    BY <2>5 DEF Others
  <2>m. members \in [Fds -> Sessions \union {Nobody}]
    BY DEF TypeInv, TypeOK
  <2>7. CASE j.op = "AddSession" /\ AddSession(s)
    <3>1. members' = [members EXCEPT ![fd[s]] = s]
      BY <2>7 DEF AddSession, AddAndShow
    <3>2. x # s
      BY <2>4, <2>7
    <3>3. ASSUME x \notin early PROVE shown'[x] = shown[x]
      <4>1. x \in Sessions \ early /\ s \in alive /\ fd[s] \in Fds
        BY <2>1, <2>7, <2>j, <3>3
      <4>2. shown'[x] = shown[x] \union {n \in {fd[s]} : x \in Others(fd[s]) \intersect connected}
        BY <2>7, <3>2, <4>1, AddShows
      <4> QED BY <2>6, <4>2
    <3>4. \A n \in Fds : members'[n] # x
      BY <2>5, <2>m, <3>1, <3>2
    <3> QED BY <1>e, <2>5, <3>3, <3>4
  <2>8. CASE j.op = "BroadcastAnother" /\ BroadcastAnother(s)
    <3>1. members' = members
      BY <2>8 DEF BroadcastAnother
    <3>2. x \notin early => shown'[x] = shown[x]
      BY <2>6, <2>8, LeaverShows
    <3> QED BY <1>e, <2>5, <3>1, <3>2
  <2>9. CASE j.op = "DelSession" /\ DelSession(s)
    <3>1. shown' = shown /\ \A n \in Fds : members'[n] \in {members[n], Nobody}
      BY <2>9 DEF DelSession, Erase
    <3> QED BY <1>e, <2>5, <3>1, SessionNumbers
  <2> QED BY <2>1, <2>7, <2>8, <2>9
<1> QED BY <1>1, <1>2

(* A member that is registered is not the one that a job takes out. *)
LEMMA OtherNumber ==
  ASSUME LifeInv, ConnectedOpen, NEW x \in connected \ early, NEW s, Leaving(s)
  PROVE  fd[s] # fd[x]
<1> SUFFICES ASSUME fd[s] = fd[x] PROVE FALSE
  OBVIOUS
<1> USE DEF LifeInv
<1>1. x \in Sessions /\ fd[x] \in Fds /\ registry[fd[x]] = x /\ socket[fd[x]] = x
  BY HasConnection
<1>2. s \in alive
  BY LeavingAlive
<1>3. s = x
  BY <1>1, <1>2, OneOwner
<1> QED BY <1>1, <1>3 DEF Departed

LEMMA JobKnow ==
  ASSUME LifeInv, ConnectedOpen, PendingInv, FreshKnowNobody, MembersKnow, NEW t \in Threads, RunJob(t)
  PROVE  MembersKnow'
<1> DEFINE j == Head(Pending)
           s == j.session
<1>1. /\ j \in Jobs /\ j \in Waiting /\ s \in Sessions /\ fd[s] \in Fds
      /\ \/ j.op = "AddSession" /\ AddSession(s)
         \/ j.op = "BroadcastAnother" /\ BroadcastAnother(s)
         \/ j.op = "DelSession" /\ DelSession(s)
      /\ fd' = fd /\ connected' = connected /\ early' = early
      /\ Told(Pending, Leavers) = {y \in {s} : j.op = "DelSession"}
      /\ Told(Pending', Leavers') = {y \in {s} : j.op = "BroadcastAnother"}
      /\ j.op # "AddSession" => Leaving(s)
      /\ j.op = "AddSession" => j \in Elems(Pending)
  BY RunsFirst DEF LifeInv
<1>2. j = Job(j.op, s)
  BY <1>1, JobIs
<1>a. j.op # "BroadcastAnother" => s \in alive
  BY <1>1 DEF LifeInv, AliveInv, JobsAlive
<1> HIDE DEF j
<1> SUFFICES ASSUME NEW x \in connected \ early, members'[fd[x]] = x
             PROVE  shown'[x] = Expected(x)'
  BY <1>1 DEF MembersKnow
<1>e. Expected(x)' = {n \in Fds \ {fd[x]} : members'[n] # Nobody /\ (j.op = "BroadcastAnother" => fd[s] # n)}
  BY <1>1 DEF Expected
<1>o. Expected(x) = {n \in Fds \ {fd[x]} : members[n] # Nobody /\ (j.op = "DelSession" => fd[s] # n)}
  BY <1>1 DEF Expected
<1>c. x \in Sessions \ early /\ fd[x] \in Fds
  BY HasConnection DEF LifeInv
<1>m. /\ members \in [Fds -> Sessions \union {Nobody}]
      /\ \A n \in Fds : members[n] # Nobody => fd[members[n]] = n
  BY DEF LifeInv, TypeInv, TypeOK, Numbers
<1>n. Nobody \notin Sessions
  BY SessionNumbers
<1>3. CASE j.op = "AddSession" /\ AddSession(s)
  <2>1. members' = [members EXCEPT ![fd[s]] = s]
    BY <1>3 DEF AddSession, AddAndShow
  <2>2. \A n \in Fds : members'[n] = IF n = fd[s] THEN s ELSE members[n]
    BY <1>m, <2>1
  <2>3. CASE x = s
    <3>1. Fresh(s)
      BY <1>1, <1>2, <1>3 DEF Fresh
    <3>2. (\A n \in Fds : members[n] # s) /\ shown[s] = {}
      BY <1>1, <1>c, <2>3, <3>1 DEF FreshKnowNobody
    <3>3. s \notin Others(fd[s])
      BY <3>2 DEF Others
    <3>4. shown'[x] = shown[x] \union {fd[o] : o \in {p \in Others(fd[s]) : s \in connected}}
      BY <1>1, <1>3, <1>a, <1>c, <2>3, <3>3, AddShows DEF LifeInv
    <3>5. shown'[x] = {fd[o] : o \in Others(fd[s])}
      BY <2>3, <3>2, <3>4
    <3>6. {fd[o] : o \in Others(fd[s])} = {n \in Fds \ {fd[s]} : members[n] # Nobody}
      <4>1. ASSUME NEW o \in Others(fd[s])
            PROVE  fd[o] \in Fds \ {fd[s]} /\ members[fd[o]] = o /\ o # Nobody
        BY <1>m DEF Others
      <4>2. ASSUME NEW n \in Fds \ {fd[s]}, members[n] # Nobody
            PROVE  members[n] \in Others(fd[s]) /\ fd[members[n]] = n
        BY <1>m, <4>2 DEF Others
      <4>3. ASSUME NEW o \in Others(fd[s])
            PROVE  fd[o] \in {n \in Fds \ {fd[s]} : members[n] # Nobody}
        BY <4>1
      <4>4. ASSUME NEW n \in Fds \ {fd[s]}, members[n] # Nobody
            PROVE  n \in {fd[o] : o \in Others(fd[s])}
        BY <4>2, <4>4
      <4> QED BY Zenon, <4>3, <4>4
    <3>7. Expected(x)' = {n \in Fds \ {fd[s]} : members[n] # Nobody}
      BY <1>3, <1>e, <2>2, <2>3
    <3> QED BY <3>5, <3>6, <3>7
  <2>4. CASE x # s
    <3>1. fd[x] # fd[s] /\ members[fd[x]] = x
      BY <1>c, <2>2, <2>4
    <3>2. x \in Others(fd[s]) \intersect connected
      BY <1>c, <1>n, <3>1 DEF Others
    <3>3. shown'[x] = shown[x] \union {n \in {fd[s]} : x \in Others(fd[s]) \intersect connected}
      BY <1>1, <1>3, <1>a, <1>c, <2>4, AddShows DEF LifeInv
    <3>4. shown[x] = Expected(x)
      BY <3>1 DEF MembersKnow
    <3>5. Expected(x) = {n \in Fds \ {fd[x]} : members[n] # Nobody}
      BY <1>3, <1>o
    <3>6. Expected(x)' = {n \in Fds \ {fd[x]} : members[n] # Nobody} \union {fd[s]}
      BY <1>1, <1>3, <1>e, <1>n, <2>2, <3>1
    <3> QED BY <3>2, <3>3, <3>4, <3>5, <3>6
  <2> QED BY <2>3, <2>4
<1>4. CASE j.op = "BroadcastAnother" /\ BroadcastAnother(s)
  <2>1. members' = members
    BY <1>4 DEF BroadcastAnother
  <2>2. fd[s] # fd[x]
    BY <1>1, <1>4, OtherNumber
  <2>3. x \in Others(fd[s]) \intersect connected
    BY <1>c, <1>n, <2>1, <2>2 DEF Others
  <2>4. shown'[x] = shown[x] \ {fd[s]}
    <3>1. shown'[x] = IF x \in Others(fd[s]) \intersect connected THEN shown[x] \ {fd[s]} ELSE shown[x]
      BY <1>4, <1>c, LeaverShows DEF LifeInv
    <3> QED BY <2>3, <3>1
  <2>5. shown[x] = {n \in Fds \ {fd[x]} : members[n] # Nobody}
    <3>1. shown[x] = Expected(x)
      BY <2>1 DEF MembersKnow
    <3>2. Expected(x) = {n \in Fds \ {fd[x]} : members[n] # Nobody}
      BY <1>4, <1>o
    <3> QED BY <3>1, <3>2
  <2>6. Expected(x)' = {n \in Fds \ {fd[x]} : members[n] # Nobody /\ fd[s] # n}
    BY <1>4, <1>e, <2>1
  <2> QED BY <2>4, <2>5, <2>6
<1>5. CASE j.op = "DelSession" /\ DelSession(s)
  <2>1. shown' = shown /\ \A n \in Fds : members'[n] = IF n = fd[s] THEN Nobody ELSE members[n]
    BY <1>5 DEF DelSession, Erase
  <2>2. fd[s] # fd[x]
    BY <1>1, <1>5, OtherNumber
  <2>3. shown[x] = Expected(x)
    BY <1>c, <2>1, <2>2 DEF MembersKnow
  <2>4. Expected(x) = {n \in Fds \ {fd[x]} : members[n] # Nobody /\ fd[s] # n}
    BY <1>5, <1>o
  <2>5. Expected(x)' = {n \in Fds \ {fd[x]} : members'[n] # Nobody}
    BY <1>5, <1>e
  <2>6. \A n \in Fds : members'[n] # Nobody <=> members[n] # Nobody /\ fd[s] # n
    BY <2>1
  <2>7. Expected(x)' = Expected(x)
    BY <2>4, <2>5, <2>6
  <2> QED BY <2>1, <2>3, <2>7
<1> QED BY <1>1, <1>3, <1>4, <1>5

LEMMA KnowStep ==
  ASSUME LifeInv, ConnectedOpen, PendingInv, FreshKnowNobody, MembersKnow,
         NEW t \in Threads, Step(t), ~overlapped'
  PROVE  MembersKnow'
<1>1. CASE RunJob(t)
  BY <1>1, JobKnow
<1>2. CASE ~RunJob(t)
  <2> SUFFICES ASSUME NEW x \in connected' \ early', members'[fd'[x]] = x
               PROVE  shown'[x] = Expected(x)'
    BY DEF MembersKnow
  <2>t. /\ fd \in [Sessions -> Fds \union {0}] /\ 0 \notin Fds /\ Waiting \subseteq Jobs
        /\ Pending \in Seq(Jobs) /\ Elems(Pending) \subseteq Waiting
        /\ members \in [Fds -> Sessions \union {Nobody}] /\ members' \in [Fds -> Sessions \union {Nobody}]
    BY TypeStep, WaitingJobs, PendingType DEF LifeInv, TypeInv, TypeOK
  <2>1. members' = members /\ shown' = shown
    BY <1>2 DEF Step, EventCount, NotReading, OffReading, Accept, Register, Load, ReleaseSession, ReleaseCounted,
         PushDelSession, PushLast, EndRead, EndWith, Execute, objects, world
  <2>2. Told(Pending', Leavers') = Told(Pending, Leavers)
    BY <1>2, PendingStep DEF LifeInv
  <2>3. \A y \in Told(Pending, Leavers) : y \in Sessions /\ fd[y] \in Fds
    <3>1. \A y \in Leavers : y \in Sessions /\ fd[y] \in Fds
      BY DEF Leavers, LifeInv, TypeInv, Stages, Numbers
    <3>2. Pending # <<>> => Pending[1] \in Waiting
      <4>1. Pending # <<>> => 1 \in 1..Len(Pending)
        BY <2>t, EmptySeq
      <4> QED BY <2>t, <4>1 DEF Elems
    <3>3. Pending # <<>> => Pending[1].session \in Sessions /\ fd[Pending[1].session] \in Fds
      BY <2>t, <3>2, JobIs DEF LifeInv, TypeInv, Numbers
    <3> QED BY <3>1, <3>3 DEF Told
  <2>4. \A y \in Sessions : fd[y] \in Fds => fd'[y] = fd[y]
    <3>1. CASE Accept(t)
      BY <2>t, <3>1 DEF Accept
    <3>2. CASE Register(t)
      BY <3>2 DEF Register
    <3>3. CASE ~Accept(t) /\ ~Register(t)
      BY <3>3, OtherSteps DEF LifeInv
    <3> QED BY <3>1, <3>2, <3>3
  <2>5. x \in connected \ early
    <3>1. x \notin early
      BY HistoryGrows DEF LifeInv
    <3>2. CASE Register(t)
      <4>1. PICK s \in Sessions : s = session[t] /\ fd[s] \in Fds /\ pc[t] = "register" /\ fd' = fd
        BY <3>2, RegisterEffect DEF LifeInv
      <4>2. x \in connected \/ x = s
        BY <3>2, <4>1 DEF Register
      <4>3. s \notin alive
        BY <4>1 DEF LifeInv, NumberInv, Newest
      <4>4. members[fd[s]] # s
        BY <4>1, <4>3, SessionNumbers DEF LifeInv, AliveInv, MembersAlive
      <4> QED BY <2>1, <3>1, <4>1, <4>2, <4>4
    <3>3. CASE ~Register(t)
      <4>1. connected' \subseteq connected
        BY <1>2, <3>3 DEF Step, EventCount, NotReading, OffReading, Accept, Load, ReleaseSession, ReleaseCounted,
           PushDelSession, PushLast, EndRead, EndWith, Execute, objects
      <4> QED BY <3>1, <4>1
    <3> QED BY <3>2, <3>3
  <2>6. x \in Sessions /\ fd[x] \in Fds
    BY <2>5, HasConnection DEF LifeInv
  <2>7. fd'[x] = fd[x]
    BY <2>4, <2>6
  <2>8. shown[x] = Expected(x)
    BY <2>1, <2>5, <2>7 DEF MembersKnow
  <2>9. Expected(x)' = Expected(x)
    BY <2>1, <2>2, <2>3, <2>4, <2>7 DEF Expected
  <2> QED BY <2>1, <2>8, <2>9
<1> QED BY <1>1, <1>2

LEMMA InitKnowInv == Init => KnowInv
<1> SUFFICES ASSUME Init PROVE KnowInv
  OBVIOUS
<1>1. LifeInv
  BY InitLifeInv
<1>2. ConnectedOpen /\ MembersKnow /\ OneBatch
  BY DEF Init, ConnectedOpen, MembersKnow, OneBatch
<1>3. Pending = <<>>
  <2>1. BatchOf(jobs) = <<>> /\ q = <<>>
    BY DEF Init, BatchOf
  <2>2. <<>> \in Seq(Jobs)
    BY EmptySeq
  <2> QED BY <2>1, <2>2, ConcatEmptySeq DEF Pending
<1>4. Leavers = {} /\ Len(<<>>) = 0
  BY DEF Init, Leavers
<1>5. Paired(Pending, Leavers) /\ Once(Pending, loaded)
  BY <1>3, <1>4 DEF Paired, Once
<1>6. FreshKnowNobody
  BY SessionNumbers DEF Init, FreshKnowNobody
<1> QED BY <1>1, <1>2, <1>5, <1>6 DEF KnowInv, PendingInv

LEMMA StepKnowInv == KnowInv /\ [Next]_vars => KnowInv'
<1>1. ASSUME KnowInv, Next PROVE KnowInv'
  <2>1. PICK t \in Threads : Step(t)
    BY <1>1, NextIsStep
  <2>2. LifeInv' /\ ConnectedOpen'
    BY <1>1, <2>1, StepLifeInv, ConnectedStep DEF KnowInv, LifeInv
  <2>3. ASSUME ~overlapped' PROVE PendingInv' /\ FreshKnowNobody' /\ MembersKnow'
    <3>1. PendingInv /\ FreshKnowNobody /\ MembersKnow
      BY <1>1, <2>1, <2>3, OverlapStays DEF KnowInv
    <3>2. PendingInv'
      BY <1>1, <2>1, <2>3, <3>1, PendingStep DEF KnowInv, LifeInv
    <3> QED BY <1>1, <2>1, <2>3, <3>1, <3>2, FreshStep, KnowStep DEF KnowInv
  <2> QED BY <2>2, <2>3 DEF KnowInv
<1>2. ASSUME KnowInv, UNCHANGED vars PROVE KnowInv'
  <2> USE <1>2 DEF vars, objects, world, history
  <2>1. LifeInv'
    BY StepLifeInv DEF KnowInv
  <2>2. Pending' = Pending /\ Leavers' = Leavers /\ Elems(Pending)' = Elems(Pending)
    BY DEF Pending, BatchOf, Leavers, Elems
  <2>3. ConnectedOpen'
    BY DEF KnowInv, ConnectedOpen
  <2>4. PendingInv => PendingInv'
    BY <2>2 DEF PendingInv, OneBatch, Paired, Once
  <2>5. FreshKnowNobody => FreshKnowNobody'
    BY <2>2 DEF FreshKnowNobody, Fresh
  <2>6. MembersKnow => MembersKnow'
    BY <2>2 DEF MembersKnow, Expected, Told
  <2> QED BY <2>1, <2>3, <2>4, <2>5, <2>6 DEF KnowInv
<1> QED BY <1>1, <1>2

-----------------------------------------------------------------------------
(* Every variable of the model keeps its type, for any number of threads and connections. *)
THEOREM TypeCorrect == Safety => []TypeOK
<1>1. TypeInv => TypeOK
  BY DEF TypeInv
<1> QED BY <1>1, AlwaysTypeInv, PTL

(***************************************************************************)
(* What is open under a number belongs to the session that the registry    *)
(* has for it, or to the one that is just being registered: a descriptor   *)
(* is never forgotten by a service that goes on using its number.          *)
(***************************************************************************)
THEOREM NoLeak == Safety => []NoSocketForgotten
<1>1. LifeInv => NoSocketForgotten
  BY DEF LifeInv
<1> QED BY <1>1, AlwaysLifeInv, PTL

(***************************************************************************)
(* A registered session has its connection, unless it was accepted while   *)
(* an older session of its number was alive: the second close of a number, *)
(* in ~Session, takes nobody else's connection.                            *)
(***************************************************************************)
THEOREM OpenWhileRegistered == Safety => []RegisteredIsOpen
<1>1. LifeInv => RegisteredIsOpen
  BY DEF LifeInv
<1> QED BY <1>1, AlwaysLifeInv, PTL

(***************************************************************************)
(* The registry and the table of descriptors agree.                        *)
(***************************************************************************)
THEOREM RegistryMatches == Safety => []RegistryMatchesSockets
BY NoLeak, OpenWhileRegistered, PTL DEF RegistryMatchesSockets

(***************************************************************************)
(* The counter of sessions is never too low, and too high by no more than  *)
(* the number of sessions that were accepted early and are gone from the   *)
(* registry: only the entry of such a session is ever overwritten.         *)
(***************************************************************************)
THEOREM CountDrift == Safety => []CountDriftsOnlyEarly
<1>1. LifeInv => CountDriftsOnlyEarly
  BY DEF LifeInv, CountInv
<1> QED BY <1>1, AlwaysLifeInv, PTL

(***************************************************************************)
(* A member of the room is registered or leaves, unless its number was     *)
(* given out early or its DelSession overtook its AddSession.              *)
(***************************************************************************)
THEOREM MembersAccounted == Safety => []MembersAccountedFor
<1>1. LifeInv => MembersAccountedFor
  BY AccountedMembers DEF LifeInv, TypeInv
<1> QED BY <1>1, AlwaysLifeInv, PTL

(***************************************************************************)
(* DelSession erases by number, and still takes no registered member out   *)
(* of the room, unless its number was given out early.                     *)
(***************************************************************************)
THEOREM MembersStayInRoom == Safety => MembersStay
<1> DEFINE Stay ==
      \A n \in Fds : members[n] # Nobody /\ members[n] = registry[n] /\ members[n] \notin early
        => members'[n] = members[n]
<1>1. LifeInv /\ [Next]_vars => [Stay]_vars
  <2>1. ASSUME LifeInv, Next PROVE Stay
    BY <2>1, NextIsStep, StayStep DEF LifeInv
  <2> QED BY <2>1
<1> QED BY <1>1, AlwaysLifeInv, PTL DEF Safety, MembersStay

(***************************************************************************)
(* When no job is left, a player knows exactly the others in the room, as  *)
(* long as the jobs of the room were run by one thread at a time: nobody   *)
(* who came is missing, and nobody who left is still shown.                *)
(***************************************************************************)
THEOREM PlayersKnow == Safety => []PlayersKnowEachOther
<1>1. Safety => []KnowInv
  BY InitKnowInv, StepKnowInv, PTL DEF Safety
<1>2. KnowInv => PlayersKnowEachOther
  <2> SUFFICES ASSUME KnowInv, Quiet, ~overlapped,
                      NEW s \in connected \ early, members[fd[s]] = s
               PROVE  shown[s] = {n \in Fds \ {fd[s]} : members[n] # Nobody}
    BY DEF PlayersKnowEachOther
  <2>1. Pending \in Seq(Jobs) /\ Elems(Pending) \subseteq {}
    BY PendingType DEF KnowInv, LifeInv, TypeInv, Quiet
  <2>2. Pending = <<>>
    BY <2>1, ElemsType
  <2>3. Told(Pending, Leavers) = {}
    BY <2>2 DEF Told, Leavers, Quiet
  <2> QED BY <2>3 DEF KnowInv, MembersKnow, Expected
<1> QED BY <1>1, <1>2, PTL

=============================================================================
