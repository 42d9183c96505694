---------------------------- MODULE Connections ----------------------------
(***************************************************************************)
(* The life of a session.  It is known by the number of its descriptor: to *)
(* the kernel, to the registry of the service, to the room and to the      *)
(* other players.  ReleaseSession closes the number at once; the session   *)
(* itself lives on as long as the room or a job refers to it, and its      *)
(* destructor closes the number a second time.  In between accept may have *)
(* given the number to somebody else.                                      *)
(*                                                                         *)
(* One thread at a time dispatches, while every thread runs the jobs of    *)
(* the room in batches of its own.  What happens when two threads get      *)
(* through the gate is the business of Dispatch.  A job is one step.       *)
(***************************************************************************)
EXTENDS Integers, Sequences, FiniteSets

CONSTANTS
  Threads,
  Fds,           \* the numbers that accept can give out
  MaxSessions    \* bound: how many connections there will be

ASSUME FdsAssumption == Fds \subseteq Nat \ {0}
ASSUME SessionsAssumption == MaxSessions \in Nat

Sessions == 1..MaxSessions     \* in the order in which they are accepted
Nobody == 0

VARIABLES
  pc,
  session,       \* the local of ReadClient and Register, or Nobody
  events,        \* the numbers epoll_wait reported and that are still to be read
  socket,        \* kernel: whose connection is open under a number
  fd,            \* _socketFd
  registry,      \* _sessionMap of the service
  sessionCount,  \* _sessionCount of the service
  members,       \* _sessionMap of the room
  connected,     \* the sessions whose _connected is set
  alive,         \* the sessions that have not been destroyed
  q, jobs,       \* the jobs that wait, and the batch of each thread
  (* What the other side knows: *)
  loaded,        \* the sessions whose client has sent its load packet
  shown,         \* shown[s]: the players the client of s was told of, and not told they left
  (* History: *)
  early,         \* accepted while an older session of the same number was alive
  overtaken,     \* removed from the room before the job that adds them was run
  overlapped     \* have two threads had jobs at the same time?

world   == <<loaded, shown>>
history == <<early, overtaken, overlapped>>
objects == <<fd, registry, sessionCount, members, connected>>
vars == <<pc, session, events, socket, objects, alive, q, jobs, world, history>>

Goto(t, from, to) == pc[t] = from /\ pc' = [pc EXCEPT ![t] = to]

Elems(s) == {s[i] : i \in 1..Len(s)}

\* The job of the message that somebody leaves carries a buffer and a number, no session.
Job(op, s) == [op |-> op, session |-> s]
Waiting == Elems(q) \union UNION {Elems(jobs[t]) : t \in Threads}
HeldBesides(map) ==
  {map[n] : n \in Fds} \union {members[n] : n \in Fds} \union {session[t] : t \in Threads}
    \union {j.session : j \in {k \in Waiting : k.op # "BroadcastAnother"}}

\* Mutant: the registry does not own its sessions.
HeldWithoutRegistry == HeldBesides(members)

Held == HeldBesides(registry)

(***************************************************************************)
(* The sessions that lose their last reference are destroyed, and each of  *)
(* them closes its number, whoever has it now.                             *)
(***************************************************************************)
Destroy(created, table) ==
  LET dying == (alive \union created) \ Held' IN
  /\ alive' = (alive \union created) \ dying
  /\ socket' = [n \in Fds |-> IF \E s \in dying : fd[s] = n THEN Nobody ELSE table[n]]

Keep == UNCHANGED <<alive, socket>>

-----------------------------------------------------------------------------
Init ==
  /\ pc = [t \in Threads |-> "idle"]
  /\ session = [t \in Threads |-> Nobody]
  /\ events = {}
  /\ socket = [n \in Fds |-> Nobody]
  /\ fd = [s \in Sessions |-> 0]
  /\ registry = [n \in Fds |-> Nobody]
  /\ sessionCount = 0
  /\ members = [n \in Fds |-> Nobody]
  /\ connected = {}
  /\ alive = {}
  /\ q = <<>>
  /\ jobs = [t \in Threads |-> <<>>]
  /\ loaded = {}
  /\ shown = [s \in Sessions |-> {}]
  /\ early = {}
  /\ overtaken = {}
  /\ overlapped = FALSE

-----------------------------------------------------------------------------
(***************************************************************************)
(* Dispatch.  The loop over the events ends when it will; an event that is *)
(* not read says nothing of interest here.                                 *)
(***************************************************************************)
Reading == \E u \in Threads : pc[u] \in {"event", "register", "release", "end"}

EventCount(t) ==
  /\ ~Reading
  /\ Goto(t, "idle", "event")
  /\ events' \in SUBSET {n \in Fds : socket[n] # Nobody}
  /\ UNCHANGED <<session, objects, q, jobs, world, history>>
  /\ Keep

NotReading(t) ==
  /\ Reading
  /\ Goto(t, "idle", "run")
  /\ UNCHANGED <<session, events, objects, q, jobs, world, history>>
  /\ Keep

OffReading(t) ==
  /\ Goto(t, "event", "run")
  /\ events' = {}
  /\ UNCHANGED <<session, objects, q, jobs, world, history>>
  /\ Keep

\* The kernel gives out the lowest number that is free.
Accept(t) ==
  \E n \in Fds, s \in Sessions :
    /\ socket[n] = Nobody /\ \A m \in Fds : socket[m] = Nobody => n <= m
    /\ fd[s] = 0 /\ \A r \in Sessions : fd[r] = 0 => s <= r
    /\ Goto(t, "event", "register")
    /\ session' = [session EXCEPT ![t] = s]
    /\ socket' = [socket EXCEPT ![n] = s]
    /\ fd' = [fd EXCEPT ![s] = n]
    /\ early' = early \union {r \in {s} : \E older \in alive : fd[older] = n}
    /\ UNCHANGED <<events, registry, sessionCount, members, connected, alive, q, jobs, world,
                   overtaken, overlapped>>

\* epoll_ctl refuses a number that was closed meanwhile.  AddSession counts each session, also
\* one whose number the registry still has for another.
Register(t) ==
  LET s == session[t]
      created == {r \in {s} : socket[fd[s]] = s}
  IN
  /\ Goto(t, "register", "event")
  /\ session' = [session EXCEPT ![t] = Nobody]
  /\ registry' = [n \in Fds |-> IF n = fd[s] /\ s \in created THEN s ELSE registry[n]]
  /\ sessionCount' = sessionCount + Cardinality(created)
  /\ connected' = connected \union created
  /\ UNCHANGED <<events, fd, members, q, jobs, world, history>>
  /\ Destroy(created, socket)

\* HandlePacket, case 1: the client loads.  It does so once.
Load(t) ==
  \E n \in events :
    /\ registry[n] # Nobody /\ socket[n] = registry[n] /\ registry[n] \notin loaded
    /\ Goto(t, "event", "event")
    /\ loaded' = loaded \union {registry[n]}
    /\ q' = Append(q, Job("AddSession", registry[n]))
    /\ UNCHANGED <<session, events, objects, jobs, shown, history>>
    /\ Keep

(***************************************************************************)
(* A read fails: Disconnect, ReleaseSession and ReleaseSessionMesssage,    *)
(* whose two jobs are pushed one after the other.                          *)
(***************************************************************************)
ReleaseCounted(t, released) ==
  \E n \in events :
    /\ registry[n] # Nobody
    /\ Goto(t, "event", "release")
    /\ session' = [session EXCEPT ![t] = registry[n]]
    /\ events' = events \ {n}
    /\ connected' = connected \ {registry[n]}
    /\ registry' = [registry EXCEPT ![n] = Nobody]
    /\ sessionCount' = sessionCount - released
    /\ socket' = [socket EXCEPT ![n] = Nobody]
    /\ q' = Append(q, Job("BroadcastAnother", registry[n]))
    /\ UNCHANGED <<fd, members, alive, jobs, world, history>>

\* Mutant: the sessions that leave are not counted.
ReleaseUncounted(t) == ReleaseCounted(t, 0)

ReleaseSession(t) == ReleaseCounted(t, 1)

PushLast(t, queue) ==
  /\ Goto(t, "release", "end")
  /\ q' = queue
  /\ UNCHANGED <<session, events, objects, jobs, world, history>>
  /\ Keep

\* Mutant: the members are only told.
PushNothing(t) == PushLast(t, q)

PushDelSession(t) == PushLast(t, Append(q, Job("DelSession", session[t])))

EndWith(t, s) ==
  /\ Goto(t, "end", "event")
  /\ session' = [session EXCEPT ![t] = s]
  /\ UNCHANGED <<events, objects, q, jobs, world, history>>
  /\ Destroy({}, socket)

\* Mutant: the session is kept where the thread looks next time.
EndReadKept(t) == EndWith(t, session[t])

\* The local of ReadClient goes out of scope.
EndRead(t) == EndWith(t, Nobody)

-----------------------------------------------------------------------------
(***************************************************************************)
(* The room.  A message to a session goes to whoever has its number now;   *)
(* Send refuses when the session is disconnected.                          *)
(***************************************************************************)
Execute(t) ==
  /\ Goto(t, "run", IF q = <<>> THEN "idle" ELSE "execute")
  /\ jobs' = [jobs EXCEPT ![t] = q]
  /\ q' = <<>>
  /\ overlapped' = (overlapped \/ (q # <<>> /\ \E u \in Threads \ {t} : jobs[u] # <<>>))
  /\ UNCHANGED <<session, events, objects, world, early, overtaken>>
  /\ Keep

Reached(x, S) == \E s \in S \intersect connected : socket[fd[s]] = x

\* The member under number n hears of the others, and all others of number n.
Show(s, others) ==
  shown' = [x \in Sessions |->
     shown[x] \union {fd[s] : o \in {p \in {s} : Reached(x, others)}}
              \union {fd[o] : o \in {p \in others : Reached(x, {s})}}]

Others(n) == {members[m] : m \in Fds \ {n}} \ {Nobody}

AddAndShow(s, others) ==
  /\ members' = [members EXCEPT ![fd[s]] = s]
  /\ Show(s, others)
  /\ UNCHANGED overtaken

\* Mutant: the loop over the map leaves out its first entry.
AddSessionButFirst(s) ==
  AddAndShow(s, {members[m] : m \in {k \in Fds \ {fd[s]} : \E l \in Fds : l < k}} \ {Nobody})

AddSession(s) == AddAndShow(s, Others(fd[s]))

BroadcastAnother(s) ==
  /\ shown' = [x \in Sessions |-> IF Reached(x, Others(fd[s])) THEN shown[x] \ {fd[s]} ELSE shown[x]]
  /\ UNCHANGED <<members, overtaken>>

Erase(s, fds) ==
  /\ members' = [n \in Fds |-> IF n \in fds THEN Nobody ELSE members[n]]
  /\ overtaken' = overtaken \union {r \in {s} : Job("AddSession", s) \in Waiting}
  /\ UNCHANGED shown

\* Mutant: everything from the entry to the end of the map is erased.
DelSessionToEnd(s) == Erase(s, {n \in Fds : n >= fd[s]})

DelSession(s) == Erase(s, {fd[s]})

RunJob(t) ==
  LET j == Head(jobs[t]) IN
  /\ Goto(t, "execute", IF Len(jobs[t]) = 1 THEN "idle" ELSE "execute")
  /\ jobs' = [jobs EXCEPT ![t] = Tail(@)]
  /\ \/ j.op = "AddSession" /\ AddSession(j.session)
     \/ j.op = "BroadcastAnother" /\ BroadcastAnother(j.session)
     \/ j.op = "DelSession" /\ DelSession(j.session)
  /\ UNCHANGED <<session, events, fd, registry, sessionCount, connected, q, loaded, early, overlapped>>
  /\ Destroy({}, socket)

-----------------------------------------------------------------------------
Client(t) == Accept(t) \/ Load(t) \/ ReleaseSession(t)

RunTask(t) ==
  \/ EventCount(t) \/ NotReading(t) \/ OffReading(t)
  \/ Register(t) \/ PushDelSession(t) \/ EndRead(t)
  \/ Execute(t) \/ RunJob(t)

Next == \E t \in Threads : Client(t) \/ RunTask(t)

(***************************************************************************)
(* The main loop goes on by itself; what clients cause has no fairness.    *)
(***************************************************************************)
Fairness == \A t \in Threads : WF_vars(RunTask(t))
Safety == Init /\ [][Next]_vars
Spec == Safety /\ Fairness

-----------------------------------------------------------------------------
Ops == {"AddSession", "BroadcastAnother", "DelSession"}

TypeOK ==
  /\ pc \in [Threads -> {"idle", "event", "register", "release", "end", "run", "execute"}]
  /\ session \in [Threads -> Sessions \union {Nobody}]
  /\ events \subseteq Fds
  /\ socket \in [Fds -> Sessions \union {Nobody}]
  /\ fd \in [Sessions -> Fds \union {0}]
  /\ registry \in [Fds -> Sessions \union {Nobody}]
  /\ sessionCount \in Int
  /\ members \in [Fds -> Sessions \union {Nobody}]
  /\ connected \subseteq Sessions
  /\ alive \subseteq Sessions
  /\ q \in Seq([op : Ops, session : Sessions])
  /\ jobs \in [Threads -> Seq([op : Ops, session : Sessions])]
  /\ loaded \subseteq Sessions
  /\ shown \in [Sessions -> SUBSET Fds]
  /\ early \subseteq Sessions
  /\ overtaken \subseteq Sessions
  /\ overlapped \in BOOLEAN

(***************************************************************************)
(* No descriptor leaks, however numbers are reused: what is open under a   *)
(* number belongs to the session that the registry has for it, or to the   *)
(* one that is just being registered.                                      *)
(***************************************************************************)
NoSocketForgotten ==
  \A n \in Fds : socket[n] # Nobody =>
    \/ registry[n] = socket[n]
    \/ \E t \in Threads : pc[t] = "register" /\ session[t] = socket[n]

(***************************************************************************)
(* The close of ~Session hits a stranger only in one way: a registered     *)
(* session still has its connection unless it was accepted while an older  *)
(* session of its number was alive.                                        *)
(***************************************************************************)
RegisteredIsOpen ==
  \A n \in Fds : registry[n] # Nobody /\ registry[n] \notin early => socket[n] = registry[n]

(***************************************************************************)
(* Together: the registry and the table of descriptors agree, whoever      *)
(* accepts, releases and destroys at the same time.                        *)
(***************************************************************************)
RegistryMatchesSockets == NoSocketForgotten /\ RegisteredIsOpen

(***************************************************************************)
(* The counter of sessions runs ahead of the registry when an entry is     *)
(* overwritten: it is never too low, and too high by no more than one for  *)
(* each session that was accepted early and is no longer in the registry.  *)
(* In particular it is right as long as no number was given out early.     *)
(***************************************************************************)
InRegistry == {registry[n] : n \in Fds} \ {Nobody}
Registering == {session[t] : t \in {u \in Threads : pc[u] = "register"}}
EarlyGone == (early \ InRegistry) \ Registering

CountDriftsOnlyEarly ==
  /\ Cardinality(InRegistry) <= sessionCount
  /\ sessionCount <= Cardinality(InRegistry) + Cardinality(EarlyGone)

(***************************************************************************)
(* A member of the room is registered, or its DelSession is still to come; *)
(* unless its DelSession overtook its AddSession in another batch, which   *)
(* leaves it there for good, or its number was given out early.            *)
(***************************************************************************)
Leaving(s) ==
  \/ Job("DelSession", s) \in Waiting
  \/ \E t \in Threads : pc[t] = "release" /\ session[t] = s

MembersAccountedFor ==
  \A n \in Fds :
    LET s == members[n] IN
    s # Nobody /\ s \notin early \union overtaken => registry[n] = s \/ Leaving(s)

(***************************************************************************)
(* DelSession erases by number, but nobody else's: a registered member     *)
(* stays in the room, unless its number was given out early.               *)
(***************************************************************************)
MembersStay ==
  [][\A n \in Fds : members[n] # Nobody /\ members[n] = registry[n] /\ members[n] \notin early
        => members'[n] = members[n]]_vars

(***************************************************************************)
(* When no job is left, a player knows exactly the others in the room:     *)
(* those it was sent when it loaded and those that were announced, without *)
(* those that were said to leave.  This needs the jobs of the room to have *)
(* been run by one thread at a time.                                       *)
(***************************************************************************)
Quiet == Waiting = {} /\ \A t \in Threads : pc[t] \notin {"release"}

PlayersKnowEachOther ==
  Quiet /\ ~overlapped =>
    \A s \in connected \ early :
      members[fd[s]] = s => shown[s] = {n \in Fds \ {fd[s]} : members[n] # Nobody}

(***************************************************************************)
(* A session that was released is destroyed in the end, and its number is  *)
(* free of it, unless its jobs overtook each other.                        *)
(***************************************************************************)
ReleasedIsDestroyed ==
  \A s \in Sessions : s \in alive \ connected ~> s \notin alive \/ s \in overtaken

=============================================================================
