--------------------------- MODULE ReceiveProofs ---------------------------
(***************************************************************************)
(* What is proved of the way in: the dispatch loop (Dispatch), for any     *)
(* number of threads and clients, although the gate lets several threads   *)
(* in at a time, and the receive path of one session (RecvPath), for any   *)
(* buffer, any packets and any way to cut the stream.                      *)
(*                                                                         *)
(* That sessions and descriptors go together rests on who is busy with a   *)
(* connection: while it is being registered one thread alone has it, since *)
(* accept hands it out once; and a thread reads or releases only what was  *)
(* in the map, when nobody registers it any more.                          *)
(***************************************************************************)
EXTENDS Dispatch, RecvPath, FiniteSetTheorems, SequenceTheorems, TLAPS

USE ListenerAssumption, ClientsAssumption

Step(t) == RunRoom(t) \/ Dispatch(t)

(***************************************************************************)
(* The gate.                                                               *)
(***************************************************************************)
GateInv == pc \in [Threads -> Places] /\ GateHasOwner

LEMMA GateStep ==
  ASSUME GateInv, NEW t \in Threads, Step(t)
  PROVE  GateInv'
<1> USE DEF GateInv, GateHasOwner, Places, Inside, Goto, EventDone, service, kernel, locals
<1>1. CASE RunRoom(t)
  BY <1>1 DEF RunRoom
<1>2. CASE LoadReading(t)
  BY <1>2 DEF LoadReading
<1>3. CASE TestReading(t)
  BY <1>3 DEF TestReading
<1>4. CASE CheckReading(t)
  BY <1>4 DEF CheckReading
<1>5. CASE EventCount(t) \/ NextEvent(t)
  BY <1>5 DEF EventCount, TakeEvents, NextEvent
<1>6. CASE OffReading(t)
  BY <1>6 DEF OffReading, LeaveGate
<1>7. CASE Accept(t) \/ NoMoreToAccept(t) \/ AcceptFails(t) \/ SetNonBlockFails(t)
  BY <1>7 DEF Accept, NoMoreToAccept, AcceptFails, LeaveAccept, SetNonBlockFails
<1>8. CASE Register(t) \/ RegisterFails(t) \/ AddSession(t)
  BY <1>8 DEF Register, RegisterFails, AddSession, AddAnd
<1>9. CASE GetSession(t)
  BY <1>9 DEF GetSession
<1>10. CASE ReceiveData(t) \/ ReceivePartial(t) \/ ReceiveFails(t)
  BY <1>10 DEF ReceiveData, ReceiveAndLeaveIf, ReceivePartial, ReceiveFails, FailAnd
<1>11. CASE ReleaseSession(t)
  BY <1>11 DEF ReleaseSession, ReleaseLeaving
<1> QED
  BY <1>1, <1>2, <1>3, <1>4, <1>5, <1>6, <1>7, <1>8, <1>9, <1>10, <1>11 DEF Step, Dispatch

(***************************************************************************)
(* Whatever gets through the gate, it is never left shut.                  *)
(***************************************************************************)
THEOREM GateOwned == Safety => []GateHasOwner
<1>1. Init => GateInv
  BY DEF Init, GateInv, GateHasOwner, Places
<1>2. GateInv /\ [Next]_vars => GateInv'
  <2> SUFFICES ASSUME GateInv, [Next]_vars PROVE GateInv'
    OBVIOUS
  <2>1. ASSUME NEW c \in Clients, Client(c) PROVE GateInv'
    BY <2>1 DEF Client, Connect, SendData, PeerClose, GateInv, GateHasOwner, service
  <2>2. CASE UNCHANGED vars
    BY <2>2 DEF vars, service, GateInv, GateHasOwner
  <2> QED
    BY <2>1, <2>2, GateStep DEF Next, Step
<1>3. GateInv => GateHasOwner
  BY DEF GateInv
<1> QED
  BY <1>1, <1>2, <1>3, PTL DEF Safety

-----------------------------------------------------------------------------
(***************************************************************************)
(* Sessions and descriptors.                                               *)
(***************************************************************************)
Nets == {"new", "backlog", "accepted", "open", "closed", "refused", "leaked"}

Types ==
  /\ sessionMap \in [Clients -> {"none", "null", "session"}]
  /\ pc \in [Threads -> Places]
  /\ fd \in [Threads -> Fds]
  /\ net \in [Clients -> Nets]

Registers(t) == pc[t] \in {"register", "add"}
Handles(t)   == pc[t] \in {"register", "add", "recv", "release"}

Handling ==
  \A t \in Threads :
    /\ Handles(t) => fd[t] \in Clients
    /\ pc[t] = "register" => net[fd[t]] = "accepted"
    /\ pc[t] = "add" => net[fd[t]] = "open" /\ sessionMap[fd[t]] # "session"
    /\ pc[t] \in {"recv", "release"} => net[fd[t]] \in {"open", "closed"}
    /\ Registers(t) => \A u \in Threads \ {t} : Handles(u) => fd[u] # fd[t]

SessionInv == Types /\ Handling /\ SessionsMatchDescriptors

LEMMA SessionStep ==
  ASSUME SessionInv, NEW t \in Threads, Step(t)
  PROVE  SessionInv'
<1> USE DEF SessionInv, Types, Handling, SessionsMatchDescriptors, Registers, Handles,
            Places, Inside, Fds, Nets, Nobody, Goto, EventDone, service, kernel, locals
<1>1. CASE RunRoom(t)
  BY <1>1 DEF RunRoom
<1>2. CASE LoadReading(t) \/ TestReading(t) \/ CheckReading(t)
  BY <1>2 DEF LoadReading, TestReading, CheckReading
<1>3. CASE EventCount(t) \/ NextEvent(t)
  BY <1>3 DEF EventCount, TakeEvents, NextEvent
<1>4. CASE OffReading(t)
  BY <1>4 DEF OffReading, LeaveGate
<1>5. CASE Accept(t)
  BY <1>5 DEF Accept
<1>6. CASE NoMoreToAccept(t) \/ AcceptFails(t)
  BY <1>6 DEF NoMoreToAccept, AcceptFails, LeaveAccept
<1>7. CASE Register(t)
  BY <1>7 DEF Register
<1>8. CASE RegisterFails(t)
  BY <1>8 DEF RegisterFails
<1>9. CASE AddSession(t)
  BY <1>9 DEF AddSession, AddAnd
<1>10. CASE GetSession(t)
  BY <1>10 DEF GetSession
<1>11. CASE ReceiveData(t) \/ ReceivePartial(t)
  BY <1>11 DEF ReceiveData, ReceiveAndLeaveIf, ReceivePartial
<1>14. CASE SetNonBlockFails(t)
  BY <1>14 DEF SetNonBlockFails
<1>12. CASE ReceiveFails(t)
  BY <1>12 DEF ReceiveFails, FailAnd
<1>13. CASE ReleaseSession(t)
  BY <1>13 DEF ReleaseSession, ReleaseLeaving
<1> QED
  BY <1>1, <1>2, <1>3, <1>4, <1>5, <1>6, <1>7, <1>8, <1>9, <1>10, <1>11, <1>12, <1>13, <1>14
     DEF Step, Dispatch

LEMMA ClientStep ==
  ASSUME SessionInv, NEW c \in Clients, Client(c)
  PROVE  SessionInv'
<1> USE DEF SessionInv, Types, Handling, SessionsMatchDescriptors, Registers, Handles,
            Nets, service, locals
<1>1. CASE Connect(c)
  BY <1>1 DEF Connect
<1>2. CASE SendData(c) \/ PeerClose(c)
  BY <1>2 DEF SendData, PeerClose
<1> QED
  BY <1>1, <1>2 DEF Client

LEMMA SessionInit == Init => SessionInv
BY DEF Init, SessionInv, Types, Handling, SessionsMatchDescriptors, Registers, Handles,
       Places, Fds, Nets, Nobody

LEMMA SessionKept == SessionInv /\ [Next]_vars => SessionInv'
<1> SUFFICES ASSUME SessionInv, [Next]_vars PROVE SessionInv'
  OBVIOUS
<1>1. CASE UNCHANGED vars
  BY <1>1 DEF vars, service, locals, kernel, SessionInv, Types, Handling,
              SessionsMatchDescriptors, Registers, Handles
<1> QED
  BY <1>1, SessionStep, ClientStep DEF Next, Step

(***************************************************************************)
(* A session in the map has an open descriptor, and no accepted connection *)
(* is forgotten.                                                           *)
(***************************************************************************)
THEOREM SessionsMatch == Safety => []SessionsMatchDescriptors
<1>1. Init => SessionInv
  BY SessionInit
<1>2. SessionInv /\ [Next]_vars => SessionInv'
  BY SessionKept
<1>3. SessionInv => SessionsMatchDescriptors
  BY DEF SessionInv
<1> QED
  BY <1>1, <1>2, <1>3, PTL DEF Safety

-----------------------------------------------------------------------------
(***************************************************************************)
(* With one thread, what is read or released is a session that is in the   *)
(* map; a second thread could have taken it out.                           *)
(***************************************************************************)
OneThread == \A t, u \in Threads : t = u

ReadsSession ==
  \A t \in Threads : pc[t] \in {"recv", "release"} =>
    fd[t] \in Clients /\ sessionMap[fd[t]] = "session"

LEMMA ReadStep ==
  ASSUME OneThread, SessionInv, ReadsSession, NEW t \in Threads, Step(t)
  PROVE  ReadsSession'
<1> USE DEF OneThread, SessionInv, Types, Handling, Handles, Places, Inside, Fds, Nobody, Goto, EventDone,
            ReadsSession
<1>1. CASE RunRoom(t) \/ LoadReading(t) \/ TestReading(t) \/ CheckReading(t)
  BY <1>1 DEF RunRoom, LoadReading, TestReading, CheckReading, service, kernel, locals
<1>2. CASE EventCount(t) \/ NextEvent(t) \/ OffReading(t)
  BY <1>2 DEF EventCount, TakeEvents, NextEvent, OffReading, LeaveGate, service, kernel, locals
<1>3. CASE Accept(t) \/ NoMoreToAccept(t) \/ AcceptFails(t) \/ SetNonBlockFails(t)
  BY <1>3 DEF Accept, NoMoreToAccept, AcceptFails, LeaveAccept, SetNonBlockFails, service
<1>4. CASE Register(t) \/ RegisterFails(t)
  BY <1>4 DEF Register, RegisterFails, service, locals
<1>5. CASE AddSession(t)
  BY <1>5 DEF AddSession, AddAnd
<1>6. CASE GetSession(t)
  BY <1>6 DEF GetSession
<1>7. CASE ReceiveData(t) \/ ReceivePartial(t) \/ ReceiveFails(t)
  BY <1>7 DEF ReceiveData, ReceiveAndLeaveIf, ReceivePartial, ReceiveFails, FailAnd, service, kernel, locals
<1>8. CASE ReleaseSession(t)
  BY <1>8 DEF ReleaseSession, ReleaseLeaving
<1> QED
  BY <1>1, <1>2, <1>3, <1>4, <1>5, <1>6, <1>7, <1>8 DEF Step, Dispatch

LEMMA ReadKept ==
  ASSUME SessionInv, OneThread => ReadsSession, [Next]_vars
  PROVE  OneThread => ReadsSession'
<1> SUFFICES ASSUME OneThread PROVE ReadsSession'
  OBVIOUS
<1>1. ASSUME NEW c \in Clients, Client(c) PROVE ReadsSession'
  BY <1>1 DEF Client, Connect, SendData, PeerClose, service, locals, ReadsSession
<1>2. CASE UNCHANGED vars
  BY <1>2 DEF vars, service, locals, ReadsSession
<1> QED
  BY <1>1, <1>2, ReadStep DEF Next, Step

-----------------------------------------------------------------------------
(***************************************************************************)
(* The events that epoll_wait reports: as many as fit the array, and none  *)
(* of them twice.                                                          *)
(***************************************************************************)
LEMMA FdsFinite ==
  /\ IsFiniteSet(Fds) /\ Cardinality(Fds) \in Nat
  /\ \A S : S \subseteq Fds =>
       IsFiniteSet(S) /\ Cardinality(S) \in Nat /\ Cardinality(S) <= Cardinality(Fds)
<1>1. IsFiniteSet(Fds)
  BY FS_AddElement DEF Fds
<1>2. Cardinality(Fds) \in Nat
  BY <1>1, FS_CardinalityType
<1>3. ASSUME NEW S, S \subseteq Fds
      PROVE  IsFiniteSet(S) /\ Cardinality(S) \in Nat /\ Cardinality(S) <= Cardinality(Fds)
  BY <1>1, <1>3, FS_Subset, FS_CardinalityType
<1> QED BY <1>1, <1>2, <1>3

LEMMA EventsTaken ==
  ASSUME ready \subseteq Fds,
         NEW events \in SetToSeqs({f \in ready : Readable(f)})
  PROVE  /\ Len(events) \in 0..Cardinality(Fds)
         /\ DOMAIN events = 1..Len(events)
         /\ \A i \in 1..Len(events) : events[i] \in ready /\ Readable(events[i])
         /\ \A i, j \in 1..Len(events) : i # j => events[i] # events[j]
<1> DEFINE S == {f \in ready : Readable(f)}
           n == Cardinality(S)
<1>1. n \in Nat /\ n <= Cardinality(Fds)
  BY FdsFinite
<1>2. events \in [1..n -> S] /\ \A i, j \in 1..n : i # j => events[i] # events[j]
  BY DEF SetToSeqs
<1>3. \A f \in S : f \in ready /\ Readable(f)
  OBVIOUS
<1> HIDE DEF S, n
<1>4. events \in Seq(S) /\ Len(events) = n /\ DOMAIN events = 1..n
  BY <1>1, <1>2
<1> QED BY <1>1, <1>2, <1>3, <1>4, FdsFinite

(***************************************************************************)
(* While a thread goes through the events, its index is within them.       *)
(***************************************************************************)
InEvents == {"accept", "register", "add", "get", "recv", "release"}

InBounds == \A t \in Threads : pc[t] \in InEvents => idx[t] <= eventCount[t]

TypeInv == TypeOK /\ InBounds

LEMMA TypeStep ==
  ASSUME TypeInv, Handling, NEW t \in Threads, Step(t)
  PROVE  TypeInv'
<1>0. Cardinality(Fds) \in Nat
  BY FdsFinite
<1> USE DEF TypeInv, TypeOK, InBounds, InEvents, Places, Inside, Nobody, Goto, EventDone,
            service, kernel, locals
<1>f. Listener \in Fds /\ Clients \subseteq Fds
  BY DEF Fds
<1>d. ASSUME NEW from \in InEvents, EventDone(t, from), eventCount' = eventCount
      PROVE  /\ pc' \in [Threads -> Places] /\ fd' \in [Threads -> Fds]
             /\ idx' \in [Threads -> 1..(Cardinality(Fds) + 1)]
             /\ InBounds'
  BY <1>0, <1>f, <1>d
<1>1. CASE RunRoom(t)
  BY <1>1 DEF RunRoom
<1>2. CASE LoadReading(t) \/ TestReading(t) \/ CheckReading(t)
  <2>1. CASE LoadReading(t)
    BY <2>1 DEF LoadReading
  <2>2. CASE TestReading(t)
    BY <2>2 DEF TestReading
  <2>3. CASE CheckReading(t)
    BY <2>3 DEF CheckReading
  <2> QED BY <1>2, <2>1, <2>2, <2>3
<1>3. CASE EventCount(t)
  <2>1. PICK events \in SetToSeqs({f \in ready : Readable(f)}) :
          /\ epollEvents' = [i \in Slots |-> IF i \in DOMAIN events THEN events[i] ELSE epollEvents[i]]
          /\ eventCount' = [eventCount EXCEPT ![t] = Len(events)]
    BY <1>3 DEF EventCount, TakeEvents
  <2>2. /\ Len(events) \in 0..Cardinality(Fds) /\ DOMAIN events = 1..Len(events)
        /\ \A i \in 1..Len(events) : events[i] \in Fds
    BY EventsTaken
  <2>3. epollEvents' \in [Slots -> Fds] /\ eventCount' \in [Threads -> 0..Cardinality(Fds)]
    BY <2>1, <2>2
  <2>4. /\ pc' = [pc EXCEPT ![t] = "event"] /\ idx' = [idx EXCEPT ![t] = 1] /\ ready' = {}
        /\ UNCHANGED <<reading, sessionMap, crashed, full, errno, isReading, fd,
                       net, unread, peerClosed, cut>>
    BY <1>3 DEF EventCount, TakeEvents
  <2>5. InBounds'
    BY <2>1, <2>4
  <2> QED BY <1>0, <2>3, <2>4, <2>5
<1>4. CASE NextEvent(t) \/ OffReading(t)
  BY <1>4 DEF NextEvent, OffReading, LeaveGate
<1>5. CASE Accept(t)
  BY <1>0, <1>5, <1>f DEF Accept
<1>c. ASSUME NEW f \in Fds, NEW rest, LeaveRest(f, rest)
      PROVE  cut' \subseteq Fds
  BY <1>c DEF LeaveRest
<1>13. CASE NoMoreToAccept(t) \/ AcceptFails(t)
  <2>1. PICK because \in {"EAGAIN", "other"} : LeaveAccept(t, because)
    BY <1>13 DEF NoMoreToAccept, AcceptFails
  <2>2. /\ EventDone(t, "accept") /\ errno' = [errno EXCEPT ![t] = because] /\ cut' \subseteq Fds
        /\ UNCHANGED <<service, isReading, eventCount, net, unread, peerClosed, ready>>
    BY <1>c, <1>f, <2>1 DEF LeaveAccept
  <2> HIDE DEF EventDone, InBounds
  <2> QED BY <1>d, <2>2
<1>14. CASE SetNonBlockFails(t)
  <2>1. /\ pc[t] = "register" /\ pc' = [pc EXCEPT ![t] = "accept"]
        /\ net' = [net EXCEPT ![fd[t]] = "leaked"] /\ fd' = [fd EXCEPT ![t] = Listener]
        /\ errno' = [errno EXCEPT ![t] = "other"]
        /\ UNCHANGED <<service, isReading, eventCount, idx, unread, peerClosed, ready, cut>>
    BY <1>14 DEF SetNonBlockFails
  <2>2. InBounds'
    BY <2>1
  <2> HIDE DEF InBounds
  <2> QED BY <1>f, <2>1, <2>2
<1>6. CASE Register(t)
  <2>1. fd[t] \in Fds
    OBVIOUS
  <2>2. ready' \subseteq Fds /\ cut' \subseteq Fds
    BY <1>6, <2>1 DEF Register, EdgeIf, Edge
  <2> QED BY <1>6, <1>f, <2>2 DEF Register
<1>7. CASE RegisterFails(t)
  <2>1. /\ EventDone(t, "register")
        /\ net' = [net EXCEPT ![fd[t]] = "refused"] /\ errno' = [errno EXCEPT ![t] = "other"]
        /\ cut' \subseteq Fds
        /\ UNCHANGED <<service, isReading, eventCount, unread, peerClosed, ready>>
    BY <1>7, <1>c, <1>f DEF RegisterFails
  <2> HIDE DEF EventDone, InBounds
  <2> QED BY <1>d, <2>1
<1>8. CASE AddSession(t)
  <2>1. /\ pc[t] = "add" /\ pc' = [pc EXCEPT ![t] = "accept"]
        /\ fd' = [fd EXCEPT ![t] = Listener] /\ UNCHANGED <<idx, eventCount>>
        /\ sessionMap' = [sessionMap EXCEPT ![fd[t]] = "session"]
        /\ UNCHANGED <<reading, epollEvents, crashed, full, kernel, errno, isReading>>
    BY <1>8 DEF AddSession, AddAnd
  <2>2. InBounds'
    BY <2>1
  <2>3. sessionMap' \in [Clients -> {"none", "null", "session"}]
    BY <2>1
  <2>5. pc' \in [Threads -> Places] /\ fd' \in [Threads -> Fds]
    BY <1>f, <2>1
  <2> HIDE DEF InBounds
  <2> QED BY <2>1, <2>2, <2>3, <2>5
<1>9. CASE GetSession(t)
  BY <1>0, <1>9, <1>f DEF GetSession
<1>k. ASSUME NEW c \in Clients, Take(c)
      PROVE  unread' \in [Clients -> 0..MaxUnread]
  <2>1. PICK n \in 1..unread[c] : unread' = [unread EXCEPT ![c] = @ - n]
    BY <1>k DEF Take
  <2>2. unread[c] \in 0..MaxUnread /\ unread[c] - n \in 0..MaxUnread
    BY <2>1, UnreadAssumption
  <2> QED BY <2>1, <2>2
<1>10. CASE ReceiveData(t)
  <2>1. /\ pc[t] = "recv" /\ fd[t] \in Clients /\ fd[t] \in Fds
        /\ full' \subseteq Clients
        /\ UNCHANGED <<reading, sessionMap, epollEvents, crashed, errno, net, peerClosed, ready,
                       isReading, eventCount>>
    BY <1>10 DEF ReceiveData, ReceiveAndLeaveIf, Handling, Handles
  <2>2. unread' \in [Clients -> 0..MaxUnread]
    BY <1>10, <1>k, <2>1 DEF ReceiveData, ReceiveAndLeaveIf
  <2>3. CASE errno[t] = "EAGAIN"
    <3>1. EventDone(t, "recv") /\ cut' \subseteq Fds
      BY <1>10, <1>c, <2>1, <2>3 DEF ReceiveData, ReceiveAndLeaveIf
    <3> HIDE DEF EventDone, InBounds
    <3> QED BY <1>d, <2>1, <2>2, <3>1
  <2>4. CASE errno[t] # "EAGAIN"
    <3>1. UNCHANGED <<pc, idx, fd, cut>>
      BY <1>10, <2>4 DEF ReceiveData, ReceiveAndLeaveIf
    <3> QED BY <2>1, <2>2, <3>1
  <2> QED BY <2>3, <2>4
<1>15. CASE ReceivePartial(t)
  <2>1. /\ pc[t] = "recv" /\ pc' = [pc EXCEPT ![t] = "release"] /\ fd[t] \in Clients
        /\ UNCHANGED <<service, locals, errno, net, peerClosed, ready, cut>>
    BY <1>15 DEF ReceivePartial, Handling, Handles
  <2>2. unread' \in [Clients -> 0..MaxUnread]
    BY <1>15, <1>k, <2>1 DEF ReceivePartial
  <2>3. InBounds'
    BY <2>1
  <2> HIDE DEF InBounds
  <2> QED BY <2>1, <2>2, <2>3
<1>11. CASE ReceiveFails(t)
  <2>1. errno' \in [Threads -> {"EAGAIN", "other"}]
    BY <1>11 DEF ReceiveFails, FailAnd
  <2> QED BY <1>0, <1>11, <1>f, <2>1 DEF ReceiveFails, FailAnd
<1>12. CASE ReleaseSession(t)
  <2>1. /\ EventDone(t, "release")
        /\ UNCHANGED <<reading, epollEvents, unread, peerClosed, isReading, eventCount>>
    BY <1>12 DEF ReleaseSession, ReleaseLeaving
  <2>2. /\ crashed' \in BOOLEAN /\ full' \subseteq Clients /\ ready' \subseteq Fds /\ cut' \subseteq Fds
        /\ sessionMap' \in [Clients -> {"none", "null", "session"}]
        /\ net' \in [Clients -> Nets]
        /\ errno' \in [Threads -> {"EAGAIN", "other"}]
    <3> USE DEF Nets
    <3>1. CASE sessionMap[fd[t]] = "none"
      BY <1>12, <3>1 DEF ReleaseSession, ReleaseLeaving
    <3>2. CASE sessionMap[fd[t]] # "none"
      <4>1. /\ sessionMap' = [sessionMap EXCEPT ![fd[t]] = "none"]
            /\ full' = full \ {fd[t]}
            /\ net' = [net EXCEPT ![fd[t]] = "closed"]
            /\ ready' = ready \ {fd[t]} /\ cut' = cut \ {fd[t]}
            /\ errno' = [errno EXCEPT ![t] = "other"]
            /\ UNCHANGED crashed
        BY <1>12, <3>2 DEF ReleaseSession, ReleaseLeaving
      <4>3. /\ net' \in [Clients -> Nets]
            /\ sessionMap' \in [Clients -> {"none", "null", "session"}]
        BY <4>1
      <4> QED BY <4>1, <4>3
    <3> QED BY <3>1, <3>2
  <2> HIDE DEF EventDone, InBounds
  <2> QED BY <1>d, <2>1, <2>2 DEF Nets
<1> QED
  BY <1>1, <1>2, <1>3, <1>4, <1>5, <1>6, <1>7, <1>8, <1>9, <1>10, <1>11, <1>12, <1>13, <1>14, <1>15
     DEF Step, Dispatch

LEMMA TypeKept == TypeInv /\ SessionInv /\ [Next]_vars => TypeInv'
<1> SUFFICES ASSUME TypeInv, SessionInv, [Next]_vars PROVE TypeInv'
  OBVIOUS
<1>1. ASSUME NEW c \in Clients, Client(c) PROVE TypeInv'
  <2>1. UNCHANGED <<service, locals, pc, errno>>
    BY <1>1 DEF Client, Connect, SendData, PeerClose
  <2>2. ready' \subseteq ready \union {c, Listener} /\ cut' \subseteq cut
    BY <1>1 DEF Client, Connect, SendData, PeerClose, EdgeIfOpen, EdgeIf, Edge
  <2>3. net' \in [Clients -> Nets]
    BY <1>1 DEF Client, Connect, SendData, PeerClose, TypeInv, TypeOK, Nets
  <2>4. unread' \in [Clients -> 0..MaxUnread]
    <3>1. unread \in [Clients -> 0..MaxUnread] /\ 0 \in 0..MaxUnread
      BY UnreadAssumption DEF TypeInv, TypeOK
    <3>2. CASE Connect(c)
      BY <3>1, <3>2 DEF Connect
    <3>3. CASE SendData(c)
      <4>1. unread[c] < MaxUnread => unread[c] + 1 \in 0..MaxUnread
        BY <3>1, UnreadAssumption
      <4> QED BY <3>1, <3>3, <4>1 DEF SendData
    <3>4. CASE PeerClose(c)
      BY <3>1, <3>4 DEF PeerClose
    <3> QED BY <1>1, <3>2, <3>3, <3>4 DEF Client
  <2>5. peerClosed' \in [Clients -> BOOLEAN]
    BY <1>1 DEF Client, Connect, SendData, PeerClose, TypeInv, TypeOK
  <2> QED BY <2>1, <2>2, <2>3, <2>4, <2>5 DEF TypeInv, TypeOK, InBounds, Fds, Nets, service, locals
<1>2. CASE UNCHANGED vars
  BY <1>2 DEF vars, service, locals, kernel, TypeInv, TypeOK, InBounds
<1>3. ASSUME NEW t \in Threads, RunRoom(t) \/ Dispatch(t) PROVE TypeInv'
  BY <1>3, TypeStep DEF SessionInv, Step
<1> QED BY <1>1, <1>2, <1>3 DEF Next

LEMMA TypeInvariant == Safety => [](TypeInv /\ SessionInv)
<1>1. Init => TypeInv
  <2>1. Cardinality(Fds) \in Nat /\ Listener \in Fds
    BY FdsFinite DEF Fds
  <2> SUFFICES ASSUME Init PROVE TypeInv
    OBVIOUS
  <2>2. InBounds
    BY DEF Init, InBounds, InEvents
  <2>3. TypeOK
    <3>1. /\ epollEvents \in [Slots -> Fds] /\ fd \in [Threads -> Fds] /\ ready \subseteq Fds /\ cut \subseteq Fds
          /\ eventCount \in [Threads -> 0..Cardinality(Fds)]
          /\ idx \in [Threads -> 1..(Cardinality(Fds) + 1)]
      BY <2>1 DEF Init, Nobody
    <3>2. /\ reading \in BOOLEAN /\ crashed \in BOOLEAN /\ isReading \in [Threads -> BOOLEAN]
          /\ peerClosed \in [Clients -> BOOLEAN]
      BY DEF Init
    <3>3. /\ sessionMap \in [Clients -> {"none", "null", "session"}] /\ full \subseteq Clients
          /\ errno \in [Threads -> {"EAGAIN", "other"}]
      BY DEF Init
    <3>4. /\ net \in [Clients -> Nets]
          /\ pc \in [Threads -> Places]
      BY DEF Init, Places, Nets
    <3>5. unread \in [Clients -> 0..MaxUnread]
      <4>1. 0 \in 0..MaxUnread
        BY UnreadAssumption
      <4> QED BY <4>1 DEF Init
    <3> QED BY <3>1, <3>2, <3>3, <3>4, <3>5 DEF TypeOK, Nets
  <2> QED BY <2>2, <2>3 DEF TypeInv
<1>2. Init => SessionInv
  BY SessionInit
<1> QED BY <1>1, <1>2, TypeKept, SessionKept, PTL DEF Safety

(***************************************************************************)
(* The array of events is never written or read past its end, whatever     *)
(* clients and the second thread do.                                       *)
(***************************************************************************)
THEOREM TypeCorrect == Safety => []TypeOK
<1>1. TypeInv /\ SessionInv => TypeOK
  BY DEF TypeInv
<1> QED BY <1>1, TypeInvariant, PTL

-----------------------------------------------------------------------------
(***************************************************************************)
(* A connection that is dropped although its client is there.  With one    *)
(* thread, every client in the events that are still to be looked at has   *)
(* something to read: it had when epoll reported it, nobody else reads it, *)
(* and no descriptor is reported twice.  Only then does a thread come to   *)
(* recv with an errno of EAGAIN, and a read that succeeds leaves with it.  *)
(***************************************************************************)
HasData(c) == unread[c] > 0 \/ peerClosed[c]

Events(t) == 1..eventCount[t]

AllDifferent == \A t \in Threads : pc[t] \in InEvents \union {"event"} =>
  \A i, j \in Events(t) : i # j => epollEvents[i] # epollEvents[j]

Reported == \A t \in Threads : pc[t] \in InEvents \union {"event"} =>
  \A i \in Events(t) : epollEvents[i] \in Clients =>
    /\ net[epollEvents[i]] \in {"open", "closed"}
    /\ \/ HasData(epollEvents[i])
       \/ i < idx[t]
       \/ i = idx[t] /\ pc[t] \in {"recv", "release"}

AtHand == \A t \in Threads :
  /\ pc[t] = "get" => epollEvents[idx[t]] \in Clients
  /\ pc[t] \in {"recv", "release"} => fd[t] = epollEvents[idx[t]]

NoneStale == \A t \in Threads : pc[t] = "recv" /\ errno[t] = "EAGAIN" => HasData(fd[t])

DropInv == AllDifferent /\ Reported /\ AtHand /\ NoneStale

AllInv == TypeInv /\ SessionInv /\ ReadsSession /\ DropInv

LEMMA DropStep ==
  ASSUME OneThread, AllInv, NEW t \in Threads, Step(t)
  PROVE  DropInv'
<1> USE DEF InEvents, Events, HasData, Goto, EventDone
<1>u. Threads = {t}
  BY DEF OneThread
<1>t. /\ idx \in [Threads -> Nat \ {0}] /\ eventCount \in [Threads -> Nat] /\ pc \in [Threads -> Places]
      /\ fd \in [Threads -> Fds] /\ errno \in [Threads -> {"EAGAIN", "other"}]
      /\ unread \in [Clients -> 0..MaxUnread] /\ peerClosed \in [Clients -> BOOLEAN]
  BY FdsFinite DEF AllInv, TypeInv, TypeOK
<1>n. net \in [Clients -> Nets]
  BY DEF AllInv, TypeInv, TypeOK, Nets
<1>i. DropInv
  BY DEF AllInv
<1>b. pc[t] \in InEvents => idx[t] <= eventCount[t]
  BY DEF AllInv, TypeInv, InBounds
<1>1. CASE RunRoom(t) \/ LoadReading(t) \/ TestReading(t) \/ CheckReading(t) \/ OffReading(t)
  BY <1>u, <1>t, <1>1 DEF RunRoom, LoadReading, TestReading, CheckReading, OffReading, LeaveGate,
     DropInv, AllDifferent, Reported, AtHand, NoneStale
<1>2. CASE EventCount(t)
  <2>1. PICK events \in SetToSeqs({f \in ready : Readable(f)}) :
          /\ epollEvents' = [i \in Slots |-> IF i \in DOMAIN events THEN events[i] ELSE epollEvents[i]]
          /\ eventCount' = [eventCount EXCEPT ![t] = Len(events)]
    BY <1>2 DEF EventCount, TakeEvents
  <2>2. /\ Len(events) \in 0..Cardinality(Fds) /\ DOMAIN events = 1..Len(events)
        /\ \A i \in 1..Len(events) : events[i] \in ready /\ Readable(events[i])
        /\ \A i, j \in 1..Len(events) : i # j => events[i] # events[j]
    BY EventsTaken DEF AllInv, TypeInv, TypeOK
  <2>3. /\ pc'[t] = "event" /\ eventCount'[t] = Len(events)
        /\ UNCHANGED <<net, unread, peerClosed>>
    BY <1>t, <1>2, <2>1 DEF EventCount, TakeEvents
  <2>4. \A i \in 1..Len(events) : epollEvents'[i] = events[i]
    BY <2>1, <2>2, FdsFinite DEF Slots
  <2>5. AllDifferent'
    <3>1. \A i, j \in 1..Len(events) : i # j => epollEvents'[i] # epollEvents'[j]
      BY <2>2, <2>4
    <3> QED BY <1>u, <2>3, <3>1 DEF AllDifferent
  <2>6. \A i \in 1..Len(events) : epollEvents'[i] \in Clients =>
            /\ net'[epollEvents'[i]] = "open"
            /\ unread'[epollEvents'[i]] > 0 \/ peerClosed'[epollEvents'[i]]
    <3> TAKE i \in 1..Len(events)
    <3> HAVE epollEvents'[i] \in Clients
    <3>1. Readable(events[i]) /\ events[i] = epollEvents'[i] /\ events[i] # Listener
      BY <2>2, <2>4
    <3> QED BY <2>3, <3>1 DEF Readable
  <2>7. Reported'
    BY <1>u, <2>3, <2>6 DEF Reported
  <2>8. AtHand' /\ NoneStale'
    BY <1>u, <2>3 DEF AtHand, NoneStale
  <2> QED BY <2>5, <2>7, <2>8 DEF DropInv
<1>3. CASE NextEvent(t)
  <2>1. idx[t] \in Events(t)
    BY <1>t, <1>3 DEF NextEvent
  <2>2. /\ pc[t] = "event" /\ pc'[t] = IF epollEvents[idx[t]] = Listener THEN "accept" ELSE "get"
        /\ UNCHANGED <<epollEvents, net, unread, peerClosed, errno, eventCount, idx, fd>>
    BY <1>t, <1>3 DEF NextEvent, service, kernel, locals
  <2>3. epollEvents[idx[t]] \in Clients \union {Listener}
    <3>1. Cardinality(Fds) \in Nat /\ eventCount[t] \in 0..Cardinality(Fds)
      BY FdsFinite DEF AllInv, TypeInv, TypeOK
    <3>2. idx[t] \in Slots
      BY <1>t, <2>1, <3>1 DEF Slots
    <3>3. epollEvents[idx[t]] \in Fds
      BY <3>2 DEF AllInv, TypeInv, TypeOK
    <3> QED BY <3>3 DEF Fds
  <2>4. AllDifferent'
    BY <1>u, <1>i, <2>2 DEF DropInv, AllDifferent
  <2>5. Reported'
    BY <1>u, <1>i, <2>2 DEF DropInv, Reported
  <2>6. AtHand' /\ NoneStale'
    BY <1>u, <2>2, <2>3 DEF AtHand, NoneStale
  <2> QED BY <2>4, <2>5, <2>6 DEF DropInv
<1>m. ASSUME pc[t] \in InEvents, UNCHANGED <<epollEvents, eventCount, peerClosed>>,
             \A c \in Clients : net[c] \in {"open", "closed"} => net'[c] \in {"open", "closed"},
             idx'[t] \in {idx[t], idx[t] + 1},
             pc[t] \in {"recv", "release"} => idx'[t] = idx[t] + 1 \/ pc'[t] \in {"recv", "release"},
             \A c \in Clients : \/ unread'[c] = unread[c]
                                \/ c = epollEvents[idx[t]] /\ pc[t] = "recv"
      PROVE  AllDifferent' /\ Reported'
  <2>1. AllDifferent'
    BY <1>u, <1>i, <1>m DEF DropInv, AllDifferent
  <2>2. ASSUME NEW i \in Events(t), epollEvents[i] \in Clients
        PROVE  /\ net'[epollEvents[i]] \in {"open", "closed"}
               /\ \/ HasData(epollEvents[i])'
                  \/ i < idx'[t]
                  \/ i = idx'[t] /\ pc'[t] \in {"recv", "release"}
    <3>1. /\ net[epollEvents[i]] \in {"open", "closed"}
          /\ \/ HasData(epollEvents[i])
             \/ i < idx[t]
             \/ i = idx[t] /\ pc[t] \in {"recv", "release"}
      BY <1>i, <1>m, <2>2 DEF DropInv, Reported
    <3>2. net'[epollEvents[i]] \in {"open", "closed"}
      BY <1>m, <2>2, <3>1
    <3>3. CASE i < idx[t]
      BY <1>t, <1>m, <3>2, <3>3
    <3>4. CASE i = idx[t] /\ pc[t] \in {"recv", "release"}
      BY <1>t, <1>m, <3>2, <3>4
    <3>5. CASE HasData(epollEvents[i]) /\ unread'[epollEvents[i]] = unread[epollEvents[i]]
      BY <1>m, <3>2, <3>5
    <3>6. CASE epollEvents[i] = epollEvents[idx[t]] /\ pc[t] = "recv"
      <4>1. idx[t] \in Events(t)
        BY <1>t, <1>b, <3>6
      <4>2. i = idx[t]
        BY <1>i, <1>m, <3>6, <4>1 DEF DropInv, AllDifferent
      <4> QED BY <3>4, <3>6, <4>2
    <3> QED BY <1>m, <2>2, <3>1, <3>2, <3>3, <3>4, <3>5, <3>6
  <2>3. Reported'
    BY <1>u, <1>m, <2>2 DEF Reported
  <2> QED BY <2>1, <2>3
<1>4. CASE Accept(t)
  <2>1. PICK c \in Clients : net[c] = "backlog" /\ net' = [net EXCEPT ![c] = "accepted"]
    BY <1>4 DEF Accept
  <2>2. /\ pc[t] = "accept" /\ pc'[t] = "register"
        /\ UNCHANGED <<epollEvents, eventCount, peerClosed, unread, idx, errno>>
    BY <1>t, <1>4 DEF Accept, service
  <2>3. \A d \in Clients : net[d] \in {"open", "closed"} => net'[d] \in {"open", "closed"}
    BY <1>n, <2>1
  <2>4. AllDifferent' /\ Reported'
    BY <1>m, <2>2, <2>3
  <2> QED BY <1>u, <2>2, <2>4 DEF DropInv, AtHand, NoneStale
<1>5. CASE NoMoreToAccept(t) \/ AcceptFails(t)
  <2>1. /\ pc[t] = "accept" /\ pc'[t] = "event" /\ idx'[t] = idx[t] + 1
        /\ UNCHANGED <<epollEvents, eventCount, net, peerClosed, unread>>
    BY <1>t, <1>5 DEF NoMoreToAccept, AcceptFails, LeaveAccept, service
  <2>2. AllDifferent' /\ Reported'
    BY <1>m, <2>1
  <2> QED BY <1>u, <2>1, <2>2 DEF DropInv, AtHand, NoneStale
<1>6. CASE Register(t) \/ RegisterFails(t) \/ SetNonBlockFails(t)
  <2>1. /\ pc[t] = "register" /\ net[fd[t]] = "accepted"
        /\ \A d \in Clients : d # fd[t] => net'[d] = net[d]
    BY <1>n, <1>6 DEF Register, RegisterFails, SetNonBlockFails, AllInv, SessionInv, Handling
  <2>2. /\ pc'[t] \in {"add", "event", "accept"} /\ idx'[t] \in {idx[t], idx[t] + 1}
        /\ UNCHANGED <<epollEvents, eventCount, peerClosed, unread>>
    BY <1>t, <1>6 DEF Register, RegisterFails, SetNonBlockFails, service, locals
  <2>3. \A d \in Clients : net[d] \in {"open", "closed"} => net'[d] \in {"open", "closed"}
    BY <2>1
  <2>4. AllDifferent' /\ Reported'
    BY <1>m, <2>1, <2>2, <2>3
  <2> QED BY <1>u, <2>2, <2>4 DEF DropInv, AtHand, NoneStale
<1>7. CASE AddSession(t)
  <2>1. /\ pc[t] = "add" /\ pc'[t] = "accept" /\ idx'[t] = idx[t]
        /\ UNCHANGED <<epollEvents, eventCount, net, peerClosed, unread>>
    BY <1>t, <1>7 DEF AddSession, AddAnd, kernel
  <2>2. AllDifferent' /\ Reported'
    BY <1>m, <2>1
  <2> QED BY <1>u, <2>1, <2>2 DEF DropInv, AtHand, NoneStale
<1>8. CASE GetSession(t)
  <2>1. /\ pc[t] = "get"
        /\ \/ pc'[t] = "recv" /\ idx'[t] = idx[t] /\ fd'[t] = epollEvents[idx[t]]
           \/ pc'[t] = "event" /\ idx'[t] = idx[t] + 1
        /\ UNCHANGED <<epollEvents, eventCount, net, peerClosed, unread>>
    BY <1>t, <1>8 DEF GetSession, kernel
  <2>2. AllDifferent' /\ Reported'
    BY <1>m, <2>1
  <2>3. HasData(epollEvents[idx[t]])
    <3>1. idx[t] \in Events(t) /\ epollEvents[idx[t]] \in Clients
      BY <1>t, <1>b, <1>i, <2>1 DEF DropInv, AtHand
    <3> QED BY <1>t, <1>i, <2>1, <3>1 DEF DropInv, Reported
  <2>4. AtHand' /\ NoneStale'
    BY <1>u, <2>1, <2>3 DEF AtHand, NoneStale
  <2> QED BY <2>2, <2>4 DEF DropInv
<1>9. CASE ReceiveData(t)
  <2>1. /\ pc[t] = "recv" /\ Take(fd[t])
        /\ UNCHANGED <<epollEvents, eventCount, net, peerClosed, errno>>
        /\ \/ errno[t] = "EAGAIN" /\ pc'[t] = "event" /\ idx'[t] = idx[t] + 1
           \/ errno[t] # "EAGAIN" /\ pc'[t] = "recv" /\ idx'[t] = idx[t] /\ fd'[t] = fd[t]
    BY <1>t, <1>9 DEF ReceiveData, ReceiveAndLeaveIf
  <2>2. fd[t] = epollEvents[idx[t]]
    BY <1>i, <2>1 DEF DropInv, AtHand
  <2>3. \A c \in Clients : unread'[c] = unread[c] \/ (c = epollEvents[idx[t]] /\ pc[t] = "recv")
    BY <1>t, <2>1, <2>2 DEF Take
  <2>4. AllDifferent' /\ Reported'
    BY <1>m, <2>1, <2>3
  <2>5. AtHand' /\ NoneStale'
    BY <1>u, <2>1, <2>2 DEF AtHand, NoneStale
  <2> QED BY <2>4, <2>5 DEF DropInv
<1>12. CASE ReceivePartial(t)
  <2>1. /\ pc[t] = "recv" /\ pc'[t] = "release" /\ Take(fd[t])
        /\ UNCHANGED <<epollEvents, eventCount, net, peerClosed, idx, fd>>
    BY <1>t, <1>12 DEF ReceivePartial, service, locals
  <2>2. fd[t] = epollEvents[idx[t]]
    BY <1>i, <2>1 DEF DropInv, AtHand
  <2>3. \A c \in Clients : unread'[c] = unread[c] \/ (c = epollEvents[idx[t]] /\ pc[t] = "recv")
    BY <1>t, <2>1, <2>2 DEF Take
  <2>4. AllDifferent' /\ Reported'
    BY <1>m, <2>1, <2>3
  <2>5. AtHand' /\ NoneStale'
    BY <1>u, <2>1, <2>2 DEF AtHand, NoneStale
  <2> QED BY <2>4, <2>5 DEF DropInv
<1>10. CASE ReceiveFails(t)
  <2>1. /\ pc[t] = "recv" /\ pc'[t] = "release"
        /\ UNCHANGED <<epollEvents, eventCount, net, peerClosed, unread, idx, fd>>
    BY <1>t, <1>10 DEF ReceiveFails, FailAnd, service, kernel
  <2>2. AllDifferent' /\ Reported'
    BY <1>m, <2>1
  <2>3. AtHand' /\ NoneStale'
    BY <1>u, <1>i, <2>1 DEF DropInv, AtHand, NoneStale
  <2> QED BY <2>2, <2>3 DEF DropInv
<1>11. CASE ReleaseSession(t)
  <2>1. /\ pc[t] = "release" /\ pc'[t] = "event" /\ idx'[t] = idx[t] + 1
        /\ UNCHANGED <<epollEvents, eventCount, peerClosed, unread>>
    BY <1>t, <1>11 DEF ReleaseSession, ReleaseLeaving
  <2>2. \A d \in Clients : net[d] \in {"open", "closed"} => net'[d] \in {"open", "closed"}
    BY <1>n, <1>11 DEF ReleaseSession, ReleaseLeaving
  <2>3. AllDifferent' /\ Reported'
    BY <1>m, <2>1, <2>2
  <2> QED BY <1>u, <2>1, <2>3 DEF DropInv, AtHand, NoneStale
<1> QED
  BY <1>1, <1>2, <1>3, <1>4, <1>5, <1>6, <1>7, <1>8, <1>9, <1>10, <1>11, <1>12 DEF Step, Dispatch

LEMMA DropClientStep ==
  ASSUME OneThread, AllInv, NEW c \in Clients, Client(c)
  PROVE  DropInv'
<1> USE DEF HasData
<1>t. /\ net \in [Clients -> Nets] /\ epollEvents \in [Slots -> Fds]
      /\ unread \in [Clients -> 0..MaxUnread] /\ peerClosed \in [Clients -> BOOLEAN]
  BY DEF AllInv, TypeInv, TypeOK, Nets
<1>1. UNCHANGED <<epollEvents, eventCount, idx, fd, pc, errno>>
  BY DEF Client, Connect, SendData, PeerClose, service, locals
<1>2. \A d \in Clients : net[d] \in {"open", "closed"} => net'[d] \in {"open", "closed"}
  BY <1>t DEF Client, Connect, SendData, PeerClose
<1>3. \A d \in Clients : HasData(d) => HasData(d)'
  BY <1>t DEF Client, Connect, SendData, PeerClose
<1>4. \A t \in Threads : pc[t] = "recv" => fd[t] \in Clients
  BY DEF AllInv, SessionInv, Handling, Handles
<1>5. DropInv
  BY DEF AllInv
<1> HIDE DEF HasData
<1>6. AllDifferent'
  BY <1>1, <1>5 DEF DropInv, AllDifferent, Events
<1>7. Reported'
  BY <1>1, <1>2, <1>3, <1>5 DEF DropInv, Reported, Events
<1>8. AtHand'
  BY <1>1, <1>5 DEF DropInv, AtHand
<1>9. NoneStale'
  BY <1>1, <1>3, <1>4, <1>5 DEF DropInv, NoneStale
<1> QED BY <1>6, <1>7, <1>8, <1>9 DEF DropInv

LEMMA DropKept ==
  TypeInv /\ SessionInv /\ (OneThread => ReadsSession /\ DropInv) /\ [Next]_vars =>
    (OneThread => DropInv')
<1> SUFFICES ASSUME TypeInv, SessionInv, ReadsSession, DropInv, [Next]_vars, OneThread PROVE DropInv'
  OBVIOUS
<1>1. AllInv
  BY DEF AllInv
<1>2. CASE UNCHANGED vars
  BY <1>2 DEF vars, service, locals, kernel, DropInv, AllDifferent, Reported, AtHand, NoneStale, Events, HasData
<1> QED BY <1>1, <1>2, DropStep, DropClientStep DEF Next, Step

LEMMA OneThreadKept ==
  TypeInv /\ SessionInv /\ (OneThread => ReadsSession /\ DropInv) /\ [Next]_vars =>
    (OneThread => ReadsSession' /\ DropInv')
BY ReadKept, DropKept

LEMMA Dropped ==
  ASSUME TypeInv, SessionInv, OneThread => ReadsSession /\ DropInv, [Next]_vars, OneThread,
         NEW t \in Threads, Drops(t), ~peerClosed[fd[t]]
  PROVE  unread'[fd[t]] < unread[fd[t]] \/ fd[t] \in full \/ errno[t] # "EAGAIN"
<1>1. ~\E c \in Clients : Client(c)
  BY DEF Client, Connect, SendData, PeerClose, Drops
<1>2. pc' # pc
  BY DEF Drops
<1>3. Step(t)
  BY <1>1, <1>2 DEF Next, Step, OneThread, vars
<1>4. ReceiveFails(t) \/ ReceivePartial(t)
  <2>1. pc[t] = "recv" /\ pc'[t] = "release" /\ pc \in [Threads -> Places]
    BY DEF Drops, TypeInv, TypeOK
  <2>2. ~(RunRoom(t) \/ LoadReading(t) \/ TestReading(t) \/ CheckReading(t) \/ OffReading(t))
    BY <2>1 DEF RunRoom, LoadReading, TestReading, CheckReading, OffReading, LeaveGate, Goto
  <2>3. ~(EventCount(t) \/ NextEvent(t))
    BY <2>1 DEF EventCount, TakeEvents, NextEvent, Goto
  <2>4. ~(Accept(t) \/ NoMoreToAccept(t) \/ AcceptFails(t) \/ SetNonBlockFails(t))
    BY <2>1 DEF Accept, NoMoreToAccept, AcceptFails, LeaveAccept, SetNonBlockFails, EventDone, Goto
  <2>5. ~(Register(t) \/ RegisterFails(t) \/ AddSession(t) \/ GetSession(t) \/ ReleaseSession(t))
    BY <2>1 DEF Register, RegisterFails, AddSession, AddAnd, GetSession, ReleaseSession, ReleaseLeaving,
       EventDone, Goto
  <2>6. ~ReceiveData(t)
    BY <2>1 DEF ReceiveData, ReceiveAndLeaveIf, EventDone, Goto
  <2> QED BY <1>3, <2>2, <2>3, <2>4, <2>5, <2>6 DEF Step, Dispatch
<1>5. fd[t] \in Clients /\ net[fd[t]] = "open"
  BY DEF Drops, ReadsSession, SessionInv, SessionsMatchDescriptors
<1>6. unread \in [Clients -> 0..MaxUnread] /\ unread[fd[t]] \in Nat
  BY <1>5, UnreadAssumption DEF TypeInv, TypeOK
<1>7. CASE ReceivePartial(t)
  <2>1. PICK n \in 1..unread[fd[t]] : unread' = [unread EXCEPT ![fd[t]] = @ - n]
    BY <1>7 DEF ReceivePartial, Take
  <2> QED BY <1>5, <1>6, <2>1
<1>8. CASE ReceiveFails(t)
  <2>1. unread[fd[t]] = 0 \/ fd[t] \in full
    BY <1>5, <1>6, <1>8 DEF ReceiveFails, FailAnd, CanTake
  <2> QED BY <2>1 DEF Drops, DropInv, NoneStale, HasData
<1> QED BY <1>4, <1>7, <1>8

LEMMA DropInvariant ==
  Safety => [](TypeInv /\ SessionInv /\ (OneThread => ReadsSession /\ DropInv))
<1>1. Init => (OneThread => ReadsSession /\ DropInv)
  <2> SUFFICES ASSUME Init PROVE ReadsSession /\ DropInv
    OBVIOUS
  <2>1. ReadsSession
    BY DEF Init, ReadsSession
  <2>2. DropInv
    BY DEF Init, DropInv, AllDifferent, Reported, AtHand, NoneStale, InEvents
  <2> QED BY <2>1, <2>2
<1>2. TypeInv /\ SessionInv /\ (OneThread => ReadsSession /\ DropInv) /\ [Next]_vars
        => (OneThread => ReadsSession /\ DropInv)'
  BY OneThreadKept DEF OneThread
<1> QED BY <1>1, <1>2, SessionInit, TypeInvariant, PTL DEF Safety

(***************************************************************************)
(* One thread drops a client that is still there only for a recv without a *)
(* whole packet, for a buffer without room, or because errno was not       *)
(* EAGAIN when it had read everything.                                     *)
(***************************************************************************)
THEOREM DropsHaveCause ==
  ASSUME OneThread
  PROVE  Safety => DropHasCause
<1>1. TypeInv /\ SessionInv /\ (OneThread => ReadsSession /\ DropInv) /\ [Next]_vars
        => [\A t \in Threads : Drops(t) /\ ~peerClosed[fd[t]] =>
              \/ unread'[fd[t]] < unread[fd[t]]
              \/ fd[t] \in full
              \/ errno[t] # "EAGAIN"]_vars
  BY Dropped
<1> QED BY <1>1, DropInvariant, PTL DEF Safety, DropHasCause

-----------------------------------------------------------------------------
(***************************************************************************)
(* The receive path of one session.                                        *)
(***************************************************************************)
USE SizeAssumption

LEMMA SizeOf ==
  ASSUME RecvTypeOK, NEW p \in Bytes
  PROVE  size[p] \in Int /\ (size[p] # Unknown => size[p] \in Nat)
<1>1. size[p] \in Sizes \union {Unknown}
  BY DEF RecvTypeOK
<1>2. CASE size[p] = Unknown
  <2>1. size[p] = -1
    BY <1>2 DEF Unknown
  <2>2. -1 \in Int
    OBVIOUS
  <2> QED BY <1>2, <2>1, <2>2
<1>3. CASE size[p] \in Sizes
  <2>1. size[p] \in Nat
    BY <1>3, Zenon DEF SizeAssumption
  <2> QED BY <2>1
<1> QED BY <1>1, <1>2, <1>3

LEMMA BytesOfSize ==
  ASSUME NEW n \in Nat
  PROVE  /\ BytesOf(n) \in Nat /\ BytesOf(n) >= 1 /\ BytesOf(n) >= n /\ BytesOf(n) >= HeaderSize
         /\ n >= HeaderSize => BytesOf(n) = n
BY DEF BytesOf

LEMMA CapacityType == Capacity \in Nat
BY DEF Capacity

LEMMA EndPlusOne ==
  ASSUME NEW first \in Nat, NEW length \in Nat, NEW last, last = first + length - 1
  PROVE  last \in Int /\ last + 1 = first + length
OBVIOUS

(***************************************************************************)
(* The cursors, and which byte of the stream is where.  A loop that errno  *)
(* will end has something to read.                                         *)
(***************************************************************************)
CursorInv ==
  /\ readPos <= writePos /\ DataSize <= taken /\ useLen <= DataSize
  /\ stage \in {"idle", "recv"} => useLen = 0
  /\ ~connected => stage = "idle"
  /\ stage = "recv" /\ again => arrived > taken \/ clientClosed
  /\ \A i \in readPos..(writePos - 1) : buffer[i] = taken - (writePos - 1 - i)

(***************************************************************************)
(* The stream is made of packets, one behind the other.                    *)
(***************************************************************************)
StreamInv ==
  /\ sent > 0 => 1 \in packets
  /\ \A p \in packets :
       /\ size[p] # Unknown
       /\ p + BytesOf(size[p]) <= sent + 1
       /\ p + BytesOf(size[p]) <= sent => p + BytesOf(size[p]) \in packets

(***************************************************************************)
(* What was handled, and that what was taken is what was handled and what  *)
(* is still in the buffer.                                                 *)
(***************************************************************************)
HandledInv ==
  /\ PacketsAsSent
  /\ connected => taken - DataSize + useLen = HandledEnd

\* OnRecv stopped since there is no whole packet left.
EndInv == stage = "read" => ~WholePacket

RecvInv == RecvTypeOK /\ CursorInv /\ StreamInv /\ HandledInv /\ EndInv

(***************************************************************************)
(* The byte that OnRecv looks at is the one behind what was handled.       *)
(***************************************************************************)
LEMMA HeaderIs ==
  ASSUME RecvTypeOK, CursorInv, HeaderThere
  PROVE  Header = taken - DataSize + useLen + 1 /\ Header \in 1..taken /\ Header \in Bytes
<1>1. readPos + useLen \in readPos..(writePos - 1)
  BY DEF RecvTypeOK, CursorInv, DataSize, HeaderThere
<1>2. Header = taken - (writePos - 1 - (readPos + useLen))
  BY <1>1 DEF CursorInv, Header
<1>3. Header = taken - DataSize + useLen + 1 /\ Header \in 1..taken
  BY <1>1, <1>2 DEF RecvTypeOK, CursorInv, DataSize, HeaderThere
<1> HIDE DEF Header
<1> QED BY <1>3 DEF RecvTypeOK, Bytes

LEMMA HandledPacket ==
  ASSUME RecvTypeOK, PacketsAsSent, NEW i \in 1..Len(handled)
  PROVE  /\ handled[i] \in Bytes /\ handled[i] \in Nat /\ handled[i] >= 1 /\ handled[i] <= taken
         /\ size[handled[i]] \in Nat /\ size[handled[i]] # Unknown
         /\ handled[i] + size[handled[i]] <= taken + 1
<1>1. handled[i] \in Bytes
  BY ElementOfSeq DEF RecvTypeOK
<1>2. size[handled[i]] # Unknown /\ handled[i] + BytesOf(size[handled[i]]) <= taken + 1
  BY DEF PacketsAsSent
<1>3. size[handled[i]] \in Nat
  BY <1>1, <1>2, SizeOf
<1>4. BytesOf(size[handled[i]]) \in Nat /\ BytesOf(size[handled[i]]) >= 1 /\ BytesOf(size[handled[i]]) >= size[handled[i]]
  BY <1>3, BytesOfSize
<1>5. taken \in Nat
  BY DEF RecvTypeOK
<1> QED BY <1>1, <1>2, <1>3, <1>4, <1>5 DEF Bytes

LEMMA LastHandled ==
  ASSUME RecvTypeOK, handled # <<>>
  PROVE  /\ Len(handled) \in 1..Len(handled)
         /\ HandledEnd = handled[Len(handled)] + size[handled[Len(handled)]] - 1
<1>1. Len(handled) \in 1..Len(handled)
  BY EmptySeq, LenProperties DEF RecvTypeOK
<1> QED BY <1>1 DEF HandledEnd

LEMMA HeaderPacket ==
  ASSUME RecvInv, stage = "packets", HeaderThere
  PROVE  /\ Header = HandledEnd + 1 /\ Header \in Bytes /\ Header \in 1..taken
         /\ HandledEnd \in Nat
<1>1. connected
  BY DEF RecvInv, CursorInv
<1>2. Header = taken - DataSize + useLen + 1 /\ Header \in 1..taken /\ Header \in Bytes
  BY HeaderIs DEF RecvInv
<1>3. taken - DataSize + useLen = HandledEnd
  BY <1>1 DEF RecvInv, HandledInv
<1>4. taken - DataSize + useLen \in Int
  BY DEF RecvInv, RecvTypeOK, DataSize
<1> HIDE DEF Header, HandledEnd, DataSize
<1> QED BY <1>2, <1>3, <1>4

(***************************************************************************)
(* The header behind what was handled begins a packet, if none before it   *)
(* says that it is smaller than its header.                                *)
(***************************************************************************)
LEMMA SoundHeader ==
  ASSUME RecvInv, NEW p \in Bytes, p = HandledEnd + 1, p <= sent, Sound(p)
  PROVE  p \in packets
<1>1. CASE handled = <<>>
  BY <1>1 DEF HandledEnd, RecvInv, StreamInv, RecvTypeOK, Bytes
<1>2. CASE handled # <<>>
  <2> DEFINE last == handled[Len(handled)]
             n == size[last]
  <2>1. Len(handled) \in 1..Len(handled) /\ HandledEnd = last + n - 1
    BY <1>2, LastHandled DEF RecvInv
  <2>2. last \in Nat /\ n \in Nat /\ last \in Bytes
    BY <2>1, HandledPacket DEF RecvInv, HandledInv
  <2>3. Sound(last) => last \in packets
    BY <2>1 DEF RecvInv, HandledInv, PacketsAsSent
  <2> HIDE DEF last
  <2>4. p = last + n
    BY <2>1, <2>2, EndPlusOne
  <2>5. p \in Nat /\ last <= p
    BY <2>2, <2>4
  <2>6. \A q \in packets : q \in Nat
    BY DEF RecvInv, RecvTypeOK, Bytes
  <2>7. \A q \in packets : q <= last => q <= p
    BY <2>2, <2>5, <2>6
  <2>8. last \in packets
    BY <2>3, <2>7 DEF Sound
  <2>9. n >= HeaderSize
    BY <2>5, <2>8 DEF Sound
  <2>10. BytesOf(n) = n
    BY <2>2, <2>9, BytesOfSize
  <2> QED BY <2>4, <2>8, <2>10 DEF RecvInv, StreamInv
<1> QED BY <1>1, <1>2

-----------------------------------------------------------------------------
(***************************************************************************)
(* A header that becomes known is none that was handled: what was handled  *)
(* and the sizes of the packets in it stay.                                *)
(***************************************************************************)
LEMMA SizesStay ==
  ASSUME RecvInv, NEW p \in Bytes, NEW n \in Sizes, size' = [size EXCEPT ![p] = n],
         UNCHANGED <<handled, taken>>,
         size[p] = Unknown \/ p > taken,
         \A q \in packets : q \in packets',
         \A q \in packets' : q \in packets \/ q > taken,
         p \in packets => p > taken
  PROVE  PacketsAsSent' /\ HandledEnd' = HandledEnd
<1>1. \A i \in 1..Len(handled) : handled[i] # p /\ size'[handled[i]] = size[handled[i]]
  <2> SUFFICES ASSUME NEW i \in 1..Len(handled)
               PROVE  handled[i] # p /\ size'[handled[i]] = size[handled[i]]
    OBVIOUS
  <2>1. handled[i] \in Bytes /\ handled[i] <= taken /\ size[handled[i]] # Unknown
    BY HandledPacket DEF RecvInv, HandledInv
  <2>2. handled[i] # p
    BY <2>1 DEF RecvInv, RecvTypeOK, Bytes
  <2> QED BY <2>1, <2>2 DEF RecvInv, RecvTypeOK
<1>2. HandledEnd' = HandledEnd
  <2>1. CASE handled = <<>>
    BY <2>1 DEF HandledEnd
  <2>2. CASE handled # <<>>
    BY <1>1, <2>2, LastHandled DEF HandledEnd, RecvInv
  <2> QED BY <2>1, <2>2
<1>3. PacketsAsSent'
  <2> SUFFICES ASSUME NEW i \in 1..Len(handled)
               PROVE  /\ size'[handled[i]] # Unknown
                      /\ handled[i] + BytesOf(size'[handled[i]]) <= taken + 1
                      /\ i > 1 => handled[i] = handled[i - 1] + size'[handled[i - 1]]
                      /\ Sound(handled[i])' => handled[i] \in packets'
    BY DEF PacketsAsSent, RecvInv, HandledInv
  <2>1. i > 1 => i - 1 \in 1..Len(handled)
    OBVIOUS
  <2>2. /\ size'[handled[i]] # Unknown
        /\ handled[i] + BytesOf(size'[handled[i]]) <= taken + 1
        /\ i > 1 => handled[i] = handled[i - 1] + size'[handled[i - 1]]
    BY <1>1, <2>1 DEF PacketsAsSent, RecvInv, HandledInv
  <2>3. ASSUME Sound(handled[i])' PROVE handled[i] \in packets'
    <3>1. handled[i] \in Nat /\ handled[i] <= taken /\ taken \in Nat
      BY HandledPacket DEF RecvInv, HandledInv, RecvTypeOK
    <3>2. ASSUME NEW q \in packets, q <= handled[i] PROVE size[q] >= HeaderSize
      <4>1. q \in packets' /\ size'[q] >= HeaderSize
        BY <2>3, <3>2 DEF Sound
      <4>2. q \in Bytes /\ q \in Nat
        BY DEF RecvInv, RecvTypeOK, Bytes
      <4>3. q # p
        BY <3>1, <3>2, <4>2
      <4> QED BY <4>1, <4>2, <4>3 DEF RecvInv, RecvTypeOK
    <3>3. handled[i] \in packets
      BY <3>2 DEF Sound, PacketsAsSent, RecvInv, HandledInv
    <3> QED BY <3>3
  <2> QED BY <2>2, <2>3
<1> QED BY <1>2, <1>3

(***************************************************************************)
(* The client and the network.                                             *)
(***************************************************************************)
LEMMA SendKept ==
  ASSUME RecvInv, NEW n \in Sizes, SendPacket(n)
  PROVE  RecvInv'
<1> USE DEF SendPacket, recvBuffer, session
<1> DEFINE b == BytesOf(n)
<1>1. n \in Nat /\ n # Unknown /\ b \in Nat /\ b >= 1
  BY BytesOfSize DEF Unknown
<1>t. /\ sent \in Nat /\ taken \in Nat /\ taken <= arrived /\ arrived <= sent /\ arrived \in Nat
      /\ packets \subseteq Bytes /\ size \in [Bytes -> Sizes \union {Unknown}]
      /\ sent + b <= MaxBytes /\ sent' = sent + b /\ packets' = packets \union {sent + 1}
  BY DEF RecvInv, RecvTypeOK
<1> HIDE DEF b
<1>9. sent + 1 \in Bytes /\ sent' \in 0..MaxBytes /\ sent' \in Nat
  BY <1>1, <1>t DEF Bytes
<1>2. size'[sent + 1] = n /\ \A p \in Bytes : p # sent + 1 => size'[p] = size[p]
  BY <1>t, <1>9
<1>p. \A p \in packets :
        /\ p \in Nat /\ p \in Bytes /\ p >= 1
        /\ size[p] # Unknown /\ size[p] \in Nat /\ BytesOf(size[p]) \in Nat /\ BytesOf(size[p]) >= 1
        /\ p + BytesOf(size[p]) <= sent + 1
        /\ p + BytesOf(size[p]) <= sent => p + BytesOf(size[p]) \in packets
  <2> SUFFICES ASSUME NEW p \in packets
               PROVE  /\ p \in Nat /\ p \in Bytes /\ p >= 1
                      /\ size[p] # Unknown /\ size[p] \in Nat /\ BytesOf(size[p]) \in Nat /\ BytesOf(size[p]) >= 1
                      /\ p + BytesOf(size[p]) <= sent + 1
                      /\ p + BytesOf(size[p]) <= sent => p + BytesOf(size[p]) \in packets
    OBVIOUS
  <2>1. p \in Bytes /\ p \in Nat /\ p >= 1
    BY <1>t DEF Bytes
  <2>2. /\ size[p] # Unknown /\ p + BytesOf(size[p]) <= sent + 1
        /\ p + BytesOf(size[p]) <= sent => p + BytesOf(size[p]) \in packets
    BY DEF RecvInv, StreamInv
  <2>3. size[p] \in Nat
    BY <2>1, <2>2, SizeOf DEF RecvInv
  <2> QED BY <2>1, <2>2, <2>3, BytesOfSize
<1>3. RecvTypeOK'
  <2>1. size' \in [Bytes -> Sizes \union {Unknown}] /\ packets' \subseteq Bytes
    BY <1>t, <1>9
  <2>2. arrived' \in 0..sent'
    BY <1>1, <1>t, <1>9
  <2> QED BY <1>9, <2>1, <2>2 DEF RecvInv, RecvTypeOK
<1>4. CursorInv'
  BY DEF RecvInv, CursorInv, DataSize
<1>5. StreamInv'
  <2>1. 1 \in packets'
    <3>1. CASE sent = 0
      BY <1>t, <3>1
    <3>2. CASE sent # 0
      BY <1>t, <3>2 DEF RecvInv, StreamInv
    <3> QED BY <3>1, <3>2
  <2>2. ASSUME NEW p \in packets'
        PROVE  /\ size'[p] # Unknown
               /\ p + BytesOf(size'[p]) <= sent' + 1
               /\ p + BytesOf(size'[p]) <= sent' => p + BytesOf(size'[p]) \in packets'
    <3>1. CASE p = sent + 1
      <4>1. size'[p] = n /\ BytesOf(size'[p]) = b
        BY <1>2, <3>1 DEF b
      <4> QED BY <1>1, <1>t, <3>1, <4>1
    <3>2. CASE p \in packets
      <4>1. p # sent + 1
        BY <1>p, <1>t, <3>2
      <4>2. size'[p] = size[p]
        BY <1>2, <1>p, <3>2, <4>1
      <4>3. p + BytesOf(size[p]) = sent + 1 \/ p + BytesOf(size[p]) <= sent
        BY <1>p, <1>t, <3>2
      <4>4. p + BytesOf(size[p]) <= sent' + 1
        BY <1>1, <1>p, <1>t, <3>2
      <4> QED BY <1>p, <1>t, <3>2, <4>2, <4>3, <4>4
    <3> QED BY <1>t, <3>1, <3>2
  <2> QED BY <2>1, <2>2 DEF StreamInv
<1>6. PacketsAsSent' /\ HandledEnd' = HandledEnd
  <2>1. sent + 1 > taken
    BY <1>t
  <2> QED BY <1>9, <1>t, <2>1, SizesStay
<1>7. HandledInv'
  BY <1>6 DEF RecvInv, HandledInv, DataSize
<1>8. EndInv'
  <2> SUFFICES ASSUME stage = "read", WholePacket' PROVE FALSE
    BY DEF EndInv
  <2>1. HeaderThere
    BY DEF WholePacket, HeaderThere, DataSize
  <2>2. Header' = Header /\ Header \in 1..taken /\ Header \in Bytes
    BY <2>1, HeaderIs DEF RecvInv, Header
  <2>3. Header # sent + 1
    BY <1>t, <2>2
  <2>4. size'[Header'] = size[Header]
    BY <1>2, <2>2, <2>3
  <2> HIDE DEF Header
  <2>5. WholePacket
    BY <2>1, <2>4 DEF WholePacket, DataSize
  <2> QED BY <2>5 DEF RecvInv, EndInv
<1> QED BY <1>3, <1>4, <1>5, <1>7, <1>8 DEF RecvInv

LEMMA ArriveKept ==
  ASSUME RecvInv, ClientCloses \/ Arrive \/ ReadClient \/ UNCHANGED recvVars
  PROVE  RecvInv'
<1>1. UNCHANGED <<recvBuffer, connected, useLen, handled, size, packets, sent, taken>>
  BY DEF ClientCloses, Arrive, ReadClient, client, recvVars, session
<1>2. arrived' \in 0..sent /\ arrived <= arrived' /\ taken <= arrived' /\ clientClosed' \in BOOLEAN
  <2>1. /\ arrived' = arrived \/ arrived' \in (arrived + 1)..sent
        /\ clientClosed' = clientClosed \/ clientClosed' = TRUE
    BY DEF ClientCloses, Arrive, ReadClient, client, recvVars
  <2>2. sent \in Nat /\ arrived \in 0..sent /\ taken \in 0..arrived /\ clientClosed \in BOOLEAN
    BY DEF RecvInv, RecvTypeOK
  <2>3. clientClosed' \in BOOLEAN
    BY <2>1, <2>2
  <2>4. arrived' \in 0..sent /\ arrived <= arrived' /\ taken <= arrived'
    BY <2>1, <2>2
  <2> QED BY <2>3, <2>4
<1>7. /\ stage' \in {"idle", "recv", "packets", "read"} /\ again' \in BOOLEAN
      /\ stage' = stage \/ (stage = "idle" /\ stage' = "recv" /\ connected)
      /\ stage' = "recv" /\ again' => arrived' > taken \/ clientClosed'
  BY <1>2 DEF ClientCloses, Arrive, ReadClient, client, session, recvVars, RecvInv, RecvTypeOK, CursorInv
<1> USE DEF recvBuffer
<1>3. RecvTypeOK'
  BY <1>1, <1>2, <1>7 DEF RecvInv, RecvTypeOK
<1>4. CursorInv'
  BY <1>1, <1>7 DEF RecvInv, CursorInv, DataSize
<1>8. StreamInv'
  BY <1>1 DEF RecvInv, StreamInv
<1>5. HandledInv'
  BY <1>1 DEF RecvInv, HandledInv, PacketsAsSent, HandledEnd, DataSize, Sound
<1>6. EndInv'
  BY <1>1, <1>7 DEF RecvInv, EndInv, WholePacket, HeaderThere, Header, DataSize
<1> QED BY <1>3, <1>4, <1>5, <1>6, <1>8 DEF RecvInv

(***************************************************************************)
(* A header that OnRecv finds inside of a packet.                          *)
(***************************************************************************)
LEMMA HeaderKept ==
  ASSUME RecvInv, NEW n \in Sizes, ReadHeader(n)
  PROVE  RecvInv'
<1> DEFINE p == Header
<1>1. /\ stage = "packets" /\ HeaderThere /\ size[p] = Unknown
      /\ size' = [size EXCEPT ![p] = n]
      /\ UNCHANGED <<readPos, writePos, buffer, connected, stage, again, useLen, handled, packets, sent,
                     clientClosed, arrived, taken>>
  BY DEF ReadHeader, recvBuffer, session
<1>2. p \in Bytes
  BY <1>1, HeaderIs DEF RecvInv
<1> HIDE DEF p
<1>3. p \notin packets
  BY <1>1 DEF RecvInv, StreamInv
<1>4. RecvTypeOK'
  <2>1. size' \in [Bytes -> Sizes \union {Unknown}]
    BY <1>1 DEF RecvInv, RecvTypeOK
  <2> QED BY <1>1, <2>1 DEF RecvInv, RecvTypeOK
<1>5. CursorInv' /\ EndInv'
  BY <1>1 DEF RecvInv, CursorInv, EndInv, DataSize
<1>6. StreamInv'
  <2>1. \A q \in packets : size'[q] = size[q]
    BY <1>1, <1>3 DEF RecvInv, RecvTypeOK
  <2> QED BY <1>1, <2>1 DEF RecvInv, StreamInv
<1>7. PacketsAsSent' /\ HandledEnd' = HandledEnd
  BY <1>1, <1>2, <1>3, SizesStay
<1>8. HandledInv'
  BY <1>1, <1>7 DEF RecvInv, HandledInv, DataSize
<1> QED BY <1>4, <1>5, <1>6, <1>8 DEF RecvInv

-----------------------------------------------------------------------------
(***************************************************************************)
(* Clean never moves data: with a buffer size of 0 there is always enough  *)
(* room.                                                                   *)
(***************************************************************************)
LEMMA CleanEffect ==
  ASSUME RecvTypeOK, NEW read \in readPos..writePos, Clean(read)
  PROVE  /\ buffer' = buffer
         /\ \/ read = writePos /\ readPos' = 0 /\ writePos' = 0
            \/ readPos' = read /\ writePos' = writePos
BY CapacityType DEF RecvTypeOK, Clean, CleanWhen, FreeSize, bufferSize

LEMMA SameHandled ==
  ASSUME handled' = handled, size' = size
  PROVE  HandledEnd' = HandledEnd
BY DEF HandledEnd

LEMMA RecvKept ==
  ASSUME RecvInv, Recv
  PROVE  RecvInv'
<1> DEFINE L == Length
<1>t. /\ readPos \in 0..Capacity /\ writePos \in 0..Capacity /\ readPos <= writePos
      /\ sent \in 0..MaxBytes /\ arrived \in 0..sent /\ taken \in 0..arrived /\ Capacity \in Nat
      /\ buffer \in [0..(Capacity - 1) -> 0..MaxBytes]
  BY CapacityType DEF RecvInv, RecvTypeOK, CursorInv
<1>1. L \in Nat /\ L >= 1 /\ writePos + L <= Capacity /\ taken + L <= arrived
  BY <1>t DEF Recv, Length, FreeSize
<1>2. /\ buffer' = [i \in DOMAIN buffer |->
                      IF writePos <= i /\ i < writePos + L THEN taken + 1 + (i - writePos) ELSE buffer[i]]
      /\ writePos' = writePos + L /\ taken' = taken + L
      /\ stage' = "packets" /\ useLen' = 0
      /\ UNCHANGED <<readPos, connected, again, handled, size, packets, sent, clientClosed, arrived>>
  BY DEF Recv, client
<1>3. connected /\ stage = "recv" /\ useLen = 0
  BY DEF Recv, RecvInv, CursorInv
<1> HIDE DEF L
<1>4. RecvTypeOK'
  <2>1. buffer' \in [0..(Capacity - 1) -> 0..MaxBytes]
    BY <1>t, <1>1, <1>2
  <2> QED BY <1>t, <1>1, <1>2, <2>1 DEF RecvInv, RecvTypeOK
<1>5. CursorInv'
  <2>1. ASSUME NEW i \in readPos'..(writePos' - 1)
        PROVE  buffer'[i] = taken' - (writePos' - 1 - i)
    <3>1. i \in DOMAIN buffer /\ i \in Int /\ readPos <= i /\ i < writePos + L
      BY <1>t, <1>1, <1>2
    <3>2. CASE i < writePos
      <4>1. buffer'[i] = buffer[i]
        BY <1>t, <1>2, <3>1, <3>2
      <4>2. buffer[i] = taken - (writePos - 1 - i)
        BY <1>t, <3>1, <3>2 DEF RecvInv, CursorInv
      <4> QED BY <1>t, <1>1, <1>2, <3>1, <4>1, <4>2
    <3>3. CASE writePos <= i
      BY <1>t, <1>1, <1>2, <3>1, <3>3
    <3> QED BY <1>t, <3>1, <3>2, <3>3
  <2>2. readPos' <= writePos' /\ writePos' - readPos' <= taken' /\ useLen' <= writePos' - readPos'
    BY <1>t, <1>1, <1>2 DEF RecvInv, CursorInv, DataSize
  <2> QED BY <1>2, <1>3, <2>1, <2>2 DEF CursorInv, DataSize
<1>6. StreamInv' /\ EndInv'
  BY <1>2 DEF RecvInv, StreamInv, EndInv
<1>7. PacketsAsSent'
  <2>1. \A i \in 1..Len(handled) : handled[i] + BytesOf(size[handled[i]]) \in Int
    <3> SUFFICES ASSUME NEW i \in 1..Len(handled) PROVE handled[i] + BytesOf(size[handled[i]]) \in Int
      OBVIOUS
    <3>1. handled[i] \in Nat /\ size[handled[i]] \in Nat
      BY HandledPacket DEF RecvInv, HandledInv
    <3> QED BY <3>1, BytesOfSize
  <2>2. \A i \in 1..Len(handled) : Sound(handled[i])' = Sound(handled[i])
    BY <1>2 DEF Sound
  <2> QED BY <1>t, <1>1, <1>2, <2>1, <2>2 DEF RecvInv, HandledInv, PacketsAsSent
<1>8. HandledInv'
  <2>1. HandledEnd' = HandledEnd
    BY <1>2, SameHandled
  <2>2. taken - (writePos - readPos) + 0 = HandledEnd
    BY <1>3 DEF RecvInv, HandledInv, DataSize
  <2>3. taken' - (writePos' - readPos') + useLen' = taken - (writePos - readPos) + 0
    BY <1>t, <1>1, <1>2
  <2> HIDE DEF HandledEnd
  <2> QED BY <1>7, <2>1, <2>2, <2>3 DEF HandledInv, DataSize
<1> QED BY <1>4, <1>5, <1>6, <1>7, <1>8 DEF RecvInv

LEMMA HandleKept ==
  ASSUME RecvInv, HandlePacket
  PROVE  RecvInv'
<1> DEFINE n == size[Header]
<1>1. /\ stage = "packets" /\ HeaderThere /\ DataSize - useLen >= HeaderSize /\ DataSize - useLen >= n
      /\ n # Unknown
      /\ handled' = IF handled # <<>> /\ Last(handled) = Header THEN handled ELSE Append(handled, Header)
      /\ useLen' = useLen + n /\ stage' = "packets"
      /\ UNCHANGED <<readPos, writePos, buffer, connected, again, size, packets, sent, clientClosed, arrived, taken>>
  BY DEF HandlePacket, HandleAnd, WholePacket, HeaderThere, recvBuffer, client
<1>2. Header = HandledEnd + 1 /\ Header \in Bytes /\ Header \in 1..taken /\ HandledEnd \in Nat
  BY <1>1, HeaderPacket
<1>3. n \in Nat
  BY <1>1, <1>2, SizeOf DEF RecvInv
<1>t. /\ readPos \in 0..Capacity /\ writePos \in 0..Capacity /\ readPos <= writePos
      /\ taken \in Nat /\ Capacity \in Nat /\ useLen \in 0..Capacity /\ useLen <= writePos - readPos
      /\ handled \in Seq(Bytes) /\ Len(handled) \in Nat /\ connected /\ sent \in Nat /\ taken <= sent
  BY <1>1, CapacityType DEF RecvInv, RecvTypeOK, CursorInv, DataSize
<1>n. DataSize = writePos - readPos /\ n = size[Header]
  BY DEF DataSize
<1>e. HandledEnd = taken - (writePos - readPos) + useLen
  BY <1>t DEF RecvInv, HandledInv, DataSize
<1>b. BytesOf(n) \in Nat /\ BytesOf(n) <= (writePos - readPos) - useLen
  BY <1>1, <1>3, <1>n DEF BytesOf
<1>s. Sound(Header) => Header \in packets
  <2>1. Header <= sent
    BY <1>2, <1>t
  <2> QED BY <1>2, <2>1, SoundHeader
<1> HIDE DEF n, Header, HandledEnd
<1>4. useLen' \in 0..Capacity /\ useLen' <= writePos' - readPos'
  BY <1>1, <1>3, <1>t, <1>n
<1>5. CursorInv'
  BY <1>1, <1>4, <1>t DEF RecvInv, CursorInv, DataSize
<1>6. StreamInv' /\ EndInv'
  BY <1>1 DEF RecvInv, StreamInv, EndInv
<1>7. CASE handled # <<>> /\ Last(handled) = Header
  <2>1. handled' = handled
    BY <1>1, <1>7
  <2>2. HandledEnd = Header + n - 1
    <3>1. HandledEnd = handled[Len(handled)] + size[handled[Len(handled)]] - 1
      BY <1>7, LastHandled DEF RecvInv
    <3> QED BY <1>7, <1>n, <3>1 DEF Last
  <2>3. n = 0
    BY <1>2, <1>3, <2>2
  <2>4. useLen' = useLen
    BY <1>1, <1>t, <2>3
  <2> QED BY <1>1, <1>5, <1>6, <2>1, <2>4 DEF RecvInv, RecvTypeOK, HandledInv, PacketsAsSent, HandledEnd, DataSize, Sound
<1>8. CASE ~(handled # <<>> /\ Last(handled) = Header)
  <2>1. handled' = Append(handled, Header)
    BY <1>1, <1>8
  <2>2. RecvTypeOK'
    <3>1. handled' \in Seq(Bytes)
      BY <1>2, <1>t, <2>1, AppendProperties
    <3> QED BY <1>1, <1>4, <3>1 DEF RecvInv, RecvTypeOK
  <2>3. /\ Len(handled') = Len(handled) + 1 /\ handled'[Len(handled) + 1] = Header
        /\ \A i \in 1..Len(handled) : handled'[i] = handled[i]
    BY <1>2, <1>t, <2>1, AppendProperties
  <2>4. HandledEnd' = Header + n - 1
    <3>1. handled' # <<>>
      BY <1>t, <2>3
    <3>2. HandledEnd' = handled'[Len(handled')] + size'[handled'[Len(handled')]] - 1
      BY <3>1 DEF HandledEnd
    <3> QED BY <1>1, <1>n, <2>3, <3>2
  <2>5. handled'[1] = 1
    <3>1. CASE handled = <<>>
      <4>1. HandledEnd = 0 /\ Len(handled) = 0
        BY <3>1 DEF HandledEnd
      <4> QED BY <1>2, <2>3, <4>1
    <3>2. CASE handled # <<>>
      <4>1. 1 \in 1..Len(handled)
        BY <1>t, <3>2, EmptySeq
      <4> QED BY <2>3, <3>2, <4>1 DEF RecvInv, HandledInv, PacketsAsSent
    <3> QED BY <3>1, <3>2
  <2>6. size' = size /\ packets' = packets
    BY <1>1
  <2>7. ASSUME NEW i \in 1..Len(handled')
        PROVE  /\ size'[handled'[i]] # Unknown
               /\ handled'[i] + BytesOf(size'[handled'[i]]) <= taken' + 1
               /\ i > 1 => handled'[i] = handled'[i - 1] + size'[handled'[i - 1]]
               /\ (\A q \in packets' : q <= handled'[i] => size'[q] >= HeaderSize)
                     => handled'[i] \in packets'
    <3>1. CASE i \in 1..Len(handled)
      <4>1. i > 1 => i - 1 \in 1..Len(handled)
        BY <3>1
      <4>2. handled'[i] = handled[i] /\ (i > 1 => handled'[i - 1] = handled[i - 1])
        BY <2>3, <3>1, <4>1
      <4>3. /\ size[handled[i]] # Unknown
            /\ handled[i] + BytesOf(size[handled[i]]) <= taken + 1
            /\ i > 1 => handled[i] = handled[i - 1] + size[handled[i - 1]]
            /\ (\A q \in packets : q <= handled[i] => size[q] >= HeaderSize) => handled[i] \in packets
        BY <3>1 DEF RecvInv, HandledInv, PacketsAsSent, Sound
      <4> QED BY <1>1, <2>6, <4>2, <4>3
    <3>2. CASE i = Len(handled) + 1
      <4>1. handled'[i] = Header /\ size'[Header] = n
        BY <1>1, <1>n, <2>3, <3>2
      <4>2. Header + BytesOf(n) <= taken' + 1
        BY <1>1, <1>2, <1>b, <1>t, <1>e
      <4>3. i > 1 => handled'[i] = handled'[i - 1] + size'[handled'[i - 1]]
        <5> SUFFICES ASSUME i > 1
                     PROVE  handled'[i] = handled'[i - 1] + size'[handled'[i - 1]]
          OBVIOUS
        <5>1. handled # <<>> /\ i - 1 = Len(handled) /\ i - 1 \in 1..Len(handled)
          BY <1>t, <3>2
        <5>2. handled'[i - 1] = handled[Len(handled)]
          BY <2>3, <5>1
        <5>3. HandledEnd = handled[Len(handled)] + size[handled[Len(handled)]] - 1
          BY <5>1, LastHandled DEF RecvInv
        <5>4. handled[Len(handled)] \in Nat /\ size[handled[Len(handled)]] \in Nat
          BY <5>1, HandledPacket DEF RecvInv, HandledInv
        <5>5. Header = handled[Len(handled)] + size[handled[Len(handled)]]
          BY <1>2, <5>3, <5>4, EndPlusOne
        <5> QED BY <1>1, <4>1, <5>2, <5>5
      <4>4. (\A q \in packets' : q <= handled'[i] => size'[q] >= HeaderSize) => handled'[i] \in packets'
        BY <1>s, <2>6, <4>1 DEF Sound
      <4>5. size'[handled'[i]] # Unknown /\ handled'[i] + BytesOf(size'[handled'[i]]) <= taken' + 1
        <5>1. size'[handled'[i]] = n /\ n # Unknown /\ taken' = taken
          BY <1>1, <2>6, <4>1
        <5> QED BY <1>1, <4>1, <4>2, <5>1
      <4> QED BY <4>3, <4>4, <4>5
    <3> QED BY <1>t, <2>3, <3>1, <3>2
  <2>8. PacketsAsSent'
    BY <2>5, <2>7 DEF PacketsAsSent, Sound
  <2>9. HandledInv'
    <3>1. taken - (writePos - readPos) + useLen' = Header + n - 1
      BY <1>1, <1>2, <1>3, <1>t, <1>e
    <3> QED BY <1>1, <2>4, <2>8, <3>1 DEF HandledInv, DataSize
  <2> QED BY <1>5, <1>6, <2>2, <2>9 DEF RecvInv
<1> QED BY <1>7, <1>8

LEMMA EndKept ==
  ASSUME RecvInv, EndOfPackets
  PROVE  RecvInv'
<1>1. /\ stage = "packets" /\ stage' = "read" /\ ~WholePacket
      /\ UNCHANGED <<readPos, writePos, buffer, connected, again, useLen, handled, size, packets, sent,
                     clientClosed, arrived, taken>>
  BY DEF EndOfPackets, recvBuffer, client
<1>2. RecvTypeOK' /\ StreamInv'
  BY <1>1 DEF RecvInv, RecvTypeOK, StreamInv
<1>3. CursorInv'
  BY <1>1 DEF RecvInv, CursorInv, DataSize
<1>4. HandledInv'
  BY <1>1 DEF RecvInv, HandledInv, PacketsAsSent, HandledEnd, DataSize, Sound
<1>5. EndInv'
  BY <1>1 DEF EndInv, WholePacket, HeaderThere, Header, DataSize
<1> QED BY <1>2, <1>3, <1>4, <1>5 DEF RecvInv

(***************************************************************************)
(* OnRead and a recv that fails: the read cursor moves on by what was      *)
(* handled, or the session is dropped.                                     *)
(***************************************************************************)
LEMMA OnReadKept ==
  ASSUME RecvInv, RecvFails \/ OnRead
  PROVE  RecvInv'
<1>t. /\ readPos \in 0..Capacity /\ writePos \in 0..Capacity /\ readPos <= writePos
      /\ taken \in Nat /\ Capacity \in Nat /\ useLen \in 0..Capacity /\ useLen <= writePos - readPos
      /\ writePos - readPos <= taken
  BY CapacityType DEF RecvInv, RecvTypeOK, CursorInv, DataSize
<1>1. PICK read \in readPos..writePos :
        /\ Clean(read)
        /\ \/ read = readPos /\ connected' = FALSE
           \/ read = readPos + useLen /\ connected' = connected
  BY <1>t DEF RecvFails, OnRead, ReadIf, Disconnect, DataSize
<1>2. /\ stage' = "idle" \/ (stage' = "recv" /\ ~again' /\ connected')
      /\ useLen' = 0
      /\ UNCHANGED <<again, handled, size, packets, sent, clientClosed, arrived, taken>>
  <2>1. stage \in {"recv", "read"} => connected
    BY DEF RecvInv, CursorInv
  <2> QED BY <2>1 DEF RecvFails, OnRead, ReadIf, client, RecvInv, CursorInv
<1>3. /\ buffer' = buffer
      /\ \/ read = writePos /\ readPos' = 0 /\ writePos' = 0
         \/ readPos' = read /\ writePos' = writePos
  BY <1>1, CleanEffect DEF RecvInv
<1>4. RecvTypeOK'
  <2>1. readPos' \in 0..Capacity /\ writePos' \in 0..Capacity /\ useLen' \in 0..Capacity
    BY <1>t, <1>2, <1>3
  <2>2. connected' \in BOOLEAN
    BY <1>1 DEF RecvInv, RecvTypeOK
  <2> QED BY <1>2, <1>3, <2>1, <2>2 DEF RecvInv, RecvTypeOK
<1>5. CursorInv'
  <2>1. readPos' <= writePos' /\ writePos' - readPos' <= taken /\ 0 <= writePos' - readPos'
    BY <1>t, <1>3
  <2>2. \A i \in readPos'..(writePos' - 1) : buffer'[i] = taken - (writePos' - 1 - i)
    <3>1. CASE readPos' = 0 /\ writePos' = 0
      BY <3>1
    <3>2. CASE readPos' = read /\ writePos' = writePos
      BY <1>t, <1>3, <3>2 DEF RecvInv, CursorInv
    <3> QED BY <1>3, <3>1, <3>2
  <2>3. ~connected' => stage' = "idle"
    BY <1>2
  <2> QED BY <1>2, <2>1, <2>2, <2>3 DEF CursorInv, DataSize
<1>6. StreamInv' /\ EndInv' /\ PacketsAsSent'
  BY <1>2 DEF RecvInv, StreamInv, EndInv, HandledInv, PacketsAsSent, Sound
<1>7. HandledInv'
  <2>1. HandledEnd' = HandledEnd
    BY <1>2, SameHandled
  <2>2. connected' => read = readPos + useLen /\ taken - (writePos - readPos) + useLen = HandledEnd
    BY <1>1 DEF RecvInv, HandledInv, DataSize
  <2>3. writePos' - readPos' = writePos - read
    BY <1>t, <1>3
  <2>4. read = readPos + useLen => taken - (writePos - read) + 0 = taken - (writePos - readPos) + useLen
    BY <1>t
  <2> HIDE DEF HandledEnd
  <2> QED BY <1>2, <1>6, <2>1, <2>2, <2>3, <2>4 DEF HandledInv, DataSize
<1> QED BY <1>4, <1>5, <1>6, <1>7 DEF RecvInv

LEMMA RecvInvKept == RecvInv /\ [RecvNext]_recvVars => RecvInv'
BY SendKept, ArriveKept, RecvKept, HeaderKept, HandleKept, EndKept, OnReadKept
   DEF RecvNext, ReciveMessage, OnRecv

LEMMA RecvInvInit == RecvInit => RecvInv
<1> SUFFICES ASSUME RecvInit PROVE RecvInv
  OBVIOUS
<1>1. handled = <<>> /\ Len(handled) = 0 /\ handled \in Seq(Bytes)
  BY EmptySeq DEF RecvInit
<1>2. RecvTypeOK
  <2>1. /\ connected \in BOOLEAN /\ clientClosed \in BOOLEAN /\ again \in BOOLEAN
        /\ stage \in {"idle", "recv", "packets", "read"}
    BY DEF RecvInit
  <2>2. /\ buffer \in [0..(Capacity - 1) -> 0..MaxBytes] /\ size \in [Bytes -> Sizes \union {Unknown}]
        /\ packets \subseteq Bytes
    BY DEF RecvInit
  <2> QED BY <1>1, <2>1, <2>2, CapacityType DEF RecvInit, RecvTypeOK
<1>3. CursorInv /\ EndInv
  BY DEF RecvInit, CursorInv, EndInv, DataSize
<1>4. StreamInv
  BY DEF RecvInit, StreamInv
<1>5. HandledInv
  BY <1>1 DEF RecvInit, HandledInv, PacketsAsSent, HandledEnd, DataSize
<1> QED BY <1>2, <1>3, <1>4, <1>5 DEF RecvInv

LEMMA RecvInvariant == RecvSafety => []RecvInv
BY RecvInvInit, RecvInvKept, PTL DEF RecvSafety

(***************************************************************************)
(* The cursors stay inside the buffer, the write cursor never behind the   *)
(* read cursor, and no more bytes are taken than arrived.                  *)
(***************************************************************************)
THEOREM RecvTypeCorrect == RecvSafety => []RecvTypeOK
<1>1. RecvInv => RecvTypeOK
  BY DEF RecvInv
<1> QED BY <1>1, RecvInvariant, PTL

(***************************************************************************)
(* The stream goes through the buffer unharmed, however it is cut: what is *)
(* between the cursors is what was taken and not handled, and the packets  *)
(* handled are those that were sent, in order and whole.                   *)
(***************************************************************************)
THEOREM StreamStaysIntact == RecvSafety => []StreamIntact
<1>1. RecvInv => StreamIntact
  BY DEF RecvInv, CursorInv, HandledInv, StreamIntact, BufferHoldsStream
<1> QED BY <1>1, RecvInvariant, PTL

LEMMA DropReason ==
  ASSUME RecvInv, RecvNext, connected, ~connected'
  PROVE  \/ clientClosed
         \/ FreeSize = 0
         \/ stage = "recv" /\ arrived = taken /\ ~again
         \/ stage = "read" /\ (DataSize < HeaderSize \/ DataSize < size[buffer[readPos]])
<1>1. RecvFails \/ OnRead
  BY DEF RecvNext, SendPacket, ClientCloses, Arrive, ReadClient, ReciveMessage, Recv, OnRecv, ReadHeader,
     HandlePacket, HandleAnd, EndOfPackets, session
<1>2. CASE RecvFails
  <2>1. stage = "recv" /\ (Length <= 0 \/ clientClosed)
    BY <1>2 DEF RecvFails
  <2>2. /\ arrived \in Nat /\ taken \in Nat /\ taken <= arrived
        /\ FreeSize \in Nat
    BY CapacityType DEF RecvInv, RecvTypeOK, FreeSize
  <2>3. again => arrived > taken \/ clientClosed
    BY <2>1 DEF RecvInv, CursorInv
  <2> HIDE DEF FreeSize
  <2>4. Length <= 0 => FreeSize = 0 \/ arrived = taken
    BY <2>2 DEF Length
  <2> QED BY <2>1, <2>2, <2>3, <2>4
<1>3. CASE OnRead
  <2>1. ~WholePacket /\ useLen = 0 /\ stage = "read"
    <3>1. stage = "read" /\ ~(useLen <= DataSize /\ useLen > 0)
      BY <1>3 DEF OnRead, ReadIf
    <3>2. useLen <= DataSize /\ useLen \in Nat
      BY CapacityType DEF RecvInv, RecvTypeOK, CursorInv
    <3>3. ~WholePacket
      BY <3>1 DEF RecvInv, EndInv
    <3> QED BY <3>1, <3>2, <3>3
  <2>2. Header = buffer[readPos] /\ DataSize - useLen = DataSize /\ DataSize \in Int
    BY <2>1 DEF Header, DataSize, RecvInv, RecvTypeOK
  <2>3. HeaderThere => size[Header] \in Int
    BY HeaderIs, SizeOf DEF RecvInv
  <2> HIDE DEF Header, DataSize
  <2> QED BY <2>1, <2>2, <2>3 DEF WholePacket, HeaderThere
<1> QED BY <1>1, <1>2, <1>3

(***************************************************************************)
(* A session is dropped for one of four reasons only; that OnRead might    *)
(* refuse to move the cursor, or that a client is dropped that was read to *)
(* the end with EAGAIN, is not one of them.                                *)
(***************************************************************************)
THEOREM DropsHaveReason == RecvSafety => DropHasReason
<1>1. RecvInv /\ [RecvNext]_recvVars =>
        [connected /\ ~connected' =>
           \/ clientClosed
           \/ FreeSize = 0
           \/ stage = "recv" /\ arrived = taken /\ ~again
           \/ stage = "read" /\ (DataSize < HeaderSize \/ DataSize < size[buffer[readPos]])]_recvVars
  BY DropReason
<1> QED BY <1>1, RecvInvariant, PTL DEF RecvSafety, DropHasReason

=============================================================================
