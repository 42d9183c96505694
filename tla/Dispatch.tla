------------------------------ MODULE Dispatch ------------------------------
(***************************************************************************)
(* ServerService::Dispatch: the threads that run the main loop compete for *)
(* the _reading gate; the one that gets through takes the events of epoll  *)
(* into the array of EpollFD, accepts clients and reads from them, and     *)
(* releases the session of a client whose read failed.                     *)
(*                                                                         *)
(* Every thread has an errno of its own, which ReadClient looks at after a *)
(* read that succeeded.  The events array is one for all threads.          *)
(*                                                                         *)
(* The kernel is modelled as far as the program uses it: a backlog of      *)
(* connections, unread data, and the edge-triggered ready list of epoll.   *)
(* A client connects once and keeps its descriptor; descriptors that are   *)
(* used again, and what they do to _sessionCount, are left to Connections. *)
(* Of the data only the number of pieces counts.  A recv takes what there  *)
(* is or what has room; it may leave the buffer with no room at all, or    *)
(* find no whole packet in it, for which RecvPath has the reasons.         *)
(***************************************************************************)
EXTENDS Integers, Sequences, FiniteSets, SequencesExt

CONSTANTS
  Threads,
  Clients,       \* clients, and the descriptors of their connections
  Listener,      \* the descriptor of the listening socket
  MaxUnread,     \* bound: pieces of unread data, more are as many
  MayFail        \* may accept, fcntl and epoll_ctl fail on a new connection?

ASSUME ListenerAssumption == Listener \notin Clients
ASSUME ClientsAssumption == IsFiniteSet(Clients)
ASSUME FailureAssumption == MayFail \in BOOLEAN
ASSUME UnreadAssumption == MaxUnread \in Nat \ {0}

VARIABLES
  (* The service: *)
  reading,       \* _reading
  sessionMap,    \* _sessionMap: no entry, an entry with a null pointer, or a session
  epollEvents,   \* _epollEvents[i].data.fd, shared by the threads
  crashed,       \* has an ASSERT_CRASH failed?
  full,          \* the clients whose receive buffer has no room left
  (* Each thread: *)
  pc,
  isReading,     \* the first load of _reading
  eventCount, idx,
  fd,            \* the client the thread is busy with
  errno,         \* EAGAIN, or anything else
  (* The kernel: *)
  net,           \* net[c]: is c connecting, connected, or closed by the server?
  unread,        \* unread[c]: the pieces of data that arrived and were not read
  peerClosed,    \* peerClosed[c]: has the client closed its end?
  ready,         \* the ready list of epoll, as a set
  cut            \* history: descriptors left with a rest that no edge reports

service == <<reading, sessionMap, epollEvents, crashed, full>>
locals  == <<isReading, eventCount, idx, fd>>
kernel  == <<net, unread, peerClosed, ready, cut>>
vars    == <<service, locals, kernel, pc, errno>>

Fds     == Clients \union {Listener}
Slots   == 1..Cardinality(Fds)
Inside  == {"wait", "event", "accept", "register", "add", "get", "recv", "release"}
Places  == {"idle", "gate", "cas"} \union Inside
Nobody  == Listener     \* the value of fd while the thread has no client

Goto(t, from, to) ==
  /\ ~crashed
  /\ pc[t] = from
  /\ pc' = [pc EXCEPT ![t] = to]

Readable(f) ==
  IF f = Listener
    THEN \E c \in Clients : net[c] = "backlog"
    ELSE net[f] = "open" /\ (unread[f] > 0 \/ peerClosed[f])

-----------------------------------------------------------------------------
Init ==
  /\ reading = FALSE
  /\ sessionMap = [c \in Clients |-> "none"]
  /\ epollEvents = [i \in Slots |-> Listener]
  /\ crashed = FALSE
  /\ full = {}
  /\ pc = [t \in Threads |-> "idle"]
  /\ isReading = [t \in Threads |-> FALSE]
  /\ eventCount = [t \in Threads |-> 0]
  /\ idx = [t \in Threads |-> 1]
  /\ fd = [t \in Threads |-> Nobody]
  /\ errno = [t \in Threads |-> "other"]
  /\ net = [c \in Clients |-> "new"]
  /\ unread = [c \in Clients |-> 0]
  /\ peerClosed = [c \in Clients |-> FALSE]
  /\ ready = {}
  /\ cut = {}

-----------------------------------------------------------------------------
(***************************************************************************)
(* The clients.  An edge is one entry in the ready list, however often it  *)
(* comes.                                                                  *)
(***************************************************************************)
Edge(f) == ready' = ready \union {f} /\ cut' = cut \ {f}

EdgeIf(there, f) == IF there THEN Edge(f) ELSE UNCHANGED <<ready, cut>>

EdgeIfOpen(c) == EdgeIf(net[c] = "open", c)

\* The thread is done with f; what it leaves there, if anything, has no edge any more.
LeaveRest(f, rest) == cut' = IF rest /\ f \notin ready THEN cut \union {f} ELSE cut

Connect(c) ==
  /\ ~crashed
  /\ net[c] = "new"
  /\ net' = [net EXCEPT ![c] = "backlog"]
  /\ Edge(Listener)
  /\ UNCHANGED <<service, locals, pc, errno, unread, peerClosed>>

SendData(c) ==
  /\ ~crashed
  /\ net[c] \in {"backlog", "open"}
  /\ ~peerClosed[c]
  /\ unread' = [unread EXCEPT ![c] = IF @ < MaxUnread THEN @ + 1 ELSE @]
  /\ EdgeIfOpen(c)
  /\ UNCHANGED <<service, locals, pc, errno, net, peerClosed>>

\* A reset discards what was not read, an orderly close does not.
PeerClose(c) ==
  /\ ~crashed
  /\ net[c] \in {"backlog", "open"}
  /\ ~peerClosed[c]
  /\ peerClosed' = [peerClosed EXCEPT ![c] = TRUE]
  /\ \E reset \in BOOLEAN : unread' = [unread EXCEPT ![c] = IF reset THEN 0 ELSE @]
  /\ EdgeIfOpen(c)
  /\ UNCHANGED <<service, locals, pc, errno, net>>

Client(c) == Connect(c) \/ SendData(c) \/ PeerClose(c)

-----------------------------------------------------------------------------
(***************************************************************************)
(* The gate.  CheckReading compares with what the first load saw, not with *)
(* false.                                                                  *)
(***************************************************************************)
LoadReading(t) ==
  /\ Goto(t, "idle", "gate")
  /\ isReading' = [isReading EXCEPT ![t] = reading]
  /\ UNCHANGED <<service, kernel, errno, eventCount, idx, fd>>

TestReading(t) ==
  /\ Goto(t, "gate", IF reading THEN "idle" ELSE "cas")
  /\ UNCHANGED <<service, kernel, locals, errno>>

CheckReading(t) ==
  /\ Goto(t, "cas", IF reading = isReading[t] THEN "wait" ELSE "idle")
  /\ reading' = (reading \/ reading = isReading[t])
  /\ UNCHANGED <<sessionMap, epollEvents, crashed, full, kernel, locals, errno>>

LeaveGate(t, shut) ==
  /\ idx[t] > eventCount[t]
  /\ Goto(t, "event", "idle")
  /\ reading' = shut
  /\ UNCHANGED <<sessionMap, epollEvents, crashed, full, kernel, locals, errno>>

\* Mutant: the gate stays shut.
LeaveShut(t) == LeaveGate(t, TRUE)

OffReading(t) == LeaveGate(t, FALSE)

(***************************************************************************)
(* epoll_wait writes the descriptors that are still readable to the front  *)
(* of the shared array, in an order that epoll does not promise; with none *)
(* it comes back after the timeout.                                        *)
(***************************************************************************)
TakeEvents(t, first) ==
  /\ Goto(t, "wait", "event")
  /\ \E events \in SetToSeqs({f \in ready : Readable(f)}) :
       /\ epollEvents' = [i \in Slots |-> IF i \in DOMAIN events THEN events[i] ELSE epollEvents[i]]
       /\ eventCount' = [eventCount EXCEPT ![t] = Len(events)]
  /\ idx' = [idx EXCEPT ![t] = first]
  /\ ready' = {}
  /\ UNCHANGED <<reading, sessionMap, crashed, full, errno, isReading, fd,
                 net, unread, peerClosed, cut>>

\* Mutant: the loop over the events starts one too early.
EventCountFromZero(t) == TakeEvents(t, 0)

EventCount(t) == TakeEvents(t, 1)

NextEvent(t) ==
  /\ idx[t] <= eventCount[t]
  /\ Goto(t, "event", IF epollEvents[idx[t]] = Listener THEN "accept" ELSE "get")
  /\ UNCHANGED <<service, kernel, locals, errno>>

EventDone(t, from) ==
  /\ Goto(t, from, "event")
  /\ idx' = [idx EXCEPT ![t] = @ + 1]
  /\ fd' = [fd EXCEPT ![t] = Nobody]

-----------------------------------------------------------------------------
(***************************************************************************)
(* AcceptClient: accept until it fails, for whatever reason, and register  *)
(* what was accepted: epoll first, the session after it.  A refused        *)
(* registration closes the descriptor and ends the loop; a descriptor that *)
(* cannot be made non-blocking is left as it is, open and unregistered.    *)
(***************************************************************************)
Waiting == \E c \in Clients : net[c] = "backlog"

Accept(t) ==
  /\ \E c \in Clients : net[c] = "backlog" /\ fd' = [fd EXCEPT ![t] = c]
                                           /\ net' = [net EXCEPT ![c] = "accepted"]
  /\ Goto(t, "accept", "register")
  /\ UNCHANGED <<service, errno, isReading, eventCount, idx, unread, peerClosed, ready, cut>>

LeaveAccept(t, because) ==
  /\ EventDone(t, "accept")
  /\ errno' = [errno EXCEPT ![t] = because]
  /\ LeaveRest(Listener, Waiting)
  /\ UNCHANGED <<service, isReading, eventCount, net, unread, peerClosed, ready>>

NoMoreToAccept(t) == ~Waiting /\ LeaveAccept(t, "EAGAIN")

AcceptFails(t) == MayFail /\ LeaveAccept(t, "other")

SetNonBlockFails(t) ==
  /\ MayFail
  /\ Goto(t, "register", "accept")
  /\ net' = [net EXCEPT ![fd[t]] = "leaked"]
  /\ fd' = [fd EXCEPT ![t] = Nobody]
  /\ errno' = [errno EXCEPT ![t] = "other"]
  /\ UNCHANGED <<service, isReading, eventCount, idx, unread, peerClosed, ready, cut>>

Register(t) ==
  LET c == fd[t] IN
  /\ Goto(t, "register", "add")
  /\ net' = [net EXCEPT ![c] = "open"]
  /\ EdgeIf(unread[c] > 0 \/ peerClosed[c], c)
  /\ UNCHANGED <<service, locals, errno, unread, peerClosed>>

RegisterFails(t) ==
  /\ MayFail
  /\ EventDone(t, "register")
  /\ net' = [net EXCEPT ![fd[t]] = "refused"]
  /\ errno' = [errno EXCEPT ![t] = "other"]
  /\ LeaveRest(Listener, Waiting)
  /\ UNCHANGED <<service, isReading, eventCount, unread, peerClosed, ready>>

AddAnd(t, continue) ==
  /\ IF continue
       THEN Goto(t, "add", "accept") /\ fd' = [fd EXCEPT ![t] = Nobody] /\ UNCHANGED idx
       ELSE EventDone(t, "add")
  /\ sessionMap' = [sessionMap EXCEPT ![fd[t]] = "session"]
  /\ UNCHANGED <<reading, epollEvents, crashed, full, kernel, errno, isReading, eventCount>>

\* Mutant: one connection is accepted for each event of the listener.
AddSessionAndStop(t) == AddAnd(t, FALSE)

AddSession(t) == AddAnd(t, TRUE)

-----------------------------------------------------------------------------
(***************************************************************************)
(* ReadClient.  operator[] leaves a null entry for a descriptor that has   *)
(* no session.                                                             *)
(***************************************************************************)
GetSession(t) ==
  LET f == epollEvents[idx[t]] IN
  /\ IF f \in Clients /\ sessionMap[f] = "session"
       THEN /\ Goto(t, "get", "recv")
            /\ fd' = [fd EXCEPT ![t] = f]
            /\ UNCHANGED <<sessionMap, idx>>
       ELSE /\ EventDone(t, "get")
            /\ sessionMap' = [c \in Clients |-> IF c = f THEN "null" ELSE sessionMap[c]]
  /\ UNCHANGED <<reading, epollEvents, crashed, full, kernel, errno, isReading, eventCount>>

(***************************************************************************)
(* The loop goes on until a ReciveMessage fails, or until one succeeds     *)
(* while errno still says EAGAIN from an earlier call of this thread.  A   *)
(* recv that takes data fails all the same if there is no whole packet.    *)
(***************************************************************************)
CanTake(c) == net[c] = "open" /\ unread[c] > 0 /\ c \notin full

Take(c) == \E n \in 1..unread[c] : unread' = [unread EXCEPT ![c] = @ - n]

ReceiveAndLeaveIf(t, leave) ==
  LET c == fd[t] IN
  /\ pc[t] = "recv"
  /\ CanTake(c) /\ Take(c)
  /\ full' \in {full, full \union {c}}
  /\ IF leave
       THEN EventDone(t, "recv") /\ LeaveRest(c, unread'[c] > 0)
       ELSE Goto(t, "recv", "recv") /\ UNCHANGED <<idx, fd, cut>>
  /\ UNCHANGED <<reading, sessionMap, epollEvents, crashed, errno, net, peerClosed, ready,
                 isReading, eventCount>>

\* Mutant: the test of errno is the wrong way round.
ReceiveDataInverted(t) == ReceiveAndLeaveIf(t, errno[t] # "EAGAIN")

ReceiveData(t) == ReceiveAndLeaveIf(t, errno[t] = "EAGAIN")

ReceivePartial(t) ==
  LET c == fd[t] IN
  /\ Goto(t, "recv", "release")
  /\ CanTake(c) /\ Take(c)
  /\ UNCHANGED <<service, locals, errno, net, peerClosed, ready, cut>>

(***************************************************************************)
(* recv fails with EAGAIN on a drained connection and with another error   *)
(* on a closed one; the 0 that it returns at the end of the stream, or for *)
(* a buffer without room, leaves errno as it was.                          *)
(***************************************************************************)
FailAnd(t, release) ==
  LET c == fd[t] IN
  /\ pc[t] = "recv" /\ ~CanTake(c)
  /\ IF release
       THEN Goto(t, "recv", "release") /\ UNCHANGED <<idx, fd>>
       ELSE EventDone(t, "recv")
  /\ \E e \in (IF net[c] # "open" THEN {"other"}
               ELSE IF unread[c] > 0 THEN {errno[t]}
               ELSE IF peerClosed[c] THEN {errno[t], "other"} ELSE {"EAGAIN"}) :
       errno' = [errno EXCEPT ![t] = e]
  /\ UNCHANGED <<service, kernel, isReading, eventCount>>

\* Mutant: the 0 that recv returns at the end of the stream is taken for no data.
ReceiveEndIgnored(t) == FailAnd(t, ~peerClosed[fd[t]])

ReceiveFails(t) == FailAnd(t, TRUE)

(***************************************************************************)
(* ReleaseSession, under the lock of the service: the entry is erased, the *)
(* descriptor closed, and only then taken out of epoll, which fails.  The  *)
(* two jobs it pushes to the room are the business of JobQueue.            *)
(***************************************************************************)
ReleaseLeaving(t, entry) ==
  LET c == fd[t] IN
  /\ EventDone(t, "release")
  /\ IF sessionMap[c] = "none"
       THEN /\ crashed' = TRUE
            /\ UNCHANGED <<sessionMap, full, net, ready, cut, errno>>
       ELSE /\ sessionMap' = [sessionMap EXCEPT ![c] = entry]
            /\ full' = full \ {c}
            /\ net' = [net EXCEPT ![c] = "closed"]
            /\ ready' = ready \ {c} /\ cut' = cut \ {c}
            /\ errno' = [errno EXCEPT ![t] = "other"]
            /\ UNCHANGED crashed
  /\ UNCHANGED <<reading, epollEvents, unread, peerClosed, isReading, eventCount>>

\* Mutant: the entry stays in the map.
ReleaseSessionKept(t) == ReleaseLeaving(t, "session")

ReleaseSession(t) == ReleaseLeaving(t, "none")

-----------------------------------------------------------------------------
(***************************************************************************)
(* Between two calls of Dispatch the thread runs the jobs of the room, and *)
(* a sendmsg in them may leave any errno.                                  *)
(***************************************************************************)
RunRoom(t) ==
  /\ Goto(t, "idle", "idle")
  /\ \E e \in {"EAGAIN", "other"} : errno' = [errno EXCEPT ![t] = e]
  /\ UNCHANGED <<service, kernel, locals>>

Dispatch(t) ==
  \/ LoadReading(t) \/ TestReading(t) \/ CheckReading(t)
  \/ EventCount(t) \/ NextEvent(t) \/ OffReading(t)
  \/ Accept(t) \/ NoMoreToAccept(t) \/ AcceptFails(t) \/ SetNonBlockFails(t)
  \/ Register(t) \/ RegisterFails(t) \/ AddSession(t)
  \/ GetSession(t) \/ ReceiveData(t) \/ ReceivePartial(t) \/ ReceiveFails(t) \/ ReleaseSession(t)

Next ==
  \/ \E c \in Clients : Client(c)
  \/ \E t \in Threads : RunRoom(t) \/ Dispatch(t)

(***************************************************************************)
(* The main loop calls Dispatch for ever.  What clients do is up to them,  *)
(* except that none sends so fast that a recv never takes all there is, or *)
(* that none ever finds the connection drained: either would hold the      *)
(* thread in ReadClient for good.                                          *)
(***************************************************************************)
TakeAll(t, c) == fd[t] = c /\ ReceiveData(t) /\ unread'[c] = 0

Fairness ==
  \A t \in Threads :
    /\ WF_vars(Dispatch(t)) /\ SF_vars(ReceiveFails(t))
    /\ \A c \in Clients : SF_vars(TakeAll(t, c))

Safety == Init /\ [][Next]_vars

Spec == Safety /\ Fairness

-----------------------------------------------------------------------------
TypeOK ==
  /\ reading \in BOOLEAN
  /\ sessionMap \in [Clients -> {"none", "null", "session"}]
  /\ epollEvents \in [Slots -> Fds]
  /\ crashed \in BOOLEAN
  /\ full \subseteq Clients
  /\ pc \in [Threads -> Places]
  /\ isReading \in [Threads -> BOOLEAN]
  /\ eventCount \in [Threads -> 0..Cardinality(Fds)]
  /\ idx \in [Threads -> 1..(Cardinality(Fds) + 1)]
  /\ fd \in [Threads -> Fds]
  /\ errno \in [Threads -> {"EAGAIN", "other"}]
  /\ net \in [Clients -> {"new", "backlog", "accepted", "open", "closed", "refused", "leaked"}]
  /\ unread \in [Clients -> 0..MaxUnread]
  /\ peerClosed \in [Clients -> BOOLEAN]
  /\ ready \subseteq Fds /\ cut \subseteq Fds

(***************************************************************************)
(* The assertion at Service.cpp:168: a session that is released is in the  *)
(* map.                                                                    *)
(***************************************************************************)
ReleasedSessionIsInMap == ~crashed

(***************************************************************************)
(* Whatever gets through the gate, it is never left shut: while _reading   *)
(* is set, some thread is inside and will clear it.                        *)
(***************************************************************************)
GateHasOwner == reading => \E t \in Threads : pc[t] \in Inside

(***************************************************************************)
(* Sessions and descriptors go together, also while two threads dispatch:  *)
(* a session in the map has an open descriptor, and a connection that was  *)
(* accepted is in the map or about to be, so that none is forgotten open:  *)
(* but for those that could not be made non-blocking, which all are.       *)
(***************************************************************************)
SessionsMatchDescriptors ==
  \A c \in Clients :
    /\ sessionMap[c] = "session" => net[c] = "open"
    /\ net[c] = "open" => \/ sessionMap[c] = "session"
                          \/ \E t \in Threads : pc[t] = "add" /\ fd[t] = c
    /\ net[c] = "accepted" => \E t \in Threads : pc[t] = "register" /\ fd[t] = c

(***************************************************************************)
(* A client that is still there can be dropped.  With one thread there are *)
(* three ways to it: a recv took data without a whole packet, the buffer   *)
(* has no room left, or everything was read and errno, left by some other  *)
(* call, was not EAGAIN, so that the loop read once more.  A client that   *)
(* has been read to the end is never dropped while errno says so.          *)
(***************************************************************************)
Drops(t) == pc[t] = "recv" /\ pc'[t] = "release"

DropHasCause ==
  [][\A t \in Threads : Drops(t) /\ ~peerClosed[fd[t]] =>
       \/ unread'[fd[t]] < unread[fd[t]]
       \/ fd[t] \in full
       \/ errno[t] # "EAGAIN"]_vars

(***************************************************************************)
(* The comment at EpollFD.cpp:17: the registration detects that a          *)
(* connection was closed.  That holds for a client of which epoll still    *)
(* has something to report when nothing is left to read; if its last data  *)
(* and its close came as one event, a stale EAGAIN hides the close.        *)
(***************************************************************************)
CloseDetected ==
  \A c \in Clients :
    net[c] = "open" /\ peerClosed[c] /\ unread[c] = 0 /\ c \in ready ~> net[c] = "closed"

(***************************************************************************)
(* Data that arrived, even before the connection was accepted, is read or  *)
(* the connection closed, unless one of two things happened.  Its          *)
(* descriptor could not be registered.  Or its last edge was used up with  *)
(* a rest left: on the connection itself, when a recv had no room for all  *)
(* of it and a stale EAGAIN ended the loop; or on the listener, when the   *)
(* accept loop ended early.                                                *)
(***************************************************************************)
DataIsTaken ==
  \A c \in Clients :
    unread[c] > 0 ~> \/ unread[c] = 0
                     \/ net[c] \in {"closed", "refused", "leaked"}
                     \/ c \in cut
                     \/ net[c] = "backlog" /\ Listener \in cut

(***************************************************************************)
(* The service goes on dispatching, unless the assertion stopped it.       *)
(***************************************************************************)
DispatchGoesOn == <>crashed \/ []<>(\E t \in Threads : pc[t] = "wait")

=============================================================================
