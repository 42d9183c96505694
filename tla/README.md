# Verification of BSGameServer

BSGameServer is a small multi-threaded game server for Linux: an epoll loop
accepts clients and reads their packets, a game room keeps players and monsters,
and one main loop, run by two threads, drives both.  This directory holds TLA+
specifications of the parts where the interleaving of the two threads, the order
of events or the arithmetic decides whether the program is correct, TLC
configurations that check them on small instances, and proofs of the most
important invariants for every size, checked by TLAPS.

To check a module: `tlc -config JobQueue.cfg MCJobQueue`; to check a proof:
`tlapm JobQueueProofs.tla`.  Every module is commented with the code it stands
for, and `PROJECT.json` maps each definition to its lines.

## 1. The system

Both threads of the process run `RunTask` (`src/GameBS/main.cpp:18-32`) for ever:

    while (1) { serverRef->Dispatch(); room = getRoom(0); room->Execute(); room->RoomTask(); }

Nothing else runs.  There is no thread per client, no timer thread, and no
orderly shutdown: the code after the loop is not reached.

| Component | State | Operations | Talks to |
|---|---|---|---|
| Dispatch loop, session registry (`CoreLib/Service`, `EpollFD`, `ServerSock`) | `_reading`, `_sessionMap`, `_sessionCount`, `_addrMap`, `_epollEvents` | `Dispatch`, `AcceptClient`, `ReadClient`, `Register`, `AddSession`, `GetSession`, `ReleaseSession` | epoll; sessions; pushes jobs to the room |
| Session, receive side (`CoreLib/Session`, `RecvBuffer`, `BS_GameSession`, `BS_PacketUtils`) | buffer and its two cursors; the player | `ReciveMessage`, `OnRecv`, `HandlePacket` | called by `ReadClient`; pushes jobs to the room |
| Session, send side (`CoreLib/Session`) | `_sendBuffers`, `_connected` | `PushBuffer`, `Send`, `Disconnect` | called by jobs and by the room task |
| Send buffers (`CoreLib/SendBuffer`, `CoreTLS`) | the pool of chunks, each thread's chunk, `_usedSize`, `_open` | `Open`, `Close`, `Pop`, `PushGlobal` | called wherever a packet is made; buffers travel through jobs and sessions |
| Job queue of the room (`CoreLib/JobQueue`) | `_q`, `_qSize` | `Push`, `Execute` | filled by `Dispatch`, run by the main loop |
| Room timer (`BS_GameRoom::RoomTask`) | `_tickTime`, `isLoopTask` | `RoomTask` | runs the monsters |
| Room membership (`BS_GameRoom`) | `_sessionMap` of the room | `AddSession`, `DelSession`, `BroadCast` | jobs of the queue |
| Monsters (`BS_GameRoom`, `BS_Monster_Info`, `BS_MapInfo`) | hp, place, target, attack tick of each monster | `MonsterHit`, `SpanMoster`, `MoveMosters` | jobs, and the room task |
| Read-write lock (`CoreLib/LockUtils`) | one `pthread_rwlock_t` | `WriteLock`, `ReadLock` and their ends | the guards in the other components |
| Packet layouts (`BS_Packet`, `BS_PacketHandler`) | `_pos` and `_size` of the writer | `MakePacket`, `Write`, `size` | send buffers |
| Room manager, threads, sockets, globals | set up once | | |

What is hard here, and what each part must guarantee:

* **Job queue.** `Push` counts first and appends later, `Execute` drains under the
  lock and runs outside of it, and two threads execute at once.  No job may be
  lost, run twice or be overtaken in the queue, and the counter must not drift.
* **Room timer.** The period is checked before the flag is taken, on unsigned
  times.  One thread at a time may move the monsters, and the flag may never be
  left behind.
* **Dispatch loop.** The gate is two loads and a compare-exchange; the array of
  events is shared; the sockets are edge-triggered, and the end of a read is told
  by `errno`.  No edge may be lost, no session and no descriptor may be
  forgotten; which edges can be lost after all, and for what a client that is still there
  can be dropped, is stated by the properties.
* **Monsters.** Hits come from jobs of two threads while the room task moves,
  revives and attacks.  A monster must stay on the map, die and come back, and
  keep its cooldown.
* **Send buffers.** A chunk is shared by buffers that live in queues of other
  threads, is written without a lock, and goes back to the pool in whichever
  thread drops the last reference.  No packet may be written over another one.
* **Sessions.** Partial packets, cursors of a buffer that fills up.  The queue of
  buffers to send is read in two sections of the lock with its size in between; no
  packet may be left out, sent twice or sent late.
* **Descriptor numbers.** A session is found by its number everywhere, the number is
  closed twice, and `accept` gives it out again as soon as it is closed once.  Neither
  close may hit a stranger, no job may act on one, and none may stay in the room for
  good.
* **Packets.** The size of a packet is computed before its fields are written, from
  structures that know names only as pointers, in 16 bits; the writes that do not fit
  are refused and nobody looks.
* **Lock.** Two holds are taken for a read and one is given back.

`PROJECT.json` lists these hazards at their lines, each with the properties that
would catch it, or with the reason why none does yet.

## 2. The modules

| Module | Models | About |
|---|---|---|
| `WorkPool` | what a job queue promises | jobs wait, run once, are done |
| `JobQueue` | `JobQueue::Push`, `Execute` | implements `WorkPool` |
| `RoomTick` | `BS_GameRoom::RoomTask` | flag and period on a clock that wraps |
| `Dispatch` | `ServerService::Dispatch` and what it calls | gate, epoll, sessions |
| `Monster` | `MonsterHit`, `SpanMoster`, `MoveMosters` | one monster, its players, the room task |
| `SendBuffers` | `SendBufferManager`, `SendBufferChunk`, `SendBuffer` | chunks and their references |
| `RecvPath` | `Session::ReciveMessage`, `RecvBuffer`, `BS_GameSession::OnRecv` | a stream cut into packets |
| `Connections` | from `AcceptClient` to `~Session`: registry, room, jobs | sessions and the numbers they are known by |
| `OutStream` | what the sending side of a session promises | whole buffers in their order |
| `SendPath` | `Session::PushBuffer`, `Send`, `Disconnect` | implements `OutStream` unless two threads race |
| `RwMutex` | what a read-write lock promises | many readers or one writer |
| `RwLock` | `LockUtils` over `pthread_rwlock_t` | implements `RwMutex`; its holds |
| `PacketHandler` | `BS_PacketHandler::MakePacket`, `BufferWrite`, the sizes of `BS_Packet` | packets filled field by field |
| `JobQueueProofs`, `RoomProofs`, `ReceiveProofs`, `SendBuffersProofs`, `PacketHandlerProofs`, `ConnectionsProofs`, `SendPathProofs`, `RwLockProofs` | | the theorems; `RoomProofs` is of `RoomTick` and `Monster`, `ReceiveProofs` of `Dispatch` and `RecvPath` |
| `MC*` | | instances for TLC |

Conventions.  `pc[t]` is the place of thread `t`, named after what it does next;
`Goto(t, from, to)` is the move from one place to another (`RoomTick` and `RecvPath`, which
are proved about beside another component, have names of their own for these: `at`,
`TaskGoto`, `stage`, and a prefix at `Spec` and its parts).  Every access to
memory that another thread writes is a step of its own, unless a lock makes a
block of them one.  A definition whose comment begins with "Mutant" is not part
of the specification: it is a variant with a plausible bug, kept to show that
the property it is listed with in `PROJECT.json` notices that bug.

### JobQueue

`q` is `_q`, `qSize` is `_qSize`; `jobs[t]` and `jobCount[t]` are the locals of
`Execute`.  `PushCount` is the increment of `_qSize` that precedes the lock,
`PushAppend` the append under it.  `Drain` is the whole locked block of `Execute`.
`StartJob` and `FinishJob` bracket a job, and `Subtract` takes the number of jobs
off the counter.  History variables give each job a ticket when it is appended.  A
job is a name: what it does is up to the room.  `WorkPool` is the abstract
specification; the run checks that `JobQueue` implements it, liveness included.

### RoomTick

`tickTime` and `isLoopTask` are the fields, `taskTick[t]` the local.  The steps of
`RoomTask` are the read of the clock, the comparison (`Since` is the 64-bit
difference), the load of the flag, the compare-exchange, the task, the second
read of the clock, the store and the exchange that frees the flag.  Times count
modulo `Modulus` and the clock wraps.  The period is not checked again once the
flag is taken, so that a thread that comes late to the flag can run the task a
second time within a period; what is claimed is that a check nobody's store has
outdated since is kept.

### Dispatch

`reading`, `sessionMap`, `epollEvents` are the fields;
`isReading`, `eventCount`, `idx`, `fd` the locals; `errno[t]` the thread's
`errno`.  The kernel is an external part: a backlog, unread data, a close by the
peer, and the ready list of an edge-triggered epoll, of which `TakeEvents`
returns what is still readable, each descriptor once and in any order.  `CheckReading` is the compare-exchange against
the value of the first load, as the code has it.  `GetSession` leaves a null entry
behind, as `operator[]` does.  `RunRoom` stands for the jobs between two calls,
whose system calls may leave any `errno`.

`Accept` goes on until `accept` fails: because there is nothing more to accept
(`NoMoreToAccept`), or for any other reason and with connections still waiting
(`AcceptFails`).  A connection that cannot be made non-blocking stays open and unregistered
for good (`SetNonBlockFails`, state `leaked`).  The data of a client is a number of pieces.
`ReceiveData` takes some of them and handles a packet at least, `ReceivePartial` takes some
and finds no whole packet, which drops the client, and `ReceiveFails` takes none: everything
was read, or the buffer has no room (`full`).  What makes a buffer full or a packet partial
is in `RecvPath`.  `cut` is history: descriptors whose last edge was used up with a rest left.

A client connects once, and a descriptor number is not used again; numbers that are, what
they do to `_sessionCount`, and the two jobs that a release pushes, are the matter of
`Connections`.

### Connections

The module composes the loop of `Dispatch`, with the gate working, the batches of
`JobQueue`, the registry of the service, the room and the destructor of `Session`.
`socket[n]` is the connection that is open under number `n`, `fd[s]` is `_socketFd`,
`registry` and `members` are the two maps called `_sessionMap`, `sessionCount` is
`_sessionCount`, `session[t]` is the local `shared_ptr` of `Register` or `ReadClient`.  As in `SendBuffers`, references are
found and not counted: `Held` is everything that refers to a session, and a step that
takes the last reference away also runs `~Session` (`Destroy`), which closes the number
whoever has it now.  `Accept` takes the lowest number that is free, as the kernel does.
`ReleaseSession` is the failed read with all of `ReleaseSession`, the counter included
(`ReleaseCounted`), and the first of the two jobs, `PushDelSession` the second.
`RunJob` is one job: `AddSession` puts the session into the room under its number, `DelSession` erases the number, `BroadcastAnother`
carries a number only.  `shown[s]` is what the client of `s` has been told.

The code is not right for every history, and three history variables say where it is.
`early` are sessions accepted under a number whose former session was still alive: it
will be closed by the destructor of the former.  `overtaken` are sessions whose
`DelSession` ran in one thread while their `AddSession` was still waiting in the batch
of the other: these stay in the room for good.  `overlapped` says that two threads had
jobs at the same time.  The properties are claimed outside of these histories, and
inside of them the model shows the following, of which no document of the repository
says anything:

* the destructor of a released session closes the connection of the session that has
  its number now; that one stays in the registry without a connection, until the
  next session with the number replaces it there, is thus the next victim, and so on;
* that replacement is counted as an addition (`Service.cpp:136-137`), and what it replaces
  is never released: `_sessionCount` stays too high by one for each of them, also with one
  thread.  `CountDriftsOnlyEarly` bounds the drift by the early sessions that are gone;
* a session whose jobs overtook each other stays in the room and is never destroyed.

### SendPath

`sendBuffers` and `connected` are the fields; `size[t]` and `iov[t]` are the locals of
`Send`.  The buffers are numbered as they come, and `Garbled` is the part of a buffer that
a partial `sendmsg` took, or an entry of the array that was not filled.  `SendSize` reads the size
that is read without the lock, `SendFill` is the first locked block, `Sendmsg` the call, which
takes all of the array, a part of it or nothing, `SendClear` the last block, which clears the
queue in each case.  A partial send thus leaves a gap in the stream of packets, which
nothing tells the client; `lost` is what fell into it.  `raced` becomes true when another
thread changes the queue, or reads its size, between the `SendSize` and the `SendClear` of one
thread.  Then buffers are lost, sent twice, or written past the end of the array
(`overrun`), all of which the model shows; every property is of the histories without a
race.  A race needs the jobs of two threads, or a job and the room task, to send to one
client at the same time.

### RwLock

`holds` and `writer` are the state of the `pthread_rwlock_t`, which is external.  `TryRdlock`
and `TryWrlock` end the loop on the try, `Rdlock` and `Wrlock` are the blocking calls that
follow, `ReadUnLock` and `WriteUnLock` one unlock.  The `wrlock` of the thread that has the
lock already fails with `EDEADLK`, as the comment of `LockUtils.cpp:37` expects, and the
writer is alone.  The `rdlock` of a reader succeeds, so that every section of a reader
leaves a hold behind: after the first one no writer gets in any more, of which
no document speaks and which `OneHoldLeftBehind` counts.  `AddSession` and
`ReleaseSession` of the service write, `Broadcast` reads, and nothing calls `Broadcast`
so far.

A thread that spins on a try can always come at the wrong time, so that nobody is promised
to get in.  `WaitsOnlyForOthers` says what is left: the lock never stands still.  Who
tries for ever is passed by other writers that get in and out, again and again, or is a
writer that waits for a hold that a reader left behind.

### Monster

One monster, on a line.  A hit is six steps (`MonsterHit`, `LoadHp`,
`TakeDemage`, `Die`, `DieUnit`, `SetAttackPlayerUUid`), since `_hp -= demage` is a
load and a store and nothing locks the monster.  The room task (`BeginTask` to
`Stroll`) is run by one thread at a time, which `RoomTick` shows.  The random yaw
is any step; the plane is a line because the code treats the two axes alike.
`NullSession` is the dereference of a null pointer that `operator[]` makes if the
session of the target leaves between the two look-ups.  The second `InRect` of
`MoveTarget` chooses the packet to be sent and nothing else, and is left out.

Four variables are history.  `hitBy[p]` is whose hit with number `p` was the last since the
monster came up: `AddSession` makes the `holder` of the number a `former` one, since the
newcomer has not hit anybody, and a hit whose job waited may be of either.  `rest` is
how many rounds are to pass before the next attack.  `mixed` is set when two hits, or a
hit and a respawn, overlap, and `disturbed` when a player leaves or moves under the round
that goes for it; the other jobs may go on during a round, and during a hit.  Two comments of
the code say what it does not do and no run checks: the place is reset where
`BS_GameRoom.cpp:197` says that it is not, and a stroll clears a local and not the
target that `BS_GameRoom.cpp:237` speaks of.

### SendBuffers

`chunks` is the pool, `local[t]` is `LSendBufferChunk` of the thread, `isOpen` and
`usedSize` are the fields of a chunk; a buffer has an `owner`, an offset `at` and a
`size`.  References are not counted but found: a chunk is held while some thread
or buffer names it, and the step that takes the last one away runs the deleter,
`PushGlobal`, in that thread; also in the middle of `Open`, where the assignment
to `LSendBufferChunk` can drop the last reference to the old chunk.  A buffer that
was handed on is released by any thread at any time.

### RecvPath

`readPos`, `writePos` and `buffer` are the fields of `RecvBuffer`.  A byte is named
by its place in the client's stream, so that the buffer can be compared with the
stream; `size[p]` is the size that a header at byte `p` says, `packets` the places where the client
began its packets.  `ReadClient` begins the loop of `ServerService::ReadClient`: it ends when a
`ReciveMessage` fails, or when one succeeds while `errno` says `EAGAIN` (`again`), from
whatever earlier call.  `Recv` is the `recv` and `OnWrite` of `ReciveMessage`, `HandlePacket` one
turn of the loop of `OnRecv`, `OnRead` the rest of it with `Clean`, or the disconnect that a read
without a whole packet ends in.  `RecvFails` is a `recv` that returns 0 or -1, on a drained
socket too, and disconnects in each case.

Nothing checks the size in a header.  `Sizes` may have any number in it.  One that is
smaller than the header makes `OnRecv` look for the next header inside of the packet, where
the client meant none to be; `ReadHeader` then takes what stands there for any size.  A size
of 0 handles the same packet for ever, and since the thread is inside of the gate, the
other one does not get in either: `OnRecvEnds` says that no other size does this, and
`Dispatch`, whose `DispatchGoesOn` is of clients that send no such packet, leaves it out.

`SendPacket`, `Arrive` and `ClientCloses` are the client and the network, which cuts the stream anywhere.  `bufferSize` is 0, as in the code:
`Clean` never moves what is left to the front, and a partial packet that stays where
it is ends the connection when the buffer is full.  What `HandlePacket` does with a
packet is left out.

### PacketHandler

Of a field only its length counts.  `Fields` lists them in the order of the `Write`s
of each overload of `MakePacket`, `Size` is the `size()` of the structures.
`MakePacket` computes the size and opens the buffer, `WriteCount` writes the number
of entries that precedes a list, `WriteField` one field; `NextPart` goes from the
players of a load to its monsters.  `refused` and `nameBytes` are history.  All sizes
are 16 bits wide, the difference in `FreeSize` included.  Sizes wrap in
two places: that of the data (a text of 65527 bytes, 1639 players) and that of the packet with
its header (a text of 65523 to 65526 bytes).  In the first case all that does not fit is
refused and the buffer stays whole; in the second the buffer is smaller than what is written
into it, which `WritesStayInBuffer` excepts.  `PacketsComplete` is of packets whose size has
16 bits (`Fits`).

`size()` counts a pointer of 8 bytes and padding in the place of a name.  As long as the names of
a packet are together no longer than that, everything is written.  If they are longer, the
first field that no longer fits is missing, whichever it is, and each later one that does not
fit: in the message about one player that is the name (more than 24 bytes), in a load with
two players and two monsters it can as well be the place of a monster, with the length of its
name written and shorter fields behind it.

## 3. The runs

| Run | Threads and data | Shows |
|---|---|---|
| `job_queue` | 2 threads, 4 jobs | no job is lost, doubled or overtaken, a thread keeps the order, the counter is exact, `WorkPool` is implemented |
| `room_tick` | 3 threads, period 1, modulus 7 | exclusion, the flag has an owner, a check that is not outdated is kept, the task runs for ever |
| `dispatch_two` | 2 threads, 1 client | epoll_wait is called again and again, the loop over the events stays inside the array, sessions match descriptors |
| `dispatch_one` | 1 thread, 2 clients, calls that fail | a client that is there is dropped for three causes only, data is left lying only where an edge was used up with a rest left or a registration failed, a close that epoll reports on its own is seen |
| `dispatch_assert` | 2 threads, 1 client | **violation**: the assertion of `ReleaseSession` fails |
| `monster` | 2 threads, 1 player | the task is safe (no null session, no place off the map) unless its player leaves or moves under it, the monster lives while it has hp unless hits overlap, keeps its cooldown, chases only numbers that hit it, comes back |
| `send_buffers` | 2 threads, 3 buffers, 5 chunks | packets never share bytes, a chunk is in one hand, none leaks, no assertion fails |
| `recv_path` | 1 session, 8 bytes, buffer of 4, sizes 0 to 3 | no byte is lost between reads, packets are handled as sent and as soon as they are whole, a session is dropped for four reasons only, only a size of 0 holds the thread |
| `packet_handler` | all kinds of packets, lists of 0 to 2 | writes stay in the buffer unless the size of the packet wraps, a packet misses a field exactly if its names are too long together |
| `connections` | 2 threads, 2 numbers, 3 connections | nothing stays open unregistered, a registered session keeps its connection, the counter drifts by early sessions only, members are registered or leave and stay until then, players know each other, the released are destroyed |
| `send_path` | 2 threads, 4 buffers | what is sent is the queue, nothing is forgotten, the order is kept, `OutStream` is implemented |
| `rw_lock` | 3 threads, 3 reads | `RwMutex` is implemented, who waits for ever waits for others that get in and out, or for a hold left behind |

Where two invariants are the halves of one statement (a job is in one place, and in no
less than one), a run checks their conjunction, and the theorems are of each half and of
both together.  Every module of a component has a theorem about its types; the runs check them too for
`Dispatch`, `Monster` and `RecvPath`.

### The disagreement, and two remarks

The violation is of an assertion of the repository.  `Service.cpp:94` compares and
exchanges against the first load.  A thread that loaded `true`, tested `false` and
exchanges while the gate is taken again goes inside beside the owner.  Both read the
same socket, both find it failed, and the second `ReleaseSession` violates the assertion
of `Service.cpp:168`.

Two comments of the code are true with a restriction, which a passing run states.

* `EpollFD.cpp:17` says that the registration detects a connection that was closed.
  `Service.cpp:64` looks at `errno` after a `recv` that succeeded.  With a stale `EAGAIN`
  the loop ends before the close is seen, and a client whose last data and close arrive
  as one event stays for ever; `CloseDetected` holds of every other.
* `RecvBuffer.cpp:28` compares the room with `_bufferSize`, which nothing sets: it stays
  0, and data is never moved to the front of the buffer although the comment of line 27
  says so.  In the end `recv` is called with no room, and its 0 is taken for a close.

No comment says when a client may be dropped, so that what follows is a statement of what
the code does, and no disagreement.  A client that is still there is dropped, in
`Dispatch` for one of the three causes of `DropHasCause` and in `RecvPath` for one of those
three reasons of `DropHasReason` that are not its own close: a `recv` did not complete a packet;
the buffer is full; or everything was read, and `errno` said something other than `EAGAIN`,
so that the loop called `recv` once more and took its -1 for a failure.  The last is what
happens to every client whose packets are read by a thread whose last failing call
failed with another error, or that has had none.  And data is left unread, until the client
sends more, where an edge was used up with a rest left (`cut`): a `recv` without room for
all of it and a stale `EAGAIN`, or an `accept` loop that ended early.

### Bounds, and why they are enough

* Two threads are what `main` starts, so that interleavings are complete; three in
  `RoomTick`, where one more can be between the check and the flag.
* Four jobs let one thread hold a batch of two while another drains the queue
  again, with a push between.
* Of the clients, one is enough for the two threads to collide on, and two for a
  registration to race with a read and a refused one to leave another in the
  backlog.  `MaxUnread` 2 lets a `recv` take a part of the data, or all of it.
  `DropHasCause`, `DataIsTaken` and `CloseDetected` are of one thread only: a second one
  inside can read away what the first was told of.
* `Modulus` 7 with `Horizon` 3 has a clock that wraps and readings that lie before
  `_tickTime`; `Horizon` bounds how late a thread may be.
* `Edge` 2 with steps of 1 has a monster away from, next to and at the edge, and a
  player place beyond it; `MaxHp` 2 has a hit that kills and one that does not;
  `Overkill` bounds how far hits drive the hp below zero.  Without that bound the
  hp has no lower end, since hits on a dead monster are counted.
* Chunks of 3 with packets of 1 and 2 have chunks that are full, that have room for
  a small packet only, and packets that do not fit; three buffers and two threads
  can hold five chunks, so that making one is never refused by the bound.
* A buffer of 4, a header of 2 and packets that say 0, 1, 2 or 3: 8 bytes fill the buffer
  twice, leave a partial packet or a part of a header at its end, or take it to its end
  exactly and start again at the front; a size of 1 leads `OnRecv` to a header that is none.
* In `PacketHandler` the names 0, 15, 20, 24, 25 lie on both sides of what one entry of
  a load (15, 19) or a player message (24) has room for, alone and two together; the
  texts 65522, 65523 and 65527 lie on both sides of the lengths at which the size of
  the packet, and then that of the data, wraps; lists of 0, 1, 2 have the loops that
  do not run, run once, and run again.

* Two numbers and three connections have a number that is used again at once, one that
  is used again while the other is in use, and a third connection that gets the number of
  a zombie.  One number would have no other player to tell, and two connections no
  victim after the first.
* Four buffers in `SendPath` let a queue of two be sent while two more come, and a second
  flush follow; a race needs two.
* Three threads in `RwLock` are a writer that waits, one that writes and a reader; three
  reads have holds left behind by two of them while the third begins.

Deadlock is checked except in `dispatch_two`, `monster`, `recv_path`, `send_path` and
`rw_lock`.  In the first two a failed assertion or a null pointer stops the program, which
the model shows as a state without successors; in the next two the session is over, or
everything was sent that the bound lets be sent; in the last everybody may wait for a lock
that a reader has left behind.

### Fairness

Weak fairness of the steps of each thread: the main loop calls
`Dispatch`, `Execute` and `RoomTask` for ever and waits for no other thread (every
lock is held for a few instructions; `epoll_wait` has a timeout).  Two additions:
in `RoomTick` time passes; in `Dispatch` no client sends so fast that a `recv` never takes all
there is, or never finds its connection drained (strong fairness of `ReceiveFails` and, for
each client, of `TakeAll`), since such a client would indeed hold the thread.  In `RecvPath` a
thread that reads the session goes on with it; that it begins, which a lost edge can
prevent, is not assumed, so that `WholePacketsHandled` is of what `recv` took.  In `Connections`
a thread goes on with everything but what a client causes.  In `RwLock` no section lasts for
ever, and a thread that tries gets a lock that stays free: a lock that is free again and again
is not enough, since a try can always be beaten by another.  Clients, players and the network
have no fairness; `packet_handler` and `send_path` claim no liveness.

## 4. The proofs

Each theorem is of `Safety`, for any number of threads and any values of the
constants that satisfy the `ASSUME`s of the module.

| Theorem | States |
|---|---|
| `JobQueueProofs!TypeCorrect`, `OnePlace`, `NoneDropped`, `ExactlyOnePlace`, `NotOvertaken`, `RunsInOrder`, `CounterExact`, `Implements` | the safety properties of `job_queue`, the counter and the safety half of `WorkPool` included |
| `RoomProofs!TaskTypeCorrect`, `Exclusion`, `FlagOwned`, `FlagLocks`, `FreshChecksKeepPeriod` | the safety properties of `room_tick` |
| `RoomProofs!TypeCorrect`, `TaskSafe`, `LifeMatches`, `ChasesNumbers`, `AttacksSpaced` | the safety properties of `monster`, for any map, hit points and players |
| `ReceiveProofs!GateOwned`, `SessionsMatch`, `TypeCorrect`, `DropsHaveCause` | that the gate is never left shut (`GateHasOwner`), sessions and descriptors, the bounds of the loop over the events, and, with one thread, the three causes for which a client that is there is dropped |
| `ReceiveProofs!RecvTypeCorrect`, `StreamStaysIntact`, `DropsHaveReason` | the safety properties of `recv_path`, for any buffer, any sizes in headers, those below the header included, and any way the stream is cut; `PacketsAsSent` is a part of `RecvInv` |
| `SendBuffersProofs!TypeCorrect`, `NothingOverwritten`, `OneHandOnly`, `NothingLeaks`, `ChunksAccounted`, `AssertionsNeverFail` | the properties of `send_buffers` |
| `PacketHandlerProofs!TypeCorrect`, `StaysInBuffer`, `RefusalsForNames`, `FullPackets`, `CompletePackets` | the properties of `packet_handler`, for every length of names, texts and lists |
| `ConnectionsProofs!TypeCorrect`, `NoLeak`, `OpenWhileRegistered`, `RegistryMatches`, `CountDrift`, `MembersAccounted`, `MembersStayInRoom`, `PlayersKnow` | the safety properties of `connections`, what players know of each other included |
| `SendPathProofs!TypeCorrect`, `WholeQueueSent`, `NothingForgotten`, `InOrder`, `SendsTheQueue`, `Implements` | the properties of `send_path`, the implementation of `OutStream` included |
| `RwLockProofs!TypeCorrect`, `MutualExclusion`, `OneHoldLeftBehind`, `Implements` | the implementation of `RwMutex`, `Exclusion`, which it rests on, and `HoldsExact`, how many holds are left behind |

* **JobQueue.** `OrderInv`: the tickets grow along the queue and along every batch,
  everything in a batch is older than everything in the queue, and what a thread
  started is older than what it has left.  `QueueNotOvertaken` alone is not
  inductive: a `Drain` puts jobs into a batch whose order only the tickets remember.
  The same invariant gives the implementation of `WorkPool`: an append submits, the rest
  stutters, and nothing that runs or waits is anywhere else.  `SizeInv` is for the counter:
  a thread outside of `Execute` has taken nothing, so that its batch is new when it is
  taken, and what the counter counts is finite at each moment, also if the threads are
  not.  A batch is counted as a set of pairs of a thread and a number (`Taken`), which
  makes the sum over the threads a cardinality.
* **RoomTick.** `FlagInv`: the flag is set exactly while one thread is inside; that
  somebody and that nobody else is inside hold only together.  The period follows
  from `FreshOK`: a thread that is fresh still has the `_tickTime` it compared with,
  and the clock has only gone on, by less than would bring it round, which is what
  the bound `Horizon` below the modulus is for.
* **Monster.** `OneTask`: one thread at a time is in the room task, which `BeginTask` has
  from `RoomTick`'s `Exclusion`.  `HitterInv`: the target, and whom the round that is under way
  goes for, have a number that hit the monster since it came up; it needs `OneTask`, since a
  respawn and a round are of one thread.  `SpacedInv` relates tick, rest and attacks: while the
  monster attacks its tick says how long it still has to rest, but for the first attack, which
  finds the tick at -1.  `SafeInv`: what the task has checked of its player stays true as long
  as that player does not disturb it (`Sure`), whatever jobs run meanwhile.  `LifeInv`: while
  nothing is mixed, one thread at most is at a hit or a respawn, and knows at each place how
  far hp and hits agree (`LifeOf`).
* **Dispatch.** `GateInv` is inductive as it stands: what sets `_reading` is inside,
  and what leaves clears it.  `SessionInv` adds `Handling`: a connection that is being
  registered is handled by one thread alone, since `accept` hands it out once, and
  who reads or releases had it from the map.  That two threads can be inside does
  not disturb it.
  `TypeInv` adds to the types that the index is within the events while one is handled
  (`InBounds`).  `DropInv`, with one thread: what is left of the events is different
  (`AllDifferent`) and has something to read (`Reported`), because epoll said so and nobody else reads it;
  so a thread that comes to `recv` with `EAGAIN` in `errno` finds data or a close (`NoneStale`).
  What fails without a close took something, had no room, or had another value in `errno`.
  `ReadsSession`, also with one thread: what is read or released is still in the map.
* **RecvPath.** `RecvInv`.  `StreamIntact` alone says nothing of where bytes are taken from:
  `CursorInv` ties the buffer to the number of bytes taken, `StreamInv` says that the
  client's packets follow each other without a gap, and `HandledInv` that what was taken
  is what was handled and what the buffer still has.  Hence the header that `OnRecv` looks
  at is the first byte of a packet, as long as no packet before it says that it is smaller than
  its header (`Sound`).  `CursorInv` also has that a loop which `errno` would end has something
  to read, and `EndInv` that `OnRecv` stops for want of a whole packet: the two give the
  reasons of a drop.
* **SendBuffers.** `PoolInv`.  That packets do not meet rests on where the next one is
  cut: everything closed lies below `_usedSize` (`BelowUsed`), what is open begins
  there (`Cutting`), no second thread cuts from the chunk (`OneHand`, `PoolUnheld`),
  and a chunk that is about to be reset holds no buffer (`TransitUnused`), since it
  comes from the pool and only chunks without holders go there.
* **PacketHandler.** `LoopInv` says where the loops stand, and `BytesInv` what has been
  written.  Between them is `Due`, the bytes that have come up for writing so far
  without the names: each write adds its own to it, and it never exceeds the size
  without the room for names (`DueBound`).  While nothing was refused `pos` is `Due`
  and the names; the first refusal thus shows that the names exceed their room.  That writes
  stay in the buffer does not need this, but that the size of the packet is that of its data
  and the header (`HeaderCounted`), which a wrap of the former alone breaks.
* **Connections.** `LifeInv`.  Who can be alive under a number decides everything:
  sessions are accepted in turn (`InTurn`, `Newest`), the kernel gives a number to the
  latest session that got it (`Latest`), and whoever is younger than a living session of
  its number is early (`Earlier`).  Everything that refers to a session keeps it alive
  (`AliveInv`).  So the session whose destructor closes a number (`NotHit`) is neither
  older than the one that has it, which would be early, nor younger, which would not be
  the latest; and the same for the session a `DelSession` is about.  `Departed`: whoever
  has a `DelSession` to come is not registered any more.
  `CountInv`: an addition that finds its number in the registry replaces a session without a
  connection, which is early by `OpenWhileRegistered` and gone for good after it (`GoneGrows`);
  that one is what the counter counts too much.
  `KnowInv`, for what players know of each other, needs the order of the jobs, which the
  rest does without.  As long as one thread at a time has jobs (`OneBatch`), its batch and
  the queue are one sequence, `Pending`.  In it a `BroadcastAnother` stands directly before
  the `DelSession` of its session (`Paired`), so that nobody joins between them, and no
  session is added twice (`Once`).  What a member was shown is then who is in the room,
  less the one whose `BroadcastAnother` has just run (`MembersKnow`); who has not been
  added yet knows nobody (`FreshKnowNobody`).
* **SendPath.** `QueueInv` holds as long as nothing raced: one thread at a time is between
  the size and the clear (`Alone`), the size is that of the queue, the array is the queue,
  and after `sendmsg` each buffer of the queue is in the stream or lost.  `OrderInv` adds
  that what was sent is older than what waits.  Each step maps to a step of `OutStream`.
* **RwLock.** `LockInv`: `HoldsExact`, that a thread at the second lock has begun a read
  (`Begun`), that the holder for writing is who is there (`WriterIsThere`), and that there
  is one (`OneWriter`).

Model-checked only: liveness (`TaskRunsForEver`, `DispatchGoesOn`, `DataIsTaken`,
`CloseDetected`, `DeadReturns`, `WholePacketsHandled`, `OnRecvEnds`, `ReleasedIsDestroyed`,
`WaitsOnlyForOthers`, the fairness of `WorkPool`), which is out of the prover's reach.  Every
invariant and every action property that a passing run checks has a theorem.

## 5. Not modelled, and the plan

Not modelled: start-up and the straight-line socket calls (`ServerSock`,
`SocketUtils`), the room manager (one room, never erased), the values in packets and
what a handler does with them, `_addrMap` (written and never read), `ThreadManager` beyond its two threads,
`EINTR`, allocation failures.  Containers that two threads change without a lock
(`_sessionMap` of the room, `_sessionMap` of the service in `GetSession`) are
undefined behaviour as a whole; where a single access has a defined wrong outcome it
is modelled, and the others are listed as hazards.

What is left, in this order:

1. The chat and attack packets, and the values in the packets a load sends, which would
   make `PacketHandler` a part of `Connections`; a second load packet of a client, with
   `SetName`.
2. What players know of each other once two threads had jobs at the same time
   (`overlapped`), where `PlayersKnowEachOther` claims nothing: which of the two lists can
   be wrong then, and whether it becomes right again.
3. Two threads inside of the gate together with numbers that are used again, which
   `Dispatch` and `Connections` each have one of.
