---------------------------- MODULE SendBuffers ----------------------------
(***************************************************************************)
(* CoreLib/SendBuffer: packets are written into chunks.  Each thread has a *)
(* current chunk, from which it cuts one SendBuffer after the other        *)
(* without a lock; a chunk that is too full is let go of and another one   *)
(* taken from the pool.  Every SendBuffer holds a reference to its chunk,  *)
(* and a chunk goes back to the pool with its last reference, in whichever *)
(* thread that goes.                                                       *)
(*                                                                         *)
(* References are counted by shared_ptr: a chunk is held while a thread or *)
(* a buffer names it, and the step that takes the last one away notices.   *)
(* Of the references to one SendBuffer, in jobs and in sessions, only that *)
(* there is one counts.                                                    *)
(***************************************************************************)
EXTENDS Integers, Sequences

CONSTANTS
  Threads,
  Chunks,      \* the chunks there may be; the code makes them when the pool is empty
  Buffers,     \* the SendBuffers that may live at a time
  NoChunk, NoBuffer,
  ChunkSize,   \* SEND_BUFFER_CHUNK_SIZE
  Sizes        \* the sizes of packets

ASSUME NoneAssumption == NoChunk \notin Chunks /\ NoBuffer \notin Buffers
ASSUME SizeAssumption == ChunkSize \in Nat /\ Sizes \subseteq 1..ChunkSize

VARIABLES
  chunks,      \* _sendBufferChunks of the manager
  made,        \* history: the chunks that were made
  isOpen,      \* isOpen[c]: _open
  usedSize,    \* usedSize[c]: _usedSize
  owner,       \* owner[b]: _owner, or NoChunk while b is not alive
  at, size,    \* the part of the chunk that b has
  crashed,     \* has an ASSERT_CRASH failed or a null buffer been used?
  (* Each thread: *)
  pc,
  local,       \* LSendBufferChunk
  popped,      \* the chunk that Pop returned
  dying,       \* the chunk whose last reference went in this thread
  request,     \* the size asked for
  buffer       \* the buffer that is being made

pool   == <<chunks, made>>
chunk  == <<isOpen, usedSize>>
bufs   == <<owner, at, size>>
locals == <<local, popped, dying, request, buffer>>
vars   == <<pool, chunk, bufs, crashed, pc, locals>>

Places == {"idle", "test", "pop", "assign", "pushOld", "reset", "open", "close", "push"}

Goto(t, from, to) ==
  /\ ~crashed
  /\ pc[t] = from
  /\ pc' = [pc EXCEPT ![t] = to]

FreeSize(c) == ChunkSize - usedSize[c]

Alive(b) == owner[b] # NoChunk

Elems(s) == {s[i] : i \in 1..Len(s)}

\* Does anybody hold c but thread t's LSendBufferChunk, or but the buffer b?
HeldWithoutLocal(c, t) ==
  \/ \E u \in Threads \ {t} : local[u] = c
  \/ \E u \in Threads : popped[u] = c
  \/ \E b \in Buffers : owner[b] = c

HeldWithoutBuffer(c, b) ==
  \/ \E u \in Threads : local[u] = c \/ popped[u] = c
  \/ \E a \in Buffers \ {b} : owner[a] = c

-----------------------------------------------------------------------------
Init ==
  /\ chunks = <<>>
  /\ made = {}
  /\ isOpen = [c \in Chunks |-> FALSE]
  /\ usedSize = [c \in Chunks |-> 0]
  /\ owner = [b \in Buffers |-> NoChunk]
  /\ at = [b \in Buffers |-> 0]
  /\ size = [b \in Buffers |-> 0]
  /\ crashed = FALSE
  /\ pc = [t \in Threads |-> "idle"]
  /\ local = [t \in Threads |-> NoChunk]
  /\ popped = [t \in Threads |-> NoChunk]
  /\ dying = [t \in Threads |-> NoChunk]
  /\ request = [t \in Threads |-> 0]
  /\ buffer = [t \in Threads |-> NoBuffer]

-----------------------------------------------------------------------------
(***************************************************************************)
(* SendBufferManager::Open, called by MakeSendBuffer with the size of a    *)
(* packet.  The name of the buffer is reserved here, which bounds how many *)
(* there are; it comes to life when the chunk is opened.                   *)
(***************************************************************************)
MakeSendBuffer(t, b, n) ==
  /\ ~Alive(b) /\ \A u \in Threads : buffer[u] # b
  /\ Goto(t, "idle", IF local[t] = NoChunk THEN "pop" ELSE "test")
  /\ request' = [request EXCEPT ![t] = n]
  /\ buffer' = [buffer EXCEPT ![t] = b]
  /\ UNCHANGED <<pool, chunk, bufs, crashed, local, popped, dying>>

TestFreeSize(t) ==
  /\ Goto(t, "test", IF FreeSize(local[t]) < request[t] THEN "pop" ELSE "open")
  /\ crashed' = isOpen[local[t]]
  /\ UNCHANGED <<pool, chunk, bufs, locals>>

(***************************************************************************)
(* Pop: the last chunk of the pool, under the lock, or a new one.          *)
(***************************************************************************)
PopLeaving(t, rest) ==
  /\ chunks # <<>>
  /\ Goto(t, "pop", "assign")
  /\ popped' = [popped EXCEPT ![t] = chunks[Len(chunks)]]
  /\ chunks' = rest
  /\ UNCHANGED <<made, chunk, bufs, crashed, local, dying, request, buffer>>

\* Mutant: the chunk is copied and stays in the pool.
PopKept(t) == PopLeaving(t, chunks)

Pop(t) == PopLeaving(t, SubSeq(chunks, 1, Len(chunks) - 1))

NewChunk(t) ==
  /\ chunks = <<>>
  /\ Goto(t, "pop", "assign")
  /\ \E c \in Chunks \ made :
       /\ made' = made \union {c}
       /\ popped' = [popped EXCEPT ![t] = c]
  /\ UNCHANGED <<chunks, chunk, bufs, crashed, local, dying, request, buffer>>

(***************************************************************************)
(* The assignment to LSendBufferChunk takes a reference to the old chunk   *)
(* away; if it was the last, the deleter runs before Reset does.           *)
(***************************************************************************)
Assign(t) ==
  LET old  == local[t]
      last == old # NoChunk /\ ~HeldWithoutLocal(old, t)
  IN /\ Goto(t, "assign", IF last THEN "pushOld" ELSE "reset")
     /\ local' = [local EXCEPT ![t] = popped[t]]
     /\ popped' = [popped EXCEPT ![t] = NoChunk]
     /\ dying' = [dying EXCEPT ![t] = IF last THEN old ELSE NoChunk]
     /\ UNCHANGED <<pool, chunk, bufs, crashed, request, buffer>>

Reset(t) ==
  /\ Goto(t, "reset", "open")
  /\ isOpen' = [isOpen EXCEPT ![local[t]] = FALSE]
  /\ usedSize' = [usedSize EXCEPT ![local[t]] = 0]
  /\ UNCHANGED <<pool, bufs, crashed, locals>>

(***************************************************************************)
(* SendBufferChunk::Open with its assertion; without room it returns a     *)
(* null pointer that the caller uses.                                      *)
(***************************************************************************)
Open(t) ==
  LET c == local[t] IN
  /\ Goto(t, "open", "close")
  /\ crashed' = (isOpen[c] \/ request[t] > FreeSize(c))
  /\ isOpen' = [isOpen EXCEPT ![c] = TRUE]
  /\ owner' = [owner EXCEPT ![buffer[t]] = c]
  /\ at' = [at EXCEPT ![buffer[t]] = usedSize[c]]
  /\ size' = [size EXCEPT ![buffer[t]] = request[t]]
  /\ UNCHANGED <<pool, usedSize, locals>>

(***************************************************************************)
(* SendBuffer::Close with the size of the packet, and the buffer is handed *)
(* to a job or to a session.  The packet is written into it after that.    *)
(***************************************************************************)
CloseAt(t, open, used) ==
  LET c == owner[buffer[t]] IN
  /\ Goto(t, "close", "idle")
  /\ crashed' = ~isOpen[c]
  /\ isOpen' = [isOpen EXCEPT ![c] = open]
  /\ usedSize' = [usedSize EXCEPT ![c] = used]
  /\ buffer' = [buffer EXCEPT ![t] = NoBuffer]
  /\ request' = [request EXCEPT ![t] = 0]
  /\ UNCHANGED <<pool, bufs, local, popped, dying>>

Used(t) == usedSize[owner[buffer[t]]]

\* Mutants: the chunk stays open; one byte too few is counted.
CloseKeptOpen(t)  == CloseAt(t, TRUE, Used(t) + request[t])
CloseUncounted(t) == CloseAt(t, FALSE, Used(t) + request[t] - 1)

Close(t) == CloseAt(t, FALSE, Used(t) + request[t])

(***************************************************************************)
(* The last reference to a buffer goes: a job is through, or a session     *)
(* clears what it sent.                                                    *)
(***************************************************************************)
Release(t, b) ==
  LET c    == owner[b]
      last == ~HeldWithoutBuffer(c, b)
  IN /\ Alive(b) /\ \A u \in Threads : buffer[u] # b
     /\ Goto(t, "idle", IF last THEN "push" ELSE "idle")
     /\ owner' = [owner EXCEPT ![b] = NoChunk]
     /\ at' = [at EXCEPT ![b] = 0]
     /\ size' = [size EXCEPT ![b] = 0]
     /\ dying' = [dying EXCEPT ![t] = IF last THEN c ELSE NoChunk]
     /\ UNCHANGED <<pool, chunk, crashed, local, popped, request, buffer>>

(***************************************************************************)
(* PushGlobal, the deleter of a chunk.                                     *)
(***************************************************************************)
PushGlobal(t) ==
  /\ \/ Goto(t, "pushOld", "reset")
     \/ Goto(t, "push", "idle")
  /\ chunks' = Append(chunks, dying[t])
  /\ dying' = [dying EXCEPT ![t] = NoChunk]
  /\ UNCHANGED <<made, chunk, bufs, crashed, local, popped, request, buffer>>

-----------------------------------------------------------------------------
Next ==
  \E t \in Threads :
    \/ \E b \in Buffers : Release(t, b) \/ \E n \in Sizes : MakeSendBuffer(t, b, n)
    \/ TestFreeSize(t) \/ Pop(t) \/ NewChunk(t) \/ Assign(t) \/ Reset(t)
    \/ Open(t) \/ Close(t) \/ PushGlobal(t)

Safety == Init /\ [][Next]_vars

-----------------------------------------------------------------------------
TypeOK ==
  /\ chunks \in Seq(Chunks)
  /\ made \in SUBSET Chunks
  /\ isOpen \in [Chunks -> BOOLEAN]
  /\ usedSize \in [Chunks -> 0..ChunkSize]
  /\ owner \in [Buffers -> Chunks \union {NoChunk}]
  /\ at \in [Buffers -> 0..ChunkSize]
  /\ size \in [Buffers -> 0..ChunkSize]
  /\ crashed \in BOOLEAN
  /\ pc \in [Threads -> Places]
  /\ local \in [Threads -> Chunks \union {NoChunk}]
  /\ popped \in [Threads -> Chunks \union {NoChunk}]
  /\ dying \in [Threads -> Chunks \union {NoChunk}]
  /\ request \in [Threads -> 0..ChunkSize]
  /\ buffer \in [Threads -> Buffers \union {NoBuffer}]

(***************************************************************************)
(* No packet is written over another: buffers that live at the same time,  *)
(* whoever made and whoever holds them, have parts of their chunks that do *)
(* not meet and do not reach over the end.  In particular a chunk is not   *)
(* reset while a buffer of it waits to be sent.                            *)
(***************************************************************************)
BuffersApart ==
  \A a, b \in Buffers :
    Alive(a) =>
      /\ at[a] + size[a] <= ChunkSize
      /\ a # b /\ owner[a] = owner[b] => \/ at[a] + size[a] <= at[b]
                                         \/ at[b] + size[b] <= at[a]

(***************************************************************************)
(* A chunk is in one hand: of one thread, or once in the pool and then     *)
(* held by nobody.  A thread works on its chunk without a lock.            *)
(***************************************************************************)
InHand(c, t) == local[t] = c \/ popped[t] = c \/ dying[t] = c

ChunkInOneHand ==
  /\ \A i, k \in 1..Len(chunks) : chunks[i] = chunks[k] => i = k
  /\ \A c \in Elems(chunks) :
       /\ \A t \in Threads : ~InHand(c, t)
       /\ \A b \in Buffers : owner[b] # c
  /\ \A c \in Chunks : \A t, u \in Threads : InHand(c, t) /\ InHand(c, u) => t = u

(***************************************************************************)
(* No chunk leaks: one that was made is in the pool, in the hand of a      *)
(* thread, or kept by a buffer that lives.                                 *)
(***************************************************************************)
NoChunkLost ==
  \A c \in made : \/ c \in Elems(chunks)
                  \/ \E t \in Threads : InHand(c, t)
                  \/ \E b \in Buffers : owner[b] = c

(***************************************************************************)
(* Together: whatever threads hand out and give back at the same time,     *)
(* every chunk is accounted for, and in the hand of one thread at most.    *)
(***************************************************************************)
ChunksAccountedFor == ChunkInOneHand /\ NoChunkLost

(***************************************************************************)
(* The assertions of SendBuffer.cpp hold and Open never comes back without *)
(* a buffer: a chunk is not opened twice, and a chunk is changed in time.  *)
(***************************************************************************)
AssertionsHold == ~crashed

=============================================================================
