------------------------------ MODULE SendPath ------------------------------
(***************************************************************************)
(* The sending side of one Session: _sendBuffers, which PushBuffer fills   *)
(* and which Send hands to sendmsg and clears.  Jobs of two threads, and   *)
(* the room task, send to the same session.                                *)
(*                                                                         *)
(* A block under WriteLockGuard is one step.  Send has three of them, and  *)
(* reads the size of the queue between the first two, without the lock.    *)
(* A buffer is the number of its arrival in the queue.  What a client gets *)
(* is a sequence of whole buffers; Garbled stands for anything else.       *)
(***************************************************************************)
EXTENDS Integers, Sequences, SequencesExt

CONSTANTS
  Threads,
  MaxBuffers     \* bound: how many buffers there will be

ASSUME BoundAssumption == MaxBuffers \in Nat

Garbled == 0

VARIABLES
  sendBuffers,   \* _sendBuffers
  connected,     \* _connected
  pc,
  size, iov,     \* the locals of Send
  stream,        \* what went into the socket
  (* History: *)
  buffers,       \* how many buffers were put into the queue
  lost,          \* buffers that sendmsg did not take, or a disconnect dropped
  raced,         \* was a Send that had read the size disturbed before it had cleared the queue?
  overrun        \* was iov written past its end?

vars == <<sendBuffers, connected, pc, size, iov, stream, buffers, lost, raced, overrun>>

Goto(t, from, to) == pc[t] = from /\ pc' = [pc EXCEPT ![t] = to]

Buffers == 1..MaxBuffers

\* Another thread has read the size of the queue and has not cleared it yet.
Window(t) == \E u \in Threads \ {t} : pc[u] \in {"fill", "sendmsg", "clear"}

Init ==
  /\ sendBuffers = <<>>
  /\ connected = TRUE
  /\ pc = [t \in Threads |-> "idle"]
  /\ size = [t \in Threads |-> 0]
  /\ iov = [t \in Threads |-> <<>>]
  /\ stream = <<>>
  /\ buffers = 0
  /\ lost = {}
  /\ raced = FALSE
  /\ overrun = FALSE

-----------------------------------------------------------------------------
PutInto(t, queue) ==
  /\ buffers < MaxBuffers
  /\ buffers' = buffers + 1
  /\ sendBuffers' = queue
  /\ raced' = (raced \/ Window(t))

PushAs(t, queue) ==
  /\ Goto(t, "idle", "idle")
  /\ PutInto(t, queue)
  /\ UNCHANGED <<connected, size, iov, stream, lost, overrun>>

\* Mutant: what is only pushed goes before what is sent.
PushBufferInFront(t) == PushAs(t, <<buffers + 1>> \o sendBuffers)

PushBuffer(t) == PushAs(t, Append(sendBuffers, buffers + 1))

IsConnected(t) ==
  /\ connected
  /\ Goto(t, "idle", "push")
  /\ UNCHANGED <<sendBuffers, connected, size, iov, stream, buffers, lost, raced, overrun>>

SendPush(t) ==
  /\ Goto(t, "push", "size")
  /\ PutInto(t, Append(sendBuffers, buffers + 1))
  /\ UNCHANGED <<connected, size, iov, stream, lost, overrun>>

ReadSize(t, n) ==
  /\ Goto(t, "size", "fill")
  /\ size' = [size EXCEPT ![t] = n]
  /\ raced' = (raced \/ Window(t))
  /\ UNCHANGED <<sendBuffers, connected, iov, stream, buffers, lost, overrun>>

\* Mutant: the array does not count the buffer that was just pushed.
SendSizeBefore(t) == ReadSize(t, IF sendBuffers = <<>> THEN 0 ELSE Len(sendBuffers) - 1)

SendSize(t) == ReadSize(t, Len(sendBuffers))

(***************************************************************************)
(* All of the queue is written to iov, which has room for size entries;    *)
(* entries that are not written hold whatever the stack held.  Past the    *)
(* end of iov the behaviour is undefined, and nothing more is claimed.     *)
(***************************************************************************)
SendFill(t) ==
  /\ Goto(t, "fill", "sendmsg")
  /\ iov' = [iov EXCEPT ![t] = [i \in 1..size[t] |->
               IF i <= Len(sendBuffers) THEN sendBuffers[i] ELSE Garbled]]
  /\ overrun' = (overrun \/ Len(sendBuffers) > size[t])
  /\ UNCHANGED <<sendBuffers, connected, size, stream, buffers, lost, raced>>

(***************************************************************************)
(* sendmsg takes the first n entries, and perhaps a part of the next.      *)
(***************************************************************************)
Sendmsg(t) ==
  \E n \in 0..size[t], part \in {<<>>, <<Garbled>>} :
    /\ n = size[t] => part = <<>>
    /\ Goto(t, "sendmsg", "clear")
    /\ stream' = stream \o SubSeq(iov[t], 1, n) \o part
    /\ lost' = lost \union {iov[t][i] : i \in (n + 1)..size[t]}
    /\ UNCHANGED <<sendBuffers, connected, size, iov, buffers, raced, overrun>>

SendClear(t) ==
  /\ Goto(t, "clear", "idle")
  /\ sendBuffers' = <<>>
  /\ iov' = [iov EXCEPT ![t] = <<>>]
  /\ size' = [size EXCEPT ![t] = 0]
  /\ raced' = (raced \/ Window(t))
  /\ UNCHANGED <<connected, stream, buffers, lost, overrun>>

\* The thread that dispatches clears the queue without the lock.
Disconnect(t) ==
  /\ Goto(t, "idle", "idle")
  /\ connected
  /\ connected' = FALSE
  /\ sendBuffers' = <<>>
  /\ lost' = lost \union ToSet(sendBuffers)
  /\ raced' = (raced \/ Window(t))
  /\ UNCHANGED <<size, iov, stream, buffers, overrun>>

-----------------------------------------------------------------------------
Send(t) == IsConnected(t) \/ SendPush(t) \/ SendSize(t) \/ SendFill(t) \/ Sendmsg(t) \/ SendClear(t)

Next == \E t \in Threads : ~overrun /\ (PushBuffer(t) \/ Send(t) \/ Disconnect(t))

Safety == Init /\ [][Next]_vars

-----------------------------------------------------------------------------
TypeOK ==
  /\ sendBuffers \in Seq(Buffers)
  /\ connected \in BOOLEAN
  /\ pc \in [Threads -> {"idle", "push", "size", "fill", "sendmsg", "clear"}]
  /\ size \in [Threads -> Nat]
  /\ iov \in [Threads -> Seq(Buffers \union {Garbled})]
  /\ stream \in Seq(Buffers \union {Garbled})
  /\ buffers \in 0..MaxBuffers
  /\ lost \subseteq Buffers \union {Garbled}
  /\ raced \in BOOLEAN
  /\ overrun \in BOOLEAN

(***************************************************************************)
(* As long as no thread changes the queue, or reads its size, between the  *)
(* moment at which another has read the size and the moment at which that  *)
(* one clears the queue: what is sent is the whole queue, and fits iov ... *)
(***************************************************************************)
IovIsQueue ==
  ~raced => /\ ~overrun
            /\ \A t \in Threads : pc[t] = "sendmsg" => iov[t] = sendBuffers

(***************************************************************************)
(* ... no buffer is forgotten: it waits, was sent, or was lost because     *)
(* sendmsg did not take it or the session ended ...                        *)
(***************************************************************************)
NoneForgotten ==
  ~raced => 1..buffers \subseteq ToSet(sendBuffers) \union ToSet(stream) \union lost

(***************************************************************************)
(* ... none is sent twice, or after a later one, and what is cut off in    *)
(* the middle was cut by sendmsg.                                          *)
(***************************************************************************)
SentInOrder ==
  ~raced => /\ Garbled \in ToSet(stream) => lost # {}
            /\ \A i, j \in 1..Len(stream) :
                 i < j /\ Garbled \notin {stream[i], stream[j]} => stream[i] < stream[j]

(***************************************************************************)
(* All of that: undisturbed, a Send sends the queue, once and in order.    *)
(***************************************************************************)
QueueIsSent == IovIsQueue /\ NoneForgotten /\ SentInOrder

(***************************************************************************)
(* That far, a session is what OutStream promises.  sendmsg is the moment  *)
(* of the flush: what is sent and not cleared yet no longer waits.         *)
(***************************************************************************)
Waiting == IF \E t \in Threads : pc[t] = "clear" THEN <<>> ELSE sendBuffers

Out == INSTANCE OutStream WITH
  waiting <- Waiting, wire <- stream, Cut <- Garbled

ImplementsOutStream == Out!Init /\ [][raced' \/ Out!Next]_<<Waiting, stream, raced>>

=============================================================================
