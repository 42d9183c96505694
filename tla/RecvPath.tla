------------------------------ MODULE RecvPath ------------------------------
(***************************************************************************)
(* The receive path of one session: the loop of ReadClient around          *)
(* Session::ReciveMessage, with the cursors of RecvBuffer and the framing  *)
(* of BS_GameSession::OnRecv.                                              *)
(*                                                                         *)
(* A byte is named by its place in the stream that the client sends; of    *)
(* what is in it only the size in a header that begins there counts.       *)
(* Nothing checks that size: one of less than the header makes OnRecv look *)
(* for the next header inside of the packet.  The stream arrives in pieces *)
(* of any length.  A session is read by one thread (what may happen at the *)
(* gate is a matter of Dispatch).                                          *)
(***************************************************************************)
EXTENDS Integers, Sequences, SequencesExt

CONSTANTS
  OneBuffer,     \* BUFFER_SIZE, the argument of the constructor
  BufferCount,   \* BUFFER_COUNT
  HeaderSize,    \* sizeof(PacketHeader)
  Sizes,         \* the sizes that a header may say, that of the header included
  MaxBytes       \* bound: how much the client sends

ASSUME SizeAssumption ==
  /\ OneBuffer \in Nat \ {0} /\ BufferCount \in Nat \ {0} /\ HeaderSize \in Nat \ {0}
  /\ MaxBytes \in Nat
  /\ Sizes \subseteq Nat

VARIABLES
  (* RecvBuffer: *)
  readPos, writePos,
  buffer,      \* _buffer[i]: the byte at i, 0 before there is one
  (* The session: *)
  connected,   \* _connected
  stage,       \* is the session being read, and where?
  again,       \* does errno say EAGAIN, from whatever call of this thread?
  useLen,      \* the local of OnRecv
  handled,     \* history: the packets that HandlePacket got, by their first bytes
  (* The client and the network: *)
  size,        \* size[p]: what a header that begins at byte p says, if it is known
  packets,     \* history: where the client began its packets
  sent,        \* bytes sent so far
  arrived,     \* bytes that arrived
  taken,       \* bytes that recv took
  clientClosed \* has the client closed its end?

recvBuffer == <<readPos, writePos, buffer>>
session    == <<connected, stage, again, useLen, handled>>
client     == <<size, packets, sent, clientClosed>>
recvVars   == <<recvBuffer, session, client, arrived, taken>>

Capacity == OneBuffer * BufferCount

\* _bufferSize is 0 from its declaration on: the constructor does not set it.
bufferSize == 0

DataSize == writePos - readPos
FreeSize == Capacity - writePos

Bytes == 1..MaxBytes

Unknown == -1    \* no header is expected there, and none was looked for

-----------------------------------------------------------------------------
RecvInit ==
  /\ readPos = 0 /\ writePos = 0
  /\ buffer = [i \in 0..(Capacity - 1) |-> 0]
  /\ connected = TRUE
  /\ stage = "idle" /\ again = FALSE /\ useLen = 0
  /\ handled = <<>>
  /\ size = [p \in Bytes |-> Unknown]
  /\ packets = {}
  /\ sent = 0 /\ arrived = 0 /\ taken = 0
  /\ clientClosed = FALSE

-----------------------------------------------------------------------------
(***************************************************************************)
(* The client, and the network that cuts its stream at any place.  A       *)
(* packet has a whole header, whatever size that says.                     *)
(***************************************************************************)
BytesOf(n) == IF n < HeaderSize THEN HeaderSize ELSE n

SendPacket(n) ==
  /\ ~clientClosed
  /\ sent + BytesOf(n) <= MaxBytes
  /\ size' = [size EXCEPT ![sent + 1] = n]
  /\ packets' = packets \union {sent + 1}
  /\ sent' = sent + BytesOf(n)
  /\ UNCHANGED <<recvBuffer, session, clientClosed, arrived, taken>>

ClientCloses ==
  /\ ~clientClosed
  /\ clientClosed' = TRUE
  /\ UNCHANGED <<recvBuffer, session, size, packets, sent, arrived, taken>>

Arrive ==
  /\ arrived' \in (arrived + 1)..sent
  /\ UNCHANGED <<recvBuffer, session, client, taken>>

-----------------------------------------------------------------------------
(***************************************************************************)
(* RecvBuffer::Clean, with the cursors as OnRead left them: with no data   *)
(* left both go to the front; with little room the data is moved there.    *)
(***************************************************************************)
CleanWhen(read, empty) ==
  LET data == writePos - read IN
  IF empty
    THEN readPos' = 0 /\ writePos' = 0 /\ UNCHANGED buffer
  ELSE IF FreeSize < bufferSize
    THEN /\ readPos' = 0 /\ writePos' = data
         /\ buffer' = [i \in DOMAIN buffer |-> IF i < data THEN buffer[read + i] ELSE buffer[i]]
  ELSE readPos' = read /\ UNCHANGED <<writePos, buffer>>

\* Mutant: what is left is forgotten.
CleanAll(read) == CleanWhen(read, TRUE)

Clean(read) == CleanWhen(read, writePos = read)

Disconnect(read) ==
  /\ Clean(read)
  /\ connected' = FALSE

(***************************************************************************)
(* ReadClient is called when there is something to read, and reads until a *)
(* ReciveMessage fails, or until one succeeds while errno says EAGAIN.     *)
(***************************************************************************)
ReadClient ==
  /\ connected /\ stage = "idle"
  /\ arrived > taken \/ clientClosed
  /\ stage' = "recv"
  /\ again' \in BOOLEAN
  /\ UNCHANGED <<recvBuffer, connected, useLen, handled, client, arrived, taken>>

(***************************************************************************)
(* recv takes what there is and what has room.  It fails on a drained      *)
(* connection and on one that was reset, and returns 0 at the end of the   *)
(* stream or for no room.                                                  *)
(***************************************************************************)
\* Mutant: recv is not told how much room there is.
LengthUnlimited == arrived - taken

Length == IF arrived - taken < FreeSize THEN arrived - taken ELSE FreeSize

Recv ==
  /\ stage = "recv"
  /\ Length > 0
  /\ buffer' = [i \in DOMAIN buffer |->
                  IF writePos <= i /\ i < writePos + Length THEN taken + 1 + (i - writePos)
                                                            ELSE buffer[i]]
  /\ writePos' = writePos + Length
  /\ taken' = taken + Length
  /\ stage' = "packets" /\ useLen' = 0
  /\ UNCHANGED <<readPos, connected, again, handled, client, arrived>>

RecvFails ==
  /\ stage = "recv"
  /\ Length <= 0 \/ clientClosed
  /\ Disconnect(readPos)
  /\ stage' = "idle"
  /\ UNCHANGED <<again, useLen, handled, client, arrived, taken>>

(***************************************************************************)
(* OnRecv: as long as a header and then a whole packet is there.  A header *)
(* where no client meant one to be says anything, and from then on that.   *)
(***************************************************************************)
Header == buffer[readPos + useLen]

HeaderThere == DataSize - useLen >= HeaderSize

WholePacket == HeaderThere /\ DataSize - useLen >= size[Header]

ReadHeader(n) ==
  /\ stage = "packets"
  /\ HeaderThere /\ size[Header] = Unknown
  /\ size' = [size EXCEPT ![Header] = n]
  /\ UNCHANGED <<recvBuffer, session, packets, sent, clientClosed, arrived, taken>>

\* A packet of size 0 is handled over and over; the history has it once.
HandleAnd(goto, used) ==
  /\ stage = "packets"
  /\ WholePacket /\ size[Header] # Unknown
  /\ handled' = IF handled # <<>> /\ Last(handled) = Header THEN handled ELSE Append(handled, Header)
  /\ useLen' = useLen + used
  /\ stage' = goto
  /\ UNCHANGED <<recvBuffer, connected, again, client, arrived, taken>>

\* Mutant: one packet is handled for each recv.
HandlePacketOnce == HandleAnd("read", size[Header])

\* Mutant: the loop does not go on to the next packet.
HandlePacketStays == HandleAnd("packets", 0)

HandlePacket == HandleAnd("packets", size[Header])

EndOfPackets ==
  /\ stage = "packets"
  /\ ~WholePacket
  /\ stage' = "read"
  /\ UNCHANGED <<recvBuffer, connected, again, useLen, handled, client, arrived, taken>>

(***************************************************************************)
(* OnRead moves the read cursor past what was handled; a read that handled *)
(* nothing ends the connection.                                            *)
(***************************************************************************)
ReadIf(fits) ==
  /\ stage = "read"
  /\ IF fits /\ useLen > 0
       THEN /\ Clean(readPos + useLen)
            /\ stage' = IF again THEN "idle" ELSE "recv"
            /\ UNCHANGED connected
       ELSE Disconnect(readPos) /\ stage' = "idle"
  /\ useLen' = 0
  /\ UNCHANGED <<again, handled, client, arrived, taken>>

\* Mutant: OnRead refuses to take all of the data.
OnReadAllButLast == ReadIf(useLen < DataSize)

OnRead == ReadIf(useLen <= DataSize)

-----------------------------------------------------------------------------
OnRecv == (\E n \in Sizes : ReadHeader(n)) \/ HandlePacket \/ EndOfPackets

ReciveMessage == Recv \/ RecvFails \/ OnRecv \/ OnRead

RecvNext ==
  \/ \E n \in Sizes : SendPacket(n)
  \/ ClientCloses \/ Arrive
  \/ ReadClient \/ ReciveMessage

(***************************************************************************)
(* A thread that reads the session goes on with it.  Nothing says that it  *)
(* begins (an edge may be lost, see DataIsTaken in Dispatch), that the     *)
(* client sends or that what it sent arrives.                              *)
(***************************************************************************)
RecvFairness == WF_recvVars(ReciveMessage)

RecvSafety == RecvInit /\ [][RecvNext]_recvVars

RecvSpec == RecvSafety /\ RecvFairness

-----------------------------------------------------------------------------
RecvTypeOK ==
  /\ readPos \in 0..Capacity /\ writePos \in 0..Capacity
  /\ buffer \in [0..(Capacity - 1) -> 0..MaxBytes]
  /\ connected \in BOOLEAN
  /\ stage \in {"idle", "recv", "packets", "read"} /\ again \in BOOLEAN
  /\ useLen \in 0..Capacity
  /\ handled \in Seq(Bytes)
  /\ size \in [Bytes -> Sizes \union {Unknown}] /\ packets \subseteq Bytes
  /\ sent \in 0..MaxBytes /\ arrived \in 0..sent /\ taken \in 0..arrived
  /\ clientClosed \in BOOLEAN

(***************************************************************************)
(* However the stream is cut, the data between the cursors is the part of  *)
(* it that was taken and not handled, in order and without a gap: what     *)
(* OnRead and Clean leave of one read is followed by the next one.         *)
(***************************************************************************)
HandledEnd ==
  IF handled = <<>> THEN 0 ELSE handled[Len(handled)] + size[handled[Len(handled)]] - 1

BufferHoldsStream ==
  /\ readPos <= writePos
  /\ connected => taken - DataSize + useLen = HandledEnd
  /\ \A i \in readPos..(writePos - 1) : buffer[i] = taken - (writePos - 1 - i)

(***************************************************************************)
(* The packets that are handled follow each other from the first byte on,  *)
(* none before its last byte was there.  They are those that were sent, as *)
(* long as none says that it is smaller than its header.                   *)
(***************************************************************************)
Sound(p) == \A q \in packets : q <= p => size[q] >= HeaderSize

PacketsAsSent ==
  /\ handled # <<>> => handled[1] = 1
  /\ \A i \in 1..Len(handled) :
       /\ size[handled[i]] # Unknown
       /\ handled[i] + BytesOf(size[handled[i]]) <= taken + 1
       /\ i > 1 => handled[i] = handled[i - 1] + size[handled[i - 1]]
       /\ Sound(handled[i]) => handled[i] \in packets

(***************************************************************************)
(* Together: the stream goes through the buffer unharmed, from the first   *)
(* byte that was taken to the packets that are handled.                    *)
(***************************************************************************)
StreamIntact == BufferHoldsStream /\ PacketsAsSent

(***************************************************************************)
(* A session is dropped for one of four reasons: the client closed; the    *)
(* buffer is full, since Clean never pulls the data to the front, as the   *)
(* comment at RecvBuffer.cpp:27 says that it does; everything was read and *)
(* errno, left by some other call, did not say so, so that the loop read   *)
(* once more; or a read did not complete a packet.  Only the first is the  *)
(* client's doing.  That OnRead refuses to move the cursor, or a client is *)
(* dropped that was read to the end with EAGAIN, is not among them.        *)
(***************************************************************************)
DropHasReason ==
  [][connected /\ ~connected' =>
       \/ clientClosed
       \/ FreeSize = 0
       \/ stage = "recv" /\ arrived = taken /\ ~again
       \/ stage = "read" /\ (DataSize < HeaderSize \/ DataSize < size[buffer[readPos]])]_recvVars

(***************************************************************************)
(* A packet that was taken whole is handled, without waiting for anything  *)
(* that comes after it, unless the session is dropped, or a packet up to   *)
(* it says that it is smaller than its header.                             *)
(***************************************************************************)
Whole(p) == p \in packets /\ Sound(p) /\ p + size[p] <= taken + 1

WholePacketsHandled ==
  \A p \in Bytes :
    Whole(p) ~> ~connected \/ \E i \in 1..Len(handled) : handled[i] = p

(***************************************************************************)
(* The thread gets out of OnRecv, whatever the headers say, except for a   *)
(* size of 0: that holds it in the loop for good, and the gate with it.    *)
(***************************************************************************)
OnRecvEnds == stage = "packets" ~> stage # "packets" \/ (HeaderThere /\ size[Header] = 0)

=============================================================================
