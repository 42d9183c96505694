--------------------------- MODULE SendPathProofs ---------------------------
(***************************************************************************)
(* What the sending side of a session guarantees for any number of threads *)
(* and buffers, as long as no Send is disturbed between its look at the    *)
(* size of the queue and its clear.                                        *)
(*                                                                         *)
(* While that holds there is one thread in this window, and the size and   *)
(* the array it has are those of the queue, which nobody changes.          *)
(***************************************************************************)
EXTENDS SendPath, SequenceTheorems, TLAPS

USE BoundAssumption

Things == Buffers \union {Garbled}

-----------------------------------------------------------------------------
(***************************************************************************)
(* Sequences and what is in them.                                          *)
(***************************************************************************)
LEMMA ElementsOf ==
  ASSUME NEW S, NEW s \in Seq(S)
  PROVE  /\ ToSet(s) = {s[i] : i \in 1..Len(s)}
         /\ ToSet(s) \subseteq S
         /\ Len(s) \in Nat
BY DEF ToSet

LEMMA ElementsOfAppend ==
  ASSUME NEW S, NEW s \in Seq(S), NEW e \in S
  PROVE  ToSet(Append(s, e)) = ToSet(s) \union {e}
<1>1. /\ Append(s, e) \in Seq(S)
      /\ Len(s) \in Nat /\ Len(Append(s, e)) = Len(s) + 1
      /\ \A i \in 1..Len(s) : Append(s, e)[i] = s[i]
      /\ Append(s, e)[Len(s) + 1] = e
  OBVIOUS
<1>2. 1..(Len(s) + 1) = 1..Len(s) \union {Len(s) + 1}
  BY <1>1
<1>3. /\ ToSet(Append(s, e)) = {Append(s, e)[i] : i \in 1..Len(Append(s, e))}
      /\ ToSet(s) = {s[i] : i \in 1..Len(s)}
  BY <1>1, ElementsOf
<1> QED BY <1>1, <1>2, <1>3

LEMMA ElementsOfConcat ==
  ASSUME NEW S, NEW s \in Seq(S), NEW r \in Seq(S)
  PROVE  ToSet(s \o r) = ToSet(s) \union ToSet(r)
<1>1. /\ s \o r \in Seq(S)
      /\ Len(s) \in Nat /\ Len(r) \in Nat /\ Len(s \o r) = Len(s) + Len(r)
      /\ \A i \in 1..Len(s) : (s \o r)[i] = s[i]
      /\ \A i \in 1..Len(r) : (s \o r)[Len(s) + i] = r[i]
  OBVIOUS
<1>2. \A i \in 1..(Len(s) + Len(r)) : i \in 1..Len(s) \/ \E k \in 1..Len(r) : i = Len(s) + k
  <2> TAKE i \in 1..(Len(s) + Len(r))
  <2>1. CASE i <= Len(s)
    BY <2>1, <1>1
  <2>2. CASE ~(i <= Len(s))
    <3>1. i - Len(s) \in 1..Len(r) /\ i = Len(s) + (i - Len(s))
      BY <2>2, <1>1
    <3> QED BY <3>1
  <2> QED BY <2>1, <2>2
<1>3. /\ \A i \in 1..Len(s) : i \in 1..(Len(s) + Len(r))
      /\ \A i \in 1..Len(r) : Len(s) + i \in 1..(Len(s) + Len(r))
  BY <1>1
<1>4. /\ ToSet(s \o r) = {(s \o r)[i] : i \in 1..(Len(s) + Len(r))}
      /\ ToSet(s) = {s[i] : i \in 1..Len(s)}
      /\ ToSet(r) = {r[i] : i \in 1..Len(r)}
  BY <1>1, ElementsOf
<1>5. ASSUME NEW x \in ToSet(s \o r) PROVE x \in ToSet(s) \union ToSet(r)
  <2>1. PICK i \in 1..(Len(s) + Len(r)) : x = (s \o r)[i]
    BY <1>4
  <2> QED BY <1>1, <1>2, <1>4, <2>1
<1>6. ASSUME NEW x \in ToSet(s) \union ToSet(r) PROVE x \in ToSet(s \o r)
  BY <1>1, <1>3, <1>4
<1> QED BY <1>5, <1>6

LEMMA ElementsOfParts ==
  ASSUME NEW S, NEW s \in Seq(S), NEW n \in 0..Len(s)
  PROVE  /\ SubSeq(s, 1, n) \in Seq(S)
         /\ Len(SubSeq(s, 1, n)) = n
         /\ \A i \in 1..n : SubSeq(s, 1, n)[i] = s[i]
         /\ ToSet(s) = ToSet(SubSeq(s, 1, n)) \union {s[i] : i \in (n + 1)..Len(s)}
<1>1. /\ SubSeq(s, 1, n) \in Seq(S)
      /\ Len(SubSeq(s, 1, n)) = n
      /\ \A i \in 1..n : SubSeq(s, 1, n)[i] = s[i]
      /\ Len(s) \in Nat /\ n \in Nat /\ n <= Len(s)
  OBVIOUS
<1>2. 1..Len(s) = 1..n \union (n + 1)..Len(s)
  BY <1>1
<1>3. /\ ToSet(SubSeq(s, 1, n)) = {SubSeq(s, 1, n)[i] : i \in 1..n}
      /\ ToSet(s) = {s[i] : i \in 1..Len(s)}
  BY <1>1, ElementsOf
<1> QED BY <1>1, <1>2, <1>3

-----------------------------------------------------------------------------
(***************************************************************************)
(* The types.  A thread that is about to call sendmsg has size entries.    *)
(***************************************************************************)
Filled == \A t \in Threads : pc[t] = "sendmsg" => Len(iov[t]) = size[t]

TypeInv == TypeOK /\ Filled

LEMMA FilledArray ==
  ASSUME NEW n \in Nat, NEW s \in Seq(Buffers)
  PROVE  LET array == [i \in 1..n |-> IF i <= Len(s) THEN s[i] ELSE Garbled] IN
         /\ array \in Seq(Things) /\ Len(array) = n
         /\ n = Len(s) => array = s
<1> DEFINE array == [i \in 1..n |-> IF i <= Len(s) THEN s[i] ELSE Garbled]
<1>1. \A i \in 1..n : array[i] \in Things
  <2> TAKE i \in 1..n
  <2>1. CASE i <= Len(s)
    <3>1. i \in 1..Len(s)
      BY <2>1
    <3> QED BY <3>1, <2>1 DEF Things
  <2> QED BY <2>1 DEF Things
<1>2. array \in [1..n -> Things]
  BY <1>1
<1>3. array \in Seq(Things) /\ Len(array) = n
  BY <1>2
<1>4. ASSUME n = Len(s) PROVE array = s
  <2>1. s \in Seq(Things)
    BY DEF Things
  <2>2. \A i \in 1..n : array[i] = s[i]
    <3> TAKE i \in 1..n
    <3>1. i <= Len(s)
      BY <1>4
    <3> QED BY <3>1
  <2>3. \A q \in Seq(Things) : Len(q) = n /\ (\A i \in 1..n : q[i] = s[i]) => q = s
    BY <1>4, <2>1, SeqEqual
  <2> HIDE DEF array
  <2> QED BY <1>3, <2>2, <2>3
<1> QED BY <1>3, <1>4

LEMMA Pieces ==
  ASSUME NEW s \in Seq(Things), NEW q \in Seq(Things), NEW n \in 0..Len(q),
         NEW part \in {<<>>, <<Garbled>>}
  PROVE  /\ SubSeq(q, 1, n) \in Seq(Things) /\ part \in Seq(Things)
         /\ s \o SubSeq(q, 1, n) \in Seq(Things)
         /\ s \o SubSeq(q, 1, n) \o part \in Seq(Things)
<1>1. SubSeq(q, 1, n) \in Seq(Things)
  BY ElementsOfParts
<1>2. part \in Seq(Things)
  <2>1. <<>> \in Seq(Things)
    BY EmptySeq
  <2>2. <<Garbled>> \in Seq(Things)
    BY DEF Things
  <2> QED BY <2>1, <2>2
<1> HIDE DEF Things
<1> QED BY <1>1, <1>2, ConcatProperties

LEMMA InitTypeInv == Init => TypeInv
<1>1. <<>> \in Seq(Buffers) /\ <<>> \in Seq(Buffers \union {Garbled})
  BY EmptySeq
<1> SUFFICES ASSUME Init PROVE TypeInv
  OBVIOUS
<1>2. connected \in BOOLEAN /\ raced \in BOOLEAN /\ overrun \in BOOLEAN
  BY DEF Init
<1>3. /\ pc \in [Threads -> {"idle", "push", "size", "fill", "sendmsg", "clear"}]
      /\ size \in [Threads -> Nat]
      /\ buffers \in 0..MaxBuffers
      /\ lost \subseteq Buffers \union {Garbled}
      /\ Filled
  BY DEF Init, Filled
<1>4. /\ sendBuffers \in Seq(Buffers)
      /\ iov \in [Threads -> Seq(Buffers \union {Garbled})]
      /\ stream \in Seq(Buffers \union {Garbled})
  BY <1>1 DEF Init
<1> QED BY <1>2, <1>3, <1>4 DEF TypeInv, TypeOK

LEMMA StepTypeInv == TypeInv /\ [Next]_vars => TypeInv'
<1> SUFFICES ASSUME TypeInv, [Next]_vars PROVE TypeInv'
  OBVIOUS
<1> USE DEF TypeInv, TypeOK, Filled, Goto
<1>1. CASE UNCHANGED vars
  BY <1>1 DEF vars
<1>2. CASE Next
  <2>1. PICK t \in Threads : PushBuffer(t) \/ Send(t) \/ Disconnect(t)
    BY <1>2 DEF Next
  <2>2. raced' \in BOOLEAN
    BY <2>1, Zenon DEF PushBuffer, PushAs, PutInto, Send, IsConnected, SendPush, SendSize,
                       ReadSize, SendFill, Sendmsg, SendClear, Disconnect
  <2>3. ASSUME PutInto(t, Append(sendBuffers, buffers + 1))
        PROVE  sendBuffers' \in Seq(Buffers) /\ buffers' \in 0..MaxBuffers
    BY <2>3 DEF PutInto, Buffers
  <2>4. CASE PushBuffer(t)
    BY <2>2, <2>3, <2>4 DEF PushBuffer, PushAs
  <2>5. CASE IsConnected(t)
    BY <2>2, <2>5 DEF IsConnected
  <2>6. CASE SendPush(t)
    BY <2>2, <2>3, <2>6 DEF SendPush
  <2>7. CASE SendSize(t)
    BY <2>2, <2>7, ElementsOf DEF SendSize, ReadSize
  <2>8. CASE SendFill(t)
    <3>1. iov'[t] \in Seq(Things) /\ Len(iov'[t]) = size[t]
      BY <2>8, FilledArray DEF SendFill
    <3>2. iov' \in [Threads -> Seq(Things)]
      BY <2>8, <3>1 DEF SendFill, Things
    <3> QED BY <2>2, <2>8, <3>1, <3>2 DEF SendFill, Things
  <2>9. CASE Sendmsg(t)
    <3>1. PICK n \in 0..size[t], part \in {<<>>, <<Garbled>>} :
            /\ Goto(t, "sendmsg", "clear")
            /\ stream' = stream \o SubSeq(iov[t], 1, n) \o part
            /\ lost' = lost \union {iov[t][i] : i \in (n + 1)..size[t]}
            /\ UNCHANGED <<sendBuffers, connected, size, iov, buffers, raced, overrun>>
      BY <2>9 DEF Sendmsg
    <3>2. iov[t] \in Seq(Things) /\ size[t] = Len(iov[t])
      BY <3>1 DEF Things
    <3>3. stream' \in Seq(Things)
      BY <3>1, <3>2, Pieces DEF Things
    <3>4. lost' \subseteq Things
      BY <3>1, <3>2 DEF Things
    <3> QED BY <3>1, <3>3, <3>4 DEF Things
  <2>10. CASE SendClear(t)
    BY <2>2, <2>10 DEF SendClear
  <2>11. CASE Disconnect(t)
    <3>1. ToSet(sendBuffers) \subseteq Buffers
      BY ElementsOf
    <3>2. <<>> \in Seq(Buffers)
      BY EmptySeq
    <3> QED BY <2>2, <2>11, <3>1, <3>2 DEF Disconnect
  <2> QED BY <2>1, <2>4, <2>5, <2>6, <2>7, <2>8, <2>9, <2>10, <2>11 DEF Send
<1> QED BY <1>1, <1>2

LEMMA AlwaysTypeInv == Safety => []TypeInv
BY InitTypeInv, StepTypeInv, PTL DEF Safety

-----------------------------------------------------------------------------
(***************************************************************************)
(* Undisturbed, a thread that has read the size has the queue to itself    *)
(* until it has cleared it.                                                *)
(***************************************************************************)
InWindow(t) == pc[t] \in {"fill", "sendmsg", "clear"}

Alone == \A t, u \in Threads : InWindow(t) /\ InWindow(u) => t = u

SizeIsRight == \A t \in Threads : pc[t] \in {"fill", "sendmsg"} => size[t] = Len(sendBuffers)

ArrayIsRight == \A t \in Threads : pc[t] = "sendmsg" => iov[t] = sendBuffers

HandedOver == \A t \in Threads : pc[t] = "clear" => ToSet(sendBuffers) \subseteq ToSet(stream) \union lost

Accounted == 1..buffers \subseteq ToSet(sendBuffers) \union ToSet(stream) \union lost

WindowInv == Alone /\ SizeIsRight /\ ArrayIsRight /\ HandedOver /\ Accounted /\ overrun = FALSE

QueueInv == TypeInv /\ (~raced => WindowInv)

LEMMA NotRaced ==
  ASSUME QueueInv, ~raced', NEW t \in Threads,
         PushBuffer(t) \/ Send(t) \/ Disconnect(t)
  PROVE  /\ WindowInv
         /\ ~ (IsConnected(t) \/ SendFill(t) \/ Sendmsg(t))
              => \A u \in Threads \ {t} : ~InWindow(u)
<1>1. ~raced
  BY Zenon DEF PushBuffer, PushAs, PutInto, Send, IsConnected, SendPush, SendSize,
               ReadSize, SendFill, Sendmsg, SendClear, Disconnect
<1>2. ASSUME ~ (IsConnected(t) \/ SendFill(t) \/ Sendmsg(t)) PROVE raced' = (raced \/ Window(t))
  BY <1>2 DEF PushBuffer, PushAs, PutInto, Send, SendPush, SendSize,
              ReadSize, SendClear, Disconnect
<1>3. Window(t) <=> \E u \in Threads \ {t} : InWindow(u)
  BY DEF Window, InWindow
<1> QED BY <1>1, <1>2, <1>3 DEF QueueInv

(* A new buffer comes in while nobody is in the window.                    *)
LEMMA PutStep ==
  ASSUME TypeInv, WindowInv, NEW t \in Threads, PutInto(t, Append(sendBuffers, buffers + 1)),
         \A u \in Threads : ~InWindow(u)' /\ ~InWindow(u),
         UNCHANGED <<stream, lost, overrun>>
  PROVE  WindowInv'
<1>1. buffers + 1 \in Buffers /\ buffers' = buffers + 1 /\ buffers \in Nat
  BY DEF TypeInv, TypeOK, PutInto, Buffers
<1>2. ToSet(sendBuffers') = ToSet(sendBuffers) \union {buffers + 1}
  BY <1>1, ElementsOfAppend DEF TypeInv, TypeOK, PutInto
<1>3. 1..(buffers + 1) = 1..buffers \union {buffers + 1}
  BY <1>1
<1>4. 1..buffers' \subseteq ToSet(sendBuffers') \union ToSet(stream') \union lost'
  BY <1>1, <1>2, <1>3 DEF WindowInv, Accounted
<1>5. Accounted'
  BY <1>4 DEF Accounted
<1> QED BY <1>5 DEF WindowInv, Alone, SizeIsRight, ArrayIsRight, HandedOver, InWindow

LEMMA WindowStep ==
  ASSUME QueueInv, ~raced', NEW t \in Threads, ~overrun,
         PushBuffer(t) \/ Send(t) \/ Disconnect(t)
  PROVE  WindowInv'
<1>0. TypeInv /\ WindowInv
  BY NotRaced DEF QueueInv
<1> USE DEF Goto
<1>1. CASE PushBuffer(t)
  <2>1. \A u \in Threads : ~InWindow(u)' /\ ~InWindow(u)
    BY <1>0, <1>1, NotRaced DEF PushBuffer, PushAs, InWindow, TypeInv, TypeOK, Send, IsConnected, SendFill, Sendmsg
  <2> QED BY <1>0, <1>1, <2>1, PutStep DEF PushBuffer, PushAs
<1>2. CASE IsConnected(t)
  BY <1>0, <1>2 DEF IsConnected, TypeInv, TypeOK, WindowInv, Alone, SizeIsRight, ArrayIsRight,
                    HandedOver, Accounted, InWindow
<1>3. CASE SendPush(t)
  <2>1. \A u \in Threads : ~InWindow(u)' /\ ~InWindow(u)
    BY <1>0, <1>3, NotRaced DEF SendPush, InWindow, TypeInv, TypeOK, IsConnected, SendFill, Sendmsg
  <2> QED BY <1>0, <1>3, <2>1, PutStep DEF SendPush
<1>4. CASE SendSize(t)
  <2>1. \A u \in Threads \ {t} : ~InWindow(u)
    BY <1>4, NotRaced DEF SendSize, ReadSize, IsConnected, SendFill, Sendmsg
  <2> QED BY <1>0, <1>4, <2>1 DEF SendSize, ReadSize, TypeInv, TypeOK, WindowInv, Alone, SizeIsRight,
                    ArrayIsRight, HandedOver, Accounted, InWindow
<1>5. CASE SendFill(t)
  <2>1. pc[t] = "fill" /\ size[t] = Len(sendBuffers) /\ sendBuffers \in Seq(Buffers) /\ Len(sendBuffers) \in Nat
    BY <1>0, <1>5, ElementsOf DEF SendFill, WindowInv, SizeIsRight, TypeInv, TypeOK
  <2>2. iov'[t] = sendBuffers
    BY <1>0, <1>5, <2>1, FilledArray DEF SendFill, TypeInv, TypeOK
  <2>3. ~(Len(sendBuffers) > size[t])
    BY <2>1
  <2>4. overrun' = FALSE
    BY <1>0, <1>5, <2>3 DEF SendFill, WindowInv
  <2>5. ArrayIsRight'
    BY <1>0, <1>5, <2>2 DEF SendFill, WindowInv, ArrayIsRight, TypeInv, TypeOK
  <2> QED BY <1>0, <1>5, <2>4, <2>5 DEF SendFill, TypeInv, TypeOK, WindowInv, Alone, SizeIsRight,
                    HandedOver, Accounted, InWindow
<1>6. CASE Sendmsg(t)
  <2>1. PICK n \in 0..size[t], part \in {<<>>, <<Garbled>>} :
          /\ pc[t] = "sendmsg" /\ pc' = [pc EXCEPT ![t] = "clear"]
          /\ stream' = stream \o SubSeq(iov[t], 1, n) \o part
          /\ lost' = lost \union {iov[t][i] : i \in (n + 1)..size[t]}
          /\ UNCHANGED <<sendBuffers, connected, size, iov, buffers, raced, overrun>>
    BY <1>6 DEF Sendmsg
  <2>2. iov[t] = sendBuffers /\ size[t] = Len(sendBuffers)
    BY <1>0, <2>1 DEF WindowInv, ArrayIsRight, SizeIsRight
  <2>3. sendBuffers \in Seq(Things) /\ stream \in Seq(Things)
    BY <1>0 DEF TypeInv, TypeOK, Things
  <2>4. ToSet(sendBuffers) = ToSet(SubSeq(sendBuffers, 1, n)) \union {sendBuffers[i] : i \in (n + 1)..Len(sendBuffers)}
    BY <2>1, <2>2, <2>3, ElementsOfParts
  <2>5. ToSet(stream') = ToSet(stream) \union ToSet(SubSeq(sendBuffers, 1, n)) \union ToSet(part)
    <3>1. stream' = (stream \o SubSeq(sendBuffers, 1, n)) \o part
      BY <2>1, <2>2
    <3>0. n \in 0..Len(sendBuffers) /\ part \in {<<>>, <<Garbled>>}
      BY <2>1, <2>2
    <3> HIDE DEF Garbled
    <3>2. /\ SubSeq(sendBuffers, 1, n) \in Seq(Things) /\ part \in Seq(Things)
          /\ stream \o SubSeq(sendBuffers, 1, n) \in Seq(Things)
      BY <3>0, <2>3, Pieces, Zenon
    <3>3. ToSet(stream \o SubSeq(sendBuffers, 1, n)) = ToSet(stream) \union ToSet(SubSeq(sendBuffers, 1, n))
      <4>1. \A a, b \in Seq(Things) : ToSet(a \o b) = ToSet(a) \union ToSet(b)
        BY ElementsOfConcat
      <4> QED BY <2>3, <3>2, <4>1, Zenon
    <3>4. ToSet((stream \o SubSeq(sendBuffers, 1, n)) \o part)
             = ToSet(stream \o SubSeq(sendBuffers, 1, n)) \union ToSet(part)
      <4>1. \A a, b \in Seq(Things) : ToSet(a \o b) = ToSet(a) \union ToSet(b)
        BY ElementsOfConcat
      <4> QED BY <3>2, <4>1, Zenon
    <3> QED BY <3>1, <3>3, <3>4
  <2>6. ToSet(sendBuffers) \subseteq ToSet(stream') \union lost'
    BY <2>1, <2>2, <2>4, <2>5
  <2>7. ToSet(stream) \union lost \subseteq ToSet(stream') \union lost'
    BY <2>1, <2>5
  <2>8. HandedOver' /\ Accounted'
    BY <1>0, <2>1, <2>6, <2>7 DEF WindowInv, HandedOver, Accounted
  <2> QED BY <1>0, <2>1, <2>8 DEF TypeInv, TypeOK, WindowInv, Alone, SizeIsRight, ArrayIsRight, InWindow
<1>7. CASE SendClear(t)
  <2>1. pc[t] = "clear" /\ \A u \in Threads : ~InWindow(u)'
    BY <1>0, <1>7, NotRaced DEF SendClear, InWindow, TypeInv, TypeOK, IsConnected, SendFill, Sendmsg
  <2>2. Accounted'
    BY <1>0, <1>7, <2>1 DEF SendClear, WindowInv, HandedOver, Accounted
  <2> QED BY <1>0, <1>7, <2>1, <2>2 DEF SendClear, WindowInv, Alone, SizeIsRight, ArrayIsRight,
                    HandedOver, InWindow
<1>8. CASE Disconnect(t)
  <2>1. \A u \in Threads : ~InWindow(u)' /\ ~InWindow(u)
    BY <1>0, <1>8, NotRaced DEF Disconnect, InWindow, TypeInv, TypeOK, IsConnected, SendFill, Sendmsg
  <2>2. Accounted'
    BY <1>0, <1>8 DEF Disconnect, WindowInv, Accounted
  <2> QED BY <1>0, <1>8, <2>1, <2>2 DEF Disconnect, WindowInv, Alone, SizeIsRight, ArrayIsRight,
                    HandedOver, InWindow
<1> QED BY <1>1, <1>2, <1>3, <1>4, <1>5, <1>6, <1>7, <1>8 DEF Send

LEMMA InitQueueInv == Init => QueueInv
<1> SUFFICES ASSUME Init PROVE QueueInv
  OBVIOUS
<1>1. 1..buffers = {}
  BY DEF Init
<1>2. WindowInv
  BY <1>1 DEF Init, WindowInv, Alone, SizeIsRight, ArrayIsRight, HandedOver, Accounted, InWindow
<1> QED BY <1>2, InitTypeInv DEF QueueInv

LEMMA StepQueueInv == QueueInv /\ [Next]_vars => QueueInv'
<1> SUFFICES ASSUME QueueInv, [Next]_vars PROVE QueueInv'
  OBVIOUS
<1>1. TypeInv'
  BY StepTypeInv DEF QueueInv
<1>2. CASE UNCHANGED vars
  BY <1>1, <1>2 DEF QueueInv, WindowInv, Alone, SizeIsRight, ArrayIsRight, HandedOver, Accounted,
                    InWindow, vars
<1>3. CASE Next
  <2>1. PICK t \in Threads : ~overrun /\ (PushBuffer(t) \/ Send(t) \/ Disconnect(t))
    BY <1>3 DEF Next
  <2>2. ~raced' => WindowInv'
    BY <2>1, WindowStep
  <2> QED BY <1>1, <2>2 DEF QueueInv
<1> QED BY <1>2, <1>3

LEMMA AlwaysQueueInv == Safety => []QueueInv
BY InitQueueInv, StepQueueInv, PTL DEF Safety

-----------------------------------------------------------------------------
(***************************************************************************)
(* The variables keep their types.                                         *)
(***************************************************************************)
THEOREM TypeCorrect == Safety => []TypeOK
BY AlwaysTypeInv, PTL DEF TypeInv

(***************************************************************************)
(* Undisturbed, Send hands the whole queue to sendmsg and writes nothing   *)
(* past the end of iov (Session.cpp:25-36).                                *)
(***************************************************************************)
THEOREM WholeQueueSent == Safety => []IovIsQueue
<1>1. QueueInv => IovIsQueue
  BY DEF QueueInv, WindowInv, ArrayIsRight, IovIsQueue
<1> QED BY <1>1, AlwaysQueueInv, PTL

(***************************************************************************)
(* Undisturbed, a buffer that was pushed waits, was sent, was not taken by *)
(* sendmsg or was dropped by a disconnect (Session.cpp:44-47 and 100).     *)
(***************************************************************************)
THEOREM NothingForgotten == Safety => []NoneForgotten
<1>1. QueueInv => NoneForgotten
  BY DEF QueueInv, WindowInv, Accounted, NoneForgotten
<1> QED BY <1>1, AlwaysQueueInv, PTL

-----------------------------------------------------------------------------
(***************************************************************************)
(* The order.  What was sent is older than what waits, and both are in     *)
(* order.                                                                  *)
(***************************************************************************)
Ordered(s) ==
  \A i, j \in 1..Len(s) : i < j /\ Garbled \notin {s[i], s[j]} => s[i] < s[j]

OlderThan(s, q) ==
  \A i \in 1..Len(s), j \in 1..Len(q) : s[i] # Garbled => s[i] < q[j]

UpTo(s, n) == \A i \in 1..Len(s) : s[i] <= n

OrderInv ==
  /\ Ordered(sendBuffers) /\ Ordered(stream)
  /\ UpTo(sendBuffers, buffers) /\ UpTo(stream, buffers)
  /\ (\A t \in Threads : pc[t] # "clear") => OlderThan(stream, sendBuffers)
  /\ Garbled \in ToSet(stream) => lost # {}

LEMMA OrderOfAppend ==
  ASSUME NEW s \in Seq(Buffers), NEW r \in Seq(Things), NEW n \in Nat, n + 1 \in Buffers,
         Ordered(s), UpTo(s, n), UpTo(r, n), OlderThan(r, s)
  PROVE  /\ Ordered(Append(s, n + 1)) /\ UpTo(Append(s, n + 1), n + 1) /\ UpTo(r, n + 1)
         /\ OlderThan(r, Append(s, n + 1))
<1>1. /\ Len(s) \in Nat /\ Len(Append(s, n + 1)) = Len(s) + 1
      /\ \A i \in 1..Len(s) : Append(s, n + 1)[i] = s[i] /\ s[i] \in Nat
      /\ Append(s, n + 1)[Len(s) + 1] = n + 1
  BY DEF Buffers
<1>2. \A i \in 1..(Len(s) + 1) : i \in 1..Len(s) \/ i = Len(s) + 1
  BY <1>1
<1>3. Len(r) \in Nat /\ \A i \in 1..Len(r) : r[i] \in Nat
  BY DEF Things, Buffers, Garbled
<1>4. Ordered(Append(s, n + 1))
  <2> SUFFICES ASSUME NEW i \in 1..(Len(s) + 1), NEW j \in 1..(Len(s) + 1), i < j,
                      Garbled \notin {Append(s, n + 1)[i], Append(s, n + 1)[j]}
               PROVE  Append(s, n + 1)[i] < Append(s, n + 1)[j]
    BY <1>1 DEF Ordered
  <2>1. i \in 1..Len(s)
    BY <1>1
  <2>2. CASE j \in 1..Len(s)
    BY <1>1, <2>1, <2>2 DEF Ordered
  <2>3. CASE j = Len(s) + 1
    BY <1>1, <2>1, <2>3 DEF UpTo
  <2> QED BY <1>2, <2>2, <2>3
<1>5. UpTo(Append(s, n + 1), n + 1)
  BY <1>1, <1>2 DEF UpTo
<1>6. UpTo(r, n + 1)
  BY <1>3 DEF UpTo
<1>7. OlderThan(r, Append(s, n + 1))
  BY <1>1, <1>2, <1>3 DEF UpTo, OlderThan
<1> QED BY <1>4, <1>5, <1>6, <1>7

LEMMA OrderOfConcat ==
  ASSUME NEW s \in Seq(Things), NEW r \in Seq(Things), NEW n \in Nat,
         Ordered(s), Ordered(r), UpTo(s, n), UpTo(r, n),
         \A i \in 1..Len(s), j \in 1..Len(r) : Garbled \notin {s[i], r[j]} => s[i] < r[j]
  PROVE  Ordered(s \o r) /\ UpTo(s \o r, n)
<1>1. /\ Len(s) \in Nat /\ Len(r) \in Nat /\ Len(s \o r) = Len(s) + Len(r)
      /\ \A i \in 1..Len(s) : (s \o r)[i] = s[i]
      /\ \A i \in (Len(s) + 1)..(Len(s) + Len(r)) :
           i - Len(s) \in 1..Len(r) /\ (s \o r)[i] = r[i - Len(s)]
  BY ConcatProperties
<1>2. \A i \in 1..(Len(s) + Len(r)) : i \in 1..Len(s) \/ i \in (Len(s) + 1)..(Len(s) + Len(r))
  BY <1>1
<1>3. Ordered(s \o r)
  <2> SUFFICES ASSUME NEW i \in 1..(Len(s) + Len(r)), NEW j \in 1..(Len(s) + Len(r)), i < j,
                      Garbled \notin {(s \o r)[i], (s \o r)[j]}
               PROVE  (s \o r)[i] < (s \o r)[j]
    BY <1>1 DEF Ordered
  <2>1. CASE j \in 1..Len(s)
    BY <1>1, <2>1 DEF Ordered
  <2>2. CASE i \in 1..Len(s) /\ j \in (Len(s) + 1)..(Len(s) + Len(r))
    BY <1>1, <2>2
  <2>3. CASE i \in (Len(s) + 1)..(Len(s) + Len(r)) /\ j \in (Len(s) + 1)..(Len(s) + Len(r))
    BY <1>1, <2>3 DEF Ordered
  <2> QED BY <1>1, <1>2, <2>1, <2>2, <2>3
<1>4. UpTo(s \o r, n)
  <2> SUFFICES ASSUME NEW i \in 1..(Len(s) + Len(r)) PROVE (s \o r)[i] <= n
    BY <1>1 DEF UpTo
  <2> QED BY <1>1, <1>2 DEF UpTo
<1> QED BY <1>3, <1>4

LEMMA OrderOfSent ==
  ASSUME NEW q \in Seq(Buffers), NEW s \in Seq(Things), NEW b \in Nat, NEW n \in 0..Len(q),
         NEW part \in {<<>>, <<Garbled>>},
         Ordered(s), Ordered(q), UpTo(s, b), UpTo(q, b), OlderThan(s, q)
  PROVE  Ordered(s \o SubSeq(q, 1, n) \o part) /\ UpTo(s \o SubSeq(q, 1, n) \o part, b)
<1> DEFINE r == SubSeq(q, 1, n)
<1>0. q \in Seq(Things)
  BY DEF Things
<1>1. r \in Seq(Things) /\ part \in Seq(Things) /\ s \o r \in Seq(Things)
  BY <1>0, Pieces
<1>2. Len(r) = n /\ (\A i \in 1..n : r[i] = q[i] /\ i \in 1..Len(q)) /\ n \in Nat
  BY <1>0, ElementsOfParts
<1>3. Ordered(r) /\ UpTo(r, b)
  BY <1>2 DEF Ordered, UpTo
<1>4. \A i \in 1..Len(s), j \in 1..Len(r) : Garbled \notin {s[i], r[j]} => s[i] < r[j]
  BY <1>2 DEF OlderThan
<1> HIDE DEF r
<1>5. Ordered(s \o r) /\ UpTo(s \o r, b)
  BY <1>1, <1>3, <1>4, OrderOfConcat
<1>6. /\ Ordered(part) /\ UpTo(part, b)
      /\ \A i \in 1..Len(s \o r), j \in 1..Len(part) : Garbled \notin {(s \o r)[i], part[j]} => (s \o r)[i] < part[j]
  BY DEF Ordered, UpTo, Garbled
<1>7. Ordered((s \o r) \o part) /\ UpTo((s \o r) \o part, b)
  BY <1>1, <1>5, <1>6, OrderOfConcat
<1> QED BY <1>7 DEF r

LEMMA InitOrderInv == Init => OrderInv
BY DEF Init, OrderInv, Ordered, UpTo, OlderThan, ToSet

LEMMA OrderStep ==
  ASSUME QueueInv, OrderInv, ~raced', NEW t \in Threads, ~overrun,
         PushBuffer(t) \/ Send(t) \/ Disconnect(t)
  PROVE  OrderInv'
<1>0. TypeInv /\ WindowInv
  BY NotRaced DEF QueueInv
<1> USE DEF Goto
<1>1. ASSUME PutInto(t, Append(sendBuffers, buffers + 1)),
             \A u \in Threads : ~InWindow(u), UNCHANGED <<stream, lost>>
      PROVE  OrderInv'
  <2>1. buffers + 1 \in Buffers /\ buffers \in Nat /\ sendBuffers \in Seq(Buffers) /\ stream \in Seq(Things)
    BY <1>0, <1>1 DEF TypeInv, TypeOK, PutInto, Buffers, Things
  <2>2. OlderThan(stream, sendBuffers)
    BY <1>1 DEF OrderInv, InWindow
  <2>3. /\ Ordered(Append(sendBuffers, buffers + 1)) /\ UpTo(Append(sendBuffers, buffers + 1), buffers + 1)
        /\ UpTo(stream, buffers + 1) /\ OlderThan(stream, Append(sendBuffers, buffers + 1))
    BY <2>1, <2>2, OrderOfAppend DEF OrderInv
  <2>4. sendBuffers' = Append(sendBuffers, buffers + 1) /\ buffers' = buffers + 1 /\ stream' = stream /\ lost' = lost
    BY <1>1 DEF PutInto
  <2>5. /\ Ordered(sendBuffers') /\ UpTo(sendBuffers', buffers') /\ UpTo(stream', buffers')
        /\ OlderThan(stream', sendBuffers') /\ Ordered(stream')
        /\ Garbled \in ToSet(stream') => lost' # {}
    BY <2>3, <2>4 DEF OrderInv
  <2> QED BY <2>5 DEF OrderInv
<1>2. CASE PushBuffer(t)
  <2>1. \A u \in Threads : ~InWindow(u)
    BY <1>0, <1>2, NotRaced DEF PushBuffer, PushAs, InWindow, TypeInv, TypeOK, IsConnected, SendFill, Sendmsg
  <2> QED BY <1>1, <1>2, <2>1 DEF PushBuffer, PushAs
<1>3. CASE SendPush(t)
  <2>1. \A u \in Threads : ~InWindow(u)
    BY <1>0, <1>3, NotRaced DEF SendPush, InWindow, TypeInv, TypeOK, IsConnected, SendFill, Sendmsg
  <2> QED BY <1>1, <1>3, <2>1 DEF SendPush
<1>4. CASE IsConnected(t) \/ SendSize(t) \/ SendFill(t)
  <2>1. UNCHANGED <<sendBuffers, stream, buffers, lost>>
    BY <1>4 DEF IsConnected, SendSize, ReadSize, SendFill
  <2>2. (\A u \in Threads : pc'[u] # "clear") => \A u \in Threads : pc[u] # "clear"
    BY <1>0, <1>4 DEF IsConnected, SendSize, ReadSize, SendFill, TypeInv, TypeOK
  <2> QED BY <2>1, <2>2 DEF OrderInv, Ordered, UpTo, OlderThan, ToSet
<1>5. CASE Sendmsg(t)
  <2>1. PICK n \in 0..size[t], part \in {<<>>, <<Garbled>>} :
          /\ n = size[t] => part = <<>>
          /\ pc[t] = "sendmsg" /\ pc' = [pc EXCEPT ![t] = "clear"]
          /\ stream' = stream \o SubSeq(iov[t], 1, n) \o part
          /\ lost' = lost \union {iov[t][i] : i \in (n + 1)..size[t]}
          /\ UNCHANGED <<sendBuffers, connected, size, iov, buffers, raced, overrun>>
    BY <1>5 DEF Sendmsg
  <2>2. iov[t] = sendBuffers /\ size[t] = Len(sendBuffers)
    BY <1>0, <2>1 DEF WindowInv, ArrayIsRight, SizeIsRight
  <2>3. /\ sendBuffers \in Seq(Buffers) /\ stream \in Seq(Things) /\ buffers \in Nat
        /\ n \in 0..Len(sendBuffers) /\ part \in {<<>>, <<Garbled>>}
    BY <1>0, <2>1, <2>2 DEF TypeInv, TypeOK, Things
  <2>4. \A u \in Threads : pc[u] # "clear"
    BY <1>0, <2>1 DEF WindowInv, Alone, InWindow
  <2>5. Ordered(stream') /\ UpTo(stream', buffers)
    <3>1. Ordered(stream \o SubSeq(sendBuffers, 1, n) \o part) /\ UpTo(stream \o SubSeq(sendBuffers, 1, n) \o part, buffers)
      BY <2>3, <2>4, OrderOfSent DEF OrderInv
    <3> QED BY <3>1, <2>1, <2>2
  <2>6. Garbled \in ToSet(stream') => lost' # {}
    <3>1. ASSUME lost' = {} PROVE lost = {} /\ n = Len(sendBuffers) /\ part = <<>>
      <4>1. lost = {} /\ \A i \in (n + 1)..size[t] : FALSE
        BY <2>1, <3>1
      <4>2. n \in Nat /\ size[t] \in Nat /\ n <= size[t]
        BY <2>2, <2>3
      <4>3. n = size[t]
        BY <4>1, <4>2
      <4> QED BY <4>1, <4>3, <2>1, <2>2
    <3>2. ASSUME lost' = {}, Garbled \in ToSet(stream') PROVE FALSE
      <4>1. stream' = stream \o sendBuffers
        <5>1. SubSeq(sendBuffers, 1, n) = sendBuffers
          BY <2>3, <3>1, <3>2, SubSeqFull
        <5>2. sendBuffers \in Seq(Things)
          BY <2>3 DEF Things
        <5>3. stream \o sendBuffers \in Seq(Things)
          BY <2>3, <5>2, ConcatProperties
        <5> QED BY <2>1, <2>2, <3>1, <3>2, <5>1, <5>3, ConcatEmptySeq
      <4>2. ToSet(stream') = ToSet(stream) \union ToSet(sendBuffers)
        <5>1. sendBuffers \in Seq(Things)
          BY <2>3 DEF Things
        <5> QED BY <2>3, <4>1, <5>1, ElementsOfConcat
      <4>3. Garbled \notin ToSet(sendBuffers)
        <5>1. ToSet(sendBuffers) \subseteq Buffers
          BY <2>3, ElementsOf
        <5> QED BY <5>1 DEF Buffers, Garbled
      <4> QED BY <3>1, <3>2, <4>2, <4>3 DEF OrderInv
    <3> QED BY <3>2
  <2>7. pc'[t] = "clear"
    BY <1>0, <2>1 DEF TypeInv, TypeOK
  <2>8. Ordered(sendBuffers') /\ UpTo(sendBuffers', buffers') /\ UpTo(stream', buffers') /\ Ordered(stream')
    BY <2>1, <2>5 DEF OrderInv
  <2> QED BY <2>6, <2>7, <2>8 DEF OrderInv
<1>6. CASE SendClear(t) \/ Disconnect(t)
  <2>1. sendBuffers' = <<>> /\ UNCHANGED <<stream, buffers>> /\ lost \subseteq lost'
    BY <1>6 DEF SendClear, Disconnect
  <2>2. Ordered(<<>>) /\ UpTo(<<>>, buffers) /\ OlderThan(stream, <<>>)
    BY DEF Ordered, UpTo, OlderThan
  <2>3. /\ Ordered(sendBuffers') /\ UpTo(sendBuffers', buffers') /\ UpTo(stream', buffers')
        /\ OlderThan(stream', sendBuffers') /\ Ordered(stream')
        /\ Garbled \in ToSet(stream') => lost' # {}
    BY <2>1, <2>2 DEF OrderInv
  <2> QED BY <2>3 DEF OrderInv
<1> QED BY <1>2, <1>3, <1>4, <1>5, <1>6 DEF Send

SendInv == QueueInv /\ (~raced => OrderInv)

LEMMA StepSendInv == SendInv /\ [Next]_vars => SendInv'
<1> SUFFICES ASSUME SendInv, [Next]_vars PROVE SendInv'
  OBVIOUS
<1>1. QueueInv'
  BY StepQueueInv DEF SendInv
<1>2. CASE UNCHANGED vars
  BY <1>1, <1>2 DEF SendInv, OrderInv, Ordered, UpTo, OlderThan, ToSet, vars
<1>3. CASE Next
  <2>1. PICK t \in Threads : ~overrun /\ (PushBuffer(t) \/ Send(t) \/ Disconnect(t))
    BY <1>3 DEF Next
  <2>2. ASSUME ~raced' PROVE ~raced
    BY <2>1, <2>2, Zenon DEF PushBuffer, PushAs, PutInto, Send, IsConnected, SendPush, SendSize,
                 ReadSize, SendFill, Sendmsg, SendClear, Disconnect
  <2>3. ~raced' => OrderInv'
    BY <2>1, <2>2, OrderStep DEF SendInv
  <2> QED BY <1>1, <2>3 DEF SendInv
<1> QED BY <1>2, <1>3

LEMMA AlwaysSendInv == Safety => []SendInv
<1>1. Init => SendInv
  BY InitQueueInv, InitOrderInv DEF SendInv
<1> QED BY <1>1, StepSendInv, PTL DEF Safety

(***************************************************************************)
(* Undisturbed, no buffer is sent twice or after a later one, and a piece  *)
(* of a buffer means that sendmsg did not take all (Session.cpp:38-47).    *)
(***************************************************************************)
THEOREM InOrder == Safety => []SentInOrder
<1>1. SendInv => SentInOrder
  BY DEF SendInv, OrderInv, Ordered, SentInOrder
<1> QED BY <1>1, AlwaysSendInv, PTL

(***************************************************************************)
(* Undisturbed, a Send sends the whole queue, once and in order.           *)
(***************************************************************************)
THEOREM SendsTheQueue == Safety => []QueueIsSent
BY WholeQueueSent, NothingForgotten, InOrder, PTL DEF QueueIsSent

-----------------------------------------------------------------------------
(***************************************************************************)
(* Each step is one of OutStream, or a stutter, or disturbs a Send.        *)
(***************************************************************************)
LEMMA StepSimulation == QueueInv /\ [Next]_vars => [raced' \/ Out!Next]_<<Waiting, stream, raced>>
<1> SUFFICES ASSUME QueueInv, [Next]_vars
             PROVE  [raced' \/ Out!Next]_<<Waiting, stream, raced>>
  OBVIOUS
<1>1. CASE UNCHANGED vars
  BY <1>1 DEF Waiting, vars
<1> USE DEF Goto
<1>2. ASSUME NEW t \in Threads, ~overrun, PushBuffer(t) \/ Send(t) \/ Disconnect(t), ~raced'
      PROVE  Out!Next \/ UNCHANGED <<Waiting, stream, raced>>
  <2>0. TypeInv /\ WindowInv
    BY <1>2, NotRaced DEF QueueInv
  <2>1. ASSUME PutInto(t, Append(sendBuffers, buffers + 1)), UNCHANGED stream,
               \A u \in Threads : pc[u] # "clear" /\ pc'[u] # "clear"
        PROVE  Out!Next
    <3>1. Waiting = sendBuffers /\ Waiting' = Append(sendBuffers, buffers + 1)
      BY <2>1 DEF Waiting, PutInto
    <3>2. buffers + 1 \in Buffers
      BY <2>0, <2>1 DEF PutInto, Buffers, TypeInv, TypeOK
    <3> QED BY <2>1, <3>1, <3>2 DEF Out!Next, Out!Put
  <2>2. CASE PushBuffer(t)
    <3>1. \A u \in Threads : pc[u] # "clear" /\ pc'[u] # "clear"
      BY <1>2, <2>0, <2>2, NotRaced DEF PushBuffer, PushAs, InWindow, TypeInv, TypeOK, IsConnected, SendFill, Sendmsg
    <3> QED BY <2>1, <2>2, <3>1 DEF PushBuffer, PushAs
  <2>3. CASE SendPush(t)
    <3>1. \A u \in Threads : pc[u] # "clear" /\ pc'[u] # "clear"
      BY <1>2, <2>0, <2>3, NotRaced DEF SendPush, InWindow, TypeInv, TypeOK, IsConnected, SendFill, Sendmsg
    <3> QED BY <2>1, <2>3, <3>1 DEF SendPush
  <2>4. CASE IsConnected(t) \/ SendSize(t) \/ SendFill(t)
    <3>1. UNCHANGED <<sendBuffers, stream>>
      BY <2>4 DEF IsConnected, SendSize, ReadSize, SendFill
    <3>2. \A u \in Threads : pc'[u] = "clear" <=> pc[u] = "clear"
      BY <2>0, <2>4 DEF IsConnected, SendSize, ReadSize, SendFill, TypeInv, TypeOK
    <3>3. UNCHANGED Waiting
      BY <3>1, <3>2 DEF Waiting
    <3>4. raced = FALSE /\ raced' = FALSE
      <4>1. raced' \in BOOLEAN /\ raced \in BOOLEAN
        <5>1. TypeInv'
          BY <1>2, StepTypeInv DEF QueueInv, Next
        <5> QED BY <2>0, <5>1, Zenon DEF TypeInv, TypeOK
      <4>2. ~raced
        BY <1>2, <2>4, Zenon DEF IsConnected, SendSize, ReadSize, SendFill
      <4> QED BY <1>2, <4>1, <4>2, Zenon
    <3> QED BY <3>1, <3>3, <3>4
  <2>5. CASE Sendmsg(t)
    <3>1. PICK n \in 0..size[t], part \in {<<>>, <<Garbled>>} :
            /\ n = size[t] => part = <<>>
            /\ pc[t] = "sendmsg" /\ pc' = [pc EXCEPT ![t] = "clear"]
            /\ stream' = stream \o SubSeq(iov[t], 1, n) \o part
            /\ UNCHANGED <<sendBuffers, connected, size, iov, buffers, raced, overrun>>
      BY <2>5 DEF Sendmsg
    <3>2. iov[t] = sendBuffers /\ size[t] = Len(sendBuffers)
      BY <2>0, <3>1 DEF WindowInv, ArrayIsRight, SizeIsRight
    <3>3. Waiting = sendBuffers
      BY <2>0, <3>1 DEF WindowInv, Alone, InWindow, Waiting
    <3>4. Waiting' = <<>>
      <4>1. pc'[t] = "clear"
        BY <2>0, <3>1 DEF TypeInv, TypeOK
      <4> QED BY <4>1 DEF Waiting
    <3>5. Out!Flush(n, part)
      BY <3>1, <3>2, <3>3, <3>4 DEF Out!Flush
    <3> QED BY <3>1, <3>2, <3>3, <3>5 DEF Out!Next
  <2>6. CASE SendClear(t) \/ Disconnect(t)
    <3>1. sendBuffers' = <<>> /\ UNCHANGED stream
      BY <2>6 DEF SendClear, Disconnect
    <3>2. Waiting' = <<>>
      BY <3>1 DEF Waiting
    <3> QED BY <3>1, <3>2 DEF Out!Next, Out!Drop
  <2> QED BY <1>2, <2>2, <2>3, <2>4, <2>5, <2>6 DEF Send
<1>3. CASE Next
  <2>1. PICK t \in Threads : ~overrun /\ (PushBuffer(t) \/ Send(t) \/ Disconnect(t))
    BY <1>3 DEF Next
  <2> QED BY <2>1, <1>2
<1> QED BY <1>1, <1>3

(***************************************************************************)
(* As long as no Send was disturbed, a session is an OutStream: the queue  *)
(* is flushed whole, in order, and what sendmsg does not take is dropped.  *)
(***************************************************************************)
THEOREM Implements == Safety => ImplementsOutStream
<1>1. Init => Out!Init
  BY DEF Init, Out!Init, Waiting
<1> QED BY <1>1, StepSimulation, AlwaysQueueInv, PTL DEF Safety, ImplementsOutStream

=============================================================================
