------------------------- MODULE SendBuffersProofs -------------------------
(***************************************************************************)
(* What the pool of send buffers guarantees for any number of threads,     *)
(* chunks and buffers, and for any sizes.                                  *)
(*                                                                         *)
(* That buffers do not meet is not inductive.  It rests on the place where *)
(* the next buffer is cut: everything in a chunk lies below _usedSize,     *)
(* except for a buffer that its thread has not closed yet; no second       *)
(* thread cuts from the same chunk, since a chunk is in one hand; and a    *)
(* chunk that is about to be reset has no buffer left, since it comes from *)
(* the pool, where only chunks go that nobody holds.                       *)
(***************************************************************************)
EXTENDS SendBuffers, SequenceTheorems, TLAPS

USE NoneAssumption, SizeAssumption

(***************************************************************************)
(* What the place of a thread says of its locals.                          *)
(***************************************************************************)
Stages ==
  \A t \in Threads :
    /\ pc[t] \in {"test", "pushOld", "reset", "open", "close"} => local[t] # NoChunk
    /\ pc[t] = "assign" <=> popped[t] # NoChunk
    /\ pc[t] \in {"pushOld", "push"} <=> dying[t] # NoChunk
    /\ pc[t] \in {"idle", "push"} <=> buffer[t] = NoBuffer
    /\ pc[t] \notin {"idle", "push"} => request[t] \in Sizes

(***************************************************************************)
(* A buffer is made by one thread, and comes to life in Open.              *)
(***************************************************************************)
Naming ==
  \A t \in Threads : buffer[t] # NoBuffer =>
    /\ Alive(buffer[t]) <=> pc[t] = "close"
    /\ \A u \in Threads : buffer[u] = buffer[t] => u = t

(***************************************************************************)
(* A chunk is in one hand, and in that in one role.                        *)
(***************************************************************************)
NoRepeats(s) == \A i, k \in 1..Len(s) : s[i] = s[k] => i = k

PoolUnheld ==
  \A c \in Elems(chunks) : /\ \A t \in Threads : ~InHand(c, t)
                           /\ \A b \in Buffers : owner[b] # c

OneHand == \A c \in Chunks : \A t, u \in Threads : InHand(c, t) /\ InHand(c, u) => t = u

OneRole ==
  \A t \in Threads :
    /\ popped[t] # NoChunk => popped[t] # local[t]
    /\ dying[t] # NoChunk => dying[t] # local[t] /\ dying[t] # popped[t]

(***************************************************************************)
(* Chunks on their way to the pool, or from it to a Reset, have no buffer. *)
(***************************************************************************)
Unused(c) == \A b \in Buffers : owner[b] # c

TransitUnused ==
  \A t \in Threads :
    /\ popped[t] # NoChunk => Unused(popped[t])
    /\ dying[t] # NoChunk => Unused(dying[t])
    /\ pc[t] \in {"pushOld", "reset"} => Unused(local[t])

(***************************************************************************)
(* Closed buffers lie below _usedSize; one that is being made begins there *)
(* and has room.                                                           *)
(***************************************************************************)
BelowUsed ==
  \A b \in Buffers : Alive(b) /\ (\A t \in Threads : buffer[t] # b) =>
    at[b] + size[b] <= usedSize[owner[b]]

Cutting ==
  \A t \in Threads :
    /\ pc[t] = "open" => request[t] <= FreeSize(local[t])
    /\ pc[t] = "close" => /\ owner[buffer[t]] = local[t]
                          /\ at[buffer[t]] = usedSize[local[t]]
                          /\ size[buffer[t]] = request[t]
                          /\ at[buffer[t]] + request[t] <= ChunkSize

(***************************************************************************)
(* The current chunk of a thread is open just between Open and Close.      *)
(***************************************************************************)
OpenInClose ==
  \A t \in Threads : local[t] # NoChunk /\ pc[t] \notin {"pushOld", "reset"} =>
    (isOpen[local[t]] <=> pc[t] = "close")

(***************************************************************************)
(* Only chunks that were made are used, so that a new one is unheld.       *)
(***************************************************************************)
UsedAreMade ==
  /\ Elems(chunks) \subseteq made
  /\ \A c \in Chunks : /\ \A t \in Threads : InHand(c, t) => c \in made
                       /\ \A b \in Buffers : owner[b] = c => c \in made

Hands == NoRepeats(chunks) /\ PoolUnheld /\ OneHand /\ OneRole /\ UsedAreMade

Rooms == BelowUsed /\ Cutting /\ BuffersApart

PoolInv ==
  /\ TypeOK /\ Stages /\ Naming /\ Hands /\ TransitUnused
  /\ Rooms /\ OpenInClose /\ AssertionsHold

-----------------------------------------------------------------------------
(***************************************************************************)
(* The pool as a sequence: what is in it after a push and after a pop.     *)
(***************************************************************************)
LEMMA PushChunk ==
  ASSUME NEW s \in Seq(Chunks), NEW c \in Chunks, c \notin Elems(s), NoRepeats(s)
  PROVE  /\ Append(s, c) \in Seq(Chunks)
         /\ Elems(Append(s, c)) = Elems(s) \union {c}
         /\ NoRepeats(Append(s, c))
<1> DEFINE r == Append(s, c)
<1>1. /\ r \in Seq(Chunks) /\ Len(s) \in Nat /\ Len(r) = Len(s) + 1
      /\ \A i \in 1..Len(s) : r[i] = s[i] /\ s[i] # c
      /\ r[Len(s) + 1] = c
  BY DEF Elems
<1>2. 1..Len(r) = 1..Len(s) \union {Len(s) + 1}
  BY <1>1
<1>3. Elems(r) = Elems(s) \union {c}
  BY <1>1, <1>2 DEF Elems
<1>4. NoRepeats(r)
  BY <1>1, <1>2 DEF NoRepeats
<1> QED
  BY <1>1, <1>3, <1>4

LEMMA PopChunk ==
  ASSUME NEW s \in Seq(Chunks), s # <<>>, NoRepeats(s)
  PROVE  LET r == SubSeq(s, 1, Len(s) - 1)
             c == s[Len(s)]
         IN /\ r \in Seq(Chunks) /\ c \in Chunks
            /\ c \in Elems(s) /\ c \notin Elems(r)
            /\ Elems(s) = Elems(r) \union {c}
            /\ NoRepeats(r)
<1> DEFINE r == SubSeq(s, 1, Len(s) - 1)
           c == s[Len(s)]
<1>1. /\ Len(s) \in Nat \ {0} /\ c \in Chunks
      /\ r \in Seq(Chunks) /\ Len(r) = Len(s) - 1
      /\ \A i \in 1..Len(r) : r[i] = s[i]
  <2> DEFINE n == Len(s) - 1
  <2>1. Len(s) \in Nat \ {0} /\ n \in Nat /\ \A i \in 1..Len(s) : s[i] \in Chunks
    OBVIOUS
  <2>2. \A i \in 1..n : s[i] \in Chunks
    BY <2>1
  <2> HIDE DEF n
  <2>3. /\ SubSeq(s, 1, n) \in Seq(Chunks)
        /\ Len(SubSeq(s, 1, n)) = IF 1 <= n THEN n - 1 + 1 ELSE 0
        /\ \A i \in 1..(n - 1 + 1) : SubSeq(s, 1, n)[i] = s[1 + i - 1]
    BY <2>1, <2>2, SubSeqProperties
  <2>4. Len(SubSeq(s, 1, n)) = n
    BY <2>1, <2>3
  <2>5. ASSUME NEW i \in 1..n PROVE SubSeq(s, 1, n)[i] = s[i]
    <3>1. i \in 1..(n - 1 + 1) /\ 1 + i - 1 = i
      BY <2>1
    <3> QED
      BY <2>3, <3>1
  <2>6. /\ SubSeq(s, 1, n) \in Seq(Chunks) /\ Len(SubSeq(s, 1, n)) = n
        /\ \A i \in 1..Len(SubSeq(s, 1, n)) : SubSeq(s, 1, n)[i] = s[i]
    BY <2>3, <2>4, <2>5
  <2>7. n = Len(s) - 1
    BY DEF n
  <2>8. c \in Chunks
    BY <2>1
  <2> QED
    BY <2>1, <2>6, <2>7, <2>8
<1>2. 1..Len(s) = 1..Len(r) \union {Len(s)} /\ Len(s) \notin 1..Len(r)
  BY <1>1
<1>3. NoRepeats(r)
  BY <1>1, <1>2 DEF NoRepeats
<1>4. c \in Elems(s) /\ Elems(s) = Elems(r) \union {c}
  <2>1. Len(s) \in 1..Len(s)
    BY <1>1
  <2>2. \A i \in 1..Len(r) : i \in 1..Len(s) /\ s[i] = r[i]
    BY <1>1, <1>2
  <2>3. \A i \in 1..Len(s) : i \in 1..Len(r) \/ s[i] = c
    BY <1>2
  <2>4. c \in Elems(s) /\ Elems(r) \subseteq Elems(s)
    BY <2>1, <2>2 DEF Elems
  <2>5. Elems(s) \subseteq Elems(r) \union {c}
    BY <2>2, <2>3 DEF Elems
  <2> QED
    BY <2>4, <2>5
<1>5. c \notin Elems(r)
  BY <1>1, <1>2 DEF Elems, NoRepeats
<1> QED
  BY <1>1, <1>3, <1>4, <1>5

LEMMA ElemsEmpty == Elems(<<>>) = {} /\ NoRepeats(<<>>)
  BY DEF Elems, NoRepeats

-----------------------------------------------------------------------------
LEMMA InitInv == Init => PoolInv
<1> SUFFICES ASSUME Init PROVE PoolInv
  OBVIOUS
<1> USE DEF Init
<1>1. TypeOK
  <2>1. chunks \in Seq(Chunks) /\ made \in SUBSET Chunks /\ crashed \in BOOLEAN
    <3>1. <<>> \in Seq(Chunks)
      OBVIOUS
    <3>2. chunks = <<>> /\ made = {} /\ crashed = FALSE
      OBVIOUS
    <3> QED
      BY ONLY <3>1, <3>2
  <2>2. 0 \in 0..ChunkSize /\ "idle" \in Places
    BY DEF Places
  <2>3. /\ isOpen \in [Chunks -> BOOLEAN] /\ usedSize \in [Chunks -> 0..ChunkSize]
        /\ owner \in [Buffers -> Chunks \union {NoChunk}]
        /\ at \in [Buffers -> 0..ChunkSize] /\ size \in [Buffers -> 0..ChunkSize]
    BY <2>2
  <2>4. /\ pc \in [Threads -> Places] /\ request \in [Threads -> 0..ChunkSize]
        /\ local \in [Threads -> Chunks \union {NoChunk}]
        /\ popped \in [Threads -> Chunks \union {NoChunk}]
        /\ dying \in [Threads -> Chunks \union {NoChunk}]
        /\ buffer \in [Threads -> Buffers \union {NoBuffer}]
    BY <2>2
  <2> QED
    BY <2>1, <2>3, <2>4 DEF TypeOK
<1>2. Stages /\ Naming
  BY DEF Stages, Naming
<1>3. Hands
  BY ElemsEmpty DEF Hands, PoolUnheld, OneHand, OneRole, UsedAreMade, InHand
<1>4. TransitUnused
  BY DEF TransitUnused
<1>5. Rooms
  BY DEF Rooms, BelowUsed, Cutting, BuffersApart, Alive
<1>6. OpenInClose /\ AssertionsHold
  BY DEF OpenInClose, AssertionsHold
<1> QED
  BY <1>1, <1>2, <1>3, <1>4, <1>5, <1>6 DEF PoolInv

Step(t) ==
  \/ \E b \in Buffers : Release(t, b) \/ \E n \in Sizes : MakeSendBuffer(t, b, n)
  \/ TestFreeSize(t) \/ Pop(t) \/ NewChunk(t) \/ Assign(t) \/ Reset(t)
  \/ Open(t) \/ Close(t) \/ PushGlobal(t)

(***************************************************************************)
(* TypeOK, Stages and Naming.                                              *)
(***************************************************************************)
LEMMA TypeStep ==
  ASSUME PoolInv, NEW t \in Threads, Step(t)
  PROVE  TypeOK'
<1> USE DEF PoolInv, TypeOK, Places, Goto, pool, chunk, bufs, locals
<1>1. ASSUME NEW b \in Buffers, Release(t, b) PROVE TypeOK'
  BY <1>1 DEF Release
<1>2. ASSUME NEW b \in Buffers, NEW n \in Sizes, MakeSendBuffer(t, b, n) PROVE TypeOK'
  BY <1>2 DEF MakeSendBuffer
<1>3. CASE TestFreeSize(t)
  BY <1>3 DEF TestFreeSize, Stages
<1>4. CASE Pop(t)
  BY <1>4, PopChunk DEF Pop, PopLeaving, Hands
<1>5. CASE NewChunk(t)
  BY <1>5 DEF NewChunk
<1>6. CASE Assign(t)
  <2>1. local[t] \in Chunks \union {NoChunk} /\ popped[t] \in Chunks \union {NoChunk}
    OBVIOUS
  <2>2. /\ pc' \in [Threads -> Places]
        /\ local' \in [Threads -> Chunks \union {NoChunk}]
        /\ popped' \in [Threads -> Chunks \union {NoChunk}]
        /\ dying' \in [Threads -> Chunks \union {NoChunk}]
    BY <1>6, <2>1 DEF Assign
  <2> QED
    BY <1>6, <2>2 DEF Assign
<1>7. CASE Reset(t)
  <2>1. local[t] \in Chunks
    BY <1>7 DEF Reset, Stages
  <2>2. isOpen' \in [Chunks -> BOOLEAN] /\ usedSize' \in [Chunks -> 0..ChunkSize]
    BY <1>7, <2>1 DEF Reset
  <2>3. pc' \in [Threads -> Places]
    BY <1>7 DEF Reset
  <2> QED
    BY <1>7, <2>2, <2>3 DEF Reset
<1>8. CASE Open(t)
  BY <1>8 DEF Open, Stages
<1>9. CASE Close(t)
  <2>1. /\ local[t] \in Chunks /\ owner[buffer[t]] = local[t]
        /\ usedSize[local[t]] + request[t] \in 0..ChunkSize
    BY <1>9 DEF Close, CloseAt, Stages, Rooms, Cutting
  <2> QED
    BY <1>9, <2>1 DEF Close, CloseAt, Used
<1>10. CASE PushGlobal(t)
  <2>1. dying[t] \in Chunks
    BY <1>10 DEF PushGlobal, Stages
  <2>2. Append(chunks, dying[t]) \in Seq(Chunks)
    BY <2>1
  <2>3. pc' \in [Threads -> Places]
    BY <1>10 DEF PushGlobal
  <2> QED
    BY <1>10, <2>2, <2>3 DEF PushGlobal
<1> QED
  BY <1>1, <1>2, <1>3, <1>4, <1>5, <1>6, <1>7, <1>8, <1>9, <1>10 DEF Step

LEMMA StagesStep ==
  ASSUME PoolInv, NEW t \in Threads, Step(t)
  PROVE  Stages' /\ Naming'
<1> USE DEF PoolInv, TypeOK, Stages, Naming, Alive, Goto, pool, chunk, bufs, locals
<1>1. ASSUME NEW b \in Buffers, Release(t, b) PROVE Stages' /\ Naming'
  BY <1>1 DEF Release
<1>2. ASSUME NEW b \in Buffers, NEW n \in Sizes, MakeSendBuffer(t, b, n)
      PROVE  Stages' /\ Naming'
  BY <1>2 DEF MakeSendBuffer
<1>3. CASE TestFreeSize(t)
  BY <1>3 DEF TestFreeSize
<1>4. CASE Pop(t)
  BY <1>4, PopChunk DEF Pop, PopLeaving, Hands
<1>5. CASE NewChunk(t)
  BY <1>5 DEF NewChunk
<1>6. CASE Assign(t)
  BY <1>6 DEF Assign
<1>7. CASE Reset(t)
  BY <1>7 DEF Reset
<1>8. CASE Open(t)
  BY <1>8 DEF Open
<1>9. CASE Close(t)
  BY <1>9 DEF Close, CloseAt
<1>10. CASE PushGlobal(t)
  BY <1>10 DEF PushGlobal
<1> QED
  BY <1>1, <1>2, <1>3, <1>4, <1>5, <1>6, <1>7, <1>8, <1>9, <1>10 DEF Step

(***************************************************************************)
(* What the steps that take a reference away find out.                     *)
(***************************************************************************)
LEMMA AssignHands ==
  ASSUME PoolInv, NEW t \in Threads, Assign(t)
  PROVE  /\ popped[t] \in Chunks /\ popped[t] # local[t]
         /\ dying'[t] # NoChunk => dying'[t] = local[t]
         /\ \A c \in Chunks : \A u \in Threads : InHand(c, u)' => InHand(c, u)
         /\ dying'[t] # NoChunk => Unused(dying'[t])
         /\ pc'[t] = "pushOld" <=> dying'[t] # NoChunk
<1> USE DEF PoolInv, TypeOK, Stages, Goto
<1>1. pc[t] = "assign" /\ popped[t] \in Chunks /\ popped[t] # local[t]
  BY DEF Assign, Hands, OneRole
<1>2. /\ local' = [local EXCEPT ![t] = popped[t]]
      /\ popped' = [popped EXCEPT ![t] = NoChunk]
      /\ dying'[t] # NoChunk => dying'[t] = local[t]
      /\ \A u \in Threads \ {t} : dying'[u] = dying[u]
  BY DEF Assign
<1>3. ASSUME NEW c \in Chunks, NEW u \in Threads, InHand(c, u)' PROVE InHand(c, u)
  BY <1>1, <1>2, <1>3 DEF InHand
<1>4. dying'[t] # NoChunk => Unused(dying'[t])
  BY DEF Assign, HeldWithoutLocal, Unused
<1>5. pc'[t] = "pushOld" <=> dying'[t] # NoChunk
  BY DEF Assign
<1> QED
  BY <1>1, <1>2, <1>3, <1>4, <1>5

LEMMA InPool == TypeOK => Elems(chunks) \subseteq Chunks
  BY DEF TypeOK, Elems

LEMMA HandsStep ==
  ASSUME PoolInv, NEW t \in Threads, Step(t), TypeOK'
  PROVE  Hands'
<1> USE DEF PoolInv, Goto, pool, chunk, bufs, locals
<1>1. ASSUME NEW b \in Buffers, Release(t, b) PROVE Hands'
  <2>1. /\ UNCHANGED <<chunks, made, local, popped>>
        /\ owner[b] \in Chunks /\ dying[t] = NoChunk
        /\ \A a \in Buffers : owner'[a] = IF a = b THEN NoChunk ELSE owner[a]
        /\ \A u \in Threads \ {t} : dying'[u] = dying[u]
        /\ dying'[t] # NoChunk =>
             dying'[t] = owner[b] /\ \A u \in Threads : /\ local[u] # owner[b]
                                                        /\ popped[u] # owner[b]
    <3>1. /\ UNCHANGED <<chunks, made, local, popped>>
          /\ owner[b] # NoChunk /\ pc[t] = "idle"
          /\ owner' = [owner EXCEPT ![b] = NoChunk]
          /\ dying' = [dying EXCEPT ![t] = IF ~HeldWithoutBuffer(owner[b], b) THEN owner[b] ELSE NoChunk]
      BY <1>1 DEF Release, Alive
    <3>2. owner[b] \in Chunks /\ dying[t] = NoChunk
      BY <3>1 DEF TypeOK, Stages
    <3>3. \A a \in Buffers : owner'[a] = IF a = b THEN NoChunk ELSE owner[a]
      BY <3>1 DEF TypeOK
    <3>4. /\ dying'[t] = IF ~HeldWithoutBuffer(owner[b], b) THEN owner[b] ELSE NoChunk
          /\ \A u \in Threads \ {t} : dying'[u] = dying[u]
      BY <3>1 DEF TypeOK
    <3>5. ~HeldWithoutBuffer(owner[b], b) => \A u \in Threads : local[u] # owner[b] /\ popped[u] # owner[b]
      BY DEF HeldWithoutBuffer
    <3> QED BY <3>1, <3>2, <3>3, <3>4, <3>5
  <2>2. dying'[t] # NoChunk =>
          /\ \A u \in Threads : ~InHand(owner[b], u)
          /\ owner[b] \notin Elems(chunks) /\ owner[b] \in made
    BY <2>1 DEF InHand, TransitUnused, Unused, Hands, PoolUnheld, UsedAreMade, TypeOK
  <2>3. \A c \in Chunks : \A u \in Threads :
          InHand(c, u)' => InHand(c, u) \/ (u = t /\ c = owner[b] /\ dying'[t] # NoChunk)
    BY <2>1 DEF InHand
  <2>4. OneHand' /\ UsedAreMade'
    <3>1. OneHand'
      BY <2>2, <2>3 DEF Hands, OneHand
    <3>2. UsedAreMade'
      BY <2>1, <2>2, <2>3 DEF Hands, UsedAreMade
    <3> QED
      BY <3>1, <3>2
  <2>5. PoolUnheld'
    <3>1. Elems(chunks) \subseteq Chunks
      BY InPool
    <3> QED
      BY <2>1, <2>2, <2>3, <3>1 DEF Hands, PoolUnheld
  <2>6. NoRepeats(chunks)' /\ OneRole'
    BY <2>1 DEF Hands, NoRepeats, OneRole, TypeOK
  <2> QED
    BY <2>4, <2>5, <2>6 DEF Hands
<1>2. ASSUME NEW b \in Buffers, NEW n \in Sizes, MakeSendBuffer(t, b, n) PROVE Hands'
  BY <1>2 DEF MakeSendBuffer, Hands, NoRepeats, PoolUnheld, OneHand, OneRole, UsedAreMade,
              InHand
<1>3. CASE TestFreeSize(t)
  BY <1>3 DEF TestFreeSize, Hands, NoRepeats, PoolUnheld, OneHand, OneRole, UsedAreMade,
              InHand
<1>4. CASE Pop(t)
  <2> DEFINE c == chunks[Len(chunks)]
             rest == SubSeq(chunks, 1, Len(chunks) - 1)
  <2>1. /\ chunks' = rest /\ c \in Chunks /\ c \in Elems(chunks) /\ c \notin Elems(rest)
        /\ Elems(chunks) = Elems(rest) \union {c} /\ NoRepeats(rest)
    BY <1>4, PopChunk DEF Pop, PopLeaving, Hands, TypeOK
  <2>2. /\ popped' = [popped EXCEPT ![t] = c] /\ popped \in [Threads -> Chunks \union {NoChunk}]
        /\ UNCHANGED <<made, owner, local, dying>>
    BY <1>4 DEF Pop, PopLeaving, TypeOK
  <2> HIDE DEF c, rest
  <2>3. /\ \A u \in Threads : ~InHand(c, u)
        /\ \A b \in Buffers : owner[b] # c
        /\ c \in made
    BY <2>1 DEF Hands, PoolUnheld, UsedAreMade
  <2>4. \A d \in Chunks : \A u \in Threads : InHand(d, u)' => InHand(d, u) \/ (u = t /\ d = c)
    BY <2>2 DEF InHand
  <2>5. OneHand' /\ UsedAreMade'
    BY <2>1, <2>2, <2>3, <2>4 DEF Hands, OneHand, UsedAreMade
  <2>6. Elems(rest) \subseteq Chunks
    BY <2>1, InPool
  <2>7. PoolUnheld'
    BY <2>1, <2>2, <2>4, <2>6 DEF Hands, PoolUnheld
  <2>8. OneRole'
    BY <2>2, <2>3 DEF Hands, OneRole, InHand
  <2> QED
    BY <2>1, <2>5, <2>7, <2>8 DEF Hands
<1>5. CASE NewChunk(t)
  <2>1. PICK c \in Chunks \ made : popped' = [popped EXCEPT ![t] = c] /\ made' = made \union {c}
    BY <1>5 DEF NewChunk
  <2>2. /\ UNCHANGED <<chunks, owner, local, dying>>
        /\ popped \in [Threads -> Chunks \union {NoChunk}]
    BY <1>5 DEF NewChunk, TypeOK
  <2>3. /\ \A u \in Threads : ~InHand(c, u)
        /\ \A b \in Buffers : owner[b] # c
        /\ c \notin Elems(chunks)
    BY <2>1 DEF Hands, UsedAreMade
  <2>4. \A d \in Chunks : \A u \in Threads : InHand(d, u)' => InHand(d, u) \/ (u = t /\ d = c)
    BY <2>1, <2>2 DEF InHand
  <2>5. OneHand' /\ UsedAreMade'
    BY <2>1, <2>2, <2>3, <2>4 DEF Hands, OneHand, UsedAreMade
  <2>6. Elems(chunks) \subseteq Chunks
    BY InPool
  <2>7. PoolUnheld'
    BY <2>1, <2>2, <2>3, <2>4, <2>6 DEF Hands, PoolUnheld
  <2>8. OneRole'
    BY <2>1, <2>2, <2>3 DEF Hands, OneRole, InHand
  <2> QED
    BY <2>2, <2>5, <2>7, <2>8 DEF Hands
<1>6. CASE Assign(t)
  <2>1. /\ popped[t] \in Chunks /\ popped[t] # local[t]
        /\ dying'[t] # NoChunk => dying'[t] = local[t]
        /\ \A c \in Chunks : \A u \in Threads : InHand(c, u)' => InHand(c, u)
    BY <1>6, AssignHands
  <2>2. /\ UNCHANGED <<chunks, made, owner>>
        /\ local'[t] = popped[t] /\ popped'[t] = NoChunk
        /\ \A u \in Threads \ {t} : UNCHANGED <<local[u], popped[u], dying[u]>>
    BY <1>6 DEF Assign, TypeOK
  <2>3. OneHand' /\ UsedAreMade'
    BY <2>1, <2>2 DEF Hands, OneHand, UsedAreMade
  <2>4. Elems(chunks) \subseteq Chunks
    BY InPool
  <2>5. PoolUnheld'
    BY <2>1, <2>2, <2>4 DEF Hands, PoolUnheld
  <2>6. OneRole'
    BY <2>1, <2>2 DEF Hands, OneRole
  <2> QED
    BY <2>2, <2>3, <2>5, <2>6 DEF Hands
<1>7. CASE Reset(t)
  BY <1>7 DEF Reset, Hands, NoRepeats, PoolUnheld, OneHand, OneRole, UsedAreMade, InHand
<1>8. CASE Open(t)
  <2>1. /\ UNCHANGED <<pool, local, popped, dying>> /\ local[t] \in Chunks
        /\ \A b \in Buffers : owner'[b] = owner[b] \/ owner'[b] = local[t]
    BY <1>8 DEF Open, TypeOK, Stages
  <2>2. local[t] \notin Elems(chunks) /\ local[t] \in made
    BY <2>1 DEF Hands, PoolUnheld, UsedAreMade, InHand
  <2>3. PoolUnheld' /\ UsedAreMade'
    BY <2>1, <2>2 DEF Hands, PoolUnheld, UsedAreMade, InHand
  <2> QED
    BY <2>1, <2>3 DEF Hands, NoRepeats, OneHand, OneRole, InHand
<1>9. CASE Close(t)
  BY <1>9 DEF Close, CloseAt, Hands, NoRepeats, PoolUnheld, OneHand, OneRole, UsedAreMade,
              InHand
<1>10. CASE PushGlobal(t)
  <2> DEFINE c == dying[t]
  <2>1. /\ chunks' = Append(chunks, c) /\ c \in Chunks
        /\ dying' = [dying EXCEPT ![t] = NoChunk] /\ dying \in [Threads -> Chunks \union {NoChunk}]
        /\ UNCHANGED <<made, owner, local, popped>>
    BY <1>10 DEF PushGlobal, TypeOK, Stages
  <2>2. /\ \A b \in Buffers : owner[b] # c
        /\ c \notin Elems(chunks) /\ c \in made
        /\ \A u \in Threads \ {t} : ~InHand(c, u)
        /\ local[t] # c /\ popped[t] # c
    BY <2>1 DEF Hands, PoolUnheld, UsedAreMade, OneHand, OneRole, InHand, TransitUnused, Unused
  <2> HIDE DEF c
  <2>3. Elems(chunks') = Elems(chunks) \union {c} /\ NoRepeats(chunks')
    BY <2>1, <2>2, PushChunk DEF Hands, TypeOK
  <2>4. \A d \in Chunks : \A u \in Threads : InHand(d, u)' => InHand(d, u) /\ d # c
    BY <2>1, <2>2 DEF InHand
  <2>5. Elems(chunks) \subseteq Chunks
    BY InPool
  <2>6. PoolUnheld'
    BY <2>1, <2>2, <2>3, <2>4, <2>5 DEF Hands, PoolUnheld
  <2>7. OneHand' /\ UsedAreMade'
    BY <2>1, <2>2, <2>3, <2>4 DEF Hands, OneHand, UsedAreMade
  <2>8. OneRole'
    BY <2>1 DEF Hands, OneRole
  <2> QED
    BY <2>3, <2>6, <2>7, <2>8 DEF Hands
<1> QED
  BY <1>1, <1>2, <1>3, <1>4, <1>5, <1>6, <1>7, <1>8, <1>9, <1>10 DEF Step

(***************************************************************************)
(* TransitUnused: the only step that gives a chunk another buffer is Open, *)
(* in the thread whose chunk it is.                                        *)
(***************************************************************************)
LEMMA TransitStep ==
  ASSUME PoolInv, NEW t \in Threads, Step(t), TypeOK'
  PROVE  TransitUnused'
<1> USE DEF PoolInv, Goto, pool, chunk, bufs, locals, TransitUnused, Unused
<1>1. ASSUME NEW b \in Buffers, Release(t, b) PROVE TransitUnused'
  <2>1. /\ UNCHANGED <<local, popped>> /\ owner[b] \in Chunks
        /\ pc[t] = "idle" /\ pc'[t] \in {"push", "idle"}
        /\ \A u \in Threads \ {t} : pc'[u] = pc[u] /\ dying'[u] = dying[u]
        /\ \A a \in Buffers : owner'[a] = IF a = b THEN NoChunk ELSE owner[a]
    BY <1>1 DEF Release, TypeOK, Alive
  <2>2. dying'[t] # NoChunk =>
          dying'[t] = owner[b] /\ \A a \in Buffers \ {b} : owner[a] # owner[b]
    BY <1>1 DEF Release, HeldWithoutBuffer, TypeOK
  <2>3. dying'[t] # NoChunk => \A a \in Buffers : owner'[a] # dying'[t]
    BY <2>1, <2>2
  <2>4. \A u \in Threads \ {t} : dying'[u] # NoChunk => \A a \in Buffers : owner'[a] # dying'[u]
    BY <2>1 DEF TypeOK
  <2>5. \A u \in Threads : popped'[u] # NoChunk => \A a \in Buffers : owner'[a] # popped'[u]
    BY <2>1 DEF TypeOK
  <2>6. \A u \in Threads : pc'[u] \in {"pushOld", "reset"} =>
          local[u] \in Chunks /\ pc[u] \in {"pushOld", "reset"}
    BY <2>1 DEF TypeOK, Stages
  <2>7. \A u \in Threads : pc'[u] \in {"pushOld", "reset"} =>
          \A a \in Buffers : owner'[a] # local'[u]
    BY <2>1, <2>6
  <2> QED
    BY <2>3, <2>4, <2>5, <2>7
<1>2. ASSUME NEW b \in Buffers, NEW n \in Sizes, MakeSendBuffer(t, b, n)
      PROVE  TransitUnused'
  BY <1>2 DEF MakeSendBuffer, TypeOK
<1>3. CASE TestFreeSize(t)
  BY <1>3 DEF TestFreeSize, TypeOK
<1>4. CASE Pop(t)
  <2>1. /\ chunks[Len(chunks)] \in Elems(chunks) /\ UNCHANGED <<owner, local, dying>>
        /\ popped' = [popped EXCEPT ![t] = chunks[Len(chunks)]]
        /\ pc' = [pc EXCEPT ![t] = "assign"]
    BY <1>4, PopChunk DEF Pop, PopLeaving, Hands, TypeOK
  <2>2. Unused(chunks[Len(chunks)])
    BY <2>1 DEF Hands, PoolUnheld
  <2> QED
    BY <2>1, <2>2 DEF TypeOK
<1>5. CASE NewChunk(t)
  <2>1. PICK c \in Chunks \ made : popped' = [popped EXCEPT ![t] = c]
    BY <1>5 DEF NewChunk
  <2>2. UNCHANGED <<owner, local, dying>> /\ pc' = [pc EXCEPT ![t] = "assign"]
    BY <1>5 DEF NewChunk
  <2>3. Unused(c)
    BY <2>1 DEF Hands, UsedAreMade
  <2> QED
    BY <2>1, <2>2, <2>3 DEF TypeOK
<1>6. CASE Assign(t)
  <2>1. /\ popped[t] \in Chunks /\ (dying'[t] # NoChunk => Unused(dying'[t]))
    BY <1>6, AssignHands
  <2>2. /\ UNCHANGED owner /\ local'[t] = popped[t] /\ popped'[t] = NoChunk
        /\ \A u \in Threads \ {t} : UNCHANGED <<pc[u], local[u], popped[u], dying[u]>>
    BY <1>6 DEF Assign, TypeOK
  <2> QED
    BY <2>1, <2>2
<1>7. CASE Reset(t)
  BY <1>7 DEF Reset, TypeOK
<1>8. CASE Open(t)
  <2>1. /\ UNCHANGED <<local, popped, dying>> /\ local[t] \in Chunks
        /\ pc' = [pc EXCEPT ![t] = "close"] /\ pc[t] = "open"
        /\ \A b \in Buffers : owner'[b] = owner[b] \/ owner'[b] = local[t]
    BY <1>8 DEF Open, TypeOK, Stages
  <2>2. \A u \in Threads : popped[u] # local[t] /\ dying[u] # local[t]
    BY <2>1 DEF Hands, OneHand, OneRole, InHand
  <2>3. \A u \in Threads \ {t} : local[u] # local[t]
    BY <2>1 DEF Hands, OneHand, InHand
  <2>4. \A c \in Chunks : Unused(c) /\ c # local[t] => Unused(c)'
    BY <2>1
  <2> QED
    BY <2>1, <2>2, <2>3, <2>4 DEF TypeOK, Stages
<1>9. CASE Close(t)
  BY <1>9 DEF Close, CloseAt, TypeOK
<1>10. CASE PushGlobal(t)
  BY <1>10 DEF PushGlobal, TypeOK
<1> QED
  BY <1>1, <1>2, <1>3, <1>4, <1>5, <1>6, <1>7, <1>8, <1>9, <1>10 DEF Step

(***************************************************************************)
(* OpenInClose and AssertionsHold.  Only the thread that has the chunk in  *)
(* its hand changes it.                                                    *)
(***************************************************************************)
LEMMA OpenStep ==
  ASSUME PoolInv, NEW t \in Threads, Step(t), TypeOK'
  PROVE  OpenInClose' /\ AssertionsHold'
<1> USE DEF PoolInv, Goto, pool, chunk, bufs, locals, OpenInClose, AssertionsHold
<1>0. \A u \in Threads \ {t} : local[t] # NoChunk => local[u] # local[t]
  BY DEF Hands, OneHand, InHand, TypeOK
<1>1. ASSUME NEW b \in Buffers, Release(t, b) PROVE OpenInClose' /\ AssertionsHold'
  BY <1>1 DEF Release, TypeOK
<1>2. ASSUME NEW b \in Buffers, NEW n \in Sizes, MakeSendBuffer(t, b, n)
      PROVE  OpenInClose' /\ AssertionsHold'
  BY <1>2 DEF MakeSendBuffer, TypeOK
<1>3. CASE TestFreeSize(t)
  BY <1>3 DEF TestFreeSize, TypeOK, Stages
<1>4. CASE Pop(t)
  BY <1>4 DEF Pop, PopLeaving, TypeOK
<1>5. CASE NewChunk(t)
  BY <1>5 DEF NewChunk, TypeOK
<1>6. CASE Assign(t)
  BY <1>6 DEF Assign, TypeOK
<1>7. CASE Reset(t)
  BY <1>0, <1>7 DEF Reset, TypeOK, Stages
<1>8. CASE Open(t)
  <2>1. pc[t] = "open"
    BY <1>8 DEF Open
  <2>2. local[t] \in Chunks /\ local[t] # NoChunk
    BY <2>1 DEF Stages, TypeOK
  <2>3. ~isOpen[local[t]]
    BY <2>1, <2>2
  <2>4. ~(request[t] > FreeSize(local[t]))
    BY <2>1, <2>2 DEF Rooms, Cutting, FreeSize, TypeOK
  <2>5. AssertionsHold'
    BY <1>8, <2>3, <2>4 DEF Open
  <2>6. OpenInClose'
    BY <1>0, <1>8, <2>2 DEF Open, TypeOK
  <2> QED
    BY <2>5, <2>6
<1>9. CASE Close(t)
  <2>1. pc[t] = "close"
    BY <1>9 DEF Close, CloseAt
  <2>2. local[t] \in Chunks /\ local[t] # NoChunk
    BY <2>1 DEF Stages, TypeOK
  <2>3. isOpen[local[t]]
    BY <2>1, <2>2
  <2>4. owner[buffer[t]] = local[t]
    BY <2>1 DEF Rooms, Cutting
  <2>5. AssertionsHold'
    BY <1>9, <2>3, <2>4 DEF Close, CloseAt
  <2>6. OpenInClose'
    BY <1>0, <1>9, <2>2, <2>4 DEF Close, CloseAt, TypeOK
  <2> QED
    BY <2>5, <2>6
<1>10. CASE PushGlobal(t)
  <2>1. UNCHANGED <<isOpen, local, crashed>>
    BY <1>10 DEF PushGlobal
  <2>2. pc[t] \in {"pushOld", "push"} /\ pc'[t] \in {"reset", "idle"}
    BY <1>10 DEF PushGlobal, TypeOK
  <2>3. pc'[t] = "idle" => pc[t] = "push"
    BY <1>10 DEF PushGlobal, TypeOK
  <2>4. \A u \in Threads \ {t} : pc'[u] = pc[u]
    BY <1>10 DEF PushGlobal, TypeOK
  <2> QED
    BY <2>1, <2>2, <2>3, <2>4
<1> QED
  BY <1>1, <1>2, <1>3, <1>4, <1>5, <1>6, <1>7, <1>8, <1>9, <1>10 DEF Step

(***************************************************************************)
(* Rooms.  Steps that leave the buffers and _usedSize alone come first.    *)
(***************************************************************************)
LEMMA RoomsKept ==
  ASSUME PoolInv, NEW t \in Threads, TypeOK', Cutting',
         UNCHANGED <<owner, at, size, usedSize>>,
         \A b \in Buffers : Alive(b) => ((\A u \in Threads : buffer'[u] # b)
                                          => \A u \in Threads : buffer[u] # b)
  PROVE  Rooms'
<1>1. BelowUsed'
  BY DEF PoolInv, Rooms, BelowUsed, Alive
<1>2. BuffersApart'
  BY DEF PoolInv, Rooms, BuffersApart, Alive
<1> QED
  BY <1>1, <1>2 DEF Rooms

LEMMA RoomsStep ==
  ASSUME PoolInv, NEW t \in Threads, Step(t), TypeOK'
  PROVE  Rooms'
<1> USE DEF PoolInv, Goto, pool, chunk, bufs, locals
<1>0. \A u \in Threads \ {t} : local[t] # NoChunk => local[u] # local[t]
  BY DEF Hands, OneHand, InHand, TypeOK
<1>1. ASSUME NEW b \in Buffers, Release(t, b) PROVE Rooms'
  <2>1. /\ UNCHANGED <<usedSize, local, request, buffer>> /\ pc'[t] \in {"push", "idle"}
        /\ \A u \in Threads \ {t} : pc'[u] = pc[u]
        /\ \A u \in Threads : buffer[u] # b
        /\ \A a \in Buffers \ {b} : UNCHANGED <<owner[a], at[a], size[a]>>
        /\ owner'[b] = NoChunk
    BY <1>1 DEF Release, TypeOK
  <2>2. BelowUsed'
    BY <2>1 DEF Rooms, BelowUsed, Alive
  <2>3. BuffersApart'
    BY <2>1 DEF Rooms, BuffersApart, Alive
  <2>4. ASSUME NEW u \in Threads, pc'[u] = "close" \/ pc'[u] = "open"
        PROVE  u # t /\ (pc[u] = "close" => buffer[u] \in Buffers \ {b})
    BY <2>1, <2>4 DEF Stages, TypeOK
  <2>5. Cutting'
    BY <2>1, <2>4 DEF Rooms, Cutting, FreeSize
  <2> QED
    BY <2>2, <2>3, <2>5 DEF Rooms
<1>2. ASSUME NEW b \in Buffers, NEW n \in Sizes, MakeSendBuffer(t, b, n) PROVE Rooms'
  <2>1. /\ UNCHANGED <<owner, at, size, usedSize, local>> /\ ~Alive(b)
        /\ buffer' = [buffer EXCEPT ![t] = b] /\ pc[t] = "idle"
        /\ pc'[t] \in {"pop", "test"}
        /\ \A u \in Threads \ {t} : UNCHANGED <<pc[u], request[u], buffer[u]>>
    BY <1>2 DEF MakeSendBuffer, TypeOK
  <2>2. buffer[t] = NoBuffer
    BY <2>1 DEF Stages
  <2>3. Cutting'
    BY <2>1 DEF Rooms, Cutting, FreeSize, TypeOK
  <2>4. \A a \in Buffers : Alive(a) => ((\A u \in Threads : buffer'[u] # a)
                                          => \A u \in Threads : buffer[u] # a)
    BY <2>1, <2>2
  <2>5. UNCHANGED <<owner, at, size, usedSize>>
    BY <2>1
  <2> HIDE DEF PoolInv
  <2> QED
    BY <2>3, <2>4, <2>5, RoomsKept
<1>3. CASE TestFreeSize(t)
  <2>1. /\ UNCHANGED <<owner, at, size, usedSize, local, request, buffer>>
        /\ \A u \in Threads \ {t} : pc'[u] = pc[u]
        /\ pc'[t] = IF FreeSize(local[t]) < request[t] THEN "pop" ELSE "open"
    BY <1>3 DEF TestFreeSize, TypeOK
  <2>2. local[t] \in Chunks /\ request[t] \in Nat /\ usedSize[local[t]] \in Nat
    BY <1>3 DEF TestFreeSize, Stages, TypeOK
  <2>3. pc'[t] = "open" => request[t] <= FreeSize(local[t])
    BY <2>1, <2>2 DEF FreeSize
  <2>4. Cutting'
    BY <2>1, <2>3 DEF Rooms, Cutting, FreeSize
  <2> QED
    BY <2>1, <2>4, RoomsKept
<1>4. CASE Pop(t)
  <2>1. Cutting'
    BY <1>4 DEF Pop, PopLeaving, Rooms, Cutting, FreeSize, TypeOK
  <2> QED
    BY <1>4, <2>1, RoomsKept DEF Pop, PopLeaving
<1>5. CASE NewChunk(t)
  <2>1. Cutting'
    BY <1>5 DEF NewChunk, Rooms, Cutting, FreeSize, TypeOK
  <2> QED
    BY <1>5, <2>1, RoomsKept DEF NewChunk
<1>6. CASE Assign(t)
  <2>1. Cutting'
    BY <1>6 DEF Assign, Rooms, Cutting, FreeSize, TypeOK
  <2> QED
    BY <1>6, <2>1, RoomsKept DEF Assign
<1>7. CASE Reset(t)
  <2>1. /\ UNCHANGED <<owner, at, size, local, request, buffer>> /\ local[t] \in Chunks
        /\ usedSize'[local[t]] = 0
        /\ \A c \in Chunks \ {local[t]} : usedSize'[c] = usedSize[c]
        /\ pc'[t] = "open" /\ \A u \in Threads \ {t} : pc'[u] = pc[u]
        /\ Unused(local[t]) /\ request[t] \in Sizes
    BY <1>7 DEF Reset, TypeOK, Stages, TransitUnused
  <2>2. BelowUsed'
    <3> SUFFICES ASSUME NEW b \in Buffers, owner[b] # NoChunk,
                        \A u \in Threads : buffer[u] # b
                 PROVE  at[b] + size[b] <= usedSize'[owner[b]]
      BY <2>1 DEF BelowUsed, Alive
    <3>1. owner[b] \in Chunks \ {local[t]}
      BY <2>1 DEF Unused, TypeOK
    <3> QED
      BY <2>1, <3>1 DEF Rooms, BelowUsed, Alive
  <2>3. BuffersApart'
    BY <2>1 DEF Rooms, BuffersApart, Alive
  <2>4. ASSUME NEW u \in Threads \ {t}, pc[u] = "open" \/ pc[u] = "close"
        PROVE  local[u] \in Chunks \ {local[t]}
    BY <1>0, <2>1, <2>4 DEF Stages, TypeOK
  <2>5. request[t] <= ChunkSize - usedSize'[local[t]]
    <3>1. request[t] \in 1..ChunkSize
      BY <2>1
    <3> QED
      BY <2>1, <3>1
  <2>6. Cutting'
    BY <2>1, <2>4, <2>5 DEF Rooms, Cutting, FreeSize
  <2> QED
    BY <2>2, <2>3, <2>6 DEF Rooms
<1>8. CASE Open(t)
  <2> DEFINE b == buffer[t]
             c == local[t]
  <2>1. /\ pc[t] = "open" /\ pc' = [pc EXCEPT ![t] = "close"]
        /\ b \in Buffers /\ c \in Chunks /\ ~Alive(b) /\ request[t] <= ChunkSize - usedSize[c]
        /\ UNCHANGED <<usedSize, local, request, buffer>>
        /\ owner'[b] = c /\ at'[b] = usedSize[c] /\ size'[b] = request[t]
        /\ \A a \in Buffers \ {b} : UNCHANGED <<owner[a], at[a], size[a]>>
    BY <1>8 DEF Open, TypeOK, Stages, Naming, Rooms, Cutting, FreeSize
  <2>2. usedSize[c] \in 0..ChunkSize /\ request[t] \in 0..ChunkSize
    BY <2>1 DEF TypeOK
  <2>3. \A u \in Threads \ {t} : buffer[u] # b
    BY <2>1 DEF Naming
  <2>4. ASSUME NEW a \in Buffers \ {b}, owner[a] = c
        PROVE  at[a] + size[a] <= usedSize[c]
    <3>1. ASSUME NEW u \in Threads, buffer[u] = a PROVE FALSE
      <4>1. pc[u] = "close" /\ u # t
        BY <2>1, <2>4, <3>1 DEF Naming, Alive
      <4>2. local[u] = c
        BY <2>4, <3>1, <4>1 DEF Rooms, Cutting
      <4> QED
        BY <1>0, <2>1, <4>1, <4>2
    <3> QED
      BY <2>1, <2>4, <3>1 DEF Rooms, BelowUsed, Alive
  <2> HIDE DEF b, c
  <2>5. BelowUsed'
    <3> SUFFICES ASSUME NEW a \in Buffers, Alive(a)', \A u \in Threads : buffer[u] # a
                 PROVE  at'[a] + size'[a] <= usedSize[owner'[a]]
      BY <2>1 DEF BelowUsed
    <3>1. a \in Buffers \ {b}
      BY DEF b
    <3> QED
      BY <2>1, <3>1 DEF Rooms, BelowUsed, Alive
  <2>6. BuffersApart'
    <3> SUFFICES ASSUME NEW a \in Buffers, NEW d \in Buffers, Alive(a)'
                 PROVE  /\ at'[a] + size'[a] <= ChunkSize
                        /\ a # d /\ owner'[a] = owner'[d] => \/ at'[a] + size'[a] <= at'[d]
                                                            \/ at'[d] + size'[d] <= at'[a]
      BY DEF BuffersApart
    <3>1. CASE a # b /\ d # b
      BY <2>1, <3>1 DEF Rooms, BuffersApart, Alive
    <3>2. CASE a = b
      <4>1. at'[a] + size'[a] <= ChunkSize
        BY <2>1, <2>2, <3>2
      <4>2. ASSUME a # d, owner'[a] = owner'[d] PROVE at'[d] + size'[d] <= at'[a]
        BY <2>1, <2>4, <3>2, <4>2
      <4> QED
        BY <4>1, <4>2
    <3>3. CASE a # b /\ d = b
      <4>1. at'[a] + size'[a] <= ChunkSize
        BY <2>1, <3>3 DEF Rooms, BuffersApart, Alive
      <4>2. ASSUME owner'[a] = owner'[d] PROVE at'[a] + size'[a] <= at'[d]
        BY <2>1, <2>4, <3>3, <4>2
      <4> QED
        BY <4>1, <4>2
    <3> QED
      BY <3>1, <3>2, <3>3
  <2>7. ASSUME NEW u \in Threads \ {t}, pc[u] = "close" PROVE buffer[u] \in Buffers \ {b}
    BY <2>3, <2>7 DEF Stages, TypeOK
  <2>8. Cutting'
    <3> SUFFICES ASSUME NEW u \in Threads
                 PROVE  /\ pc'[u] = "open" => request[u] <= FreeSize(local[u])
                        /\ pc'[u] = "close" =>
                             /\ owner'[buffer[u]] = local[u]
                             /\ at'[buffer[u]] = usedSize[local[u]]
                             /\ size'[buffer[u]] = request[u]
                             /\ at'[buffer[u]] + request[u] <= ChunkSize
      BY <2>1 DEF Cutting, FreeSize
    <3>1. CASE u = t
      BY <2>1, <2>2, <3>1 DEF b, c, TypeOK
    <3>2. CASE u # t
      <4>1. pc'[u] = pc[u]
        BY <2>1, <3>2 DEF TypeOK
      <4> QED
        BY <2>1, <2>7, <3>2, <4>1 DEF Rooms, Cutting
    <3> QED
      BY <3>1, <3>2
  <2> QED
    BY <2>5, <2>6, <2>8 DEF Rooms
<1>9. CASE Close(t)
  <2> DEFINE b == buffer[t]
             c == local[t]
  <2>1. pc[t] = "close" /\ pc' = [pc EXCEPT ![t] = "idle"]
    BY <1>9 DEF Close, CloseAt
  <2>2. /\ b \in Buffers /\ c \in Chunks
        /\ owner[b] = c /\ at[b] = usedSize[c] /\ size[b] = request[t]
    <3>1. b \in Buffers /\ c \in Chunks
      BY <2>1 DEF Stages, TypeOK
    <3>2. owner[b] = c /\ at[b] = usedSize[c] /\ size[b] = request[t]
      BY <2>1 DEF Rooms, Cutting
    <3> QED BY <3>1, <3>2
  <2>3. /\ UNCHANGED <<owner, at, size, local>>
        /\ usedSize'[c] = usedSize[c] + request[t]
        /\ \A d \in Chunks \ {c} : usedSize'[d] = usedSize[d]
        /\ buffer'[t] = NoBuffer
        /\ \A u \in Threads \ {t} : UNCHANGED <<buffer[u], request[u], pc[u]>>
    BY <1>9, <2>1, <2>2 DEF Close, CloseAt, Used, TypeOK
  <2>4. usedSize[c] \in Nat /\ request[t] \in Nat
    BY <2>2 DEF TypeOK
  <2>5. BelowUsed'
    <3> SUFFICES ASSUME NEW a \in Buffers, owner[a] # NoChunk, \A u \in Threads : buffer'[u] # a
                 PROVE  at[a] + size[a] <= usedSize'[owner[a]]
      BY <2>3 DEF BelowUsed, Alive
    <3>1. owner[a] \in Chunks /\ at[a] \in Nat /\ size[a] \in Nat /\ usedSize[owner[a]] \in Nat
      BY DEF TypeOK
    <3>2. CASE a = b
      BY <2>2, <2>3, <2>4, <3>2
    <3>3. CASE a # b
      <4>1. \A u \in Threads : buffer[u] # a
        BY <2>3, <3>3
      <4>2. at[a] + size[a] <= usedSize[owner[a]]
        BY <4>1 DEF Rooms, BelowUsed, Alive
      <4> QED
        BY <2>3, <2>4, <3>1, <4>2
    <3> QED
      BY <3>2, <3>3
  <2>6. BuffersApart'
    BY <2>3 DEF Rooms, BuffersApart, Alive
  <2>7. ASSUME NEW u \in Threads, pc'[u] = "open" \/ pc'[u] = "close"
        PROVE  u # t /\ pc'[u] = pc[u] /\ local[u] \in Chunks \ {c}
    BY <1>0, <2>1, <2>2, <2>3, <2>7 DEF Stages, TypeOK
  <2>8. Cutting'
    BY <2>3, <2>7 DEF Rooms, Cutting, FreeSize
  <2> QED
    BY <2>5, <2>6, <2>8 DEF Rooms
<1>10. CASE PushGlobal(t)
  <2>1. Cutting'
    BY <1>10 DEF PushGlobal, Rooms, Cutting, FreeSize, TypeOK
  <2> QED
    BY <1>10, <2>1, RoomsKept DEF PushGlobal
<1> QED
  BY <1>1, <1>2, <1>3, <1>4, <1>5, <1>6, <1>7, <1>8, <1>9, <1>10 DEF Step

-----------------------------------------------------------------------------
LEMMA StepInv == PoolInv /\ [Next]_vars => PoolInv'
<1> SUFFICES ASSUME PoolInv, [Next]_vars PROVE PoolInv'
  OBVIOUS
<1>1. ASSUME NEW t \in Threads, Step(t) PROVE PoolInv'
  <2>1. TypeOK'
    BY <1>1, TypeStep
  <2>2. Stages' /\ Naming'
    BY <1>1, StagesStep
  <2>3. Hands' /\ TransitUnused'
    BY <1>1, <2>1, HandsStep, TransitStep
  <2>4. Rooms'
    BY <1>1, <2>1, RoomsStep
  <2>5. OpenInClose' /\ AssertionsHold'
    BY <1>1, <2>1, OpenStep
  <2> QED
    BY <2>1, <2>2, <2>3, <2>4, <2>5 DEF PoolInv
<1>2. CASE UNCHANGED vars
  <2> USE <1>2 DEF vars, pool, chunk, bufs, locals, PoolInv
  <2>1. TypeOK'
    BY DEF TypeOK
  <2>2. Stages' /\ Naming'
    BY DEF Stages, Naming, Alive
  <2>3. Hands' /\ TransitUnused'
    BY DEF Hands, NoRepeats, PoolUnheld, OneHand, OneRole, UsedAreMade, Elems, InHand,
           TransitUnused, Unused
  <2>4. Rooms'
    BY DEF Rooms, BelowUsed, Cutting, BuffersApart, Alive, FreeSize
  <2>5. OpenInClose' /\ AssertionsHold'
    BY DEF OpenInClose, AssertionsHold
  <2> QED
    BY <2>1, <2>2, <2>3, <2>4, <2>5
<1> QED
  BY <1>1, <1>2 DEF Next, Step

LEMMA PoolInvariant == Safety => []PoolInv
  BY InitInv, StepInv, PTL DEF Safety

(***************************************************************************)
(* The variables keep their types; in particular _usedSize never passes    *)
(* the end of the chunk.                                                   *)
(***************************************************************************)
THEOREM TypeCorrect == Safety => []TypeOK
<1>1. PoolInv => TypeOK
  BY DEF PoolInv
<1> QED
  BY <1>1, PoolInvariant, PTL

(***************************************************************************)
(* No packet is written over another one that waits to be sent.            *)
(***************************************************************************)
THEOREM NothingOverwritten == Safety => []BuffersApart
<1>1. PoolInv => BuffersApart
  BY DEF PoolInv, Rooms
<1> QED
  BY <1>1, PoolInvariant, PTL

(***************************************************************************)
(* A chunk is in the hand of one thread, or once in the pool and then held *)
(* by nobody: that is why a thread may cut from its chunk without a lock.  *)
(***************************************************************************)
THEOREM OneHandOnly == Safety => []ChunkInOneHand
<1>1. PoolInv => ChunkInOneHand
  BY DEF PoolInv, Hands, NoRepeats, PoolUnheld, OneHand, ChunkInOneHand
<1> QED
  BY <1>1, PoolInvariant, PTL

(***************************************************************************)
(* The assertions of SendBuffer.cpp hold, and Open always has room.        *)
(***************************************************************************)
THEOREM AssertionsNeverFail == Safety => []AssertionsHold
<1>1. PoolInv => AssertionsHold
  BY DEF PoolInv
<1> QED
  BY <1>1, PoolInvariant, PTL

-----------------------------------------------------------------------------
(***************************************************************************)
(* NoChunkLost is inductive beside PoolInv: the step that takes a holder   *)
(* away leaves another one, or has the chunk in its hand to push it.       *)
(***************************************************************************)
Kept(c) == \/ c \in Elems(chunks)
           \/ \E t \in Threads : InHand(c, t)
           \/ \E b \in Buffers : owner[b] = c

LEMMA KeptStep ==
  ASSUME PoolInv, NEW t \in Threads, Step(t), TypeOK',
         NEW c \in Chunks, c \in made => Kept(c)
  PROVE  c \in made' => Kept(c)'
<1> SUFFICES ASSUME c \in made' PROVE Kept(c)'
  OBVIOUS
<1> USE DEF PoolInv, TypeOK, Goto, pool, chunk, bufs, locals, InHand, Kept
<1>1. ASSUME NEW b \in Buffers, Release(t, b) PROVE Kept(c)'
  <2>1. /\ UNCHANGED <<chunks, made, local, popped>> /\ pc[t] = "idle"
        /\ owner' = [owner EXCEPT ![b] = NoChunk]
        /\ dying' = [dying EXCEPT ![t] = IF ~HeldWithoutBuffer(owner[b], b) THEN owner[b] ELSE NoChunk]
    BY <1>1 DEF Release
  <2>2. /\ dying[t] = NoChunk
        /\ dying'[t] = IF ~HeldWithoutBuffer(owner[b], b) THEN owner[b] ELSE NoChunk
        /\ \A u \in Threads \ {t} : dying'[u] = dying[u]
        /\ \A a \in Buffers \ {b} : owner'[a] = owner[a]
    BY <2>1 DEF Stages
  <2>3. CASE c \in Elems(chunks)
    BY <2>1, <2>3 DEF Elems
  <2>4. CASE \E u \in Threads : InHand(c, u)
    <3>1. PICK u \in Threads : local[u] = c \/ popped[u] = c \/ dying[u] = c
      BY <2>4
    <3>2. local'[u] = c \/ popped'[u] = c \/ dying'[u] = c
      BY <2>1, <2>2, <3>1
    <3> QED BY <3>2
  <2>5. CASE \E a \in Buffers : owner[a] = c
    <3>1. CASE owner[b] = c /\ ~HeldWithoutBuffer(owner[b], b)
      BY <2>2, <3>1
    <3>2. CASE owner[b] = c /\ HeldWithoutBuffer(owner[b], b)
      BY <2>1, <2>2, <3>2 DEF HeldWithoutBuffer
    <3>3. CASE owner[b] # c
      BY <2>2, <2>5, <3>3
    <3> QED BY <3>1, <3>2, <3>3
  <2>6. Kept(c)
    BY <2>1
  <2> QED BY <2>3, <2>4, <2>5, <2>6
<1>2. ASSUME NEW b \in Buffers, NEW n \in Sizes, MakeSendBuffer(t, b, n) PROVE Kept(c)'
  BY <1>2 DEF MakeSendBuffer
<1>3. CASE TestFreeSize(t)
  BY <1>3 DEF TestFreeSize
<1>4. CASE Pop(t)
  <2>1. Elems(chunks) = Elems(chunks') \union {popped'[t]}
    BY <1>4, PopChunk DEF Pop, PopLeaving, Hands
  <2>2. popped[t] = NoChunk /\ UNCHANGED <<made, owner, local, dying>>
    BY <1>4 DEF Pop, PopLeaving, Stages
  <2>3. \A u \in Threads \ {t} : popped'[u] = popped[u]
    BY <1>4 DEF Pop, PopLeaving
  <2> QED
    BY <2>1, <2>2, <2>3
<1>5. CASE NewChunk(t)
  BY <1>5 DEF NewChunk, Stages
<1>6. CASE Assign(t)
  <2> DEFINE last == local[t] # NoChunk /\ ~HeldWithoutLocal(local[t], t)
  <2>1. UNCHANGED <<chunks, made, owner>> /\ dying[t] = NoChunk /\ c # NoChunk
    BY <1>6, NoneAssumption DEF Assign, Stages
  <2>2. local'[t] = popped[t] /\ dying'[t] = IF last THEN local[t] ELSE NoChunk
    BY <1>6 DEF Assign
  <2>3. \A u \in Threads \ {t} : local'[u] = local[u] /\ popped'[u] = popped[u] /\ dying'[u] = dying[u]
    BY <1>6 DEF Assign
  <2> HIDE DEF last, PoolInv
  <2>4. CASE c \in Elems(chunks) \/ \E b \in Buffers : owner[b] = c
    BY <2>1, <2>4
  <2>5. ASSUME NEW u \in Threads \ {t}, InHand(c, u) PROVE Kept(c)'
    BY <2>3, <2>5
  <2>6. CASE popped[t] = c
    BY <2>2, <2>6
  <2>7. CASE local[t] = c /\ last
    BY <2>2, <2>7
  <2>8. CASE local[t] = c /\ ~last
    <3>1. HeldWithoutLocal(c, t)
      BY <2>1, <2>8 DEF last
    <3>2. \/ \E u \in Threads \ {t} : InHand(c, u)
          \/ popped[t] = c
          \/ \E b \in Buffers : owner[b] = c
      BY <3>1 DEF HeldWithoutLocal
    <3> QED
      BY <3>2, <2>4, <2>5, <2>6
  <2> QED
    BY <2>1, <2>4, <2>5, <2>6, <2>7, <2>8
<1>7. CASE Reset(t)
  BY <1>7 DEF Reset
<1>8. CASE Open(t)
  <2>1. owner[buffer[t]] = NoChunk
    BY <1>8 DEF Open, Stages, Naming, Alive
  <2> QED
    BY <1>8, <2>1 DEF Open
<1>9. CASE Close(t)
  BY <1>9 DEF Close, CloseAt
<1>10. CASE PushGlobal(t)
  <2>1. Elems(chunks') = Elems(chunks) \union {dying[t]}
    <3>1. /\ chunks' = Append(chunks, dying[t]) /\ dying[t] \in Chunks
      BY <1>10 DEF PushGlobal, Stages
    <3>2. dying[t] \notin Elems(chunks)
      BY <3>1 DEF Hands, PoolUnheld
    <3> QED
      BY <3>1, <3>2, PushChunk DEF Hands
  <2>2. UNCHANGED <<made, owner, local, popped>>
    BY <1>10 DEF PushGlobal
  <2>3. \A u \in Threads \ {t} : dying'[u] = dying[u]
    BY <1>10 DEF PushGlobal
  <2> QED
    BY <2>1, <2>2, <2>3
<1> QED
  BY <1>1, <1>2, <1>3, <1>4, <1>5, <1>6, <1>7, <1>8, <1>9, <1>10 DEF Step

(***************************************************************************)
(* No chunk leaks: every chunk that was made is in the pool, in the hand   *)
(* of a thread, or kept by a buffer that lives.                            *)
(***************************************************************************)
THEOREM NothingLeaks == Safety => []NoChunkLost
<1>1. Init => NoChunkLost
  BY DEF Init, NoChunkLost
<1>2. PoolInv /\ PoolInv' /\ NoChunkLost /\ [Next]_vars => NoChunkLost'
  <2> SUFFICES ASSUME PoolInv, PoolInv', NoChunkLost, [Next]_vars PROVE NoChunkLost'
    OBVIOUS
  <2>1. made' \subseteq Chunks /\ made \subseteq Chunks /\ TypeOK'
    BY DEF PoolInv, TypeOK
  <2>2. \A c \in Chunks : c \in made => Kept(c)
    BY DEF NoChunkLost, Kept
  <2>3. ASSUME NEW t \in Threads, Step(t) PROVE \A c \in Chunks : c \in made' => Kept(c)'
    BY <2>1, <2>2, <2>3, KeptStep
  <2>4. CASE UNCHANGED vars
    BY <2>4 DEF vars, pool, chunk, bufs, locals, NoChunkLost, Elems, InHand
  <2>5. \/ UNCHANGED vars
        \/ \E t \in Threads : Step(t)
    BY DEF Next, Step
  <2>6. (\A c \in Chunks : c \in made' => Kept(c)') => NoChunkLost'
    BY <2>1 DEF NoChunkLost, Kept
  <2> QED
    BY <2>3, <2>4, <2>5, <2>6
<1> QED
  BY <1>1, <1>2, PoolInvariant, PTL DEF Safety

(***************************************************************************)
(* A chunk is in one hand at most, and none leaks.                         *)
(***************************************************************************)
THEOREM ChunksAccounted == Safety => []ChunksAccountedFor
BY OneHandOnly, NothingLeaks, PTL DEF ChunksAccountedFor

=============================================================================
