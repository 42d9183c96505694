---------------------------- MODULE RwLockProofs ----------------------------
(***************************************************************************)
(* What the lock guarantees for any finite number of threads and any       *)
(* number of read sections.                                                *)
(*                                                                         *)
(* Exclusion is not inductive: that a thread may begin to write is decided *)
(* by the holds that pthread counts, not by where the threads are.  The    *)
(* two are related by HoldsExact, which in turn needs that a thread that   *)
(* is on its way to its hold was counted among the read sections.          *)
(***************************************************************************)
EXTENDS RwLock, FiniteSetTheorems, TLAPS

USE ThreadsAssumption, BoundAssumption

Count(place) == Cardinality(At({place}))

(***************************************************************************)
(* Sections that were begun and have fewer holds than in the end.          *)
(***************************************************************************)
Begun == Count("tryrdlock") + Count("rdlock") <= reads

WriterIsThere == writer = Writers /\ (writer # {} => Readers = {})

OneWriter == \A t, u \in writer : t = u

LockInv == TypeOK /\ HoldsExact /\ Begun /\ WriterIsThere /\ OneWriter

-----------------------------------------------------------------------------
(***************************************************************************)
(* Numbers.                                                                *)
(***************************************************************************)
LEMMA CountType ==
  ASSUME NEW place
  PROVE  IsFiniteSet(At({place})) /\ Count(place) \in Nat
<1>1. At({place}) \in SUBSET Threads
  BY DEF At
<1>2. IsFiniteSet(At({place}))
  BY <1>1, FS_Subset
<1> QED BY <1>2, FS_CardinalityType DEF Count

LEMMA AtMoves ==
  ASSUME TypeOK, NEW t \in Threads, NEW from, NEW to, Goto(t, from, to), NEW places
  PROVE  At(places)' = IF to \in places THEN At(places) \union {t} ELSE At(places) \ {t}
BY DEF TypeOK, Goto, At

LEMMA CountMoves ==
  ASSUME TypeOK, NEW t \in Threads, NEW from, NEW to, Goto(t, from, to), from # to
  PROVE  /\ Count(from)' = Count(from) - 1
         /\ Count(to)' = Count(to) + 1
         /\ \A place : place \notin {from, to} => Count(place)' = Count(place)
<1>1. t \in At({from}) /\ \A place : place # from => t \notin At({place})
  BY DEF Goto, At
<1>2. /\ At({from})' = At({from}) \ {t}
      /\ At({to})' = At({to}) \union {t}
      /\ \A place : place \notin {from, to} => At({place})' = At({place}) \ {t}
  <2>1. \A place : At({place})' = IF to = place THEN At({place}) \union {t} ELSE At({place}) \ {t}
    BY AtMoves
  <2> QED BY <2>1
<1>3. \A place : place \notin {from, to} => At({place})' = At({place})
  BY <1>1, <1>2
<1>4. Cardinality(At({from}) \ {t}) = Cardinality(At({from})) - 1
  BY <1>1, CountType, FS_RemoveElement
<1>5. Cardinality(At({to}) \union {t}) = Cardinality(At({to})) + 1
  BY <1>1, CountType, FS_AddElement
<1> QED BY <1>2, <1>3, <1>4, <1>5 DEF Count

LEMMA Arithmetic ==
  ASSUME NEW h \in Int, NEW r \in Int, NEW a \in Nat, NEW b \in Nat, NEW c \in Nat,
         h = r - a + c, a + b <= r
  PROVE  /\ h \in Nat /\ b + c <= h
         /\ h + 1 = (r - (a - 1)) + c /\ (a - 1) + (b + 1) <= r
         /\ h + 1 = (r - a) + (c + 1) /\ a + (b - 1) <= r
         /\ h - 1 = (r - a) + (c - 1)
         /\ h = ((r + 1) - (a + 1)) + c /\ (a + 1) + b <= r + 1
OBVIOUS

LEMMA HoldsOf ==
  ASSUME TypeOK, HoldsExact, Begun
  PROVE  Count("rdlock") + Count("reading") <= holds
<1>1. /\ Count("tryrdlock") \in Nat /\ Count("rdlock") \in Nat /\ Count("reading") \in Nat
      /\ holds = reads - Count("tryrdlock") + Count("reading")
  BY CountType DEF HoldsExact, Count
<1>2. holds \in Int /\ reads \in Int
  BY DEF TypeOK
<1> QED BY <1>1, <1>2, Arithmetic DEF Begun

(***************************************************************************)
(* Every step keeps the balance.                                           *)
(***************************************************************************)
LEMMA BalanceStep ==
  ASSUME TypeOK, HoldsExact, Begun, NEW t \in Threads,
         NEW a, NEW b, NEW c, NEW h, NEW r,
         a = Count("tryrdlock")', b = Count("rdlock")', c = Count("reading")',
         h = holds', r = reads',
         \/ WantRead(t) \/ ReadLock(t) \/ ReadUnLock(t)
         \/ WantWrite(t) \/ WriteLock(t) \/ WriteUnLock(t)
  PROVE  h \in Nat /\ r \in Nat /\ h = r - a + c /\ a + b <= r
<1> DEFINE a0 == Count("tryrdlock")  b0 == Count("rdlock")  c0 == Count("reading")
<1>0. /\ a0 \in Nat /\ b0 \in Nat /\ c0 \in Nat /\ holds \in Nat /\ reads \in Nat
      /\ holds = reads - a0 + c0 /\ a0 + b0 <= reads
  BY CountType DEF TypeOK, HoldsExact, Begun, Count
<1>n. \A place : Count(place) \in Nat
  BY CountType
<1>1. CASE WantRead(t)
  <2>1. Goto(t, "idle", "tryrdlock") /\ h = holds /\ r = reads + 1
    BY <1>1 DEF WantRead
  <2>2. a = a0 + 1 /\ b = b0 /\ c = c0
    BY <2>1, CountMoves
  <2> HIDE DEF a0, b0, c0
  <2>3. h \in Nat /\ r \in Nat /\ a \in Nat
    BY <1>0, <2>1, <2>2
  <2>4. h = r - a + c /\ a + b <= r
    BY <1>0, <2>1, <2>2, <2>3
  <2> QED BY <2>3, <2>4
<1>2. CASE TryRdlock(t)
  <2>1. Goto(t, "tryrdlock", "rdlock") /\ h = holds + 1 /\ r = reads
    BY <1>2 DEF TryRdlock
  <2>2. a = a0 - 1 /\ b = b0 + 1 /\ c = c0 /\ a \in Int
    BY <2>1, <1>0, CountMoves
  <2> HIDE DEF a0, b0, c0
  <2> QED BY <1>0, <2>1, <2>2, Arithmetic
<1>3. CASE Rdlock(t)
  <2>1. Goto(t, "rdlock", "reading") /\ h = holds + 1 /\ r = reads
    BY <1>3 DEF Rdlock
  <2>2. a = a0 /\ b = b0 - 1 /\ c = c0 + 1
    BY <2>1, CountMoves
  <2> HIDE DEF a0, b0, c0
  <2> QED BY <1>0, <2>1, <2>2, Arithmetic
<1>4. CASE ReadUnLock(t)
  <2>1. Goto(t, "reading", "idle") /\ h = holds - 1 /\ r = reads
    BY <1>4 DEF ReadUnLock
  <2>2. a = a0 /\ b = b0 /\ c = c0 - 1
    BY <2>1, CountMoves
  <2>3. c0 >= 1
    <3>1. t \in At({"reading"})
      BY <2>1 DEF Goto, At
    <3>2. IsFiniteSet(At({"reading"}))
      BY CountType
    <3>3. c0 # 0
      BY <3>1, <3>2, FS_EmptySet DEF Count
    <3> HIDE DEF c0
    <3> QED BY <3>3, <1>0
  <2> HIDE DEF a0, b0, c0
  <2>4. h \in Nat
    BY <1>0, <2>1, <2>3, Arithmetic
  <2> QED BY <1>0, <2>1, <2>2, <2>4, Arithmetic
<1>5. CASE WantWrite(t) \/ WriteLock(t) \/ WriteUnLock(t)
  <2>1. h = holds /\ r = reads
    BY <1>0, <1>5 DEF WantWrite, WriteLock, TryWrlock, TryWrlockIf, Wrlock, WriteUnLock, EndWrite
  <2>2. PICK from \in {"idle", "trywrlock", "wrlock", "writing"},
             to \in {"idle", "trywrlock", "wrlock", "writing"} :
          from # to /\ Goto(t, from, to)
    BY <1>5 DEF WantWrite, WriteLock, TryWrlock, TryWrlockIf, Wrlock, WriteUnLock, EndWrite
  <2>3. a = a0 /\ b = b0 /\ c = c0
    BY <2>2, CountMoves
  <2> HIDE DEF a0, b0, c0
  <2> QED BY <1>0, <2>1, <2>3
<1> QED BY <1>1, <1>2, <1>3, <1>4, <1>5 DEF ReadLock

-----------------------------------------------------------------------------
LEMMA InitLockInv == Init => LockInv
<1> SUFFICES ASSUME Init PROVE LockInv
  OBVIOUS
<1>1. TypeOK
  BY DEF Init, TypeOK
<1>2. At({"tryrdlock"}) = {} /\ At({"rdlock"}) = {} /\ At({"reading"}) = {}
  BY DEF Init, At
<1>3. Cardinality({}) = 0
  BY FS_EmptySet
<1>4. HoldsExact /\ Begun
  BY <1>2, <1>3 DEF Init, HoldsExact, Begun, Count
<1>5. WriterIsThere /\ OneWriter
  BY DEF Init, WriterIsThere, OneWriter, Writers, Readers, At
<1> QED BY <1>1, <1>4, <1>5 DEF LockInv

LEMMA WriterStep ==
  ASSUME LockInv, NEW t \in Threads,
         \/ WantRead(t) \/ ReadLock(t) \/ ReadUnLock(t)
         \/ WantWrite(t) \/ WriteLock(t) \/ WriteUnLock(t)
  PROVE  WriterIsThere' /\ OneWriter'
<1> USE DEF LockInv, TypeOK, WriterIsThere, OneWriter, Readers, Writers, At, Goto
<1>1. CASE WantRead(t)
  BY <1>1 DEF WantRead
<1>2. CASE TryRdlock(t)
  BY <1>2 DEF TryRdlock
<1>3. CASE Rdlock(t)
  BY <1>3 DEF Rdlock
<1>4. CASE ReadUnLock(t)
  BY <1>4 DEF ReadUnLock
<1>5. CASE WantWrite(t)
  BY <1>5 DEF WantWrite
<1>6. CASE TryWrlock(t)
  <2>1. Readers = {}
    <3>1. Count("rdlock") = 0 /\ Count("reading") = 0
      <4>1. Count("rdlock") + Count("reading") <= 0
        BY <1>6, HoldsOf DEF TryWrlock, TryWrlockIf
      <4>2. Count("rdlock") \in Nat /\ Count("reading") \in Nat
        BY CountType
      <4> QED BY <4>1, <4>2
    <3>2. At({"rdlock"}) = {} /\ At({"reading"}) = {}
      BY <3>1, CountType, FS_EmptySet DEF Count
    <3> QED BY <3>2
  <2> QED BY <1>6, <2>1 DEF TryWrlock, TryWrlockIf
<1>7. CASE Wrlock(t)
  BY <1>7 DEF Wrlock
<1>8. CASE WriteUnLock(t)
  BY <1>8 DEF WriteUnLock, EndWrite
<1> QED BY <1>1, <1>2, <1>3, <1>4, <1>5, <1>6, <1>7, <1>8 DEF ReadLock, WriteLock

LEMMA StepLockInv == LockInv /\ [Next]_vars => LockInv'
<1> SUFFICES ASSUME LockInv, [Next]_vars PROVE LockInv'
  OBVIOUS
<1>1. CASE UNCHANGED vars
  BY <1>1 DEF LockInv, TypeOK, HoldsExact, Begun, Count, WriterIsThere, OneWriter,
              Readers, Writers, At, vars
<1>2. CASE Next
  <2>1. PICK t \in Threads :
          \/ WantRead(t) \/ ReadLock(t) \/ ReadUnLock(t)
          \/ WantWrite(t) \/ WriteLock(t) \/ WriteUnLock(t)
    BY <1>2 DEF Next
  <2>2. /\ holds' \in Nat /\ reads' \in Nat
        /\ holds' = reads' - Count("tryrdlock")' + Count("reading")'
        /\ Count("tryrdlock")' + Count("rdlock")' <= reads'
    BY <2>1, BalanceStep DEF LockInv
  <2>3. HoldsExact' /\ Begun'
    BY <2>2 DEF HoldsExact, Begun, Count
  <2>4. WriterIsThere' /\ OneWriter'
    BY <2>1, WriterStep
  <2>5. pc' \in [Threads -> {"idle", "tryrdlock", "rdlock", "reading",
                             "trywrlock", "wrlock", "writing"}]
    BY <2>1 DEF LockInv, TypeOK, Goto, WantRead, ReadLock, TryRdlock, Rdlock,
                ReadUnLock, WantWrite, WriteLock, TryWrlock,
                TryWrlockIf, Wrlock, WriteUnLock, EndWrite
  <2>6. writer' \subseteq Threads
    BY <2>4 DEF WriterIsThere, Writers, At
  <2> QED BY <2>2, <2>3, <2>4, <2>5, <2>6 DEF LockInv, TypeOK
<1> QED BY <1>1, <1>2

LEMMA AlwaysLockInv == Safety => []LockInv
BY InitLockInv, StepLockInv, PTL DEF Safety

-----------------------------------------------------------------------------
(***************************************************************************)
(* The variables keep their types: in particular nobody gives back a hold  *)
(* that was not taken.                                                     *)
(***************************************************************************)
THEOREM TypeCorrect == Safety => []TypeOK
BY AlwaysLockInv, PTL DEF LockInv

(***************************************************************************)
(* While one thread writes nobody else reads or writes (LockUtils.cpp:37). *)
(***************************************************************************)
THEOREM MutualExclusion == Safety => []Exclusion
<1>1. LockInv => Exclusion
  BY DEF LockInv, WriterIsThere, OneWriter, Exclusion
<1> QED BY <1>1, AlwaysLockInv, PTL

(***************************************************************************)
(* Every read section that has ended has left a hold behind                *)
(* (LockUtils.cpp:16 and 26).                                              *)
(***************************************************************************)
THEOREM OneHoldLeftBehind == Safety => []HoldsExact
BY AlwaysLockInv, PTL DEF LockInv

-----------------------------------------------------------------------------
(***************************************************************************)
(* Under the mapping of a thread that has its hold, or writes, to a reader *)
(* or writer, each step is one of RwMutex or leaves both sets alone.       *)
(***************************************************************************)
LEMMA SameThreads ==
  ASSUME TypeOK, NEW t \in Threads, NEW from, NEW to, Goto(t, from, to),
         \/ {from, to} \subseteq {"idle", "tryrdlock", "trywrlock"}
         \/ {from, to} \subseteq {"rdlock", "reading"}
         \/ {from, to} \subseteq {"wrlock", "writing"}
  PROVE  Readers' = Readers /\ Writers' = Writers
BY DEF TypeOK, Goto, Readers, Writers, At

LEMMA StepSimulation == LockInv /\ [Next]_vars => [Mutex!Next]_<<Readers, Writers>>
<1> SUFFICES ASSUME LockInv, [Next]_vars
             PROVE  [Mutex!Next]_<<Readers, Writers>>
  OBVIOUS
<1>1. CASE UNCHANGED vars
  BY <1>1 DEF Readers, Writers, At, vars
<1>2. ASSUME NEW t \in Threads, WantRead(t) \/ Rdlock(t) \/ WantWrite(t) \/ Wrlock(t)
      PROVE  Readers' = Readers /\ Writers' = Writers
  <2>1. TypeOK
    BY DEF LockInv
  <2>2. CASE WantRead(t)
    BY <2>1, <2>2, SameThreads DEF WantRead
  <2>3. CASE Rdlock(t)
    BY <2>1, <2>3, SameThreads DEF Rdlock
  <2>4. CASE WantWrite(t)
    BY <2>1, <2>4, SameThreads DEF WantWrite
  <2>5. CASE Wrlock(t)
    BY <2>1, <2>5, SameThreads DEF Wrlock
  <2> QED BY <1>2, <2>2, <2>3, <2>4, <2>5
<1>3. ASSUME NEW t \in Threads, TryRdlock(t) PROVE Mutex!LockRead(t)
  BY <1>3 DEF LockInv, TypeOK, WriterIsThere, TryRdlock, Goto, Readers, Writers, At,
              Mutex!LockRead
<1>4. ASSUME NEW t \in Threads, TryWrlock(t) PROVE Mutex!LockWrite(t)
  <2>1. WriterIsThere'
    BY <1>4, WriterStep DEF WriteLock
  <2>2. Writers = {} /\ Writers' = {t} /\ Readers' = {}
    BY <1>4, <2>1 DEF LockInv, WriterIsThere, TryWrlock, TryWrlockIf
  <2>3. Readers = Readers'
    BY <1>4 DEF LockInv, TypeOK, TryWrlock, TryWrlockIf, Goto, Readers, At
  <2> QED BY <2>2, <2>3 DEF Mutex!LockWrite
<1>5. ASSUME NEW t \in Threads, ReadUnLock(t) \/ WriteUnLock(t) PROVE Mutex!UnLock(t)
  BY <1>5 DEF LockInv, TypeOK, ReadUnLock, WriteUnLock, EndWrite, Goto, Readers,
              Writers, At, Mutex!UnLock
<1>6. CASE Next
  <2>1. PICK t \in Threads :
          \/ WantRead(t) \/ ReadLock(t) \/ ReadUnLock(t)
          \/ WantWrite(t) \/ WriteLock(t) \/ WriteUnLock(t)
    BY <1>6 DEF Next
  <2> QED BY <2>1, <1>2, <1>3, <1>4, <1>5 DEF ReadLock, WriteLock, Mutex!Next
<1> QED BY <1>1, <1>6

(***************************************************************************)
(* The lock implements the read-write lock of RwMutex: what LockUtils does *)
(* twice does not break what it promises, only who gets in.                *)
(***************************************************************************)
THEOREM Implements == Safety => ImplementsRwMutex
<1>1. Init => Mutex!Init
  BY DEF Init, Mutex!Init, Readers, Writers, At
<1> QED BY <1>1, StepSimulation, AlwaysLockInv, PTL DEF Safety, ImplementsRwMutex, Mutex!Spec

=============================================================================
