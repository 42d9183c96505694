------------------------------ MODULE RwMutex ------------------------------
(***************************************************************************)
(* What a read-write lock promises: many readers, or one writer and nobody *)
(* else.                                                                   *)
(***************************************************************************)
CONSTANT Threads

VARIABLES readers, writers

Init == readers = {} /\ writers = {}

LockRead(t) ==
  /\ writers = {}
  /\ readers' = readers \union {t}
  /\ UNCHANGED writers

LockWrite(t) ==
  /\ readers \union writers = {}
  /\ writers' = {t}
  /\ UNCHANGED readers

UnLock(t) ==
  /\ readers' = readers \ {t}
  /\ writers' = writers \ {t}

Next == \E t \in Threads : LockRead(t) \/ LockWrite(t) \/ UnLock(t)

Spec == Init /\ [][Next]_<<readers, writers>>

=============================================================================
