----------------------------- MODULE OutStream -----------------------------
(***************************************************************************)
(* What the sending side of a session promises: buffers wait in the order  *)
(* in which they came, and a flush moves all of them to the wire, whole    *)
(* and in that order.  If the wire takes less, the rest is dropped.        *)
(***************************************************************************)
EXTENDS Integers, Sequences

CONSTANTS
  Buffers,
  Cut            \* a piece of a buffer

VARIABLES waiting, wire

Init == waiting = <<>> /\ wire = <<>>

Put(b) ==
  /\ waiting' = Append(waiting, b)
  /\ UNCHANGED wire

Flush(n, piece) ==
  /\ n = Len(waiting) => piece = <<>>
  /\ wire' = wire \o SubSeq(waiting, 1, n) \o piece
  /\ waiting' = <<>>

Drop ==
  /\ waiting' = <<>>
  /\ UNCHANGED wire

Next ==
  \/ \E b \in Buffers : Put(b)
  \/ \E n \in 0..Len(waiting), piece \in {<<>>, <<Cut>>} : Flush(n, piece)
  \/ Drop

Spec == Init /\ [][Next]_<<waiting, wire>>

=============================================================================
