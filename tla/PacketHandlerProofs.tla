------------------------ MODULE PacketHandlerProofs ------------------------
(***************************************************************************)
(* Proofs about PacketHandler, for any lengths of names and texts and any  *)
(* number of players and monsters.                                         *)
(***************************************************************************)
EXTENDS PacketHandler, TLAPS

Names9 ==
  {"listedPlayer", "monster", "player", "move", "chat", "closed", "attack", "listedAttack", "hit"}

\* The number of the fields of an entry.
Last(e) == Len(Fields[e])

\* The bytes of an entry before its field f, names and texts left out.
Offsets == [
  listedPlayer |-> <<0, 2, 3, 7, 11, 15, 19, 23, 25>>,
  monster      |-> <<0, 2, 3, 7, 11, 15, 19, 23, 27, 29>>,
  player       |-> <<0, 2, 3, 7, 9>>,
  move         |-> <<0, 4, 8, 12, 16, 20>>,
  chat         |-> <<0, 4, 5, 9>>,
  closed       |-> <<0>>,
  attack       |-> <<0, 4>>,
  listedAttack |-> <<0, 4>>,
  hit          |-> <<0, 4, 8>>]

\* The bytes of all the fields of an entry, names and texts left out.
Bytes == [
  listedPlayer |-> 25, monster |-> 29, player |-> 9, move |-> 24, chat |-> 9,
  closed |-> 4, attack |-> 8, listedAttack |-> 8, hit |-> 12]

Named == {"listedPlayer", "monster", "player"}

(***************************************************************************)
(* The layout of an entry: what every field adds to the bytes before it,   *)
(* and that only the last one can be a name or a text.                     *)
(***************************************************************************)
LayoutOf(e) ==
  /\ Last(e) \in Nat \ {0}
  /\ Bytes[e] \in Nat
  /\ Offsets[e][1] = 0
  /\ \A f \in 1..Last(e) :
       /\ Fields[e][f] \in 0..4 /\ Offsets[e][f] \in Nat /\ Offsets[e][f] <= Bytes[e]
       /\ Fields[e][f] = 0 => f = Last(e) /\ e \in Named \union {"chat"}
       /\ f < Last(e) => Offsets[e][f + 1] = Offsets[e][f] + Fields[e][f]
       /\ f = Last(e) => Bytes[e] = Offsets[e][f] + Fields[e][f]
       /\ f = Last(e) /\ e \in Named \union {"chat"} => Fields[e][f] = 0

LEMMA Layout == \A e \in Names9 : LayoutOf(e)
<1> SUFFICES ASSUME NEW e \in Names9 PROVE LayoutOf(e)
  OBVIOUS
<1> USE DEF LayoutOf, Fields, Offsets, Bytes, Last, Named
<1>1. CASE e = "listedPlayer" BY <1>1
<1>2. CASE e = "monster" BY <1>2
<1>3. CASE e = "player" BY <1>3
<1>4. CASE e = "move" BY <1>4
<1>5. CASE e = "chat" BY <1>5
<1>6. CASE e = "closed" BY <1>6
<1>7. CASE e = "attack" BY <1>7
<1>8. CASE e = "listedAttack" BY <1>8
<1>9. CASE e = "hit" BY <1>9
<1> QED BY <1>1, <1>2, <1>3, <1>4, <1>5, <1>6, <1>7, <1>8, <1>9 DEF Names9

-----------------------------------------------------------------------------
\* How many entries like the present one the packet has.
Total == IF entry = "monster" THEN monsters ELSE players

(***************************************************************************)
(* Where the loops stand.                                                  *)
(***************************************************************************)
LoopInv ==
  /\ pc \in {"idle", "count", "field", "sent"}
  /\ kind \in Kinds
  /\ players \in Nat /\ monsters \in Nat /\ text \in Nat /\ left \in Nat
  /\ entry = First(kind) \/ (entry = "monster" /\ kind = "load")
  /\ First(kind) \notin Listed => players = 1
  /\ kind # "load" => monsters = 0
  /\ kind # "chat" => text = 0
  /\ entry = "listedPlayer" => pc \in {"count", "field"}
  /\ pc = "count" => entry \in Listed /\ left = Total
  /\ pc = "field" => left \in 1..Total
  /\ field \in 1..Last(entry)
  /\ pc # "field" => field = 1
  /\ name \in 0..255

LEMMA EntryNamed == LoopInv => entry \in Names9
BY DEF LoopInv, Kinds, First, Names9

LEMMA LoopInvStep == LoopInv /\ [Next]_vars => LoopInv'
<1> SUFFICES ASSUME LoopInv, [Next]_vars PROVE LoopInv'
  OBVIOUS
<1>0. \A e \in Names9 : Last(e) \in Nat /\ Last(e) >= 1
  BY Layout DEF LayoutOf
<1>n. entry \in Names9 /\ "monster" \in Names9
  BY EntryNamed DEF Names9
<1>1. CASE MakePacket
  <2>1. kind' \in Kinds /\ entry' = First(kind') /\ entry' \in Names9 /\ entry' # "monster"
    BY <1>1 DEF MakePacket, Kinds, First, Names9
  <2>2. players' \in Nat /\ monsters' \in Nat /\ text' \in Nat /\ name' \in 0..255
    BY <1>1, NamesAssumption, TextsAssumption, CountsAssumption DEF MakePacket
  <2>3. field' = 1 /\ field' \in 1..Last(entry)'
    BY <1>1, <1>0, <2>1 DEF MakePacket, Last
  <2>4. First(kind') \notin Listed => players' = 1
    BY <1>1 DEF MakePacket
  <2>5. /\ kind' # "load" => monsters' = 0
        /\ kind' # "chat" => text' = 0
        /\ left' = players' /\ Total' = players'
    BY <1>1, <2>1 DEF MakePacket, Total
  <2>6. CASE entry' \in Listed
    <3>1. pc' = "count" BY <1>1, <2>6 DEF MakePacket
    <3> QED BY <2>1, <2>2, <2>3, <2>4, <2>5, <2>6, <3>1 DEF LoopInv
  <2>7. CASE entry' \notin Listed
    <3>1. pc' = "field" BY <1>1, <2>7 DEF MakePacket
    <3>2. entry' # "listedPlayer" BY <2>7 DEF Listed
    <3>3. left' \in 1..Total' BY <2>1, <2>4, <2>5, <2>7
    <3> QED BY <2>1, <2>2, <2>3, <2>4, <2>5, <3>1, <3>2, <3>3 DEF LoopInv
  <2> QED BY <2>6, <2>7
<1>2. CASE WriteCount
  <2>0. pc = "count" /\ entry \in Listed /\ left = Total /\ field = 1 /\ UNCHANGED <<packet, field, name>>
    BY <1>2 DEF WriteCount, LoopInv
  <2>1. Last(entry)' \in Nat /\ Last(entry)' >= 1
    BY <1>0, <1>n, <1>2 DEF WriteCount, NextPart, Last
  <2>2. CASE left # 0
    <3>1. pc' = "field" /\ UNCHANGED <<entry, left>>
      BY <1>2, <2>2 DEF WriteCount
    <3>2. left' \in 1..Total'
      BY <2>0, <2>2, <3>1 DEF LoopInv, Total, packet
    <3> QED BY <2>0, <2>1, <3>1, <3>2 DEF LoopInv, packet, Total, Last
  <2>3. CASE left = 0 /\ entry = "listedPlayer"
    <3>1. pc' = "count" /\ entry' = "monster" /\ left' = monsters
      BY <1>2, <2>3 DEF WriteCount, NextPart
    <3>2. kind = "load"
      BY <2>3 DEF LoopInv, First, Kinds
    <3> QED BY <2>0, <2>1, <3>1, <3>2 DEF LoopInv, packet, Total, Listed
  <2>4. CASE left = 0 /\ entry # "listedPlayer"
    <3>1. pc' = "sent" /\ UNCHANGED <<entry, left>>
      BY <1>2, <2>4 DEF WriteCount, NextPart
    <3> QED BY <2>0, <2>1, <2>4, <3>1 DEF LoopInv, packet, Total, Last
  <2> QED BY <2>2, <2>3, <2>4
<1>3. CASE WriteField
  <2>1. /\ pc = "field" /\ left \in 1..Total /\ left \in Nat /\ field \in 1..Last(entry)
        /\ Last(entry) \in Nat /\ Last(entry) >= 1
        /\ UNCHANGED packet
    BY <1>0, <1>n, <1>3 DEF WriteField, LoopInv
  <2>2. Total' = (IF entry' = "monster" THEN monsters ELSE players)
    BY <2>1 DEF Total, packet
  <2>3. CASE field < Last(entry)
    <3>1. field' = field + 1 /\ UNCHANGED <<pc, entry, left, name>>
      BY <1>3, <2>3 DEF WriteField, Last
    <3> QED BY <2>1, <2>2, <2>3, <3>1 DEF LoopInv, packet, Total, Last
  <2>4. CASE ~(field < Last(entry)) /\ left > 1
    <3>1. field' = 1 /\ name' \in Names /\ left' = left - 1 /\ UNCHANGED <<pc, entry>>
      BY <1>3, <2>4 DEF WriteField, Last
    <3>2. name' \in 0..255
      BY <3>1, NamesAssumption
    <3> QED BY <2>1, <2>2, <2>4, <3>1, <3>2 DEF LoopInv, packet, Total, Last
  <2>5. CASE ~(field < Last(entry)) /\ ~(left > 1)
    <3>1. field' = 1 /\ name' \in Names /\ NextPart
      BY <1>3, <2>5 DEF WriteField, Last
    <3>2. name' \in 0..255
      BY <3>1, NamesAssumption
    <3>3. Last(entry)' \in Nat /\ Last(entry)' >= 1
      BY <1>0, <1>n, <3>1 DEF NextPart, Last
    <3>4. CASE entry = "listedPlayer"
      <4>1. kind = "load"
        BY <3>4 DEF LoopInv, First, Kinds
      <4>2. pc' = "count" /\ entry' = "monster" /\ left' = monsters
        BY <3>1, <3>4 DEF NextPart
      <4> QED BY <2>1, <2>2, <3>1, <3>2, <3>3, <4>1, <4>2 DEF LoopInv, packet, Listed
    <3>5. CASE entry # "listedPlayer"
      <4>1. pc' = "sent" /\ UNCHANGED <<entry, left>>
        BY <3>1, <3>5 DEF NextPart
      <4> QED BY <2>1, <3>1, <3>2, <3>3, <3>5, <4>1 DEF LoopInv, packet, Last
    <3> QED BY <3>4, <3>5
  <2> QED BY <2>3, <2>4, <2>5
<1>4. CASE Return
  BY <1>4 DEF Return, LoopInv, packet, Total, Last
<1>5. CASE UNCHANGED vars
  BY <1>5 DEF vars, packet, LoopInv, Total, Last
<1> QED BY <1>1, <1>2, <1>3, <1>4, <1>5 DEF Next

LEMMA LoopInvInit == Init => LoopInv
<1> SUFFICES ASSUME Init PROVE LoopInv
  OBVIOUS
<1>1. Last(entry) \in Nat /\ Last(entry) >= 1
  BY Layout DEF Init, LayoutOf, Names9
<1>2. name \in 0..255
  BY DEF Init
<1> QED BY <1>1, <1>2 DEF Init, LoopInv, Kinds, First, Listed

-----------------------------------------------------------------------------
(***************************************************************************)
(* The bytes that have come up for writing so far, names left out.         *)
(***************************************************************************)
Whole(e, n) ==
  CASE e = "listedPlayer"           -> 25 * n
    [] e = "monster"                -> 29 * n
    [] e = "player"                 -> 9 * n
    [] e = "move"                   -> 24 * n
    [] e = "chat"                   -> 9 * n
    [] e = "closed"                 -> 4 * n
    [] e = "attack"                 -> 8 * n
    [] e = "listedAttack"           -> 8 * n
    [] e = "hit"                    -> 12 * n

DoneAt(p, t, l) == IF p = "count" THEN 0 ELSE IF p = "field" THEN t - l ELSE t

Done   == DoneAt(pc, Total, left)
Before == IF entry = "monster" THEN 2 + 25 * players ELSE 0
Number == IF entry \in Listed /\ pc # "count" THEN 2 ELSE 0
Part   == IF pc = "field" THEN Offsets[entry][field] ELSE 0
TextDone == IF entry = "chat" /\ pc # "field" THEN text ELSE 0

Due == Before + Number + Whole(entry, Done) + Part + TextDone

LEMMA WholeSteps ==
  ASSUME NEW e \in Names9, NEW n \in Nat
  PROVE  /\ Whole(e, n) \in Nat
         /\ Whole(e, 0) = 0
         /\ Whole(e, n + 1) = Whole(e, n) + Bytes[e]
<1> USE DEF Whole, Bytes
<1>1. CASE e = "listedPlayer" BY <1>1
<1>2. CASE e = "monster" BY <1>2
<1>3. CASE e = "player" BY <1>3
<1>4. CASE e = "move" BY <1>4
<1>5. CASE e = "chat" BY <1>5
<1>6. CASE e = "closed" BY <1>6
<1>7. CASE e = "attack" BY <1>7
<1>8. CASE e = "listedAttack" BY <1>8
<1>9. CASE e = "hit" BY <1>9
<1> QED BY <1>1, <1>2, <1>3, <1>4, <1>5, <1>6, <1>7, <1>8, <1>9 DEF Names9

LEMMA PartsNat ==
  LoopInv => /\ Done \in Nat /\ Total \in Nat /\ Before \in Nat /\ Number \in Nat
             /\ Part \in Nat /\ TextDone \in Nat /\ Whole(entry, Done) \in Nat /\ Due \in Nat
<1> SUFFICES ASSUME LoopInv PROVE
       /\ Done \in Nat /\ Total \in Nat /\ Before \in Nat /\ Number \in Nat
       /\ Part \in Nat /\ TextDone \in Nat /\ Whole(entry, Done) \in Nat /\ Due \in Nat
  OBVIOUS
<1>0. entry \in Names9
  BY EntryNamed
<1>1. Done \in Nat /\ Total \in Nat
  BY DEF Done, DoneAt, Total, LoopInv
<1>2. Before \in Nat /\ Number \in Nat /\ TextDone \in Nat
  BY DEF Before, Number, TextDone, LoopInv
<1>3. Part \in Nat
  BY <1>0, Layout DEF Part, LoopInv, LayoutOf
<1>4. Whole(entry, Done) \in Nat
  BY <1>0, <1>1, WholeSteps
<1> QED BY <1>1, <1>2, <1>3, <1>4 DEF Due

(***************************************************************************)
(* What has come up is never more than the size of the packet without the  *)
(* room it leaves for names, and in the end it is all of that.             *)
(***************************************************************************)
SizeNow == Size(kind, players, monsters, text)
Full    == SizeNow - Slack

LEMMA DueBound == LoopInv => Due <= Full /\ (pc = "sent" => Due = Full)
<1> SUFFICES ASSUME LoopInv PROVE Due <= Full /\ (pc = "sent" => Due = Full)
  OBVIOUS
<1>0. entry \in Names9
  BY EntryNamed
<1>1. LayoutOf(entry)
  BY <1>0, Layout
<1>2. pc = "field" => Offsets[entry][field] <= Bytes[entry]
  BY <1>1 DEF LayoutOf, LoopInv
<1>3. Done \in Nat /\ players \in Nat /\ monsters \in Nat /\ text \in Nat /\ left \in Nat
  BY PartsNat DEF LoopInv
<1>4. /\ pc = "count" => Done = 0
      /\ pc = "field" => Done + 1 <= Total
      /\ Done <= Total
      /\ pc = "sent" => Done = Total
  BY DEF Done, DoneAt, LoopInv, Total
<1>5. pc = "field" => Part <= Bytes[entry]
  BY <1>2 DEF Part
<1>6. pc # "field" => Part = 0
  BY DEF Part
<1>7. CASE entry = "listedPlayer"
  <2>1. kind = "load" /\ pc \in {"count", "field"} /\ Total = players
    BY <1>7 DEF LoopInv, Total, First, Kinds
  <2>2. /\ Before = 0 /\ Number <= 2 /\ TextDone = 0 /\ Whole(entry, Done) = 25 * Done
        /\ pc = "field" => Part <= 25
    BY <1>7, <1>5 DEF Before, Number, TextDone, Whole, Bytes
  <2>3. Full = 25 * players + 29 * monsters + 4
    BY <2>1, <1>3 DEF Full, SizeNow, Size, Slack
  <2> QED BY <2>1, <2>2, <2>3, <1>3, <1>4, <1>6, PartsNat DEF Due
<1>8. CASE entry = "monster"
  <2>1. kind = "load" /\ Total = monsters
    BY <1>8 DEF LoopInv, Total, First, Kinds
  <2>2. /\ Before = 2 + 25 * players /\ TextDone = 0 /\ Whole(entry, Done) = 29 * Done
        /\ Number = (IF pc = "count" THEN 0 ELSE 2)
        /\ pc = "field" => Part <= 29
    BY <1>8, <1>5 DEF Before, Number, TextDone, Whole, Bytes, Listed
  <2>3. Full = 25 * players + 29 * monsters + 4
    BY <2>1, <1>3 DEF Full, SizeNow, Size, Slack
  <2> QED BY <2>1, <2>2, <2>3, <1>3, <1>4, <1>6, PartsNat DEF Due
<1>9. CASE entry \notin {"listedPlayer", "monster"}
  <2>1. kind = entry /\ kind \in Kinds \ {"load"} /\ Total = players /\ Before = 0
    BY <1>9 DEF LoopInv, Total, First, Kinds, Before
  <2>2. kind \notin {"move", "listedAttack"} => Total = 1
    BY <2>1, <1>9 DEF LoopInv, First, Listed
  <2> USE DEF Number, TextDone, Whole, Bytes, Listed, Full, SizeNow, Size, Slack, Due
  <2>3. CASE kind = "player" BY <2>1, <2>2, <2>3, <1>3, <1>4, <1>5, <1>6, PartsNat
  <2>4. CASE kind = "move"
    <3>1. /\ Whole(entry, Done) = 24 * Done /\ Bytes[entry] = 24 /\ TextDone = 0
          /\ Full = 24 * players + 2 /\ Number = (IF pc = "count" THEN 0 ELSE 2)
      BY <2>1, <2>4, <1>3
    <3> HIDE DEF Number, TextDone, Whole, Bytes, Listed, Full, SizeNow, Size, Slack
    <3> QED BY <3>1, <2>1, <1>3, <1>4, <1>5, <1>6, PartsNat
  <2>5. CASE kind = "chat" BY <2>1, <2>2, <2>5, <1>3, <1>4, <1>5, <1>6, PartsNat
  <2>6. CASE kind = "closed" BY <2>1, <2>2, <2>6, <1>3, <1>4, <1>5, <1>6, PartsNat
  <2>7. CASE kind = "attack" BY <2>1, <2>2, <2>7, <1>3, <1>4, <1>5, <1>6, PartsNat
  <2>8. CASE kind = "listedAttack"
    <3>1. /\ Whole(entry, Done) = 8 * Done /\ Bytes[entry] = 8 /\ TextDone = 0
          /\ Full = 8 * players + 2 /\ Number = (IF pc = "count" THEN 0 ELSE 2)
      BY <2>1, <2>8, <1>3
    <3> HIDE DEF Number, TextDone, Whole, Bytes, Listed, Full, SizeNow, Size, Slack
    <3> QED BY <3>1, <2>1, <1>3, <1>4, <1>5, <1>6, PartsNat
  <2>9. CASE kind = "hit" BY <2>1, <2>2, <2>9, <1>3, <1>4, <1>5, <1>6, PartsNat
  <2> QED BY <2>1, <2>3, <2>4, <2>5, <2>6, <2>7, <2>8, <2>9 DEF Kinds
<1> QED BY <1>7, <1>8, <1>9

LEMMA DoneNone == \A n \in Nat : DoneAt("field", n, n) = 0
BY DEF DoneAt

\* The same of the next state.
DueNat   == Done \in Nat /\ Total \in Nat /\ Due \in Nat
DueIsLow == Due <= Full

LEMMA DueNext == LoopInv' => DueNat' /\ DueIsLow'
<1>1. LoopInv => DueNat /\ DueIsLow
  BY PartsNat, DueBound DEF DueNat, DueIsLow
<1> QED BY <1>1, PTL

(***************************************************************************)
(* What every step adds to it.                                             *)
(***************************************************************************)
LEMMA DueMakePacket == LoopInv /\ MakePacket => Due' = 0
<1> SUFFICES ASSUME LoopInv, MakePacket PROVE Due' = 0
  OBVIOUS
<1>0. LoopInv' /\ entry' = First(kind') /\ entry' # "monster" /\ field' = 1 /\ left' = players'
  BY LoopInvStep DEF Next, MakePacket, First, Kinds
<1>1. entry' \in Names9 /\ players' \in Nat
  BY <1>0, EntryNamed DEF MakePacket, First, Kinds, Names9, LoopInv
<1>2. Total' = players' /\ Before' = 0
  BY <1>0 DEF Total, Before
<1>3. Offsets[entry'][1] = 0
  BY <1>1, Layout DEF LayoutOf
<1>4. pc' = (IF entry' \in Listed THEN "count" ELSE "field")
  BY DEF MakePacket
<1>5. TextDone' = 0
  BY <1>4 DEF TextDone, Listed
<1>6. Whole(entry', 0) = 0
  BY <1>1, WholeSteps
<1>7. CASE entry' \in Listed
  <2>1. pc' = "count"
    BY <1>4, <1>7
  <2>2. Done' = 0 /\ Part' = 0 /\ Number' = 0
    BY <2>1 DEF Done, DoneAt, Part, Number
  <2> QED BY <2>2, <1>2, <1>5, <1>6 DEF Due
<1>8. CASE entry' \notin Listed
  <2>1. pc' = "field"
    BY <1>4, <1>8
  <2>2. Done' = 0
    BY <2>1, <1>0, <1>1, <1>2, DoneNone DEF Done
  <2>3. Part' = 0
    BY <2>1, <1>0, <1>3 DEF Part
  <2>4. Number' = 0
    BY <1>8 DEF Number
  <2> QED BY <2>2, <2>3, <2>4, <1>2, <1>5, <1>6 DEF Due
<1> QED BY <1>7, <1>8

LEMMA DueWriteCount == LoopInv /\ WriteCount => Due' = Due + 2
<1> SUFFICES ASSUME LoopInv, WriteCount PROVE Due' = Due + 2
  OBVIOUS
<1>0. /\ pc = "count" /\ entry \in Listed /\ left = Total /\ field = 1 /\ field' = 1
      /\ players' = players /\ monsters' = monsters /\ kind' = kind /\ text' = text
      /\ players \in Nat /\ monsters \in Nat
  BY DEF WriteCount, LoopInv, packet
<1>1. entry \in Names9 /\ entry # "chat" /\ "monster" \in Names9
  BY <1>0, EntryNamed DEF Listed, Names9
<1>2. Done = 0 /\ Number = 0 /\ Part = 0 /\ TextDone = 0 /\ Whole(entry, 0) = 0 /\ Whole("monster", 0) = 0
  BY <1>0, <1>1, WholeSteps DEF Done, DoneAt, Number, Part, TextDone
<1>3. CASE left # 0
  <2>1. pc' = "field" /\ entry' = entry /\ left' = left
    BY <1>3 DEF WriteCount
  <2>2. Total' = Total /\ Before' = Before
    BY <2>1, <1>0 DEF Total, Before
  <2>3. Offsets[entry'][1] = 0
    BY <2>1, <1>1, Layout DEF LayoutOf
  <2>4. Done' = 0 /\ Part' = 0 /\ TextDone' = 0 /\ Number' = 2
    BY <2>1, <2>2, <2>3, <1>0, <1>1, PartsNat DEF Done, DoneAt, Part, TextDone, Number
  <2> QED BY <2>1, <2>2, <2>4, <1>2, PartsNat DEF Due
<1>4. CASE left = 0 /\ entry = "listedPlayer"
  <2>1. pc' = "count" /\ entry' = "monster"
    BY <1>4 DEF WriteCount, NextPart
  <2>2. Before = 0 /\ Before' = 2 + 25 * players /\ players = 0
    BY <2>1, <1>0, <1>4 DEF Before, Total
  <2>3. Done' = 0 /\ Part' = 0 /\ TextDone' = 0 /\ Number' = 0
    BY <2>1 DEF Done, DoneAt, Part, TextDone, Number
  <2> QED BY <2>1, <2>2, <2>3, <1>2 DEF Due
<1>5. CASE left = 0 /\ entry # "listedPlayer"
  <2>1. pc' = "sent" /\ entry' = entry
    BY <1>5 DEF WriteCount, NextPart
  <2>2. Total' = Total /\ Before' = Before
    BY <2>1, <1>0 DEF Total, Before
  <2>3. Done' = 0 /\ Part' = 0 /\ TextDone' = 0 /\ Number' = 2
    BY <2>1, <2>2, <1>0, <1>1, <1>5 DEF Done, DoneAt, Part, TextDone, Number
  <2> QED BY <2>1, <2>2, <2>3, <1>2, PartsNat DEF Due
<1> QED BY <1>3, <1>4, <1>5

(***************************************************************************)
(* The bytes of a field, the name left out, and those of the name.         *)
(***************************************************************************)
FixedBytes ==
  IF Fields[entry][field] # 0 THEN Fields[entry][field]
  ELSE IF entry = "chat" THEN text ELSE 0
NameOf == IF Fields[entry][field] = 0 /\ entry # "chat" THEN name ELSE 0

LEMMA DueWriteField == LoopInv /\ WriteField => Due' = Due + FixedBytes
<1> SUFFICES ASSUME LoopInv, WriteField PROVE Due' = Due + FixedBytes
  OBVIOUS
<1>0. /\ pc = "field" /\ left \in 1..Total /\ field \in 1..Last(entry) /\ Last(entry) \in Nat
      /\ players' = players /\ monsters' = monsters /\ text' = text
      /\ players \in Nat /\ monsters \in Nat /\ text \in Nat
      /\ entry \in Names9 /\ "monster" \in Names9
  BY EntryNamed, Layout DEF WriteField, LoopInv, packet, LayoutOf, Names9
<1>1. LayoutOf(entry)
  BY <1>0, Layout
<1>2. /\ Fields[entry][field] \in 0..4 /\ Bytes[entry] \in Nat /\ Offsets[entry][field] \in Nat
      /\ Fields[entry][field] = 0 => field = Last(entry)
      /\ field < Last(entry) => Offsets[entry][field + 1] = Offsets[entry][field] + Fields[entry][field]
      /\ field = Last(entry) => Bytes[entry] = Offsets[entry][field] + Fields[entry][field]
      /\ field = Last(entry) /\ entry = "chat" => Fields[entry][field] = 0
      /\ Offsets[entry][1] = 0
  BY <1>0, <1>1 DEF LayoutOf
<1>3. Done = Total - left /\ Part = Offsets[entry][field] /\ TextDone = 0 /\ Done \in Nat /\ Total \in Nat
  BY <1>0, PartsNat DEF Done, DoneAt, Part, TextDone
<1>4. Whole(entry, Done) \in Nat /\ Whole(entry, Done + 1) = Whole(entry, Done) + Bytes[entry]
  BY <1>0, <1>3, WholeSteps
<1>5. Before \in Nat /\ Number \in Nat /\ FixedBytes \in Nat
  BY <1>0, <1>2, PartsNat DEF FixedBytes
<1>6. CASE field < Last(entry)
  <2>1. field' = field + 1 /\ pc' = pc /\ entry' = entry /\ left' = left
    BY <1>6 DEF WriteField, Last
  <2>2. Total' = Total /\ Before' = Before /\ Number' = Number
    BY <2>1, <1>0 DEF Total, Before, Number
  <2>3. Done' = Done /\ Part' = Offsets[entry][field + 1] /\ TextDone' = 0
    BY <2>1, <2>2, <1>0 DEF Done, DoneAt, Part, TextDone
  <2>4. FixedBytes = Fields[entry][field]
    BY <1>0, <1>2, <1>6 DEF FixedBytes
  <2> QED BY <2>1, <2>2, <2>3, <2>4, <1>2, <1>3, <1>4, <1>5, <1>6 DEF Due
<1>7. CASE field = Last(entry) /\ left > 1
  <2>1. field' = 1 /\ pc' = pc /\ entry' = entry /\ left' = left - 1
    BY <1>0, <1>7 DEF WriteField, Last
  <2>2. entry # "chat"
    BY <1>0, <1>7 DEF LoopInv, Total, First, Kinds, Listed
  <2>3. Total' = Total /\ Before' = Before /\ Number' = Number
    BY <2>1, <1>0 DEF Total, Before, Number
  <2>4. Done' = Done + 1 /\ Part' = 0 /\ TextDone' = 0
    BY <2>1, <2>3, <1>0, <1>2, <1>3 DEF Done, DoneAt, Part, TextDone
  <2>5. FixedBytes = Fields[entry][field]
    BY <2>2, <1>2 DEF FixedBytes
  <2> QED BY <2>1, <2>3, <2>4, <2>5, <1>2, <1>3, <1>4, <1>5, <1>7 DEF Due
<1>8. CASE field = Last(entry) /\ ~(left > 1) /\ entry = "listedPlayer"
  <2>1. pc' = "count" /\ entry' = "monster"
    BY <1>0, <1>8 DEF WriteField, NextPart, Last
  <2>2. Before = 0 /\ Before' = 2 + 25 * players /\ Number = 2 /\ Total = players
    BY <2>1, <1>0, <1>8 DEF Before, Number, Total, Listed
  <2>3. Done' = 0 /\ Part' = 0 /\ TextDone' = 0 /\ Number' = 0 /\ Whole("monster", 0) = 0
    BY <2>1, <1>0, WholeSteps DEF Done, DoneAt, Part, TextDone, Number
  <2>4. FixedBytes = Fields[entry][field] /\ Done + 1 = players
    BY <1>0, <1>2, <1>3, <1>8, <2>2 DEF FixedBytes
  <2>5. Whole(entry, Done + 1) = 25 * players
    BY <1>8, <2>4 DEF Whole
  <2> QED BY <2>1, <2>2, <2>3, <2>4, <2>5, <1>2, <1>3, <1>4, <1>5, <1>8 DEF Due
<1>9. CASE field = Last(entry) /\ ~(left > 1) /\ entry # "listedPlayer"
  <2>1. pc' = "sent" /\ entry' = entry
    BY <1>0, <1>9 DEF WriteField, NextPart, Last
  <2>2. Total' = Total /\ Before' = Before /\ Number' = Number
    BY <2>1, <1>0 DEF Total, Before, Number
  <2>3. Done' = Done + 1 /\ Part' = 0
    BY <2>1, <2>2, <1>0, <1>3, <1>9 DEF Done, DoneAt, Part
  <2>4. FixedBytes = Fields[entry][field] + TextDone'
    BY <2>1, <1>0, <1>2, <1>9 DEF FixedBytes, TextDone
  <2>5. TextDone' \in Nat
    BY <1>0, <2>1 DEF TextDone
  <2> QED BY <2>1, <2>2, <2>3, <2>4, <2>5, <1>2, <1>3, <1>4, <1>5, <1>9 DEF Due
<1> QED BY <1>0, <1>6, <1>7, <1>8, <1>9

LEMMA DueReturn == LoopInv /\ Return => Due' = Due
BY DEF Return, Due, Done, DoneAt, Part, TextDone, Number, Before, Total, packet

-----------------------------------------------------------------------------
(***************************************************************************)
(* What has been written of it.  While nothing was refused, all of it; the *)
(* first refusal shows that the names took more than they have room for.   *)
(***************************************************************************)
HeaderCounted(d, p) == d + 4 <= 65535 => p = d + 4

SizesInv ==
  /\ pos \in Nat /\ pos <= dataSize
  /\ dataSize \in Nat /\ dataSize <= 65535
  /\ packetSize \in Nat /\ packetSize <= 65535
  /\ HeaderCounted(dataSize, packetSize)
  /\ nameBytes \in Nat
  /\ kind \notin {"load", "player"} => nameBytes = 0

NoWrap ==
  Fits => /\ dataSize = SizeNow
          /\ packetSize = dataSize + HeaderSize

NotMore(p, d, b) == p <= d + b
AllOf(p, d, b)   == p = d + b

NotAhead     == Fits => NotMore(pos, Due, nameBytes)
AllWritten   == Fits => AllOf(pos, Due, nameBytes)
NamesTooLong == Fits => nameBytes > Slack

BytesInv ==
  /\ SizesInv /\ NoWrap /\ NotAhead
  /\ refused \in BOOLEAN
  /\ refused = FALSE => AllWritten
  /\ refused = TRUE => NamesTooLong

LEMMA SizeNat ==
  LoopInv => /\ SizeNow \in Nat /\ Slack \in Nat
             /\ kind = "chat" => text <= SizeNow
<1> SUFFICES ASSUME LoopInv PROVE
       /\ SizeNow \in Nat /\ Slack \in Nat
       /\ kind = "chat" => text <= SizeNow
  OBVIOUS
<1>1. players \in Nat /\ monsters \in Nat /\ text \in Nat /\ kind \in Kinds
  BY DEF LoopInv
<1>2. SizeNow \in Nat
  BY <1>1 DEF Kinds, SizeNow, Size
<1>3. Slack \in Nat
  BY <1>1 DEF Kinds, Slack
<1>4. kind = "chat" => text <= SizeNow
  BY <1>1 DEF SizeNow, Size
<1> QED BY <1>2, <1>3, <1>4

SizesNat == SizeNow \in Nat /\ Slack \in Nat

LEMMA SizeNext == LoopInv' => SizesNat'
<1>1. LoopInv => SizesNat
  BY SizeNat DEF SizesNat
<1> QED BY <1>1, PTL

LEMMA BytesInvInit == Init => BytesInv
<1> SUFFICES ASSUME Init PROVE BytesInv
  OBVIOUS
<1>1. Due = 4
  BY DEF Init, Due, Before, Number, Whole, Done, DoneAt, Total, Part, TextDone, Listed
<1>2. SizeNow = 4
  BY DEF Init, SizeNow, Size
<1>3. SizesInv /\ NoWrap
  BY <1>2 DEF Init, SizesInv, HeaderCounted, NoWrap, HeaderSize
<1>4. NotAhead /\ AllWritten
  BY <1>1 DEF Init, NotAhead, AllWritten, NotMore, AllOf
<1> QED BY <1>3, <1>4 DEF Init, BytesInv

(***************************************************************************)
(* One write, of len bytes of which names take n and the rest was due.     *)
(***************************************************************************)
LEMMA FreeSizeOf ==
  \A size, p \in Nat : p <= size /\ size <= 65535 => (size - p) % 65536 = size - p /\ size - p \in Nat
OBVIOUS

LEMMA Accepted ==
  ASSUME NEW len \in Nat, NEW n \in Nat, NEW d \in Nat, NEW new \in Nat, NEW b \in Nat,
         NEW p \in Nat, new + n = d + len
  PROVE  /\ NotMore(p, d, b) => NotMore(p + len, new, b + n)
         /\ AllOf(p, d, b) => AllOf(p + len, new, b + n)
BY DEF NotMore, AllOf

\* A write of len bytes, n of them of a name, after which new bytes were due.
WriteOf(len, n, new) ==
  /\ Write(len)
  /\ UNCHANGED packet
  /\ nameBytes' = nameBytes + n
  /\ Fits => new + n = Due + len
  /\ kind \notin {"load", "player"} => n = 0

LEMMA OneWrite ==
  ASSUME NEW len \in Nat, NEW n \in Nat, NEW new \in Nat,
         LoopInv, LoopInv', BytesInv, WriteOf(len, n, new), Due' = new
  PROVE  BytesInv'
<1>1. /\ kind' = kind /\ players' = players /\ monsters' = monsters /\ text' = text
      /\ dataSize' = dataSize /\ packetSize' = packetSize /\ nameBytes' = nameBytes + n
  BY DEF WriteOf, packet
<1>2. Slack' = Slack /\ Full' = Full /\ Fits' = Fits /\ SizeNow' = SizeNow
  BY <1>1 DEF Slack, Full, Fits, SizeNow
<1>3. SizesInv /\ NoWrap /\ NotAhead
  BY DEF BytesInv
<1>4. dataSize \in Nat /\ pos \in Nat /\ nameBytes \in Nat /\ dataSize <= 65535 /\ pos <= dataSize
  BY <1>3 DEF SizesInv
<1>5. Due \in Nat /\ Slack \in Nat /\ SizeNow \in Nat
  BY PartsNat, SizeNat
<1>6. FreeSize = dataSize - pos
  BY <1>4, FreeSizeOf DEF FreeSize, U16
<1>7. new <= SizeNow - Slack
  BY <1>2, DueNext DEF DueIsLow, Full
<1>8. Fits => dataSize = SizeNow /\ NotMore(pos, Due, nameBytes) /\ new + n = Due + len
  BY <1>3 DEF NoWrap, NotAhead, WriteOf
<1>9. NoWrap'
  BY <1>1, <1>2, <1>3 DEF NoWrap
<1>10. kind \notin {"load", "player"} => nameBytes' = 0
  BY <1>1, <1>3 DEF SizesInv, WriteOf
<1>11. CASE FreeSize < len
  <2>1. refused' = TRUE /\ pos' = pos
    BY <1>11 DEF WriteOf, Write, WriteInto
  <2>2. Fits => nameBytes + n > Slack /\ NotMore(pos, new, nameBytes + n)
    <3> SUFFICES ASSUME Fits
                 PROVE  nameBytes + n > Slack /\ NotMore(pos, new, nameBytes + n)
      OBVIOUS
    <3>1. new <= dataSize - Slack /\ dataSize - pos < len
      BY <1>6, <1>7, <1>8, <1>11
    <3>2. new + n = Due + len /\ pos <= Due + nameBytes
      BY <1>8 DEF NotMore
    <3> QED BY <3>1, <3>2, <1>4, <1>5 DEF NotMore
  <2>3. NamesTooLong' /\ NotAhead'
    BY <2>1, <2>2, <1>1, <1>2 DEF NamesTooLong, NotAhead
  <2>4. SizesInv'
    BY <2>1, <1>1, <1>3, <1>4, <1>10 DEF SizesInv
  <2> QED BY <2>1, <2>3, <2>4, <1>9 DEF BytesInv
<1>12. CASE ~(FreeSize < len)
  <2>1. refused' = refused /\ pos' = pos + len
    BY <1>12 DEF WriteOf, Write, WriteInto
  <2>2. pos + len <= dataSize
    BY <1>4, <1>6, <1>12
  <2>3. SizesInv'
    BY <2>1, <2>2, <1>1, <1>3, <1>4, <1>10 DEF SizesInv
  <2>4. Fits => /\ NotMore(pos + len, new, nameBytes + n)
                /\ AllOf(pos, Due, nameBytes) => AllOf(pos + len, new, nameBytes + n)
    BY <1>4, <1>5, <1>8, Accepted
  <2>5. NotAhead' /\ (AllWritten => AllWritten')
    BY <2>1, <2>4, <1>1, <1>2 DEF NotAhead, AllWritten
  <2>6. NamesTooLong => NamesTooLong'
    BY <1>1, <1>2, <1>4, <1>5 DEF NamesTooLong
  <2> QED BY <2>1, <2>3, <2>5, <2>6, <1>9 DEF BytesInv
<1> QED BY <1>11, <1>12

LEMMA NothingWritten ==
  ASSUME BytesInv, UNCHANGED <<packet, pos, nameBytes, refused>>, Due' = Due
  PROVE  BytesInv'
<1>1. /\ kind' = kind /\ players' = players /\ monsters' = monsters /\ text' = text
      /\ dataSize' = dataSize /\ packetSize' = packetSize
  BY DEF packet
<1>2. Slack' = Slack /\ Fits' = Fits /\ SizeNow' = SizeNow
  BY <1>1 DEF Slack, Fits, SizeNow
<1>3. SizesInv => SizesInv'
  BY <1>1 DEF SizesInv
<1>4. (NoWrap => NoWrap') /\ (NotAhead => NotAhead')
  BY <1>1, <1>2 DEF NoWrap, NotAhead
<1>5. (AllWritten => AllWritten') /\ (NamesTooLong => NamesTooLong')
  BY <1>1, <1>2 DEF AllWritten, NamesTooLong
<1> QED BY <1>3, <1>4, <1>5 DEF BytesInv

LEMMA U16Range ==
  /\ \A n \in Nat : n % 65536 \in Nat /\ n % 65536 <= 65535
  /\ \A n \in Nat : n <= 65535 => n % 65536 = n
OBVIOUS

LEMMA BytesInvStep == LoopInv /\ BytesInv /\ [Next]_vars => BytesInv'
<1> SUFFICES ASSUME LoopInv, BytesInv, [Next]_vars PROVE BytesInv'
  OBVIOUS
<1>0. LoopInv'
  BY LoopInvStep
<1>1. CASE MakePacket
  <2>1. Due' = 0
    BY <1>1, DueMakePacket
  <2>2. pos' = 0 /\ nameBytes' = 0 /\ refused' = FALSE
    BY <1>1 DEF MakePacket
  <2>3. PICK size \in Nat : SizeNow' = size
    BY <1>0, SizeNext DEF SizesNat
  <2>4. dataSize' = size % 65536 /\ packetSize' = (dataSize' + 4) % 65536
    BY <1>1, <2>3 DEF MakePacket, DataSize, PacketSize, SizeNow, U16, HeaderSize
  <2>5. /\ dataSize' \in Nat /\ dataSize' <= 65535
        /\ packetSize' \in Nat /\ packetSize' <= 65535
    BY <2>4, U16Range
  <2>6. SizesInv'
    <3>1. HeaderCounted(dataSize', packetSize')
      BY <2>4, <2>5, U16Range DEF HeaderCounted
    <3>2. pos' \in Nat /\ pos' <= dataSize' /\ nameBytes' \in Nat
      BY <2>2, <2>5
    <3>3. kind' \notin {"load", "player"} => nameBytes' = 0
      BY <2>2
    <3> QED BY <2>5, <3>1, <3>2, <3>3 DEF SizesInv
  <2>7. Fits' => size + 4 <= 65535
    BY <2>3 DEF Fits, SizeNow, HeaderSize, MaxU16
  <2>8. size + 4 <= 65535 => dataSize' = size /\ packetSize' = dataSize' + 4
    BY <2>4, U16Range
  <2>9. NoWrap'
    BY <2>3, <2>7, <2>8 DEF NoWrap, HeaderSize
  <2>10. NotAhead' /\ AllWritten'
    BY <2>1, <2>2 DEF NotAhead, AllWritten, NotMore, AllOf
  <2> QED BY <2>2, <2>6, <2>9, <2>10 DEF BytesInv
<1>2. CASE WriteCount
  <2>1. Due + 2 \in Nat /\ Due' = Due + 2
    BY <1>2, DueWriteCount, PartsNat
  <2>2. nameBytes \in Nat
    BY DEF BytesInv, SizesInv
  <2>3. WriteOf(2, 0, Due + 2)
    BY <1>2, <2>1, <2>2, PartsNat DEF WriteCount, WriteOf
  <2> QED BY <1>0, <2>1, <2>3, OneWrite
<1>3. CASE WriteField
  <2>0. name \in 0..255 /\ text \in Nat /\ entry \in Names9 /\ field \in 1..Last(entry) /\ nameBytes \in Nat
    BY EntryNamed DEF LoopInv, BytesInv, SizesInv
  <2>1. /\ Fields[entry][field] \in 0..4
        /\ Fields[entry][field] = 0 => entry \in Named \union {"chat"}
    BY <2>0, Layout DEF LayoutOf
  <2>2. FixedBytes \in Nat /\ NameOf \in Nat /\ FieldLength \in Nat
    BY <2>0, <2>1, U16Range DEF FixedBytes, NameOf, FieldLength, U16
  <2>3. Fits => FieldLength = FixedBytes + NameOf
    <3>1. ASSUME Fits, entry = "chat" PROVE U16(text) = text
      <4>1. kind = "chat"
        BY <3>1 DEF LoopInv, First, Kinds
      <4>2. text <= SizeNow /\ SizeNow + 4 <= 65535 /\ SizeNow \in Nat
        BY <3>1, <4>1, SizeNat DEF Fits, SizeNow, HeaderSize, MaxU16
      <4> QED BY <4>2, <2>0, U16Range DEF U16
    <3> QED BY <3>1, <2>0, <2>1 DEF FieldLength, FixedBytes, NameOf
  <2>4. kind \notin {"load", "player"} => NameOf = 0
    BY <2>0, <2>1 DEF NameOf, Named, LoopInv, First, Kinds
  <2>5. nameBytes' = nameBytes + NameOf /\ Write(FieldLength) /\ UNCHANGED packet
    BY <1>3, <2>0 DEF WriteField, NameOf
  <2>6. Due' = Due + FixedBytes /\ Due \in Nat /\ Due + FixedBytes \in Nat
    BY <1>3, <2>2, DueWriteField, PartsNat
  <2>7. Fits => (Due + FixedBytes) + NameOf = Due + FieldLength
    BY <2>2, <2>3, <2>6
  <2>8. WriteOf(FieldLength, NameOf, Due + FixedBytes)
    BY <2>4, <2>5, <2>7 DEF WriteOf
  <2> QED BY <1>0, <2>2, <2>6, <2>8, OneWrite
<1>4. CASE Return
  <2>1. Due' = Due
    BY <1>4, DueReturn
  <2>2. UNCHANGED <<packet, pos, nameBytes, refused>>
    BY <1>4 DEF Return
  <2> QED BY <2>1, <2>2, NothingWritten
<1>5. CASE UNCHANGED vars
  <2>1. Due' = Due
    BY <1>5 DEF vars, packet, Due, Before, Number, Done, Total, Part, TextDone
  <2> QED BY <1>5, <2>1, NothingWritten DEF vars
<1> QED BY <1>1, <1>2, <1>3, <1>4, <1>5 DEF Next

-----------------------------------------------------------------------------
Inv == LoopInv /\ BytesInv

LEMMA Invariant == Safety => []Inv
<1>1. Init => Inv
  BY LoopInvInit, BytesInvInit DEF Inv
<1>2. Inv /\ [Next]_vars => Inv'
  BY LoopInvStep, BytesInvStep DEF Inv
<1> QED BY <1>1, <1>2, PTL DEF Safety

(***************************************************************************)
(* The type invariant of MakePacket and the Writes it makes, the sizes of  *)
(* 16 bits included.                                                       *)
(***************************************************************************)
THEOREM TypeCorrect == Safety => []TypeOK
<1>1. Inv => TypeOK
  <2> SUFFICES ASSUME Inv PROVE TypeOK
    OBVIOUS
  <2>1. entry \in Entries
    BY EntryNamed DEF Inv, Entries, Names9, Fields
  <2>2. /\ dataSize \in Nat /\ packetSize \in Nat /\ pos \in Nat /\ nameBytes \in Nat
        /\ dataSize <= 65535 /\ packetSize <= 65535 /\ pos <= dataSize
    BY DEF Inv, BytesInv, SizesInv
  <2>3. dataSize \in 0..MaxU16 /\ packetSize \in 0..MaxU16 /\ pos \in 0..MaxU16
    <3>1. /\ MaxU16 \in Nat
          /\ dataSize <= MaxU16 /\ packetSize <= MaxU16 /\ pos <= MaxU16
      BY <2>2 DEF MaxU16
    <3> QED BY <2>2, <3>1
  <2>4. refused \in BOOLEAN
    BY DEF Inv, BytesInv
  <2>5. /\ pc \in {"idle", "count", "field", "sent"} /\ kind \in Kinds
        /\ players \in Nat /\ monsters \in Nat /\ text \in Nat /\ left \in Nat
        /\ field \in 1..Len(Fields[entry]) /\ name \in 0..255
    BY DEF Inv, LoopInv, Last
  <2> QED BY <2>1, <2>2, <2>3, <2>4, <2>5 DEF TypeOK
<1> QED BY <1>1, Invariant, PTL

(***************************************************************************)
(* However long the names and the texts are and however many entries a     *)
(* packet has, BufferWrite does not write behind the buffer opened for the *)
(* packet, unless its size with the header wraps; that the size of the     *)
(* data did does no harm to the next packet.                               *)
(***************************************************************************)
THEOREM StaysInBuffer == Safety => []WritesStayInBuffer
<1>1. Inv => WritesStayInBuffer
  <2> SUFFICES ASSUME Inv, dataSize + HeaderSize <= MaxU16 PROVE HeaderSize + pos <= packetSize
    BY DEF WritesStayInBuffer
  <2>1. SizesInv
    BY DEF Inv, BytesInv
  <2> QED BY <2>1 DEF SizesInv, HeaderCounted, HeaderSize, MaxU16
<1> QED BY <1>1, Invariant, PTL

(***************************************************************************)
(* A Write that returns false, which no MakePacket looks at, means that    *)
(* the names of the packet are together longer than the room there is for  *)
(* them, whichever field it is that was refused.                           *)
(***************************************************************************)
THEOREM RefusalsForNames == Safety => []RefusedForNames
<1>1. Inv => RefusedForNames
  BY DEF Inv, BytesInv, NamesTooLong, RefusedForNames
<1> QED BY <1>1, Invariant, PTL

(***************************************************************************)
(* A packet that is sent has all of its fields unless one was refused.     *)
(***************************************************************************)
THEOREM FullPackets == Safety => []WrittenInFull
<1>1. Inv => WrittenInFull
  <2> SUFFICES ASSUME Inv, Fits, pc = "sent", ~refused PROVE pos + Slack = dataSize + nameBytes
    BY DEF WrittenInFull
  <2>1. SizesInv /\ AllWritten /\ NoWrap
    BY DEF Inv, BytesInv
  <2>2. SizeNow \in Nat /\ Slack \in Nat /\ pos \in Nat /\ nameBytes \in Nat
    BY <2>1, SizeNat DEF Inv, SizesInv
  <2>3. Due = SizeNow - Slack
    BY DueBound DEF Inv, Full
  <2>4. pos = Due + nameBytes /\ dataSize = SizeNow
    BY <2>1 DEF NoWrap, AllWritten, AllOf
  <2> QED BY <2>2, <2>3, <2>4
<1> QED BY <1>1, Invariant, PTL

(***************************************************************************)
(* Fields of a packet are missing exactly if its names are too long        *)
(* together, although nobody looks at what Write returns.                  *)
(***************************************************************************)
THEOREM CompletePackets == Safety => []PacketsComplete
BY RefusalsForNames, FullPackets, PTL DEF PacketsComplete

=============================================================================
