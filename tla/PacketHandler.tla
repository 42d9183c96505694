--------------------------- MODULE PacketHandler ---------------------------
(***************************************************************************)
(* BS_PacketHandler::MakePacket and the BufferWrite that fills the packet: *)
(* first a size is computed from the sizes of the structures in BS_Packet, *)
(* and a buffer opened for it; then the fields are written one by one, the *)
(* names, whose bytes the structures only point to, included.  A field for *)
(* which there is no room is left out, and nobody looks at the result.     *)
(*                                                                         *)
(* Of a field only its length counts.  Lengths are 16 bits wide.           *)
(***************************************************************************)
EXTENDS Integers, Sequences

CONSTANTS
  Names,      \* the lengths of names, a BYTE as GetNameLen returns it
  Texts,      \* the lengths of chat messages
  Counts      \* the numbers of entries that a list may have

ASSUME NamesAssumption  == Names \subseteq 0..255
ASSUME TextsAssumption  == Texts \subseteq Nat
ASSUME CountsAssumption == Counts \subseteq Nat

HeaderSize == 4
MaxU16     == 65535
U16(n)     == n % 65536

(***************************************************************************)
(* The fields of one entry, by length.  0 stands for a name or a text.     *)
(***************************************************************************)
Fields == [
  listedPlayer |-> <<2, 1, 4, 4, 4, 4, 4, 2, 0>>,
  monster      |-> <<2, 1, 4, 4, 4, 4, 4, 4, 2, 0>>,
  player       |-> <<2, 1, 4, 2, 0>>,
  move         |-> <<4, 4, 4, 4, 4, 4>>,
  chat         |-> <<4, 1, 4, 0>>,
  closed       |-> <<4>>,
  attack       |-> <<4, 4>>,
  listedAttack |-> <<4, 4>>,
  hit          |-> <<4, 4, 4>>]

Entries == DOMAIN Fields
Listed  == {"listedPlayer", "monster", "move", "listedAttack"}
Kinds   == {"load", "player", "move", "chat", "closed", "attack", "listedAttack", "hit"}

First(kind) == IF kind = "load" THEN "listedPlayer" ELSE kind

VARIABLES
  pc,          \* what is done next
  kind,        \* the type of the argument of MakePacket
  players, monsters,   \* the entries that the packet has; monsters only in a load
  text,        \* TextLen
  dataSize,    \* the local of MakePacket, and _size of BufferWrite
  packetSize,  \* the size of the buffer, and in the header
  pos,         \* _pos
  entry, left, \* the entries that are being written, and how many are left
  field,       \* the next field of the entry
  name,        \* NameLen of the entry
  nameBytes,   \* history: the lengths of the names so far
  refused      \* history: did Write return false?

packet == <<kind, players, monsters, text, dataSize, packetSize>>
vars   == <<packet, pc, pos, entry, left, field, name, nameBytes, refused>>

-----------------------------------------------------------------------------
(***************************************************************************)
(* size() of the structures, of which it has only the sizeof: the name is  *)
(* a pointer there.                                                        *)
(***************************************************************************)
Size(k, m, n, len) ==
  CASE k = "load"         -> 40 * m + 48 * n + 4
    [] k = "player"       -> 33
    [] k = "move"         -> 24 * m + 2
    [] k = "chat"         -> 9 + len
    [] k = "closed"       -> 4
    [] k = "attack"       -> 8
    [] k = "listedAttack" -> 8 * m + 2
    [] k = "hit"          -> 12

\* Mutant: size() of the text is that of the structure.
DataSizeOfStruct(k, m, n, len) ==
  U16(IF k = "chat" THEN 24 + len ELSE Size(k, m, n, len))

DataSize(k, m, n, len) == U16(Size(k, m, n, len))

PacketSize(size) == U16(size + HeaderSize)

Init ==
  /\ pc = "idle"
  /\ kind = "closed" /\ players = 1 /\ monsters = 0 /\ text = 0
  /\ dataSize = 4 /\ packetSize = 8 /\ pos = 4
  /\ entry = "closed" /\ left = 0 /\ field = 1 /\ name = 0 /\ nameBytes = 0
  /\ refused = FALSE

MakePacket ==
  /\ pc = "idle"
  /\ kind' \in Kinds
  /\ players' \in IF First(kind') \in Listed THEN Counts ELSE {1}
  /\ monsters' \in IF kind' = "load" THEN Counts ELSE {0}
  /\ text' \in IF kind' = "chat" THEN Texts ELSE {0}
  /\ dataSize' = DataSize(kind', players', monsters', text')
  /\ packetSize' = PacketSize(dataSize')
  /\ pos' = 0 /\ nameBytes' = 0 /\ refused' = FALSE
  /\ entry' = First(kind') /\ left' = players'
  /\ pc' = IF entry' \in Listed THEN "count" ELSE "field"
  /\ field' = 1
  /\ name' \in Names

(***************************************************************************)
(* BufferWrite::Write.                                                     *)
(***************************************************************************)
FreeSize == U16(dataSize - pos)

WriteInto(room, len) ==
  IF room < len
    THEN refused' = TRUE /\ UNCHANGED pos
    ELSE pos' = pos + len /\ UNCHANGED refused

\* Mutant: the room for the header is taken for room for data.
WriteHeaderRoom(len) == WriteInto(FreeSize + HeaderSize, len)

Write(len) == WriteInto(FreeSize, len)

(***************************************************************************)
(* The loops.  After the players of a load come its monsters.              *)
(***************************************************************************)
NextPart ==
  IF entry = "listedPlayer"
    THEN pc' = "count" /\ entry' = "monster" /\ left' = monsters
    ELSE pc' = "sent" /\ UNCHANGED <<entry, left>>

WriteCount ==
  /\ pc = "count"
  /\ Write(2)
  /\ IF left = 0 THEN NextPart ELSE pc' = "field" /\ UNCHANGED <<entry, left>>
  /\ UNCHANGED <<packet, field, name, nameBytes>>

FieldLength ==
  IF Fields[entry][field] # 0 THEN Fields[entry][field]
  ELSE IF entry = "chat" THEN U16(text)
  ELSE name

WriteField ==
  /\ pc = "field"
  /\ Write(FieldLength)
  /\ nameBytes' = IF Fields[entry][field] = 0 /\ entry # "chat" THEN nameBytes + name ELSE nameBytes
  /\ IF field < Len(Fields[entry])
       THEN field' = field + 1 /\ UNCHANGED <<pc, entry, left, name>>
     ELSE /\ field' = 1
          /\ name' \in Names
          /\ IF left > 1
               THEN left' = left - 1 /\ UNCHANGED <<pc, entry>>
               ELSE NextPart
  /\ UNCHANGED packet

Return ==
  /\ pc = "sent"
  /\ pc' = "idle"
  /\ UNCHANGED <<packet, pos, entry, left, field, name, nameBytes, refused>>

Next == MakePacket \/ WriteCount \/ WriteField \/ Return

Safety == Init /\ [][Next]_vars

-----------------------------------------------------------------------------
TypeOK ==
  /\ pc \in {"idle", "count", "field", "sent"}
  /\ kind \in Kinds
  /\ players \in Nat /\ monsters \in Nat /\ text \in Nat
  /\ dataSize \in 0..MaxU16 /\ packetSize \in 0..MaxU16 /\ pos \in 0..MaxU16
  /\ entry \in Entries /\ left \in Nat
  /\ field \in 1..Len(Fields[entry])
  /\ name \in 0..255 /\ nameBytes \in Nat
  /\ refused \in BOOLEAN

\* The sizes are 16 bits wide: does the packet with its header have one?
Fits == Size(kind, players, monsters, text) + HeaderSize <= MaxU16

(***************************************************************************)
(* No field is written behind the end of the buffer that was opened, which *)
(* is where the next packet begins: not by a name that the size did not    *)
(* count, and not when the size of the data wrapped and is far too small.  *)
(* Only the wrap of the size of the packet can do that, which the last few *)
(* 16-bit sizes of data lead to.                                           *)
(***************************************************************************)
WritesStayInBuffer == dataSize + HeaderSize <= MaxU16 => HeaderSize + pos <= packetSize

(***************************************************************************)
(* The room that padding and the pointer leave for the names of a packet:  *)
(* 15 bytes for each player of a list, 19 for each monster, 24 in the      *)
(* message of one player.  As long as the names together fit into it,      *)
(* every field is written.  If they do not, the first field that no longer *)
(* fits is missing, a name or any other, and the later ones that do not    *)
(* fit, while shorter ones that come after it are still written.           *)
(***************************************************************************)
Slack ==
  CASE kind = "load"                -> 15 * players + 19 * monsters
    [] kind = "player"              -> 24
    [] kind \notin {"load", "player"} -> 0

RefusedForNames == Fits /\ refused => nameBytes > Slack

(***************************************************************************)
(* A packet of which nothing was refused has all of its fields, so that    *)
(* one without names is filled to its last byte, and one whose names are   *)
(* too long together does miss something.                                  *)
(***************************************************************************)
WrittenInFull ==
  Fits /\ pc = "sent" /\ ~refused => pos + Slack = dataSize + nameBytes

(***************************************************************************)
(* Together: nobody looks at what Write returns, and fields are missing in *)
(* a packet for it exactly if its names are too long together.             *)
(***************************************************************************)
PacketsComplete == RefusedForNames /\ WrittenInFull

=============================================================================
