------------------------------ MODULE Monster ------------------------------
(***************************************************************************)
(* One monster of a game room: MonsterHit, SpanMoster and MoveMosters of   *)
(* BS_GameRoom with the functions of BS_Monster_Info and BS_MapInfo that   *)
(* they call.                                                              *)
(*                                                                         *)
(* A thread that is between two of these either runs a job (MonsterHit,    *)
(* AddSession, DelSession), handles the move packet of a player, or        *)
(* becomes the one that runs the room task (RoomTick shows that it is      *)
(* one).  Nothing locks the monster or the players: every access to a      *)
(* field that another thread writes is a step, the reads of one condition  *)
(* being one.                                                              *)
(*                                                                         *)
(* Places are points of a line instead of the plane.  A yaw is a way to    *)
(* go, so that a stroll may lead anywhere within one step, while a chase   *)
(* goes one full step toward the player.                                   *)
(***************************************************************************)
EXTENDS Integers

CONSTANTS
  Threads,
  Players,        \* descriptors, which are also the codes of the players
  NoPlayer,       \* -1
  PlayerPlaces,   \* the places a client may report for its player
  StartPlaces,    \* where the monster may be put at first
  Edge,           \* the map is -Edge .. Edge
  Step,           \* _distence
  Radius,         \* how far the monster hits
  MaxHp,          \* hits a new monster stands; the code has 100 at 10 each
  Overkill        \* bound: how far below zero hits drive the hp

ASSUME MapAssumption ==
  /\ Edge \in Nat /\ Step \in Nat /\ Radius \in Nat
  /\ Step <= Radius
  /\ PlayerPlaces \subseteq Int /\ 0 \in PlayerPlaces
  /\ StartPlaces \subseteq (1 - Edge)..(Edge - 1)
ASSUME HpAssumption == MaxHp \in Nat \ {0} /\ Overkill \in Nat
ASSUME PlayerAssumption == NoPlayer \notin Players

VARIABLES
  (* BS_Monster_Info: *)
  spawned, hp, moving, attaking, tick, target, pos, start,
  (* The players: *)
  inRoom,         \* the keys of _sessionMap of the room
  place,          \* place[p]: the position of player p
  crashed,        \* was a null session dereferenced?
  (* Each thread: *)
  pc,
  attacker,       \* who hit, an argument of MonsterHit
  reg,            \* the hp as loaded by TakeDemage
  playerUUid,     \* the local of MoveMosters
  (* History: *)
  hits,           \* hits since the monster was put up, at most MaxHp + Overkill
  rest,           \* rounds of MoveMosters before the monster may attack again: one
                  \* after its first attack, four after any other, -1 before the first
  hitBy,          \* hitBy[p]: whose was the last hit with number p since the monster
                  \* came up, of those it survived: that of the player who holds it now?
  mixed,          \* did two hits, or a hit and a respawn, ever overlap?
  disturbed       \* did a player ever leave or move under the round that goes for it?

monster == <<spawned, hp, moving, attaking, tick, target, pos, start>>
players == <<inRoom, place, disturbed>>
locals  == <<attacker, reg, playerUUid>>
inHit   == <<attacker, reg>>
history == <<hits, rest, hitBy>>
vars    == <<monster, players, crashed, pc, locals, history, mixed>>

InTask == {"span", "reset", "untarget", "spawn", "turn", "look", "ontarget", "chase", "stroll"}
InHit  == {"load", "store", "die", "alive", "aim"}

\* Where a thread is about to change the hp, or to say whether the monster is up.
InLife == InHit \union {"reset", "untarget", "spawn"}

Distance(a, b) == IF a > b THEN a - b ELSE b - a

InRect(x) == -Edge < x /\ x < Edge

InMonsterRect(x) == IF x < -Edge THEN -Edge ELSE IF x > Edge THEN Edge ELSE x

Goto(t, from, to) ==
  /\ ~crashed
  /\ pc[t] = from
  /\ pc' = [pc EXCEPT ![t] = to]
  /\ mixed' = (mixed \/ (to \in InLife /\ \E u \in Threads \ {t} : pc[u] \in InLife))

\* A round of MoveMosters goes for player p, as far as one of the given places.
GoesFor(p, places) == \E u \in Threads : pc[u] \in places /\ playerUUid[u] = p

-----------------------------------------------------------------------------
Init ==
  /\ spawned = TRUE
  /\ hp = MaxHp
  /\ moving = TRUE
  /\ attaking = FALSE
  /\ tick = -1
  /\ target = NoPlayer
  /\ start \in StartPlaces
  /\ pos = start
  /\ inRoom = {}
  /\ place = [p \in Players |-> 0]
  /\ crashed = FALSE
  /\ pc = [t \in Threads |-> "idle"]
  /\ attacker = [t \in Threads |-> NoPlayer]
  /\ reg = [t \in Threads |-> 0]
  /\ playerUUid = [t \in Threads |-> NoPlayer]
  /\ hits = 0 /\ rest = -1
  /\ hitBy = [p \in Players |-> "nobody"]
  /\ mixed = FALSE /\ disturbed = FALSE

-----------------------------------------------------------------------------
(***************************************************************************)
(* The players: jobs and packets that change what the room task reads.  A  *)
(* session that joins brings a new player, at the origin, whose number may *)
(* be that of one that left, or is about to leave.                         *)
(***************************************************************************)
AddSession(t, p) ==
  /\ Goto(t, "idle", "idle")
  /\ inRoom' = inRoom \union {p}
  /\ place' = [place EXCEPT ![p] = 0]
  /\ hitBy' = [hitBy EXCEPT ![p] = IF @ = "holder" THEN "former" ELSE @]
  /\ UNCHANGED <<monster, disturbed, crashed, locals, hits, rest>>

DelSession(t, p) ==
  /\ Goto(t, "idle", "idle")
  /\ inRoom' = inRoom \ {p}
  /\ disturbed' = (disturbed \/ GoesFor(p, {"ontarget", "chase"}))
  /\ UNCHANGED <<monster, place, crashed, locals, history>>

MovePlayer(t, p) ==
  /\ Goto(t, "idle", "idle")
  /\ p \in inRoom
  /\ \E x \in PlayerPlaces : place' = [place EXCEPT ![p] = x]
  /\ disturbed' = (disturbed \/ GoesFor(p, {"chase"}))
  /\ UNCHANGED <<monster, inRoom, crashed, locals, history>>

-----------------------------------------------------------------------------
(***************************************************************************)
(* MonsterHit: the monster stops, loses a hit point, dies with the last    *)
(* one, and aims at who hit it if it lives: at a number, which may have    *)
(* been given out again while the job waited or ran.                       *)
(***************************************************************************)
MonsterHit(t, p) ==
  /\ Goto(t, "idle", "load")
  /\ hits < MaxHp + Overkill
  /\ hp > -Overkill /\ \A u \in Threads : reg[u] > -Overkill   \* the bound
  /\ moving' = FALSE
  /\ attacker' = [attacker EXCEPT ![t] = p]
  /\ UNCHANGED <<spawned, hp, attaking, tick, target, pos, start, players, crashed,
                 reg, playerUUid, history>>

LoadHp(t) ==
  /\ Goto(t, "load", "store")
  /\ reg' = [reg EXCEPT ![t] = hp]
  /\ UNCHANGED <<monster, players, crashed, attacker, playerUUid, history>>

DieBelow(t, limit) ==
  LET left == reg[t] - 1 IN
  /\ Goto(t, "store", IF left <= limit THEN "die" ELSE "alive")
  /\ hp' = left
  /\ reg' = [reg EXCEPT ![t] = 0]
  /\ hits' = hits + 1
  /\ UNCHANGED <<spawned, moving, attaking, tick, target, pos, start, players, crashed,
                 attacker, playerUUid, rest, hitBy>>

\* Mutant: the monster survives at zero.
TakeDemageStrict(t) == DieBelow(t, -1)

TakeDemage(t) == DieBelow(t, 0)

Die(t) ==
  /\ Goto(t, "die", "alive")
  /\ spawned' = FALSE
  /\ UNCHANGED <<hp, moving, attaking, tick, target, pos, start, players, crashed,
                 locals, history>>

DieUnit(t) ==
  /\ Goto(t, "alive", IF hp > 0 THEN "aim" ELSE "idle")
  /\ attacker' = [attacker EXCEPT ![t] = IF hp > 0 THEN @ ELSE NoPlayer]
  /\ UNCHANGED <<monster, players, crashed, reg, playerUUid, history>>

SetAttackPlayerUUid(t) ==
  /\ Goto(t, "aim", "idle")
  /\ target' = attacker[t]
  /\ \E who \in {"holder", "former"} : hitBy' = [hitBy EXCEPT ![attacker[t]] = who]
  /\ attacker' = [attacker EXCEPT ![t] = NoPlayer]
  /\ UNCHANGED <<spawned, hp, moving, attaking, tick, pos, start, players, crashed,
                 reg, playerUUid, hits, rest>>

-----------------------------------------------------------------------------
(***************************************************************************)
(* SpanMoster: a dead monster is reset first and marked as spawned last.   *)
(***************************************************************************)
BeginTask(t) ==
  /\ \A u \in Threads : pc[u] \notin InTask
  /\ Goto(t, "idle", "span")
  /\ UNCHANGED <<monster, players, crashed, locals, history>>

SpanMoster(t) ==
  /\ Goto(t, "span", IF spawned THEN "turn" ELSE "reset")
  /\ UNCHANGED <<monster, players, crashed, locals, history>>

ResetSpawn(t) ==
  /\ Goto(t, "reset", "untarget")
  /\ pos' = start
  /\ hp' = MaxHp
  /\ hits' = 0
  /\ UNCHANGED <<spawned, moving, attaking, tick, target, start, players, crashed,
                 locals, rest, hitBy>>

ResetTargetTo(t, player) ==
  /\ Goto(t, "untarget", "spawn")
  /\ target' = player
  /\ hitBy' = [p \in Players |-> "nobody"]
  /\ UNCHANGED <<spawned, hp, moving, attaking, tick, pos, start, players, crashed,
                 locals, hits, rest>>

\* Mutant: the monster keeps its target when it comes back.
ResetTargetKept(t) == ResetTargetTo(t, target)

ResetTarget(t) == ResetTargetTo(t, NoPlayer)

SpawnAs(t, alive) ==
  /\ Goto(t, "spawn", "turn")
  /\ spawned' = alive
  /\ UNCHANGED <<hp, moving, attaking, tick, target, pos, start, players, crashed,
                 locals, history>>

\* Mutant: the monster is reset and stays dead.
SetSpawnDead(t) == SpawnAs(t, FALSE)

SetSpawn(t) == SpawnAs(t, TRUE)

-----------------------------------------------------------------------------
(***************************************************************************)
(* MoveMosters.  The cooldown of an attack is over when the tick of the    *)
(* monster comes to zero.                                                  *)
(***************************************************************************)
TurnOf(t, cooldown) ==
  /\ Goto(t, "turn", "look")
  /\ playerUUid' = [playerUUid EXCEPT ![t] = target]
  /\ IF attaking
       THEN /\ tick' = (tick + 1) % cooldown
            /\ attaking' = (tick' # 0)
       ELSE UNCHANGED <<tick, attaking>>
  /\ rest' = IF rest > 0 THEN rest - 1 ELSE rest
  /\ UNCHANGED <<spawned, hp, moving, target, pos, start, players, crashed,
                 attacker, reg, hits, hitBy>>

\* Mutant: the cooldown is one round too short.
SetTickThree(t) == TurnOf(t, 3)

\* Mutant: the tick is not kept below four.
SetTickUnwrapped(t) == TurnOf(t, 5)

SetTick(t) == TurnOf(t, 4)

EndMove(t, from) ==
  /\ Goto(t, from, "idle")
  /\ playerUUid' = [playerUUid EXCEPT ![t] = NoPlayer]

\* A monster that was hit or attacks stands still for this round.
StandStill(t) ==
  /\ ~(spawned /\ moving /\ ~attaking)
  /\ EndMove(t, "look")
  /\ moving' = TRUE
  /\ UNCHANGED <<spawned, hp, attaking, tick, target, pos, start, players, crashed,
                 inHit, history>>

FindTarget(t) ==
  /\ spawned /\ moving /\ ~attaking
  /\ Goto(t, "look", IF playerUUid[t] \in inRoom THEN "ontarget" ELSE "stroll")
  /\ UNCHANGED <<monster, players, crashed, locals, history>>

\* The session was found, and is looked up again by operator[].
NullSession(t) ==
  /\ ~crashed
  /\ pc[t] \in {"ontarget", "chase"}
  /\ playerUUid[t] \notin inRoom
  /\ crashed' = TRUE
  /\ UNCHANGED <<monster, players, pc, locals, history, mixed>>

FollowIf(t, near) ==
  /\ playerUUid[t] \in inRoom
  /\ Goto(t, "ontarget", IF target # NoPlayer /\ near THEN "chase" ELSE "stroll")
  /\ UNCHANGED <<monster, players, crashed, locals, history>>

\* Mutant: it does not matter where the player is.
OnTargetAnywhere(t) == FollowIf(t, TRUE)

OnTarget(t) == FollowIf(t, InRect(place[playerUUid[t]]))

(***************************************************************************)
(* MoveTarget: attack a player within the radius, approach any other.      *)
(* Whether the monster is on the map then only chooses the packet that     *)
(* tells of it.                                                            *)
(***************************************************************************)
Attack(t) ==
  LET p == playerUUid[t] IN
  /\ pc[t] = "chase"
  /\ p \in inRoom
  /\ Distance(pos, place[p]) <= Radius
  /\ EndMove(t, "chase")
  /\ attaking' = TRUE
  /\ rest' = IF rest = -1 THEN 1 ELSE 4
  /\ UNCHANGED <<spawned, hp, moving, tick, target, pos, start, players, crashed,
                 inHit, hits, hitBy>>

Approach(t) ==
  LET p == playerUUid[t] IN
  /\ pc[t] = "chase"
  /\ p \in inRoom
  /\ Distance(pos, place[p]) > Radius
  /\ EndMove(t, "chase")
  /\ pos' = IF place[p] > pos THEN pos + Step ELSE pos - Step
  /\ UNCHANGED <<spawned, hp, moving, attaking, tick, target, start, players, crashed,
                 inHit, history>>

\* Without a target to go for the monster strolls, and is kept on the map.
Stroll(t) ==
  /\ EndMove(t, "stroll")
  /\ \E d \in -Step..Step : pos' = InMonsterRect(pos + d)
  /\ UNCHANGED <<spawned, hp, moving, attaking, tick, target, start, players, crashed,
                 inHit, history>>

-----------------------------------------------------------------------------
HitStep(t) ==
  LoadHp(t) \/ TakeDemage(t) \/ Die(t) \/ DieUnit(t) \/ SetAttackPlayerUUid(t)

TaskStep(t) ==
  \/ BeginTask(t) \/ SpanMoster(t) \/ ResetSpawn(t) \/ ResetTarget(t) \/ SetSpawn(t)
  \/ SetTick(t) \/ StandStill(t) \/ FindTarget(t) \/ NullSession(t) \/ OnTarget(t)
  \/ Attack(t) \/ Approach(t) \/ Stroll(t)

Next ==
  \E t \in Threads :
    \/ HitStep(t) \/ TaskStep(t)
    \/ \E p \in Players :
         AddSession(t, p) \/ DelSession(t, p) \/ MovePlayer(t, p) \/ MonsterHit(t, p)

(***************************************************************************)
(* A thread ends the job it is at, and the room task comes round for ever  *)
(* (TaskRunsForEver in RoomTick); what players do is up to them.           *)
(***************************************************************************)
Fairness == \A t \in Threads : WF_vars(HitStep(t)) /\ WF_vars(TaskStep(t))

Safety == Init /\ [][Next]_vars

Spec == Safety /\ Fairness

-----------------------------------------------------------------------------
TypeOK ==
  /\ spawned \in BOOLEAN /\ moving \in BOOLEAN /\ attaking \in BOOLEAN
  /\ hp \in Int /\ hp <= MaxHp
  /\ tick \in -1..3
  /\ target \in Players \union {NoPlayer}
  /\ pos \in Int /\ start \in StartPlaces
  /\ inRoom \in SUBSET Players
  /\ place \in [Players -> PlayerPlaces]
  /\ crashed \in BOOLEAN
  /\ pc \in [Threads -> {"idle"} \union InTask \union InHit]
  /\ attacker \in [Threads -> Players \union {NoPlayer}]
  /\ reg \in [Threads -> Int]
  /\ playerUUid \in [Threads -> Players \union {NoPlayer}]
  /\ hits \in Nat /\ rest \in -1..4
  /\ hitBy \in [Players -> {"nobody", "holder", "former"}]
  /\ mixed \in BOOLEAN /\ disturbed \in BOOLEAN

(***************************************************************************)
(* Nothing but the player that it goes for can harm the room task: the     *)
(* session it found is there when it fetches it again, and no monster gets *)
(* off the map, wherever clients say that they are, and whatever hits,     *)
(* joins and other players do meanwhile.  A chase is not cut off at the    *)
(* edge: it is the check of the place of the player that keeps it on the   *)
(* map, and that a monster hits farther than it steps.  The player itself  *)
(* can leave before the task fetches its session again, which is a null    *)
(* session then, or move after it was found to be on the map, and so lead  *)
(* the monster over the edge.                                              *)
(***************************************************************************)
TaskIsSafe == ~disturbed => ~crashed /\ -Edge <= pos /\ pos <= Edge

(***************************************************************************)
(* As long as no hit overlapped with another one or with a respawn, every  *)
(* hit since the monster was put up has cost it one point, and it is up    *)
(* exactly while it has any left, through any sequence of deaths, late     *)
(* hits and respawns, and whatever the room task or the players do during  *)
(* a hit.  While a hit or a respawn is under way this need not hold.       *)
(***************************************************************************)
Quiet == \A t \in Threads : pc[t] \notin InLife

LifeMatchesHits ==
  ~mixed /\ Quiet => hp = MaxHp - hits /\ (spawned <=> hits < MaxHp)

(***************************************************************************)
(* Attacks are four rounds apart.  The first one is an exception, since    *)
(* the tick starts at -1: it may be followed by another one round later.   *)
(* Deaths, respawns and new targets do not shorten the cooldown, and two   *)
(* threads do not either.                                                  *)
(***************************************************************************)
AttacksAreSpaced ==
  [][attaking' /\ ~attaking => rest <= 0]_vars

(***************************************************************************)
(* A monster that died comes back, whoever goes on hitting it.             *)
(***************************************************************************)
DeadReturns == ~spawned ~> spawned \/ crashed

(***************************************************************************)
(* A monster chases only a player with whose number it was hit since it    *)
(* came up: who holds the number made that hit, or was given it after one  *)
(* who did, and is chased without having hit at all.  A monster that died  *)
(* and came back has forgotten whom it was after, also if hits of two      *)
(* threads and the respawn overlap.  (It does not forget by strolling, as  *)
(* the comment at BS_GameRoom.cpp:237 would have it.)                      *)
(***************************************************************************)
ChasesNumbersThatHit ==
  \A t \in Threads : pc[t] = "chase" => hitBy[playerUUid[t]] \in {"holder", "former"}

=============================================================================
