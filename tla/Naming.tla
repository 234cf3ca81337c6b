------------------------------- MODULE Naming -------------------------------
(***************************************************************************)
(* How a game server and its clients name the objects of a game.  The      *)
(* world numbers its objects (ObjectsStorage), a hero has the LocalUid its *)
(* player was given in the lobby; events tell the clients these numbers,   *)
(* cut to the width of the field of each message, and the clients name in  *)
(* their commands what they were told.  Packets are lost, repeated and     *)
(* late: a command may name what is dead or gone by then.                  *)
(*                                                                         *)
(* Session has the control of the stages, Labyrinth and Combat say when    *)
(* what happens to whom; here anything may happen at any time and only     *)
(* what changes the storage is kept.  Coordinates, health, damage and      *)
(* spell numbers are left out of the tables.                               *)
(***************************************************************************)
EXTENDS GameMessage, FiniteSets

CONSTANTS
    Player,
    Draws,      \* what randGen yields in the lobby: always the same sequence
    Blocks,     \* how many blocks the map has
    Settings,   \* mapConf: [map_w, room_w, seed]
    MaxObjects, \* bound: the greatest _uidSeq
    InFlight    \* bound: the packets under way in each direction

ASSUME NamingAssumption ==
    /\ IsFiniteSet(Player) /\ Null \notin Player
    /\ Draws \in Seq(0 .. UINT - 1) /\ Len(Draws) = Cardinality(Player)
    /\ Blocks \in Nat /\ \A i \in DOMAIN Draws : Draws[i] > Blocks + 4
    /\ MaxObjects \in Blocks + 4 .. UINT - 1 /\ InFlight \in Nat
    /\ BYTE > Len(Messages)

VARIABLES
    local,      \* the players accepted so far, with their LocalUids
    stage,      \* how far the game is, or "crashed"
    uidSeq,     \* _uidSeq
    storage,    \* _objectsStorage but the blocks, each as [kind, uid, of]
    bag,        \* the inventories: which unit has which item, as [by, item]
    toClients,  \* events under way: [to, message, about]
    toServer,   \* commands under way: [message, about]
    own,        \* player -> the uid his client was told is his own, or Null
    maps,       \* player -> the settings his client was told, or Null
    mistaken    \* history: a command found an object it did not mean

vars == <<local, stage, uidSeq, storage, bag, toClients, toServer, own, maps, mistaken>>

\* A player's hero; what the world makes itself belongs to nobody.
Hero(p) == [kind |-> "hero", uid |-> local[p], of |-> p]
Made(kind, uid) == [kind |-> kind, uid |-> uid, of |-> Null]

Joining == DOMAIN local     \* _playersConnections

Bag(u) == {b \in bag : b.by = u}
UnitsStored == {o \in storage : o.kind \in {"hero", "monster"}}

Init ==
    /\ local = [p \in {} |-> 0]
    /\ stage = "lobby"
    /\ uidSeq = 0
    /\ storage = {}
    /\ bag = {}
    /\ toClients = {} /\ toServer = {}
    /\ own = [p \in Player |-> Null]
    /\ maps = [p \in Player |-> Null]
    /\ mistaken = FALSE

-----------------------------------------------------------------------------
(* Messages: about says which object each uid in a message stands for.     *)

\* A message of the type called name: the uids of about, and the rest.
Telling(sender, name, about, rest) ==
    Envelope(sender, name,
             Create(MessagesTraits[name],
                    Joined([f \in DOMAIN about |-> about[f].uid], rest)))

EventTo(players, name, about, rest) ==
    [to |-> players, message |-> Telling(Null, name, about, rest), about |-> about]

\* SendMulticast.
Event(name, about, rest) == EventTo(Joining, name, about, rest)

\* An attack of a mage, a warrior or a monster: the enemy is in a table of
\* its own inside.
Attack(name, u, enemy) ==
    LET spell == [spell_type |-> CHOOSE k \in DOMAIN Spells : Spells[k] = name,
                  spell |-> Create(SpellsTraits[name], [enemy_id |-> enemy.uid])]
        event == Event("SVActionSpell", [player_uid |-> u],
                       [spell_info |-> Create(Spell, spell)])
    IN [to |-> event.to, message |-> event.message,
        about |-> [player_uid |-> u, enemy_id |-> enemy]]

\* What a client reads: the uid each object goes by.
Said(packet) ==
    {[object |-> packet.about[f],
      uid |-> IF f = "enemy_id" THEN SpellField(packet.message, f)
              ELSE PayloadField(packet.message, f)] : f \in DOMAIN packet.about}

\* The network loses any of the old packets, and of the new ones all but one
\* at most.
Carried(net, new) ==
    {now \in (SUBSET net) \cup {old \cup {n} : old \in SUBSET net, n \in new} :
       Cardinality(now) <= InFlight}

Tell(events) == toClients' \in Carried(toClients, events)

-----------------------------------------------------------------------------
(* The lobby and the start of the game.                                    *)

\* The next number drawn is p's LocalUid; he is told it and who else is
\* there, and everybody that he has come.
Connect(p) ==
    /\ stage = "lobby" /\ p \notin Joining
    /\ local' = Joined([q \in {p} |-> Draws[Cardinality(Joining) + 1]], local)
    /\ LET hero(q) == [kind |-> "hero", uid |-> local'[q], of |-> q]
           connected(to, q) ==
               EventTo(to, "SVPlayerConnected", [player_uid |-> hero(q)], [nickname |-> q])
       IN Tell({EventTo({p}, "SVConnectionStatus", [player_uid |-> hero(p)],
                        [status |-> ConnectionStatus.ACCEPTED])}
               \cup {connected({p}, q) : q \in Joining'}
               \cup {connected(Joining', p)})
    /\ UNCHANGED <<stage, uidSeq, storage, bag, toServer, own, maps, mistaken>>

\* A client picks a hero for the uid he was given, and everybody is told.
PickHero(p, hero) ==
    /\ stage = "lobby" /\ own[p] # Null
    /\ LET pick == Telling(p, "CLHeroPick", [player_uid |-> Hero(p)], [hero_type |-> hero])
           named == {q \in Joining : local[q] = PayloadField(pick, "player_uid")}
       IN Tell({Event("SVHeroPick", [player_uid |-> Hero(q)],
                      [hero_type |-> PayloadField(pick, "hero_type")]) : q \in named})
    /\ UNCHANGED <<local, stage, uidSeq, storage, bag, toServer, own, maps, mistaken>>

\* Everybody has named himself by the uid he was told and is ready, so the
\* server makes the world.
Generate ==
    /\ stage = "lobby" /\ Joining = Player /\ \A p \in Player : own[p] # Null
    /\ stage' = "generating"
    /\ Tell({Event("SVGenerateMap", NoFields, Settings)})
    /\ UNCHANGED <<local, uidSeq, storage, bag, toServer, own, maps, mistaken>>

\* The constructor of GameWorld has numbered the blocks and then, after the
\* heroes, the key, the door, the graveyard and the fountain.  When all maps
\* are made the game starts and the first update tells the clients.
Start ==
    /\ stage = "generating" /\ \A p \in Player : maps[p] # Null
    /\ stage' = "game"
    /\ uidSeq' = Blocks + 4
    /\ LET key == Made("item", Blocks)
           constr == [DOOR |-> Made("constr", Blocks + 1),
                      GRAVEYARD |-> Made("constr", Blocks + 2),
                      FOUNTAIN |-> Made("constr", Blocks + 3)]
       IN /\ storage' = {Hero(p) : p \in Player} \cup {key}
                            \cup {constr[c] : c \in DOMAIN constr}
          /\ Tell({Event("SVGameStart", NoFields, NoFields),
                   Event("SVSpawnItem", [item_uid |-> key], [item_type |-> ItemType.KEY])}
                  \cup {Event("SVSpawnPlayer", [player_uid |-> Hero(p)], NoFields) :
                          p \in Player}
                  \cup {Event("SVSpawnConstr", [constr_uid |-> constr[c]],
                              [constr_type |-> ConstrType[c]]) : c \in DOMAIN constr})
    /\ UNCHANGED <<local, bag, toServer, own, maps, mistaken>>

-----------------------------------------------------------------------------
(* The world by itself.                                                    *)

SpawnMonster ==
    /\ stage = "game" /\ uidSeq < MaxObjects
    /\ uidSeq' = (uidSeq + 1) % UINT
    /\ storage' = storage \cup {Made("monster", uidSeq)}
    /\ Tell({Event("SVSpawnMonster", [monster_uid |-> Made("monster", uidSeq)], NoFields)})
    /\ UNCHANGED <<local, stage, bag, toServer, own, maps, mistaken>>

\* The dead drop what they have; a monster stays stored, a hero waits.
Dies(u) ==
    /\ stage = "game" /\ u \in UnitsStored
    /\ Tell({Event("SVActionDeath", [player_uid |-> u], NoFields)})
    /\ storage' = (storage \ {h \in {u} : h.kind = "hero"}) \cup {b.item : b \in Bag(u)}
    /\ bag' = bag \ Bag(u)
    /\ UNCHANGED <<local, stage, uidSeq, toServer, own, maps, mistaken>>

Returns(p) ==
    /\ stage = "game" /\ Hero(p) \notin storage
    /\ storage' = storage \cup {Hero(p)}
    /\ Tell({Event("SVSpawnPlayer", [player_uid |-> Hero(p)], NoFields)})
    /\ UNCHANGED <<local, stage, uidSeq, bag, toServer, own, maps, mistaken>>

\* A monster moves, starts a duel or strikes.
MonsterActs(m, u) ==
    /\ stage = "game" /\ {m, u} \subseteq UnitsStored /\ m.kind = "monster" /\ m # u
    /\ Tell({Event("SVActionMove", [target_uid |-> m], NoFields),
             Event("SVActionDuel", [target1_uid |-> m, target2_uid |-> u],
                   [act_type |-> ActionDuelType.STARTED]),
             Attack("MonsterAttack", m, u)})
    /\ UNCHANGED <<local, stage, uidSeq, storage, bag, toServer, own, maps, mistaken>>

-----------------------------------------------------------------------------
(* The clients.                                                            *)

\* A client reads a packet and remembers what is for it.
Learn(p) ==
    /\ \E packet \in toClients :
         /\ p \in packet.to /\ VerifyMessages(packet.message)
         /\ LET Get(f) == PayloadField(packet.message, f)
            IN \/ /\ PayloadName(packet.message) = "SVConnectionStatus"
                  /\ Get("status") = ConnectionStatus.ACCEPTED
                  /\ own' = [own EXCEPT ![p] = Get("player_uid")]
                  /\ UNCHANGED maps
               \/ /\ PayloadName(packet.message) = "SVGenerateMap"
                  /\ maps' = [maps EXCEPT ![p] = [f \in DOMAIN SVGenerateMap |-> Get(f)]]
                  /\ UNCHANGED own
    /\ UNCHANGED <<local, stage, uidSeq, storage, bag, toClients, toServer, mistaken>>

\* Its own hero and an object it reads about, under the names it was told.
\* about is what it means, so the uids are put in its place.
Saying(p, name, about, uids, rest) ==
    [message |-> Envelope(p, name, Create(MessagesTraits[name], Joined(uids, rest))),
     about   |-> about]

Commands(p, other) ==
    LET self == Hero(p) IN
    {Saying(p, "CLActionMove", [target_uid |-> self], [target_uid |-> own[p]], NoFields),
     Saying(p, "CLActionSpell", [player_uid |-> self], [player_uid |-> own[p]], NoFields)}
    \cup (IF other.object.kind \in {"hero", "monster"}
          THEN {Saying(p, "CLActionDuel", [target1_uid |-> self, target2_uid |-> other.object],
                       [target1_uid |-> own[p], target2_uid |-> other.uid],
                       [act_type |-> ActionDuelType.STARTED])}
          ELSE {})
    \cup (IF other.object.kind = "item"
          THEN {Saying(p, "CLActionItem", [player_uid |-> self, item_uid |-> other.object],
                       [player_uid |-> own[p], item_uid |-> other.uid],
                       [act_type |-> ActionItemType[act]]) : act \in DOMAIN ActionItemType}
          ELSE {})

Command(p) ==
    /\ stage = "game" /\ own[p] # Null
    /\ \E packet \in toClients :
         /\ p \in packet.to
         /\ \E other \in Said(packet) : \E c \in Commands(p, other) :
              toServer' \in Carried(toServer, {c})
    /\ UNCHANGED <<local, stage, uidSeq, storage, bag, toClients, own, maps, mistaken>>

-----------------------------------------------------------------------------
(* ApplyInputEvents.                                                       *)

\* Mutant of FindObject: the objects are hashed into 4 buckets and the keys
\* in a bucket are not compared.
FindObjectHashed(uid) == {o \in storage : o.uid % 4 = uid % 4}

\* The objects FindObject may return.  A block is found first and is no
\* unit and no item.
FindObject(uid) == {o \in storage : uid >= Blocks /\ o.uid = uid}

Find(c, f, kinds) == {o \in FindObject(PayloadField(c.message, f)) : o.kind \in kinds}
FindUnit(c, f) == Find(c, f, {"hero", "monster"})
FindItem(c, f) == Find(c, f, {"item"})

Handling(c, name) ==
    /\ stage = "game" /\ c \in toServer
    /\ VerifyMessages(c.message) /\ PayloadName(c.message) = name
    /\ toServer' = toServer \ {c}
    /\ mistaken' = (mistaken \/ \E f \in DOMAIN c.about :
                                  ~(Find(c, f, {"hero", "monster", "item"}) \subseteq {c.about[f]}))
    /\ UNCHANGED <<local, uidSeq, own, maps>>

\* A move: of whoever is named.
HandleMove(c) ==
    /\ Handling(c, "CLActionMove")
    /\ Tell({Event("SVActionMove", [target_uid |-> u], NoFields) :
               u \in FindUnit(c, "target_uid")})
    /\ UNCHANGED <<stage, storage, bag>>

\* Mutant of HandleTake: DeleteObject is forgotten.
HandleTakeStored(c) ==
    /\ Handling(c, "CLActionItem")
    /\ PayloadField(c.message, "act_type") = ActionItemType.TAKE
    /\ \E item \in FindItem(c, "item_uid"), unit \in FindUnit(c, "player_uid") :
         /\ bag' = bag \cup {[by |-> unit, item |-> item]}
         /\ Tell({Event("SVActionItem", [player_uid |-> unit, item_uid |-> item],
                        [act_type |-> ActionItemType.TAKE])})
    /\ UNCHANGED <<stage, storage>>

HandleTake(c) ==
    /\ Handling(c, "CLActionItem")
    /\ PayloadField(c.message, "act_type") = ActionItemType.TAKE
    /\ \E item \in FindItem(c, "item_uid"), unit \in FindUnit(c, "player_uid") :
         /\ bag' = bag \cup {[by |-> unit, item |-> item]}
         /\ storage' = storage \ {item}
         /\ Tell({Event("SVActionItem", [player_uid |-> unit, item_uid |-> item],
                        [act_type |-> ActionItemType.TAKE])})
    /\ UNCHANGED stage

\* Nobody is told of a drop.  The item is stored twice, by DropItem and by
\* the handler, which is the same: DeleteObject removes both.
HandleDrop(c) ==
    /\ Handling(c, "CLActionItem")
    /\ PayloadField(c.message, "act_type") = ActionItemType.DROP
    /\ \E unit \in FindUnit(c, "player_uid") : \E b \in Bag(unit) :
         /\ b.item.uid = PayloadField(c.message, "item_uid")
         /\ bag' = bag \ {b}
         /\ storage' = storage \cup {b.item}
    /\ UNCHANGED <<stage, toClients>>

HandleDuel(c) ==
    /\ Handling(c, "CLActionDuel")
    /\ Tell({Event("SVActionDuel", [target1_uid |-> t[1], target2_uid |-> t[2]],
                   [act_type |-> ActionDuelType.STARTED]) :
               t \in FindUnit(c, "target1_uid") \X FindUnit(c, "target2_uid")})
    /\ UNCHANGED <<stage, storage, bag>>

\* The units found are not looked at before they are used.
HandleDuelCrashes(c) ==
    /\ Handling(c, "CLActionDuel")
    /\ FindUnit(c, "target1_uid") = {} \/ FindUnit(c, "target2_uid") = {}
    /\ stage' = "crashed"
    /\ UNCHANGED <<storage, bag, toClients>>

\* The target is the opponent in the duel, whatever the message says.
HandleSpell(c) ==
    /\ Handling(c, "CLActionSpell")
    /\ Tell({Attack(spell, u, enemy) :
               spell \in {"MageAttack", "MageFreeze", "WarriorAttack"},
               u \in FindUnit(c, "player_uid"), enemy \in UnitsStored})
    /\ UNCHANGED <<stage, storage, bag>>

\* Nothing is found: a warning is logged.
Ignore(c) ==
    /\ \E name \in {"CLActionMove", "CLActionItem", "CLActionSpell"} : Handling(c, name)
    /\ \E f \in DOMAIN c.about : Find(c, f, {"hero", "monster", "item"}) = {}
    /\ UNCHANGED <<stage, storage, bag, toClients>>

Next ==
    \/ \E p \in Player : \/ Connect(p) \/ Learn(p) \/ Returns(p) \/ Command(p)
                         \/ \E h \in {HeroType.WARRIOR, HeroType.MAGE} : PickHero(p, h)
    \/ Generate \/ Start
    \/ SpawnMonster
    \/ \E u \in UnitsStored : Dies(u) \/ \E m \in UnitsStored : MonsterActs(m, u)
    \/ \E c \in toServer : \/ HandleMove(c) \/ HandleTake(c) \/ HandleDrop(c)
                           \/ HandleDuel(c) \/ HandleDuelCrashes(c)
                           \/ HandleSpell(c) \/ Ignore(c)

Spec == Init /\ [][Next]_vars

-----------------------------------------------------------------------------
(* Properties.                                                             *)

\* As long as the numbers fit in 16 bits, every message names an object by
\* the same uid, whatever the type of the field: a client finds the monster
\* it was told of under the name that moves, fights and dies.
OneName ==
    uidSeq <= USHORT =>
        \A packet \in toClients : \A s \in Said(packet) : s.uid = s.object.uid

\* As long as the world has not reached the numbers of the heroes, a command
\* reaches what the client meant or nothing at all, however late it comes:
\* numbers are not given a second time, not even those of the dead.
CommandsMeanIt ==
    uidSeq <= USHORT /\ (\A i \in DOMAIN Draws : uidSeq <= Draws[i]) => ~mistaken

TypeOK ==
    /\ Joining \subseteq Player /\ \A p \in Joining : local[p] \in 0 .. UINT - 1
    /\ stage \in {"lobby", "generating", "game", "crashed"} /\ mistaken \in BOOLEAN
    /\ uidSeq \in 0 .. UINT - 1
    /\ \A o \in storage : o.kind \in {"hero", "monster", "item", "constr"}
    /\ \A b \in bag : b.item.kind = "item" /\ b.item \notin storage
    /\ Cardinality(toClients) <= InFlight /\ Cardinality(toServer) <= InFlight
=============================================================================
