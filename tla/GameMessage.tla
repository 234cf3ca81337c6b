----------------------------- MODULE GameMessage -----------------------------
(***************************************************************************)
(* The tables of GameMessage.h: the messages of a game server and its      *)
(* clients.  Objects are named by their uids; note which fields are uint   *)
(* and which are ushort.                                                   *)
(***************************************************************************)
EXTENDS Wire, Sequences

(* Before the game.                                                        *)

ConnectionStatus == [ACCEPTED |-> 0, REFUSED |-> 1]
HeroType == [WARRIOR |-> 0, MAGE |-> 1, ROGUE |-> 2, PRIEST |-> 3]

CLConnection == [player_uid |-> "uint", nickname |-> "string"]
CLDisconnect == [player_uid |-> "uint"]
SVConnectionStatus == [player_uid |-> "uint", status |-> "byte"]
SVPlayerConnected == [player_uid |-> "uint", nickname |-> "string"]
SVPlayerDisconnected == [player_uid |-> "uint"]
SVHeroPickStage == NoFields
CLHeroPick == [player_uid |-> "uint", hero_type |-> "byte"]
SVHeroPick == [player_uid |-> "uint", hero_type |-> "byte"]
CLReadyToStart == [player_uid |-> "uint"]
SVReadyToStart == [player_uid |-> "uint"]

SVGenerateMap == [map_w |-> "ushort", room_w |-> "ushort", seed |-> "uint"]
CLMapGenerated == [player_uid |-> "uint"]
SVGameStart == NoFields

(* In the game.                                                            *)

Place == [x |-> "ushort", y |-> "ushort"]
Health == [hp |-> "ushort", max_hp |-> "ushort"]

CLActionMove == [target_uid |-> "uint", mov_dir |-> "byte"]
SVActionMove == Joined([target_uid |-> "uint", mov_dir |-> "byte"], Place)

\* And USE, 2, which nothing handles.
ActionItemType == [TAKE |-> 0, DROP |-> 1]

CLActionItem == [player_uid |-> "uint", item_uid |-> "ushort", act_type |-> "byte"]
SVActionItem == [player_uid |-> "uint", item_uid |-> "ushort", act_type |-> "byte"]

ActionDuelType == [STARTED |-> 0, ATTACK |-> 1, ESCAPE |-> 2, KILL |-> 3]

CLActionDuel == [target1_uid |-> "uint", target2_uid |-> "uint",
                 act_type |-> "byte", damage |-> "ushort"]
SVActionDuel == [target1_uid |-> "uint", target2_uid |-> "uint",
                 act_type |-> "byte", damage |-> "ushort"]

SVActionDeath == [player_uid |-> "uint", killer_uid |-> "uint"]

SVSpawnPlayer == Joined([player_uid |-> "uint"], Joined(Place, Health))
SVRespawnPlayer == Joined([player_uid |-> "uint"], Joined(Place, Health))

\* Mutant of SVSpawnMonster: one byte for the monster.
SVSpawnMonsterByte == Joined([monster_uid |-> "byte"], Joined(Place, Health))

SVSpawnMonster == Joined([monster_uid |-> "ushort"], Joined(Place, Health))

ItemType == [KEY |-> 0, SWORD |-> 1]
ConstrType == [DOOR |-> 0, GRAVEYARD |-> 1, FOUNTAIN |-> 2]

SVSpawnItem == Joined([item_uid |-> "ushort", item_type |-> "byte"], Place)
SVSpawnConstr == Joined([constr_uid |-> "ushort", constr_type |-> "byte"], Place)

CLRequestWin == [player_uid |-> "uint"]
SVGameEnd == [player_uid |-> "uint"]
CLPing == [player_uid |-> "uint"]
SVPing == NoFields

(* Spells.                                                                 *)

MageAttack == [enemy_id |-> "uint", damage |-> "ushort"]
MageTeleport == Place
MageFreeze == [enemy_id |-> "uint"]
WarriorAttack == [enemy_id |-> "uint", damage |-> "ushort"]
WarriorDash == NoFields
WarriorArmorUp == NoFields
MonsterAttack == [enemy_id |-> "uint", damage |-> "ushort"]

\* The numbers of the union's members; 0 is NONE.
Spells == <<"MageAttack", "MageTeleport", "MageFreeze", "WarriorAttack",
            "WarriorDash", "WarriorArmorUp", "MonsterAttack">>

\* The type a member of the union is read as.
SpellsTraits ==
    [MageAttack |-> MageAttack, MageTeleport |-> MageTeleport, MageFreeze |-> MageFreeze,
     WarriorAttack |-> WarriorAttack, WarriorDash |-> WarriorDash,
     WarriorArmorUp |-> WarriorArmorUp, MonsterAttack |-> MonsterAttack]

Spell == [spell_type |-> "byte", spell |-> "union"]
CLActionSpell == [player_uid |-> "uint", spell_id |-> "ushort", spell_info |-> "table"]
SVActionSpell == [player_uid |-> "uint", spell_id |-> "ushort", spell_info |-> "table"]

(* The envelope.                                                           *)

Messages ==
    <<"CLConnection", "CLDisconnect", "SVConnectionStatus", "SVPlayerConnected",
      "SVPlayerDisconnected", "SVHeroPickStage", "CLHeroPick", "SVHeroPick",
      "CLReadyToStart", "SVReadyToStart", "SVGenerateMap", "CLMapGenerated", "SVGameStart",
      "CLActionMove", "SVActionMove", "CLActionItem", "SVActionItem", "CLActionDuel",
      "SVActionDuel", "CLActionSpell", "SVActionSpell", "CLRequestWin", "SVActionDeath",
      "SVSpawnPlayer", "SVRespawnPlayer", "SVSpawnMonster", "SVSpawnItem", "SVSpawnConstr",
      "SVGameEnd", "CLPing", "SVPing">>

MessagesTraits ==
    [CLConnection |-> CLConnection, CLDisconnect |-> CLDisconnect,
     SVConnectionStatus |-> SVConnectionStatus, SVPlayerConnected |-> SVPlayerConnected,
     SVPlayerDisconnected |-> SVPlayerDisconnected, SVHeroPickStage |-> SVHeroPickStage,
     CLHeroPick |-> CLHeroPick, SVHeroPick |-> SVHeroPick,
     CLReadyToStart |-> CLReadyToStart, SVReadyToStart |-> SVReadyToStart,
     SVGenerateMap |-> SVGenerateMap, CLMapGenerated |-> CLMapGenerated,
     SVGameStart |-> SVGameStart, CLActionMove |-> CLActionMove,
     SVActionMove |-> SVActionMove, CLActionItem |-> CLActionItem,
     SVActionItem |-> SVActionItem, CLActionDuel |-> CLActionDuel,
     SVActionDuel |-> SVActionDuel, CLActionSpell |-> CLActionSpell,
     SVActionSpell |-> SVActionSpell, CLRequestWin |-> CLRequestWin,
     SVActionDeath |-> SVActionDeath, SVSpawnPlayer |-> SVSpawnPlayer,
     SVRespawnPlayer |-> SVRespawnPlayer, SVSpawnMonster |-> SVSpawnMonster,
     SVSpawnItem |-> SVSpawnItem, SVSpawnConstr |-> SVSpawnConstr,
     SVGameEnd |-> SVGameEnd, CLPing |-> CLPing, SVPing |-> SVPing]

Message == [sender_uid |-> "string", payload_type |-> "byte", payload |-> "union"]

\* The member of a union that its type field names; Null for a type that is
\* not known.
Member(names, type) == IF type \in DOMAIN names THEN names[type] ELSE Null

\* CreateMessage of a table of the type called name.
Envelope(sender, name, table) ==
    Create(Message, [sender_uid |-> sender, payload |-> table,
                     payload_type |-> CHOOSE k \in DOMAIN Messages : Messages[k] = name])

PayloadName(message) == Member(Messages, Field(Message, message, "payload_type"))

\* A field of the payload, read as the type the envelope says it is.
PayloadField(message, f) ==
    Field(MessagesTraits[PayloadName(message)], Field(Message, message, "payload"), f)

\* The same for the spell in a SVActionSpell.
SpellField(message, f) ==
    LET info == PayloadField(message, "spell_info")
    IN Field(SpellsTraits[Member(Spells, Field(Spell, info, "spell_type"))],
             Field(Spell, info, "spell"), f)

\* VerifyMessages: a message with a payload of an unknown type is dropped.
VerifyMessages(message) ==
    Field(Message, message, "payload_type") \in 0 .. Len(Messages)
=============================================================================
