---------------------------- MODULE NamingProofs ----------------------------
(***************************************************************************)
(* Proofs about Naming for any players, any numbers of objects and packets *)
(* and any widths of the integers.                                         *)
(***************************************************************************)
EXTENDS Naming, FiniteSetTheorems, SequenceTheorems, TLAPS

(* Messages.                                                               *)

Names == {Messages[k] : k \in DOMAIN Messages}

\* Field f of a message called name is of this type.
Typed(name, f, type) ==
    /\ name \in Names /\ f \in DOMAIN MessagesTraits[name]
    /\ MessagesTraits[name][f] = type

\* What is read from a table is what was put into it, cut to the width of
\* the field, whether or not it was left out for being the default.
LEMMA FieldReads ==
    ASSUME NEW schema, NEW given, NEW f \in DOMAIN schema
    PROVE  Field(schema, Create(schema, given), f) =
             IF f \in DOMAIN given THEN Cut(schema[f], given[f]) ELSE Default(schema[f])
  BY DEF Field, Create

LEMMA NumbersFit ==
    /\ \A k \in 0 .. 31 : Cut("byte", k) = k
    /\ \A k \in 0 .. UINT - 1 : Cut("uint", k) = k
    /\ \A k \in 0 .. USHORT - 1 : Cut("ushort", k) = k
  <1>1. /\ BYTE \in Nat /\ BYTE > 31
        /\ UINT \in Nat \ {0} /\ USHORT \in Nat \ {0}
    BY NamingAssumption, WidthAssumption DEF Messages
  <1>2. /\ \A k : Cut("byte", k) = k % BYTE
        /\ \A k : Cut("uint", k) = k % UINT
        /\ \A k : Cut("ushort", k) = k % USHORT
    BY DEF Cut, Scalar, Width
  <1> QED
    BY <1>1, <1>2

LEMMA NamesDiffer ==
    /\ DOMAIN Messages = 1 .. 31
    /\ \A j, k \in DOMAIN Messages : Messages[j] = Messages[k] => j = k
  BY DEF Messages

\* The payload of an envelope is read as what it was written as.
LEMMA EnvelopeReads ==
    ASSUME NEW name \in Names, NEW sender, NEW table
    PROVE  /\ PayloadName(Envelope(sender, name, table)) = name
           /\ \A f : PayloadField(Envelope(sender, name, table), f) =
                       Field(MessagesTraits[name], table, f)
  <1>1. PICK k \in DOMAIN Messages : /\ Messages[k] = name
                                     /\ k = CHOOSE i \in DOMAIN Messages : Messages[i] = name
    BY DEF Names
  <1> DEFINE message == Envelope(sender, name, table)
             given == [sender_uid |-> sender, payload |-> table, payload_type |-> k]
  <1>2. k \in 1 .. 31 /\ k \in 0 .. 31
    <2>1. DOMAIN Messages = 1 .. 31
      BY NamesDiffer
    <2> QED
      BY <2>1
  <1>3. message = Create(Message, given)
    BY <1>1 DEF Envelope
  <1> HIDE DEF message
  <1>4. Field(Message, message, "payload_type") = k
    <2>1. "payload_type" \in DOMAIN Message /\ Message["payload_type"] = "byte"
      BY DEF Message
    <2>2. "payload_type" \in DOMAIN given /\ given["payload_type"] = k
      OBVIOUS
    <2>3. Cut("byte", k) = k
      BY <1>2, NumbersFit
    <2> QED
      BY <1>3, <2>1, <2>2, <2>3, FieldReads
  <1>5. Field(Message, message, "payload") = table
    <2>1. "payload" \in DOMAIN Message /\ Message["payload"] = "union"
      BY DEF Message
    <2>2. "payload" \in DOMAIN given /\ given["payload"] = table
      OBVIOUS
    <2>3. Cut("union", table) = table
      BY DEF Cut, Scalar
    <2> QED
      BY <1>3, <2>1, <2>2, <2>3, FieldReads
  <1>6. PayloadName(message) = name
    BY <1>1, <1>4 DEF PayloadName, Member
  <1>7. \A f : PayloadField(message, f) = Field(MessagesTraits[name], table, f)
    BY <1>5, <1>6 DEF PayloadField
  <1> QED
    BY <1>6, <1>7 DEF message

\* A uid of about is read cut to the width of its field, the rest likewise.
LEMMA TellingReads ==
    ASSUME NEW name \in Names, NEW sender, NEW about, NEW rest
    PROVE  LET message == Telling(sender, name, about, rest) IN
           /\ PayloadName(message) = name
           /\ \A f \in DOMAIN about \cap DOMAIN MessagesTraits[name] :
                PayloadField(message, f) = Cut(MessagesTraits[name][f], about[f].uid)
           /\ \A f \in (DOMAIN rest \ DOMAIN about) \cap DOMAIN MessagesTraits[name] :
                PayloadField(message, f) = Cut(MessagesTraits[name][f], rest[f])
  <1> DEFINE uids == [f \in DOMAIN about |-> about[f].uid]
             given == Joined(uids, rest)
             schema == MessagesTraits[name]
             message == Telling(sender, name, about, rest)
  <1>1. message = Envelope(sender, name, Create(schema, given))
    BY DEF Telling
  <1>2. /\ \A f \in DOMAIN about : f \in DOMAIN given /\ given[f] = about[f].uid
        /\ \A f \in DOMAIN rest \ DOMAIN about : f \in DOMAIN given /\ given[f] = rest[f]
    BY DEF Joined
  <1> HIDE DEF given, schema, message
  <1>3. PayloadName(message) = name
    BY <1>1, EnvelopeReads
  <1>4. \A f : PayloadField(message, f) = Field(schema, Create(schema, given), f)
    BY <1>1, EnvelopeReads DEF schema
  <1>5. \A f \in DOMAIN about \cap DOMAIN schema :
           PayloadField(message, f) = Cut(schema[f], about[f].uid)
    BY <1>2, <1>4, FieldReads
  <1>6. \A f \in (DOMAIN rest \ DOMAIN about) \cap DOMAIN schema :
           PayloadField(message, f) = Cut(schema[f], rest[f])
    BY <1>2, <1>4, FieldReads
  <1> QED
    BY <1>3, <1>5, <1>6 DEF message, schema

LEMMA Types ==
    /\ Typed("SVConnectionStatus", "player_uid", "uint")
    /\ Typed("SVPlayerConnected", "player_uid", "uint")
    /\ Typed("CLHeroPick", "player_uid", "uint")
    /\ Typed("SVHeroPick", "player_uid", "uint")
    /\ "SVGenerateMap" \in Names /\ "SVGameStart" \in Names
    /\ Typed("SVSpawnItem", "item_uid", "ushort")
    /\ Typed("SVSpawnPlayer", "player_uid", "uint")
    /\ Typed("SVSpawnConstr", "constr_uid", "ushort")
    /\ Typed("SVSpawnMonster", "monster_uid", "ushort")
    /\ Typed("SVActionDeath", "player_uid", "uint")
    /\ Typed("SVActionMove", "target_uid", "uint")
    /\ Typed("SVActionDuel", "target1_uid", "uint")
    /\ Typed("SVActionDuel", "target2_uid", "uint")
    /\ Typed("SVActionItem", "player_uid", "uint")
    /\ Typed("SVActionItem", "item_uid", "ushort")
    /\ Typed("SVActionSpell", "player_uid", "uint")
    /\ Typed("SVActionSpell", "spell_info", "table")
    /\ Typed("CLActionMove", "target_uid", "uint")
    /\ Typed("CLActionSpell", "player_uid", "uint")
    /\ Typed("CLActionDuel", "target1_uid", "uint")
    /\ Typed("CLActionDuel", "target2_uid", "uint")
    /\ Typed("CLActionItem", "player_uid", "uint")
    /\ Typed("CLActionItem", "item_uid", "ushort")
  <1>1. \A k \in 1 .. 31 : Messages[k] \in Names
    BY NamesDiffer DEF Names
  <1>2. /\ "SVConnectionStatus" \in Names /\ "SVPlayerConnected" \in Names
        /\ "CLHeroPick" \in Names /\ "SVHeroPick" \in Names /\ "SVGenerateMap" \in Names
        /\ "SVGameStart" \in Names /\ "CLActionMove" \in Names /\ "SVActionMove" \in Names
    <2>1. /\ Messages[3] = "SVConnectionStatus" /\ Messages[4] = "SVPlayerConnected"
          /\ Messages[7] = "CLHeroPick" /\ Messages[8] = "SVHeroPick"
          /\ Messages[11] = "SVGenerateMap" /\ Messages[13] = "SVGameStart"
          /\ Messages[14] = "CLActionMove" /\ Messages[15] = "SVActionMove"
      BY DEF Messages
    <2> QED
      BY <1>1, <2>1
  <1>3. /\ "CLActionItem" \in Names /\ "SVActionItem" \in Names
        /\ "CLActionDuel" \in Names /\ "SVActionDuel" \in Names
        /\ "CLActionSpell" \in Names /\ "SVActionSpell" \in Names
        /\ "SVActionDeath" \in Names /\ "SVSpawnPlayer" \in Names
        /\ "SVSpawnMonster" \in Names /\ "SVSpawnItem" \in Names
        /\ "SVSpawnConstr" \in Names
    <2>1. /\ Messages[16] = "CLActionItem" /\ Messages[17] = "SVActionItem"
          /\ Messages[18] = "CLActionDuel" /\ Messages[19] = "SVActionDuel"
          /\ Messages[20] = "CLActionSpell" /\ Messages[21] = "SVActionSpell"
          /\ Messages[23] = "SVActionDeath" /\ Messages[24] = "SVSpawnPlayer"
          /\ Messages[26] = "SVSpawnMonster" /\ Messages[27] = "SVSpawnItem"
          /\ Messages[28] = "SVSpawnConstr"
      BY DEF Messages
    <2> QED
      BY <1>1, <2>1
  <1>4. /\ Typed("SVConnectionStatus", "player_uid", "uint")
        /\ Typed("SVPlayerConnected", "player_uid", "uint")
        /\ Typed("CLHeroPick", "player_uid", "uint")
        /\ Typed("SVHeroPick", "player_uid", "uint")
    BY <1>2 DEF Typed, MessagesTraits, SVConnectionStatus, SVPlayerConnected, CLHeroPick,
                SVHeroPick
  <1>5. /\ Typed("SVSpawnItem", "item_uid", "ushort")
        /\ Typed("SVSpawnPlayer", "player_uid", "uint")
        /\ Typed("SVSpawnConstr", "constr_uid", "ushort")
        /\ Typed("SVSpawnMonster", "monster_uid", "ushort")
    BY <1>3 DEF Typed, MessagesTraits, SVSpawnItem, SVSpawnPlayer, SVSpawnConstr,
                SVSpawnMonster, Joined
  <1>6. /\ Typed("SVActionDeath", "player_uid", "uint")
        /\ Typed("SVActionMove", "target_uid", "uint")
        /\ Typed("SVActionDuel", "target1_uid", "uint")
        /\ Typed("SVActionDuel", "target2_uid", "uint")
        /\ Typed("SVActionItem", "player_uid", "uint")
        /\ Typed("SVActionItem", "item_uid", "ushort")
        /\ Typed("SVActionSpell", "player_uid", "uint")
        /\ Typed("SVActionSpell", "spell_info", "table")
    BY <1>2, <1>3 DEF Typed, MessagesTraits, SVActionDeath, SVActionMove, SVActionDuel,
                      SVActionItem, SVActionSpell, Joined
  <1>7. /\ Typed("CLActionMove", "target_uid", "uint")
        /\ Typed("CLActionSpell", "player_uid", "uint")
        /\ Typed("CLActionDuel", "target1_uid", "uint")
        /\ Typed("CLActionDuel", "target2_uid", "uint")
        /\ Typed("CLActionItem", "player_uid", "uint")
        /\ Typed("CLActionItem", "item_uid", "ushort")
    BY <1>2, <1>3 DEF Typed, MessagesTraits, CLActionMove, CLActionSpell, CLActionDuel,
                      CLActionItem
  <1> QED
    BY <1>2, <1>4, <1>5, <1>6, <1>7

-----------------------------------------------------------------------------
(* The invariant.                                                          *)

\* No number is drawn twice in the lobby.
Distinct == \A i, j \in DOMAIN Draws : Draws[i] = Draws[j] => i = j

Key == Made("item", Blocks)
Constrs == {Made("constr", Blocks + i) : i \in 1 .. 3}
Monsters == {Made("monster", u) : u \in Blocks + 4 .. uidSeq - 1}

\* All that was ever named.
Objects == {Hero(p) : p \in Joining} \cup {Key} \cup Constrs \cup Monsters

\* A packet about objects of O.  While the sequence is at n its numbers are
\* read as theirs.
Good(O, n, packet) ==
    /\ \A f \in DOMAIN packet.about : packet.about[f] \in O
    /\ n <= USHORT => \A s \in Said(packet) : s.uid = s.object.uid

Players ==
    /\ Joining \subseteq Player
    /\ \A p \in Joining : \E i \in 1 .. Cardinality(Joining) : local[p] = Draws[i]
    /\ Distinct => \A p, q \in Joining : local[p] = local[q] => p = q

Progress ==
    /\ uidSeq \in Nat /\ uidSeq <= MaxObjects
    /\ stage \in {"lobby", "generating", "game", "crashed"}
    /\ stage # "lobby" => Joining = Player
    /\ stage \in {"lobby", "generating"} =>
         uidSeq = 0 /\ storage = {} /\ bag = {} /\ toServer = {}
    /\ stage \in {"game", "crashed"} => uidSeq >= Blocks + 4

\* There is one item, the key.
Things ==
    /\ storage \subseteq Objects
    /\ \A b \in bag : b.item = Key /\ Key \notin storage
    /\ \A b, c \in bag : b = c

\* Who is told that he is accepted is told his own number.
Welcome(packet) ==
    PayloadName(packet.message) = "SVConnectionStatus" =>
        \A p \in packet.to : p \in Joining /\ PayloadField(packet.message, "player_uid") = local[p]

Packets == \A packet \in toClients : Good(Objects, uidSeq, packet) /\ Welcome(packet)

Own ==
    /\ own = [p \in Player |-> own[p]]
    /\ \A p \in Player : own[p] = Null \/ (p \in Joining /\ own[p] = local[p])

\* A command names what it means.
Clear(c) ==
    \A f \in DOMAIN c.about :
        /\ c.about[f] \in Objects
        /\ uidSeq <= USHORT => PayloadField(c.message, f) = c.about[f].uid

Orders == \A c \in toServer : Clear(c)

Few ==
    /\ IsFiniteSet(toServer) /\ Cardinality(toServer) <= InFlight
    /\ IsFiniteSet(toClients) /\ Cardinality(toClients) <= InFlight

Meant == mistaken \in BOOLEAN /\ (Distinct => CommandsMeanIt)

Inv == Players /\ Progress /\ Things /\ Packets /\ Own /\ Orders /\ Few /\ Meant

-----------------------------------------------------------------------------
(* Objects and their numbers.                                              *)

LEMMA Numbers ==
    ASSUME Players, Progress
    PROVE  /\ \A p \in Joining : \E i \in DOMAIN Draws : local[p] = Draws[i]
           /\ \A p \in Joining : local[p] \in 0 .. UINT - 1 /\ local[p] > Blocks + 4
           /\ \A o \in Objects : o.uid \in 0 .. UINT - 1
  <1>1. Joining \in SUBSET Player /\ IsFiniteSet(Player)
    BY NamingAssumption DEF Players
  <1>2. Cardinality(Joining) <= Cardinality(Player) /\ IsFiniteSet(Joining)
    BY <1>1, FS_Subset
  <1>3. Cardinality(Joining) \in Nat /\ Cardinality(Player) \in Nat
    BY <1>1, <1>2, FS_CardinalityType
  <1>4. /\ Draws \in Seq(0 .. UINT - 1) /\ Len(Draws) = Cardinality(Player)
        /\ DOMAIN Draws = 1 .. Len(Draws)
        /\ \A i \in DOMAIN Draws : Draws[i] \in 0 .. UINT - 1 /\ Draws[i] > Blocks + 4
    <2>1. Draws \in Seq(0 .. UINT - 1)
      BY NamingAssumption
    <2>2. Draws \in [1 .. Len(Draws) -> 0 .. UINT - 1]
      BY <2>1, LenProperties
    <2> QED
      BY <2>1, <2>2, NamingAssumption
  <1>5. \A p \in Joining : \E i \in DOMAIN Draws : local[p] = Draws[i]
    BY <1>2, <1>3, <1>4 DEF Players
  <1>6. \A p \in Joining : local[p] \in 0 .. UINT - 1 /\ local[p] > Blocks + 4
    BY <1>4, <1>5
  <1>7. /\ UINT \in Nat /\ Blocks \in Nat /\ MaxObjects \in Blocks + 4 .. UINT - 1
        /\ uidSeq \in Nat /\ uidSeq <= MaxObjects
    BY NamingAssumption, WidthAssumption DEF Progress
  <1>8. \A o \in Objects : o.uid \in 0 .. UINT - 1
    <2>1. \A p \in Joining : Hero(p).uid \in 0 .. UINT - 1
      BY <1>6 DEF Hero
    <2>2. Key.uid \in 0 .. UINT - 1
      BY <1>7 DEF Key, Made
    <2>3. \A o \in Constrs : o.uid \in 0 .. UINT - 1
      BY <1>7 DEF Constrs, Made
    <2>4. \A o \in Monsters : o.uid \in 0 .. UINT - 1
      BY <1>7 DEF Monsters, Made
    <2> QED
      BY <2>1, <2>2, <2>3, <2>4 DEF Objects
  <1> QED
    BY <1>5, <1>6, <1>8

\* What the world made itself has a number below the sequence.
LEMMA Shorts ==
    ASSUME Progress, uidSeq >= Blocks + 4, uidSeq <= USHORT, NEW o \in Objects, o.kind # "hero"
    PROVE  o.uid \in 0 .. USHORT - 1
  <1>1. Blocks \in Nat /\ USHORT \in Nat /\ uidSeq \in Nat
    BY NamingAssumption, WidthAssumption DEF Progress
  <1>2. \A p \in Joining : Hero(p).kind = "hero"
    BY DEF Hero
  <1>3. Key.uid \in 0 .. USHORT - 1
    BY <1>1 DEF Key, Made
  <1>4. \A c \in Constrs : c.uid \in 0 .. USHORT - 1
    BY <1>1 DEF Constrs, Made
  <1>5. \A m \in Monsters : m.uid \in 0 .. USHORT - 1
    BY <1>1 DEF Monsters, Made
  <1> QED
    BY <1>2, <1>3, <1>4, <1>5 DEF Objects

LEMMA OneItem ==
    ASSUME NEW o \in Objects, o.kind = "item"
    PROVE  o = Key
  BY DEF Objects, Hero, Constrs, Monsters, Made

\* Until the sequence reaches the heroes no two objects have one number.
LEMMA UidsDiffer ==
    ASSUME Players, Progress, Distinct, \A i \in DOMAIN Draws : uidSeq <= Draws[i],
           NEW o \in Objects, NEW q \in Objects, o.uid = q.uid
    PROVE  o = q
  <1>1. Blocks \in Nat /\ uidSeq \in Nat
    BY NamingAssumption DEF Progress
  <1>2. \A p \in Joining : /\ Hero(p).uid = local[p] /\ local[p] \in Nat
                           /\ local[p] >= uidSeq /\ local[p] > Blocks + 4
    <2>1. \A p \in Joining : /\ local[p] \in 0 .. UINT - 1 /\ local[p] > Blocks + 4
                             /\ \E i \in DOMAIN Draws : local[p] = Draws[i]
      BY Numbers
    <2> QED
      BY <2>1, <1>1 DEF Hero
  <1>3. \A p, r \in Joining : Hero(p).uid = Hero(r).uid => Hero(p) = Hero(r)
    BY <1>2 DEF Players
  <1> DEFINE Rest == {Key} \cup Constrs \cup Monsters
  <1>4. \A e \in Rest : e.uid \in Nat /\ (e.uid <= Blocks + 3 \/ e.uid < uidSeq)
    BY <1>1 DEF Key, Constrs, Monsters, Made
  <1>5. \A d, e \in Rest : d.uid = e.uid => d = e
    BY <1>1 DEF Key, Constrs, Monsters, Made
  <1>6. o \in Rest \/ \E p \in Joining : o = Hero(p)
    BY DEF Objects
  <1>7. q \in Rest \/ \E p \in Joining : q = Hero(p)
    BY DEF Objects
  <1> HIDE DEF Rest
  <1>8. \A p \in Joining, e \in Rest : Hero(p).uid # e.uid
    BY <1>1, <1>2, <1>4
  <1> QED
    BY <1>3, <1>5, <1>6, <1>7, <1>8

-----------------------------------------------------------------------------
(* Events.                                                                 *)

LEMMA StaysGood ==
    ASSUME NEW O, NEW P, O \subseteq P, NEW m \in Nat, NEW n \in Nat, m <= n,
           NEW packet, Good(O, m, packet)
    PROVE  Good(P, n, packet)
  <1>1. n <= USHORT => m <= USHORT
    BY WidthAssumption
  <1> QED
    BY <1>1 DEF Good

LEMMA EventGood ==
    ASSUME NEW O, NEW n, NEW to, NEW name \in Names, NEW about, NEW rest,
           \A f \in DOMAIN about :
              /\ about[f] \in O /\ f # "enemy_id" /\ f \in DOMAIN MessagesTraits[name]
              /\ n <= USHORT => Cut(MessagesTraits[name][f], about[f].uid) = about[f].uid
    PROVE  /\ Good(O, n, EventTo(to, name, about, rest))
           /\ PayloadName(EventTo(to, name, about, rest).message) = name
  <1> DEFINE message == Telling(Null, name, about, rest)
             packet == EventTo(to, name, about, rest)
  <1>1. packet.message = message /\ packet.about = about
    BY DEF EventTo
  <1>2. /\ PayloadName(message) = name
        /\ \A f \in DOMAIN about \cap DOMAIN MessagesTraits[name] :
             PayloadField(message, f) = Cut(MessagesTraits[name][f], about[f].uid)
    BY TellingReads
  <1> HIDE DEF message, packet
  <1>3. ASSUME n <= USHORT, NEW s \in Said(packet) PROVE s.uid = s.object.uid
    <2>1. PICK f \in DOMAIN about : s = [object |-> about[f], uid |-> PayloadField(message, f)]
      BY <1>1, <1>3 DEF Said
    <2>2. PayloadField(message, f) = about[f].uid
      BY <1>2, <1>3, <2>1
    <2> QED
      BY <2>1, <2>2
  <1>4. Good(O, n, packet)
    BY <1>1, <1>3 DEF Good
  <1> QED
    BY <1>1, <1>2, <1>4 DEF packet

\* The enemy of an attack is read through the spell inside.
LEMMA AttackGood ==
    ASSUME NEW O, NEW n, NEW u \in O, NEW enemy \in O,
           NEW name \in {"MageAttack", "MageFreeze", "WarriorAttack", "MonsterAttack"},
           u.uid \in 0 .. UINT - 1, enemy.uid \in 0 .. UINT - 1
    PROVE  /\ Good(O, n, Attack(name, u, enemy))
           /\ PayloadName(Attack(name, u, enemy).message) = "SVActionSpell"
  <1>1. PICK k : /\ k = CHOOSE i \in DOMAIN Spells : Spells[i] = name
                 /\ k \in 1 .. 7 /\ Spells[k] = name /\ k \in DOMAIN Spells
    <2>1. DOMAIN Spells = 1 .. 7 /\ \E i \in DOMAIN Spells : Spells[i] = name
      BY DEF Spells
    <2> QED
      BY <2>1
  <1> DEFINE table == Create(SpellsTraits[name], [enemy_id |-> enemy.uid])
             spell == [spell_type |-> k, spell |-> table]
             info == Create(Spell, spell)
             rest == [spell_info |-> info]
             outer == [player_uid |-> u]
             message == Telling(Null, "SVActionSpell", outer, rest)
             about == [player_uid |-> u, enemy_id |-> enemy]
             packet == Attack(name, u, enemy)
  <1>2. packet = [to |-> Joining, message |-> message, about |-> about]
    BY <1>1 DEF Attack, Event, EventTo
  <1>3. /\ Typed("SVActionSpell", "player_uid", "uint")
        /\ Typed("SVActionSpell", "spell_info", "table")
    BY Types
  <1>4. /\ PayloadName(message) = "SVActionSpell"
        /\ PayloadField(message, "player_uid") = Cut("uint", u.uid)
        /\ PayloadField(message, "spell_info") = Cut("table", info)
    <2>1. "SVActionSpell" \in Names
      BY <1>3 DEF Typed
    <2>2. /\ PayloadName(message) = "SVActionSpell"
          /\ \A f \in DOMAIN outer \cap DOMAIN MessagesTraits["SVActionSpell"] :
               PayloadField(message, f) = Cut(MessagesTraits["SVActionSpell"][f], outer[f].uid)
          /\ \A f \in (DOMAIN rest \ DOMAIN outer) \cap DOMAIN MessagesTraits["SVActionSpell"] :
               PayloadField(message, f) = Cut(MessagesTraits["SVActionSpell"][f], rest[f])
      BY <2>1, TellingReads
    <2>3. /\ DOMAIN outer = {"player_uid"} /\ DOMAIN rest = {"spell_info"}
          /\ outer["player_uid"] = u /\ rest["spell_info"] = info
      OBVIOUS
    <2> HIDE DEF outer, rest, message
    <2> QED
      BY <1>3, <2>2, <2>3 DEF Typed
  <1>5. Field(Spell, info, "spell_type") = k /\ Field(Spell, info, "spell") = table
    <2>1. /\ DOMAIN Spell = {"spell_type", "spell"}
          /\ Spell["spell_type"] = "byte" /\ Spell["spell"] = "union"
      BY DEF Spell
    <2>2. /\ DOMAIN spell = {"spell_type", "spell"}
          /\ spell["spell_type"] = k /\ spell["spell"] = table
      OBVIOUS
    <2>3. Cut("byte", k) = k /\ Cut("union", table) = table
      <3>1. k \in 0 .. 31
        BY <1>1
      <3> QED
        BY <3>1, NumbersFit DEF Cut, Scalar
    <2> HIDE DEF spell, table
    <2>4. \A f \in DOMAIN Spell : Field(Spell, Create(Spell, spell), f) =
            IF f \in DOMAIN spell THEN Cut(Spell[f], spell[f]) ELSE Default(Spell[f])
      BY FieldReads
    <2> QED
      BY <2>1, <2>2, <2>3, <2>4
  <1>6. Field(SpellsTraits[name], table, "enemy_id") = enemy.uid
    <2>1. /\ "enemy_id" \in DOMAIN SpellsTraits[name]
          /\ SpellsTraits[name]["enemy_id"] = "uint"
      BY DEF SpellsTraits, MageAttack, MageFreeze, WarriorAttack, MonsterAttack
    <2>2. Cut("uint", enemy.uid) = enemy.uid
      BY NumbersFit
    <2> QED
      BY <2>1, <2>2, FieldReads
  <1> HIDE DEF table, info, message, packet
  <1>7. SpellField(message, "enemy_id") = enemy.uid
    <2>1. PayloadField(message, "spell_info") = info
      BY <1>4 DEF Cut, Scalar
    <2>2. Member(Spells, k) = name
      BY <1>1 DEF Member
    <2> QED
      BY <1>5, <1>6, <2>1, <2>2 DEF SpellField
  <1>8. Cut("uint", u.uid) = u.uid
    BY NumbersFit
  <1>9. packet.message = message /\ packet.about = about
    BY <1>2
  <1>10. DOMAIN about = {"player_uid", "enemy_id"}
    OBVIOUS
  <1>11. about["player_uid"] = u /\ about["enemy_id"] = enemy
    OBVIOUS
  <1> HIDE DEF about
  <1>12. ASSUME NEW s \in Said(packet) PROVE s.uid = s.object.uid
    <2>1. PICK f \in DOMAIN about :
            s = [object |-> about[f],
                 uid |-> IF f = "enemy_id" THEN SpellField(message, f)
                         ELSE PayloadField(message, f)]
      BY <1>9, <1>12 DEF Said
    <2>2. CASE f = "enemy_id"
      BY <1>7, <1>11, <2>1, <2>2
    <2>3. CASE f = "player_uid"
      BY <1>4, <1>8, <1>11, <2>1, <2>3
    <2> QED
      BY <1>10, <2>2, <2>3
  <1> QED
    BY <1>4, <1>9, <1>10, <1>11, <1>12 DEF Good, packet

\* A packet of the type called name, about objects of O.
Tells(O, n, name, packet) == Good(O, n, packet) /\ PayloadName(packet.message) = name

LEMMA EventsGood ==
    ASSUME NEW O, NEW n, NEW to, NEW rest, NEW o \in O, NEW q \in O,
           o.uid \in 0 .. UINT - 1, q.uid \in 0 .. UINT - 1
    PROVE  /\ Tells(O, n, "SVConnectionStatus",
                    EventTo(to, "SVConnectionStatus", [player_uid |-> o], rest))
           /\ Tells(O, n, "SVPlayerConnected",
                    EventTo(to, "SVPlayerConnected", [player_uid |-> o], rest))
           /\ Tells(O, n, "SVHeroPick", EventTo(to, "SVHeroPick", [player_uid |-> o], rest))
           /\ Tells(O, n, "SVSpawnPlayer",
                    EventTo(to, "SVSpawnPlayer", [player_uid |-> o], rest))
           /\ Tells(O, n, "SVActionDeath",
                    EventTo(to, "SVActionDeath", [player_uid |-> o], rest))
           /\ Tells(O, n, "SVActionMove", EventTo(to, "SVActionMove", [target_uid |-> o], rest))
           /\ Tells(O, n, "SVActionDuel",
                    EventTo(to, "SVActionDuel", [target1_uid |-> o, target2_uid |-> q], rest))
           /\ (n <= USHORT => q.uid \in 0 .. USHORT - 1) =>
                /\ Tells(O, n, "SVActionItem",
                         EventTo(to, "SVActionItem", [player_uid |-> o, item_uid |-> q], rest))
                /\ Tells(O, n, "SVSpawnItem",
                         EventTo(to, "SVSpawnItem", [item_uid |-> q], rest))
                /\ Tells(O, n, "SVSpawnConstr",
                         EventTo(to, "SVSpawnConstr", [constr_uid |-> q], rest))
                /\ Tells(O, n, "SVSpawnMonster",
                         EventTo(to, "SVSpawnMonster", [monster_uid |-> q], rest))
  <1>1. Cut("uint", o.uid) = o.uid /\ Cut("uint", q.uid) = q.uid
    BY NumbersFit
  <1>2. ASSUME NEW name, NEW f, Typed(name, f, "uint"), f # "enemy_id",
               NEW about, DOMAIN about = {f}, about[f] = o
        PROVE  Tells(O, n, name, EventTo(to, name, about, rest))
    BY <1>1, <1>2, EventGood DEF Tells, Typed
  <1>3. ASSUME NEW name, NEW f, Typed(name, f, "ushort"), f # "enemy_id",
               NEW about, DOMAIN about = {f}, about[f] = q,
               n <= USHORT => q.uid \in 0 .. USHORT - 1
        PROVE  Tells(O, n, name, EventTo(to, name, about, rest))
    <2>1. n <= USHORT => Cut("ushort", q.uid) = q.uid
      BY <1>3, NumbersFit
    <2> QED
      BY <1>3, <2>1, EventGood DEF Tells, Typed
  <1>4. ASSUME NEW about, DOMAIN about = {"player_uid"}, about["player_uid"] = o
        PROVE  \A name \in {"SVConnectionStatus", "SVPlayerConnected", "SVHeroPick",
                            "SVSpawnPlayer", "SVActionDeath"} :
                 Tells(O, n, name, EventTo(to, name, about, rest))
    BY <1>2, <1>4, Types
  <1>5. Tells(O, n, "SVActionMove", EventTo(to, "SVActionMove", [target_uid |-> o], rest))
    <2>1. ASSUME NEW about, DOMAIN about = {"target_uid"}, about["target_uid"] = o
          PROVE  Tells(O, n, "SVActionMove", EventTo(to, "SVActionMove", about, rest))
      BY <1>2, <2>1, Types
    <2> QED
      BY <2>1
  <1>6. Tells(O, n, "SVActionDuel",
              EventTo(to, "SVActionDuel", [target1_uid |-> o, target2_uid |-> q], rest))
    <2> DEFINE about == [target1_uid |-> o, target2_uid |-> q]
    <2>1. /\ DOMAIN about = {"target1_uid", "target2_uid"}
          /\ about["target1_uid"] = o /\ about["target2_uid"] = q
      OBVIOUS
    <2> HIDE DEF about
    <2>2. /\ Typed("SVActionDuel", "target1_uid", "uint")
          /\ Typed("SVActionDuel", "target2_uid", "uint")
      BY Types
    <2>3. Tells(O, n, "SVActionDuel", EventTo(to, "SVActionDuel", about, rest))
      BY <1>1, <2>1, <2>2, EventGood DEF Tells, Typed
    <2> QED
      BY <2>3 DEF about
  <1>7. ASSUME n <= USHORT => q.uid \in 0 .. USHORT - 1
        PROVE  Tells(O, n, "SVActionItem",
                     EventTo(to, "SVActionItem", [player_uid |-> o, item_uid |-> q], rest))
    <2> DEFINE about == [player_uid |-> o, item_uid |-> q]
    <2>1. /\ DOMAIN about = {"player_uid", "item_uid"}
          /\ about["player_uid"] = o /\ about["item_uid"] = q
      OBVIOUS
    <2> HIDE DEF about
    <2>2. /\ Typed("SVActionItem", "player_uid", "uint")
          /\ Typed("SVActionItem", "item_uid", "ushort")
      BY Types
    <2>3. n <= USHORT => Cut("ushort", q.uid) = q.uid
      BY <1>7, NumbersFit
    <2>4. Tells(O, n, "SVActionItem", EventTo(to, "SVActionItem", about, rest))
      BY <1>1, <2>1, <2>2, <2>3, EventGood DEF Tells, Typed
    <2> QED
      BY <2>4 DEF about
  <1>8. ASSUME n <= USHORT => q.uid \in 0 .. USHORT - 1, NEW about
        PROVE  /\ DOMAIN about = {"item_uid"} /\ about["item_uid"] = q =>
                    Tells(O, n, "SVSpawnItem", EventTo(to, "SVSpawnItem", about, rest))
               /\ DOMAIN about = {"constr_uid"} /\ about["constr_uid"] = q =>
                    Tells(O, n, "SVSpawnConstr", EventTo(to, "SVSpawnConstr", about, rest))
               /\ DOMAIN about = {"monster_uid"} /\ about["monster_uid"] = q =>
                    Tells(O, n, "SVSpawnMonster", EventTo(to, "SVSpawnMonster", about, rest))
    BY <1>3, <1>8, Types
  <1>9. ASSUME n <= USHORT => q.uid \in 0 .. USHORT - 1
        PROVE  /\ Tells(O, n, "SVSpawnItem", EventTo(to, "SVSpawnItem", [item_uid |-> q], rest))
               /\ Tells(O, n, "SVSpawnConstr",
                        EventTo(to, "SVSpawnConstr", [constr_uid |-> q], rest))
               /\ Tells(O, n, "SVSpawnMonster",
                        EventTo(to, "SVSpawnMonster", [monster_uid |-> q], rest))
    BY <1>8, <1>9
  <1>10. /\ Tells(O, n, "SVConnectionStatus",
                  EventTo(to, "SVConnectionStatus", [player_uid |-> o], rest))
         /\ Tells(O, n, "SVPlayerConnected",
                  EventTo(to, "SVPlayerConnected", [player_uid |-> o], rest))
         /\ Tells(O, n, "SVHeroPick", EventTo(to, "SVHeroPick", [player_uid |-> o], rest))
         /\ Tells(O, n, "SVSpawnPlayer", EventTo(to, "SVSpawnPlayer", [player_uid |-> o], rest))
         /\ Tells(O, n, "SVActionDeath", EventTo(to, "SVActionDeath", [player_uid |-> o], rest))
    BY <1>4
  <1> QED
    BY <1>5, <1>6, <1>7, <1>9, <1>10

\* Messages that name nobody.
LEMMA NamelessGood ==
    ASSUME NEW O, NEW n, NEW to, NEW rest, NEW name \in {"SVGenerateMap", "SVGameStart"}
    PROVE  Tells(O, n, name, EventTo(to, name, NoFields, rest))
  <1>1. DOMAIN NoFields = {}
    BY DEF NoFields
  <1>2. name \in Names
    BY Types
  <1>3. ASSUME NEW about, DOMAIN about = {}
        PROVE  Tells(O, n, name, EventTo(to, name, about, rest))
    BY <1>2, <1>3, EventGood DEF Tells
  <1> QED
    BY <1>1, <1>3

-----------------------------------------------------------------------------
(* Steps.                                                                  *)

LEMMA CarriedFits ==
    ASSUME NEW net, IsFiniteSet(net), NEW new, NEW later \in Carried(net, new)
    PROVE  /\ later \subseteq net \cup new
           /\ IsFiniteSet(later) /\ Cardinality(later) <= InFlight
  <1>1. Cardinality(later) <= InFlight
    BY DEF Carried
  <1>2. later \in SUBSET net \/ \E old \in SUBSET net, n \in new : later = old \cup {n}
    BY DEF Carried
  <1>3. CASE later \in SUBSET net
    <2>1. IsFiniteSet(later)
      BY <1>3, FS_Subset
    <2> QED
      BY <1>1, <1>3, <2>1
  <1>4. ASSUME NEW old \in SUBSET net, NEW n \in new, later = old \cup {n}
        PROVE  later \subseteq net \cup new /\ IsFiniteSet(later)
    <2>1. IsFiniteSet(old)
      BY FS_Subset
    <2>2. IsFiniteSet(old \cup {n})
      BY <2>1, FS_AddElement
    <2> QED
      BY <1>4, <2>2
  <1> QED
    BY <1>1, <1>2, <1>3, <1>4

\* What was said of an object stays true while the names of objects are kept.
LEMMA PacketsStay ==
    ASSUME Packets, NEW events, toClients' \subseteq toClients \cup events,
           Objects \subseteq Objects',
           uidSeq \in Nat, uidSeq' \in Nat, uidSeq <= uidSeq',
           \A p \in Joining : p \in Joining' /\ local'[p] = local[p],
           \A e \in events : Good(Objects', uidSeq', e) /\ Welcome(e)'
    PROVE  Packets'
  <1>1. ASSUME NEW packet \in toClients'
        PROVE  Good(Objects', uidSeq', packet) /\ Welcome(packet)'
    <2>1. CASE packet \in events
      BY <2>1
    <2>2. CASE packet \in toClients
      <3>1. Good(Objects, uidSeq, packet) /\ Welcome(packet)
        BY <2>2 DEF Packets
      <3>2. Good(Objects', uidSeq', packet)
        BY <3>1, StaysGood
      <3>3. Welcome(packet)'
        BY <3>1 DEF Welcome
      <3> QED
        BY <3>2, <3>3
    <2> QED
      BY <1>1, <2>1, <2>2
  <1> QED
    BY <1>1 DEF Packets

\* While nobody joins and nothing is made the names are the same.
LEMMA NamesStay ==
    ASSUME UNCHANGED <<local, uidSeq>>
    PROVE  /\ Objects' = Objects /\ Joining' = Joining
           /\ \A p : Hero(p)' = Hero(p)
           /\ Players => Players'
           /\ Own /\ UNCHANGED own => Own'
  <1>1. Joining' = Joining /\ \A p : Hero(p)' = Hero(p)
    BY DEF Joining, Hero
  <1>2. Objects' = Objects
    BY <1>1 DEF Objects, Monsters
  <1>3. Players => Players'
    BY <1>1 DEF Players
  <1>4. Own /\ UNCHANGED own => Own'
    BY <1>1 DEF Own
  <1> QED
    BY <1>1, <1>2, <1>3, <1>4

\* Events of the game leave what was said as it is.
LEMMA ToldStay ==
    ASSUME Inv, UNCHANGED <<local, uidSeq>>, NEW events, toClients' \in Carried(toClients, events),
           \A e \in events : /\ Good(Objects, uidSeq, e)
                             /\ PayloadName(e.message) # "SVConnectionStatus"
    PROVE  Packets' /\ IsFiniteSet(toClients') /\ Cardinality(toClients') <= InFlight
  <1>1. /\ toClients' \subseteq toClients \cup events
        /\ IsFiniteSet(toClients') /\ Cardinality(toClients') <= InFlight
    BY CarriedFits DEF Inv, Few
  <1>2. Objects' = Objects /\ Joining' = Joining
    BY NamesStay
  <1>3. \A e \in events : Good(Objects', uidSeq', e) /\ Welcome(e)'
    BY <1>2 DEF Welcome
  <1>4. uidSeq \in Nat /\ uidSeq' \in Nat /\ uidSeq <= uidSeq'
    BY DEF Inv, Progress
  <1>5. Packets'
    BY <1>1, <1>2, <1>3, <1>4, PacketsStay DEF Inv
  <1> QED
    BY <1>1, <1>5

LEMMA DrawsFit ==
    /\ DOMAIN Draws = 1 .. Cardinality(Player)
    /\ \A i \in DOMAIN Draws : Draws[i] \in 0 .. UINT - 1
  <1>1. Draws \in Seq(0 .. UINT - 1)
    BY NamingAssumption
  <1>2. Draws \in [1 .. Len(Draws) -> 0 .. UINT - 1]
    BY <1>1, LenProperties
  <1> QED
    BY <1>2, NamingAssumption

LEMMA ConnectKeeps ==
    ASSUME Inv, NEW p \in Player, Connect(p)
    PROVE  Inv'
  <1> DEFINE n == Cardinality(Joining)
  <1>1. /\ stage = "lobby" /\ p \notin Joining /\ uidSeq = 0
        /\ local' = Joined([q \in {p} |-> Draws[n + 1]], local)
        /\ UNCHANGED <<stage, uidSeq, storage, bag, toServer, own, maps, mistaken>>
    BY DEF Connect, Inv, Progress
  <1>2. /\ Joining' = Joining \cup {p} /\ local'[p] = Draws[n + 1]
        /\ \A q \in Joining : local'[q] = local[q]
    BY <1>1 DEF Joining, Joined
  <1>3. /\ n \in Nat /\ Cardinality(Joining') = n + 1
        /\ n + 1 \in DOMAIN Draws /\ 1 .. n \subseteq DOMAIN Draws
    <2>1. Joining' \in SUBSET Player /\ Joining \in SUBSET Player /\ IsFiniteSet(Player)
      BY <1>2, NamingAssumption DEF Inv, Players
    <2>2. IsFiniteSet(Joining) /\ IsFiniteSet(Joining')
      BY <2>1, FS_Subset
    <2>3. Cardinality(Joining') <= Cardinality(Player)
      BY <2>1, FS_Subset
    <2>4. n \in Nat /\ Cardinality(Player) \in Nat
      BY <2>1, <2>2, FS_CardinalityType
    <2>5. Cardinality(Joining \cup {p}) = n + 1
      BY <1>1, <2>2, FS_AddElement
    <2> QED
      BY <1>2, <2>3, <2>4, <2>5, DrawsFit
  <1> HIDE DEF n
  <1>4. Players'
    <2>1. (Joining \subseteq Player)'
      BY <1>2 DEF Inv, Players
    <2>2. \A q \in Joining' : \E i \in 1 .. n + 1 :
             local'[q] = Draws[i] /\ (q # p => i <= n)
      <3>1. \A q \in Joining : \E i \in 1 .. n : local[q] = Draws[i]
        BY DEF Inv, Players, n
      <3> QED
        BY <1>2, <1>3, <3>1
    <2>3. ASSUME Distinct, NEW q \in Joining', NEW r \in Joining', local'[q] = local'[r]
          PROVE  q = r
      <3>1. \A s \in Joining : \E i \in 1 .. n : local[s] = Draws[i]
        BY DEF Inv, Players, n
      <3>2. \A s \in Joining : local[s] # Draws[n + 1]
        BY <1>3, <2>3, <3>1, DrawsFit DEF Distinct
      <3>3. \A s, t \in Joining : local[s] = local[t] => s = t
        BY <2>3 DEF Inv, Players
      <3> QED
        BY <1>2, <2>3, <3>2, <3>3
    <2> QED
      BY <1>3, <2>1, <2>2, <2>3 DEF Players
  <1>5. Objects \subseteq Objects'
    <2>1. \A q \in Joining : q \in Joining' /\ Hero(q)' = Hero(q)
      BY <1>2 DEF Hero
    <2>2. Monsters' = Monsters
      BY <1>1 DEF Monsters
    <2> QED
      BY <2>1, <2>2 DEF Objects
  <1>6. \A q \in Joining' : Hero(q)' \in Objects' /\ Hero(q)'.uid \in 0 .. UINT - 1
    <2>1. \A q \in Joining' : \E i \in DOMAIN Draws : local'[q] = Draws[i]
      BY <1>2, <1>3, Numbers DEF Inv
    <2>2. \A q \in Joining' : local'[q] \in 0 .. UINT - 1
      BY <2>1, DrawsFit
    <2> QED
      BY <2>2 DEF Objects, Hero
  <1>7. PICK uids, all : uids = local' /\ all = Joining'
    OBVIOUS
  <1> DEFINE hero(q) == [kind |-> "hero", uid |-> uids[q], of |-> q]
             status == EventTo({p}, "SVConnectionStatus", [player_uid |-> hero(p)],
                               [status |-> ConnectionStatus.ACCEPTED])
             connected(to, q) == EventTo(to, "SVPlayerConnected", [player_uid |-> hero(q)],
                                         [nickname |-> q])
             events == {status} \cup {connected({p}, q) : q \in all} \cup {connected(all, p)}
  <1>8. toClients' \in Carried(toClients, events) /\ \A q : hero(q) = Hero(q)'
    <2> DEFINE now(q) == [kind |-> "hero", uid |-> local'[q], of |-> q]
               told(to, q) == EventTo(to, "SVPlayerConnected", [player_uid |-> now(q)],
                                      [nickname |-> q])
               said == EventTo({p}, "SVConnectionStatus", [player_uid |-> now(p)],
                               [status |-> ConnectionStatus.ACCEPTED])
               sent == {said} \cup {told({p}, q) : q \in Joining'} \cup {told(Joining', p)}
    <2>1. toClients' \in Carried(toClients, sent)
      BY Zenon DEF Connect, Tell
    <2>2. \A q : now(q) = hero(q)
      BY <1>7
    <2>3. {told({p}, q) : q \in Joining'} = {connected({p}, q) : q \in all}
      BY <1>7, <2>2
    <2>4. told(Joining', p) = connected(all, p)
      BY <1>7
    <2>5. said = status
      BY <2>2
    <2> HIDE DEF now, told, said, hero, status, connected
    <2>6. sent = events
      BY <2>3, <2>4, <2>5
    <2> HIDE DEF sent, events
    <2> toClients' \in Carried(toClients, events)
      BY <2>1, <2>6
    <2>7. \A q : hero(q) = Hero(q)'
      BY <1>7 DEF Hero, hero
    <2> QED
      BY <2>7
  <1>9. /\ Tells(Objects', uidSeq', "SVConnectionStatus", status)
        /\ \A to, q : q \in all =>
             Tells(Objects', uidSeq', "SVPlayerConnected", connected(to, q))
    <2>1. \A q \in all : hero(q) \in Objects' /\ hero(q).uid \in 0 .. UINT - 1
      BY <1>6, <1>7, <1>8
    <2> HIDE DEF hero
    <2>2. p \in all
      BY <1>2, <1>7
    <2> QED
      BY <2>1, <2>2, EventsGood
  <1>10. Welcome(status)'
    <2>1. status.to = {p} /\ status.about = [player_uid |-> hero(p)]
      BY DEF EventTo
    <2>2. hero(p).uid = local'[p] /\ p \in Joining'
      BY <1>2, <1>7
    <2> HIDE DEF hero, status
    <2>3. [object |-> hero(p), uid |-> PayloadField(status.message, "player_uid")] \in Said(status)
      <3>1. /\ DOMAIN status.about = {"player_uid"} /\ status.about["player_uid"] = hero(p)
            /\ "player_uid" # "enemy_id"
        BY <2>1
      <3> QED
        BY <3>1 DEF Said
    <2>4. uidSeq' <= USHORT
      BY <1>1, WidthAssumption
    <2>5. PayloadField(status.message, "player_uid") = hero(p).uid
      BY <1>9, <2>3, <2>4 DEF Tells, Good
    <2> QED
      BY <2>1, <2>2, <2>5 DEF Welcome
  <1> HIDE DEF status, connected, hero
  <1>11. \A e \in events : Good(Objects', uidSeq', e) /\ Welcome(e)'
    <2>1. ASSUME NEW to, NEW q \in all PROVE Welcome(connected(to, q))'
      <3>1. PayloadName(connected(to, q).message) = "SVPlayerConnected"
        BY <1>9 DEF Tells
      <3> QED
        BY <3>1 DEF Welcome
    <2>2. p \in all
      BY <1>2, <1>7
    <2> QED
      BY <1>9, <1>10, <2>1, <2>2 DEF Tells
  <1> HIDE DEF events
  <1>12. /\ toClients' \subseteq toClients \cup events
         /\ IsFiniteSet(toClients') /\ Cardinality(toClients') <= InFlight
    BY <1>8, CarriedFits DEF Inv, Few
  <1>13. Packets'
    <2>1. uidSeq \in Nat /\ uidSeq' \in Nat /\ uidSeq <= uidSeq'
      BY <1>1
    <2> QED
      BY <1>2, <1>5, <1>11, <1>12, <2>1, PacketsStay DEF Inv
  <1>14. Progress'
    BY <1>1 DEF Inv, Progress
  <1>15. Things' /\ Orders'
    BY <1>1 DEF Inv, Progress, Things, Orders, Clear
  <1>16. Own'
    BY <1>1, <1>2 DEF Inv, Own
  <1>17. Few' /\ Meant'
    BY <1>1, <1>12 DEF Inv, Few, Meant, CommandsMeanIt
  <1> QED
    BY <1>4, <1>13, <1>14, <1>15, <1>16, <1>17 DEF Inv

\* What is stored has a number, and one below the sequence unless a hero's.
LEMMA UidsFit ==
    ASSUME Inv
    PROVE  /\ \A o \in Objects : o.uid \in 0 .. UINT - 1
           /\ stage \in {"game", "crashed"} =>
                \A o \in Objects :
                  o.kind # "hero" => (uidSeq <= USHORT => o.uid \in 0 .. USHORT - 1)
           /\ UnitsStored \subseteq Objects /\ storage \subseteq Objects
  <1>1. \A o \in Objects : o.uid \in 0 .. UINT - 1
    BY Numbers DEF Inv
  <1>2. ASSUME stage \in {"game", "crashed"}, NEW o \in Objects, o.kind # "hero",
               uidSeq <= USHORT
        PROVE  o.uid \in 0 .. USHORT - 1
    <2>1. Progress /\ uidSeq >= Blocks + 4
      BY <1>2 DEF Inv, Progress
    <2> QED
      BY <1>2, <2>1, Shorts
  <1>3. UnitsStored \subseteq Objects /\ storage \subseteq Objects
    BY DEF UnitsStored, Inv, Things
  <1> QED
    BY <1>1, <1>2, <1>3

\* A step that joins nobody, makes nothing, reads nothing and only tells the
\* clients of objects there are.
LEMMA TellingKeeps ==
    ASSUME Inv, UNCHANGED <<local, uidSeq, toServer, own, mistaken>>,
           NEW events, toClients' \in Carried(toClients, events),
           \A e \in events : /\ Good(Objects, uidSeq, e)
                             /\ PayloadName(e.message) # "SVConnectionStatus"
    PROVE  Players' /\ Packets' /\ Own' /\ Orders' /\ Few' /\ Meant' /\ Objects' = Objects
  <1>1. /\ Objects' = Objects /\ Joining' = Joining
        /\ Players' /\ Own'
    BY NamesStay DEF Inv
  <1>2. Packets' /\ IsFiniteSet(toClients') /\ Cardinality(toClients') <= InFlight
    BY ToldStay
  <1>3. Few'
    BY <1>2 DEF Inv, Few
  <1>4. Orders'
    BY <1>1 DEF Inv, Orders, Clear
  <1>5. Meant'
    BY DEF Inv, Meant, CommandsMeanIt
  <1> QED
    BY <1>1, <1>2, <1>3, <1>4, <1>5

LEMMA PickHeroKeeps ==
    ASSUME Inv, NEW p \in Player, NEW hero, PickHero(p, hero)
    PROVE  Inv'
  <1> DEFINE pick == Telling(p, "CLHeroPick", [player_uid |-> Hero(p)], [hero_type |-> hero])
             named == {q \in Joining : local[q] = PayloadField(pick, "player_uid")}
             event(q) == Event("SVHeroPick", [player_uid |-> Hero(q)],
                               [hero_type |-> PayloadField(pick, "hero_type")])
             events == {event(q) : q \in named}
  <1>1. /\ toClients' \in Carried(toClients, events)
        /\ UNCHANGED <<local, stage, uidSeq, storage, bag, toServer, own, maps, mistaken>>
    BY DEF PickHero, Tell
  <1>2. ASSUME NEW q \in Joining
        PROVE  Tells(Objects, uidSeq, "SVHeroPick", event(q))
    <2>1. Hero(q) \in Objects
      BY DEF Objects
    <2>2. Hero(q).uid \in 0 .. UINT - 1
      BY <2>1, UidsFit
    <2> QED
      BY <2>1, <2>2, EventsGood DEF Event
  <1> HIDE DEF event
  <1>3. \A e \in events : /\ Good(Objects, uidSeq, e)
                          /\ PayloadName(e.message) # "SVConnectionStatus"
    BY <1>2 DEF Tells
  <1> HIDE DEF events
  <1>4. Players' /\ Packets' /\ Own' /\ Orders' /\ Few' /\ Meant' /\ Objects' = Objects
    BY <1>1, <1>3, TellingKeeps
  <1>5. Progress' /\ Things'
    <2>1. Joining' = Joining
      BY <1>1 DEF Joining
    <2> QED
      BY <1>1, <1>4, <2>1 DEF Inv, Progress, Things
  <1> QED
    BY <1>4, <1>5 DEF Inv

LEMMA GenerateKeeps ==
    ASSUME Inv, Generate
    PROVE  Inv'
  <1> DEFINE event == Event("SVGenerateMap", NoFields, Settings)
  <1>1. /\ stage = "lobby" /\ Joining = Player /\ stage' = "generating"
        /\ toClients' \in Carried(toClients, {event})
        /\ UNCHANGED <<local, uidSeq, storage, bag, toServer, own, maps, mistaken>>
    BY DEF Generate, Tell
  <1>2. Tells(Objects, uidSeq, "SVGenerateMap", event)
    BY NamelessGood DEF Event
  <1> HIDE DEF event
  <1>3. Players' /\ Packets' /\ Own' /\ Orders' /\ Few' /\ Meant' /\ Objects' = Objects
    BY <1>1, <1>2, TellingKeeps DEF Tells
  <1>4. Progress' /\ Things'
    <2>1. Joining' = Joining
      BY <1>1 DEF Joining
    <2> QED
      BY <1>1, <1>3, <2>1 DEF Inv, Progress, Things
  <1> QED
    BY <1>3, <1>4 DEF Inv

LEMMA DiesKeeps ==
    ASSUME Inv, NEW u \in UnitsStored, Dies(u)
    PROVE  Inv'
  <1> DEFINE event == Event("SVActionDeath", [player_uid |-> u], NoFields)
  <1>1. /\ stage = "game" /\ toClients' \in Carried(toClients, {event})
        /\ storage' = (storage \ {h \in {u} : h.kind = "hero"}) \cup {b.item : b \in Bag(u)}
        /\ bag' = bag \ Bag(u)
        /\ UNCHANGED <<local, stage, uidSeq, toServer, own, maps, mistaken>>
    BY DEF Dies, Tell
  <1>2. Tells(Objects, uidSeq, "SVActionDeath", event)
    <2>1. u \in Objects /\ u.uid \in 0 .. UINT - 1
      BY UidsFit
    <2> QED
      BY <2>1, EventsGood DEF Event
  <1> HIDE DEF event
  <1>3. Players' /\ Packets' /\ Own' /\ Orders' /\ Few' /\ Meant' /\ Objects' = Objects
    BY <1>1, <1>2, TellingKeeps DEF Tells
  <1>4. Progress'
    <2>1. Joining' = Joining
      BY <1>1 DEF Joining
    <2> QED
      BY <1>1, <2>1 DEF Inv, Progress
  <1>5. Things'
    <2>1. Bag(u) \subseteq bag /\ \A b \in bag : b.item = Key /\ Key \in Objects
      BY DEF Bag, Inv, Things, Objects
    <2>2. storage' \subseteq Objects'
      BY <1>1, <1>3, <2>1 DEF Inv, Things
    <2>3. \A b \in bag' : b \in bag /\ Bag(u) = {}
      BY <1>1, <2>1 DEF Inv, Things
    <2>4. Key' = Key
      BY DEF Key, Made
    <2>5. \A b \in bag' : b.item = Key' /\ Key' \notin storage'
      BY <1>1, <2>3, <2>4 DEF Inv, Things
    <2>6. \A b, c \in bag' : b = c
      BY <2>3 DEF Inv, Things
    <2> QED
      BY <2>2, <2>5, <2>6 DEF Things
  <1> QED
    BY <1>3, <1>4, <1>5 DEF Inv

LEMMA ReturnsKeeps ==
    ASSUME Inv, NEW p \in Player, Returns(p)
    PROVE  Inv'
  <1> DEFINE event == Event("SVSpawnPlayer", [player_uid |-> Hero(p)], NoFields)
  <1>1. /\ stage = "game" /\ toClients' \in Carried(toClients, {event})
        /\ storage' = storage \cup {Hero(p)}
        /\ UNCHANGED <<local, stage, uidSeq, bag, toServer, own, maps, mistaken>>
    BY DEF Returns, Tell
  <1>2. Joining = Player /\ Hero(p) \in Objects
    BY <1>1 DEF Inv, Progress, Objects
  <1>3. Tells(Objects, uidSeq, "SVSpawnPlayer", event)
    <2>1. Hero(p).uid \in 0 .. UINT - 1
      BY <1>2, UidsFit
    <2> QED
      BY <1>2, <2>1, EventsGood DEF Event
  <1> HIDE DEF event
  <1>4. Players' /\ Packets' /\ Own' /\ Orders' /\ Few' /\ Meant' /\ Objects' = Objects
    BY <1>1, <1>3, TellingKeeps DEF Tells
  <1>5. Progress'
    <2>1. Joining' = Joining
      BY <1>1 DEF Joining
    <2> QED
      BY <1>1, <2>1 DEF Inv, Progress
  <1>6. Things'
    <2>1. Hero(p) # Key
      BY DEF Hero, Key, Made
    <2> QED
      BY <1>1, <1>2, <1>4, <2>1 DEF Inv, Things
  <1> QED
    BY <1>4, <1>5, <1>6 DEF Inv

LEMMA MonsterActsKeeps ==
    ASSUME Inv, NEW m, NEW u, MonsterActs(m, u)
    PROVE  Inv'
  <1> DEFINE move == Event("SVActionMove", [target_uid |-> m], NoFields)
             duel == Event("SVActionDuel", [target1_uid |-> m, target2_uid |-> u],
                           [act_type |-> ActionDuelType.STARTED])
             attack == Attack("MonsterAttack", m, u)
  <1>1. /\ toClients' \in Carried(toClients, {move, duel, attack})
        /\ {m, u} \subseteq UnitsStored
        /\ UNCHANGED <<local, stage, uidSeq, storage, bag, toServer, own, maps, mistaken>>
    BY DEF MonsterActs, Tell
  <1>2. /\ m \in Objects /\ m.uid \in 0 .. UINT - 1
        /\ u \in Objects /\ u.uid \in 0 .. UINT - 1
    BY <1>1, UidsFit
  <1>3. /\ Tells(Objects, uidSeq, "SVActionMove", move)
        /\ Tells(Objects, uidSeq, "SVActionDuel", duel)
    BY <1>2, EventsGood DEF Event
  <1>4. Tells(Objects, uidSeq, "SVActionSpell", attack)
    BY <1>2, AttackGood DEF Tells
  <1> HIDE DEF move, duel, attack
  <1>5. Players' /\ Packets' /\ Own' /\ Orders' /\ Few' /\ Meant' /\ Objects' = Objects
    BY <1>1, <1>3, <1>4, TellingKeeps DEF Tells
  <1>6. Progress' /\ Things'
    <2>1. Joining' = Joining
      BY <1>1 DEF Joining
    <2> QED
      BY <1>1, <1>5, <2>1 DEF Inv, Progress, Things
  <1> QED
    BY <1>5, <1>6 DEF Inv

LEMMA StartKeeps ==
    ASSUME Inv, Start
    PROVE  Inv'
  <1> DEFINE key == Made("item", Blocks)
             constr == [DOOR |-> Made("constr", Blocks + 1),
                        GRAVEYARD |-> Made("constr", Blocks + 2),
                        FOUNTAIN |-> Made("constr", Blocks + 3)]
             start == Event("SVGameStart", NoFields, NoFields)
             item == Event("SVSpawnItem", [item_uid |-> key], [item_type |-> ItemType.KEY])
             player(p) == Event("SVSpawnPlayer", [player_uid |-> Hero(p)], NoFields)
             built(c) == Event("SVSpawnConstr", [constr_uid |-> constr[c]],
                               [constr_type |-> ConstrType[c]])
             events == {start, item} \cup {player(p) : p \in Player}
                                     \cup {built(c) : c \in DOMAIN constr}
  <1>1. /\ stage = "generating" /\ stage' = "game" /\ uidSeq' = Blocks + 4
        /\ storage' = {Hero(p) : p \in Player} \cup {key} \cup {constr[c] : c \in DOMAIN constr}
        /\ UNCHANGED <<local, bag, toServer, own, maps, mistaken>>
    BY DEF Start
  <1>2. toClients' \in Carried(toClients, events)
    BY DEF Start, Tell
  <1>3. Joining = Player /\ uidSeq = 0 /\ bag = {} /\ toServer = {}
    BY <1>1 DEF Inv, Progress
  <1>4. /\ Blocks \in Nat /\ UINT \in Nat /\ USHORT \in Nat
        /\ MaxObjects \in Blocks + 4 .. UINT - 1
    BY NamingAssumption, WidthAssumption
  <1>5. /\ Joining' = Joining /\ \A p \in Player : Hero(p)' = Hero(p)
        /\ Key' = Key /\ Constrs' = Constrs
    BY <1>1 DEF Joining, Hero, Key, Constrs
  <1>6. Objects' = Objects
    <2>1. Monsters = {} /\ Monsters' = {}
      BY <1>1, <1>3, <1>4 DEF Monsters
    <2> QED
      BY <1>3, <1>5, <2>1 DEF Objects
  <1>7. \A c \in DOMAIN constr : /\ constr[c] \in Constrs
                                 /\ constr[c].uid \in {Blocks + 1, Blocks + 2, Blocks + 3}
    BY DEF Constrs, Made
  <1>8. key = Key /\ key.uid = Blocks
    BY DEF Key, Made
  <1> HIDE DEF key, constr
  <1>9. \A o \in Objects : o.uid \in 0 .. UINT - 1
    BY UidsFit
  <1>10. Tells(Objects, uidSeq', "SVGameStart", start)
    BY NamelessGood DEF Event
  <1>11. \A p \in Player : Tells(Objects, uidSeq', "SVSpawnPlayer", player(p))
    <2>1. \A p \in Player : Hero(p) \in Objects /\ Hero(p).uid \in 0 .. UINT - 1
      BY <1>3, <1>9 DEF Objects
    <2> QED
      BY <2>1, EventsGood DEF Event
  <1>12. Tells(Objects, uidSeq', "SVSpawnItem", item)
    <2>1. key \in Objects /\ key.uid \in 0 .. UINT - 1
      BY <1>8, <1>9 DEF Objects
    <2>2. uidSeq' <= USHORT => key.uid \in 0 .. USHORT - 1
      BY <1>1, <1>4, <1>8
    <2> QED
      BY <2>1, <2>2, EventsGood DEF Event
  <1>13. \A c \in DOMAIN constr : Tells(Objects, uidSeq', "SVSpawnConstr", built(c))
    <2>1. \A c \in DOMAIN constr : constr[c] \in Objects /\ constr[c].uid \in 0 .. UINT - 1
      BY <1>7, <1>9 DEF Objects
    <2>2. \A c \in DOMAIN constr : uidSeq' <= USHORT => constr[c].uid \in 0 .. USHORT - 1
      BY <1>1, <1>4, <1>7
    <2> QED
      BY <2>1, <2>2, EventsGood DEF Event
  <1> HIDE DEF start, item, player, built
  <1>14. \A e \in events : Good(Objects', uidSeq', e) /\ Welcome(e)'
    <2>1. \A e \in events : /\ Good(Objects, uidSeq', e)
                            /\ PayloadName(e.message) # "SVConnectionStatus"
      BY <1>10, <1>11, <1>12, <1>13 DEF Tells
    <2> QED
      BY <1>6, <2>1 DEF Welcome
  <1> HIDE DEF events
  <1>15. /\ toClients' \subseteq toClients \cup events
         /\ IsFiniteSet(toClients') /\ Cardinality(toClients') <= InFlight
    BY <1>2, CarriedFits DEF Inv, Few
  <1>16. Packets'
    <2>1. uidSeq \in Nat /\ uidSeq' \in Nat /\ uidSeq <= uidSeq'
      BY <1>1, <1>3, <1>4
    <2>2. \A p \in Joining : p \in Joining' /\ local'[p] = local[p]
      BY <1>1, <1>5
    <2> QED
      BY <1>6, <1>14, <1>15, <2>1, <2>2, PacketsStay DEF Inv
  <1>17. Players' /\ Own'
    BY <1>1, <1>5 DEF Inv, Players, Own
  <1>18. Progress'
    BY <1>1, <1>3, <1>4, <1>5 DEF Progress
  <1>19. Things' /\ Orders' /\ Few'
    <2>1. storage' \subseteq Objects'
      BY <1>1, <1>3, <1>6, <1>7, <1>8 DEF Objects
    <2> QED
      BY <1>1, <1>3, <1>15, <2>1 DEF Inv, Things, Orders, Clear, Few
  <1>20. Meant'
    <2>1. uidSeq <= USHORT /\ \A i \in DOMAIN Draws : uidSeq <= Draws[i]
      BY <1>3, <1>4, DrawsFit
    <2>2. mistaken \in BOOLEAN /\ (Distinct => ~mistaken)
      BY <2>1 DEF Inv, Meant, CommandsMeanIt
    <2> QED
      BY <1>1, <2>2 DEF Meant, CommandsMeanIt
  <1> QED
    BY <1>16, <1>17, <1>18, <1>19, <1>20 DEF Inv

LEMMA SpawnMonsterKeeps ==
    ASSUME Inv, SpawnMonster
    PROVE  Inv'
  <1> DEFINE new == Made("monster", uidSeq)
             event == Event("SVSpawnMonster", [monster_uid |-> new], NoFields)
             events == {event}
  <1>1. /\ stage = "game" /\ uidSeq < MaxObjects /\ uidSeq' = (uidSeq + 1) % UINT
        /\ storage' = storage \cup {new}
        /\ toClients' \in Carried(toClients, events)
        /\ UNCHANGED <<local, stage, bag, toServer, own, maps, mistaken>>
    BY DEF SpawnMonster, Tell
  <1>2. /\ Blocks \in Nat /\ UINT \in Nat /\ USHORT \in Nat
        /\ MaxObjects \in Blocks + 4 .. UINT - 1
        /\ uidSeq \in Nat /\ uidSeq >= Blocks + 4 /\ Joining = Player
    BY <1>1, NamingAssumption, WidthAssumption DEF Inv, Progress
  <1>3. uidSeq' = uidSeq + 1
    BY <1>1, <1>2
  <1>4. /\ Joining' = Joining /\ \A p : Hero(p)' = Hero(p)
        /\ Key' = Key /\ Constrs' = Constrs
    BY <1>1 DEF Joining, Hero, Key, Constrs
  <1>5. Monsters' = Monsters \cup {new}
    BY <1>2, <1>3 DEF Monsters
  <1>6. Objects' = Objects \cup {new}
    BY <1>4, <1>5 DEF Objects
  <1>7. new.uid = uidSeq /\ new # Key
    BY DEF Made, Key
  <1> HIDE DEF new
  <1>8. Tells(Objects', uidSeq', "SVSpawnMonster", event)
    <2>1. new \in Objects' /\ new.uid \in 0 .. UINT - 1
      BY <1>1, <1>2, <1>6, <1>7
    <2>2. uidSeq' <= USHORT => new.uid \in 0 .. USHORT - 1
      BY <1>2, <1>3, <1>7
    <2> QED
      BY <2>1, <2>2, EventsGood DEF Event
  <1> HIDE DEF event, events
  <1>9. /\ toClients' \subseteq toClients \cup events
        /\ IsFiniteSet(toClients') /\ Cardinality(toClients') <= InFlight
    BY <1>1, CarriedFits DEF Inv, Few
  <1>10. Packets'
    <2>1. uidSeq \in Nat /\ uidSeq' \in Nat /\ uidSeq <= uidSeq'
      BY <1>2, <1>3
    <2>2. \A p \in Joining : p \in Joining' /\ local'[p] = local[p]
      BY <1>1, <1>4
    <2>3. \A e \in events : Good(Objects', uidSeq', e) /\ Welcome(e)'
      BY <1>8 DEF events, Tells, Welcome
    <2>4. Objects \subseteq Objects' /\ Packets
      BY <1>6 DEF Inv
    <2> QED
      BY <1>9, <2>1, <2>2, <2>3, <2>4, PacketsStay
  <1>11. Players' /\ Own'
    BY <1>1, <1>4 DEF Inv, Players, Own
  <1>12. Progress'
    BY <1>1, <1>2, <1>3, <1>4 DEF Progress
  <1>13. Things'
    BY <1>1, <1>4, <1>6, <1>7 DEF Inv, Things
  <1>14. Orders' /\ Few'
    <2>1. uidSeq' <= USHORT => uidSeq <= USHORT
      BY <1>2, <1>3
    <2> QED
      BY <1>1, <1>6, <1>9, <2>1 DEF Inv, Orders, Clear, Few
  <1>15. Meant'
    <2>1. uidSeq' <= USHORT => uidSeq <= USHORT
      BY <1>2, <1>3
    <2>2. \A i \in DOMAIN Draws : Draws[i] \in Nat
      BY <1>2, DrawsFit
    <2>3. \A i \in DOMAIN Draws : uidSeq' <= Draws[i] => uidSeq <= Draws[i]
      BY <1>2, <1>3, <2>2
    <2> QED
      BY <1>1, <2>1, <2>3 DEF Inv, Meant, CommandsMeanIt
  <1> QED
    BY <1>10, <1>11, <1>12, <1>13, <1>14, <1>15 DEF Inv

\* What a client takes for his own number is.
LEMMA LearnKeeps ==
    ASSUME Inv, NEW p \in Player, Learn(p)
    PROVE  Inv'
  <1>1. UNCHANGED <<local, stage, uidSeq, storage, bag, toClients, toServer, mistaken>>
    BY DEF Learn
  <1>2. /\ Objects' = Objects /\ Joining' = Joining /\ Players'
    BY <1>1, NamesStay DEF Inv
  <1>3. Own'
    <2>1. PICK packet \in toClients :
            /\ p \in packet.to
            /\ \/ /\ PayloadName(packet.message) = "SVConnectionStatus"
                  /\ own' = [own EXCEPT ![p] = PayloadField(packet.message, "player_uid")]
               \/ UNCHANGED own
      BY DEF Learn
    <2>2. CASE UNCHANGED own
      BY <1>1, <2>2, NamesStay DEF Inv
    <2>3. CASE /\ PayloadName(packet.message) = "SVConnectionStatus"
               /\ own' = [own EXCEPT ![p] = PayloadField(packet.message, "player_uid")]
      <3>1. p \in Joining /\ PayloadField(packet.message, "player_uid") = local[p]
        BY <2>1, <2>3 DEF Inv, Packets, Welcome
      <3> QED
        BY <1>1, <1>2, <2>3, <3>1 DEF Inv, Own
    <2> QED
      BY <2>1, <2>2, <2>3
  <1>4. Progress'
    BY <1>1, <1>2 DEF Inv, Progress
  <1>5. Things'
    BY <1>1, <1>2 DEF Inv, Things
  <1>6. Packets'
    BY <1>1, <1>2 DEF Inv, Packets, Welcome
  <1>7. Orders' /\ Few' /\ Meant'
    BY <1>1, <1>2 DEF Inv, Orders, Clear, Few, Meant, CommandsMeanIt
  <1> QED
    BY <1>2, <1>3, <1>4, <1>5, <1>6, <1>7 DEF Inv

LEMMA SayingReads ==
    ASSUME NEW p, NEW name \in Names, NEW about, NEW uids, NEW rest,
           DOMAIN uids = DOMAIN about,
           \A f \in DOMAIN about : f \in DOMAIN MessagesTraits[name]
    PROVE  LET c == Saying(p, name, about, uids, rest) IN
           /\ c.about = about
           /\ \A f \in DOMAIN about :
                PayloadField(c.message, f) = Cut(MessagesTraits[name][f], uids[f])
  <1> DEFINE given == Joined(uids, rest)
             schema == MessagesTraits[name]
             c == Saying(p, name, about, uids, rest)
  <1>1. c.about = about /\ c.message = Envelope(p, name, Create(schema, given))
    BY DEF Saying
  <1>2. \A f \in DOMAIN about : f \in DOMAIN given /\ given[f] = uids[f]
    BY DEF Joined
  <1> HIDE DEF given, schema, c
  <1>3. \A f : PayloadField(c.message, f) = Field(schema, Create(schema, given), f)
    BY <1>1, EnvelopeReads DEF schema
  <1>4. \A f \in DOMAIN about : f \in DOMAIN schema
    BY DEF schema
  <1>5. \A f \in DOMAIN about : PayloadField(c.message, f) = Cut(schema[f], uids[f])
    BY <1>2, <1>3, <1>4, FieldReads
  <1> QED
    BY <1>1, <1>5 DEF c, schema

\* A client who was told the numbers of his hero and of another object names
\* them by these numbers, which fit in the fields of the commands.
LEMMA CommandsClear ==
    ASSUME Inv, stage = "game", NEW p \in Player, own[p] # Null,
           NEW packet \in toClients, NEW other \in Said(packet),
           NEW c \in Commands(p, other)
    PROVE  Clear(c)
  <1> DEFINE self == Hero(p)
             object == other.object
  <1>1. /\ self \in Objects /\ own[p] = self.uid /\ own[p] \in 0 .. UINT - 1
        /\ Cut("uint", own[p]) = self.uid
    <2>1. p \in Joining /\ own[p] = local[p]
      BY DEF Inv, Own
    <2>2. self \in Objects /\ self.uid = own[p]
      BY <2>1 DEF Objects, Hero
    <2>3. self.uid \in 0 .. UINT - 1
      BY <2>2, UidsFit
    <2> QED
      BY <2>2, <2>3, NumbersFit
  <1>2. /\ object \in Objects
        /\ uidSeq <= USHORT => other.uid = object.uid
    <2>1. Good(Objects, uidSeq, packet)
      BY DEF Inv, Packets
    <2>2. \E f \in DOMAIN packet.about : object = packet.about[f]
      BY DEF Said
    <2> QED
      BY <2>1, <2>2 DEF Good
  <1>3. /\ uidSeq <= USHORT => Cut("uint", other.uid) = object.uid
        /\ object.kind = "item" /\ uidSeq <= USHORT => Cut("ushort", other.uid) = object.uid
    <2>1. object.uid \in 0 .. UINT - 1
      BY <1>2, UidsFit
    <2>2. object.kind = "item" /\ uidSeq <= USHORT => object.uid \in 0 .. USHORT - 1
      BY <1>2, UidsFit
    <2> QED
      BY <1>2, <2>1, <2>2, NumbersFit
  <1> HIDE DEF self, object
  <1>4. \/ c = Saying(p, "CLActionMove", [target_uid |-> self], [target_uid |-> own[p]], NoFields)
        \/ c = Saying(p, "CLActionSpell", [player_uid |-> self], [player_uid |-> own[p]],
                      NoFields)
        \/ c = Saying(p, "CLActionDuel", [target1_uid |-> self, target2_uid |-> object],
                      [target1_uid |-> own[p], target2_uid |-> other.uid],
                      [act_type |-> ActionDuelType.STARTED])
        \/ /\ object.kind = "item"
           /\ \E act \in DOMAIN ActionItemType :
                c = Saying(p, "CLActionItem", [player_uid |-> self, item_uid |-> object],
                           [player_uid |-> own[p], item_uid |-> other.uid],
                           [act_type |-> ActionItemType[act]])
    BY DEF Commands, self, object
  <1>5. CASE c = Saying(p, "CLActionMove", [target_uid |-> self], [target_uid |-> own[p]],
                        NoFields)
    <2> DEFINE about == [target_uid |-> self]
               uids == [target_uid |-> own[p]]
    <2>1. /\ DOMAIN about = {"target_uid"} /\ about["target_uid"] = self
          /\ DOMAIN uids = {"target_uid"} /\ uids["target_uid"] = own[p]
      OBVIOUS
    <2>2. c = Saying(p, "CLActionMove", about, uids, NoFields)
      BY <1>5
    <2>3. Typed("CLActionMove", "target_uid", "uint")
      BY Types
    <2> HIDE DEF about, uids
    <2>4. /\ c.about = about
          /\ PayloadField(c.message, "target_uid") = Cut("uint", uids["target_uid"])
      BY <2>1, <2>2, <2>3, SayingReads DEF Typed
    <2> QED
      BY <1>1, <2>1, <2>4 DEF Clear
  <1>6. CASE c = Saying(p, "CLActionSpell", [player_uid |-> self], [player_uid |-> own[p]],
                        NoFields)
    <2> DEFINE about == [player_uid |-> self]
               uids == [player_uid |-> own[p]]
    <2>1. /\ DOMAIN about = {"player_uid"} /\ about["player_uid"] = self
          /\ DOMAIN uids = {"player_uid"} /\ uids["player_uid"] = own[p]
      OBVIOUS
    <2>2. c = Saying(p, "CLActionSpell", about, uids, NoFields)
      BY <1>6
    <2>3. Typed("CLActionSpell", "player_uid", "uint")
      BY Types
    <2> HIDE DEF about, uids
    <2>4. /\ c.about = about
          /\ PayloadField(c.message, "player_uid") = Cut("uint", uids["player_uid"])
      BY <2>1, <2>2, <2>3, SayingReads DEF Typed
    <2> QED
      BY <1>1, <2>1, <2>4 DEF Clear
  <1>7. CASE c = Saying(p, "CLActionDuel", [target1_uid |-> self, target2_uid |-> object],
                        [target1_uid |-> own[p], target2_uid |-> other.uid],
                        [act_type |-> ActionDuelType.STARTED])
    <2> DEFINE about == [target1_uid |-> self, target2_uid |-> object]
               uids == [target1_uid |-> own[p], target2_uid |-> other.uid]
               rest == [act_type |-> ActionDuelType.STARTED]
    <2>1. /\ DOMAIN about = {"target1_uid", "target2_uid"} /\ DOMAIN uids = DOMAIN about
          /\ about["target1_uid"] = self /\ uids["target1_uid"] = own[p]
          /\ about["target2_uid"] = object /\ uids["target2_uid"] = other.uid
      OBVIOUS
    <2>2. c = Saying(p, "CLActionDuel", about, uids, rest)
      BY <1>7
    <2>3. /\ Typed("CLActionDuel", "target1_uid", "uint")
          /\ Typed("CLActionDuel", "target2_uid", "uint")
      BY Types
    <2> HIDE DEF about, uids, rest
    <2>4. /\ c.about = about
          /\ PayloadField(c.message, "target1_uid") = Cut("uint", uids["target1_uid"])
          /\ PayloadField(c.message, "target2_uid") = Cut("uint", uids["target2_uid"])
      BY <2>1, <2>2, <2>3, SayingReads DEF Typed
    <2> QED
      BY <1>1, <1>2, <1>3, <2>1, <2>4 DEF Clear
  <1>8. ASSUME object.kind = "item", NEW act \in DOMAIN ActionItemType,
               c = Saying(p, "CLActionItem", [player_uid |-> self, item_uid |-> object],
                          [player_uid |-> own[p], item_uid |-> other.uid],
                          [act_type |-> ActionItemType[act]])
        PROVE  Clear(c)
    <2> DEFINE about == [player_uid |-> self, item_uid |-> object]
               uids == [player_uid |-> own[p], item_uid |-> other.uid]
               rest == [act_type |-> ActionItemType[act]]
    <2>1. /\ DOMAIN about = {"player_uid", "item_uid"} /\ DOMAIN uids = DOMAIN about
          /\ about["player_uid"] = self /\ uids["player_uid"] = own[p]
          /\ about["item_uid"] = object /\ uids["item_uid"] = other.uid
      OBVIOUS
    <2>2. c = Saying(p, "CLActionItem", about, uids, rest)
      BY <1>8
    <2>3. /\ Typed("CLActionItem", "player_uid", "uint")
          /\ Typed("CLActionItem", "item_uid", "ushort")
      BY Types
    <2> HIDE DEF about, uids, rest
    <2>4. /\ c.about = about
          /\ PayloadField(c.message, "player_uid") = Cut("uint", uids["player_uid"])
          /\ PayloadField(c.message, "item_uid") = Cut("ushort", uids["item_uid"])
      BY <2>1, <2>2, <2>3, SayingReads DEF Typed
    <2> QED
      BY <1>1, <1>2, <1>3, <1>8, <2>1, <2>4 DEF Clear
  <1> QED
    BY <1>4, <1>5, <1>6, <1>7, <1>8

LEMMA CommandKeeps ==
    ASSUME Inv, NEW p \in Player, Command(p)
    PROVE  Inv'
  <1>1. /\ stage = "game"
        /\ UNCHANGED <<local, stage, uidSeq, storage, bag, toClients, own, maps, mistaken>>
    BY DEF Command
  <1>2. PICK packet \in toClients :
          \E other \in Said(packet) : \E c \in Commands(p, other) :
            toServer' \in Carried(toServer, {c})
    BY DEF Command
  <1> PICK other \in Said(packet) : \E c \in Commands(p, other) :
        toServer' \in Carried(toServer, {c})
    BY <1>2
  <1> PICK c \in Commands(p, other) : toServer' \in Carried(toServer, {c})
    OBVIOUS
  <1>3. Clear(c)
    BY <1>1, CommandsClear DEF Command
  <1>4. /\ toServer' \subseteq toServer \cup {c}
        /\ IsFiniteSet(toServer') /\ Cardinality(toServer') <= InFlight
    BY CarriedFits DEF Inv, Few
  <1>5. /\ Objects' = Objects /\ Joining' = Joining /\ Players' /\ Own'
    BY <1>1, NamesStay DEF Inv
  <1>6. Orders'
    BY <1>1, <1>3, <1>4, <1>5 DEF Inv, Orders, Clear
  <1>7. Progress' /\ Things'
    BY <1>1, <1>5 DEF Inv, Progress, Things
  <1>8. Packets'
    BY <1>1, <1>5 DEF Inv, Packets, Welcome
  <1>9. Few' /\ Meant'
    BY <1>1, <1>4 DEF Inv, Few, Meant, CommandsMeanIt
  <1> QED
    BY <1>5, <1>6, <1>7, <1>8, <1>9 DEF Inv

\* Reading a command leaves the names as they are, and what is found is meant.
LEMMA Handled ==
    ASSUME Inv, NEW c, NEW name, Handling(c, name)
    PROVE  /\ stage = "game" /\ UNCHANGED <<local, uidSeq, own>>
           /\ Objects' = Objects /\ Joining' = Joining /\ Players' /\ Own'
           /\ IsFiniteSet(toServer') /\ Cardinality(toServer') <= InFlight /\ Orders'
           /\ Meant'
  <1>1. /\ stage = "game" /\ c \in toServer /\ toServer' = toServer \ {c}
        /\ mistaken' = (mistaken \/ \E f \in DOMAIN c.about :
                          ~(Find(c, f, {"hero", "monster", "item"}) \subseteq {c.about[f]}))
        /\ UNCHANGED <<local, uidSeq, own, maps>>
    BY Zenon DEF Handling
  <1>2. /\ Objects' = Objects /\ Joining' = Joining /\ Players' /\ Own'
    BY <1>1, NamesStay DEF Inv
  <1>3. IsFiniteSet(toServer') /\ Cardinality(toServer') <= InFlight
    <2>1. toServer' \in SUBSET toServer /\ IsFiniteSet(toServer)
      BY <1>1 DEF Inv, Few
    <2>2. IsFiniteSet(toServer') /\ Cardinality(toServer') <= Cardinality(toServer)
      BY <2>1, FS_Subset
    <2>3. Cardinality(toServer') \in Nat /\ Cardinality(toServer) \in Nat
      BY <2>1, <2>2, FS_CardinalityType
    <2>4. Cardinality(toServer) <= InFlight /\ InFlight \in Nat
      BY NamingAssumption DEF Inv, Few
    <2> QED
      BY <2>2, <2>3, <2>4
  <1>4. Orders'
    BY <1>1, <1>2 DEF Inv, Orders, Clear
  <1>5. ASSUME Distinct, uidSeq <= USHORT, \A i \in DOMAIN Draws : uidSeq <= Draws[i],
               NEW f \in DOMAIN c.about
        PROVE  Find(c, f, {"hero", "monster", "item"}) \subseteq {c.about[f]}
    <2>1. c.about[f] \in Objects /\ PayloadField(c.message, f) = c.about[f].uid
      BY <1>1, <1>5 DEF Inv, Orders, Clear
    <2>2. ASSUME NEW o \in Find(c, f, {"hero", "monster", "item"})
          PROVE  o = c.about[f]
      <3>1. o \in storage /\ o.uid = PayloadField(c.message, f)
        BY DEF Find, FindObject
      <3>2. o \in Objects
        BY <3>1, UidsFit
      <3> QED
        BY <1>5, <2>1, <3>1, <3>2, UidsDiffer DEF Inv
    <2> QED
      BY <2>2
  <1>6. Meant'
    <2>1. mistaken' \in BOOLEAN
      BY <1>1, Zenon
    <2>2. ASSUME Distinct, CommandsMeanIt PROVE CommandsMeanIt'
      <3>1. SUFFICES ASSUME uidSeq <= USHORT, \A i \in DOMAIN Draws : uidSeq <= Draws[i]
                     PROVE  ~mistaken'
        BY <1>1 DEF CommandsMeanIt
      <3>2. ~mistaken
        BY <2>2, <3>1 DEF CommandsMeanIt
      <3>3. ~ \E f \in DOMAIN c.about :
                 ~(Find(c, f, {"hero", "monster", "item"}) \subseteq {c.about[f]})
        BY <1>5, <2>2, <3>1
      <3> QED
        BY <1>1, <3>2, <3>3, Zenon
    <2>3. Distinct => CommandsMeanIt
      BY DEF Inv, Meant
    <2> QED
      BY <2>1, <2>2, <2>3, Zenon DEF Meant
  <1> QED
    BY <1>1, <1>2, <1>3, <1>4, <1>6

\* A command handled by telling the clients of objects there are.
LEMMA HandlingTells ==
    ASSUME Inv, NEW c, NEW name, Handling(c, name),
           NEW events, toClients' \in Carried(toClients, events),
           \A e \in events : /\ Good(Objects, uidSeq, e)
                             /\ PayloadName(e.message) # "SVConnectionStatus"
    PROVE  Packets' /\ Few'
  <1>1. UNCHANGED <<local, uidSeq>> /\ IsFiniteSet(toServer') /\ Cardinality(toServer') <= InFlight
    BY Handled
  <1>2. Packets' /\ IsFiniteSet(toClients') /\ Cardinality(toClients') <= InFlight
    BY <1>1, ToldStay
  <1> QED
    BY <1>1, <1>2 DEF Few

LEMMA HandlingSilently ==
    ASSUME Inv, NEW c, NEW name, Handling(c, name), UNCHANGED toClients
    PROVE  Packets' /\ Few'
  <1>1. /\ UNCHANGED local /\ UNCHANGED uidSeq
        /\ Objects' = Objects /\ Joining' = Joining
        /\ IsFiniteSet(toServer') /\ Cardinality(toServer') <= InFlight
    BY Handled
  <1>2. Packets'
    BY <1>1 DEF Inv, Packets, Welcome
  <1>3. Few'
    BY <1>1 DEF Inv, Few
  <1> QED
    BY <1>2, <1>3

\* What is left to show of a command that has been handled.
LEMMA HandlingKeeps ==
    ASSUME Inv, NEW c, NEW name, Handling(c, name), Packets', Few', Things',
           stage' \in {stage, "crashed"}
    PROVE  Inv'
  <1>1. /\ stage = "game" /\ UNCHANGED <<local, uidSeq, own>> /\ Joining' = Joining
        /\ Players' /\ Own' /\ Orders' /\ Meant'
    BY Handled
  <1>2. Progress'
    BY <1>1 DEF Inv, Progress
  <1> QED
    BY <1>1, <1>2 DEF Inv

\* Units and items that are found are objects, and their numbers fit.
LEMMA Found ==
    ASSUME Inv, stage = "game", NEW c, NEW f
    PROVE  /\ \A u \in FindUnit(c, f) : u \in Objects /\ u.uid \in 0 .. UINT - 1
           /\ \A o \in FindItem(c, f) : /\ o = Key /\ o \in storage /\ o \in Objects
                                        /\ o.uid \in 0 .. UINT - 1
                                        /\ uidSeq <= USHORT => o.uid \in 0 .. USHORT - 1
  <1>1. FindUnit(c, f) \subseteq storage /\ FindItem(c, f) \subseteq storage
    BY DEF FindUnit, FindItem, Find, FindObject
  <1>2. \A o \in storage : o \in Objects /\ o.uid \in 0 .. UINT - 1
    BY UidsFit
  <1>3. \A o \in FindItem(c, f) : o.kind = "item"
    BY DEF FindItem, Find
  <1>4. \A o \in FindItem(c, f) : o = Key
    BY <1>1, <1>2, <1>3, OneItem
  <1>5. \A o \in FindItem(c, f) : uidSeq <= USHORT => o.uid \in 0 .. USHORT - 1
    BY <1>1, <1>2, <1>3, UidsFit
  <1> QED
    BY <1>1, <1>2, <1>4, <1>5

LEMMA SameThings ==
    ASSUME Inv, UNCHANGED <<local, uidSeq, storage, bag>>
    PROVE  Things'
  <1>1. Objects' = Objects /\ Key' = Key
    BY NamesStay DEF Key
  <1> QED
    BY <1>1 DEF Inv, Things

LEMMA HandleMoveKeeps ==
    ASSUME Inv, NEW c, HandleMove(c)
    PROVE  Inv'
  <1> DEFINE event(u) == Event("SVActionMove", [target_uid |-> u], NoFields)
             events == {event(u) : u \in FindUnit(c, "target_uid")}
  <1>1. /\ Handling(c, "CLActionMove") /\ toClients' \in Carried(toClients, events)
        /\ UNCHANGED <<stage, storage, bag>>
    BY DEF HandleMove, Tell
  <1>2. stage = "game" /\ UNCHANGED <<local, uidSeq>>
    BY <1>1, Handled
  <1>3. \A u \in FindUnit(c, "target_uid") : Tells(Objects, uidSeq, "SVActionMove", event(u))
    <2>1. \A u \in FindUnit(c, "target_uid") : u \in Objects /\ u.uid \in 0 .. UINT - 1
      BY <1>2, Found
    <2> QED
      BY <2>1, EventsGood DEF Event
  <1> HIDE DEF event
  <1>4. \A e \in events : /\ Good(Objects, uidSeq, e)
                          /\ PayloadName(e.message) # "SVConnectionStatus"
    BY <1>3 DEF Tells
  <1> HIDE DEF events
  <1>5. Packets' /\ Few'
    BY <1>1, <1>4, HandlingTells
  <1>6. Things'
    BY <1>1, <1>2, SameThings
  <1> QED
    BY <1>1, <1>5, <1>6, HandlingKeeps

LEMMA HandleTakeKeeps ==
    ASSUME Inv, NEW c, HandleTake(c)
    PROVE  Inv'
  <1>1. Handling(c, "CLActionItem") /\ UNCHANGED stage
    BY DEF HandleTake
  <1>2. /\ stage = "game" /\ UNCHANGED <<local, uidSeq>> /\ Objects' = Objects
    BY <1>1, Handled
  <1>3. PICK item \in FindItem(c, "item_uid"), unit \in FindUnit(c, "player_uid") :
          /\ bag' = bag \cup {[by |-> unit, item |-> item]}
          /\ storage' = storage \ {item}
          /\ toClients' \in
               Carried(toClients,
                       {Event("SVActionItem", [player_uid |-> unit, item_uid |-> item],
                              [act_type |-> ActionItemType.TAKE])})
    BY DEF HandleTake, Tell
  <1>4. /\ unit \in Objects /\ unit.uid \in 0 .. UINT - 1
        /\ item = Key /\ item \in storage /\ item \in Objects /\ item.uid \in 0 .. UINT - 1
        /\ uidSeq <= USHORT => item.uid \in 0 .. USHORT - 1
    BY <1>2, Found
  <1> DEFINE event == Event("SVActionItem", [player_uid |-> unit, item_uid |-> item],
                            [act_type |-> ActionItemType.TAKE])
             events == {event}
  <1>5. Tells(Objects, uidSeq, "SVActionItem", event)
    BY <1>4, EventsGood DEF Event
  <1>6. toClients' \in Carried(toClients, events)
    BY <1>3
  <1> HIDE DEF event
  <1>7. \A e \in events : /\ Good(Objects, uidSeq, e)
                          /\ PayloadName(e.message) # "SVConnectionStatus"
    BY <1>5 DEF Tells
  <1> HIDE DEF events
  <1>8. Packets' /\ Few'
    BY <1>1, <1>6, <1>7, HandlingTells
  <1>9. Things'
    <2>1. bag = {}
      BY <1>4 DEF Inv, Things
    <2>2. Key' = Key
      BY DEF Key, Made
    <2> QED
      BY <1>2, <1>3, <1>4, <2>1, <2>2 DEF Inv, Things
  <1> QED
    BY <1>1, <1>8, <1>9, HandlingKeeps

LEMMA HandleDropKeeps ==
    ASSUME Inv, NEW c, HandleDrop(c)
    PROVE  Inv'
  <1>1. Handling(c, "CLActionItem") /\ UNCHANGED <<stage, toClients>>
    BY DEF HandleDrop
  <1>2. Objects' = Objects /\ Packets' /\ Few'
    BY <1>1, Handled, HandlingSilently
  <1>3. PICK b \in bag : bag' = bag \ {b} /\ storage' = storage \cup {b.item}
    BY DEF HandleDrop, Bag
  <1>4. b.item = Key /\ bag' = {} /\ Key \in Objects
    BY <1>3 DEF Inv, Things, Objects
  <1>5. Things'
    BY <1>2, <1>3, <1>4 DEF Inv, Things
  <1> QED
    BY <1>1, <1>2, <1>5, HandlingKeeps

LEMMA HandleDuelKeeps ==
    ASSUME Inv, NEW c, HandleDuel(c)
    PROVE  Inv'
  <1> DEFINE event(t) == Event("SVActionDuel", [target1_uid |-> t[1], target2_uid |-> t[2]],
                               [act_type |-> ActionDuelType.STARTED])
             pairs == FindUnit(c, "target1_uid") \X FindUnit(c, "target2_uid")
             events == {event(t) : t \in pairs}
  <1>1. /\ Handling(c, "CLActionDuel") /\ toClients' \in Carried(toClients, events)
        /\ UNCHANGED <<stage, storage, bag>>
    BY DEF HandleDuel, Tell
  <1>2. stage = "game" /\ UNCHANGED <<local, uidSeq>>
    BY <1>1, Handled
  <1>3. \A t \in pairs : Tells(Objects, uidSeq, "SVActionDuel", event(t))
    <2>1. \A t \in pairs : /\ t[1] \in Objects /\ t[1].uid \in 0 .. UINT - 1
                           /\ t[2] \in Objects /\ t[2].uid \in 0 .. UINT - 1
      BY <1>2, Found
    <2> HIDE DEF pairs
    <2> QED
      BY <2>1, EventsGood DEF Event
  <1> HIDE DEF event, pairs
  <1>4. \A e \in events : /\ Good(Objects, uidSeq, e)
                          /\ PayloadName(e.message) # "SVConnectionStatus"
    BY <1>3 DEF Tells
  <1> HIDE DEF events
  <1>5. Packets' /\ Few'
    BY <1>1, <1>4, HandlingTells
  <1>6. Things'
    BY <1>1, <1>2, SameThings
  <1> QED
    BY <1>1, <1>5, <1>6, HandlingKeeps

LEMMA HandleSpellKeeps ==
    ASSUME Inv, NEW c, HandleSpell(c)
    PROVE  Inv'
  <1> DEFINE spells == {"MageAttack", "MageFreeze", "WarriorAttack"}
             events == {Attack(spell, u, enemy) :
                          spell \in spells, u \in FindUnit(c, "player_uid"),
                          enemy \in UnitsStored}
  <1>1. /\ Handling(c, "CLActionSpell") /\ toClients' \in Carried(toClients, events)
        /\ UNCHANGED <<stage, storage, bag>>
    BY DEF HandleSpell, Tell
  <1>2. stage = "game" /\ UNCHANGED <<local, uidSeq>>
    BY <1>1, Handled
  <1>3. \A spell \in spells, u \in FindUnit(c, "player_uid"), enemy \in UnitsStored :
           Tells(Objects, uidSeq, "SVActionSpell", Attack(spell, u, enemy))
    <2>1. \A u \in FindUnit(c, "player_uid") : u \in Objects /\ u.uid \in 0 .. UINT - 1
      BY <1>2, Found
    <2>2. \A enemy \in UnitsStored : enemy \in Objects /\ enemy.uid \in 0 .. UINT - 1
      BY UidsFit
    <2> QED
      BY <2>1, <2>2, AttackGood DEF Tells
  <1> HIDE DEF spells
  <1>4. \A e \in events : /\ Good(Objects, uidSeq, e)
                          /\ PayloadName(e.message) # "SVConnectionStatus"
    BY <1>3 DEF Tells
  <1> HIDE DEF events
  <1>5. Packets' /\ Few'
    BY <1>1, <1>4, HandlingTells
  <1>6. Things'
    BY <1>1, <1>2, SameThings
  <1> QED
    BY <1>1, <1>5, <1>6, HandlingKeeps

\* The two commands that change no object: the game crashes or goes on.
LEMMA NothingFoundKeeps ==
    ASSUME Inv, NEW c, HandleDuelCrashes(c) \/ Ignore(c)
    PROVE  Inv'
  <1>1. PICK name : Handling(c, name)
    BY DEF HandleDuelCrashes, Ignore
  <1>2. UNCHANGED <<storage, bag, toClients>> /\ stage' \in {stage, "crashed"}
    BY DEF HandleDuelCrashes, Ignore
  <1>3. UNCHANGED <<local, uidSeq>>
    BY <1>1, Handled
  <1>4. Packets' /\ Few' /\ Things'
    BY <1>1, <1>2, <1>3, HandlingSilently, SameThings
  <1> QED
    BY <1>1, <1>2, <1>4, HandlingKeeps

-----------------------------------------------------------------------------
(* The theorems.                                                           *)

LEMMA Starts == Init => Inv
  <1> SUFFICES ASSUME Init PROVE Inv
    OBVIOUS
  <1>1. /\ Joining = {} /\ stage = "lobby" /\ uidSeq = 0 /\ storage = {} /\ bag = {}
        /\ toClients = {} /\ toServer = {} /\ own = [p \in Player |-> Null]
        /\ mistaken = FALSE
    BY DEF Init, Joining
  <1>2. MaxObjects \in Nat /\ InFlight \in Nat /\ Blocks \in Nat
    BY NamingAssumption, WidthAssumption
  <1>3. IsFiniteSet({}) /\ Cardinality({}) = 0
    BY FS_EmptySet
  <1>4. Players /\ Progress /\ Things
    BY <1>1, <1>2 DEF Players, Progress, Things
  <1>5. Packets /\ Own /\ Orders
    BY <1>1 DEF Packets, Own, Orders
  <1>6. Few
    BY <1>1, <1>2, <1>3 DEF Few
  <1>7. Meant
    BY <1>1, Zenon DEF Meant, CommandsMeanIt
  <1> QED
    BY <1>4, <1>5, <1>6, <1>7 DEF Inv

LEMMA StepKeeps == Inv /\ [Next]_vars => Inv'
  <1> SUFFICES ASSUME Inv, [Next]_vars PROVE Inv'
    OBVIOUS
  <1>1. ASSUME NEW p \in Player, Connect(p) PROVE Inv'
    BY <1>1, ConnectKeeps
  <1>2. ASSUME NEW p \in Player, Learn(p) PROVE Inv'
    BY <1>2, LearnKeeps
  <1>3. ASSUME NEW p \in Player, Returns(p) PROVE Inv'
    BY <1>3, ReturnsKeeps
  <1>4. ASSUME NEW p \in Player, Command(p) PROVE Inv'
    BY <1>4, CommandKeeps
  <1>5. ASSUME NEW p \in Player, NEW h, PickHero(p, h) PROVE Inv'
    BY <1>5, PickHeroKeeps
  <1>6. CASE Generate
    BY <1>6, GenerateKeeps
  <1>7. CASE Start
    BY <1>7, StartKeeps
  <1>8. CASE SpawnMonster
    BY <1>8, SpawnMonsterKeeps
  <1>9. ASSUME NEW u \in UnitsStored, Dies(u) PROVE Inv'
    BY <1>9, DiesKeeps
  <1>10. ASSUME NEW m, NEW u, MonsterActs(m, u) PROVE Inv'
    BY <1>10, MonsterActsKeeps
  <1>11. ASSUME NEW c \in toServer,
                \/ HandleMove(c) \/ HandleTake(c) \/ HandleDrop(c) \/ HandleDuel(c)
                \/ HandleDuelCrashes(c) \/ HandleSpell(c) \/ Ignore(c)
         PROVE  Inv'
    BY <1>11, HandleMoveKeeps, HandleTakeKeeps, HandleDropKeeps, HandleDuelKeeps,
       HandleSpellKeeps, NothingFoundKeeps
  <1>12. CASE UNCHANGED vars
    <2>1. UNCHANGED vars /\ Objects' = Objects /\ Joining' = Joining /\ Players' /\ Own' /\ Things'
      BY <1>12, NamesStay, SameThings DEF vars, Inv
    <2>2. Progress' /\ Packets' /\ Orders'
      BY <2>1 DEF vars, Inv, Progress, Packets, Welcome, Orders, Clear
    <2>3. Few' /\ Meant'
      BY <2>1 DEF vars, Inv, Few, Meant, CommandsMeanIt
    <2> QED
      BY <2>1, <2>2, <2>3 DEF Inv
  <1> QED
    BY <1>1, <1>2, <1>3, <1>4, <1>5, <1>6, <1>7, <1>8, <1>9, <1>10, <1>11, <1>12 DEF Next

LEMMA InvHolds == Spec => []Inv
  BY Starts, StepKeeps, PTL DEF Spec

\* Every number fits in the width the server gives it and nothing is both
\* carried and lying about.
THEOREM TypeCorrect == Spec => []TypeOK
  <1>1. Inv => TypeOK
    <2> SUFFICES ASSUME Inv PROVE TypeOK
      OBVIOUS
    <2>1. /\ Joining \subseteq Player /\ \A p \in Joining : local[p] \in 0 .. UINT - 1
      BY Numbers DEF Inv, Players
    <2>2. /\ stage \in {"lobby", "generating", "game", "crashed"} /\ mistaken \in BOOLEAN
          /\ uidSeq \in 0 .. UINT - 1
      <3>1. uidSeq \in Nat /\ uidSeq <= MaxObjects /\ MaxObjects \in Blocks + 4 .. UINT - 1
        BY NamingAssumption DEF Inv, Progress
      <3>2. Blocks \in Nat /\ UINT \in Nat
        BY NamingAssumption, WidthAssumption
      <3> QED
        BY <3>1, <3>2 DEF Inv, Progress, Meant
    <2>3. \A o \in storage : o.kind \in {"hero", "monster", "item", "constr"}
      <3>1. \A o \in Objects : o.kind \in {"hero", "monster", "item", "constr"}
        BY DEF Objects, Hero, Key, Constrs, Monsters, Made
      <3> QED
        BY <3>1, UidsFit
    <2>4. \A b \in bag : b.item.kind = "item" /\ b.item \notin storage
      <3>1. Key.kind = "item"
        BY DEF Key, Made
      <3> QED
        BY <3>1 DEF Inv, Things
    <2>5. Cardinality(toClients) <= InFlight /\ Cardinality(toServer) <= InFlight
      BY DEF Inv, Few
    <2> QED
      BY <2>1, <2>2, <2>3, <2>4, <2>5 DEF TypeOK
  <1> QED
    BY <1>1, InvHolds, PTL

\* Every event names every object by its own number as long as the numbers
\* of the world fit in 16 bits, for any number of players, blocks and
\* monsters: the mixed widths of the fields do no harm before that.
THEOREM NamesAgree == Spec => []OneName
  <1>1. Inv => OneName
    BY DEF Inv, Packets, Good, OneName
  <1> QED
    BY <1>1, InvHolds, PTL

\* If the lobby drew different numbers for the players, a command never
\* reaches an object it did not mean until the world has numbered so many
\* that it comes to the numbers of the heroes.
THEOREM CommandsHit == ASSUME Distinct PROVE Spec => []CommandsMeanIt
  <1>1. Inv => CommandsMeanIt
    BY DEF Inv, Meant
  <1> QED
    BY <1>1, InvHolds, PTL
=============================================================================
