---------------------------- MODULE SessionProofs ----------------------------
(***************************************************************************)
(* Proofs about Session for any clients and any size of the lobby.         *)
(***************************************************************************)
EXTENDS Session, TLAPS

\* Which reports the flags of a stage stand for: nobody is done in the lobby,
\* who is done later sent the report of the stage, and every player sent
\* those of the stages before it.
FlagsEarned ==
    /\ stage = "lobby" => done = {}
    /\ stage = "pick" => \A c \in done : "ready" \in sent[c]
    /\ stage = "worldgen" =>
         /\ \A c \in connected : "ready" \in sent[c]
         /\ \A c \in done : "generated" \in sent[c]
    /\ stage = "running" => \A c \in connected : sent[c] = {"ready", "generated"}

\* Nobody is told to start in a stage before the game.
StartsLate == stage \in {"lobby", "pick", "worldgen"} => \A c \in Client : "start" \notin told[c]

Inv == TypeOK /\ FullHouse /\ FlagsEarned /\ StartsLate /\ StartedTogether

LEMMA InitInv == Init => Inv
  BY DEF Init, Inv, TypeOK, FullHouse, FlagsEarned, StartsLate, StartedTogether,
         Stages, HeroType

\* The clients change only what they sent or whether they are there.
LEMMA ClientInv ==
    ASSUME Inv, NEW c \in Client,
           ClientReady(c) \/ ClientGenerated(c) \/ Leaves(c) \/ FallsSilent(c)
    PROVE  Inv'
  <1>1. /\ UNCHANGED <<stage, connected, done, hero, told>>
        /\ sent' \in [Client -> SUBSET {"ready", "generated"}]
        /\ \A x \in Client : sent[x] \subseteq sent'[x]
        /\ gone' \subseteq Client /\ silent' \subseteq connected'
    BY DEF Inv, TypeOK, ClientReady, ClientGenerated, Reports, Leaves, FallsSilent
  <1>2. TypeOK'
    BY <1>1 DEF Inv, TypeOK
  <1>3. FullHouse' /\ StartsLate'
    BY <1>1 DEF Inv, FullHouse, StartsLate
  <1>4. \A x \in connected : /\ x \in Client /\ sent'[x] \subseteq {"ready", "generated"}
                             /\ sent[x] \subseteq sent'[x]
    BY <1>1 DEF Inv, TypeOK
  <1>5. FlagsEarned'
    BY <1>1, <1>4 DEF Inv, TypeOK, FlagsEarned
  <1>6. StartedTogether'
    BY <1>1, <1>4 DEF Inv, StartedTogether
  <1> QED
    BY <1>2, <1>3, <1>5, <1>6 DEF Inv

\* A connection request counts in the lobby only.
LEMMA ConnectionInv ==
    ASSUME Inv, NEW c \in Client, HearConnection(c), gone' = gone
    PROVE  Inv'
  <1>1. TypeOK'
    BY DEF Inv, TypeOK, HearConnection
  <1>2. FullHouse' /\ FlagsEarned'
    BY DEF Inv, HearConnection, FullHouse, FlagsEarned
  <1>3. StartsLate'
    BY DEF Inv, TypeOK, HearConnection, StartsLate
  <1>4. StartedTogether'
    BY <1>3 DEF HearConnection, StartsLate, StartedTogether
  <1> QED
    BY <1>1, <1>2, <1>3, <1>4 DEF Inv

\* The packets of players change heroes, signs of life and flags.
LEMMA PacketInv ==
    ASSUME Inv, NEW c \in Client, HearsFrom(c)
    PROVE  Inv'
  <1>1. CASE HearConnection(c)
    BY <1>1, ConnectionInv DEF HearConnection
  <1>2. ASSUME HearPing(c) \/ \E type \in HeroType : HearHeroPick(c, type)
        PROVE  Inv'
    <2>1. TypeOK'
      BY <1>2 DEF Inv, TypeOK, HearPing, HearHeroPick
    <2>2. UNCHANGED <<stage, connected, done, told, sent>>
      BY <1>2 DEF HearPing, HearHeroPick
    <2> QED
      BY <2>1, <2>2 DEF Inv, FullHouse, FlagsEarned, StartsLate, StartedTogether
  <1>3. ASSUME NEW report \in {"ready", "generated"}, HearReport(c, report)
        PROVE  Inv'
    <2>1. TypeOK'
      BY <1>3 DEF Inv, TypeOK, HearReport
    <2>2. FlagsEarned'
      BY <1>3 DEF Inv, HearReport, FlagsEarned
    <2>3. UNCHANGED <<stage, connected, told, sent>>
      BY <1>3 DEF HearReport
    <2> QED
      BY <2>1, <2>2, <2>3 DEF Inv, FullHouse, StartsLate, StartedTogether
  <1> QED
    BY <1>1, <1>2, <1>3 DEF HearsFrom

\* The looks at the stage: what they conclude from the flags is right.
LEMMA PassInv ==
    ASSUME Inv, Pass
    PROVE  Inv'
  <1>1. CASE LobbyPass
    <2>1. TypeOK'
      <3>1. connected' \subseteq Client /\ silent' = {} /\ done' \subseteq connected'
        <4>1. done = {}
          BY <1>1 DEF Inv, FlagsEarned, LobbyPass
        <4> QED
          BY <1>1, <4>1 DEF Inv, TypeOK, LobbyPass, Enter
      <3>2. stage' \in {"lobby", "pick"} /\ told' \in [Client -> SUBSET {"accepted", "pick", "generate", "start"}]
        BY <1>1 DEF Inv, TypeOK, LobbyPass, Enter, Tell
      <3> QED
        BY <1>1, <3>1, <3>2 DEF Inv, TypeOK, LobbyPass, Stages
    <2>2. StartsLate'
      BY <1>1 DEF Inv, TypeOK, StartsLate, LobbyPass, Enter, Tell
    <2>3. stage' \in {"lobby", "pick"} /\ (stage' = "pick" => done' = {})
      BY <1>1 DEF LobbyPass, Enter
    <2>4. FullHouse'
      BY <1>1 DEF LobbyPass, FullHouse
    <2>5. FlagsEarned'
      <3>1. stage' = "lobby" => done' = {}
        BY <1>1 DEF Inv, FlagsEarned, LobbyPass, Enter
      <3> QED
        BY <2>3, <3>1 DEF FlagsEarned
    <2> QED
      BY <2>1, <2>2, <2>3, <2>4, <2>5 DEF Inv, StartedTogether, StartsLate
  <1>2. ASSUME Timeout \/ Abandoned
        PROVE  Inv'
    <2>1. stage' = "over" /\ UNCHANGED <<connected, silent, done, hero, told, sent, gone>>
      BY <1>2 DEF Timeout, Abandoned
    <2>2. TypeOK'
      BY <2>1 DEF Inv, TypeOK, Stopped
    <2> QED
      BY <2>1, <2>2 DEF Inv, FullHouse, FlagsEarned, StartsLate, StartedTogether
  <1>3. CASE PickPass
    <2>1. TypeOK'
      BY <1>3 DEF Inv, TypeOK, PickPass, Enter, Tell, Stages, Stopped
    <2>2. \A c \in Client : "start" \notin told'[c]
      BY <1>3 DEF Inv, TypeOK, StartsLate, PickPass, Enter, Tell
    <2>3. FullHouse'
      BY <1>3 DEF Inv, FullHouse, PickPass, Enter
    <2>4. FlagsEarned'
      BY <1>3 DEF Inv, FlagsEarned, PickPass, Enter, EveryoneDone
    <2> QED
      BY <2>1, <2>2, <2>3, <2>4 DEF Inv, StartsLate, StartedTogether
  <1>4. CASE GenerationPass
    <2>1. TypeOK'
      BY <1>4 DEF Inv, TypeOK, GenerationPass, Enter, Tell, Stages
    <2>2. \A c \in connected : sent[c] = {"ready", "generated"}
      BY <1>4 DEF Inv, TypeOK, FlagsEarned, GenerationPass, EveryoneDone
    <2>3. stage' = "running" /\ UNCHANGED <<connected, sent>>
      BY <1>4 DEF GenerationPass, Enter
    <2>4. FullHouse'
      BY <1>4, <2>3 DEF Inv, FullHouse, GenerationPass
    <2> QED
      BY <2>1, <2>2, <2>3, <2>4 DEF Inv, FlagsEarned, StartsLate, StartedTogether
  <1> QED
    BY <1>1, <1>2, <1>3, <1>4 DEF Pass

LEMMA StepInv == Inv /\ [Next]_vars => Inv'
  <1> SUFFICES ASSUME Inv, [Next]_vars PROVE Inv'
    OBVIOUS
  <1>1. CASE WorldFinished
    <2>1. TypeOK'
      BY <1>1 DEF Inv, TypeOK, WorldFinished, Stopped
    <2> QED
      BY <1>1, <2>1 DEF Inv, WorldFinished, FullHouse, FlagsEarned, StartsLate, StartedTogether
  <1>2. CASE UNCHANGED vars
    BY <1>2 DEF vars, Inv, TypeOK, FullHouse, FlagsEarned, StartsLate, StartedTogether
  <1> QED
    BY <1>1, <1>2, ClientInv, PacketInv, PassInv DEF Next, Halted

LEMMA Always == Spec => []Inv
  BY InitInv, StepInv, PTL DEF Spec

\* The state of a game server keeps its types.
THEOREM TypeCorrect == Spec => []TypeOK
  <1>1. Inv => TypeOK
    BY DEF Inv
  <1> QED
    BY <1>1, Always, PTL

\* A game is played by exactly as many players as the lobby takes.
THEOREM HouseFull == Spec => []FullHouse
  <1>1. Inv => FullHouse
    BY DEF Inv
  <1> QED
    BY <1>1, Always, PTL

\* Nobody is told to start before every player reported in both stages,
\* however many players there are and whatever the network does.
THEOREM StartSynchronised == Spec => []StartedTogether
  <1>1. Inv => StartedTogether
    BY DEF Inv
  <1> QED
    BY <1>1, Always, PTL
=============================================================================
