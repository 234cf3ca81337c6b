------------------------------ MODULE Session ------------------------------
(***************************************************************************)
(* One GameServer: lobby, hero pick, world generation and the running      *)
(* game, with clients behind a network that loses, delays, duplicates and  *)
(* reorders packets.                                                       *)
(*                                                                         *)
(* The server's loop drains the socket and then looks at timeouts and at   *)
(* whether the stage is through: one action per packet, one per look (the  *)
(* "pass" of a stage).  A packet a client may have sent can arrive at any  *)
(* time, any number of times, or never; what the server sends reaches the  *)
(* client at any time or never.  Time is abstracted: a player is silent    *)
(* once nothing was heard of it for 180 s.  Clients stand for themselves   *)
(* instead of a uuid and a local uid.  Pings of the server and the lists   *)
(* of players it sends change nothing here.                                *)
(*                                                                         *)
(* Assumed of the clients: a report or a hero pick names its sender.  The  *)
(* server finds the connection by the uuid of the message and the player   *)
(* it flags by the player_uid of the payload, and never compares the two.  *)
(***************************************************************************)
EXTENDS Naturals, FiniteSets

CONSTANTS
    Client,
    Players     \* _config.Players, the size of the lobby

ASSUME SessionAssumption ==
    /\ IsFiniteSet(Client)
    /\ Players \in Nat \ {0}

VARIABLES
    stage,      \* the stage that runs, or how the server stopped
    connected,  \* the clients of _playersConnections
    silent,     \* those of them in ConnectionStatus::TIMEOUT
    done,       \* those whose flag in the players of this stage is set
    hero,       \* client -> the hero of its PlayerInfo
    told,       \* client -> what the server sent to it
    sent,       \* client -> which reports it sent
    gone        \* the clients that left for good, all their packets included

vars == <<stage, connected, silent, done, hero, told, sent, gone>>

Stages == {"lobby", "pick", "worldgen", "running"}
Stopped == {"over", "aborted"}

\* The types of the message protocol; GameWorld knows the first two.
HeroType == {"WARRIOR", "MAGE", "ROGUE"}
Playable == {"WARRIOR", "MAGE"}

TypeOK ==
    /\ stage \in Stages \cup Stopped
    /\ connected \subseteq Client
    /\ silent \subseteq connected
    /\ done \subseteq connected
    /\ hero \in [Client -> HeroType]
    /\ told \in [Client -> SUBSET {"accepted", "pick", "generate", "start"}]
    /\ sent \in [Client -> SUBSET {"ready", "generated"}]
    /\ gone \subseteq Client

Init ==
    /\ stage = "lobby"
    /\ connected = {}
    /\ silent = {}
    /\ done = {}
    /\ hero = [c \in Client |-> "WARRIOR"]
    /\ told = [c \in Client |-> {}]
    /\ sent = [c \in Client |-> {}]
    /\ gone = {}

-----------------------------------------------------------------------------
(* The clients: each reports when it is told to, under the uid it was      *)
(* given, which it knows once it has its acceptance.                       *)

Reports(c, report, order) ==
    /\ {"accepted", order} \subseteq told[c]
    /\ c \notin gone /\ report \notin sent[c]
    /\ sent' = [sent EXCEPT ![c] = @ \cup {report}]
    /\ UNCHANGED <<stage, connected, silent, done, hero, told, gone>>

ClientReady(c) == Reports(c, "ready", "pick")

ClientGenerated(c) == Reports(c, "generated", "generate")

\* The client stops, or its network does, and nothing of it is under way.
Leaves(c) ==
    /\ c \notin gone
    /\ gone' = gone \cup {c}
    /\ UNCHANGED <<stage, connected, silent, done, hero, told, sent>>

\* 180 s without a packet from c.
FallsSilent(c) ==
    /\ stage \in Stages
    /\ c \in connected \ silent
    /\ silent' = silent \cup {c}
    /\ UNCHANGED <<stage, connected, done, hero, told, sent, gone>>

-----------------------------------------------------------------------------
(* Packets.                                                                *)

\* The lobby takes everybody who is not in it, however many there are; a
\* second request of the same client is ignored.
HearConnection(c) ==
    /\ stage = "lobby"
    /\ c \notin connected
    /\ connected' = connected \cup {c}
    /\ told' = [told EXCEPT ![c] = @ \cup {"accepted"}]
    /\ UNCHANGED <<stage, silent, done, hero, sent, gone>>

\* Any packet of a player counts as a sign of life, but only a ping does so
\* in the lobby.
HearPing(c) ==
    /\ stage \in Stages
    /\ c \in connected
    /\ "accepted" \in told[c]
    /\ silent' = silent \ {c}
    /\ UNCHANGED <<stage, connected, done, hero, told, sent, gone>>

HearHeroPick(c, type) ==
    /\ stage = "pick"
    /\ c \in connected
    /\ {"accepted", "pick"} \subseteq told[c]
    /\ hero' = [hero EXCEPT ![c] = type]
    /\ silent' = silent \ {c}
    /\ UNCHANGED <<stage, connected, done, told, sent, gone>>

\* A report sets the flag of the player it names, its sender by assumption, in
\* the stage it belongs to; in other stages it is no more than a sign of life.
HearReport(c, report) ==
    /\ stage \in Stages \ {"lobby"}
    /\ c \in connected
    /\ report \in sent[c]
    /\ done' = IF <<stage, report>> \in {<<"pick", "ready">>, <<"worldgen", "generated">>}
               THEN done \cup {c} ELSE done
    /\ silent' = silent \ {c}
    /\ UNCHANGED <<stage, connected, hero, told, sent, gone>>

HearsFrom(c) ==
    /\ c \notin gone
    /\ \/ HearConnection(c)
       \/ HearPing(c)
       \/ \E type \in HeroType : HearHeroPick(c, type)
       \/ \E report \in {"ready", "generated"} : HearReport(c, report)

-----------------------------------------------------------------------------
(* The look at the stage after the socket is drained.                      *)

\* SendMulticast of the message that opens the next stage.
Tell(clients, news) ==
    told' = [c \in Client |-> IF c \in clients THEN told[c] \cup {news} ELSE told[c]]

\* The next stage keeps flags of its own.
Enter(next, clients, news) ==
    /\ stage' = next
    /\ done' = {}
    /\ Tell(clients, news)

\* Mutant of LobbyPass: the players that were removed are still looked at.
LobbyPassMarksStay ==
    /\ stage = "lobby"
    /\ connected' = connected \ silent
    /\ IF Cardinality(connected') = Players
       THEN Enter("pick", connected', "pick")
       ELSE UNCHANGED <<stage, done, told>>
    /\ UNCHANGED <<silent, hero, sent, gone>>

\* Mutant of LobbyPass: a lobby that is more than full will do.
LobbyPassAtLeast ==
    /\ stage = "lobby"
    /\ connected' = connected \ silent
    /\ silent' = {}
    /\ IF Cardinality(connected') >= Players
       THEN Enter("pick", connected', "pick")
       ELSE UNCHANGED <<stage, done, told>>
    /\ UNCHANGED <<hero, sent, gone>>

\* Silent players are removed; exactly Players of them go on.
LobbyPass ==
    /\ stage = "lobby"
    /\ connected' = connected \ silent
    /\ silent' = {}
    /\ IF Cardinality(connected') = Players
       THEN Enter("pick", connected', "pick")
       ELSE UNCHANGED <<stage, done, told>>
    /\ UNCHANGED <<hero, sent, gone>>

\* Mutant of Timeout: only world generation looks at the connections.
TimeoutLate ==
    /\ stage = "worldgen"
    /\ silent # {}
    /\ stage' = "over"
    /\ UNCHANGED <<connected, silent, done, hero, told, sent, gone>>

\* One silent player ends the server, exception and all.
Timeout ==
    /\ stage \in {"pick", "worldgen"}
    /\ silent # {}
    /\ stage' = "over"
    /\ UNCHANGED <<connected, silent, done, hero, told, sent, gone>>

EveryoneDone == silent = {} /\ connected = done

\* Mutant of PickPass: world generation goes on with the flags of the pick.
PickPassKeepsFlags ==
    /\ stage = "pick"
    /\ EveryoneDone
    /\ IF \A c \in connected : hero[c] \in Playable
       THEN stage' = "worldgen" /\ Tell(connected, "generate")
       ELSE stage' = "aborted" /\ UNCHANGED told
    /\ UNCHANGED <<connected, silent, done, hero, sent, gone>>

\* The world is constructed; a hero it does not know fails its assertion.
PickPass ==
    /\ stage = "pick"
    /\ EveryoneDone
    /\ IF \A c \in connected : hero[c] \in Playable
       THEN Enter("worldgen", connected, "generate")
       ELSE stage' = "aborted" /\ UNCHANGED <<done, told>>
    /\ UNCHANGED <<connected, silent, hero, sent, gone>>

GenerationPass ==
    /\ stage = "worldgen"
    /\ EveryoneDone
    /\ Enter("running", connected, "start")
    /\ UNCHANGED <<connected, silent, hero, sent, gone>>

\* No packet is waiting and nobody is active.
Abandoned ==
    /\ stage = "running"
    /\ silent = connected
    /\ stage' = "over"
    /\ UNCHANGED <<connected, silent, done, hero, told, sent, gone>>

\* The world says that the game is over.
WorldFinished ==
    /\ stage = "running"
    /\ stage' = "over"
    /\ UNCHANGED <<connected, silent, done, hero, told, sent, gone>>

Pass == LobbyPass \/ Timeout \/ PickPass \/ GenerationPass \/ Abandoned

Halted == stage \in Stopped /\ UNCHANGED vars

Next ==
    \/ \E c \in Client :
         ClientReady(c) \/ ClientGenerated(c) \/ Leaves(c) \/ FallsSilent(c) \/ HearsFrom(c)
    \/ Pass
    \/ WorldFinished
    \/ Halted

Spec == Init /\ [][Next]_vars

\* The loop comes round every 10 ms, and 180 s without a packet of a client
\* that left go by.  Nothing makes a client leave, answer or stay.
LoopSpec ==
    /\ Spec
    /\ WF_vars(Pass)
    /\ \A c \in Client : WF_vars(c \in gone /\ FallsSilent(c))
-----------------------------------------------------------------------------
(* Properties.                                                             *)

\* A game is played by exactly as many players as the lobby is configured
\* for, although more may join between two looks at its size and silent ones
\* are removed at the same look.
FullHouse == stage \in {"pick", "worldgen", "running"} => Cardinality(connected) = Players

\* Nobody is told that the game starts before every player has said that it
\* is ready and then that it generated the map, each report in answer to the
\* server's order, however late, often or out of order the packets come.
StartedTogether ==
    (\E c \in Client : "start" \in told[c]) =>
        \A c \in connected : sent[c] = {"ready", "generated"}

\* A server whose players all left after the lobby was full stops, in
\* whatever stage they did, and its port and its worker become free.
AbandonedServerStops ==
    (stage \in Stages \ {"lobby"} /\ connected \subseteq gone) ~> stage \in Stopped

\* The constructor of GameWorld asserts that it knows the hero of every
\* player: assert(false) in the default branch.
HeroesKnown == stage # "aborted"
=============================================================================
