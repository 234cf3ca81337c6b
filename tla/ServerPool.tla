----------------------------- MODULE ServerPool -----------------------------
(***************************************************************************)
(* The GameServersController: find-game tasks of the master server ask it, *)
(* several at a time, for the port of a game server whose lobby is         *)
(* forming; it starts a server when there is none.  A server runs as a     *)
(* task of Poco's TaskManager on a worker of Poco's ThreadPool, and its    *)
(* port goes back to the controller when its task finishes.                *)
(*                                                                         *)
(* Of the inside of a game server only this is kept: its lobby fills or it *)
(* does not, and a server that listens may end at any time.  Poco is       *)
(* modelled from the calls the controller makes; its order at the end of a *)
(* task (notify, forget the task, free the worker) is the one onFinished   *)
(* relies on when it reads the port from the task.                         *)
(***************************************************************************)
EXTENDS SequencesExt

CONSTANTS
    Finder,     \* the find-game tasks that run at a time
    Server,     \* bound: the GameServer objects that exist at a time
    Workers     \* the worker threads, and as many ports

ASSUME PoolAssumption ==
    /\ IsFiniteSet(Finder) /\ IsFiniteSet(Server)
    /\ Workers \in Nat \ {0}

Port == 1 .. Workers

VARIABLES
    freePorts,  \* _availablePorts, a stack at the back of a deque
    listed,     \* the task list of the TaskManager
    life,       \* server -> how far its task is
    lobby,      \* the servers whose _state is LOBBY_FORMING
    port,       \* server -> its _config.Port
    bound,      \* the servers whose socket was bound
    at,         \* finder -> where in GetServerAddress it is
    scan,       \* finder -> the part of its copy of the list still to look at
    refs,       \* finder -> the servers its copy of the list keeps alive
    inHand,     \* finder -> the port it took, if any
    made,       \* finder -> the server it constructed, if any
    crashed,    \* pop_back on an empty deque
    overlapped  \* history: two find-game tasks were in the controller at once

poolVars == <<freePorts, listed, life, lobby, port, bound>>
finderVars == <<at, scan, refs, inHand, made>>
vars == <<poolVars, finderVars, crashed, overlapped>>

\* "made": constructed, not started; "over": runTask has returned; "posted":
\* the observers know; "forgotten": off the list, the worker still busy.
Lives == {"none", "made", "running", "over", "posted", "forgotten"}

TypeOK ==
    /\ freePorts \in Seq(Port)
    /\ listed \in Seq(Server)
    /\ life \in [Server -> Lives]
    /\ lobby \subseteq Server
    /\ port \in [Server -> Port]
    /\ bound \subseteq Server
    /\ at \in [Finder -> {"idle", "scan", "pop", "make", "start"}]
    /\ scan \in [Finder -> Seq(Server)]
    /\ refs \in [Finder -> SUBSET Server]
    /\ inHand \in [Finder -> SUBSET Port]
    /\ made \in [Finder -> SUBSET Server]
    /\ crashed \in BOOLEAN /\ overlapped \in BOOLEAN

\* Mutant of Init: the constructor's loop runs once too often.
InitOneMore ==
    /\ freePorts = [i \in 1 .. Workers + 1 |-> i]
    /\ listed = <<>>
    /\ life = [s \in Server |-> "none"]
    /\ lobby = {}
    /\ port = [s \in Server |-> 1]
    /\ bound = {}
    /\ at = [f \in Finder |-> "idle"]
    /\ scan = [f \in Finder |-> <<>>]
    /\ refs = [f \in Finder |-> {}]
    /\ inHand = [f \in Finder |-> {}]
    /\ made = [f \in Finder |-> {}]
    /\ crashed = FALSE
    /\ overlapped = FALSE

Init ==
    /\ freePorts = [i \in 1 .. Workers |-> i]
    /\ listed = <<>>
    /\ life = [s \in Server |-> "none"]
    /\ lobby = {}
    /\ port = [s \in Server |-> 1]
    /\ bound = {}
    /\ at = [f \in Finder |-> "idle"]
    /\ scan = [f \in Finder |-> <<>>]
    /\ refs = [f \in Finder |-> {}]
    /\ inHand = [f \in Finder |-> {}]
    /\ made = [f \in Finder |-> {}]
    /\ crashed = FALSE
    /\ overlapped = FALSE

Busy == {s \in Server : life[s] \in {"running", "over", "posted", "forgotten"}}

\* ThreadPool::available
IdleWorkers == Workers - Cardinality(Busy)

Copied == UNION {refs[f] : f \in Finder}

\* The object exists: somebody holds a pointer to it.
Exists(s) == life[s] \notin {"none", "forgotten"} \/ s \in Copied

\* Where the next object goes; the destroyed ones are not told apart.
FreeSlots == {s \in Server : life[s] = "none" /\ ~Exists(s)}
FreeSlot == CHOOSE s \in FreeSlots : TRUE

-----------------------------------------------------------------------------
(* GetServerAddress, called by finder f.                                   *)

\* f leaves: its copy of the list is destroyed.
Leave(f) ==
    /\ at' = [at EXCEPT ![f] = "idle"]
    /\ scan' = [scan EXCEPT ![f] = <<>>]
    /\ refs' = [refs EXCEPT ![f] = {}]
    /\ inHand' = [inHand EXCEPT ![f] = {}]
    /\ made' = [made EXCEPT ![f] = {}]

Goto(f, where) == at[f] # where /\ at' = [at EXCEPT ![f] = where]

CopyList(f) ==
    /\ at[f] = "idle"
    /\ Goto(f, "scan")
    /\ scan' = [scan EXCEPT ![f] = listed]
    /\ refs' = [refs EXCEPT ![f] = ToSet(listed)]
    /\ UNCHANGED <<poolVars, inHand, made, crashed>>

\* The next server's lobby is forming: its port is the answer.
Offer(f) ==
    /\ at[f] = "scan" /\ scan[f] # <<>>
    /\ Head(scan[f]) \in lobby
    /\ Leave(f)
    /\ UNCHANGED <<poolVars, crashed>>

\* Mutant of PassBy: the stage of the server is not looked at.
PassByAny(f) ==
    /\ at[f] = "scan" /\ scan[f] # <<>>
    /\ scan' = [scan EXCEPT ![f] = Tail(@)]
    /\ UNCHANGED <<poolVars, at, refs, inHand, made, crashed>>

PassBy(f) ==
    /\ at[f] = "scan" /\ scan[f] # <<>>
    /\ Head(scan[f]) \notin lobby
    /\ scan' = [scan EXCEPT ![f] = Tail(@)]
    /\ UNCHANGED <<poolVars, at, refs, inHand, made, crashed>>

\* Mutant of SeesWorker: the workers are not counted.
SeesWorkerAlways(f) ==
    /\ at[f] = "scan" /\ scan[f] = <<>>
    /\ Goto(f, "pop")
    /\ UNCHANGED <<poolVars, scan, refs, inHand, made, crashed>>

\* No lobby is forming and a worker is idle at this moment.
SeesWorker(f) ==
    /\ at[f] = "scan" /\ scan[f] = <<>>
    /\ IdleWorkers > 0
    /\ Goto(f, "pop")
    /\ UNCHANGED <<poolVars, scan, refs, inHand, made, crashed>>

\* The request is dropped: there is no answer.
SeesNoWorker(f) ==
    /\ at[f] = "scan" /\ scan[f] = <<>>
    /\ IdleWorkers = 0
    /\ Leave(f)
    /\ UNCHANGED <<poolVars, crashed>>

\* Mutant of PopPort: back without pop_back.
PopPortKept(f) ==
    /\ at[f] = "pop" /\ freePorts # <<>>
    /\ Goto(f, "make")
    /\ inHand' = [inHand EXCEPT ![f] = {Last(freePorts)}]
    /\ UNCHANGED <<poolVars, scan, refs, made, crashed>>

PopPort(f) ==
    /\ at[f] = "pop" /\ freePorts # <<>>
    /\ Goto(f, "make")
    /\ inHand' = [inHand EXCEPT ![f] = {Last(freePorts)}]
    /\ freePorts' = Front(freePorts)
    /\ UNCHANGED <<listed, life, lobby, port, bound, scan, refs, made, crashed>>

\* Undefined behaviour: nobody looks whether a port is left.
PopNothing(f) ==
    /\ at[f] = "pop" /\ freePorts = <<>>
    /\ crashed' = TRUE
    /\ UNCHANGED <<poolVars, finderVars>>

\* The constructor of GameServer.  While another socket is bound to the port
\* the bind fails; the failure is logged and the server stays as it is.
Make(f) ==
    /\ at[f] = "make"
    /\ FreeSlots # {}
    /\ Goto(f, "start")
    /\ \E s \in {FreeSlot}, p \in inHand[f] :
         /\ life' = [life EXCEPT ![s] = "made"]
         /\ lobby' = lobby \cup {s}
         /\ port' = [port EXCEPT ![s] = p]
         /\ bound' = IF \E r \in bound : Exists(r) /\ port[r] = p
                     THEN bound \ {s}
                     ELSE bound \cup {s}
         /\ made' = [made EXCEPT ![f] = {s}]
    /\ UNCHANGED <<freePorts, listed, scan, refs, inHand, crashed>>

\* TaskManager::start: an idle worker takes the server, f answers its port.
Start(f) ==
    /\ at[f] = "start"
    /\ IdleWorkers > 0
    /\ \E s \in made[f] :
         /\ life' = [life EXCEPT ![s] = "running"]
         /\ listed' = Append(listed, s)
    /\ Leave(f)
    /\ UNCHANGED <<freePorts, lobby, port, bound, crashed>>

\* Another finder was faster: start throws, the server is destroyed, its
\* port is lost and the request dropped.
StartFails(f) ==
    /\ at[f] = "start"
    /\ IdleWorkers = 0
    /\ life' = [s \in Server |-> IF s \in made[f] THEN "none" ELSE life[s]]
    /\ Leave(f)
    /\ UNCHANGED <<freePorts, listed, lobby, port, bound, crashed>>

-----------------------------------------------------------------------------
(* The task of server s.                                                   *)

\* The lobby is full; the server enters the later stages.
LobbyFills(s) ==
    /\ life[s] = "running" /\ s \in lobby \cap bound
    /\ lobby' = lobby \ {s}
    /\ UNCHANGED <<freePorts, listed, life, port, bound, finderVars, crashed>>

\* A stage throws, or the last one ends.  A server nobody can send to has
\* nobody to wait for either: it never gets past its lobby.
Ends(s) ==
    /\ life[s] = "running" /\ s \in bound
    /\ life' = [life EXCEPT ![s] = "over"]
    /\ UNCHANGED <<freePorts, listed, lobby, port, bound, finderVars, crashed>>

\* Mutant of OnFinished: the port is not returned.
OnFinishedForgets(s) ==
    /\ life[s] = "over"
    /\ life' = [life EXCEPT ![s] = "posted"]
    /\ UNCHANGED <<freePorts, listed, lobby, port, bound, finderVars, crashed>>

\* onFinished: the port is free again, while the server still exists.
OnFinished(s) ==
    /\ life[s] = "over"
    /\ life' = [life EXCEPT ![s] = "posted"]
    /\ freePorts' = Append(freePorts, port[s])
    /\ UNCHANGED <<listed, lobby, port, bound, finderVars, crashed>>

\* The TaskManager drops the task; the last pointer destroys the server.
Forget(s) ==
    /\ life[s] = "posted"
    /\ life' = [life EXCEPT ![s] = "forgotten"]
    /\ \E i \in DOMAIN listed : listed[i] = s /\ listed' = RemoveAt(listed, i)
    /\ UNCHANGED <<freePorts, lobby, port, bound, finderVars, crashed>>

FreeWorker(s) ==
    /\ life[s] = "forgotten"
    /\ life' = [life EXCEPT ![s] = "none"]
    /\ UNCHANGED <<freePorts, listed, lobby, port, bound, finderVars, crashed>>

Call(f) ==
    \/ CopyList(f) \/ Offer(f) \/ PassBy(f) \/ SeesWorker(f) \/ SeesNoWorker(f)
    \/ PopPort(f) \/ PopNothing(f) \/ Make(f) \/ Start(f) \/ StartFails(f)

Run(s) == LobbyFills(s) \/ Ends(s) \/ OnFinished(s) \/ Forget(s) \/ FreeWorker(s)

Inside == {f \in Finder : at[f] # "idle"}

Next ==
    \/ /\ ~crashed
       /\ (\E f \in Finder : Call(f)) \/ (\E s \in Server : Run(s))
       /\ overlapped' = (overlapped \/ Cardinality(Inside') > 1)
    \/ crashed /\ UNCHANGED vars

Spec == Init /\ [][Next]_vars
-----------------------------------------------------------------------------
(* Properties.                                                             *)

\* The owners of a port outside the deque: finders on their way to start a
\* server, and servers whose end is not known yet.
PortHolders(p) ==
    {f \in Finder : at[f] = "make" /\ p \in inHand[f]}
        \cup {s \in Server : life[s] \in {"made", "running", "over"} /\ port[s] = p}

\* A port is never handed out twice: the deque lists it at most once, and
\* then nobody holds it, whatever finders and ending servers overtake each
\* other between the two mutexes.
PortOwnedOnce ==
    \A p \in Port :
        LET entries == {i \in DOMAIN freePorts : freePorts[i] = p} IN
        Cardinality(entries) + Cardinality(PortHolders(p)) <= 1

\* Until two requests overlap no port is lost: each is in the deque or held.
PortsConserved ==
    ~overlapped => \A p \in Port : p \in ToSet(freePorts) \/ PortHolders(p) # {}

\* Until two requests overlap the deque is never popped when it is empty: an
\* idle worker stands for a free port, while servers end behind the request.
NeverCrashes == ~overlapped => ~crashed

\* Until two requests overlap players gather in one lobby: a server is not
\* started while the lobby of another one is forming.
OneLobby == ~overlapped => Cardinality({s \in lobby : life[s] = "running"}) <= 1

\* "If no servers available - start new one and return its address": a
\* server that was started listens at its address.
StartedServerListens == \A s \in Server : life[s] = "running" => s \in bound
=============================================================================
