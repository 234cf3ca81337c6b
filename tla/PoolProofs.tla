----------------------------- MODULE PoolProofs -----------------------------
(***************************************************************************)
(* Proofs about ServerPool for any numbers of requests, objects, workers.  *)
(*                                                                         *)
(* A port has one owner whatever overtakes what.  The other properties     *)
(* hold until two requests overlap, because then one finder at most is     *)
(* inside and the workers it saw idle stay idle until it takes one.        *)
(***************************************************************************)
EXTENDS ServerPool, FiniteSetTheorems, SequenceTheorems, TLAPS

HandedTo(f, p) == at[f] = "make" /\ p \in inHand[f]
Uses(s, p) == life[s] \in {"made", "running", "over"} /\ port[s] = p

\* The deque lists no port twice, and none that somebody has.
Deque ==
    /\ \A i, j \in DOMAIN freePorts : freePorts[i] = freePorts[j] => i = j
    /\ \A i \in DOMAIN freePorts :
         /\ \A f \in Finder : ~HandedTo(f, freePorts[i])
         /\ \A s \in Server : ~Uses(s, freePorts[i])

\* No two have the same port.
Owners ==
    \A p \in Port :
        /\ \A f, g \in Finder : HandedTo(f, p) /\ HandedTo(g, p) => f = g
        /\ \A s, t \in Server : Uses(s, p) /\ Uses(t, p) => s = t
        /\ \A f \in Finder, s \in Server : ~(HandedTo(f, p) /\ Uses(s, p))

\* What a finder has on its way from one step to the next.
Hands ==
    /\ \A f \in Finder : at[f] = "make" => \E p \in Port : inHand[f] = {p}
    /\ \A f \in Finder : at[f] = "start" => \E s \in Server : made[f] = {s} /\ life[s] = "made"
    /\ \A f, g \in Finder : at[f] = "start" /\ at[g] = "start" /\ made[f] = made[g] => f = g
    /\ \A s \in Server : life[s] = "made" => \E f \in Finder : at[f] = "start" /\ made[f] = {s}

Listed ==
    \A s \in Server : life[s] \in {"running", "over", "posted"} =>
        \E i \in DOMAIN listed : listed[i] = s

Always == TypeOK /\ Deque /\ Owners /\ Hands /\ Listed

Forming == {s \in lobby : life[s] = "running"}

\* Until two requests overlap: one finder is inside at most, the worker it
\* saw is idle still, no port is lost, and it misses no forming lobby.
Serial ==
    /\ ~crashed
    /\ \A f, g \in Finder : at[f] # "idle" /\ at[g] # "idle" => f = g
    /\ \A f \in Finder : at[f] \in {"pop", "make", "start"} => IdleWorkers > 0
    /\ \A p \in Port : \/ \E i \in DOMAIN freePorts : freePorts[i] = p
                       \/ \E f \in Finder : HandedTo(f, p)
                       \/ \E s \in Server : Uses(s, p)
    /\ \A f \in Finder : at[f] = "scan" =>
         \A s \in Forming : \E i \in DOMAIN scan[f] : scan[f][i] = s
    /\ \A f \in Finder : at[f] \in {"pop", "make", "start"} => Forming = {}
    /\ \A s, t \in Forming : s = t

Inv == Always /\ (~overlapped => Serial)

-----------------------------------------------------------------------------
(* Sequences and counting.                                                 *)

LEMMA LastFront ==
    ASSUME NEW S, NEW s \in Seq(S), s # <<>>
    PROVE  /\ Front(s) \in Seq(S) /\ Last(s) \in S
           /\ Len(s) \in Nat /\ Len(s) > 0 /\ Last(s) = s[Len(s)]
           /\ DOMAIN s = 1 .. Len(s) /\ DOMAIN Front(s) = 1 .. Len(s) - 1
           /\ \A i \in DOMAIN Front(s) : Front(s)[i] = s[i]
  <1>1. /\ Len(s) \in Nat /\ Len(s) # 0 /\ s \in [1 .. Len(s) -> S]
        /\ DOMAIN s = 1 .. Len(s)
    BY LenProperties, EmptySeq
  <1>2. \A i \in 1 .. Len(s) - 1 : s[i] \in S
    BY <1>1
  <1>3. /\ SubSeq(s, 1, Len(s) - 1) \in Seq(S)
        /\ Len(SubSeq(s, 1, Len(s) - 1)) = Len(s) - 1
        /\ \A i \in 1 .. Len(s) - 1 : SubSeq(s, 1, Len(s) - 1)[i] = s[i]
    <2>1. 1 \in Int /\ Len(s) - 1 \in Int
      BY <1>1
    <2>2. /\ SubSeq(s, 1, Len(s) - 1) \in Seq(S)
          /\ Len(SubSeq(s, 1, Len(s) - 1)) = IF 1 <= Len(s) - 1 THEN Len(s) - 1 - 1 + 1 ELSE 0
          /\ \A i \in 1 .. Len(s) - 1 - 1 + 1 : SubSeq(s, 1, Len(s) - 1)[i] = s[1 + i - 1]
      BY <1>2, <2>1, SubSeqProperties
    <2> QED
      BY <1>1, <2>2
  <1> QED
    BY <1>1, <1>3, LenProperties DEF Front, Last

LEMMA Removed ==
    ASSUME NEW S, NEW s \in Seq(S), NEW i \in DOMAIN s
    PROVE  /\ RemoveAt(s, i) \in Seq(S)
           /\ \A k \in DOMAIN s : k # i =>
                \E j \in DOMAIN RemoveAt(s, i) : RemoveAt(s, i)[j] = s[k]
  <1> DEFINE a == SubSeq(s, 1, i - 1)
             b == SubSeq(s, i + 1, Len(s))
  <1>1. /\ Len(s) \in Nat /\ s \in [1 .. Len(s) -> S] /\ DOMAIN s = 1 .. Len(s)
        /\ i \in 1 .. Len(s)
    BY LenProperties
  <1>2. /\ a \in Seq(S) /\ Len(a) = i - 1
        /\ \A k \in 1 .. i - 1 : a[k] = s[k]
    <2>1. \A k \in 1 .. i - 1 : s[k] \in S
      BY <1>1
    <2>2. 1 \in Int /\ i - 1 \in Int
      BY <1>1
    <2>3. /\ a \in Seq(S)
          /\ Len(a) = IF 1 <= i - 1 THEN i - 1 - 1 + 1 ELSE 0
          /\ \A k \in 1 .. i - 1 - 1 + 1 : a[k] = s[1 + k - 1]
      BY <2>1, <2>2, SubSeqProperties
    <2> QED
      BY <1>1, <2>3
  <1>3. /\ b \in Seq(S) /\ Len(b) = Len(s) - i
        /\ \A k \in 1 .. Len(s) - i : b[k] = s[i + k]
    <2>1. \A k \in i + 1 .. Len(s) : s[k] \in S
      BY <1>1
    <2>2. i + 1 \in Int /\ Len(s) \in Int
      BY <1>1
    <2>3. /\ b \in Seq(S)
          /\ Len(b) = IF i + 1 <= Len(s) THEN Len(s) - (i + 1) + 1 ELSE 0
          /\ \A k \in 1 .. Len(s) - (i + 1) + 1 : b[k] = s[i + 1 + k - 1]
      BY <2>1, <2>2, SubSeqProperties
    <2> QED
      BY <1>1, <2>3
  <1> HIDE DEF a, b
  <1>4. /\ a \o b \in Seq(S) /\ Len(a \o b) = Len(s) - 1
        /\ \A k \in 1 .. Len(s) - 1 : (a \o b)[k] = IF k <= i - 1 THEN a[k] ELSE b[k - (i - 1)]
    <2>1. /\ a \o b \in Seq(S) /\ Len(a \o b) = Len(a) + Len(b)
          /\ \A k \in 1 .. Len(a) + Len(b) :
               (a \o b)[k] = IF k <= Len(a) THEN a[k] ELSE b[k - Len(a)]
      BY <1>2, <1>3, ConcatProperties
    <2>2. Len(a) + Len(b) = Len(s) - 1
      BY <1>1, <1>2, <1>3
    <2> QED
      BY <2>1, <2>2, <1>2
  <1>5. RemoveAt(s, i) = a \o b
    BY DEF RemoveAt, a, b
  <1>6. DOMAIN (a \o b) = 1 .. Len(s) - 1
    BY <1>4, LenProperties
  <1>7. ASSUME NEW k \in DOMAIN s, k # i
        PROVE  \E j \in DOMAIN (a \o b) : (a \o b)[j] = s[k]
    <2>1. CASE k < i
      <3>1. k \in 1 .. Len(s) - 1 /\ k <= i - 1 /\ k \in 1 .. i - 1
        BY <2>1, <1>1, <1>7
      <3> QED
        BY <3>1, <1>2, <1>4, <1>6
    <2>2. CASE k > i
      <3>1. k - 1 \in 1 .. Len(s) - 1 /\ ~(k - 1 <= i - 1) /\ k - 1 - (i - 1) = k - i
            /\ k - i \in 1 .. Len(s) - i /\ i + (k - i) = k
        BY <2>2, <1>1, <1>7
      <3> QED
        BY <3>1, <1>3, <1>4, <1>6
    <2> QED
      BY <2>1, <2>2, <1>1, <1>7
  <1> QED
    BY <1>4, <1>5, <1>7

-----------------------------------------------------------------------------
(* What holds always.                                                      *)

LEMMA InitAlways == Init => Always
  <1> SUFFICES ASSUME Init PROVE Always
    OBVIOUS
  <1>1. freePorts \in Seq(Port) /\ DOMAIN freePorts = 1 .. Workers
        /\ \A i \in 1 .. Workers : freePorts[i] = i
    <2>1. freePorts = [i \in 1 .. Workers |-> i]
      BY DEF Init
    <2>2. freePorts \in [1 .. Workers -> Port]
      BY <2>1 DEF Port
    <2>3. freePorts \in Seq(Port)
      BY <2>2, PoolAssumption, SeqDef
    <2> QED
      BY <2>1, <2>3
  <1>2. <<>> \in Seq(Server) /\ 1 \in Port
    BY PoolAssumption DEF Port
  <1>3. TypeOK
    BY <1>1, <1>2 DEF Init, TypeOK, Lives
  <1>4. Deque /\ Owners
    BY <1>1 DEF Init, Deque, Owners, HandedTo, Uses
  <1>5. Hands /\ Listed
    BY DEF Init, Hands, Listed
  <1> QED
    BY <1>3, <1>4, <1>5 DEF Always

\* A finder that leaves from the scan or goes on without a port.
LEMMA LooksKeep ==
    ASSUME Always, NEW f \in Finder,
           \/ CopyList(f) \/ Offer(f) \/ PassBy(f) \/ SeesWorker(f)
           \/ SeesNoWorker(f) \/ PopNothing(f),
           overlapped' \in BOOLEAN
    PROVE  Always'
  <1> DEFINE where == {"idle", "scan", "pop"}
  <1>1. /\ UNCHANGED poolVars
        /\ at' \in [Finder -> {"idle", "scan", "pop", "make", "start"}]
        /\ at[f] \in where /\ at'[f] \in where
        /\ \A g \in Finder \ {f} : at'[g] = at[g] /\ inHand'[g] = inHand[g] /\ made'[g] = made[g]
    BY DEF Always, TypeOK, CopyList, Offer, PassBy, SeesWorker, SeesNoWorker, PopNothing,
           Leave, Goto, finderVars, poolVars
  <1>2. \A g \in Finder, p \in Port : HandedTo(g, p)' <=> HandedTo(g, p)
    BY <1>1 DEF HandedTo
  <1>3. \A s \in Server, p \in Port : Uses(s, p)' <=> Uses(s, p)
    BY <1>1 DEF Uses, poolVars
  <1>4. TypeOK'
    <2>1. CASE CopyList(f)
      <3>1. ToSet(listed) \in SUBSET Server /\ listed \in Seq(Server)
        BY DEF Always, TypeOK, ToSet
      <3> QED
        BY <2>1, <3>1 DEF Always, TypeOK, CopyList, Goto, poolVars
    <2>2. CASE Offer(f) \/ SeesNoWorker(f)
      <3>1. <<>> \in Seq(Server)
        OBVIOUS
      <3>2. Leave(f) /\ UNCHANGED <<freePorts, listed, life, lobby, port, bound, crashed>>
        BY <2>2 DEF Offer, SeesNoWorker, poolVars
      <3>3. /\ at' \in [Finder -> {"idle", "scan", "pop", "make", "start"}]
            /\ scan' \in [Finder -> Seq(Server)]
            /\ refs' \in [Finder -> SUBSET Server]
            /\ inHand' \in [Finder -> SUBSET Port]
            /\ made' \in [Finder -> SUBSET Server]
        BY <3>1, <3>2 DEF Always, TypeOK, Leave
      <3> QED
        BY <3>2, <3>3 DEF Always, TypeOK
    <2>3. CASE PassBy(f)
      <3>1. Tail(scan[f]) \in Seq(Server)
        BY <2>3, HeadTailProperties DEF Always, TypeOK, PassBy
      <3> QED
        BY <2>3, <3>1 DEF Always, TypeOK, PassBy, poolVars
    <2>4. CASE SeesWorker(f) \/ PopNothing(f)
      BY <2>4 DEF Always, TypeOK, SeesWorker, PopNothing, Goto, finderVars, poolVars
    <2> QED
      BY <2>1, <2>2, <2>3, <2>4
  <1>5. Deque'
    BY <1>1, <1>2, <1>3, LenProperties DEF Always, TypeOK, Deque, poolVars
  <1>6. Owners'
    BY <1>2, <1>3 DEF Always, Owners
  <1>7. Hands'
    <2>1. \A g \in Finder :
            /\ at'[g] \in {"make", "start"} => g # f
            /\ g # f => (at'[g] = at[g] /\ inHand'[g] = inHand[g] /\ made'[g] = made[g])
            /\ at[g] \in {"make", "start"} => g # f
      BY <1>1
    <2>2. life' = life
      BY <1>1 DEF poolVars
    <2> Hands
      BY DEF Always
    <2>3. ASSUME NEW g \in Finder, at'[g] = "make" PROVE \E p \in Port : inHand'[g] = {p}
      <3>1. at[g] = "make" /\ inHand'[g] = inHand[g]
        BY <2>1, <2>3
      <3>2. PICK p \in Port : inHand[g] = {p}
        BY <3>1 DEF Hands
      <3> QED
        BY <3>1, <3>2
    <2>4. ASSUME NEW g \in Finder, at'[g] = "start"
          PROVE  \E s \in Server : made'[g] = {s} /\ life'[s] = "made"
      <3>1. at[g] = "start" /\ made'[g] = made[g]
        BY <2>1, <2>4
      <3>2. PICK s \in Server : made[g] = {s} /\ life[s] = "made"
        BY <3>1 DEF Hands
      <3> QED
        BY <3>1, <3>2, <2>2
    <2>5. ASSUME NEW g \in Finder, NEW h \in Finder,
                 at'[g] = "start" /\ at'[h] = "start" /\ made'[g] = made'[h]
          PROVE  g = h
      <3>1. /\ at[g] = "start" /\ made'[g] = made[g]
            /\ at[h] = "start" /\ made'[h] = made[h]
        BY <2>1, <2>5
      <3>2. made[g] = made[h]
        BY <3>1, <2>5
      <3> QED
        BY <3>1, <3>2 DEF Hands
    <2>6. ASSUME NEW s \in Server, life'[s] = "made"
          PROVE  \E g \in Finder : at'[g] = "start" /\ made'[g] = {s}
      <3>1. PICK g \in Finder : at[g] = "start" /\ made[g] = {s}
        BY <2>2, <2>6 DEF Hands
      <3> QED
        BY <3>1, <2>1
    <2> QED
      BY <2>3, <2>4, <2>5, <2>6 DEF Hands
  <1>8. Listed'
    BY <1>1 DEF Always, Listed, poolVars
  <1> QED
    BY <1>4, <1>5, <1>6, <1>7, <1>8 DEF Always

\* The port at the back of the deque goes into the finder's hand.
LEMMA PopPortKeeps ==
    ASSUME Always, NEW f \in Finder, PopPort(f), overlapped' \in BOOLEAN
    PROVE  Always'
  <1> DEFINE p == Last(freePorts)
             last == Len(freePorts)
  <1>1. /\ freePorts \in Seq(Port) /\ freePorts # <<>>
        /\ freePorts' = Front(freePorts)
    BY DEF Always, TypeOK, PopPort
  <1>2. /\ freePorts' \in Seq(Port) /\ p \in Port /\ last \in Nat /\ last > 0
        /\ p = freePorts[last]
        /\ DOMAIN freePorts = 1 .. last /\ DOMAIN freePorts' = 1 .. last - 1
        /\ \A i \in 1 .. last - 1 : freePorts'[i] = freePorts[i]
    BY <1>1, LastFront
  <1> HIDE DEF p, last
  <1>3. /\ at[f] = "pop" /\ at' = [at EXCEPT ![f] = "make"]
        /\ inHand' = [inHand EXCEPT ![f] = {p}]
        /\ UNCHANGED <<listed, life, lobby, port, bound, scan, refs, made, crashed>>
    BY DEF PopPort, Goto, p
  <1>4. TypeOK'
    BY <1>2, <1>3 DEF Always, TypeOK
  <1>5. \A s \in Server, q \in Port : Uses(s, q)' <=> Uses(s, q)
    BY <1>3 DEF Uses
  <1>6. \A g \in Finder, q \in Port :
           HandedTo(g, q)' <=> (HandedTo(g, q) \/ (g = f /\ q = p))
    BY <1>3 DEF HandedTo, Always, TypeOK
  <1>7. last \in DOMAIN freePorts
    BY <1>2
  <1>8. /\ \A g \in Finder : ~HandedTo(g, p)
        /\ \A s \in Server : ~Uses(s, p)
    BY <1>2, <1>7 DEF Always, Deque
  <1>20. \A i \in DOMAIN freePorts : freePorts[i] \in Port
    BY LenProperties DEF Always, TypeOK
  <1>9. \A i \in 1 .. last - 1 : /\ i \in DOMAIN freePorts /\ freePorts[i] # p
                                 /\ freePorts'[i] = freePorts[i] /\ freePorts[i] \in Port
    BY <1>2, <1>7, <1>20 DEF Always, Deque
  <1>10. Deque'
    BY <1>2, <1>5, <1>6, <1>9 DEF Always, Deque
  <1>11. Owners'
    BY <1>5, <1>6, <1>8 DEF Always, Owners
  <1>12. Hands'
    BY <1>2, <1>3 DEF Always, Hands, TypeOK
  <1>13. Listed'
    BY <1>3 DEF Always, Listed
  <1> QED
    BY <1>4, <1>10, <1>11, <1>12, <1>13 DEF Always

\* The object takes the port over from the finder.
LEMMA MakeKeeps ==
    ASSUME Always, NEW f \in Finder, Make(f), overlapped' \in BOOLEAN
    PROVE  Always'
  <1>1. PICK p \in Port : inHand[f] = {p}
    BY DEF Always, Hands, Make
  <1>2. PICK s \in Server :
          /\ life[s] = "none"
          /\ life' = [life EXCEPT ![s] = "made"]
          /\ lobby' = lobby \cup {s}
          /\ port' = [port EXCEPT ![s] = p]
          /\ bound' = IF \E r \in bound : Exists(r) /\ port[r] = p
                      THEN bound \ {s}
                      ELSE bound \cup {s}
          /\ made' = [made EXCEPT ![f] = {s}]
    BY <1>1 DEF Make, FreeSlot, FreeSlots
  <1>3. /\ at[f] = "make" /\ at' = [at EXCEPT ![f] = "start"]
        /\ UNCHANGED <<freePorts, listed, scan, refs, inHand, crashed>>
    BY DEF Make, Goto
  <1>4. TypeOK'
    <2>1. bound' \subseteq Server
      BY <1>2 DEF Always, TypeOK
    <2> QED
      BY <1>1, <1>2, <1>3, <2>1 DEF Always, TypeOK, Lives
  <1>5. \A t \in Server, q \in Port :
           Uses(t, q)' <=> (Uses(t, q) \/ (t = s /\ q = p))
    BY <1>2 DEF Uses, Always, TypeOK
  <1>6. \A g \in Finder, q \in Port : HandedTo(g, q)' <=> (HandedTo(g, q) /\ g # f)
    BY <1>3 DEF HandedTo, Always, TypeOK
  <1>7. HandedTo(f, p)
    BY <1>1, <1>3 DEF HandedTo
  <1>8. \A i \in DOMAIN freePorts : freePorts[i] \in Port /\ freePorts[i] # p
    BY <1>7, LenProperties DEF Always, Deque, TypeOK
  <1>9. Deque'
    BY <1>3, <1>5, <1>6, <1>8 DEF Always, Deque
  <1>10. Owners'
    BY <1>5, <1>6, <1>7 DEF Always, Owners
  <1>11. Hands'
    <2> Hands
      BY DEF Always
    <2>1. \A g \in Finder : /\ g # f => at'[g] = at[g] /\ made'[g] = made[g]
                            /\ at'[f] = "start" /\ made'[f] = {s}
      BY <1>2, <1>3 DEF Always, TypeOK
    <2>2. \A t \in Server : life'[t] = IF t = s THEN "made" ELSE life[t]
      BY <1>2 DEF Always, TypeOK
    <2>3. \A g \in Finder : at'[g] = "make" => \E q \in Port : inHand'[g] = {q}
      BY <2>1, <1>3 DEF Hands
    <2>4. \A g \in Finder : at[g] = "start" =>
             \E t \in Server : made[g] = {t} /\ life[t] = "made" /\ t # s
      BY <1>2 DEF Hands
    <2>5. \A g \in Finder : at'[g] = "start" =>
             \E t \in Server : made'[g] = {t} /\ life'[t] = "made"
      BY <2>1, <2>2, <2>4
    <2>6. ASSUME NEW g \in Finder, NEW h \in Finder,
                 at'[g] = "start" /\ at'[h] = "start" /\ made'[g] = made'[h]
          PROVE  g = h
      <3>1. \A e \in Finder \ {f} : at'[e] = "start" => made'[e] # {s} /\ made'[e] = made[e]
        <4>1. ASSUME NEW e \in Finder \ {f}, at'[e] = "start"
              PROVE  made'[e] # {s} /\ made'[e] = made[e]
          <5>1. at[e] = "start" /\ made'[e] = made[e]
            BY <2>1, <4>1
          <5>2. PICK t \in Server : made[e] = {t} /\ t # s
            BY <5>1, <2>4
          <5> QED
            BY <5>1, <5>2
        <4> QED
          BY <4>1
      <3>2. CASE g # f /\ h # f
        <4>1. at[g] = "start" /\ at[h] = "start" /\ made[g] = made[h]
          BY <2>1, <2>6, <3>2
        <4> QED
          BY <4>1 DEF Hands
      <3>3. made'[f] = {s}
        BY <2>1
      <3> QED
        BY <2>6, <3>1, <3>2, <3>3
    <2>7. \A t \in Server : life'[t] = "made" => \E g \in Finder : at'[g] = "start" /\ made'[g] = {t}
      <3>1. ASSUME NEW t \in Server, life'[t] = "made", t # s
            PROVE  \E g \in Finder : at'[g] = "start" /\ made'[g] = {t}
        <4>1. PICK g \in Finder : at[g] = "start" /\ made[g] = {t}
          BY <2>2, <3>1 DEF Hands
        <4> QED
          BY <4>1, <2>1, <1>3
      <3> QED
        BY <3>1, <2>1
    <2> QED
      BY <2>3, <2>5, <2>6, <2>7 DEF Hands
  <1>12. Listed'
    BY <1>2, <1>3 DEF Always, TypeOK, Listed
  <1> QED
    BY <1>4, <1>9, <1>10, <1>11, <1>12 DEF Always

\* The finder leaves, and the server it made runs or is gone.
LEMMA StartKeeps ==
    ASSUME Always, NEW f \in Finder, Start(f) \/ StartFails(f), overlapped' \in BOOLEAN
    PROVE  Always'
  <1>1. PICK s \in Server : made[f] = {s} /\ life[s] = "made"
    BY DEF Always, Hands, Start, StartFails
  <1> DEFINE ran == Start(f)
  <1>2. /\ at[f] = "start" /\ Leave(f)
        /\ UNCHANGED <<freePorts, lobby, port, bound, crashed>>
    BY DEF Start, StartFails
  <1>3. /\ life' \in [Server -> Lives]
        /\ \A t \in Server \ {s} : life'[t] = life[t]
        /\ life'[s] \in {"running", "none"}
        /\ life'[s] = "running" => ran
    BY <1>1 DEF Start, StartFails, Always, TypeOK, Lives
  <1>4. /\ listed' \in Seq(Server)
        /\ \A i \in DOMAIN listed : i \in DOMAIN listed' /\ listed'[i] = listed[i]
        /\ ran => \E i \in DOMAIN listed' : listed'[i] = s
    <2>1. CASE ran
      <3>1. listed' = Append(listed, s) /\ listed \in Seq(Server)
        BY <1>1, <2>1 DEF Start, Always, TypeOK
      <3>2. /\ listed' \in Seq(Server) /\ Len(listed') = Len(listed) + 1
            /\ \A i \in 1 .. Len(listed) : listed'[i] = listed[i]
            /\ listed'[Len(listed) + 1] = s
        BY <3>1, AppendProperties
      <3>3. DOMAIN listed = 1 .. Len(listed) /\ DOMAIN listed' = 1 .. Len(listed')
            /\ Len(listed) \in Nat
        BY <3>1, <3>2, LenProperties
      <3> QED
        BY <3>2, <3>3
    <2>2. CASE StartFails(f) /\ ~ran
      BY <2>2 DEF StartFails, Always, TypeOK
    <2> QED
      BY <2>1, <2>2
  <1> HIDE DEF ran
  <1>5. /\ at' = [at EXCEPT ![f] = "idle"] /\ scan' = [scan EXCEPT ![f] = <<>>]
        /\ refs' = [refs EXCEPT ![f] = {}] /\ inHand' = [inHand EXCEPT ![f] = {}]
        /\ made' = [made EXCEPT ![f] = {}]
    BY <1>2 DEF Leave
  <1>6. TypeOK'
    BY <1>2, <1>3, <1>4, <1>5 DEF Always, TypeOK
  <1>7. \A t \in Server, q \in Port : Uses(t, q)' => Uses(t, q)
    BY <1>1, <1>2, <1>3 DEF Uses
  <1>8. \A g \in Finder, q \in Port : HandedTo(g, q)' => HandedTo(g, q)
    BY <1>2, <1>5 DEF HandedTo, Always, TypeOK
  <1>9. Deque'
    <2>1. \A i \in DOMAIN freePorts : freePorts[i] \in Port
      BY LenProperties DEF Always, TypeOK
    <2> QED
      BY <1>2, <1>7, <1>8, <2>1 DEF Always, Deque
  <1>10. Owners'
    BY <1>7, <1>8 DEF Always, Owners
  <1>11. Hands'
    <2> Hands
      BY DEF Always
    <2>1. /\ \A g \in Finder : g # f => at'[g] = at[g] /\ made'[g] = made[g] /\ inHand'[g] = inHand[g]
          /\ at'[f] = "idle"
      BY <1>5 DEF Always, TypeOK
    <2>2. \A g \in Finder : at'[g] = "make" => \E q \in Port : inHand'[g] = {q}
      BY <2>1 DEF Hands
    <2>3. ASSUME NEW g \in Finder, at'[g] = "start"
          PROVE  \E t \in Server : made'[g] = {t} /\ life'[t] = "made"
      <3>1. g # f /\ at[g] = "start" /\ made'[g] = made[g]
        BY <2>1, <2>3
      <3>2. PICK t \in Server : made[g] = {t} /\ life[t] = "made"
        BY <3>1 DEF Hands
      <3>3. made[g] # made[f]
        BY <1>2, <3>1 DEF Hands
      <3>5. t # s
        BY <1>1, <3>2, <3>3
      <3>4. life'[t] = "made"
        BY <1>3, <3>2, <3>5
      <3> QED
        BY <3>1, <3>2, <3>4
    <2>4. \A g, h \in Finder : at'[g] = "start" /\ at'[h] = "start" /\ made'[g] = made'[h] => g = h
      BY <2>1 DEF Hands
    <2>5. ASSUME NEW t \in Server, life'[t] = "made"
          PROVE  \E g \in Finder : at'[g] = "start" /\ made'[g] = {t}
      <3>1. t # s /\ life[t] = "made"
        BY <1>3, <2>5
      <3>2. PICK g \in Finder : at[g] = "start" /\ made[g] = {t}
        BY <3>1 DEF Hands
      <3> QED
        BY <1>1, <2>1, <3>1, <3>2
    <2> QED
      BY <2>2, <2>3, <2>4, <2>5 DEF Hands
  <1>12. Listed'
    BY <1>3, <1>4 DEF Always, Listed
  <1> QED
    BY <1>6, <1>9, <1>10, <1>11, <1>12 DEF Always

\* What holds whatever a server does, its end apart.
LEMMA RunKeeps ==
    ASSUME Always, NEW s \in Server, LobbyFills(s) \/ Ends(s) \/ Forget(s) \/ FreeWorker(s),
           overlapped' \in BOOLEAN
    PROVE  Always'
  <1>1. /\ UNCHANGED <<freePorts, port, bound, finderVars, crashed>>
        /\ UNCHANGED <<at, scan, refs, inHand, made>>
        /\ lobby' \subseteq Server
        /\ life' \in [Server -> Lives]
        /\ \A t \in Server \ {s} : life'[t] = life[t]
        /\ \/ life'[s] = life[s]
           \/ life[s] = "running" /\ life'[s] = "over"
           \/ life[s] = "posted" /\ life'[s] = "forgotten"
           \/ life[s] = "forgotten" /\ life'[s] = "none"
    BY DEF Always, TypeOK, Lives, LobbyFills, Ends, Forget, FreeWorker, finderVars
  <1>2. /\ listed' \in Seq(Server)
        /\ \A t \in Server : life'[t] \in {"running", "over", "posted"} =>
             \E i \in DOMAIN listed' : listed'[i] = t
    <2>1. CASE Forget(s)
      <3>1. PICK i \in DOMAIN listed : listed[i] = s /\ listed' = RemoveAt(listed, i)
        BY <2>1 DEF Forget
      <3>2. /\ listed' \in Seq(Server)
            /\ \A k \in DOMAIN listed : k # i =>
                 \E j \in DOMAIN listed' : listed'[j] = listed[k]
        BY <3>1, Removed DEF Always, TypeOK
      <3>3. ASSUME NEW t \in Server, life'[t] \in {"running", "over", "posted"}
            PROVE  \E j \in DOMAIN listed' : listed'[j] = t
        <4>1. t # s /\ life[t] \in {"running", "over", "posted"}
          BY <2>1, <3>3 DEF Forget, Always, TypeOK
        <4>2. PICK k \in DOMAIN listed : listed[k] = t
          BY <4>1 DEF Always, Listed
        <4> QED
          BY <3>1, <3>2, <4>1, <4>2
      <3> QED
        BY <3>2, <3>3
    <2>2. CASE LobbyFills(s) \/ Ends(s) \/ FreeWorker(s)
      <3>1. listed' = listed
        BY <2>2 DEF LobbyFills, Ends, FreeWorker
      <3>2. \A t \in Server : life'[t] \in {"running", "over", "posted"} =>
              life[t] \in {"running", "over", "posted"}
        BY <2>2, <1>1 DEF LobbyFills, Ends, FreeWorker
      <3> QED
        BY <3>1, <3>2 DEF Always, TypeOK, Listed
    <2> QED
      BY <2>1, <2>2
  <1>3. TypeOK'
    BY <1>1, <1>2 DEF Always, TypeOK
  <1>4. \A t \in Server, q \in Port : Uses(t, q)' => Uses(t, q)
    BY <1>1 DEF Uses
  <1>5. \A g \in Finder, q \in Port : HandedTo(g, q)' => HandedTo(g, q)
    BY <1>1 DEF HandedTo
  <1>6. Deque'
    <2>1. \A i \in DOMAIN freePorts : freePorts[i] \in Port
      BY LenProperties DEF Always, TypeOK
    <2> QED
      BY <1>1, <1>4, <1>5, <2>1 DEF Always, Deque
  <1>7. Owners'
    BY <1>4, <1>5 DEF Always, Owners
  <1>8. \A t \in Server : life'[t] = "made" <=> life[t] = "made"
    BY <1>1
  <1>9. Hands'
    BY <1>1, <1>8 DEF Always, Hands
  <1>10. Listed'
    BY <1>2 DEF Listed
  <1> QED
    BY <1>3, <1>6, <1>7, <1>9, <1>10 DEF Always

\* The port of a server whose task is over goes back to the deque.
LEMMA OnFinishedKeeps ==
    ASSUME Always, NEW s \in Server, OnFinished(s), overlapped' \in BOOLEAN
    PROVE  Always'
  <1> DEFINE last == Len(freePorts)
  <1>0. PICK p \in Port : p = port[s]
    BY DEF Always, TypeOK
  <1>1. /\ life[s] = "over" /\ life' = [life EXCEPT ![s] = "posted"]
        /\ freePorts' = Append(freePorts, p)
        /\ UNCHANGED <<listed, lobby, port, bound, at, scan, refs, inHand, made, crashed>>
    BY <1>0 DEF OnFinished, finderVars
  <1>2. freePorts \in Seq(Port) /\ p \in Port
    BY DEF Always, TypeOK
  <1>3. /\ last \in Nat /\ DOMAIN freePorts = 1 .. last
        /\ \A i \in 1 .. last : freePorts[i] \in Port
    BY <1>2, LenProperties
  <1>4. /\ freePorts' \in Seq(Port) /\ Len(freePorts') = last + 1
        /\ \A i \in 1 .. last : freePorts'[i] = freePorts[i]
        /\ freePorts'[last + 1] = p
    BY <1>1, <1>2, AppendProperties
  <1>5. DOMAIN freePorts' = 1 .. last + 1
    BY <1>4, LenProperties
  <1> HIDE DEF last
  <1>6. TypeOK'
    BY <1>1, <1>4 DEF Always, TypeOK, Lives
  <1>7. \A t \in Server, q \in Port : Uses(t, q)' <=> (Uses(t, q) /\ t # s)
    BY <1>1 DEF Uses, Always, TypeOK
  <1>8. \A g \in Finder, q \in Port : HandedTo(g, q)' <=> HandedTo(g, q)
    BY <1>1 DEF HandedTo
  <1>9. Uses(s, p)
    BY <1>0, <1>1 DEF Uses
  <1>10. /\ \A g \in Finder : ~HandedTo(g, p)'
         /\ \A t \in Server : ~Uses(t, p)'
         /\ \A i \in 1 .. last : freePorts[i] # p
    BY <1>2, <1>3, <1>7, <1>8, <1>9 DEF Always, Owners, Deque
  <1>11. Deque'
    <2>1. \A i \in 1 .. last + 1 : i \in 1 .. last \/ i = last + 1
      BY <1>3
    <2>2. \A i, j \in DOMAIN freePorts' : freePorts'[i] = freePorts'[j] => i = j
      BY <1>3, <1>4, <1>5, <1>10, <2>1 DEF Always, Deque
    <2>3. \A i \in DOMAIN freePorts', q \in Port : freePorts'[i] = q =>
            /\ \A g \in Finder : ~HandedTo(g, q)'
            /\ \A t \in Server : ~Uses(t, q)'
      <3>1. ASSUME NEW i \in 1 .. last, NEW q \in Port, freePorts[i] = q
            PROVE  /\ \A g \in Finder : ~HandedTo(g, q)'
                   /\ \A t \in Server : ~Uses(t, q)'
        BY <1>3, <1>7, <1>8, <3>1 DEF Always, Deque
      <3> QED
        BY <1>4, <1>5, <1>10, <2>1, <3>1
    <2>4. \A i \in DOMAIN freePorts' : freePorts'[i] \in Port
      BY <1>3, <1>4, <1>5, <2>1
    <2> QED
      BY <2>2, <2>3, <2>4 DEF Deque
  <1>12. Owners'
    BY <1>7, <1>8 DEF Always, Owners
  <1>13. Hands'
    <2>1. \A t \in Server : life'[t] = "made" <=> life[t] = "made"
      BY <1>1 DEF Always, TypeOK
    <2> QED
      BY <1>1, <2>1 DEF Always, Hands
  <1>14. Listed'
    BY <1>1 DEF Always, Listed, TypeOK
  <1> QED
    BY <1>6, <1>11, <1>12, <1>13, <1>14 DEF Always

LEMMA NextAlways == Always /\ [Next]_vars => Always'
  <1> SUFFICES ASSUME Always, [Next]_vars PROVE Always'
    OBVIOUS
  <1>1. CASE UNCHANGED vars
    <2>1. UNCHANGED <<freePorts, listed, life, lobby, port, bound,
                      at, scan, refs, inHand, made, crashed, overlapped>>
      BY <1>1 DEF vars, poolVars, finderVars
    <2>2. TypeOK'
      BY <2>1 DEF Always, TypeOK
    <2>3. /\ \A f \in Finder, p \in Port : HandedTo(f, p)' <=> HandedTo(f, p)
          /\ \A s \in Server, p \in Port : Uses(s, p)' <=> Uses(s, p)
      BY <2>1 DEF HandedTo, Uses
    <2>4. \A i \in DOMAIN freePorts : freePorts[i] \in Port
      BY LenProperties DEF Always, TypeOK
    <2>5. Deque' /\ Owners'
      BY <2>1, <2>3, <2>4 DEF Always, Deque, Owners
    <2>6. Hands' /\ Listed'
      BY <2>1 DEF Always, Hands, Listed
    <2> QED
      BY <2>2, <2>5, <2>6 DEF Always
  <1>2. CASE Next /\ ~UNCHANGED vars
    <2>1. overlapped' = (overlapped \/ Cardinality(Inside') > 1)
      BY <1>2 DEF Next
    <2>2. overlapped' \in BOOLEAN
      BY <2>1, Zenon DEF Always, TypeOK
    <2>3. (\E f \in Finder : Call(f)) \/ (\E s \in Server : Run(s))
      BY <1>2 DEF Next
    <2>4. ASSUME NEW f \in Finder, Call(f) PROVE Always'
      BY <2>2, <2>4, LooksKeep, PopPortKeeps, MakeKeeps, StartKeeps DEF Call
    <2>5. ASSUME NEW s \in Server, Run(s) PROVE Always'
      BY <2>2, <2>5, RunKeeps, OnFinishedKeeps DEF Run
    <2> QED
      BY <2>3, <2>4, <2>5
  <1> QED
    BY <1>1, <1>2

-----------------------------------------------------------------------------
(* What holds until two requests overlap.                                  *)

LEMMA AtMostOne ==
    ASSUME NEW S, IsFiniteSet(S), ~(Cardinality(S) > 1), NEW x \in S, NEW y \in S
    PROVE  x = y
  <1> SUFFICES ASSUME x # y PROVE FALSE
    OBVIOUS
  <1>1. IsFiniteSet({x}) /\ Cardinality({x}) = 1
    BY FS_Singleton
  <1>2. IsFiniteSet({x} \cup {y}) /\ Cardinality({x} \cup {y}) = 2
    <2>1. /\ IsFiniteSet({x} \cup {y})
          /\ Cardinality({x} \cup {y}) = IF y \in {x} THEN Cardinality({x}) ELSE Cardinality({x}) + 1
      BY <1>1, FS_AddElement
    <2> QED
      BY <1>1, <2>1
  <1>3. Cardinality({x} \cup {y}) <= Cardinality(S)
    <2>1. {x} \cup {y} \in SUBSET S
      OBVIOUS
    <2> QED
      BY <2>1, FS_Subset
  <1>4. Cardinality(S) \in Nat
    BY FS_CardinalityType
  <1> QED
    BY <1>2, <1>3, <1>4

\* When fewer servers are on workers, more workers are idle.
LEMMA Spare ==
    ASSUME NEW B, NEW C, B \subseteq C, C \subseteq Server,
           Workers - Cardinality(C) > 0
    PROVE  Workers - Cardinality(B) > 0
  <1>1. IsFiniteSet(C)
    <2>1. C \in SUBSET Server /\ IsFiniteSet(Server)
      BY PoolAssumption
    <2> QED
      BY <2>1, FS_Subset
  <1>2. IsFiniteSet(B) /\ Cardinality(B) <= Cardinality(C)
    <2>1. B \in SUBSET C
      OBVIOUS
    <2> QED
      BY <1>1, <2>1, FS_Subset
  <1>3. Cardinality(B) \in Nat /\ Cardinality(C) \in Nat
    BY <1>1, <1>2, FS_CardinalityType
  <1> QED
    BY <1>2, <1>3, PoolAssumption

\* A worker is idle and no finder has a port in hand: one is in the deque.
LEMMA PortLeft ==
    ASSUME Always, IdleWorkers > 0,
           \A p \in Port : \/ \E i \in DOMAIN freePorts : freePorts[i] = p
                           \/ \E s \in Busy : port[s] = p
    PROVE  freePorts # <<>>
  <1> SUFFICES ASSUME freePorts = <<>> PROVE FALSE
    OBVIOUS
  <1>1. \A p \in Port : \E s \in Busy : port[s] = p
    BY DEF Always
  <1> DEFINE user == [p \in Port |-> CHOOSE s \in Busy : port[s] = p]
  <1>2. user \in [Port -> Busy] /\ \A p \in Port : port[user[p]] = p
    BY <1>1
  <1> HIDE DEF user
  <1>3. IsFiniteSet(Port) /\ Cardinality(Port) = Workers
    <2>1. 1 \in Int /\ Workers \in Int /\ ~(1 > Workers)
      BY PoolAssumption
    <2>2. /\ IsFiniteSet(1 .. Workers)
          /\ Cardinality(1 .. Workers) = IF 1 > Workers THEN 0 ELSE Workers - 1 + 1
      BY <2>1, FS_Interval
    <2> QED
      BY <2>1, <2>2 DEF Port
  <1>4. IsFiniteSet(Busy)
    <2>1. Busy \in SUBSET Server /\ IsFiniteSet(Server)
      BY PoolAssumption DEF Busy
    <2> QED
      BY <2>1, FS_Subset
  <1>5. Cardinality(Busy) < Cardinality(Port)
    <2>1. Cardinality(Busy) \in Nat
      BY <1>4, FS_CardinalityType
    <2> QED
      BY <1>3, <2>1, PoolAssumption DEF IdleWorkers
  <1>6. PICK p \in Port, q \in Port : p # q /\ user[p] = user[q]
    BY <1>2, <1>3, <1>4, <1>5, FS_PigeonHole
  <1> QED
    BY <1>2, <1>6

\* The finder that acts is the only one in the controller.
LEMMA Alone ==
    ASSUME Always, ~overlapped => Serial, Next, ~overlapped', ~UNCHANGED vars
    PROVE  /\ ~overlapped /\ Serial
           /\ \A f, g \in Finder : at'[f] # "idle" /\ at'[g] # "idle" => f = g
  <1>1. overlapped' = (overlapped \/ Cardinality(Inside') > 1)
    BY DEF Next
  <1>2. ~overlapped /\ ~(Cardinality(Inside') > 1)
    BY <1>1, Zenon DEF Always, TypeOK
  <1>3. IsFiniteSet(Inside')
    <2>1. Inside' \in SUBSET Finder /\ IsFiniteSet(Finder)
      BY PoolAssumption DEF Inside
    <2> QED
      BY <2>1, FS_Subset
  <1>4. ASSUME NEW f \in Finder, NEW g \in Finder, at'[f] # "idle", at'[g] # "idle"
        PROVE  f = g
    <2>1. f \in Inside' /\ g \in Inside'
      BY <1>4 DEF Inside
    <2> QED
      BY <1>2, <1>3, <2>1, AtMostOne
  <1> QED
    BY <1>2, <1>4

LEMMA SerialRun ==
    ASSUME Always, Serial, NEW s \in Server, Run(s)
    PROVE  Serial'
  <1>1. /\ UNCHANGED <<port, at, scan, inHand, crashed>>
        /\ lobby' \subseteq lobby
        /\ \A t \in Server \ {s} : life'[t] = life[t]
        /\ \/ life'[s] = life[s]
           \/ life[s] = "running" /\ life'[s] = "over"
           \/ life[s] = "over" /\ life'[s] = "posted"
           \/ life[s] = "posted" /\ life'[s] = "forgotten"
           \/ life[s] = "forgotten" /\ life'[s] = "none"
    BY DEF Always, TypeOK, Run, LobbyFills, Ends, OnFinished, Forget, FreeWorker, finderVars
  <1>2. /\ Forming' \subseteq Forming
        /\ Busy' \subseteq Busy /\ Busy \subseteq Server
    BY <1>1 DEF Always, TypeOK, Forming, Busy
  <1>3. IdleWorkers > 0 => IdleWorkers' > 0
    BY <1>2, Spare DEF IdleWorkers
  <1>4. \A p \in Port : (\E i \in DOMAIN freePorts : freePorts[i] = p) =>
                          \E i \in DOMAIN freePorts' : freePorts'[i] = p
    <2>1. CASE OnFinished(s)
      <3>1. freePorts' = Append(freePorts, port[s]) /\ freePorts \in Seq(Port) /\ port[s] \in Port
        BY <2>1 DEF OnFinished, Always, TypeOK
      <3>2. /\ freePorts' \in Seq(Port) /\ Len(freePorts') = Len(freePorts) + 1
            /\ \A i \in 1 .. Len(freePorts) : freePorts'[i] = freePorts[i]
        BY <3>1, AppendProperties
      <3>3. /\ DOMAIN freePorts = 1 .. Len(freePorts) /\ Len(freePorts) \in Nat
            /\ DOMAIN freePorts' = 1 .. Len(freePorts')
        BY <3>1, <3>2, LenProperties
      <3> QED
        BY <3>2, <3>3
    <2>2. CASE ~OnFinished(s)
      <3>1. freePorts' = freePorts
        BY <2>2 DEF Run, LobbyFills, Ends, Forget, FreeWorker
      <3> QED
        BY <3>1
    <2> QED
      BY <2>1, <2>2
  <1>5. \A p \in Port : Uses(s, p) =>
          \/ Uses(s, p)'
          \/ \E i \in DOMAIN freePorts' : freePorts'[i] = p
    <2>1. CASE OnFinished(s)
      <3>1. freePorts' = Append(freePorts, port[s]) /\ freePorts \in Seq(Port) /\ port[s] \in Port
        BY <2>1 DEF OnFinished, Always, TypeOK
      <3>2. /\ freePorts' \in Seq(Port) /\ Len(freePorts') = Len(freePorts) + 1
            /\ freePorts'[Len(freePorts) + 1] = port[s]
        BY <3>1, AppendProperties
      <3>3. Len(freePorts) \in Nat /\ DOMAIN freePorts' = 1 .. Len(freePorts')
        BY <3>1, <3>2, LenProperties
      <3>4. Len(freePorts) + 1 \in DOMAIN freePorts'
        BY <3>2, <3>3
      <3> QED
        BY <3>2, <3>4 DEF Uses
    <2>2. CASE ~OnFinished(s)
      <3>1. life[s] \in {"made", "running", "over"} => life'[s] \in {"made", "running", "over"}
        BY <2>2 DEF Run, LobbyFills, Ends, Forget, FreeWorker, Always, TypeOK
      <3> QED
        BY <1>1, <3>1 DEF Uses
    <2> QED
      BY <2>1, <2>2
  <1>6. \A t \in Server \ {s}, p \in Port : Uses(t, p) => Uses(t, p)'
    BY <1>1 DEF Uses
  <1>7. \A f \in Finder, p \in Port : HandedTo(f, p) => HandedTo(f, p)'
    BY <1>1 DEF HandedTo
  <1>8. \A p \in Port : \/ \E i \in DOMAIN freePorts' : freePorts'[i] = p
                        \/ \E f \in Finder : HandedTo(f, p)'
                        \/ \E t \in Server : Uses(t, p)'
    BY <1>4, <1>5, <1>6, <1>7 DEF Serial
  <1>9. ~crashed'
    BY <1>1 DEF Serial
  <1>10. \A f \in Finder : at'[f] \in {"pop", "make", "start"} => IdleWorkers' > 0
    BY <1>1, <1>3 DEF Serial
  <1>11. /\ \A f, g \in Finder : at'[f] # "idle" /\ at'[g] # "idle" => f = g
         /\ \A f \in Finder : at'[f] = "scan" =>
              \A t \in Forming' : \E i \in DOMAIN scan'[f] : scan'[f][i] = t
         /\ \A f \in Finder : at'[f] \in {"pop", "make", "start"} => Forming' = {}
         /\ \A t, u \in Forming' : t = u
    BY <1>1, <1>2 DEF Serial
  <1> QED
    BY <1>8, <1>9, <1>10, <1>11 DEF Serial

\* The finder that acts was alone, and is alone after its step.
LEMMA OthersIdle ==
    ASSUME Always, Serial, NEW f \in Finder, Call(f),
           \A g, h \in Finder : at'[g] # "idle" /\ at'[h] # "idle" => g = h
    PROVE  \A g \in Finder \ {f} : at[g] = "idle" /\ at'[g] = "idle"
  <1>1. \A g \in Finder \ {f} : at'[g] = at[g]
    BY DEF Always, TypeOK, Call, CopyList, Offer, PassBy, SeesWorker, SeesNoWorker, PopPort,
           PopNothing, Make, Start, StartFails, Goto, Leave, finderVars
  <1>2. at[f] # "idle" \/ at'[f] = "scan"
    BY DEF Always, TypeOK, Call, CopyList, Offer, PassBy, SeesWorker, SeesNoWorker, PopPort,
           PopNothing, Make, Start, StartFails, Goto
  <1> QED
    BY <1>1, <1>2 DEF Serial

\* Serial' from what is said of the one finder inside.
LEMMA SerialOf ==
    ASSUME Always, Serial, NEW f \in Finder, Call(f),
           \A g, h \in Finder : at'[g] # "idle" /\ at'[h] # "idle" => g = h,
           ~crashed',
           at'[f] \in {"pop", "make", "start"} => IdleWorkers' > 0 /\ Forming' = {},
           \A p \in Port : \/ \E i \in DOMAIN freePorts' : freePorts'[i] = p
                           \/ HandedTo(f, p)'
                           \/ \E s \in Server : Uses(s, p)',
           at'[f] = "scan" =>
             \A s \in Forming' : \E i \in DOMAIN scan'[f] : scan'[f][i] = s,
           \A s, t \in Forming' : s = t
    PROVE  Serial'
  <1>1. \A g \in Finder : at'[g] # "idle" => g = f
    BY OthersIdle
  <1> QED
    BY <1>1 DEF Serial

\* The finder looks around, or leaves, and nothing of the pool changes.
LEMMA SerialLooks ==
    ASSUME Always, Serial, NEW f \in Finder,
           CopyList(f) \/ Offer(f) \/ PassBy(f) \/ SeesWorker(f) \/ SeesNoWorker(f),
           \A g, h \in Finder : at'[g] # "idle" /\ at'[h] # "idle" => g = h
    PROVE  Serial'
  <1>1. UNCHANGED <<freePorts, listed, life, lobby, port, crashed>>
    BY DEF CopyList, Offer, PassBy, SeesWorker, SeesNoWorker, poolVars
  <1>2. Forming' = Forming /\ Busy' = Busy /\ IdleWorkers' = IdleWorkers
    BY <1>1 DEF Forming, Busy, IdleWorkers
  <1>3. Call(f) /\ ~crashed'
    BY <1>1 DEF Call, Serial
  <1>4. at[f] # "make" /\ at'[f] \in {"idle", "scan", "pop"}
    BY DEF Always, TypeOK, CopyList, Offer, PassBy, SeesWorker, SeesNoWorker, Goto, Leave
  <1>5. at'[f] \in {"pop", "make", "start"} => IdleWorkers' > 0 /\ Forming' = {}
    <2>1. SUFFICES ASSUME at'[f] = "pop" PROVE IdleWorkers > 0 /\ Forming = {}
      BY <1>2, <1>4
    <2>2. SeesWorker(f)
      BY <2>1 DEF Always, TypeOK, CopyList, Offer, PassBy, SeesNoWorker, Goto, Leave
    <2>3. at[f] = "scan" /\ DOMAIN scan[f] = {} /\ IdleWorkers > 0
      BY <2>2 DEF SeesWorker
    <2> QED
      BY <2>3 DEF Serial
  <1>6. \A p \in Port : \/ \E i \in DOMAIN freePorts' : freePorts'[i] = p
                        \/ HandedTo(f, p)'
                        \/ \E s \in Server : Uses(s, p)'
    <2>1. \A g \in Finder, p \in Port : ~HandedTo(g, p)
      BY <1>3, <1>4, OthersIdle DEF HandedTo
    <2>2. \A s \in Server, p \in Port : Uses(s, p)' <=> Uses(s, p)
      BY <1>1 DEF Uses
    <2> QED
      BY <1>1, <2>1, <2>2 DEF Serial
  <1>7. at'[f] = "scan" => \A s \in Forming' : \E i \in DOMAIN scan'[f] : scan'[f][i] = s
    <2>1. SUFFICES ASSUME at'[f] = "scan", NEW s \in Forming
                   PROVE  \E i \in DOMAIN scan'[f] : scan'[f][i] = s
      BY <1>2
    <2>2. CASE CopyList(f)
      <3>1. scan'[f] = listed
        BY <2>2 DEF CopyList, Always, TypeOK
      <3>2. \E i \in DOMAIN listed : listed[i] = s
        BY DEF Always, Listed, TypeOK, Forming
      <3> QED
        BY <3>1, <3>2
    <2>3. CASE PassBy(f)
      <3>1. /\ scan[f] \in Seq(Server) /\ scan[f] # <<>> /\ scan'[f] = Tail(scan[f])
            /\ Head(scan[f]) # s /\ at[f] = "scan"
        BY <2>3 DEF PassBy, Always, TypeOK, Forming
      <3>2. PICK i \in DOMAIN scan[f] : scan[f][i] = s
        BY <3>1 DEF Serial
      <3>3. /\ Tail(scan[f]) \in Seq(Server)
            /\ Len(Tail(scan[f])) = Len(scan[f]) - 1
            /\ \A j \in 1 .. Len(Tail(scan[f])) : Tail(scan[f])[j] = scan[f][j + 1]
        BY <3>1, HeadTailProperties
      <3>4. /\ DOMAIN scan[f] = 1 .. Len(scan[f]) /\ Len(scan[f]) \in Nat
            /\ DOMAIN Tail(scan[f]) = 1 .. Len(Tail(scan[f]))
        BY <3>1, <3>3, LenProperties
      <3>5. i # 1
        BY <3>1, <3>2
      <3>6. i - 1 \in 1 .. Len(Tail(scan[f])) /\ i - 1 + 1 = i
        BY <3>2, <3>3, <3>4, <3>5
      <3> QED
        BY <3>1, <3>2, <3>3, <3>4, <3>6
    <2>4. CASE Offer(f) \/ SeesWorker(f) \/ SeesNoWorker(f)
      BY <2>1, <2>4 DEF Offer, SeesWorker, SeesNoWorker, Goto, Leave, Always, TypeOK
    <2> QED
      BY <2>2, <2>3, <2>4
  <1>8. \A s, t \in Forming' : s = t
    BY <1>2 DEF Serial
  <1> QED
    BY <1>3, <1>5, <1>6, <1>7, <1>8, SerialOf

LEMMA SerialTakes ==
    ASSUME Always, Serial, NEW f \in Finder, PopPort(f) \/ Make(f),
           \A g, h \in Finder : at'[g] # "idle" /\ at'[h] # "idle" => g = h
    PROVE  Serial'
  <1>1. Call(f) /\ ~crashed'
    BY DEF Call, PopPort, Make, Serial
  <1>2. IdleWorkers > 0 /\ Forming = {}
    BY DEF PopPort, Make, Serial
  <1>3. at'[f] \in {"make", "start"}
    BY DEF PopPort, Make, Goto, Always, TypeOK
  <1>4. \A s \in Server : \/ life'[s] = life[s] /\ (s \in lobby' <=> s \in lobby)
                          \/ life[s] = "none" /\ life'[s] = "made"
    BY DEF PopPort, Make, Always, TypeOK, FreeSlot, FreeSlots
  <1>5. Forming' = {} /\ Busy' = Busy
    <2>1. \A s \in Server : s \in Busy' <=> s \in Busy
      BY <1>4 DEF Busy
    <2>2. lobby' \subseteq Server
      BY DEF PopPort, Make, Always, TypeOK, FreeSlot, FreeSlots
    <2>3. \A s \in Server : s \in Forming' => s \in Forming
      BY <1>4 DEF Forming
    <2> QED
      BY <1>2, <2>1, <2>2, <2>3 DEF Busy, Forming
  <1>6. IdleWorkers' > 0
    BY <1>2, <1>5 DEF IdleWorkers
  <1>7. \A g \in Finder \ {f}, p \in Port : ~HandedTo(g, p)
    BY <1>1, OthersIdle DEF HandedTo
  <1>8. \A p \in Port : \/ \E i \in DOMAIN freePorts' : freePorts'[i] = p
                        \/ HandedTo(f, p)'
                        \/ \E s \in Server : Uses(s, p)'
    <2>1. CASE PopPort(f)
      <3>1. /\ freePorts \in Seq(Port) /\ freePorts # <<>> /\ freePorts' = Front(freePorts)
            /\ at'[f] = "make" /\ inHand'[f] = {Last(freePorts)}
            /\ life' = life /\ port' = port /\ at[f] = "pop"
        BY <2>1 DEF PopPort, Goto, Always, TypeOK
      <3>2. /\ Len(freePorts) \in Nat /\ Last(freePorts) = freePorts[Len(freePorts)]
            /\ DOMAIN freePorts = 1 .. Len(freePorts)
            /\ DOMAIN freePorts' = 1 .. Len(freePorts) - 1
            /\ \A i \in DOMAIN freePorts' : freePorts'[i] = freePorts[i]
        BY <3>1, LastFront
      <3>3. ASSUME NEW p \in Port, NEW i \in DOMAIN freePorts, freePorts[i] = p
            PROVE  HandedTo(f, p)' \/ \E j \in DOMAIN freePorts' : freePorts'[j] = p
        <4>1. i \in DOMAIN freePorts' \/ i = Len(freePorts)
          BY <3>2
        <4> QED
          BY <3>1, <3>2, <3>3, <4>1 DEF HandedTo
      <3>4. /\ \A p \in Port : ~HandedTo(f, p)
            /\ \A s \in Server, p \in Port : Uses(s, p) => Uses(s, p)'
        BY <3>1 DEF HandedTo, Uses
      <3> QED
        BY <1>7, <3>3, <3>4 DEF Serial
    <2>2. CASE Make(f)
      <3>1. PICK p \in Port : inHand[f] = {p}
        BY <2>2 DEF Always, Hands, Make
      <3>2. PICK s \in Server : /\ life[s] = "none"
                                /\ life' = [life EXCEPT ![s] = "made"]
                                /\ port' = [port EXCEPT ![s] = p]
        BY <2>2, <3>1 DEF Make, FreeSlot, FreeSlots
      <3>3. /\ \A q \in Port : HandedTo(f, q) => q = p
            /\ Uses(s, p)'
            /\ \A t \in Server, q \in Port : Uses(t, q) => Uses(t, q)'
        BY <3>1, <3>2 DEF HandedTo, Uses, Always, TypeOK
      <3>4. freePorts' = freePorts
        BY <2>2 DEF Make
      <3> QED
        BY <1>7, <3>3, <3>4 DEF Serial
    <2> QED
      BY <2>1, <2>2
  <1> QED
    BY <1>1, <1>3, <1>5, <1>6, <1>8, SerialOf

LEMMA SerialStart ==
    ASSUME Always, Serial, NEW f \in Finder, Start(f),
           \A g, h \in Finder : at'[g] # "idle" /\ at'[h] # "idle" => g = h
    PROVE  Serial'
  <1>1. PICK s \in Server : made[f] = {s} /\ life[s] = "made"
    BY DEF Always, Hands, Start
  <1>2. /\ at[f] = "start" /\ Forming = {} /\ Call(f) /\ ~crashed'
        /\ life' = [life EXCEPT ![s] = "running"]
        /\ UNCHANGED <<freePorts, lobby, port>>
        /\ at'[f] = "idle"
    BY <1>1 DEF Start, Serial, Call, Leave, Always, TypeOK
  <1>3. Forming' \subseteq {s}
    BY <1>2 DEF Forming, Always, TypeOK
  <1>4. /\ \A g \in Finder, p \in Port : ~HandedTo(g, p)
        /\ \A t \in Server, p \in Port : Uses(t, p) => Uses(t, p)'
    BY <1>1, <1>2, OthersIdle DEF HandedTo, Uses, Always, TypeOK
  <1>5. \A p \in Port : \/ \E i \in DOMAIN freePorts' : freePorts'[i] = p
                        \/ HandedTo(f, p)'
                        \/ \E t \in Server : Uses(t, p)'
    BY <1>2, <1>4 DEF Serial
  <1>6. \A t, u \in Forming' : t = u
    BY <1>3
  <1> QED
    BY <1>2, <1>5, <1>6, SerialOf

\* Nobody else took the worker that was seen, and there is a port for it.
LEMMA NeverShort ==
    ASSUME Always, Serial, NEW f \in Finder
    PROVE  ~StartFails(f) /\ ~PopNothing(f)
  <1>1. ASSUME StartFails(f) PROVE FALSE
    <2>1. IdleWorkers > 0 /\ IdleWorkers = 0
      BY <1>1 DEF StartFails, Serial
    <2> QED
      BY <2>1
  <1>2. ASSUME PopNothing(f) PROVE FALSE
    <2>1. at[f] = "pop" /\ freePorts = <<>> /\ IdleWorkers > 0
      BY <1>2 DEF PopNothing, Serial
    <2>2. \A g \in Finder : g # f => at[g] = "idle"
      BY <2>1 DEF Serial
    <2>3. \A g \in Finder, p \in Port : ~HandedTo(g, p)
      BY <2>1, <2>2 DEF HandedTo
    <2>4. ASSUME NEW s \in Server, NEW p \in Port, Uses(s, p)
          PROVE  s \in Busy /\ port[s] = p
      <3>1. life[s] # "made"
        BY <2>1, <2>2 DEF Always, Hands
      <3> QED
        BY <2>4, <3>1 DEF Uses, Busy
    <2>5. \A p \in Port : \/ \E i \in DOMAIN freePorts : freePorts[i] = p
                          \/ \E s \in Busy : port[s] = p
      BY <2>3, <2>4 DEF Serial
    <2> QED
      BY <2>1, <2>5, PortLeft
  <1> QED
    BY <1>1, <1>2

LEMMA SerialNext == Inv /\ Next /\ ~UNCHANGED vars /\ ~overlapped' => Serial'
  <1> SUFFICES ASSUME Inv, Next, ~UNCHANGED vars, ~overlapped' PROVE Serial'
    OBVIOUS
  <1>1. /\ Always /\ Serial
        /\ \A g, h \in Finder : at'[g] # "idle" /\ at'[h] # "idle" => g = h
    BY Alone DEF Inv
  <1>2. (\E f \in Finder : Call(f)) \/ (\E s \in Server : Run(s))
    BY DEF Next
  <1>3. ASSUME NEW f \in Finder, Call(f) PROVE Serial'
    <2>1. ~StartFails(f) /\ ~PopNothing(f)
      BY <1>1, NeverShort
    <2>2. CASE CopyList(f) \/ Offer(f) \/ PassBy(f) \/ SeesWorker(f) \/ SeesNoWorker(f)
      BY <1>1, <2>2, SerialLooks
    <2>3. CASE PopPort(f) \/ Make(f)
      BY <1>1, <2>3, SerialTakes
    <2>4. CASE Start(f)
      BY <1>1, <2>4, SerialStart
    <2> QED
      BY <1>3, <2>1, <2>2, <2>3, <2>4 DEF Call
  <1>4. ASSUME NEW s \in Server, Run(s) PROVE Serial'
    BY <1>1, <1>4, SerialRun
  <1> QED
    BY <1>2, <1>3, <1>4

LEMMA InitSerial == Init => Serial
  <1> SUFFICES ASSUME Init PROVE Serial
    OBVIOUS
  <1>1. \A p \in Port : p \in DOMAIN freePorts /\ freePorts[p] = p
    BY PoolAssumption DEF Init, Port
  <1>2. Forming = {}
    BY DEF Init, Forming
  <1>3. ~crashed /\ \A f \in Finder : at[f] = "idle"
    BY DEF Init
  <1> QED
    BY <1>1, <1>2, <1>3 DEF Serial

LEMMA InvHolds == Spec => []Inv
  <1>1. Init => Inv
    BY InitAlways, InitSerial DEF Inv
  <1>2. Inv /\ [Next]_vars => Inv'
    <2> SUFFICES ASSUME Inv, [Next]_vars PROVE Inv'
      OBVIOUS
    <2>1. Always'
      BY NextAlways DEF Inv
    <2>2. CASE UNCHANGED vars
      <3>1. UNCHANGED <<freePorts, listed, life, lobby, port, bound,
                        at, scan, refs, inHand, made, crashed, overlapped>>
        BY <2>2 DEF vars, poolVars, finderVars
      <3>2. Forming' = Forming /\ IdleWorkers' = IdleWorkers
        BY <3>1 DEF Forming, IdleWorkers, Busy
      <3>3. /\ \A f \in Finder, p \in Port : HandedTo(f, p)' <=> HandedTo(f, p)
            /\ \A s \in Server, p \in Port : Uses(s, p)' <=> Uses(s, p)
        BY <3>1 DEF HandedTo, Uses
      <3>4. Serial => Serial'
        BY <3>1, <3>2, <3>3 DEF Serial
      <3>5. overlapped' = overlapped
        BY <3>1
      <3> QED
        BY <2>1, <3>4, <3>5, Zenon DEF Inv
    <2>3. CASE Next /\ ~UNCHANGED vars
      BY <2>1, <2>3, SerialNext DEF Inv
    <2> QED
      BY <2>2, <2>3
  <1> QED
    BY <1>1, <1>2, PTL DEF Spec

-----------------------------------------------------------------------------
(* The theorems.                                                           *)

\* Every variable keeps to its type.
THEOREM TypeCorrect == Spec => []TypeOK
  <1>1. Inv => TypeOK
    BY DEF Inv, Always
  <1> QED
    BY <1>1, InvHolds, PTL

\* A set with no two elements.
LEMMA Few ==
    ASSUME NEW S, \A x, y \in S : x = y
    PROVE  /\ Cardinality(S) \in {0, 1}
           /\ Cardinality(S) = 1 => S # {}
  <1>1. CASE S = {}
    <2>1. Cardinality({}) = 0
      BY FS_EmptySet
    <2> QED
      BY <1>1, <2>1
  <1>2. CASE S # {}
    <2>1. PICK x \in S : S = {x}
      BY <1>2
    <2>2. Cardinality({x}) = 1
      BY FS_Singleton
    <2> QED
      BY <1>2, <2>1, <2>2
  <1> QED
    BY <1>1, <1>2

\* No port is handed out twice, by whatever many requests at a time: a port
\* in the deque is there once and nobody has it, and else one has it at most.
THEOREM PortOwned == Spec => []PortOwnedOnce
  <1>1. ASSUME Inv PROVE PortOwnedOnce
    <2> SUFFICES ASSUME NEW p \in Port
                 PROVE  LET entries == {i \in DOMAIN freePorts : freePorts[i] = p} IN
                        Cardinality(entries) + Cardinality(PortHolders(p)) <= 1
      BY DEF PortOwnedOnce
    <2> DEFINE entries == {i \in DOMAIN freePorts : freePorts[i] = p}
    <2> Deque /\ Owners
      BY <1>1 DEF Inv, Always
    <2>1. PortHolders(p) = {f \in Finder : HandedTo(f, p)} \cup {s \in Server : Uses(s, p)}
      BY DEF PortHolders, HandedTo, Uses
    <2>2. \A x, y \in PortHolders(p) : x = y
      BY <2>1 DEF Owners
    <2>3. \A i, j \in entries : i = j
      BY DEF Deque
    <2>4. entries # {} => PortHolders(p) = {}
      BY <2>1 DEF Deque
    <2>5. /\ Cardinality(entries) \in {0, 1}
          /\ Cardinality(entries) = 1 => entries # {}
      BY <2>3, Few
    <2>6. /\ Cardinality(PortHolders(p)) \in {0, 1}
          /\ Cardinality(PortHolders(p)) = 1 => PortHolders(p) # {}
      BY <2>2, Few
    <2> HIDE DEF entries
    <2>7. Cardinality(entries) + Cardinality(PortHolders(p)) <= 1
      BY <2>4, <2>5, <2>6
    <2> QED
      BY <2>7 DEF entries
  <1> QED
    BY <1>1, InvHolds, PTL

\* Until two requests overlap each port is in the deque or somebody has it.
THEOREM PortsKept == Spec => []PortsConserved
  <1>1. ASSUME Inv PROVE PortsConserved
    <2> SUFFICES ASSUME ~overlapped, NEW p \in Port
                 PROVE  p \in ToSet(freePorts) \/ PortHolders(p) # {}
      BY DEF PortsConserved
    <2>1. \/ \E i \in DOMAIN freePorts : freePorts[i] = p
          \/ \E f \in Finder : HandedTo(f, p)
          \/ \E s \in Server : Uses(s, p)
      BY <1>1 DEF Inv, Serial
    <2> QED
      BY <2>1 DEF ToSet, PortHolders, HandedTo, Uses
  <1> QED
    BY <1>1, InvHolds, PTL

\* Until two requests overlap the empty deque is never popped.
THEOREM NoCrash == Spec => []NeverCrashes
  <1>1. Inv => NeverCrashes
    BY Zenon DEF Inv, Serial, NeverCrashes
  <1> QED
    BY <1>1, InvHolds, PTL

\* Until two requests overlap one lobby is forming at most.
THEOREM OneLobbyForms == Spec => []OneLobby
  <1>1. ASSUME Inv PROVE OneLobby
    <2> SUFFICES ASSUME ~overlapped PROVE Cardinality(Forming) <= 1
      BY DEF OneLobby, Forming
    <2>1. \A s, t \in Forming : s = t
      BY <1>1 DEF Inv, Serial
    <2>2. Cardinality(Forming) \in {0, 1}
      BY <2>1, Few
    <2> QED
      BY <2>2
  <1> QED
    BY <1>1, InvHolds, PTL
=============================================================================
