----------------------------- MODULE PathSearch -----------------------------
(***************************************************************************)
(* AStar of toolkit/AStar.hpp as an operator: the search a monster runs    *)
(* over the passable cells of the map.  The search state is a record:      *)
(*                                                                         *)
(*   open     the set openList of <<F, cell>>; a cell whose F improves is  *)
(*            inserted again and its old entry stays;                      *)
(*   closed   the cells expanded so far;                                   *)
(*   g, f     the cells' G and F;                                          *)
(*   parent   the cells' Parent, themselves for a cell without one;        *)
(*   status   "found" once dst was reached (foundDest), "searching" before.*)
(***************************************************************************)
EXTENDS Integers, FiniteSets, SequencesExt

NoPath == << <<>> >>      \* the empty optional: no sequence of cells
Unknown == -1             \* numeric_limits<double>::max(): not reached yet

\* North, south, east and west, in the order of the code.
Neighbours(c) ==
    << <<c[1] - 1, c[2]>>, <<c[1] + 1, c[2]>>, <<c[1], c[2] + 1>>, <<c[1], c[2] - 1>> >>

Abs(n) == IF n < 0 THEN -n ELSE n

\* calculateHValue
Estimate(a, b) == Abs(a[1] - b[1]) + Abs(a[2] - b[2])

\* Mutant of Before: the greatest cost comes first.
BeforeDear(p, q) ==
    \/ p[1] > q[1]
    \/ p[1] = q[1] /\ \/ p[2][1] < q[2][1]
                      \/ p[2][1] = q[2][1] /\ p[2][2] <= q[2][2]

\* The order of std::set<std::pair<double, Point>>: cost, then x, then y.
Before(p, q) ==
    \/ p[1] < q[1]
    \/ p[1] = q[1] /\ \/ p[2][1] < q[2][1]
                      \/ p[2][1] = q[2][1] /\ p[2][2] <= q[2][2]

Start(area, src) ==
    [open   |-> {<<0, src>>},
     closed |-> {},
     g      |-> [c \in area |-> IF c = src THEN 0 ELSE Unknown],
     f      |-> [c \in area |-> IF c = src THEN 0 ELSE Unknown],
     parent |-> [c \in area |-> c],
     status |-> "searching"]

\* The search meets dst from current and is over.
Meet(s, current, dst) ==
    [open   |-> s.open, closed |-> s.closed, g |-> s.g, f |-> s.f,
     parent |-> [s.parent EXCEPT ![dst] = current],
     status |-> "found"]

\* next is listed with the costs of the way through current.
Label(s, current, next, cost, total) ==
    [open   |-> s.open \cup {<<total, next>>}, closed |-> s.closed,
     g      |-> [s.g EXCEPT ![next] = cost],
     f      |-> [s.f EXCEPT ![next] = total],
     parent |-> [s.parent EXCEPT ![next] = current],
     status |-> s.status]

\* One of the four blocks of the loop: current looks at its neighbour next.
\* The first one that meets dst leaves the loop.
Look(area, free, dst, current, s, next) ==
    LET cost == s.g[current] + 1
        total == cost + Estimate(next, dst)
    IN IF s.status = "found" \/ next \notin area THEN s
       ELSE IF next = dst THEN Meet(s, current, dst)
       ELSE IF /\ next \notin s.closed /\ next \in free
               /\ s.f[next] = Unknown \/ s.f[next] > total
       THEN Label(s, current, next, cost, total)
       ELSE s

\* The first entry of openList.
Cheapest(open) == CHOOSE p \in open : \A q \in open : Before(p, q)

\* The loop is left: there is nothing to expand, or dst was met.
Ended(s) == s.status = "found" \/ s.open = {}

\* One turn of the loop: the cheapest entry of openList is expanded.
Expand(area, free, dst, s) ==
    LET least == Cheapest(s.open)
        current == least[2]
        popped == [open |-> s.open \ {least}, closed |-> s.closed \cup {current},
                   g |-> s.g, f |-> s.f, parent |-> s.parent, status |-> s.status]
        north == Look(area, free, dst, current, popped, Neighbours(current)[1])
        south == Look(area, free, dst, current, north, Neighbours(current)[2])
        east == Look(area, free, dst, current, south, Neighbours(current)[3])
    IN Look(area, free, dst, current, east, Neighbours(current)[4])

\* The turns a search has at most: a cell is expanded once, which puts four
\* entries in openList at most, and each turn takes an entry out of it.
Turns(area) == 5 * Cardinality(area) + 1

\* The state of the search after k turns of the loop.
SearchRun(area, free, src, dst) ==
    LET run[k \in Nat] ==
          IF k = 0 THEN Start(area, src)
          ELSE LET s == run[k - 1] IN IF Ended(s) THEN s ELSE Expand(area, free, dst, s)
    IN run

\* The state the loop ends in.
Search(area, free, src, dst) ==
    LET run == SearchRun(area, free, src, dst)
    IN run[CHOOSE k \in 0 .. Turns(area) : Ended(run[k])]

\* From c back along the parents, k of them.
Back(parent, c) ==
    LET back[k \in Nat] == IF k = 0 THEN c ELSE parent[back[k - 1]] IN back

\* The cells back to the first that is its own parent, in the order of the
\* way: each one was pushed to the front of result.
Trail(parent, c) ==
    LET back == Back(parent, c)
        length == CHOOSE k \in 0 .. Cardinality(DOMAIN parent) :
                    /\ parent[back[k]] = back[k]
                    /\ \A j \in 0 .. k - 1 : parent[back[j]] # back[j]
    IN [i \in 1 .. length |-> back[length - i]]

\* The cells after src up to dst.  area is the square of valid indexes, free
\* the cells that hold 1.
AStar(area, free, src, dst) ==
    IF src = dst THEN NoPath
    ELSE LET s == Search(area, free, src, dst)
         IN IF s.status = "found" THEN Trail(s.parent, dst) ELSE NoPath

-----------------------------------------------------------------------------
(* What a shortest path is, independently of the search.                   *)

\* a and b touch, in a row or in a column.
Adjacent(a, b) ==
    \/ a[1] = b[1] /\ (a[2] = b[2] + 1 \/ b[2] = a[2] + 1)
    \/ a[2] = b[2] /\ (a[1] = b[1] + 1 \/ b[1] = a[1] + 1)

\* The cells of free that can be reached from some cell of from in one step
\* or none.
Spread(free, from) == from \cup {c \in free : \E d \in from : Adjacent(c, d)}

\* The cells of free that can be reached from some cell of from in k steps
\* at most.
Waves(free, from) ==
    LET wave[k \in Nat] == IF k = 0 THEN from ELSE Spread(free, wave[k - 1]) IN wave

\* The cells of free that can be reached from the cells of from.
Region(free, from) == Waves(free, from)[Cardinality(free)]

\* The number of steps from src to dst, or -1.
StepsTo(free, src, dst) ==
    LET wave == Waves(free, {src})
    IN IF dst \notin Region(free, {src}) THEN -1
       ELSE CHOOSE k \in 0 .. Cardinality(free) :
              dst \in wave[k] /\ \A j \in 0 .. k - 1 : dst \notin wave[j]

\* path leads from src to dst, one free cell after the other.
IsWay(free, src, dst, path) ==
    /\ path # <<>> /\ Last(path) = dst
    /\ \A i \in DOMAIN path :
         /\ path[i] \in free
         /\ Adjacent(path[i], IF i = 1 THEN src ELSE path[i - 1])
=============================================================================
