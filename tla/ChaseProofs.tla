---------------------------- MODULE ChaseProofs ----------------------------
(***************************************************************************)
(* Proofs about MapGen and Chase, for maps and rooms of any size and any   *)
(* number of heroes.  The generator: while a room is carved its open cells *)
(* are a tree, a finished maze is complete, and the rooms of a finished    *)
(* map are connected.  The hunt: the path of the monster leads on as long  *)
(* as no step was refused, no search failed and no client moved it.        *)
(***************************************************************************)
EXTENDS Chase, SearchProofs


-----------------------------------------------------------------------------
(* Connected sets of cells.                                                *)

\* However set is cut in two, some cell of one part touches one of the other.
Cut(set) ==
    \A part \in SUBSET set :
        part # {} /\ part # set => \E a \in part, b \in set \ part : Adjacent(a, b)

\* What cannot be cut in two is connected as the properties say it.
LEMMA CutConnects ==
    ASSUME NEW set, IsFiniteSet(set), Cut(set)
    PROVE  Connected(set)
  <1> SUFFICES ASSUME set # {}
               PROVE  Region(set, {CHOOSE c \in set : TRUE}) = set
    BY DEF Connected
  <1> DEFINE some == CHOOSE c \in set : TRUE
             region == Region(set, {some})
  <1>1. {some} \in SUBSET set /\ {some} # {}
    OBVIOUS
  <1> HIDE DEF some
  <1>2. region \in SUBSET set /\ {some} \subseteq region /\ Spread(set, region) = region
    BY <1>1, RegionClosed
  <1> HIDE DEF region
  <1>3. ASSUME NEW a \in region, NEW b \in set \ region, Adjacent(a, b) PROVE FALSE
    <2>1. Adjacent(b, a)
      BY <1>3, AdjacentSymmetric
    <2> QED
      BY <1>2, <2>1 DEF Spread
  <1>4. region = set
    BY <1>2, <1>3 DEF Cut
  <1> QED
    BY <1>4 DEF region, some

LEMMA CutSingle ==
    ASSUME NEW c PROVE Cut({c})
  BY DEF Cut

\* Two connected sets that share a cell or touch are connected together.
LEMMA CutJoins ==
    ASSUME NEW one, NEW two, Cut(one), Cut(two),
           NEW a \in one, NEW b \in two, a = b \/ Adjacent(a, b)
    PROVE  Cut(one \cup two)
  <1> SUFFICES ASSUME NEW part \in SUBSET (one \cup two),
                      part # {}, part # one \cup two
               PROVE  \E c \in part, d \in (one \cup two) \ part : Adjacent(c, d)
    BY DEF Cut
  <1>1. CASE part \cap one # {} /\ part \cap one # one
    <2>1. PICK c \in part \cap one, d \in one \ (part \cap one) : Adjacent(c, d)
      BY <1>1 DEF Cut
    <2> QED
      BY <2>1
  <1>2. CASE part \cap two # {} /\ part \cap two # two
    <2>1. PICK c \in part \cap two, d \in two \ (part \cap two) : Adjacent(c, d)
      BY <1>2 DEF Cut
    <2> QED
      BY <2>1
  <1>3. CASE part \cap one = one /\ part \cap two = {}
    <2>1. a \in part /\ b \notin part
      BY <1>3
    <2> QED
      BY <2>1
  <1>4. CASE part \cap one = {} /\ part \cap two = two
    <2>1. b \in part /\ a \notin part
      BY <1>4
    <2> QED
      BY <2>1, AdjacentSymmetric
  <1>5. CASE part \cap one = {} /\ part \cap two = {}
    BY <1>5
  <1>6. CASE part \cap one = one /\ part \cap two = two
    BY <1>6
  <1> QED
    BY <1>1, <1>2, <1>3, <1>4, <1>5, <1>6

\* The cells along a line are connected.
LEMMA CutLine ==
    ASSUME NEW m \in Nat, NEW line,
           \A k \in Nat : k < m => Adjacent(line[k], line[k + 1])
    PROVE  Cut({line[k] : k \in 0 .. m})
  <1> DEFINE Upto(i) == {line[k] : k \in 0 .. i}
             T == {i \in Nat : i <= m => Cut(Upto(i))}
  <1>1. T \in SUBSET Nat
    OBVIOUS
  <1>2. 0 \in T
    <2>1. Upto(0) = {line[0]}
      OBVIOUS
    <2>2. Cut(Upto(0))
      BY <2>1, CutSingle
    <2> QED
      BY <2>2
  <1>3. ASSUME NEW i \in T PROVE i + 1 \in T
    <2> SUFFICES ASSUME i + 1 <= m PROVE Cut(Upto(i + 1))
      OBVIOUS
    <2>1. i \in Nat /\ i <= m /\ i < m /\ i \in 0 .. i
      OBVIOUS
    <2>2. Cut(Upto(i)) /\ Cut({line[i + 1]})
      BY <2>1, CutSingle
    <2>3. Upto(i + 1) = Upto(i) \cup {line[i + 1]}
      <3>1. 0 .. i + 1 = (0 .. i) \cup {i + 1}
        BY <2>1
      <3> QED
        BY <3>1
    <2>4. line[i] \in Upto(i) /\ Adjacent(line[i], line[i + 1])
      BY <2>1
    <2> DEFINE before == Upto(i)
               new == {line[i + 1]}
    <2>5. line[i + 1] \in new
      OBVIOUS
    <2> HIDE DEF before, new
    <2>6. Cut(before \cup new)
      BY <2>2, <2>4, <2>5, CutJoins DEF before, new
    <2> QED
      BY <2>3, <2>6 DEF before, new
  <1>4. m \in T
    <2> HIDE DEF T
    <2> QED
      BY <1>1, <1>2, <1>3, Induct
  <1> QED
    BY <1>4

\* A map that keeps neighbours together keeps a set connected.
LEMMA CutImage ==
    ASSUME NEW set, Cut(set), NEW f,
           \A a, b \in set : Adjacent(a, b) => Adjacent(f[a], f[b])
    PROVE  Cut({f[a] : a \in set})
  <1> DEFINE image == {f[a] : a \in set}
  <1> SUFFICES ASSUME NEW part \in SUBSET image, part # {}, part # image
               PROVE  \E c \in part, d \in image \ part : Adjacent(c, d)
    BY DEF Cut
  <1> DEFINE back == {a \in set : f[a] \in part}
  <1>1. back \in SUBSET set /\ back # {} /\ back # set
    OBVIOUS
  <1>2. PICK a \in back, b \in set \ back : Adjacent(a, b)
    BY <1>1 DEF Cut
  <1> QED
    BY <1>2

-----------------------------------------------------------------------------
(* Prim's algorithm in one room, the square sq.                            *)

Opened(sq, blk) == {c \in sq : blk[c] = "NOBLOCK"}

Near(sq, open, c) == {d \in sq : Adjacent(c, d)} \cap open

\* open is a tree: connected, and with one passage less than cells.
Tree(open) ==
    /\ IsFiniteSet(open) /\ open # {} /\ Cut(open)
    /\ IsFiniteSet(Passages(open))
    /\ Cardinality(Passages(open)) = Cardinality(open) - 1

\* Where the algorithm stands: each open neighbour of a cell has put one
\* entry in the list at most, and a wall that is marked, or touches one open
\* cell only, is still listed.
Growing(sq, blk, lst) ==
    LET open == Opened(sq, blk)
    IN /\ Tree(open)
       /\ \A c \in sq :
            LET degree == Cardinality(Near(sq, open, c))
            IN /\ lst[c] <= degree
               /\ c \in open => lst[c] = 0
               /\ c \notin open /\ (blk[c] = "BORDER" \/ degree = 1) => lst[c] > 0

LEMMA SquareCell ==
    ASSUME NEW m \in Nat, NEW c \in Square(m)
    PROVE  c = <<c[1], c[2]>> /\ c[1] \in 0 .. m - 1 /\ c[2] \in 0 .. m - 1
  BY DEF Square

LEMMA SquareInts ==
    ASSUME NEW m \in Nat, NEW c \in Square(m)
    PROVE  c[1] \in Int /\ c[2] \in Int
  BY SquareCell

LEMMA SquareFinite ==
    ASSUME NEW m \in Nat
    PROVE  IsFiniteSet(Square(m))
  <1> DEFINE side == 0 .. m - 1
  <1>1. IsFiniteSet(side)
    BY FS_Interval
  <1> HIDE DEF side
  <1>2. IsFiniteSet(side \X side)
    BY <1>1, FS_Product
  <1> QED
    BY <1>2 DEF side, Square

\* A cell has four neighbours at most.
LEMMA NearFew ==
    ASSUME NEW m \in Nat, NEW open \in SUBSET Square(m), NEW c \in Square(m)
    PROVE  /\ IsFiniteSet(Near(Square(m), open, c))
           /\ Cardinality(Near(Square(m), open, c)) \in 0 .. 4
  <1> DEFINE near == Near(Square(m), open, c)
             one == {<<c[1] - 1, c[2]>>}
             two == one \cup {<<c[1] + 1, c[2]>>}
             three == two \cup {<<c[1], c[2] - 1>>}
             four == three \cup {<<c[1], c[2] + 1>>}
  <1>1. near \in SUBSET four
    <2> SUFFICES ASSUME NEW d \in near PROVE d \in four
      OBVIOUS
    <2>1. d \in Square(m) /\ Adjacent(c, d)
      BY DEF Near
    <2>2. d = <<d[1], d[2]>> /\ d[1] \in Int /\ d[2] \in Int /\ c[1] \in Int /\ c[2] \in Int
      BY <2>1, SquareCell
    <2> QED
      BY <2>1, <2>2 DEF Adjacent
  <1>2. IsFiniteSet(one) /\ Cardinality(one) = 1
    BY FS_Singleton
  <1> HIDE DEF one
  <1>3. IsFiniteSet(two) /\ Cardinality(two) \in 1 .. 2
    <2>1. /\ IsFiniteSet(two)
          /\ Cardinality(two) = IF <<c[1] + 1, c[2]>> \in one THEN Cardinality(one)
                                ELSE Cardinality(one) + 1
      BY <1>2, FS_AddElement
    <2> QED
      BY <2>1, <1>2
  <1> HIDE DEF two
  <1>4. IsFiniteSet(three) /\ Cardinality(three) \in 1 .. 3
    <2>1. /\ IsFiniteSet(three)
          /\ Cardinality(three) = IF <<c[1], c[2] - 1>> \in two THEN Cardinality(two)
                                  ELSE Cardinality(two) + 1
      BY <1>3, FS_AddElement
    <2> QED
      BY <2>1, <1>3
  <1> HIDE DEF three
  <1>5. IsFiniteSet(four) /\ Cardinality(four) \in 1 .. 4
    <2>1. /\ IsFiniteSet(four)
          /\ Cardinality(four) = IF <<c[1], c[2] + 1>> \in three THEN Cardinality(three)
                                 ELSE Cardinality(three) + 1
      BY <1>4, FS_AddElement
    <2> QED
      BY <2>1, <1>4
  <1> HIDE DEF four, near
  <1>6. IsFiniteSet(near) /\ Cardinality(near) <= Cardinality(four)
    BY <1>1, <1>5, FS_Subset
  <1>7. Cardinality(near) \in Nat
    BY <1>6, FS_CardinalityType
  <1>8. Cardinality(near) \in 0 .. 4
    BY <1>5, <1>6, <1>7
  <1> QED
    BY <1>6, <1>8 DEF near

\* A single cell is a tree.
LEMMA TreeSeed ==
    ASSUME NEW c, c[1] \in Int, c[2] \in Int
    PROVE  Tree({c})
  <1> DEFINE one == {c}
  <1>1. IsFiniteSet(one) /\ Cardinality(one) = 1 /\ Cut(one) /\ one # {}
    BY FS_Singleton, CutSingle
  <1>2. Passages(one) = {}
    <2>1. ~Adjacent(c, c)
      BY AdjacentApart
    <2> QED
      BY <2>1 DEF Passages
  <1>3. IsFiniteSet(Passages(one)) /\ Cardinality(Passages(one)) = 0
    BY <1>2, FS_EmptySet
  <1> HIDE DEF one
  <1>4. Tree(one)
    BY <1>1, <1>3 DEF Tree
  <1> QED
    BY <1>4 DEF one

\* A cell that touches exactly one cell of a tree makes it a larger tree.
LEMMA TreeGrows ==
    ASSUME NEW open, Tree(open), NEW c, c[1] \in Int, c[2] \in Int,
           c \notin open, NEW d \in open, Adjacent(c, d),
           \A e \in open : Adjacent(c, e) => e = d
    PROVE  Tree(open \cup {c})
  <1> DEFINE wider == open \cup {c}
             single == {c}
             edge == {c, d}
             old == Passages(open)
  <1>1. Cut(open) /\ IsFiniteSet(open) /\ IsFiniteSet(old)
        /\ Cardinality(old) = Cardinality(open) - 1
    BY DEF Tree
  <1>2. Cut(wider)
    <2>1. Cut(single) /\ c \in single /\ Adjacent(d, c)
      BY CutSingle, AdjacentSymmetric
    <2> HIDE DEF single
    <2>2. Cut(open \cup single)
      BY <1>1, <2>1, CutJoins
    <2> QED
      BY <2>2 DEF single
  <1>3. IsFiniteSet(wider) /\ Cardinality(wider) = Cardinality(open) + 1
    BY <1>1, FS_AddElement
  <1>4. Passages(wider) = old \cup {edge}
    <2>1. ASSUME NEW p \in Passages(wider) PROVE p \in old \cup {edge}
      <3>1. PICK q \in wider \X wider : Adjacent(q[1], q[2]) /\ p = {q[1], q[2]}
        BY <2>1 DEF Passages
      <3>2. CASE q[1] \in open /\ q[2] \in open
        BY <3>1, <3>2 DEF Passages
      <3>3. CASE q[1] = c
        <4>1. q[2] # c
          BY <3>1, <3>3, AdjacentApart
        <4>2. q[2] = d
          BY <3>1, <3>3, <4>1
        <4> QED
          BY <3>1, <3>3, <4>2
      <3>4. CASE q[2] = c
        <4>1. q[1] # c /\ Adjacent(c, q[1])
          BY <3>1, <3>4, AdjacentSymmetric, AdjacentApart
        <4>2. q[1] = d
          BY <3>1, <3>4, <4>1
        <4> QED
          BY <3>1, <3>4, <4>2
      <3> QED
        BY <3>1, <3>2, <3>3, <3>4
    <2>2. old \subseteq Passages(wider)
      BY DEF Passages
    <2>3. edge \in Passages(wider)
      <3> DEFINE q == <<c, d>>
      <3>1. q \in {p \in wider \X wider : Adjacent(p[1], p[2])}
        OBVIOUS
      <3>2. edge = {q[1], q[2]}
        OBVIOUS
      <3> QED
        BY <3>1, <3>2 DEF Passages
    <2> QED
      BY <2>1, <2>2, <2>3
  <1>5. edge \notin old
    <2>1. \A p \in old : p \subseteq open
      BY DEF Passages
    <2> QED
      BY <2>1
  <1>6. IsFiniteSet(old \cup {edge}) /\ Cardinality(old \cup {edge}) = Cardinality(old) + 1
    <2> HIDE DEF old, edge
    <2> QED
      BY <1>1, <1>5, FS_AddElement
  <1>7. Cardinality(open) \in Nat
    BY <1>1, FS_CardinalityType
  <1>8. IsFiniteSet(Passages(wider)) /\ Cardinality(Passages(wider)) = Cardinality(wider) - 1
    <2> HIDE DEF wider, old, edge
    <2>1. Cardinality(old) + 1 = (Cardinality(open) + 1) - 1
      BY <1>1, <1>7
    <2> QED
      BY <1>3, <1>4, <1>6, <2>1
  <1> QED
    BY <1>2, <1>3, <1>8 DEF Tree

LEMMA NearOfOne ==
    ASSUME NEW sq, NEW start \in sq, NEW c \in sq
    PROVE  Cardinality(Near(sq, {start}, c)) = IF Adjacent(c, start) THEN 1 ELSE 0
  <1>1. CASE Adjacent(c, start)
    <2>1. Near(sq, {start}, c) = {start}
      BY <1>1 DEF Near
    <2> QED
      BY <1>1, <2>1, FS_Singleton
  <1>2. CASE ~Adjacent(c, start)
    <2>1. Near(sq, {start}, c) = {}
      BY <1>2 DEF Near
    <2> QED
      BY <1>2, <2>1, FS_EmptySet
  <1> QED
    BY <1>1, <1>2

\* A cell that opens counts for the cells it touches, and no others.
LEMMA NearOfMore ==
    ASSUME NEW m \in Nat, NEW open \in SUBSET Square(m), NEW c \in Square(m) \ open,
           NEW d \in Square(m)
    PROVE  Cardinality(Near(Square(m), open \cup {c}, d)) =
             IF Adjacent(c, d) THEN Cardinality(Near(Square(m), open, d)) + 1
             ELSE Cardinality(Near(Square(m), open, d))
  <1> DEFINE near == Near(Square(m), open, d)
             wider == Near(Square(m), open \cup {c}, d)
  <1>1. IsFiniteSet(near) /\ c \notin near
    BY NearFew DEF Near
  <1>2. CASE Adjacent(c, d)
    <2>1. wider = near \cup {c}
      BY <1>2, AdjacentSymmetric DEF Near
    <2> HIDE DEF near, wider
    <2>2. Cardinality(near \cup {c}) = Cardinality(near) + 1
      BY <1>1, FS_AddElement
    <2> QED
      BY <1>2, <2>1, <2>2 DEF near, wider
  <1>3. CASE ~Adjacent(c, d)
    <2>1. wider = near
      BY <1>3, AdjacentSymmetric DEF Near
    <2> QED
      BY <1>3, <2>1
  <1> QED
    BY <1>2, <1>3

\* The first cell of a room is a tree.
LEMMA GrowingSeed ==
    ASSUME NEW m \in Nat, NEW start \in Square(m), NEW blk, NEW lst,
           blk = [c \in Square(m) |-> IF c = start THEN "NOBLOCK"
                                      ELSE IF Adjacent(start, c) THEN "BORDER" ELSE "WALL"],
           lst = [c \in Square(m) |-> IF Adjacent(start, c) THEN 1 ELSE 0]
    PROVE  Growing(Square(m), blk, lst)
  <1>1. start[1] \in Int /\ start[2] \in Int
    BY SquareCell
  <1>2. Opened(Square(m), blk) = {start}
    BY DEF Opened
  <1>3. Tree({start})
    BY <1>1, TreeSeed
  <1>4. ASSUME NEW c \in Square(m)
        PROVE  LET degree == Cardinality(Near(Square(m), {start}, c))
               IN /\ lst[c] <= degree
                  /\ c \in {start} => lst[c] = 0
                  /\ c \notin {start} /\ (blk[c] = "BORDER" \/ degree = 1) => lst[c] > 0
    <2>1. Cardinality(Near(Square(m), {start}, c)) = IF Adjacent(c, start) THEN 1 ELSE 0
      BY NearOfOne
    <2>2. Adjacent(c, start) <=> Adjacent(start, c)
      BY AdjacentSymmetric
    <2>3. ~Adjacent(start, start)
      BY <1>1, AdjacentApart
    <2> QED
      BY <2>1, <2>2, <2>3
  <1> QED
    BY <1>2, <1>3, <1>4 DEF Growing

\* A cell that touches no open cell or several of them stays a wall.
LEMMA GrowingWall ==
    ASSUME NEW m \in Nat, NEW blk \in [Square(m) -> BlockTypes],
           NEW lst \in [Square(m) -> 0 .. 4], Growing(Square(m), blk, lst),
           NEW c \in Square(m), lst[c] > 0,
           Cardinality(Near(Square(m), Opened(Square(m), blk), c)) # 1
    PROVE  LET newBlk == [blk EXCEPT ![c] = "WALL"]
               newLst == [lst EXCEPT ![c] = @ - 1]
           IN /\ newBlk \in [Square(m) -> BlockTypes] /\ newLst \in [Square(m) -> 0 .. 4]
              /\ Growing(Square(m), newBlk, newLst)
  <1> DEFINE sq == Square(m)
             open == Opened(sq, blk)
             newBlk == [blk EXCEPT ![c] = "WALL"]
             newLst == [lst EXCEPT ![c] = @ - 1]
  <1>1. newBlk \in [sq -> BlockTypes] /\ newLst \in [sq -> 0 .. 4]
    <2>1. lst[c] \in 0 .. 4 /\ lst[c] - 1 \in 0 .. 4
      OBVIOUS
    <2> QED
      BY <2>1 DEF BlockTypes
  <1>2. c \notin open
    BY DEF Growing
  <1>3. Opened(sq, newBlk) = open
    BY <1>2 DEF Opened
  <1>4. ASSUME NEW d \in sq
        PROVE  LET degree == Cardinality(Near(sq, open, d))
               IN /\ newLst[d] <= degree
                  /\ d \in open => newLst[d] = 0
                  /\ d \notin open /\ (newBlk[d] = "BORDER" \/ degree = 1) => newLst[d] > 0
    <2> DEFINE degree == Cardinality(Near(sq, open, d))
    <2>1. /\ lst[d] <= degree
          /\ d \in open => lst[d] = 0
          /\ d \notin open /\ (blk[d] = "BORDER" \/ degree = 1) => lst[d] > 0
      BY DEF Growing
    <2>2. open \in SUBSET sq
      BY DEF Opened
    <2>3. degree \in Nat /\ lst[d] \in Nat
      BY <2>2, NearFew
    <2> HIDE DEF open
    <2>4. CASE d = c
      BY <2>1, <2>3, <2>4, <1>2 DEF open
    <2>5. CASE d # c
      BY <2>1, <2>3, <2>5
    <2> QED
      BY <2>4, <2>5
  <1>5. Tree(open)
    BY DEF Growing
  <1>6. Growing(sq, newBlk, newLst)
    <2> HIDE DEF newBlk, newLst, open, sq
    <2> QED
      BY <1>3, <1>4, <1>5 DEF Growing
  <1> QED
    BY <1>1, <1>6

\* The list after cell c was opened.
Listed(m, blk, lst, c) ==
    [d \in Square(m) |-> IF d = c THEN lst[d] - 1
                         ELSE IF Adjacent(c, d) /\ blk[d] = "WALL" THEN lst[d] + 1
                         ELSE lst[d]]

\* A cell that touches one open cell is opened, and the walls around it are
\* listed once more.
LEMMA GrowingOpen ==
    ASSUME NEW m \in Nat, NEW blk \in [Square(m) -> BlockTypes],
           NEW lst \in [Square(m) -> 0 .. 4], Growing(Square(m), blk, lst),
           NEW c \in Square(m), lst[c] > 0,
           Cardinality(Near(Square(m), Opened(Square(m), blk), c)) = 1,
           NEW newBlk, newBlk = [blk EXCEPT ![c] = "NOBLOCK"],
           NEW newLst, newLst = Listed(m, blk, lst, c)
    PROVE  /\ newBlk \in [Square(m) -> BlockTypes] /\ newLst \in [Square(m) -> 0 .. 4]
           /\ Growing(Square(m), newBlk, newLst)
  <1> DEFINE sq == Square(m)
             open == Opened(sq, blk)
             wider == open \cup {c}
  <1>0. c[1] \in Int /\ c[2] \in Int
    BY SquareInts
  <1>1. open \in SUBSET sq /\ Tree(open)
    BY DEF Opened, Growing
  <1>2. c \notin open
    BY DEF Growing
  <1>3. Opened(sq, newBlk) = wider
    BY DEF Opened
  <1>4. newBlk \in [sq -> BlockTypes]
    BY DEF BlockTypes
  <1>5. Tree(wider)
    <2>1. IsFiniteSet(Near(sq, open, c)) /\ Cardinality(Near(sq, open, c)) = 1
      BY <1>1, NearFew
    <2>2. PICK d : Near(sq, open, c) = {d}
      BY <2>1, FS_Singleton
    <2>3. d \in open /\ Adjacent(c, d)
      BY <2>2 DEF Near
    <2>4. \A e \in open : Adjacent(c, e) => e = d
      BY <2>2, <1>1 DEF Near
    <2> HIDE DEF open
    <2> QED
      BY <1>1, <1>2, <2>3, <2>4, <1>0, TreeGrows
  <1>6. ASSUME NEW d \in sq
        PROVE  LET degree == Cardinality(Near(sq, wider, d))
               IN /\ newLst[d] \in 0 .. 4
                  /\ newLst[d] <= degree
                  /\ d \in wider => newLst[d] = 0
                  /\ d \notin wider /\ (newBlk[d] = "BORDER" \/ degree = 1) => newLst[d] > 0
    <2> DEFINE degree == Cardinality(Near(sq, open, d))
               newDegree == Cardinality(Near(sq, wider, d))
    <2>1. /\ lst[d] <= degree
          /\ d \in open => lst[d] = 0
          /\ d \notin open /\ (blk[d] = "BORDER" \/ degree = 1) => lst[d] > 0
      BY DEF Growing
    <2>2. wider \in SUBSET sq
      BY <1>1
    <2>3. degree \in 0 .. 4 /\ newDegree \in 0 .. 4 /\ lst[d] \in 0 .. 4
      BY <1>1, <2>2, NearFew
    <2>4. newDegree = IF Adjacent(c, d) THEN degree + 1 ELSE degree
      BY <1>1, <1>2, NearOfMore
    <2>5. d \in open <=> blk[d] = "NOBLOCK"
      BY DEF Opened
    <2>6. CASE d = c
      <3>1. lst[c] <= 1
        BY <2>1, <2>6
      <3>2. newLst[d] = lst[c] - 1 /\ d \in wider
        BY <2>6 DEF Listed
      <3> HIDE DEF newDegree, wider
      <3> QED
        BY <2>3, <2>6, <3>1, <3>2 DEF newDegree
    <2>7. CASE d # c
      <3>1. /\ newLst[d] = IF Adjacent(c, d) /\ blk[d] = "WALL" THEN lst[d] + 1 ELSE lst[d]
            /\ newBlk[d] = blk[d] /\ (d \in wider <=> d \in open)
            /\ blk[d] \in {"NOBLOCK", "WALL", "BORDER"}
        BY <2>7 DEF BlockTypes, Listed
      <3> HIDE DEF degree, newDegree, wider, open
      <3>2. CASE Adjacent(c, d) /\ blk[d] = "WALL"
        <4>1. newLst[d] = lst[d] + 1 /\ newDegree = degree + 1 /\ d \notin open
          BY <2>4, <2>5, <3>1, <3>2
        <4> QED
          BY <2>1, <2>3, <3>1, <4>1 DEF newDegree
      <3>3. CASE Adjacent(c, d) /\ blk[d] # "WALL"
        <4>1. newLst[d] = lst[d] /\ newDegree = degree + 1
          BY <2>4, <3>1, <3>3
        <4> QED
          BY <2>1, <2>3, <2>5, <3>1, <3>3, <4>1 DEF newDegree
      <3>4. CASE ~Adjacent(c, d)
        <4>1. newLst[d] = lst[d] /\ newDegree = degree
          BY <2>4, <3>1, <3>4
        <4> QED
          BY <2>1, <2>3, <3>1, <4>1 DEF newDegree
      <3> QED
        BY <3>2, <3>3, <3>4
    <2> QED
      BY <2>6, <2>7
  <1>7. newLst \in [sq -> 0 .. 4]
    <2>1. \A d \in sq : newLst[d] \in 0 .. 4
      BY <1>6
    <2>2. newLst = [d \in sq |-> newLst[d]]
      BY DEF Listed
    <2> QED
      BY <2>1, <2>2
  <1>8. Growing(sq, newBlk, newLst)
    <2> HIDE DEF wider, sq
    <2> QED
      BY <1>3, <1>5, <1>6 DEF Growing
  <1> QED
    BY <1>4, <1>7, <1>8

-----------------------------------------------------------------------------
(* A finished room.                                                        *)

\* Every cell that was left closed touches no open cell, or several.
Complete(sq, blk) ==
    LET open == Opened(sq, blk)
    IN /\ Tree(open)
       /\ \A c \in sq \ open : Cardinality(Near(sq, open, c)) # 1

\* depth counts how far a cell is from one side of the room: next to a cell
\* that is not at the side there is one that is nearer to the side, and that
\* one has no other neighbour as far from it.
Inwards(sq, depth) ==
    /\ \A c \in sq : depth[c] \in Nat
    /\ \A c \in sq : depth[c] > 0 =>
         \E d \in sq : /\ depth[d] < depth[c] /\ Adjacent(d, c)
                       /\ \A e \in sq : Adjacent(d, e) /\ depth[e] >= depth[c] => e = c

\* A maze without an opening at a side would not be finished: its cells
\* nearest to that side have neighbours that touch nothing else.
LEMMA MazeTouches ==
    ASSUME NEW sq, NEW blk, Complete(sq, blk), NEW depth, Inwards(sq, depth)
    PROVE  \E c \in Opened(sq, blk) : depth[c] = 0
  <1> DEFINE open == Opened(sq, blk)
             depths == {depth[c] : c \in open}
  <1>1. open \in SUBSET sq /\ open # {}
    BY DEF Opened, Complete, Tree
  <1>2. depths \in SUBSET Nat /\ depths # {}
    BY <1>1 DEF Inwards
  <1>3. PICK least \in depths : \A k \in depths : least <= k
    <2> HIDE DEF depths
    <2> QED
      BY <1>2, LeastOf
  <1>4. PICK c \in open : depth[c] = least
    BY <1>3
  <1>5. CASE depth[c] = 0
    BY <1>4, <1>5
  <1>6. CASE depth[c] > 0
    <2>1. PICK d \in sq : /\ depth[d] < depth[c] /\ Adjacent(d, c)
                          /\ \A e \in sq : Adjacent(d, e) /\ depth[e] >= depth[c] => e = c
      BY <1>1, <1>6 DEF Inwards
    <2>2. \A e \in open : depth[e] >= depth[c]
      <3> SUFFICES ASSUME NEW e \in open PROVE depth[e] >= depth[c]
        OBVIOUS
      <3>1. depth[e] \in depths /\ depth[e] \in Nat /\ depth[c] \in Nat
        BY <1>1 DEF Inwards
      <3> QED
        BY <1>3, <1>4, <3>1
    <2>3. d \notin open
      <3>1. depth[d] \in Nat /\ depth[c] \in Nat
        BY <1>1, <2>1 DEF Inwards
      <3> QED
        BY <2>1, <2>2, <3>1
    <2>4. Near(sq, open, d) = {c}
      BY <1>1, <2>1, <2>2 DEF Near
    <2>5. Cardinality(Near(sq, open, d)) = 1
      BY <2>4, FS_Singleton
    <2> QED
      BY <2>3, <2>5 DEF Complete
  <1> QED
    BY <1>1, <1>2, <1>4, <1>5, <1>6 DEF Inwards

\* A complete maze opens a cell on each of the four sides of its room.
LEMMA MazeTouchesSides ==
    ASSUME NEW m \in Nat \ {0}, NEW blk, Complete(Square(m), blk)
    PROVE  /\ \E c \in Opened(Square(m), blk) : c[1] = 0
           /\ \E c \in Opened(Square(m), blk) : c[2] = 0
           /\ \E c \in Opened(Square(m), blk) : c[1] = m - 1
           /\ \E c \in Opened(Square(m), blk) : c[2] = m - 1
  <1> DEFINE sq == Square(m)
             top == [c \in sq |-> c[1]]
             left == [c \in sq |-> c[2]]
             bottom == [c \in sq |-> m - 1 - c[1]]
             right == [c \in sq |-> m - 1 - c[2]]
  <1>1. \A c \in sq : c = <<c[1], c[2]>> /\ c[1] \in 0 .. m - 1 /\ c[2] \in 0 .. m - 1
    BY SquareCell
  <1>2. Opened(sq, blk) \in SUBSET sq
    BY DEF Opened
  <1>3. Inwards(sq, top)
    <2> SUFFICES ASSUME NEW c \in sq, top[c] > 0
                 PROVE  \E d \in sq : /\ top[d] < top[c] /\ Adjacent(d, c)
                                      /\ \A e \in sq : Adjacent(d, e) /\ top[e] >= top[c]
                                                         => e = c
      BY <1>1 DEF Inwards
    <2> DEFINE d == <<c[1] - 1, c[2]>>
    <2>1. d \in sq
      BY <1>1 DEF Square
    <2>2. top[d] < top[c] /\ Adjacent(d, c)
      BY <1>1, <2>1 DEF Adjacent
    <2>3. ASSUME NEW e \in sq, Adjacent(d, e), top[e] >= top[c] PROVE e = c
      BY <1>1, <2>3 DEF Adjacent
    <2> QED
      BY <2>1, <2>2, <2>3
  <1>4. Inwards(sq, left)
    <2> SUFFICES ASSUME NEW c \in sq, left[c] > 0
                 PROVE  \E d \in sq : /\ left[d] < left[c] /\ Adjacent(d, c)
                                      /\ \A e \in sq : Adjacent(d, e) /\ left[e] >= left[c]
                                                         => e = c
      BY <1>1 DEF Inwards
    <2> DEFINE d == <<c[1], c[2] - 1>>
    <2>1. d \in sq
      BY <1>1 DEF Square
    <2>2. left[d] < left[c] /\ Adjacent(d, c)
      BY <1>1, <2>1 DEF Adjacent
    <2>3. ASSUME NEW e \in sq, Adjacent(d, e), left[e] >= left[c] PROVE e = c
      BY <1>1, <2>3 DEF Adjacent
    <2> QED
      BY <2>1, <2>2, <2>3
  <1>5. Inwards(sq, bottom)
    <2> SUFFICES ASSUME NEW c \in sq, bottom[c] > 0
                 PROVE  \E d \in sq : /\ bottom[d] < bottom[c] /\ Adjacent(d, c)
                                      /\ \A e \in sq : Adjacent(d, e) /\ bottom[e] >= bottom[c]
                                                         => e = c
      BY <1>1 DEF Inwards
    <2> DEFINE d == <<c[1] + 1, c[2]>>
    <2>1. d \in sq
      BY <1>1 DEF Square
    <2>2. bottom[d] < bottom[c] /\ Adjacent(d, c)
      BY <1>1, <2>1 DEF Adjacent
    <2>3. ASSUME NEW e \in sq, Adjacent(d, e), bottom[e] >= bottom[c] PROVE e = c
      BY <1>1, <2>3 DEF Adjacent
    <2> QED
      BY <2>1, <2>2, <2>3
  <1>6. Inwards(sq, right)
    <2> SUFFICES ASSUME NEW c \in sq, right[c] > 0
                 PROVE  \E d \in sq : /\ right[d] < right[c] /\ Adjacent(d, c)
                                      /\ \A e \in sq : Adjacent(d, e) /\ right[e] >= right[c]
                                                         => e = c
      BY <1>1 DEF Inwards
    <2> DEFINE d == <<c[1], c[2] + 1>>
    <2>1. d \in sq
      BY <1>1 DEF Square
    <2>2. right[d] < right[c] /\ Adjacent(d, c)
      BY <1>1, <2>1 DEF Adjacent
    <2>3. ASSUME NEW e \in sq, Adjacent(d, e), right[e] >= right[c] PROVE e = c
      BY <1>1, <2>3 DEF Adjacent
    <2> QED
      BY <2>1, <2>2, <2>3
  <1>7. /\ \E c \in Opened(sq, blk) : top[c] = 0
        /\ \E c \in Opened(sq, blk) : left[c] = 0
        /\ \E c \in Opened(sq, blk) : bottom[c] = 0
        /\ \E c \in Opened(sq, blk) : right[c] = 0
    <2> HIDE DEF sq, top, left, bottom, right
    <2> QED
      BY <1>3, <1>4, <1>5, <1>6, MazeTouches DEF sq
  <1>8. \A c \in Opened(sq, blk) : /\ top[c] = c[1] /\ left[c] = c[2]
                                   /\ bottom[c] = 0 => c[1] = m - 1
                                   /\ right[c] = 0 => c[2] = m - 1
    <2> SUFFICES ASSUME NEW c \in sq
                 PROVE  /\ top[c] = c[1] /\ left[c] = c[2]
                        /\ bottom[c] = 0 => c[1] = m - 1
                        /\ right[c] = 0 => c[2] = m - 1
      BY <1>2
    <2> QED
      BY <1>1
  <1> HIDE DEF top, left, bottom, right
  <1> QED
    BY <1>7, <1>8

\* The cells at the four sides of a room, as Sides opens them.
Ring(m) == {c \in Square(m) : \E k \in {1, 2} : c[k] \in {0, m - 1}}

\* The sides of a red room are connected among themselves.
LEMMA RingConnected ==
    ASSUME NEW m \in Nat \ {0}
    PROVE  Cut(Ring(m))
  <1> DEFINE Row(e) == [k \in Nat |-> <<e, k>>]
             Col(e) == [k \in Nat |-> <<k, e>>]
             top == {Row(0)[k] : k \in 0 .. m - 1}
             bottom == {Row(m - 1)[k] : k \in 0 .. m - 1}
             left == {Col(0)[k] : k \in 0 .. m - 1}
             right == {Col(m - 1)[k] : k \in 0 .. m - 1}
  <1>1. ASSUME NEW e \in Nat
        PROVE  Cut({Row(e)[k] : k \in 0 .. m - 1}) /\ Cut({Col(e)[k] : k \in 0 .. m - 1})
    <2>1. \A k \in Nat : Adjacent(Row(e)[k], Row(e)[k + 1])
                         /\ Adjacent(Col(e)[k], Col(e)[k + 1])
      BY DEF Adjacent
    <2>2. m - 1 \in Nat
      OBVIOUS
    <2> HIDE DEF Row, Col
    <2> QED
      BY <2>1, <2>2, CutLine
  <1>2. Cut(top) /\ Cut(bottom) /\ Cut(left) /\ Cut(right)
    <2>1. m - 1 \in Nat /\ 0 \in Nat
      OBVIOUS
    <2> HIDE DEF Row, Col
    <2> QED
      BY <1>1, <2>1
  <1>3. /\ <<0, 0>> \in top /\ <<0, 0>> \in left
        /\ <<m - 1, 0>> \in left /\ <<m - 1, 0>> \in bottom
        /\ <<0, m - 1>> \in top /\ <<0, m - 1>> \in right
    <2>1. 0 \in 0 .. m - 1 /\ m - 1 \in 0 .. m - 1 /\ 0 \in Nat /\ m - 1 \in Nat
      OBVIOUS
    <2>2. /\ Row(0)[0] = <<0, 0>> /\ Col(0)[0] = <<0, 0>>
          /\ Col(0)[m - 1] = <<m - 1, 0>> /\ Row(m - 1)[0] = <<m - 1, 0>>
          /\ Row(0)[m - 1] = <<0, m - 1>> /\ Col(m - 1)[0] = <<0, m - 1>>
      BY <2>1
    <2> HIDE DEF Row, Col
    <2> QED
      BY <2>1, <2>2
  <1>4. Ring(m) = ((top \cup left) \cup bottom) \cup right
    <2>1. /\ \A c : c \in top <=> \E k \in 0 .. m - 1 : c = <<0, k>>
          /\ \A c : c \in left <=> \E k \in 0 .. m - 1 : c = <<k, 0>>
          /\ \A c : c \in bottom <=> \E k \in 0 .. m - 1 : c = <<m - 1, k>>
          /\ \A c : c \in right <=> \E k \in 0 .. m - 1 : c = <<k, m - 1>>
      OBVIOUS
    <2> HIDE DEF top, left, bottom, right
    <2>2. ASSUME NEW c \in Ring(m) PROVE c \in ((top \cup left) \cup bottom) \cup right
      <3>1. c \in Square(m) /\ \E k \in {1, 2} : c[k] \in {0, m - 1}
        BY <2>2 DEF Ring
      <3>2. c = <<c[1], c[2]>> /\ c[1] \in 0 .. m - 1 /\ c[2] \in 0 .. m - 1
        BY <3>1, SquareCell
      <3> QED
        BY <2>1, <3>1, <3>2
    <2>3. ASSUME NEW c \in ((top \cup left) \cup bottom) \cup right PROVE c \in Ring(m)
      <3>1. c \in Square(m) /\ \E k \in {1, 2} : c[k] \in {0, m - 1}
        BY <2>1, <2>3 DEF Square
      <3> QED
        BY <3>1 DEF Ring
    <2> QED
      BY <2>2, <2>3
  <1> HIDE DEF top, left, bottom, right
  <1>5. Cut(top \cup left)
    BY <1>2, <1>3, CutJoins
  <1>6. Cut((top \cup left) \cup bottom)
    <2> DEFINE half == top \cup left
    <2>1. Cut(half) /\ <<m - 1, 0>> \in half
      BY <1>3, <1>5
    <2> HIDE DEF half
    <2>2. Cut(half \cup bottom)
      BY <1>2, <1>3, <2>1, CutJoins
    <2> QED
      BY <2>2 DEF half
  <1>7. Cut(((top \cup left) \cup bottom) \cup right)
    <2> DEFINE most == (top \cup left) \cup bottom
    <2>1. Cut(most) /\ <<0, m - 1>> \in most
      BY <1>3, <1>6
    <2> HIDE DEF most
    <2>2. Cut(most \cup right)
      BY <1>2, <1>3, <2>1, CutJoins
    <2> QED
      BY <2>2 DEF most
  <1> QED
    BY <1>4, <1>7

\* What is open in a finished room is connected and touches all four sides;
\* in a red room it holds all the cells of them.
OpenRoom(m, isRed, open) ==
    /\ open \in SUBSET Square(m) /\ Cut(open)
    /\ \A k \in {1, 2} : \A e \in {0, m - 1} : \E c \in open : c[k] = e
    /\ isRed => Ring(m) \subseteq open

\* A finished room is connected, with its sides if it is red.
LEMMA RoomOpens ==
    ASSUME NEW m \in Nat \ {0}, NEW blk, Complete(Square(m), blk), NEW isRed
    PROVE  OpenRoom(m, isRed, Opened(Square(m), blk) \cup (IF isRed THEN Ring(m) ELSE {}))
  <1> DEFINE open == Opened(Square(m), blk)
  <1>1. open \in SUBSET Square(m) /\ Cut(open)
    BY DEF Opened, Complete, Tree
  <1>2. \A k \in {1, 2} : \A e \in {0, m - 1} : \E c \in open : c[k] = e
    BY MazeTouchesSides
  <1>3. Ring(m) \in SUBSET Square(m) /\ \A c \in Square(m) : c[1] = 0 => c \in Ring(m)
    BY DEF Ring
  <1>4. PICK c \in open : c[1] = 0
    BY <1>2
  <1> HIDE DEF open
  <1>5. CASE isRed
    <2>1. c \in Ring(m)
      BY <1>1, <1>3, <1>4
    <2>2. Cut(open \cup Ring(m))
      BY <1>1, <2>1, CutJoins, RingConnected
    <2>3. \A k \in {1, 2} : \A e \in {0, m - 1} : \E d \in open \cup Ring(m) : d[k] = e
      BY <1>2
    <2>4. OpenRoom(m, isRed, open \cup Ring(m))
      BY <1>1, <1>3, <2>2, <2>3 DEF OpenRoom
    <2> QED
      BY <1>5, <2>4 DEF open
  <1>6. CASE ~isRed
    <2>1. OpenRoom(m, isRed, open)
      BY <1>1, <1>2, <1>6 DEF OpenRoom
    <2>2. open \cup {} = open
      OBVIOUS
    <2> QED
      BY <1>6, <2>1, <2>2 DEF open
  <1> QED
    BY <1>5, <1>6

-----------------------------------------------------------------------------
(* The rooms of a map.                                                     *)

\* Where cell c of room <<i, j>> is on the map, as Place says it.
Put(m, i, j, c) == <<i * m + c[2] + 1, j * m + c[1] + 1>>

PutAll(m, i, j, open) == {Put(m, i, j, c) : c \in open}

\* Room <<i, j>> was made: it can be entered from the right and from below,
\* through every cell of these sides if it is red.
Made(m, isRed, map, i, j) ==
    /\ \E c \in Square(m) : c[1] = m - 1 /\ Put(m, i, j, c) \in map
    /\ \E c \in Square(m) : c[2] = m - 1 /\ Put(m, i, j, c) \in map
    /\ isRed => PutAll(m, i, j, Ring(m)) \subseteq map

\* Two facts about products, for the offsets of rooms.
LEMMA TimesNext ==
    ASSUME NEW m \in Nat, NEW i \in Nat
    PROVE  i * m \in Nat /\ (i + 1) * m = i * m + m
  OBVIOUS

LEMMA TimesMore ==
    ASSUME NEW m \in Nat, NEW i \in Nat, NEW k \in Nat, i < k
    PROVE  i * m + m <= k * m
  <1> DEFINE more == k - i - 1
  <1>1. more \in Nat /\ k = i + 1 + more
    OBVIOUS
  <1> HIDE DEF more
  <1>2. k * m = i * m + m + more * m
    BY <1>1
  <1>3. more * m \in Nat /\ i * m \in Nat /\ k * m \in Nat
    BY <1>1
  <1> QED
    BY <1>2, <1>3

\* A connected room stays connected where it is copied to.
LEMMA PutConnected ==
    ASSUME NEW m \in Nat, NEW i \in Nat, NEW j \in Nat,
           NEW open \in SUBSET Square(m), Cut(open)
    PROVE  Cut(PutAll(m, i, j, open))
  <1> DEFINE put == [c \in Square(m) |-> Put(m, i, j, c)]
  <1>1. i * m \in Nat /\ j * m \in Nat
    OBVIOUS
  <1>2. ASSUME NEW a \in open, NEW b \in open, Adjacent(a, b) PROVE Adjacent(put[a], put[b])
    <2>1. /\ a[1] \in Int /\ a[2] \in Int /\ b[1] \in Int /\ b[2] \in Int
          /\ put[a] = Put(m, i, j, a) /\ put[b] = Put(m, i, j, b)
      BY SquareCell
    <2> DEFINE x == i * m
               y == j * m
    <2>2. /\ put[a] = <<x + a[2] + 1, y + a[1] + 1>> /\ put[b] = <<x + b[2] + 1, y + b[1] + 1>>
          /\ x \in Int /\ y \in Int
      BY <1>1, <2>1 DEF Put
    <2> HIDE DEF x, y, put
    <2> QED
      BY <1>2, <2>1, <2>2 DEF Adjacent
  <1>3. PutAll(m, i, j, open) = {put[c] : c \in open}
    BY DEF PutAll
  <1> HIDE DEF put
  <1>4. Cut({put[c] : c \in open})
    BY <1>2, CutImage
  <1> QED
    BY <1>3, <1>4

\* A room that is made next to an earlier one, to the left or above, touches
\* it if one of the two is red.
LEMMA RoomsTouch ==
    ASSUME NEW m \in Nat \ {0}, NEW i \in Nat, NEW j \in Nat, NEW i0 \in Nat, NEW j0 \in Nat,
           (i = i0 /\ j = j0 + 1) \/ (i = i0 + 1 /\ j = j0),
           NEW isRed, NEW isRed0, isRed \/ isRed0,
           NEW map, Cut(map), Made(m, isRed0, map, i0, j0),
           NEW open, OpenRoom(m, isRed, open)
    PROVE  Cut(map \cup PutAll(m, i, j, open))
  <1> DEFINE new == PutAll(m, i, j, open)
             x0 == i0 * m
             y0 == j0 * m
             x == i * m
             y == j * m
  <1>1. Cut(new)
    BY PutConnected DEF OpenRoom
  <1>2. x0 \in Nat /\ y0 \in Nat /\ x \in Nat /\ y \in Nat
    OBVIOUS
  <1>3. (x = x0 /\ y = y0 + m) \/ (x = x0 + m /\ y = y0)
    BY TimesNext
  <1>4. /\ \A c : Put(m, i0, j0, c) = <<x0 + c[2] + 1, y0 + c[1] + 1>>
        /\ \A c : Put(m, i, j, c) = <<x + c[2] + 1, y + c[1] + 1>>
    BY DEF Put
  <1>5. /\ \A c \in open : <<x + c[2] + 1, y + c[1] + 1>> \in new
        /\ isRed0 => \A c \in Ring(m) : <<x0 + c[2] + 1, y0 + c[1] + 1>> \in map
        /\ isRed => Ring(m) \subseteq open
        /\ open \in SUBSET Square(m)
    BY <1>4 DEF PutAll, Made, OpenRoom
  <1>6. /\ \E c \in Square(m) : c[1] = m - 1 /\ <<x0 + c[2] + 1, y0 + c[1] + 1>> \in map
        /\ \E c \in Square(m) : c[2] = m - 1 /\ <<x0 + c[2] + 1, y0 + c[1] + 1>> \in map
    BY <1>4 DEF Made
  <1>7. /\ \E c \in open : c[1] = 0
        /\ \E c \in open : c[2] = 0
    BY DEF OpenRoom
  <1> HIDE DEF x0, y0, x, y, new
  <1>8. \A k \in 0 .. m - 1 : /\ <<0, k>> \in Ring(m) /\ <<m - 1, k>> \in Ring(m)
                              /\ <<k, 0>> \in Ring(m) /\ <<k, m - 1>> \in Ring(m)
    BY DEF Ring, Square
  <1>9. \E a \in map, b \in new : Adjacent(a, b)
    <2>1. CASE x = x0 /\ y = y0 + m /\ isRed
      <3>1. PICK c \in Square(m) : c[1] = m - 1 /\ <<x0 + c[2] + 1, y0 + c[1] + 1>> \in map
        BY <1>6
      <3>2. c[2] \in 0 .. m - 1 /\ <<0, c[2]>> \in open
        BY <1>5, <1>8, <2>1, SquareCell
      <3>3. <<x + c[2] + 1, y + 0 + 1>> \in new
        BY <1>5, <3>2
      <3>4. Adjacent(<<x0 + c[2] + 1, y0 + c[1] + 1>>, <<x + c[2] + 1, y + 0 + 1>>)
        BY <1>2, <2>1, <3>1, <3>2 DEF Adjacent
      <3> QED
        BY <3>1, <3>3, <3>4
    <2>2. CASE x = x0 /\ y = y0 + m /\ isRed0
      <3>1. PICK c \in open : c[1] = 0
        BY <1>7
      <3>2. c[2] \in 0 .. m - 1 /\ <<m - 1, c[2]>> \in Ring(m)
        BY <1>5, <1>8, SquareCell
      <3>3. <<x0 + c[2] + 1, y0 + (m - 1) + 1>> \in map
        BY <1>5, <2>2, <3>2
      <3>4. <<x + c[2] + 1, y + c[1] + 1>> \in new
        BY <1>5
      <3>5. Adjacent(<<x0 + c[2] + 1, y0 + (m - 1) + 1>>, <<x + c[2] + 1, y + c[1] + 1>>)
        BY <1>2, <2>2, <3>1, <3>2 DEF Adjacent
      <3> QED
        BY <3>3, <3>4, <3>5
    <2>3. CASE x = x0 + m /\ y = y0 /\ isRed
      <3>1. PICK c \in Square(m) : c[2] = m - 1 /\ <<x0 + c[2] + 1, y0 + c[1] + 1>> \in map
        BY <1>6
      <3>2. c[1] \in 0 .. m - 1 /\ <<c[1], 0>> \in open
        BY <1>5, <1>8, <2>3, SquareCell
      <3>3. <<x + 0 + 1, y + c[1] + 1>> \in new
        BY <1>5, <3>2
      <3>4. Adjacent(<<x0 + c[2] + 1, y0 + c[1] + 1>>, <<x + 0 + 1, y + c[1] + 1>>)
        BY <1>2, <2>3, <3>1, <3>2 DEF Adjacent
      <3> QED
        BY <3>1, <3>3, <3>4
    <2>4. CASE x = x0 + m /\ y = y0 /\ isRed0
      <3>1. PICK c \in open : c[2] = 0
        BY <1>7
      <3>2. c[1] \in 0 .. m - 1 /\ <<c[1], m - 1>> \in Ring(m)
        BY <1>5, <1>8, SquareCell
      <3>3. <<x0 + (m - 1) + 1, y0 + c[1] + 1>> \in map
        BY <1>5, <2>4, <3>2
      <3>4. <<x + c[2] + 1, y + c[1] + 1>> \in new
        BY <1>5
      <3>5. Adjacent(<<x0 + (m - 1) + 1, y0 + c[1] + 1>>, <<x + c[2] + 1, y + c[1] + 1>>)
        BY <1>2, <2>4, <3>1, <3>2 DEF Adjacent
      <3> QED
        BY <3>3, <3>4, <3>5
    <2> QED
      BY <1>3, <2>1, <2>2, <2>3, <2>4
  <1> QED
    BY <1>1, <1>9, CutJoins DEF new

\* What is copied to the map is the room that was made.
LEMMA RoomMade ==
    ASSUME NEW m \in Nat \ {0}, NEW i, NEW j, NEW isRed, NEW map,
           NEW open, OpenRoom(m, isRed, open)
    PROVE  Made(m, isRed, map \cup PutAll(m, i, j, open), i, j)
  <1>1. /\ \E c \in open : c[1] = m - 1
        /\ \E c \in open : c[2] = m - 1
        /\ open \in SUBSET Square(m)
        /\ isRed => Ring(m) \subseteq open
    BY DEF OpenRoom
  <1> QED
    BY <1>1 DEF Made, PutAll

\* Rooms are copied to cells of the map.
LEMMA PutInside ==
    ASSUME NEW m \in Nat, NEW size \in Nat, NEW i \in 0 .. size - 1, NEW j \in 0 .. size - 1,
           NEW open \in SUBSET Square(m)
    PROVE  PutAll(m, i, j, open) \in SUBSET Square(size * m + 2)
  <1> DEFINE x == i * m
             y == j * m
             all == size * m
  <1>1. i \in Nat /\ j \in Nat /\ i < size /\ j < size
    OBVIOUS
  <1>2. x + m <= all /\ y + m <= all
    BY <1>1, TimesMore
  <1>3. x \in Nat /\ y \in Nat /\ all \in Nat
    BY <1>1
  <1>4. \A c : Put(m, i, j, c) = <<x + c[2] + 1, y + c[1] + 1>>
    BY DEF Put
  <1> HIDE DEF x, y, all
  <1>5. ASSUME NEW c \in open PROVE Put(m, i, j, c) \in Square(all + 2)
    <2>1. c[1] \in 0 .. m - 1 /\ c[2] \in 0 .. m - 1
      BY SquareCell
    <2>2. x + c[2] + 1 \in 0 .. (all + 2) - 1 /\ y + c[1] + 1 \in 0 .. (all + 2) - 1
      BY <1>2, <1>3, <2>1
    <2> QED
      BY <1>4, <2>2 DEF Square
  <1> QED
    BY <1>5 DEF PutAll, all

\* A number splits into the room's and the cell's part in one way.
LEMMA SplitOnce ==
    ASSUME NEW m \in Nat, NEW i \in Nat, NEW k \in Nat,
           NEW x \in 0 .. m - 1, NEW y \in 0 .. m - 1, i * m + x = k * m + y
    PROVE  i = k /\ x = y
  <1> DEFINE p == i * m
             q == k * m
  <1>1. p \in Int /\ q \in Int
    OBVIOUS
  <1>2. ASSUME i < k PROVE FALSE
    <2>1. p + m <= q
      BY <1>2, TimesMore
    <2>2. p + x = q + y
      OBVIOUS
    <2> HIDE DEF p, q
    <2> QED
      BY <1>1, <2>1, <2>2
  <1>3. ASSUME k < i PROVE FALSE
    <2>1. q + m <= p
      BY <1>3, TimesMore
    <2>2. p + x = q + y
      OBVIOUS
    <2> HIDE DEF p, q
    <2> QED
      BY <1>1, <2>1, <2>2
  <1>4. i = k
    BY <1>2, <1>3
  <1>5. p + x = p + y
    BY <1>4
  <1> HIDE DEF p
  <1> QED
    BY <1>1, <1>4, <1>5

\* No two cells of rooms are copied to one cell of the map.
LEMMA PutOnce ==
    ASSUME NEW m \in Nat, NEW i \in Nat, NEW j \in Nat, NEW a \in Nat, NEW b \in Nat,
           NEW c \in Square(m), NEW d \in Square(m), Put(m, i, j, c) = Put(m, a, b, d)
    PROVE  i = a /\ j = b /\ c = d
  <1>1. /\ c = <<c[1], c[2]>> /\ c[1] \in 0 .. m - 1 /\ c[2] \in 0 .. m - 1
        /\ d = <<d[1], d[2]>> /\ d[1] \in 0 .. m - 1 /\ d[2] \in 0 .. m - 1
    BY SquareCell
  <1>2. i * m + c[2] + 1 = a * m + d[2] + 1 /\ j * m + c[1] + 1 = b * m + d[1] + 1
    BY DEF Put
  <1>3. i * m \in Int /\ a * m \in Int /\ j * m \in Int /\ b * m \in Int
    OBVIOUS
  <1>4. i * m + c[2] = a * m + d[2] /\ j * m + c[1] = b * m + d[1]
    BY <1>1, <1>2, <1>3
  <1>5. i = a /\ c[2] = d[2]
    BY <1>1, <1>4, SplitOnce
  <1>6. j = b /\ c[1] = d[1]
    BY <1>1, <1>4, SplitOnce
  <1> QED
    BY <1>1, <1>5, <1>6

\* What the copy of a room leaves at b.
Copied(m, i, j, final, blk, b) ==
    IF \E c \in Square(m) : Put(m, i, j, c) = b
    THEN final[CHOOSE c \in Square(m) : Put(m, i, j, c) = b]
    ELSE blk[b]

LEMMA CopiedIs ==
    ASSUME NEW m \in Nat, NEW i \in Nat, NEW j \in Nat, NEW final, NEW blk
    PROVE  /\ \A c \in Square(m) : Copied(m, i, j, final, blk, Put(m, i, j, c)) = final[c]
           /\ \A b : b \notin PutAll(m, i, j, Square(m)) => Copied(m, i, j, final, blk, b) = blk[b]
  <1>1. ASSUME NEW c \in Square(m)
        PROVE  Copied(m, i, j, final, blk, Put(m, i, j, c)) = final[c]
    <2> DEFINE d == CHOOSE d \in Square(m) : Put(m, i, j, d) = Put(m, i, j, c)
    <2>1. d \in Square(m) /\ Put(m, i, j, d) = Put(m, i, j, c)
      OBVIOUS
    <2>2. Copied(m, i, j, final, blk, Put(m, i, j, c)) = final[d]
      BY DEF Copied
    <2> HIDE DEF d
    <2>3. d = c
      BY <2>1, PutOnce
    <2> QED
      BY <2>2, <2>3
  <1>2. ASSUME NEW b, b \notin PutAll(m, i, j, Square(m))
        PROVE  Copied(m, i, j, final, blk, b) = blk[b]
    BY <1>2 DEF Copied, PutAll
  <1> QED
    BY <1>1, <1>2

OnRim(size, b) == \E k \in {1, 2} : b[k] \in {0, size - 1}

\* Rooms are copied to cells inside the border.
LEMMA PutOffRim ==
    ASSUME NEW m \in Nat, NEW size \in Nat, NEW i \in 0 .. size - 1, NEW j \in 0 .. size - 1,
           NEW b \in PutAll(m, i, j, Square(m))
    PROVE  ~OnRim(size * m + 2, b)
  <1> DEFINE x == i * m
             y == j * m
             all == size * m
  <1>1. i \in Nat /\ j \in Nat /\ i < size /\ j < size
    OBVIOUS
  <1>2. x + m <= all /\ y + m <= all
    BY <1>1, TimesMore
  <1>3. x \in Nat /\ y \in Nat /\ all \in Nat
    BY <1>1
  <1>4. PICK c \in Square(m) : b = <<x + c[2] + 1, y + c[1] + 1>>
    BY DEF PutAll, Put
  <1> HIDE DEF x, y, all
  <1>5. c[1] \in 0 .. m - 1 /\ c[2] \in 0 .. m - 1
    BY SquareCell
  <1>6. b[1] = x + c[2] + 1 /\ b[2] = y + c[1] + 1
    BY <1>4
  <1>7. b[1] \notin {0, (all + 2) - 1} /\ b[2] \notin {0, (all + 2) - 1}
    BY <1>2, <1>3, <1>5, <1>6
  <1> QED
    BY <1>7 DEF OnRim, all

\* The rooms that are red in a map of settings s: a checkerboard.
IsRedAt(s, i, j) == (i + j) % 2 = (IF EvenMap(s) THEN 0 ELSE 1)

\* Red rooms and others take turns, in rows and in columns.
LEMMA RedNext ==
    ASSUME NEW s, s.MapSize \in Nat \ {0}, NEW i \in Nat, NEW j \in Nat
    PROVE  /\ IsRedAt(s, i, j + 1) <=> ~IsRedAt(s, i, j)
           /\ IsRedAt(s, i + 1, j) <=> ~IsRedAt(s, i, j)
           /\ IsRedAt(s, i + 1, 0) <=> IF EvenMap(s) THEN IsRedAt(s, i, s.MapSize - 1)
                                       ELSE ~IsRedAt(s, i, s.MapSize - 1)
  <1>1. \A k \in Nat : k % 2 \in {0, 1} /\ ((k + 1) % 2 = 0 <=> k % 2 = 1)
    OBVIOUS
  <1>2. /\ i + j \in Nat /\ i + (j + 1) = (i + j) + 1 /\ (i + 1) + j = (i + j) + 1
        /\ i + (s.MapSize - 1) \in Nat /\ i + 1 \in Nat
    OBVIOUS
  <1>3. /\ (i + j + 1) % 2 \in {0, 1} /\ (i + j) % 2 \in {0, 1}
        /\ (i + j + 1) % 2 = 0 <=> (i + j) % 2 = 1
    BY <1>1, <1>2
  <1>4. /\ (i + 1 + 0) % 2 \in {0, 1} /\ (i + (s.MapSize - 1)) % 2 \in {0, 1}
        /\ s.MapSize % 2 \in {0, 1}
        /\ s.MapSize % 2 = 1 => (i + 1 + 0) % 2 # (i + (s.MapSize - 1)) % 2
        /\ s.MapSize % 2 = 0 => (i + 1 + 0) % 2 = (i + (s.MapSize - 1)) % 2
    OBVIOUS
  <1> QED
    BY <1>2, <1>3, <1>4 DEF IsRedAt, EvenMap

\* Room <<a, b>> is made before room <<i, j>>.
Earlier(size, a, b, i, j) ==
    /\ a \in 0 .. size - 1 /\ b \in 0 .. size - 1
    /\ a < i \/ (a = i /\ b < j)

\* What holds between two rooms: map holds what was opened so far, in the
\* rooms before rm.
Rooms(s, rm, map) ==
    /\ rm = <<rm[1], rm[2]>>
    /\ rm[1] \in 0 .. s.MapSize - 1 /\ rm[2] \in 0 .. s.MapSize - 1
    /\ rm[1] = 0 /\ rm[2] = 0 => map = {}
    /\ \A a, b : Earlier(s.MapSize, a, b, rm[1], rm[2]) =>
                   Made(s.RoomSize, IsRedAt(s, a, b), map, a, b)

NextRoom(s, rm) == IF rm[2] = s.MapSize - 1 THEN <<rm[1] + 1, 0>> ELSE <<rm[1], rm[2] + 1>>

\* The next room is red if and only if the code's red says so.
RedTurns(s, rm) ==
    LET next == NextRoom(s, rm)
    IN IsRedAt(s, next[1], next[2]) <=>
         IF rm[2] = s.MapSize - 1 /\ EvenMap(s) THEN IsRedAt(s, rm[1], rm[2])
         ELSE ~IsRedAt(s, rm[1], rm[2])

\* Before the first room there is nothing to connect.
LEMMA RoomsStart ==
    ASSUME NEW s, s.MapSize \in Nat \ {0}
    PROVE  Rooms(s, <<0, 0>>, {}) /\ (EvenMap(s) <=> IsRedAt(s, 0, 0))
  <1>1. \A a, b : ~Earlier(s.MapSize, a, b, 0, 0)
    BY DEF Earlier
  <1>2. EvenMap(s) <=> IsRedAt(s, 0, 0)
    BY DEF EvenMap, IsRedAt
  <1> QED
    BY <1>1, <1>2 DEF Rooms

\* A room that is added to the connected map touches it: of two rooms side by
\* side one is red.
LEMMA RoomsConnect ==
    ASSUME NEW s, s.MapSize \in Nat \ {0}, s.RoomSize \in Nat \ {0},
           NEW rm, NEW map, Rooms(s, rm, map), Cut(map),
           NEW open, OpenRoom(s.RoomSize, IsRedAt(s, rm[1], rm[2]), open)
    PROVE  Cut(map \cup PutAll(s.RoomSize, rm[1], rm[2], open))
  <1> DEFINE m == s.RoomSize
             i == rm[1]
             j == rm[2]
  <1>1. i \in 0 .. s.MapSize - 1 /\ j \in 0 .. s.MapSize - 1 /\ i \in Nat /\ j \in Nat
    BY DEF Rooms
  <1>2. ASSUME NEW i0 \in Nat, NEW j0 \in Nat, Earlier(s.MapSize, i0, j0, i, j),
               (i = i0 /\ j = j0 + 1) \/ (i = i0 + 1 /\ j = j0)
        PROVE  Cut(map \cup PutAll(m, i, j, open))
    <2>1. Made(m, IsRedAt(s, i0, j0), map, i0, j0)
      BY <1>2 DEF Rooms
    <2>2. IsRedAt(s, i, j) \/ IsRedAt(s, i0, j0)
      BY <1>2, RedNext
    <2>3. OpenRoom(m, IsRedAt(s, i, j), open)
      BY DEF OpenRoom, Rooms
    <2> HIDE DEF m, i, j
    <2> QED
      BY <1>1, <1>2, <2>1, <2>2, <2>3, RoomsTouch DEF m
  <1>3. CASE j > 0
    <2>1. j - 1 \in Nat /\ j = (j - 1) + 1 /\ Earlier(s.MapSize, i, j - 1, i, j)
      BY <1>1, <1>3 DEF Earlier
    <2>2. Cut(map \cup PutAll(m, i, j, open))
      <3> HIDE DEF i, j, m
      <3> QED
        BY <1>1, <1>2, <2>1
    <2> QED
      BY <2>2
  <1>4. CASE j = 0 /\ i > 0
    <2>1. i - 1 \in Nat /\ i = (i - 1) + 1 /\ Earlier(s.MapSize, i - 1, j, i, j)
      BY <1>1, <1>4 DEF Earlier
    <2>2. Cut(map \cup PutAll(m, i, j, open))
      <3> HIDE DEF i, j, m
      <3> QED
        BY <1>1, <1>2, <2>1
    <2> QED
      BY <2>2
  <1>5. CASE j = 0 /\ i = 0
    <2>1. map = {}
      BY <1>5 DEF Rooms
    <2>2. Cut(PutAll(m, i, j, open))
      BY <1>1, PutConnected DEF OpenRoom
    <2> QED
      BY <2>1, <2>2
  <1> QED
    BY <1>1, <1>3, <1>4, <1>5

\* The rooms that are made after one more room.
LEMMA RoomsStep ==
    ASSUME NEW s, s.MapSize \in Nat \ {0}, s.RoomSize \in Nat \ {0},
           NEW rm, NEW map, Rooms(s, rm, map),
           NEW open, OpenRoom(s.RoomSize, IsRedAt(s, rm[1], rm[2]), open),
           rm # <<s.MapSize - 1, s.MapSize - 1>>
    PROVE  /\ Rooms(s, NextRoom(s, rm), map \cup PutAll(s.RoomSize, rm[1], rm[2], open))
           /\ RedTurns(s, rm)
  <1> DEFINE i == rm[1]
             j == rm[2]
             i2 == NextRoom(s, rm)[1]
             j2 == NextRoom(s, rm)[2]
             wider == map \cup PutAll(s.RoomSize, i, j, open)
  <1>1. /\ i \in 0 .. s.MapSize - 1 /\ j \in 0 .. s.MapSize - 1 /\ rm = <<i, j>>
    BY DEF Rooms
  <1>2. i # s.MapSize - 1 \/ j # s.MapSize - 1
    BY <1>1
  <1>3. /\ NextRoom(s, rm) = <<i2, j2>>
        /\ \/ j = s.MapSize - 1 /\ i2 = i + 1 /\ j2 = 0
           \/ j # s.MapSize - 1 /\ i2 = i /\ j2 = j + 1
    BY DEF NextRoom
  <1>4. i2 \in 0 .. s.MapSize - 1 /\ j2 \in 0 .. s.MapSize - 1 /\ ~ (i2 = 0 /\ j2 = 0)
    <2> HIDE DEF i, j, i2, j2
    <2> QED
      BY <1>1, <1>2, <1>3
  <1>5. IsRedAt(s, i2, j2) <=> IF j = s.MapSize - 1 /\ EvenMap(s) THEN IsRedAt(s, i, j)
                               ELSE ~IsRedAt(s, i, j)
    <2>1. i \in Nat /\ j \in Nat
      BY <1>1
    <2> HIDE DEF i2, j2
    <2>2. /\ IsRedAt(s, i, j + 1) <=> ~IsRedAt(s, i, j)
          /\ IsRedAt(s, i + 1, 0) <=> IF EvenMap(s) THEN IsRedAt(s, i, s.MapSize - 1)
                                      ELSE ~IsRedAt(s, i, s.MapSize - 1)
      BY <2>1, RedNext
    <2>3. CASE j = s.MapSize - 1 /\ i2 = i + 1 /\ j2 = 0
      BY <1>1, <2>2, <2>3
    <2>4. CASE j # s.MapSize - 1 /\ i2 = i /\ j2 = j + 1
      BY <1>1, <2>2, <2>4
    <2> QED
      BY <1>3, <2>3, <2>4
  <1>6. ASSUME NEW a, NEW b, Earlier(s.MapSize, a, b, i2, j2)
        PROVE  Made(s.RoomSize, IsRedAt(s, a, b), wider, a, b)
    <2>1. Earlier(s.MapSize, a, b, i, j) \/ (a = i /\ b = j)
      <3>1. /\ a \in 0 .. s.MapSize - 1 /\ b \in 0 .. s.MapSize - 1
            /\ a < i2 \/ (a = i2 /\ b < j2)
        BY <1>6 DEF Earlier
      <3> HIDE DEF i, j, i2, j2
      <3>2. a < i \/ (a = i /\ b < j) \/ (a = i /\ b = j)
        BY <1>1, <1>3, <3>1
      <3> QED
        BY <3>1, <3>2 DEF Earlier
    <2>2. CASE Earlier(s.MapSize, a, b, i, j)
      <3>1. Made(s.RoomSize, IsRedAt(s, a, b), map, a, b)
        BY <2>2 DEF Rooms
      <3> QED
        BY <3>1 DEF Made
    <2>3. CASE a = i /\ b = j
      <3>1. OpenRoom(s.RoomSize, IsRedAt(s, i, j), open)
        BY <1>1 DEF OpenRoom
      <3> QED
        BY <2>3, <3>1, RoomMade
    <2> QED
      BY <2>1, <2>2, <2>3
  <1>7. Rooms(s, NextRoom(s, rm), wider)
    <2> HIDE DEF i, j, wider
    <2> QED
      BY <1>3, <1>4, <1>6 DEF Rooms
  <1>8. RedTurns(s, rm)
    BY <1>5 DEF RedTurns
  <1> QED
    BY <1>7, <1>8

\* What was opened so far lies in rooms that were made before rm.
Behind(s, rm, opened) ==
    \A c \in opened : \E i, j : /\ Earlier(s.MapSize, i, j, rm[1], rm[2])
                               /\ c \in PutAll(s.RoomSize, i, j, Square(s.RoomSize))

\* So the room that is made overwrites nothing, and the border will not.
LEMMA BehindApart ==
    ASSUME NEW s, s.MapSize \in Nat \ {0}, s.RoomSize \in Nat \ {0},
           NEW rm, NEW opened, Rooms(s, rm, opened), Behind(s, rm, opened), NEW c \in opened
    PROVE  /\ c \notin PutAll(s.RoomSize, rm[1], rm[2], Square(s.RoomSize))
           /\ ~OnRim(s.MapSize * s.RoomSize + 2, c)
  <1> DEFINE m == s.RoomSize
  <1>1. PICK a, b : Earlier(s.MapSize, a, b, rm[1], rm[2]) /\ c \in PutAll(m, a, b, Square(m))
    BY DEF Behind
  <1>2. /\ a \in 0 .. s.MapSize - 1 /\ b \in 0 .. s.MapSize - 1
        /\ ~ (a = rm[1] /\ b = rm[2])
    BY <1>1 DEF Earlier, Rooms
  <1>3. rm[1] \in Nat /\ rm[2] \in Nat /\ m \in Nat /\ a \in Nat /\ b \in Nat /\ s.MapSize \in Nat
    BY <1>2 DEF Rooms
  <1> HIDE DEF m
  <1>4. c \notin PutAll(m, rm[1], rm[2], Square(m))
    <2>1. SUFFICES ASSUME NEW e \in Square(m), c = Put(m, rm[1], rm[2], e) PROVE FALSE
      BY DEF PutAll
    <2>2. PICK d \in Square(m) : c = Put(m, a, b, d)
      BY <1>1 DEF PutAll
    <2>3. PICK i, j : i = rm[1] /\ j = rm[2]
      OBVIOUS
    <2>4. Put(m, a, b, d) = Put(m, i, j, e)
      BY <2>1, <2>2, <2>3
    <2>5. i \in Nat /\ j \in Nat
      BY <1>3, <2>3
    <2>6. a = i /\ b = j
      BY <1>3, <2>1, <2>2, <2>4, <2>5, PutOnce
    <2> QED
      BY <1>2, <2>3, <2>6
  <1>5. ~OnRim(s.MapSize * m + 2, c)
    BY <1>1, <1>2, <1>3, PutOffRim
  <1> QED
    BY <1>4, <1>5 DEF m

LEMMA BehindStep ==
    ASSUME NEW s, s.MapSize \in Nat \ {0}, NEW rm, NEW opened, Rooms(s, rm, opened),
           Behind(s, rm, opened), NEW open \in SUBSET Square(s.RoomSize),
           rm # <<s.MapSize - 1, s.MapSize - 1>>
    PROVE  Behind(s, NextRoom(s, rm), opened \cup PutAll(s.RoomSize, rm[1], rm[2], open))
  <1> DEFINE i == rm[1]
             j == rm[2]
             i2 == NextRoom(s, rm)[1]
             j2 == NextRoom(s, rm)[2]
  <1>1. /\ i \in 0 .. s.MapSize - 1 /\ j \in 0 .. s.MapSize - 1 /\ rm = <<i, j>>
    BY DEF Rooms
  <1>2. \/ j = s.MapSize - 1 /\ i2 = i + 1 /\ j2 = 0
        \/ j # s.MapSize - 1 /\ i2 = i /\ j2 = j + 1
    BY DEF NextRoom
  <1> HIDE DEF i, j, i2, j2
  <1>3. Earlier(s.MapSize, i, j, i2, j2)
    BY <1>1, <1>2 DEF Earlier
  <1>4. ASSUME NEW a, NEW b, Earlier(s.MapSize, a, b, i, j)
        PROVE  Earlier(s.MapSize, a, b, i2, j2)
    BY <1>1, <1>2, <1>4 DEF Earlier
  <1>5. ASSUME NEW c \in opened
        PROVE  \E a, b : /\ Earlier(s.MapSize, a, b, i2, j2)
                         /\ c \in PutAll(s.RoomSize, a, b, Square(s.RoomSize))
    <2>1. PICK a, b : /\ Earlier(s.MapSize, a, b, i, j)
                      /\ c \in PutAll(s.RoomSize, a, b, Square(s.RoomSize))
      BY DEF Behind, i, j
    <2> QED
      BY <1>4, <2>1
  <1>6. ASSUME NEW c \in PutAll(s.RoomSize, i, j, open)
        PROVE  c \in PutAll(s.RoomSize, i, j, Square(s.RoomSize))
    BY DEF PutAll
  <1>7. \A c \in opened \cup PutAll(s.RoomSize, i, j, open) :
          \E a, b : /\ Earlier(s.MapSize, a, b, i2, j2)
                   /\ c \in PutAll(s.RoomSize, a, b, Square(s.RoomSize))
    BY <1>3, <1>5, <1>6
  <1> QED
    BY <1>7 DEF Behind, i, j, i2, j2

\* A finished room is crossed by what is open in it: no row is without.
LEMMA OpenCrosses ==
    ASSUME NEW m \in Nat \ {0}, NEW isRed, NEW open, OpenRoom(m, isRed, open),
           NEW k \in 0 .. m - 1
    PROVE  \E c \in open : c[2] = k
  <1> SUFFICES ASSUME \A c \in open : c[2] # k PROVE FALSE
    OBVIOUS
  <1> DEFINE part == {c \in open : c[2] < k}
  <1>1. open \in SUBSET Square(m) /\ Cut(open)
    BY DEF OpenRoom
  <1>2. PICK c \in open, d \in open : c[2] = 0 /\ d[2] = m - 1
    BY DEF OpenRoom
  <1>3. k \in Nat /\ k # 0 /\ k # m - 1 /\ m - 1 > k
    BY <1>2
  <1>4. c \in part /\ d \notin part
    BY <1>2, <1>3
  <1>5. PICK a \in part, b \in open \ part : Adjacent(a, b)
    BY <1>1, <1>4 DEF Cut
  <1>6. a \in Square(m) /\ b \in Square(m)
    BY <1>1, <1>5
  <1>7. a[2] \in Int /\ b[2] \in Int /\ a[2] < k /\ b[2] > k
    <2>1. a[2] \in Int /\ b[2] \in Int
      BY <1>6, SquareInts
    <2> QED
      BY <1>3, <1>5, <2>1
  <1>8. a[2] = b[2] \/ a[2] = b[2] + 1 \/ b[2] = a[2] + 1
    BY <1>5 DEF Adjacent
  <1> QED
    BY <1>3, <1>7, <1>8

\* Every row of room <<i, j>> has a cell on the map.
Crossed(m, map, i, j) == \A k \in 0 .. m - 1 : \E c \in Square(m) :
                           c[2] = k /\ Put(m, i, j, c) \in map

\* The rooms before rm, and in the end all rooms, have one.
Passed(s, rm, map) ==
    \A a, b : Earlier(s.MapSize, a, b, rm[1], rm[2]) => Crossed(s.RoomSize, map, a, b)
AllCrossed(s, map) ==
    \A a, b \in 0 .. s.MapSize - 1 : Crossed(s.RoomSize, map, a, b)

\* After one more room, one more is passed.
LEMMA PassedStep ==
    ASSUME NEW s, s.MapSize \in Nat \ {0}, s.RoomSize \in Nat \ {0},
           NEW rm, NEW map, Rooms(s, rm, map), Passed(s, rm, map),
           NEW isRed, NEW open, OpenRoom(s.RoomSize, isRed, open),
           NEW wider, wider = map \cup PutAll(s.RoomSize, rm[1], rm[2], open)
    PROVE  IF rm = <<s.MapSize - 1, s.MapSize - 1>> THEN AllCrossed(s, wider)
           ELSE Passed(s, NextRoom(s, rm), wider)
  <1> DEFINE i == rm[1]
             j == rm[2]
             m == s.RoomSize
             size == s.MapSize
  <1>1. /\ i \in 0 .. size - 1 /\ j \in 0 .. size - 1 /\ rm = <<i, j>>
    BY DEF Rooms
  <1>2. Crossed(m, wider, i, j)
    <2>1. ASSUME NEW k \in 0 .. m - 1
          PROVE  \E c \in Square(m) : c[2] = k /\ Put(m, i, j, c) \in wider
      <3>1. PICK c \in open : c[2] = k
        BY OpenCrosses
      <3>2. c \in Square(m) /\ Put(m, i, j, c) \in PutAll(m, i, j, open)
        BY DEF OpenRoom, PutAll
      <3> QED
        BY <3>1, <3>2
    <2> QED
      BY <2>1 DEF Crossed
  <1>3. ASSUME NEW a, NEW b, Earlier(size, a, b, i, j)
        PROVE  Crossed(m, wider, a, b)
    <2>1. Crossed(m, map, a, b)
      BY <1>3 DEF Passed
    <2> QED
      BY <2>1 DEF Crossed
  <1> HIDE DEF i, j, m, size
  <1>4. CASE rm = <<size - 1, size - 1>>
    <2>1. ASSUME NEW a \in 0 .. size - 1, NEW b \in 0 .. size - 1
          PROVE  Crossed(m, wider, a, b)
      <3>1. i = size - 1 /\ j = size - 1
        BY <1>4 DEF i, j
      <3>2. Earlier(size, a, b, i, j) \/ (a = i /\ b = j)
        BY <1>1, <3>1 DEF Earlier
      <3> QED
        BY <1>2, <1>3, <3>2
    <2>2. AllCrossed(s, wider)
      BY <2>1 DEF AllCrossed, m, size
    <2> QED
      BY <1>4, <2>2 DEF size
  <1>5. CASE rm # <<size - 1, size - 1>>
    <2> DEFINE i2 == NextRoom(s, rm)[1]
               j2 == NextRoom(s, rm)[2]
    <2>1. \/ j = size - 1 /\ i2 = i + 1 /\ j2 = 0
          \/ j # size - 1 /\ i2 = i /\ j2 = j + 1
      BY DEF NextRoom, i, j, size
    <2> HIDE DEF i2, j2
    <2>2. ASSUME NEW a, NEW b, Earlier(size, a, b, i2, j2)
          PROVE  Crossed(m, wider, a, b)
      <3>1. /\ a \in 0 .. size - 1 /\ b \in 0 .. size - 1
            /\ a < i2 \/ (a = i2 /\ b < j2)
        BY <2>2 DEF Earlier
      <3>2. a < i \/ (a = i /\ b < j) \/ (a = i /\ b = j)
        BY <1>1, <2>1, <3>1
      <3>3. Earlier(size, a, b, i, j) \/ (a = i /\ b = j)
        BY <3>1, <3>2 DEF Earlier
      <3> QED
        BY <1>2, <1>3, <3>3
    <2>3. Passed(s, NextRoom(s, rm), wider)
      BY <2>2 DEF Passed, m, size, i2, j2
    <2> QED
      BY <1>5, <2>3 DEF size
  <1> QED
    BY <1>4, <1>5 DEF size

\* Every count is so many whole rooms and a rest smaller than a room.
LEMMA Splits ==
    ASSUME NEW m \in Nat \ {0}, NEW v \in Nat
    PROVE  \E i \in Nat, k \in 0 .. m - 1 : v = i * m + k
  <1> DEFINE Remainders == {r \in Nat : \E i \in Nat : v = i * m + r}
  <1>1. v \in Remainders
    <2>1. v = 0 * m + v
      OBVIOUS
    <2> QED
      BY <2>1
  <1>2. Remainders \in SUBSET Nat /\ Remainders # {}
    BY <1>1
  <1> HIDE DEF Remainders
  <1>3. PICK r \in Remainders : \A other \in Remainders : r <= other
    BY <1>2, LeastOf
  <1>4. PICK i \in Nat : v = i * m + r
    BY <1>3 DEF Remainders
  <1>5. r \in Nat
    BY <1>2, <1>3
  <1>6. r < m
    <2>1. ASSUME r >= m PROVE FALSE
      <3>1. (i + 1) * m = i * m + m /\ i * m \in Nat
        BY TimesNext
      <3>2. r - m \in Nat /\ i + 1 \in Nat
        BY <1>5, <2>1
      <3>3. v = (i + 1) * m + (r - m)
        BY <1>4, <1>5, <3>1
      <3>4. r - m \in Remainders
        BY <3>2, <3>3 DEF Remainders
      <3>5. r <= r - m
        BY <1>3, <3>4
      <3> QED
        BY <1>5, <3>5
    <2> QED
      BY <1>5, <2>1
  <1>7. r \in 0 .. m - 1
    BY <1>5, <1>6
  <1> QED
    BY <1>4, <1>7

\* The rows of all rooms are the rows of the map between the borders.
LEMMA AllRows ==
    ASSUME NEW s, s.MapSize \in Nat \ {0}, s.RoomSize \in Nat \ {0},
           NEW map, AllCrossed(s, map),
           NEW x \in 1 .. s.MapSize * s.RoomSize, NEW j \in 0 .. s.MapSize - 1
    PROVE  \E y \in j * s.RoomSize + 1 .. (j + 1) * s.RoomSize : <<x, y>> \in map
  <1> DEFINE m == s.RoomSize
             size == s.MapSize
  <1>1. m \in Nat \ {0} /\ size \in Nat \ {0} /\ x - 1 \in Nat /\ size * m \in Nat
    OBVIOUS
  <1>2. PICK i \in Nat, k \in 0 .. m - 1 : x - 1 = i * m + k
    BY <1>1, Splits
  <1>3. i < size
    <2>1. ASSUME i >= size PROVE FALSE
      <3>1. size * m <= i * m
        <4>1. CASE size = i
          BY <1>1, <4>1
        <4>2. CASE size < i
          <5>1. size * m + m <= i * m
            BY <1>1, <1>2, <4>2, TimesMore
          <5>2. size * m \in Nat /\ i * m \in Nat
            BY <1>1, <1>2
          <5> QED
            BY <1>1, <5>1, <5>2
        <4> QED
          BY <1>1, <1>2, <2>1, <4>1, <4>2
      <3>2. i * m \in Nat /\ x <= size * m
        BY <1>1, <1>2
      <3> QED
        BY <1>1, <1>2, <3>1, <3>2
    <2> QED
      BY <1>1, <1>2, <2>1
  <1>4. PICK c \in Square(m) : c[2] = k /\ Put(m, i, j, c) \in map
    <2>1. i \in 0 .. size - 1
      BY <1>1, <1>2, <1>3
    <2>2. Crossed(m, map, i, j)
      BY <2>1 DEF AllCrossed
    <2> QED
      BY <1>2, <2>2 DEF Crossed
  <1>5. c[1] \in 0 .. m - 1
    BY <1>1, <1>4, SquareCell
  <1> DEFINE y == j * m + c[1] + 1
  <1>6. Put(m, i, j, c) = <<x, y>>
    <2>1. i * m + c[2] + 1 = x
      BY <1>1, <1>2, <1>4
    <2> QED
      BY <2>1 DEF Put
  <1>7. y \in j * m + 1 .. (j + 1) * m
    <2>1. j \in Nat /\ m \in Nat /\ c[1] \in 0 .. m - 1
      BY <1>1, <1>5
    <2> HIDE DEF m
    <2>2. j * m \in Nat /\ (j + 1) * m = j * m + m
      BY <2>1, TimesNext
    <2> QED
      BY <2>1, <2>2
  <1> QED
    BY <1>4, <1>6, <1>7

\* No two rooms have a row or a column of blocks in common.
LEMMA SameRoom ==
    ASSUME NEW m \in Nat \ {0}, NEW i \in Nat, NEW j \in Nat, NEW y \in Int,
           y \in i * m + 1 .. (i + 1) * m, y \in j * m + 1 .. (j + 1) * m
    PROVE  i = j
  <1>1. /\ i * m \in Nat /\ (i + 1) * m = i * m + m
        /\ j * m \in Nat /\ (j + 1) * m = j * m + m
    BY TimesNext
  <1>2. ASSUME i < j PROVE FALSE
    <2>1. i * m + m <= j * m
      BY <1>2, TimesMore
    <2> QED
      BY <1>1, <2>1
  <1>3. ASSUME j < i PROVE FALSE
    <2>1. j * m + m <= i * m
      BY <1>3, TimesMore
    <2> QED
      BY <1>1, <2>1
  <1> QED
    BY <1>2, <1>3

LEMMA BlockIndex ==
    ASSUME NEW m \in Nat, NEW i \in Nat, NEW y \in i * m + 1 .. (i + 1) * m
    PROVE  y \in Int
  OBVIOUS

\* A map in which each of size * m rows has a cell in each of size rooms has
\* size * m * size cells at least.
LEMMA RowsCount ==
    ASSUME NEW size \in Nat \ {0}, NEW m \in Nat \ {0}, NEW cover, IsFiniteSet(cover),
           \A x \in 1 .. size * m, j \in 0 .. size - 1 :
               \E y \in j * m + 1 .. (j + 1) * m : <<x, y>> \in cover
    PROVE  Cardinality(cover) >= size * m * size
  <1> DEFINE all == size * m
             row == (1 .. all) \X (0 .. size - 1)
             In(r) == {y \in r[2] * m + 1 .. (r[2] + 1) * m : <<r[1], y>> \in cover}
             pick == [r \in row |-> <<r[1], CHOOSE y \in In(r) : TRUE>>]
  <1>1. all \in Nat
    OBVIOUS
  <1>2. IsFiniteSet(row) /\ Cardinality(row) = all * size
    <2> HIDE DEF all
    <2>1. IsFiniteSet(1 .. all) /\ Cardinality(1 .. all) = all
      <3>1. /\ IsFiniteSet(1 .. all)
            /\ Cardinality(1 .. all) = IF 1 > all THEN 0 ELSE all - 1 + 1
        BY <1>1, FS_Interval
      <3> QED
        BY <1>1, <3>1
    <2>2. IsFiniteSet(0 .. size - 1) /\ Cardinality(0 .. size - 1) = size
      <3>1. /\ IsFiniteSet(0 .. size - 1)
            /\ Cardinality(0 .. size - 1) = IF 0 > size - 1 THEN 0 ELSE size - 1 - 0 + 1
        BY FS_Interval
      <3> QED
        BY <3>1
    <2> QED
      BY <2>1, <2>2, FS_Product
  <1>3. ASSUME NEW r \in row
        PROVE  /\ pick[r][1] = r[1] /\ pick[r] \in cover
               /\ pick[r][2] \in r[2] * m + 1 .. (r[2] + 1) * m
    <2>1. \E y \in r[2] * m + 1 .. (r[2] + 1) * m : <<r[1], y>> \in cover
      OBVIOUS
    <2>2. In(r) # {}
      BY <2>1
    <2>3. (CHOOSE y \in In(r) : TRUE) \in In(r)
      <3> HIDE DEF In
      <3> QED
        BY <2>2
    <2>4. pick[r] = <<r[1], CHOOSE y \in In(r) : TRUE>>
      OBVIOUS
    <2> QED
      BY <2>3, <2>4
  <1> HIDE DEF pick, In
  <1>4. pick \in [row -> cover]
    <2>1. pick = [r \in row |-> pick[r]]
      BY DEF pick
    <2> QED
      BY <1>3, <2>1
  <1>5. Cardinality(cover) \in Nat /\ Cardinality(row) \in Nat
    BY <1>2, FS_CardinalityType
  <1>6. ASSUME Cardinality(cover) < Cardinality(row) PROVE FALSE
    <2>1. PICK r \in row, q \in row : r # q /\ pick[r] = pick[q]
      <3> HIDE DEF row
      <3> QED
        BY <1>2, <1>4, <1>6, FS_PigeonHole
    <2>2. r[1] = q[1]
      BY <1>3, <2>1
    <2>3. PICK i \in Nat, j \in Nat : i = r[2] /\ j = q[2]
      <3>1. r[2] \in 0 .. size - 1 /\ q[2] \in 0 .. size - 1
        BY <2>1
      <3> QED
        BY <3>1
    <2>4. PICK y \in Int : y \in i * m + 1 .. (i + 1) * m /\ y \in j * m + 1 .. (j + 1) * m
      <3>1. /\ pick[r][2] \in i * m + 1 .. (i + 1) * m
            /\ pick[r][2] \in j * m + 1 .. (j + 1) * m
        BY <1>3, <2>1, <2>3
      <3>2. pick[r][2] \in Int
        BY <3>1, BlockIndex
      <3> QED
        BY <3>1, <3>2
    <2>5. i = j
      BY <2>4, SameRoom
    <2>6. r = <<r[1], r[2]>> /\ q = <<q[1], q[2]>>
      BY <2>1
    <2> QED
      BY <2>1, <2>2, <2>3, <2>5, <2>6
  <1> QED
    BY <1>2, <1>5, <1>6

-----------------------------------------------------------------------------
(* The generator.                                                          *)

RoomIn(s) == Square(s.RoomSize)
MapIn(s) == Square(s.MapSize * s.RoomSize + 2)

GenTypes(s, blk, lst, map, opened) ==
    /\ s \in Configurations
    /\ blk \in [RoomIn(s) -> BlockTypes] /\ lst \in [RoomIn(s) -> 0 .. 4]
    /\ map \in [MapIn(s) -> BlockTypes] /\ opened \in SUBSET MapIn(s)

\* While rooms are made nothing but a mark is BORDER, then the border is.
Rimless(s, map) == \A b \in MapIn(s) : map[b] # "BORDER"
Rimmed(s, map) ==
    \A b \in MapIn(s) : map[b] = "BORDER" <=> OnRim(s.MapSize * s.RoomSize + 2, b)

\* What was opened on the map is open.
Kept(map, opened) == \A b \in opened : map[b] = "NOBLOCK"

\* The inductive invariant of the generator.
GenInv ==
    /\ GenTypes(settings, cells, list, blocks, carved)
    /\ stage = "carve" => Growing(RoomIn(settings), cells, list)
    /\ stage \in {"seed", "carve"} =>
         /\ Rooms(settings, room, carved) /\ (red <=> IsRedAt(settings, room[1], room[2]))
         /\ Behind(settings, room, carved) /\ Rimless(settings, blocks)
         /\ Passed(settings, room, carved)
    /\ stage \notin {"seed", "carve"} => Rimmed(settings, blocks) /\ AllCrossed(settings, carved)
    /\ Cut(carved) /\ Kept(blocks, carved)

LEMMA SettingsType ==
    ASSUME NEW s \in Configurations
    PROVE  s.MapSize \in Nat \ {0} /\ s.RoomSize \in Nat \ {0}
  BY GeneratorAssumption

LEMMA GenInitHolds ==
    GenInit => GenInv
  <1> SUFFICES ASSUME GenInit PROVE GenInv
    OBVIOUS
  <1>1. /\ settings \in Configurations /\ stage = "seed" /\ room = <<0, 0>>
        /\ red = EvenMap(settings) /\ carved = {}
        /\ cells = [c \in Square(n) |-> "WALL"] /\ list = [c \in Square(n) |-> 0]
        /\ blocks = [c \in Square(Size) |-> "NOBLOCK"]
    BY DEF GenInit
  <1>2. RoomIn(settings) = Square(n) /\ MapIn(settings) = Square(Size)
    BY DEF RoomIn, MapIn, n, Size
  <1>3. GenTypes(settings, cells, list, blocks, carved)
    BY <1>1, <1>2 DEF GenTypes, BlockTypes
  <1>4. Rooms(settings, <<0, 0>>, {}) /\ (EvenMap(settings) <=> IsRedAt(settings, 0, 0))
    BY <1>1, SettingsType, RoomsStart
  <1>5. Rooms(settings, room, carved) /\ (red <=> IsRedAt(settings, room[1], room[2]))
    BY <1>1, <1>4
  <1>6. Cut(carved) /\ Kept(blocks, carved) /\ Behind(settings, room, carved)
    BY <1>1 DEF Cut, Kept, Behind
  <1>7. Rimless(settings, blocks)
    BY <1>1, <1>2 DEF Rimless
  <1>8. Passed(settings, room, carved)
    <2>1. settings.MapSize \in Nat \ {0}
      BY <1>1, SettingsType
    <2>2. ASSUME NEW a, NEW b, Earlier(settings.MapSize, a, b, 0, 0) PROVE FALSE
      BY <2>1, <2>2 DEF Earlier
    <2>3. room[1] = 0 /\ room[2] = 0
      BY <1>1
    <2> QED
      BY <2>2, <2>3 DEF Passed
  <1> QED
    BY <1>1, <1>3, <1>5, <1>6, <1>7, <1>8 DEF GenInv

\* The actions of the generator keep its invariant.
LEMMA SeedKeeps ==
    ASSUME GenInv, NEW start, Seed(start)
    PROVE  GenInv'
  <1>1. /\ stage = "seed" /\ start \in Square(n) /\ stage' = "carve"
        /\ cells' = [c \in Square(n) |-> IF c = start THEN "NOBLOCK"
                                        ELSE IF c \in Around(start) THEN "BORDER" ELSE "WALL"]
        /\ list' = [c \in Square(n) |-> IF c \in Around(start) THEN 1 ELSE 0]
        /\ settings' = settings /\ room' = room /\ (red' <=> red) /\ blocks' = blocks
        /\ carved' = carved
    BY DEF Seed
  <1>2. RoomIn(settings) = Square(n) /\ n \in Nat
    BY SettingsType DEF RoomIn, n, GenInv, GenTypes
  <1>3. \A c \in Square(n) : c \in Around(start) <=> Adjacent(start, c)
    BY DEF Around
  <1>4. /\ cells' = [c \in Square(n) |-> IF c = start THEN "NOBLOCK"
                                        ELSE IF Adjacent(start, c) THEN "BORDER" ELSE "WALL"]
        /\ list' = [c \in Square(n) |-> IF Adjacent(start, c) THEN 1 ELSE 0]
    BY <1>1, <1>3
  <1>5. Growing(Square(n), cells', list')
    BY <1>1, <1>2, <1>4, GrowingSeed
  <1>6. cells' \in [Square(n) -> BlockTypes] /\ list' \in [Square(n) -> 0 .. 4]
    BY <1>4 DEF BlockTypes
  <1>7. GenTypes(settings, cells', list', blocks, carved)
    BY <1>2, <1>6 DEF GenInv, GenTypes
  <1>8. /\ Rooms(settings, room, carved) /\ Cut(carved) /\ Kept(blocks, carved)
        /\ red <=> IsRedAt(settings, room[1], room[2])
        /\ Behind(settings, room, carved) /\ Rimless(settings, blocks)
        /\ Passed(settings, room, carved)
    BY <1>1 DEF GenInv
  <1>9. /\ Rooms(settings', room', carved') /\ (red' <=> IsRedAt(settings', room'[1], room'[2]))
        /\ Behind(settings', room', carved') /\ Rimless(settings', blocks')
        /\ Kept(blocks', carved') /\ Passed(settings', room', carved')
    BY <1>1, <1>8
  <1> QED
    BY <1>1, <1>2, <1>5, <1>7, <1>8, <1>9 DEF GenInv

LEMMA CarveKeeps ==
    ASSUME GenInv, NEW c \in Square(n), Carve(c)
    PROVE  GenInv'
  <1> DEFINE sq == Square(n)
             degree == Cardinality(Near(sq, Opened(sq, cells), c))
  <1>1. /\ stage = "carve" /\ list[c] > 0 /\ stage' = stage
        /\ settings' = settings /\ room' = room /\ (red' <=> red) /\ blocks' = blocks
        /\ carved' = carved
    BY DEF Carve
  <1>2. RoomIn(settings) = sq /\ n \in Nat
    BY SettingsType DEF RoomIn, n, GenInv, GenTypes
  <1>3. Cardinality(Around(c) \cap OpenCells) = degree
    BY DEF Around, OpenCells, Near, Opened
  <1>4. /\ cells \in [sq -> BlockTypes] /\ list \in [sq -> 0 .. 4]
        /\ Growing(sq, cells, list)
    BY <1>1, <1>2 DEF GenInv, GenTypes
  <1>5. /\ cells' \in [sq -> BlockTypes] /\ list' \in [sq -> 0 .. 4]
        /\ Growing(sq, cells', list')
    <2>1. CASE degree # 1
      <3>1. cells' = [cells EXCEPT ![c] = "WALL"] /\ list' = [list EXCEPT ![c] = @ - 1]
        BY <1>3, <2>1 DEF Carve
      <3> QED
        BY <1>1, <1>2, <1>4, <2>1, <3>1, GrowingWall
    <2>2. CASE degree = 1
      <3>1. /\ cells' = [cells EXCEPT ![c] = "NOBLOCK"]
            /\ list' = [d \in DOMAIN list |->
                          IF d = c THEN list[d] - 1
                          ELSE IF d \in Around(c) /\ cells[d] = "WALL" THEN list[d] + 1
                          ELSE list[d]]
        BY <1>3, <2>2 DEF Carve
      <3>2. list' = Listed(n, cells, list, c)
        BY <1>4, <3>1 DEF Around, Listed
      <3> QED
        <4>1. PICK newCells, newList : newCells = cells' /\ newList = list'
          OBVIOUS
        <4>2. n \in Nat /\ c \in Square(n) /\ list[c] > 0
          BY <1>1, <1>2
        <4>3. /\ cells \in [Square(n) -> BlockTypes] /\ list \in [Square(n) -> 0 .. 4]
              /\ Growing(Square(n), cells, list)
          BY <1>4
        <4>4. Cardinality(Near(Square(n), Opened(Square(n), cells), c)) = 1
          BY <2>2
        <4>5. /\ newCells = [cells EXCEPT ![c] = "NOBLOCK"]
              /\ newList = Listed(n, cells, list, c)
          BY <3>1, <3>2, <4>1
        <4>6. /\ newCells \in [Square(n) -> BlockTypes] /\ newList \in [Square(n) -> 0 .. 4]
              /\ Growing(Square(n), newCells, newList)
          BY <4>2, <4>3, <4>4, <4>5, GrowingOpen
        <4> QED
          BY <4>1, <4>6
    <2> QED
      BY <2>1, <2>2
  <1>6. GenTypes(settings, cells', list', blocks, carved)
    BY <1>2, <1>5 DEF GenInv, GenTypes
  <1>7. /\ Rooms(settings, room, carved) /\ Cut(carved) /\ Kept(blocks, carved)
        /\ red <=> IsRedAt(settings, room[1], room[2])
        /\ Behind(settings, room, carved) /\ Rimless(settings, blocks)
        /\ Passed(settings, room, carved)
    BY <1>1 DEF GenInv
  <1>8. /\ Rooms(settings', room', carved') /\ (red' <=> IsRedAt(settings', room'[1], room'[2]))
        /\ Behind(settings', room', carved') /\ Rimless(settings', blocks')
        /\ Kept(blocks', carved') /\ Passed(settings', room', carved')
    BY <1>1, <1>7
  <1> QED
    BY <1>1, <1>2, <1>5, <1>6, <1>7, <1>8 DEF GenInv

\* When nothing is listed any more no wall touches exactly one open cell.
LEMMA GrownComplete ==
    ASSUME NEW m \in Nat, NEW blk \in [Square(m) -> BlockTypes],
           NEW lst \in [Square(m) -> 0 .. 4], Growing(Square(m), blk, lst),
           \A c \in Square(m) : lst[c] = 0
    PROVE  /\ Complete(Square(m), blk)
           /\ \A c \in Square(m) : blk[c] # "BORDER"
  <1> DEFINE open == Opened(Square(m), blk)
  <1>1. Tree(open)
    BY DEF Growing
  <1>2. ASSUME NEW c \in Square(m)
        PROVE  c \notin open => Cardinality(Near(Square(m), open, c)) # 1 /\ blk[c] # "BORDER"
    <2>1. c \notin open /\ (blk[c] = "BORDER" \/ Cardinality(Near(Square(m), open, c)) = 1)
            => lst[c] > 0
      BY DEF Growing
    <2> QED
      BY <2>1
  <1>3. \A c \in Square(m) : c \in open <=> blk[c] = "NOBLOCK"
    BY DEF Opened
  <1> HIDE DEF open
  <1> QED
    BY <1>1, <1>2, <1>3 DEF Complete, open

LEMMA FinishKeeps ==
    ASSUME GenInv, NEW holes, FinishRoom(holes)
    PROVE  GenInv'
  <1> DEFINE sq == Square(n)
             open == OpenCells \cup Sides
             new == PutAll(n, room[1], room[2], open)
  <1>1. /\ stage = "carve" /\ \A c \in DOMAIN list : list[c] = 0
        /\ settings' = settings /\ cells' = cells /\ list' = list
    BY DEF FinishRoom, Carved
  <1>2. /\ RoomIn(settings) = sq /\ MapIn(settings) = Square(Size)
        /\ n \in Nat \ {0} /\ settings.MapSize \in Nat \ {0} /\ settings \in Configurations
        /\ n = settings.RoomSize /\ Size = settings.MapSize * settings.RoomSize + 2
    BY SettingsType DEF RoomIn, MapIn, n, Size, GenInv, GenTypes
  <1>3. /\ cells \in [sq -> BlockTypes] /\ list \in [sq -> 0 .. 4]
        /\ blocks \in [Square(Size) -> BlockTypes] /\ carved \in SUBSET Square(Size)
        /\ Growing(sq, cells, list) /\ Rooms(settings, room, carved) /\ Cut(carved)
        /\ red <=> IsRedAt(settings, room[1], room[2])
        /\ Behind(settings, room, carved) /\ Rimless(settings, blocks) /\ Kept(blocks, carved)
        /\ Passed(settings, room, carved)
    BY <1>1, <1>2 DEF GenInv, GenTypes
  <1>4. OpenRoom(settings.RoomSize, IsRedAt(settings, room[1], room[2]), open)
    <2>1. Complete(sq, cells)
      BY <1>1, <1>2, <1>3, GrownComplete
    <2>2. OpenRoom(n, red, Opened(sq, cells) \cup (IF red THEN Ring(n) ELSE {}))
      BY <1>2, <2>1, RoomOpens
    <2>3. OpenCells = Opened(sq, cells) /\ Sides = IF red THEN Ring(n) ELSE {}
      BY DEF OpenCells, Opened, Sides, Ring
    <2>4. OpenRoom(n, red, open)
      BY <2>2, <2>3
    <2> HIDE DEF open
    <2> QED
      BY <1>2, <1>3, <2>4 DEF OpenRoom
  <1>5. carved' = carved \cup new
    <2>1. carved' = carved \cup {Place(c) : c \in open}
      BY DEF FinishRoom
    <2>2. \A c : Place(c) = Put(n, room[1], room[2], c)
      BY DEF Place, Put
    <2> QED
      BY <2>1, <2>2 DEF PutAll
  <1>6. open \in SUBSET sq
    BY <1>2, <1>4 DEF OpenRoom
  <1>7. PICK final, filled :
          /\ final = [c \in sq |-> IF c \in open \cup holes THEN "NOBLOCK" ELSE cells[c]]
          /\ filled = [b \in Square(Size) |->
                         Copied(n, room[1], room[2], final, blocks, b)]
    OBVIOUS
  <1>8. blocks' = IF LastRoom
                  THEN [b \in Square(Size) |-> IF b \in Rim THEN "BORDER" ELSE filled[b]]
                  ELSE filled
    <2>1. \A c : Place(c) = Put(n, room[1], room[2], c)
      BY DEF Place, Put
    <2>2. \A b : Copied(n, room[1], room[2], final, blocks, b) =
                   IF \E c \in sq : Place(c) = b
                   THEN final[CHOOSE c \in sq : Place(c) = b]
                   ELSE blocks[b]
      BY <2>1 DEF Copied
    <2>3. filled = [b \in Square(Size) |->
                      IF \E c \in sq : Place(c) = b
                      THEN final[CHOOSE c \in sq : Place(c) = b]
                      ELSE blocks[b]]
      BY <1>7, <2>2
    <2> HIDE DEF open
    <2> QED
      BY <1>7, <2>3 DEF FinishRoom, open
  <1> HIDE DEF open
  <1>9. /\ final \in [sq -> {"NOBLOCK", "WALL"}]
        /\ \A c \in open : final[c] = "NOBLOCK"
    <2>1. \A c \in sq : cells[c] # "BORDER"
      BY <1>1, <1>2, <1>3, GrownComplete
    <2>2. \A c \in sq : final[c] = "NOBLOCK" \/ final[c] = cells[c]
      BY <1>7
    <2>3. \A c \in sq : final[c] \in {"NOBLOCK", "WALL"}
      BY <1>3, <2>1, <2>2 DEF BlockTypes
    <2> QED
      BY <1>6, <1>7, <2>3
  <1>10. room[1] \in Nat /\ room[2] \in Nat
    BY <1>2, <1>3 DEF Rooms
  <1>11. new \in SUBSET Square(Size)
    <2>1. room[1] \in 0 .. settings.MapSize - 1 /\ room[2] \in 0 .. settings.MapSize - 1
      BY <1>3 DEF Rooms
    <2>2. open \in SUBSET Square(n)
      BY <1>6
    <2> QED
      BY <1>2, <2>1, <2>2, PutInside
  <1>12. /\ \A c \in sq : Copied(n, room[1], room[2], final, blocks, Put(n, room[1], room[2], c))
                           = final[c]
         /\ \A b : b \notin PutAll(n, room[1], room[2], sq)
                    => Copied(n, room[1], room[2], final, blocks, b) = blocks[b]
    <2>1. PICK m, i, j : m = n /\ i = room[1] /\ j = room[2]
      OBVIOUS
    <2>2. m \in Nat /\ i \in Nat /\ j \in Nat
      BY <1>2, <1>10, <2>1
    <2>3. /\ \A c \in Square(m) : Copied(m, i, j, final, blocks, Put(m, i, j, c)) = final[c]
          /\ \A b : b \notin PutAll(m, i, j, Square(m))
                     => Copied(m, i, j, final, blocks, b) = blocks[b]
      BY <2>2, CopiedIs
    <2> QED
      BY <2>1, <2>3
  <1>13. ASSUME NEW b \in Square(Size)
         PROVE  /\ filled[b] \in {"NOBLOCK", "WALL"}
                /\ b \in carved \cup new => filled[b] = "NOBLOCK"
    <2>1. filled[b] = Copied(n, room[1], room[2], final, blocks, b)
      BY <1>7
    <2>2. CASE b \in PutAll(n, room[1], room[2], sq)
      <3>1. PICK c \in sq : b = Put(n, room[1], room[2], c)
        BY <2>2 DEF PutAll
      <3>2. filled[b] = final[c]
        BY <1>12, <2>1, <3>1
      <3>3. b \notin carved
        BY <1>2, <1>3, <2>2, BehindApart
      <3>4. ASSUME b \in new PROVE c \in open
        <4>1. PICK d \in open : b = Put(n, room[1], room[2], d)
          BY <3>4 DEF PutAll
        <4>2. Put(n, room[1], room[2], c) = Put(n, room[1], room[2], d)
          BY <3>1, <4>1
        <4>3. d \in Square(n) /\ c \in Square(n) /\ n \in Nat
          BY <1>2, <1>6
        <4>4. c = d
          BY <1>10, <4>2, <4>3, PutOnce
        <4> QED
          BY <4>4
      <3> QED
        BY <1>9, <3>2, <3>3, <3>4
    <2>3. CASE b \notin PutAll(n, room[1], room[2], sq)
      <3>1. filled[b] = blocks[b]
        BY <1>12, <2>1, <2>3
      <3>2. b \notin new
        BY <1>6, <2>3 DEF PutAll
      <3>3. blocks[b] \in {"NOBLOCK", "WALL"}
        BY <1>2, <1>3 DEF Rimless, BlockTypes
      <3> QED
        BY <1>3, <3>1, <3>2, <3>3 DEF Kept
    <2> QED
      BY <2>2, <2>3
  <1>14. filled \in [Square(Size) -> {"NOBLOCK", "WALL"}]
    <2>1. filled = [b \in Square(Size) |-> filled[b]]
      BY <1>7
    <2> QED
      BY <1>13, <2>1
  <1>15. ASSUME NEW b \in Square(Size)
         PROVE  /\ b \in Rim <=> OnRim(settings.MapSize * settings.RoomSize + 2, b)
                /\ b \in carved \cup new => b \notin Rim
    <2>1. b \in Rim <=> OnRim(Size, b)
      BY DEF Rim, OnRim
    <2>2. b \in Rim <=> OnRim(settings.MapSize * settings.RoomSize + 2, b)
      BY <1>2, <2>1
    <2>3. ASSUME b \in carved PROVE b \notin Rim
      BY <1>2, <1>3, <2>2, <2>3, BehindApart
    <2>4. ASSUME b \in new PROVE b \notin Rim
      <3>1. room[1] \in 0 .. settings.MapSize - 1 /\ room[2] \in 0 .. settings.MapSize - 1
        BY <1>3 DEF Rooms
      <3>2. b \in PutAll(settings.RoomSize, room[1], room[2], Square(settings.RoomSize))
        BY <1>2, <1>6, <2>4 DEF PutAll
      <3>3. settings.MapSize \in Nat /\ settings.RoomSize \in Nat
        BY <1>2
      <3> QED
        BY <2>2, <3>1, <3>2, <3>3, PutOffRim
    <2> QED
      BY <2>2, <2>3, <2>4
  <1>16. blocks' \in [Square(Size) -> BlockTypes]
    <2>1. "BORDER" \in BlockTypes /\ {"NOBLOCK", "WALL"} \subseteq BlockTypes
      BY DEF BlockTypes
    <2> QED
      BY <1>8, <1>14, <2>1
  <1>17. Kept(blocks', carved')
    <2>1. ASSUME NEW b \in carved' PROVE blocks'[b] = "NOBLOCK"
      <3>1. b \in carved \cup new /\ b \in Square(Size)
        BY <1>3, <1>5, <1>11
      <3>2. filled[b] = "NOBLOCK" /\ b \notin Rim
        BY <1>13, <1>15, <3>1
      <3> QED
        BY <1>8, <3>1, <3>2
    <2> QED
      BY <2>1 DEF Kept
  <1>18. Cut(carved \cup new)
    BY <1>2, <1>3, <1>4, RoomsConnect
  <1>19. GenTypes(settings, cells, list, blocks', carved')
    <2> HIDE DEF new
    <2> QED
      BY <1>2, <1>3, <1>5, <1>11, <1>16 DEF GenTypes
  <1>20. CASE LastRoom
    <2>1. stage' = "mapped"
      BY <1>20 DEF FinishRoom
    <2>2. ASSUME NEW b \in Square(Size)
          PROVE  blocks'[b] = "BORDER" <=> OnRim(settings.MapSize * settings.RoomSize + 2, b)
      <3>1. blocks'[b] = IF b \in Rim THEN "BORDER" ELSE filled[b]
        BY <1>8, <1>20
      <3>2. filled[b] # "BORDER"
        BY <1>13
      <3> QED
        BY <1>15, <3>1, <3>2
    <2>3. Rimmed(settings, blocks')
      BY <1>2, <2>2 DEF Rimmed
    <2>4. AllCrossed(settings, carved \cup new)
      BY <1>2, <1>3, <1>4, <1>20, PassedStep DEF LastRoom
    <2> HIDE DEF new
    <2> QED
      BY <1>1, <1>5, <1>17, <1>18, <1>19, <2>1, <2>3, <2>4 DEF GenInv
  <1>21. CASE ~LastRoom
    <2>1. /\ stage' = "seed"
          /\ room' = NextRoom(settings, room)
          /\ red' <=> IF room[2] = settings.MapSize - 1 /\ EvenMap(settings) THEN red ELSE ~red
      BY <1>21 DEF FinishRoom, LastOfRow, NextRoom
    <2>2. room # <<settings.MapSize - 1, settings.MapSize - 1>>
      BY <1>21 DEF LastRoom
    <2>3. /\ Rooms(settings, NextRoom(settings, room), carved \cup new)
          /\ RedTurns(settings, room)
      BY <1>2, <1>3, <1>4, <2>2, RoomsStep
    <2>4. open \in SUBSET Square(settings.RoomSize)
      BY <1>2, <1>6
    <2>5. Behind(settings, NextRoom(settings, room), carved \cup new)
      BY <1>2, <1>3, <2>2, <2>4, BehindStep
    <2>6. Rimless(settings, blocks')
      BY <1>2, <1>8, <1>13, <1>21 DEF Rimless
    <2>10. Passed(settings, NextRoom(settings, room), carved \cup new)
      BY <1>2, <1>3, <1>4, <2>2, PassedStep
    <2> HIDE DEF new
    <2>7. /\ Rooms(settings', room', carved') /\ Behind(settings', room', carved')
          /\ Passed(settings', room', carved')
      BY <1>1, <1>5, <2>1, <2>3, <2>5, <2>10
    <2>8. red' <=> IsRedAt(settings, NextRoom(settings, room)[1], NextRoom(settings, room)[2])
      BY <1>3, <2>1, <2>3 DEF RedTurns
    <2>9. red' <=> IsRedAt(settings', room'[1], room'[2])
      BY <1>1, <2>1, <2>8
    <2> QED
      BY <1>1, <1>5, <1>17, <1>18, <1>19, <2>1, <2>6, <2>7, <2>9 DEF GenInv
  <1> QED
    BY <1>20, <1>21

\* Every step of the generator keeps its invariant.
LEMMA GenNextKeeps ==
    ASSUME GenInv, GenNext
    PROVE  GenInv'
  <1>1. ASSUME NEW start \in Seeds, Seed(start) PROVE GenInv'
    BY <1>1, SeedKeeps
  <1>2. ASSUME NEW c \in Square(n), Carve(c) PROVE GenInv'
    BY <1>2, CarveKeeps
  <1>3. ASSUME NEW holes \in SUBSET (Square(n) \ OpenCells), FinishRoom(holes) PROVE GenInv'
    BY <1>3, FinishKeeps
  <1> QED
    BY <1>1, <1>2, <1>3 DEF GenNext

-----------------------------------------------------------------------------
(* What the invariant says about the properties that are checked.          *)

\* The properties of the generator follow from its invariant.
LEMMA TreeFromInv ==
    GenInv => MazeIsTree
  <1> SUFFICES ASSUME GenInv, stage = "carve"
               PROVE  /\ Connected(OpenCells)
                      /\ Cardinality(Passages(OpenCells)) = Cardinality(OpenCells) - 1
    BY DEF MazeIsTree
  <1>1. Tree(OpenCells)
    <2>1. Growing(Square(n), cells, list)
      BY DEF GenInv, RoomIn, n
    <2>2. OpenCells = Opened(Square(n), cells)
      BY DEF OpenCells, Opened
    <2> QED
      BY <2>1, <2>2 DEF Growing
  <1> QED
    BY <1>1, CutConnects DEF Tree

LEMMA FullFromInv ==
    GenInv => MazeIsFull
  <1> SUFFICES ASSUME GenInv PROVE MazeIsFull
    OBVIOUS
  <1>1. ASSUME Carved
        PROVE  /\ \A c \in Square(n) : cells[c] # "BORDER"
               /\ \A c \in Square(n) \ OpenCells :
                    Cardinality(Around(c) \cap OpenCells) # 1
    <2>1. /\ Growing(Square(n), cells, list)
          /\ cells \in [Square(n) -> BlockTypes] /\ list \in [Square(n) -> 0 .. 4]
          /\ n \in Nat
      BY <1>1, SettingsType DEF GenInv, GenTypes, RoomIn, n, Carved
    <2>2. \A c \in Square(n) : list[c] = 0
      BY <1>1, <2>1 DEF Carved
    <2>3. /\ Complete(Square(n), cells)
          /\ \A c \in Square(n) : cells[c] # "BORDER"
      BY <2>1, <2>2, GrownComplete
    <2>4. OpenCells = Opened(Square(n), cells)
      BY DEF OpenCells, Opened
    <2>5. \A c : Around(c) \cap OpenCells = Near(Square(n), Opened(Square(n), cells), c)
      BY <2>4 DEF Around, Near
    <2> QED
      BY <2>3, <2>4, <2>5 DEF Complete
  <1>2. ASSUME stage = "mapped", NEW b \in Square(Size)
        PROVE  blocks[b] = "BORDER" <=> b \in Rim
    <2>1. Rimmed(settings, blocks)
      BY <1>2 DEF GenInv
    <2>2. MapIn(settings) = Square(Size) /\ settings.MapSize * settings.RoomSize + 2 = Size
      BY DEF MapIn, Size, n
    <2>3. blocks[b] = "BORDER" <=> OnRim(Size, b)
      BY <2>1, <2>2 DEF Rimmed
    <2> QED
      BY <2>3 DEF Rim, OnRim
  <1> QED
    BY <1>1, <1>2 DEF MazeIsFull

LEMMA ConnectedFromInv ==
    GenInv => RoomsConnected
  <1> SUFFICES ASSUME GenInv, stage = "mapped" PROVE RoomsConnected
    BY DEF RoomsConnected
  <1>1. /\ Cut(carved) /\ carved \in SUBSET MapIn(settings) /\ Kept(blocks, carved)
        /\ settings \in Configurations
    BY DEF GenInv, GenTypes
  <1>2. settings.MapSize * settings.RoomSize + 2 \in Nat
    BY <1>1, SettingsType
  <1>3. IsFiniteSet(MapIn(settings))
    BY <1>2, SquareFinite DEF MapIn
  <1>4. IsFiniteSet(carved)
    BY <1>1, <1>3, FS_Subset
  <1>5. MapIn(settings) = Square(Size)
    BY DEF MapIn, Size, n
  <1>6. carved \subseteq Floor
    BY <1>1, <1>5 DEF Kept, Floor
  <1>7. Connected(carved)
    BY <1>1, <1>4, CutConnects
  <1>8. ASSUME NEW x \in 1 .. Size - 2, NEW j \in 0 .. settings.MapSize - 1
        PROVE  \E y \in j * n + 1 .. (j + 1) * n : <<x, y>> \in carved
    <2>1. settings.MapSize \in Nat \ {0} /\ settings.RoomSize \in Nat \ {0} /\ n = settings.RoomSize
      BY <1>1, SettingsType DEF n
    <2>2. x \in 1 .. settings.MapSize * settings.RoomSize
      BY <1>2, <2>1 DEF Size
    <2>3. AllCrossed(settings, carved)
      BY DEF GenInv
    <2> QED
      BY <2>1, <2>2, <2>3, AllRows
  <1> QED
    BY <1>6, <1>7, <1>8 DEF RoomsConnected

-----------------------------------------------------------------------------
(* The chase.                                                              *)

\* path can be relied on: it leads from the monster to c.
Leads(floor, from, way, lost) ==
    way \notin {NoPath, <<>>} /\ ~lost => IsWay(floor, from, Last(way), way)

Inhabited ==
    /\ pos \in [Units -> Area] /\ grave \in Area
    /\ stage \in {"play", "undefined"} => pos \in [Units -> Floor] /\ grave \in Floor

\* The inductive invariant: a path that was searched on the map, and an
\* empty one only if it could no longer be relied on.
ChaseInv ==
    /\ GenInv
    /\ stage \in {"seed", "carve", "mapped", "play", "undefined"}
    /\ Inhabited
    /\ state \in [Units -> {"off", "walking", "duel", "dead"}]
    /\ foe \in Hero \cup {None} /\ chasing \in Hero \cup {None}
    /\ ready \in BOOLEAN /\ astray \in BOOLEAN
    /\ path = NoPath \/ path \in Seq(Floor)
    /\ stage \in {"seed", "carve", "mapped"} => path = NoPath
    /\ Leads(Floor, pos[Monster], path, astray)
    /\ path = <<>> => astray

LEMMA UnitsApart ==
    /\ Monster \in Units /\ Hero \subseteq Units
    /\ Monster \notin Hero /\ None \notin Hero
  BY ChaseAssumption DEF Units

\* The map is a finite square of pairs of integers.
LEMMA AreaIs ==
    ASSUME settings \in Configurations
    PROVE  /\ Area \in SUBSET (Int \X Int) /\ IsFiniteSet(Area) /\ <<0, 0>> \in Area
           /\ Floor \in SUBSET Area /\ Area = Square(Size) /\ Area = MapIn(settings)
  <1>1. settings.MapSize \in Nat \ {0} /\ settings.RoomSize \in Nat \ {0}
    BY SettingsType
  <1>2. settings.MapSize * settings.RoomSize \in Nat
    BY <1>1
  <1>3. Size = settings.MapSize * settings.RoomSize + 2
    BY DEF Size, n
  <1>4. Size \in Nat /\ Size >= 2
    BY <1>2, <1>3
  <1>5. Area = Square(Size) /\ Area = MapIn(settings)
    BY <1>3 DEF Area, MapIn
  <1>6. IsFiniteSet(Square(Size))
    BY <1>4, SquareFinite
  <1>7. Square(Size) \in SUBSET (Int \X Int) /\ <<0, 0>> \in Square(Size)
    <2> HIDE DEF Size
    <2> QED
      BY <1>4 DEF Square
  <1>8. Floor \in SUBSET Area
    BY <1>5 DEF Floor
  <1> QED
    BY <1>5, <1>6, <1>7, <1>8

\* NoPath is not a sequence of cells of the floor, and not empty.
LEMMA NoPathApart ==
    ASSUME settings \in Configurations
    PROVE  NoPath \notin Seq(Floor) /\ NoPath # <<>>
  <1>1. NoPath # <<>>
    <2>1. Len(NoPath) = 1
      BY DEF NoPath
    <2> QED
      BY <2>1
  <1>2. ASSUME NoPath \in Seq(Floor) PROVE FALSE
    <2>1. NoPath[1] \in Floor /\ NoPath[1] = <<>>
      BY <1>2 DEF NoPath
    <2>2. <<>> \in Int \X Int
      BY <2>1, AreaIs
    <2> QED
      BY <2>2
  <1> QED
    BY <1>1, <1>2

LEMMA ChaseInitHolds ==
    Init => ChaseInv
  <1> SUFFICES ASSUME Init PROVE ChaseInv
    OBVIOUS
  <1>1. GenInv
    BY GenInitHolds DEF Init
  <1>2. settings \in Configurations /\ stage = "seed"
    BY DEF Init, GenInit
  <1>3. Inhabited
    <2>1. <<0, 0>> \in Area
      BY <1>2, AreaIs
    <2> QED
      BY <1>2, <2>1 DEF Init, Inhabited
  <1>4. Leads(Floor, pos[Monster], path, astray) /\ (path = <<>> => astray)
    BY <1>2, NoPathApart DEF Init, Leads
  <1> QED
    BY <1>1, <1>2, <1>3, <1>4 DEF Init, ChaseInv

\* The generator leaves the game alone.
LEMMA GenerateKeeps ==
    ASSUME ChaseInv, Generate
    PROVE  ChaseInv'
  <1>1. GenInv' /\ UNCHANGED chaseVars
    BY GenNextKeeps DEF ChaseInv, Generate
  <1>2. /\ stage \in {"seed", "carve", "mapped"} /\ stage' \in {"seed", "carve", "mapped"}
        /\ settings' = settings
    BY DEF Generate, GenNext, Seed, Carve, FinishRoom, Carved
  <1>3. settings \in Configurations
    BY DEF ChaseInv, GenInv, GenTypes
  <1>4. path = NoPath /\ path' = NoPath
    BY <1>1, <1>2 DEF ChaseInv, chaseVars
  <1>5. Area' = Area
    BY <1>2 DEF Area, Size, n, Square
  <1>6. Inhabited'
    BY <1>1, <1>2, <1>5 DEF ChaseInv, Inhabited, chaseVars
  <1>7. Leads(Floor, pos[Monster], path, astray)' /\ (path = <<>> => astray)'
    BY <1>3, <1>4, NoPathApart DEF Leads
  <1> QED
    BY <1>1, <1>2, <1>4, <1>6, <1>7 DEF ChaseInv, chaseVars

\* Nothing but the game goes on.
LEMMA PlayingKeeps ==
    ASSUME ChaseInv, Playing
    PROVE  /\ GenInv' /\ stage = "play" /\ stage' = "play" /\ settings \in Configurations
           /\ Floor' = Floor /\ Area' = Area
  <1>1. UNCHANGED genVars /\ stage = "play"
    BY DEF Playing
  <1>2. settings \in Configurations
    BY DEF ChaseInv, GenInv, GenTypes
  <1>3. Floor' = Floor /\ Area' = Area
    BY <1>1 DEF genVars, Floor, Area, Size, n, Square
  <1>4. GenInv'
    BY <1>1 DEF genVars, ChaseInv, GenInv, GenTypes
  <1> QED
    BY <1>1, <1>2, <1>3, <1>4 DEF genVars

\* A step that leaves the path alone; the monster stays where it is unless
\* its path, if it has one, is marked.
LEMMA OthersKeep ==
    ASSUME ChaseInv, Playing, pos' \in [Units -> Floor],
           pos'[Monster] = pos[Monster] \/ path = NoPath \/ astray',
           astray' \in BOOLEAN, astray => astray',
           state' \in [Units -> {"off", "walking", "duel", "dead"}],
           foe' \in Hero \cup {None}, ready' \in BOOLEAN,
           UNCHANGED <<grave, chasing, path>>
    PROVE  ChaseInv'
  <1>1. /\ GenInv' /\ stage = "play" /\ stage' = "play" /\ settings \in Configurations
        /\ Floor' = Floor /\ Area' = Area
    BY PlayingKeeps
  <1>2. Floor \in SUBSET Area
    BY <1>1, AreaIs
  <1>3. Inhabited'
    BY <1>1, <1>2 DEF Inhabited, ChaseInv
  <1>4. Leads(Floor, pos[Monster], path, astray)'
    BY <1>1 DEF ChaseInv, Leads
  <1>5. (path = <<>> => astray)' /\ (path = NoPath \/ path \in Seq(Floor))'
    BY <1>1 DEF ChaseInv
  <1>6. chasing' \in Hero \cup {None}
    BY DEF ChaseInv
  <1> QED
    BY <1>1, <1>3, <1>4, <1>5, <1>6 DEF ChaseInv

\* Clients move units to open cells; the monster's path is marked.
LEMMA ClientMovesKeeps ==
    ASSUME ChaseInv, NEW u \in Units, ClientMoves(u)
    PROVE  ChaseInv'
  <1>1. Playing /\ stage = "play"
    BY DEF ClientMoves, Playing
  <1>2. /\ pos \in [Units -> Floor] /\ astray \in BOOLEAN
        /\ state \in [Units -> {"off", "walking", "duel", "dead"}]
        /\ foe \in Hero \cup {None} /\ ready \in BOOLEAN
    BY <1>1 DEF ChaseInv, Inhabited
  <1>3. PICK c \in Area : ~Blocked(c) /\ pos' = [pos EXCEPT ![u] = c]
    BY DEF ClientMoves
  <1>4. c \in Floor
    BY <1>3 DEF Blocked
  <1>5. pos' \in [Units -> Floor] /\ (u # Monster => pos'[Monster] = pos[Monster])
    BY <1>2, <1>3, <1>4, UnitsApart
  <1>6. astray' \in BOOLEAN /\ (astray => astray') /\ (u = Monster => path = NoPath \/ astray')
    BY <1>2 DEF ClientMoves
  <1>7. UNCHANGED <<state, grave, foe, chasing, path, ready>>
    BY DEF ClientMoves
  <1> QED
    BY <1>1, <1>2, <1>5, <1>6, <1>7, OthersKeep

\* Heroes start duels and come back.
LEMMA HeroActsKeeps ==
    ASSUME ChaseInv, NEW h \in Hero, HeroAttacks(h) \/ HeroReturns(h)
    PROVE  ChaseInv'
  <1>1. Playing /\ stage = "play"
    BY DEF HeroAttacks, HeroReturns, Playing
  <1>2. /\ pos \in [Units -> Floor] /\ grave \in Floor
        /\ state \in [Units -> {"off", "walking", "duel", "dead"}]
        /\ foe \in Hero \cup {None} /\ ready \in BOOLEAN /\ astray \in BOOLEAN
    BY <1>1 DEF ChaseInv, Inhabited
  <1>3. h \in Units /\ Monster \in Units /\ h # Monster
    BY UnitsApart
  <1>4. CASE HeroAttacks(h)
    <2>1. /\ state' = [state EXCEPT ![h] = "duel", ![Monster] = "duel"] /\ foe' = h
          /\ UNCHANGED <<pos, grave, chasing, path, ready, astray>>
      BY <1>4 DEF HeroAttacks
    <2>2. state' \in [Units -> {"off", "walking", "duel", "dead"}]
      BY <1>2, <1>3, <2>1
    <2> QED
      BY <1>1, <1>2, <2>1, <2>2, OthersKeep
  <1>5. CASE HeroReturns(h)
    <2>1. /\ state' = [state EXCEPT ![h] = "walking"] /\ pos' = [pos EXCEPT ![h] = grave]
          /\ UNCHANGED <<grave, foe, chasing, path, ready, astray>>
      BY <1>5 DEF HeroReturns
    <2>2. state' \in [Units -> {"off", "walking", "duel", "dead"}]
      BY <1>2, <1>3, <2>1
    <2>3. pos' \in [Units -> Floor] /\ pos'[Monster] = pos[Monster]
      BY <1>2, <1>3, <2>1
    <2> QED
      BY <1>1, <1>2, <2>1, <2>2, <2>3, OthersKeep
  <1> QED
    BY <1>4, <1>5

\* Duels end and time passes without the path.
LEMMA DuelEndsKeeps ==
    ASSUME ChaseInv, HeroDies \/ MonsterDies \/ CoolsDown \/ Rest
    PROVE  ChaseInv'
  <1>1. Playing /\ stage = "play"
    BY DEF HeroDies, MonsterDies, CoolsDown, Rest, Playing
  <1>2. /\ pos \in [Units -> Floor] /\ grave \in Floor
        /\ state \in [Units -> {"off", "walking", "duel", "dead"}]
        /\ foe \in Hero \cup {None} /\ ready \in BOOLEAN /\ astray \in BOOLEAN
    BY <1>1 DEF ChaseInv, Inhabited
  <1>3. Monster \in Units /\ Hero \subseteq Units
    BY UnitsApart
  <1>4. CASE HeroDies \/ MonsterDies
    <2>1. /\ foe # None /\ foe' = None
          /\ UNCHANGED <<pos, grave, chasing, path, ready, astray>>
          /\ \/ state' = [state EXCEPT ![foe] = "dead", ![Monster] = "walking"]
             \/ state' = [state EXCEPT ![foe] = "walking", ![Monster] = "dead"]
      BY <1>4 DEF HeroDies, MonsterDies
    <2>2. foe \in Units
      BY <1>2, <1>3, <2>1
    <2>3. state' \in [Units -> {"off", "walking", "duel", "dead"}]
      BY <1>2, <1>3, <2>1, <2>2
    <2> QED
      BY <1>1, <1>2, <2>1, <2>3, OthersKeep
  <1>5. CASE CoolsDown \/ Rest
    <2>1. /\ UNCHANGED <<pos, state, grave, foe, chasing, path, astray>>
          /\ ready' = TRUE \/ ready' = ready
      BY <1>5 DEF CoolsDown, Rest, chaseVars
    <2> QED
      BY <1>1, <1>2, <2>1, OthersKeep
  <1> QED
    BY <1>4, <1>5

\* The game starts on a finished map.
LEMMA SpawnKeeps ==
    ASSUME ChaseInv, Spawn
    PROVE  ChaseInv'
  <1>1. /\ stage = "mapped" /\ stage' = "play"
        /\ UNCHANGED <<settings, room, red, cells, list, blocks, carved,
                       foe, chasing, path, ready, astray>>
        /\ state' = [u \in Units |-> "walking"]
    BY DEF Spawn
  <1>2. GenInv'
    BY <1>1 DEF ChaseInv, GenInv, GenTypes
  <1>3. Floor' = Floor /\ Area' = Area /\ settings \in Configurations
    BY <1>1 DEF ChaseInv, GenInv, GenTypes, Floor, Area, Size, n, Square
  <1>4. Floor \in SUBSET Area
    BY <1>3, AreaIs
  <1>5. pos' \in [Units -> Floor] /\ grave' \in Floor
    <2>1. PICK place \in [Units \cup {"grave"} -> Floor] :
            /\ pos' = [u \in Units |-> place[u]] /\ grave' = place["grave"]
      BY DEF Spawn
    <2> QED
      BY <2>1
  <1>6. Inhabited'
    BY <1>3, <1>4, <1>5 DEF Inhabited
  <1>7. path = NoPath /\ path' = NoPath
    BY <1>1 DEF ChaseInv
  <1>8. Leads(Floor, pos[Monster], path, astray)' /\ (path = <<>> => astray)'
    BY <1>3, <1>7, NoPathApart DEF Leads
  <1> QED
    BY <1>1, <1>2, <1>6, <1>7, <1>8 DEF ChaseInv

\* After the empty path was read nothing happens any more.
LEMMA UndefinedKeeps ==
    ASSUME ChaseInv, NEW h \in Hero, Undefined(h)
    PROVE  ChaseInv'
  <1>1. /\ stage = "play" /\ stage' = "undefined"
        /\ UNCHANGED <<settings, room, red, cells, list, blocks, carved, chaseVars>>
    BY DEF Undefined
  <1>2. GenInv'
    BY <1>1 DEF ChaseInv, GenInv, GenTypes
  <1>3. Floor' = Floor /\ Area' = Area
    BY <1>1 DEF Floor, Area, Size, n, Square
  <1>4. Inhabited'
    BY <1>1, <1>3 DEF ChaseInv, Inhabited, chaseVars
  <1>5. Leads(Floor, pos[Monster], path, astray)' /\ (path = <<>> => astray)'
    BY <1>1, <1>3 DEF ChaseInv, Leads, chaseVars
  <1> QED
    BY <1>1, <1>2, <1>3, <1>4, <1>5 DEF ChaseInv, chaseVars

\* The monster leaves its prey, and the path with it.
LEMMA PathDropped ==
    ASSUME ChaseInv, Playing, path' = NoPath, chasing' = None, astray' \in BOOLEAN,
           state' \in [Units -> {"off", "walking", "duel", "dead"}],
           foe' \in Hero \cup {None}, UNCHANGED <<pos, grave, ready>>
    PROVE  ChaseInv'
  <1>1. /\ GenInv' /\ stage = "play" /\ stage' = "play" /\ settings \in Configurations
        /\ Floor' = Floor /\ Area' = Area
    BY PlayingKeeps
  <1>2. Inhabited'
    BY <1>1 DEF Inhabited, ChaseInv
  <1>3. Leads(Floor, pos[Monster], path, astray)' /\ (path = <<>> => astray)'
    BY <1>1, NoPathApart DEF Leads
  <1> QED
    BY <1>1, <1>2, <1>3 DEF ChaseInv

\* The monster gives up, or starts the duel: the path is dropped.
LEMMA GiveUpKeeps ==
    ASSUME ChaseInv, NEW h \in Hero, GiveUp(h) \/ Engage(h)
    PROVE  ChaseInv'
  <1>1. /\ Playing /\ stage = "play" /\ path' = NoPath /\ chasing' = None
        /\ astray' = FALSE /\ UNCHANGED <<pos, grave, ready>>
        /\ \/ state' = state /\ foe' = foe
           \/ state' = [state EXCEPT ![h] = "duel", ![Monster] = "duel"] /\ foe' = h
    BY DEF GiveUp, Engage, Hunts, Walks, Playing
  <1>2. /\ state \in [Units -> {"off", "walking", "duel", "dead"}] /\ foe \in Hero \cup {None}
    BY DEF ChaseInv
  <1>3. state' \in [Units -> {"off", "walking", "duel", "dead"}] /\ foe' \in Hero \cup {None}
    BY <1>1, <1>2
  <1> QED
    BY <1>1, <1>3, PathDropped

-----------------------------------------------------------------------------
(* The plan of an update.                                                  *)

\* A path a step of the monster can be taken from: it leads to prey.
Plan(floor, from, prey, way, lost) ==
    /\ way = NoPath \/ (way \in Seq(floor) /\ way # <<>>)
    /\ lost \in BOOLEAN
    /\ way # NoPath /\ ~lost => IsWay(floor, from, prey, way)

LEMMA WayWidens ==
    ASSUME NEW free, NEW floor, free \in SUBSET floor, NEW src, NEW dst, NEW way,
           IsWay(free, src, dst, way)
    PROVE  IsWay(floor, src, dst, way)
  BY DEF IsWay

\* What AStar is asked on the map and answers.
LEMMA FoundLeads ==
    ASSUME settings \in Configurations, pos \in [Units -> Floor], NEW h \in Hero,
           NEW way, way = AStar(Area, FreeFor(h), pos[Monster], pos[h]), way # NoPath
    PROVE  /\ way \in Seq(Floor) /\ way # <<>>
           /\ IsWay(Floor, pos[Monster], pos[h], way)
  <1> DEFINE free == FreeFor(h)
             src == pos[Monster]
             dst == pos[h]
  <1>1. src \in Floor /\ dst \in Floor
    BY UnitsApart
  <1>2. /\ Area \in SUBSET (Int \X Int) /\ IsFiniteSet(Area) /\ Floor \in SUBSET Area
    BY AreaIs
  <1>3. free \in SUBSET Floor /\ src \in free /\ dst \in free
    BY <1>1 DEF FreeFor, Blocked
  <1>4. src # dst
    BY DEF AStar
  <1> HIDE DEF free, src, dst
  <1>5. Board(Area, free, src, dst)
    BY <1>2, <1>3, <1>4 DEF Board
  <1>6. Answers(Area, free, src, dst)
    BY <1>5, AStarShortest
  <1>7. way = AStar(Area, free, src, dst)
    BY DEF free, src, dst
  <1>8. way \in Seq(free) /\ IsWay(free, src, dst, way)
    BY <1>6, <1>7 DEF Answers
  <1>9. IsWay(Floor, src, dst, way)
    BY <1>3, <1>8, WayWidens
  <1>10. way \in Seq(Floor) /\ way # <<>>
    BY <1>3, <1>8, <1>9 DEF IsWay
  <1> QED
    BY <1>9, <1>10 DEF src, dst

\* After the check the path leads to the prey, or it is astray.
LEMMA PlannedIs ==
    ASSUME ChaseInv, stage = "play", NEW h \in Hero, path # <<>>,
           NEW plan, plan = Planned(h)
    PROVE  Plan(Floor, pos[Monster], pos[h], plan.path, plan.astray)
  <1>1. /\ settings \in Configurations /\ pos \in [Units -> Floor] /\ astray \in BOOLEAN
        /\ path = NoPath \/ path \in Seq(Floor)
        /\ Leads(Floor, pos[Monster], path, astray)
    BY DEF ChaseInv, GenInv, GenTypes, Inhabited
  <1>2. CASE ~Outdated(h)
    <2>1. plan.path = path /\ plan.astray = astray
      BY <1>2 DEF Planned
    <2>2. path # NoPath /\ pos[h] = Last(path)
      BY <1>2 DEF Outdated
    <2> QED
      BY <1>1, <2>1, <2>2 DEF Plan, Leads
  <1>3. CASE Outdated(h)
    <2>1. PICK found : found = AStar(Area, FreeFor(h), pos[Monster], pos[h])
      OBVIOUS
    <2>2. CASE found # NoPath
      <3>1. plan.path = found /\ plan.astray = FALSE
        BY <1>3, <2>1, <2>2 DEF Planned
      <3>2. found \in Seq(Floor) /\ found # <<>> /\ IsWay(Floor, pos[Monster], pos[h], found)
        BY <1>1, <2>1, <2>2, FoundLeads
      <3> QED
        BY <3>1, <3>2 DEF Plan
    <2>3. CASE found = NoPath
      <3>1. plan.path = path /\ plan.astray = (path # NoPath)
        BY <1>3, <2>1, <2>3 DEF Planned
      <3> QED
        BY <1>1, <3>1 DEF Plan
    <2> QED
      BY <2>2, <2>3
  <1> QED
    BY <1>2, <1>3

-----------------------------------------------------------------------------
(* A step along the path.                                                  *)

\* A unit that goes towards a cell that touches its own gets there.
LEMMA TowardsTouching ==
    ASSUME NEW c \in Int \X Int, pos[Monster] \in Int \X Int, Adjacent(c, pos[Monster])
    PROVE  Towards(c) = c
  <1> DEFINE p == pos[Monster]
             x == c[1]
             y == c[2]
             u == p[1]
             v == p[2]
  <1>1. /\ c = <<x, y>> /\ x \in Int /\ y \in Int /\ u \in Int /\ v \in Int
    OBVIOUS
  <1>2. \/ x = u /\ (y = v + 1 \/ v = y + 1)
        \/ y = v /\ (x = u + 1 \/ u = x + 1)
    BY DEF Adjacent
  <1>3. Towards(c) = CASE x > u -> <<u + 1, v>>
                       [] x < u -> <<u - 1, v>>
                       [] x = u /\ y > v -> <<u, v + 1>>
                       [] x = u /\ y < v -> <<u, v - 1>>
                       [] OTHER -> p
    BY DEF Towards
  <1> HIDE DEF p, x, y, u, v
  <1>4. Towards(c) = <<x, y>>
    <2>1. CASE x = u /\ y = v + 1
      BY <1>1, <1>3, <2>1
    <2>2. CASE x = u /\ v = y + 1
      BY <1>1, <1>3, <2>2
    <2>3. CASE y = v /\ x = u + 1
      BY <1>1, <1>3, <2>3
    <2>4. CASE y = v /\ u = x + 1
      BY <1>1, <1>3, <2>4
    <2> QED
      BY <1>2, <2>1, <2>2, <2>3, <2>4
  <1> QED
    BY <1>1, <1>4

\* Cells that touch have the distance at which duels start.
LEMMA TouchingIsNext ==
    ASSUME NEW a \in Int \X Int, NEW b \in Int \X Int, Adjacent(a, b)
    PROVE  SquaredDistance(a, b) = 1
  <1> DEFINE dx == a[1] - b[1]
             dy == a[2] - b[2]
  <1>1. a[1] \in Int /\ a[2] \in Int /\ b[1] \in Int /\ b[2] \in Int
    OBVIOUS
  <1>2. dx \in {-1, 0, 1} /\ dy \in {-1, 0, 1} /\ (dx = 0 <=> dy # 0)
    BY <1>1 DEF Adjacent
  <1>3. SquaredDistance(a, b) = dx * dx + dy * dy
    BY DEF SquaredDistance
  <1> HIDE DEF dx, dy
  <1>4. 0 * 0 = 0 /\ 1 * 1 = 1 /\ (-1) * (-1) = 1
    OBVIOUS
  <1>5. CASE dx = 0 /\ dy = 1
    BY <1>3, <1>4, <1>5
  <1>6. CASE dx = 0 /\ dy = -1
    BY <1>3, <1>4, <1>6
  <1>7. CASE dy = 0 /\ dx = 1
    BY <1>3, <1>4, <1>7
  <1>8. CASE dy = 0 /\ dx = -1
    BY <1>3, <1>4, <1>8
  <1> QED
    BY <1>2, <1>5, <1>6, <1>7, <1>8

\* What is left of a way after its first cell leads on from there.
LEMMA WayTail ==
    ASSUME NEW floor, NEW src, NEW dst, NEW way \in Seq(floor), IsWay(floor, src, dst, way)
    PROVE  /\ Adjacent(Head(way), src) /\ Head(way) \in floor
           /\ Tail(way) = <<>> => Head(way) = dst
           /\ Tail(way) # <<>> => IsWay(floor, Head(way), Last(Tail(way)), Tail(way))
  <1>1. /\ way # <<>> /\ Last(way) = dst /\ Len(way) \in Nat /\ Len(way) > 0
        /\ DOMAIN way = 1 .. Len(way)
    BY DEF IsWay
  <1>2. /\ Head(way) = way[1] /\ Tail(way) \in Seq(floor) /\ Len(Tail(way)) = Len(way) - 1
        /\ \A i \in 1 .. Len(way) - 1 : Tail(way)[i] = way[i + 1]
    BY <1>1
  <1>3. \A i \in 1 .. Len(way) :
          way[i] \in floor /\ Adjacent(way[i], IF i = 1 THEN src ELSE way[i - 1])
    BY <1>1 DEF IsWay
  <1>4. Adjacent(Head(way), src) /\ Head(way) \in floor
    BY <1>1, <1>2, <1>3
  <1>5. ASSUME Tail(way) = <<>> PROVE Head(way) = dst
    <2>1. PICK rest, l : rest = Tail(way) /\ l = Len(way)
      OBVIOUS
    <2>2. rest = <<>> /\ Len(rest) = l - 1 /\ l \in Nat
      BY <1>1, <1>2, <1>5, <2>1
    <2>3. l = 1
      <3>1. Len(rest) = 0
        BY <2>2
      <3> QED
        BY <2>2, <3>1
    <2> QED
      BY <1>1, <1>2, <2>1, <2>3 DEF Last
  <1>6. ASSUME Tail(way) # <<>>
        PROVE  IsWay(floor, Head(way), Last(Tail(way)), Tail(way))
    <2> DEFINE rest == Tail(way)
    <2>1. DOMAIN rest = 1 .. Len(way) - 1
      BY <1>1, <1>2
    <2>2. ASSUME NEW i \in 1 .. Len(way) - 1
          PROVE  /\ rest[i] \in floor
                 /\ Adjacent(rest[i], IF i = 1 THEN Head(way) ELSE rest[i - 1])
      <3>1. i + 1 \in 1 .. Len(way) /\ i + 1 # 1 /\ (i + 1) - 1 = i /\ rest[i] = way[i + 1]
        BY <1>1, <1>2
      <3>2. way[i + 1] \in floor /\ Adjacent(way[i + 1], way[i])
        BY <1>3, <3>1
      <3>3. way[i] = IF i = 1 THEN Head(way) ELSE rest[i - 1]
        <4>1. CASE i = 1
          BY <1>2, <4>1
        <4>2. CASE i # 1
          <5>1. i - 1 \in 1 .. Len(way) - 1 /\ (i - 1) + 1 = i
            BY <1>1, <4>2
          <5>2. rest[i - 1] = way[(i - 1) + 1]
            BY <1>2, <5>1
          <5> QED
            BY <4>2, <5>1, <5>2
        <4> QED
          BY <4>1, <4>2
      <3> QED
        BY <3>1, <3>2, <3>3
    <2> HIDE DEF rest
    <2>3. rest # <<>>
      BY <1>6 DEF rest
    <2>4. IsWay(floor, Head(way), Last(rest), rest)
      BY <2>1, <2>2, <2>3 DEF IsWay
    <2> QED
      BY <2>4 DEF rest
  <1> QED
    BY <1>4, <1>5, <1>6

-----------------------------------------------------------------------------
(* The monster's update.                                                   *)

\* What the monster has when it hunts.
LEMMA Hunting ==
    ASSUME ChaseInv, NEW h \in Hero, Hunts(h), NEW plan, plan = Planned(h)
    PROVE  /\ Playing /\ stage = "play" /\ settings \in Configurations
           /\ pos \in [Units -> Floor] /\ grave \in Floor
           /\ Floor \in SUBSET Area /\ Area \in SUBSET (Int \X Int)
           /\ pos[Monster] \in Floor /\ pos[h] \in Floor
           /\ Plan(Floor, pos[Monster], pos[h], plan.path, plan.astray)
  <1>1. Playing /\ stage = "play" /\ path # <<>>
    BY DEF Hunts, Walks, Playing, ReadsNothing
  <1>2. /\ settings \in Configurations /\ pos \in [Units -> Floor] /\ grave \in Floor
    BY <1>1 DEF ChaseInv, Inhabited, GenInv, GenTypes
  <1>3. pos[Monster] \in Floor /\ pos[h] \in Floor
    BY <1>2, UnitsApart
  <1>4. Floor \in SUBSET Area /\ Area \in SUBSET (Int \X Int)
    BY <1>2, AreaIs
  <1>5. Plan(Floor, pos[Monster], pos[h], plan.path, plan.astray)
    BY <1>1, PlannedIs
  <1> QED
    BY <1>1, <1>2, <1>3, <1>4, <1>5

\* What an update of the hunting monster may do.
LEMMA HuntKeeps ==
    ASSUME ChaseInv, NEW h \in Hero, Playing,
           pos' \in [Units -> Floor], state' = state, grave' = grave, foe' = foe,
           chasing' = h, ready' \in BOOLEAN, astray' \in BOOLEAN,
           path' = NoPath \/ path' \in Seq(Floor),
           Leads(Floor, pos'[Monster], path', astray'),
           path' = <<>> => astray'
    PROVE  ChaseInv'
  <1>1. /\ GenInv' /\ stage = "play" /\ stage' = "play" /\ settings \in Configurations
        /\ Floor' = Floor /\ Area' = Area
    BY PlayingKeeps
  <1>2. Floor \in SUBSET Area /\ grave \in Floor
    BY <1>1, AreaIs DEF ChaseInv, Inhabited
  <1>3. Inhabited'
    BY <1>1, <1>2 DEF Inhabited
  <1>4. Leads(Floor, pos[Monster], path, astray)'
    BY <1>1
  <1> QED
    BY <1>1, <1>3, <1>4 DEF ChaseInv

\* The monster keeps the plan and waits.
LEMMA LingerKeeps ==
    ASSUME ChaseInv, NEW h \in Hero, Hunts(h), NEW plan, plan = Planned(h), Linger(h, plan)
    PROVE  ChaseInv'
  <1>1. /\ Playing /\ pos \in [Units -> Floor] /\ settings \in Configurations
        /\ Plan(Floor, pos[Monster], pos[h], plan.path, plan.astray)
    BY Hunting
  <1>2. /\ path' = plan.path /\ astray' = plan.astray /\ chasing' = h
        /\ UNCHANGED <<pos, state, grave, foe, ready>>
    BY DEF Linger
  <1>3. PICK way, lost : way = plan.path /\ lost = plan.astray
    OBVIOUS
  <1>4. /\ way = NoPath \/ (way \in Seq(Floor) /\ way # <<>>)
        /\ lost \in BOOLEAN
        /\ way # NoPath /\ ~lost => IsWay(Floor, pos[Monster], pos[h], way)
    BY <1>1, <1>3 DEF Plan
  <1>5. Leads(Floor, pos'[Monster], path', astray')
    <2>1. way # NoPath /\ ~lost => IsWay(Floor, pos[Monster], Last(way), way)
      BY <1>4 DEF IsWay
    <2> QED
      BY <1>2, <1>3, <2>1 DEF Leads
  <1>6. path' # <<>> /\ (path' = NoPath \/ path' \in Seq(Floor)) /\ astray' \in BOOLEAN
    BY <1>1, <1>2, <1>3, <1>4, NoPathApart
  <1>7. ready' \in BOOLEAN
    BY <1>2 DEF ChaseInv
  <1> QED
    BY <1>1, <1>2, <1>5, <1>6, <1>7, HuntKeeps

\* What Follow does to position and path, and when it leaves the way.
Tried(way, lost) ==
    LET step == Towards(Head(way))
        refused == step # pos[Monster] /\ Blocked(step)
    IN /\ pos' = IF refused THEN pos ELSE [pos EXCEPT ![Monster] = step]
       /\ path' = Tail(way)
       /\ astray' = (lost \/ refused)

\* A step taken off a way leaves a way, and never the empty one: the last cell
\* of it is the cell of the prey, which was not next to the monster.
LEMMA TriedKeeps ==
    ASSUME ChaseInv, settings \in Configurations, NEW h \in Hero,
           pos \in [Units -> Floor], Floor \in SUBSET Area, Area \in SUBSET (Int \X Int),
           pos[Monster] \in Floor, pos[h] \in Floor, ~NextTo(h),
           NEW way \in Seq(Floor), way # <<>>, NEW lost \in BOOLEAN,
           ~lost => IsWay(Floor, pos[Monster], pos[h], way),
           Tried(way, lost)
    PROVE  /\ pos' \in [Units -> Floor] /\ path' \in Seq(Floor) /\ astray' \in BOOLEAN
           /\ Leads(Floor, pos'[Monster], path', astray')
           /\ path' = <<>> => astray'
  <1>1. PICK step : step = Towards(Head(way))
    OBVIOUS
  <1>2. PICK refused \in BOOLEAN : refused <=> step # pos[Monster] /\ Blocked(step)
    OBVIOUS
  <1>3. /\ refused => pos' = pos
        /\ ~refused => pos' = [pos EXCEPT ![Monster] = step]
        /\ path' = Tail(way)
    BY <1>1, <1>2 DEF Tried
  <1>4. /\ astray' \in BOOLEAN
        /\ astray' <=> lost \/ refused
    BY <1>1, <1>2, Zenon DEF Tried
  <1>5. path' \in Seq(Floor)
    BY <1>3
  <1>6. ~refused => step \in Floor
    BY <1>2 DEF Blocked
  <1>7. Monster \in Units
    BY UnitsApart
  <1>8. pos' \in [Units -> Floor] /\ (~refused => pos'[Monster] = step)
    <2>1. CASE refused
      BY <1>3, <2>1
    <2>2. CASE ~refused
      BY <1>3, <1>6, <1>7, <2>2
    <2> QED
      BY <2>1, <2>2
  <1>9. ASSUME ~astray'
        PROVE  /\ path' # <<>>
               /\ IsWay(Floor, pos'[Monster], Last(path'), path')
    <2>1. ~lost /\ ~refused
      BY <1>4, <1>9
    <2>2. IsWay(Floor, pos[Monster], pos[h], way)
      BY <2>1
    <2>3. PICK next, rest : next = Head(way) /\ rest = Tail(way)
      OBVIOUS
    <2>4. /\ Adjacent(next, pos[Monster]) /\ next \in Floor
          /\ rest = <<>> => next = pos[h]
          /\ rest # <<>> => IsWay(Floor, next, Last(rest), rest)
      BY <2>2, <2>3, WayTail
    <2>5. next \in Int \X Int /\ pos[Monster] \in Int \X Int /\ pos[h] \in Int \X Int
      BY <2>4
    <2>6. pos'[Monster] = next
      BY <1>1, <1>8, <2>1, <2>3, <2>4, <2>5, TowardsTouching
    <2>7. rest # <<>>
      <3>1. SUFFICES ASSUME rest = <<>> PROVE FALSE
        OBVIOUS
      <3>2. SquaredDistance(pos[h], pos[Monster]) = 1
        BY <2>4, <2>5, <3>1, TouchingIsNext
      <3> QED
        BY <3>2 DEF NextTo
    <2> QED
      BY <1>3, <2>3, <2>4, <2>6, <2>7
  <1> QED
    BY <1>4, <1>5, <1>8, <1>9 DEF Leads

\* The monster tries a step.
LEMMA FollowKeeps ==
    ASSUME ChaseInv, NEW h \in Hero, Hunts(h), NEW plan, plan = Planned(h), Follow(h, plan)
    PROVE  ChaseInv'
  <1>1. /\ Playing /\ settings \in Configurations /\ pos \in [Units -> Floor]
        /\ Floor \in SUBSET Area /\ Area \in SUBSET (Int \X Int)
        /\ pos[Monster] \in Floor /\ pos[h] \in Floor
        /\ Plan(Floor, pos[Monster], pos[h], plan.path, plan.astray)
    BY Hunting
  <1>2. PICK way, lost : way = plan.path /\ lost = plan.astray
    OBVIOUS
  <1>3. /\ ~NextTo(h) /\ way # NoPath /\ chasing' = h /\ ready' = FALSE
        /\ UNCHANGED <<state, grave, foe>>
    BY <1>2 DEF Follow
  <1>4. Tried(way, lost)
    BY <1>2 DEF Follow, Tried
  <1>5. /\ way \in Seq(Floor) /\ way # <<>> /\ lost \in BOOLEAN
        /\ ~lost => IsWay(Floor, pos[Monster], pos[h], way)
    BY <1>1, <1>2, <1>3 DEF Plan
  <1>6. /\ pos' \in [Units -> Floor] /\ path' \in Seq(Floor) /\ astray' \in BOOLEAN
        /\ Leads(Floor, pos'[Monster], path', astray')
        /\ path' = <<>> => astray'
    BY <1>1, <1>3, <1>4, <1>5, TriedKeeps
  <1> QED
    BY <1>1, <1>3, <1>6, HuntKeeps

\* Every step keeps the invariant.
LEMMA NextKeeps ==
    ChaseInv /\ [Next]_vars => ChaseInv'
  <1> SUFFICES ASSUME ChaseInv, [Next]_vars PROVE ChaseInv'
    OBVIOUS
  <1>1. CASE Generate
    BY <1>1, GenerateKeeps
  <1>2. CASE Spawn
    BY <1>2, SpawnKeeps
  <1>3. ASSUME NEW h \in Hero, Update(h)
        PROVE  ChaseInv'
    <2>1. CASE GiveUp(h) \/ Engage(h)
      BY <2>1, GiveUpKeeps
    <2>2. CASE Hunts(h) /\ LET plan == Planned(h) IN Follow(h, plan) \/ Linger(h, plan)
      <3>1. PICK plan : plan = Planned(h)
        OBVIOUS
      <3>2. Hunts(h) /\ (Follow(h, plan) \/ Linger(h, plan))
        BY <2>2, <3>1
      <3> QED
        BY <3>1, <3>2, FollowKeeps, LingerKeeps
    <2> QED
      BY <1>3, <2>1, <2>2 DEF Update
  <1>4. ASSUME NEW h \in Hero, Undefined(h)
        PROVE  ChaseInv'
    BY <1>4, UndefinedKeeps
  <1>5. ASSUME NEW h \in Hero, Others(h)
        PROVE  ChaseInv'
    BY <1>5, HeroActsKeeps DEF Others
  <1>6. CASE HeroDies \/ MonsterDies \/ CoolsDown \/ Rest
    BY <1>6, DuelEndsKeeps
  <1>8. ASSUME NEW u \in Units, ClientMoves(u)
        PROVE  ChaseInv'
    BY <1>8, ClientMovesKeeps
  <1>7. CASE UNCHANGED vars
    <2>1. UNCHANGED genVars /\ UNCHANGED chaseVars
      BY <1>7 DEF vars
    <2>2. Floor' = Floor /\ Area' = Area
      BY <2>1 DEF genVars, Floor, Area, Size, n, Square
    <2>3. GenInv'
      BY <2>1 DEF genVars, ChaseInv, GenInv, GenTypes
    <2>4. Inhabited'
      BY <2>1, <2>2 DEF ChaseInv, Inhabited, genVars, chaseVars
    <2>5. Leads(Floor, pos[Monster], path, astray)' /\ (path = <<>> => astray)'
      BY <2>1, <2>2 DEF ChaseInv, Leads, chaseVars
    <2> QED
      BY <2>1, <2>2, <2>3, <2>4, <2>5 DEF ChaseInv, genVars, chaseVars
  <1> QED
    BY <1>1, <1>2, <1>3, <1>4, <1>5, <1>6, <1>7, <1>8 DEF Next, Done

LEMMA ChaseInvariant ==
    Spec => []ChaseInv
  BY ChaseInitHolds, NextKeeps, PTL DEF Spec

-----------------------------------------------------------------------------
(* The theorems.                                                           *)

LEMMA TypesFromInv ==
    ChaseInv => ChaseTypeOK
  <1> SUFFICES ASSUME ChaseInv PROVE ChaseTypeOK
    OBVIOUS
  <1>1. GenTypes(settings, cells, list, blocks, carved)
    BY DEF ChaseInv, GenInv
  <1>2. settings \in Configurations
    BY <1>1 DEF GenTypes
  <1>3. RoomIn(settings) = Square(n) /\ MapIn(settings) = Area
    BY <1>2, AreaIs DEF RoomIn, n
  <1>4. /\ cells \in [Square(n) -> BlockTypes] /\ blocks \in [Area -> BlockTypes]
        /\ list \in [Square(n) -> 0 .. 4]
    BY <1>1, <1>3 DEF GenTypes
  <1> QED
    BY <1>2, <1>4 DEF ChaseInv, Inhabited, ChaseTypeOK

LEMMA ShortestFromInv ==
    ChaseInv => SearchShortest
  <1> SUFFICES ASSUME ChaseInv, NEW src \in Floor, NEW dst \in Floor, src # dst
               PROVE  LET way == AStar(Square(Size), Floor, src, dst)
                          best == StepsTo(Floor, src, dst)
                      IN IF best = -1 THEN way = NoPath
                         ELSE IsWay(Floor, src, dst, way) /\ Len(way) = best
    BY DEF SearchShortest
  <1>1. settings \in Configurations
    BY DEF ChaseInv, GenInv, GenTypes
  <1>2. PICK area : area = Square(Size)
    OBVIOUS
  <1>3. Board(area, Floor, src, dst)
    BY <1>1, <1>2, AreaIs DEF Board
  <1>4. Answers(area, Floor, src, dst)
    BY <1>3, AStarShortest
  <1> QED
    BY <1>2, <1>4 DEF Answers

\* The state of generator and hunt keeps its types: what a path holds are open
\* cells of the map (Monster::update, monster.cpp).
THEOREM ChaseTypes ==
    Spec => []ChaseTypeOK
  BY ChaseInvariant, TypesFromInv, PTL

\* While a room is carved its open cells are a tree, in rooms of any size and
\* with listed cells drawn in any order (GameMapGenerator::GenerateMap).
THEOREM MazesAreTrees ==
    Spec => []MazeIsTree
  <1>1. ChaseInv => MazeIsTree
    BY TreeFromInv DEF ChaseInv
  <1> QED
    BY <1>1, ChaseInvariant, PTL

\* When nothing is listed any more the maze is complete: no wall is left that
\* touches exactly one open cell, and on the finished map BORDER is the border
\* and nothing else.
THEOREM MazesAreFull ==
    Spec => []MazeIsFull
  <1>1. ChaseInv => MazeIsFull
    BY FullFromInv DEF ChaseInv
  <1> QED
    BY <1>1, ChaseInvariant, PTL

\* On a finished map of any number of rooms the red rooms, whose sides are
\* open, connect what all mazes opened, and nothing of it was closed again by
\* a later room or by the border.  In every row of blocks of every room there
\* is a cell of it.
THEOREM MapsAreConnected ==
    Spec => []RoomsConnected
  <1>1. ChaseInv => RoomsConnected
    BY ConnectedFromInv DEF ChaseInv
  <1> QED
    BY <1>1, ChaseInvariant, PTL

\* A finished map of k * k rooms of side m has at least k * m * k open cells,
\* 90 for the numbers that GameServer gives GenerateMap.  GetRandomPosition, which
\* searches until it hits one that nothing stands on, finds a place for the hero
\* of the one player a game has and the key and the three sites of InitialSpawn.
THEOREM MapsHaveRoom ==
    Spec => [](stage = "mapped" =>
        Cardinality(Floor) >= settings.MapSize * settings.RoomSize * settings.MapSize)
  <1> DEFINE Enough == stage = "mapped" =>
        Cardinality(Floor) >= settings.MapSize * settings.RoomSize * settings.MapSize
  <1>1. ASSUME ChaseInv PROVE Enough
    <2> SUFFICES ASSUME stage = "mapped"
                 PROVE  Cardinality(Floor)
                          >= settings.MapSize * settings.RoomSize * settings.MapSize
      OBVIOUS
    <2>1. GenInv /\ settings \in Configurations
      BY <1>1 DEF ChaseInv, GenInv, GenTypes
    <2>2. PICK size \in Nat \ {0}, m \in Nat \ {0} :
             size = settings.MapSize /\ m = settings.RoomSize
      BY <2>1, SettingsType
    <2>3. size * m \in Nat /\ Size = size * m + 2 /\ n = m
      BY <2>2 DEF Size, n
    <2>4. IsFiniteSet(Floor)
      <3>1. IsFiniteSet(Square(Size)) /\ Floor \in SUBSET Square(Size)
        BY <2>3, SquareFinite DEF Floor
      <3> QED
        BY <3>1, FS_Subset
    <2>5. ASSUME NEW x \in 1 .. size * m, NEW j \in 0 .. size - 1
          PROVE  \E y \in j * m + 1 .. (j + 1) * m : <<x, y>> \in Floor
      <3>1. x \in 1 .. Size - 2
        BY <2>3
      <3>2. RoomsConnected
        BY <2>1, ConnectedFromInv
      <3> QED
        BY <2>2, <2>3, <3>1, <3>2 DEF RoomsConnected
    <2>6. Cardinality(Floor) >= size * m * size
      BY <2>4, <2>5, RowsCount
    <2> QED
      BY <2>2, <2>6
  <1> QED
    BY <1>1, ChaseInvariant, PTL

\* On a finished map AStar finds a shortest way between any two open cells.
THEOREM SearchesAreShortest ==
    Spec => []SearchShortest
  BY ChaseInvariant, ShortestFromInv, PTL

\* While no step was refused, no search failed and no client moved the
\* monster, what is left of the path leads from it over open cells to the end.
THEOREM PathsLeadOn ==
    Spec => []PathLeadsOn
  <1>1. ChaseInv => PathLeadsOn
    BY DEF ChaseInv, Leads, PathLeadsOn, OnTrack
  <1> QED
    BY <1>1, ChaseInvariant, PTL

\* The empty path whose end Monster::update reads takes a refused step, a
\* failed search or a client's move of the monster before.
THEOREM EmptyPathsAreAstray ==
    Spec => []EmptyOnlyAstray
  <1>1. ChaseInv => EmptyOnlyAstray
    BY DEF ChaseInv, EmptyOnlyAstray
  <1> QED
    BY <1>1, ChaseInvariant, PTL
=============================================================================
