------------------------------- MODULE MapGen -------------------------------
(***************************************************************************)
(* GameMapGenerator::GenerateMap: a square of MapSize x MapSize rooms, each *)
(* of RoomSize x RoomSize blocks.  In a room a maze grows from one cell    *)
(* (Prim's algorithm), some of its walls are punched, and in every second  *)
(* room, the red ones, the four sides are opened; a border surrounds it    *)
(* all.                                                                    *)
(*                                                                         *)
(* Each random number is a free choice.  list is a vector from which an    *)
(* entry is drawn at random, so only how often it holds a cell is kept: a  *)
(* cell is pushed again by every neighbour that opens before it is drawn.  *)
(***************************************************************************)
EXTENDS PathSearch

CONSTANTS
    Configurations, \* the values of settings: [MapSize, RoomSize]
    Seeds,          \* the cells a room's maze may start from
    MaxHoles,       \* bound: settings -> how many walls of a room are punched
    SearchCells     \* bound: the floor of the maps all searches are tried on

ASSUME GeneratorAssumption ==
    /\ \A s \in Configurations : s.MapSize \in Nat \ {0} /\ s.RoomSize \in Nat \ {0}
    /\ Seeds \subseteq Nat \X Nat
    /\ MaxHoles \in [Configurations -> Nat]
    /\ SearchCells \in Nat

VARIABLES
    settings,
    stage,      \* "seed", "carve": in the current room; "mapped"; then the game
    room,       \* the room that is made, <<i, j>>
    red,
    cells,      \* the blocks of the current room
    list,       \* cell -> how many entries of list name it
    blocks,     \* tmp_map
    carved      \* history: the cells of tmp_map that mazes and red rooms opened

genVars == <<settings, stage, room, red, cells, list, blocks, carved>>

BlockTypes == {"NOBLOCK", "WALL", "BORDER"}

n == settings.RoomSize
Size == settings.MapSize * n + 2
Square(k) == (0 .. k - 1) \X (0 .. k - 1)

\* The neighbours of cell c in its room.
Around(c) == {d \in Square(n) : Adjacent(c, d)}

OpenCells == {c \in Square(n) : cells[c] = "NOBLOCK"}

EvenMap(s) == s.MapSize % 2 # 1

GenInit ==
    /\ settings \in Configurations
    /\ stage = "seed"
    /\ room = <<0, 0>>
    /\ red = EvenMap(settings)
    /\ cells = [c \in Square(n) |-> "WALL"]
    /\ list = [c \in Square(n) |-> 0]
    /\ blocks = [c \in Square(Size) |-> "NOBLOCK"]
    /\ carved = {}

\* The maze starts at one cell; its neighbours are marked and listed.
Seed(start) ==
    /\ stage = "seed"
    /\ start \in Square(n)
    /\ stage' = "carve"
    /\ cells' = [c \in Square(n) |-> IF c = start THEN "NOBLOCK"
                                    ELSE IF c \in Around(start) THEN "BORDER" ELSE "WALL"]
    /\ list' = [c \in Square(n) |-> IF c \in Around(start) THEN 1 ELSE 0]
    /\ UNCHANGED <<settings, room, red, blocks, carved>>

\* Mutants of Carve: a cell between two open ones is opened as well; the
\* walls around an opened cell are not listed.
CarveLoops(c) ==
    /\ stage = "carve" /\ list[c] > 0
    /\ LET open == Around(c) \cap OpenCells
       IN IF Cardinality(open) \notin {1, 2}
          THEN /\ cells' = [cells EXCEPT ![c] = "WALL"]
               /\ list' = [list EXCEPT ![c] = @ - 1]
          ELSE /\ cells' = [cells EXCEPT ![c] = "NOBLOCK"]
               /\ list' = [d \in DOMAIN list |->
                             IF d = c THEN list[d] - 1
                             ELSE IF d \in Around(c) /\ cells[d] = "WALL" THEN list[d] + 1
                             ELSE list[d]]
    /\ UNCHANGED <<settings, stage, room, red, blocks, carved>>
CarveShort(c) ==
    /\ stage = "carve" /\ list[c] > 0
    /\ list' = [list EXCEPT ![c] = @ - 1]
    /\ cells' = [cells EXCEPT ![c] =
                   IF Cardinality(Around(c) \cap OpenCells) = 1 THEN "NOBLOCK" ELSE "WALL"]
    /\ UNCHANGED <<settings, stage, room, red, blocks, carved>>

\* One entry is drawn.  Its cell is opened if it touches exactly one open
\* cell, and then the walls around it are listed, listed already or not.
Carve(c) ==
    /\ stage = "carve" /\ list[c] > 0
    /\ LET open == Around(c) \cap OpenCells
       IN IF Cardinality(open) # 1
          THEN /\ cells' = [cells EXCEPT ![c] = "WALL"]
               /\ list' = [list EXCEPT ![c] = @ - 1]
          ELSE /\ cells' = [cells EXCEPT ![c] = "NOBLOCK"]
               /\ list' = [d \in DOMAIN list |->
                             IF d = c THEN list[d] - 1
                             ELSE IF d \in Around(c) /\ cells[d] = "WALL" THEN list[d] + 1
                             ELSE list[d]]
    /\ UNCHANGED <<settings, stage, room, red, blocks, carved>>

Carved == stage = "carve" /\ \A c \in DOMAIN list : list[c] = 0

\* Mutant of Sides: red rooms keep their walls.
SidesShut == {}

Sides == IF red THEN {c \in Square(n) : \E k \in {1, 2} : c[k] \in {0, n - 1}} ELSE {}

\* Where tmp_map has the cell of the current room: rooms are transposed.
Place(c) == <<room[1] * n + c[2] + 1, room[2] * n + c[1] + 1>>

Rim == {c \in Square(Size) : \E k \in {1, 2} : c[k] \in {0, Size - 1}}

LastRoom == room = <<settings.MapSize - 1, settings.MapSize - 1>>
LastOfRow == room[2] = settings.MapSize - 1

\* Walls are punched, a red room's sides are opened, the room is copied to
\* the map, and after the last one the border is drawn.
FinishRoom(holes) ==
    /\ Carved
    /\ LET open == OpenCells \cup Sides
           final == [c \in Square(n) |-> IF c \in open \cup holes THEN "NOBLOCK" ELSE cells[c]]
           filled == [b \in Square(Size) |->
                        IF \E c \in Square(n) : Place(c) = b
                        THEN final[CHOOSE c \in Square(n) : Place(c) = b]
                        ELSE blocks[b]]
       IN /\ blocks' = IF LastRoom
                       THEN [b \in Square(Size) |-> IF b \in Rim THEN "BORDER" ELSE filled[b]]
                       ELSE filled
          /\ carved' = carved \cup {Place(c) : c \in open}
    /\ IF LastRoom
       THEN stage' = "mapped" /\ UNCHANGED <<room, red>>
       ELSE /\ stage' = "seed"
            /\ room' = IF LastOfRow THEN <<room[1] + 1, 0>> ELSE <<room[1], room[2] + 1>>
            /\ red' = IF LastOfRow /\ EvenMap(settings) THEN red ELSE ~red
    /\ UNCHANGED <<settings, cells, list>>

GenNext ==
    \/ \E start \in Seeds : Seed(start)
    \/ \E c \in Square(n) : Carve(c)
    \/ \E holes \in SUBSET (Square(n) \ OpenCells) :
         Cardinality(holes) <= MaxHoles[settings] /\ FinishRoom(holes)

-----------------------------------------------------------------------------
(* Properties.                                                             *)

\* Every cell of set can be reached from any other without leaving set.
Connected(set) ==
    set # {} => LET some == CHOOSE c \in set : TRUE IN Region(set, {some}) = set

Passages(set) ==
    {{p[1], p[2]} : p \in {q \in set \X set : Adjacent(q[1], q[2])}}

\* What Prim's algorithm promises, with cells listed any number of times and
\* drawn in any order: the open cells of a room are a tree at every moment.
MazeIsTree ==
    stage = "carve" =>
        /\ Connected(OpenCells)
        /\ Cardinality(Passages(OpenCells)) = Cardinality(OpenCells) - 1

\* The maze is complete: no wall is left that touches one open cell only, so
\* every side of a room has an opening, and no mark of the algorithm stays: on
\* the map BORDER is the border and nothing else.
MazeIsFull ==
    /\ Carved => /\ \A c \in Square(n) : cells[c] # "BORDER"
                 /\ \A c \in Square(n) \ OpenCells :
                      Cardinality(Around(c) \cap OpenCells) # 1
    /\ stage = "mapped" => \A b \in Square(Size) : blocks[b] = "BORDER" <=> b \in Rim

Floor == {b \in Square(Size) : blocks[b] = "NOBLOCK"}

\* Rooms are connected through the red ones: from every cell that a maze or
\* an open side made, every other one can be reached, and neither a later
\* room nor the border has closed any of them.  Every row of blocks of every
\* room has such a cell.  (A punched wall may be closed in on all sides.)
RoomsConnected ==
    stage = "mapped" =>
        /\ carved \subseteq Floor /\ Connected(carved)
        /\ \A x \in 1 .. Size - 2, j \in 0 .. settings.MapSize - 1 :
             \E y \in j * n + 1 .. (j + 1) * n : <<x, y>> \in carved

\* The path search is right on the maps it is used on: between any two open
\* cells it finds a path if there is one, and a shortest one.
SearchShortest ==
    stage = "mapped" /\ Cardinality(Floor) <= SearchCells =>
        LET free == Floor
        IN \A src, dst \in free :
             src # dst =>
               LET path == AStar(Square(Size), free, src, dst)
                   best == StepsTo(free, src, dst)
               IN IF best = -1 THEN path = NoPath
                  ELSE IsWay(free, src, dst, path) /\ Len(path) = best
=============================================================================
