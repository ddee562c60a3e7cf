----------------------------- MODULE Pathfinder -----------------------------
(***************************************************************************)
(* FindPath and WalkAStar (src/src/runtime/components/navigation/          *)
(* Pathfinder.cpp) on the thread of one script, within one level, and what *)
(* they keep from one call to the next in thread_locals: the collision     *)
(* grid of the last level (cachedLookup), and the nodes of the last search *)
(* (gArena), told from those of this one by a generation that wraps.       *)
(*                                                                         *)
(* A grid has the flags of each cell, as the rooms had them when they were *)
(* copied; what is in the way, and what a step costs, is read off the      *)
(* grid.  The end points are as MutatePoint leaves them.  An entry of the  *)
(* heap, and a parent, is the cell its NodeRef stands for; the order among *)
(* equals is left open.                                                    *)
(*                                                                         *)
(* The game goes on meanwhile: the player walks, opens doors, leaves for   *)
(* another game.  A call reads the seed, builds a grid room by room, each  *)
(* of them under a lock of its own, or refreshes the one it keeps under a  *)
(* single lock, and searches without any.                                  *)
(***************************************************************************)
EXTENDS Integers, Sequences, FiniteSetsExt

CONSTANTS
  Seeds,          \* the games, by their map seeds
  Cells,          \* per level: its cells <<x, y>>
  Collision,      \* per seed and level: the flags of its cells, doors closed
  Doors,          \* per level: the cells that have no flags once they are open
  RoomWidth,      \* a room is so many columns of a level
  Requests,       \* the searches scripts ask for
  MaxSearches,    \* bound: calls of FindPath
  MaxGen,         \* the last generation before the wrap
  Nothing         \* no grid, no call, no search

LevelIds == DOMAIN Cells

(* CollisionFlag, as far as the search tells flags apart; and All. *)
Flags == {"Wall", "NoPlayer", "Object", "Door"}

(* A step from cell to cell costs 14 at most, and 80 for a door. *)
MaxStep == 94

(* The largest int32_t. *)
Infinity == 2147483647

ASSUME PathAssumption ==
  /\ Seeds \subseteq Nat /\ Seeds # {}
  /\ \A l \in LevelIds :
       /\ IsFiniteSet(Cells[l]) /\ Nothing \notin Cells[l]
       /\ Cells[l] \subseteq Nat \X Nat
       /\ Cardinality(Cells[l]) * MaxStep < Infinity
       /\ \A s \in Seeds : Collision[s][l] \in [Cells[l] -> SUBSET Flags]
  /\ \A r \in Requests :
       /\ r.level \in LevelIds /\ {r.start, r.goal} \subseteq Cells[r.level]
       /\ r.penalties \in BOOLEAN
  /\ Nothing \notin [request : Requests, fits : BOOLEAN, steady : BOOLEAN]
  /\ RoomWidth \in Nat \ {0}
  /\ MaxSearches \in Nat /\ MaxGen \in Nat \ {0}

VARIABLES
  world,       \* the game: its seed, the doors that are open, and the player's room
  call,        \* the FindPath before its search
  lookup,      \* cachedLookup
  grid,        \* the LevelGrid that BuildLevelGrid fills
  arena,       \* gArena: a node for each cell of the level it was made for
  gCurrentGen, \* the generation
  search,      \* the search that runs
  searches,    \* number of calls
  answer,      \* history: what was asked of which map, and the path
  unseen       \* history: doors that have opened since their room was copied last

pathVars == <<world, call, lookup, grid, arena, gCurrentGen, search, searches, answer, unseen>>

RoomOf(c) == c[1] \div RoomWidth

RoomsIn(l) == {RoomOf(c) : c \in Cells[l]}

(* The player's room and those beside it. *)
Near(l) == {c \in Cells[l] : world.player.level = l /\ RoomOf(c) \in world.player.room - 1 .. world.player.room + 1}

Untouched == [generation |-> 0, g |-> Infinity, parent |-> Nothing, closed |-> FALSE]

PathInit ==
  /\ world = [seed |-> CHOOSE s \in Seeds : \A z \in Seeds : s <= z, opened |-> {},
             player |-> [level |-> CHOOSE l \in LevelIds : TRUE, room |-> 0]]
  /\ call = Nothing /\ lookup = Nothing /\ grid = Nothing /\ arena = Nothing
  /\ gCurrentGen = 0
  /\ search = Nothing /\ searches = 0
  /\ answer = Nothing
  /\ unseen = {}

(* The flags of the level as the game has them. *)
GameFlags(l) == [c \in Cells[l] |-> IF <<l, c>> \in world.opened THEN {} ELSE Collision[world.seed][l][c]]

-----------------------------------------------------------------------------
(* The world. *)

PlayerGoes(l, room) ==
  /\ room \in RoomsIn(l)
  /\ l = world.player.level => room \in {world.player.room - 1, world.player.room + 1}
  /\ world' = [world EXCEPT !.player = [level |-> l, room |-> room]]
  /\ UNCHANGED <<call, lookup, grid, arena, gCurrentGen, search, searches, answer, unseen>>

DoorOpens(l, c) ==
  /\ c \in Doors[l] \cap Near(l)
  /\ <<l, c>> \notin world.opened
  /\ world' = [world EXCEPT !.opened = @ \union {<<l, c>>}]
  /\ unseen' = unseen \union {<<l, c>>}
  /\ UNCHANGED <<call, lookup, grid, arena, gCurrentGen, search, searches, answer>>

NewGame(s) ==
  /\ s > world.seed
  /\ world' = [world EXCEPT !.seed = s, !.opened = {}]
  /\ unseen' = {}
  /\ call' = IF call = Nothing THEN Nothing ELSE [call EXCEPT !.steady = FALSE]
  /\ UNCHANGED <<lookup, grid, arena, gCurrentGen, search, searches, answer>>

-----------------------------------------------------------------------------
(* What the search reads off a grid.  Outside of it are all flags. *)

FlagsAt(flags, c) == IF c \in DOMAIN flags THEN flags[c] ELSE Flags

(* The flags of a cell and of the four so far from it. *)
CrossOf(flags, c, far) ==
  UNION {FlagsAt(flags, n) : n \in {c, <<c[1] - far, c[2]>>, <<c[1] + far, c[2]>>,
                                    <<c[1], c[2] - far>>, <<c[1], c[2] + far>>}}

IsBlocked(flags, c) == CrossOf(flags, c, 1) \cap {"Wall", "NoPlayer"} # {}

NearObstacle(flags, c) ==
  \E dx, dy \in -1..1 :
    /\ <<dx, dy>> # <<0, 0>>
    /\ CrossOf(flags, <<c[1] + dx, c[2] + dy>>, 1) \cap {"Object", "Door", "Wall"} # {}

GetPenalty(flags, c) ==
  IF CrossOf(flags, c, 2) \cap {"Wall", "NoPlayer"} # {} THEN 50
  ELSE IF "Object" \in CrossOf(flags, c, 1) THEN 60
  ELSE IF "Door" \in CrossOf(flags, c, 1) THEN 80
  ELSE IF NearObstacle(flags, c) THEN 10
  ELSE 0

(* Penalties are for walking (ReductionType::Walk). *)
Terrain(r, flags) ==
  [blocked |-> {c \in Cells[r.level] : IsBlocked(flags, c)},
   penalty |-> [c \in Cells[r.level] |-> IF r.penalties THEN GetPenalty(flags, c) ELSE 0]]

-----------------------------------------------------------------------------
(* WalkAStar: its beginning.                                               *)

(* What is left of the arena that this search can use. *)
KeptArena(l) ==
  IF arena # Nothing /\ DOMAIN arena = Cells[l] /\ gCurrentGen < MaxGen THEN arena ELSE Nothing

Abs(i, j) == IF i < j THEN j - i ELSE i - j

DiagonalShortcut(a, b) ==
  LET dx == Abs(a[1], b[1])
      dy == Abs(a[2], b[2])
  IN IF dx > dy THEN 14 * dy + 10 * (dx - dy) ELSE 14 * dx + 10 * (dy - dx)

NextGeneration == IF gCurrentGen < MaxGen THEN gCurrentGen + 1 ELSE 1

(* The search of a call begins, on the grid that is kept from now on; or   *)
(* there is no memory for its nodes, and it answers nothing.               *)
WalkStarts ==
  LET r == call.request
      new == [c \in Cells[r.level] |-> Untouched]
      kept == KeptArena(r.level)
      first == [generation |-> NextGeneration, g |-> 0, parent |-> Nothing, closed |-> FALSE]
  IN /\ call' = Nothing
     /\ gCurrentGen' = NextGeneration
     /\ \/ /\ arena' = [(IF kept = Nothing THEN new ELSE kept) EXCEPT ![r.start] = first]
           /\ search' = [request |-> r, open |-> {<<DiagonalShortcut(r.start, r.goal), r.start>>}]
           /\ answer' = [request |-> r, terrain |-> Terrain(r, GameFlags(r.level)),
                         known |-> call.steady /\ \A door \in unseen' : door[1] # r.level,
                         path |-> Nothing]
        \/ /\ kept = Nothing
           /\ arena' = IF gCurrentGen < MaxGen THEN arena ELSE Nothing
           /\ search' = Nothing
           /\ answer' = Nothing

-----------------------------------------------------------------------------
(* FindPath, before the search. *)

(* Only the level is compared. *)
FitsByLevel(l) == lookup # Nothing /\ lookup.level = l

Fits(l) == lookup # Nothing /\ lookup.level = l /\ lookup.seed = world.seed

(* The seed is read, and says if the grid that is kept will do. *)
FindPath(r) ==
  /\ call = Nothing /\ search = Nothing
  /\ searches < MaxSearches
  /\ searches' = searches + 1
  /\ call' = [request |-> r, fits |-> Fits(r.level), steady |-> TRUE]
  /\ answer' = Nothing
  /\ UNCHANGED <<world, lookup, grid, arena, gCurrentGen, search, unseen>>

(* Level::Get knows no such level. *)
NoLevel ==
  /\ call # Nothing /\ ~call.fits /\ grid = Nothing
  /\ call' = Nothing
  /\ UNCHANGED <<world, lookup, grid, arena, gCurrentGen, search, searches, answer, unseen>>

(* The old grid is gone (emplace), the new one has all flags and the seed  *)
(* as it is now.                                                           *)
BeginGrid ==
  /\ call # Nothing /\ ~call.fits /\ grid = Nothing
  /\ LET l == call.request.level IN
       grid' = [level |-> l, seed |-> world.seed, flags |-> [c \in Cells[l] |-> Flags], rooms |-> RoomsIn(l)]
  /\ lookup' = Nothing
  /\ UNCHANGED <<world, call, arena, gCurrentGen, search, searches, answer, unseen>>

Copied(l, flags, cells) == [c \in Cells[l] |-> IF c \in cells THEN GameFlags(l)[c] ELSE flags[c]]

CopyRoom ==
  /\ grid # Nothing
  /\ \E room \in grid.rooms :
       /\ \A other \in grid.rooms : room <= other
       /\ LET l == grid.level
              cells == {c \in Cells[l] : RoomOf(c) = room}
          IN /\ grid' = [grid EXCEPT !.flags = Copied(l, @, cells), !.rooms = @ \ {room}]
             /\ unseen' = unseen \ {<<l, c>> : c \in cells}
  /\ UNCHANGED <<world, call, lookup, arena, gCurrentGen, search, searches, answer>>

(* In another game the next room may not be found: the walk ends. *)
RoomIsGone ==
  /\ grid # Nothing
  /\ grid.rooms # {} /\ grid.seed # world.seed
  /\ grid' = [grid EXCEPT !.rooms = {}]
  /\ UNCHANGED <<world, call, lookup, arena, gCurrentGen, search, searches, answer, unseen>>

KeepGrid ==
  /\ grid # Nothing
  /\ grid.rooms = {}
  /\ lookup' = [level |-> grid.level, seed |-> grid.seed, flags |-> grid.flags]
  /\ grid' = Nothing
  /\ UNCHANGED unseen
  /\ WalkStarts
  /\ UNCHANGED <<world, searches>>

(* RefreshRoomsNearPlayer: all of them, or none when there is no player. *)
Refresh ==
  /\ call # Nothing /\ call.fits
  /\ LET l == call.request.level IN
       \E cells \in {Near(l), {}} :
         /\ lookup' = [lookup EXCEPT !.flags = Copied(l, @, cells)]
         /\ unseen' = unseen \ {<<l, c>> : c \in cells}
  /\ WalkStarts
  /\ UNCHANGED <<world, grid, searches>>

-----------------------------------------------------------------------------
(* WalkAStar: the search. *)

(* Touch: a node of an earlier search is as good as new. *)
Touch(c) ==
  IF arena[c].generation = gCurrentGen THEN arena[c]
  ELSE [Untouched EXCEPT !.generation = gCurrentGen]

Neighbours(l, c) == {n \in Cells[l] : n # c /\ Abs(n[1], c[1]) <= 1 /\ Abs(n[2], c[2]) <= 1}

StepCost(c, n, terrain) == (IF n[1] # c[1] /\ n[2] # c[2] THEN 14 ELSE 10) + terrain.penalty[n]

Ends(path) == search' = Nothing /\ answer' = [answer EXCEPT !.path = path]

WithParent(path) ==
  LET parent == arena[Head(path)].parent
  IN IF parent = Nothing THEN path ELSE <<parent>> \o path

(* The parents back from a cell: not more of them than there are cells. *)
Chain(last) ==
  LET back[k \in 0..Cardinality(DOMAIN arena)] == IF k = 0 THEN <<last>> ELSE WithParent(back[k - 1])
  IN back[Cardinality(DOMAIN arena)]

(* On from the cell of the best entry to its neighbours. *)
Relax(entry) ==
  LET r == search.request
      c == entry[2]
      terrain == Terrain(r, lookup.flags)
      through == [n \in Neighbours(r.level, c) |-> Touch(c).g + StepCost(c, n, terrain)]
      nearer == {n \in DOMAIN through :
                   /\ n = r.goal \/ n \notin terrain.blocked
                   /\ ~Touch(n).closed
                   /\ through[n] < Touch(n).g}
  IN /\ arena' = [n \in DOMAIN arena |->
           IF n = c THEN [Touch(c) EXCEPT !.closed = TRUE]
           ELSE IF n \in nearer
             THEN [generation |-> gCurrentGen, g |-> through[n], parent |-> c, closed |-> FALSE]
             ELSE arena[n]]
     /\ search' = [search EXCEPT !.open = (@ \ {entry}) \union
                     {<<through[n] + DiagonalShortcut(n, r.goal), n>> : n \in nearer}]
     /\ UNCHANGED answer

Expand ==
  /\ search # Nothing
  /\ \E entry \in search.open :
       LET c == entry[2] IN
       /\ \A other \in search.open : entry[1] <= other[1]
       /\ \/ /\ Touch(c).closed
             /\ search' = [search EXCEPT !.open = @ \ {entry}]
             /\ UNCHANGED <<arena, answer>>
          \/ /\ ~Touch(c).closed /\ c = search.request.goal
             /\ Ends(Chain(c))
             /\ UNCHANGED arena
          \/ /\ ~Touch(c).closed /\ c # search.request.goal
             /\ Relax(entry)
  /\ UNCHANGED <<world, call, lookup, grid, gCurrentGen, searches, unseen>>

NoPath ==
  /\ search # Nothing /\ search.open = {}
  /\ Ends(<<>>)
  /\ UNCHANGED <<world, call, lookup, grid, arena, gCurrentGen, searches, unseen>>

PathNext ==
  \/ \E l \in LevelIds : \E room \in RoomsIn(l) : PlayerGoes(l, room)
  \/ \E l \in LevelIds : \E c \in Doors[l] : DoorOpens(l, c)
  \/ \E s \in Seeds : NewGame(s)
  \/ \E r \in Requests : FindPath(r)
  \/ NoLevel \/ BeginGrid \/ CopyRoom \/ RoomIsGone \/ KeepGrid \/ Refresh
  \/ Expand
  \/ NoPath

PathSpec == PathInit /\ [][PathNext]_pathVars

-----------------------------------------------------------------------------
(* The reference.  A way is the cell it ends at and what it costs.         *)
MayEnter(r, terrain, c) == c = r.goal \/ c \notin terrain.blocked

Onward(ways, r, terrain) ==
  ways \union UNION {{<<n, way[2] + StepCost(way[1], n, terrain)>> :
                        n \in {m \in Neighbours(r.level, way[1]) : MayEnter(r, terrain, m)}} : way \in ways}

CostsAt(ways, c) == {way[2] : way \in {w \in ways : w[1] = c}}

CheapestOf(ways) == {<<c, Min(CostsAt(ways, c))>> : c \in {way[1] : way \in ways}}

(* The cells that ways of at most so many steps reach, and what the        *)
(* cheapest of them costs.                                                 *)
Ways(r, terrain) ==
  LET upTo[k \in 0..Cardinality(Cells[r.level])] ==
        IF k = 0 THEN {<<r.start, 0>>} ELSE CheapestOf(Onward(upTo[k - 1], r, terrain))
  IN upTo[Cardinality(Cells[r.level])]

Cheapest(r, terrain) == CostsAt(Ways(r, terrain), r.goal)

CostOf(path, terrain) ==
  LET cost[i \in 1..Len(path)] == IF i = 1 THEN 0 ELSE cost[i - 1] + StepCost(path[i - 1], path[i], terrain)
  IN cost[Len(path)]

IsWay(path, r, terrain) ==
  /\ path[1] = r.start /\ path[Len(path)] = r.goal
  /\ \A i \in 2..Len(path) :
       /\ path[i] \in Neighbours(r.level, path[i - 1])
       /\ MayEnter(r, terrain, path[i])

(***************************************************************************)
(* The path that getPath answers is a way on the map as the game had it    *)
(* when the search began, and no way costs less; and there is no way if it *)
(* answers none.  So neither the grid nor the nodes kept from an earlier   *)
(* search, of another level, another game or 2^32 searches ago, show in    *)
(* the answer, nor what the game does while a grid is built.  Left out are *)
(* calls during which the game was left for another, and levels with a     *)
(* door that has opened since its room was copied: while the grid was      *)
(* built, or near a player who left before the next search, which is what  *)
(* RefreshRoomsNearPlayer does not see.                                    *)
(***************************************************************************)
PathIsShortest ==
  answer # Nothing /\ answer.path # Nothing /\ answer.known =>
    LET r == answer.request
        cheapest == Cheapest(r, answer.terrain)
    IN IF answer.path = <<>> THEN cheapest = {}
       ELSE IsWay(answer.path, r, answer.terrain) /\ cheapest = {CostOf(answer.path, answer.terrain)}
=============================================================================
