------------------------------- MODULE RoomData -------------------------------
(***************************************************************************)
(* RoomDataGuard (src/src/backends/lod114d/game/RoomData.h): scopes that   *)
(* keep the data of a room loaded while a script reads it.                 *)
(*                                                                         *)
(* A guard is the scope of one call; which thread it belongs to makes no   *)
(* difference to the records, so guards of all threads are told apart by   *)
(* name only and end in any order.  Construction and destruction run under *)
(* mutex_ and are single steps.  The game (external) loads and unloads     *)
(* rooms in its frame, under the write lock, and so while no guard, which  *)
(* holds the read lock, is alive (GameLock); adding the data of a room may *)
(* fail.                                                                   *)
(***************************************************************************)
EXTENDS Naturals, FiniteSets

CONSTANTS
  Guards,  \* the scopes that may be open at once
  Rooms,   \* the rooms
  NoGuard  \* the scope is not open

ASSUME RoomAssumption == IsFiniteSet(Guards) /\ NoGuard \notin [room : Rooms, counted : BOOLEAN, found : BOOLEAN]

VARIABLES
  guard,     \* RoomDataGuard: its room, whether drlgRoom_ is set, and whether pRoom was there
  recorded,  \* addedRooms_: the rooms with a record
  guards,    \* AddedRoom::guards of each room
  loaded,    \* the rooms whose pRoom is not null
  byGame     \* history: the rooms the game has loaded itself

roomVars == <<guard, recorded, guards, loaded, byGame>>

RoomInit ==
  /\ guard = [g \in Guards |-> NoGuard]
  /\ recorded = {} /\ guards = [r \in Rooms |-> 0]
  /\ byGame \in SUBSET Rooms /\ loaded = byGame

-----------------------------------------------------------------------------
Scope(r, counted, found) == [room |-> r, counted |-> counted, found |-> found]

Opens(g, scope) == guard' = [guard EXCEPT ![g] = scope]

(* A record exists: one more guard on it. *)
JoinRecord(g, r) ==
  /\ r \in recorded
  /\ guards' = [guards EXCEPT ![r] = @ + 1]
  /\ Opens(g, Scope(r, TRUE, r \in loaded))
  /\ UNCHANGED <<recorded, loaded, byGame>>

(* The game's own data is left alone. *)
FindLoaded(g, r) ==
  /\ r \notin recorded /\ r \in loaded
  /\ Opens(g, Scope(r, FALSE, TRUE))
  /\ UNCHANGED <<recorded, guards, loaded, byGame>>

(* DUNGEON_SetClientIsInSight, and a new record. *)
AddRoomData(g, r) ==
  /\ r \notin recorded /\ r \notin loaded
  /\ recorded' = recorded \union {r}
  /\ guards' = [guards EXCEPT ![r] = 1]
  /\ \E found \in BOOLEAN :
       /\ loaded' = IF found THEN loaded \union {r} ELSE loaded
       /\ Opens(g, Scope(r, TRUE, found))
  /\ UNCHANGED byGame

(* (Data that is there is never asked for its record.) *)
OpenTrustingData(g) ==
  /\ guard[g] = NoGuard
  /\ \E r \in Rooms :
       \/ /\ r \in loaded /\ Opens(g, Scope(r, FALSE, TRUE))
          /\ UNCHANGED <<recorded, guards, loaded, byGame>>
       \/ AddRoomData(g, r)

(* The constructor *)
Open(g) ==
  /\ guard[g] = NoGuard
  /\ \E r \in Rooms : JoinRecord(g, r) \/ FindLoaded(g, r) \/ AddRoomData(g, r)

(* (One that forgets its record with the data still there.) *)
CloseKeepingData(g) ==
  /\ guard[g] # NoGuard
  /\ guard' = [guard EXCEPT ![g] = NoGuard]
  /\ IF ~guard[g].counted THEN UNCHANGED <<recorded, guards>>
     ELSE LET r == guard[g].room IN
       /\ guards' = [guards EXCEPT ![r] = @ - 1]
       /\ recorded' = IF guards[r] = 1 THEN recorded \ {r} ELSE recorded
  /\ UNCHANGED <<loaded, byGame>>

(* The destructor: the last one out removes the data and the record. *)
Close(g) ==
  /\ guard[g] # NoGuard
  /\ guard' = [guard EXCEPT ![g] = NoGuard]
  /\ IF ~guard[g].counted THEN UNCHANGED <<recorded, guards, loaded>>
     ELSE LET r == guard[g].room IN
       /\ guards' = [guards EXCEPT ![r] = @ - 1]
       /\ IF guards[r] = 1
          THEN recorded' = recorded \ {r} /\ loaded' = loaded \ {r}
          ELSE UNCHANGED <<recorded, loaded>>
  /\ UNCHANGED byGame

(* The game's frame. *)
GameFrame ==
  /\ \A g \in Guards : guard[g] = NoGuard
  /\ \E r \in Rooms :
       \/ loaded' = loaded \union {r} /\ byGame' = byGame \union {r}
       \/ loaded' = loaded \ {r} /\ byGame' = byGame \ {r}
  /\ UNCHANGED <<guard, recorded, guards>>

RoomNext ==
  \/ \E g \in Guards : Open(g) \/ Close(g)
  \/ GameFrame

RoomSpec == RoomInit /\ [][RoomNext]_roomVars

-----------------------------------------------------------------------------
(***************************************************************************)
(* RoomData.h:15-20: a room whose data was there when a guard was made     *)
(* stays loaded as long as that guard lives, whichever guard added it and  *)
(* whoever leaves first.                                                   *)
(***************************************************************************)
RoomsAreKept ==
  \A g \in Guards :
    guard[g] # NoGuard => (guard[g].found => guard[g].room \in loaded)

(***************************************************************************)
(* RoomData.h:18-20: the guards never remove what the game loaded, and     *)
(* when the last one has gone, what they added is unloaded again.          *)
(***************************************************************************)
GameKeepsItsRooms ==
  /\ byGame \subseteq loaded
  /\ (\A g \in Guards : guard[g] = NoGuard) => loaded = byGame /\ recorded = {}
=============================================================================
