--------------------------- MODULE ServiceProofs ----------------------------
(***************************************************************************)
(* Proofs about what the scripts and the loop call: RoomData, for any      *)
(* rooms and any finite set of guards; Database, for any number of         *)
(* databases, statements and views and results of any length; Speedhack,   *)
(* for any threads and any speeds; and the two sides of a profile, the     *)
(* scripts that follow the active one (SessionScripts), for any profiles,  *)
(* sessions and switches, and the file that keeps them all (IniStore), for *)
(* any writers, profiles, keys and attempts.                               *)
(*                                                                         *)
(* Rooms.  The inductive invariant counts: the number in a record is that  *)
(* of the open guards that hold a reference to it, so the last one out is  *)
(* the only one left, and a room that the game loaded never has a record.  *)
(*                                                                         *)
(* Databases.  A statement is in a list only while it is live, and then    *)
(* its parentObject is the database of that list, so that a collection     *)
(* that keeps what is reachable keeps the database; whoever finalizes a    *)
(* statement first takes it off the list.  And whatever moves a statement  *)
(* off a row either says there is none, or empties the cached row, or has  *)
(* just failed.                                                            *)
(*                                                                         *)
(* The clock.  Virtual time is monotone in real time, a change of the      *)
(* speed goes on from where virtual time is by the coarse clock, and a     *)
(* read that no change meets is a reading of it, by the coarse clock or by *)
(* one that is a tick ahead at most.  What is told is not after virtual    *)
(* time, but for what a tick is worth at the highest speed and what the    *)
(* first difference of file times loses as a double (Lapse).               *)
(*                                                                         *)
(* The session.  The invariant relates what is read at different moments:  *)
(* the game's session, what the last tick saw, and what the tick in        *)
(* progress has read so far.                                               *)
(*                                                                         *)
(* The file.  A section of a temporary file is whole but for the keys its  *)
(* writer has yet to write, whoever owns the mutex; and as long as no wait *)
(* timed out, whoever has copied the file owns the mutex, so that the copy *)
(* is the file but for its own section.                                    *)
(***************************************************************************)
EXTENDS RoomData, Database, Speedhack, SessionScripts, IniStore, FiniteSetTheorems, TLAPS

(* RoomData *)

Scopes == [room : Rooms, counted : BOOLEAN, found : BOOLEAN]

RoomTypeOK ==
  /\ guard \in [Guards -> Scopes \union {NoGuard}]
  /\ recorded \in SUBSET Rooms
  /\ guards \in [Rooms -> Nat]
  /\ loaded \in SUBSET Rooms
  /\ byGame \in SUBSET Rooms

(* The open guards that hold a reference to the record of r. *)
Holders(r) == {g \in Guards : guard[g] # NoGuard /\ guard[g].counted /\ guard[g].room = r}

Counted ==
  \A r \in Rooms :
    /\ guards[r] = Cardinality(Holders(r))
    /\ r \in recorded <=> Holders(r) # {}

RoomsKept ==
  \A g \in Guards :
    guard[g] # NoGuard =>
      /\ guard[g].found => guard[g].room \in loaded
      /\ ~guard[g].counted => guard[g].room \in loaded \ recorded

Owned ==
  /\ byGame \subseteq loaded \ recorded
  /\ loaded \subseteq byGame \union recorded

RoomInv == RoomTypeOK /\ Counted /\ RoomsKept /\ Owned

-----------------------------------------------------------------------------
LEMMA HoldersFinite ==
  ASSUME NEW r
  PROVE  IsFiniteSet(Holders(r)) /\ IsFiniteSet(Holders(r)')
<1>1. Holders(r) \subseteq Guards /\ Holders(r)' \subseteq Guards
  BY DEF Holders
<1> QED
  BY <1>1, RoomAssumption, FS_Subset

(* A guard that opens with a reference is one more holder. *)
LEMMA OneMore ==
  ASSUME RoomTypeOK, NEW g \in Guards, NEW r \in Rooms, guard[g] = NoGuard,
         NEW s \in Scopes, s.counted, s.room = r, Opens(g, s)
  PROVE  /\ Cardinality(Holders(r)') = Cardinality(Holders(r)) + 1
         /\ Holders(r)' = Holders(r) \union {g}
         /\ \A q \in Rooms \ {r} : Holders(q)' = Holders(q)
<1>1. s # NoGuard
  BY RoomAssumption DEF Scopes
<1>2. Holders(r)' = Holders(r) \union {g}
  BY <1>1 DEF Holders, Opens, RoomTypeOK
<1>3. g \notin Holders(r)
  BY DEF Holders
<1>4. \A q \in Rooms \ {r} : Holders(q)' = Holders(q)
  BY <1>1 DEF Holders, Opens, RoomTypeOK
<1> QED
  BY <1>2, <1>3, <1>4, HoldersFinite, FS_AddElement

(* A guard that closes is one holder less. *)
LEMMA OneLess ==
  ASSUME RoomTypeOK, NEW g \in Guards, guard[g] # NoGuard, guard[g].counted,
         NEW r \in Rooms, guard[g].room = r,
         guard' = [guard EXCEPT ![g] = NoGuard]
  PROVE  /\ Cardinality(Holders(r)') = Cardinality(Holders(r)) - 1
         /\ Holders(r)' = Holders(r) \ {g}
         /\ \A q \in Rooms \ {r} : Holders(q)' = Holders(q)
<1>1. Holders(r)' = Holders(r) \ {g}
  BY DEF Holders, RoomTypeOK
<1>2. g \in Holders(r)
  BY DEF Holders
<1>3. \A q \in Rooms \ {r} : Holders(q)' = Holders(q)
  BY DEF Holders, RoomTypeOK
<1> QED
  BY <1>1, <1>2, <1>3, HoldersFinite, FS_RemoveElement

LEMMA HoldersUnchanged ==
  ASSUME RoomTypeOK, NEW g \in Guards, NEW v \in Scopes \union {NoGuard},
         guard[g] = NoGuard \/ ~guard[g].counted, v = NoGuard \/ ~v.counted,
         guard' = [guard EXCEPT ![g] = v]
  PROVE  \A q \in Rooms : Holders(q)' = Holders(q)
BY DEF Holders, RoomTypeOK

LEMMA TypesStep ==
  ASSUME RoomInv, [RoomNext]_roomVars
  PROVE  RoomTypeOK'
<1> USE DEF RoomInv, RoomTypeOK
<1>1. ASSUME NEW g \in Guards, Open(g)
      PROVE  RoomTypeOK'
  <2>1. ASSUME NEW r \in Rooms, JoinRecord(g, r)
        PROVE  RoomTypeOK'
    <3>1. Scope(r, TRUE, r \in loaded) \in Scopes
      BY DEF Scope, Scopes
    <3>2. guards' \in [Rooms -> Nat]
      BY <2>1 DEF JoinRecord
    <3> QED
      BY <2>1, <3>1, <3>2 DEF JoinRecord, Opens
  <2>2. ASSUME NEW r \in Rooms, FindLoaded(g, r)
        PROVE  RoomTypeOK'
    <3>1. Scope(r, FALSE, TRUE) \in Scopes
      BY DEF Scope, Scopes
    <3> QED
      BY <2>2, <3>1 DEF FindLoaded, Opens
  <2>3. ASSUME NEW r \in Rooms, AddRoomData(g, r)
        PROVE  RoomTypeOK'
    <3>1. \A found \in BOOLEAN : Scope(r, TRUE, found) \in Scopes
      BY DEF Scope, Scopes
    <3> QED
      BY <2>3, <3>1 DEF AddRoomData, Opens
  <2> QED
    BY <1>1, <2>1, <2>2, <2>3 DEF Open
<1>2. ASSUME NEW g \in Guards, Close(g)
      PROVE  RoomTypeOK'
  <2>1. guard' \in [Guards -> Scopes \union {NoGuard}]
    BY <1>2 DEF Close
  <2>2. CASE ~guard[g].counted
    BY <1>2, <2>1, <2>2 DEF Close
  <2>3. CASE guard[g].counted
    <3>1. guard[g].room \in Rooms
      BY <1>2 DEF Close, Scopes
    <3>2. guards[guard[g].room] # 0
      <4>1. g \in Holders(guard[g].room)
        BY <1>2, <2>3 DEF Close, Holders
      <4> QED
        BY <3>1, <4>1, HoldersFinite, FS_EmptySet DEF Counted
    <3>3. guards' \in [Rooms -> Nat]
      BY <1>2, <2>3, <3>1, <3>2 DEF Close
    <3> QED
      BY <1>2, <2>1, <2>3, <3>3 DEF Close
  <2> QED
    BY <2>2, <2>3
<1>3. CASE GameFrame
  BY <1>3 DEF GameFrame
<1>4. CASE UNCHANGED roomVars
  BY <1>4 DEF roomVars
<1> QED
  BY <1>1, <1>2, <1>3, <1>4 DEF RoomNext

LEMMA OpenStep ==
  ASSUME RoomInv, RoomTypeOK', NEW g \in Guards, Open(g)
  PROVE  Counted' /\ RoomsKept' /\ Owned'
<1> USE DEF RoomInv
<1>0. guard[g] = NoGuard
  BY DEF Open
<1>1. ASSUME NEW r \in Rooms, JoinRecord(g, r)
      PROVE  Counted' /\ RoomsKept' /\ Owned'
  <2> DEFINE s == Scope(r, TRUE, r \in loaded)
  <2>1. s \in Scopes /\ s.counted /\ s.room = r /\ s.found = (r \in loaded)
    BY DEF Scope, Scopes
  <2>2. Opens(g, s)
    BY <1>1 DEF JoinRecord
  <2> HIDE DEF s
  <2>3. /\ Cardinality(Holders(r)') = Cardinality(Holders(r)) + 1
        /\ Holders(r)' = Holders(r) \union {g}
        /\ \A q \in Rooms \ {r} : Holders(q)' = Holders(q)
    BY <1>0, <2>1, <2>2, OneMore
  <2>4. Counted'
    BY <1>1, <2>3 DEF Counted, JoinRecord, RoomTypeOK
  <2>5. RoomsKept'
    BY <1>1, <2>1, <2>2 DEF RoomsKept, JoinRecord, Opens, RoomTypeOK
  <2>6. Owned'
    BY <1>1 DEF Owned, JoinRecord
  <2> QED
    BY <2>4, <2>5, <2>6
<1>2. ASSUME NEW r \in Rooms, FindLoaded(g, r)
      PROVE  Counted' /\ RoomsKept' /\ Owned'
  <2> DEFINE s == Scope(r, FALSE, TRUE)
  <2>1. s \in Scopes /\ ~s.counted /\ s.room = r
    BY DEF Scope, Scopes
  <2>2. Opens(g, s)
    BY <1>2 DEF FindLoaded
  <2> HIDE DEF s
  <2>3. \A q \in Rooms : Holders(q)' = Holders(q)
    BY <1>0, <2>1, <2>2, HoldersUnchanged DEF Opens
  <2>4. Counted'
    BY <1>2, <2>3 DEF Counted, FindLoaded
  <2>5. RoomsKept'
    BY <1>2, <2>1, <2>2 DEF RoomsKept, FindLoaded, Opens, RoomTypeOK
  <2>6. Owned'
    BY <1>2 DEF Owned, FindLoaded
  <2> QED
    BY <2>4, <2>5, <2>6
<1>3. ASSUME NEW r \in Rooms, AddRoomData(g, r)
      PROVE  Counted' /\ RoomsKept' /\ Owned'
  <2>1. PICK found \in BOOLEAN :
          /\ loaded' = IF found THEN loaded \union {r} ELSE loaded
          /\ Opens(g, Scope(r, TRUE, found))
    BY <1>3 DEF AddRoomData
  <2> DEFINE s == Scope(r, TRUE, found)
  <2>2. s \in Scopes /\ s.counted /\ s.room = r /\ s.found = found
    BY DEF Scope, Scopes
  <2>3. Opens(g, s)
    BY <2>1
  <2> HIDE DEF s
  <2>4. /\ Cardinality(Holders(r)') = Cardinality(Holders(r)) + 1
        /\ Holders(r)' = Holders(r) \union {g}
        /\ \A q \in Rooms \ {r} : Holders(q)' = Holders(q)
    BY <1>0, <2>2, <2>3, OneMore
  <2>5. Cardinality(Holders(r)) = 0
    BY <1>3, FS_EmptySet DEF Counted, AddRoomData
  <2>6. Counted'
    <3>1. /\ recorded' = recorded \union {r} /\ guards' = [guards EXCEPT ![r] = 1] /\ guards \in [Rooms -> Nat]
      BY <1>3 DEF AddRoomData, RoomTypeOK
    <3>2. guards'[r] = Cardinality(Holders(r)') /\ r \in recorded' /\ Holders(r)' # {}
      BY <2>4, <2>5, <3>1
    <3>3. ASSUME NEW q \in Rooms \ {r}
          PROVE  guards'[q] = Cardinality(Holders(q)') /\ (q \in recorded' <=> Holders(q)' # {})
      <4>1. guards'[q] = guards[q] /\ (q \in recorded' <=> q \in recorded) /\ Holders(q)' = Holders(q)
        BY <2>4, <3>1
      <4> QED
        BY <4>1 DEF Counted
    <3> QED
      BY <3>2, <3>3 DEF Counted
  <2>7. RoomsKept'
    BY <1>3, <2>1, <2>2, <2>3 DEF RoomsKept, AddRoomData, Opens, RoomTypeOK
  <2>8. Owned'
    BY <1>3, <2>1 DEF Owned, AddRoomData
  <2> QED
    BY <2>6, <2>7, <2>8
<1> QED
  BY <1>1, <1>2, <1>3 DEF Open

LEMMA CloseStep ==
  ASSUME RoomInv, RoomTypeOK', NEW g \in Guards, Close(g)
  PROVE  Counted' /\ RoomsKept' /\ Owned'
<1> USE DEF RoomInv
<1>1. guard[g] # NoGuard /\ guard' = [guard EXCEPT ![g] = NoGuard]
  BY DEF Close
<1>2. CASE ~guard[g].counted
  <2>1. \A q \in Rooms : Holders(q)' = Holders(q)
    BY <1>1, <1>2, HoldersUnchanged
  <2>2. UNCHANGED <<recorded, guards, loaded, byGame>>
    BY <1>2 DEF Close
  <2> QED
    BY <1>1, <2>1, <2>2 DEF Counted, RoomsKept, Owned, RoomTypeOK
<1>3. CASE guard[g].counted
  <2>1. PICK r \in Rooms : guard[g].room = r
    BY <1>1 DEF RoomTypeOK, Scopes
  <2>2. /\ Cardinality(Holders(r)') = Cardinality(Holders(r)) - 1
        /\ Holders(r)' = Holders(r) \ {g}
        /\ \A q \in Rooms \ {r} : Holders(q)' = Holders(q)
    BY <1>1, <1>3, <2>1, OneLess
  <2>3. guards' = [guards EXCEPT ![r] = @ - 1] /\ UNCHANGED byGame
    BY <1>3, <2>1 DEF Close
  <2>4. g \in Holders(r)
    BY <1>1, <1>3, <2>1 DEF Holders
  <2>5. CASE guards[r] = 1
    <3>1. recorded' = recorded \ {r} /\ loaded' = loaded \ {r}
      BY <1>3, <2>1, <2>5 DEF Close
    <3>2. Holders(r)' = {}
      <4>1. Cardinality(Holders(r)') = 0 /\ IsFiniteSet(Holders(r)')
        BY <2>1, <2>2, <2>5, HoldersFinite DEF Counted
      <4> QED
        BY <4>1, FS_EmptySet
    <3>3. Counted'
      BY <2>1, <2>2, <2>3, <3>1, <3>2 DEF Counted, RoomTypeOK
    <3>4. r \in recorded
      BY <2>1, <2>4 DEF Counted
    <3>5. \A h \in Guards : guard'[h] # NoGuard => guard'[h] = guard[h] /\ guard[h].room # r
      <4>1. \A h \in Guards : guard'[h] # NoGuard => guard'[h] = guard[h] /\ guard[h] # NoGuard
        BY <1>1 DEF RoomTypeOK
      <4>2. \A h \in Guards : guard'[h] # NoGuard /\ guard[h].counted => guard[h].room # r
        BY <3>2, <4>1 DEF Holders
      <4>3. \A h \in Guards : guard'[h] # NoGuard /\ ~guard[h].counted => guard[h].room # r
        BY <3>4, <4>1 DEF RoomsKept
      <4> QED
        BY <4>1, <4>2, <4>3
    <3>6. RoomsKept'
      BY <3>1, <3>5 DEF RoomsKept
    <3>7. Owned'
      BY <2>3, <3>1, <3>4 DEF Owned
    <3> QED
      BY <3>3, <3>6, <3>7
  <2>6. CASE guards[r] # 1
    <3>1. UNCHANGED <<recorded, loaded>>
      BY <1>3, <2>1, <2>6 DEF Close
    <3>2. Holders(r)' # {}
      <4>1. Cardinality(Holders(r)) = guards[r] /\ guards[r] \in Nat
        BY <2>1 DEF Counted, RoomTypeOK
      <4>2. Cardinality(Holders(r)') # 0
        BY <2>2, <2>6, <4>1
      <4> QED
        BY <4>2, FS_EmptySet
    <3>3. Counted'
      BY <2>1, <2>2, <2>3, <2>4, <3>1, <3>2 DEF Counted, RoomTypeOK
    <3> QED
      BY <1>1, <2>3, <3>1, <3>3 DEF RoomsKept, Owned, RoomTypeOK
  <2> QED
    BY <2>5, <2>6
<1> QED
  BY <1>2, <1>3

LEMMA NoGuardNoRecord ==
  ASSUME RoomInv, \A g \in Guards : guard[g] = NoGuard
  PROVE  recorded = {} /\ \A r \in Rooms : Holders(r) = {}
<1>1. \A r \in Rooms : Holders(r) = {}
  BY DEF Holders
<1> QED
  BY <1>1 DEF RoomInv, RoomTypeOK, Counted

LEMMA RoomInvStep ==
  ASSUME RoomInv, [RoomNext]_roomVars
  PROVE  RoomInv'
<1>1. RoomTypeOK'
  BY TypesStep
<1>2. ASSUME NEW g \in Guards, Open(g)
      PROVE  RoomInv'
  BY <1>1, <1>2, OpenStep DEF RoomInv
<1>3. ASSUME NEW g \in Guards, Close(g)
      PROVE  RoomInv'
  BY <1>1, <1>3, CloseStep DEF RoomInv
<1>4. CASE GameFrame
  <2>1. recorded' = {} /\ guards' = guards /\ guard' = guard
    BY <1>4, NoGuardNoRecord DEF GameFrame
  <2>2. Counted'
    BY <2>1, <1>4 DEF RoomInv, Counted, Holders, GameFrame
  <2>3. RoomsKept'
    BY <2>1, <1>4 DEF GameFrame, RoomsKept
  <2>4. Owned'
    BY <2>1, <1>4, NoGuardNoRecord DEF GameFrame, RoomInv, Owned
  <2> QED
    BY <1>1, <2>2, <2>3, <2>4 DEF RoomInv
<1>5. CASE UNCHANGED roomVars
  BY <1>1, <1>5 DEF roomVars, RoomInv, Counted, RoomsKept, Owned, Holders
<1> QED
  BY <1>2, <1>3, <1>4, <1>5 DEF RoomNext

LEMMA RoomInvInit == RoomInit => RoomInv
<1> SUFFICES ASSUME RoomInit PROVE RoomInv
  OBVIOUS
<1>1. \A r \in Rooms : Holders(r) = {}
  BY DEF RoomInit, Holders
<1> QED
  BY <1>1, FS_EmptySet DEF RoomInit, RoomInv, RoomTypeOK, Counted, RoomsKept, Owned

LEMMA RoomInvHolds == RoomSpec => []RoomInv
BY RoomInvInit, RoomInvStep, PTL DEF RoomSpec

-----------------------------------------------------------------------------
(***************************************************************************)
(* RoomData.h:15-20: for any number of guards on any rooms, data a guard   *)
(* found is there until that guard is gone.                                *)
(***************************************************************************)
THEOREM RoomsAreKeptHolds == RoomSpec => []RoomsAreKept
<1>1. RoomInv => RoomsAreKept
  BY DEF RoomInv, RoomsKept, RoomsAreKept
<1> QED
  BY <1>1, RoomInvHolds, PTL

(***************************************************************************)
(* RoomData.h:20-21: data the game loaded itself is never removed, and     *)
(* without guards nothing is loaded but that.                              *)
(***************************************************************************)
THEOREM GameKeepsItsRoomsHolds == RoomSpec => []GameKeepsItsRooms
<1>1. ASSUME RoomInv PROVE GameKeepsItsRooms
  <2>1. byGame \subseteq loaded
    BY <1>1 DEF RoomInv, Owned
  <2>2. ASSUME \A g \in Guards : guard[g] = NoGuard
        PROVE  loaded = byGame /\ recorded = {}
    BY <1>1, <2>2, NoGuardNoRecord DEF RoomInv, Owned
  <2> QED
    BY <2>1, <2>2 DEF GameKeepsItsRooms
<1> QED
  BY <1>1, RoomInvHolds, PTL

-----------------------------------------------------------------------------
(* Database *)

LifeTypeOK ==
  /\ cell \in [Objects -> {"free", "live", "dead"}]
  /\ held \subseteq Objects
  /\ listing \subseteq Statements
  /\ isOpen \in [Databases \union Statements -> BOOLEAN]
  /\ statements \in [Databases -> SUBSET Statements]
  /\ parent \in [Statements -> Databases \union {Null}]
  /\ parentObject \in [Statements -> Databases \union {Null}]
  /\ native \in [Views -> Statements \union {Null}]
  /\ ownerKey \in [Views -> Statements \union {Null}]

(* A list holds statements whose parent is its database. *)
ListedInv == \A d \in Databases : \A s \in statements[d] : parent[s] = d

(* A statement with a parent is live and refers to the wrapper of that parent. *)
ParentInv == \A s \in Statements : parent[s] # Null => cell[s] = "live" /\ parentObject[s] = parent[s]

(* What a live statement, a live view or the script refers to is live. *)
AnchorInv ==
  \A s \in Statements : (cell[s] = "live" /\ parentObject[s] # Null) => cell[parentObject[s]] = "live"

ViewInv ==
  \A v \in Views : cell[v] = "live" =>
    ownerKey[v] = native[v] /\ native[v] \in Statements /\ cell[native[v]] = "live"

HeldInv == \A x \in held \union listing : cell[x] = "live"

LifeInv == LifeTypeOK /\ ListedInv /\ ParentInv /\ AnchorInv /\ ViewInv /\ HeldInv

RowTypeOK ==
  /\ hasRow \in [Statements -> BOOLEAN]
  /\ cachedRow \in [Statements -> Nat \union {Null}]
  /\ row \in [Statements -> Nat]

(* A closed statement stands on no row. *)
ClosedInv == \A s \in Statements : ~isOpen[s] => ~hasRow[s] /\ row[s] = 0

RowInv == RowTypeOK /\ ClosedInv /\ RowIsCurrent

-----------------------------------------------------------------------------
LEMMA Apart ==
  /\ Null \notin Databases /\ Null \notin Statements /\ Null \notin Views /\ Null \notin Nat
  /\ \A d \in Databases : d \notin Statements /\ d \notin Views
  /\ \A s \in Statements : s \notin Views
BY DatabaseAssumption DEF Objects

(* Every object in a list is live, and so is its database. *)
LEMMA ListedIsLive ==
  ASSUME LifeInv, NEW d \in Databases, NEW s \in Statements, s \in statements[d] \/ parent[s] = d
  PROVE  cell[s] = "live" /\ cell[d] = "live" /\ parent[s] = d /\ parentObject[s] = d
BY Apart DEF LifeInv, LifeTypeOK, ListedInv, ParentInv, AnchorInv

LEMMA LifeInvInit == DatabaseInit => LifeInv
BY Apart DEF DatabaseInit, LifeInv, LifeTypeOK, ListedInv, ParentInv, AnchorInv, ViewInv, HeldInv, Objects

(* Finalize keeps the shape of the links. *)
LEMMA FinalizeLinks ==
  ASSUME LifeInv, NEW S \in SUBSET Statements, Finalize(S)
  PROVE  /\ isOpen' \in [Databases \union Statements -> BOOLEAN]
         /\ parent' \in [Statements -> Databases \union {Null}]
         /\ statements' \in [Databases -> SUBSET Statements]
         /\ ListedInv'
         /\ \A s \in Statements : parent'[s] = IF s \in S THEN Null ELSE parent[s]
<1> USE DEF LifeInv, LifeTypeOK, Finalize, Shut, Orphaned, Unlisted
<1>1. /\ isOpen' \in [Databases \union Statements -> BOOLEAN]
      /\ parent' \in [Statements -> Databases \union {Null}]
      /\ statements' \in [Databases -> SUBSET Statements]
  OBVIOUS
<1>2. \A s \in Statements : parent'[s] = IF s \in S THEN Null ELSE parent[s]
  OBVIOUS
<1>3. ASSUME NEW d \in Databases, NEW s \in statements'[d]
      PROVE  parent'[s] = d
  <2>1. s \in Statements /\ s \in statements[d] /\ ~(s \in S /\ parent[s] = d)
    OBVIOUS
  <2> QED
    BY <1>2, <2>1 DEF ListedInv
<1> QED
  BY <1>1, <1>2, <1>3 DEF ListedInv

LEMMA DetachLinks ==
  ASSUME LifeInv, NEW d \in Databases, Detach(d)
  PROVE  /\ isOpen' \in [Databases \union Statements -> BOOLEAN]
         /\ parent' \in [Statements -> Databases \union {Null}]
         /\ statements' \in [Databases -> SUBSET Statements]
         /\ ListedInv'
         /\ \A s \in Statements : parent'[s] \in {Null, parent[s]}
<1> USE DEF LifeInv, LifeTypeOK, Detach, Shut, Orphaned, Unlisted
<1>1. /\ isOpen' \in [Databases \union Statements -> BOOLEAN]
      /\ parent' \in [Statements -> Databases \union {Null}]
      /\ statements' \in [Databases -> SUBSET Statements]
  OBVIOUS
<1>2. \A s \in Statements : parent'[s] \in {Null, parent[s]}
  OBVIOUS
<1>3. ASSUME NEW e \in Databases, NEW s \in statements'[e]
      PROVE  parent'[s] = e
  <2>1. e # d /\ s \in statements[e] /\ s \in Statements
    OBVIOUS
  <2>2. parent[s] = e
    BY <2>1 DEF ListedInv
  <2>3. s \notin statements[d]
    BY <2>1, <2>2 DEF ListedInv
  <2> QED
    BY <2>1, <2>2, <2>3
<1> QED
  BY <1>1, <1>2, <1>3 DEF ListedInv

-----------------------------------------------------------------------------
(* The steps of the script that make an object. *)
LEMMA MakingKeepsLife ==
  ASSUME LifeInv,
         \/ \E d \in Databases : NewDatabase(d) \/ \E s \in Statements : Query(d, s)
         \/ \E s \in Statements, v \in Views : MakeView(s, v)
  PROVE  LifeInv'
<1> USE DEF LifeInv, LifeTypeOK, ListedInv, ParentInv, AnchorInv, ViewInv, HeldInv
<1>1. ASSUME NEW d \in Databases, NewDatabase(d)
      PROVE  LifeInv'
  <2>1. d \in Objects /\ \A x \in Objects : cell'[x] = IF x = d THEN "live" ELSE cell[x]
    BY <1>1 DEF NewDatabase, Objects
  <2> QED
    BY <1>1, <2>1, Apart DEF NewDatabase, Objects
<1>2. ASSUME NEW d \in Databases, NEW s \in Statements, Query(d, s)
      PROVE  LifeInv'
  <2>1. d \in Objects /\ s \in Objects /\ s # d
    BY Apart DEF Objects
  <2>2. /\ \A x \in Objects : cell'[x] = IF x = s THEN "live" ELSE cell[x]
        /\ cell[d] = "live" /\ cell[s] = "free"
        /\ cell' \in [Objects -> {"free", "live", "dead"}] /\ held' = held \union {s}
    BY <1>2, <2>1 DEF Query, NewStatement
  <2>3. /\ \A t \in Statements : parent'[t] = IF t = s THEN d ELSE parent[t]
        /\ \A t \in Statements : parentObject'[t] = IF t = s THEN d ELSE parentObject[t]
        /\ \A e \in Databases : statements'[e] = IF e = d THEN statements[d] \union {s} ELSE statements[e]
    BY <1>2 DEF Query, NewStatement
  <2>4. LifeTypeOK'
    BY <1>2, <2>1, <2>2 DEF Query, NewStatement
  <2>5. \A e \in Databases : s \notin statements[e]
    BY <2>2, ListedIsLive
  <2>6. ListedInv'
    BY <2>3, <2>5, <2>4
  <2>7. ParentInv' /\ AnchorInv'
    BY <2>1, <2>2, <2>3, Apart DEF Objects
  <2>8. ViewInv' /\ HeldInv'
    BY <1>2, <2>1, <2>2, Apart DEF Query, NewStatement, Objects
  <2> QED
    BY <2>4, <2>6, <2>7, <2>8
<1>3. ASSUME NEW s \in Statements, NEW v \in Views, MakeView(s, v)
      PROVE  LifeInv'
  <2>1. v \in Objects /\ s \in Objects /\ s # v
    BY Apart DEF Objects
  <2>2. /\ \A x \in Objects : cell'[x] = IF x = v THEN "live" ELSE cell[x]
        /\ cell[s] = "live" /\ cell[v] = "free"
        /\ \A w \in Views : native'[w] = IF w = v THEN s ELSE native[w]
        /\ \A w \in Views : ownerKey'[w] = IF w = v THEN s ELSE ownerKey[w]
        /\ held' = held \union {v} /\ listing' \subseteq listing
    BY <1>3, <2>1 DEF MakeView
  <2>3. LifeTypeOK'
    BY <1>3, <2>1 DEF MakeView
  <2>4. ListedInv' /\ ParentInv' /\ AnchorInv'
    BY <1>3, <2>2, Apart DEF MakeView, Objects
  <2>5. ViewInv' /\ HeldInv'
    BY <2>1, <2>2, <2>3, Apart DEF Objects
  <2> QED
    BY <2>3, <2>4, <2>5
<1> QED
  BY <1>1, <1>2, <1>3

(* The other steps of the script: the cells stay as they are. *)
LEMMA ScriptKeepsLife ==
  ASSUME LifeInv,
         \/ \E d \in Databases : OpenDatabase(d) \/ CloseDatabase(d) \/ ListStatements(d)
         \/ \E s \in Statements : UseStatement(s) \/ SkipView(s)
         \/ \E x \in Objects : Forget(x)
  PROVE  LifeInv'
<1> USE DEF LifeInv
<1>1. ASSUME NEW d \in Databases, OpenDatabase(d)
      PROVE  LifeInv'
  BY <1>1 DEF OpenDatabase, LifeTypeOK, ListedInv, ParentInv, AnchorInv, ViewInv, HeldInv
<1>2. ASSUME NEW d \in Databases, CloseDatabase(d)
      PROVE  LifeInv'
  <2>1. Detach(d) /\ UNCHANGED <<cell, held, parentObject, native, ownerKey, listing>>
    BY <1>2 DEF CloseDatabase
  <2> QED
    BY <2>1, DetachLinks DEF LifeTypeOK, ListedInv, ParentInv, AnchorInv, ViewInv, HeldInv
<1>3. ASSUME NEW d \in Databases, ListStatements(d)
      PROVE  LifeInv'
  <2>1. \A s \in listing' : s \in Statements /\ cell[s] = "live"
    BY <1>3, ListedIsLive DEF ListStatements, LifeTypeOK
  <2> QED
    BY <1>3, <2>1 DEF ListStatements, LifeTypeOK, ListedInv, ParentInv, AnchorInv, ViewInv, HeldInv
<1>4. ASSUME NEW s \in Statements, CloseNative(s)
      PROVE  LifeInv'
  <2>1. Finalize({s}) /\ UNCHANGED <<cell, held, native, ownerKey, listing>>
    BY <1>4 DEF CloseNative
  <2>2. /\ parentObject' \in [Statements -> Databases \union {Null}]
        /\ \A t \in Statements : parentObject'[t] = IF t = s THEN Null ELSE parentObject[t]
    BY <1>4 DEF CloseNative, LifeTypeOK
  <2> QED
    BY <2>1, <2>2, FinalizeLinks DEF LifeTypeOK, ListedInv, ParentInv, AnchorInv, ViewInv, HeldInv
<1>5. ASSUME UNCHANGED lifeVars
      PROVE  LifeInv'
  BY <1>5 DEF lifeVars, LifeTypeOK, ListedInv, ParentInv, AnchorInv, ViewInv, HeldInv
<1>6. ASSUME NEW s \in Statements, UseStatement(s)
      PROVE  LifeInv'
  <2>1. CloseNative(s) \/ UNCHANGED lifeVars
    BY <1>6 DEF UseStatement, CloseStatement, Go, NextRow, SkipRows, Skipped, ResetStatement, GetObject, StepFails
  <2> QED
    BY <2>1, <1>4, <1>5
<1>7. ASSUME NEW s \in Statements, SkipView(s)
      PROVE  LifeInv'
  BY <1>7 DEF SkipView, LifeTypeOK, ListedInv, ParentInv, AnchorInv, ViewInv, HeldInv
<1>8. ASSUME NEW x \in Objects, Forget(x)
      PROVE  LifeInv'
  BY <1>8 DEF Forget, LifeTypeOK, ListedInv, ParentInv, AnchorInv, ViewInv, HeldInv
<1> QED
  BY <1>1, <1>2, <1>3, <1>6, <1>7, <1>8

(* A collection: what it keeps is closed under the references. *)
LEMMA CollectKeepsLife ==
  ASSUME LifeInv, Collect
  PROVE  LifeInv'
<1> USE DEF LifeInv
<1>1. PICK kept \in SUBSET Live : FindDead(kept) /\ Finalize(Statements \ kept)
  BY DEF Collect
<1>2. /\ kept \subseteq Objects
      /\ \A x \in kept : cell[x] = "live"
      /\ \A x \in Objects : cell'[x] = "live" <=> x \in kept
      /\ cell' \in [Objects -> {"free", "live", "dead"}]
      /\ held \union listing \subseteq kept
  BY <1>1 DEF FindDead, Live, LifeTypeOK
<1>3. UNCHANGED <<held, parentObject, native, ownerKey, listing>> /\ ClosedUnder(kept)
  BY <1>1 DEF FindDead
<1>4. LifeTypeOK' /\ ListedInv' /\ \A s \in Statements : parent'[s] = IF s \in kept THEN parent[s] ELSE Null
  BY <1>1, <1>2, <1>3, FinalizeLinks DEF LifeTypeOK
<1>5. ParentInv'
  BY <1>2, <1>3, <1>4 DEF ParentInv, Objects
<1>6. \A s \in kept \intersect Statements : parentObject[s] # Null => parentObject[s] \in kept
  BY <1>3 DEF ClosedUnder, RefersTo, LifeTypeOK, Objects
<1>7. AnchorInv'
  BY <1>2, <1>3, <1>6 DEF AnchorInv, Objects
<1>8. \A v \in kept \intersect Views : native[v] \in kept
  BY <1>2, <1>3 DEF ViewInv, ClosedUnder, RefersTo, LifeTypeOK, Objects
<1>9. ViewInv' /\ HeldInv'
  BY <1>2, <1>3, <1>8 DEF ViewInv, HeldInv, Objects
<1> QED
  BY <1>4, <1>5, <1>7, <1>9

LEMMA SweepKeepsLife ==
  ASSUME LifeInv, NEW x \in Objects, Sweep(x)
  PROVE  LifeInv'
<1> USE DEF LifeInv
<1>1. /\ cell[x] = "dead"
      /\ \A y \in Objects : cell'[y] = IF y = x THEN "free" ELSE cell[y]
      /\ cell' \in [Objects -> {"free", "live", "dead"}]
      /\ UNCHANGED <<held, listing>>
  BY DEF Sweep, LifeTypeOK
<1>2. /\ parentObject' \in [Statements -> Databases \union {Null}]
      /\ \A s \in Statements : s # x => parentObject'[s] = parentObject[s]
  BY DEF Sweep, Swept, LifeTypeOK
<1>3. /\ native' \in [Views -> Statements \union {Null}] /\ ownerKey' \in [Views -> Statements \union {Null}]
      /\ \A v \in Views : v # x => native'[v] = native[v] /\ ownerKey'[v] = ownerKey[v]
  BY DEF Sweep, Swept, LifeTypeOK
<1>4. /\ isOpen' \in [Databases \union Statements -> BOOLEAN]
      /\ parent' \in [Statements -> Databases \union {Null}]
      /\ statements' \in [Databases -> SUBSET Statements]
      /\ ListedInv'
      /\ \A s \in Statements : parent'[s] \in {Null, parent[s]}
  <2>1. CASE x \in Databases
    BY <2>1, DetachLinks DEF Sweep
  <2>2. CASE x \notin Databases
    BY <2>2, FinalizeLinks DEF Sweep
  <2> QED
    BY <2>1, <2>2
<1>5. LifeTypeOK'
  BY <1>1, <1>2, <1>3, <1>4 DEF LifeTypeOK
<1>6. ParentInv'
  BY <1>1, <1>2, <1>4 DEF ParentInv, Objects
<1>7. AnchorInv'
  BY <1>1, <1>2 DEF AnchorInv, LifeTypeOK, Objects
<1>8. ViewInv' /\ HeldInv'
  BY <1>1, <1>3, <1>5 DEF ViewInv, HeldInv, LifeTypeOK, Objects
<1> QED
  BY <1>4, <1>5, <1>6, <1>7, <1>8

LEMMA LifeInvStep == LifeInv /\ [DatabaseNext]_databaseVars => LifeInv'
<1> SUFFICES ASSUME LifeInv, [DatabaseNext]_databaseVars
             PROVE  LifeInv'
  OBVIOUS
<1>1. CASE UNCHANGED databaseVars
  BY <1>1 DEF databaseVars, lifeVars, LifeInv, LifeTypeOK, ListedInv, ParentInv, AnchorInv, ViewInv, HeldInv
<1>2. CASE CollectorStep
  BY <1>2, CollectKeepsLife, SweepKeepsLife DEF CollectorStep
<1>3. CASE DatabaseNext /\ ~CollectorStep
  BY <1>3, MakingKeepsLife, ScriptKeepsLife DEF DatabaseNext
<1> QED
  BY <1>1, <1>2, <1>3

THEOREM LifeIsInvariant == DatabaseSpec => []LifeInv
BY LifeInvInit, LifeInvStep, PTL DEF DatabaseSpec

(***************************************************************************)
(* Whatever a native that exists points to exists too, in whatever order   *)
(* databases and statements are closed, dropped, found dead and swept.     *)
(***************************************************************************)
THEOREM NoDanglingHolds == DatabaseSpec => []NoDangling
<1>1. ASSUME LifeInv PROVE NoDangling
  <2>1. ASSUME NEW d \in Databases, NEW s \in Statements, s \in statements[d] \/ parent[s] = d
        PROVE  cell[s] = "live" /\ cell[d] = "live"
    BY <1>1, <2>1, ListedIsLive
  <2>2. ASSUME NEW v \in Views, NEW s \in Statements, cell[v] = "live", native[v] = s
        PROVE  cell[s] = "live"
    BY <1>1, <2>2 DEF LifeInv, ViewInv
  <2> QED
    BY <2>1, <2>2 DEF NoDangling
<1> QED
  BY <1>1, LifeIsInvariant, PTL

(***************************************************************************)
(* The collector closes nothing that the script can still use.             *)
(***************************************************************************)
LEMMA CollectIsUnseen ==
  ASSUME LifeInv, Collect, NEW x \in Databases \union Statements, InUse(x)
  PROVE  isOpen'[x] = isOpen[x]
<1> USE DEF LifeInv, LifeTypeOK
<1>1. PICK kept \in SUBSET Live : FindDead(kept) /\ Finalize(Statements \ kept)
  BY DEF Collect
<1>2. held \union listing \subseteq kept /\ ClosedUnder(kept)
  BY <1>1 DEF FindDead
<1>3. isOpen'[x] = IF x \in Statements \ kept THEN FALSE ELSE isOpen[x]
  BY <1>1 DEF Finalize, Shut
<1>4. CASE x \in Statements
  <2>1. Referred(x) \/ x \in listing
    <3>1. \A s \in Statements : parent[s] # x
      BY <1>4, Apart
    <3> QED
      BY <3>1 DEF InUse
  <2>2. x \in kept
    <3>1. ASSUME NEW v \in held \intersect Views, native[v] = x
          PROVE  x \in kept
      <4>1. cell[v] = "live" /\ ownerKey[v] = x
        BY <3>1 DEF HeldInv, ViewInv
      <4> QED
        BY <1>2, <1>4, <4>1 DEF ClosedUnder, RefersTo, Objects
    <3> QED
      BY <1>2, <2>1, <3>1 DEF Referred
  <2> QED
    BY <1>3, <2>2
<1>5. CASE x \in Databases
  BY <1>3, <1>5, Apart
<1> QED
  BY <1>4, <1>5

LEMMA InUseIsLive ==
  ASSUME LifeInv, NEW x \in Databases \union Statements, InUse(x)
  PROVE  cell[x] = "live"
<1>1. CASE x \in held \union listing
  BY <1>1 DEF LifeInv, HeldInv
<1>2. ASSUME NEW v \in held \intersect Views, native[v] = x
      PROVE  cell[x] = "live"
  BY <1>2 DEF LifeInv, HeldInv, ViewInv
<1>3. ASSUME NEW s \in Statements, parent[s] = x
      PROVE  cell[x] = "live"
  <2>1. x \in Databases
    BY <1>3, Apart DEF LifeInv, LifeTypeOK
  <2> QED
    BY <1>3, <2>1, ListedIsLive
<1> QED
  BY <1>1, <1>2, <1>3 DEF InUse, Referred

LEMMA SweepIsUnseen ==
  ASSUME LifeInv, NEW y \in Objects, Sweep(y), NEW x \in Databases \union Statements, InUse(x)
  PROVE  isOpen'[x] = isOpen[x]
<1>1. cell[y] = "dead" /\ cell[x] = "live"
  BY InUseIsLive DEF Sweep
<1>2. CASE y \in Databases
  <2>1. statements[y] = {}
    BY <1>1, <1>2, ListedIsLive DEF LifeInv, LifeTypeOK
  <2> QED
    BY <1>1, <1>2, <2>1 DEF Sweep, Detach, Shut
<1>3. CASE y \notin Databases
  BY <1>1, <1>3 DEF Sweep, Finalize, Shut
<1> QED
  BY <1>2, <1>3

THEOREM CollectorIsUnseenHolds == DatabaseSpec => CollectorIsUnseen
<1>1. ASSUME LifeInv, [DatabaseNext]_databaseVars
      PROVE  [CollectorStep => \A x \in Databases \union Statements : InUse(x) => isOpen'[x] = isOpen[x]]_databaseVars
  BY <1>1, CollectIsUnseen, SweepIsUnseen DEF CollectorStep
<1> QED
  BY <1>1, LifeIsInvariant, PTL DEF DatabaseSpec, CollectorIsUnseen

-----------------------------------------------------------------------------
LEMMA FinalizeRows ==
  ASSUME LifeInv, RowInv, NEW S, Finalize(S),
         \A s \in Statements : cachedRow'[s] \in {Null, cachedRow[s]},
         cachedRow' \in [Statements -> Nat \union {Null}]
  PROVE  RowInv'
BY DEF LifeInv, LifeTypeOK, RowInv, RowTypeOK, ClosedInv, RowIsCurrent, Finalize, NoRows, Shut

LEMMA DetachRows ==
  ASSUME LifeInv, RowInv, NEW d \in Databases, Detach(d),
         \A s \in Statements : cachedRow'[s] \in {Null, cachedRow[s]},
         cachedRow' \in [Statements -> Nat \union {Null}]
  PROVE  RowInv'
BY Apart DEF LifeInv, LifeTypeOK, RowInv, RowTypeOK, ClosedInv, RowIsCurrent, Detach, NoRows, Shut

LEMMA UseKeepsRows ==
  ASSUME LifeInv, RowInv, NEW s \in Statements, UseStatement(s)
  PROVE  RowInv'
<1> USE DEF LifeInv, LifeTypeOK, RowInv, RowTypeOK, ClosedInv, RowIsCurrent
<1>1. ASSUME CloseNative(s)
      PROVE  RowInv'
  <2>1. /\ Finalize({s})
        /\ \A t \in Statements : cachedRow'[t] \in {Null, cachedRow[t]}
        /\ cachedRow' \in [Statements -> Nat \union {Null}]
    BY <1>1 DEF CloseNative
  <2> QED
    BY <2>1, FinalizeRows
<1>2. ASSUME StepFails(s)
      PROVE  RowInv'
  BY <1>2 DEF StepFails, lifeVars
<1>3. ASSUME NextRow(s), ~StepFails(s)
      PROVE  RowInv'
  <2>1. PICK r \in {row[s] + 1, 0} :
          /\ row' = [row EXCEPT ![s] = r]
          /\ hasRow' = [hasRow EXCEPT ![s] = r # 0]
          /\ cachedRow' = [cachedRow EXCEPT ![s] = Null]
          /\ UNCHANGED lifeVars
    BY <1>3 DEF NextRow
  <2>2. r \in Nat /\ isOpen[s]
    BY <1>3 DEF NextRow
  <2> QED
    BY <2>1, <2>2 DEF lifeVars
<1>4. ASSUME SkipRows(s)
      PROVE  RowInv'
  <2>1. PICK k \in 0..(MaxRows - row[s]), stop \in {"count", "end", "error"} :
          /\ Skipped(s, k, stop)
          /\ cachedRow' = IF stop = "error" THEN cachedRow ELSE [cachedRow EXCEPT ![s] = Null]
    BY <1>4 DEF SkipRows
  <2>2. k \in Nat /\ isOpen[s] /\ isOpen' = isOpen
    BY <1>4, <2>1, DatabaseAssumption DEF SkipRows, Skipped, lifeVars
  <2>3. CASE stop = "count"
    BY <2>1, <2>2, <2>3 DEF Skipped
  <2>4. CASE stop # "count"
    BY <2>1, <2>2, <2>4 DEF Skipped
  <2> QED
    BY <2>3, <2>4
<1>5. ASSUME ResetStatement(s)
      PROVE  RowInv'
  BY <1>5 DEF ResetStatement, lifeVars
<1>6. ASSUME GetObject(s)
      PROVE  RowInv'
  BY <1>6 DEF GetObject, lifeVars
<1> QED
  BY <1>1, <1>2, <1>3, <1>4, <1>5, <1>6 DEF UseStatement, CloseStatement, Go, NextRow

LEMMA RowInvStep ==
  ASSUME LifeInv, RowInv, [DatabaseNext]_databaseVars
  PROVE  RowInv'
<1> USE DEF LifeInv, LifeTypeOK, RowInv, RowTypeOK, ClosedInv, RowIsCurrent
<1>1. ASSUME UNCHANGED rowVars,
             \A s \in Statements : isOpen'[s] = isOpen[s] \/ isOpen'[s] = TRUE
      PROVE  RowInv'
  BY <1>1 DEF rowVars
<1>2. ASSUME NEW d \in Databases, CloseDatabase(d)
      PROVE  RowInv'
  BY <1>2, DetachRows DEF CloseDatabase
<1>3. ASSUME NEW d \in Databases, NewDatabase(d) \/ OpenDatabase(d) \/ ListStatements(d)
      PROVE  RowInv'
  <2>1. UNCHANGED rowVars
    BY <1>3 DEF NewDatabase, OpenDatabase, ListStatements
  <2>2. \A s \in Statements : s # d
    BY Apart
  <2>3. \A s \in Statements : isOpen'[s] = isOpen[s]
    BY <1>3, <2>2 DEF NewDatabase, OpenDatabase, ListStatements
  <2> QED
    BY <1>1, <2>1, <2>3
<1>4. ASSUME NEW d \in Databases, NEW s \in Statements, Query(d, s)
      PROVE  RowInv'
  BY <1>1, <1>4 DEF Query, NewStatement
<1>5. ASSUME NEW s \in Statements, SkipView(s) \/ \E v \in Views : MakeView(s, v)
      PROVE  RowInv'
  BY <1>1, <1>5 DEF SkipView, MakeView
<1>6. ASSUME NEW x \in Objects, Forget(x)
      PROVE  RowInv'
  BY <1>1, <1>6 DEF Forget
<1>7. ASSUME Collect
      PROVE  RowInv'
  BY <1>7, FinalizeRows DEF Collect, FindDead
<1>8. ASSUME NEW x \in Objects, Sweep(x)
      PROVE  RowInv'
  <2>1. /\ cachedRow' \in [Statements -> Nat \union {Null}]
        /\ \A s \in Statements : cachedRow'[s] \in {Null, cachedRow[s]}
    BY <1>8 DEF Sweep, Swept
  <2>2. CASE x \in Databases
    BY <1>8, <2>1, <2>2, DetachRows DEF Sweep
  <2>3. CASE x \notin Databases
    BY <1>8, <2>1, <2>3, FinalizeRows DEF Sweep
  <2> QED
    BY <2>2, <2>3
<1>9. CASE UNCHANGED databaseVars
  BY <1>1, <1>9 DEF databaseVars, lifeVars
<1> QED
  BY <1>2, <1>3, <1>4, <1>5, <1>6, <1>7, <1>8, <1>9, UseKeepsRows DEF DatabaseNext, CollectorStep

(***************************************************************************)
(* A statement that stands on a row gives that one, a closed one gives     *)
(* none: whoever closed it, and however many rows were passed.             *)
(***************************************************************************)
THEOREM RowIsCurrentHolds == DatabaseSpec => []RowIsCurrent
<1>1. DatabaseInit => RowInv
  BY Apart DEF DatabaseInit, RowInv, RowTypeOK, ClosedInv, RowIsCurrent
<1>2. RowInv => RowIsCurrent
  BY DEF RowInv
<1> QED
  BY <1>1, <1>2, RowInvStep, LifeIsInvariant, PTL DEF DatabaseSpec
-----------------------------------------------------------------------------
(* Speedhack *)

(* The clocks, and the three numbers.  Times are counted from Start. *)
ClockTypes ==
  /\ domain \in {"Counter", "FileTime"}
  /\ clocks \in [Clocks -> Nat]
  /\ Start <= clocks.coarse /\ clocks.coarse <= clocks.precise
  /\ clocks.precise - clocks.coarse <= Lag /\ clocks.precise <= Start + MaxReal
  /\ realBase \in Nat /\ speed \in Speeds \union {Unit} /\ virtualOffset \in Nat
  /\ scalingActive \in BOOLEAN /\ seen \in [Clocks -> Int]

(* Where a change stands: what it has stored, and what it will store. *)
Change ==
  \/ setter = NoChange
  \/ /\ setter.by \in Setters /\ setter.to \in Speeds
     /\ setter.realNow \in Nat /\ Start <= setter.realNow /\ setter.realNow <= clocks.coarse
     /\ setter.virtualNow \in Nat
     /\ setter.at \in {"Base", "Offset", "Speed", "Active"}
     /\ setter.at # "Base" => realBase = setter.realNow
     /\ setter.at \in {"Speed", "Active"} => virtualOffset = setter.virtualNow
     /\ setter.at = "Active" => speed = setter.to

(* No change has ever begun: time is not scaled. *)
Unset == setter.by = NoSetter /\ ~scalingActive

Anchored ==
  /\ Unset => speed = Unit /\ realBase = 0 /\ virtualOffset = 0
  /\ setter.by = NoSetter /\ scalingActive => Start <= realBase /\ realBase <= clocks.coarse

(* What a read of a clock that says now is told, while no change goes on.  *)
Told(now) == IF Unset THEN now ELSE ToVirtual(now, speed, realBase, virtualOffset)

(* What was told is not after virtual time, but for the lapse. *)
SeenInv(c) == seen[c] <= IF Unset THEN clocks[c] ELSE VirtualNow + Lapse(c)

(* A read that no change has met holds what it loaded, and what it will    *)
(* return is not before what was seen when it began, but for the lapse.    *)
Quiet(r) ==
  /\ setter.by = NoSetter
  /\ r.at \in {"ToScale", "AsItIs"} =>
       /\ r.clock = "coarse" /\ (r.at = "AsItIs" <=> Unset)
       /\ r.after <= Told(clocks.coarse) + Lapse(r.clock)
  /\ r.at \in {"Engaged", "Speed", "Base", "Offset"} =>
       /\ r.real <= clocks[r.clock] /\ (~Unset => realBase <= r.real)
       /\ r.after <= Told(r.real) + Lapse(r.clock)
  /\ r.at \in {"Speed", "Base", "Offset"} => ~Unset
  /\ r.at \in {"Base", "Offset"} => r.speed = speed
  /\ r.at = "Offset" => r.base = realBase

ReadInv(t) ==
  /\ InRead(t) /\ reading[t].quiet => Quiet(reading[t])
  /\ reading[t].at = "Done" /\ reading[t].quiet =>
       reading[t].after - reading[t].value <= Lapse(reading[t].clock)

Readings ==
  [at : {"Outside", "ToScale", "AsItIs", "Engaged", "Speed", "Base", "Offset", "Done"}, clock : Clocks,
   real : Nat, speed : Nat, base : Nat, value : Int, after : Int, quiet : BOOLEAN, brief : BOOLEAN]

ReadingType ==
  /\ DOMAIN reading = Readers
  /\ \A t \in Readers : reading[t] \in Readings

ClockInv ==
  /\ ClockTypes /\ Change /\ Anchored /\ ReadingType
  /\ \A c \in Clocks : SeenInv(c)
  /\ \A t \in Readers : ReadInv(t)
-----------------------------------------------------------------------------
(* A number and its quotient and remainder. *)
LEMMA DivMod ==
  \A g \in Nat \ {0} : \A n \in Nat :
    /\ n \div g \in Nat /\ n % g \in Nat /\ n % g < g
    /\ n = g * (n \div g) + (n % g)
<1> SUFFICES ASSUME NEW g \in Nat \ {0}, NEW n \in Nat
             PROVE  /\ n \div g \in Nat /\ n % g \in Nat /\ n % g < g
                    /\ n = g * (n \div g) + (n % g)
  OBVIOUS
<1> QED
  OBVIOUS

LEMMA ProductMonotone == \A g, x, y \in Nat : x <= y => g * x <= g * y
<1> SUFFICES ASSUME NEW g \in Nat, NEW x \in Nat, NEW y \in Nat, x <= y
             PROVE  g * x <= g * y
  OBVIOUS
<1>1. PICK d \in Nat : y = x + d
  <2>1. y - x \in Nat /\ y = x + (y - x)
    OBVIOUS
  <2> QED
    BY <2>1
<1>2. g * y = g * x + g * d /\ g * d \in Nat /\ g * x \in Nat
  BY <1>1
<1> QED
  BY <1>2

(* The multiples of the grain next to a number. *)
LEMMA QuotientMonotone ==
  ASSUME NEW g \in Nat \ {0}, NEW n \in Nat, NEW m \in Nat, n <= m
  PROVE  \/ n \div g = m \div g /\ n % g <= m % g
         \/ n \div g < m \div g
<1>1. PICK q \in Nat, r \in Nat : q = n \div g /\ r = n % g /\ r < g /\ n = g * q + r
  BY DivMod
<1>2. PICK k \in Nat, e \in Nat : k = m \div g /\ e = m % g /\ e < g /\ m = g * k + e
  BY DivMod
<1>3. CASE k < q
  <2>1. g * (k + 1) <= g * q
    BY <1>3, ProductMonotone
  <2>2. g * (k + 1) = g * k + g
    OBVIOUS
  <2> QED
    BY <1>1, <1>2, <2>1, <2>2
<1>4. CASE k = q
  BY <1>1, <1>2, <1>4
<1> QED
  BY <1>1, <1>2, <1>3, <1>4

Upwards(n) == 2 * (n % Grain) > Grain \/ (2 * (n % Grain) = Grain /\ (n \div Grain) % 2 = 1)

LEMMA DoubleCases ==
  ASSUME NEW n \in Nat
  PROVE  /\ n <= Exact => Double(n) = n
         /\ ~(n <= Exact) => Double(n) = Grain * (IF Upwards(n) THEN n \div Grain + 1 ELSE n \div Grain)
BY DEF Double, Upwards

(* A double is near its integer, and in the same order. *)
LEMMA DoubleFacts ==
  /\ \A n \in Nat : Double(n) \in Nat
  /\ \A n \in Nat : n <= Exact => Double(n) = n
  /\ \A n, m \in Nat : n <= m => Double(n) <= Double(m)
  /\ \A n \in Nat : n - Double(n) <= Grain \div 2
<1>0. Grain \in Nat \ {0} /\ Exact \in Nat /\ Exact % Grain = 0
  BY SpeedsAssumption
<1>1. \A n \in Nat : n <= Exact => Double(n) = n
  BY DoubleCases
<1>2. ASSUME NEW n \in Nat
      PROVE  Double(n) \in Nat /\ n - Double(n) <= Grain \div 2
  <2>0. Grain \div 2 \in Nat /\ Grain <= 2 * (Grain \div 2) + 1
    BY <1>0
  <2>1. CASE n <= Exact
    BY <1>1, <2>0, <2>1
  <2>2. CASE ~(n <= Exact)
    <3>1. PICK q \in Nat, r \in Nat : q = n \div Grain /\ r = n % Grain /\ r < Grain /\ n = Grain * q + r
      BY <1>0, DivMod
    <3>2. Grain * q \in Nat /\ Grain * (q + 1) = Grain * q + Grain
      BY <1>0
    <3>3. CASE Upwards(n)
      <4>1. Double(n) = Grain * (q + 1)
        BY <2>2, <3>1, <3>3, DoubleCases
      <4> QED
        BY <1>0, <2>0, <3>1, <3>2, <4>1
    <3>4. CASE ~Upwards(n)
      <4>1. Double(n) = Grain * q
        BY <2>2, <3>1, <3>4, DoubleCases
      <4>2. 2 * r <= Grain
        BY <1>0, <3>1, <3>4 DEF Upwards
      <4>3. r <= Grain \div 2
        BY <1>0, <2>0, <4>2
      <4> QED
        BY <3>1, <3>2, <4>1, <4>3
    <3> QED
      BY <3>3, <3>4
  <2> QED
    BY <2>1, <2>2
<1>3. ASSUME NEW n \in Nat, NEW m \in Nat, n <= m
      PROVE  Double(n) <= Double(m)
  <2>1. CASE m <= Exact
    BY <1>0, <1>1, <1>3, <2>1
  <2>2. CASE ~(m <= Exact)
    <3>1. PICK k \in Nat : k = m \div Grain
      BY <1>0, DivMod
    <3>2. /\ Double(m) \in {Grain * k, Grain * (k + 1)}
          /\ Upwards(m) => Double(m) = Grain * (k + 1)
      BY <2>2, <3>1, DoubleCases
    <3>3. Grain * k \in Nat /\ Grain * (k + 1) = Grain * k + Grain
      BY <1>0, <3>1
    <3>4. Grain * k <= Double(m)
      BY <1>0, <3>2, <3>3
    <3>5. CASE n <= Exact
      <4>1. PICK x \in Nat : x = Exact \div Grain /\ Exact = Grain * x
        BY <1>0, DivMod
      <4>2. x <= k
        <5>1. Exact <= m
          BY <1>0, <2>2
        <5>2. Exact \div Grain <= m \div Grain
          BY <1>0, <5>1, QuotientMonotone, DivMod
        <5> QED
          BY <3>1, <4>1, <5>2
      <4>3. Grain * x <= Grain * k
        BY <1>0, <3>1, <4>1, <4>2, ProductMonotone
      <4>4. Double(n) = n /\ n <= Grain * x
        BY <1>1, <3>5, <4>1
      <4> QED
        BY <1>0, <3>2, <3>3, <3>4, <4>1, <4>3, <4>4
    <3>6. CASE ~(n <= Exact)
      <4>1. PICK q \in Nat : q = n \div Grain
        BY <1>0, DivMod
      <4>2. /\ Double(n) \in {Grain * q, Grain * (q + 1)}
            /\ ~Upwards(n) => Double(n) = Grain * q
        BY <3>6, <4>1, DoubleCases
      <4>3. Grain * q \in Nat /\ Grain * (q + 1) = Grain * q + Grain
        BY <1>0, <4>1
      <4>4. CASE q < k
        <5>1. Grain * (q + 1) <= Grain * k
          BY <1>0, <3>1, <4>1, <4>4, ProductMonotone
        <5> QED
          BY <1>0, <1>2, <3>3, <3>4, <4>2, <4>3, <5>1
      <4>5. CASE q = k /\ n % Grain <= m % Grain
        <5>1. Upwards(n) => Upwards(m)
          <6>1. n % Grain \in Nat /\ m % Grain \in Nat /\ m % Grain < Grain
            BY <1>0, DivMod
          <6> QED
            BY <1>0, <3>1, <4>1, <4>5, <6>1 DEF Upwards
        <5> QED
          BY <1>0, <3>2, <3>3, <4>2, <4>3, <4>5, <5>1
      <4> QED
        BY <1>0, <1>3, <3>1, <4>1, <4>4, <4>5, QuotientMonotone
    <3> QED
      BY <3>5, <3>6
  <2> QED
    BY <2>1, <2>2
<1> QED
  BY <1>1, <1>2, <1>3

(* A division by a positive number is monotone, and undoes a product. *)
LEMMA DivMonotone == \A u \in Nat \ {0} : \A x, y \in Nat : x <= y => x \div u <= y \div u
  BY QuotientMonotone, DivMod

LEMMA DivOfProduct == \A u \in Nat \ {0} : \A x \in Nat : (x * u) \div u = x
<1> SUFFICES ASSUME NEW u \in Nat \ {0}, NEW x \in Nat
             PROVE  (x * u) \div u = x
  OBVIOUS
<1>1. PICK p \in Int : p = (x * u) \div u
  OBVIOUS
<1>2. u * p <= x * u /\ x * u < u * p + u
  BY <1>1
<1>3. p <= x
  <2>1. CASE p >= x + 1
    <3>1. u * p >= u * (x + 1)
      BY <2>1
    <3> QED
      BY <1>2, <3>1
  <2> QED
    BY <2>1
<1>4. x < p + 1
  BY <1>2
<1> QED
  BY <1>1, <1>3, <1>4

(* A quotient of a sum is the sum of the quotients, or one more. *)
LEMMA DivOfSum == \A u \in Nat \ {0} : \A x, y \in Nat : (x + y) \div u <= (x \div u) + (y \div u) + 1
<1> SUFFICES ASSUME NEW u \in Nat \ {0}, NEW x \in Nat, NEW y \in Nat
             PROVE  (x + y) \div u <= (x \div u) + (y \div u) + 1
  OBVIOUS
<1>1. PICK p \in Nat, r \in Nat : p = x \div u /\ r < u /\ x = u * p + r
  BY DivMod
<1>2. PICK q \in Nat, e \in Nat : q = y \div u /\ e < u /\ y = u * q + e
  BY DivMod
<1>3. PICK k \in Nat, h \in Nat : k = (x + y) \div u /\ h < u /\ x + y = u * k + h
  BY DivMod
<1>4. CASE k >= p + q + 2
  <2>1. u * (p + q + 2) <= u * k
    BY <1>4, ProductMonotone
  <2>2. u * (p + q + 2) = u * p + u * q + u + u
    OBVIOUS
  <2> QED
    BY <1>1, <1>2, <1>3, <2>1, <2>2
<1> QED
  BY <1>1, <1>2, <1>3, <1>4

(* What scaling does to the time since the last change. *)
LEMMA ScaledFacts ==
  /\ \A d, s \in Nat : Scaled(d, s) \in Nat
  /\ \A s \in Nat : Scaled(0, s) = 0
  /\ \A d \in Nat : Scaled(d, Unit) = Double(d)
  /\ \A d, e, s \in Nat : d <= e => Scaled(d, s) <= Scaled(e, s)
<1>0. Unit \in Nat \ {0} /\ Exact \in Nat
  BY SpeedsAssumption
<1>1. \A d, s \in Nat : s * Double(d) \in Nat /\ Scaled(d, s) = (s * Double(d)) \div Unit
  BY <1>0, DoubleFacts DEF Scaled
<1>2. \A d, s \in Nat : Scaled(d, s) \in Nat
  BY <1>0, <1>1, DivMod
<1>3. \A s \in Nat : Scaled(0, s) = 0
  <2>1. 0 \div Unit = 0 /\ Double(0) = 0
    BY <1>0, DoubleFacts
  <2>2. \A s \in Nat : s * 0 = 0
    OBVIOUS
  <2> QED
    BY <1>1, <2>1, <2>2
<1>4. \A d \in Nat : Scaled(d, Unit) = Double(d)
  <2> SUFFICES ASSUME NEW d \in Nat
               PROVE  Scaled(d, Unit) = Double(d)
    OBVIOUS
  <2>1. PICK x \in Nat : x = Double(d)
    BY DoubleFacts
  <2>2. Unit * x = x * Unit
    BY <1>0
  <2> QED
    BY <1>0, <1>1, <2>1, <2>2, DivOfProduct
<1>5. ASSUME NEW d \in Nat, NEW e \in Nat, NEW s \in Nat, d <= e
      PROVE  Scaled(d, s) <= Scaled(e, s)
  <2>1. PICK x, y \in Nat : x = Double(d) /\ y = Double(e) /\ x <= y
    BY <1>5, DoubleFacts
  <2>2. s * x <= s * y /\ s * x \in Nat /\ s * y \in Nat
    BY <2>1, ProductMonotone
  <2>3. (s * x) \div Unit <= (s * y) \div Unit
    BY <1>0, <2>2, DivMonotone
  <2> QED
    BY <1>1, <2>1, <2>3
<1> QED
  BY <1>2, <1>3, <1>4, <1>5

TickLapse == (TimerTick * TopSpeed) \div Unit

(* What a timer tick is at the highest speed, and no less. *)
LEMMA LagFacts ==
  /\ TickLapse \in Nat /\ TimerTick <= TickLapse
  /\ \A d, e, s \in Nat : d <= e /\ e <= Exact /\ e - d <= TimerTick /\ s <= TopSpeed =>
       Scaled(e, s) <= Scaled(d, s) + TickLapse + 1
<1>0. Unit \in Nat \ {0} /\ TopSpeed \in Nat /\ TimerTick \in Nat /\ Unit <= TopSpeed /\ Exact \in Nat
  BY SpeedsAssumption
<1>1. TimerTick * Unit <= TimerTick * TopSpeed /\ TimerTick * Unit \in Nat /\ TimerTick * TopSpeed \in Nat
  BY <1>0, ProductMonotone
<1>2. TickLapse \in Nat /\ TimerTick <= TickLapse
  <2>1. (TimerTick * Unit) \div Unit = TimerTick
    BY <1>0, DivOfProduct
  <2>2. (TimerTick * Unit) \div Unit <= (TimerTick * TopSpeed) \div Unit
    BY <1>0, <1>1, DivMonotone
  <2> QED
    BY <1>0, <1>1, <2>1, <2>2, DivMod DEF TickLapse
<1>3. ASSUME NEW d \in Nat, NEW e \in Nat, NEW s \in Nat, d <= e, e <= Exact, e - d <= TimerTick, s <= TopSpeed
      PROVE  Scaled(e, s) <= Scaled(d, s) + TickLapse + 1
  <2>1. Double(d) = d /\ Double(e) = e
    BY <1>0, <1>3, DoubleFacts
  <2>2. Scaled(d, s) = (d * s) \div Unit /\ Scaled(e, s) = (e * s) \div Unit
    BY <2>1 DEF Scaled
  <2>3. PICK l \in Nat : l = e - d /\ e = d + l /\ l <= TimerTick
    <3>1. e - d \in Nat /\ e = d + (e - d)
      BY <1>3
    <3> QED
      BY <1>3, <3>1
  <2>4. e * s = d * s + s * l /\ d * s \in Nat /\ s * l \in Nat
    BY <2>3
  <2>5. s * l <= TimerTick * TopSpeed
    <3>1. s * l <= s * TimerTick /\ s * TimerTick = TimerTick * s /\ TimerTick * s <= TimerTick * TopSpeed
      BY <1>0, <1>3, <2>3, ProductMonotone
    <3>2. s * TimerTick \in Nat
      BY <1>0
    <3> QED
      BY <1>1, <2>4, <3>1, <3>2
  <2>6. (s * l) \div Unit <= TickLapse /\ (s * l) \div Unit \in Nat /\ (d * s) \div Unit \in Nat
    BY <1>0, <1>1, <2>4, <2>5, DivMonotone, DivMod DEF TickLapse
  <2>7. (d * s + s * l) \div Unit <= (d * s) \div Unit + (s * l) \div Unit + 1
    BY <1>0, <2>4, DivOfSum
  <2>8. (d * s + s * l) \div Unit \in Nat
    BY <1>0, <2>4, DivMod
  <2> QED
    BY <1>2, <2>2, <2>4, <2>6, <2>7, <2>8
<1> QED
  BY <1>2, <1>3

(* Virtual time does not go back while real time goes on. *)
LEMMA VirtualMonotone ==
  \A base, offset \in Nat : \A s \in Nat : \A now, later \in Nat :
    base <= now /\ now <= later =>
      /\ ToVirtual(now, s, base, offset) \in Nat /\ ToVirtual(later, s, base, offset) \in Nat
      /\ ToVirtual(now, s, base, offset) <= ToVirtual(later, s, base, offset)
<1> SUFFICES ASSUME NEW base \in Nat, NEW offset \in Nat, NEW s \in Nat, NEW now \in Nat, NEW later \in Nat,
                    base <= now, now <= later
             PROVE  /\ ToVirtual(now, s, base, offset) \in Nat /\ ToVirtual(later, s, base, offset) \in Nat
                    /\ ToVirtual(now, s, base, offset) <= ToVirtual(later, s, base, offset)
  OBVIOUS
<1>1. now - base \in Nat /\ later - base \in Nat /\ now - base <= later - base
  OBVIOUS
<1>2. /\ Scaled(now - base, s) \in Nat /\ Scaled(later - base, s) \in Nat
      /\ Scaled(now - base, s) <= Scaled(later - base, s)
  BY <1>1, ScaledFacts
<1> QED
  BY <1>2 DEF ToVirtual

LEMMA VirtualType ==
  ASSUME NEW base \in Nat, NEW offset \in Nat, NEW s \in Nat, NEW now \in Nat, base <= now
  PROVE  ToVirtual(now, s, base, offset) \in Nat
<1>1. now <= now
  OBVIOUS
<1> QED
  BY <1>1, VirtualMonotone

-----------------------------------------------------------------------------
LEMMA ClockConstants ==
  /\ Unit \in Nat \ {0} /\ Speeds \subseteq Nat /\ NoSetter \notin Setters /\ NoChange.by = NoSetter
  /\ \A s \in Speeds \union {Unit} : s \in Nat /\ s <= TopSpeed
  /\ Start \in Nat /\ Lag \in Nat /\ Lag <= TimerTick /\ MaxReal \in Nat /\ MaxReal <= Exact /\ Exact \in Nat
  /\ domain = "Counter" => Start = 0 /\ Lag = 0
  /\ "coarse" \in Clocks /\ "precise" \in Clocks
  BY SpeedsAssumption DEF NoChange, Start, Lag, Clocks

LEMMA LapseFacts ==
  ASSUME ClockTypes
  PROVE  /\ Lapse("coarse") \in Nat /\ Lapse("precise") \in Nat
         /\ domain = "Counter" => Lapse("coarse") = 0 /\ Lapse("precise") = 0
         /\ domain = "FileTime" =>
              Lapse("coarse") = Grain \div 2 /\ Lapse("precise") = Grain \div 2 + TickLapse + 1
<1>1. Grain \div 2 \in Nat /\ TickLapse \in Nat
  BY SpeedsAssumption, LagFacts
<1> QED
  BY <1>1 DEF ClockTypes, Lapse, TickLapse

(* Virtual time is a number, and a change is anchored by the coarse clock. *)
LEMMA VirtualNowFacts ==
  ASSUME ClockTypes, Change, Anchored
  PROVE  /\ VirtualNow \in Nat
         /\ setter.by # NoSetter =>
              /\ setter.to \in Nat /\ setter.realNow \in Nat /\ setter.virtualNow \in Nat
              /\ setter.realNow <= clocks.coarse
         /\ setter.by = NoSetter => realBase <= clocks.coarse
<1>1. setter.by # NoSetter =>
        /\ setter.to \in Nat /\ setter.realNow \in Nat /\ setter.virtualNow \in Nat
        /\ setter.realNow <= clocks.coarse
  BY ClockConstants DEF Change
<1>2. setter.by = NoSetter => realBase <= clocks.coarse
  BY ClockConstants DEF Anchored, Unset, ClockTypes
<1>3. clocks.coarse \in Nat /\ speed \in Nat /\ realBase \in Nat /\ virtualOffset \in Nat
  BY ClockConstants DEF ClockTypes
<1>4. VirtualNow \in Nat
  <2>1. CASE setter.by = NoSetter
    BY <1>2, <1>3, <2>1, VirtualType DEF VirtualNow
  <2>2. CASE setter.by # NoSetter
    BY <1>1, <1>3, <2>2, VirtualType DEF VirtualNow
  <2> QED
    BY <2>1, <2>2
<1> QED
  BY <1>1, <1>2, <1>4

(* What a clock is told is not after virtual time, but for the lapse: the  *)
(* precise clock is a timer tick ahead at most.                            *)
LEMMA ToldFacts ==
  ASSUME ClockTypes, Anchored, setter.by = NoSetter, NEW c \in Clocks, NEW now \in Nat,
         now <= clocks[c], ~Unset => realBase <= now
  PROVE  /\ Told(now) \in Nat
         /\ Told(now) <= IF Unset THEN clocks[c] ELSE VirtualNow + Lapse(c)
<1>1. clocks.coarse \in Nat /\ clocks.precise \in Nat /\ speed \in Nat /\ speed <= TopSpeed
      /\ realBase \in Nat /\ virtualOffset \in Nat /\ clocks.coarse <= clocks.precise
  BY ClockConstants DEF ClockTypes
<1>2. CASE Unset
  BY <1>2 DEF Told
<1>3. CASE ~Unset
  <2>1. Start <= realBase /\ realBase <= clocks.coarse
    BY <1>3 DEF Anchored, Unset, ClockTypes
  <2>2. VirtualNow = ToVirtual(clocks.coarse, speed, realBase, virtualOffset)
    BY DEF VirtualNow
  <2>3. Told(now) = ToVirtual(now, speed, realBase, virtualOffset)
    BY <1>3 DEF Told
  <2>4. PICK clock \in Nat : clock = clocks[c] /\ now <= clock /\ realBase <= clock
    BY <1>1, <1>3, <2>1 DEF Clocks
  <2>5. Told(now) \in Nat /\ Told(now) <= ToVirtual(clock, speed, realBase, virtualOffset)
    <3>1. realBase <= now
      BY <1>3
    <3>2. /\ ToVirtual(now, speed, realBase, virtualOffset) \in Nat
          /\ ToVirtual(now, speed, realBase, virtualOffset) <= ToVirtual(clock, speed, realBase, virtualOffset)
      BY <1>1, <2>4, <3>1, VirtualMonotone
    <3> QED
      BY <2>3, <3>2
  <2>6. VirtualNow \in Nat /\ ToVirtual(clock, speed, realBase, virtualOffset) \in Nat
    BY <1>1, <2>1, <2>2, <2>4, VirtualType
  <2>7. ToVirtual(clock, speed, realBase, virtualOffset) <= VirtualNow + Lapse(c)
    <3>1. CASE c = "coarse"
      BY <2>2, <2>4, <2>6, <3>1, LapseFacts
    <3>2. CASE c = "precise" /\ domain = "Counter"
      <4>1. clocks.precise = clocks.coarse
        BY <1>1, <3>2, ClockConstants DEF ClockTypes
      <4> QED
        BY <2>2, <2>4, <2>6, <3>2, <4>1, LapseFacts
    <3>3. CASE c = "precise" /\ domain = "FileTime"
      <4>1. PICK d \in Nat, e \in Nat :
              /\ d = clocks.coarse - realBase /\ e = clock - realBase
              /\ d <= e /\ e <= Exact /\ e - d <= TimerTick
        <5>1. clock = clocks.precise
          BY <2>4, <3>3
        <5>2. clocks.precise <= Start + MaxReal /\ clocks.precise - clocks.coarse <= Lag
          BY DEF ClockTypes
        <5>3. clocks.coarse - realBase \in Nat /\ clocks.precise - realBase \in Nat
          BY <1>1, <2>1
        <5> QED
          BY <1>1, <2>1, <5>1, <5>2, <5>3, ClockConstants, SpeedsAssumption
      <4>2. Scaled(e, speed) <= Scaled(d, speed) + TickLapse + 1
        BY <1>1, <4>1, LagFacts
      <4>3. Scaled(e, speed) \in Nat /\ Scaled(d, speed) \in Nat /\ TickLapse \in Nat /\ Grain \div 2 \in Nat
        <5>1. Grain \in Nat \ {0}
          BY SpeedsAssumption
        <5>2. Grain \div 2 \in Nat
          BY <5>1
        <5>3. Scaled(e, speed) \in Nat /\ Scaled(d, speed) \in Nat
          BY <1>1, <4>1, ScaledFacts
        <5> QED
          BY <5>2, <5>3, LagFacts
      <4>4. /\ ToVirtual(clock, speed, realBase, virtualOffset) = virtualOffset + Scaled(e, speed)
            /\ VirtualNow = virtualOffset + Scaled(d, speed)
        BY <2>2, <4>1 DEF ToVirtual
      <4>5. Lapse(c) = Grain \div 2 + TickLapse + 1
        BY <3>3, LapseFacts
      <4> QED
        BY <1>1, <4>2, <4>3, <4>4, <4>5
    <3> QED
      BY <3>1, <3>2, <3>3 DEF Clocks, ClockTypes
  <2>8. Lapse(c) \in Nat
    BY LapseFacts DEF Clocks
  <2> QED
    BY <1>3, <2>5, <2>6, <2>7, <2>8
<1> QED
  BY <1>2, <1>3

LEMMA ClockInvInit == SpeedhackInit => ClockInv
<1> SUFFICES ASSUME SpeedhackInit
             PROVE  ClockInv
  OBVIOUS
<1> USE DEF SpeedhackInit
<1>1. /\ Start \in Nat /\ Lag \in Nat /\ MaxReal \in Nat /\ clocks \in [Clocks -> Nat]
      /\ clocks.coarse = Start /\ clocks.precise = Start
      /\ seen \in [Clocks -> Int] /\ \A c \in Clocks : seen[c] = 0
  BY ClockConstants
<1>2. ClockTypes
  <2>1. /\ Start <= clocks.coarse /\ clocks.coarse <= clocks.precise
        /\ clocks.precise - clocks.coarse <= Lag /\ clocks.precise <= Start + MaxReal
    BY <1>1
  <2> QED
    BY <1>1, <2>1 DEF ClockTypes
<1>3. setter.by = NoSetter /\ Unset
  BY ClockConstants DEF Unset
<1>4. \A t \in Readers :
        reading[t] = [at |-> "Outside", clock |-> "coarse", real |-> 0, speed |-> Unit, base |-> 0, value |-> 0,
                      after |-> 0, quiet |-> TRUE, brief |-> TRUE]
  BY <1>1, <1>3, ClockConstants DEF Reading
<1>5. ReadingType
  <2>1. PICK one : one = [at |-> "Outside", clock |-> "coarse", real |-> 0, speed |-> Unit, base |-> 0, value |-> 0,
                          after |-> 0, quiet |-> TRUE, brief |-> TRUE]
    OBVIOUS
  <2>2. one \in Readings
    BY <2>1, ClockConstants DEF Readings
  <2>3. \A t \in Readers : reading[t] = one
    BY <1>4, <2>1
  <2>4. DOMAIN reading = Readers
    OBVIOUS
  <2> QED
    BY <2>2, <2>3, <2>4 DEF ReadingType
<1>6. \A t \in Readers : ReadInv(t)
  <2>1. ASSUME NEW t \in Readers
        PROVE  reading[t].at = "Outside"
    <3> HIDE DEF SpeedhackInit
    <3> QED
      BY <1>4, <2>1
  <2> QED
    BY <2>1 DEF ReadInv, InRead
<1>7. \A c \in Clocks : SeenInv(c)
  BY <1>1, <1>3 DEF SeenInv
<1>8. Change /\ Anchored
  BY <1>3 DEF Change, Anchored, Unset
<1> QED
  BY <1>2, <1>5, <1>6, <1>7, <1>8 DEF ClockInv

(* What the steps of a change have in common: the readers that one meets   *)
(* are not quiet.                                                          *)
LEMMA WhileChanging ==
  ASSUME ClockInv, setter.by # NoSetter, UNCHANGED <<domain, reading>>
  PROVE  \A t \in Readers : ReadInv(t)'
<1>1. \A t \in Readers : InRead(t) => ~reading[t].quiet
  BY DEF ClockInv, ReadInv, Quiet
<1> QED
  BY <1>1 DEF ClockInv, ReadInv, InRead, Lapse

(* Time goes on, and virtual time with it. *)
LEMMA TickKeeps ==
  ASSUME ClockInv, TimeGoesOn
  PROVE  ClockInv'
<1> USE DEF ClockInv
<1>1. PICK coarse \in {clocks.coarse, clocks.precise + 1} :
        /\ clocks.precise + 1 - coarse <= Lag /\ clocks.precise + 1 <= Start + MaxReal
        /\ clocks' = [coarse |-> coarse, precise |-> clocks.precise + 1]
  BY DEF TimeGoesOn
<1>2. /\ UNCHANGED <<domain, speed, realBase, virtualOffset, scalingActive, setter, seen>>
      /\ reading' = [t \in Readers |-> [reading[t] EXCEPT !.brief = FALSE]]
      /\ Start' = Start /\ Lag' = Lag /\ (Unset' <=> Unset) /\ \A c : Lapse(c)' = Lapse(c)
  BY DEF TimeGoesOn, clockVars, Start, Lag, Unset, Lapse
<1>3. clocks.coarse \in Nat /\ clocks.precise \in Nat /\ clocks.coarse <= clocks.precise
      /\ realBase \in Nat /\ speed \in Nat /\ virtualOffset \in Nat
  BY ClockConstants DEF ClockTypes
<1>4. /\ clocks' \in [Clocks -> Nat] /\ \A c \in Clocks : clocks[c] <= clocks'[c]
      /\ clocks'.coarse \in Nat /\ clocks.coarse <= clocks'.coarse /\ clocks'.coarse <= clocks'.precise
      /\ clocks'.coarse = coarse /\ clocks'.precise = clocks.precise + 1
  BY <1>1, <1>3 DEF Clocks, ClockTypes
<1>5. ClockTypes'
  BY <1>1, <1>2, <1>3, <1>4, ClockConstants DEF ClockTypes
<1>6. Change' /\ Anchored'
  BY <1>2, <1>3, <1>4 DEF Change, Anchored
<1>7. ReadingType'
  BY <1>2 DEF ReadingType, Readings
<1>8. VirtualNow \in Nat /\ VirtualNow' \in Nat /\ VirtualNow <= VirtualNow'
  <2>1. CASE setter.by = NoSetter
    <3>1. realBase <= clocks.coarse
      BY <2>1, VirtualNowFacts
    <3>2. /\ VirtualNow = ToVirtual(clocks.coarse, speed, realBase, virtualOffset)
          /\ VirtualNow' = ToVirtual(clocks'.coarse, speed, realBase, virtualOffset)
      BY <1>2, <2>1 DEF VirtualNow
    <3> QED
      BY <1>3, <1>4, <3>1, <3>2, VirtualMonotone
  <2>2. CASE setter.by # NoSetter
    <3>1. /\ setter.to \in Nat /\ setter.realNow \in Nat /\ setter.virtualNow \in Nat
          /\ setter.realNow <= clocks.coarse
      BY <2>2, VirtualNowFacts
    <3>2. /\ VirtualNow = ToVirtual(clocks.coarse, setter.to, setter.realNow, setter.virtualNow)
          /\ VirtualNow' = ToVirtual(clocks'.coarse, setter.to, setter.realNow, setter.virtualNow)
      BY <1>2, <2>2 DEF VirtualNow
    <3> QED
      BY <1>3, <1>4, <3>1, <3>2, VirtualMonotone
  <2> QED
    BY <2>1, <2>2
<1>9. ASSUME NEW c \in Clocks
      PROVE  SeenInv(c)'
  <2>1. seen[c] \in Int /\ clocks[c] \in Nat /\ clocks'[c] \in Nat /\ clocks[c] <= clocks'[c]
    BY <1>4 DEF ClockTypes
  <2>2. Lapse(c) \in Nat /\ Lapse(c)' = Lapse(c) /\ seen' = seen
    BY <1>2, LapseFacts DEF Clocks
  <2> QED
    BY <1>2, <1>8, <2>1, <2>2 DEF SeenInv
<1>10. ASSUME NEW t \in Readers
       PROVE  ReadInv(t)'
  <2>1. /\ reading'[t].at = reading[t].at /\ reading'[t].quiet = reading[t].quiet
        /\ reading'[t].real = reading[t].real /\ reading'[t].speed = reading[t].speed
        /\ reading'[t].base = reading[t].base /\ reading'[t].value = reading[t].value
        /\ reading'[t].after = reading[t].after /\ reading'[t].clock = reading[t].clock
        /\ reading[t].clock \in Clocks /\ reading[t].real \in Nat /\ reading[t].after \in Int
    BY <1>2 DEF ReadingType, Readings
  <2>2. ASSUME Quiet(reading[t])
        PROVE  Quiet(reading[t])'
    <3>1. setter.by = NoSetter /\ realBase <= clocks.coarse
      BY <2>2, VirtualNowFacts DEF Quiet
    <3>2. Told(clocks.coarse) \in Int /\ Told(clocks.coarse)' \in Int /\ Told(clocks.coarse) <= Told(clocks.coarse)'
      <4>1. CASE Unset
        BY <1>2, <1>3, <1>4, <4>1 DEF Told
      <4>2. CASE ~Unset
        <5>1. Told(clocks.coarse) = VirtualNow /\ Told(clocks.coarse)' = VirtualNow'
          BY <1>2, <3>1, <4>2 DEF Told, VirtualNow
        <5> QED
          BY <1>8, <5>1
      <4> QED
        BY <4>1, <4>2
    <3>3. Told(reading[t].real)' = Told(reading[t].real)
      BY <1>2, <2>1 DEF Told
    <3>4. clocks[reading[t].clock] \in Nat /\ clocks'[reading[t].clock] \in Nat
          /\ clocks[reading[t].clock] <= clocks'[reading[t].clock]
      BY <1>3, <1>4, <2>1 DEF ClockTypes
    <3>5. reading[t].real <= clocks[reading[t].clock] => reading[t].real <= clocks'[reading[t].clock]
      BY <2>1, <3>4
    <3>6. Lapse(reading[t].clock) \in Nat /\ Lapse(reading[t].clock)' = Lapse(reading[t].clock)
      BY <1>2, <2>1, LapseFacts DEF Clocks
    <3>7. /\ reading[t].after <= Told(clocks.coarse) + Lapse(reading[t].clock) =>
               reading[t].after <= Told(clocks.coarse)' + Lapse(reading[t].clock)
      BY <2>1, <3>2, <3>6
    <3> QED
      BY <1>2, <2>1, <2>2, <3>3, <3>5, <3>6, <3>7 DEF Quiet
  <2> QED
    BY <1>2, <2>1, <2>2 DEF ReadInv, InRead
<1> QED
  BY <1>5, <1>6, <1>7, <1>9, <1>10

(* A change goes on from the virtual time that was reached; the first one  *)
(* from the double that is next to it.                                     *)
LEMMA BeginSetKeeps ==
  ASSUME ClockInv, NEW t \in Setters, NEW to \in Speeds, BeginSet(t, to)
  PROVE  ClockInv'
<1> USE DEF ClockInv
<1>1. /\ setter.by = NoSetter
      /\ UNCHANGED <<clocks, domain, speed, realBase, virtualOffset, scalingActive, seen>>
      /\ setter' = [by |-> t, at |-> "Base", to |-> to, realNow |-> clocks.coarse,
                    virtualNow |-> AnchoredAt(clocks.coarse, to)]
      /\ reading' = [r \in Readers |-> [reading[r] EXCEPT !.quiet = @ /\ ~InRead(r)]]
  BY DEF BeginSet, clockVars
<1>2. AnchoredAt(clocks.coarse, to) = VirtualNow /\ VirtualNow \in Nat
  BY <1>1, VirtualNowFacts DEF AnchoredAt, VirtualNow
<1>3. t # NoSetter /\ to \in Nat /\ clocks.coarse \in Nat /\ Start <= clocks.coarse /\ Start' = Start /\ Lag' = Lag
  BY <1>1, ClockConstants DEF ClockTypes, Start, Lag
<1>4. setter'.by = t /\ ~Unset' /\ \A c : Lapse(c)' = Lapse(c)
  BY <1>1, <1>3 DEF Unset, Lapse
<1>5. ClockTypes' /\ Change' /\ Anchored'
  BY <1>1, <1>2, <1>3, <1>4 DEF ClockTypes, Change, Anchored
<1>6. ReadingType'
  BY <1>1 DEF ReadingType, Readings
<1>7. VirtualNow' = VirtualNow
  <2>1. VirtualNow' = ToVirtual(clocks.coarse, to, clocks.coarse, VirtualNow)
    BY <1>1, <1>2, <1>3 DEF VirtualNow
  <2>2. clocks.coarse - clocks.coarse = 0 /\ Scaled(0, to) = 0
    <3>1. clocks.coarse - clocks.coarse = 0
      BY <1>3
    <3> QED
      BY <1>3, <3>1, ScaledFacts
  <2>3. VirtualNow + 0 = VirtualNow
    BY <1>2
  <2> QED
    BY <2>1, <2>2, <2>3 DEF ToVirtual
<1>8. ASSUME NEW c \in Clocks
      PROVE  SeenInv(c)'
  <2>1. Lapse(c) \in Nat /\ seen[c] \in Int
    BY LapseFacts DEF Clocks, ClockTypes
  <2>2. CASE ~Unset
    BY <1>1, <1>4, <1>7, <2>2 DEF SeenInv
  <2>3. CASE Unset
    <3>1. VirtualNow = Double(clocks.coarse)
      <4>1. VirtualNow = ToVirtual(clocks.coarse, Unit, 0, 0)
        BY <1>1, <2>3 DEF VirtualNow, Anchored
      <4>2. clocks.coarse - 0 = clocks.coarse /\ Double(clocks.coarse) \in Nat
        BY <1>3, DoubleFacts
      <4>3. VirtualNow = 0 + Scaled(clocks.coarse - 0, Unit)
        BY <4>1 DEF ToVirtual
      <4>4. Scaled(clocks.coarse, Unit) = Double(clocks.coarse)
        BY <1>3, ScaledFacts
      <4> QED
        BY <4>2, <4>3, <4>4
    <3>2. clocks.coarse - Double(clocks.coarse) <= Grain \div 2 /\ Double(clocks.coarse) \in Nat
          /\ Grain \div 2 \in Nat
      BY <1>3, DoubleFacts, SpeedsAssumption
    <3>3. seen[c] <= clocks[c] /\ clocks.precise \in Nat
      BY <2>3 DEF SeenInv, ClockTypes, Clocks
    <3>4. clocks[c] <= VirtualNow + Lapse(c)
      <4>1. CASE domain = "Counter"
        <5>1. clocks.coarse <= Exact /\ clocks[c] = clocks.coarse
          BY <1>3, <3>3, <4>1, ClockConstants DEF ClockTypes, Clocks
        <5> QED
          BY <1>3, <2>1, <3>1, <5>1, DoubleFacts
      <4>2. CASE domain = "FileTime" /\ c = "coarse"
        BY <1>3, <3>1, <3>2, <4>2, LapseFacts
      <4>3. CASE domain = "FileTime" /\ c = "precise"
        <5>1. clocks.precise - clocks.coarse <= TickLapse /\ TickLapse \in Nat
          BY <1>3, <3>3, ClockConstants, LagFacts, SpeedsAssumption DEF ClockTypes
        <5> QED
          BY <1>3, <3>1, <3>2, <3>3, <4>3, <5>1, LapseFacts
      <4> QED
        BY <4>1, <4>2, <4>3 DEF ClockTypes, Clocks
    <3>5. clocks[c] \in Nat
      BY DEF ClockTypes
    <3> QED
      BY <1>1, <1>2, <1>4, <1>7, <2>1, <3>3, <3>4, <3>5 DEF SeenInv
  <2> QED
    BY <2>2, <2>3
<1>9. ASSUME NEW r \in Readers
      PROVE  ReadInv(r)'
  <2>1. /\ reading'[r].at = reading[r].at /\ reading'[r].after = reading[r].after
        /\ reading'[r].value = reading[r].value /\ reading'[r].clock = reading[r].clock
        /\ reading'[r].quiet <=> reading[r].quiet /\ ~InRead(r)
    BY <1>1 DEF ReadingType, Readings
  <2>2. InRead(r)' = InRead(r)
    BY <2>1 DEF InRead
  <2> QED
    BY <1>4, <2>1, <2>2 DEF ReadInv
<1> QED
  BY <1>5, <1>6, <1>8, <1>9

LEMMA StoreKeeps ==
  ASSUME ClockInv, StoreBase \/ StoreOffset \/ StoreSpeed \/ EndSet
  PROVE  ClockInv'
<1> USE DEF ClockInv
<1>1. /\ setter.at \in {"Base", "Offset", "Speed", "Active"}
      /\ UNCHANGED <<clocks, domain, reading, seen>>
  BY DEF StoreBase, StoreOffset, StoreSpeed, EndSet, SetterAt
<1>2. setter # NoChange
  BY <1>1 DEF NoChange
<1>3. /\ setter.by # NoSetter /\ setter.by \in Setters /\ setter.to \in Speeds /\ setter.to \in Nat
      /\ setter.realNow \in Nat /\ Start <= setter.realNow /\ setter.realNow <= clocks.coarse
      /\ setter.virtualNow \in Nat /\ ~Unset
      /\ setter.at # "Base" => realBase = setter.realNow
      /\ setter.at \in {"Speed", "Active"} => virtualOffset = setter.virtualNow
      /\ setter.at = "Active" => speed = setter.to
  BY <1>2, ClockConstants DEF Change, Unset
<1>4. Start' = Start /\ Lag' = Lag /\ \A c : Lapse(c)' = Lapse(c)
  BY <1>1 DEF Start, Lag, Lapse
<1>5. ClockTypes' /\ Change' /\ Anchored' /\ ~Unset' /\ VirtualNow' = VirtualNow
  <2>1. CASE StoreBase
    <3>1. /\ setter.at = "Base" /\ setter' = [setter EXCEPT !.at = "Offset"]
          /\ realBase' = setter.realNow /\ UNCHANGED <<speed, virtualOffset, scalingActive>>
      BY <2>1 DEF StoreBase, SetterAt
    <3>2. /\ setter'.by = setter.by /\ setter'.to = setter.to /\ setter'.realNow = setter.realNow
          /\ setter'.virtualNow = setter.virtualNow /\ setter'.at = "Offset"
      BY <1>3, <3>1 DEF Change
    <3> QED
      BY <1>1, <1>3, <1>4, <3>1, <3>2 DEF ClockTypes, Change, Anchored, Unset, VirtualNow
  <2>2. CASE StoreOffset
    <3>1. /\ setter.at = "Offset" /\ setter' = [setter EXCEPT !.at = "Speed"]
          /\ virtualOffset' = setter.virtualNow /\ UNCHANGED <<speed, realBase, scalingActive>>
      BY <2>2 DEF StoreOffset, SetterAt
    <3>2. /\ setter'.by = setter.by /\ setter'.to = setter.to /\ setter'.realNow = setter.realNow
          /\ setter'.virtualNow = setter.virtualNow /\ setter'.at = "Speed"
      BY <1>3, <3>1 DEF Change
    <3> QED
      BY <1>1, <1>3, <1>4, <3>1, <3>2 DEF ClockTypes, Change, Anchored, Unset, VirtualNow
  <2>3. CASE StoreSpeed
    <3>1. /\ setter.at = "Speed" /\ setter' = [setter EXCEPT !.at = "Active"]
          /\ speed' = setter.to /\ UNCHANGED <<virtualOffset, realBase, scalingActive>>
      BY <2>3 DEF StoreSpeed, SetterAt
    <3>2. /\ setter'.by = setter.by /\ setter'.to = setter.to /\ setter'.realNow = setter.realNow
          /\ setter'.virtualNow = setter.virtualNow /\ setter'.at = "Active"
      BY <1>3, <3>1 DEF Change
    <3> QED
      BY <1>1, <1>3, <1>4, <3>1, <3>2 DEF ClockTypes, Change, Anchored, Unset, VirtualNow
  <2>4. CASE EndSet
    <3>1. /\ setter.at = "Active" /\ setter' = NoChange /\ scalingActive' = TRUE
          /\ UNCHANGED <<speed, virtualOffset, realBase>>
      BY <2>4 DEF EndSet
    <3>2. setter'.by = NoSetter
      BY <3>1, ClockConstants
    <3> QED
      BY <1>1, <1>3, <1>4, <3>1, <3>2 DEF ClockTypes, Change, Anchored, Unset, VirtualNow
  <2> QED
    BY <2>1, <2>2, <2>3, <2>4
<1>6. ReadingType' /\ \A c \in Clocks : SeenInv(c)'
  BY <1>1, <1>3, <1>4, <1>5 DEF ReadingType, Readings, SeenInv
<1>7. \A t \in Readers : ReadInv(t)'
  BY <1>1, <1>3, WhileChanging
<1> QED
  BY <1>5, <1>6, <1>7

(* The reads.  Only the reader's own record changes, and what was seen.    *)
LEMMA ReaderKeeps ==
  ASSUME ClockInv, NEW t \in Readers, Keeps, NEW next \in Readings, reading' = [reading EXCEPT ![t] = next],
         seen' \in [Clocks -> Int],
         \A c \in Clocks : seen'[c] <= IF Unset THEN clocks[c] ELSE VirtualNow + Lapse(c),
         next.at \notin {"Outside", "Done"} /\ next.quiet => Quiet(next),
         next.at = "Done" /\ next.quiet => next.after - next.value <= Lapse(next.clock)
  PROVE  ClockInv'
<1> USE DEF ClockInv
<1>1. UNCHANGED <<clocks, domain, speed, realBase, virtualOffset, scalingActive, setter>>
  BY DEF Keeps, clockVars
<1>2. /\ Start' = Start /\ Lag' = Lag /\ (Unset' <=> Unset) /\ VirtualNow' = VirtualNow
      /\ \A c : Lapse(c)' = Lapse(c)
  BY <1>1 DEF Start, Lag, Unset, VirtualNow, Lapse
<1>3. ClockTypes' /\ Change' /\ Anchored' /\ \A c \in Clocks : SeenInv(c)'
  BY <1>1, <1>2 DEF ClockTypes, Change, Anchored, SeenInv
<1>4. ReadingType'
  BY DEF ReadingType
<1>5. \A r : Quiet(r) => Quiet(r)'
  BY <1>1, <1>2 DEF Quiet, Told
<1>6. ReadInv(t)'
  <2>1. reading'[t] = next
    BY DEF ReadingType
  <2>2. InRead(t)' <=> next.at \notin {"Outside", "Done"}
    BY <2>1 DEF InRead
  <2>3. Quiet(next) => Quiet(reading[t])'
    BY <1>1, <1>2, <2>1 DEF Quiet, Told
  <2> QED
    BY <1>2, <2>1, <2>2, <2>3 DEF ReadInv
<1>7. ASSUME NEW u \in Readers, u # t
      PROVE  ReadInv(u)'
  <2>1. reading'[u] = reading[u]
    BY <1>7 DEF ReadingType
  <2>2. Quiet(reading[u]) => Quiet(reading[u])'
    BY <1>1, <1>2, <2>1 DEF Quiet, Told
  <2> QED
    BY <1>2, <2>1, <2>2 DEF ReadInv, InRead
<1> QED
  BY <1>3, <1>4, <1>6, <1>7

(* A read begins with what was seen by then. *)
LEMMA BeginReadKeeps ==
  ASSUME ClockInv, NEW t \in Readers, (\E c \in Clocks : ReadReal(t, c)) \/ AskFirst(t)
  PROVE  ClockInv'
<1> USE DEF ClockInv
<1>1. /\ clocks \in [Clocks -> Nat] /\ clocks.coarse \in Nat /\ clocks.coarse <= clocks.precise /\ seen \in [Clocks -> Int]
      /\ setter.by = NoSetter => realBase <= clocks.coarse
      /\ realBase \in Nat /\ clocks.precise \in Nat
  BY VirtualNowFacts DEF ClockTypes, Clocks
<1>2. ASSUME setter.by = NoSetter, NEW c \in Clocks
      PROVE  seen[c] <= Told(clocks[c]) + Lapse(c)
  <2>1. Lapse(c) \in Nat /\ VirtualNow \in Nat /\ seen[c] \in Int /\ clocks[c] \in Nat
    BY <1>1, LapseFacts, VirtualNowFacts DEF Clocks
  <2>2. CASE Unset
    BY <2>1, <2>2 DEF SeenInv, Told
  <2>3. CASE ~Unset
    <3>1. clocks.coarse <= clocks[c] /\ speed \in Nat /\ virtualOffset \in Nat
      BY <1>1, ClockConstants DEF Clocks, ClockTypes
    <3>2. Told(clocks[c]) = ToVirtual(clocks[c], speed, realBase, virtualOffset)
      BY <2>3 DEF Told
    <3>3. VirtualNow = ToVirtual(clocks.coarse, speed, realBase, virtualOffset)
      BY <1>2 DEF VirtualNow
    <3>4. VirtualNow <= Told(clocks[c]) /\ Told(clocks[c]) \in Nat
      <4>1. PICK now \in Nat, later \in Nat :
              now = clocks.coarse /\ later = clocks[c] /\ realBase <= now /\ now <= later
        BY <1>1, <1>2, <2>1, <3>1
      <4>2. /\ ToVirtual(later, speed, realBase, virtualOffset) \in Nat
            /\ ToVirtual(now, speed, realBase, virtualOffset) <= ToVirtual(later, speed, realBase, virtualOffset)
        BY <1>1, <3>1, <4>1, VirtualMonotone
      <4> QED
        BY <3>2, <3>3, <4>1, <4>2
    <3>5. seen[c] <= VirtualNow + Lapse(c)
      BY <2>3 DEF SeenInv
    <3> QED
      BY <2>1, <3>4, <3>5
  <2> QED
    BY <2>2, <2>3
<1>3. \A c \in Clocks : seen[c] <= IF Unset THEN clocks[c] ELSE VirtualNow + Lapse(c)
  BY DEF SeenInv
<1>4. ASSUME NEW c \in Clocks, ReadReal(t, c)
      PROVE  ClockInv'
  <2>1. PICK next : next = [Reading("Engaged", c) EXCEPT !.real = clocks[c]]
    OBVIOUS
  <2>2. reading' = [reading EXCEPT ![t] = next] /\ Keeps /\ seen' = seen
    BY <1>4, <2>1 DEF ReadReal, Begins
  <2>3. /\ next.at = "Engaged" /\ next.clock = c /\ next.real = clocks[c] /\ next.after = seen[c]
        /\ (next.quiet <=> setter.by = NoSetter)
    BY <2>1 DEF Reading
  <2>4. next \in Readings
    <3>1. clocks[c] \in Nat /\ seen[c] \in Int /\ Unit \in Nat
      BY <1>1, ClockConstants
    <3>2. PICK quiet, brief \in BOOLEAN :
            next = [at |-> "Engaged", clock |-> c, real |-> clocks[c], speed |-> Unit, base |-> 0, value |-> 0,
                    after |-> seen[c], quiet |-> quiet, brief |-> brief]
      BY <2>1 DEF Reading
    <3> QED
      BY <3>1, <3>2 DEF Readings
  <2>5. next.quiet => Quiet(next)
    <3> SUFFICES ASSUME setter.by = NoSetter
                 PROVE  Quiet(next)
      BY <2>3
    <3>1. realBase <= clocks[c] /\ clocks[c] <= clocks[c]
      BY <1>1 DEF Clocks
    <3> QED
      BY <1>2, <2>3, <3>1 DEF Quiet
  <2> QED
    BY <1>1, <1>3, <2>2, <2>3, <2>4, <2>5, ReaderKeeps
<1>5. ASSUME AskFirst(t)
      PROVE  ClockInv'
  <2>1. PICK next : next = Reading(IF scalingActive THEN "ToScale" ELSE "AsItIs", "coarse")
    OBVIOUS
  <2>2. reading' = [reading EXCEPT ![t] = next] /\ Keeps /\ seen' = seen
    BY <1>5, <2>1 DEF AskFirst, Begins
  <2>3. /\ next.at = (IF scalingActive THEN "ToScale" ELSE "AsItIs")
        /\ next.clock = "coarse" /\ next.after = seen["coarse"]
        /\ (next.quiet <=> setter.by = NoSetter)
    BY <2>1 DEF Reading
  <2>4. next \in Readings
    BY <1>1, <2>1, ClockConstants DEF Reading, Readings
  <2>5. next.quiet => Quiet(next)
    <3> SUFFICES ASSUME setter.by = NoSetter
                 PROVE  Quiet(next)
      BY <2>3
    <3>1. next.at = "AsItIs" <=> Unset
      BY <2>3 DEF Unset
    <3>2. next.after <= Told(clocks.coarse) + Lapse("coarse")
      BY <1>2, <2>3, ClockConstants
    <3> QED
      BY <2>3, <3>1, <3>2 DEF Quiet
  <2>6. next.at \notin {"Outside", "Done"}
    BY <2>3
  <2> QED
    BY <1>1, <1>3, <2>2, <2>4, <2>5, <2>6, ReaderKeeps
<1> QED
  BY <1>4, <1>5

LEMMA LoadKeeps ==
  ASSUME ClockInv, NEW t \in Readers,
         \/ LoadSpeed(t) \/ LoadBase(t) \/ (ScalingEngaged(t) /\ scalingActive)
         \/ ReadLate(t) /\ reading[t].at = "ToScale"
  PROVE  ClockInv'
<1> USE DEF ClockInv
<1>0. /\ clocks \in [Clocks -> Nat] /\ clocks.coarse \in Nat /\ seen \in [Clocks -> Int] /\ speed \in Nat
      /\ realBase \in Nat /\ (setter.by = NoSetter => realBase <= clocks.coarse)
      /\ \A c \in Clocks : seen[c] <= IF Unset THEN clocks[c] ELSE VirtualNow + Lapse(c)
      /\ reading[t] \in Readings
  BY ClockConstants, VirtualNowFacts DEF ClockTypes, SeenInv, Clocks, ReadingType
<1>1. CASE ~(ReadLate(t) /\ reading[t].at = "ToScale")
  <2>1. PICK next : /\ reading' = [reading EXCEPT ![t] = next] /\ Keeps /\ seen' = seen
                    /\ \/ reading[t].at = "Engaged" /\ scalingActive /\ next = [reading[t] EXCEPT !.at = "Speed"]
                       \/ reading[t].at = "Speed" /\ next = [reading[t] EXCEPT !.at = "Base", !.speed = speed]
                       \/ reading[t].at = "Base" /\ next = [reading[t] EXCEPT !.at = "Offset", !.base = realBase]
    BY <1>1 DEF LoadSpeed, LoadBase, ScalingEngaged, Goes
  <2>2. next \in Readings
    BY <1>0, <2>1 DEF Readings
  <2>3. /\ next.quiet = reading[t].quiet /\ next.real = reading[t].real /\ next.after = reading[t].after
        /\ next.at \in {"Speed", "Base", "Offset"} /\ next.clock = reading[t].clock
    BY <1>0, <2>1 DEF Readings
  <2>4. reading[t].at \in {"Engaged", "Speed", "Base"} /\ InRead(t)
    BY <2>1 DEF InRead
  <2>5. Quiet(reading[t]) => Quiet(next)
    <3> SUFFICES ASSUME Quiet(reading[t])
                 PROVE  Quiet(next)
      OBVIOUS
    <3>1. CASE reading[t].at = "Engaged"
      BY <1>0, <2>1, <2>3, <3>1 DEF Quiet, Unset, Readings
    <3>2. CASE reading[t].at = "Speed"
      BY <1>0, <2>1, <2>3, <3>2 DEF Quiet, Readings
    <3>3. CASE reading[t].at = "Base"
      BY <1>0, <2>1, <2>3, <3>3 DEF Quiet, Readings
    <3> QED
      BY <2>4, <3>1, <3>2, <3>3
  <2>6. next.quiet => Quiet(next)
    BY <2>3, <2>4, <2>5 DEF ReadInv
  <2> QED
    BY <1>0, <2>1, <2>2, <2>3, <2>6, ReaderKeeps
<1>2. CASE ReadLate(t) /\ reading[t].at = "ToScale"
  <2>1. PICK next : next = [reading[t] EXCEPT !.at = "Speed", !.real = clocks.coarse]
    OBVIOUS
  <2>2. reading' = [reading EXCEPT ![t] = next] /\ Keeps /\ seen' = seen
    BY <1>2, <2>1 DEF ReadLate, Returns, Goes
  <2>3. next \in Readings
    BY <1>0, <2>1 DEF Readings
  <2>4. /\ next.quiet = reading[t].quiet /\ next.real = clocks.coarse /\ next.after = reading[t].after
        /\ next.at = "Speed" /\ next.clock = reading[t].clock
    BY <1>0, <2>1 DEF Readings
  <2>5. Quiet(reading[t]) => Quiet(next)
    BY <1>0, <1>2, <2>4 DEF Quiet
  <2>6. next.quiet => Quiet(next)
    BY <1>2, <2>4, <2>5 DEF ReadInv, InRead
  <2> QED
    BY <1>0, <2>2, <2>3, <2>4, <2>6, ReaderKeeps
<1> QED
  BY <1>1, <1>2

LEMMA ReturnKeeps ==
  ASSUME ClockInv, NEW t \in Readers, NEW at, NEW value \in Int, Returns(t, at, value), InRead(t),
         reading[t].quiet =>
           /\ reading[t].after <= value + Lapse(reading[t].clock)
           /\ value <= IF Unset THEN clocks[reading[t].clock] ELSE VirtualNow + Lapse(reading[t].clock)
  PROVE  ClockInv'
<1> USE DEF ClockInv
<1>1. PICK next : next = [reading[t] EXCEPT !.at = "Done", !.value = value, !.real = 0, !.speed = Unit, !.base = 0]
  OBVIOUS
<1>2. /\ reading' = [reading EXCEPT ![t] = next] /\ Keeps
      /\ seen' = [seen EXCEPT ![reading[t].clock] = IF reading[t].quiet /\ value > @ THEN value ELSE @]
  BY <1>1 DEF Returns, Goes
<1>3. reading[t] \in Readings /\ reading[t].clock \in Clocks /\ reading[t].after \in Int /\ seen \in [Clocks -> Int]
  BY DEF ReadingType, Readings, ClockTypes
<1>4. next \in Readings
  BY <1>1, <1>3, ClockConstants DEF Readings
<1>5. /\ next.at = "Done" /\ next.value = value /\ next.after = reading[t].after /\ next.quiet = reading[t].quiet
      /\ next.clock = reading[t].clock
  BY <1>1, <1>3 DEF Readings
<1>6. Lapse(reading[t].clock) \in Nat
  BY <1>3, LapseFacts DEF Clocks
<1>7. seen' \in [Clocks -> Int]
  BY <1>2, <1>3
<1>8. ASSUME NEW c \in Clocks
      PROVE  seen'[c] <= IF Unset THEN clocks[c] ELSE VirtualNow + Lapse(c)
  <2>1. seen'[c] = IF c = reading[t].clock /\ reading[t].quiet /\ value > seen[c] THEN value ELSE seen[c]
    BY <1>2, <1>3
  <2>2. seen[c] <= IF Unset THEN clocks[c] ELSE VirtualNow + Lapse(c)
    BY DEF SeenInv
  <2> QED
    BY <2>1, <2>2
<1>9. next.quiet => next.after - next.value <= Lapse(next.clock)
  BY <1>3, <1>5, <1>6
<1> QED
  BY <1>2, <1>4, <1>5, <1>7, <1>8, <1>9, ReaderKeeps

LEMMA EndReadKeeps ==
  ASSUME ClockInv, NEW t \in Readers,
         \/ LoadOffset(t) \/ (ScalingEngaged(t) /\ ~scalingActive)
         \/ ReadLate(t) /\ reading[t].at # "ToScale"
  PROVE  ClockInv'
<1> USE DEF ClockInv
<1>0. /\ reading[t] \in Readings /\ reading[t].clock \in Clocks /\ reading[t].real \in Nat
      /\ clocks \in [Clocks -> Nat] /\ clocks.coarse \in Nat
  BY DEF ReadingType, Readings, ClockTypes, Clocks
<1>1. ASSUME Quiet(reading[t]), reading[t].at \in {"Engaged", "Speed", "Base", "Offset"}
      PROVE  /\ reading[t].after <= Told(reading[t].real) + Lapse(reading[t].clock)
             /\ Told(reading[t].real) <=
                  IF Unset THEN clocks[reading[t].clock] ELSE VirtualNow + Lapse(reading[t].clock)
  BY <1>0, <1>1, ToldFacts DEF Quiet
<1>2. CASE LoadOffset(t)
  <2>1. PICK value : value = ToVirtual(reading[t].real, reading[t].speed, reading[t].base, virtualOffset)
    OBVIOUS
  <2>2. Returns(t, "Offset", value) /\ InRead(t) /\ reading[t].at = "Offset"
    BY <1>2, <2>1 DEF LoadOffset, Returns, Goes, InRead
  <2>3. value \in Int
    <3>1. /\ reading[t].speed \in Nat /\ reading[t].base \in Nat /\ virtualOffset \in Nat
      BY <1>0 DEF Readings, ClockTypes
    <3>2. PICK d \in Int : d = reading[t].real - reading[t].base
      BY <1>0, <3>1
    <3>3. Scaled(d, reading[t].speed) \in Int
      <4>1. CASE d >= 0
        <5>1. d \in Nat
          BY <3>2, <4>1
        <5>2. Scaled(d, reading[t].speed) \in Nat
          BY <3>1, <5>1, ScaledFacts
        <5> QED
          BY <5>2
      <4>2. CASE ~(d >= 0)
        <5>0. PICK m \in Nat : m = -d
          BY <3>2, <4>2
        <5>1. -d \in Nat /\ Scaled(-d, reading[t].speed) \in Nat
          BY <3>1, <5>0, ScaledFacts
        <5>2. Scaled(d, reading[t].speed) = -Scaled(-d, reading[t].speed)
          BY <4>2, <5>1 DEF Scaled
        <5> QED
          BY <5>1, <5>2
      <4> QED
        BY <4>1, <4>2
    <3> QED
      BY <2>1, <3>1, <3>2, <3>3 DEF ToVirtual
  <2>4. ASSUME reading[t].quiet
        PROVE  Quiet(reading[t]) /\ value = Told(reading[t].real)
    <3>1. Quiet(reading[t])
      BY <2>2, <2>4 DEF ReadInv
    <3> QED
      BY <2>1, <2>2, <3>1 DEF Quiet, Told
  <2> QED
    BY <1>1, <2>2, <2>3, <2>4, ReturnKeeps
<1>3. CASE ScalingEngaged(t) /\ ~scalingActive
  <2>1. Returns(t, "Engaged", reading[t].real) /\ InRead(t) /\ reading[t].at = "Engaged"
    BY <1>3 DEF ScalingEngaged, Returns, Goes, InRead
  <2>2. ASSUME reading[t].quiet
        PROVE  Quiet(reading[t]) /\ reading[t].real = Told(reading[t].real)
    <3>1. Quiet(reading[t])
      BY <2>1, <2>2 DEF ReadInv
    <3> QED
      BY <1>3, <3>1 DEF Quiet, Told, Unset
  <2> QED
    BY <1>0, <1>1, <2>1, <2>2, ReturnKeeps
<1>4. CASE ReadLate(t) /\ reading[t].at # "ToScale"
  <2>1. Returns(t, "AsItIs", clocks.coarse) /\ InRead(t) /\ reading[t].at = "AsItIs"
    BY <1>4 DEF ReadLate, Returns, Goes, InRead
  <2>2. ASSUME reading[t].quiet
        PROVE  /\ reading[t].after <= clocks.coarse + Lapse(reading[t].clock)
               /\ clocks.coarse <= IF Unset THEN clocks[reading[t].clock] ELSE VirtualNow + Lapse(reading[t].clock)
    <3>1. Quiet(reading[t])
      BY <2>1, <2>2 DEF ReadInv
    <3>2. Unset /\ reading[t].clock = "coarse"
      BY <2>1, <3>1 DEF Quiet
    <3> QED
      BY <1>0, <2>1, <3>1, <3>2 DEF Quiet, Told
  <2> QED
    BY <1>0, <2>1, <2>2, ReturnKeeps
<1> QED
  BY <1>2, <1>3, <1>4

(* Time and changes move virtual time forward, reads return no more than it. *)
LEMMA ClockInvStep ==
  ASSUME ClockInv, [SpeedhackNext]_speedhackVars
  PROVE  ClockInv'
<1>1. CASE UNCHANGED speedhackVars
  BY <1>1 DEF speedhackVars, clockVars, ClockInv, ClockTypes, Start, Lag, Change, Anchored, Unset, ReadingType,
              SeenInv, VirtualNow, Lapse, ReadInv, InRead, Quiet, Told
<1>2. ASSUME NEW t \in Readers, LoadSpeed(t) \/ LoadBase(t) \/ LoadOffset(t) \/ ScalingEngaged(t) \/ ReadLate(t)
      PROVE  ClockInv'
  BY <1>2, LoadKeeps, EndReadKeeps
<1> QED
  BY <1>1, <1>2, TickKeeps, BeginSetKeeps, StoreKeeps, BeginReadKeeps DEF SpeedhackNext

LEMMA ClockInvariant == SpeedhackSpec => []ClockInv
<1>1. SpeedhackInit => ClockInv
  BY ClockInvInit
<1>2. ClockInv /\ [SpeedhackNext]_speedhackVars => ClockInv'
  BY ClockInvStep
<1> QED
  BY <1>1, <1>2, PTL DEF SpeedhackSpec

(***************************************************************************)
(* Speedhack.cpp, SetSpeed and the hooked clocks: for any threads and      *)
(* speeds, and however loads, stores and changes are interleaved, a read   *)
(* that no change meets half-way returns no earlier time than any such     *)
(* read of that clock before it, on whatever thread; a file time may, by   *)
(* what the first double loses and, on the precise clock, by a timer tick  *)
(* at the highest speed.                                                   *)
(***************************************************************************)
THEOREM ClockNeverGoesBackHolds == SpeedhackSpec => []ClockNeverGoesBack
<1>1. ClockInv => ClockNeverGoesBack
  BY DEF ClockInv, ReadInv, ClockNeverGoesBack
<1> QED
  BY <1>1, ClockInvariant, PTL
-----------------------------------------------------------------------------
(* SessionScripts *)

Names == Profiles \union {NoProfile}

Snapshots ==
  [state : States, wait : BOOLEAN, name : Names, count : Nat, inSession : BOOLEAN]

SessionTypeOK ==
  /\ gameState \in States
  /\ moved \in BOOLEAN
  /\ gameSession \in Nat \union {None}
  /\ sessions \in Nat
  /\ waitForProfile \in BOOLEAN
  /\ checks \in Nat
  /\ profile \in [name : Names, count : Nat]
  /\ tick \in {"Asleep", "Latch", "Profile", "Drive"}
  /\ current \in Snapshots
  /\ previous \in Snapshots
  /\ paths \in Names
  /\ gameScript \in [paths : Names, session : Nat] \union {None}
  /\ {unserved, unloaded} \subseteq BOOLEAN

(* The latch of the session and the session. *)
LatchInv ==
  /\ gameState = "InGame" => gameSession # None
  /\ gameState = "Menu" => gameSession = None
  /\ InSession(gameState) <=> gameSession # None
  /\ tick = "Asleep" /\ ~moved => (previous.inSession <=> gameSession # None)
  /\ tick # "Asleep" =>
       /\ current.state = gameState /\ ~moved
       /\ current.inSession = InSession(gameState)
  /\ previous.state = "InGame" => previous.inSession
  /\ previous.state = "Menu" => ~previous.inSession

(* A script that is not the session's is one that the latch kept, or whose *)
(* session has ended since the last tick.                                  *)
ScriptInv ==
  /\ ~unserved =>
       IF previous.inSession
       THEN gameScript # None /\ gameSession \in {None, gameScript.session}
       ELSE gameScript = None
  /\ gameScript # None =>
       /\ gameScript.session <= sessions
       /\ gameSession = gameScript.session => previous.inSession
  /\ gameSession # None => gameSession <= sessions

(* Switches are counted upwards, and a name once given is never taken.     *)
ProfileInv ==
  /\ previous.count <= profile.count
  /\ tick = "Drive" => previous.count <= current.count /\ current.count <= profile.count
  /\ previous.name # NoProfile => profile.name # NoProfile
  /\ tick = "Drive" /\ previous.name # NoProfile => current.name # NoProfile
  /\ paths # NoProfile => previous.name # NoProfile
  /\ tick = "Drive" /\ current.name # NoProfile => profile.name # NoProfile
  /\ ~previous.wait /\ ~unloaded => paths = Folded[previous.name]

SessionInv == SessionTypeOK /\ LatchInv /\ ScriptInv /\ ProfileInv

-----------------------------------------------------------------------------
LEMMA InitHolds == SessionInit => SessionInv
<1> SUFFICES ASSUME SessionInit
             PROVE  SessionInv
  OBVIOUS
<1>1. /\ previous = [state |-> "Null", wait |-> FALSE, name |-> NoProfile,
                     count |-> 0, inSession |-> FALSE]
      /\ current = previous
  BY DEF SessionInit, Snapshot
<1>2. previous \in Snapshots
  BY <1>1 DEF Snapshots, States, Names
<1>3. /\ previous.state = "Null" /\ ~previous.wait /\ ~previous.inSession
      /\ previous.name = NoProfile /\ previous.count = 0
  BY <1>1
<1>4. /\ gameState = "Null" /\ moved = FALSE /\ gameSession = None /\ sessions = 0
      /\ waitForProfile \in BOOLEAN /\ checks = 0 /\ profile = [name |-> NoProfile, count |-> 0]
      /\ tick = "Asleep" /\ paths = NoProfile /\ gameScript = None
      /\ unserved = FALSE /\ unloaded = FALSE
  BY DEF SessionInit
<1>5. SessionTypeOK
  BY <1>1, <1>2, <1>4 DEF SessionTypeOK, States, Names
<1>6. LatchInv
  BY <1>3, <1>4 DEF LatchInv, InSession
<1>7. ScriptInv
  BY <1>3, <1>4 DEF ScriptInv
<1>8. ProfileInv
  BY <1>3, <1>4, SessionAssumption DEF ProfileInv
<1> QED
  BY <1>5, <1>6, <1>7, <1>8 DEF SessionInv

(* What a tick starts from is a path and a session. *)
LEMMA ResolvedTypes ==
  ASSUME SessionTypeOK, NEW found \in BOOLEAN
  PROVE  ResolvedPaths(found) \in Names
BY SessionAssumption DEF SessionTypeOK, ResolvedPaths, Reloads, Snapshots, Names

LEMMA MovesStep ==
  ASSUME SessionInv, GameMoves
  PROVE  SessionInv'
<1> USE DEF SessionInv, SessionTypeOK, GameMoves, configVars, startedVars, servedVars
<1>1. SessionTypeOK'
  OBVIOUS
<1>2. CASE gameState' = "InGame" /\ gameSession = None
  <2>1. sessions' \in Nat /\ gameSession' = sessions' /\ sessions' = sessions + 1
    BY <1>2
  <2>2. gameSession' # None
    BY <2>1, SessionAssumption
  <2>3. gameScript # None => gameScript.session \in Nat /\ gameScript.session <= sessions
    BY DEF ScriptInv
  <2>4. ScriptInv'
    <3>1. gameScript # None => gameSession' # gameScript'.session /\ gameScript'.session <= sessions'
      BY <2>1, <2>3
    <3>2. previous.inSession = FALSE
      BY <1>2 DEF LatchInv, Snapshots
    <3> QED
      BY <1>2, <2>1, <3>1, <3>2 DEF ScriptInv
  <2> QED
    BY <1>1, <1>2, <2>2, <2>4 DEF LatchInv, ProfileInv, InSession
<1>3. CASE ~(gameState' = "InGame" /\ gameSession = None)
  <2>1. gameSession' \in {None, gameSession} /\ UNCHANGED sessions
    BY <1>3
  <2>2. ScriptInv'
    <3>1. gameScript # None => gameScript.session \in Nat
      OBVIOUS
    <3> QED
      BY <2>1, <3>1, SessionAssumption DEF ScriptInv
  <2> QED
    BY <1>1, <1>3, <2>2 DEF LatchInv, ProfileInv, InSession, States
<1> QED
  BY <1>2, <1>3

LEMMA ProfileStep ==
  ASSUME SessionInv, NEW n \in Profiles, SetProfileName(n) \/ SwitchProfileName(n)
  PROVE  SessionInv'
<1> USE DEF SessionInv, SessionTypeOK
<1>1. /\ profile' \in [name : Names, count : Nat]
      /\ profile'.name = n /\ profile'.count >= profile.count
      /\ waitForProfile' = FALSE
      /\ UNCHANGED <<gameVars, checks, tick, current, previous, startedVars, servedVars>>
  BY DEF SetProfileName, SwitchProfileName, Names
<1>2. n # NoProfile
  BY SessionAssumption
<1>3. SessionTypeOK'
  BY <1>1 DEF gameVars, startedVars, servedVars
<1>4. LatchInv' /\ ScriptInv'
  BY <1>1 DEF gameVars, startedVars, servedVars, LatchInv, ScriptInv, InSession
<1>5. ProfileInv'
  BY <1>1, <1>2 DEF gameVars, startedVars, servedVars, ProfileInv, Snapshots
<1> QED
  BY <1>3, <1>4, <1>5

LEMMA CheckStep ==
  ASSUME SessionInv, CheckWaitForProfile
  PROVE  SessionInv'
<1> USE DEF SessionInv, SessionTypeOK, CheckWaitForProfile, gameVars, startedVars, servedVars
<1>1. SessionTypeOK'
  OBVIOUS
<1>2. LatchInv' /\ ScriptInv'
  BY DEF LatchInv, ScriptInv, InSession
<1>3. ProfileInv'
  BY DEF ProfileInv
<1> QED
  BY <1>1, <1>2, <1>3

LEMMA ReadStep ==
  ASSUME SessionInv, ReadState \/ ReadLatch \/ ReadProfile
  PROVE  SessionInv'
<1> USE DEF SessionInv, SessionTypeOK, Snapshots
<1>1. CASE ReadState
  <2>1. InSession(gameState) \in BOOLEAN
    BY DEF InSession, States
  <2> QED
    BY <1>1, <2>1 DEF ReadState, configVars, startedVars, servedVars, LatchInv, ScriptInv, ProfileInv, InSession
<1>2. CASE ReadLatch
  BY <1>2 DEF ReadLatch, gameVars, configVars, startedVars, servedVars, LatchInv, ScriptInv, ProfileInv, InSession
<1>3. CASE ReadProfile
  <2> USE <1>3 DEF ReadProfile, gameVars, configVars, startedVars, servedVars
  <2>1. /\ current'.state = current.state /\ current'.wait = current.wait
        /\ current'.inSession = current.inSession
        /\ current'.name = profile.name /\ current'.count = profile.count
    OBVIOUS
  <2>2. SessionTypeOK'
    OBVIOUS
  <2>3. LatchInv'
    BY <2>1 DEF LatchInv, InSession
  <2>4. ScriptInv'
    BY <2>1 DEF ScriptInv
  <2>5. ProfileInv'
    BY <2>1 DEF ProfileInv
  <2> QED
    BY <2>2, <2>3, <2>4, <2>5
<1> QED
  BY <1>1, <1>2, <1>3

(* A session is entered at the state InGame and left at Menu, and so the   *)
(* state has changed.                                                      *)
LEMMA LatchDrives ==
  ASSUME SessionInv, tick = "Drive"
  PROVE  /\ Entered => current.state = "InGame" /\ Drives
         /\ Exited => current.state = "Menu" /\ Drives
BY DEF SessionInv, SessionTypeOK, LatchInv, Entered, Exited, Drives, StateChanged,
       InSession, Snapshots, States

(* What happens to the in-game script in a tick that may start scripts.    *)
LEMMA ScriptNext ==
  ASSUME SessionInv, tick = "Drive", NEW from
  PROVE  \/ /\ GameScriptDue
            /\ GameScriptNext(from) \in {None, [paths |-> from, session |-> gameSession]}
            /\ Entered \/ ProfileSwitched
            /\ current.inSession
         \/ ~GameScriptDue /\ GameScriptNext(from) = None /\ Exited /\ ~current.inSession
         \/ ~GameScriptDue /\ GameScriptNext(from) = gameScript /\ ~Entered /\ ~Exited
<1>1. /\ Entered => current.state = "InGame" /\ Drives
      /\ Exited => current.state = "Menu" /\ Drives
  BY LatchDrives
<1>2. current.state = "InGame" => current.inSession
  BY DEF SessionInv, LatchInv, InSession
<1>3. CASE GameScriptDue
  BY <1>1, <1>2, <1>3 DEF GameScriptNext, GameScriptDue
<1>4. CASE ~GameScriptDue
  BY <1>1, <1>2, <1>4 DEF GameScriptNext, GameScriptDue, Entered, Exited, SessionInv, SessionTypeOK, Snapshots
<1> QED
  BY <1>3, <1>4

LEMMA DriveStep ==
  ASSUME SessionInv, DriveScriptLifecycle
  PROVE  SessionInv'
<1> USE DEF SessionInv
<1>1. /\ tick = "Drive" /\ tick' = "Asleep" /\ previous' = current
      /\ UNCHANGED <<gameVars, configVars, current>>
  BY DEF DriveScriptLifecycle
<1>2. current.inSession <=> gameSession # None
  BY <1>1 DEF LatchInv
<1>3. LatchInv'
  BY <1>1, <1>2 DEF LatchInv, gameVars, InSession, SessionTypeOK, States
<1>4. CASE current.wait
  <2>1. UNCHANGED <<startedVars, unloaded>> /\ unserved' = (Entered \/ Exited \/ unserved)
    BY <1>4 DEF DriveScriptLifecycle
  <2>2. SessionTypeOK'
    BY <1>1, <2>1 DEF SessionTypeOK, gameVars, configVars, startedVars, Snapshots, Entered, Exited
  <2>3. ScriptInv'
    <3>1. ~unserved' => ~unserved /\ current.inSession = previous.inSession
      BY <2>1 DEF Entered, Exited, SessionTypeOK, Snapshots
    <3> QED
      BY <1>1, <1>2, <2>1, <3>1, SessionAssumption
         DEF ScriptInv, gameVars, startedVars, SessionTypeOK
  <2>4. ProfileInv'
    BY <1>1, <1>4, <2>1 DEF ProfileInv, gameVars, configVars, startedVars
  <2> QED
    BY <1>3, <2>2, <2>3, <2>4
<1>5. CASE ~current.wait
  <2>1. PICK found \in BOOLEAN :
          /\ paths' = ResolvedPaths(found) /\ gameScript' = GameScriptNext(paths')
          /\ unserved' = IF GameScriptDue THEN gameScript' = None ELSE (unserved /\ ~Exited)
          /\ unloaded' = IF Reloads THEN ~found ELSE unloaded
    BY <1>5 DEF DriveScriptLifecycle
  <2>2. ResolvedPaths(found) \in Names
    BY ResolvedTypes
  <2>3. ProfileInv'
    BY <1>1, <2>1, SessionAssumption
       DEF ProfileInv, configVars, ResolvedPaths, Reloads, ProfileChanged, LatchCleared, SessionTypeOK,
           Snapshots, Names
  <2>4. unserved' \in BOOLEAN /\ unloaded' \in BOOLEAN
    BY <2>1 DEF SessionTypeOK
  <2>5. CASE /\ GameScriptDue /\ current.inSession
             /\ gameScript' \in {None, [paths |-> paths', session |-> gameSession]}
    <3>1. gameSession \in Nat /\ gameSession <= sessions
      BY <1>2, <2>5 DEF SessionTypeOK, ScriptInv
    <3>2. gameScript' # None =>
            /\ gameScript' \in [paths : Names, session : Nat]
            /\ gameScript'.session = gameSession
      BY <2>1, <2>2, <2>5, <3>1
    <3>3. SessionTypeOK'
      BY <1>1, <2>1, <2>2, <2>4, <3>2 DEF SessionTypeOK, gameVars, configVars, Snapshots
    <3>4. unserved' <=> gameScript' = None
      BY <2>1, <2>5
    <3>5. ScriptInv'
      BY <1>1, <2>5, <3>1, <3>2, <3>4 DEF ScriptInv, gameVars
    <3> QED
      BY <1>3, <2>3, <3>3, <3>5
  <2>6. CASE ~GameScriptDue /\ gameScript' = None /\ ~current.inSession
    <3>1. SessionTypeOK'
      BY <1>1, <2>1, <2>2, <2>4, <2>6 DEF SessionTypeOK, gameVars, configVars, Snapshots
    <3>2. ScriptInv'
      BY <1>1, <2>1, <2>6 DEF ScriptInv, gameVars
    <3> QED
      BY <1>3, <2>3, <3>1, <3>2
  <2>7. CASE ~GameScriptDue /\ gameScript' = gameScript /\ ~Entered /\ ~Exited
    <3>1. SessionTypeOK'
      BY <1>1, <2>1, <2>2, <2>4, <2>7 DEF SessionTypeOK, gameVars, configVars, Snapshots
    <3>2. current.inSession = previous.inSession
      BY <2>7 DEF Entered, Exited, SessionTypeOK, Snapshots
    <3>3. ScriptInv'
      BY <1>1, <2>1, <2>7, <3>2 DEF ScriptInv, gameVars
    <3> QED
      BY <1>3, <2>3, <3>1, <3>3
  <2> QED
    BY <1>1, <2>1, <2>5, <2>6, <2>7, ScriptNext
<1> QED
  BY <1>4, <1>5

LEMMA SessionInvStep ==
  ASSUME SessionInv, [SessionNext]_sessionVars
  PROVE  SessionInv'
<1>1. CASE UNCHANGED sessionVars
  <2> USE <1>1 DEF sessionVars, gameVars, configVars, startedVars, servedVars, SessionInv
  <2>1. SessionTypeOK'
    BY DEF SessionTypeOK
  <2>2. LatchInv'
    BY DEF LatchInv, InSession
  <2>3. ScriptInv'
    BY DEF ScriptInv
  <2>4. ProfileInv'
    BY DEF ProfileInv
  <2> QED
    BY <2>1, <2>2, <2>3, <2>4
<1> QED
  BY <1>1, MovesStep, ProfileStep, CheckStep, ReadStep, DriveStep DEF SessionNext

LEMMA SessionInvHolds == SessionSpec => []SessionInv
BY InitHolds, SessionInvStep, PTL DEF SessionSpec

-----------------------------------------------------------------------------
(***************************************************************************)
(* GameLoop.cpp:143, 413-419: for any number of sessions, through any      *)
(* states between two ticks, and however the latch is checked and cleared, *)
(* the in-game script is that of the session the game is in; but for a     *)
(* change of session that the latch hid, or for which the paths named no   *)
(* script.                                                                 *)
(***************************************************************************)
THEOREM SessionHasItsScriptHolds == SessionSpec => []SessionHasItsScript
<1>1. SessionInv => SessionHasItsScript
  BY DEF SessionInv, LatchInv, ScriptInv, SessionHasItsScript, UpToDate
<1> QED
  BY <1>1, SessionInvHolds, PTL

(***************************************************************************)
(* GameLoop.cpp:374-379 and AppConfig.cpp:24-44: for any profiles, in any  *)
(* spelling, and however the reads of latch and name are torn, the paths   *)
(* are those of the profile the last tick with a clear latch saw, unless   *)
(* it was not found when it was last to be loaded.                         *)
(***************************************************************************)
THEOREM PathsFollowProfileHolds == SessionSpec => []PathsFollowProfile
<1>1. SessionInv => PathsFollowProfile
  BY DEF SessionInv, ProfileInv, PathsFollowProfile
<1> QED
  BY <1>1, SessionInvHolds, PTL

(***************************************************************************)
(* GameLoop.cpp:368-370: as long as nobody switches the profile, no step   *)
(* replaces or stops the script of the session the game is in.             *)
(***************************************************************************)
THEOREM NoRestartInSessionHolds == SessionSpec => NoRestartInSession
<1>1. ASSUME SessionInv, [SessionNext]_sessionVars
      PROVE  [gameScript # None /\ gameScript' # gameScript =>
                \/ gameSession # gameScript.session
                \/ profile.count # previous.count]_sessionVars
  <2> SUFFICES ASSUME SessionNext, gameScript # None, gameScript' # gameScript,
                      gameSession = gameScript.session
               PROVE  profile.count # previous.count
    BY <1>1
  <2>1. DriveScriptLifecycle
    BY DEF SessionNext, GameMoves, SetProfileName, SwitchProfileName, CheckWaitForProfile, ReadState,
           ReadLatch, ReadProfile, startedVars
  <2>2. tick = "Drive" /\ gameScript' = GameScriptNext(paths')
    BY <2>1 DEF DriveScriptLifecycle, startedVars
  <2>3. gameSession # None
    BY <1>1, SessionAssumption DEF SessionInv, SessionTypeOK
  <2>4. current.inSession /\ ~Entered
    BY <1>1, <2>2, <2>3 DEF SessionInv, LatchInv, ScriptInv, Entered
  <2>5. ProfileSwitched
    BY <1>1, <2>2, <2>4, ScriptNext
  <2> QED
    BY <1>1, <2>2, <2>5 DEF ProfileSwitched, SessionInv, ProfileInv, SessionTypeOK, Snapshots
<1> QED
  BY <1>1, SessionInvHolds, PTL DEF SessionSpec, NoRestartInSession

-----------------------------------------------------------------------------
(* The file. *)
IniTypeOK ==
  /\ step \in [Writers -> {"New", "Lock", "Copy", "Write", "Over"}]
  /\ locked \in Writers \union {Nobody}
  /\ file \in Contents
  /\ temp \in [Writers -> Contents]
  /\ left \in [Writers -> SUBSET Keys]
  /\ saved \subseteq Writers
  /\ timedOut \in BOOLEAN

(* The section s of contents c is the one v wrote. *)
WrittenBy(c, s, v) == \A k \in Keys : c[<<s, k>>] = v

Whole(c, s) == \E v \in Writers \union {Nobody} : WrittenBy(c, s, v)

(* What w has written of its section by now. *)
Staged(w) == \A k \in Keys \ left[w] : temp[w][<<Profile[w], k>>] = w

WholeInv ==
  /\ \A s \in Sections : Whole(file, s)
  /\ \A w \in Writers :
       /\ step[w] \in {"New", "Lock", "Copy"} => left[w] = Keys
       /\ step[w] = "Write" =>
            /\ Staged(w)
            /\ \A s \in Sections \ {Profile[w]} : Whole(temp[w], s)

(* w's copy is the file, but for w's section. *)
Current(w) ==
  \A s \in Sections \ {Profile[w]}, k \in Keys : temp[w][<<s, k>>] = file[<<s, k>>]

SavedKept(w) == \E v \in saved : Profile[v] = Profile[w] /\ WrittenBy(file, Profile[w], v)

OwnerInv ==
  ~timedOut =>
    /\ \A w \in Writers :
         /\ step[w] \in {"Copy", "Write"} => locked = w
         /\ step[w] = "Write" => Current(w)
    /\ \A w \in saved : SavedKept(w)

IniInv == IniTypeOK /\ WholeInv /\ OwnerInv

-----------------------------------------------------------------------------
LEMMA IniInvInit == IniInit => IniInv
<1> SUFFICES ASSUME IniInit
             PROVE  IniInv
  OBVIOUS
<1> USE DEF IniInit
<1>1. Empty \in Contents
  BY DEF Empty, Contents
<1>2. IniTypeOK
  BY <1>1 DEF IniTypeOK
<1>3. \A s \in Sections : WrittenBy(file, s, Nobody)
  BY DEF WrittenBy, Empty
<1>4. WholeInv
  BY <1>3 DEF WholeInv, Whole
<1>5. OwnerInv
  BY DEF OwnerInv
<1> QED
  BY <1>2, <1>4, <1>5 DEF IniInv

LEMMA SameWhole ==
  ASSUME NEW c, NEW d, NEW s, \A k \in Keys : c[<<s, k>>] = d[<<s, k>>], Whole(c, s)
  PROVE  Whole(d, s)
BY DEF Whole, WrittenBy

(* What WholeInv says of one writer. *)
StagedInv(w) ==
  /\ step[w] \in {"New", "Lock", "Copy"} => left[w] = Keys
  /\ step[w] = "Write" =>
       /\ Staged(w)
       /\ \A s \in Sections \ {Profile[w]} : Whole(temp[w], s)

LEMMA StagedInvKept ==
  ASSUME WholeInv, NEW u \in Writers, step'[u] = step[u], left'[u] = left[u], temp'[u] = temp[u]
  PROVE  StagedInv(u)'
BY DEF WholeInv, StagedInv, Staged

(* A writer whose section is written leaves every section of its copy      *)
(* whole: its own is its own.                                              *)
LEMMA WrittenIsWhole ==
  ASSUME IniInv, NEW w \in Writers, step[w] = "Write", left[w] = {}
  PROVE  /\ WrittenBy(temp[w], Profile[w], w)
         /\ \A s \in Sections : Whole(temp[w], s)
<1>1. WrittenBy(temp[w], Profile[w], w)
  BY DEF IniInv, WholeInv, Staged, WrittenBy
<1>2. Whole(temp[w], Profile[w])
  BY <1>1 DEF Whole
<1> QED
  BY <1>1, <1>2 DEF IniInv, WholeInv

(* Every step of a writer but Copy, WriteKey and Swap: it moves on, with   *)
(* the mutex taken, kept or released, and no file changes.                 *)
LEMMA MovesOn ==
  ASSUME IniInv, NEW w \in Writers, UNCHANGED <<file, temp, left, saved>>,
         NEW s \in {"Lock", "Copy", "Write", "Over"}, GoesTo(w, s),
         s \in {"Lock", "Copy"} => step[w] \in {"New", "Lock"},
         s = "Write" => step[w] = "Write",
         locked' \in Writers \union {Nobody}, timedOut' \in BOOLEAN,
         ~timedOut' => /\ ~timedOut
                       /\ \A u \in Writers \ {w} : locked = u => locked' = u
                       /\ s \in {"Copy", "Write"} => locked' = w
  PROVE  IniInv'
<1> USE DEF IniInv, IniTypeOK
<1>1. /\ step'[w] = s
      /\ \A u \in Writers \ {w} : step'[u] = step[u]
      /\ step' \in [Writers -> {"New", "Lock", "Copy", "Write", "Over"}]
  BY DEF GoesTo
<1>2. IniTypeOK'
  BY <1>1
<1>3. StagedInv(w)'
  BY <1>1 DEF WholeInv, StagedInv, Staged
<1>4. \A u \in Writers : StagedInv(u)'
  BY <1>1, <1>3, StagedInvKept
<1>5. WholeInv'
  BY <1>4 DEF WholeInv, StagedInv
<1>6. ASSUME ~timedOut'
      PROVE  /\ \A u \in Writers :
                  /\ step'[u] \in {"Copy", "Write"} => locked' = u
                  /\ step'[u] = "Write" => Current(u)'
             /\ \A u \in saved' : SavedKept(u)'
  BY <1>1, <1>6 DEF OwnerInv, Current, SavedKept, WrittenBy
<1> QED
  BY <1>2, <1>5, <1>6 DEF OwnerInv

LEMMA CopyKeeps ==
  ASSUME IniInv, NEW w \in Writers, Copy(w)
  PROVE  IniInv'
<1> USE DEF IniInv, IniTypeOK, Copy, GoesTo
<1>1. /\ step'[w] = "Write" /\ temp'[w] = file
      /\ \A u \in Writers \ {w} : step'[u] = step[u] /\ temp'[u] = temp[u]
  OBVIOUS
<1>2. IniTypeOK'
  OBVIOUS
<1>3. left[w] = Keys
  BY DEF WholeInv
<1>4. StagedInv(w)'
  BY <1>1, <1>3 DEF StagedInv, Staged, WholeInv
<1>5. \A u \in Writers : StagedInv(u)'
  BY <1>1, <1>4, StagedInvKept
<1>6. WholeInv'
  BY <1>5 DEF WholeInv, StagedInv
<1>7. OwnerInv'
  BY <1>1 DEF OwnerInv, Current, SavedKept, WrittenBy
<1> QED
  BY <1>2, <1>6, <1>7

LEMMA WriteKeyKeeps ==
  ASSUME IniInv, NEW w \in Writers, WriteKey(w)
  PROVE  IniInv'
<1> USE DEF IniInv, IniTypeOK
<1>1. PICK k \in left[w] :
        /\ temp' = [temp EXCEPT ![w][<<Profile[w], k>>] = w]
        /\ left' = [left EXCEPT ![w] = @ \ {k}]
  BY DEF WriteKey
<1>2. /\ step[w] = "Write" /\ k \in Keys
      /\ UNCHANGED <<step, locked, file, attempts, saved, timedOut>>
  BY DEF WriteKey
<1>3. Profile[w] \in Sections /\ <<Profile[w], k>> \in Sections \X Keys
  BY <1>2 DEF Sections
<1>4. /\ temp'[w] = [temp[w] EXCEPT ![<<Profile[w], k>>] = w]
      /\ temp'[w] \in Contents
      /\ \A u \in Writers \ {w} : temp'[u] = temp[u] /\ left'[u] = left[u]
      /\ temp' \in [Writers -> Contents]
  BY <1>1, <1>3 DEF Contents
<1>5. /\ temp'[w][<<Profile[w], k>>] = w
      /\ \A s \in Sections, l \in Keys :
           <<s, l>> # <<Profile[w], k>> => temp'[w][<<s, l>>] = temp[w][<<s, l>>]
  BY <1>3, <1>4 DEF Contents
<1>6. IniTypeOK'
  BY <1>1, <1>2, <1>4
<1>7. Staged(w)'
  BY <1>1, <1>3, <1>5, <1>2 DEF Staged, WholeInv
<1>8. \A s \in Sections \ {Profile[w]} : \A l \in Keys : temp'[w][<<s, l>>] = temp[w][<<s, l>>]
  BY <1>5
<1>9. \A s \in Sections \ {Profile[w]} : Whole(temp'[w], s)
  BY <1>2, <1>8, SameWhole DEF WholeInv
<1>10. StagedInv(w)'
  BY <1>2, <1>7, <1>9 DEF StagedInv
<1>11. \A u \in Writers : StagedInv(u)'
  BY <1>2, <1>4, <1>10, StagedInvKept
<1>12. WholeInv'
  BY <1>2, <1>11 DEF WholeInv, StagedInv
<1>13. ASSUME NEW u \in Writers, ~timedOut, step[u] = "Write"
       PROVE  Current(u)'
  <2>1. Current(u)
    BY <1>13 DEF OwnerInv
  <2>2. \A s \in Sections \ {Profile[u]}, l \in Keys : temp'[u][<<s, l>>] = temp[u][<<s, l>>]
    BY <1>4, <1>8
  <2> QED
    BY <1>2, <2>1, <2>2 DEF Current
<1>14. OwnerInv'
  BY <1>2, <1>13 DEF OwnerInv, SavedKept, WrittenBy
<1> QED
  BY <1>6, <1>12, <1>14

LEMMA SwapKeeps ==
  ASSUME IniInv, NEW w \in Writers, Swap(w)
  PROVE  IniInv'
<1> USE DEF IniInv, IniTypeOK
<1>1. /\ step[w] = "Write" /\ left[w] = {}
      /\ file' = temp[w] /\ saved' = saved \union {w}
      /\ step' = [step EXCEPT ![w] = "Over"]
      /\ locked' = IF locked = w THEN Nobody ELSE locked
      /\ UNCHANGED <<temp, left, attempts, timedOut>>
  BY DEF Swap, GoesTo, Release
<1>2. /\ WrittenBy(file', Profile[w], w)
      /\ \A s \in Sections : Whole(file', s)
  BY <1>1, WrittenIsWhole
<1>3. IniTypeOK'
  BY <1>1
<1>4. StagedInv(w)'
  BY <1>1 DEF StagedInv
<1>5. \A u \in Writers : StagedInv(u)'
  BY <1>1, <1>4, StagedInvKept
<1>6. WholeInv'
  BY <1>2, <1>5 DEF WholeInv, StagedInv
<1>7. ASSUME ~timedOut'
      PROVE  /\ \A u \in Writers :
                  /\ step'[u] \in {"Copy", "Write"} => locked' = u
                  /\ step'[u] = "Write" => Current(u)'
             /\ \A u \in saved' : SavedKept(u)'
  <2>1. locked = w /\ Current(w)
    BY <1>1, <1>7 DEF OwnerInv
  <2>2. \A u \in Writers : step'[u] \notin {"Copy", "Write"}
    BY <1>1, <1>7, <2>1 DEF OwnerInv
  <2>3. ASSUME NEW u \in saved', Profile[u] = Profile[w]
        PROVE  SavedKept(u)'
    BY <1>1, <1>2, <2>3 DEF SavedKept, WrittenBy
  <2>4. ASSUME NEW u \in saved', Profile[u] # Profile[w]
        PROVE  SavedKept(u)'
    <3>1. u \in saved
      BY <1>1, <2>4
    <3>2. PICK v \in saved : Profile[v] = Profile[u] /\ WrittenBy(file, Profile[u], v)
      BY <1>1, <1>7, <3>1 DEF OwnerInv, SavedKept
    <3>3. Profile[u] \in Sections
      BY <3>1 DEF Sections
    <3>4. \A k \in Keys : file'[<<Profile[u], k>>] = file[<<Profile[u], k>>]
      BY <1>1, <2>1, <2>4, <3>3 DEF Current
    <3> QED
      BY <1>1, <3>2, <3>4 DEF SavedKept, WrittenBy
  <2> QED
    BY <2>2, <2>3, <2>4
<1> QED
  BY <1>3, <1>6, <1>7 DEF OwnerInv

LEMMA IniInvStep ==
  ASSUME IniInv, [IniNext]_iniVars
  PROVE  IniInv'
<1>1. CASE UNCHANGED iniVars
  BY <1>1 DEF iniVars, IniInv, IniTypeOK, WholeInv, OwnerInv, Whole, WrittenBy, Staged,
              Current, SavedKept
<1>2. ASSUME NEW w \in Writers, IniStep(w)
      PROVE  IniInv'
  <2> Nobody \notin Writers
    BY IniAssumption
  <2> USE DEF IniInv, IniTypeOK
  <2>1. /\ step[w] \in {"New", "Lock", "Copy", "Write", "Over"}
        /\ locked \in Writers \union {Nobody} /\ timedOut \in BOOLEAN
    OBVIOUS
  <2>2. CASE AskExists(w)
    <3>1. \/ GoesTo(w, "Lock") \/ GoesTo(w, "Over")
      BY <2>2 DEF AskExists
    <3> QED
      BY <2>1, <2>2, <3>1, MovesOn DEF AskExists
  <2>3. CASE Acquire(w)
    BY <2>1, <2>3, MovesOn DEF Acquire
  <2>4. CASE TimeOut(w)
    BY <2>1, <2>4, MovesOn DEF TimeOut
  <2>5. CASE StageFails(w) \/ Crash(w)
    BY <2>1, <2>5, MovesOn DEF StageFails, Crash, Release
  <2>6. CASE SwapFails(w)
    <3>1. CASE UNCHANGED <<step, locked>>
      BY <2>6, <3>1 DEF SwapFails, WholeInv, OwnerInv, Whole, WrittenBy, Staged, Current, SavedKept
    <3>2. CASE GoesTo(w, "Over") /\ Release(w)
      BY <2>1, <2>6, <3>2, MovesOn DEF SwapFails, Release
    <3> QED
      BY <2>6, <3>1, <3>2 DEF SwapFails
  <2> QED
    BY <1>2, <2>2, <2>3, <2>4, <2>5, <2>6, CopyKeeps, WriteKeyKeeps, SwapKeeps DEF IniStep
<1> QED
  BY <1>1, <1>2 DEF IniNext

LEMMA IniInvHolds == IniSpec => []IniInv
BY IniInvInit, IniInvStep, PTL DEF IniSpec

-----------------------------------------------------------------------------
(***************************************************************************)
(* IniConfigStore.cpp:224-233: for any number of processes, one that saved *)
(* its profile finds it in the file, or what a later writer of the same    *)
(* profile saved, unless somebody's wait for the mutex timed out.          *)
(***************************************************************************)
THEOREM NoLostUpdateHolds == IniSpec => []NoLostUpdate
<1>1. IniInv => NoLostUpdate
  BY DEF IniInv, OwnerInv, NoLostUpdate, SavedKept, WrittenBy
<1> QED
  BY <1>1, IniInvHolds, PTL

(***************************************************************************)
(* IniConfigStore.cpp:135: all or nothing needs no mutex: the sections of  *)
(* the file are whole through every timeout, failed swap and crash.        *)
(***************************************************************************)
THEOREM SectionIsWholeHolds == IniSpec => []SectionIsWhole
<1>1. IniInv => SectionIsWhole
  BY DEF IniInv, WholeInv, Whole, WrittenBy, SectionIsWhole
<1> QED
  BY <1>1, IniInvHolds, PTL
=============================================================================
