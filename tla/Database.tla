------------------------------- MODULE Database -------------------------------
(***************************************************************************)
(* SQLite and DBStatement (src/src/runtime/api/classes/io) and the cells   *)
(* that hold their natives (src/src/runtime/api/core/Class.h): who keeps   *)
(* whom alive while a script and the garbage collector take turns.         *)
(*                                                                         *)
(* An object stands for the JavaScript wrapper, its cell and, unless it is *)
(* a view, the native inside the cell: V8 collects them together.  A view  *)
(* is what SQLite.statements returns: a cell over the native of another    *)
(* wrapper.  One thread runs the script; the collector (external) works    *)
(* between two steps of it, also in the middle of the `statements` getter, *)
(* which allocates.  A collection may keep any more objects than the       *)
(* script can reach, and runs destructors one at a time in any order.  A   *)
(* native's handle is not null exactly when it is open.                    *)
(***************************************************************************)
EXTENDS Naturals

CONSTANTS
  Databases,   \* SQLite objects
  Statements,  \* DBStatement objects returned by query()
  Views,       \* DBStatement objects returned by SQLite.statements
  MaxRows,     \* bound: rows of a result
  Null         \* no pointer, no cached row

Objects == Databases \union Statements \union Views

ASSUME DatabaseAssumption ==
  /\ Databases \intersect Statements = {} /\ Databases \intersect Views = {}
  /\ Statements \intersect Views = {}
  /\ MaxRows \in Nat
  /\ Null \notin Objects \union Nat

VARIABLES
  cell,          \* "free", "live", or "dead": found dead, not yet swept
  held,          \* the objects the script refers to
  isOpen,        \* of databases and statements
  statements,    \* SQLiteData::statements
  parent,        \* DBStatementData::parent
  parentObject,  \* DBStatementData::parentObject: the database's wrapper, traced
  native,        \* the native of a view's BorrowedCell
  ownerKey,      \* the private of a view: the wrapper that owns the native
  listing,       \* the locals of the `statements` getter: owners not yet given a view
  hasRow,        \* DBStatementData::hasRow
  cachedRow,     \* DBStatementData::cachedRow: the row it was made from
  row            \* sqlite (external): the row the statement stands on, 0 for none

lifeVars == <<cell, held, isOpen, statements, parent, parentObject, native, ownerKey, listing>>
rowVars == <<hasRow, cachedRow, row>>
databaseVars == <<lifeVars, rowVars>>

DatabaseInit ==
  /\ cell = [x \in Objects |-> "free"] /\ held = {} /\ listing = {}
  /\ isOpen = [x \in Databases \union Statements |-> FALSE]
  /\ statements = [d \in Databases |-> {}]
  /\ parent = [s \in Statements |-> Null] /\ parentObject = [s \in Statements |-> Null]
  /\ native = [v \in Views |-> Null] /\ ownerKey = [v \in Views |-> Null]
  /\ hasRow = [s \in Statements |-> FALSE] /\ row = [s \in Statements |-> 0]
  /\ cachedRow = [s \in Statements |-> Null]

-----------------------------------------------------------------------------
(* DBStatementData::Finalize of every statement of S, and of nothing else. *)
Unlisted(S) == [d \in Databases |-> {s \in statements[d] : ~(s \in S /\ parent[s] = d)}]
Orphaned(S) == [s \in Statements |-> IF s \in S THEN Null ELSE parent[s]]
Shut(X) == [x \in Databases \union Statements |-> IF x \in X THEN FALSE ELSE isOpen[x]]
NoRows(S) ==
  /\ hasRow' = [s \in Statements |-> IF s \in S THEN FALSE ELSE hasRow[s]]
  /\ row' = [s \in Statements |-> IF s \in S THEN 0 ELSE row[s]]

Finalize(S) ==
  /\ isOpen' = Shut(S) /\ parent' = Orphaned(S) /\ statements' = Unlisted(S)
  /\ NoRows(S)

(* The statements of a database are finalized, its list emptied and its connection closed. *)
Detach(d) ==
  /\ isOpen' = Shut(statements[d] \union {d})
  /\ parent' = Orphaned(statements[d])
  /\ statements' = [Unlisted(statements[d]) EXCEPT ![d] = {}]
  /\ NoRows(statements[d])

-----------------------------------------------------------------------------
(* The script.  It runs while no getter is under way. *)
Running == listing = {}

(* new SQLite: opened at once or not; a database that does not open leaves no native. *)
NewDatabase(d) ==
  /\ Running /\ cell[d] = "free"
  /\ cell' = [cell EXCEPT ![d] = "live"] /\ held' = held \union {d}
  /\ \E autoOpen \in BOOLEAN : isOpen' = [isOpen EXCEPT ![d] = autoOpen]
  /\ UNCHANGED <<statements, parent, parentObject, native, ownerKey, listing, rowVars>>

(* SQLite.open; when it fails nothing changes. *)
OpenDatabase(d) ==
  /\ Running /\ d \in held /\ ~isOpen[d]
  /\ isOpen' = [isOpen EXCEPT ![d] = TRUE]
  /\ UNCHANGED <<cell, held, statements, parent, parentObject, native, ownerKey, listing, rowVars>>

(* SQLite.close *)
CloseDatabase(d) ==
  /\ Running /\ d \in held /\ isOpen[d]
  /\ Detach(d)
  /\ UNCHANGED <<cell, held, parentObject, native, ownerKey, listing, cachedRow>>

NewStatement(d, s) ==
  /\ Running /\ d \in held /\ isOpen[d] /\ cell[s] = "free"
  /\ cell' = [cell EXCEPT ![s] = "live"] /\ held' = held \union {s}
  /\ isOpen' = [isOpen EXCEPT ![s] = TRUE]
  /\ parent' = [parent EXCEPT ![s] = d]
  /\ statements' = [statements EXCEPT ![d] = @ \union {s}]
  /\ UNCHANGED <<native, ownerKey, listing, rowVars>>

(* (A statement that does not refer to the wrapper of its database.) *)
QueryUnanchored(d, s) == NewStatement(d, s) /\ UNCHANGED parentObject

(* SQLite.query; its errors leave no native. *)
Query(d, s) == NewStatement(d, s) /\ parentObject' = [parentObject EXCEPT ![s] = d]

(* SQLite.statements: the owners of the open statements become locals first. *)
ListStatements(d) ==
  /\ Running /\ d \in held
  /\ listing' = {s \in statements[d] : isOpen[s]}
  /\ UNCHANGED <<cell, held, isOpen, statements, parent, parentObject, native, ownerKey, rowVars>>

(* One turn of the loop that makes the views. *)
MakeView(s, v) ==
  /\ s \in listing /\ cell[v] = "free"
  /\ listing' = listing \ {s}
  /\ cell' = [cell EXCEPT ![v] = "live"] /\ held' = held \union {v}
  /\ native' = [native EXCEPT ![v] = s] /\ ownerKey' = [ownerKey EXCEPT ![v] = s]
  /\ UNCHANGED <<isOpen, statements, parent, parentObject, rowVars>>

(* A wrapper that cannot be made is left out. *)
SkipView(s) ==
  /\ s \in listing
  /\ listing' = listing \ {s}
  /\ UNCHANGED <<cell, held, isOpen, statements, parent, parentObject, native, ownerKey, rowVars>>

(* The script lets go of an object. *)
Forget(x) ==
  /\ Running /\ x \in held
  /\ held' = held \ {x}
  /\ UNCHANGED <<cell, isOpen, statements, parent, parentObject, native, ownerKey, listing, rowVars>>

-----------------------------------------------------------------------------
(* A statement is used through its owner or through a view of it. *)
Referred(s) == s \in held \/ \E v \in held \intersect Views : native[v] = s
Usable(s) == Running /\ Referred(s)

(* DBStatementData::Close *)
CloseNative(s) ==
  /\ Finalize({s})
  /\ cachedRow' = [cachedRow EXCEPT ![s] = Null]
  /\ parentObject' = [parentObject EXCEPT ![s] = Null]
  /\ UNCHANGED <<cell, held, native, ownerKey, listing>>

CloseStatement(s) == Usable(s) /\ CloseNative(s)

(* sqlite3_step fails: the statement stands on no row; hasRow and cachedRow are not touched. *)
StepFails(s) ==
  /\ row' = [row EXCEPT ![s] = 0]
  /\ UNCHANGED <<lifeVars, hasRow, cachedRow>>

(* DBStatement.go *)
Go(s) ==
  /\ Usable(s) /\ isOpen[s]
  /\ CloseNative(s) \/ StepFails(s)

(* DBStatement.next *)
NextRow(s) ==
  /\ Usable(s) /\ isOpen[s]
  /\ \/ \E r \in {row[s] + 1, 0} :
          /\ r <= MaxRows
          /\ row' = [row EXCEPT ![s] = r]
          /\ hasRow' = [hasRow EXCEPT ![s] = r # 0]
          /\ cachedRow' = [cachedRow EXCEPT ![s] = Null]
          /\ UNCHANGED lifeVars
     \/ StepFails(s)

(* Rows passed by skip, and how it came to stop: at the count, at the end, or by a failed step. *)
Skipped(s, k, stop) ==
  /\ row' = [row EXCEPT ![s] = IF stop = "count" THEN @ + k ELSE 0]
  /\ hasRow' = [hasRow EXCEPT ![s] = stop # "end" /\ (@ \/ k > 0)]
  /\ UNCHANGED lifeVars

(* (The cached row survives.) *)
SkipRowsKeeping(s) ==
  /\ Usable(s) /\ isOpen[s]
  /\ \E k \in 0..(MaxRows - row[s]), stop \in {"count", "end", "error"} : Skipped(s, k, stop)
  /\ UNCHANGED cachedRow

(* DBStatement.skip *)
SkipRows(s) ==
  /\ Usable(s) /\ isOpen[s]
  /\ \E k \in 0..(MaxRows - row[s]), stop \in {"count", "end", "error"} :
       /\ Skipped(s, k, stop)
       /\ cachedRow' = IF stop = "error" THEN cachedRow ELSE [cachedRow EXCEPT ![s] = Null]

(* DBStatement.reset: sqlite3_reset resets even when it reports an error. *)
ResetStatement(s) ==
  /\ Usable(s) /\ isOpen[s]
  /\ row' = [row EXCEPT ![s] = 0]
  /\ \/ /\ hasRow' = [hasRow EXCEPT ![s] = FALSE]
        /\ cachedRow' = [cachedRow EXCEPT ![s] = Null]
     \/ UNCHANGED <<hasRow, cachedRow>>
  /\ UNCHANGED lifeVars

(* DBStatement.getObject *)
GetObject(s) ==
  /\ Usable(s) /\ hasRow[s] /\ cachedRow[s] = Null
  /\ cachedRow' = [cachedRow EXCEPT ![s] = row[s]]
  /\ UNCHANGED <<lifeVars, hasRow, row>>

-----------------------------------------------------------------------------
(* The collector.  DBStatementData::Trace, the private of a view, and the roots. *)
RefersTo(x, y) ==
  \/ x \in Views /\ ownerKey[x] = y
  \/ x \in Statements /\ parentObject[x] = y

ClosedUnder(X) == \A x \in X, y \in Objects : RefersTo(x, y) => y \in X

Live == {x \in Objects : cell[x] = "live"}

(* The pause that finds objects dead, once everything has been swept. *)
FindDead(kept) ==
  /\ \A x \in Objects : cell[x] # "dead"
  /\ held \union listing \subseteq kept /\ ClosedUnder(kept) /\ kept # Live
  /\ cell' = [x \in Objects |-> IF x \in Live \ kept THEN "dead" ELSE cell[x]]
  /\ UNCHANGED <<held, parentObject, native, ownerKey, listing, cachedRow>>

(* (Without pre-finalizers.) *)
CollectOnly ==
  \E kept \in SUBSET Live :
    FindDead(kept) /\ UNCHANGED <<isOpen, statements, parent, hasRow, row>>

(* PreFinalizedCell: the dead statements leave their databases in the pause. *)
Collect == \E kept \in SUBSET Live : FindDead(kept) /\ Finalize(Statements \ kept)

Swept(f, x, value) == IF x \in DOMAIN f THEN [f EXCEPT ![x] = value] ELSE f

(* The destructor of one dead cell, and of the native in it: its memory is free. *)
Sweep(x) ==
  /\ cell[x] = "dead"
  /\ cell' = [cell EXCEPT ![x] = "free"]
  /\ IF x \in Databases THEN Detach(x) ELSE Finalize({x} \intersect Statements)
  /\ parentObject' = Swept(parentObject, x, Null) /\ cachedRow' = Swept(cachedRow, x, Null)
  /\ native' = Swept(native, x, Null) /\ ownerKey' = Swept(ownerKey, x, Null)
  /\ UNCHANGED <<held, listing>>

CollectorStep == Collect \/ \E x \in Objects : Sweep(x)

UseStatement(s) ==
  \/ CloseStatement(s) \/ Go(s) \/ NextRow(s) \/ SkipRows(s) \/ ResetStatement(s) \/ GetObject(s)

DatabaseNext ==
  \/ \E d \in Databases :
       \/ NewDatabase(d) \/ OpenDatabase(d) \/ CloseDatabase(d) \/ ListStatements(d)
       \/ \E s \in Statements : Query(d, s)
  \/ \E s \in Statements : UseStatement(s) \/ SkipView(s) \/ \E v \in Views : MakeView(s, v)
  \/ \E x \in Objects : Forget(x)
  \/ CollectorStep

DatabaseSpec == DatabaseInit /\ [][DatabaseNext]_databaseVars

-----------------------------------------------------------------------------
(***************************************************************************)
(* Class.h, "reach another cell's native only through a link both          *)
(* destructors clear": whatever order objects die and are swept in, a      *)
(* native that still exists points to none that is freed, and a database   *)
(* or a view the script may still use to none that is already dead.        *)
(***************************************************************************)
NoDangling ==
  /\ \A d \in Databases, s \in Statements :
       /\ (cell[d] # "free" /\ s \in statements[d]) => cell[s] # "free"
       /\ (cell[d] = "live" /\ s \in statements[d]) => cell[s] = "live"
       /\ (cell[s] # "free" /\ parent[s] = d) => cell[d] # "free"
  /\ \A v \in Views, s \in Statements : (cell[v] = "live" /\ native[v] = s) => cell[s] = "live"

(***************************************************************************)
(* JSDBStatement.h, "so the database outlives every reachable statement":  *)
(* no step of the collector closes a database or a statement that the      *)
(* script can still use, directly, through a view, or through a statement  *)
(* of it that is open.                                                     *)
(***************************************************************************)
InUse(x) ==
  \/ Referred(x) \/ x \in listing
  \/ \E s \in Statements : Referred(s) /\ isOpen[s] /\ parent[s] = x

CollectorIsUnseen ==
  [][CollectorStep => \A x \in Databases \union Statements : InUse(x) => isOpen'[x] = isOpen[x]]_databaseVars

(***************************************************************************)
(* JSDBStatement, getObject and ready: a statement that stands on a row    *)
(* says so and gives that row, not one it gave before it moved, and one    *)
(* that is closed, by whomever, gives none.                                *)
(***************************************************************************)
RowIsCurrent ==
  \A s \in Statements :
    /\ row[s] # 0 => hasRow[s] /\ cachedRow[s] \in {Null, row[s]}
    /\ ~isOpen[s] => ~hasRow[s]
=============================================================================
