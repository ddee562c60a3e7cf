------------------------------ MODULE GameLock ------------------------------
(***************************************************************************)
(* The game lock (src/src/contract/game/GameLock.h): one std::shared_mutex *)
(* and the four RAII objects through which every thread of the process     *)
(* takes it or hands it back:                                              *)
(*                                                                         *)
(*   Read           GameReadLock          recursive, shared                *)
(*   Write          GameWriteLock         exclusive, game thread only      *)
(*   ReadReleaser   GameReadLockReleaser  hands back all read levels       *)
(*   WriteReleaser  GameWriteLockReleaser hands back the write lock        *)
(*                                                                         *)
(* These objects live on the C++ stack of their thread, so each thread has *)
(* a stack of open scopes and closes the innermost one first.  A scope     *)
(* records the lock state of its thread when it opened: the releasers      *)
(* store the part of it they restore (savedDepth_, released_); for the     *)
(* two locks the record is history, kept to say what closing must undo.    *)
(*                                                                         *)
(* host::RetainReadLock is false in the host of d2bs.dll (DefaultHost.cpp),*)
(* so a read lock is never kept past its last level.  The release epoch is *)
(* modelled in HandleCache, whose Resolved pointers are all that read it.  *)
(***************************************************************************)
EXTENDS Naturals, Sequences

CONSTANTS
  Threads,     \* the threads of the process that touch game memory
  Game,        \* the game thread, the only one that takes the write lock
  NoThread,    \* the writer of a mutex nobody holds exclusively
  MaxScopes    \* bound: scopes a thread has open at once

ASSUME ThreadsAssumption ==
  /\ Game \in Threads
  /\ NoThread \notin Threads
  /\ MaxScopes \in Nat

VARIABLES
  readers,     \* GameReadLock::mutex_: the threads that own it shared
  writer,      \* GameReadLock::mutex_: the thread that owns it exclusively
  depth,       \* GameReadLock::depth_, thread_local
  active,      \* GameWriteLock::active_ # nullptr, thread_local
  scopes       \* the open scopes of each thread, innermost last

lockVars == <<readers, writer, depth, active, scopes>>

Kinds == {"Read", "Write", "ReadReleaser", "WriteReleaser"}

LockStates == [depth : Nat, active : BOOLEAN]

Scopes == [kind : Kinds, outer : LockStates]

Unlocked == [depth |-> 0, active |-> FALSE]

LockState(t) == [depth |-> depth[t], active |-> active[t]]

LockInit ==
  /\ readers = {}
  /\ writer = NoThread
  /\ depth = [t \in Threads |-> 0]
  /\ active = [t \in Threads |-> FALSE]
  /\ scopes = [t \in Threads |-> <<>>]

-----------------------------------------------------------------------------
(* The mutex.  It is not recursive: a thread that already owns it waits too. *)

TakeShared(t) == writer = NoThread /\ readers' = readers \union {t}

TakeExclusive(t) == writer = NoThread /\ readers = {} /\ writer' = t

(* The scope stack. *)

Push(t, kind) ==
  /\ Len(scopes[t]) < MaxScopes
  /\ scopes' = [scopes EXCEPT ![t] = Append(@, [kind |-> kind, outer |-> LockState(t)])]

Innermost(t) == scopes[t][Len(scopes[t])]

Pop(t, kind) ==
  /\ scopes[t] # <<>>
  /\ Innermost(t).kind = kind
  /\ scopes' = [scopes EXCEPT ![t] = SubSeq(@, 1, Len(@) - 1)]

-----------------------------------------------------------------------------
(* GameReadLock: nothing on a thread that holds the write lock; otherwise  *)
(* the mutex on the first level, and a counter on the nested ones.         *)

OpenRead(t) ==
  /\ Push(t, "Read")
  /\ \/ active[t] /\ UNCHANGED <<readers, depth>>
     \/ /\ ~active[t]
        /\ IF depth[t] = 0 THEN TakeShared(t) ELSE UNCHANGED readers
        /\ depth' = [depth EXCEPT ![t] = @ + 1]
  /\ UNCHANGED <<writer, active>>

(* A nested reader that gives the mutex back although an outer level needs it. *)
CloseReadEagerly(t) ==
  /\ Pop(t, "Read")
  /\ \/ active[t] /\ UNCHANGED <<readers, depth>>
     \/ /\ ~active[t]
        /\ readers' = readers \ {t}
        /\ depth' = [depth EXCEPT ![t] = @ - 1]
  /\ UNCHANGED <<writer, active>>

CloseRead(t) ==
  /\ Pop(t, "Read")
  /\ \/ active[t] /\ UNCHANGED <<readers, depth>>
     \/ /\ ~active[t]
        /\ readers' = IF depth[t] = 1 THEN readers \ {t} ELSE readers
        /\ depth' = [depth EXCEPT ![t] = @ - 1]
  /\ UNCHANGED <<writer, active>>

(* GameWriteLock, as a scope of its own in a sleep slice or through          *)
(* Acquire and Release: both only where the game thread has nothing open.    *)

OpenWrite(t) ==
  /\ t = Game
  /\ scopes[t] = <<>>
  /\ Push(t, "Write")
  /\ TakeExclusive(t)
  /\ active' = [active EXCEPT ![t] = TRUE]
  /\ UNCHANGED <<readers, depth>>

CloseWrite(t) ==
  /\ Pop(t, "Write")
  /\ writer' = NoThread
  /\ active' = [active EXCEPT ![t] = FALSE]
  /\ UNCHANGED <<readers, depth>>

(* GameReadLockReleaser: hands every level back at once and takes all of   *)
(* them again when it closes.                                              *)

(* A releaser that gives back one level of several. *)
OpenReadReleaserOneLevel(t) ==
  /\ Push(t, "ReadReleaser")
  /\ depth' = [depth EXCEPT ![t] = IF @ > 0 THEN @ - 1 ELSE 0]
  /\ readers' = IF depth[t] = 1 THEN readers \ {t} ELSE readers
  /\ UNCHANGED <<writer, active>>

OpenReadReleaser(t) ==
  /\ Push(t, "ReadReleaser")
  /\ depth' = [depth EXCEPT ![t] = 0]
  /\ readers' = IF depth[t] > 0 THEN readers \ {t} ELSE readers
  /\ UNCHANGED <<writer, active>>

(* A releaser that forgets how many levels it had handed back. *)
CloseReadReleaserToOne(t) ==
  /\ Pop(t, "ReadReleaser")
  /\ IF Innermost(t).outer.depth > 0
     THEN TakeShared(t) /\ depth' = [depth EXCEPT ![t] = 1]
     ELSE UNCHANGED <<readers, depth>>
  /\ UNCHANGED <<writer, active>>

CloseReadReleaser(t) ==
  /\ Pop(t, "ReadReleaser")
  /\ IF Innermost(t).outer.depth > 0
     THEN TakeShared(t) /\ depth' = [depth EXCEPT ![t] = Innermost(t).outer.depth]
     ELSE UNCHANGED <<readers, depth>>
  /\ UNCHANGED <<writer, active>>

(* GameWriteLockReleaser: nulls active_, so that the read locks opened under *)
(* it are real ones; takes the write lock again when it closes.              *)

(* A releaser that unlocks the mutex and leaves active_ set. *)
OpenWriteReleaserStillActive(t) ==
  /\ Push(t, "WriteReleaser")
  /\ writer' = IF active[t] THEN NoThread ELSE writer
  /\ UNCHANGED <<readers, depth, active>>

OpenWriteReleaser(t) ==
  /\ Push(t, "WriteReleaser")
  /\ writer' = IF active[t] THEN NoThread ELSE writer
  /\ active' = [active EXCEPT ![t] = FALSE]
  /\ UNCHANGED <<readers, depth>>

CloseWriteReleaser(t) ==
  /\ Pop(t, "WriteReleaser")
  /\ IF Innermost(t).outer.active
     THEN TakeExclusive(t) /\ active' = [active EXCEPT ![t] = TRUE]
     ELSE UNCHANGED <<writer, active>>
  /\ UNCHANGED <<readers, depth>>

-----------------------------------------------------------------------------
LockStep(t) ==
  \/ OpenRead(t)
  \/ CloseRead(t)
  \/ OpenWrite(t)
  \/ CloseWrite(t)
  \/ OpenReadReleaser(t)
  \/ CloseReadReleaser(t)
  \/ OpenWriteReleaser(t)
  \/ CloseWriteReleaser(t)

LockNext == \E t \in Threads : LockStep(t)

LockSpec == LockInit /\ [][LockNext]_lockVars

-----------------------------------------------------------------------------
(* Every variable has its type. *)
LockTypeOK ==
  /\ readers \in SUBSET Threads
  /\ writer \in Threads \union {NoThread}
  /\ depth \in [Threads -> Nat]
  /\ active \in [Threads -> BOOLEAN]
  /\ scopes \in [Threads -> Seq(Scopes)]

(***************************************************************************)
(* What a thread believes from its thread_locals is what the mutex says:   *)
(* IsGameLockHeld() is true on a thread exactly while that thread owns the *)
(* shared mutex, in the mode it believes, so no lock is leaked by a scope  *)
(* that closed and none is missing under one that is open.                 *)
(***************************************************************************)
HeldIsOwned ==
  /\ \A t \in Threads : (depth[t] > 0) <=> (t \in readers)
  /\ \A t \in Threads : active[t] <=> (writer = t)
  /\ writer # NoThread => readers = {}

(* The lock state a scope establishes, from the one it opened in. *)
Inside(scope) ==
  CASE scope.kind = "Read" ->
         IF scope.outer.active THEN scope.outer
                               ELSE [scope.outer EXCEPT !.depth = @ + 1]
    [] scope.kind = "Write" -> [depth |-> 0, active |-> TRUE]
    [] scope.kind = "ReadReleaser" -> [scope.outer EXCEPT !.depth = 0]
    [] scope.kind = "WriteReleaser" -> [scope.outer EXCEPT !.active = FALSE]

(***************************************************************************)
(* Scopes nest: every scope opened in the state its enclosing scope set up *)
(* and, when it is again the innermost one, the thread is back in the      *)
(* state it set up.  So whatever a releaser does between, a read lock that *)
(* was a no-op when constructed is a no-op when destroyed (the claim at    *)
(* ~GameReadLock), and a releaser gives back the very depth it took.       *)
(***************************************************************************)
ScopesNest ==
  \A t \in Threads :
    LET n == Len(scopes[t])
    IN  /\ n = 0 => LockState(t) = Unlocked
        /\ n > 0 => /\ scopes[t][1].outer = Unlocked
                    /\ Inside(scopes[t][n]) = LockState(t)
        /\ \A i \in 1..n : i > 1 => scopes[t][i].outer = Inside(scopes[t][i - 1])

(***************************************************************************)
(* A thread about to wait inside a releaser (Execute, PollUntil, Join, the *)
(* inspector's pause loop open one or both and then block) owns no part of *)
(* the mutex it has to hand over, however deeply it was locked before.     *)
(***************************************************************************)
HandedBack ==
  \A t \in Threads :
    scopes[t] # <<>> =>
      /\ Innermost(t).kind = "ReadReleaser" => t \notin readers
      /\ Innermost(t).kind = "WriteReleaser" => writer # t

-----------------------------------------------------------------------------
(* The rights the thread_locals announce, without a look at the mutex. *)
Right(t) == IF active[t] THEN "write" ELSE IF depth[t] > 0 THEN "read" ELSE "none"

Access == [t \in Threads |-> Right(t)]

Abstract == INSTANCE ReadersWriter WITH access <- Access

(***************************************************************************)
(* The four objects implement the abstract readers-writer rule: a right    *)
(* that IsGameLockHeld() announces is one the rule grants.                 *)
(***************************************************************************)
ImplementsReadersWriter == Abstract!Spec
=============================================================================
