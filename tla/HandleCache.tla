---------------------------- MODULE HandleCache ----------------------------
(***************************************************************************)
(* Game handles and the pointers they resolve to                           *)
(* (src/src/contract/game/HandleCache.h).  A handle names a structure of   *)
(* the game; resolving it walks the game's data for the structure and      *)
(* caches the pointer until the next tick; Resolved<T> keeps the pointer   *)
(* together with the read lock that makes it safe to follow.               *)
(*                                                                         *)
(* A structure is an incarnation number: the game frees it and creates it  *)
(* again during its own frame, so a pointer is valid exactly while it is   *)
(* the current incarnation of what its handle names.  Even numbers stand   *)
(* for "not there", which resolves to nullptr.                             *)
(*                                                                         *)
(* Two kinds of handle differ in ResolvePtr: units and controls are only   *)
(* looked up; rooms and levels may have to be built first, on the game     *)
(* thread, with the read lock handed back meanwhile (FindLevelInChain in   *)
(* src/src/backends/lod114d/game/DrlgHelpers.h).                           *)
(*                                                                         *)
(* Assumed of the game: its structures change only in its own frame, not   *)
(* in the calls the drained tasks make.  The game thread's own handles are *)
(* made anew in every hook, in which nothing changes: their caches are     *)
(* left out.  A drained task works on a copy of its script's handle.       *)
(***************************************************************************)
EXTENDS GameFrame, FiniteSets

CONSTANTS
  Units,           \* handles whose resolve only looks the structure up
  Levels,          \* handles whose structure may have to be built first
  JoinsInFrame,    \* does a hook of the game's own frame join a script?
  MaxGeneration,   \* bound: ticks
  MaxIncarnation,  \* bound: times the game frees or creates a structure
  MaxReleases      \* bound: times a thread hands a held lock back

Handles == Units \union Levels

Scripts == Threads \ {Game}

ASSUME HandlesAssumption ==
  /\ Units \intersect Levels = {}
  /\ JoinsInFrame \in BOOLEAN
  /\ {MaxGeneration, MaxIncarnation, MaxReleases} \subseteq Nat

VARIABLES
  generation,      \* frameGeneration
  releaseEpoch,    \* GameReadLock::releaseEpoch_, thread_local
  memory,          \* the current incarnation of what each handle names
  built,           \* the levels whose room list is populated
  cache,           \* the HandleCache of each script thread's handles
  live,            \* the Resolved<T> objects of each thread, innermost last
  building         \* the level a thread is waiting for, if any

handleVars == <<generation, releaseEpoch, memory, built, cache, live, building>>

vars == <<frameVars, handleVars>>

nullptr == 0

NotBuilding == [handle |-> "none"]

Pointer(h) == IF memory[h] % 2 = 1 THEN memory[h] ELSE nullptr

Init ==
  /\ FrameInit
  /\ generation = 0
  /\ releaseEpoch = [t \in Threads |-> 0]
  /\ memory = [h \in Handles |-> 1]
  /\ built = {}
  /\ cache = [t \in Scripts |-> [h \in Handles |-> [ptr |-> nullptr, gen |-> 0]]]
  /\ live = [t \in Threads |-> <<>>]
  /\ building = [t \in Threads |-> NotBuilding]

-----------------------------------------------------------------------------
(* A thread that is blocked runs nothing else: in Join the game thread has *)
(* its write lock released; in Execute a resolve waits for its level.      *)
Blocked(t) ==
  \/ building[t] # NotBuilding
  \/ t = Game /\ \E i \in 1..Len(scopes[t]) : scopes[t][i].kind = "WriteReleaser"

(* Game hooks, the body and the drained tasks are where the game thread    *)
(* runs framework code.                                                    *)
RunsHere(t) == t = Game => phase \notin {"Asleep", "AcquireWait"}

(* HandleCache::Get *)
Hit(t, h) ==
  /\ t # Game
  /\ cache[t][h].ptr # nullptr
  /\ cache[t][h].gen = generation

(* Takes a Resolved's place on the thread: the pointer with the epoch the  *)
(* constructor reads after the resolve.                                    *)
Hold(t, h, ptr) ==
  live' = [live EXCEPT ![t] = Append(@, [handle |-> h, ptr |-> ptr, epoch |-> releaseEpoch[t]])]

(* HandleCache::Set *)
Remember(t, h, ptr) ==
  cache' = [cache EXCEPT ![t] = [@ EXCEPT ![h] = [ptr |-> ptr, gen |-> generation]]]

(* A resolve that finds the pointer cached. *)
ResolveCached(t, h) ==
  /\ ~Blocked(t)
  /\ OpenRead(t)
  /\ Hit(t, h)
  /\ Hold(t, h, cache[t][h].ptr)
  /\ UNCHANGED <<phase, writeLockHeld, generation, releaseEpoch, memory, built, cache, building>>

NeedsBuilding(h) == h \in Levels \ built /\ Pointer(h) # nullptr

(* A resolve that walks the game's data.  Where Execute runs in place (the *)
(* game thread with the write lock), building a level is part of it.       *)
ResolveByWalk(t, h) ==
  /\ RunsHere(t) /\ ~Blocked(t)
  /\ OpenRead(t)
  /\ ~Hit(t, h)
  /\ NeedsBuilding(h) => active[t]
  /\ built' = IF NeedsBuilding(h) THEN built \union {h} ELSE built
  /\ IF t = Game THEN UNCHANGED cache ELSE Remember(t, h, Pointer(h))
  /\ Hold(t, h, Pointer(h))
  /\ UNCHANGED <<phase, writeLockHeld, generation, releaseEpoch, memory, building>>

(* FindLevelInChain on a level that is not built yet: it posts the build   *)
(* with the raw pointer it found ...  (The game thread in the first tick   *)
(* would wait for itself: that is GameThread's subject.)                   *)
BeginBuild(t, h) ==
  /\ t \in Scripts /\ ~Blocked(t)
  /\ OpenRead(t)
  /\ ~Hit(t, h)
  /\ NeedsBuilding(h) /\ ~active[t]
  /\ building' = [building EXCEPT ![t] = [handle |-> h, raw |-> Pointer(h),
                                             waiting |-> FALSE, done |-> FALSE]]
  /\ UNCHANGED <<phase, writeLockHeld, generation, releaseEpoch, memory, built, cache, live>>

(* A releaser that does not count. *)
HandBackUncounted(t) ==
  /\ OpenReadReleaser(t)
  /\ UNCHANGED releaseEpoch

(* GameReadLockReleaser counts a held lock it hands back.                  *)
HandBack(t) ==
  /\ OpenReadReleaser(t)
  /\ IF depth[t] > 0
     THEN releaseEpoch[t] < MaxReleases /\ releaseEpoch' = [releaseEpoch EXCEPT ![t] = @ + 1]
     ELSE UNCHANGED releaseEpoch

(* ... hands the lock back for the wait in Execute ... *)
WaitForBuild(t) ==
  /\ building[t] # NotBuilding /\ ~building[t].waiting
  /\ HandBack(t)
  /\ building' = [building EXCEPT ![t].waiting = TRUE]
  /\ UNCHANGED <<phase, writeLockHeld, generation, memory, built, cache, live>>

(* ... until the game thread has run the task in a drain ... *)
RunBuild(t) ==
  /\ Draining /\ ~Blocked(Game) /\ AtBase
  /\ building[t] # NotBuilding /\ ~building[t].done
  /\ building' = [building EXCEPT ![t].done = TRUE]
  /\ built' = IF building[t].raw = memory[building[t].handle]
              THEN built \union {building[t].handle} ELSE built
  /\ UNCHANGED <<frameVars, generation, releaseEpoch, memory, cache, live>>

(* ... and goes on with the pointer it had. *)
EndBuild(t) ==
  /\ building[t] # NotBuilding /\ building[t].done /\ building[t].waiting
  /\ CloseReadReleaser(t)
  /\ Remember(t, building[t].handle, building[t].raw)
  /\ Hold(t, building[t].handle, building[t].raw)
  /\ building' = [building EXCEPT ![t] = NotBuilding]
  /\ UNCHANGED <<phase, writeLockHeld, generation, releaseEpoch, memory, built>>

(* ~Resolved *)
Unresolve(t) ==
  /\ ~Blocked(t)
  /\ CloseRead(t)
  /\ live' = [live EXCEPT ![t] = SubSeq(@, 1, Len(@) - 1)]
  /\ UNCHANGED <<phase, writeLockHeld, generation, releaseEpoch, memory, built, cache, building>>

(* PollUntil on a script thread: its condition may resolve handles again. *)
BeginPoll(t) ==
  /\ t \in Scripts /\ ~Blocked(t)
  /\ HandBack(t)
  /\ UNCHANGED <<phase, writeLockHeld, generation, memory, built, cache, live, building>>

EndPoll(t) ==
  /\ ~Blocked(t)
  /\ CloseReadReleaser(t)
  /\ UNCHANGED <<phase, writeLockHeld, handleVars>>

(* Script::Join on the game thread: from the body, when a profile is       *)
(* switched or a session ends, and from the game's own frame, when a       *)
(* command typed into the chat replaces a running script.                  *)
BeginJoin ==
  /\ phase \in {"Body"} \union (IF JoinsInFrame THEN {"Game"} ELSE {})
  /\ AtBase
  /\ OpenWriteReleaser(Game)
  /\ IF active[Game]
     THEN /\ releaseEpoch[Game] < MaxReleases
          /\ releaseEpoch' = [releaseEpoch EXCEPT ![Game] = @ + 1]
     ELSE UNCHANGED releaseEpoch
  /\ UNCHANGED <<phase, writeLockHeld, generation, memory, built, cache, live, building>>

EndJoin ==
  /\ CloseWriteReleaser(Game)
  /\ UNCHANGED <<phase, writeLockHeld, handleVars>>

(* InvalidateHandles, at the start of OnSleep. *)
TickWithoutInvalidation ==
  /\ StartTick
  /\ UNCHANGED handleVars

Tick ==
  /\ StartTick
  /\ generation < MaxGeneration
  /\ generation' = generation + 1
  /\ UNCHANGED <<releaseEpoch, memory, built, cache, live, building>>

RestOfFrame ==
  /\ FrameMove
  /\ UNCHANGED handleVars

(* The game frees a structure or creates it again, in its own frame and    *)
(* not inside a hook.                                                      *)
GameChanges(h) ==
  /\ phase = "Game" /\ AtBase
  /\ memory[h] < MaxIncarnation
  /\ memory' = [memory EXCEPT ![h] = @ + 1]
  /\ built' = built \ {h}
  /\ UNCHANGED <<frameVars, generation, releaseEpoch, cache, live, building>>

Next ==
  \/ \E t \in Threads, h \in Handles :
       \/ ResolveCached(t, h)
       \/ ResolveByWalk(t, h)
       \/ BeginBuild(t, h)
  \/ \E t \in Threads :
       \/ WaitForBuild(t)
       \/ RunBuild(t)
       \/ EndBuild(t)
       \/ Unresolve(t)
       \/ BeginPoll(t)
       \/ EndPoll(t)
  \/ BeginJoin
  \/ EndJoin
  \/ Tick
  \/ RestOfFrame
  \/ \E h \in Handles : GameChanges(h)

Spec == Init /\ [][Next]_vars

-----------------------------------------------------------------------------
ReadScopes(t) == {i \in 1..Len(scopes[t]) : scopes[t][i].kind = "Read"}

(* Every variable has its type, and a Resolved stands for each Read scope  *)
(* but the one a waiting resolve has opened.                               *)
HandleTypeOK ==
  /\ LockTypeOK /\ FrameOwnsLock
  /\ generation \in Nat
  /\ releaseEpoch \in [Threads -> Nat]
  /\ memory \in [Handles -> Nat]
  /\ built \subseteq Levels
  /\ cache \in [Scripts -> [Handles -> [ptr : Nat, gen : 0..generation]]]
  /\ \A t \in Threads :
       Cardinality(ReadScopes(t)) =
         Len(live[t]) + (IF building[t] = NotBuilding THEN 0 ELSE 1)

(* A pointer that may be followed: AssertFresh of a debug build lets it by. *)
Followable(t, i) == live[t][i].epoch = releaseEpoch[t]

Sound(r) == r.ptr # nullptr => r.ptr = memory[r.handle]

(***************************************************************************)
(* HandleCache.h:47-56: after the first tick, a Resolved of a unit or a    *)
(* control whose epoch check passes holds a pointer to the structure that  *)
(* is there now, wherever the frame is and whatever waits came between.    *)
(* So the debug check is complete: it catches every stale pointer.         *)
(***************************************************************************)
FreshWhenFollowed ==
  writeLockHeld =>
    \A t \in Threads : \A i \in 1..Len(live[t]) :
      Followable(t, i) /\ live[t][i].handle \in Units => Sound(live[t][i])

(***************************************************************************)
(* The same for rooms and levels, as docs/game_thread_safety.md:42 has it: *)
(* every pointer resolved before a wait may be stale after it, and work    *)
(* posted to the game thread captures the handle, not its pointer.         *)
(***************************************************************************)
FreshAfterBuilding ==
  writeLockHeld =>
    \A t \in Threads : \A i \in 1..Len(live[t]) :
      Followable(t, i) /\ live[t][i].handle \in Levels => Sound(live[t][i])

(***************************************************************************)
(* HandleCache.h:25-29: with the game lock held, a cached pointer that Get *)
(* returns is safe to use: the game cannot have changed the structure      *)
(* since it was cached.  A script holds the lock itself, and for a drained *)
(* task, which may carry a copy of the script's handle, the drain does.    *)
(***************************************************************************)
CachedIsCurrent ==
  writeLockHeld =>
    \A t \in Scripts, h \in Units :
      (depth[t] > 0 \/ Draining) /\ Hit(t, h) => cache[t][h].ptr = memory[h]

(***************************************************************************)
(* HandleCache.h:27-28: while a script thread keeps a read lock, the game  *)
(* thread neither starts a tick nor changes a structure, also when it is   *)
(* in the middle of handing its own lock over for a Join.                  *)
(***************************************************************************)
NothingMovesUnderALock ==
  [][\A t \in Scripts :
       writeLockHeld /\ depth[t] > 0 => UNCHANGED <<generation, memory>>]_vars
=============================================================================
