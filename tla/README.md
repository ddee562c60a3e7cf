# d2bsng: a verification project

d2bsng is a DLL that runs JavaScript bots inside the Diablo II 1.14d client. Every bot script has a
V8 isolate and a thread of its own, and all of them read the memory of a game that was written for
one thread and keeps running. The hard part of the program is what keeps these apart: a lock the game
thread holds except while it sleeps, handles that are resolved anew every tick, a queue of work for
the game thread, the starting, stopping and joining of scripts from four different threads, events
posted to scripts that may be gone, a debugger that comes and goes, a configuration file shared with
other processes, and natives whose memory a garbage collector frees. This directory models that part in
TLA+, checks it with TLC, and proves theorems about it with TLAPS.

1. [The system](#1-the-system) - the inventory
2. [Modules](#2-modules) - what models what, and how state and actions correspond to the code
3. [Runs](#3-runs) - what each run asks, its bounds, its fairness
4. [What the runs found](#4-what-the-runs-found)
5. [Proofs](#5-proofs)
6. [What is not modelled](#6-what-is-not-modelled-and-why)

Paths are relative to the repository's `src/` unless they start with `docs/`; `contract/game/...`
stands for `src/contract/game/...`.

## 1. The system

### Threads

| Thread | What it does | What it shares |
|---|---|---|
| game thread | runs the game; every call of `Sleep` in it becomes `GameLoop::OnSleep`, a tick | game memory (sole writer), the task queue, the engine |
| script threads | one per script: `Script::ThreadMain`, an isolate, an event loop | game memory (readers), the queue, event queues, drawables |
| render thread | the ImGui console window: panels start, stop, restart scripts | the engine, configuration, profiles |
| inspector thread | the WebSocket server of the Chrome DevTools protocol | message queues of the scripts |
| worker threads | DNS, HTTP, analytics, update check | queues of their own |
| unloader | `Host::Shutdown` on the unload of the DLL | all of it, to stop it |

### Components

For each: its state; its operations; with whom it interacts; what is hard; what makes it correct.

**Game lock** (`contract/game/GameLock.h`). One `shared_mutex`, and per thread `depth_` (levels of
read locks), `active_` (the write lock of this thread) and `releaseEpoch_`. Operations are the
constructors and destructors of four RAII classes: `GameReadLock`, `GameWriteLock` (with `Acquire` and
`Release`), `GameReadLockReleaser`, `GameWriteLockReleaser`. Everybody uses it. Hard: the scopes nest
arbitrarily; a read lock under the write lock is a no-op and its destructor has to find that out from
thread-locals that a releaser may have changed meanwhile; a releaser hands back all the levels at
once. Correct when: the thread-locals always say what the mutex says, a scope closes in the state it
opened, a thread that waits has handed everything back, and readers exclude the writer.

**Handles and resolved pointers** (`contract/game/HandleCache.h`, the backend's `ResolvePtr`s). A
global `frameGeneration`; per handle a cached pointer and its generation; per `Resolved<T>` a pointer,
a read lock and the release epoch. Operations: resolve (from the cache, by a walk of the game's lists,
or after the game thread has built the level), `InvalidateHandles` once a tick, and every wait that
hands the lock back. Hard: the cache is invalidated once a tick but the lock changes hands more often;
a pointer survives a wait inside `Execute`, `PollUntil`, `Join`. Correct when: a pointer that passes
the epoch check is to the structure that is there now.

**Game thread queue** (`contract/game/GameThread.h`). A queue under a mutex; per `Execute` a
`CallState` shared by caller, task and stop callback. Operations: `Execute`, `Post`, `Drain`,
cancellation by the script's stop token. Hard: the callable captures the caller's stack by reference,
and a stop may wake the caller at any moment; the caller holds a read lock the drain waits for; a
callable may itself call `Execute`. Correct when: no callable runs without its caller, a call has one
outcome, a thread's tasks keep their order, a stopped caller needs no drain, and every call returns.

**Game loop** (`runtime/components/gameloop/GameLoop.cpp`). Phase of the frame, whether the write lock
is held, the snapshot of the last tick, the session latch, the profile counter, timers for chicken and
maximum game time. Operation: `OnSleep` - body, drain, sliced sleep, reacquisition. Hard: hooks of the
game's own frame re-enter the framework under the write lock; the first tick holds no lock; the
lifecycle of the scripts is decided from two snapshots a tick apart. Correct when: the game's own
frame never runs without the write lock, and each change of session and profile starts, restarts or
stops what it has to, once.

**Script and script engine** (`runtime/components/script/Script.cpp`, `ScriptEngine.cpp`). Per script:
`state_` (an atomic), the stop token of its `jthread`, the isolate, an event queue, handlers, timers.
Engine: `scripts_` under `scriptsMutex_`, `consoleScript_` under `consoleMutex_`. Operations:
start (which replaces the script of the same path), stop, pause, resume, join, the body of the thread,
restart of the console script, stop all, shutdown. Called from the game thread, the render thread,
scripts and the unloader. Hard: stop races with every step of start-up; joins are made outside the
locks, on lists taken earlier; two scripts can join each other. Correct when: one script per path, no
running script is unknown to the engine, nobody joins a script nobody has stopped, every stop ends
the thread, every join returns, no caller reaches an isolate that is being disposed.

**Events** (`runtime/components/events/`). Listener counts hashed by name, a queue per script,
blockable events with a promise, timers. Operations: dispatch to all scripts that listen, broadcast,
post, execute, vote, (un)register, set and clear a timer. Hard: dispatch reads the state and the counts
without the mutex of the handlers; teardown drops what is queued; `clearInterval` inside its own
callback; `delay()` runs handlers inside handlers. Correct when: a count is never zero while a handler
is installed, every script that listens throughout is served, each expected vote is counted once, a
cleared timer does not fire again, and a stop ends `delay()`.

**Profiles and configuration** (`runtime/components/profile/`, `core/config/`). The active profile and
a counter of explicit switches; an INI file shared by several processes under a named mutex. Correct
when: a switch acts and a `login()` does not, the paths follow the profile, no update of another
process is lost, and no section is torn.

**Inspector** (`runtime/components/inspector/`). Connections and targets under the server's mutex, a
queue of events per script, the session, the pause loop that runs messages on the script's thread
while JavaScript is stopped. Correct when: no event waits unseen, a session is its client's, and a
pause ends with its client, the server or the script.

**Navigation** (`runtime/components/navigation/`). Per script thread the collision grid of the last
level and the nodes of the last search. Correct when: what was kept never shows in an answer.

**Process services** (`core/`). Detours, proxy, input, HTTP; the speedhack's clocks, read without a lock
while their speed changes, some of them through two clocks of the system on one base. Correct when: scaled
time is continuous over a change and does not go back.

**Room data** (`backends/lod114d/game/RoomData.h`). Reference counts of the rooms that scripts ask the
game to load. Correct when: a room stays while a guard lives, and the game's own rooms are left alone.

**Database objects** (`runtime/api/classes/io/JSSQLite.cpp`, `JSDBStatement.cpp`, `runtime/api/core/Class.h`).
Natives inside wrappers the garbage collector frees: a database lists its statements, a statement
points to its database and keeps its wrapper alive, a view borrows a statement's native. Operations:
open, query, list, step, skip, reset, close, and the collector's marking, pre-finalizers and destructors.
Hard: both sides clear the links between them, from bindings and from destructors in any order, and
a getter that allocates walks a list the collector changes. Correct when: nothing points to freed
memory, the collector closes nothing in use, and a row given is the row the statement stands on.

**Drawing** (`runtime/components/drawing/`). Lists of objects that scripts add and remove and the game
thread draws, hovers and clicks.

**The rest**: host start and shutdown, code cache, native call hook, character state and analytics,
DDE, the console window, the backend's hooks and imports, its other game actions, the JavaScript
bindings, utilities and build tools. `PROJECT.json` lists each with its sources.

### How they interact

```
  render thread --StartScript/Stop/Restart--> ScriptEngine <--load/stop/join-- scripts
  game thread   --StartScript/Stop/Restart/StopAll--^   |
      |                                                 | Script::Stop, Script::Join
      | OnSleep: InvalidateHandles, Drain               v
      |                                             script thread
      |   <--- GameThread::Execute / Post -----------   |
      |   ---- result, cancelled by the stop token -->  |
      +--- write lock ---> shared_mutex <--- read lock -+  Resolved<T>, HandleCache
```

The waits-for edges that must not close a circle: a script in `Execute` or at its read lock waits for
the game thread; the game thread in `Join` waits for a script; the console window and `Shutdown` in
`Join` wait for scripts; a script in `Script.join` waits for another.

## 2. Modules

```
 ReadersWriter  <--implements--  GameLock  <--EXTENDS--  GameFrame  <--EXTENDS--  HandleCache
 (abstract)                                                        <--EXTENDS--  GameThread
 ScriptLifecycle, ScriptEvents                                 each on its own
 ScriptPump, Inspector, SessionScripts, RoomData, IniStore, Speedhack, Pathfinder, Database
      share no state and no name; MCParts explores the first two, and GameLock, side by side,
      MCServices the others, and HandleCache

 GameLockProofs (GameLock and GameFrame)  <--EXTENDS--  GameThreadProofs, HandleCacheProofs
 ScriptLifecycleProofs, ScriptEventsProofs, PathfinderProofs
 ScriptThreadProofs (ScriptPump and Inspector)
 ServiceProofs (RoomData, Database, Speedhack, SessionScripts, IniStore)
 MC*: model values for TLC
```

`PROJECT.json` maps each definition to the lines it stands for.

### ReadersWriter and GameLock

`ReadersWriter` is the promise: each thread has the right to read, to write, or none; rights are
granted only when compatible and never converted. `GameLock` is the code. `readers` and `writer` are
the shared mutex, `depth` and `active` are the thread-locals, and `scopes` is the stack of open RAII
objects of each thread with the lock state each of them captured when it was constructed (what the
members `savedDepth_`, `released_` keep). One action opens and one closes each of the four classes; a
scope can be closed only when it is the innermost, which C++ guarantees for block-scoped objects. The
write lock that outlives `OnSleep` is `Acquire` and `Release` of one object and is opened, as in the
code, only where the game thread has no other scope. `RetainReadLock` is false in this host and left
out. The refinement mapping takes a thread's right from its thread-locals alone: the run and the
theorem show that what `IsGameLockHeld()` believes is a right the rule grants.

### GameFrame

The phases of `GameLoop::OnSleep` and where the write lock is taken and released across them. It has
no `Next` of its own: `HandleCache` and `GameThread` compose it with what happens in each phase. The
deadline of the sleep is a nondeterministic end between two slices. `host::RunFrame` returns false in
this DLL.

### HandleCache

A structure of the game is an incarnation number per handle: the game frees it and makes it again in
its own frame (`GameChanges`), and a pointer is valid while it is the current one. `cache`,
`generation`, `releaseEpoch` and `live` (the `Resolved<T>` objects, innermost last) are the code's.
A unit or a control resolves by a walk; a level that is not built posts the build to the game thread
with the raw pointer it has found, hands its lock back and goes on with that pointer (`BeginBuild`,
`WaitForBuild`, `RunBuild`, `EndBuild`). `PollUntil` on a script and `Join` on the game thread are the
other waits. Assumed of the game: its structures change in its own frame only, not in what drained
tasks call. The cancellation of the `Execute` inside a resolve belongs to `GameThread`.

### GameThread

A script thread walks through `Execute` by the places where another thread can come between
(`Register` the stop callback, `PushCall`, `HandBack` the read lock, `Wait`, `Restore`); the game
thread through `Drain` (`TakeBatch`, `StartTask`, `FinishTask`). `state` is `CallState::state`, changed
only through the compare-exchanges of the code. `RequestStop` sets the stop token and decides whether
a registered callback has to run; `RunStopCallback` is that callback, a step of its own because
`request_stop` may be on another thread; its closing counterpart is that `Restore`, the destructor of
`stop_callback`, waits for a callback that is running (so it clears `cancelling`). A callable may call
`Execute` on the game thread (`NestedCall`): in place under the write lock, through the queue without
it. `BeginJoin` and `EndJoin` are `Script::Join` on the game thread. Results and exceptions are data.

### ScriptLifecycle

A script is its creation number. `state`, `stopToken`, `terminated` and `path` are the object's, `at`
is the place in `ThreadMain`, `scripts` and `console` are the engine's. The engine calls that have
more than one critical section (`StartScript`, `RestartConsoleScript`, `Shutdown`) go through steps in
`call[c]`, with the scripts they hold in `aim[c]`; a critical section is one step, and so is `Stop`:
its compare-exchange decides, what follows only sets flags of that script. Callers are the game
thread, the render thread, the unloader and the scripts, whose `Script.stop` may hit any script, the
console's and their own, too. Which callers do what is a constant
(`Starters`, `Restarters`, `Loads`), so that a run can ask about a set of callers. Assumed: no script
loads its own file (that would make it join its own thread, an exception of the C++ library), and
nobody loads the console script's file (both are in the list of hazards).

### ScriptEvents

A dispatch finds the counter of its name first, which may give the name a slot (`LookUp`), then reads its
count, and does nothing at zero (`Fire`). It holds the set of scripts it has still to
ask (`left`), takes them in the order of their paths (`First`) and, for each, goes through the questions
`FireIfRunning` and `ExecuteEvent` ask one after the other: the state (`AskState`), the registration
(`AskRegistered`), the vote it expects (`IncrementExpected`), the isolate (`LoadIsolate`), whether the
script is ending (`AskAlive`), and the post (`Post`); between any two the script may unregister, pause,
stop or be torn down (`Leave`, `Exchange`, `ClearFunctions`, `DropTask`). A dispatcher that has copied
the isolate's pointer keeps it alive, which is what `Holding` says. A change of handlers is two steps,
as the code counts before it installs and takes out before it counts off; the mutex of the handlers is
`change[s] # "None"`. The table of listener counts has `MaxSlots` names of its own and one count for
all the others. A handler may be inside another one (`MaxNesting`), and a broadcast runs the sender's
own handlers in place. `due` is a history variable: who has listened since the dispatch began.

### ScriptPump

`delay()` on one script's thread, step by step: the stop whose termination a handler swallowed
(`Enter`), the wait while paused, the tasks that are ready, the render handler, the end. The thread is
a stack of JavaScript frames, since each task runs a handler that may call `delay()` itself. A timer
has its queued tasks, its entry in `delayedEvents_` and its `cancelled_` flag. Wall time is left out:
whether a timer is due and a delay over may be answered either way. V8 is external: a termination ends
the innermost frame, and the `TryCatch` around a handler may take it (`Return`).

### Inspector

The server's maps under its mutex (`attached`, `conn`), each push in two steps (`Enqueue`, `Announce`),
and the script's thread with a stack of what it is inside of: a drain with its batch, an evaluation,
a pause. `Connect`, `Dispatch` and `Disconnect` are the three cases of `ProcessEvent`; `EndDrain` is
the deferred teardown. The environment is not restricted: connections come and go, and their pushes
overtake each other. What the code gives up then is told by history: `unhandled` are the events that
were queued and not handled, in order; `inOrder` ends when a nested drain handles a later event before
an earlier one, or when a pause that ends drops the rest of its batch (a `Connected` may be in it);
`overtaken` says that the last push about who is attached was out of date when it was queued. Messages
that come to another client's session are excluded in every case but the first two.

### SessionScripts

`TakeSnapshot` is three steps (`ReadState`, `ReadLatch`, `ReadProfile`) between which other threads
switch profiles, or clear and set the latch; `DriveScriptLifecycle` is one, with the same named conditions as
the code (`Entered`, `Exited`, `ProfileSwitched`, `LatchCleared`). The profile the tick loads may not be found:
then the paths stay those of the profile before (`ResolvedPaths`). Paths may name no script for the game
or the menu: then the old one is stopped and none is started (`WithGame`, `WithStarter`). Starting and stopping
are atomic here, `ScriptLifecycle` has their insides. A script is the profile whose paths it was started from
and the game session it was started in, so that a property can compare both with what is there now.
`unserved` and `unloaded` are history: the session has no script to expect, the profile was not found.

### RoomData, IniStore

`RoomDataGuard`: construction and destruction under the mutex are single steps; guards overlap freely.
`IniStore`: `ProfileExists`, the mutex with its timeout, copy, keys and swap are steps of their own;
every process may crash at each of them, and its mutex is handed on.

### Speedhack

Loads and stores of the snapshot one by one, in the order of the source, in one domain of 64 bits: that of a
counter (`GetTickCount64`, `QueryPerformanceCounter`), or that of the file times. A counter has one clock.
File times are anchored at the coarse clock of the system (`ReanchorLocked`) and read through it and through
the precise one, which is ahead by a timer tick at most; `GetSystemTime` and `GetLocalTime` ask whether they are to
scale before they read the clock (`AskFirst`, `ReadLate`), the other hooks after (`ReadReal`, `ScalingEngaged`).
The first difference of file times is from zero, and larger than what a `double` tells apart: `Double` rounds as
the conversion does. `seen` and the flags of a reading are history: the latest time returned by
each clock, and whether a change or a tick came in between. `Lapse` is what file times may go back by.

### Pathfinder

What `FindPath` keeps (`lookup`, `arena`, `gCurrentGen`), the call before its search (`call`, `grid`), and the
search of `WalkAStar`, an entry of the heap at a time. Meanwhile the player walks, doors open and games end
(`world`). The call reads the seed; then it either builds a grid, which stamps it with a seed read anew, copies it
room by room and keeps it (`BeginGrid`, `CopyRoom`, `RoomIsGone`, `KeepGrid`), or refreshes the rooms near the
player in one lock (`Refresh`). `Level::Get` may fail (`NoLevel`), and so may the memory for the nodes. A grid
is the flags of the cells; what is in the way and the penalties are read off it as the code does, from
the crosses of cells around (`IsBlocked`, `GetPenalty`). A level has the same cells in every game, with other
flags. The order among equal entries is open. `PathIsShortest` speaks of calls whose map can be known: not of
those during which the game was left for another, nor of levels with a door that opened since its room was
copied (`unseen`). The reference, `Cheapest`, is the cost of the best of all ways, computed by the length of the way
(`Onward`, `CheapestOf`). A new game has a map seed that was not seen before.

### Database

An object is a JavaScript wrapper with its cell and native, which are collected together; a view has a
cell over another's native. `held` is what the script refers to, `listing` the locals of the `statements`
getter, which makes its views one step at a time with the collector in between. `Collect` is the pause
that finds objects dead: it may keep any superset of what is reachable that is closed under the
references (`Trace`, the private of a view), and runs the pre-finalizers; `Sweep` is one destructor, in any
order. `isOpen` stands for the handle, too: the code changes them together. SQLite is external: a step
moves to a next row, ends, or fails and leaves the statement on no row. The disposal of the isolate is a
collection after the script has let go of everything. Errors that leave no native are left out.

### MCServices and MCParts

Components that share no state gain nothing from their product. `MCServices` starts with a choice of one
of seven parts, `MCParts` of one of three, and moves that one only; the states are the sum of the parts', and
each part's properties are checked in all of its states, since the others hold in their initial states.
The parts of `MCParts` are those of which liveness or a refinement is asked.

## 3. Runs

| Run | Instance | Distinct states | Shows |
|---|---|---|---|
| `services` | the seven parts below | 1,330,528 | the properties below |
| `handles_join` | its handles, and joins in the game's own frame | violation | refutes `CachedIsCurrent` |
| `handles_build` | its handles | violation | refutes `FreshAfterBuilding` |
| `game_thread` | game thread, 2 scripts, 2 tasks in all | 114,898 | `CallableAlive`, `OneOutcome`, `InOrder`, `StopNeedsNoDrain`, `CallsReturn` |
| `game_thread_nested` | 1 script, nested calls in the first tick's drain, too | violation | refutes `RunsInPlace` |
| `lifecycle` | 4 scripts of 2 files, one of them the console's, which loads the other | 754,950 | `OnePerPath`, `NoOrphan`, `JoinedIsStopped`, `RegisteredHasIsolate`, `StopEnds`, `EngineReturns` |
| `lifecycle_shutdown` | 2 scripts, engine calls during the shutdown | violation | refutes `JoinedIsStopped` |
| `lifecycle_restart` | 4 scripts, two threads restart the console script | violation | refutes `OneConsoleWriter` |
| `events` | game thread and 2 scripts; a blockable event and a broadcast; 1 named count | 2,105,586 | `CountIsExact`, `EveryListenerServed`, `VotesAccounted` |
| `parts` | the three parts below | 323,582 | the properties below |
| `inspector_pause` | 2 clients, 1 message | violation | refutes `TornDownOutsidePause` |
| `speedhack_torn` | 2 readers, 2 setters, 2 speeds, 4 ticks | violation | refutes `TornReadIsClose` |

The parts of `services`:

| Part | Instance | Distinct states | Shows |
|---|---|---|---|
| `HandleCache` | 1 script, 1 unit, 1 level; 3 scopes, 3 ticks, 3 incarnations, 1 release | 937,544 | `FreshWhenFollowed`, `CachedIsCurrent`, `NothingMovesUnderALock` |
| `SessionScripts` | 3 names of 2 profiles, 1 switch, 1 click on the latch, 2 sessions | 207,310 | `SessionHasItsScript`, `PathsFollowProfile`, `NoRestartInSession` |
| `RoomData` | 3 guards, 2 rooms | 196 | `RoomsAreKept`, `GameKeepsItsRooms` |
| `IniStore` | 3 processes, two of which add the same profile, 2 keys | 17,930 | `NoLostUpdate`, `SectionIsWhole` |
| `Speedhack` | 1 reader, 1 setter, speeds of a half and of five halves, 2 ticks, 2 changes | 86,216 | `ClockNeverGoesBack` |
| `Pathfinder` | a level of 6x5 cells in 3 rooms with a door, one of 2x2, 2 games, 3 requests, 3 searches | 52,792 | `PathIsShortest` |
| `Database` | a database, 2 statements of 2 rows, a view | 28,540 | `NoDangling`, `CollectorIsUnseen`, `RowIsCurrent` |

The parts of `parts`:

| Part | Instance | Distinct states | Shows |
|---|---|---|---|
| `GameLock` | game thread, 2 scripts, 3 scopes each | 76,988 | `HeldIsOwned`, `ScopesNest`, `HandedBack`, `ImplementsReadersWriter` |
| `ScriptPump` | a timeout and an interval, 1 event, 2 frames drawn, 2 handlers deep | 73,716 | `OneTaskPerTimer`, `RenderNotNested`, `StopEndsDelay` |
| `Inspector` | 2 clients and the switch of the server, 1 message, 3 levels | 172,878 | `NothingUnseen`, `SessionIsTheClients`, `PauseEnds` |

### Bounds

- `MaxScopes`, scopes a thread has open at once. Three of them allow each of the code's deepest
  patterns (a `Resolved`, the releasers of a wait inside it, a read inside the wait) and every other
  nesting of that depth; the theorems of the lock hold for any bound.
- `MaxGeneration`, `MaxIncarnation`, `MaxReleases`. Three ticks are the first, which runs without the
  lock, and two with it; an incarnation that is freed and made again needs two changes, a third one
  starts the next. One release tells "before" from "after"; a thread at its bound takes no further wait.
- `MaxTasks`, tasks issued by all threads together, and `MaxOwnTasks`, by one of them. Two are enough
  for the pairs that matter: a post and a call of one thread, calls of two threads, a call and the one
  nested in it. The safety theorems of the queue hold for any bounds.
- `MaxScripts`, scripts ever created. Four are the first console script and three more: a script, its
  replacement and a new console script, in any order. An engine call reserves the number it will need,
  so that the bound never stops it half-way.
- `ScriptEvents`: one event of each name, dispatched at any moment of the scripts' lives; the properties
  are about one dispatch against everything the scripts do meanwhile. `MaxSlots = 1`
  fills the table with one name, so that the other one shares the overflow count.
- `ScriptPump`: two levels are a handler inside a handler, which is what every re-entry needs; two
  frames let the second one come during the first one's handler.
- `Inspector`: two clients are the one that leaves and the one that comes; three levels are a pause, an
  evaluation in it, and a pause in that. `MaxQueue` bounds what waits when another push is decided: since
  several threads may decide before any of them has queued, batches of several events occur with 1, too. With
  `MaxMessages` 1 the other events are connections, their ends and the stop of the server.
- `SessionScripts`: a login is not bounded, so that one switch is there and back with it; one click sets the
  latch again, or clears it; a third name is the first one in another case, and only one profile's paths
  name scripts. The theorems hold for any bounds.
- `IniStore`: three processes are two of one profile and one of another; `MaxAttempts = 2` is one retry.
- `Pathfinder`: `MaxGen = 2` and three searches reach the wrap; two seeds and two levels are the ways a kept
  grid can be wrong; three rooms are one the player stands beside and one he does not. The flags make
  the cheapest way differ between the games, with the door and with the penalties.
- `Database`: objects are used again once they are swept, so one database stands for many; two statements
  are one that is closed and one that is not. The theorems hold for any number of each.
- `Speedhack`: the highest speed and the timer tick are the smallest that show each term of `Lapse`; times from
  `Epoch` on lose their last bit in a `double` of `Grain` 2. One reader is enough, since `seen` is what any
  thread was told. `Few` in `SpeedhackTorn.cfg` is the bound of the comment, in ticks; the violation grows
  with `MaxReal`, so any other value is exceeded by waiting longer.

`CHECK_DEADLOCK FALSE` stands where the bound or the shutdown really ends the behaviour: a thread that
has used up its releases, an engine that was shut down, processes that have all saved, a script that
has ended. `game_thread` and `game_thread_nested` check deadlock.

### Fairness

- `GameThread`: a script does not stay inside a game read, nor inside `Execute` but for what it waits
  for, and the destructors get the read lock in the end: strong fairness, since the lock is free again
  and again while the game sleeps. JavaScript that V8 was asked to terminate ends. `request_stop` runs
  its callback. Nothing is asked of the game thread, so `StopNeedsNoDrain` holds even if it hangs.
- `CallsReturn` asks more, and says so in the formula: `GameFairness => ...`, the game keeps calling
  `Sleep`, tasks end, and the write lock is given to the game thread in the end (strong fairness: a
  waiting writer holds off new readers in the SRW lock behind `shared_mutex`, and readers do not stay).
- `ScriptLifecycle`: threads run, V8 terminates what it was asked to terminate, an engine call goes on.
  No script ends by itself, so a join that returns does so because somebody stopped the script.

- `ScriptPump`: `delay()` and native code go on, `Stop` is carried through, terminated JavaScript ends,
  and JavaScript that is not terminated calls `delay()` or ends. The last is what the fix in the code
  (`Script.cpp:885`) relies on: a script that computes for ever after a handler swallowed its
  termination cannot be stopped, there or here.
- `Inspector`: pushes and the loops of the script's thread go on (V8 serves a requested interrupt). An
  evaluation ends (strong fairness, since drains and pauses inside it disable its end for a while).
  Nothing is asked of the clients.

`PartsFairness` is the same, each condition restricted to its own part. The liveness properties of
`GameThread` and `ScriptLifecycle` have the form "in the end always" where one would write "leads to": under the
bounds only finitely many calls and stops are made, so each of them is over in the end exactly if the
system reaches a point where none is open. TLC checks that form in a fraction of the time.

### Constants that choose a question

`JoinsInFrame`, `NestsInFirstTick`, `ShutdownRaces`, `JoinsRunning` and the sets of callers are
behaviours of the code that can be switched off. The passing runs have them off where the code does
not live up to the property with them on; the violation runs have them on. That is the way to read the
passing runs: `services` says the handles are right *but for* joins of typed commands and level builds;
`lifecycle` says the engine is right *but for* calls during the shutdown, two restarters at once, and
`Script.join` on scripts nobody has stopped. With `JoinsRunning` on, TLC refutes `StopEnds` and
`EngineReturns`: a script inside the native `Script.join` cannot be terminated. With two restarters,
`NoOrphan`, `OnePerPath` and `JoinedIsStopped` fail as well.

Where the code gives something up, history variables mark it and the properties say so: `unserved` and
`unloaded` in `SessionScripts`, `inOrder` and `overtaken` in `Inspector`, `timedOut` in `IniStore`, `known` in
`Pathfinder`. No action reads them.

Each property of a passing run has a mutant: a definition with a plausible bug (a handed-back level
too few, a callback registered without a look at the token, a start that does not stop what it
replaces), under which TLC finds the property violated. The mutated forms stand before the
definitions they vary, with a comment that says what the bug is.

## 4. What the runs found

1. **A cached pointer can be stale under the lock** (`handles_join`). The frame generation moves at the
   start of a tick, but a `.load` or `.start` typed into the chat joins the replaced script inside the
   game's own frame and hands the write lock over there. A script that reads then gets a pointer from
   `HandleCache::Get` that was cached before the game changed the structure.
2. **A level's pointer survives the wait that built it** (`handles_build`). `FindLevelInChain` captures
   the raw pointer in the task and returns it after the wait; the epoch of `Resolved` is read after
   that, so the debug check cannot see it.
3. **`Execute` on the game thread does not always run in place** (`game_thread_nested`). In the first
   tick's drain nothing holds the write lock; a nested `Execute` queues behind itself and waits for
   the drain it is in.
4. **Shutdown can join a script nobody stopped** (`lifecycle_shutdown`). The console script is alive
   between `StopAllScripts` and its own stop and can load a script in between.
5. **The console script has two writers** (`lifecycle_restart`). The render thread and the game thread
   can both be inside `RestartConsoleScript`; the one that publishes last loses the other's script.

6. **A session can be torn down inside a pause** (`inspector_pause`). The documentation forbids it, and
   `Disconnected` defers it; but the `Connected` of a next client, which may be queued before the
   `Disconnected` of the one before, tears the old session down wherever it is processed.
7. **A torn read of the clock is not close** (`speedhack_torn`). Between the stores of the new base and
   the new offset, a read gets the offset of the change before the last one: the error is the whole
   virtual time since then, not microseconds.

Each is quoted with the sentence it contradicts in `PROJECT.json` under `findings`.

The model of the clocks showed one more, which no run is spent on, since `ClockNeverGoesBack` states its
bound: file times go back over a change of speed. A change anchors virtual time at the coarse clock; the
precise one is ahead of it by up to a timer tick, which is scaled with the old speed before the change and with
the new one after it. With a lower speed, the next precise read is earlier than the one before, although
no change met either of them; the comment at `Speedhack.cpp:398-400` says that virtual time is kept continuous.

## 5. Proofs

Each safety invariant that a passing run checks, the action properties `NothingMovesUnderALock`,
`NoRestartInSession` and `CollectorIsUnseen`, and the refinement `ImplementsReadersWriter` are theorems, for
all values of the constants that the assumptions below allow: threads, handles, scripts, callers, events,
timers, clients, profiles, guards, processes, objects, speeds, levels, and the bounds.

| Theorem | Module | Says |
|---|---|---|
| `LockTypesHold` | `GameLockProofs` | `LockTypeOK` is invariant |
| `HeldIsOwnedHolds` | | thread-locals and mutex agree; the writer excludes the readers |
| `ScopesNestHolds` | | a scope is closed in the lock state it set up |
| `HandedBackHolds` | | a thread inside a releaser owns nothing of what it handed over |
| `LockImplementsReadersWriter` | | `LockSpec` implements `ReadersWriter` |
| `CallTypesHold` | `GameThreadProofs` | `CallTypeOK` is invariant |
| `CallableAliveHolds` | | no callable runs after its caller has left `Execute` |
| `OneOutcomeHolds` | | a cancelled call has not run and never will |
| `InOrderHolds` | | the tasks of one thread begin in the order they were queued |
| `HandleTypesHold` | `HandleCacheProofs` | `HandleTypeOK` is invariant |
| `NothingMovesHolds` | | no structure of the game changes while a script holds its read lock |
| `FreshWhenFollowedHolds` | | a pointer that passes the epoch check is current (`JoinsInFrame = FALSE`) |
| `CachedIsCurrentHolds` | | so is one that `HandleCache::Get` returns (`JoinsInFrame = FALSE`) |
| `LifecycleTypesHold` | `ScriptLifecycleProofs` | `LifecycleTypeOK` is invariant |
| `RegisteredHasIsolateHolds` | | nobody finds a script in the map whose isolate is being disposed |
| `OnePerPathHolds` | | no two scripts of one path go on (`Orderly`) |
| `NoOrphanHolds` | | a script that goes on is one the engine knows (`Orderly`) |
| `JoinedIsStoppedHolds` | | who is joined was asked to stop or has ended (`Orderly`) |
| `EventsInvariant` | `ScriptEventsProofs` | `EventsInv`, below, is invariant |
| `CountIsExactHolds` | | a count of listeners is that of the registered scripts, or of their changes half-way |
| `EveryListenerServedHolds` | | who listens all through a dispatch gets the event |
| `VotesAccountedHolds` | | the votes an event expects are those that are cast, or still to come |
| `OneTaskPerTimerHolds` | `ScriptThreadProofs` | no timer has two tasks queued or running |
| `RenderNotNestedHolds` | | a render handler is never inside a render handler |
| `NothingUnseenHolds` | | no message of a client is left in the queue without a wake-up of the script's thread |
| `SessionIsTheClientsHolds` | | while events are handled in order, no message reaches another client's session, and once all are handled the session is the attached client's |
| `SessionHasItsScriptHolds` | `ServiceProofs` | after a tick the in-game script is that of the session, unless there was none to start or the latch held |
| `NoRestartInSessionHolds` | | nothing but a switch replaces the script of a session that goes on |
| `PathsFollowProfileHolds` | | after a tick with a clear latch the paths are of the profile it saw, unless that was not found |
| `RoomsAreKeptHolds` | | the room of a guard stays loaded while the guard lives |
| `GameKeepsItsRoomsHolds` | | the guards leave the game's rooms alone, and nothing behind |
| `NoDanglingHolds` | | no native points to a freed one, in whatever order they die |
| `CollectorIsUnseenHolds` | | the collector closes nothing the script can still use |
| `RowIsCurrentHolds` | | a statement on a row gives that row, a closed one none |
| `NoLostUpdateHolds` | | without a timeout, what was saved stays |
| `SectionIsWholeHolds` | | with timeouts, too, a section is absent or one writer's as a whole |
| `ClockNeverGoesBackHolds` | | of reads that no change meets, those of counters never go back, file times by `Lapse` at most |
| `PathIsShortestHolds` | `PathfinderProofs` | the path that is answered is a cheapest way on the game's map, if that is known |

(An empty module column is the module of the row above.)

Each module with constants names its assumption, and TLC evaluates it on the runs. They say what a constant
stands for, and are as weak as the proofs allow. `ThreadsAssumption`: the game thread is a thread and
`NoThread` is none. `TasksAssumption`, `HandlesAssumption`, `LifecycleAssumption`: bounds are numbers, kinds
of handles and of callers are different, switches are truth values (the theorems about the queue hold
with `NestsInFirstTick` on and off), and a script loads files other than its own. `EventsAssumption`: the
order in which a dispatch visits scripts has none of them twice, broadcasts are not blockable, and the
hooks that dispatch are no scripts. `PumpAssumption` and `InspectorAssumption`: an interval is a timer, and names
of different things differ. `RoomAssumption`: the guards are finitely many. `IniAssumption`,
`SessionAssumption`, `DatabaseAssumption`: the values that stand for nothing are none of the others.
`SpeedsAssumption`: speeds, and the fixed-point unit they are multiples of, are positive, and none is above
`TopSpeed`; what a counter counts is exact as a `double`, a file time is not. `PathAssumption`: levels
have finitely many cells, which are pairs of numbers; a level is so small that no way's cost reaches the
largest 32-bit number, which stands for infinity in the code; requests are within their level.

Two conditions are hypotheses of theorems as well as assumptions about the program:

- `JoinsInFrame = FALSE`, for the two theorems about stale pointers: no join in the game's own frame.
  `handles_join` refutes `CachedIsCurrent` without it.
- `Orderly`, for the three about the engine: no engine calls in the shutdown, and at most one thread that
  restarts the console script. `lifecycle_shutdown` and `lifecycle_restart` refute the properties
  without its first and its second half. The theorems need nothing else: of all the interleavings the
  model has, only these two break the three properties.

**The lock.** `HeldIsOwned` is not inductive by itself: whether closing a scope keeps it depends on
the lock state the scope captured when it opened, about which `HeldIsOwned` says nothing - a releaser
could restore a depth of two on a thread that has meanwhile become the writer. The inductive invariant
is `LockInv`: the types, `HeldIsOwned`, `ScopesNest` (each scope opened in the state the one around it
set up, and the innermost one's state is the thread's), and `OneRight` (no scope opened on a thread
that was both reader and writer, and a `Write` scope is the outermost). With `ScopesNest`, closing a
scope returns the thread to the state the scope around it set up, which is what re-establishes the
invariant. `PushNests` and `PopNests` prove this once for all kinds of scope; each action then has one
lemma that says what it does to the mutex. The refinement follows from the invariant: no step turns a
right into another without giving it back (`NoTrade`), and rights are compatible (`RightsCompatible`).

**The frame.** `GameLockProofs` ends with lemmas for every module that composes `GameFrame`
(`GameThread` and `HandleCache`). `FrameOwnsLock`, the phase decides whether the game thread owns the write
lock, is not inductive: a releaser that closes might bring a write lock back that no frame holds.
`FrameInv` adds that a scope captured an active lock only if the frame has one, and that the outermost
scope of such a frame is the frame's own.

**The queue.** Each step of `GameThread` is a step of the lock or leaves it alone (`StepIsLockStep`),
so `LockInv` carries over as it is. The three safety properties rest on `CallInv`. A call that is
undecided is the last its thread has issued, and the thread is inside `Execute`; one whose callable
runs is waited for, at a place that a stop callback cannot make the thread leave: this ties the life of
the callable to the place of its caller. The head of the batch, while the game thread is inside it, is
a running call's. For the order, what waits (`batch` and then `queue`, one sequence that is only
appended to and shortened at the head) is ascending per thread and above all that has begun, and no
task is above what its thread has issued. Each action has one lemma; `CallInvStep` collects them.

**The handles.** `CountInv` adds to the lock's and the frame's invariants that the open read scopes of a
thread are as many as its live `Resolved` objects, and one more while it waits for a build
(`ReadsCounted`). It is needed for the bottom of the argument: when the game thread is in its own frame
with nothing of its own open, it has the write lock, so no script has a read scope, so no script has a
resolved pointer (`GameAlone`). `FreshInv` says what a pointer is worth at each place: a `Resolved` is
current, or its thread has handed the lock back since (`ResolvedsKept`); a cache entry of this
generation is current outside the game's own frame (`CacheKept`), and in the frame nobody reads
(`FrameIsOwned`). Joins in the frame break the last one, which is where `JoinsInFrame` comes in.

**The engine.** `OrderInv` says who is where. `RolesInv`: one thread replaces the console script, and
while it does, or the shutdown is past its first step, there is no console script to be found. `JoinInv`:
whoever is at a join holds scripts that do not go on. `PublishInv`: the new console script is in the map
before it is published. `QuietInv`: the shutdown has stopped the files' scripts first and then all.
`NoOrphan` and `OnePerPath` are inductive with these, and a consequence of `JoinInv` is
`JoinedIsStopped`. Without `Orderly` the first two parts fail.

**The session.** The properties compare values that are read at different moments, so `SessionInv` has
to say what each of them is worth in the middle of a tick: the latch of the session against the game's
session (`LatchInv`), the script against what the last tick saw and what this one has read (`ScriptInv`, as
long as nothing is `unserved`), the counters of switches, which only grow, and the name, which once given is
never taken, so that a profile that is due is loaded (`ProfileInv`, as long as nothing is `unloaded`).

**The rooms.** `RoomInv` counts: a record's number is that of the open guards that hold a reference
(`Counted`, a cardinality), so the last one out is the only one; a guard without a reference is on a room
that has no record (`Kept`); what is loaded is the game's or recorded, and never both (`Owned`).

**The database.** A statement is in a list only while it is live, and then its `parentObject` is that
list's database (`ListedInv`, `ParentInv`); what a live object refers to is live (`AnchorInv`, `ViewInv`,
`HeldInv`). So a collection that keeps a statement keeps its database, a dead database has an empty list,
and a destructor finds nothing to reach that might be freed. For the rows, `ClosedInv` adds that a closed
statement stands on none.

**The file.** `WholeInv` is about one writer alone: a section of its copy is whole but for the keys it
has yet to write. `OwnerInv` is about the mutex: while no wait has timed out, whoever has copied the file
owns the mutex, and so its copy is the file but for its own section.

**The events.** `EventsInv` is one invariant, because counting, serving and voting are about the same
dispatches. *Counting*: a registration is in its name's count from before it is installed until after
it is gone (`handlers` and `inHand`), and a name that has no slot while one of its registrations counts
never gets one (`HasNoSlot`), so what was added to the overflow count is taken from it. *Serving*: whoever
is due still runs and listens (`DueInv`), so the script a dispatch passes over was not due. *Voting*: an
event is once among a script's tasks, and no two dispatches share one (`OnceInv`); a script never dispatches
a blockable event; so each step makes at most one script owe a vote, or stop owing it, just when
`remaining` changes by one (`VoteInv`).

**The pump.** The tasks of a timer are those queued and those whose callback is on the stack. A timer
that is registered has one of them, unless the script no longer accepts posts; the registered and the
cancelled ones are parts of what was set (`TimersInv`). So a callback that posts its next task is the
only one there was.

**The inspector.** `NothingUnseen` is inductive with the types. `SessionIsTheClients` is not. As long as events
are handled in the order they were queued in, what is not handled is one sequence, whatever batches, nested
drains and pauses its parts are in; `LineInv` reads the future of the session off it. For each message in it, and
for whoever may still send one, the session will be that client's or none when the message comes
(`Reaches`): the last `Connected` before it is the sender's, since nobody connects before the server has
forgotten the client before (`HandInv`), and it pushes nothing after. And unless the last event about who is
attached was out of date, it says who is (`Told`), and the owner of the session will be that one.

**The clock.** While a reader is undisturbed (`Quiet`), it holds the speed and the base that are there now; a
change that is half-way goes on from the virtual time that was current when it began. What was told to
anybody is not after virtual time by the coarse clock but for the lapse (`SeenInv`), and a read that was not met
by a change returns no less than virtual time. Scaling is monotone, which comes down to facts about division
(`DivMonotone`, `DivOfProduct`) and about rounding; a tick that the coarse clock is behind is worth at most a tick at
the highest speed, and one for what is cut off.

**The search.** Two facts are needed: the search is right on whatever map it sees, and that map is the
game's whatever was kept from earlier searches. For the first, `Sound` says what is so between two
entries of the heap: a cell that has a cost has it from its parent (`Tree`), costs are bounded by the
number of closed cells (`Small`), the cells with a cost that are not closed are in the heap
(`Frontier`), and the neighbours of a closed cell cost no more than through it (`Told`). This is kept
because the diagonal shortcut is consistent: it falls by no more than what a step costs. When
the goal is the best entry, no way to it can be cheaper (`NotNearer`): along any way to it, the way so far plus the
heuristic is at least the goal's cost at the first cell that is not closed. The parents lead back to the start
along costs that fall (`Trail`), so they repeat no cell, the path is no longer than the level has cells, and it is among
the ways the reference compares. When the heap is empty, what is closed is all that can be reached.
For the second, `PathInv`: the nodes as `Touch` gives them, which resets those of other generations, are `Sound`
with the heap, whatever is left in the arena; the kept grid differs from the game's flags only where its seed
is another one or a door has opened unseen (`LookupInv`), and so do the rooms already copied of the grid that is
built, whose seed is the game's while the call is steady (`GridInv`, `CallInv`). What is in the way and the penalties
are functions of the flags, and the latter are 80 at most (`TerrainIsTame`).

**Tools.** Functions of the numbers, such as the costs by length of the way, are unfolded by `StepByStep`. Induction
over numbers is done from the least exception (`LeastNumber`, from the library's theorem that strict
inclusion is well-founded on finite sets), since the induction theorems of the library take an
operator.

**Only model-checked.** Liveness: `StopNeedsNoDrain`, `CallsReturn`, `StopEnds`, `EngineReturns`,
`StopEndsDelay`, `PauseEnds`. Their proofs need `ENABLED` of the actions that are fair, which the prover does not
have. The properties of the violation runs do not hold, and the theorems speak of none of them.

## 6. What is not modelled, and why

Most of the 62,000 lines are conversions of values for JavaScript, tables, enumerations, calls into the
game's functions and user interface: they have no state of their own whose order could go wrong, and a
model of them would restate them line by line. What is modelled are the parts that several threads,
processes or calls share. Left out of these, or examined and left out:

- The wait for the votes of blockable events: `D2BSNG_BLOCKABLE_NO_WAIT` is 1 in this build
  (`BlockableEvent.h:16`), so the wait and the release of the write lock in it are compiled out. An event
  may be answered before its last vote; nothing reads the answer.
- `.start` typed while the game changes its state (`Commands.cpp:33-44`): the command and the tick may
  both start a script of another mode. The engine calls themselves are in `ScriptLifecycle`.
- A profile switch that a tick sees in the states Busy or Null: modelled as it is, with no property (see
  the hazards).
- `GameLoop`'s chicken thresholds and maximum game time: comparisons that call one function.
- Drawing: the lists are copied under a mutex, and the hover flags have one writer. What may go wrong is an
  enter without its leave, for an object its script removes while the mouse moves.
- A step of SQLite that fails: `hasRow` stays as it was, `skip` keeps the row object it had, and
  `getObject` then gives what is no longer there, or a row of nulls. `Database` has it so; `RowIsCurrent`
  speaks of statements that stand on a row, and of closed ones.
- Navigation across levels, teleport steps, path reduction, `MutatePoint`, callbacks and cancellation,
  exits of levels: geometry on the game's data. A callback that calls `getPath` again replaces the grid
  and the nodes under the outer search; that is undefined behaviour, and in the hazards.
- Doors that open near the player, who leaves before the next search, and doors that open in a room that was
  copied while the others are: the kept grid does not see them, and `PathIsShortest` excludes them by
  `known`. A level has the same cells in every game; what the rooms of another layout leave in a grid whose
  build a change of game meets (`Pathfinder.cpp:175-182`) is here another game's flags in the same cells.
- The speedhack's clock of 32 bits, which scales an unsigned difference (in the hazards), its wait functions,
  the conversions to and from `SYSTEMTIME`, and an operating system that sets its clocks back. Products of a
  difference and a speed are taken to be exact, which they are below 2^53.
- Several scripts with a debugger each: targets are independent but for the server's mutex. The server's
  answers and V8's protocol are I/O.
- Character state, analytics, update check, DDE, HTTP, proxy, input, console window: one thread each,
  formatting and I/O. Host start and shutdown: a sequence of calls, each once.
- Code cache, native call hook, instance tracker: performance and diagnostics.
- The backend's hooks, imports and game actions: machine code patches, addresses, calls into the game.
- JavaScript bindings other than SQLite's: conversions of values between V8 and C++ on the script's own
  thread. Drawables, whose cells a registry clears, and sockets and files, which own their handle alone.
- Weak memory: every variable that is shared without a lock and appears here is an `std::atomic` whose
  order the code leaves sequentially consistent or pairs with acquire and release. The exception is the
  speedhack's relaxed loads and stores, which happen here in the order of the source: `speedhack_torn`
  is refuted in that order already.
