-------------------------- MODULE ScriptLifecycle --------------------------
(***************************************************************************)
(* The life of scripts: the Script object and its thread                   *)
(* (src/src/runtime/components/script/Script.cpp) and the engine that      *)
(* starts, replaces, stops and joins them (ScriptEngine.cpp in the same    *)
(* directory).                                                             *)
(*                                                                         *)
(* Who calls the engine: the game thread (the lifecycle of the session,    *)
(* commands typed in the game), the render thread of the console window    *)
(* (its panel and its command line), the thread that unloads the DLL, and  *)
(* scripts (load, stop, Script.join).  A critical section of scriptsMutex_ *)
(* or consoleMutex_ is one step.  So is Stop: its compare-exchange decides  *)
(* what the script's thread does next, and the request_stop and the        *)
(* TerminateExecution after it only set flags of that script.              *)
(*                                                                         *)
(* A script is its creation number, used once; all scripts of one file     *)
(* have its path.  The script of path Console is the console script, whose *)
(* file nobody loads, and no script loads its own file.  The game locks a  *)
(* join hands back are GameThread's subject.                               *)
(***************************************************************************)
EXTENDS Naturals, FiniteSets

CONSTANTS
  Paths,          \* the script files
  Console,        \* the one of the console script
  Loads,          \* pairs of files: scripts of the first load and join the second
  Game,           \* the game thread
  UI,             \* the render thread of the console window
  Unloader,       \* the thread that calls Host::Shutdown
  NoScript,       \* no console script
  Starters,       \* which of Game and UI start scripts
  Restarters,     \* which of Game and UI restart the console script
  ShutdownRaces,  \* do engine calls go on while the engine shuts down?
  JoinsRunning,   \* does Script.join wait for scripts nobody has stopped?
  MaxScripts      \* bound: scripts ever created

Ids == 1..MaxScripts

Callers == {Game, UI, Unloader} \union Ids

Files == Paths \ {Console}

ASSUME LifecycleAssumption ==
  /\ Console \in Paths
  /\ Loads \subseteq Paths \X Files
  /\ \A pair \in Loads : pair[1] # pair[2]
  /\ {ShutdownRaces, JoinsRunning} \subseteq BOOLEAN
  /\ Starters \union Restarters \subseteq {Game, UI}
  /\ MaxScripts \in Nat \ {0}
  /\ NoScript \notin Ids
  /\ Cardinality({Game, UI, Unloader}) = 3 /\ {Game, UI, Unloader} \intersect Ids = {}

VARIABLES
  state,        \* Script::state_
  at,           \* where the script's thread is in ThreadMain
  path,         \* Script::path_
  stopToken,    \* the stop token of Script::thread_
  terminated,   \* scripts whose JavaScript was asked to terminate
  scripts,      \* ScriptEngine::scripts_
  console,      \* ScriptEngine::consoleScript_
  call,         \* the engine call each caller is inside of, and its step
  aim           \* the scripts that call is about

vars == <<state, at, path, stopToken, terminated, scripts, console, call, aim>>

States == {"Starting", "Ready", "Running", "Paused", "Stopping", "Stopped"}

Steps == {"Unborn", "Boot", "Setup", "Enter", "JavaScript", "Remove", "Exit", "Done"}

CallSteps == {"Idle", "Join", "WaitFor",
              "StopOld", "JoinOld", "Create", "Emplace", "Publish",
              "TakeConsole", "StopConsole", "Snapshot", "JoinAll", "Clear", "Over"}

Born(s) == at[s] # "Unborn"

(* After Initialize: the console script's thread is about to run. *)
Init ==
  /\ state = [s \in Ids |-> IF s = 1 THEN "Starting" ELSE "Stopped"]
  /\ at = [s \in Ids |-> IF s = 1 THEN "Boot" ELSE "Unborn"]
  /\ path = [s \in Ids |-> Console]
  /\ stopToken = [s \in Ids |-> FALSE]
  /\ terminated = {}
  /\ scripts = {1}
  /\ console = 1
  /\ call = [c \in Callers |-> "Idle"]
  /\ aim = [c \in Callers |-> {}]

-----------------------------------------------------------------------------
(* Script: the object. *)

Active(set) == {s \in set : state[s] \notin {"Stopping", "Stopped"}}

(* Stop on every script of a set that is still active: one that is starting *)
(* may have no isolate to terminate yet, but will find its state changed.  *)
StopStates(set) == [s \in Ids |-> IF s \in Active(set) THEN "Stopping" ELSE state[s]]

(* A stop that terminates the JavaScript of a running script only. *)
RequestStopRunning(set) ==
  /\ stopToken' = [s \in Ids |-> stopToken[s] \/ s \in Active(set)]
  /\ terminated' = terminated \union {s \in Active(set) : state[s] = "Running"}

RequestStop(set) ==
  /\ stopToken' = [s \in Ids |-> stopToken[s] \/ s \in Active(set)]
  /\ terminated' = terminated \union {s \in Active(set) : state[s] # "Starting"}

Stop(set) == state' = StopStates(set) /\ RequestStop(set)

CompareExchange(s, expected, desired) ==
  state' = IF state[s] = expected THEN [state EXCEPT ![s] = desired] ELSE state

(* A script pauses or resumes another one; the window does, too. *)
PauseOrResume(s) ==
  /\ \/ state[s] = "Running" /\ state' = [state EXCEPT ![s] = "Paused"]
     \/ state[s] = "Paused" /\ state' = [state EXCEPT ![s] = "Running"]
  /\ UNCHANGED <<at, path, stopToken, terminated, scripts, console, call, aim>>

-----------------------------------------------------------------------------
(* Script::ThreadMain *)

Moves(s, from, to) == at[s] = from /\ at' = [at EXCEPT ![s] = to]

ThreadKeeps == UNCHANGED <<path, stopToken, terminated, console, call, aim>>

Boot(s) ==
  /\ Moves(s, "Boot", IF stopToken[s] THEN "Remove" ELSE "Setup")
  /\ ThreadKeeps /\ UNCHANGED <<state, scripts>>

(* SetupIsolate, and the isolate is ready. *)
SetUp(s) ==
  /\ Moves(s, "Setup", "Enter")
  /\ CompareExchange(s, "Starting", "Ready")
  /\ ThreadKeeps /\ UNCHANGED scripts

(* Only Stop changes a ready state: the thread then skips the script. *)
Enter(s) ==
  /\ Moves(s, "Enter", IF state[s] = "Ready" THEN "JavaScript" ELSE "Remove")
  /\ CompareExchange(s, "Ready", "Running")
  /\ ThreadKeeps /\ UNCHANGED scripts

(* RunScript returns: the script came to its end or was terminated.  A     *)
(* native call it is inside of has to return first.                        *)
EndOfScript(s) ==
  /\ Moves(s, "JavaScript", "Remove")
  /\ call[s] = "Idle"
  /\ CompareExchange(s, "Running", "Stopping")
  /\ ThreadKeeps /\ UNCHANGED scripts

(* A thread that leaves its entry to others. *)
RemoveSelfNot(s) ==
  /\ Moves(s, "Remove", "Exit")
  /\ ThreadKeeps /\ UNCHANGED <<state, scripts>>

(* RemoveSelfFromEngine; the isolate goes only after that. *)
RemoveSelf(s) ==
  /\ Moves(s, "Remove", "Exit")
  /\ scripts' = IF path[s] = Console THEN scripts ELSE scripts \ {s}
  /\ ThreadKeeps /\ UNCHANGED state

(* TeardownIsolate, and the last store. *)
Exit(s) ==
  /\ Moves(s, "Exit", "Done")
  /\ state' = [state EXCEPT ![s] = "Stopped"]
  /\ ThreadKeeps /\ UNCHANGED scripts

ThreadStep(s) ==
  \/ Boot(s)
  \/ SetUp(s)
  \/ Enter(s)
  \/ RemoveSelf(s)
  \/ Exit(s)

-----------------------------------------------------------------------------
(* ScriptEngine.  May(c): the caller can begin an engine call now. *)

ShuttingDown == call[Unloader] # "Idle"

May(c) ==
  /\ call[c] = "Idle"
  /\ c \in Ids => at[c] = "JavaScript"
  /\ ShutdownRaces \/ ~ShuttingDown

Step(c, from, to) == call[c] = from /\ call' = [call EXCEPT ![c] = to]

Unborn == {s \in Ids : ~Born(s)}

(* The script to be created next. *)
Fresh == CHOOSE s \in Unborn : TRUE

(* Callers that will have to create a script. *)
Reserving == {c \in Callers : call[c] \in {"StopOld", "JoinOld", "Create"}}

(* Under the bound there is a script left for each of them. *)
Room == Cardinality(Reserving) < Cardinality(Unborn)

(* A new script is started; the ones it replaces are stopped before. *)
Starts(p, replaced) ==
  /\ state' = [StopStates(replaced) EXCEPT ![Fresh] = "Starting"]
  /\ RequestStop(replaced)
  /\ at' = [at EXCEPT ![Fresh] = "Boot"]
  /\ path' = [path EXCEPT ![Fresh] = p]

SamePath(p) == {s \in scripts : path[s] = p}

MayStart(c, p) ==
  /\ May(c) /\ Room
  /\ IF c \in Ids THEN <<path[c], p>> \in Loads ELSE c \in Starters

(* A start beside whatever runs from the same file. *)
StartScriptBeside(c, p) ==
  /\ MayStart(c, p)
  /\ Starts(p, {})
  /\ scripts' = scripts \union {Fresh}
  /\ UNCHANGED <<console, call, aim>>

(* A start that takes the old script off the map and joins it unstopped. *)
StartScriptUnstopped(c, p) ==
  /\ MayStart(c, p)
  /\ Starts(p, {})
  /\ scripts' = (scripts \ SamePath(p)) \union {Fresh}
  /\ call' = [call EXCEPT ![c] = IF SamePath(p) = {} THEN "Idle" ELSE "Join"]
  /\ aim' = [aim EXCEPT ![c] = SamePath(p)]
  /\ UNCHANGED console

StartScript(c, p) ==
  /\ MayStart(c, p)
  /\ Starts(p, SamePath(p))
  /\ scripts' = (scripts \ SamePath(p)) \union {Fresh}
  /\ call' = [call EXCEPT ![c] = IF SamePath(p) = {} THEN "Idle" ELSE "Join"]
  /\ aim' = [aim EXCEPT ![c] = SamePath(p)]
  /\ UNCHANGED console

Plain(set) == {s \in set : path[s] # Console}

(* Stop from the game, the window or a script, and StopAllScripts, which    *)
(* spares the console script.  A script may stop that one, too, or itself,  *)
(* once it runs.                                                            *)
StopScripts(c) ==
  /\ May(c) /\ c # Unloader
  /\ \E set \in {{s} : s \in Plain(Ids)} \union {Plain(scripts)}
                \union {{s} : s \in {r \in scripts : c \in Ids /\ state[r] \in {"Running", "Paused"}}} :
       Stop(set)
  /\ UNCHANGED <<at, path, scripts, console, call, aim>>

(* Script.join from JavaScript, which a script cannot call on itself. *)
JSJoin(c, s) ==
  /\ c \in Ids /\ May(c) /\ <<path[c], path[s]>> \in Loads
  /\ s \in scripts
  /\ JoinsRunning \/ stopToken[s]
  /\ Step(c, "Idle", "WaitFor")
  /\ aim' = [aim EXCEPT ![c] = {s}]
  /\ UNCHANGED <<state, at, path, stopToken, terminated, scripts, console>>

Ended(set) == \A s \in set : at[s] = "Done"

EndJoin(c) ==
  /\ call[c] \in {"Join", "WaitFor"} /\ Ended(aim[c])
  /\ call' = [call EXCEPT ![c] = "Idle"]
  /\ aim' = [aim EXCEPT ![c] = {}]
  /\ UNCHANGED <<state, at, path, stopToken, terminated, scripts, console>>

(* RestartConsoleScript: it takes the console script for itself ... *)
RestartConsole(c) ==
  /\ c \in Restarters
  /\ May(c) /\ Room
  /\ IF console = NoScript
     THEN Step(c, "Idle", "Create") /\ UNCHANGED aim
     ELSE Step(c, "Idle", "StopOld") /\ aim' = [aim EXCEPT ![c] = {console}]
  /\ console' = NoScript
  /\ UNCHANGED <<state, at, path, stopToken, terminated, scripts>>

(* ... stops it ... *)
StopOld(c) ==
  /\ Step(c, "StopOld", "JoinOld")
  /\ Stop(aim[c])
  /\ UNCHANGED <<at, path, scripts, console, aim>>

(* ... joins and erases it ... *)
JoinOld(c) ==
  /\ Step(c, "JoinOld", "Create") /\ Ended(aim[c])
  /\ scripts' = scripts \ aim[c]
  /\ aim' = [aim EXCEPT ![c] = {}]
  /\ UNCHANGED <<state, at, path, stopToken, terminated, console>>

(* ... and CreateConsoleScript starts another one, ... *)
CreateConsole(c) ==
  /\ Step(c, "Create", "Emplace")
  /\ Starts(Console, {})
  /\ aim' = [aim EXCEPT ![c] = {Fresh}]
  /\ UNCHANGED <<scripts, console>>

(* (or forgets to register it) *)
EmplaceConsoleNot(c) ==
  /\ Step(c, "Emplace", "Publish")
  /\ UNCHANGED <<state, at, path, stopToken, terminated, scripts, console, aim>>

(* ... registers it ... *)
EmplaceConsole(c) ==
  /\ Step(c, "Emplace", "Publish")
  /\ scripts' = scripts \union aim[c]
  /\ UNCHANGED <<state, at, path, stopToken, terminated, console, aim>>

(* ... and publishes it. *)
PublishConsole(c) ==
  /\ Step(c, "Publish", "Idle")
  /\ console' = CHOOSE s \in aim[c] : TRUE
  /\ aim' = [aim EXCEPT ![c] = {}]
  /\ UNCHANGED <<state, at, path, stopToken, terminated, scripts>>

(* Shutdown: StopAllScripts, ... *)
Shutdown ==
  /\ ShutdownRaces \/ {call[Game], call[UI]} = {"Idle"}
  /\ Step(Unloader, "Idle", "TakeConsole")
  /\ Stop(Plain(scripts))
  /\ UNCHANGED <<at, path, scripts, console, aim>>

(* ... then it takes the console script ... *)
TakeConsole ==
  /\ Step(Unloader, "TakeConsole", "StopConsole")
  /\ console' = NoScript
  /\ aim' = [aim EXCEPT ![Unloader] = {console} \ {NoScript}]
  /\ UNCHANGED <<state, at, path, stopToken, terminated, scripts>>

(* (or only lets go of it) *)
StopConsoleNot ==
  /\ Step(Unloader, "StopConsole", "Snapshot")
  /\ UNCHANGED <<state, at, path, stopToken, terminated, scripts, console, aim>>

(* ... and stops it, ... *)
StopConsole ==
  /\ Step(Unloader, "StopConsole", "Snapshot")
  /\ Stop(aim[Unloader])
  /\ UNCHANGED <<at, path, scripts, console, aim>>

(* ... the joins of all that are registered now, one after the other, ... *)
Snapshot ==
  /\ Step(Unloader, "Snapshot", "JoinAll")
  /\ aim' = [aim EXCEPT ![Unloader] = @ \union scripts]
  /\ UNCHANGED <<state, at, path, stopToken, terminated, scripts, console>>

JoinAll ==
  /\ Step(Unloader, "JoinAll", "Clear") /\ Ended(aim[Unloader])
  /\ aim' = [aim EXCEPT ![Unloader] = {}]
  /\ UNCHANGED <<state, at, path, stopToken, terminated, scripts, console>>

(* ... and scripts_.clear(). *)
ClearScripts ==
  /\ Step(Unloader, "Clear", "Over")
  /\ scripts' = {}
  /\ UNCHANGED <<state, at, path, stopToken, terminated, console, aim>>

(* What an engine call does after it began. *)
EngineStep(c) ==
  \/ EndJoin(c)
  \/ StopOld(c)
  \/ JoinOld(c)
  \/ CreateConsole(c)
  \/ EmplaceConsole(c)
  \/ PublishConsole(c)

ShutdownStep ==
  \/ TakeConsole
  \/ StopConsole
  \/ Snapshot
  \/ JoinAll
  \/ ClearScripts

Next ==
  \/ \E s \in Ids :
       \/ ThreadStep(s)
       \/ EndOfScript(s)
       \/ PauseOrResume(s)
  \/ \E c \in Callers \ {Unloader} :
       \/ \E p \in Files : StartScript(c, p)
       \/ \E s \in Ids : JSJoin(c, s)
       \/ StopScripts(c)
       \/ RestartConsole(c)
       \/ EngineStep(c)
  \/ Shutdown
  \/ ShutdownStep

(* Threads run, V8 terminates JavaScript it was asked to terminate, and an *)
(* engine call goes on.  No script ends by itself.                         *)
Fairness ==
  /\ \A s \in Ids :
       /\ WF_vars(ThreadStep(s))
       /\ WF_vars(s \in terminated /\ EndOfScript(s))
  /\ \A c \in Callers : WF_vars(EngineStep(c))
  /\ WF_vars(ShutdownStep)

Spec == Init /\ [][Next]_vars /\ Fairness

-----------------------------------------------------------------------------
(* Every variable has its type; a script runs JavaScript only after its    *)
(* Stop if it had begun before.                                            *)
LifecycleTypeOK ==
  /\ state \in [Ids -> States]
  /\ at \in [Ids -> Steps]
  /\ path \in [Ids -> Paths]
  /\ stopToken \in [Ids -> BOOLEAN]
  /\ terminated \subseteq Ids
  /\ scripts \subseteq Ids
  /\ console \in Ids \union {NoScript}
  /\ call \in [Callers -> CallSteps]
  /\ aim \in [Callers -> SUBSET Ids]
  /\ \A s \in Ids : stopToken[s] => state[s] \in {"Stopping", "Stopped"}

(* The script has not come to its end, and nobody asked for it. *)
GoingOn(s) ==
  at[s] \in {"Boot", "Setup", "Enter", "JavaScript"} /\ ~stopToken[s]

(***************************************************************************)
(* ScriptEngine.h:42 (StartScript keeps one script per path), and the same *)
(* of the console script: whoever starts and restarts them, no two scripts *)
(* of one path are going on.                                               *)
(***************************************************************************)
OnePerPath ==
  \A s, r \in Ids : GoingOn(s) /\ GoingOn(r) /\ path[s] = path[r] => s = r

(***************************************************************************)
(* No script is lost: one that runs and was not asked to stop is in the    *)
(* map, where StopAllScripts and Shutdown find it, and a console script is *)
(* consoleScript_ as well, or a console call is at work on it.             *)
(***************************************************************************)
NoOrphan ==
  \A s \in Ids :
    GoingOn(s) =>
      \/ s \in scripts /\ (path[s] = Console => s = console)
      \/ path[s] = Console /\ \E c \in Callers :
           s \in aim[c] /\ call[c] \in {"StopOld", "Emplace", "Publish", "StopConsole"}

(***************************************************************************)
(* docs/game_thread_safety.md:206: every lifecycle path calls Stop before  *)
(* it joins a live script: profile replacement, console restart and        *)
(* shutdown do so.  A script that is being joined was asked to stop, or it *)
(* has come to its end by itself.                                          *)
(***************************************************************************)
JoinedIsStopped ==
  \A c \in Callers : call[c] \in {"Join", "JoinOld", "JoinAll"} =>
    \A s \in aim[c] :
      stopToken[s] \/ at[s] \in {"Remove", "Exit", "Done"}

(***************************************************************************)
(* ScriptEngine.h:99-101: mutation of consoleScript_ is effectively        *)
(* single-writer.  So no two threads are replacing the console script at   *)
(* the same time.                                                          *)
(***************************************************************************)
Replacing(c) == call[c] \in {"StopOld", "JoinOld", "Create", "Emplace", "Publish"}

OneConsoleWriter == \A c, d \in Callers : Replacing(c) /\ Replacing(d) => c = d

(***************************************************************************)
(* Script.cpp:277-279: no caller finds a script in the map whose isolate   *)
(* is being disposed.  (The console script stays there: its callers meet   *)
(* an empty isolate_.)                                                     *)
(***************************************************************************)
RegisteredHasIsolate ==
  \A s \in scripts : path[s] # Console => at[s] \notin {"Exit", "Done"}

(***************************************************************************)
(* A stop is never lost: whatever the script's thread was doing when it    *)
(* was asked to stop, starting up included, the thread ends.  (Under the   *)
(* bound only finitely many scripts are stopped: they all are over.)       *)
(***************************************************************************)
StopEnds == <>[](\A s \in Ids : stopToken[s] => at[s] = "Done")

(***************************************************************************)
(* Every join returns, so StartScript, the restart of the console and the  *)
(* shutdown do: the game thread is not held by a script it replaces.       *)
(***************************************************************************)
EngineReturns == <>[](\A c \in Callers : call[c] \in {"Idle", "Over"})
=============================================================================
