----------------------------- MODULE GameThread -----------------------------
(***************************************************************************)
(* Work for the game thread (src/src/contract/game/GameThread.h): scripts  *)
(* queue it with Post, or with Execute, which waits for the result; the    *)
(* game thread runs what is queued in the drains of its frame.  A script   *)
(* that is stopped while it waits leaves without the result, unless its    *)
(* callable has already begun: the callable lives on the waiting stack.    *)
(*                                                                         *)
(* A task is [by, n, kind]: the n-th one its thread issued.  The outcome   *)
(* of a call (result, exception) is data and left out.                     *)
(***************************************************************************)
EXTENDS GameFrame, FiniteSetsExt

CONSTANTS
  NestsInFirstTick,  \* does a task of the first tick's drain call Execute?
  MaxOwnTasks,       \* bound: tasks one thread issues
  MaxTasks           \* bound: tasks all threads issue

ASSUME TasksAssumption ==
  /\ NestsInFirstTick \in BOOLEAN
  /\ {MaxOwnTasks, MaxTasks} \subseteq Nat

Scripts == Threads \ {Game}

VARIABLES
  queue,           \* GameThread::queue_
  batch,           \* tasks of Drain, the running one first
  drained,         \* has this drain taken its batch?
  executing,       \* is the game thread inside the first task's callable?
  state,           \* CallState::state of every call
  ran,             \* history: the tasks whose callable has begun
  issued,          \* tasks the thread has issued
  at,              \* where in Execute (or in its script) the thread is
  stopRequested,   \* the script's stop token
  registered,      \* is Execute's stop_callback registered?
  cancelling,      \* request_stop is going to run the callback
  joining          \* the script the game thread joins, or NoThread

callVars == <<queue, batch, drained, executing, state, ran, issued, at,
              stopRequested, registered, cancelling, joining>>

vars == <<frameVars, callVars>>

queueVars == <<queue, batch, drained, executing>>
outcomeVars == <<state, ran>>
callerVars == <<issued, at>>
stopVars == <<stopRequested, registered, cancelling>>

Places == {"Script", "Register", "Push", "HandBack", "Wait", "Restore", "Ended"}

CallStates == {"None", "Pending", "Running", "Done", "Cancelled"}

Tasks == [by : Threads, n : 1..MaxOwnTasks, kind : {"Call", "Post"}]

Calls == Threads \X (1..MaxOwnTasks)

Init ==
  /\ FrameInit
  /\ queue = <<>>
  /\ batch = <<>>
  /\ drained = FALSE
  /\ executing = FALSE
  /\ state = [c \in Calls |-> "None"]
  /\ ran = {}
  /\ issued = [t \in Threads |-> 0]
  /\ at = [t \in Threads |-> "Script"]
  /\ stopRequested = [t \in Threads |-> FALSE]
  /\ registered = [t \in Threads |-> FALSE]
  /\ cancelling = [t \in Threads |-> FALSE]
  /\ joining = NoThread

Current(t) == <<t, issued[t]>>

MayIssue(t) ==
  /\ issued[t] < MaxOwnTasks
  /\ MapThenSumSet(LAMBDA u : issued[u], Threads) < MaxTasks

Goto(t, place) == at' = [at EXCEPT ![t] = place]

-----------------------------------------------------------------------------
(* CallState.  The outcome of a call is decided by a compare-exchange out *)
(* of Pending.                                                            *)

Start(c) == state' = [state EXCEPT ![c] = "Running"]

(* A cancellation that does not look whether the callable has begun. *)
CancelAnyway(c) == state' = [state EXCEPT ![c] = "Cancelled"]

Cancel(c) == state' = IF state[c] = "Pending" THEN [state EXCEPT ![c] = "Cancelled"] ELSE state

Finish(c) == state' = [state EXCEPT ![c] = "Done"]

(* A queue that serves the newest task first. *)
EnqueueFirst(task) == queue' = <<task>> \o queue

(* queue_.push *)
Enqueue(task) == queue' = Append(queue, task)

-----------------------------------------------------------------------------
(* A script thread outside Execute: game reads, posts, and its end, some   *)
(* time after V8 was asked to terminate it or whenever it comes to one.    *)

Read(t) ==
  /\ at[t] = "Script" /\ depth[t] = 0
  /\ OpenRead(t)
  /\ UNCHANGED <<phase, writeLockHeld, callVars>>

EndRead(t) ==
  /\ at[t] = "Script"
  /\ CloseRead(t)
  /\ UNCHANGED <<phase, writeLockHeld, callVars>>

Post(t) ==
  /\ at[t] = "Script" /\ MayIssue(t)
  /\ issued' = [issued EXCEPT ![t] = @ + 1]
  /\ Enqueue([by |-> t, n |-> issued'[t], kind |-> "Post"])
  /\ UNCHANGED <<frameVars, batch, drained, executing, outcomeVars, at, stopVars, joining>>

End(t) ==
  /\ at[t] = "Script" /\ scopes[t] = <<>>
  /\ Goto(t, "Ended")
  /\ UNCHANGED <<frameVars, queueVars, outcomeVars, issued, stopVars, joining>>

(* Execute past the early check of the stop token, which throws Cancelled. *)
Execute(t) ==
  /\ at[t] = "Script" /\ ~stopRequested[t] /\ MayIssue(t)
  /\ issued' = [issued EXCEPT ![t] = @ + 1]
  /\ state' = [state EXCEPT ![<<t, issued'[t]>>] = "Pending"]
  /\ Goto(t, "Register")
  /\ UNCHANGED <<frameVars, queueVars, ran, stopVars, joining>>

(* A registration that does not look whether the stop came first. *)
RegisterLate(t) ==
  /\ at[t] = "Register"
  /\ registered' = [registered EXCEPT ![t] = TRUE]
  /\ Goto(t, "Push")
  /\ UNCHANGED <<frameVars, queueVars, outcomeVars, issued, stopRequested, cancelling, joining>>

(* The stop_callback runs at once if the stop came first. *)
Register(t) ==
  /\ at[t] = "Register"
  /\ registered' = [registered EXCEPT ![t] = TRUE]
  /\ IF stopRequested[t] THEN Cancel(Current(t)) ELSE UNCHANGED state
  /\ Goto(t, "Push")
  /\ UNCHANGED <<frameVars, queueVars, ran, issued, stopRequested, cancelling, joining>>

PushCall(t) ==
  /\ at[t] = "Push"
  /\ Enqueue([by |-> t, n |-> issued[t], kind |-> "Call"])
  /\ Goto(t, "HandBack")
  /\ UNCHANGED <<frameVars, batch, drained, executing, outcomeVars, issued, stopVars, joining>>

HandBack(t) ==
  /\ at[t] = "HandBack"
  /\ OpenReadReleaser(t)
  /\ Goto(t, "Wait")
  /\ UNCHANGED <<phase, writeLockHeld, queueVars, outcomeVars, issued, stopVars, joining>>

(* host::WaitForTask *)
Wake(t) ==
  /\ at[t] = "Wait" /\ state[Current(t)] \in {"Done", "Cancelled"}
  /\ Goto(t, "Restore")
  /\ UNCHANGED <<frameVars, queueVars, outcomeVars, issued, stopVars, joining>>

(* A wait whose callback outlives it. *)
RestoreOnly(t) ==
  /\ at[t] = "Restore"
  /\ CloseReadReleaser(t)
  /\ Goto(t, "Script")
  /\ UNCHANGED <<phase, writeLockHeld, queueVars, outcomeVars, issued, stopVars, joining>>

(* The destructors: the read lock is taken again, the callback goes. *)
Restore(t) ==
  /\ at[t] = "Restore"
  /\ CloseReadReleaser(t)
  /\ registered' = [registered EXCEPT ![t] = FALSE]
  /\ cancelling' = [cancelling EXCEPT ![t] = FALSE]
  /\ Goto(t, "Script")
  /\ UNCHANGED <<phase, writeLockHeld, queueVars, outcomeVars, issued, stopRequested, joining>>

-----------------------------------------------------------------------------
(* Script::Stop, on any thread: the flag first, then the callback, if one *)
(* was registered by then.                                                *)

RequestStop(t) ==
  /\ ~stopRequested[t]
  /\ stopRequested' = [stopRequested EXCEPT ![t] = TRUE]
  /\ cancelling' = [cancelling EXCEPT ![t] = registered[t]]
  /\ UNCHANGED <<frameVars, queueVars, outcomeVars, callerVars, registered, joining>>

RunStopCallback(t) ==
  /\ cancelling[t]
  /\ cancelling' = [cancelling EXCEPT ![t] = FALSE]
  /\ Cancel(Current(t))
  /\ UNCHANGED <<frameVars, queueVars, ran, callerVars, stopRequested, registered, joining>>

(* Script::Join on the game thread, in the body or in a command typed in  *)
(* the game, of a script it has stopped: both locks are handed back.      *)

(* A join that keeps the write lock. *)
BeginJoinLocked(t) ==
  /\ phase \in {"Game", "Body"} /\ AtBase /\ joining = NoThread /\ stopRequested[t]
  /\ joining' = t
  /\ UNCHANGED <<frameVars, queueVars, outcomeVars, callerVars, stopVars>>

BeginJoin(t) ==
  /\ phase \in {"Game", "Body"} /\ AtBase /\ joining = NoThread /\ stopRequested[t]
  /\ OpenWriteReleaser(Game)
  /\ joining' = t
  /\ UNCHANGED <<phase, writeLockHeld, queueVars, outcomeVars, callerVars, stopVars>>

EndJoin ==
  /\ joining # NoThread /\ at[joining] = "Ended"
  /\ CloseWriteReleaser(Game)
  /\ joining' = NoThread
  /\ UNCHANGED <<phase, writeLockHeld, queueVars, outcomeVars, callerVars, stopVars>>

-----------------------------------------------------------------------------
(* Drain: it takes the whole queue once and runs it in order. *)

GameRuns == at[Game] = "Script" /\ joining = NoThread

TakeBatch ==
  /\ Draining /\ ~drained
  /\ drained' = TRUE
  /\ batch' = queue
  /\ queue' = <<>>
  /\ UNCHANGED <<frameVars, executing, outcomeVars, callerVars, stopVars, joining>>

Idle == GameRuns /\ batch # <<>> /\ ~executing

InCallable == GameRuns /\ executing

Begin(task) == executing' = TRUE /\ ran' = ran \union {task}

Skip == batch' = Tail(batch) /\ UNCHANGED <<executing, ran>>

(* A dispatch that does not ask whether the call was cancelled. *)
StartTaskUnclaimed ==
  /\ Idle
  /\ Begin(Head(batch))
  /\ UNCHANGED <<frameVars, queue, batch, drained, state, callerVars, stopVars, joining>>

(* The lambda of a call claims it, or returns; a posted function just runs. *)
StartTask ==
  /\ Idle
  /\ LET task == Head(batch)
         call == <<task.by, task.n>>
     IN  IF task.kind = "Post" THEN Begin(task) /\ UNCHANGED <<batch, state>>
         ELSE IF state[call] = "Pending" THEN Start(call) /\ Begin(task) /\ UNCHANGED batch
         ELSE Skip /\ UNCHANGED state
  /\ UNCHANGED <<frameVars, queue, drained, callerVars, stopVars, joining>>

FinishTask ==
  /\ InCallable
  /\ executing' = FALSE
  /\ IF Head(batch).kind = "Call" THEN Finish(<<Head(batch).by, Head(batch).n>>)
                                  ELSE UNCHANGED state
  /\ batch' = Tail(batch)
  /\ UNCHANGED <<frameVars, queue, drained, ran, callerVars, stopVars, joining>>

(* A callable that calls Execute on the game thread.  Under the write lock *)
(* it runs in place; in the first tick's drain, without it, it is queued   *)
(* and waited for like any other call.                                     *)
NestedCall ==
  /\ InCallable /\ MayIssue(Game)
  /\ active[Game] \/ NestsInFirstTick
  /\ issued' = [issued EXCEPT ![Game] = @ + 1]
  /\ LET task == [by |-> Game, n |-> issued'[Game], kind |-> "Call"]
         Becomes(outcome) == state' = [state EXCEPT ![<<Game, task.n>>] = outcome]
     IN  IF active[Game]
         THEN /\ Becomes("Done")
              /\ ran' = ran \union {task}
              /\ UNCHANGED <<lockVars, queue, at>>
         ELSE /\ Becomes("Pending")
              /\ Enqueue(task)
              /\ OpenReadReleaser(Game)
              /\ Goto(Game, "Wait")
              /\ UNCHANGED ran
  /\ UNCHANGED <<phase, writeLockHeld, batch, drained, executing, stopVars, joining>>

Frame ==
  /\ GameRuns
  /\ Draining => drained /\ batch = <<>>
  /\ StartTick \/ FrameMove
  /\ drained' = FALSE
  /\ UNCHANGED <<queue, batch, executing, outcomeVars, callerVars, stopVars, joining>>

ScriptStep(t) ==
  \/ Read(t)
  \/ EndRead(t)
  \/ Post(t)
  \/ End(t)
  \/ Execute(t)
  \/ Register(t)
  \/ PushCall(t)
  \/ HandBack(t)
  \/ Wake(t)
  \/ Restore(t)

GameStep ==
  \/ Frame
  \/ TakeBatch
  \/ StartTask
  \/ FinishTask
  \/ NestedCall
  \/ EndJoin

Next ==
  \/ \E t \in Scripts : ScriptStep(t) \/ RequestStop(t) \/ RunStopCallback(t) \/ BeginJoin(t)
  \/ GameStep

-----------------------------------------------------------------------------
(* Scripts do not stay inside a game read, nor inside Execute but for the  *)
(* lock and the result they wait for; a stopped one is terminated by V8;   *)
(* request_stop runs its callback.  Nothing is asked of the game thread.   *)
ScriptFairness ==
  \A t \in Scripts :
    /\ WF_vars(EndRead(t))
    /\ WF_vars(Register(t) \/ PushCall(t) \/ HandBack(t) \/ Wake(t))
    /\ SF_vars(Restore(t))
    /\ SF_vars(stopRequested[t] /\ End(t))
    /\ WF_vars(RunStopCallback(t))

(* The game keeps calling Sleep, tasks end, and the lock it asks for is    *)
(* given to it again and again (a waiting writer holds off new readers).   *)
GameFairness == SF_vars(Frame) /\ WF_vars(TakeBatch \/ StartTask \/ FinishTask) /\ SF_vars(EndJoin)

Spec == Init /\ [][Next]_vars /\ ScriptFairness

-----------------------------------------------------------------------------
(* Every variable has its type, and a callback is registered exactly       *)
(* inside Execute.                                                         *)
CallTypeOK ==
  /\ LockTypeOK /\ FrameOwnsLock
  /\ queue \in Seq(Tasks) /\ batch \in Seq(Tasks)
  /\ drained \in BOOLEAN /\ executing \in BOOLEAN
  /\ state \in [Calls -> CallStates]
  /\ ran \subseteq Tasks
  /\ issued \in [Threads -> 0..MaxOwnTasks]
  /\ at \in [Threads -> Places]
  /\ {stopRequested, cancelling} \subseteq [Threads -> BOOLEAN]
  /\ registered = [t \in Threads |-> t # Game /\ at[t] \in {"Push", "HandBack", "Wait", "Restore"}]
  /\ joining \in Scripts \union {NoThread}

(***************************************************************************)
(* GameThread.h:61-63 and 134-135: the callable of a call is on the stack  *)
(* of its caller, so while the game thread is inside it the caller is      *)
(* still inside that very Execute, whenever its script was stopped.        *)
(***************************************************************************)
CallableAlive ==
  executing /\ Head(batch).kind = "Call" =>
    LET task == Head(batch)
    IN  issued[task.by] = task.n /\ at[task.by] \in {"HandBack", "Wait"}

(***************************************************************************)
(* A call is over in exactly one way: one that was cancelled never ran and *)
(* never will, although its task stays queued or in a batch; one that is   *)
(* done did run.                                                           *)
(***************************************************************************)
OneOutcome ==
  \A c \in Calls :
    LET begun == [by |-> c[1], n |-> c[2], kind |-> "Call"] \in ran
    IN  /\ state[c] = "Cancelled" => ~begun
        /\ state[c] \in {"Running", "Done"} => begun

(***************************************************************************)
(* The tasks of one thread begin in the order it queued them: a call sees  *)
(* the effects of everything the thread posted before.                     *)
(***************************************************************************)
InOrder ==
  LET waiting == batch \o queue
  IN  /\ \A i, j \in 1..Len(waiting) :
           i < j /\ waiting[i].by = waiting[j].by => waiting[i].n < waiting[j].n
      /\ \A i \in 1..Len(waiting), task \in ran :
           task.by = waiting[i].by => task.n <= waiting[i].n

(***************************************************************************)
(* docs/game_thread_safety.md:193: Stop() cancels a pending synchronous    *)
(* call without needing a queue drain.  Stopped scripts that wait for a    *)
(* task that has not begun leave the wait with nothing asked of the game.  *)
(* (Under the bound there are finitely many calls: in the end none waits.) *)
(***************************************************************************)
Stranded(t) == stopRequested[t] /\ at[t] = "Wait" /\ state[Current(t)] = "Pending"

StopNeedsNoDrain == <>[](\A t \in Scripts : ~Stranded(t))

(***************************************************************************)
(* If the game keeps running its frames, every Execute comes back to its   *)
(* script, with its read lock restored, also while the game thread joins   *)
(* the script: neither waits for the other.                                *)
(***************************************************************************)
CallsReturn == GameFairness => <>[](\A t \in Scripts : at[t] \in {"Script", "Ended"})

(***************************************************************************)
(* GameThread.h:35: Execute() is safe to call from the game thread - runs  *)
(* in-place.  So the game thread never waits for its own queue.            *)
(***************************************************************************)
RunsInPlace == at[Game] # "Wait"
=============================================================================
