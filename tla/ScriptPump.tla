----------------------------- MODULE ScriptPump -----------------------------
(***************************************************************************)
(* The event loop of one script: delay() (ExecuteEvents in                 *)
(* src/src/runtime/components/script/Script.cpp), which runs the tasks of  *)
(* the isolate, its timers (DelayedEvent.h; setTimeout, setInterval and    *)
(* their clears in api/globals/CoreFunctions.cpp) and its render handlers, *)
(* while other threads post, pause, resume, stop and draw.                 *)
(*                                                                         *)
(* The script's thread has a stack of JavaScript frames: Main, and the     *)
(* handlers the delays below them run.  Each frame is either in JavaScript *)
(* or at a step of its delay(); the innermost one moves.  Wall time is     *)
(* left out: a queued timer may be due, and a delay over, at any step that *)
(* asks.                                                                   *)
(*                                                                         *)
(* V8 (external): TerminateExecution makes the innermost JavaScript end at *)
(* its next step, and the frame's caller sees it.  The v8::TryCatch of a   *)
(* handler's call may take the termination, so that the frames below go    *)
(* on; nothing below Main does.                                            *)
(***************************************************************************)
EXTENDS Naturals, Sequences, FiniteSets, SequencesExt

CONSTANTS
  Timers,      \* event ids of setTimeout and setInterval, each used once
  Intervals,   \* those that repeat after more than zero milliseconds
  MaxPosted,   \* bound: events other threads post
  MaxFrames,   \* bound: frames the game renders
  MaxNesting   \* bound: handlers inside of delay() inside of handlers

ASSUME PumpAssumption ==
  /\ Intervals \subseteq Timers
  /\ Timers \intersect {"Main", "Event", "Render"} = {}
  /\ {MaxPosted, MaxFrames, MaxNesting} \subseteq Nat

VARIABLES
  state,       \* Script::state_
  stopToken,   \* the stop token of Script::thread_
  stopper,     \* the step of the thread inside Stop
  terminating, \* the isolate has a termination pending
  frames,      \* the JavaScript frames and where each is in its delay
  posted,      \* events posted so far, and how many wait
  waiting,
  tasks,       \* tasks of each timer that wait in the isolate's queue
  set,         \* the timers that were set
  registered,  \* Script::delayedEvents_
  cancelled,   \* DelayedEvent::cancelled_
  frame,       \* FrameCounter::count_
  lastFrame,   \* Script::lastRenderFrame_
  inRender     \* isInRenderHandler

timerVars == <<tasks, set, registered, cancelled>>
renderVars == <<lastFrame, inRender>>
stopVars == <<state, stopToken, stopper>>
postVars == <<posted, waiting>>
pumpVars == <<stopVars, terminating, frames, postVars, timerVars, frame, renderVars>>

Frame(what) == [of |-> what, at |-> "JavaScript"]

PumpInit ==
  /\ state = "Running" /\ stopToken = FALSE /\ stopper = "None"
  /\ terminating = FALSE
  /\ frames = <<Frame("Main")>>
  /\ posted = 0 /\ waiting = 0
  /\ tasks = [t \in Timers |-> 0]
  /\ set = {} /\ registered = {} /\ cancelled = {}
  /\ frame = 0 /\ lastFrame = 0 /\ inRender = FALSE

-----------------------------------------------------------------------------
(* Other threads *)

(* PostEvent is rejected while the script stops. *)
MayPost == state # "Stopping"

PostEvent ==
  /\ MayPost /\ posted < MaxPosted
  /\ posted' = posted + 1 /\ waiting' = waiting + 1
  /\ UNCHANGED <<stopVars, terminating, frames, timerVars, frame, renderVars>>

PauseOrResume ==
  /\ state \in {"Running", "Paused"}
  /\ state' = IF state = "Running" THEN "Paused" ELSE "Running"
  /\ UNCHANGED <<stopToken, stopper, terminating, frames, postVars, timerVars, frame, renderVars>>

(* FrameCounter::Increment *)
Draw ==
  /\ frame < MaxFrames
  /\ frame' = frame + 1
  /\ UNCHANGED <<stopVars, terminating, frames, postVars, timerVars, renderVars>>

(* Stop: the state, the token, and the termination. *)
Stop ==
  /\ stopper = "None"
  /\ state' = "Stopping" /\ stopper' = "Claimed"
  /\ UNCHANGED <<stopToken, terminating, frames, postVars, timerVars, frame, renderVars>>

RequestStop ==
  /\ stopper = "Claimed"
  /\ stopToken' = TRUE /\ stopper' = "Requested"
  /\ UNCHANGED <<state, terminating, frames, postVars, timerVars, frame, renderVars>>

Terminate ==
  /\ stopper = "Requested"
  /\ stopper' = "Over" /\ terminating' = (frames # <<>>)
  /\ UNCHANGED <<state, stopToken, frames, postVars, timerVars, frame, renderVars>>

-----------------------------------------------------------------------------
(* The script's thread: the innermost frame. *)

InnerFrame == Last(frames)

TopAt(step) == frames # <<>> /\ InnerFrame.at = step

Steps(step) == [frames EXCEPT ![Len(frames)].at = step]

Free == TopAt("JavaScript") /\ ~terminating

(* AddDelayedEvent and PostEvent: refused, the entry stays. *)
SetTimer(t) ==
  /\ Free /\ t \notin set
  /\ set' = set \union {t}
  /\ registered' = registered \union {t}
  /\ tasks' = [tasks EXCEPT ![t] = IF MayPost THEN 1 ELSE 0]
  /\ UNCHANGED <<stopVars, terminating, frames, postVars, cancelled, frame, renderVars>>

(* RemoveDelayedEvent: an entry that is there is cancelled and taken out.  *)
RemoveDelayedEvent(t) ==
  /\ cancelled' = cancelled \union ({t} \intersect registered)
  /\ registered' = registered \ {t}

ClearTimer(t) ==
  /\ Free /\ t \in set
  /\ RemoveDelayedEvent(t)
  /\ UNCHANGED <<stopVars, terminating, frames, postVars, tasks, set, frame, renderVars>>

Delay ==
  /\ Free
  /\ frames' = Steps("Entry")
  /\ UNCHANGED <<stopVars, terminating, postVars, timerVars, frame, renderVars>>

(* (An entry that does not look whether the termination was taken.) *)
EnterTrusting ==
  /\ TopAt("Entry")
  /\ frames' = Steps("Paused")
  /\ UNCHANGED <<stopVars, terminating, postVars, timerVars, frame, renderVars>>

(* A stop whose termination somebody took is made good. *)
Enter ==
  /\ TopAt("Entry")
  /\ IF stopToken /\ ~terminating
     THEN terminating' = TRUE /\ frames' = Steps("JavaScript")
     ELSE frames' = Steps("Paused") /\ UNCHANGED terminating
  /\ UNCHANGED <<stopVars, postVars, timerVars, frame, renderVars>>

(* while (state_ == Paused && !stop_requested) sleep *)
LeavePause ==
  /\ TopAt("Paused") /\ (state # "Paused" \/ stopToken)
  /\ frames' = Steps("Pump")
  /\ UNCHANGED <<stopVars, terminating, postVars, timerVars, frame, renderVars>>

(* PumpMessageLoop: a task that is ready, *)
RunEvent ==
  /\ TopAt("Pump") /\ waiting > 0 /\ Len(frames) <= MaxNesting
  /\ waiting' = waiting - 1
  /\ frames' = Append(frames, Frame("Event"))
  /\ UNCHANGED <<stopVars, terminating, posted, timerVars, frame, renderVars>>

(* (An interval that queues its next task before its callback runs.) *)
RunTimerReposting(t) ==
  /\ TopAt("Pump") /\ tasks[t] > 0 /\ Len(frames) <= MaxNesting
  /\ IF t \in cancelled
     THEN tasks' = [tasks EXCEPT ![t] = @ - 1] /\ UNCHANGED frames
     ELSE /\ frames' = Append(frames, Frame(t))
          /\ tasks' = [tasks EXCEPT ![t] = IF t \in Intervals /\ MayPost THEN @ ELSE @ - 1]
  /\ UNCHANGED <<stopVars, terminating, postVars, set, registered, cancelled, frame, renderVars>>

(* a timer: its callback, unless it was cancelled, *)
RunTimer(t) ==
  /\ TopAt("Pump") /\ tasks[t] > 0 /\ Len(frames) <= MaxNesting
  /\ tasks' = [tasks EXCEPT ![t] = @ - 1]
  /\ frames' = IF t \in cancelled THEN frames ELSE Append(frames, Frame(t))
  /\ UNCHANGED <<stopVars, terminating, postVars, set, registered, cancelled, frame, renderVars>>

(* or none is left (a timer may not be due yet). *)
Pumped ==
  /\ TopAt("Pump") /\ (waiting = 0 \/ Len(frames) > MaxNesting)
  /\ frames' = Steps("Render")
  /\ UNCHANGED <<stopVars, terminating, postVars, timerVars, frame, renderVars>>

(* (A render handler that may be entered from its own delay.) *)
FireRenderUnguarded ==
  /\ TopAt("Render")
  /\ IF frame > lastFrame /\ Len(frames) <= MaxNesting
     THEN /\ frames' = Append(Steps("Check"), Frame("Render"))
          /\ lastFrame' = frame /\ inRender' = TRUE
     ELSE frames' = Steps("Check") /\ UNCHANGED renderVars
  /\ UNCHANGED <<stopVars, terminating, postVars, timerVars, frame>>

(* FireRenderEventIfNewFrame *)
FireRender ==
  /\ TopAt("Render")
  /\ IF ~inRender /\ frame > lastFrame /\ Len(frames) <= MaxNesting
     THEN /\ frames' = Append(Steps("Check"), Frame("Render"))
          /\ lastFrame' = frame /\ inRender' = TRUE
     ELSE frames' = Steps("Check") /\ UNCHANGED renderVars
  /\ UNCHANGED <<stopVars, terminating, postVars, timerVars, frame>>

(* The delay is over, or the script is not running: pausing ends it, too.  *)
Check ==
  /\ TopAt("Check")
  /\ \/ frames' = Steps("JavaScript")
     \/ state = "Running" /\ ~stopToken /\ frames' = Steps("Wait")
  /\ UNCHANGED <<stopVars, terminating, postVars, timerVars, frame, renderVars>>

Wake ==
  /\ TopAt("Wait")
  /\ frames' = Steps("Pump")
  /\ UNCHANGED <<stopVars, terminating, postVars, timerVars, frame, renderVars>>

(* What ExecuteEvent does with a timer after its callback: *)
AfterTimer(t) ==
  IF t \in Intervals /\ t \notin cancelled
  THEN /\ tasks' = [tasks EXCEPT ![t] = IF MayPost THEN @ + 1 ELSE @]
       /\ UNCHANGED <<registered, cancelled>>
  ELSE RemoveDelayedEvent(t) /\ UNCHANGED tasks

(* The innermost JavaScript ends, by itself or because it is terminated.   *)
Return ==
  /\ TopAt("JavaScript")
  /\ frames' = Front(frames)
  /\ IF InnerFrame.of = "Main" THEN terminating' = FALSE
     ELSE terminating' \in {terminating, FALSE}
  /\ inRender' = (inRender /\ InnerFrame.of # "Render")
  /\ IF InnerFrame.of \in Timers THEN AfterTimer(InnerFrame.of)
     ELSE UNCHANGED <<tasks, registered, cancelled>>
  /\ UNCHANGED <<stopVars, postVars, set, frame, lastFrame>>

PumpStep ==
  \/ Enter
  \/ LeavePause
  \/ RunEvent
  \/ \E t \in Timers : RunTimer(t)
  \/ Pumped
  \/ FireRender
  \/ Check
  \/ Wake

PumpNext ==
  \/ PostEvent
  \/ PauseOrResume
  \/ Draw
  \/ Stop
  \/ RequestStop
  \/ Terminate
  \/ \E t \in Timers : SetTimer(t) \/ ClearTimer(t)
  \/ Delay
  \/ Return
  \/ PumpStep

(* The thread inside Stop goes on, and so does native code; terminated     *)
(* JavaScript ends; JavaScript that nobody terminates calls delay() or     *)
(* ends.  A script that computes for ever after a handler took its         *)
(* termination can be stopped by nothing in this code.                     *)
PumpFairness ==
  /\ WF_pumpVars(RequestStop \/ Terminate)
  /\ WF_pumpVars(PumpStep)
  /\ WF_pumpVars(terminating /\ Return)
  /\ WF_pumpVars(Delay \/ Return)

PumpSpec == PumpInit /\ [][PumpNext]_pumpVars /\ PumpFairness

-----------------------------------------------------------------------------
(***************************************************************************)
(* Script.cpp:885-890: a script that was asked to stop ends, although a    *)
(* handler's TryCatch may take the termination at every level and          *)
(* JavaScript may loop on delay() for ever.                                *)
(***************************************************************************)
StopEndsDelay == stopper # "None" ~> frames = <<>>

FramesOf(t) == {i \in DOMAIN frames : frames[i].of = t}

(***************************************************************************)
(* Script.cpp:999-1008 (re-posted after the execution, to prevent         *)
(* unbounded accumulation): a timer has at most one task, queued or in its *)
(* callback; while the script is not stopping it has one exactly as long   *)
(* as it is registered, so that an interval neither dies nor outlives its  *)
(* clear, even if it is cleared, and delays, in its own callback.          *)
(***************************************************************************)
OneTaskPerTimer ==
  \A t \in Timers :
    LET all == tasks[t] + Cardinality(FramesOf(t)) IN
      /\ all <= 1
      /\ t \in registered /\ MayPost => all = 1
      /\ all = 1 => t \in registered \union cancelled

(***************************************************************************)
(* Script.cpp:953-958: a render handler that delays is not entered again,  *)
(* however its frame ends; and the guard is not left set behind.           *)
(***************************************************************************)
RenderNotNested ==
  Cardinality(FramesOf("Render")) = IF inRender THEN 1 ELSE 0
=============================================================================
