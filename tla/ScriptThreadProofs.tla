------------------------- MODULE ScriptThreadProofs -------------------------
(***************************************************************************)
(* Proofs about the thread of one script: what it runs while it waits      *)
(* (ScriptPump), and what it does for its debugger (Inspector), for any    *)
(* timers, connections and bounds.                                         *)
(*                                                                         *)
(* The pump: a timer's tasks are those queued and the one whose callback   *)
(* is on the stack, and there is one in all, which every step that queues  *)
(* or ends a task replaces.  The inspector: as long as events are handled  *)
(* in the order they were queued in, what is not handled is one sequence,  *)
(* whatever batches its parts are in, and the session's future is read off *)
(* it: a message in it comes to its sender's session or to none, and the   *)
(* last event on who is attached, unless it was out of date when it was    *)
(* queued, says whose session it will be.                                  *)
(***************************************************************************)
EXTENDS ScriptPump, Inspector, FiniteSetTheorems, SequenceTheorems, TLAPS

-----------------------------------------------------------------------------
Kinds == {"Main", "Event", "Render"} \union Timers

Stages == {"JavaScript", "Entry", "Paused", "Pump", "Render", "Check", "Wait"}

JSFrames == [of : Kinds, at : Stages]

PumpTypeOK ==
  /\ state \in {"Running", "Paused", "Stopping"}
  /\ frames \in Seq(JSFrames)
  /\ tasks \in [Timers -> Nat]
  /\ set \subseteq Timers
  /\ inRender \in BOOLEAN

(* A timer that was set is registered until it is cancelled. *)
TimersInv ==
  /\ registered \union cancelled = set
  /\ registered \intersect cancelled = {}

(* The tasks of a timer, queued or in its callback. *)
TasksOf(t) == tasks[t] + Cardinality(FramesOf(t))

(* A timer that is not set has no task, and one that is registered keeps   *)
(* its task unless the post was refused.                                   *)
OneTask(t) ==
  /\ TasksOf(t) <= 1
  /\ t \in registered /\ MayPost => TasksOf(t) = 1
  /\ TasksOf(t) = 1 => t \in set

PumpInv ==
  /\ PumpTypeOK
  /\ TimersInv
  /\ \A t \in Timers : OneTask(t)
  /\ RenderNotNested

-----------------------------------------------------------------------------
LEMMA FramesAreFinite ==
  ASSUME PumpTypeOK, NEW x
  PROVE  IsFiniteSet(FramesOf(x)) /\ Cardinality(FramesOf(x)) \in Nat
<1>1. FramesOf(x) \subseteq 1..Len(frames) /\ Len(frames) \in Nat
  BY DEF FramesOf, PumpTypeOK
<1>2. IsFiniteSet(1..Len(frames))
  BY <1>1, FS_Interval
<1> QED
  BY <1>1, <1>2, FS_Subset, FS_CardinalityType

(* The innermost frame takes a step ... *)
LEMMA Stepped ==
  ASSUME PumpTypeOK, frames # <<>>, NEW step \in Stages
  PROVE  /\ Steps(step) \in Seq(JSFrames) /\ Len(Steps(step)) = Len(frames)
         /\ \A i \in 1..Len(frames) : Steps(step)[i].of = frames[i].of
         /\ frames' = Steps(step) => \A x : FramesOf(x)' = FramesOf(x)
<1>0. /\ Len(frames) \in 1..Len(frames) /\ DOMAIN frames = 1..Len(frames) /\ Len(frames) \in Nat
      /\ frames \in [1..Len(frames) -> JSFrames]
  BY DEF PumpTypeOK
<1>1. [frames[Len(frames)] EXCEPT !.at = step] \in JSFrames
      /\ [frames[Len(frames)] EXCEPT !.at = step].of = frames[Len(frames)].of
  BY <1>0 DEF JSFrames
<1>2. Steps(step) \in [1..Len(frames) -> JSFrames]
  BY <1>0, <1>1 DEF Steps
<1>3. Steps(step) \in Seq(JSFrames) /\ Len(Steps(step)) = Len(frames) /\ DOMAIN Steps(step) = DOMAIN frames
  BY <1>0, <1>2
<1>4. \A i \in 1..Len(frames) : Steps(step)[i].of = frames[i].of
  BY <1>0, <1>1 DEF Steps
<1> QED
  BY <1>0, <1>3, <1>4 DEF FramesOf

(* ... another one is called ... *)
LEMMA Called ==
  ASSUME PumpTypeOK, NEW fs \in Seq(JSFrames), Len(fs) = Len(frames),
         \A i \in 1..Len(frames) : fs[i].of = frames[i].of,
         NEW k \in Kinds, frames' = Append(fs, Frame(k))
  PROVE  /\ frames' \in Seq(JSFrames)
         /\ \A x : x # k => FramesOf(x)' = FramesOf(x)
         /\ Cardinality(FramesOf(k)') = Cardinality(FramesOf(k)) + 1
<1> DEFINE n == Len(frames) + 1
<1>1. Frame(k) \in JSFrames /\ Frame(k).of = k
  BY DEF Frame, JSFrames, Stages
<1>2. /\ DOMAIN frames' = 1..n /\ DOMAIN frames = 1..Len(frames) /\ Len(frames) \in Nat
      /\ frames'[n].of = k /\ \A i \in 1..Len(frames) : frames'[i].of = frames[i].of
      /\ frames' \in Seq(JSFrames)
  BY <1>1 DEF PumpTypeOK
<1>3. \A i \in 1..n : i \in 1..Len(frames) \/ i = n
  BY <1>2
<1>4. n \notin 1..Len(frames) /\ n \in 1..n /\ \A i \in 1..Len(frames) : i \in 1..n
  BY <1>2
<1>5. \A x : x # k => FramesOf(x)' = FramesOf(x)
  BY <1>2, <1>3, <1>4 DEF FramesOf
<1>6. FramesOf(k)' = FramesOf(k) \union {n} /\ n \notin FramesOf(k)
  BY <1>2, <1>3, <1>4 DEF FramesOf
<1> QED
  BY <1>2, <1>5, <1>6, FramesAreFinite, FS_AddElement

(* ... or it returns. *)
LEMMA Returned ==
  ASSUME PumpTypeOK, frames # <<>>, frames' = Front(frames)
  PROVE  /\ frames' \in Seq(JSFrames) /\ InnerFrame \in JSFrames
         /\ \A x : x # InnerFrame.of => FramesOf(x)' = FramesOf(x)
         /\ Cardinality(FramesOf(InnerFrame.of)) >= 1
         /\ \A x : x = InnerFrame.of => Cardinality(FramesOf(x)') = Cardinality(FramesOf(x)) - 1
<1>0. PICK n \in Nat \ {0} : n = Len(frames)
  BY DEF PumpTypeOK
<1>1. /\ InnerFrame = frames[n] /\ DOMAIN frames = 1..n /\ DOMAIN frames' = 1..(n - 1)
      /\ \A i \in 1..(n - 1) : frames'[i] = frames[i]
      /\ frames' \in Seq(JSFrames) /\ frames[n] \in JSFrames
  BY <1>0 DEF InnerFrame, Front, Last, PumpTypeOK
<1>2. \A i \in 1..n : i \in 1..(n - 1) \/ i = n
  OBVIOUS
<1>3. n \notin 1..(n - 1) /\ n \in 1..n /\ \A i \in 1..(n - 1) : i \in 1..n
  OBVIOUS
<1>4. \A x : x # InnerFrame.of => FramesOf(x)' = FramesOf(x)
  BY <1>1, <1>2, <1>3 DEF FramesOf
<1>5. \A x : x = InnerFrame.of => FramesOf(x)' = FramesOf(x) \ {n} /\ n \in FramesOf(x)
  BY <1>1, <1>2, <1>3 DEF FramesOf
<1>6. \A x : x = InnerFrame.of => /\ Cardinality(FramesOf(x)') = Cardinality(FramesOf(x)) - 1
                                  /\ Cardinality(FramesOf(x)) \in Nat /\ Cardinality(FramesOf(x)) # 0
  BY <1>5, FramesAreFinite, FS_RemoveElement, FS_EmptySet
<1> QED
  BY <1>1, <1>4, <1>6

(* A step that sets, ends and clears no timer. *)
LEMMA OthersAsBefore ==
  ASSUME PumpInv, PumpTypeOK', UNCHANGED timerVars, MayPost' => MayPost, inRender' = inRender,
         \A x : x \in Timers \union {"Render"} => FramesOf(x)' = FramesOf(x)
  PROVE  PumpInv'
<1>1. TimersInv'
  BY DEF PumpInv, TimersInv, timerVars
<1>2. \A t \in Timers : OneTask(t)'
  BY DEF PumpInv, OneTask, TasksOf, timerVars
<1>3. RenderNotNested'
  BY DEF PumpInv, RenderNotNested
<1> QED
  BY <1>1, <1>2, <1>3 DEF PumpInv

LEMMA PumpInvInit == PumpInit => PumpInv
<1> SUFFICES ASSUME PumpInit
             PROVE  PumpInv
  OBVIOUS
<1>0. [of |-> "Main", at |-> "JavaScript"] \in JSFrames
  BY DEF JSFrames, Kinds, Stages
<1>1. frames = <<[of |-> "Main", at |-> "JavaScript"]>> /\ inRender = FALSE
  BY DEF PumpInit, Frame
<1>a. PumpTypeOK
  <2>1. PICK main \in JSFrames : main = [of |-> "Main", at |-> "JavaScript"]
    BY <1>0
  <2>2. <<main>> \in Seq(JSFrames)
    OBVIOUS
  <2> QED
    BY <1>1, <2>1, <2>2 DEF PumpInit, PumpTypeOK
<1>2. \A x : x # "Main" => FramesOf(x) = {}
  BY <1>1 DEF FramesOf
<1>3. \A x : x # "Main" => Cardinality(FramesOf(x)) = 0
  BY <1>2, FS_EmptySet
<1>4. RenderNotNested
  BY <1>3 DEF PumpInit, RenderNotNested
<1>5. \A t \in Timers : OneTask(t)
  BY <1>3, PumpAssumption DEF PumpInit, OneTask, TasksOf
<1> QED
  BY <1>a, <1>4, <1>5 DEF PumpInv, PumpInit, TimersInv

(* A step of the script changes the tasks of at most one timer. *)
LEMMA PumpInvStep ==
  ASSUME PumpInv, [PumpNext]_pumpVars
  PROVE  PumpInv'
<1> USE DEF PumpInv
<1>0. \A t \in Timers : t \notin {"Main", "Event", "Render"}
  BY PumpAssumption
<1>c. \A x : Cardinality(FramesOf(x)) \in Nat
  BY FramesAreFinite
(* The steps of other threads, and those that only move a frame. *)
<1>1. CASE UNCHANGED pumpVars
  BY <1>1, OthersAsBefore DEF pumpVars, stopVars, postVars, renderVars, timerVars, PumpTypeOK, MayPost, FramesOf
<1>2. CASE PostEvent \/ PauseOrResume \/ Draw \/ Stop \/ RequestStop \/ Terminate
  BY <1>2, OthersAsBefore
     DEF PostEvent, PauseOrResume, Draw, Stop, RequestStop, Terminate, stopVars, postVars, renderVars, timerVars,
         PumpTypeOK, MayPost, FramesOf
<1>3. ASSUME NEW step \in Stages, frames # <<>>, frames' = Steps(step), UNCHANGED <<stopVars, timerVars, inRender>>
      PROVE  PumpInv'
  BY <1>3, Stepped, OthersAsBefore DEF stopVars, timerVars, MayPost, PumpTypeOK
<1>4. CASE Delay \/ Enter \/ LeavePause \/ Pumped \/ Check \/ Wake
  <2>1. frames # <<>> /\ UNCHANGED <<stopVars, timerVars, inRender>> /\ \E step \in Stages : frames' = Steps(step)
    BY <1>4 DEF Delay, Enter, LeavePause, Pumped, Check, Wake, Free, TopAt, renderVars, Stages
  <2> QED
    BY <1>3, <2>1
<1>5. CASE RunEvent
  <2>1. /\ frames' = Append(frames, Frame("Event")) /\ UNCHANGED <<state, timerVars, inRender>>
    BY <1>5 DEF RunEvent, stopVars, renderVars
  <2>2. /\ frames' \in Seq(JSFrames) /\ \A x : x # "Event" => FramesOf(x)' = FramesOf(x)
    BY <2>1, Called DEF Kinds, PumpTypeOK
  <2> QED
    BY <1>0, <2>1, <2>2, OthersAsBefore DEF PumpTypeOK, timerVars, MayPost
<1>6. CASE FireRender
  <2>1. CASE ~inRender /\ frame > lastFrame /\ Len(frames) <= MaxNesting
    <3>1. /\ frames # <<>> /\ frames' = Append(Steps("Check"), Frame("Render")) /\ inRender' = TRUE
          /\ UNCHANGED <<state, timerVars>>
      BY <1>6, <2>1 DEF FireRender, TopAt, stopVars
    <3>2. /\ Steps("Check") \in Seq(JSFrames) /\ Len(Steps("Check")) = Len(frames)
          /\ \A i \in 1..Len(frames) : Steps("Check")[i].of = frames[i].of
      BY <3>1, Stepped DEF Stages
    <3>3. /\ frames' \in Seq(JSFrames) /\ \A x : x # "Render" => FramesOf(x)' = FramesOf(x)
          /\ Cardinality(FramesOf("Render")') = Cardinality(FramesOf("Render")) + 1
      BY <3>1, <3>2, Called DEF Kinds
    <3>4. RenderNotNested'
      BY <2>1, <3>1, <3>3 DEF RenderNotNested
    <3>5. \A t \in Timers : OneTask(t)'
      BY <1>0, <3>1, <3>3 DEF OneTask, TasksOf, timerVars, MayPost
    <3> QED
      BY <3>1, <3>3, <3>4, <3>5 DEF PumpTypeOK, TimersInv, timerVars
  <2>2. CASE ~(~inRender /\ frame > lastFrame /\ Len(frames) <= MaxNesting)
    BY <1>3, <1>6, <2>2 DEF FireRender, TopAt, renderVars, Stages
  <2> QED
    BY <2>1, <2>2
(* The timers. *)
<1>7. ASSUME NEW t \in Timers, SetTimer(t)
      PROVE  PumpInv'
  <2>1. /\ t \notin set /\ set' = set \union {t} /\ registered' = registered \union {t}
        /\ tasks' = [tasks EXCEPT ![t] = IF MayPost THEN 1 ELSE 0]
        /\ UNCHANGED <<state, frames, cancelled, inRender>>
    BY <1>7 DEF SetTimer, stopVars, renderVars
  <2>2. \A x : FramesOf(x)' = FramesOf(x)
    BY <2>1 DEF FramesOf
  <2>3. TasksOf(t) = 0 /\ Cardinality(FramesOf(t)) = 0
    BY <1>c, <2>1 DEF OneTask, TasksOf, PumpTypeOK
  <2>4. OneTask(t)'
    BY <1>c, <2>1, <2>2, <2>3 DEF OneTask, TasksOf, PumpTypeOK, MayPost
  <2>5. \A u \in Timers : u # t => OneTask(u)'
    BY <2>1, <2>2 DEF OneTask, TasksOf, PumpTypeOK, MayPost
  <2> QED
    BY <2>1, <2>2, <2>4, <2>5 DEF PumpTypeOK, TimersInv, RenderNotNested
<1>8. ASSUME NEW t \in Timers, RemoveDelayedEvent(t)
      PROVE  /\ registered' \union cancelled' = set /\ registered' \intersect cancelled' = {}
             /\ registered' = registered \ {t}
  BY <1>8 DEF RemoveDelayedEvent, TimersInv
<1>9. ASSUME NEW t \in Timers, ClearTimer(t)
      PROVE  PumpInv'
  <2>1. RemoveDelayedEvent(t) /\ UNCHANGED <<state, frames, tasks, set, inRender>>
    BY <1>9 DEF ClearTimer, stopVars, renderVars
  <2>2. \A x : FramesOf(x)' = FramesOf(x)
    BY <2>1 DEF FramesOf
  <2>3. \A u \in Timers : OneTask(u)'
    BY <1>8, <2>1, <2>2 DEF OneTask, TasksOf, MayPost
  <2> QED
    BY <1>8, <2>1, <2>2, <2>3 DEF PumpTypeOK, TimersInv, RenderNotNested
<1>10. ASSUME NEW t \in Timers, RunTimer(t)
       PROVE  PumpInv'
  <2>1. /\ tasks[t] > 0 /\ tasks' = [tasks EXCEPT ![t] = @ - 1]
        /\ UNCHANGED <<state, set, registered, cancelled, inRender>>
    BY <1>10 DEF RunTimer, stopVars, renderVars
  <2>2. TasksOf(t) = 1 /\ tasks[t] = 1 /\ tasks' \in [Timers -> Nat] /\ tasks'[t] = 0
    BY <1>c, <2>1 DEF OneTask, TasksOf, PumpTypeOK
  <2>3. CASE t \in cancelled
    <3>1. frames' = frames /\ \A x : FramesOf(x)' = FramesOf(x)
      BY <1>10, <2>3 DEF RunTimer, FramesOf
    <3>2. OneTask(t)'
      BY <1>c, <2>1, <2>2, <2>3, <3>1 DEF OneTask, TasksOf, TimersInv
    <3>3. \A u \in Timers : u # t => OneTask(u)'
      BY <2>1, <3>1 DEF OneTask, TasksOf, PumpTypeOK, MayPost
    <3> QED
      BY <2>1, <2>2, <3>1, <3>2, <3>3 DEF PumpTypeOK, TimersInv, RenderNotNested
  <2>4. CASE t \notin cancelled
    <3>1. frames' = Append(frames, Frame(t)) /\ t \in Kinds
      BY <1>10, <2>4 DEF RunTimer, Kinds
    <3>2. /\ frames' \in Seq(JSFrames)
          /\ \A x : x # t => FramesOf(x)' = FramesOf(x)
          /\ Cardinality(FramesOf(t)') = Cardinality(FramesOf(t)) + 1
      BY <3>1, Called DEF PumpTypeOK
    <3>3. TasksOf(t)' = TasksOf(t)
      BY <1>c, <2>2, <3>2 DEF TasksOf
    <3>4. OneTask(t)'
      BY <2>1, <3>3 DEF OneTask, MayPost
    <3>5. \A u \in Timers : u # t => OneTask(u)'
      BY <2>1, <3>2 DEF OneTask, TasksOf, PumpTypeOK, MayPost
    <3>6. RenderNotNested'
      BY <1>0, <2>1, <3>2 DEF RenderNotNested
    <3> QED
      BY <2>1, <2>2, <3>2, <3>4, <3>5, <3>6 DEF PumpTypeOK, TimersInv
  <2> QED
    BY <2>3, <2>4
<1>11. CASE Return
  <2>1. PICK k : k = InnerFrame.of
    OBVIOUS
  <2>2. /\ frames # <<>> /\ frames' = Front(frames) /\ UNCHANGED <<state, set>>
        /\ inRender' = (inRender /\ k # "Render")
    BY <1>11, <2>1 DEF Return, TopAt, stopVars
  <2>3. /\ frames' \in Seq(JSFrames) /\ k \in Kinds
        /\ \A x : x # k => FramesOf(x)' = FramesOf(x)
        /\ Cardinality(FramesOf(k)) >= 1 /\ Cardinality(FramesOf(k)') = Cardinality(FramesOf(k)) - 1
    BY <2>1, <2>2, Returned DEF JSFrames
  <2>4. RenderNotNested'
    <3>1. CASE k = "Render"
      <4>1. inRender
        BY <2>3, <3>1 DEF RenderNotNested
      <4>2. ~inRender'
        BY <2>2, <3>1
      <4> QED
        BY <2>3, <3>1, <4>1, <4>2 DEF RenderNotNested
    <3>2. CASE k # "Render"
      <4>1. inRender' = inRender
        BY <2>2, <3>2 DEF PumpTypeOK
      <4> QED
        BY <2>3, <3>2, <4>1 DEF RenderNotNested
    <3> QED
      BY <3>1, <3>2
  <2>5. CASE k \notin Timers
    <3>1. UNCHANGED <<tasks, registered, cancelled>>
      BY <1>11, <2>1, <2>5 DEF Return
    <3>2. \A t \in Timers : OneTask(t)'
      BY <2>2, <2>3, <2>5, <3>1 DEF OneTask, TasksOf, MayPost
    <3> QED
      BY <2>2, <2>3, <2>4, <3>1, <3>2 DEF PumpTypeOK, TimersInv
  <2>6. CASE k \in Timers
    <3>0. TasksOf(k) = 1 /\ tasks[k] = 0 /\ Cardinality(FramesOf(k)) = 1 /\ k \in set
      BY <1>c, <2>3, <2>6 DEF OneTask, TasksOf, PumpTypeOK
    <3>1. AfterTimer(k)
      BY <1>11, <2>1, <2>6 DEF Return
    <3>2. CASE k \in Intervals /\ k \notin cancelled
      <4>1. tasks' = [tasks EXCEPT ![k] = IF MayPost THEN @ + 1 ELSE @] /\ UNCHANGED <<registered, cancelled>>
        BY <3>1, <3>2 DEF AfterTimer
      <4>2. OneTask(k)'
        BY <2>2, <2>3, <2>6, <3>0, <4>1 DEF OneTask, TasksOf, MayPost, PumpTypeOK
      <4>3. \A t \in Timers : t # k => OneTask(t)'
        BY <2>2, <2>3, <4>1 DEF OneTask, TasksOf, MayPost, PumpTypeOK
      <4>4. tasks' \in [Timers -> Nat]
        BY <2>6, <4>1 DEF PumpTypeOK
      <4> QED
        BY <2>2, <2>3, <2>4, <4>1, <4>2, <4>3, <4>4 DEF PumpTypeOK, TimersInv
    <3>3. CASE ~(k \in Intervals /\ k \notin cancelled)
      <4>1. RemoveDelayedEvent(k) /\ tasks' = tasks
        BY <3>1, <3>3 DEF AfterTimer
      <4>2. OneTask(k)'
        BY <1>8, <2>2, <2>3, <2>6, <3>0, <4>1 DEF OneTask, TasksOf, MayPost, PumpTypeOK
      <4>3. \A t \in Timers : t # k => OneTask(t)'
        BY <1>8, <2>2, <2>3, <2>6, <4>1 DEF OneTask, TasksOf, MayPost, PumpTypeOK
      <4> QED
        BY <1>8, <2>2, <2>3, <2>4, <2>6, <4>1, <4>2, <4>3 DEF PumpTypeOK, TimersInv
    <3> QED
      BY <3>2, <3>3
  <2> QED
    BY <2>5, <2>6
<1> QED
  BY <1>1, <1>2, <1>4, <1>5, <1>6, <1>7, <1>9, <1>10, <1>11 DEF PumpNext, PumpStep

LEMMA PumpInvariant == PumpSpec => []PumpInv
<1>1. PumpInit => PumpInv
  BY PumpInvInit
<1>2. PumpInv /\ [PumpNext]_pumpVars => PumpInv'
  BY PumpInvStep
<1> QED
  BY <1>1, <1>2, PTL DEF PumpSpec

(***************************************************************************)
(* Script.cpp:999-1008: however callbacks nest, set, clear and delay, a    *)
(* timer has at most one task, queued or in its callback, and a registered *)
(* one has it as long as tasks are accepted.                               *)
(***************************************************************************)
THEOREM OneTaskPerTimerHolds == PumpSpec => []OneTaskPerTimer
<1>1. PumpInv => OneTaskPerTimer
  BY FramesAreFinite DEF PumpInv, OneTaskPerTimer, OneTask, TasksOf, TimersInv
<1> QED
  BY <1>1, PumpInvariant, PTL

(***************************************************************************)
(* Script.cpp:953-958: a render handler that delays is not entered again,  *)
(* at any depth of nesting, and no frame leaves the guard set behind it.   *)
(***************************************************************************)
THEOREM RenderNotNestedHolds == PumpSpec => []RenderNotNested
<1>1. PumpInv => RenderNotNested
  BY DEF PumpInv
<1> QED
  BY <1>1, PumpInvariant, PTL

-----------------------------------------------------------------------------
EventKinds == {"Connected", "Disconnected", "Evaluate", "Resume"}

Events == [kind : EventKinds, of : Pushers]

Pushed == [step : {"Enqueue", "Flag"}, kind : EventKinds, of : Pushers] \union {NoPush}

Places == [kind : {"Drain", "Evaluation", "Pause"}, batch : Seq(Events), outerQuit : BOOLEAN]

InspectorTypeOK ==
  /\ attached \in Conns \union {NoConn}
  /\ conn \in [Conns -> {"New", "Open", "Gone"}]
  /\ pushing \in [Pushers -> Pushed]
  /\ queue \in Seq(Events)
  /\ stack \in Seq(Places)
  /\ quitPause \in BOOLEAN /\ teardown \in BOOLEAN /\ alive \in BOOLEAN
  /\ unhandled \in Seq(Events)

(* Evaluated JavaScript has no batch, and a script that is gone no stack. *)
StackInv ==
  /\ \A i \in DOMAIN stack : stack[i].kind = "Evaluation" => stack[i].batch = <<>>
  /\ ~alive => stack = <<>>

(* Only the attached client's thread, or one that a stop of the server     *)
(* found at it, has a message or a Connected in hand.                      *)
InHand(p) == pushing[p].step = "Enqueue"

HasNews(p) == InHand(p) /\ pushing[p].kind # "Disconnected"

HandInv ==
  /\ \A p \in Pushers : InHand(p) => pushing[p].of = p
  /\ \A p \in Pushers : HasNews(p) => p \in Conns /\ (attached = p \/ (attached = NoConn /\ ~serving))
  /\ \A p, q \in Pushers : HasNews(p) /\ HasNews(q) => p = q

(* The session s, once the first i - 1 events of w are handled, is made    *)
(* for c or is none: from some k on, nobody else connects.                 *)
Reaches(w, s, c, i) ==
  \E k \in 0..(i - 1) :
    /\ IF k = 0 THEN s \in {NoConn, c} ELSE w[k].kind = "Connected" /\ w[k].of = c
    /\ \A j \in (k + 1)..(i - 1) : w[j].kind = "Connected" => w[j].of = c

(* Once all of w is handled, the owner o of the session has become c.      *)
Told(w, o, c) ==
  \E k \in 0..Len(w) :
    /\ IF k = 0 THEN o = c ELSE Switches(w[k]) /\ Says(w[k]) = c
    /\ \A j \in (k + 1)..Len(w) : ~Switches(w[j])

Owner == IF teardown THEN NoConn ELSE session

Message(e) == e.kind \in {"Evaluate", "Resume"}

(* Who may still send a message, or has one in hand. *)
Speaks(c) ==
  \/ InHand(c) /\ Message(pushing[c])
  \/ attached = c /\ ~(InHand(c) /\ pushing[c].kind = "Connected")

LineInv ==
  inOrder /\ alive =>
    /\ \A i \in DOMAIN unhandled : Message(unhandled[i]) => Reaches(unhandled, session, unhandled[i].of, i)
    /\ \A c \in Conns : Speaks(c) => Reaches(unhandled, session, c, Len(unhandled) + 1)
    /\ ~overtaken /\ ~SwitchInHand => Told(unhandled, Owner, attached)

InspectorInv == InspectorTypeOK /\ StackInv /\ NothingUnseen /\ HandInv /\ LineInv

-----------------------------------------------------------------------------
LEMMA TopFacts ==
  ASSUME NEW q \in Seq(Places), q # <<>>
  PROVE  /\ Len(q) \in Nat \ {0} /\ Len(q) \in 1..Len(q) /\ DOMAIN q = 1..Len(q)
         /\ Last(q) = q[Len(q)] /\ Last(q) \in Places
<1>1. Len(q) \in Nat \ {0}
  OBVIOUS
<1> QED
  BY <1>1 DEF Last

(* A place is entered, *)
LEMMA PlaceEntered ==
  ASSUME NEW q \in Seq(Places), NEW place \in Places
  PROVE  /\ Append(q, place) \in Seq(Places)
         /\ Append(q, place)[Len(q) + 1] = place
         /\ \A i \in DOMAIN q : Append(q, place)[i] = q[i]
         /\ DOMAIN Append(q, place) = DOMAIN q \union {Len(q) + 1}
<1>1. /\ Append(q, place) \in Seq(Places) /\ Len(q) \in Nat
      /\ DOMAIN q = 1..Len(q) /\ DOMAIN Append(q, place) = 1..(Len(q) + 1)
      /\ Append(q, place)[Len(q) + 1] = place
      /\ \A i \in 1..Len(q) : Append(q, place)[i] = q[i]
  OBVIOUS
<1>2. 1..(Len(q) + 1) = 1..Len(q) \union {Len(q) + 1}
  BY <1>1
<1> QED
  BY <1>1, <1>2

(* or left, *)
LEMMA PlaceLeft ==
  ASSUME NEW q \in Seq(Places), q # <<>>
  PROVE  /\ Front(q) \in Seq(Places)
         /\ \A i \in DOMAIN Front(q) : i \in DOMAIN q /\ Front(q)[i] = q[i]
<1>1. /\ Len(q) \in Nat \ {0} /\ Front(q) \in Seq(Places) /\ DOMAIN q = 1..Len(q)
      /\ DOMAIN Front(q) = 1..(Len(q) - 1)
      /\ \A i \in 1..(Len(q) - 1) : Front(q)[i] = q[i]
  BY TopFacts DEF Front
<1> QED
  BY <1>1

(* or its batch is set. *)
SetBatch(q, b) == [q EXCEPT ![Len(q)].batch = b]

LEMMA BatchSet ==
  ASSUME NEW q \in Seq(Places), NEW b \in Seq(Events)
  PROVE  LET r == SetBatch(q, b) IN
         /\ r \in Seq(Places) /\ Len(r) = Len(q) /\ DOMAIN r = DOMAIN q
         /\ \A i \in DOMAIN q : r[i].kind = q[i].kind
         /\ \A i \in DOMAIN q : i # Len(q) => r[i] = q[i]
         /\ q # <<>> => r[Len(q)].batch = b
<1>r. PICK r : r = SetBatch(q, b)
  OBVIOUS
<1>0. Len(q) \in Nat /\ DOMAIN q = 1..Len(q) /\ q \in [1..Len(q) -> Places] /\ (q # <<>> => Len(q) \in 1..Len(q))
  OBVIOUS
<1>1. \A place \in Places : /\ [place EXCEPT !.batch = b] \in Places
                            /\ [place EXCEPT !.batch = b].kind = place.kind
                            /\ [place EXCEPT !.batch = b].batch = b
  BY DEF Places
<1>2. /\ r \in [1..Len(q) -> Places]
      /\ \A i \in 1..Len(q) : r[i].kind = q[i].kind /\ (i # Len(q) => r[i] = q[i])
      /\ Len(q) \in 1..Len(q) => r[Len(q)].batch = b
  BY <1>r, <1>0, <1>1 DEF SetBatch
<1>3. r \in Seq(Places) /\ Len(r) = Len(q) /\ DOMAIN r = DOMAIN q
  <2>1. PICK n \in Nat : n = Len(q)
    BY <1>0
  <2>2. r \in [1..n -> Places]
    BY <1>2, <2>1
  <2>3. r \in Seq(Places) /\ Len(r) = n
    BY <2>2
  <2> QED
    BY <1>0, <2>1, <2>2, <2>3
<1> QED
  BY <1>r, <1>0, <1>2, <1>3

LEMMA NestedIsAPlace ==
  ASSUME InspectorTypeOK, NEW kind \in {"Drain", "Evaluation", "Pause"}, NEW b \in Seq(Events)
  PROVE  /\ Nested(kind, b) \in Places
         /\ Nested(kind, b).kind = kind /\ Nested(kind, b).batch = b
BY DEF InspectorTypeOK, Nested, Places

(* The steps of the script's thread that change its stack only, or take    *)
(* the queue.                                                              *)
StackStep == DrainIncoming \/ ProcessEvent \/ EndDrain \/ PauseDrains \/ EndPause \/ HitBreakpoint \/ EndEvaluation

(* The steps of the server and of the pushers. *)
ServerStep ==
  \/ \E c \in Conns : OnClientConnected(c) \/ OnClientMessage(c) \/ OnClientClosed(c)
  \/ StopServer
  \/ StartServer
  \/ \E p \in Pushers : Enqueue(p) \/ Announce(p)

LEMMA InspectorStepKinds == InspectorNext <=> ServerStep \/ StackStep \/ StopScript \/ Destroy
BY DEF InspectorNext, ServerStep, StackStep, ThreadStep

(* A push changes the hands of its pusher. *)
LEMMA PushesTyped ==
  ASSUME InspectorTypeOK, NEW p \in Pushers, NEW kind \in EventKinds, Pushes(p, kind)
  PROVE  /\ pushing' \in [Pushers -> Pushed]
         /\ pushing'[p] = [step |-> "Enqueue", kind |-> kind, of |-> p]
         /\ \A o \in Pushers : o # p => pushing'[o] = pushing[o]
<1>1. [step |-> "Enqueue", kind |-> kind, of |-> p] \in Pushed
  BY DEF Pushed
<1> QED
  BY <1>1 DEF InspectorTypeOK, Pushes

(* The steps of the server keep the types ... *)
LEMMA ServerStepTyped ==
  ASSUME InspectorTypeOK, ServerStep
  PROVE  InspectorTypeOK'
<1> USE DEF InspectorTypeOK, serverVars, queueVars, scriptVars, orderVars
<1>0. /\ Conns \subseteq Pushers /\ UI \in Pushers
      /\ {"Connected", "Disconnected", "Evaluate", "Resume"} \subseteq EventKinds
  BY DEF Pushers, EventKinds
<1>1. ASSUME NEW c \in Conns, OnClientConnected(c)
      PROVE  InspectorTypeOK'
  BY <1>0, <1>1, PushesTyped DEF OnClientConnected
<1>2. ASSUME NEW c \in Conns, OnClientMessage(c)
      PROVE  InspectorTypeOK'
  BY <1>0, <1>2, PushesTyped DEF OnClientMessage
<1>3. ASSUME NEW c \in Conns, OnClientClosed(c)
      PROVE  InspectorTypeOK'
  BY <1>0, <1>3, PushesTyped DEF OnClientClosed
<1>4. CASE StopServer
  BY <1>0, <1>4, PushesTyped DEF StopServer
<1>5. CASE StartServer
  BY <1>5 DEF StartServer
<1>6. ASSUME NEW p \in Pushers, Enqueue(p)
      PROVE  InspectorTypeOK'
  <2>1. pushing[p] \in Pushed /\ pushing[p].step = "Enqueue"
    BY <1>6 DEF Enqueue
  <2>2. /\ Event(pushing[p].kind, pushing[p].of) \in Events
        /\ [pushing[p] EXCEPT !.step = "Flag"] \in Pushed
    BY <2>1 DEF Pushed, NoPush, Event, Events
  <2>3. Append(unhandled, Event(pushing[p].kind, pushing[p].of)) \in Seq(Events)
    BY <2>2
  <2>4. unhandled' \in Seq(Events)
    BY <1>6, <2>3 DEF Enqueue, Queued
  <2> QED
    BY <1>6, <2>2, <2>4 DEF Enqueue
<1>7. ASSUME NEW p \in Pushers, Announce(p)
      PROVE  InspectorTypeOK'
  <2>1. NoPush \in Pushed
    BY DEF Pushed
  <2> QED
    BY <1>7, <2>1 DEF Announce
<1> QED
  BY <1>1, <1>2, <1>3, <1>4, <1>5, <1>6, <1>7 DEF ServerStep

(* ... and leave no event unseen. *)
LEMMA ServerStepUnseen ==
  ASSUME InspectorTypeOK, NothingUnseen, ServerStep
  PROVE  NothingUnseen'
<1> USE DEF InspectorTypeOK, serverVars, queueVars, scriptVars
<1>1. ASSUME NEW p \in Pushers, MayPush(p), Pushes(p, "Connected") \/ Pushes(p, "Disconnected")
                                            \/ Pushes(p, "Evaluate") \/ Pushes(p, "Resume"),
             UNCHANGED <<queueVars, alive>>
      PROVE  NothingUnseen'
  <2>1. \A o \in Pushers : pushing[o].step = "Flag" => pushing'[o].step = "Flag"
    BY <1>1 DEF MayPush, Pushes
  <2> QED
    BY <1>1, <2>1 DEF NothingUnseen
<1>2. CASE UNCHANGED <<queueVars, alive, pushing>>
  BY <1>2 DEF NothingUnseen
<1>3. ASSUME NEW c \in Conns, OnClientConnected(c) \/ OnClientMessage(c) \/ OnClientClosed(c)
      PROVE  NothingUnseen'
  <2>1. c \in Pushers
    BY DEF Pushers
  <2> QED
    BY <1>1, <1>2, <1>3, <2>1 DEF OnClientConnected, OnClientMessage, OnClientClosed
<1>4. CASE StopServer \/ StartServer
  BY <1>1, <1>2, <1>4 DEF StopServer, StartServer, Pushers
<1>5. ASSUME NEW p \in Pushers, Enqueue(p)
      PROVE  NothingUnseen'
  <2>1. pushing'[p].step = "Flag"
    BY <1>5 DEF Enqueue, Pushed, NoPush
  <2> QED
    BY <2>1 DEF NothingUnseen
<1>6. ASSUME NEW p \in Pushers, Announce(p)
      PROVE  NothingUnseen'
  BY <1>6 DEF Announce, NothingUnseen
<1> QED
  BY <1>3, <1>4, <1>5, <1>6 DEF ServerStep

(* ... and the hands as they are. *)
LEMMA ServerStepHands ==
  ASSUME InspectorTypeOK, HandInv, ServerStep
  PROVE  HandInv'
<1>0. /\ \A c \in Conns : c \in Pushers /\ c # NoConn /\ c # UI
      /\ UI \in Pushers /\ {"Connected", "Disconnected", "Evaluate", "Resume"} \subseteq EventKinds
  BY InspectorAssumption DEF Pushers, EventKinds
<1>h. /\ \A p \in Pushers : InHand(p) => pushing[p].of = p
      /\ \A p \in Pushers : HasNews(p) => p \in Conns /\ (attached = p \/ (attached = NoConn /\ ~serving))
      /\ \A p, q \in Pushers : HasNews(p) /\ HasNews(q) => p = q
  BY DEF HandInv
(* A push that is decided, *)
<1>1. ASSUME NEW p \in Pushers, NEW kind \in EventKinds, Pushes(p, kind),
             kind # "Disconnected" => p \in Conns /\ attached' = p /\ \A o \in Pushers : HasNews(o) => o = p,
             \A o \in Pushers : HasNews(o) /\ o # p => attached' = o \/ (attached' = NoConn /\ ~serving')
      PROVE  HandInv'
  <2>1. /\ pushing'[p] = [step |-> "Enqueue", kind |-> kind, of |-> p]
        /\ \A o \in Pushers : o # p => pushing'[o] = pushing[o]
    BY <1>1, PushesTyped
  <2>2. \A o \in Pushers : o # p => (InHand(o)' <=> InHand(o)) /\ (HasNews(o)' <=> HasNews(o))
    BY <2>1 DEF InHand, HasNews
  <2>3. pushing'[p].of = p /\ (HasNews(p)' => kind # "Disconnected")
    BY <2>1 DEF HasNews
  <2>4. \A o \in Pushers : InHand(o)' => pushing'[o].of = o
    BY <1>h, <2>1, <2>2, <2>3
  <2>5. \A o \in Pushers : HasNews(o)' => o \in Conns /\ (attached' = o \/ (attached' = NoConn /\ ~serving'))
    BY <1>1, <1>h, <2>2, <2>3
  <2>6. \A o, q \in Pushers : HasNews(o)' /\ HasNews(q)' => o = q
    BY <1>1, <1>h, <2>2, <2>3
  <2> QED
    BY <2>4, <2>5, <2>6 DEF HandInv
(* or none. *)
<1>2. ASSUME \A o \in Pushers : InHand(o)' => pushing'[o] = pushing[o],
             \A o \in Pushers : HasNews(o)' => attached' = o \/ (attached' = NoConn /\ ~serving')
      PROVE  HandInv'
  <2>1. \A o \in Pushers : (InHand(o)' => InHand(o)) /\ (HasNews(o)' => HasNews(o))
    BY <1>2 DEF InHand, HasNews
  <2>2. \A o \in Pushers : InHand(o)' => pushing'[o].of = o
    BY <1>2, <1>h, <2>1
  <2>3. \A o \in Pushers : HasNews(o)' => o \in Conns /\ (attached' = o \/ (attached' = NoConn /\ ~serving'))
    BY <1>2, <1>h, <2>1
  <2>4. \A o, q \in Pushers : HasNews(o)' /\ HasNews(q)' => o = q
    BY <1>h, <2>1
  <2> QED
    BY <2>2, <2>3, <2>4 DEF HandInv
<1>3. ASSUME UNCHANGED <<attached, serving, pushing>>
      PROVE  HandInv'
  BY <1>3 DEF HandInv, InHand, HasNews
<1>4. ASSUME NEW c \in Conns, OnClientConnected(c)
      PROVE  HandInv'
  <2>1. CASE alive /\ attached = NoConn
    <3>1. \A p \in Pushers : ~HasNews(p)
      BY <1>0, <1>4, <1>h, <2>1 DEF OnClientConnected
    <3>2. Pushes(c, "Connected") /\ attached' = c
      BY <1>4, <2>1 DEF OnClientConnected
    <3> QED
      BY <1>0, <1>1, <3>1, <3>2
  <2>2. CASE ~(alive /\ attached = NoConn)
    BY <1>3, <1>4, <2>2 DEF OnClientConnected
  <2> QED
    BY <2>1, <2>2
<1>5. ASSUME NEW c \in Conns, OnClientMessage(c)
      PROVE  HandInv'
  <2>1. CASE attached = c /\ alive
    <3>1. \A p \in Pushers : HasNews(p) => p = c
      BY <1>0, <1>h, <2>1
    <3>2. PICK kind \in {"Evaluate", "Resume"} : Pushes(c, kind)
      BY <1>5, <2>1 DEF OnClientMessage
    <3>3. UNCHANGED <<attached, serving>>
      BY <1>5 DEF OnClientMessage, serverVars
    <3> QED
      BY <1>0, <1>1, <2>1, <3>1, <3>2, <3>3
  <2>2. CASE ~(attached = c /\ alive)
    BY <1>3, <1>5, <2>2 DEF OnClientMessage, serverVars
  <2> QED
    BY <2>1, <2>2
<1>6. ASSUME NEW c \in Conns, OnClientClosed(c)
      PROVE  HandInv'
  <2>1. CASE attached = c
    <3>1. pushing[c].step = "None"
      BY <1>6 DEF OnClientClosed, MayPush
    <3>2. \A p \in Pushers : ~HasNews(p)
      BY <1>0, <1>h, <2>1, <3>1 DEF HasNews, InHand
    <3>3. CASE Pushes(c, "Disconnected")
      BY <1>0, <1>1, <3>2, <3>3
    <3>4. CASE UNCHANGED pushing
      BY <1>2, <3>2, <3>4 DEF HasNews, InHand
    <3> QED
      BY <1>6, <2>1, <3>3, <3>4 DEF OnClientClosed
  <2>2. CASE attached # c
    BY <1>3, <1>6, <2>2 DEF OnClientClosed
  <2> QED
    BY <2>1, <2>2
<1>7. CASE StopServer
  <2>1. attached' = NoConn /\ ~serving'
    BY <1>7 DEF StopServer
  <2>2. CASE Pushes(UI, "Disconnected")
    BY <1>0, <1>1, <2>1, <2>2
  <2>3. CASE UNCHANGED pushing
    BY <1>2, <2>1, <2>3
  <2> QED
    BY <1>7, <2>2, <2>3 DEF StopServer
<1>8. CASE StartServer
  <2>1. (\A p \in Pushers : ~InHand(p)') /\ UNCHANGED pushing
    BY <1>8 DEF StartServer, InHand
  <2> QED
    BY <1>2, <2>1 DEF HasNews
<1>9. ASSUME NEW p \in Pushers, Enqueue(p) \/ Announce(p)
      PROVE  HandInv'
  <2>1. ~InHand(p)'
    BY <1>9 DEF Enqueue, Announce, NoPush, Pushed, InspectorTypeOK, InHand
  <2>2. UNCHANGED <<attached, serving>> /\ \A o \in Pushers : o # p => pushing'[o] = pushing[o]
    BY <1>9 DEF Enqueue, Announce, serverVars, InspectorTypeOK
  <2>3. \A o \in Pushers : HasNews(o)' => HasNews(o)
    BY <2>1, <2>2 DEF HasNews, InHand
  <2> QED
    BY <1>2, <1>h, <2>1, <2>2, <2>3
<1> QED
  BY <1>4, <1>5, <1>6, <1>7, <1>8, <1>9 DEF ServerStep

-----------------------------------------------------------------------------
(* What one more event does to a line of events, *)
LEMMA LineGrows ==
  ASSUME NEW w \in Seq(Events), NEW e \in Events, NEW s, NEW c
  PROVE  LET g == Append(w, e) IN
         /\ \A i \in 1..(Len(w) + 1) : Reaches(w, s, c, i) => Reaches(g, s, c, i)
         /\ Reaches(w, s, c, Len(w) + 1) /\ (e.kind = "Connected" => e.of = c) => Reaches(g, s, c, Len(w) + 2)
         /\ e.kind = "Connected" /\ e.of = c => Reaches(g, s, c, Len(w) + 2)
         /\ Told(w, s, c) /\ ~Switches(e) => Told(g, s, c)
         /\ Switches(e) /\ Says(e) = c => Told(g, s, c)
<1>1. PICK g : g = Append(w, e)
  OBVIOUS
<1>2. /\ Len(w) \in Nat /\ Len(g) = Len(w) + 1 /\ g[Len(w) + 1] = e
      /\ \A i \in 1..Len(w) : g[i] = w[i]
  BY <1>1
<1>3. ASSUME NEW i \in 1..(Len(w) + 1), Reaches(w, s, c, i)
      PROVE  Reaches(g, s, c, i)
  <2>1. PICK k \in 0..(i - 1) :
          /\ IF k = 0 THEN s \in {NoConn, c} ELSE w[k].kind = "Connected" /\ w[k].of = c
          /\ \A j \in (k + 1)..(i - 1) : w[j].kind = "Connected" => w[j].of = c
    BY <1>3 DEF Reaches
  <2>2. IF k = 0 THEN s \in {NoConn, c} ELSE g[k].kind = "Connected" /\ g[k].of = c
    BY <1>2, <1>3, <2>1
  <2>3. \A j \in (k + 1)..(i - 1) : g[j].kind = "Connected" => g[j].of = c
    BY <1>2, <1>3, <2>1
  <2> QED
    BY <2>2, <2>3 DEF Reaches
<1>4. ASSUME Reaches(w, s, c, Len(w) + 1), e.kind = "Connected" => e.of = c
      PROVE  Reaches(g, s, c, Len(w) + 2)
  <2>1. PICK k \in 0..Len(w) :
          /\ IF k = 0 THEN s \in {NoConn, c} ELSE w[k].kind = "Connected" /\ w[k].of = c
          /\ \A j \in (k + 1)..Len(w) : w[j].kind = "Connected" => w[j].of = c
    BY <1>2, <1>4 DEF Reaches
  <2>2. k \in 0..(Len(w) + 1)
    BY <1>2
  <2>3. IF k = 0 THEN s \in {NoConn, c} ELSE g[k].kind = "Connected" /\ g[k].of = c
    BY <1>2, <2>1
  <2>4. \A j \in (k + 1)..(Len(w) + 1) : g[j].kind = "Connected" => g[j].of = c
    BY <1>2, <1>4, <2>1
  <2>5. Len(w) + 2 - 1 = Len(w) + 1
    BY <1>2
  <2> QED
    BY <2>2, <2>3, <2>4, <2>5 DEF Reaches
<1>5. ASSUME e.kind = "Connected", e.of = c
      PROVE  Reaches(g, s, c, Len(w) + 2)
  <2>1. /\ Len(w) + 1 \in 0..(Len(w) + 1) /\ Len(w) + 1 # 0 /\ Len(w) + 2 - 1 = Len(w) + 1
        /\ (Len(w) + 2)..(Len(w) + 1) = {} /\ Len(w) + 1 + 1 = Len(w) + 2
    BY <1>2
  <2> QED
    BY <1>2, <1>5, <2>1 DEF Reaches
<1>6. ASSUME Told(w, s, c), ~Switches(e)
      PROVE  Told(g, s, c)
  <2>1. PICK k \in 0..Len(w) :
          /\ IF k = 0 THEN s = c ELSE Switches(w[k]) /\ Says(w[k]) = c
          /\ \A j \in (k + 1)..Len(w) : ~Switches(w[j])
    BY <1>6 DEF Told
  <2>2. k \in 0..Len(g)
    BY <1>2
  <2>3. IF k = 0 THEN s = c ELSE Switches(g[k]) /\ Says(g[k]) = c
    BY <1>2, <2>1
  <2>4. \A j \in (k + 1)..Len(g) : ~Switches(g[j])
    BY <1>2, <1>6, <2>1
  <2> QED
    BY <2>2, <2>3, <2>4 DEF Told
<1>7. ASSUME Switches(e), Says(e) = c
      PROVE  Told(g, s, c)
  <2>1. Len(g) \in 0..Len(g) /\ Len(g) # 0 /\ (Len(g) + 1)..Len(g) = {} /\ g[Len(g)] = e
    BY <1>2
  <2> QED
    BY <1>7, <2>1 DEF Told
<1> QED
  BY <1>1, <1>3, <1>4, <1>5, <1>6, <1>7

(* and what handling the first one does. *)
LEMMA LineShrinks ==
  ASSUME NEW w \in Seq(Events), w # <<>>, NEW s, NEW r, NEW c
  PROVE  LET e == Head(w)  g == Tail(w) IN
         /\ e = w[1] /\ e \in Events /\ g \in Seq(Events) /\ Len(g) + 1 = Len(w)
         /\ \A i \in 1..Len(g) : g[i] = w[i + 1]
         /\ \A i \in 2..(Len(w) + 1) :
              Reaches(w, s, c, i) /\ (IF e.kind = "Connected" THEN r = e.of ELSE r \in {s, NoConn}) =>
                Reaches(g, r, c, i - 1)
         /\ Told(w, s, c) /\ (IF Switches(e) THEN r = Says(e) ELSE r = s) => Told(g, r, c)
<1>1. PICK e, g : e = Head(w) /\ g = Tail(w)
  OBVIOUS
<1>2. /\ Len(w) \in Nat \ {0} /\ g \in Seq(Events) /\ Len(g) = Len(w) - 1 /\ e = w[1] /\ e \in Events
      /\ \A i \in 1..Len(g) : g[i] = w[i + 1]
  BY <1>1
<1>3. ASSUME NEW i \in 2..(Len(w) + 1), Reaches(w, s, c, i),
             IF e.kind = "Connected" THEN r = e.of ELSE r \in {s, NoConn}
      PROVE  Reaches(g, r, c, i - 1)
  <2>1. PICK k \in 0..(i - 1) :
          /\ IF k = 0 THEN s \in {NoConn, c} ELSE w[k].kind = "Connected" /\ w[k].of = c
          /\ \A j \in (k + 1)..(i - 1) : w[j].kind = "Connected" => w[j].of = c
    BY <1>3 DEF Reaches
  <2>2. PICK m \in 0..(i - 2) : m = IF k = 0 THEN 0 ELSE k - 1
    <3>1. (IF k = 0 THEN 0 ELSE k - 1) \in 0..(i - 2)
      BY <2>1
    <3> QED
      BY <3>1
  <2>3. \A j \in (m + 1)..(i - 2) : g[j].kind = "Connected" => g[j].of = c
    <3>1. ASSUME NEW j \in (m + 1)..(i - 2)
          PROVE  j + 1 \in (k + 1)..(i - 1) /\ j \in 1..Len(g)
      BY <1>2, <2>2
    <3> QED
      BY <1>2, <2>1, <3>1
  <2>4. IF m = 0 THEN r \in {NoConn, c} ELSE g[m].kind = "Connected" /\ g[m].of = c
    <3>1. CASE k = 0
      <4>1. m = 0 /\ 1 \in (k + 1)..(i - 1)
        BY <2>2, <3>1
      <4>2. e.kind = "Connected" => e.of = c
        BY <1>2, <2>1, <4>1
      <4> QED
        BY <1>3, <2>1, <3>1, <4>1, <4>2
    <3>2. CASE k = 1
      BY <1>2, <1>3, <2>1, <2>2, <3>2
    <3>3. CASE k > 1
      <4>1. m = k - 1 /\ m \in 1..Len(g) /\ m + 1 = k /\ m # 0
        BY <1>2, <2>2, <3>3
      <4> QED
        BY <1>2, <2>1, <3>3, <4>1
    <3> QED
      BY <3>1, <3>2, <3>3
  <2>5. i - 1 - 1 = i - 2
    OBVIOUS
  <2> QED
    BY <2>3, <2>4, <2>5 DEF Reaches
<1>4. ASSUME Told(w, s, c), IF Switches(e) THEN r = Says(e) ELSE r = s
      PROVE  Told(g, r, c)
  <2>1. PICK k \in 0..Len(w) :
          /\ IF k = 0 THEN s = c ELSE Switches(w[k]) /\ Says(w[k]) = c
          /\ \A j \in (k + 1)..Len(w) : ~Switches(w[j])
    BY <1>4 DEF Told
  <2>2. PICK m \in 0..Len(g) : m = IF k = 0 THEN 0 ELSE k - 1
    <3>1. (IF k = 0 THEN 0 ELSE k - 1) \in 0..Len(g)
      BY <1>2, <2>1
    <3> QED
      BY <3>1
  <2>3. \A j \in (m + 1)..Len(g) : ~Switches(g[j])
    <3>1. ASSUME NEW j \in (m + 1)..Len(g)
          PROVE  j + 1 \in (k + 1)..Len(w) /\ j \in 1..Len(g)
      BY <1>2, <2>2
    <3> QED
      BY <1>2, <2>1, <3>1
  <2>4. IF m = 0 THEN r = c ELSE Switches(g[m]) /\ Says(g[m]) = c
    <3>1. CASE k = 0
      <4>1. m = 0 /\ 1 \in (k + 1)..Len(w)
        BY <1>2, <2>2, <3>1
      <4>2. ~Switches(e)
        BY <1>2, <2>1, <4>1
      <4> QED
        BY <1>4, <2>1, <3>1, <4>1, <4>2
    <3>2. CASE k = 1
      BY <1>2, <1>4, <2>1, <2>2, <3>2
    <3>3. CASE k > 1
      <4>1. m = k - 1 /\ m \in 1..Len(g) /\ m + 1 = k /\ m # 0 /\ k # 0
        BY <1>2, <2>2, <3>3
      <4>2. g[m] = w[k]
        BY <1>2, <4>1
      <4> QED
        BY <2>1, <4>1, <4>2
    <3> QED
      BY <3>1, <3>2, <3>3
  <2> QED
    BY <2>3, <2>4 DEF Told
<1>5. Len(g) + 1 = Len(w)
  BY <1>2
<1> QED
  BY <1>1, <1>2, <1>3, <1>4, <1>5

(* A push that is decided says what is so, and one that is queued reaches  *)
(* the session it is for.                                                  *)
LEMMA ServerStepLine ==
  ASSUME InspectorTypeOK, HandInv, LineInv, ServerStep
  PROVE  LineInv'
<1> USE DEF InspectorTypeOK
<1>0. /\ \A c \in Conns : c \in Pushers /\ c # NoConn /\ c # UI
      /\ UI \in Pushers /\ {"Connected", "Disconnected", "Evaluate", "Resume"} \subseteq EventKinds
  BY InspectorAssumption DEF Pushers, EventKinds
<1>1. /\ UNCHANGED <<alive, session, teardown, inOrder>> /\ (UNCHANGED orderVars \/ \E p \in Pushers : Enqueue(p))
  BY DEF ServerStep, OnClientConnected, OnClientMessage, OnClientClosed, StopServer, StartServer, Enqueue, Announce,
         scriptVars, orderVars, Queued
<1>2. SUFFICES ASSUME inOrder, alive
               PROVE  LineInv'
  BY <1>1 DEF LineInv
<1>3. /\ \A i \in DOMAIN unhandled : Message(unhandled[i]) => Reaches(unhandled, session, unhandled[i].of, i)
      /\ \A c \in Conns : Speaks(c) => Reaches(unhandled, session, c, Len(unhandled) + 1)
      /\ ~overtaken /\ ~SwitchInHand => Told(unhandled, Owner, attached)
  BY <1>2 DEF LineInv
<1>4. Owner' = Owner
  BY <1>1 DEF Owner
(* A step that queues nothing. *)
<1>5. ASSUME UNCHANGED orderVars,
             \A c \in Conns : Speaks(c)' => Speaks(c),
             ~SwitchInHand' => ~SwitchInHand /\ attached' = attached
      PROVE  LineInv'
  <2>1. \A c \in Conns : Speaks(c)' => Reaches(unhandled, session, c, Len(unhandled) + 1)
    BY <1>3, <1>5
  <2>2. ~overtaken /\ ~SwitchInHand' => Told(unhandled, Owner, attached')
    BY <1>3, <1>5
  <2> QED
    BY <1>1, <1>3, <1>4, <1>5, <2>1, <2>2 DEF LineInv, orderVars
<1>6. ASSUME NEW p \in Pushers, NEW kind \in EventKinds, Pushes(p, kind)
      PROVE  /\ pushing'[p] = [step |-> "Enqueue", kind |-> kind, of |-> p]
             /\ \A o \in Pushers : o # p => pushing'[o] = pushing[o]
  BY <1>6, PushesTyped
<1>7. ASSUME NEW c \in Conns, OnClientConnected(c)
      PROVE  LineInv'
  <2>1. UNCHANGED orderVars
    BY <1>7 DEF OnClientConnected
  <2>2. CASE attached = NoConn
    <3>1. Pushes(c, "Connected") /\ attached' = c
      BY <1>2, <1>7, <2>2 DEF OnClientConnected
    <3>2. /\ pushing'[c] = [step |-> "Enqueue", kind |-> "Connected", of |-> c]
          /\ \A o \in Pushers : o # c => pushing'[o] = pushing[o]
      BY <1>0, <1>6, <3>1
    <3>3. SwitchInHand'
      BY <1>0, <3>2 DEF SwitchInHand, Switches
    <3>4. \A d \in Conns : Speaks(d)' => Speaks(d)
      BY <1>0, <2>2, <3>1, <3>2 DEF Speaks, InHand, Message
    <3> QED
      BY <1>5, <2>1, <3>3, <3>4
  <2>3. CASE attached # NoConn
    <3>1. UNCHANGED <<attached, pushing>>
      BY <1>7, <2>3 DEF OnClientConnected
    <3>2. (SwitchInHand' <=> SwitchInHand) /\ \A d \in Conns : Speaks(d)' <=> Speaks(d)
      BY <3>1 DEF SwitchInHand, Speaks, InHand
    <3> QED
      BY <1>5, <2>1, <3>1, <3>2
  <2> QED
    BY <2>2, <2>3
<1>8. ASSUME NEW c \in Conns, OnClientMessage(c)
      PROVE  LineInv'
  <2>1. UNCHANGED orderVars /\ UNCHANGED attached
    BY <1>8 DEF OnClientMessage, serverVars
  <2>2. CASE attached = c
    <3>1. PICK kind \in {"Evaluate", "Resume"} : Pushes(c, kind)
      BY <1>2, <1>8, <2>2 DEF OnClientMessage
    <3>2. /\ pushing'[c] = [step |-> "Enqueue", kind |-> kind, of |-> c]
          /\ \A o \in Pushers : o # c => pushing'[o] = pushing[o]
      BY <1>0, <1>6, <3>1
    <3>3. pushing[c].step = "None"
      BY <1>8 DEF OnClientMessage, MayPush
    <3>4. SwitchInHand => SwitchInHand'
      BY <3>2, <3>3 DEF SwitchInHand
    <3>5. \A d \in Conns : Speaks(d)' => Speaks(d)
      BY <1>0, <2>1, <2>2, <3>2, <3>3 DEF Speaks, InHand
    <3> QED
      BY <1>5, <2>1, <3>4, <3>5
  <2>3. CASE attached # c
    <3>1. UNCHANGED pushing
      BY <1>8, <2>3 DEF OnClientMessage
    <3>2. (SwitchInHand' <=> SwitchInHand) /\ \A d \in Conns : Speaks(d)' <=> Speaks(d)
      BY <2>1, <3>1 DEF SwitchInHand, Speaks, InHand
    <3> QED
      BY <1>5, <2>1, <3>2
  <2> QED
    BY <2>2, <2>3
<1>9. ASSUME NEW p \in Pushers, MayPush(p), Pushes(p, "Disconnected"), attached' = NoConn, UNCHANGED orderVars
      PROVE  LineInv'
  <2>1. /\ pushing'[p] = [step |-> "Enqueue", kind |-> "Disconnected", of |-> p]
        /\ \A o \in Pushers : o # p => pushing'[o] = pushing[o]
    BY <1>0, <1>6, <1>9
  <2>2. SwitchInHand'
    BY <2>1 DEF SwitchInHand, Switches
  <2>3. \A d \in Conns : Speaks(d)' => Speaks(d)
    BY <1>0, <1>9, <2>1 DEF Speaks, InHand, Message
  <2> QED
    BY <1>5, <1>9, <2>2, <2>3
<1>10. ASSUME NEW c \in Conns, OnClientClosed(c)
       PROVE  LineInv'
  <2>1. UNCHANGED orderVars /\ MayPush(c)
    BY <1>10 DEF OnClientClosed
  <2>2. CASE attached = c
    <3>1. Pushes(c, "Disconnected") /\ attached' = NoConn
      BY <1>2, <1>10, <2>2 DEF OnClientClosed
    <3> QED
      BY <1>0, <1>9, <2>1, <3>1
  <2>3. CASE attached # c
    <3>1. UNCHANGED <<attached, pushing>>
      BY <1>10, <2>3 DEF OnClientClosed
    <3>2. (SwitchInHand' <=> SwitchInHand) /\ \A d \in Conns : Speaks(d)' <=> Speaks(d)
      BY <3>1 DEF SwitchInHand, Speaks, InHand
    <3> QED
      BY <1>5, <2>1, <3>1, <3>2
  <2> QED
    BY <2>2, <2>3
<1>11. CASE StopServer
  BY <1>0, <1>2, <1>9, <1>11 DEF StopServer
<1>12. CASE StartServer \/ \E p \in Pushers : Announce(p)
  <2>1. UNCHANGED <<attached, orderVars>> /\ \A o \in Pushers : InHand(o) \/ InHand(o)' => pushing'[o] = pushing[o]
    BY <1>12 DEF StartServer, Announce, InHand, NoPush, serverVars
  <2>2. (SwitchInHand' <=> SwitchInHand) /\ \A d \in Conns : Speaks(d)' <=> Speaks(d)
    BY <1>0, <2>1 DEF SwitchInHand, Speaks, InHand
  <2> QED
    BY <1>5, <2>1, <2>2
<1>13. ASSUME NEW p \in Pushers, Enqueue(p)
       PROVE  LineInv'
  <2> DEFINE e == Event(pushing[p].kind, pushing[p].of)
             n == Len(unhandled)
  <2>1. /\ InHand(p) /\ pushing[p] \in Pushed /\ ~InHand(p)' /\ UNCHANGED <<attached>>
        /\ \A o \in Pushers : o # p => pushing'[o] = pushing[o]
    BY <1>13 DEF Enqueue, serverVars, InHand, Pushed
  <2>2. e \in Events /\ e.kind = pushing[p].kind /\ e.of = p
    BY <2>1 DEF Pushed, NoPush, InHand, Events, Event, HandInv
  <2>3. /\ unhandled' = Append(unhandled, e)
        /\ overtaken' = IF Switches(e) THEN Says(e) # attached ELSE overtaken
    BY <1>2, <1>13 DEF Enqueue, Queued
  <2>4. /\ n \in Nat /\ DOMAIN unhandled = 1..n /\ DOMAIN unhandled' = 1..(n + 1) /\ Len(unhandled') = n + 1
        /\ unhandled'[n + 1] = e /\ \A i \in 1..n : unhandled'[i] = unhandled[i]
    BY <2>2, <2>3
  <2>5. ASSUME NEW i \in DOMAIN unhandled', Message(unhandled'[i])
        PROVE  Reaches(unhandled', session, unhandled'[i].of, i)
    <3>1. CASE i \in 1..n
      BY <1>3, <2>2, <2>3, <2>4, <2>5, <3>1, LineGrows
    <3>2. CASE i = n + 1
      <4>1. Message(pushing[p]) /\ HasNews(p)
        BY <2>1, <2>2, <2>4, <2>5, <3>2 DEF Message, HasNews
      <4>2. p \in Conns /\ Speaks(p)
        BY <2>1, <4>1 DEF HandInv, Speaks
      <4>3. Reaches(unhandled, session, p, n + 1)
        BY <1>3, <4>2
      <4> QED
        BY <2>2, <2>3, <2>4, <3>2, <4>3, LineGrows
    <3> QED
      BY <2>4, <2>5, <3>1, <3>2
  <2>6. ASSUME NEW c \in Conns, Speaks(c)'
        PROVE  Reaches(unhandled', session, c, n + 2)
    <3>1. CASE e.kind = "Connected" /\ p = c
      BY <2>2, <2>3, <3>1, LineGrows
    <3>2. CASE e.kind = "Connected" /\ p # c
      <4>1. HasNews(p) /\ p # NoConn /\ attached \in {p, NoConn}
        BY <1>0, <2>1, <2>2, <3>2 DEF HasNews, HandInv
      <4>2. pushing'[c] = pushing[c]
        BY <1>0, <2>1, <3>2
      <4>3. InHand(c) /\ Message(pushing[c])
        BY <1>0, <2>1, <2>6, <3>2, <4>1, <4>2 DEF Speaks, InHand
      <4>4. HasNews(c)
        BY <4>3 DEF HasNews, Message
      <4> QED
        BY <1>0, <3>2, <4>1, <4>4 DEF HandInv
    <3>3. CASE e.kind # "Connected"
      <4>1. Speaks(c)
        <5>1. CASE c = p
          BY <2>1, <2>2, <2>6, <3>3, <5>1 DEF Speaks
        <5>2. CASE c # p
          BY <1>0, <2>1, <2>6, <5>2 DEF Speaks, InHand
        <5> QED
          BY <5>1, <5>2
      <4>2. Reaches(unhandled, session, c, n + 1)
        BY <1>3, <4>1
      <4> QED
        BY <2>2, <2>3, <3>3, <4>2, LineGrows
    <3> QED
      BY <3>1, <3>2, <3>3
  <2>7. ASSUME ~overtaken', ~SwitchInHand'
        PROVE  Told(unhandled', Owner, attached)
    <3>1. CASE Switches(e)
      <4>1. Says(e) = attached
        BY <2>3, <2>7, <3>1
      <4> QED
        BY <2>2, <2>3, <3>1, <4>1, LineGrows
    <3>2. CASE ~Switches(e)
      <4>1. ~overtaken
        BY <2>3, <2>7, <3>2
      <4>2. ~SwitchInHand
        BY <2>1, <2>2, <2>7, <3>2 DEF SwitchInHand, InHand, Switches
      <4> QED
        BY <1>3, <2>2, <2>3, <3>2, <4>1, <4>2, LineGrows
    <3> QED
      BY <3>1, <3>2
  <2>8. n + 2 = Len(unhandled') + 1
    BY <2>4
  <2>9. \A c \in Conns : Speaks(c)' => Reaches(unhandled', session', c, Len(unhandled') + 1)
    BY <1>1, <2>6, <2>8
  <2>10. ~overtaken' /\ ~SwitchInHand' => Told(unhandled', Owner', attached')
    BY <1>4, <2>1, <2>7
  <2>11. \A i \in DOMAIN unhandled' : Message(unhandled'[i]) => Reaches(unhandled', session', unhandled'[i].of, i)
    BY <1>1, <2>5
  <2> QED
    BY <2>9, <2>10, <2>11 DEF LineInv
<1> QED
  BY <1>7, <1>8, <1>10, <1>11, <1>12, <1>13 DEF ServerStep

(* A stack of places, where evaluated JavaScript has no batch. *)
WellFormed(q) ==
  /\ q \in Seq(Places)
  /\ \A i \in DOMAIN q : q[i].kind = "Evaluation" => q[i].batch = <<>>

LEMMA WellFormedStacks ==
  ASSUME NEW q, WellFormed(q)
  PROVE  /\ \A place \in Places : (place.kind = "Evaluation" => place.batch = <<>>) => WellFormed(Append(q, place))
         /\ \A b \in Seq(Events) :
              b = <<>> \/ (q # <<>> /\ q[Len(q)].kind # "Evaluation") => WellFormed([q EXCEPT ![Len(q)].batch = b])
         /\ q # <<>> => WellFormed(Front(q))
<1>0. q \in Seq(Places) /\ \A i \in DOMAIN q : q[i].kind = "Evaluation" => q[i].batch = <<>>
  BY DEF WellFormed
<1>1. ASSUME NEW place \in Places, place.kind = "Evaluation" => place.batch = <<>>
      PROVE  WellFormed(Append(q, place))
  BY <1>0, <1>1, PlaceEntered DEF WellFormed
<1>2. ASSUME NEW b \in Seq(Events), b = <<>> \/ (q # <<>> /\ q[Len(q)].kind # "Evaluation")
      PROVE  WellFormed([q EXCEPT ![Len(q)].batch = b])
  <2>0. PICK r : r = SetBatch(q, b)
    OBVIOUS
  <2>1. /\ r \in Seq(Places) /\ Len(r) = Len(q) /\ DOMAIN r = DOMAIN q
        /\ \A i \in DOMAIN q : r[i].kind = q[i].kind
        /\ \A i \in DOMAIN q : i # Len(q) => r[i] = q[i]
        /\ q # <<>> => r[Len(q)].batch = b
    BY <1>0, <2>0, BatchSet
  <2>2. ASSUME NEW i \in DOMAIN r, r[i].kind = "Evaluation"
        PROVE  r[i].batch = <<>>
    <3>1. q # <<>>
      BY <1>0, <2>1
    <3> QED
      BY <1>0, <1>2, <2>1, <2>2, <3>1
  <2>3. WellFormed(r)
    BY <2>1, <2>2 DEF WellFormed
  <2> QED
    BY <2>0, <2>3 DEF SetBatch
<1>3. q # <<>> => WellFormed(Front(q))
  BY <1>0, PlaceLeft DEF WellFormed
<1> QED
  BY <1>1, <1>2, <1>3

(* The steps of the script's thread keep its stack well formed, and what   *)
(* they take from the queue is all of it.                                  *)
LEMMA StackStepFacts ==
  ASSUME InspectorTypeOK, StackInv, StackStep
  PROVE  /\ alive
         /\ UNCHANGED <<serverVars, pushing, alive>>
         /\ WellFormed(stack')
         /\ quitPause' \in BOOLEAN
         /\ teardown' \in BOOLEAN
         /\ UNCHANGED queueVars \/ DrainAll
<1> DEFINE n == Len(stack)
<1> USE DEF InspectorTypeOK
<1>0. <<>> \in Seq(Events)
  OBVIOUS
<1>d. WellFormed(stack)
  BY DEF StackInv, WellFormed
<1>e. stack # <<>> => alive
  BY DEF StackInv
<1>t. stack # <<>> => Top = stack[n] /\ Top \in Places
  BY TopFacts DEF Top
<1>w. \A b \in Seq(Events) : b = <<>> \/ (stack # <<>> /\ Top.kind # "Evaluation") => WellFormed(WithBatch(b))
  BY <1>d, <1>t, WellFormedStacks DEF WithBatch
<1>n. \A kind \in {"Drain", "Evaluation", "Pause"} : \A b \in Seq(Events) :
        Nested(kind, b) \in Places /\ Nested(kind, b).kind = kind /\ Nested(kind, b).batch = b
  BY NestedIsAPlace
<1>1. CASE DrainIncoming
  <2>1. stack' = Append(stack, Nested("Drain", queue)) \/ stack' = Append(stack, Nested("Drain", <<>>))
    BY <1>1 DEF DrainIncoming
  <2>a. \A b \in Seq(Events) : WellFormed(Append(stack, Nested("Drain", b)))
    BY <1>d, <1>n, WellFormedStacks
  <2>2. WellFormed(stack')
    BY <1>0, <2>1, <2>a
  <2> QED
    BY <1>1, <2>2 DEF DrainIncoming, InJavaScript
<1>2. CASE HitBreakpoint
  <2>1. WellFormed(stack')
    BY <1>0, <1>2, <1>d, <1>n, WellFormedStacks DEF HitBreakpoint
  <2> QED
    BY <1>2, <2>1 DEF HitBreakpoint, InJavaScript
<1>3. CASE ProcessEvent
  <2>1. stack # <<>> /\ Top.batch # <<>> /\ Top \in Places
    BY <1>3, <1>t DEF ProcessEvent
  <2>2. Tail(Top.batch) \in Seq(Events)
    BY <2>1 DEF Places
  <2>3. PICK rest \in Seq(Events) :
          \/ stack' = Append(WithBatch(rest), Nested("Evaluation", <<>>))
          \/ stack' = WithBatch(rest)
    BY <1>0, <1>3, <2>2, Zenon DEF ProcessEvent
  <2>4. Top.kind # "Evaluation"
    BY <1>d, <1>t, <2>1, TopFacts DEF WellFormed
  <2>5. WellFormed(WithBatch(rest))
    BY <1>w, <2>1, <2>4
  <2>a. WellFormed(Append(WithBatch(rest), Nested("Evaluation", <<>>)))
    BY <1>0, <1>n, <2>5, WellFormedStacks
  <2>6. WellFormed(stack')
    BY <2>3, <2>5, <2>a
  <2>7. quitPause' \in BOOLEAN /\ teardown' \in BOOLEAN
    BY <1>3 DEF ProcessEvent, Connect, Disconnect, Dispatch, TeardownSession
  <2> QED
    BY <1>3, <1>e, <2>1, <2>6, <2>7 DEF ProcessEvent
<1>4. CASE EndDrain \/ EndPause
  <2>1. stack # <<>> /\ stack' = Front(stack) /\ Top \in Places
    BY <1>4, <1>t DEF EndDrain, EndPause, LeaveInner, TopIs
  <2>2. quitPause' \in BOOLEAN /\ teardown' \in BOOLEAN
    BY <1>4, <2>1 DEF EndDrain, EndPause, TeardownSession, Places
  <2>3. WellFormed(stack')
    BY <1>d, <2>1, WellFormedStacks
  <2> QED
    BY <1>4, <1>e, <2>1, <2>2, <2>3 DEF EndDrain, EndPause
<1>5. CASE PauseDrains
  <2>1. stack # <<>> /\ stack' = WithBatch(queue) /\ Top.kind # "Evaluation"
    BY <1>5 DEF PauseDrains, TopIs
  <2>2. WellFormed(stack')
    BY <1>w, <2>1
  <2> QED
    BY <1>5, <1>e, <2>1, <2>2 DEF PauseDrains
<1>6. CASE EndEvaluation
  <2>1. stack # <<>>
    BY <1>6 DEF EndEvaluation, TopIs
  <2>2. PICK below : below = Front(stack)
    OBVIOUS
  <2>3. stack' = below \/ stack' = [below EXCEPT ![Len(below)].batch = <<>>]
    BY <1>6, <2>2 DEF EndEvaluation
  <2>4. WellFormed(below)
    BY <1>d, <2>1, <2>2, WellFormedStacks
  <2>5. WellFormed([below EXCEPT ![Len(below)].batch = <<>>])
    BY <1>0, <2>4, WellFormedStacks
  <2> QED
    BY <1>6, <1>e, <2>1, <2>3, <2>4, <2>5 DEF EndEvaluation
<1> QED
  BY <1>1, <1>2, <1>3, <1>4, <1>5, <1>6 DEF StackStep

(* What the thread does leaves the line as it is, or handles its first     *)
(* event.                                                                  *)
LEMMA StackStepLine ==
  ASSUME InspectorTypeOK, StackInv, LineInv, StackStep
  PROVE  LineInv' /\ unhandled' \in Seq(Events)
<1> USE DEF InspectorTypeOK
<1>0. alive /\ UNCHANGED <<serving, attached, conn, pushing, alive>>
  BY StackStepFacts DEF serverVars
<1>1. (SwitchInHand' <=> SwitchInHand) /\ \A c \in Conns : Speaks(c)' <=> Speaks(c)
  BY <1>0 DEF SwitchInHand, Speaks, InHand
<1>e. <<>> \in Seq(Events)
  OBVIOUS
(* The line is as it was. *)
<1>2. ASSUME UNCHANGED <<unhandled, overtaken>>, inOrder' => inOrder,
             \/ UNCHANGED <<session, teardown>>
             \/ teardown /\ ~teardown' /\ session' = NoConn
      PROVE  LineInv' /\ unhandled' \in Seq(Events)
  <2>1. Owner' = Owner
    BY <1>2 DEF Owner
  <2>2. SUFFICES ASSUME inOrder'
                 PROVE  LineInv'
    BY <1>2 DEF LineInv
  <2>3. /\ \A i \in DOMAIN unhandled : Message(unhandled[i]) => Reaches(unhandled, session, unhandled[i].of, i)
        /\ \A c \in Conns : Speaks(c) => Reaches(unhandled, session, c, Len(unhandled) + 1)
        /\ ~overtaken /\ ~SwitchInHand => Told(unhandled, Owner, attached)
    BY <1>0, <1>2, <2>2 DEF LineInv
  <2>4. \A c, i : Reaches(unhandled, session, c, i) => Reaches(unhandled, session', c, i)
    <3>1. CASE UNCHANGED session
      BY <3>1
    <3>2. CASE session' = NoConn
      BY <3>2 DEF Reaches
    <3> QED
      BY <1>2, <3>1, <3>2
  <2>5. \A i \in DOMAIN unhandled' : Message(unhandled'[i]) => Reaches(unhandled', session', unhandled'[i].of, i)
    BY <1>2, <2>3, <2>4
  <2>6. \A c \in Conns : Speaks(c)' => Reaches(unhandled', session', c, Len(unhandled') + 1)
    BY <1>1, <1>2, <2>3, <2>4
  <2>7. ~overtaken' /\ ~SwitchInHand' => Told(unhandled', Owner', attached')
    BY <1>0, <1>1, <1>2, <2>1, <2>3
  <2> QED
    BY <2>5, <2>6, <2>7 DEF LineInv
<1>3. CASE DrainIncoming \/ HitBreakpoint \/ PauseDrains \/ EndPause \/ EndDrain
  BY <1>2, <1>3 DEF DrainIncoming, HitBreakpoint, PauseDrains, EndPause, EndDrain, TeardownSession, orderVars
<1>4. CASE EndEvaluation
  <2>1. /\ UNCHANGED <<overtaken, session, teardown>> /\ (inOrder' => inOrder)
        /\ unhandled' = IF inOrder' THEN unhandled ELSE <<>>
    BY <1>4 DEF EndEvaluation, GivenUp
  <2>2. CASE inOrder'
    BY <1>2, <2>1, <2>2
  <2>3. CASE ~inOrder'
    BY <1>e, <2>1, <2>3 DEF LineInv
  <2> QED
    BY <2>2, <2>3
<1>5. CASE ProcessEvent
  <2> DEFINE w == unhandled  e == Head(Top.batch)
  <2>1. /\ inOrder' => inOrder /\ w # <<>> /\ Head(w) = e
        /\ unhandled' = IF inOrder' THEN Tail(w) ELSE <<>>
        /\ UNCHANGED overtaken
    BY <1>5 DEF ProcessEvent, Handled
  <2>2. CASE ~inOrder'
    BY <1>e, <2>1, <2>2 DEF LineInv
  <2>3. CASE inOrder'
    <3>1. /\ \A i \in DOMAIN w : Message(w[i]) => Reaches(w, session, w[i].of, i)
          /\ \A c \in Conns : Speaks(c) => Reaches(w, session, c, Len(w) + 1)
          /\ ~overtaken /\ ~SwitchInHand => Told(w, Owner, attached)
          /\ w # <<>> /\ Head(w) = e /\ unhandled' = Tail(w) /\ w \in Seq(Events)
      BY <1>0, <2>1, <2>3 DEF LineInv
    <3>2. e \in Events
      BY <3>1
    <3>3. /\ IF e.kind = "Connected" THEN session' = e.of ELSE session' \in {session, NoConn}
          /\ IF Switches(e) THEN Owner' = Says(e) ELSE Owner' = Owner
      <4>1. CASE e.kind = "Connected"
        <5>1. Connect(e)
          BY <1>5, <4>1 DEF ProcessEvent
        <5> QED
          BY <4>1, <5>1 DEF Connect, TeardownSession, Owner, Switches, Says
      <4>2. CASE e.kind = "Disconnected"
        <5>1. Disconnect(e)
          BY <1>5, <4>2 DEF ProcessEvent
        <5> QED
          BY <4>2, <5>1 DEF Disconnect, TeardownSession, Owner, Switches, Says
      <4>3. CASE e.kind \in {"Evaluate", "Resume"}
        <5>1. Dispatch(e)
          BY <1>5, <4>3 DEF ProcessEvent
        <5> QED
          BY <4>3, <5>1 DEF Dispatch, Owner, Switches
      <4> QED
        BY <3>2, <4>1, <4>2, <4>3 DEF Events, EventKinds
    <3>4. /\ unhandled' \in Seq(Events) /\ Len(unhandled') + 1 = Len(w) /\ Len(w) \in Nat \ {0}
          /\ \A i \in 1..Len(unhandled') : unhandled'[i] = w[i + 1]
          /\ DOMAIN unhandled' = 1..Len(unhandled') /\ DOMAIN w = 1..Len(w)
      BY <3>1, LineShrinks
    <3>5. ASSUME NEW c, NEW i \in 2..(Len(w) + 1), Reaches(w, session, c, i), NEW k, k = i - 1
          PROVE  Reaches(unhandled', session', c, k)
      BY <3>1, <3>3, <3>5, LineShrinks
    <3>6. ASSUME NEW i \in DOMAIN unhandled', Message(unhandled'[i])
          PROVE  Reaches(unhandled', session', unhandled'[i].of, i)
      <4>1. PICK m, c : m = i + 1 /\ c = w[m].of
        OBVIOUS
      <4>2. m \in DOMAIN w /\ unhandled'[i] = w[m] /\ m \in 2..(Len(w) + 1) /\ i = m - 1
        BY <3>4, <3>6, <4>1
      <4>3. Reaches(w, session, c, m)
        BY <3>1, <3>6, <4>1, <4>2
      <4>4. Reaches(unhandled', session', c, i)
        BY <3>5, <4>2, <4>3
      <4> QED
        BY <4>1, <4>2, <4>4
    <3>7. ASSUME NEW c \in Conns, Speaks(c)'
          PROVE  Reaches(unhandled', session', c, Len(unhandled') + 1)
      <4>1. Reaches(w, session, c, Len(w) + 1) /\ Len(w) + 1 \in 2..(Len(w) + 1) /\ Len(w) + 1 - 1 = Len(unhandled') + 1
        BY <1>1, <3>1, <3>4, <3>7
      <4> QED
        BY <3>5, <4>1
    <3>8. ~overtaken' /\ ~SwitchInHand' => Told(unhandled', Owner', attached')
      <4>1. Told(w, Owner, attached) => Told(Tail(w), Owner', attached)
        BY <3>1, <3>3, LineShrinks
      <4> QED
        BY <1>0, <1>1, <2>1, <3>1, <4>1
    <3>9. LineInv'
      BY <3>6, <3>7, <3>8 DEF LineInv
    <3> QED
      BY <3>4, <3>9
  <2> QED
    BY <2>2, <2>3
<1> QED
  BY <1>3, <1>4, <1>5 DEF StackStep

LEMMA InspectorInvInit == InspectorInit => InspectorInv
<1> SUFFICES ASSUME InspectorInit
             PROVE  InspectorInv
  OBVIOUS
<1> USE DEF InspectorInit
<1>0. stack = <<>> /\ queue = <<>> /\ DOMAIN stack = {} /\ unhandled = <<>> /\ DOMAIN unhandled = {} /\ Len(unhandled) = 0
  OBVIOUS
<1>1. NoPush \in Pushed /\ NoPush.step = "None"
  BY DEF Pushed, NoPush
<1>2. InspectorTypeOK
  <2>1. queue \in Seq(Events) /\ stack \in Seq(Places) /\ unhandled \in Seq(Events)
    BY <1>0
  <2>2. pushing \in [Pushers -> Pushed]
    BY <1>1
  <2>3. conn \in [Conns -> {"New", "Open", "Gone"}]
    OBVIOUS
  <2> QED
    BY <2>1, <2>2, <2>3 DEF InspectorTypeOK
<1>3. StackInv /\ NothingUnseen
  BY <1>0 DEF StackInv, NothingUnseen
<1>4. HandInv
  BY <1>1 DEF HandInv, InHand, HasNews
<1>5. LineInv
  <2>1. \A c \in Conns : ~Speaks(c)
    BY <1>1, InspectorAssumption DEF Speaks, InHand, Pushers
  <2>2. Told(<<>>, NoConn, NoConn)
    <3>1. 0 \in 0..Len(<<>>) /\ (0 + 1)..Len(<<>>) = {}
      OBVIOUS
    <3> QED
      BY <3>1 DEF Told
  <2>3. Owner = NoConn
    BY DEF Owner
  <2> QED
    BY <1>0, <2>1, <2>2, <2>3 DEF LineInv
<1> QED
  BY <1>2, <1>3, <1>4, <1>5 DEF InspectorInv

LEMMA InspectorInvStep ==
  ASSUME InspectorInv, [InspectorNext]_inspectorVars
  PROVE  InspectorInv'
<1> USE DEF InspectorInv
<1>1. CASE UNCHANGED inspectorVars
  <2>1. UNCHANGED <<serving, attached, conn, pushing, queue, pending, stack, quitPause, teardown, session, alive,
                    unhandled, inOrder, overtaken>>
    BY <1>1 DEF inspectorVars, serverVars, queueVars, scriptVars, orderVars
  <2>2. InspectorTypeOK' /\ StackInv' /\ NothingUnseen' /\ HandInv'
    BY <2>1 DEF InspectorTypeOK, StackInv, NothingUnseen, HandInv, InHand, HasNews
  <2>3. LineInv'
    <3>1. (SwitchInHand' <=> SwitchInHand) /\ (\A c \in Conns : Speaks(c)' <=> Speaks(c)) /\ Owner' = Owner
      BY <2>1 DEF SwitchInHand, Speaks, InHand, Owner
    <3> QED
      BY <2>1, <3>1 DEF LineInv
  <2> QED
    BY <2>2, <2>3
<1>2. CASE ServerStep
  <2>1. UNCHANGED <<stack, alive>>
    BY <1>2 DEF ServerStep, OnClientConnected, OnClientMessage, OnClientClosed, StopServer, StartServer,
                Enqueue, Announce, scriptVars
  <2>2. StackInv'
    BY <2>1 DEF StackInv
  <2> QED
    BY <1>2, <2>2, ServerStepTyped, ServerStepUnseen, ServerStepHands, ServerStepLine
<1>3. CASE StackStep
  <2>1. /\ alive /\ UNCHANGED <<serverVars, pushing, alive>>
        /\ WellFormed(stack') /\ quitPause' \in BOOLEAN /\ teardown' \in BOOLEAN
        /\ UNCHANGED queueVars \/ DrainAll
    BY <1>3, StackStepFacts
  <2>2. queue' = <<>> \/ (queue' = queue /\ pending' = pending)
    BY <2>1 DEF DrainAll, queueVars
  <2>3. LineInv' /\ unhandled' \in Seq(Events)
    BY <1>3, StackStepLine
  <2>4. InspectorTypeOK'
    <3>0. <<>> \in Seq(Events) /\ queue \in Seq(Events)
      BY DEF InspectorTypeOK
    <3>1. queue' \in Seq(Events)
      BY <2>2, <3>0
    <3>2. stack' \in Seq(Places)
      BY <2>1 DEF WellFormed
    <3>3. UNCHANGED <<attached, conn, pushing, alive>>
      BY <2>1 DEF serverVars
    <3> QED
      BY <2>1, <2>3, <3>1, <3>2, <3>3 DEF InspectorTypeOK
  <2>5. StackInv'
    BY <2>1 DEF StackInv, WellFormed
  <2>6. NothingUnseen'
    BY <2>1, <2>2 DEF NothingUnseen
  <2>7. HandInv'
    BY <2>1 DEF HandInv, InHand, HasNews, serverVars
  <2> QED
    BY <2>3, <2>4, <2>5, <2>6, <2>7
<1>4. CASE StopScript
  <2>1. UNCHANGED <<serving, attached, conn, pushing, queue, pending, stack, quitPause, teardown, session, alive,
                    unhandled, inOrder, overtaken>>
    BY <1>4 DEF StopScript, serverVars, queueVars, scriptVars, orderVars
  <2>2. InspectorTypeOK' /\ StackInv' /\ NothingUnseen' /\ HandInv'
    BY <2>1 DEF InspectorTypeOK, StackInv, NothingUnseen, HandInv, InHand, HasNews
  <2>3. LineInv'
    <3>1. (SwitchInHand' <=> SwitchInHand) /\ (\A c \in Conns : Speaks(c)' <=> Speaks(c)) /\ Owner' = Owner
      BY <2>1 DEF SwitchInHand, Speaks, InHand, Owner
    <3> QED
      BY <2>1, <3>1 DEF LineInv
  <2> QED
    BY <2>2, <2>3
<1>5. CASE Destroy
  <2>1. /\ stack = <<>> /\ stack' = <<>> /\ alive' = FALSE /\ queue' = <<>> /\ teardown' = FALSE /\ unhandled' = <<>>
        /\ UNCHANGED <<serverVars, pushing, quitPause>>
    BY <1>5 DEF Destroy, TeardownSession
  <2>2. InspectorTypeOK'
    <3>1. queue' \in Seq(Events) /\ stack' \in Seq(Places) /\ unhandled' \in Seq(Events)
      BY <2>1
    <3>2. UNCHANGED <<attached, conn, pushing, quitPause>>
      BY <2>1 DEF serverVars
    <3> QED
      BY <2>1, <3>1, <3>2 DEF InspectorTypeOK
  <2>3. StackInv' /\ NothingUnseen'
    BY <2>1 DEF StackInv, NothingUnseen
  <2>4. HandInv'
    BY <2>1 DEF HandInv, InHand, HasNews, serverVars
  <2>5. LineInv'
    BY <2>1 DEF LineInv
  <2> QED
    BY <2>2, <2>3, <2>4, <2>5
<1> QED
  BY <1>1, <1>2, <1>3, <1>4, <1>5, InspectorStepKinds

LEMMA InspectorInvariant == InspectorSpec => []InspectorInv
<1>1. InspectorInit => InspectorInv
  BY InspectorInvInit
<1>2. InspectorInv /\ [InspectorNext]_inspectorVars => InspectorInv'
  BY InspectorInvStep
<1> QED
  BY <1>1, <1>2, PTL DEF InspectorSpec

(***************************************************************************)
(* InspectorTarget.h:54-58: in every state an event that waits is          *)
(* announced, or its push is about to, so that the flag the drains ask     *)
(* without the mutex misses none.                                          *)
(***************************************************************************)
THEOREM NothingUnseenHolds == InspectorSpec => []NothingUnseen
<1>1. InspectorInv => NothingUnseen
  BY DEF InspectorInv
<1> QED
  BY <1>1, InspectorInvariant, PTL

(***************************************************************************)
(* docs/inspector.md, Pausing and Lifecycle: as long as events are handled *)
(* in the order they were queued in, whatever the batches, no message      *)
(* comes to a session made for another client, be pushes overtaken or not; *)
(* and once all are handled the session is the attached client's, unless   *)
(* the last push was out of date; wherever pauses, evaluations and the     *)
(* stop of the server fall.                                                *)
(***************************************************************************)
THEOREM SessionIsTheClientsHolds == InspectorSpec => []SessionIsTheClients
<1>1. ASSUME InspectorInv
      PROVE  SessionIsTheClients
  <2>0. InspectorTypeOK /\ LineInv
    BY <1>1 DEF InspectorInv
  <2>1. ASSUME inOrder, alive, Message(Next_), unhandled # <<>>, Head(unhandled) = Next_
        PROVE  session \in {NoConn, Next_.of}
    <3>1. Len(unhandled) \in Nat \ {0} /\ 1 \in DOMAIN unhandled /\ unhandled[1] = Next_
      BY <2>0, <2>1 DEF InspectorTypeOK
    <3>2. Reaches(unhandled, session, Next_.of, 1)
      BY <2>0, <2>1, <3>1 DEF LineInv
    <3> QED
      BY <3>2 DEF Reaches
  <2>2. ASSUME inOrder, alive, unhandled = <<>>, ~SwitchInHand, ~overtaken, ~teardown
        PROVE  session = attached
    <3>1. Told(<<>>, Owner, attached)
      BY <2>0, <2>2 DEF LineInv
    <3>2. Owner = attached
      BY <3>1 DEF Told
    <3> QED
      BY <2>2, <3>2 DEF Owner
  <2> QED
    BY <2>1, <2>2 DEF SessionIsTheClients, Message
<1> QED
  BY <1>1, InspectorInvariant, PTL
=============================================================================
