------------------------------ MODULE Inspector ------------------------------
(***************************************************************************)
(* The debugger of one script: the server's connections                    *)
(* (src/src/runtime/components/inspector/InspectorServer.cpp), the queue   *)
(* they push to (InspectorTarget.cpp), and the script's thread that drains *)
(* it while it runs, while it evaluates for the debugger and while it is   *)
(* paused (ScriptInspector.cpp).                                           *)
(*                                                                         *)
(* The script's thread has a stack of what it is inside of: a Drain (a     *)
(* batch of events taken from the queue), an Evaluation that an event of   *)
(* a batch started, or a Pause.  JavaScript runs below the stack and in an *)
(* evaluation: there it may hit a breakpoint, call delay() or meet the     *)
(* interrupt, and both of these drain.                                     *)
(*                                                                         *)
(* V8 (external): a breakpoint pauses only with a session; a resume that   *)
(* comes while paused calls quitMessageLoopOnPause; TerminateExecution     *)
(* ends JavaScript.  Each connection has a thread of the server's.  The    *)
(* game locks that a pause hands back are GameLock's subject.              *)
(***************************************************************************)
EXTENDS Naturals, Sequences, FiniteSets, SequencesExt

CONSTANTS
  Conns,       \* the connections of debugger clients, each used once
  UI,          \* the thread that switches the server off and on
  NoConn,      \* no client, no session
  MaxMessages, \* bound: messages of all clients
  MaxQueue,    \* bound: events that wait when another one is pushed
  MaxDepth     \* bound: what the script's thread is inside of at once

ASSUME InspectorAssumption ==
  /\ UI \notin Conns /\ NoConn \notin Conns
  /\ {MaxMessages, MaxQueue, MaxDepth} \subseteq Nat

VARIABLES
  serving,     \* InspectorServer::server_
  attached,    \* connToTarget_ and targetToConn_: the client of the target
  conn,        \* the life of each connection
  pushing,     \* the event each thread is about to push, and its step
  queue,       \* InspectorTarget::queue_
  pending,     \* InspectorTarget::interruptScheduled_
  sent,        \* messages so far
  stack,       \* what the script's thread is inside of, innermost last
  quitPause,   \* ScriptInspector::quitPause_
  teardown,    \* ScriptInspector::sessionTeardownPending_
  session,     \* ScriptInspector::session_: the client it was made for
  stopAsked,   \* the script was asked to stop
  alive,       \* the script has its inspector, and the server its target
  (* History, which no step reads: *)
  unhandled,   \* the events that were queued and are not handled, in order
  inOrder,     \* whether all were handled in that order, and none given up
  overtaken    \* whether the last one queued on who is attached was out of date

serverVars == <<serving, attached, conn>>
queueVars == <<queue, pending>>
scriptVars == <<stack, quitPause, teardown, session>>
orderVars == <<unhandled, inOrder, overtaken>>
inspectorVars ==
  <<serverVars, pushing, queueVars, sent, scriptVars, stopAsked, alive, orderVars>>

Pushers == Conns \union {UI}

NoPush == [step |-> "None", kind |-> "None", of |-> NoConn]

Event(kind, c) == [kind |-> kind, of |-> c]

InspectorInit ==
  /\ serving = TRUE /\ attached = NoConn
  /\ conn = [c \in Conns |-> "New"]
  /\ pushing = [p \in Pushers |-> NoPush]
  /\ queue = <<>> /\ pending = FALSE /\ sent = 0
  /\ stack = <<>> /\ quitPause = FALSE /\ teardown = FALSE
  /\ session = NoConn /\ stopAsked = FALSE /\ alive = TRUE
  /\ unhandled = <<>> /\ inOrder = TRUE /\ overtaken = FALSE

MayPush(p) == pushing[p].step = "None" /\ Len(queue) < MaxQueue

Pushes(p, kind) ==
  pushing' = [pushing EXCEPT ![p] = [step |-> "Enqueue", kind |-> kind, of |-> p]]

-----------------------------------------------------------------------------
(* InspectorServer: what is decided under its mutex, then the push. *)

(* An unknown target, or a second client, is turned away. *)
OnClientConnected(c) ==
  /\ serving /\ conn[c] = "New" /\ MayPush(c)
  /\ IF alive /\ attached = NoConn
     THEN /\ attached' = c /\ conn' = [conn EXCEPT ![c] = "Open"]
          /\ Pushes(c, "Connected")
     ELSE /\ conn' = [conn EXCEPT ![c] = "Gone"] /\ UNCHANGED <<attached, pushing>>
  /\ UNCHANGED <<serving, queueVars, sent, scriptVars, stopAsked, alive, orderVars>>

OnClientMessage(c) ==
  /\ conn[c] = "Open" /\ MayPush(c) /\ sent < MaxMessages
  /\ sent' = sent + 1
  /\ IF attached = c /\ alive
     THEN \E kind \in {"Evaluate", "Resume"} : Pushes(c, kind)
     ELSE UNCHANGED pushing
  /\ UNCHANGED <<serverVars, queueVars, scriptVars, stopAsked, alive, orderVars>>

(* The client leaves, or the server is gone or closed its socket. *)
OnClientClosed(c) ==
  /\ conn[c] = "Open" /\ MayPush(c)
  /\ conn' = [conn EXCEPT ![c] = "Gone"]
  /\ IF attached = c
     THEN /\ attached' = NoConn
          /\ IF alive THEN Pushes(c, "Disconnected") ELSE UNCHANGED pushing
     ELSE UNCHANGED <<attached, pushing>>
  /\ UNCHANGED <<serving, queueVars, sent, scriptVars, stopAsked, alive, orderVars>>

(* Stop: connections are forgotten, targets stay, and all are told. *)
StopServer ==
  /\ serving /\ MayPush(UI)
  /\ serving' = FALSE /\ attached' = NoConn
  /\ IF alive THEN Pushes(UI, "Disconnected") ELSE UNCHANGED pushing
  /\ UNCHANGED <<conn, queueVars, sent, scriptVars, stopAsked, alive, orderVars>>

(* Start, after Stop has joined the connections' threads. *)
StartServer ==
  /\ ~serving /\ \A p \in Pushers : pushing[p].step = "None"
  /\ \A c \in Conns : conn[c] # "Open"
  /\ serving' = TRUE
  /\ UNCHANGED <<attached, conn, pushing, queueVars, sent, scriptVars, stopAsked, alive, orderVars>>

(* Whom an event makes the client of the script, and which ones do. *)
Says(e) == IF e.kind = "Connected" THEN e.of ELSE NoConn

Switches(e) == e.kind \in {"Connected", "Disconnected"}

(* The history of an event that is queued. *)
Queued(e) ==
  /\ unhandled' = IF alive /\ inOrder THEN Append(unhandled, e) ELSE unhandled
  /\ overtaken' = IF Switches(e) THEN Says(e) # attached ELSE overtaken
  /\ UNCHANGED inOrder

(* InspectorTarget::Push: enqueued under the mutex, *)
Enqueue(p) ==
  /\ pushing[p].step = "Enqueue"
  /\ queue' = IF alive THEN Append(queue, Event(pushing[p].kind, pushing[p].of)) ELSE <<>>
  /\ pushing' = [pushing EXCEPT ![p].step = "Flag"]
  /\ Queued(Event(pushing[p].kind, pushing[p].of))
  /\ UNCHANGED <<serverVars, pending, sent, scriptVars, stopAsked, alive>>

(* and announced: the first announcement requests the interrupt. *)
Announce(p) ==
  /\ pushing[p].step = "Flag"
  /\ pending' = (pending \/ alive)
  /\ pushing' = [pushing EXCEPT ![p] = NoPush]
  /\ UNCHANGED <<serverVars, queue, sent, scriptVars, stopAsked, alive, orderVars>>

-----------------------------------------------------------------------------
(* The script's thread *)

Top == Last(stack)

TopIs(kind) == stack # <<>> /\ Top.kind = kind

InJavaScript == alive /\ (stack # <<>> => Top.kind = "Evaluation")

InPause == \E i \in DOMAIN stack : stack[i].kind = "Pause"

Nested(kind, batch) == [kind |-> kind, batch |-> batch,
                         outerQuit |-> kind = "Pause" /\ quitPause]

LeaveInner == stack' = Front(stack)

WithBatch(batch) == [stack EXCEPT ![Len(stack)].batch = batch]

(* (A drain that takes one event at a time.) *)
DrainOne == pending /\ queue' = SubSeq(queue, 2, Len(queue)) /\ pending' = FALSE

(* DrainAll takes what is there, unless the flag says that nothing is.     *)
DrainAll == pending /\ queue' = <<>> /\ pending' = FALSE

(* DrainIncoming, from delay() or from the interrupt. *)
DrainIncoming ==
  /\ InJavaScript /\ Len(stack) < MaxDepth
  /\ \/ DrainAll /\ stack' = Append(stack, Nested("Drain", queue))
     \/ /\ ~pending /\ teardown
        /\ stack' = Append(stack, Nested("Drain", <<>>))
        /\ UNCHANGED queueVars
  /\ UNCHANGED <<serverVars, pushing, sent, quitPause, teardown, session,
                 stopAsked, alive, orderVars>>

(* The history of an event that is handled, and of a batch given up. *)
Handled(e, givenUp) ==
  /\ inOrder' = (inOrder /\ givenUp = <<>> /\ unhandled # <<>> /\ Head(unhandled) = e)
  /\ unhandled' = IF inOrder' THEN Tail(unhandled) ELSE <<>>
  /\ UNCHANGED overtaken

GivenUp(batch) ==
  /\ inOrder' = (inOrder /\ batch = <<>>)
  /\ unhandled' = IF inOrder' THEN unhandled ELSE <<>>
  /\ UNCHANGED overtaken

(* TeardownSession, and the session that takes its place. *)
TeardownSession(next) == teardown' = FALSE /\ session' = next

(* (A session kept for whoever comes next.) *)
ConnectKept(e) ==
  /\ session' = IF session = NoConn THEN e.of ELSE session
  /\ UNCHANGED <<quitPause, teardown>>

(* ProcessEvent: Connected, *)
Connect(e) ==
  /\ TeardownSession(e.of)
  /\ UNCHANGED quitPause

(* a message, which may resume, *)
Dispatch(e) ==
  /\ quitPause' = (quitPause \/ (e.kind = "Resume" /\ session # NoConn /\ InPause))
  /\ UNCHANGED <<session, teardown>>

(* (Disconnected at once.) *)
DisconnectAtOnce(e) ==
  /\ TeardownSession(NoConn)
  /\ UNCHANGED quitPause

(* Disconnected: inside of a pause, later. *)
Disconnect(e) ==
  /\ IF InPause THEN teardown' = TRUE /\ UNCHANGED session
     ELSE TeardownSession(NoConn)
  /\ UNCHANGED quitPause

(* The next event of the innermost batch.  A pause gives up the rest of    *)
(* its batch once it is over.                                              *)
ProcessEvent ==
  /\ stack # <<>> /\ Top.batch # <<>>
  /\ LET e == Head(Top.batch)
         evaluates == e.kind = "Evaluate" /\ session # NoConn /\ Len(stack) < MaxDepth
     IN
       /\ CASE e.kind = "Connected" -> Connect(e)
            [] e.kind = "Disconnected" -> Disconnect(e)
            [] OTHER -> Dispatch(e)
       /\ LET over == Top.kind = "Pause" /\ (quitPause' \/ teardown')
              rest == IF over THEN <<>> ELSE Tail(Top.batch)
          IN /\ stack' = IF evaluates
                         THEN Append(WithBatch(rest), Nested("Evaluation", <<>>))
                         ELSE WithBatch(rest)
             /\ Handled(e, IF over THEN Tail(Top.batch) ELSE <<>>)
  /\ UNCHANGED <<serverVars, pushing, queueVars, sent, stopAsked, alive>>

(* The end of DrainQueued: a teardown that waited for the pauses to end.   *)
EndDrain ==
  /\ TopIs("Drain") /\ Top.batch = <<>>
  /\ LeaveInner
  /\ IF teardown /\ ~InPause
     THEN TeardownSession(NoConn)
     ELSE UNCHANGED <<teardown, session>>
  /\ UNCHANGED <<serverVars, pushing, queueVars, sent, quitPause, stopAsked, alive, orderVars>>

(* The evaluated JavaScript ends.  (A pause that ended meanwhile has no    *)
(* use for the rest of the batch it came from.)                            *)
EndEvaluation ==
  /\ TopIs("Evaluation")
  /\ LET below == Front(stack)
         over == below[Len(below)].kind = "Pause" /\ (quitPause \/ teardown)
     IN
       /\ stack' = IF over THEN [below EXCEPT ![Len(below)].batch = <<>>] ELSE below
       /\ GivenUp(IF over THEN below[Len(below)].batch ELSE <<>>)
  /\ UNCHANGED <<serverVars, pushing, queueVars, sent, quitPause, teardown,
                 session, stopAsked, alive>>

(* runMessageLoopOnPause *)
HitBreakpoint ==
  /\ InJavaScript /\ session # NoConn /\ ~stopAsked /\ Len(stack) < MaxDepth
  /\ stack' = Append(stack, Nested("Pause", <<>>))
  /\ quitPause' = FALSE
  /\ UNCHANGED <<serverVars, pushing, queueVars, sent, teardown, session,
                 stopAsked, alive, orderVars>>

PauseOver == quitPause \/ teardown \/ stopAsked

PauseDrains ==
  /\ TopIs("Pause") /\ Top.batch = <<>> /\ ~PauseOver
  /\ DrainAll
  /\ stack' = WithBatch(queue)
  /\ UNCHANGED <<serverVars, pushing, sent, quitPause, teardown, session,
                 stopAsked, alive, orderVars>>

EndPause ==
  /\ TopIs("Pause") /\ Top.batch = <<>> /\ PauseOver
  /\ LeaveInner
  /\ quitPause' = Top.outerQuit
  /\ UNCHANGED <<serverVars, pushing, queueVars, sent, teardown, session,
                 stopAsked, alive, orderVars>>

(* Script::Stop, and the destructor of ScriptInspector after the script.   *)
(* What its target was sent is nobody's then.                              *)
StopScript ==
  /\ ~stopAsked /\ stopAsked' = TRUE
  /\ UNCHANGED <<serverVars, pushing, queueVars, sent, scriptVars, alive, orderVars>>

Destroy ==
  /\ stopAsked /\ stack = <<>> /\ alive
  /\ alive' = FALSE /\ TeardownSession(NoConn)
  /\ queue' = <<>> /\ pending' = FALSE /\ unhandled' = <<>>
  /\ UNCHANGED <<serverVars, pushing, sent, stack, quitPause, stopAsked, inOrder, overtaken>>

ThreadStep ==
  \/ DrainIncoming
  \/ ProcessEvent
  \/ EndDrain
  \/ PauseDrains
  \/ EndPause

InspectorNext ==
  \/ \E c \in Conns :
       \/ OnClientConnected(c)
       \/ OnClientMessage(c)
       \/ OnClientClosed(c)
  \/ StopServer
  \/ StartServer
  \/ \E p \in Pushers : Enqueue(p) \/ Announce(p)
  \/ HitBreakpoint
  \/ EndEvaluation
  \/ ThreadStep
  \/ StopScript
  \/ Destroy

(* Pushes go on; the loops do, and the interrupt comes; what is evaluated  *)
(* for a debugger ends, whatever it drains in between.                     *)
InspectorFairness ==
  /\ \A p \in Pushers : WF_inspectorVars(Enqueue(p) \/ Announce(p))
  /\ WF_inspectorVars(ThreadStep)
  /\ SF_inspectorVars(EndEvaluation)

InspectorSpec == InspectorInit /\ [][InspectorNext]_inspectorVars /\ InspectorFairness

-----------------------------------------------------------------------------
(***************************************************************************)
(* InspectorTarget.h:54-58: the flag that a drain asks without the mutex   *)
(* misses no event: one that waits is announced, or its push is about to.  *)
(***************************************************************************)
NothingUnseen ==
  queue # <<>> /\ alive =>
    pending \/ \E p \in Pushers : pushing[p].step = "Flag"

(* The event that is next. *)
Next_ == IF stack = <<>> \/ Top.batch = <<>> THEN Event("None", NoConn) ELSE Head(Top.batch)

(* A push that says who is attached is decided and not queued yet. *)
SwitchInHand == \E p \in Pushers : pushing[p].step = "Enqueue" /\ Switches(pushing[p])

(***************************************************************************)
(* docs/inspector.md, Pausing and Lifecycle, as long as events are handled *)
(* in the order they were queued in, in whatever batches, and none is      *)
(* given up with its batch (see inOrder): no message comes to a session    *)
(* that was made for another client, even where a push was overtaken; and  *)
(* once all are handled, no teardown waits for a pause to end and the last *)
(* one was not out of date when it was queued (see overtaken), the session *)
(* is the attached client's, or there is neither.                          *)
(***************************************************************************)
SessionIsTheClients ==
  inOrder /\ alive =>
    /\ Next_.kind \in {"Evaluate", "Resume"} /\ unhandled # <<>> /\ Head(unhandled) = Next_ =>
         session \in {NoConn, Next_.of}
    /\ unhandled = <<>> /\ ~SwitchInHand /\ ~overtaken /\ ~teardown => session = attached

(***************************************************************************)
(* docs/inspector.md, Pausing: a pause does not last when the script is    *)
(* stopped; nor, as long as events are handled in order, none waits for an *)
(* evaluation to end and the last one on who is attached was not out of    *)
(* date, when its client disconnects or the server is stopped: no script   *)
(* blocks on a transport that is gone.                                     *)
(***************************************************************************)
NoneBelow == \A i \in DOMAIN stack : i < Len(stack) => stack[i].batch = <<>>

PausedForNobody ==
  InPause /\ (stopAsked \/ (attached = NoConn /\ inOrder /\ NoneBelow /\ ~overtaken))

PauseEnds == []<>~PausedForNobody

(***************************************************************************)
(* docs/inspector.md, Pausing: a client that disconnects while paused is   *)
(* handled by resuming first, for V8 forbids destroying a session inside   *)
(* the nested run loop.                                                    *)
(***************************************************************************)
TornDownOutsidePause ==
  [][InPause /\ InPause' => session \in {NoConn, session'}]_inspectorVars
=============================================================================
