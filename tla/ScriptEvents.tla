---------------------------- MODULE ScriptEvents ----------------------------
(***************************************************************************)
(* Events on their way from the game to the scripts: the dispatch          *)
(* (src/src/runtime/components/events/EventDispatch.cpp), the handlers and *)
(* the posting of a Script (components/script/Script.cpp), the listener    *)
(* counts that let a dispatch be skipped, and the votes of a blockable     *)
(* event (BlockableEvent.h).                                               *)
(*                                                                         *)
(* The threads that dispatch are the game's (Hooks) and, for a broadcast,  *)
(* a script's own, which runs its own handlers in place.  A dispatch goes  *)
(* through the scripts in the order of their paths; between any two of its *)
(* steps, and between the two steps of a change of handlers, every other   *)
(* thread may run.  eventFunctionsMutex_ is held over such a change: only  *)
(* the listener counts are read without it.                                *)
(*                                                                         *)
(* A registration is <<script, name, i>>: which JavaScript function it     *)
(* holds is not told apart.  The task queue is V8's foreground task runner *)
(* (external): first in, first out, and emptied when the isolate goes.     *)
(* The script's own pump, its timers and its pauses are ScriptPump's       *)
(* subject.                                                                *)
(***************************************************************************)
EXTENDS Integers, Sequences, FiniteSets, SequencesExt

CONSTANTS
  Order,        \* the scripts, sorted by path
  Names,        \* event names
  Blockers,     \* the names of blockable events
  Broadcasts,   \* pairs: the script broadcasts events of the name
  LongNames,    \* names longer than 64 characters
  Overflow,     \* the slot of the names that have none of their own
  NoSlot,       \* a dispatcher that has not looked its slot up
  MaxSlots,     \* listener counts with a name
  Interests,    \* bound, pairs: the script listens to the name
  Pausers,      \* bound: the scripts that are paused
  Hooks,        \* the game's threads that dispatch
  Free,         \* a dispatcher's event while it has none
  MaxOfAName,   \* bound: events of one name that are ever dispatched
  MaxHandlers,  \* bound: registrations of one script for one name
  MaxNesting    \* bound: handlers inside of handlers (delay() in a handler)

Scripts == Range(Order)

Dispatchers == Hooks \union Scripts

Registrations == Scripts \X Names \X (1..MaxHandlers)

ASSUME EventsAssumption ==
  /\ Order \in Seq(Range(Order)) /\ IsInjective(Order)
  /\ Blockers \subseteq Names
  /\ Broadcasts \subseteq Scripts \X (Names \ Blockers)
  /\ Interests \subseteq Scripts \X Names
  /\ LongNames \subseteq Names
  /\ Overflow \notin Names /\ NoSlot \notin Names \union {Overflow}
  /\ Hooks \intersect Scripts = {}
  /\ Free \notin Nat
  /\ Pausers \subseteq Scripts
  /\ {MaxSlots, MaxOfAName, MaxHandlers, MaxNesting} \subseteq Nat

VARIABLES
  slots,        \* ListenerCount::For: the names with a count of their own
  count,        \* the listener counts
  looked,       \* the slot a dispatcher's FireIfListening keeps, for each name
  handlers,     \* Script::eventFunctions_ of all scripts
  inHand,       \* registrations whose change is half done: counted, not installed
  change,       \* what each script's thread is about to do with them
  state,        \* Script::state_
  phase,        \* where the script's thread is in its teardown
  queue,        \* the foreground tasks of each isolate
  running,      \* the events whose handlers each script is in, innermost last
  dispatch,     \* where each dispatcher is
  name,         \* the name of each event
  remaining,    \* BlockableEvent::remaining_
  promise,      \* BlockableEvent::promise_
  due           \* history: scripts that have listened since a dispatch began

registry == <<slots, count, looked, handlers, inHand, change>>
threads == <<state, phase>>
traffic == <<queue, running, dispatch, name, remaining, promise>>
eventsVars == <<registry, threads, traffic, due>>

Idle == [at |-> "Idle", event |-> Free, left |-> {}, served |-> {}]

EventsInit ==
  /\ slots = {}
  /\ count = [k \in Names \union {Overflow} |-> 0]
  /\ looked = [n \in Names |-> NoSlot]
  /\ handlers = {}
  /\ inHand = {}
  /\ change = [s \in Scripts |-> "None"]
  /\ state = [s \in Scripts |-> "Running"]
  /\ phase = [s \in Scripts |-> "Live"]
  /\ queue = [s \in Scripts |-> <<>>]
  /\ running = [s \in Scripts |-> <<>>]
  /\ dispatch = [d \in Dispatchers |-> Idle]
  /\ name = <<>>
  /\ remaining = <<>>
  /\ promise = <<>>
  /\ due = [d \in Dispatchers |-> {}]

-----------------------------------------------------------------------------
(* ListenerCount *)

(* (A full table is asked before the name is looked for.) *)
SlotForFullFirst(n) ==
  IF Cardinality(slots) >= MaxSlots \/ n \in LongNames THEN Overflow ELSE n

SlotFor(n) ==
  IF n \in slots \/ (Cardinality(slots) < MaxSlots /\ n \notin LongNames)
  THEN n ELSE Overflow

(* For(n) makes the slot it returns. *)
Resolve(n) == slots' = slots \union ({SlotFor(n)} \ {Overflow})

Of(s, n) == {h \in handlers : h[1] = s /\ h[2] = n}

Mine(s, set) == {h \in set : h[1] = s}

(* Script s can run JavaScript: it is not in the middle of a native call.  *)
InJavaScript(s) ==
  /\ phase[s] = "Live" /\ change[s] = "None"
  /\ dispatch[s].at \in {"Idle", "InPlace"}

(* eventFunctionsMutex_ of s is free. *)
Unlocked(s) == change[s] = "None"

(* RegisterEvent: counted, and then installed. *)
Register(s, n) ==
  /\ InJavaScript(s) /\ <<s, n>> \in Interests
  /\ \E i \in 1..MaxHandlers :
       /\ <<s, n, i>> \notin handlers
       /\ inHand' = inHand \union {<<s, n, i>>}
  /\ Resolve(n)
  /\ count' = [count EXCEPT ![SlotFor(n)] = @ + 1]
  /\ change' = [change EXCEPT ![s] = "Install"]
  /\ UNCHANGED <<looked, handlers, threads, traffic>>

Install(s) ==
  /\ change[s] = "Install"
  /\ handlers' = handlers \union Mine(s, inHand)
  /\ inHand' = inHand \ Mine(s, inHand)
  /\ change' = [change EXCEPT ![s] = "None"]
  /\ UNCHANGED <<slots, count, looked, threads, traffic>>

(* Registrations go, and then they are counted off. *)
TakeOut(s, gone) ==
  /\ handlers' = handlers \ gone
  /\ inHand' = inHand \union gone
  /\ change' = [change EXCEPT ![s] = "Count"]
  /\ UNCHANGED <<slots, count, looked>>

(* UnregisterEvent, whose function may be registered more than once, and   *)
(* ClearEvent, which takes all of them.                                    *)
Unregister(s, n) ==
  /\ InJavaScript(s)
  /\ \E gone \in SUBSET Of(s, n) : gone # {} /\ TakeOut(s, gone)
  /\ UNCHANGED <<threads, traffic>>

ClearAllEvents(s) ==
  /\ InJavaScript(s)
  /\ TakeOut(s, Mine(s, handlers))
  /\ UNCHANGED <<threads, traffic>>

(* The count of one name after the other; the mutex is let go at the end.  *)
CountOff(s) ==
  /\ change[s] = "Count"
  /\ \/ /\ Mine(s, inHand) = {}
        /\ change' = [change EXCEPT ![s] = "None"]
        /\ UNCHANGED <<slots, count, inHand>>
     \/ \E n \in {h[2] : h \in Mine(s, inHand)} :
          LET gone == {h \in Mine(s, inHand) : h[2] = n} IN
            /\ inHand' = inHand \ gone
            /\ Resolve(n)
            /\ count' = [count EXCEPT ![SlotFor(n)] = @ - Cardinality(gone)]
            /\ UNCHANGED change
  /\ UNCHANGED <<looked, handlers, threads, traffic>>

-----------------------------------------------------------------------------
(* BlockableEvent *)

Blockable(e) == name[e] \in Blockers

(* A vote comes in, or is called off: the last one answers. *)
Settle(e, blocks) ==
  IF Blockable(e)
  THEN /\ remaining' = [remaining EXCEPT ![e] = @ - 1]
       /\ promise' = [promise EXCEPT ![e] =
            IF @ # "Open" THEN @
            ELSE IF blocks THEN "Blocked"
            ELSE IF remaining[e] = 1 THEN "Passed" ELSE "Open"]
  ELSE UNCHANGED <<remaining, promise>>

-----------------------------------------------------------------------------
(* FireIfRunning *)

At(d, at) == dispatch[d].at = at

To(d, at) == dispatch' = [dispatch EXCEPT ![d].at = at]

(* Of a set of scripts, the first by path. *)
First(set) ==
  Order[CHOOSE i \in DOMAIN Order :
          Order[i] \in set /\ \A j \in 1..(i - 1) : Order[j] \notin set]

(* The script the loop is at. *)
Current(d) == First(dispatch[d].left)

Next_(d) == [dispatch[d] EXCEPT !.at = "State", !.left = @ \ {Current(d)}]

(* The snapshot of the map: scripts that have left it are not in. *)
Begin(d, n) ==
  /\ dispatch[d].at = "Idle"
  /\ Cardinality({e \in DOMAIN name : name[e] = n}) < MaxOfAName
  /\ name' = Append(name, n)
  /\ dispatch' = [dispatch EXCEPT ![d] =
       [at |-> "State", event |-> Len(name) + 1, served |-> {},
        left |-> {s \in Scripts : phase[s] = "Live"}]]
  /\ remaining' = Append(remaining, 0)
  /\ promise' = Append(promise, "Open")
  /\ UNCHANGED <<queue, running>>

(* FireIfListening.  The first dispatch of a name looks its slot up, even  *)
(* if nobody listens; it is kept.                                          *)
LookUp(d, n) ==
  /\ dispatch[d].at = "Idle" /\ \A s \in Scripts : <<s, n>> \notin Broadcasts
  /\ looked[n] = NoSlot
  /\ looked' = [looked EXCEPT ![n] = SlotFor(n)]
  /\ Resolve(n)
  /\ UNCHANGED <<count, handlers, inHand, change, threads, traffic>>

(* Its count is read without any mutex; at zero there is nothing to do.    *)
Fire(d, n) ==
  /\ looked[n] # NoSlot
  /\ count[looked[n]] > 0
  /\ Begin(d, n)
  /\ UNCHANGED <<registry, threads>>

(* ScriptBroadcastEventDispatch does not ask whether anybody listens. *)
Broadcast(s, n) ==
  /\ <<s, n>> \in Broadcasts
  /\ InJavaScript(s) /\ dispatch[s].at = "Idle"
  /\ Begin(s, n)
  /\ UNCHANGED <<registry, threads>>

(* GetState() == Running ... *)
AskState(d) ==
  /\ At(d, "State") /\ dispatch[d].left # {}
  /\ IF state[Current(d)] = "Running" THEN To(d, "Registered")
     ELSE dispatch' = [dispatch EXCEPT ![d] = Next_(d)]
  /\ UNCHANGED <<registry, threads, queue, running, name, remaining, promise>>

(* ... && IsEventRegistered(evt->Name()): then a vote is expected. *)
AskRegistered(d) ==
  /\ At(d, "Registered") /\ Unlocked(Current(d))
  /\ IF Of(Current(d), name[dispatch[d].event]) = {}
     THEN dispatch' = [dispatch EXCEPT ![d] = Next_(d)]
     ELSE To(d, IF Blockable(dispatch[d].event) THEN "Expect" ELSE "Isolate")
  /\ UNCHANGED <<registry, threads, queue, running, name, remaining, promise>>

IncrementExpected(d) ==
  /\ At(d, "Expect")
  /\ remaining' = [remaining EXCEPT ![dispatch[d].event] = @ + 1]
  /\ To(d, "Isolate")
  /\ UNCHANGED <<registry, threads, queue, running, name, promise>>

HasIsolate(s) == phase[s] \in {"Live", "Leaving"}

(* (A rejection that ends the loop.) *)
RejectAll(d) ==
  /\ Settle(dispatch[d].event, FALSE)
  /\ dispatch' = [dispatch EXCEPT ![d] = [@ EXCEPT !.at = "State", !.left = {}]]

(* The dispatch is rejected: the vote is called off, the next one asked.   *)
Reject(d) ==
  /\ Settle(dispatch[d].event, FALSE)
  /\ dispatch' = [dispatch EXCEPT ![d] = Next_(d)]

(* ExecuteEvent: the script's own thread runs its handlers in place, the   *)
(* others take a copy of the isolate's pointer ...                         *)
LoadIsolate(d) ==
  /\ At(d, "Isolate")
  /\ LET s == Current(d) IN
       IF d = s
       THEN /\ To(d, "InPlace")
            /\ running' = [running EXCEPT ![s] = Append(@, dispatch[d].event)]
            /\ UNCHANGED <<remaining, promise>>
       ELSE /\ IF HasIsolate(s) THEN To(d, "Alive") /\ UNCHANGED <<remaining, promise>>
               ELSE Reject(d)
            /\ UNCHANGED running
  /\ UNCHANGED <<registry, threads, queue, name>>

(* ... ask whether the script is ending ... *)
AskAlive(d) ==
  /\ At(d, "Alive")
  /\ IF state[Current(d)] = "Stopping" THEN Reject(d)
     ELSE To(d, "Post") /\ UNCHANGED <<remaining, promise>>
  /\ UNCHANGED <<registry, threads, queue, running, name>>

(* ... post the task, and let the isolate go. *)
Post(d) ==
  /\ At(d, "Post")
  /\ queue' = [queue EXCEPT ![Current(d)] = Append(@, dispatch[d].event)]
  /\ dispatch' = [dispatch EXCEPT ![d] =
       [Next_(d) EXCEPT !.served = @ \union {Current(d)}]]
  /\ UNCHANGED <<registry, threads, running, name, remaining, promise>>

(* ResolveIfNoneExpected *)
EndDispatch(d) ==
  /\ At(d, "State") /\ dispatch[d].left = {}
  /\ dispatch' = [dispatch EXCEPT ![d] = Idle]
  /\ LET e == dispatch[d].event IN
       promise' = IF Blockable(e) /\ remaining[e] = 0 /\ promise[e] = "Open"
                  THEN [promise EXCEPT ![e] = "Passed"] ELSE promise
  /\ UNCHANGED <<registry, threads, queue, running, name, remaining>>

-----------------------------------------------------------------------------
(* The script's thread *)

(* PumpMessageLoop takes a task, and Execute calls the handlers that are   *)
(* installed now.                                                          *)
Execute(s) ==
  /\ InJavaScript(s) /\ queue[s] # <<>> /\ Len(running[s]) < MaxNesting
  /\ queue' = [queue EXCEPT ![s] = Tail(@)]
  /\ running' = [running EXCEPT ![s] = Append(@, Head(queue[s]))]
  /\ UNCHANGED <<registry, threads, dispatch, name, remaining, promise>>

(* Execute returns; without handlers, or terminated, nobody blocks.  With  *)
(* an event that ran in place, the script's own dispatch goes on.          *)
Return(s) ==
  /\ InJavaScript(s) /\ running[s] # <<>>
  /\ running' = [running EXCEPT ![s] = Front(@)]
  /\ \E blocks \in BOOLEAN : Settle(Last(running[s]), blocks)
  /\ IF dispatch[s].at = "InPlace" /\ dispatch[s].event = Last(running[s])
     THEN dispatch' = [dispatch EXCEPT ![s] = [Next_(s) EXCEPT !.served = @ \union {s}]]
     ELSE UNCHANGED dispatch
  /\ UNCHANGED <<registry, threads, queue, name>>

(* Pause, Resume and Stop, of any thread.  A script that has stopped is to *)
(* a dispatcher like one that is stopping.                                 *)
ChangeState(s) ==
  /\ state[s] # "Stopping"
  /\ \E to \in {"Running", "Paused", "Stopping"} \ {state[s]} :
       /\ to = "Paused" => s \in Pausers
       /\ state' = [state EXCEPT ![s] = to]
  /\ UNCHANGED <<registry, phase, traffic>>

(* RunScript returns, and the script leaves the map. *)
Leave(s) ==
  /\ InJavaScript(s) /\ running[s] = <<>> /\ dispatch[s].at = "Idle"
  /\ state' = [state EXCEPT ![s] = IF @ = "Running" THEN "Stopping" ELSE @]
  /\ phase' = [phase EXCEPT ![s] = "Leaving"]
  /\ UNCHANGED <<registry, traffic>>

(* TeardownIsolate: isolate_ is exchanged with null ... *)
Exchange(s) ==
  /\ phase[s] = "Leaving"
  /\ phase' = [phase EXCEPT ![s] = "Exchanged"]
  /\ UNCHANGED <<registry, state, traffic>>

(* ... and the handlers go (ClearEventFunctionsLocked). *)
ClearFunctions(s) ==
  /\ phase[s] = "Exchanged"
  /\ TakeOut(s, Mine(s, handlers))
  /\ phase' = [phase EXCEPT ![s] = "Cleared"]
  /\ UNCHANGED <<state, traffic>>

Holding(s) == {d \in Dispatchers :
  dispatch[d].at \in {"Alive", "Post"} /\ Current(d) = s}

(* (A task that is dropped without a word.) *)
DropTaskSilently(s) ==
  /\ phase[s] = "Cleared" /\ change[s] = "None" /\ Holding(s) = {}
  /\ queue[s] # <<>>
  /\ queue' = [queue EXCEPT ![s] = Tail(@)]
  /\ UNCHANGED <<registry, threads, running, dispatch, name, remaining, promise>>

(* The last copy of the isolate's pointer goes, and NotifyIsolateShutdown  *)
(* drops the tasks: each calls its vote off.                               *)
DropTask(s) ==
  /\ phase[s] = "Cleared" /\ change[s] = "None" /\ Holding(s) = {}
  /\ queue[s] # <<>>
  /\ queue' = [queue EXCEPT ![s] = Tail(@)]
  /\ Settle(Head(queue[s]), FALSE)
  /\ UNCHANGED <<registry, threads, running, dispatch, name>>

-----------------------------------------------------------------------------
(* Who listened when a dispatch began, and has ever since. *)
Watch ==
  due' = [d \in Dispatchers |->
    LET e == dispatch'[d].event IN
      IF e = Free THEN {}
      ELSE {s \in (IF dispatch[d].event = Free THEN Scripts ELSE due[d]) :
             /\ phase'[s] = "Live" /\ state'[s] = "Running"
             /\ \E h \in handlers' : h[1] = s /\ h[2] = name'[e]}]

ScriptStep(s) ==
  \/ Install(s)
  \/ CountOff(s)
  \/ Return(s)
  \/ Leave(s)
  \/ Exchange(s)
  \/ ClearFunctions(s)
  \/ DropTask(s)

DispatchStep(d) ==
  \/ AskState(d)
  \/ AskRegistered(d)
  \/ IncrementExpected(d)
  \/ LoadIsolate(d)
  \/ AskAlive(d)
  \/ Post(d)
  \/ EndDispatch(d)

EventsNext ==
  /\ \/ \E s \in Scripts :
          \/ \E n \in Names : Register(s, n) \/ Unregister(s, n) \/ Broadcast(s, n)
          \/ ClearAllEvents(s)
          \/ Execute(s)
          \/ ChangeState(s)
          \/ ScriptStep(s)
     \/ \E d \in Hooks, n \in Names : LookUp(d, n) \/ Fire(d, n)
     \/ \E d \in Dispatchers : DispatchStep(d)
  /\ Watch

EventsSpec == EventsInit /\ [][EventsNext]_eventsVars

-----------------------------------------------------------------------------
(* Registrations whose names share a slot. *)
SlotOf(n) == IF n \in slots THEN n ELSE Overflow

(***************************************************************************)
(* Script.cpp:803 and :849 (Add before the insert, remove before the       *)
(* decrement), EventDispatch.cpp:30 (a name always resolves to the same    *)
(* slot): at every moment a listener count is the number of registrations  *)
(* that are installed or half changed and share its slot, so that a        *)
(* dispatcher that reads zero misses nobody and no count is left over.     *)
(***************************************************************************)
CountIsExact ==
  \A k \in Names \union {Overflow} :
    count[k] = Cardinality({h \in handlers \union inHand : SlotOf(h[2]) = k})

(***************************************************************************)
(* EventDispatch.cpp:54: whatever stops, pauses, unregisters or is torn    *)
(* down meanwhile, an event reaches every script that was running and      *)
(* listening from the beginning of its dispatch to the end.                *)
(***************************************************************************)
EveryListenerServed ==
  \A d \in Dispatchers :
    LET here == dispatch[d] IN
      due[d] \ here.left \subseteq here.served

(* The scripts that still owe event e a vote. *)
Owing(e) ==
  {s \in Scripts :
     \/ e \in Range(queue[s])
     \/ e \in Range(running[s])
     \/ \E d \in Dispatchers :
          /\ dispatch[d].event = e /\ dispatch[d].at \in {"Isolate", "Alive", "Post"}
          /\ Current(d) = s}

(***************************************************************************)
(* BlockableEvent.h:34-55, 80 and Script.cpp:1033: every vote is expected  *)
(* until the script's handlers have run, its post was rejected, or its     *)
(* isolate dropped the task, and then exactly once; when none is left the  *)
(* dispatcher has its answer.                                              *)
(***************************************************************************)
VotesAccounted ==
  \A e \in DOMAIN name :
    Blockable(e) =>
      /\ remaining[e] = Cardinality(Owing(e))
      /\ Owing(e) = {} /\ (\A d \in Dispatchers : dispatch[d].event # e)
           => promise[e] # "Open"
=============================================================================
