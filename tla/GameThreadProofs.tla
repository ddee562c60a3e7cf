-------------------------- MODULE GameThreadProofs --------------------------
(***************************************************************************)
(* The queue of the game thread for any set of threads and any bounds:     *)
(* types, the life of a callable, the outcome of a call, and the order.    *)
(***************************************************************************)
EXTENDS GameThread, GameLockProofs

(* Everything that has been queued and has not ended, the oldest first. *)
Waiting == batch \o queue

CallTypes ==
  /\ queue \in Seq(Tasks) /\ batch \in Seq(Tasks)
  /\ drained \in BOOLEAN /\ executing \in BOOLEAN
  /\ state \in [Calls -> CallStates]
  /\ ran \in SUBSET Tasks
  /\ issued \in [Threads -> 0..MaxOwnTasks]
  /\ at \in [Threads -> Places]
  /\ stopRequested \in [Threads -> BOOLEAN]
  /\ cancelling \in [Threads -> BOOLEAN]
  /\ registered \in [Threads -> BOOLEAN]
  /\ \A t \in Threads :
       registered[t] <=> t # Game /\ at[t] \in {"Push", "HandBack", "Wait", "Restore"}
  /\ joining \in Scripts \union {NoThread}

(* A batch exists in a drain only, and the game thread waits, if ever,     *)
(* inside a callable.                                                      *)
DrainInv ==
  /\ executing => batch # <<>>
  /\ batch # <<>> => drained /\ Draining
  /\ at[Game] \in {"Script", "Wait"}
  /\ at[Game] = "Wait" => executing

(* A thread inside Execute has issued a call. *)
CallerInv ==
  \A t \in Threads :
    /\ at[t] \notin {"Script", "Ended"} => issued[t] > 0
    /\ cancelling[t] => registered[t]

CallTask(t, n) == [by |-> t, n |-> n, kind |-> "Call"]

(* An undecided call is the last one of its thread, which is inside        *)
(* Execute; one whose callable runs is waited for.                         *)
CallOutcome(t, n) ==
  /\ n > issued[t] => state[<<t, n>>] = "None"
  /\ state[<<t, n>>] = "Pending" =>
       n = issued[t] /\ at[t] \in {"Register", "Push", "HandBack", "Wait"}
  /\ state[<<t, n>>] = "Running" =>
       n = issued[t] /\ at[t] \in {"HandBack", "Wait"}
  /\ CallTask(t, n) \in ran <=> state[<<t, n>>] \in {"Running", "Done"}

OutcomeInv == \A t \in Threads, n \in 1..MaxOwnTasks : CallOutcome(t, n)

(* The callable the game thread is inside of is a running call's. *)
HeadInv ==
  executing /\ Head(batch).kind = "Call" =>
    state[<<Head(batch).by, Head(batch).n>>] = "Running"

(* What waits was issued, and its call is past the push: by what the       *)
(* threads have issued and where they are.                                 *)
Queued(task, count, place) ==
  /\ task.n <= count[task.by]
  /\ task.n = count[task.by] => place[task.by] \notin {"Register", "Push"}
  /\ task.by = Game => place[Game] = "Wait"

Before(task, other) == task.by = other.by => task.n < other.n

NotAfter(task, other) == task.by = other.by => task.n <= other.n

OrderInv ==
  /\ \A i \in 1..Len(Waiting) : Queued(Waiting[i], issued, at)
  /\ \A i, j \in 1..Len(Waiting) : i < j => Before(Waiting[i], Waiting[j])
  /\ \A task \in ran : task.n <= issued[task.by]
  /\ \A task \in ran : \A i \in 1..Len(Waiting) : NotAfter(task, Waiting[i])

CallInv == CallTypes /\ DrainInv /\ CallerInv /\ OutcomeInv /\ HeadInv /\ OrderInv

-----------------------------------------------------------------------------
(* What an action does to the tasks that wait. *)
LEMMA WaitingType == ASSUME CallTypes PROVE Waiting \in Seq(Tasks)
  BY DEF CallTypes, Waiting

LEMMA WaitingAppended ==
  ASSUME CallTypes, NEW task \in Tasks, Enqueue(task), UNCHANGED batch
  PROVE  /\ Len(Waiting') = Len(Waiting) + 1
         /\ Waiting'[Len(Waiting) + 1] = task
         /\ \A i \in 1..Len(Waiting) : Waiting'[i] = Waiting[i]
  BY DEF CallTypes, Waiting, Enqueue

LEMMA WaitingTaken ==
  ASSUME CallTypes, batch = <<>>, batch' = queue, queue' = <<>>
  PROVE  Waiting' = Waiting
  BY DEF CallTypes, Waiting

LEMMA WaitingShortened ==
  ASSUME CallTypes, batch # <<>>, batch' = Tail(batch), UNCHANGED queue
  PROVE  /\ Len(Waiting) = Len(Waiting') + 1
         /\ Waiting[1] = Head(batch)
         /\ \A i \in 1..Len(Waiting') : Waiting'[i] = Waiting[i + 1]
  BY DEF CallTypes, Waiting

LEMMA WaitingHead ==
  ASSUME CallTypes, batch # <<>>
  PROVE  /\ Len(Waiting) >= 1
         /\ Waiting[1] = Head(batch)
         /\ Head(batch) \in Tasks
  BY DEF CallTypes, Waiting

-----------------------------------------------------------------------------
LEMMA Bound == MaxOwnTasks \in Nat
  BY TasksAssumption

LEMMA GameIsNoScript == Game \in Threads /\ Game \notin Scripts /\ Scripts \subseteq Threads
  BY ThreadsAssumption DEF Scripts

(* The invariant holds before anything is issued. *)
LEMMA CallInvInit == Init => CallInv
<1> SUFFICES ASSUME Init PROVE CallInv
  OBVIOUS
<1>1. CallTypes
  <2>1. /\ queue \in Seq(Tasks) /\ batch \in Seq(Tasks)
        /\ ran \in SUBSET Tasks
        /\ joining \in Scripts \union {NoThread}
    BY DEF Init
  <2>2. state \in [Calls -> CallStates]
    BY DEF Init, CallStates
  <2>3. issued \in [Threads -> 0..MaxOwnTasks] /\ at \in [Threads -> Places]
    BY Bound DEF Init, Places
  <2>4. /\ drained \in BOOLEAN /\ executing \in BOOLEAN
        /\ stopRequested \in [Threads -> BOOLEAN]
        /\ cancelling \in [Threads -> BOOLEAN]
        /\ registered \in [Threads -> BOOLEAN]
        /\ \A t \in Threads :
             registered[t] <=> t # Game /\ at[t] \in {"Push", "HandBack", "Wait", "Restore"}
    BY Zenon DEF Init
  <2>5. QED
    BY <2>1, <2>2, <2>3, <2>4 DEF CallTypes
<1>2. DrainInv
  BY GameIsNoScript DEF Init, DrainInv
<1>3. CallerInv
  BY DEF Init, CallerInv
<1>4. OutcomeInv
  BY Bound DEF Init, OutcomeInv, CallOutcome, Calls
<1>5. HeadInv
  BY DEF Init, HeadInv
<1>6. OrderInv
  BY DEF Init, OrderInv, Waiting
<1>7. QED
  BY <1>1, <1>2, <1>3, <1>4, <1>5, <1>6 DEF CallInv

(* A step that leaves queue and callables alone keeps the order, if it    *)
(* moves no thread to where it is about to push.                          *)
LEMMA OrderKept ==
  ASSUME OrderInv, UNCHANGED <<batch, queue, ran, issued>>, at'[Game] = at[Game],
         \A t \in Threads : at'[t] \in {"Register", "Push"} => at[t] \in {"Register", "Push"},
         CallTypes
  PROVE  OrderInv'
<1>1. Waiting' = Waiting
  BY DEF Waiting
<1>2. \A i \in 1..Len(Waiting) : Waiting[i] \in Tasks
  BY WaitingType
<1>3. \A i \in 1..Len(Waiting) : Queued(Waiting[i], issued', at')
  BY <1>1, <1>2 DEF Queued, OrderInv, Tasks
<1>4. QED
  BY <1>1, <1>3 DEF OrderInv, Before, NotAfter

-----------------------------------------------------------------------------
(* The steps that leave queue and calls alone: they read the game, let it  *)
(* be joined, or set the stop token.                                       *)
LEMMA IdleStep ==
  ASSUME CallInv, UNCHANGED <<phase, callVars>>
  PROVE  CallInv'
<1>1. UNCHANGED <<phase, queue, batch, drained, executing, state, ran, issued, at,
                  stopRequested, registered, cancelling, joining>>
  BY DEF callVars
<1>2. CallTypes' /\ DrainInv' /\ CallerInv' /\ OutcomeInv' /\ HeadInv'
  BY <1>1 DEF CallInv, CallTypes, DrainInv, CallerInv, OutcomeInv, CallOutcome, HeadInv,
              Draining, CallTask
<1>3. OrderInv'
  BY <1>1, OrderKept DEF CallInv
<1>4. QED
  BY <1>2, <1>3 DEF CallInv

LEMMA JoinStep ==
  ASSUME CallInv, joining' \in Scripts \union {NoThread},
         UNCHANGED <<phase, queueVars, outcomeVars, callerVars, stopVars>>
  PROVE  CallInv'
<1>1. UNCHANGED <<phase, queue, batch, drained, executing, state, ran, issued, at,
                  stopRequested, registered, cancelling>>
  BY DEF queueVars, outcomeVars, callerVars, stopVars
<1>2. CallTypes' /\ DrainInv' /\ CallerInv' /\ OutcomeInv' /\ HeadInv'
  BY <1>1 DEF CallInv, CallTypes, DrainInv, CallerInv, OutcomeInv, CallOutcome, HeadInv,
              Draining, CallTask
<1>3. OrderInv'
  BY <1>1, OrderKept DEF CallInv
<1>4. QED
  BY <1>2, <1>3 DEF CallInv

LEMMA RequestStopStep ==
  ASSUME CallInv, NEW t \in Scripts, RequestStop(t)
  PROVE  CallInv'
<1>1. UNCHANGED <<phase, queue, batch, drained, executing, state, ran, issued, at,
                  registered, joining>>
  BY DEF RequestStop, frameVars, queueVars, outcomeVars, callerVars
<1>2. /\ stopRequested' = [stopRequested EXCEPT ![t] = TRUE]
      /\ cancelling' = [cancelling EXCEPT ![t] = registered[t]]
  BY DEF RequestStop
<1>3. CallTypes'
  BY <1>1, <1>2, GameIsNoScript DEF CallInv, CallTypes
<1>4. CallerInv'
  BY <1>1, <1>2 DEF CallInv, CallTypes, CallerInv
<1>5. DrainInv' /\ OutcomeInv' /\ HeadInv'
  BY <1>1 DEF CallInv, DrainInv, OutcomeInv, CallOutcome, HeadInv, Draining, CallTask
<1>6. OrderInv'
  BY <1>1, OrderKept DEF CallInv
<1>7. QED
  BY <1>3, <1>4, <1>5, <1>6 DEF CallInv

(* The places of a thread: what it takes for the types to hold when one    *)
(* thread moves and nothing else that has a type changes.                  *)
LEMMA StateSet ==
  ASSUME CallTypes, NEW t \in Threads, NEW n \in 1..MaxOwnTasks, NEW value \in CallStates,
         state' = [state EXCEPT ![<<t, n>>] = value]
  PROVE  /\ state' \in [Calls -> CallStates]
         /\ state'[<<t, n>>] = value
         /\ \A u \in Threads, m \in 1..MaxOwnTasks :
              u # t \/ m # n => state'[<<u, m>>] = state[<<u, m>>]
<1>1. <<t, n>> \in Calls
  BY DEF Calls
<1>2. \A u \in Threads, m \in 1..MaxOwnTasks :
        <<u, m>> \in Calls /\ (u # t \/ m # n => <<u, m>> # <<t, n>>)
  BY DEF Calls
<1>3. QED
  BY <1>1, <1>2 DEF CallTypes

(* Cancel decides the call if nobody has. *)
LEMMA CancelFacts ==
  ASSUME CallTypes, NEW t \in Threads, issued[t] > 0, Cancel(Current(t))
  PROVE  /\ state' \in [Calls -> CallStates]
         /\ state[Current(t)] = "Pending" => state'[Current(t)] = "Cancelled"
         /\ state[Current(t)] # "Pending" => state'[Current(t)] = state[Current(t)]
         /\ \A u \in Threads, m \in 1..MaxOwnTasks :
              u # t \/ m # issued[t] => state'[<<u, m>>] = state[<<u, m>>]
<1>1. issued[t] \in 1..MaxOwnTasks
  BY Bound DEF CallTypes
<1>2. CASE state[Current(t)] = "Pending"
  <2>1. state' = [state EXCEPT ![<<t, issued[t]>>] = "Cancelled"]
    BY <1>2 DEF Cancel, Current
  <2>2. "Cancelled" \in CallStates
    BY DEF CallStates
  <2>3. /\ state' \in [Calls -> CallStates]
        /\ state'[<<t, issued[t]>>] = "Cancelled"
        /\ \A u \in Threads, m \in 1..MaxOwnTasks :
             u # t \/ m # issued[t] => state'[<<u, m>>] = state[<<u, m>>]
    BY <1>1, <2>1, <2>2, StateSet
  <2>4. QED
    BY <1>2, <2>3 DEF Current
<1>3. CASE state[Current(t)] # "Pending"
  BY <1>3 DEF Cancel, CallTypes
<1>4. QED
  BY <1>2, <1>3

(* A call that is cancelled, by itself, keeps what is known of the calls. *)
LEMMA CancelOutcome ==
  ASSUME CallInv, NEW t \in Threads, issued[t] > 0, Cancel(Current(t)), UNCHANGED <<ran, issued>>,
         at' = [at EXCEPT ![t] = at'[t]],
         at[t] \in {"Register", "Push", "HandBack", "Wait"} =>
           at'[t] \in {"Push", "HandBack", "Wait"},
         at[t] \in {"HandBack", "Wait"} => at'[t] \in {"HandBack", "Wait"}
  PROVE  OutcomeInv' /\ (HeadInv /\ UNCHANGED <<batch, executing>> => HeadInv')
<1>1. issued[t] \in 1..MaxOwnTasks
  BY Bound DEF CallInv, CallTypes
<1>2. /\ state' \in [Calls -> CallStates]
      /\ state[<<t, issued[t]>>] = "Pending" => state'[<<t, issued[t]>>] = "Cancelled"
      /\ state[<<t, issued[t]>>] # "Pending" =>
           state'[<<t, issued[t]>>] = state[<<t, issued[t]>>]
      /\ \A u \in Threads, m \in 1..MaxOwnTasks :
           u # t \/ m # issued[t] => state'[<<u, m>>] = state[<<u, m>>]
  BY CancelFacts DEF CallInv, Current
<1>3. \A u \in Threads : u # t => at'[u] = at[u]
  BY DEF CallInv, CallTypes
<1>4. ASSUME NEW u \in Threads, NEW n \in 1..MaxOwnTasks
      PROVE  CallOutcome(u, n)'
  <2>1. CallOutcome(u, n)
    BY DEF CallInv, OutcomeInv
  <2>2. CASE u = t /\ n = issued[t]
    BY <1>2, <2>1, <2>2 DEF CallOutcome, CallTask
  <2>3. CASE u # t \/ n # issued[t]
    BY <1>2, <1>3, <2>1, <2>3 DEF CallOutcome, CallTask
  <2>4. QED
    BY <2>2, <2>3
<1>5. ASSUME HeadInv, UNCHANGED <<batch, executing>>, executing, Head(batch).kind = "Call"
      PROVE  state'[<<Head(batch).by, Head(batch).n>>] = "Running"
  <2>1. Head(batch) \in Tasks
    BY <1>5, WaitingHead DEF CallInv, DrainInv
  <2>2. state[<<Head(batch).by, Head(batch).n>>] = "Running"
    BY <1>5 DEF HeadInv
  <2>3. QED
    BY <1>2, <2>1, <2>2 DEF Tasks
<1>6. QED
  BY <1>4, <1>5 DEF OutcomeInv, HeadInv

-----------------------------------------------------------------------------
(* The stop callback, and the moves of a thread inside Execute. *)
LEMMA RunStopCallbackStep ==
  ASSUME CallInv, NEW t \in Scripts, RunStopCallback(t)
  PROVE  CallInv'
<1>1. UNCHANGED <<phase, queue, batch, drained, executing, ran, issued, at,
                  stopRequested, registered, joining>>
  BY DEF RunStopCallback, frameVars, queueVars, callerVars
<1>2. /\ cancelling[t] /\ cancelling' = [cancelling EXCEPT ![t] = FALSE]
      /\ Cancel(Current(t))
  BY DEF RunStopCallback
<1>3. t \in Threads /\ issued[t] > 0 /\ at[t] \in {"Push", "HandBack", "Wait", "Restore"}
  BY <1>2, GameIsNoScript DEF CallInv, CallerInv, CallTypes
<1>4. CallTypes'
  BY <1>1, <1>2, <1>3, CancelFacts DEF CallInv, CallTypes
<1>5. CallerInv'
  BY <1>1, <1>2, <1>3 DEF CallInv, CallTypes, CallerInv
<1>6. DrainInv'
  BY <1>1 DEF CallInv, DrainInv, Draining
<1>7. OutcomeInv' /\ HeadInv'
  <2>1. at' = [at EXCEPT ![t] = at'[t]]
    BY <1>1 DEF CallInv, CallTypes
  <2>2. QED
    BY <1>1, <1>2, <1>3, <2>1, CancelOutcome DEF CallInv
<1>8. OrderInv'
  BY <1>1, OrderKept DEF CallInv
<1>9. QED
  BY <1>4, <1>5, <1>6, <1>7, <1>8 DEF CallInv

LEMMA RegisterStep ==
  ASSUME CallInv, NEW t \in Scripts, Register(t)
  PROVE  CallInv'
<1>1. UNCHANGED <<phase, queue, batch, drained, executing, ran, issued,
                  stopRequested, cancelling, joining>>
  BY DEF Register, frameVars, queueVars
<1>2. /\ at[t] = "Register" /\ at' = [at EXCEPT ![t] = "Push"]
      /\ registered' = [registered EXCEPT ![t] = TRUE]
      /\ Cancel(Current(t)) \/ UNCHANGED state
  BY DEF Register, Goto
<1>3. t \in Threads /\ t # Game /\ issued[t] > 0
  BY <1>2, GameIsNoScript DEF CallInv, CallerInv
<1>4. state' \in [Calls -> CallStates]
  BY <1>2, <1>3, CancelFacts DEF CallInv, CallTypes
<1>5. CallTypes'
  <2>1. at' \in [Threads -> Places]
    BY <1>2, <1>3 DEF CallInv, CallTypes, Places
  <2>2. /\ registered' \in [Threads -> BOOLEAN]
        /\ \A u \in Threads :
             registered'[u] <=> u # Game /\ at'[u] \in {"Push", "HandBack", "Wait", "Restore"}
    BY <1>2, <1>3 DEF CallInv, CallTypes
  <2>3. QED
    BY <1>1, <1>4, <2>1, <2>2 DEF CallInv, CallTypes
<1>6. CallerInv'
  BY <1>1, <1>2, <1>3 DEF CallInv, CallTypes, CallerInv
<1>7. DrainInv'
  BY <1>1, <1>2, <1>3, GameIsNoScript DEF CallInv, CallTypes, DrainInv, Draining
<1>8. OutcomeInv' /\ HeadInv'
  <2>1. CASE Cancel(Current(t))
    <3>1. at' = [at EXCEPT ![t] = at'[t]] /\ at'[t] = "Push"
      BY <1>2, <1>3 DEF CallInv, CallTypes
    <3>2. QED
      BY <1>1, <1>2, <1>3, <2>1, <3>1, CancelOutcome DEF CallInv
  <2>2. CASE UNCHANGED state
    BY <1>1, <1>2, <1>3, <2>2
       DEF CallInv, CallTypes, OutcomeInv, CallOutcome, CallTask, HeadInv
  <2>3. QED
    BY <1>2, <2>1, <2>2
<1>9. OrderInv'
  <2>1. at'[Game] = at[Game] /\
        \A u \in Threads : at'[u] \in {"Register", "Push"} => at[u] \in {"Register", "Push"}
    BY <1>2, <1>3, GameIsNoScript DEF CallInv, CallTypes
  <2>2. QED
    BY <1>1, <2>1, OrderKept DEF CallInv
<1>10. QED
  BY <1>5, <1>6, <1>7, <1>8, <1>9 DEF CallInv

(* Past the push: the lock is handed back, the wait ends, the lock is taken *)
(* again; and the thread's end.                                             *)
LEMMA MoveStep ==
  ASSUME CallInv, NEW t \in Scripts, HandBack(t) \/ Wake(t) \/ End(t)
  PROVE  CallInv'
<1>1. UNCHANGED <<phase, queue, batch, drained, executing, state, ran, issued,
                  stopRequested, registered, cancelling, joining>>
  BY DEF HandBack, Wake, End, frameVars, queueVars, outcomeVars, stopVars
<1>2. \/ at[t] = "HandBack" /\ at' = [at EXCEPT ![t] = "Wait"]
      \/ /\ at[t] = "Wait" /\ at' = [at EXCEPT ![t] = "Restore"]
         /\ state[<<t, issued[t]>>] \in {"Done", "Cancelled"}
      \/ at[t] = "Script" /\ at' = [at EXCEPT ![t] = "Ended"]
  BY DEF HandBack, Wake, End, Goto, Current
<1>3. t \in Threads /\ t # Game
  BY GameIsNoScript
<1>4. CallTypes'
  <2>1. at' \in [Threads -> Places]
    BY <1>2, <1>3 DEF CallInv, CallTypes, Places
  <2>2. \A u \in Threads :
          registered[u] <=> u # Game /\ at'[u] \in {"Push", "HandBack", "Wait", "Restore"}
    BY <1>2, <1>3 DEF CallInv, CallTypes
  <2>3. QED
    BY <1>1, <2>1, <2>2 DEF CallInv, CallTypes
<1>5. CallerInv'
  BY <1>1, <1>2, <1>3 DEF CallInv, CallTypes, CallerInv
<1>6. DrainInv' /\ HeadInv'
  BY <1>1, <1>2, <1>3, GameIsNoScript DEF CallInv, CallTypes, DrainInv, HeadInv, Draining
<1>7. OutcomeInv'
  <2>1. ASSUME NEW u \in Threads, NEW n \in 1..MaxOwnTasks
        PROVE  CallOutcome(u, n)'
    <3>1. CallOutcome(u, n)
      BY DEF CallInv, OutcomeInv
    <3>2. QED
      BY <1>1, <1>2, <1>3, <3>1 DEF CallInv, CallTypes, CallOutcome, CallTask
  <2>2. QED
    BY <2>1 DEF OutcomeInv
<1>8. OrderInv'
  <2>1. at'[Game] = at[Game] /\
        \A u \in Threads : at'[u] \in {"Register", "Push"} => at[u] \in {"Register", "Push"}
    BY <1>2, <1>3, GameIsNoScript DEF CallInv, CallTypes
  <2>2. QED
    BY <1>1, <2>1, OrderKept DEF CallInv
<1>9. QED
  BY <1>4, <1>5, <1>6, <1>7, <1>8 DEF CallInv

LEMMA RestoreStep ==
  ASSUME CallInv, NEW t \in Scripts, Restore(t)
  PROVE  CallInv'
<1>1. UNCHANGED <<phase, queue, batch, drained, executing, state, ran, issued,
                  stopRequested, joining>>
  BY DEF Restore, queueVars, outcomeVars
<1>2. /\ at[t] = "Restore" /\ at' = [at EXCEPT ![t] = "Script"]
      /\ registered' = [registered EXCEPT ![t] = FALSE]
      /\ cancelling' = [cancelling EXCEPT ![t] = FALSE]
  BY DEF Restore, Goto
<1>3. t \in Threads /\ t # Game
  BY GameIsNoScript
<1>4. CallTypes'
  <2>1. at' \in [Threads -> Places] /\ cancelling' \in [Threads -> BOOLEAN]
    BY <1>2, <1>3 DEF CallInv, CallTypes, Places
  <2>2. /\ registered' \in [Threads -> BOOLEAN]
        /\ \A u \in Threads :
             registered'[u] <=> u # Game /\ at'[u] \in {"Push", "HandBack", "Wait", "Restore"}
    BY <1>2, <1>3 DEF CallInv, CallTypes
  <2>3. QED
    BY <1>1, <2>1, <2>2 DEF CallInv, CallTypes
<1>5. CallerInv'
  BY <1>1, <1>2, <1>3 DEF CallInv, CallTypes, CallerInv
<1>6. DrainInv' /\ HeadInv'
  BY <1>1, <1>2, <1>3, GameIsNoScript DEF CallInv, CallTypes, DrainInv, HeadInv, Draining
<1>7. OutcomeInv'
  BY <1>1, <1>2, <1>3 DEF CallInv, CallTypes, OutcomeInv, CallOutcome, CallTask
<1>8. OrderInv'
  <2>1. at'[Game] = at[Game] /\
        \A u \in Threads : at'[u] \in {"Register", "Push"} => at[u] \in {"Register", "Push"}
    BY <1>2, <1>3, GameIsNoScript DEF CallInv, CallTypes
  <2>2. QED
    BY <1>1, <2>1, OrderKept DEF CallInv
<1>9. QED
  BY <1>4, <1>5, <1>6, <1>7, <1>8 DEF CallInv

-----------------------------------------------------------------------------
(* A task that is queued after all its thread has issued keeps the order. *)
LEMMA OrderAppended ==
  ASSUME CallInv, NEW task \in Tasks, Enqueue(task), UNCHANGED batch, UNCHANGED ran,
         \A t \in Threads : issued'[t] \in Nat /\ issued'[t] >= issued[t],
         Queued(task, issued', at'),
         \A i \in 1..Len(Waiting) : Queued(Waiting[i], issued', at') /\ Before(Waiting[i], task),
         \A begun \in ran : NotAfter(begun, task)
  PROVE  OrderInv'
<1>1. /\ Len(Waiting') = Len(Waiting) + 1
      /\ Waiting'[Len(Waiting) + 1] = task
      /\ \A i \in 1..Len(Waiting) : Waiting'[i] = Waiting[i]
  BY WaitingAppended DEF CallInv
<1>2. Len(Waiting) \in Nat
  BY WaitingType DEF CallInv
<1>3. \A i \in 1..Len(Waiting') : Queued(Waiting'[i], issued', at')
  BY <1>1, <1>2
<1>4. \A i, j \in 1..Len(Waiting') : i < j => Before(Waiting'[i], Waiting'[j])
  BY <1>1, <1>2 DEF CallInv, OrderInv
<1>5. \A begun \in ran : begun.n <= issued'[begun.by]
  BY Bound DEF CallInv, CallTypes, OrderInv, Tasks
<1>6. \A begun \in ran : \A i \in 1..Len(Waiting') : NotAfter(begun, Waiting'[i])
  BY <1>1, <1>2 DEF CallInv, OrderInv
<1>7. QED
  BY <1>3, <1>4, <1>5, <1>6 DEF OrderInv, Before, NotAfter

LEMMA PostStep ==
  ASSUME CallInv, NEW t \in Scripts, Post(t)
  PROVE  CallInv'
<1> DEFINE task == [by |-> t, n |-> issued[t] + 1, kind |-> "Post"]
<1>1. UNCHANGED <<phase, batch, drained, executing, state, ran, at, stopRequested,
                  registered, cancelling, joining>>
  BY DEF Post, frameVars, outcomeVars, stopVars
<1>2. t \in Threads /\ t # Game
  BY GameIsNoScript
<1>3. /\ at[t] = "Script" /\ issued[t] < MaxOwnTasks
      /\ issued' = [issued EXCEPT ![t] = issued[t] + 1]
      /\ Enqueue(task)
  BY <1>2 DEF Post, MayIssue, CallInv, CallTypes
<1>4. /\ issued' \in [Threads -> 0..MaxOwnTasks] /\ issued'[t] = issued[t] + 1
      /\ \A u \in Threads : u # t => issued'[u] = issued[u]
      /\ task \in Tasks
  BY <1>2, <1>3, Bound DEF CallInv, CallTypes, Tasks
<1> HIDE DEF task
<1>5. CallTypes'
  BY <1>1, <1>3, <1>4 DEF CallInv, CallTypes, Enqueue
<1>6. CallerInv' /\ DrainInv' /\ HeadInv'
  BY <1>1, <1>2, <1>3, <1>4 DEF CallInv, CallTypes, CallerInv, DrainInv, HeadInv, Draining
<1>7. OutcomeInv'
  <2>1. ASSUME NEW u \in Threads, NEW n \in 1..MaxOwnTasks
        PROVE  CallOutcome(u, n)'
    <3>1. CallOutcome(u, n)
      BY DEF CallInv, OutcomeInv
    <3>2. issued[u] \in Nat /\ issued'[u] \in Nat
      BY <1>4, Bound DEF CallInv, CallTypes
    <3>3. QED
      BY <1>1, <1>3, <1>4, <3>1, <3>2 DEF CallOutcome, CallTask
  <2>2. QED
    BY <2>1 DEF OutcomeInv
<1>8. OrderInv'
  <2>1. \A u \in Threads : issued'[u] \in Nat /\ issued[u] \in Nat /\ issued'[u] >= issued[u]
    <3>1. \A u \in Threads : issued'[u] \in Nat /\ issued[u] \in Nat
      BY <1>4, Bound DEF CallInv, CallTypes
    <3>2. QED
      BY <1>2, <1>4, <3>1
  <2>2. Queued(task, issued', at')
    BY <1>1, <1>2, <1>3, <1>4, <2>1 DEF Queued, task
  <2>3. ASSUME NEW i \in 1..Len(Waiting)
        PROVE  Queued(Waiting[i], issued', at') /\ Before(Waiting[i], task)
    <3>1. Waiting[i] \in Tasks /\ Queued(Waiting[i], issued, at)
      BY WaitingType DEF CallInv, OrderInv
    <3>2. QED
      BY <1>1, <1>3, <1>4, <2>1, <3>1 DEF Queued, Before, task, Tasks
  <2>4. \A begun \in ran : NotAfter(begun, task)
    BY <2>1, <1>4 DEF CallInv, CallTypes, OrderInv, NotAfter, task, Tasks
  <2>5. QED
    BY <1>1, <1>3, <1>4, <2>1, <2>2, <2>3, <2>4, OrderAppended
<1>9. QED
  BY <1>5, <1>6, <1>7, <1>8 DEF CallInv

LEMMA PushCallStep ==
  ASSUME CallInv, NEW t \in Scripts, PushCall(t)
  PROVE  CallInv'
<1> DEFINE task == CallTask(t, issued[t])
<1>1. UNCHANGED <<phase, batch, drained, executing, state, ran, issued, stopRequested,
                  registered, cancelling, joining>>
  BY DEF PushCall, frameVars, outcomeVars, stopVars
<1>2. t \in Threads /\ t # Game
  BY GameIsNoScript
<1>3. at[t] = "Push" /\ at' = [at EXCEPT ![t] = "HandBack"] /\ Enqueue(task)
  BY DEF PushCall, Goto, CallTask
<1>4. task \in Tasks
  <2>1. issued[t] \in 1..MaxOwnTasks
    <3>1. issued[t] \in 0..MaxOwnTasks
      BY <1>2 DEF CallInv, CallTypes
    <3>2. issued[t] > 0
      BY <1>2, <1>3 DEF CallInv, CallerInv
    <3>3. QED
      BY <3>1, <3>2, Bound
  <2>2. QED
    BY <1>2, <2>1 DEF Tasks, CallTask
<1> HIDE DEF task
<1>5. CallTypes'
  <2>1. at' \in [Threads -> Places] /\ queue' \in Seq(Tasks)
    BY <1>2, <1>3, <1>4 DEF CallInv, CallTypes, Places, Enqueue
  <2>2. \A u \in Threads :
          registered[u] <=> u # Game /\ at'[u] \in {"Push", "HandBack", "Wait", "Restore"}
    BY <1>2, <1>3 DEF CallInv, CallTypes
  <2>3. QED
    BY <1>1, <2>1, <2>2 DEF CallInv, CallTypes
<1>6. CallerInv' /\ DrainInv' /\ HeadInv'
  BY <1>1, <1>2, <1>3, GameIsNoScript
     DEF CallInv, CallTypes, CallerInv, DrainInv, HeadInv, Draining
<1>7. OutcomeInv'
  BY <1>1, <1>2, <1>3 DEF CallInv, CallTypes, OutcomeInv, CallOutcome, CallTask
<1>8. OrderInv'
  <2>1. \A u \in Threads : issued[u] \in Nat /\ issued'[u] \in Nat /\ issued'[u] >= issued[u]
    BY <1>1, Bound DEF CallInv, CallTypes
  <2>2. Queued(task, issued', at')
    BY <1>1, <1>2, <1>3, <2>1 DEF Queued, task, CallTask, CallInv, CallTypes
  <2>3. ASSUME NEW i \in 1..Len(Waiting)
        PROVE  Queued(Waiting[i], issued', at') /\ Before(Waiting[i], task)
    <3>1. Waiting[i] \in Tasks /\ Queued(Waiting[i], issued, at)
      BY WaitingType DEF CallInv, OrderInv
    <3>2. Before(Waiting[i], task)
      BY <1>3, <2>1, <3>1 DEF Queued, Before, task, CallTask, Tasks
    <3>3. Queued(Waiting[i], issued', at')
      BY <1>1, <1>2, <1>3, <3>1, GameIsNoScript DEF Queued, Tasks, CallInv, CallTypes
    <3>4. QED
      BY <3>2, <3>3
  <2>4. \A begun \in ran : NotAfter(begun, task)
    BY <2>1 DEF CallInv, CallTypes, OrderInv, NotAfter, task, CallTask
  <2>5. QED
    BY <1>1, <1>3, <1>4, <2>1, <2>2, <2>3, <2>4, OrderAppended
<1>9. QED
  BY <1>5, <1>6, <1>7, <1>8 DEF CallInv

LEMMA ExecuteStep ==
  ASSUME CallInv, NEW t \in Scripts, Execute(t)
  PROVE  CallInv'
<1> DEFINE n == issued[t] + 1
<1>1. UNCHANGED <<phase, queue, batch, drained, executing, ran, stopRequested,
                  registered, cancelling, joining>>
  BY DEF Execute, frameVars, queueVars, stopVars
<1>2. t \in Threads /\ t # Game
  BY GameIsNoScript
<1>3. /\ at[t] = "Script" /\ issued[t] < MaxOwnTasks
      /\ issued' = [issued EXCEPT ![t] = n]
      /\ state' = [state EXCEPT ![<<t, n>>] = "Pending"]
      /\ at' = [at EXCEPT ![t] = "Register"]
  BY <1>2 DEF Execute, MayIssue, Goto, CallInv, CallTypes
<1>4. /\ issued' \in [Threads -> 0..MaxOwnTasks] /\ issued'[t] = n
      /\ \A u \in Threads : u # t => issued'[u] = issued[u]
      /\ n \in 1..MaxOwnTasks
      /\ \A u \in Threads : issued[u] \in Nat
  BY <1>2, <1>3, Bound DEF CallInv, CallTypes
<1>5. /\ state' \in [Calls -> CallStates]
      /\ state'[<<t, n>>] = "Pending"
      /\ \A u \in Threads, m \in 1..MaxOwnTasks :
           u # t \/ m # n => state'[<<u, m>>] = state[<<u, m>>]
  <2>1. "Pending" \in CallStates
    BY DEF CallStates
  <2>2. QED
    BY <1>2, <1>3, <1>4, <2>1, StateSet DEF CallInv
<1>6. state[<<t, n>>] = "None" /\ CallTask(t, n) \notin ran
  BY <1>2, <1>4 DEF CallInv, OutcomeInv, CallOutcome
<1>7. CallTypes'
  <2>1. at' \in [Threads -> Places]
    BY <1>2, <1>3 DEF CallInv, CallTypes, Places
  <2>2. \A u \in Threads :
          registered[u] <=> u # Game /\ at'[u] \in {"Push", "HandBack", "Wait", "Restore"}
    BY <1>2, <1>3 DEF CallInv, CallTypes
  <2>3. QED
    BY <1>1, <1>4, <1>5, <2>1, <2>2 DEF CallInv, CallTypes
<1> HIDE DEF n
<1>8. CallerInv' /\ DrainInv'
  BY <1>1, <1>2, <1>3, <1>4, GameIsNoScript
     DEF CallInv, CallTypes, CallerInv, DrainInv, Draining
<1>9. HeadInv'
  <2>1. SUFFICES ASSUME executing, Head(batch).kind = "Call"
                 PROVE  state'[<<Head(batch).by, Head(batch).n>>] = "Running"
    BY <1>1 DEF HeadInv
  <2>2. Head(batch) \in Tasks /\ state[<<Head(batch).by, Head(batch).n>>] = "Running"
    BY <2>1, WaitingHead DEF CallInv, DrainInv, HeadInv
  <2>3. QED
    BY <1>5, <1>6, <2>2 DEF Tasks
<1>10. OutcomeInv'
  <2>1. ASSUME NEW u \in Threads, NEW m \in 1..MaxOwnTasks
        PROVE  CallOutcome(u, m)'
    <3>1. CallOutcome(u, m)
      BY DEF CallInv, OutcomeInv
    <3>2. CASE u = t /\ m = n
      BY <1>1, <1>2, <1>3, <1>4, <1>5, <1>6, <3>2 DEF CallOutcome, CallTask, CallInv, CallTypes
    <3>3. CASE u = t /\ m # n
      <4>1. state[<<u, m>>] \notin {"Pending", "Running"}
        BY <1>3, <3>1, <3>3 DEF CallOutcome
      <4>2. m > issued'[u] => m > issued[u]
        BY <1>4, <3>3 DEF n
      <4>3. QED
        BY <1>1, <1>5, <3>1, <3>3, <4>1, <4>2 DEF CallOutcome, CallTask
    <3>4. CASE u # t
      BY <1>1, <1>2, <1>3, <1>4, <1>5, <3>1, <3>4 DEF CallOutcome, CallTask, CallInv, CallTypes
    <3>5. QED
      BY <3>2, <3>3, <3>4
  <2>2. QED
    BY <2>1 DEF OutcomeInv
<1>11. OrderInv'
  <2>1. Waiting' = Waiting
    BY <1>1 DEF Waiting
  <2>2. ASSUME NEW i \in 1..Len(Waiting)
        PROVE  Queued(Waiting[i], issued', at')
    <3>1. Waiting[i] \in Tasks /\ Queued(Waiting[i], issued, at)
      BY WaitingType DEF CallInv, OrderInv
    <3>2. CASE Waiting[i].by = t
      BY <1>2, <1>4, <2>1, <3>1, <3>2 DEF Queued, n, Tasks
    <3>3. CASE Waiting[i].by # t
      BY <1>2, <1>3, <1>4, <2>1, <3>1, <3>3, GameIsNoScript DEF Queued, Tasks, CallInv, CallTypes
    <3>4. QED
      BY <3>2, <3>3
  <2>3. ASSUME NEW begun \in ran
        PROVE  begun.n <= issued'[begun.by]
    <3>1. begun.by \in Threads /\ begun.n \in Nat /\ begun.n <= issued[begun.by]
      BY DEF CallInv, CallTypes, OrderInv, Tasks
    <3>2. issued[begun.by] <= issued'[begun.by] /\ issued'[begun.by] \in Nat
      BY <1>4, <3>1 DEF n
    <3>3. QED
      BY <1>4, <3>1, <3>2
  <2>4. QED
    BY <1>1, <2>1, <2>2, <2>3 DEF CallInv, OrderInv, Before, NotAfter
<1>12. QED
  BY <1>7, <1>8, <1>9, <1>10, <1>11 DEF CallInv

-----------------------------------------------------------------------------
(* The moves of the frame; the drain. *)
LEMMA FrameStep ==
  ASSUME CallInv, Frame
  PROVE  CallInv'
<1>1. UNCHANGED <<queue, batch, executing, state, ran, issued, at, stopRequested,
                  registered, cancelling, joining>>
  BY DEF Frame, outcomeVars, callerVars, stopVars
<1>2. drained' = FALSE /\ batch = <<>> /\ ~executing /\ at[Game] = "Script"
  BY DEF Frame, GameRuns, CallInv, DrainInv
<1>3. CallTypes'
  BY <1>1, <1>2 DEF CallInv, CallTypes
<1>4. CallerInv' /\ DrainInv' /\ OutcomeInv' /\ HeadInv'
  BY <1>1, <1>2 DEF CallInv, CallerInv, DrainInv, OutcomeInv, CallOutcome, CallTask, HeadInv
<1>5. OrderInv'
  BY <1>1, OrderKept DEF CallInv
<1>6. QED
  BY <1>3, <1>4, <1>5 DEF CallInv

LEMMA TakeBatchStep ==
  ASSUME CallInv, TakeBatch
  PROVE  CallInv'
<1>1. UNCHANGED <<phase, executing, state, ran, issued, at, stopRequested,
                  registered, cancelling, joining>>
  BY DEF TakeBatch, frameVars, outcomeVars, callerVars, stopVars
<1>2. drained' = TRUE /\ batch' = queue /\ queue' = <<>> /\ Draining
  BY DEF TakeBatch
<1>3. batch = <<>> /\ ~executing
  BY DEF TakeBatch, CallInv, DrainInv
<1>4. CallTypes'
  BY <1>1, <1>2 DEF CallInv, CallTypes
<1>5. CallerInv' /\ DrainInv' /\ OutcomeInv' /\ HeadInv'
  BY <1>1, <1>2, <1>3
     DEF CallInv, CallerInv, DrainInv, OutcomeInv, CallOutcome, CallTask, HeadInv, Draining
<1>6. OrderInv'
  <2>1. Waiting' = Waiting
    BY <1>2, <1>3, WaitingTaken DEF CallInv
  <2>2. QED
    BY <1>1, <2>1 DEF CallInv, OrderInv
<1>7. QED
  BY <1>4, <1>5, <1>6 DEF CallInv

(* A drain that is done with its first task keeps the order. *)
LEMMA OrderShortened ==
  ASSUME CallInv, batch # <<>>, batch' = Tail(batch), UNCHANGED <<queue, ran, issued, at>>
  PROVE  OrderInv'
<1>1. /\ Len(Waiting) = Len(Waiting') + 1
      /\ \A i \in 1..Len(Waiting') : Waiting'[i] = Waiting[i + 1]
  BY WaitingShortened DEF CallInv
<1>2. Len(Waiting) \in Nat /\ Len(Waiting') \in Nat
  BY <1>1, WaitingType, WaitingHead DEF CallInv
<1>3. \A i \in 1..Len(Waiting') : Queued(Waiting'[i], issued', at')
  BY <1>1, <1>2 DEF CallInv, OrderInv
<1>4. \A i, j \in 1..Len(Waiting') : i < j => Before(Waiting'[i], Waiting'[j])
  <2>1. ASSUME NEW i \in 1..Len(Waiting'), NEW j \in 1..Len(Waiting'), i < j
        PROVE  Before(Waiting'[i], Waiting'[j])
    <3>1. /\ i + 1 \in 1..Len(Waiting) /\ j + 1 \in 1..Len(Waiting) /\ i + 1 < j + 1
          /\ Waiting'[i] = Waiting[i + 1] /\ Waiting'[j] = Waiting[j + 1]
      BY <1>1, <1>2, <2>1
    <3>2. QED
      BY <3>1 DEF CallInv, OrderInv
  <2>2. QED
    BY <2>1
<1>5. \A begun \in ran : \A i \in 1..Len(Waiting') : NotAfter(begun, Waiting'[i])
  BY <1>1, <1>2 DEF CallInv, OrderInv
<1>6. QED
  BY <1>3, <1>4, <1>5 DEF CallInv, OrderInv, Before, NotAfter

(* A task that begins is the oldest of its thread's. *)
LEMMA OrderBegun ==
  ASSUME CallInv, batch # <<>>, ran' = ran \union {Head(batch)},
         UNCHANGED <<batch, queue, issued, at>>
  PROVE  OrderInv'
<1>1. Waiting' = Waiting
  BY DEF Waiting
<1>2. Len(Waiting) \in Nat /\ 1 \in 1..Len(Waiting) /\ Waiting[1] = Head(batch) /\ Head(batch) \in Tasks
  BY WaitingType, WaitingHead DEF CallInv
<1>3. Head(batch).n <= issued[Head(batch).by]
  BY <1>2 DEF CallInv, OrderInv, Queued
<1>4. ASSUME NEW i \in 1..Len(Waiting)
      PROVE  NotAfter(Head(batch), Waiting[i])
  <2>1. Waiting[i] \in Tasks
    BY WaitingType DEF CallInv
  <2>2. CASE i = 1
    BY <1>2, <2>2 DEF NotAfter, Tasks
  <2>3. CASE i > 1
    BY <1>2, <2>1, <2>3 DEF CallInv, OrderInv, NotAfter, Before, Tasks
  <2>4. QED
    BY <1>2, <2>2, <2>3
<1>5. QED
  BY <1>1, <1>3, <1>4 DEF CallInv, OrderInv, Before, NotAfter

LEMMA StartTaskStep ==
  ASSUME CallInv, StartTask
  PROVE  CallInv'
<1> DEFINE task == Head(batch)
<1>1. UNCHANGED <<phase, queue, drained, issued, at, stopRequested,
                  registered, cancelling, joining>>
  BY DEF StartTask, frameVars, callerVars, stopVars
<1>2. at[Game] = "Script" /\ batch # <<>> /\ ~executing /\ task \in Tasks
  BY WaitingHead DEF StartTask, Idle, GameRuns, CallInv
<1>3. \/ /\ task.kind = "Post" /\ UNCHANGED <<batch, state>>
         /\ executing' = TRUE /\ ran' = ran \union {task}
      \/ /\ task.kind = "Call" /\ UNCHANGED batch /\ state[<<task.by, task.n>>] = "Pending"
         /\ state' = [state EXCEPT ![<<task.by, task.n>>] = "Running"]
         /\ executing' = TRUE /\ ran' = ran \union {task}
      \/ batch' = Tail(batch) /\ UNCHANGED <<executing, ran, state>>
  BY <1>2 DEF StartTask, Begin, Skip, Start, Tasks
<1>4. task.by \in Threads /\ task.n \in 1..MaxOwnTasks
  BY <1>2 DEF Tasks
<1>5. CASE task.kind = "Post" /\ UNCHANGED <<batch, state>>
           /\ executing' = TRUE /\ ran' = ran \union {task}
  <2>1. CallTypes'
    BY <1>1, <1>2, <1>5 DEF CallInv, CallTypes
  <2>2. CallerInv' /\ DrainInv' /\ HeadInv'
    BY <1>1, <1>2, <1>5 DEF CallInv, CallerInv, DrainInv, HeadInv, Draining
  <2>3. \A t \in Threads, n \in 1..MaxOwnTasks : CallTask(t, n) # task
    BY <1>5 DEF CallTask
  <2>4. OutcomeInv'
    BY <1>1, <1>5, <2>3 DEF CallInv, OutcomeInv, CallOutcome, CallTask
  <2>5. OrderInv'
    BY <1>1, <1>2, <1>5, OrderBegun
  <2>6. QED
    BY <2>1, <2>2, <2>4, <2>5 DEF CallInv
<1>6. CASE /\ task.kind = "Call" /\ UNCHANGED batch /\ state[<<task.by, task.n>>] = "Pending"
           /\ state' = [state EXCEPT ![<<task.by, task.n>>] = "Running"]
           /\ executing' = TRUE /\ ran' = ran \union {task}
  <2>1. /\ state' \in [Calls -> CallStates]
        /\ state'[<<task.by, task.n>>] = "Running"
        /\ \A u \in Threads, m \in 1..MaxOwnTasks :
             u # task.by \/ m # task.n => state'[<<u, m>>] = state[<<u, m>>]
    <3>1. "Running" \in CallStates
      BY DEF CallStates
    <3>2. QED
      BY <1>4, <1>6, <3>1, StateSet DEF CallInv
  <2>2. CallTypes'
    BY <1>1, <1>2, <1>6, <2>1 DEF CallInv, CallTypes
  <2>3. CallerInv' /\ DrainInv' /\ HeadInv'
    BY <1>1, <1>2, <1>6, <2>1 DEF CallInv, CallerInv, DrainInv, HeadInv, Draining
  <2>4. task.n = issued[task.by] /\ at[task.by] \in {"HandBack", "Wait"}
    <3>1. CallOutcome(task.by, task.n)
      BY <1>4 DEF CallInv, OutcomeInv
    <3>2. Queued(task, issued, at)
      BY <1>2, WaitingHead, WaitingType DEF CallInv, OrderInv
    <3>3. QED
      BY <1>6, <3>1, <3>2 DEF CallOutcome, Queued
  <2>5. OutcomeInv'
    <3>1. ASSUME NEW u \in Threads, NEW n \in 1..MaxOwnTasks
          PROVE  CallOutcome(u, n)'
      <4>1. CallOutcome(u, n)
        BY DEF CallInv, OutcomeInv
      <4>2. CASE u = task.by /\ n = task.n
        <5>1. CallTask(u, n) = task
          BY <1>2, <1>6, <4>2 DEF CallTask, Tasks
        <5>2. CallTask(u, n) \in ran' /\ ~(n > issued[u]) /\ state'[<<u, n>>] = "Running"
          BY <1>4, <1>6, <2>1, <2>4, <4>2, <5>1
        <5>3. QED
          BY <1>1, <2>4, <4>2, <5>2 DEF CallOutcome, CallTask
      <4>3. CASE u # task.by \/ n # task.n
        <5>1. CallTask(u, n) # task
          BY <4>3 DEF CallTask
        <5>2. QED
          BY <1>1, <1>6, <2>1, <4>1, <4>3, <5>1 DEF CallOutcome, CallTask
      <4>4. QED
        BY <4>2, <4>3
    <3>2. QED
      BY <3>1 DEF OutcomeInv
  <2>6. OrderInv'
    BY <1>1, <1>2, <1>6, OrderBegun
  <2>7. QED
    BY <2>2, <2>3, <2>5, <2>6 DEF CallInv
<1>7. CASE batch' = Tail(batch) /\ UNCHANGED <<executing, ran, state>>
  <2>1. CallTypes'
    BY <1>1, <1>2, <1>7 DEF CallInv, CallTypes
  <2>2. CallerInv' /\ DrainInv' /\ HeadInv' /\ OutcomeInv'
    BY <1>1, <1>2, <1>7
       DEF CallInv, CallerInv, DrainInv, HeadInv, OutcomeInv, CallOutcome, CallTask, Draining
  <2>3. OrderInv'
    BY <1>1, <1>2, <1>7, OrderShortened
  <2>4. QED
    BY <2>1, <2>2, <2>3 DEF CallInv
<1>8. QED
  BY <1>3, <1>5, <1>6, <1>7

LEMMA FinishTaskStep ==
  ASSUME CallInv, FinishTask
  PROVE  CallInv'
<1> DEFINE task == Head(batch)
<1>1. UNCHANGED <<phase, queue, drained, ran, issued, at, stopRequested,
                  registered, cancelling, joining>>
  BY DEF FinishTask, frameVars, callerVars, stopVars
<1>2. /\ at[Game] = "Script" /\ executing /\ batch # <<>> /\ task \in Tasks
      /\ executing' = FALSE /\ batch' = Tail(batch)
  BY WaitingHead DEF FinishTask, InCallable, GameRuns, CallInv, DrainInv
<1>3. \/ /\ task.kind = "Call"
         /\ state' = [state EXCEPT ![<<task.by, task.n>>] = "Done"]
      \/ UNCHANGED state
  BY DEF FinishTask, Finish
<1>4. task.by \in Threads /\ task.n \in 1..MaxOwnTasks
  BY <1>2 DEF Tasks
<1>5. batch' \in Seq(Tasks) /\ executing' \in BOOLEAN
  <2>1. batch \in Seq(Tasks)
    BY DEF CallInv, CallTypes
  <2>2. batch' \in Seq(Tasks)
    BY <1>2, <2>1
  <2>3. executing' \in BOOLEAN
    BY <1>2, Zenon
  <2>4. QED
    BY <2>2, <2>3
<1>6. CallerInv' /\ DrainInv' /\ HeadInv'
  BY <1>1, <1>2 DEF CallInv, CallerInv, DrainInv, HeadInv, Draining
<1>7. OrderInv'
  BY <1>1, <1>2, OrderShortened
<1>8. CASE UNCHANGED state
  <2>1. CallTypes'
    BY <1>1, <1>8, <1>5 DEF CallInv, CallTypes
  <2>2. OutcomeInv'
    BY <1>1, <1>8 DEF CallInv, OutcomeInv, CallOutcome, CallTask
  <2>3. QED
    BY <1>6, <1>7, <2>1, <2>2 DEF CallInv
<1>9. CASE /\ task.kind = "Call"
           /\ state' = [state EXCEPT ![<<task.by, task.n>>] = "Done"]
  <2>1. /\ state' \in [Calls -> CallStates]
        /\ state'[<<task.by, task.n>>] = "Done"
        /\ \A u \in Threads, m \in 1..MaxOwnTasks :
             u # task.by \/ m # task.n => state'[<<u, m>>] = state[<<u, m>>]
    <3>1. "Done" \in CallStates
      BY DEF CallStates
    <3>2. QED
      BY <1>4, <1>9, <3>1, StateSet DEF CallInv
  <2>2. CallTypes'
    BY <1>1, <1>5, <2>1 DEF CallInv, CallTypes
  <2>3. state[<<task.by, task.n>>] = "Running"
    BY <1>2, <1>9 DEF CallInv, HeadInv
  <2>4. OutcomeInv'
    <3>1. ASSUME NEW u \in Threads, NEW n \in 1..MaxOwnTasks
          PROVE  CallOutcome(u, n)'
      <4>1. CallOutcome(u, n)
        BY DEF CallInv, OutcomeInv
      <4>2. CASE u = task.by /\ n = task.n
        BY <1>1, <2>1, <2>3, <4>1, <4>2 DEF CallOutcome, CallTask
      <4>3. CASE u # task.by \/ n # task.n
        BY <1>1, <2>1, <4>1, <4>3 DEF CallOutcome, CallTask
      <4>4. QED
        BY <4>2, <4>3
    <3>2. QED
      BY <3>1 DEF OutcomeInv
  <2>5. QED
    BY <1>6, <1>7, <2>2, <2>4 DEF CallInv
<1>10. QED
  BY <1>3, <1>8, <1>9

(* A callable that calls Execute: in place, or through the queue. *)
LEMMA NestedCallStep ==
  ASSUME CallInv, NestedCall
  PROVE  CallInv'
<1> DEFINE n == issued[Game] + 1
           task == CallTask(Game, n)
<1>1. UNCHANGED <<phase, batch, drained, executing, stopRequested,
                  registered, cancelling, joining>>
  BY DEF NestedCall, stopVars
<1>2. Game \in Threads /\ at[Game] = "Script" /\ executing
  BY GameIsNoScript DEF NestedCall, InCallable, GameRuns
<1>3. issued[Game] < MaxOwnTasks /\ issued' = [issued EXCEPT ![Game] = n]
  BY DEF NestedCall, MayIssue
<1>4. /\ issued' \in [Threads -> 0..MaxOwnTasks] /\ issued'[Game] = n
      /\ \A u \in Threads : u # Game => issued'[u] = issued[u]
      /\ n \in 1..MaxOwnTasks
      /\ \A u \in Threads : issued[u] \in Nat
  BY <1>2, <1>3, Bound DEF CallInv, CallTypes
<1>5. \A u \in Threads : issued'[u] \in Nat /\ issued'[u] >= issued[u]
  BY <1>4
<1>6. \/ /\ state' = [state EXCEPT ![<<Game, n>>] = "Done"]
         /\ ran' = ran \union {task} /\ UNCHANGED <<queue, at>>
      \/ /\ state' = [state EXCEPT ![<<Game, n>>] = "Pending"]
         /\ Enqueue(task) /\ at' = [at EXCEPT ![Game] = "Wait"] /\ UNCHANGED ran
  BY <1>4 DEF NestedCall, Goto, CallTask
<1>7. state[<<Game, n>>] = "None" /\ task \notin ran /\ task \in Tasks
  BY <1>2, <1>4 DEF CallInv, OutcomeInv, CallOutcome, CallTask, Tasks
<1>8. \A i \in 1..Len(Waiting) : /\ Waiting[i] \in Tasks
                                /\ Queued(Waiting[i], issued, at)
                                /\ Waiting[i].by # Game
  BY <1>2, WaitingType DEF CallInv, OrderInv, Queued
<1>9. \A begun \in ran : begun \in Tasks /\ begun.n <= issued[begun.by]
  BY DEF CallInv, CallTypes, OrderInv
<1> HIDE DEF n
<1>10. ASSUME NEW value \in {"Done", "Pending"},
              state' = [state EXCEPT ![<<Game, n>>] = value]
       PROVE  /\ state' \in [Calls -> CallStates]
              /\ state'[<<Game, n>>] = value
              /\ \A u \in Threads, m \in 1..MaxOwnTasks :
                   u # Game \/ m # n => state'[<<u, m>>] = state[<<u, m>>]
  <2>1. value \in CallStates
    BY <1>10 DEF CallStates
  <2>2. CallTypes /\ n \in 1..MaxOwnTasks
    BY <1>4 DEF CallInv
  <2>3. QED
    BY <1>2, <1>10, <2>1, <2>2, StateSet
<1>11. ASSUME NEW value \in {"Done", "Pending"},
              state' = [state EXCEPT ![<<Game, n>>] = value]
       PROVE  HeadInv'
  <2>1. SUFFICES ASSUME Head(batch).kind = "Call"
                 PROVE  state'[<<Head(batch).by, Head(batch).n>>] = "Running"
    BY <1>1 DEF HeadInv
  <2>2. Head(batch) \in Tasks /\ state[<<Head(batch).by, Head(batch).n>>] = "Running"
    BY <1>2, <2>1, WaitingHead DEF CallInv, DrainInv, HeadInv
  <2>3. QED
    BY <1>7, <1>10, <1>11, <2>2 DEF Tasks
<1>12. CASE /\ state' = [state EXCEPT ![<<Game, n>>] = "Done"]
            /\ ran' = ran \union {task} /\ UNCHANGED <<queue, at>>
  <2>1. /\ state' \in [Calls -> CallStates]
        /\ state'[<<Game, n>>] = "Done"
        /\ \A u \in Threads, m \in 1..MaxOwnTasks :
             u # Game \/ m # n => state'[<<u, m>>] = state[<<u, m>>]
    BY <1>10, <1>12
  <2>2. CallTypes'
    BY <1>1, <1>4, <1>7, <1>12, <2>1 DEF CallInv, CallTypes
  <2>3. CallerInv' /\ DrainInv'
    BY <1>1, <1>4, <1>5, <1>12 DEF CallInv, CallerInv, DrainInv, Draining
  <2>4. HeadInv'
    BY <1>11, <1>12
  <2>5. OutcomeInv'
    <3>1. ASSUME NEW u \in Threads, NEW m \in 1..MaxOwnTasks
          PROVE  CallOutcome(u, m)'
      <4>1. CallOutcome(u, m)
        BY DEF CallInv, OutcomeInv
      <4>2. CASE u = Game /\ m = n
        BY <1>4, <1>12, <2>1, <4>2 DEF CallOutcome, CallTask
      <4>3. CASE u # Game
        BY <1>4, <1>12, <2>1, <4>1, <4>3 DEF CallOutcome, CallTask
      <4>4. CASE u = Game /\ m # n
        <5>1. state[<<u, m>>] \notin {"Pending", "Running"}
          BY <1>2, <4>1, <4>4 DEF CallOutcome
        <5>2. m > issued'[u] => m > issued[u]
          BY <1>4, <1>5, <4>4
        <5>3. QED
          BY <1>12, <2>1, <4>1, <4>4, <5>1, <5>2 DEF CallOutcome, CallTask
      <4>5. QED
        BY <4>2, <4>3, <4>4
    <3>2. QED
      BY <3>1 DEF OutcomeInv
  <2>6. OrderInv'
    <3>1. Waiting' = Waiting
      BY <1>1, <1>12 DEF Waiting
    <3>2. \A i \in 1..Len(Waiting) : Queued(Waiting[i], issued', at')
      BY <1>4, <1>8, <1>12 DEF Queued, Tasks
    <3>3. \A begun \in ran' : begun.n <= issued'[begun.by]
      <4>1. ASSUME NEW begun \in ran PROVE begun.n <= issued'[begun.by]
        <5>1. begun.by \in Threads /\ begun.n \in Nat /\ begun.n <= issued[begun.by]
          BY <1>9 DEF Tasks
        <5>2. QED
          BY <1>4, <1>5, <5>1
      <4>2. task.n <= issued'[task.by]
        BY <1>4, <1>5 DEF CallTask
      <4>3. QED
        BY <1>12, <4>1, <4>2
    <3>4. \A i \in 1..Len(Waiting) : NotAfter(task, Waiting[i])
      BY <1>8 DEF NotAfter, CallTask
    <3>5. \A begun \in ran' : \A i \in 1..Len(Waiting) : NotAfter(begun, Waiting[i])
      BY <1>12, <3>4 DEF CallInv, OrderInv
    <3>6. QED
      BY <3>1, <3>2, <3>3, <3>5 DEF CallInv, OrderInv, Before, NotAfter
  <2>7. QED
    BY <2>2, <2>3, <2>4, <2>5, <2>6 DEF CallInv
<1>13. CASE /\ state' = [state EXCEPT ![<<Game, n>>] = "Pending"]
            /\ Enqueue(task) /\ at' = [at EXCEPT ![Game] = "Wait"] /\ UNCHANGED ran
  <2>1. /\ state' \in [Calls -> CallStates]
        /\ state'[<<Game, n>>] = "Pending"
        /\ \A u \in Threads, m \in 1..MaxOwnTasks :
             u # Game \/ m # n => state'[<<u, m>>] = state[<<u, m>>]
    BY <1>10, <1>13
  <2>2. /\ at' \in [Threads -> Places] /\ at'[Game] = "Wait"
        /\ \A u \in Threads : u # Game => at'[u] = at[u]
    BY <1>2, <1>13 DEF CallInv, CallTypes, Places
  <2>3. CallTypes'
    <3>1. queue' \in Seq(Tasks)
      BY <1>7, <1>13 DEF CallInv, CallTypes, Enqueue
    <3>2. \A u \in Threads :
            registered[u] <=> u # Game /\ at'[u] \in {"Push", "HandBack", "Wait", "Restore"}
      BY <2>2 DEF CallInv, CallTypes
    <3>3. QED
      BY <1>1, <1>4, <1>13, <2>1, <2>2, <3>1, <3>2 DEF CallInv, CallTypes
  <2>4. CallerInv' /\ DrainInv'
    BY <1>1, <1>2, <1>4, <2>2 DEF CallInv, CallerInv, DrainInv, Draining
  <2>5. HeadInv'
    BY <1>11, <1>13
  <2>6. OutcomeInv'
    <3>1. ASSUME NEW u \in Threads, NEW m \in 1..MaxOwnTasks
          PROVE  CallOutcome(u, m)'
      <4>1. CallOutcome(u, m)
        BY DEF CallInv, OutcomeInv
      <4>2. CASE u = Game /\ m = n
        BY <1>4, <1>7, <1>13, <2>1, <2>2, <4>2 DEF CallOutcome, CallTask
      <4>3. CASE u # Game
        BY <1>4, <1>13, <2>1, <2>2, <4>1, <4>3 DEF CallOutcome, CallTask
      <4>4. CASE u = Game /\ m # n
        <5>1. state[<<u, m>>] \notin {"Pending", "Running"}
          BY <1>2, <4>1, <4>4 DEF CallOutcome
        <5>2. m > issued'[u] => m > issued[u]
          BY <1>4, <1>5, <4>4
        <5>3. QED
          BY <1>13, <2>1, <4>1, <4>4, <5>1, <5>2 DEF CallOutcome, CallTask
      <4>5. QED
        BY <4>2, <4>3, <4>4
    <3>2. QED
      BY <3>1 DEF OutcomeInv
  <2>7. OrderInv'
    <3>1. Queued(task, issued', at')
      BY <1>4, <1>5, <2>2 DEF Queued, CallTask
    <3>2. \A i \in 1..Len(Waiting) :
            Queued(Waiting[i], issued', at') /\ Before(Waiting[i], task)
      BY <1>4, <1>8, <2>2 DEF Queued, Before, CallTask, Tasks
    <3>3. ASSUME NEW begun \in ran PROVE NotAfter(begun, task)
      <4>1. CASE begun.by = Game
        BY <1>4, <1>5, <1>9, <4>1 DEF NotAfter, CallTask, Tasks
      <4>2. CASE begun.by # Game
        BY <4>2 DEF NotAfter, CallTask
      <4>3. QED
        BY <4>1, <4>2
    <3>4. QED
      BY <1>1, <1>5, <1>7, <1>13, <3>1, <3>2, <3>3, OrderAppended
  <2>8. QED
    BY <2>3, <2>4, <2>5, <2>6, <2>7 DEF CallInv
<1>14. QED
  BY <1>6, <1>12, <1>13

-----------------------------------------------------------------------------
LEMMA CallInvStep == CallInv /\ [Next]_vars => CallInv'
<1> SUFFICES ASSUME CallInv, [Next]_vars PROVE CallInv'
  OBVIOUS
<1>1. CASE UNCHANGED vars
  BY <1>1, IdleStep DEF vars, frameVars
<1>2. ASSUME NEW t \in Scripts, ScriptStep(t)
      PROVE  CallInv'
  <2>1. CASE Read(t) \/ EndRead(t)
    BY <2>1, IdleStep DEF Read, EndRead
  <2>2. CASE HandBack(t) \/ Wake(t) \/ End(t)
    BY <2>2, MoveStep
  <2>3. QED
    BY <1>2, <2>1, <2>2, PostStep, ExecuteStep, RegisterStep, PushCallStep, RestoreStep
       DEF ScriptStep
<1>3. ASSUME NEW t \in Scripts, BeginJoin(t)
      PROVE  CallInv'
  BY <1>3, JoinStep DEF BeginJoin
<1>4. CASE GameStep
  <2>1. CASE EndJoin
    BY <2>1, JoinStep DEF EndJoin
  <2>2. QED
    BY <1>4, <2>1, FrameStep, TakeBatchStep, StartTaskStep, FinishTaskStep, NestedCallStep
       DEF GameStep
<1>5. QED
  BY <1>1, <1>2, <1>3, <1>4, RequestStopStep, RunStopCallbackStep DEF Next

(* Every step is a step of the lock, or leaves it alone. *)
LEMMA StepIsLockStep == [Next]_vars => [LockNext]_lockVars
<1> SUFFICES ASSUME [Next]_vars PROVE LockNext \/ UNCHANGED lockVars
  OBVIOUS
<1>1. ASSUME NEW t \in Threads, LockStep(t) PROVE LockNext
  BY <1>1 DEF LockNext
<1>2. CASE UNCHANGED vars
  BY <1>2 DEF vars, frameVars
<1>3. ASSUME NEW t \in Scripts, ScriptStep(t)
      PROVE  LockNext \/ UNCHANGED lockVars
  <2>1. CASE Read(t) \/ EndRead(t) \/ HandBack(t) \/ Restore(t)
    BY <1>1, <2>1, GameIsNoScript DEF Read, EndRead, HandBack, Restore, LockStep
  <2>2. CASE Post(t) \/ End(t) \/ Execute(t) \/ Register(t) \/ PushCall(t) \/ Wake(t)
    BY <2>2 DEF Post, End, Execute, Register, PushCall, Wake, frameVars
  <2>3. QED
    BY <1>3, <2>1, <2>2 DEF ScriptStep
<1>4. ASSUME NEW t \in Scripts, RequestStop(t) \/ RunStopCallback(t) \/ BeginJoin(t)
      PROVE  LockNext \/ UNCHANGED lockVars
  BY <1>1, <1>4, GameIsNoScript DEF RequestStop, RunStopCallback, BeginJoin, LockStep, frameVars
<1>5. CASE GameStep
  <2>1. CASE Frame
    BY <1>1, <2>1, GameIsNoScript
       DEF Frame, StartTick, FrameMove, EndBody, EndDrain, StartSlice, EndSlice, EndSleep,
           Reacquire, LockStep
  <2>2. CASE NestedCall \/ EndJoin
    BY <1>1, <2>2, GameIsNoScript DEF NestedCall, EndJoin, LockStep
  <2>3. CASE TakeBatch \/ StartTask \/ FinishTask
    BY <2>3 DEF TakeBatch, StartTask, FinishTask, frameVars
  <2>4. QED
    BY <1>5, <2>1, <2>2, <2>3 DEF GameStep
<1>6. QED
  BY <1>2, <1>3, <1>4, <1>5 DEF Next

LEMMA FrameInvStep == LockTypeOK /\ CallInv /\ FrameInv /\ [Next]_vars => FrameInv'
<1> SUFFICES ASSUME LockTypeOK, CallInv, FrameInv, [Next]_vars PROVE FrameInv'
  OBVIOUS
<1>1. CASE UNCHANGED frameVars
  BY <1>1, FrameKept DEF frameVars, lockVars
<1>2. ASSUME NEW t \in Scripts, Read(t) \/ EndRead(t) \/ HandBack(t) \/ Restore(t)
      PROVE  FrameInv'
  <2>1. /\ UNCHANGED <<active, phase, writeLockHeld>>
        /\ \/ Push(t, "Read") \/ Push(t, "ReadReleaser")
           \/ Pop(t, "Read") \/ Pop(t, "ReadReleaser")
    BY <1>2 DEF Read, EndRead, HandBack, Restore, OpenRead, CloseRead, OpenReadReleaser,
                CloseReadReleaser
  <2>2. scopes'[Game] = scopes[Game]
    <3>1. t # Game
      BY GameIsNoScript
    <3>2. ASSUME NEW kind, Push(t, kind) PROVE scopes'[Game] = scopes[Game]
      BY <3>1, <3>2, GameIsNoScript DEF Push, LockTypeOK
    <3>3. ASSUME NEW kind, Pop(t, kind) PROVE scopes'[Game] = scopes[Game]
      BY <3>1, <3>3, GameIsNoScript DEF Pop, LockTypeOK
    <3>4. QED
      BY <2>1, <3>2, <3>3
  <2>3. QED
    BY <2>1, <2>2, FrameKept
<1>3. ASSUME NEW t \in Scripts, BeginJoin(t)
      PROVE  FrameInv'
  <2>1. /\ UNCHANGED <<phase, writeLockHeld>>
        /\ Push(Game, "WriteReleaser") /\ active' = [active EXCEPT ![Game] = FALSE]
        /\ phase \notin {"Asleep", "AcquireWait"}
    BY <1>3 DEF BeginJoin, OpenWriteReleaser
  <2>2. "WriteReleaser" \in Kinds \ {"Write"} /\ ~active'[Game]
    BY <2>1, GameIsNoScript DEF Kinds, LockTypeOK
  <2>3. QED
    BY <2>1, <2>2, FramePush
<1>4. CASE EndJoin
  <2>1. /\ UNCHANGED <<phase, writeLockHeld>>
        /\ Pop(Game, "WriteReleaser")
        /\ ~Innermost(Game).outer.active => UNCHANGED active
    BY <1>4 DEF EndJoin, CloseWriteReleaser
  <2>2. "WriteReleaser" \in Kinds \ {"Write"}
    BY DEF Kinds
  <2>3. QED
    BY <2>1, <2>2, FramePop
<1>5. CASE NestedCall
  <2>1. CASE active[Game]
    BY <1>5, <2>1, FrameKept DEF NestedCall, lockVars
  <2>2. CASE ~active[Game]
    <3>1. /\ UNCHANGED <<active, phase, writeLockHeld>> /\ Push(Game, "ReadReleaser")
      BY <1>5, <2>2 DEF NestedCall, OpenReadReleaser
    <3>2. phase \notin {"Asleep", "AcquireWait"}
      BY <1>5 DEF NestedCall, InCallable, CallInv, DrainInv, Draining
    <3>3. "ReadReleaser" \in Kinds \ {"Write"}
      BY DEF Kinds
    <3>4. QED
      BY <3>1, <3>2, <3>3, FramePush
  <2>3. QED
    BY <2>1, <2>2
<1>6. CASE Frame
  BY <1>6, FrameMoveKeeps DEF Frame
<1>7. ASSUME NEW t \in Scripts, ScriptStep(t) \/ RequestStop(t) \/ RunStopCallback(t)
      PROVE  FrameInv'
  <2>1. CASE Post(t) \/ End(t) \/ Execute(t) \/ Register(t) \/ PushCall(t) \/ Wake(t)
             \/ RequestStop(t) \/ RunStopCallback(t)
    BY <1>1, <2>1 DEF Post, End, Execute, Register, PushCall, Wake, RequestStop, RunStopCallback
  <2>2. QED
    BY <1>2, <1>7, <2>1 DEF ScriptStep
<1>8. CASE TakeBatch \/ StartTask \/ FinishTask
  BY <1>1, <1>8 DEF TakeBatch, StartTask, FinishTask
<1>9. CASE UNCHANGED vars
  BY <1>1, <1>9 DEF vars
<1>10. QED
  BY <1>3, <1>4, <1>5, <1>6, <1>7, <1>8, <1>9 DEF Next, GameStep

(* The three invariants together. *)
LEMMA Invariance == Spec => [](LockInv /\ FrameInv /\ CallInv)
<1>1. Init => LockInv /\ FrameInv /\ CallInv
  BY LockInvInit, FrameInvInit, CallInvInit DEF Init, FrameInit
<1>2. LockInv /\ FrameInv /\ CallInv /\ [Next]_vars => (LockInv /\ FrameInv /\ CallInv)'
  <2> SUFFICES ASSUME LockInv, FrameInv, CallInv, [Next]_vars
               PROVE  LockInv' /\ FrameInv' /\ CallInv'
    OBVIOUS
  <2>1. LockInv'
    BY StepIsLockStep, LockInvStep
  <2>2. FrameInv'
    BY FrameInvStep DEF LockInv
  <2>3. CallInv'
    BY CallInvStep
  <2>4. QED
    BY <2>1, <2>2, <2>3
<1>3. QED
  BY <1>1, <1>2, PTL DEF Spec

-----------------------------------------------------------------------------
(***************************************************************************)
(* The types of the queue's state, the lock's and the frame's; and the     *)
(* stop callback is registered exactly inside Execute.                     *)
(***************************************************************************)
THEOREM CallTypesHold == Spec => []CallTypeOK
<1>1. LockInv /\ FrameInv /\ CallInv => CallTypeOK
  <2> SUFFICES ASSUME LockInv, FrameInv, CallInv PROVE CallTypeOK
    OBVIOUS
  <2>1. LockTypeOK /\ FrameOwnsLock
    BY DEF LockInv, FrameInv
  <2>2. registered = [t \in Threads |-> t # Game /\ at[t] \in {"Push", "HandBack", "Wait", "Restore"}]
    <3>1. registered = [t \in Threads |-> registered[t]]
      BY DEF CallInv, CallTypes
    <3>2. \A t \in Threads :
            registered[t] = (t # Game /\ at[t] \in {"Push", "HandBack", "Wait", "Restore"})
      BY DEF CallInv, CallTypes
    <3>3. QED
      BY <3>1, <3>2, Zenon
  <2>3. QED
    BY <2>1, <2>2 DEF CallTypeOK, CallInv, CallTypes
<1>2. QED
  BY <1>1, Invariance, PTL

(***************************************************************************)
(* GameThread.h:61-63: the callable of a call is never run after its       *)
(* caller has left Execute, whoever stops the script and when, for every   *)
(* number of scripts and calls.                                            *)
(***************************************************************************)
THEOREM CallableAliveHolds == Spec => []CallableAlive
<1>1. CallInv => CallableAlive
  <2> SUFFICES ASSUME CallInv, executing, Head(batch).kind = "Call"
               PROVE  /\ issued[Head(batch).by] = Head(batch).n
                      /\ at[Head(batch).by] \in {"HandBack", "Wait"}
    BY DEF CallableAlive
  <2>1. Head(batch) \in Tasks
    BY WaitingHead DEF CallInv, DrainInv
  <2>2. state[<<Head(batch).by, Head(batch).n>>] = "Running"
    BY DEF CallInv, HeadInv
  <2>3. CallOutcome(Head(batch).by, Head(batch).n)
    BY <2>1 DEF CallInv, OutcomeInv, Tasks
  <2>4. QED
    BY <2>2, <2>3 DEF CallOutcome
<1>2. QED
  BY <1>1, Invariance, PTL

(***************************************************************************)
(* GameThread.h:65-90: a call that was cancelled has not run and never     *)
(* will; one that is running or done has begun.                            *)
(***************************************************************************)
THEOREM OneOutcomeHolds == Spec => []OneOutcome
<1>1. CallInv => OneOutcome
  <2> SUFFICES ASSUME CallInv, NEW c \in Calls
               PROVE  [by |-> c[1], n |-> c[2], kind |-> "Call"] \in ran
                        <=> state[c] \in {"Running", "Done"}
    BY DEF OneOutcome
  <2>1. c[1] \in Threads /\ c[2] \in 1..MaxOwnTasks /\ c = <<c[1], c[2]>>
    BY DEF Calls
  <2>2. CallOutcome(c[1], c[2])
    BY <2>1 DEF CallInv, OutcomeInv
  <2>3. QED
    BY <2>1, <2>2 DEF CallOutcome, CallTask
<1>2. QED
  BY <1>1, Invariance, PTL

(***************************************************************************)
(* GameThread.h:185-204: Drain begins the tasks of one thread in the order *)
(* in which the thread queued them.                                        *)
(***************************************************************************)
THEOREM InOrderHolds == Spec => []InOrder
<1>1. CallInv => InOrder
  BY DEF CallInv, OrderInv, InOrder, Before, NotAfter, Waiting
<1>2. QED
  BY <1>1, Invariance, PTL
=============================================================================
