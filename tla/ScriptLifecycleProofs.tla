------------------------ MODULE ScriptLifecycleProofs ------------------------
(***************************************************************************)
(* Proofs about ScriptLifecycle for any files, any number of scripts and   *)
(* any callers.  Types and RegisteredHasIsolate hold whatever the callers  *)
(* do (BaseInv).  The rest holds for orderly callers: one thread restarts  *)
(* the console script, and no engine call begins during the shutdown       *)
(* (OrderInv); the runs refute it without either.                          *)
(***************************************************************************)
EXTENDS ScriptLifecycle, FiniteSetTheorems, TLAPS

(* A script that is stopping was asked to, or is past its JavaScript. *)
ScriptInv ==
  \A s \in Ids :
    /\ ~Born(s) => state[s] = "Stopped" /\ ~stopToken[s]
    /\ Born(s) /\ state[s] \in {"Stopping", "Stopped"} => ~GoingOn(s)

(* What the engine and the calls know of was created. *)
KnownInv ==
  /\ \A s \in scripts : Born(s)
  /\ console \in Ids => Born(console)
  /\ \A c \in Callers : \A s \in aim[c] : Born(s)

(* The console script that is created and not published yet. *)
ConsoleAim ==
  \A c \in Callers : call[c] \in {"Emplace", "Publish"} =>
    \E s \in Ids : aim[c] = {s} /\ path[s] = Console

(* There is a script left for each call that will create one. *)
Reserved == Cardinality(Reserving) <= Cardinality(Unborn)

BaseInv ==
  /\ LifecycleTypeOK
  /\ ScriptInv
  /\ KnownInv
  /\ RegisteredHasIsolate
  /\ ConsoleAim
  /\ Reserved

-----------------------------------------------------------------------------
LEMMA FiniteParts ==
  /\ IsFiniteSet(Reserving) /\ Cardinality(Reserving) \in Nat
  /\ IsFiniteSet(Unborn) /\ Cardinality(Unborn) \in Nat
<1>1. IsFiniteSet(Ids)
  BY LifecycleAssumption, FS_Interval DEF Ids
<1>2. IsFiniteSet({Game, UI, Unloader})
  <2>1. IsFiniteSet({Game})
    BY FS_Singleton
  <2>2. IsFiniteSet({Game} \cup {UI})
    BY <2>1, FS_AddElement
  <2>3. IsFiniteSet(({Game} \cup {UI}) \cup {Unloader})
    BY <2>2, FS_AddElement
  <2>4. {Game, UI, Unloader} = ({Game} \cup {UI}) \cup {Unloader}
    OBVIOUS
  <2> QED
    BY <2>3, <2>4
<1>3. IsFiniteSet(Callers)
  BY <1>1, <1>2, FS_Union DEF Callers
<1>4. Reserving \subseteq Callers /\ Unborn \subseteq Ids
  BY DEF Reserving, Unborn
<1> QED
  BY <1>1, <1>3, <1>4, FS_Subset, FS_CardinalityType

LEMMA FreshIsUnborn ==
  ASSUME Unborn # {}
  PROVE  Fresh \in Ids /\ ~Born(Fresh) /\ Fresh \in Unborn
BY DEF Fresh, Unborn

LEMMA RoomHasFresh ==
  ASSUME Room
  PROVE  Unborn # {}
BY FiniteParts, FS_EmptySet DEF Room

(* A call that reserves a script finds one. *)
LEMMA ReserverHasFresh ==
  ASSUME Reserved, NEW c \in Reserving
  PROVE  Unborn # {}
<1>1. Cardinality(Reserving) # 0
  BY FiniteParts, FS_EmptySet
<1> QED
  BY <1>1, FiniteParts, FS_EmptySet DEF Reserved

(* Fewer or the same reservations, and nothing is born. *)
LEMMA ReservedKept ==
  ASSUME Reserved, Reserving' \subseteq Reserving, Unborn' = Unborn
  PROVE  Reserved'
<1>1. Cardinality(Reserving') <= Cardinality(Reserving) /\ IsFiniteSet(Reserving')
  BY FiniteParts, FS_Subset
<1>2. Cardinality(Reserving') \in Nat
  BY <1>1, FS_CardinalityType
<1> QED
  BY <1>1, <1>2, FiniteParts DEF Reserved

-----------------------------------------------------------------------------
LEMMA BaseInvInit == Init => BaseInv
<1> SUFFICES ASSUME Init
             PROVE  BaseInv
  OBVIOUS
<1> USE LifecycleAssumption DEF Init
<1>1. 1 \in Ids
  BY DEF Ids
<1>2. LifecycleTypeOK
  BY <1>1 DEF LifecycleTypeOK, States, Steps, CallSteps
<1>3. ScriptInv /\ KnownInv /\ RegisteredHasIsolate /\ ConsoleAim
  BY <1>1 DEF ScriptInv, KnownInv, RegisteredHasIsolate, ConsoleAim, Born, GoingOn
<1>4. Reserved
  <2>1. Reserving = {}
    BY DEF Reserving
  <2> QED
    BY <2>1, FiniteParts, FS_EmptySet DEF Reserved
<1> QED
  BY <1>2, <1>3, <1>4 DEF BaseInv

(* The steps of a script's thread, and a pause. *)
LEMMA ThreadStepKeeps ==
  ASSUME BaseInv, NEW s \in Ids, ThreadStep(s) \/ EndOfScript(s) \/ PauseOrResume(s)
  PROVE  BaseInv'
<1> USE DEF BaseInv
<1>1. /\ UNCHANGED <<path, stopToken, terminated, console, call, aim>>
      /\ scripts' \subseteq scripts
      /\ at' \in [Ids -> Steps] /\ state' \in [Ids -> States]
      /\ \A r \in Ids \ {s} : at'[r] = at[r] /\ state'[r] = state[r]
      /\ Born(s)' /\ Born(s)
      /\ state[s] \in {"Stopping", "Stopped"} => state'[s] \in {"Stopping", "Stopped"}
      /\ \/ state'[s] \in {"Stopping", "Stopped"} => state[s] \in {"Stopping", "Stopped"}
         \/ at'[s] \in {"Remove", "Done"}
      /\ at[s] \in {"Remove", "Exit", "Done"} => at'[s] \in {"Remove", "Exit", "Done"}
      /\ at'[s] \in {"Exit", "Done"} => path[s] = Console \/ s \notin scripts'
  <2> USE DEF LifecycleTypeOK, States, Steps, Moves, ThreadKeeps, CompareExchange, Born
  <2>1. at[s] \in Steps /\ state[s] \in States /\ (stopToken[s] => state[s] \in {"Stopping", "Stopped"})
    OBVIOUS
  <2>2. CASE Boot(s)
    BY <2>1, <2>2 DEF Boot
  <2>3. CASE SetUp(s)
    BY <2>1, <2>3 DEF SetUp
  <2>4. CASE Enter(s)
    BY <2>1, <2>4 DEF Enter
  <2>5. CASE RemoveSelf(s)
    BY <2>1, <2>5 DEF RemoveSelf
  <2>6. CASE Exit(s)
    BY <2>1, <2>6 DEF Exit, RegisteredHasIsolate
  <2>7. CASE EndOfScript(s)
    BY <2>1, <2>7 DEF EndOfScript
  <2>8. CASE PauseOrResume(s)
    BY <2>1, <2>8 DEF PauseOrResume, RegisteredHasIsolate, ScriptInv
  <2> QED
    BY <2>2, <2>3, <2>4, <2>5, <2>6, <2>7, <2>8 DEF ThreadStep
<1>2. LifecycleTypeOK'
  BY <1>1 DEF LifecycleTypeOK
<1>3. ScriptInv'
  <2>1. ASSUME NEW r \in Ids \ {s}
        PROVE  /\ ~Born(r)' => state'[r] = "Stopped" /\ ~stopToken'[r]
               /\ Born(r)' /\ state'[r] \in {"Stopping", "Stopped"} => ~GoingOn(r)'
    BY <1>1 DEF ScriptInv, Born, GoingOn
  <2>2. Born(s)' /\ state'[s] \in {"Stopping", "Stopped"} => ~GoingOn(s)'
    BY <1>1 DEF ScriptInv, Born, GoingOn, LifecycleTypeOK, Steps
  <2> QED
    BY <1>1, <2>1, <2>2 DEF ScriptInv
<1>4. KnownInv'
  BY <1>1 DEF KnownInv, Born, LifecycleTypeOK
<1>5. RegisteredHasIsolate'
  BY <1>1 DEF RegisteredHasIsolate, LifecycleTypeOK
<1>6. ConsoleAim'
  BY <1>1 DEF ConsoleAim
<1>7. Reserving' = Reserving /\ Unborn' = Unborn
  BY <1>1 DEF Reserving, Unborn, Born
<1>8. Reserved'
  BY <1>7, ReservedKept
<1> QED
  BY <1>2, <1>3, <1>4, <1>5, <1>6, <1>8

(* Stopping scripts, with what the caller does to its call. *)
LEMMA StopKeeps ==
  ASSUME BaseInv, NEW set \in SUBSET Ids, Stop(set), UNCHANGED <<at, path, scripts, console, aim>>,
         call' \in [Callers -> CallSteps],
         \A c \in Callers : call'[c] = call[c] \/ call'[c] \in {"JoinOld", "TakeConsole", "Snapshot"},
         Reserving' \subseteq Reserving
  PROVE  BaseInv'
<1> USE DEF BaseInv
<1>1. /\ state' \in [Ids -> States] /\ stopToken' \in [Ids -> BOOLEAN] /\ terminated' \subseteq Ids
      /\ \A s \in Ids :
           \/ state'[s] = "Stopping" /\ stopToken'[s] /\ state[s] \notin {"Stopping", "Stopped"}
           \/ state'[s] = state[s] /\ stopToken'[s] = stopToken[s]
  BY DEF Stop, StopStates, RequestStop, Active, LifecycleTypeOK, States
<1>2. LifecycleTypeOK'
  BY <1>1 DEF LifecycleTypeOK
<1>3. ScriptInv'
  BY <1>1 DEF ScriptInv, Born, GoingOn
<1>4. KnownInv'
  BY DEF KnownInv, Born
<1>5. RegisteredHasIsolate'
  BY DEF RegisteredHasIsolate
<1>6. ConsoleAim'
  BY DEF ConsoleAim
<1>7. Unborn' = Unborn
  BY DEF Unborn, Born
<1>8. Reserved'
  BY <1>7, ReservedKept
<1> QED
  BY <1>2, <1>3, <1>4, <1>5, <1>6, <1>8

(* A script is started: what becomes of the scripts. *)
LEMMA StartsFacts ==
  ASSUME BaseInv, Unborn # {}, NEW p \in Paths, NEW replaced \in SUBSET scripts, Starts(p, replaced)
  PROVE  /\ Fresh \in Ids /\ ~Born(Fresh)
         /\ state' \in [Ids -> States] /\ at' \in [Ids -> Steps] /\ path' \in [Ids -> Paths]
         /\ stopToken' \in [Ids -> BOOLEAN] /\ terminated' \subseteq Ids
         /\ at'[Fresh] = "Boot" /\ path'[Fresh] = p
         /\ state'[Fresh] = "Starting" /\ ~stopToken'[Fresh]
         /\ \A s \in Ids \ {Fresh} :
              /\ at'[s] = at[s] /\ path'[s] = path[s]
              /\ \/ state'[s] = "Stopping" /\ stopToken'[s] /\ state[s] \notin {"Stopping", "Stopped"}
                 \/ state'[s] = state[s] /\ stopToken'[s] = stopToken[s]
              /\ s \in replaced /\ state[s] \notin {"Stopping", "Stopped"} => stopToken'[s]
         /\ Unborn' = Unborn \ {Fresh}
         /\ Cardinality(Unborn') = Cardinality(Unborn) - 1
<1> USE DEF BaseInv
<1>1. Fresh \in Ids /\ ~Born(Fresh) /\ Fresh \in Unborn
  BY FreshIsUnborn
<1>2. Fresh \notin replaced /\ state[Fresh] = "Stopped" /\ ~stopToken[Fresh]
  BY <1>1 DEF KnownInv, ScriptInv
<1> DEFINE f == Fresh
<1> HIDE DEF f
<1>3. /\ state' = [StopStates(replaced) EXCEPT ![f] = "Starting"]
      /\ RequestStop(replaced)
      /\ at' = [at EXCEPT ![f] = "Boot"]
      /\ path' = [path EXCEPT ![f] = p]
  BY DEF Starts, f
<1>4. /\ f \in Ids /\ f \notin replaced /\ state[f] = "Stopped" /\ ~stopToken[f]
      /\ replaced \subseteq Ids
  BY <1>1, <1>2 DEF f, LifecycleTypeOK
<1>5. /\ state' \in [Ids -> States] /\ state'[f] = "Starting"
      /\ stopToken' \in [Ids -> BOOLEAN] /\ ~stopToken'[f] /\ terminated' \subseteq Ids
      /\ \A s \in Ids \ {f} :
              /\ \/ state'[s] = "Stopping" /\ stopToken'[s] /\ state[s] \notin {"Stopping", "Stopped"}
                 \/ state'[s] = state[s] /\ stopToken'[s] = stopToken[s]
              /\ s \in replaced /\ state[s] \notin {"Stopping", "Stopped"} => stopToken'[s]
  BY <1>3, <1>4 DEF StopStates, RequestStop, Active, LifecycleTypeOK, States
<1>6. /\ at' \in [Ids -> Steps] /\ path' \in [Ids -> Paths]
      /\ at'[f] = "Boot" /\ path'[f] = p
      /\ \A s \in Ids \ {f} : at'[s] = at[s] /\ path'[s] = path[s]
  BY <1>3, <1>4 DEF LifecycleTypeOK, Steps
<1>7. Unborn' = Unborn \ {f}
  BY <1>4, <1>6 DEF Unborn, Born
<1>8. Cardinality(Unborn') = Cardinality(Unborn) - 1
  BY <1>1, <1>7, FiniteParts, FS_RemoveElement DEF f
<1> QED
  BY <1>1, <1>4, <1>5, <1>6, <1>7, <1>8 DEF f

LEMMA StartScriptKeeps ==
  ASSUME BaseInv, NEW c \in Callers, NEW p \in Files, StartScript(c, p)
  PROVE  BaseInv'
<1> USE DEF BaseInv
<1>1. p \in Paths /\ p # Console /\ SamePath(p) \in SUBSET scripts
  BY DEF Files, SamePath
<1>2. Room /\ call[c] = "Idle" /\ Starts(p, SamePath(p))
  BY DEF StartScript, MayStart, May
<1>3. Unborn # {}
  BY <1>2, RoomHasFresh
<1> DEFINE f == Fresh
<1>4. /\ f \in Ids /\ ~Born(f)
      /\ state' \in [Ids -> States] /\ at' \in [Ids -> Steps] /\ path' \in [Ids -> Paths]
      /\ stopToken' \in [Ids -> BOOLEAN] /\ terminated' \subseteq Ids
      /\ at'[f] = "Boot" /\ path'[f] = p
      /\ state'[f] = "Starting" /\ ~stopToken'[f]
      /\ \A s \in Ids \ {f} :
           /\ at'[s] = at[s] /\ path'[s] = path[s]
           /\ \/ state'[s] = "Stopping" /\ stopToken'[s] /\ state[s] \notin {"Stopping", "Stopped"}
              \/ state'[s] = state[s] /\ stopToken'[s] = stopToken[s]
      /\ Cardinality(Unborn') = Cardinality(Unborn) - 1
  BY <1>1, <1>2, <1>3, StartsFacts
<1>5. /\ scripts' = (scripts \ SamePath(p)) \union {f}
      /\ call' = [call EXCEPT ![c] = IF SamePath(p) = {} THEN "Idle" ELSE "Join"]
      /\ aim' = [aim EXCEPT ![c] = SamePath(p)]
      /\ UNCHANGED console
  BY DEF StartScript
<1> HIDE DEF f
<1>6. LifecycleTypeOK'
  BY <1>1, <1>4, <1>5 DEF LifecycleTypeOK, CallSteps
<1>7. ScriptInv'
  BY <1>4 DEF ScriptInv, Born, GoingOn
<1>8. KnownInv'
  <2>1. /\ \A s \in Ids : at[s] # "Unborn" => at'[s] # "Unborn"
        /\ at'[f] # "Unborn"
    BY <1>4
  <2>2. aim' = [d \in Callers |-> IF d = c THEN SamePath(p) ELSE aim[d]]
    BY <1>5 DEF LifecycleTypeOK
  <2> QED
    BY <1>1, <1>5, <2>1, <2>2 DEF KnownInv, LifecycleTypeOK, Born
<1>9. RegisteredHasIsolate'
  BY <1>4, <1>5 DEF RegisteredHasIsolate, LifecycleTypeOK
<1>10. ConsoleAim'
  <2> SUFFICES ASSUME NEW d \in Callers, call'[d] \in {"Emplace", "Publish"}
               PROVE  \E s \in Ids : aim'[d] = {s} /\ path'[s] = Console
    BY DEF ConsoleAim
  <2>1. d # c /\ call'[d] = call[d] /\ aim'[d] = aim[d]
    BY <1>5 DEF LifecycleTypeOK
  <2>2. PICK s \in Ids : aim[d] = {s} /\ path[s] = Console
    BY <2>1 DEF ConsoleAim
  <2>3. s # f
    BY <1>4, <2>2 DEF KnownInv
  <2> QED
    BY <1>4, <2>1, <2>2, <2>3
<1>11. Reserving' = Reserving
  BY <1>2, <1>5 DEF Reserving, LifecycleTypeOK
<1>12. Reserved'
  BY <1>2, <1>4, <1>11, FiniteParts DEF Reserved, Room
<1> QED
  BY <1>6, <1>7, <1>8, <1>9, <1>10, <1>12

LEMMA CreateConsoleKeeps ==
  ASSUME BaseInv, NEW c \in Callers, CreateConsole(c)
  PROVE  BaseInv'
<1> USE DEF BaseInv
<1>1. /\ call[c] = "Create" /\ call' = [call EXCEPT ![c] = "Emplace"]
      /\ Starts(Console, {}) /\ aim' = [aim EXCEPT ![c] = {Fresh}]
      /\ UNCHANGED <<scripts, console>>
  BY DEF CreateConsole, Step
<1>2. c \in Reserving
  BY <1>1 DEF Reserving
<1>3. Unborn # {}
  BY <1>2, ReserverHasFresh
<1> DEFINE f == Fresh
<1>4. /\ f \in Ids /\ ~Born(f)
      /\ state' \in [Ids -> States] /\ at' \in [Ids -> Steps] /\ path' \in [Ids -> Paths]
      /\ stopToken' \in [Ids -> BOOLEAN] /\ terminated' \subseteq Ids
      /\ at'[f] = "Boot" /\ path'[f] = Console
      /\ state'[f] = "Starting" /\ ~stopToken'[f]
      /\ \A s \in Ids \ {f} :
           /\ at'[s] = at[s] /\ path'[s] = path[s]
           /\ \/ state'[s] = "Stopping" /\ stopToken'[s] /\ state[s] \notin {"Stopping", "Stopped"}
              \/ state'[s] = state[s] /\ stopToken'[s] = stopToken[s]
      /\ Cardinality(Unborn') = Cardinality(Unborn) - 1
  BY <1>1, <1>3, StartsFacts, LifecycleAssumption
<1>5. aim' = [aim EXCEPT ![c] = {f}]
  BY <1>1
<1> HIDE DEF f
<1>6. LifecycleTypeOK'
  BY <1>1, <1>4, <1>5 DEF LifecycleTypeOK, CallSteps
<1>7. ScriptInv'
  BY <1>4 DEF ScriptInv, Born, GoingOn
<1>8. KnownInv'
  <2>1. /\ \A s \in Ids : at[s] # "Unborn" => at'[s] # "Unborn"
        /\ at'[f] # "Unborn"
    BY <1>4
  <2>2. aim' = [d \in Callers |-> IF d = c THEN {f} ELSE aim[d]]
    BY <1>5 DEF LifecycleTypeOK
  <2> QED
    BY <1>1, <2>1, <2>2 DEF KnownInv, LifecycleTypeOK, Born
<1>9. RegisteredHasIsolate'
  BY <1>1, <1>4 DEF RegisteredHasIsolate, LifecycleTypeOK
<1>10. ConsoleAim'
  <2> SUFFICES ASSUME NEW d \in Callers, call'[d] \in {"Emplace", "Publish"}
               PROVE  \E s \in Ids : aim'[d] = {s} /\ path'[s] = Console
    BY DEF ConsoleAim
  <2>1. CASE d = c
    BY <1>4, <1>5, <2>1 DEF LifecycleTypeOK
  <2>2. CASE d # c
    <3>1. call'[d] = call[d] /\ aim'[d] = aim[d]
      BY <1>1, <1>5, <2>2 DEF LifecycleTypeOK
    <3>2. PICK s \in Ids : aim[d] = {s} /\ path[s] = Console
      BY <3>1 DEF ConsoleAim
    <3>3. s # f
      BY <1>4, <3>2 DEF KnownInv
    <3> QED
      BY <1>4, <3>1, <3>2, <3>3
  <2> QED
    BY <2>1, <2>2
<1>11. Reserving' = Reserving \ {c}
  BY <1>1 DEF Reserving, LifecycleTypeOK
<1>12. Cardinality(Reserving') = Cardinality(Reserving) - 1
  BY <1>2, <1>11, FiniteParts, FS_RemoveElement
<1>13. Reserved'
  BY <1>4, <1>12, FiniteParts DEF Reserved
<1> QED
  BY <1>6, <1>7, <1>8, <1>9, <1>10, <1>13

(* The steps that change what the engine and the calls know of. *)
LEMMA BookkeepingKeeps ==
  ASSUME BaseInv, UNCHANGED <<state, at, path, stopToken, terminated>>,
         scripts' \subseteq Ids, console' \in Ids \union {NoScript},
         call' \in [Callers -> CallSteps], aim' \in [Callers -> SUBSET Ids],
         KnownInv', RegisteredHasIsolate', ConsoleAim', Reserved'
  PROVE  BaseInv'
BY DEF BaseInv, LifecycleTypeOK, ScriptInv, Born, GoingOn

LEMMA RestartConsoleKeeps ==
  ASSUME BaseInv, NEW c \in Callers, RestartConsole(c)
  PROVE  BaseInv'
<1> USE DEF BaseInv
<1>1. /\ call[c] = "Idle" /\ Room /\ console' = NoScript
      /\ UNCHANGED <<state, at, path, stopToken, terminated, scripts>>
      /\ \/ /\ call' = [call EXCEPT ![c] = "Create"] /\ UNCHANGED aim
         \/ /\ console # NoScript
            /\ call' = [call EXCEPT ![c] = "StopOld"] /\ aim' = [aim EXCEPT ![c] = {console}]
  BY DEF RestartConsole, May, Step
<1>2. console' \notin Ids
  BY <1>1, LifecycleAssumption
<1>3. call' \in [Callers -> CallSteps] /\ aim' \in [Callers -> SUBSET Ids]
  BY <1>1 DEF LifecycleTypeOK, CallSteps
<1>4. KnownInv'
  BY <1>1, <1>2 DEF KnownInv, Born, LifecycleTypeOK
<1>5. RegisteredHasIsolate'
  BY <1>1 DEF RegisteredHasIsolate
<1>6. ConsoleAim'
  BY <1>1 DEF ConsoleAim, LifecycleTypeOK
<1>7. Reserved'
  <2>1. Reserving' = Reserving \union {c}
    BY <1>1 DEF Reserving, LifecycleTypeOK
  <2>2. /\ IsFiniteSet(Reserving \union {c})
        /\ Cardinality(Reserving \union {c})
             = IF c \in Reserving THEN Cardinality(Reserving) ELSE Cardinality(Reserving) + 1
    BY FiniteParts, FS_AddElement, Zenon
  <2>3. Unborn' = Unborn
    BY <1>1 DEF Unborn, Born
  <2>4. Cardinality(Reserving') <= Cardinality(Reserving) + 1 /\ Cardinality(Reserving') \in Nat
    BY <2>1, <2>2, FiniteParts
  <2> QED
    BY <1>1, <2>3, <2>4, FiniteParts DEF Reserved, Room
<1> QED
  BY <1>1, <1>3, <1>4, <1>5, <1>6, <1>7, BookkeepingKeeps DEF LifecycleTypeOK

(* The steps that end a call or go on with it and start nothing. *)
LEMMA CallStepKeeps ==
  ASSUME BaseInv, NEW c \in Callers,
         \/ \E s \in Ids : JSJoin(c, s)
         \/ EndJoin(c) \/ JoinOld(c) \/ EmplaceConsole(c) \/ PublishConsole(c)
  PROVE  BaseInv'
<1> USE DEF BaseInv
<1>1. /\ UNCHANGED <<state, at, path, stopToken, terminated>>
      /\ scripts' \subseteq scripts \union {s \in aim[c] : call[c] = "Emplace"}
      /\ console' = console \/ (call[c] = "Publish" /\ console' = CHOOSE s \in aim[c] : TRUE)
      /\ \E step \in {"Idle", "WaitFor", "Create", "Publish"} :
           /\ call' = [call EXCEPT ![c] = step]
           /\ step = "Create" => call[c] = "JoinOld"
           /\ step = "Publish" => call[c] = "Emplace" /\ UNCHANGED aim
      /\ \E set \in {aim[c], {}} \union {{s} : s \in scripts} : aim' = [aim EXCEPT ![c] = set]
  <2>1. aim = [aim EXCEPT ![c] = aim[c]]
    BY DEF LifecycleTypeOK
  <2>2. CASE \E s \in Ids : JSJoin(c, s)
    BY <2>2 DEF JSJoin, Step
  <2>3. CASE EndJoin(c)
    BY <2>3 DEF EndJoin
  <2>4. CASE JoinOld(c)
    BY <2>4 DEF JoinOld, Step
  <2>5. CASE EmplaceConsole(c)
    BY <2>1, <2>5 DEF EmplaceConsole, Step
  <2>6. CASE PublishConsole(c)
    BY <2>6 DEF PublishConsole, Step
  <2> QED
    BY <2>2, <2>3, <2>4, <2>5, <2>6
<1>2. call[c] \in {"Emplace", "Publish"} => \E s \in Ids : aim[c] = {s} /\ path[s] = Console
  BY DEF ConsoleAim
<1>3. console' = console \/ (console' \in Ids /\ console' \in aim[c])
  BY <1>1, <1>2
<1>4. call' \in [Callers -> CallSteps] /\ aim' \in [Callers -> SUBSET Ids]
  BY <1>1 DEF LifecycleTypeOK, CallSteps
<1>5. \A s \in Ids : Born(s)' <=> Born(s)
  BY <1>1 DEF Born
<1>6. KnownInv'
  <2>1. \A s \in scripts' : at[s] # "Unborn"
    BY <1>1 DEF KnownInv, LifecycleTypeOK, Born
  <2>2. console' \in Ids => at[console'] # "Unborn"
    BY <1>3 DEF KnownInv, LifecycleTypeOK, Born
  <2>3. \A d \in Callers : \A s \in aim'[d] : at[s] # "Unborn"
    BY <1>1 DEF KnownInv, LifecycleTypeOK, Born
  <2> QED
    BY <2>1, <2>2, <2>3, <1>1 DEF KnownInv, Born
<1>7. RegisteredHasIsolate'
  BY <1>1, <1>2 DEF RegisteredHasIsolate
<1>8. ConsoleAim'
  BY <1>1, <1>2 DEF ConsoleAim, LifecycleTypeOK
<1>9. Reserving' \subseteq Reserving
  BY <1>1 DEF Reserving, LifecycleTypeOK
<1>10. Reserved'
  BY <1>5, <1>9, ReservedKept DEF Unborn
<1> QED
  BY <1>1, <1>3, <1>4, <1>6, <1>7, <1>8, <1>10, BookkeepingKeeps DEF LifecycleTypeOK

LEMMA UnloadKeeps ==
  ASSUME BaseInv, TakeConsole \/ Snapshot \/ JoinAll \/ ClearScripts
  PROVE  BaseInv'
<1> USE DEF BaseInv
<1>1. Unloader \in Callers
  BY DEF Callers
<1>2. /\ UNCHANGED <<state, at, path, stopToken, terminated>>
      /\ scripts' \subseteq scripts /\ console' \in {console, NoScript}
      /\ \E step \in {"StopConsole", "JoinAll", "Clear", "Over"} :
           call' = [call EXCEPT ![Unloader] = step]
      /\ \E set \in {{console} \ {NoScript}, aim[Unloader] \union scripts, {}, aim[Unloader]} :
           aim' = [aim EXCEPT ![Unloader] = set]
  BY <1>1 DEF TakeConsole, Snapshot, JoinAll, ClearScripts, Step, LifecycleTypeOK
<1>3. call' \in [Callers -> CallSteps] /\ aim' \in [Callers -> SUBSET Ids]
  BY <1>1, <1>2 DEF LifecycleTypeOK, CallSteps
<1>4. KnownInv'
  BY <1>1, <1>2, LifecycleAssumption DEF KnownInv, Born, LifecycleTypeOK
<1>5. RegisteredHasIsolate'
  BY <1>2 DEF RegisteredHasIsolate
<1>6. ConsoleAim'
  BY <1>1, <1>2 DEF ConsoleAim, LifecycleTypeOK
<1>7. Reserving' \subseteq Reserving /\ Unborn' = Unborn
  BY <1>2 DEF Reserving, Unborn, Born, LifecycleTypeOK
<1>8. Reserved'
  BY <1>7, ReservedKept
<1> QED
  BY <1>2, <1>3, <1>4, <1>5, <1>6, <1>8, BookkeepingKeeps DEF LifecycleTypeOK

(* The steps that stop scripts, each with its set. *)
LEMMA StoppingStep ==
  ASSUME BaseInv,
         \/ \E c \in Callers : StopScripts(c) \/ StopOld(c)
         \/ Shutdown \/ StopConsole
  PROVE  /\ \E set \in SUBSET Ids : Stop(set)
         /\ UNCHANGED <<at, path, scripts, console, aim>>
         /\ call' \in [Callers -> CallSteps]
         /\ \A c \in Callers :
              call'[c] = call[c] \/ call'[c] \in {"JoinOld", "TakeConsole", "Snapshot"}
         /\ Reserving' \subseteq Reserving
<1> USE DEF BaseInv
<1>1. Unloader \in Callers
  BY DEF Callers
<1>2. CASE \E c \in Callers : StopScripts(c)
  <2>1. \E set \in SUBSET Ids : Stop(set)
    BY <1>2 DEF StopScripts, Plain, LifecycleTypeOK
  <2> QED
    BY <1>2, <2>1 DEF StopScripts, LifecycleTypeOK, Reserving
<1>3. CASE \E c \in Callers : StopOld(c)
  <2>1. PICK c \in Callers : StopOld(c)
    BY <1>3
  <2>2. aim[c] \in SUBSET Ids
    BY DEF LifecycleTypeOK
  <2>3. Reserving' \subseteq Reserving
    BY <2>1 DEF StopOld, Step, LifecycleTypeOK, Reserving
  <2> QED
    BY <2>1, <2>2, <2>3 DEF StopOld, Step, LifecycleTypeOK, CallSteps
<1>4. CASE Shutdown
  <2>1. Plain(scripts) \in SUBSET Ids
    BY DEF Plain, LifecycleTypeOK
  <2>2. Reserving' \subseteq Reserving
    BY <1>1, <1>4 DEF Shutdown, Step, LifecycleTypeOK, Reserving
  <2> QED
    BY <1>1, <1>4, <2>1, <2>2 DEF Shutdown, Step, LifecycleTypeOK, CallSteps
<1>5. CASE StopConsole
  <2>1. aim[Unloader] \in SUBSET Ids
    BY <1>1 DEF LifecycleTypeOK
  <2>2. Reserving' \subseteq Reserving
    BY <1>1, <1>5 DEF StopConsole, Step, LifecycleTypeOK, Reserving
  <2> QED
    BY <1>1, <1>5, <2>1, <2>2 DEF StopConsole, Step, LifecycleTypeOK, CallSteps
<1> QED
  BY <1>2, <1>3, <1>4, <1>5

LEMMA BaseInvStep ==
  ASSUME BaseInv, [Next]_vars
  PROVE  BaseInv'
<1>1. CASE UNCHANGED vars
  <2>1. UNCHANGED <<state, at, path, stopToken, terminated, scripts, console, call, aim>>
    BY <1>1 DEF vars
  <2>2. KnownInv' /\ RegisteredHasIsolate' /\ ConsoleAim'
    BY <2>1 DEF BaseInv, KnownInv, RegisteredHasIsolate, ConsoleAim, Born
  <2>3. Reserving' = Reserving /\ Unborn' = Unborn
    BY <2>1 DEF Reserving, Unborn, Born
  <2>4. Reserved'
    BY <2>3, ReservedKept DEF BaseInv
  <2> QED
    BY <2>1, <2>2, <2>4, BookkeepingKeeps DEF BaseInv, LifecycleTypeOK
<1>2. CASE \/ \E c \in Callers : StopScripts(c) \/ StopOld(c)
           \/ Shutdown \/ StopConsole
  BY <1>2, StoppingStep, StopKeeps
<1> QED
  BY <1>1, <1>2, ThreadStepKeeps, StartScriptKeeps, CreateConsoleKeeps, RestartConsoleKeeps,
     CallStepKeeps, UnloadKeeps DEF Next, EngineStep, ShutdownStep

LEMMA BaseInvHolds == Spec => []BaseInv
BY BaseInvInit, BaseInvStep, PTL DEF Spec

-----------------------------------------------------------------------------
(***************************************************************************)
(* Every variable keeps its type and a stopped script its state, for any   *)
(* files, callers and numbers of scripts, with everything switched on.     *)
(***************************************************************************)
THEOREM LifecycleTypesHold == Spec => []LifecycleTypeOK
<1>1. BaseInv => LifecycleTypeOK
  BY DEF BaseInv
<1> QED
  BY <1>1, BaseInvHolds, PTL

(***************************************************************************)
(* Script.cpp:277-279: whoever starts, stops, restarts and unloads, and    *)
(* in whatever order, a script in the map is not past RemoveSelfFromEngine *)
(* and so its isolate is not being disposed.                               *)
(***************************************************************************)
THEOREM RegisteredHasIsolateHolds == Spec => []RegisteredHasIsolate
<1>1. BaseInv => RegisteredHasIsolate
  BY DEF BaseInv
<1> QED
  BY <1>1, BaseInvHolds, PTL

-----------------------------------------------------------------------------
(* One thread restarts the console script, and the shutdown is the last of *)
(* the engine's calls.                                                     *)
Orderly == ~ShutdownRaces /\ \A c, d \in Restarters : c = d

Unloading == {"TakeConsole", "StopConsole", "Snapshot", "JoinAll", "Clear", "Over"}

(* Who is where: a replacement and the shutdown exclude each other, and    *)
(* there is no console script to be found while either is at work.         *)
RolesInv ==
  /\ \A c \in Callers : Replacing(c) => c \in Restarters /\ console = NoScript
  /\ \A c \in Callers : call[c] \in Unloading => c = Unloader
  /\ call[Unloader] \in Unloading \union {"Idle"}
  /\ call[Unloader] # "Idle" => call[Game] = "Idle" /\ call[UI] = "Idle"
  /\ call[Unloader] \in Unloading \ {"TakeConsole"} => console = NoScript

(* What is joined does not go on. *)
JoinInv ==
  \A c \in Callers : call[c] \in {"Join", "JoinOld", "JoinAll"} =>
    \A s \in aim[c] : ~GoingOn(s)

(* The new console script is in the map before it is published. *)
PublishInv == \A c \in Callers : call[c] = "Publish" => aim[c] \subseteq scripts

(* The shutdown has stopped the files' scripts, and then the console's.    *)
QuietInv ==
  /\ call[Unloader] # "Idle" => \A s \in Ids : GoingOn(s) => path[s] = Console
  /\ call[Unloader] \in {"Snapshot", "JoinAll", "Clear", "Over"} => \A s \in Ids : ~GoingOn(s)

OrderInv ==
  /\ RolesInv
  /\ JoinInv
  /\ PublishInv
  /\ QuietInv
  /\ NoOrphan
  /\ OnePerPath

-----------------------------------------------------------------------------
LEMMA OrderInvInit == Init => OrderInv
<1> SUFFICES ASSUME Init
             PROVE  OrderInv
  OBVIOUS
<1> USE LifecycleAssumption DEF Init
<1>1. 1 \in Ids /\ Unloader \in Callers /\ Game \in Callers /\ UI \in Callers
  BY DEF Ids, Callers
<1>2. RolesInv /\ JoinInv /\ PublishInv /\ QuietInv
  BY <1>1 DEF RolesInv, JoinInv, PublishInv, QuietInv, Replacing, Unloading
<1>3. \A s \in Ids : GoingOn(s) => s = 1
  BY DEF GoingOn
<1>4. NoOrphan /\ OnePerPath
  BY <1>1, <1>3 DEF NoOrphan, OnePerPath
<1> QED
  BY <1>2, <1>4 DEF OrderInv

(* A step that starts nothing revives nothing. *)
LEMMA Quieter ==
  ASSUME BaseInv, OrderInv, UNCHANGED <<path, call, aim, console>>,
         \A s \in Ids : GoingOn(s)' => GoingOn(s),
         \A s \in Ids : GoingOn(s)' /\ s \in scripts => s \in scripts',
         \A s \in Ids : path[s] = Console /\ s \in scripts => s \in scripts',
         \A c \in Callers : call[c] = "Publish" => aim[c] \subseteq scripts'
  PROVE  OrderInv'
<1> USE DEF OrderInv
<1>1. RolesInv'
  BY DEF RolesInv, Replacing
<1>2. PublishInv'
  BY DEF PublishInv
<1>3. QuietInv'
  BY DEF QuietInv
<1>4. NoOrphan'
  BY DEF NoOrphan
<1>5. OnePerPath'
  BY DEF OnePerPath
<1>6. JoinInv'
  BY DEF JoinInv, BaseInv, LifecycleTypeOK
<1> QED
  BY <1>1, <1>2, <1>3, <1>4, <1>5, <1>6

LEMMA Roles ==
  ASSUME Orderly, RolesInv, NEW c \in Callers, Replacing(c)
  PROVE  /\ c \in {Game, UI} /\ c # Unloader
         /\ call[Unloader] = "Idle"
         /\ \A d \in Callers : Replacing(d) => d = c
         /\ console = NoScript
<1>1. c \in {Game, UI}
  BY LifecycleAssumption DEF RolesInv
<1>2. Game # Unloader /\ UI # Unloader
  <2>1. ASSUME NEW x, NEW y, {Game, UI, Unloader} = {x, y}
        PROVE  FALSE
    <3>1. {x, y} = {x} \cup {y}
      OBVIOUS
    <3>2. IsFiniteSet({x}) /\ Cardinality({x}) = 1
      BY FS_Singleton
    <3>3. Cardinality({x} \cup {y}) <= 2
      BY <3>2, FS_AddElement
    <3> QED
      BY <2>1, <3>1, <3>3, LifecycleAssumption
  <2>2. Game = Unloader => {Game, UI, Unloader} = {Game, UI}
    OBVIOUS
  <2>3. UI = Unloader => {Game, UI, Unloader} = {Game, UI}
    OBVIOUS
  <2> QED
    BY <2>1, <2>2, <2>3
<1>3. call[c] # "Idle"
  BY DEF Replacing
<1> QED
  BY <1>1, <1>2, <1>3 DEF Orderly, RolesInv, Unloading

(* While the engine is being shut down, nobody replaces the console. *)
LEMMA NoReplacing ==
  ASSUME RolesInv, call[Unloader] # "Idle"
  PROVE  \A c \in Callers : ~Replacing(c)
BY LifecycleAssumption DEF RolesInv, Replacing

(* Where a console script that goes on is to be found. *)
LEMMA ConsoleFound ==
  ASSUME RolesInv, NoOrphan, NEW s \in Ids, GoingOn(s), path[s] = Console
  PROVE  \/ s \in scripts /\ s = console /\ console # NoScript
         \/ \E c \in Callers :
              /\ s \in aim[c]
              /\ \/ Replacing(c) /\ call[c] \in {"StopOld", "Emplace", "Publish"}
                 \/ c = Unloader /\ call[c] = "StopConsole"
BY LifecycleAssumption DEF RolesInv, NoOrphan, Replacing, Unloading

LEMMA StopFacts ==
  ASSUME BaseInv, NEW set \in SUBSET Ids, Stop(set), UNCHANGED at
  PROVE  \A s \in Ids : GoingOn(s)' => GoingOn(s) /\ s \notin set
BY DEF BaseInv, ScriptInv, LifecycleTypeOK, Stop, RequestStop, Active, GoingOn, Born

-----------------------------------------------------------------------------
(* One lemma per kind of step. *)
LEMMA ThreadStepOrders ==
  ASSUME BaseInv, OrderInv, NEW s \in Ids, ThreadStep(s) \/ EndOfScript(s) \/ PauseOrResume(s)
  PROVE  OrderInv'
<1>1. /\ UNCHANGED <<path, stopToken, console, call, aim>>
      /\ \/ UNCHANGED scripts
         \/ path[s] # Console /\ scripts' = scripts \ {s} /\ at'[s] = "Exit"
      /\ \A r \in Ids \ {s} : at'[r] = at[r]
      /\ at'[s] \in {"Boot", "Setup", "Enter", "JavaScript"}
           => at[s] \in {"Boot", "Setup", "Enter", "JavaScript"}
  BY DEF BaseInv, LifecycleTypeOK, ThreadStep, Boot, SetUp, Enter, RemoveSelf, Exit,
         EndOfScript, PauseOrResume, Moves, ThreadKeeps
<1>2. \A r \in Ids : GoingOn(r)' => GoingOn(r)
  BY <1>1 DEF GoingOn
<1>3. \A r \in Ids : GoingOn(r)' /\ r \in scripts => r \in scripts'
  BY <1>1 DEF GoingOn
<1>4. \A r \in Ids : path[r] = Console /\ r \in scripts => r \in scripts'
  BY <1>1
<1>5. \A c \in Callers : call[c] = "Publish" => aim[c] \subseteq scripts'
  BY <1>4 DEF BaseInv, ConsoleAim, OrderInv, PublishInv
<1> QED
  BY <1>1, <1>2, <1>3, <1>4, <1>5, Quieter

LEMMA StopScriptsOrders ==
  ASSUME BaseInv, OrderInv, NEW c \in Callers, StopScripts(c)
  PROVE  OrderInv'
<1>1. PICK set \in SUBSET Ids : Stop(set)
  BY DEF StopScripts, Plain, BaseInv, LifecycleTypeOK
<1>2. UNCHANGED <<at, path, scripts, console, call, aim>>
  BY DEF StopScripts
<1>3. \A s \in Ids : GoingOn(s)' => GoingOn(s)
  BY <1>1, <1>2, StopFacts
<1> QED
  BY <1>2, <1>3, Quieter DEF OrderInv, PublishInv

(* A caller that may begin a call is not in one, and there is no shutdown. *)
LEMMA MayBegin ==
  ASSUME Orderly, NEW c \in Callers, May(c)
  PROVE  call[c] = "Idle" /\ call[Unloader] = "Idle"
BY DEF Orderly, May, ShuttingDown

LEMMA StartScriptOrders ==
  ASSUME Orderly, BaseInv, OrderInv, NEW c \in Callers \ {Unloader}, NEW p \in Files, StartScript(c, p)
  PROVE  OrderInv'
<1> DEFINE f == Fresh
<1>1. p \in Paths /\ p # Console /\ SamePath(p) \in SUBSET scripts
  BY DEF Files, SamePath
<1>2. Room /\ May(c) /\ Starts(p, SamePath(p)) /\ Unborn # {}
  BY RoomHasFresh DEF StartScript, MayStart
<1>3. call[c] = "Idle" /\ call[Unloader] = "Idle"
  BY <1>2, MayBegin
<1>4. /\ f \in Ids /\ ~Born(f) /\ path'[f] = p
      /\ stopToken' \in [Ids -> BOOLEAN]
      /\ \A s \in Ids \ {f} :
           /\ at'[s] = at[s] /\ path'[s] = path[s]
           /\ \/ state'[s] = "Stopping" /\ stopToken'[s] /\ state[s] \notin {"Stopping", "Stopped"}
              \/ state'[s] = state[s] /\ stopToken'[s] = stopToken[s]
           /\ s \in SamePath(p) /\ state[s] \notin {"Stopping", "Stopped"} => stopToken'[s]
  BY <1>1, <1>2, StartsFacts
<1>5. /\ scripts' = (scripts \ SamePath(p)) \union {f}
      /\ call' = [call EXCEPT ![c] = IF SamePath(p) = {} THEN "Idle" ELSE "Join"]
      /\ aim' = [aim EXCEPT ![c] = SamePath(p)]
      /\ UNCHANGED console
  BY DEF StartScript
<1> HIDE DEF f
<1>6. \A s \in Ids \ {f} : GoingOn(s)' => GoingOn(s) /\ s \notin SamePath(p)
  BY <1>1, <1>4 DEF BaseInv, ScriptInv, GoingOn, Born
<1>7. /\ call'[c] \in {"Idle", "Join"} /\ aim'[c] = SamePath(p)
      /\ \A d \in Callers \ {c} : call'[d] = call[d] /\ aim'[d] = aim[d]
  BY <1>5 DEF BaseInv, LifecycleTypeOK
<1>8. \A d \in Callers : f \notin aim[d]
  BY <1>4 DEF BaseInv, KnownInv
<1>9. f \notin scripts
  BY <1>4 DEF BaseInv, KnownInv
<1>10. \A d \in Callers : aim'[d] \subseteq Ids
  BY <1>7, <1>1 DEF BaseInv, LifecycleTypeOK
<1>11. Unloader \in Callers /\ Game \in Callers /\ UI \in Callers
  BY DEF Callers
<1>12. RolesInv'
  BY <1>3, <1>5, <1>7, <1>11 DEF OrderInv, RolesInv, Replacing, Unloading
<1>13. JoinInv'
  BY <1>1, <1>6, <1>7, <1>8, <1>9, <1>10 DEF OrderInv, JoinInv
<1>14. PublishInv'
  <2> SUFFICES ASSUME NEW d \in Callers, call'[d] = "Publish"
               PROVE  aim'[d] \subseteq scripts'
    BY DEF PublishInv
  <2>1. d # c /\ aim'[d] = aim[d] /\ call[d] = "Publish"
    BY <1>7
  <2>2. PICK s \in Ids : aim[d] = {s} /\ path[s] = Console
    BY <2>1 DEF BaseInv, ConsoleAim
  <2>3. s \notin SamePath(p)
    BY <1>1, <2>2 DEF SamePath
  <2> QED
    BY <1>5, <2>1, <2>2, <2>3 DEF OrderInv, PublishInv
<1>15. QuietInv'
  BY <1>3, <1>7, <1>11 DEF QuietInv
<1>16. NoOrphan'
  <2> SUFFICES ASSUME NEW s \in Ids, GoingOn(s)'
               PROVE  \/ s \in scripts' /\ (path'[s] = Console => s = console')
                      \/ path'[s] = Console /\ \E d \in Callers :
                           s \in aim'[d] /\ call'[d] \in {"StopOld", "Emplace", "Publish", "StopConsole"}
    BY DEF NoOrphan
  <2>1. CASE s = f
    BY <1>1, <1>4, <1>5, <2>1
  <2>2. CASE s # f
    <3>1. GoingOn(s) /\ s \notin SamePath(p) /\ path'[s] = path[s]
      BY <1>4, <1>6, <2>2
    <3>2. CASE s \in scripts /\ (path[s] = Console => s = console)
      BY <1>5, <3>1, <3>2
    <3>3. CASE path[s] = Console /\ \E d \in Callers :
                 s \in aim[d] /\ call[d] \in {"StopOld", "Emplace", "Publish", "StopConsole"}
      BY <1>3, <1>7, <3>1, <3>3
    <3> QED
      BY <3>1, <3>2, <3>3 DEF OrderInv, NoOrphan
  <2> QED
    BY <2>1, <2>2
<1>17. OnePerPath'
  <2>1. ASSUME NEW s \in Ids \ {f}, GoingOn(s)'
        PROVE  path'[s] # p
    <3>1. GoingOn(s) /\ s \notin SamePath(p) /\ path'[s] = path[s]
      BY <1>4, <1>6, <2>1
    <3>2. path[s] # Console => s \in scripts
      BY <3>1 DEF OrderInv, NoOrphan
    <3> QED
      BY <1>1, <3>1, <3>2 DEF SamePath
  <2>2. \A s, r \in Ids \ {f} : GoingOn(s)' /\ GoingOn(r)' /\ path'[s] = path'[r] => s = r
    BY <1>4, <1>6 DEF OrderInv, OnePerPath
  <2> QED
    BY <1>4, <2>1, <2>2 DEF OnePerPath
<1> QED
  BY <1>12, <1>13, <1>14, <1>15, <1>16, <1>17 DEF OrderInv

(* The steps that change neither a script nor a path: what each of OrderInv *)
(* says of scripts stays as it was.                                        *)
LEMMA GoingOnKept ==
  ASSUME UNCHANGED <<at, stopToken>>
  PROVE  \A s \in Ids : GoingOn(s)' <=> GoingOn(s)
BY DEF GoingOn

LEMMA JoinsOrder ==
  ASSUME Orderly, BaseInv, OrderInv, NEW c \in Callers \ {Unloader},
         EndJoin(c) \/ \E s \in Ids : JSJoin(c, s)
  PROVE  OrderInv'
<1> USE DEF OrderInv
<1>1. /\ UNCHANGED <<at, path, stopToken, scripts, console>>
      /\ call[c] \in {"Idle", "Join", "WaitFor"} /\ call'[c] \in {"Idle", "WaitFor"}
      /\ \A d \in Callers \ {c} : call'[d] = call[d] /\ aim'[d] = aim[d]
      /\ call'[c] = "WaitFor" => c \in Ids
  BY DEF EndJoin, JSJoin, Step, BaseInv, LifecycleTypeOK
<1>2. \A s \in Ids : GoingOn(s)' <=> GoingOn(s)
  BY <1>1, GoingOnKept
<1>3. c \notin {Game, UI} \/ call'[c] = "Idle"
  BY <1>1, LifecycleAssumption
<1>4. Unloader \in Callers /\ Game \in Callers /\ UI \in Callers
  BY DEF Callers
<1>5. RolesInv'
  BY <1>1, <1>3, <1>4 DEF RolesInv, Replacing, Unloading
<1>6. JoinInv' /\ PublishInv' /\ QuietInv'
  BY <1>1, <1>2, <1>4 DEF JoinInv, PublishInv, QuietInv, BaseInv, LifecycleTypeOK
<1>7. NoOrphan'
  BY <1>1, <1>2 DEF NoOrphan
<1>8. OnePerPath'
  BY <1>1, <1>2 DEF OnePerPath
<1> QED
  BY <1>5, <1>6, <1>7, <1>8

LEMMA RestartConsoleOrders ==
  ASSUME Orderly, BaseInv, OrderInv, NEW c \in Callers \ {Unloader}, RestartConsole(c)
  PROVE  OrderInv'
<1> USE DEF OrderInv
<1>1. /\ UNCHANGED <<at, path, stopToken, scripts>> /\ console' = NoScript
      /\ c \in Restarters /\ May(c)
      /\ \/ console = NoScript /\ call'[c] = "Create" /\ aim'[c] = aim[c]
         \/ console # NoScript /\ call'[c] = "StopOld" /\ aim'[c] = {console}
      /\ \A d \in Callers \ {c} : call'[d] = call[d] /\ aim'[d] = aim[d]
  BY DEF RestartConsole, Step, BaseInv, LifecycleTypeOK
<1>2. call[c] = "Idle" /\ call[Unloader] = "Idle"
  BY <1>1, MayBegin
<1>3. \A d \in Callers : ~Replacing(d)
  BY <1>1, <1>2 DEF RolesInv, Orderly, Replacing
<1>4. \A s \in Ids : GoingOn(s)' <=> GoingOn(s)
  BY <1>1, GoingOnKept
<1>5. Unloader \in Callers /\ Game \in Callers /\ UI \in Callers
  BY DEF Callers
<1>6. RolesInv'
  <2>1. \A d \in Callers \ {c} : ~Replacing(d)'
    BY <1>1, <1>3 DEF Replacing
  <2> QED
    BY <1>1, <1>2, <1>5, <2>1 DEF RolesInv, Unloading
<1>7. JoinInv' /\ PublishInv' /\ QuietInv'
  BY <1>1, <1>2, <1>4, <1>5 DEF JoinInv, PublishInv, QuietInv, BaseInv, LifecycleTypeOK
<1>8. NoOrphan'
  <2> SUFFICES ASSUME NEW s \in Ids, GoingOn(s)'
               PROVE  \/ s \in scripts' /\ (path'[s] = Console => s = console')
                      \/ path'[s] = Console /\ \E d \in Callers :
                           s \in aim'[d] /\ call'[d] \in {"StopOld", "Emplace", "Publish", "StopConsole"}
    BY DEF NoOrphan
  <2>1. GoingOn(s)
    BY <1>4
  <2>2. CASE path[s] # Console
    BY <1>1, <2>1, <2>2 DEF NoOrphan
  <2>3. CASE path[s] = Console
    <3>1. s = console /\ console # NoScript
      BY <1>2, <1>3, <2>1, <2>3, ConsoleFound
    <3> QED
      BY <1>1, <2>3, <3>1
  <2> QED
    BY <2>2, <2>3
<1>9. OnePerPath'
  BY <1>1, <1>4 DEF OnePerPath
<1> QED
  BY <1>6, <1>7, <1>8, <1>9

(* The steps of a restart: nobody else is at the console. *)
LEMMA StopOldOrders ==
  ASSUME Orderly, BaseInv, OrderInv, NEW c \in Callers, StopOld(c)
  PROVE  OrderInv'
<1> USE DEF OrderInv
<1>1. /\ UNCHANGED <<at, path, scripts, console, aim>>
      /\ call[c] = "StopOld" /\ call'[c] = "JoinOld"
      /\ \A d \in Callers \ {c} : call'[d] = call[d]
      /\ Stop(aim[c]) /\ aim[c] \in SUBSET Ids
  BY DEF StopOld, Step, BaseInv, LifecycleTypeOK
<1>2. Replacing(c)
  BY <1>1 DEF Replacing
<1>3. \A s \in Ids : GoingOn(s)' => GoingOn(s) /\ s \notin aim[c]
  BY <1>1, StopFacts
<1>4. Unloader \in Callers /\ Game \in Callers /\ UI \in Callers
  BY DEF Callers
<1>5. call[Unloader] = "Idle" /\ c # Unloader
  BY <1>2, Roles
<1>6. RolesInv'
  BY <1>1, <1>2, <1>4, <1>5 DEF RolesInv, Replacing, Unloading
<1>7. JoinInv' /\ PublishInv' /\ QuietInv'
  BY <1>1, <1>3, <1>4, <1>5 DEF JoinInv, PublishInv, QuietInv, BaseInv, LifecycleTypeOK
<1>8. NoOrphan'
  BY <1>1, <1>3 DEF NoOrphan
<1>9. OnePerPath'
  BY <1>1, <1>3 DEF OnePerPath
<1> QED
  BY <1>6, <1>7, <1>8, <1>9

LEMMA JoinOldOrders ==
  ASSUME Orderly, BaseInv, OrderInv, NEW c \in Callers, JoinOld(c)
  PROVE  OrderInv'
<1> USE DEF OrderInv
<1>1. /\ UNCHANGED <<at, path, stopToken, console>>
      /\ call[c] = "JoinOld" /\ call'[c] = "Create"
      /\ scripts' = scripts \ aim[c] /\ Ended(aim[c])
      /\ aim'[c] = {}
      /\ \A d \in Callers \ {c} : call'[d] = call[d] /\ aim'[d] = aim[d]
  BY DEF JoinOld, Step, BaseInv, LifecycleTypeOK
<1>2. Replacing(c)
  BY <1>1 DEF Replacing
<1>3. /\ call[Unloader] = "Idle" /\ c # Unloader
      /\ \A d \in Callers : Replacing(d) => d = c
  BY <1>2, Roles
<1>4. \A s \in Ids : GoingOn(s)' => GoingOn(s) /\ s \notin aim[c]
  BY <1>1 DEF GoingOn, Ended
<1>5. Unloader \in Callers /\ Game \in Callers /\ UI \in Callers
  BY DEF Callers
<1>6. RolesInv'
  BY <1>1, <1>2, <1>3, <1>5 DEF RolesInv, Replacing, Unloading
<1>7. JoinInv' /\ QuietInv'
  BY <1>1, <1>3, <1>4, <1>5 DEF JoinInv, QuietInv, BaseInv, LifecycleTypeOK
<1>8. PublishInv'
  BY <1>1, <1>3 DEF PublishInv, Replacing
<1>9. NoOrphan'
  BY <1>1, <1>4 DEF NoOrphan
<1>10. OnePerPath'
  BY <1>1, <1>4 DEF OnePerPath
<1> QED
  BY <1>6, <1>7, <1>8, <1>9, <1>10

LEMMA CreateConsoleOrders ==
  ASSUME Orderly, BaseInv, OrderInv, NEW c \in Callers, CreateConsole(c)
  PROVE  OrderInv'
<1> DEFINE f == Fresh
<1>1. /\ call[c] = "Create" /\ call' = [call EXCEPT ![c] = "Emplace"]
      /\ Starts(Console, {}) /\ aim' = [aim EXCEPT ![c] = {f}]
      /\ UNCHANGED <<scripts, console>>
  BY DEF CreateConsole, Step
<1>2. Replacing(c) /\ c \in Reserving
  BY <1>1 DEF Replacing, Reserving
<1>3. Unborn # {}
  BY <1>2, ReserverHasFresh DEF BaseInv
<1>4. /\ f \in Ids /\ ~Born(f) /\ path'[f] = Console
      /\ stopToken' \in [Ids -> BOOLEAN]
      /\ \A s \in Ids \ {f} :
           /\ at'[s] = at[s] /\ path'[s] = path[s]
           /\ \/ state'[s] = "Stopping" /\ stopToken'[s] /\ state[s] \notin {"Stopping", "Stopped"}
              \/ state'[s] = state[s] /\ stopToken'[s] = stopToken[s]
  BY <1>1, <1>3, StartsFacts, LifecycleAssumption
<1> HIDE DEF f
<1>5. \A s \in Ids \ {f} : GoingOn(s)' => GoingOn(s)
  BY <1>4 DEF GoingOn
<1>6. /\ call'[c] = "Emplace" /\ aim'[c] = {f}
      /\ \A d \in Callers \ {c} : call'[d] = call[d] /\ aim'[d] = aim[d]
  BY <1>1 DEF BaseInv, LifecycleTypeOK
<1>7. \A d \in Callers : f \notin aim[d] /\ aim[d] \subseteq Ids
  BY <1>4 DEF BaseInv, KnownInv, LifecycleTypeOK
<1>8. /\ call[Unloader] = "Idle" /\ c # Unloader /\ console = NoScript
      /\ \A d \in Callers : Replacing(d) => d = c
  BY <1>2, Roles DEF OrderInv
<1>9. Unloader \in Callers /\ Game \in Callers /\ UI \in Callers
  BY DEF Callers
<1>10. RolesInv'
  BY <1>1, <1>2, <1>6, <1>8, <1>9 DEF OrderInv, RolesInv, Replacing, Unloading
<1>11. JoinInv'
  BY <1>5, <1>6, <1>7 DEF OrderInv, JoinInv
<1>12. PublishInv' /\ QuietInv'
  BY <1>1, <1>6, <1>8, <1>9 DEF OrderInv, PublishInv, QuietInv
<1>13. ASSUME NEW s \in Ids, GoingOn(s), path[s] = Console
       PROVE  FALSE
  BY <1>1, <1>8, <1>13, ConsoleFound DEF OrderInv
<1>14. NoOrphan'
  <2> SUFFICES ASSUME NEW s \in Ids, GoingOn(s)'
               PROVE  \/ s \in scripts' /\ (path'[s] = Console => s = console')
                      \/ path'[s] = Console /\ \E d \in Callers :
                           s \in aim'[d] /\ call'[d] \in {"StopOld", "Emplace", "Publish", "StopConsole"}
    BY DEF NoOrphan
  <2>1. CASE s = f
    BY <1>4, <1>6, <2>1
  <2>2. CASE s # f
    <3>1. GoingOn(s) /\ path'[s] = path[s] /\ path[s] # Console
      BY <1>4, <1>5, <1>13, <2>2
    <3> QED
      BY <1>1, <3>1 DEF OrderInv, NoOrphan
  <2> QED
    BY <2>1, <2>2
<1>15. OnePerPath'
  <2>1. \A s \in Ids \ {f} : GoingOn(s)' => path'[s] # path'[f]
    BY <1>4, <1>5, <1>13
  <2>2. \A s, r \in Ids \ {f} : GoingOn(s)' /\ GoingOn(r)' /\ path'[s] = path'[r] => s = r
    BY <1>4, <1>5 DEF OrderInv, OnePerPath
  <2> QED
    BY <1>4, <2>1, <2>2 DEF OnePerPath
<1> QED
  BY <1>10, <1>11, <1>12, <1>14, <1>15 DEF OrderInv

LEMMA EmplaceOrders ==
  ASSUME Orderly, BaseInv, OrderInv, NEW c \in Callers, EmplaceConsole(c)
  PROVE  OrderInv'
<1> USE DEF OrderInv
<1>1. /\ UNCHANGED <<at, path, stopToken, console, aim>>
      /\ call[c] = "Emplace" /\ call'[c] = "Publish"
      /\ scripts' = scripts \union aim[c]
      /\ \A d \in Callers \ {c} : call'[d] = call[d]
  BY DEF EmplaceConsole, Step, BaseInv, LifecycleTypeOK
<1>2. Replacing(c)
  BY <1>1 DEF Replacing
<1>3. call[Unloader] = "Idle" /\ c # Unloader
  BY <1>2, Roles
<1>4. \A s \in Ids : GoingOn(s)' <=> GoingOn(s)
  BY <1>1, GoingOnKept
<1>5. Unloader \in Callers /\ Game \in Callers /\ UI \in Callers
  BY DEF Callers
<1>6. RolesInv'
  BY <1>1, <1>2, <1>3, <1>5 DEF RolesInv, Replacing, Unloading
<1>7. JoinInv' /\ PublishInv' /\ QuietInv'
  BY <1>1, <1>3, <1>4, <1>5 DEF JoinInv, PublishInv, QuietInv, BaseInv, LifecycleTypeOK
<1>8. NoOrphan'
  BY <1>1, <1>4 DEF NoOrphan
<1>9. OnePerPath'
  BY <1>1, <1>4 DEF OnePerPath
<1> QED
  BY <1>6, <1>7, <1>8, <1>9

LEMMA PublishOrders ==
  ASSUME Orderly, BaseInv, OrderInv, NEW c \in Callers, PublishConsole(c)
  PROVE  OrderInv'
<1> USE DEF OrderInv
<1>1. /\ UNCHANGED <<at, path, stopToken, scripts>>
      /\ call[c] = "Publish" /\ call'[c] = "Idle" /\ aim'[c] = {}
      /\ console' = CHOOSE s \in aim[c] : TRUE
      /\ \A d \in Callers \ {c} : call'[d] = call[d] /\ aim'[d] = aim[d]
  BY DEF PublishConsole, Step, BaseInv, LifecycleTypeOK
<1>2. PICK new \in Ids : aim[c] = {new} /\ path[new] = Console
  BY <1>1 DEF BaseInv, ConsoleAim
<1>3. console' = new /\ new \in scripts
  BY <1>1, <1>2 DEF PublishInv
<1>4. Replacing(c)
  BY <1>1 DEF Replacing
<1>5. /\ call[Unloader] = "Idle" /\ c # Unloader /\ console = NoScript
      /\ \A d \in Callers : Replacing(d) => d = c
  BY <1>4, Roles
<1>6. \A s \in Ids : GoingOn(s)' <=> GoingOn(s)
  BY <1>1, GoingOnKept
<1>7. Unloader \in Callers /\ Game \in Callers /\ UI \in Callers
  BY DEF Callers
<1>8. RolesInv'
  <2>1. \A d \in Callers : ~Replacing(d)'
    BY <1>1, <1>5 DEF Replacing
  <2> QED
    BY <1>1, <1>5, <1>7, <2>1 DEF RolesInv, Unloading
<1>9. JoinInv' /\ PublishInv' /\ QuietInv'
  BY <1>1, <1>5, <1>6, <1>7 DEF JoinInv, PublishInv, QuietInv, BaseInv, LifecycleTypeOK
<1>10. NoOrphan'
  <2> SUFFICES ASSUME NEW s \in Ids, GoingOn(s)'
               PROVE  s \in scripts' /\ (path'[s] = Console => s = console')
    BY DEF NoOrphan
  <2>1. GoingOn(s)
    BY <1>6
  <2>2. CASE path[s] # Console
    BY <1>1, <2>1, <2>2 DEF NoOrphan
  <2>3. CASE path[s] = Console
    <3>1. \E d \in Callers : s \in aim[d] /\ d = c
      BY <1>5, <2>1, <2>3, ConsoleFound
    <3> QED
      BY <1>1, <1>2, <1>3, <3>1
  <2> QED
    BY <2>2, <2>3
<1>11. OnePerPath'
  BY <1>1, <1>6 DEF OnePerPath
<1> QED
  BY <1>8, <1>9, <1>10, <1>11

(* The shutdown.  It begins when the game and the window are in no call. *)
LEMMA ShutdownOrders ==
  ASSUME Orderly, BaseInv, OrderInv, Shutdown
  PROVE  OrderInv'
<1> USE DEF OrderInv
<1>1. Unloader \in Callers /\ Game \in Callers /\ UI \in Callers
  BY DEF Callers
<1>2. /\ UNCHANGED <<at, path, scripts, console, aim>>
      /\ call[Game] = "Idle" /\ call[UI] = "Idle"
      /\ call[Unloader] = "Idle" /\ call'[Unloader] = "TakeConsole"
      /\ \A d \in Callers \ {Unloader} : call'[d] = call[d]
      /\ Stop(Plain(scripts)) /\ Plain(scripts) \in SUBSET Ids
  BY <1>1 DEF Shutdown, Step, Orderly, Plain, BaseInv, LifecycleTypeOK
<1>3. \A s \in Ids : GoingOn(s)' => GoingOn(s) /\ s \notin Plain(scripts)
  BY <1>2, StopFacts
<1>4. \A d \in Callers : ~Replacing(d)
  BY <1>2, LifecycleAssumption DEF RolesInv, Replacing
<1>5. RolesInv'
  <2>1. \A d \in Callers : ~Replacing(d)'
    BY <1>2, <1>4 DEF Replacing
  <2>2. call'[Game] = "Idle" /\ call'[UI] = "Idle"
    <3>1. ASSUME NEW d \in {Game, UI}, d = Unloader
          PROVE  FALSE
      <4>1. {Game, UI, Unloader} = {Game} \cup {UI}
        BY <3>1
      <4>2. IsFiniteSet({Game}) /\ Cardinality({Game}) = 1
        BY FS_Singleton
      <4>3. Cardinality({Game} \cup {UI}) <= 2
        BY <4>2, FS_AddElement
      <4> QED
        BY <4>1, <4>3, LifecycleAssumption
    <3> QED
      BY <1>1, <1>2, <3>1
  <2> QED
    BY <1>2, <2>1, <2>2 DEF RolesInv, Unloading
<1>6. JoinInv' /\ PublishInv'
  BY <1>2, <1>3 DEF JoinInv, PublishInv, BaseInv, LifecycleTypeOK
<1>7. QuietInv'
  <2>1. \A s \in Ids : GoingOn(s)' => path[s] = Console
    BY <1>3 DEF NoOrphan, Plain
  <2> QED
    BY <1>2, <2>1 DEF QuietInv
<1>8. NoOrphan'
  BY <1>2, <1>3 DEF NoOrphan
<1>9. OnePerPath'
  BY <1>2, <1>3 DEF OnePerPath
<1> QED
  BY <1>5, <1>6, <1>7, <1>8, <1>9

LEMMA TakeConsoleOrders ==
  ASSUME BaseInv, OrderInv, TakeConsole
  PROVE  OrderInv'
<1> USE DEF OrderInv
<1>1. Unloader \in Callers /\ Game \in Callers /\ UI \in Callers
  BY DEF Callers
<1>2. /\ UNCHANGED <<at, path, stopToken, scripts>> /\ console' = NoScript
      /\ call[Unloader] = "TakeConsole" /\ call'[Unloader] = "StopConsole"
      /\ aim'[Unloader] = {console} \ {NoScript}
      /\ \A d \in Callers \ {Unloader} : call'[d] = call[d] /\ aim'[d] = aim[d]
  BY <1>1 DEF TakeConsole, Step, BaseInv, LifecycleTypeOK
<1>3. \A d \in Callers : ~Replacing(d)
  BY <1>2, NoReplacing
<1>4. \A s \in Ids : GoingOn(s)' <=> GoingOn(s)
  BY <1>2, GoingOnKept
<1>5. RolesInv'
  <2>1. \A d \in Callers : ~Replacing(d)'
    BY <1>2, <1>3 DEF Replacing
  <2> QED
    BY <1>1, <1>2, <2>1 DEF RolesInv, Unloading
<1>6. JoinInv' /\ PublishInv' /\ QuietInv'
  BY <1>1, <1>2, <1>4 DEF JoinInv, PublishInv, QuietInv, BaseInv, LifecycleTypeOK
<1>7. NoOrphan'
  <2> SUFFICES ASSUME NEW s \in Ids, GoingOn(s)'
               PROVE  path'[s] = Console /\ s \in aim'[Unloader] /\ call'[Unloader] = "StopConsole"
    BY <1>1 DEF NoOrphan
  <2>1. GoingOn(s) /\ path[s] = Console
    BY <1>2, <1>4 DEF QuietInv
  <2>2. s = console /\ console # NoScript
    BY <1>2, <1>3, <2>1, ConsoleFound
  <2> QED
    BY <1>2, <2>1, <2>2
<1>8. OnePerPath'
  BY <1>2, <1>4 DEF OnePerPath
<1> QED
  BY <1>5, <1>6, <1>7, <1>8

(* Once the console script is stopped, nothing goes on. *)
LEMMA SilenceOrders ==
  ASSUME BaseInv, OrderInv,
         StopConsole \/ Snapshot \/ JoinAll \/ ClearScripts
  PROVE  OrderInv' /\ \A s \in Ids : ~GoingOn(s)'
<1> USE DEF OrderInv
<1>1. Unloader \in Callers /\ Game \in Callers /\ UI \in Callers
  BY DEF Callers
<1>2. /\ UNCHANGED <<at, path, console>>
      /\ call[Unloader] \in {"StopConsole", "Snapshot", "JoinAll", "Clear"}
      /\ call'[Unloader] \in {"Snapshot", "JoinAll", "Clear", "Over"}
      /\ \A d \in Callers \ {Unloader} : call'[d] = call[d] /\ aim'[d] = aim[d]
  BY <1>1 DEF StopConsole, Snapshot, JoinAll, ClearScripts, Step, BaseInv, LifecycleTypeOK
<1>3. \A d \in Callers : ~Replacing(d)
  BY <1>2, NoReplacing
<1>4. ASSUME NEW s \in Ids, GoingOn(s)'
      PROVE  FALSE
  <2>1. CASE StopConsole
    <3>1. /\ Stop(aim[Unloader]) /\ aim[Unloader] \in SUBSET Ids
          /\ call[Unloader] = "StopConsole"
      BY <1>1, <2>1 DEF StopConsole, Step, BaseInv, LifecycleTypeOK
    <3>2. GoingOn(s) /\ s \notin aim[Unloader]
      BY <1>2, <1>4, <3>1, StopFacts
    <3>3. path[s] = Console /\ console = NoScript
      BY <1>2, <3>1, <3>2 DEF QuietInv, RolesInv, Unloading
    <3> QED
      BY <1>3, <3>2, <3>3, ConsoleFound
  <2>2. CASE Snapshot \/ JoinAll \/ ClearScripts
    <3>1. /\ UNCHANGED <<at, stopToken>>
          /\ call[Unloader] \in {"Snapshot", "JoinAll", "Clear"}
      BY <2>2 DEF Snapshot, JoinAll, ClearScripts, Step
    <3> QED
      BY <1>4, <3>1, GoingOnKept DEF QuietInv
  <2> QED
    BY <2>1, <2>2
<1>5. RolesInv'
  <2>1. \A d \in Callers : ~Replacing(d)'
    BY <1>2, <1>3 DEF Replacing
  <2> QED
    BY <1>1, <1>2, <2>1 DEF RolesInv, Unloading
<1>6. JoinInv'
  <2>1. aim' \in [Callers -> SUBSET Ids]
    BY BaseInvStep DEF BaseInv, LifecycleTypeOK, Next, ShutdownStep
  <2> QED
    BY <1>4, <2>1 DEF JoinInv
<1>7. PublishInv'
  BY <1>2, <1>3 DEF PublishInv, Replacing
<1>8. QuietInv' /\ NoOrphan' /\ OnePerPath'
  BY <1>4 DEF QuietInv, NoOrphan, OnePerPath
<1> QED
  BY <1>4, <1>5, <1>6, <1>7, <1>8

LEMMA OrderInvStep ==
  ASSUME Orderly, BaseInv, OrderInv, [Next]_vars
  PROVE  OrderInv'
<1>1. CASE UNCHANGED vars
  <2>1. UNCHANGED <<state, at, path, stopToken, terminated, scripts, console, call, aim>>
    BY <1>1 DEF vars
  <2>2. \A s \in Ids : GoingOn(s)' <=> GoingOn(s)
    BY <2>1, GoingOnKept
  <2> QED
    BY <2>1, <2>2, Quieter DEF OrderInv, PublishInv
<1>2. CASE Shutdown
  BY <1>2, ShutdownOrders
<1>3. CASE TakeConsole
  BY <1>3, TakeConsoleOrders
<1>4. CASE StopConsole \/ Snapshot \/ JoinAll \/ ClearScripts
  BY <1>4, SilenceOrders
<1> QED
  BY <1>1, <1>2, <1>3, <1>4, ThreadStepOrders, StopScriptsOrders, StartScriptOrders,
     JoinsOrder, RestartConsoleOrders, StopOldOrders, JoinOldOrders, CreateConsoleOrders,
     EmplaceOrders, PublishOrders
     DEF Next, EngineStep, ShutdownStep

LEMMA OrderInvHolds == ASSUME Orderly PROVE Spec => []OrderInv
BY BaseInvHolds, OrderInvInit, OrderInvStep, PTL DEF Spec

-----------------------------------------------------------------------------
(***************************************************************************)
(* ScriptEngine.h:42: for any files and any number of starts, also from    *)
(* several threads at once, two scripts of one path never go on together,  *)
(* if one thread restarts the console and the shutdown comes last.         *)
(***************************************************************************)
THEOREM OnePerPathHolds == ASSUME Orderly PROVE Spec => []OnePerPath
<1>1. OrderInv => OnePerPath
  BY DEF OrderInv
<1> QED
  BY <1>1, OrderInvHolds, PTL

(***************************************************************************)
(* Under the same conditions no script that goes on is unknown to the      *)
(* engine: what StopAllScripts and Shutdown do not find is over.           *)
(***************************************************************************)
THEOREM NoOrphanHolds == ASSUME Orderly PROVE Spec => []NoOrphan
<1>1. OrderInv => NoOrphan
  BY DEF OrderInv
<1> QED
  BY <1>1, OrderInvHolds, PTL

(***************************************************************************)
(* docs/game_thread_safety.md:206: and no thread joins a script that       *)
(* nobody has asked to stop, but one that has come to its end.             *)
(***************************************************************************)
THEOREM JoinedIsStoppedHolds == ASSUME Orderly PROVE Spec => []JoinedIsStopped
<1>1. BaseInv /\ OrderInv => JoinedIsStopped
  <2> SUFFICES ASSUME BaseInv, OrderInv, NEW c \in Callers,
                      call[c] \in {"Join", "JoinOld", "JoinAll"}, NEW s \in aim[c]
               PROVE  stopToken[s] \/ at[s] \in {"Remove", "Exit", "Done"}
    BY DEF JoinedIsStopped
  <2>1. s \in Ids /\ at[s] \in Steps
    BY DEF BaseInv, LifecycleTypeOK
  <2>2. at[s] # "Unborn" /\ ~GoingOn(s)
    BY DEF BaseInv, KnownInv, OrderInv, JoinInv, Born
  <2> QED
    BY <2>1, <2>2 DEF GoingOn, Steps
<1> QED
  BY <1>1, BaseInvHolds, OrderInvHolds, PTL
=============================================================================
