------------------------- MODULE HandleCacheProofs --------------------------
(***************************************************************************)
(* Handles and resolved pointers for any threads, any structures and any   *)
(* bounds.  The types, the Resolved that stands for each Read scope, and   *)
(* the stillness of the game under a script's lock hold as they stand; the *)
(* freshness of pointers holds of a build whose own frame joins no script, *)
(* which is the hypothesis the run HandlesJoin shows to be needed.         *)
(***************************************************************************)
EXTENDS HandleCache, GameLockProofs, FiniteSetTheorems

Resolveds == [handle : Handles, ptr : Nat, epoch : Nat]

Builds == [handle : Levels, raw : Nat, waiting : BOOLEAN, done : BOOLEAN]

DataInv ==
  /\ generation \in Nat
  /\ releaseEpoch \in [Threads -> Nat]
  /\ memory \in [Handles -> Nat]
  /\ built \subseteq Levels
  /\ cache \in [Scripts -> [Handles -> [ptr : Nat, gen : 0..generation]]]
  /\ live \in [Threads -> Seq(Resolveds)]
  /\ building \in [Threads -> Builds \union {NotBuilding}]
  /\ building[Game] = NotBuilding

(* Only the game thread ever has the write lock. *)
ScriptsShare == \A t \in Scripts : ~active[t]

BaseInv == LockInv /\ FrameInv /\ ScriptsShare /\ DataInv

-----------------------------------------------------------------------------
(* Small facts. *)
LEMMA PartsOfThreads ==
  /\ Game \in Threads /\ Game \notin Scripts /\ Scripts \subseteq Threads
  /\ \A t \in Threads : t # Game => t \in Scripts
BY ThreadsAssumption DEF Scripts

LEMMA BuildsAreBuilding == NotBuilding \notin Builds
<1> SUFFICES ASSUME NotBuilding \in Builds PROVE FALSE
  OBVIOUS
<1>1. DOMAIN NotBuilding = {"handle", "raw", "waiting", "done"}
  BY DEF Builds
<1>2. DOMAIN NotBuilding = {"handle"}
  BY DEF NotBuilding
<1>3. "raw" \in {"handle"}
  BY <1>1, <1>2
<1>4. QED
  BY <1>3

LEMMA PointerType ==
  ASSUME DataInv, NEW h \in Handles
  PROVE  /\ Pointer(h) \in Nat
         /\ Pointer(h) # nullptr => Pointer(h) = memory[h]
BY DEF DataInv, Pointer, nullptr

LEMMA HoldTyped ==
  ASSUME DataInv, NEW t \in Threads, NEW h \in Handles, NEW p \in Nat, Hold(t, h, p)
  PROVE  /\ live' \in [Threads -> Seq(Resolveds)]
         /\ Len(live'[t]) = Len(live[t]) + 1
         /\ live'[t][Len(live[t]) + 1] = [handle |-> h, ptr |-> p, epoch |-> releaseEpoch[t]]
         /\ \A i \in 1..Len(live[t]) : live'[t][i] = live[t][i]
         /\ \A u \in Threads \ {t} : live'[u] = live[u]
<1> DEFINE new == [handle |-> h, ptr |-> p, epoch |-> releaseEpoch[t]]
<1>1. new \in Resolveds
  BY DEF DataInv, Resolveds
<1>2. /\ live[t] \in Seq(Resolveds)
      /\ live' = [live EXCEPT ![t] = Append(live[t], new)]
      /\ live \in [Threads -> Seq(Resolveds)]
  BY DEF DataInv, Hold
<1> HIDE DEF new
<1>3. Append(live[t], new) \in Seq(Resolveds)
  BY <1>1, <1>2
<1>4. live'[t] = Append(live[t], new) /\ \A u \in Threads \ {t} : live'[u] = live[u]
  BY <1>2
<1>5. live' \in [Threads -> Seq(Resolveds)]
  BY <1>2, <1>3
<1>6. /\ Len(live'[t]) = Len(live[t]) + 1
      /\ live'[t][Len(live[t]) + 1] = new
      /\ \A i \in 1..Len(live[t]) : live'[t][i] = live[t][i]
  BY <1>1, <1>2, <1>4
<1>7. QED
  BY <1>4, <1>5, <1>6 DEF new

LEMMA RememberTyped ==
  ASSUME DataInv, NEW t \in Scripts, NEW h \in Handles, NEW p \in Nat, Remember(t, h, p)
  PROVE  /\ cache' \in [Scripts -> [Handles -> [ptr : Nat, gen : 0..generation]]]
         /\ cache'[t][h] = [ptr |-> p, gen |-> generation]
         /\ \A u \in Scripts, g \in Handles : u # t \/ g # h => cache'[u][g] = cache[u][g]
<1> DEFINE row == [cache[t] EXCEPT ![h] = [ptr |-> p, gen |-> generation]]
<1>1. cache' = [cache EXCEPT ![t] = row] /\ generation \in Nat
  BY DEF Remember, DataInv
<1>2. [ptr |-> p, gen |-> generation] \in [ptr : Nat, gen : 0..generation]
  BY <1>1
<1>3. row \in [Handles -> [ptr : Nat, gen : 0..generation]]
  BY <1>2 DEF DataInv
<1>4. /\ row[h] = [ptr |-> p, gen |-> generation]
      /\ \A g \in Handles \ {h} : row[g] = cache[t][g]
  BY DEF DataInv
<1> HIDE DEF row
<1>5. cache'[t] = row /\ \A u \in Scripts \ {t} : cache'[u] = cache[u]
  BY <1>1 DEF DataInv
<1>6. cache' \in [Scripts -> [Handles -> [ptr : Nat, gen : 0..generation]]]
  BY <1>1, <1>3 DEF DataInv
<1>7. QED
  BY <1>4, <1>5, <1>6

-----------------------------------------------------------------------------
(* What each action does to the lock. *)
LEMMA LockMoves ==
  ASSUME BaseInv, [Next]_vars
  PROVE  [LockNext]_lockVars
<1>1. ASSUME NEW t \in Threads, LockStep(t) PROVE LockNext
  BY <1>1 DEF LockNext
<1>2. CASE \E t \in Threads, h \in Handles :
             ResolveCached(t, h) \/ ResolveByWalk(t, h) \/ BeginBuild(t, h)
  BY <1>1, <1>2 DEF ResolveCached, ResolveByWalk, BeginBuild, LockStep
<1>3. CASE \E t \in Threads : WaitForBuild(t) \/ EndBuild(t) \/ Unresolve(t)
                               \/ BeginPoll(t) \/ EndPoll(t)
  BY <1>1, <1>3 DEF WaitForBuild, EndBuild, Unresolve, BeginPoll, EndPoll, HandBack, LockStep
<1>4. CASE BeginJoin \/ EndJoin
  BY <1>1, <1>4, PartsOfThreads DEF BeginJoin, EndJoin, LockStep
<1>5. CASE (\E t \in Threads : RunBuild(t)) \/ (\E h \in Handles : GameChanges(h))
  BY <1>5 DEF RunBuild, GameChanges, frameVars
<1>6. CASE Tick
  BY <1>6 DEF Tick, StartTick
<1>7. CASE RestOfFrame
  BY <1>1, <1>7, PartsOfThreads
     DEF RestOfFrame, FrameMove, EndBody, EndDrain, StartSlice, EndSlice, EndSleep, Reacquire,
         LockStep
<1>8. CASE UNCHANGED vars
  BY <1>8 DEF vars, frameVars
<1>9. QED
  BY <1>2, <1>3, <1>4, <1>5, <1>6, <1>7, <1>8 DEF Next

(* The steps of a script thread leave the game thread's lock alone. *)
LEMMA ScriptStep ==
  ASSUME LockTypeOK, NEW t \in Scripts,
         OpenRead(t) \/ CloseRead(t) \/ OpenReadReleaser(t) \/ CloseReadReleaser(t)
  PROVE  scopes'[Game] = scopes[Game] /\ UNCHANGED active
<1>1. /\ UNCHANGED active
      /\ \E kind \in Kinds : Push(t, kind) \/ Pop(t, kind)
  BY DEF OpenRead, CloseRead, OpenReadReleaser, CloseReadReleaser, Kinds
<1>2. t \in Threads /\ Game \in Threads /\ Game # t
  BY PartsOfThreads
<1>3. QED
  BY <1>1, <1>2, PushFacts, PopFacts

LEMMA FrameStep ==
  ASSUME BaseInv, [Next]_vars
  PROVE  FrameInv' /\ ScriptsShare'
<1>1. LockTypeOK /\ FrameInv /\ Game \in Threads /\ ScriptsShare
  BY PartsOfThreads DEF BaseInv, LockInv
<1>2. UNCHANGED active => ScriptsShare'
  BY <1>1 DEF ScriptsShare
<1>3. ASSUME NEW a, active' = [active EXCEPT ![Game] = a] PROVE ScriptsShare'
  <2>1. \A t \in Scripts : active'[t] = active[t]
    BY <1>1, <1>3, PartsOfThreads DEF LockTypeOK
  <2>2. QED
    BY <1>1, <2>1 DEF ScriptsShare
<1>4. ASSUME NEW t \in Scripts, UNCHANGED <<phase, writeLockHeld>>,
             OpenRead(t) \/ CloseRead(t) \/ OpenReadReleaser(t) \/ CloseReadReleaser(t)
      PROVE  FrameInv' /\ ScriptsShare'
  BY <1>1, <1>2, <1>4, ScriptStep, FrameKept
<1>5. ASSUME NEW t \in Threads, NEW h \in Handles, ResolveCached(t, h)
      PROVE  FrameInv' /\ ScriptsShare'
  BY <1>4, <1>5, PartsOfThreads DEF ResolveCached, Hit
<1>6. ASSUME NEW t \in Threads, NEW h \in Handles, ResolveByWalk(t, h)
      PROVE  FrameInv' /\ ScriptsShare'
  <2>1. OpenRead(t) /\ UNCHANGED <<phase, writeLockHeld>> /\ RunsHere(t)
    BY <1>6 DEF ResolveByWalk
  <2>2. CASE t = Game
    <3>1. Push(Game, "Read") /\ UNCHANGED active /\ phase \notin {"Asleep", "AcquireWait"}
      BY <2>1, <2>2 DEF OpenRead, RunsHere
    <3>2. "Read" \in Kinds \ {"Write"} /\ (active'[Game] => active[Game])
      BY <3>1 DEF Kinds
    <3>3. FrameInv'
      BY <1>1, <2>1, <3>1, <3>2, FramePush
    <3>4. QED
      BY <1>2, <3>1, <3>3
  <2>3. QED
    BY <1>4, <2>1, <2>2, PartsOfThreads
<1>7. ASSUME NEW t \in Threads, NEW h \in Handles, BeginBuild(t, h)
      PROVE  FrameInv' /\ ScriptsShare'
  BY <1>4, <1>7 DEF BeginBuild
<1>8. ASSUME NEW t \in Threads, WaitForBuild(t) \/ EndBuild(t) \/ BeginPoll(t)
      PROVE  FrameInv' /\ ScriptsShare'
  <2>1. t \in Scripts
    BY <1>8, PartsOfThreads DEF WaitForBuild, EndBuild, BeginPoll, BaseInv, DataInv
  <2>2. QED
    BY <1>4, <1>8, <2>1 DEF WaitForBuild, EndBuild, BeginPoll, HandBack
<1>9. ASSUME NEW kind \in Kinds \ {"Write"}, Pop(Game, kind), UNCHANGED <<phase, writeLockHeld>>,
             active'[Game] => active[Game] \/ Innermost(Game).outer.active
      PROVE  FrameInv'
  BY <1>1, <1>9, FramePop
<1>10. ASSUME NEW t \in Threads, Unresolve(t) \/ EndPoll(t)
       PROVE  FrameInv' /\ ScriptsShare'
  <2>1. (CloseRead(t) \/ CloseReadReleaser(t)) /\ UNCHANGED <<phase, writeLockHeld>>
    BY <1>10 DEF Unresolve, EndPoll
  <2>2. CASE t = Game
    <3>1. UNCHANGED active /\ \E kind \in {"Read", "ReadReleaser"} : Pop(Game, kind)
      BY <2>1, <2>2 DEF CloseRead, CloseReadReleaser
    <3>2. FrameInv'
      BY <1>9, <2>1, <3>1 DEF Kinds
    <3>3. QED
      BY <1>2, <3>1, <3>2
  <2>3. QED
    BY <1>4, <2>1, <2>2, PartsOfThreads
<1>11. CASE BeginJoin
  <2>1. /\ Push(Game, "WriteReleaser") /\ active' = [active EXCEPT ![Game] = FALSE]
        /\ UNCHANGED <<phase, writeLockHeld>> /\ phase \notin {"Asleep", "AcquireWait"}
    BY <1>11 DEF BeginJoin, OpenWriteReleaser
  <2>2. "WriteReleaser" \in Kinds \ {"Write"} /\ (active'[Game] => active[Game])
    BY <1>1, <2>1 DEF Kinds, LockTypeOK
  <2>3. FrameInv'
    BY <1>1, <2>1, <2>2, FramePush
  <2>4. QED
    BY <1>3, <2>1, <2>3
<1>12. CASE EndJoin
  <2>1. /\ Pop(Game, "WriteReleaser") /\ UNCHANGED <<phase, writeLockHeld>>
        /\ \/ Innermost(Game).outer.active /\ active' = [active EXCEPT ![Game] = TRUE]
           \/ UNCHANGED active
    BY <1>12 DEF EndJoin, CloseWriteReleaser
  <2>2. FrameInv'
    BY <1>9, <2>1 DEF Kinds
  <2>3. QED
    BY <1>2, <1>3, <2>1, <2>2
<1>13. CASE Tick \/ RestOfFrame
  <2>1. StartTick \/ FrameMove
    BY <1>13 DEF Tick, RestOfFrame
  <2>2. FrameInv'
    BY <1>1, <2>1, FrameMoveKeeps
  <2>3. UNCHANGED active \/ \E a \in BOOLEAN : active' = [active EXCEPT ![Game] = a]
    BY <2>1 DEF StartTick, FrameMove, EndBody, EndDrain, StartSlice, EndSlice, EndSleep,
                Reacquire, OpenWrite, CloseWrite, lockVars
  <2>4. QED
    BY <1>2, <1>3, <2>2, <2>3
<1>14. CASE (\E t \in Threads : RunBuild(t)) \/ (\E h \in Handles : GameChanges(h)) \/ UNCHANGED vars
  <2>1. UNCHANGED frameVars
    BY <1>14 DEF RunBuild, GameChanges, vars
  <2>2. QED
    BY <1>1, <1>2, <2>1, FrameKept DEF frameVars, lockVars
<1>15. QED
  BY <1>5, <1>6, <1>7, <1>8, <1>10, <1>11, <1>12, <1>13, <1>14 DEF Next

-----------------------------------------------------------------------------
(* The types of what the handles keep. *)
LEMMA DataStep ==
  ASSUME BaseInv, [Next]_vars,
         \A t \in Threads : Unresolve(t) => live[t] # <<>>
  PROVE  DataInv'
<1>1. DataInv /\ LockTypeOK
  BY DEF BaseInv, LockInv
<1>2. /\ generation \in Nat /\ releaseEpoch \in [Threads -> Nat] /\ memory \in [Handles -> Nat]
      /\ built \subseteq Levels
      /\ cache \in [Scripts -> [Handles -> [ptr : Nat, gen : 0..generation]]]
      /\ live \in [Threads -> Seq(Resolveds)]
      /\ building \in [Threads -> Builds \union {NotBuilding}]
      /\ building[Game] = NotBuilding
  BY <1>1 DEF DataInv
<1>3. ASSUME NEW t \in Threads, NEW h \in Handles, ResolveCached(t, h)
      PROVE  DataInv'
  <2>1. t \in Scripts /\ cache[t][h].ptr \in Nat
    BY <1>2, <1>3, PartsOfThreads DEF ResolveCached, Hit
  <2>2. live' \in [Threads -> Seq(Resolveds)]
    BY <1>1, <1>3, <2>1, HoldTyped DEF ResolveCached
  <2>3. UNCHANGED <<generation, releaseEpoch, memory, built, cache, building>>
    BY <1>3 DEF ResolveCached
  <2>4. QED
    BY <1>2, <2>2, <2>3 DEF DataInv
<1>4. ASSUME NEW t \in Threads, NEW h \in Handles, ResolveByWalk(t, h)
      PROVE  DataInv'
  <2>1. Pointer(h) \in Nat
    BY <1>1, PointerType
  <2>2. live' \in [Threads -> Seq(Resolveds)]
    BY <1>1, <1>4, <2>1, HoldTyped DEF ResolveByWalk
  <2>3. cache' \in [Scripts -> [Handles -> [ptr : Nat, gen : 0..generation]]]
    BY <1>1, <1>2, <1>4, <2>1, PartsOfThreads, RememberTyped DEF ResolveByWalk
  <2>4. built' \subseteq Levels
    BY <1>2, <1>4 DEF ResolveByWalk, NeedsBuilding
  <2>5. UNCHANGED <<generation, releaseEpoch, memory, building>>
    BY <1>4 DEF ResolveByWalk
  <2>6. QED
    BY <1>2, <2>2, <2>3, <2>4, <2>5 DEF DataInv
<1>5. ASSUME NEW t \in Threads, NEW h \in Handles, BeginBuild(t, h)
      PROVE  DataInv'
  <2>1. h \in Levels /\ t # Game
    BY <1>5, PartsOfThreads DEF BeginBuild, NeedsBuilding
  <2>2. [handle |-> h, raw |-> Pointer(h), waiting |-> FALSE, done |-> FALSE] \in Builds
    BY <1>1, <2>1, PointerType DEF Builds
  <2>3. UNCHANGED <<generation, releaseEpoch, memory, built, cache, live>>
    BY <1>5 DEF BeginBuild
  <2>4. building' = [building EXCEPT ![t] = [handle |-> h, raw |-> Pointer(h),
                                               waiting |-> FALSE, done |-> FALSE]]
    BY <1>5 DEF BeginBuild
  <2>5. QED
    BY <1>2, <2>1, <2>2, <2>3, <2>4 DEF DataInv
<1>6. ASSUME NEW t \in Threads, HandBack(t)
      PROVE  releaseEpoch' \in [Threads -> Nat]
  <2>1. \/ releaseEpoch' = [releaseEpoch EXCEPT ![t] = releaseEpoch[t] + 1]
        \/ UNCHANGED releaseEpoch
    BY <1>6 DEF HandBack
  <2>2. releaseEpoch[t] + 1 \in Nat
    BY <1>2
  <2>3. QED
    BY <1>2, <2>1, <2>2
<1>7. ASSUME NEW t \in Threads, building[t] # NotBuilding
      PROVE  building[t] \in Builds /\ t # Game
  BY <1>2, <1>7
<1>8. ASSUME NEW t \in Threads, WaitForBuild(t)
      PROVE  DataInv'
  <2>1. building[t] \in Builds /\ t # Game
    BY <1>7, <1>8 DEF WaitForBuild
  <2>2. [building[t] EXCEPT !.waiting = TRUE] \in Builds
    BY <2>1 DEF Builds
  <2>3. building' = [building EXCEPT ![t] = [building[t] EXCEPT !.waiting = TRUE]]
    BY <1>8 DEF WaitForBuild
  <2>4. UNCHANGED <<generation, memory, built, cache, live>>
    BY <1>8 DEF WaitForBuild
  <2>5. releaseEpoch' \in [Threads -> Nat]
    BY <1>6, <1>8 DEF WaitForBuild
  <2>6. building' \in [Threads -> Builds \union {NotBuilding}] /\ building'[Game] = NotBuilding
    BY <1>2, <2>1, <2>2, <2>3
  <2>7. QED
    BY <1>2, <2>4, <2>5, <2>6 DEF DataInv
<1>9. ASSUME NEW t \in Threads, RunBuild(t)
      PROVE  DataInv'
  <2>1. building[t] \in Builds /\ t # Game
    BY <1>7, <1>9 DEF RunBuild
  <2>2. [building[t] EXCEPT !.done = TRUE] \in Builds /\ building[t].handle \in Levels
    BY <2>1 DEF Builds
  <2>3. building' = [building EXCEPT ![t] = [building[t] EXCEPT !.done = TRUE]]
    BY <1>9 DEF RunBuild
  <2>4. built' \subseteq Levels
    BY <1>2, <1>9, <2>2 DEF RunBuild
  <2>5. UNCHANGED <<generation, releaseEpoch, memory, cache, live>>
    BY <1>9 DEF RunBuild
  <2>6. QED
    BY <1>2, <2>1, <2>2, <2>3, <2>4, <2>5 DEF DataInv
<1>10. ASSUME NEW t \in Threads, EndBuild(t)
       PROVE  DataInv'
  <2>1. building[t] \in Builds /\ t \in Scripts
    BY <1>7, <1>10, PartsOfThreads DEF EndBuild
  <2>2. building[t].handle \in Handles /\ building[t].raw \in Nat
    BY <2>1 DEF Builds, Handles
  <2>3. live' \in [Threads -> Seq(Resolveds)]
    BY <1>1, <1>10, <2>2, HoldTyped DEF EndBuild
  <2>4. cache' \in [Scripts -> [Handles -> [ptr : Nat, gen : 0..generation]]]
    BY <1>1, <1>10, <2>1, <2>2, RememberTyped DEF EndBuild
  <2>5. building' = [building EXCEPT ![t] = NotBuilding]
    BY <1>10 DEF EndBuild
  <2>6. UNCHANGED <<generation, releaseEpoch, memory, built>>
    BY <1>10 DEF EndBuild
  <2>7. QED
    BY <1>2, <2>3, <2>4, <2>5, <2>6 DEF DataInv
<1>11. ASSUME NEW t \in Threads, Unresolve(t)
       PROVE  DataInv'
  <2>1. /\ live[t] \in Seq(Resolveds) /\ live[t] # <<>>
        /\ live' = [live EXCEPT ![t] = SubSeq(live[t], 1, Len(live[t]) - 1)]
    BY <1>2, <1>11 DEF Unresolve
  <2>2. SubSeq(live[t], 1, Len(live[t]) - 1) \in Seq(Resolveds)
    BY <2>1
  <2>3. UNCHANGED <<generation, releaseEpoch, memory, built, cache, building>>
    BY <1>11 DEF Unresolve
  <2>4. QED
    BY <1>2, <2>1, <2>2, <2>3 DEF DataInv
<1>12. ASSUME NEW t \in Threads, BeginPoll(t)
       PROVE  DataInv'
  <2>1. releaseEpoch' \in [Threads -> Nat]
    BY <1>6, <1>12 DEF BeginPoll
  <2>2. UNCHANGED <<generation, memory, built, cache, live, building>>
    BY <1>12 DEF BeginPoll
  <2>3. QED
    BY <1>2, <2>1, <2>2 DEF DataInv
<1>13. CASE BeginJoin
  <2>1. releaseEpoch' \in [Threads -> Nat]
    BY <1>2, <1>13 DEF BeginJoin
  <2>2. UNCHANGED <<generation, memory, built, cache, live, building>>
    BY <1>13 DEF BeginJoin
  <2>3. QED
    BY <1>2, <2>1, <2>2 DEF DataInv
<1>14. CASE Tick
  <2>1. generation' = generation + 1 /\ UNCHANGED <<releaseEpoch, memory, built, cache, live, building>>
    BY <1>14 DEF Tick
  <2>2. [ptr : Nat, gen : 0..generation] \subseteq [ptr : Nat, gen : 0..(generation + 1)]
    BY <1>2
  <2>3. cache' \in [Scripts -> [Handles -> [ptr : Nat, gen : 0..generation']]]
    BY <1>2, <2>1, <2>2
  <2>4. QED
    BY <1>2, <2>1, <2>3 DEF DataInv
<1>15. ASSUME NEW h \in Handles, GameChanges(h)
       PROVE  DataInv'
  BY <1>2, <1>15 DEF GameChanges, DataInv
<1>16. CASE (\E t \in Threads : EndPoll(t)) \/ EndJoin \/ RestOfFrame \/ UNCHANGED vars
  <2>1. UNCHANGED handleVars
    BY <1>16 DEF EndPoll, EndJoin, RestOfFrame, vars
  <2>2. QED
    BY <1>2, <2>1 DEF DataInv, handleVars
<1>17. QED
  BY <1>3, <1>4, <1>5, <1>8, <1>9, <1>10, <1>11, <1>12, <1>13, <1>14, <1>15, <1>16 DEF Next

-----------------------------------------------------------------------------
(* A Resolved of each thread for each of its Read scopes, but the one a    *)
(* waiting resolve has opened.                                             *)
ReadsCounted ==
  \A t \in Threads :
    Cardinality(ReadScopes(t)) = Len(live[t]) + (IF building[t] = NotBuilding THEN 0 ELSE 1)

LEMMA ReadsFinite ==
  ASSUME LockTypeOK, NEW t \in Threads
  PROVE  IsFiniteSet(ReadScopes(t)) /\ Cardinality(ReadScopes(t)) \in Nat
<1>1. Len(scopes[t]) \in Nat
  BY DEF LockTypeOK
<1>2. IsFiniteSet(1..Len(scopes[t])) /\ ReadScopes(t) \subseteq 1..Len(scopes[t])
  BY <1>1, FS_Interval DEF ReadScopes
<1>3. QED
  BY <1>2, FS_Subset, FS_CardinalityType

LEMMA ReadsPush ==
  ASSUME LockTypeOK, NEW t \in Threads, NEW kind \in Kinds, Push(t, kind)
  PROVE  /\ Cardinality(ReadScopes(t)') =
              Cardinality(ReadScopes(t)) + (IF kind = "Read" THEN 1 ELSE 0)
         /\ \A u \in Threads \ {t} : ReadScopes(u)' = ReadScopes(u)
<1> DEFINE n == Len(scopes[t])
<1>1. n \in Nat
  BY DEF LockTypeOK
<1>2. /\ Len(scopes'[t]) = n + 1
      /\ scopes'[t][n + 1] = [kind |-> kind, outer |-> LockState(t)]
      /\ \A i \in 1..n : scopes'[t][i] = scopes[t][i]
      /\ \A u \in Threads \ {t} : scopes'[u] = scopes[u]
  BY PushFacts
<1>3. ReadScopes(t) = {i \in 1..n : scopes[t][i].kind = "Read"}
  BY DEF ReadScopes
<1>4. ReadScopes(t)' = {i \in 1..(n + 1) : scopes'[t][i].kind = "Read"}
  BY <1>2 DEF ReadScopes
<1> HIDE DEF n
<1>5. ReadScopes(t)' = IF kind = "Read" THEN ReadScopes(t) \union {n + 1} ELSE ReadScopes(t)
  <2>1. scopes'[t][n + 1].kind = kind
    BY <1>2
  <2>2. QED
    BY <1>1, <1>2, <1>3, <1>4, <2>1
<1>6. n + 1 \notin ReadScopes(t)
  BY <1>1, <1>3
<1>7. IsFiniteSet(ReadScopes(t)) /\ Cardinality(ReadScopes(t)) \in Nat
  BY ReadsFinite
<1>8. Cardinality(ReadScopes(t)') =
        Cardinality(ReadScopes(t)) + (IF kind = "Read" THEN 1 ELSE 0)
  BY <1>5, <1>6, <1>7, FS_AddElement
<1>9. QED
  BY <1>2, <1>8 DEF ReadScopes

LEMMA ReadsPop ==
  ASSUME LockTypeOK, NEW t \in Threads, NEW kind, Pop(t, kind)
  PROVE  /\ Cardinality(ReadScopes(t)') =
              Cardinality(ReadScopes(t)) - (IF kind = "Read" THEN 1 ELSE 0)
         /\ kind = "Read" => Cardinality(ReadScopes(t)) > 0
         /\ \A u \in Threads \ {t} : ReadScopes(u)' = ReadScopes(u)
<1> DEFINE n == Len(scopes[t])
<1>1. /\ n \in Nat /\ n > 0
      /\ scopes[t][n].kind = kind
      /\ Len(scopes'[t]) = n - 1
      /\ \A i \in 1..(n - 1) : scopes'[t][i] = scopes[t][i]
      /\ \A u \in Threads \ {t} : scopes'[u] = scopes[u]
  BY PopFacts
<1>2. ReadScopes(t) = {i \in 1..n : scopes[t][i].kind = "Read"}
  BY DEF ReadScopes
<1>3. ReadScopes(t)' = {i \in 1..(n - 1) : scopes'[t][i].kind = "Read"}
  BY <1>1 DEF ReadScopes
<1> HIDE DEF n
<1>4. ReadScopes(t)' = ReadScopes(t) \ {n}
  BY <1>1, <1>2, <1>3
<1>5. n \in ReadScopes(t) <=> kind = "Read"
  BY <1>1, <1>2
<1>6. IsFiniteSet(ReadScopes(t)) /\ Cardinality(ReadScopes(t)) \in Nat
  BY ReadsFinite
<1>7. Cardinality(ReadScopes(t)') =
        Cardinality(ReadScopes(t)) - (IF kind = "Read" THEN 1 ELSE 0)
  <2>1. Cardinality(ReadScopes(t) \ {n}) = IF n \in ReadScopes(t)
                                            THEN Cardinality(ReadScopes(t)) - 1
                                            ELSE Cardinality(ReadScopes(t))
    BY <1>6, FS_RemoveElement
  <2>2. QED
    BY <1>4, <1>5, <1>6, <2>1
<1>8. kind = "Read" => Cardinality(ReadScopes(t)) > 0
  BY <1>5, <1>6, FS_EmptySet
<1>9. QED
  BY <1>1, <1>7, <1>8 DEF ReadScopes

(* A scope of another kind, or none, changes no thread's count. *)
LEMMA ReadsKept ==
  ASSUME LockTypeOK, NEW t \in Threads,
         \/ UNCHANGED scopes
         \/ \E kind \in Kinds \ {"Read"} : Push(t, kind) \/ Pop(t, kind)
  PROVE  \A u \in Threads : Cardinality(ReadScopes(u)') = Cardinality(ReadScopes(u))
<1>1. CASE UNCHANGED scopes
  BY <1>1 DEF ReadScopes
<1>2. ASSUME NEW kind \in Kinds \ {"Read"}, Push(t, kind) \/ Pop(t, kind)
      PROVE  \A u \in Threads : Cardinality(ReadScopes(u)') = Cardinality(ReadScopes(u))
  <2>1. Cardinality(ReadScopes(t)) \in Nat
    BY ReadsFinite
  <2>2. Cardinality(ReadScopes(t)') = Cardinality(ReadScopes(t))
    BY <1>2, <2>1, ReadsPush, ReadsPop
  <2>3. \A u \in Threads \ {t} : ReadScopes(u)' = ReadScopes(u)
    BY <1>2, ReadsPush, ReadsPop
  <2>4. QED
    BY <2>2, <2>3
<1>3. QED
  BY <1>1, <1>2

LEMMA ResolvedToClose ==
  ASSUME BaseInv, ReadsCounted, NEW t \in Threads, Unresolve(t)
  PROVE  live[t] # <<>> /\ Cardinality(ReadScopes(t)) = Len(live[t])
<1>1. LockTypeOK /\ DataInv
  BY DEF BaseInv, LockInv
<1>2. building[t] = NotBuilding /\ Pop(t, "Read")
  BY DEF Unresolve, Blocked, CloseRead
<1>3. Cardinality(ReadScopes(t)) > 0
  BY <1>1, <1>2, ReadsPop
<1>4. Cardinality(ReadScopes(t)) = Len(live[t]) + 0
  BY <1>2 DEF ReadsCounted
<1>5. live[t] \in Seq(Resolveds)
  BY <1>1 DEF DataInv
<1>6. QED
  BY <1>3, <1>4, <1>5

LEMMA CountStep ==
  ASSUME BaseInv, DataInv', ReadsCounted, [Next]_vars
  PROVE  ReadsCounted'
<1>1. LockTypeOK /\ DataInv /\ Game \in Threads
  BY PartsOfThreads DEF BaseInv, LockInv
<1>2. \A t \in Threads : live[t] \in Seq(Resolveds) /\ Len(live[t]) \in Nat
  BY <1>1 DEF DataInv
<1> DEFINE Opened(t) == IF building[t] = NotBuilding THEN 0 ELSE 1
<1>3. \A t \in Threads : Cardinality(ReadScopes(t)) = Len(live[t]) + Opened(t)
  BY DEF ReadsCounted
<1>4. \A t \in Threads : Opened(t)' = IF building'[t] = NotBuilding THEN 0 ELSE 1
  BY DEF NotBuilding
<1>5. ASSUME \A t \in Threads : Cardinality(ReadScopes(t)') = Len(live'[t]) + Opened(t)'
      PROVE  ReadsCounted'
  BY <1>4, <1>5 DEF ReadsCounted, NotBuilding
<1>6. ASSUME NEW t \in Threads,
             \A u \in Threads : Cardinality(ReadScopes(u)') = Cardinality(ReadScopes(u)),
             UNCHANGED live, \A u \in Threads : Opened(u)' = Opened(u)
      PROVE  ReadsCounted'
  BY <1>3, <1>5, <1>6
<1>7. UNCHANGED building => \A u \in Threads : Opened(u)' = Opened(u)
  BY <1>4
<1> HIDE DEF Opened
<1>8. ASSUME NEW t \in Threads, OpenRead(t)
      PROVE  /\ Cardinality(ReadScopes(t)') = Cardinality(ReadScopes(t)) + 1
             /\ \A u \in Threads \ {t} : Cardinality(ReadScopes(u)') = Cardinality(ReadScopes(u))
  <2>1. Push(t, "Read") /\ "Read" \in Kinds
    BY <1>8 DEF OpenRead, Kinds
  <2>2. QED
    BY <1>1, <2>1, ReadsPush
<1>9. ASSUME NEW t \in Threads, NEW h \in Handles, NEW p \in Nat, OpenRead(t), Hold(t, h, p),
             UNCHANGED building
      PROVE  ReadsCounted'
  <2>1. /\ Len(live'[t]) = Len(live[t]) + 1
        /\ \A u \in Threads \ {t} : live'[u] = live[u]
    BY <1>1, <1>9, HoldTyped
  <2>2. \A u \in Threads : Opened(u)' = Opened(u) /\ Opened(u) \in Nat
    BY <1>7, <1>9 DEF Opened
  <2>3. ASSUME NEW u \in Threads PROVE Cardinality(ReadScopes(u)') = Len(live'[u]) + Opened(u)'
    <3>1. CASE u = t
      BY <1>2, <1>3, <1>8, <1>9, <2>1, <2>2, <3>1
    <3>2. CASE u # t
      BY <1>3, <1>8, <1>9, <2>1, <2>2, <3>2
    <3>3. QED
      BY <3>1, <3>2
  <2>4. QED
    BY <1>5, <2>3
<1>10. ASSUME NEW t \in Threads, NEW h \in Handles, ResolveCached(t, h)
       PROVE  ReadsCounted'
  <2>1. t \in Scripts /\ cache[t][h].ptr \in Nat
    BY <1>1, <1>10, PartsOfThreads DEF ResolveCached, Hit, DataInv
  <2>2. QED
    BY <1>9, <1>10, <2>1 DEF ResolveCached
<1>11. ASSUME NEW t \in Threads, NEW h \in Handles, ResolveByWalk(t, h)
       PROVE  ReadsCounted'
  BY <1>1, <1>9, <1>11, PointerType DEF ResolveByWalk
<1>12. ASSUME NEW t \in Threads, NEW h \in Handles, BeginBuild(t, h)
       PROVE  ReadsCounted'
  <2>1. /\ OpenRead(t) /\ UNCHANGED live /\ building[t] = NotBuilding
        /\ building' = [building EXCEPT ![t] = [handle |-> h, raw |-> Pointer(h),
                                                  waiting |-> FALSE, done |-> FALSE]]
    BY <1>12 DEF BeginBuild, Blocked
  <2>2. [handle |-> h, raw |-> Pointer(h), waiting |-> FALSE, done |-> FALSE] \in Builds
    BY <1>1, <1>12, PointerType DEF BeginBuild, NeedsBuilding, Builds
  <2>3. /\ building'[t] # NotBuilding
        /\ \A u \in Threads \ {t} : building'[u] = building[u]
    BY <1>1, <2>1, <2>2, BuildsAreBuilding DEF DataInv
  <2>4. /\ Opened(t) = 0 /\ Opened(t)' = 1
        /\ \A u \in Threads \ {t} : Opened(u)' = Opened(u)
    BY <1>4, <2>1, <2>3 DEF Opened
  <2>5. ASSUME NEW u \in Threads PROVE Cardinality(ReadScopes(u)') = Len(live'[u]) + Opened(u)'
    <3>1. CASE u = t
      BY <1>2, <1>3, <1>8, <2>1, <2>4, <3>1
    <3>2. CASE u # t
      BY <1>3, <1>8, <2>1, <2>4, <3>2
    <3>3. QED
      BY <3>1, <3>2
  <2>6. QED
    BY <1>5, <2>5
<1>13. ASSUME NEW t \in Threads, WaitForBuild(t) \/ RunBuild(t)
       PROVE  ReadsCounted'
  <2>1. building[t] # NotBuilding /\ UNCHANGED live
    BY <1>13 DEF WaitForBuild, RunBuild
  <2>2. /\ building[t] \in Builds
        /\ \/ building' = [building EXCEPT ![t] = [building[t] EXCEPT !.waiting = TRUE]]
           \/ building' = [building EXCEPT ![t] = [building[t] EXCEPT !.done = TRUE]]
    BY <1>1, <1>13, <2>1 DEF WaitForBuild, RunBuild, DataInv
  <2>3. /\ [building[t] EXCEPT !.waiting = TRUE] \in Builds
        /\ [building[t] EXCEPT !.done = TRUE] \in Builds
    BY <2>2 DEF Builds
  <2>4. /\ building'[t] # NotBuilding
        /\ \A u \in Threads \ {t} : building'[u] = building[u]
    BY <1>1, <2>2, <2>3, BuildsAreBuilding DEF DataInv
  <2>5. \A u \in Threads : Opened(u)' = Opened(u)
    BY <1>4, <2>1, <2>4 DEF Opened
  <2>6. UNCHANGED scopes \/ Push(t, "ReadReleaser")
    BY <1>13 DEF WaitForBuild, HandBack, OpenReadReleaser, RunBuild, frameVars, lockVars
  <2>7. \A u \in Threads : Cardinality(ReadScopes(u)') = Cardinality(ReadScopes(u))
    BY <1>1, <2>6, ReadsKept DEF Kinds
  <2>8. QED
    BY <1>6, <2>1, <2>5, <2>7
<1>14. ASSUME NEW t \in Threads, EndBuild(t)
       PROVE  ReadsCounted'
  <2>1. building[t] # NotBuilding /\ building' = [building EXCEPT ![t] = NotBuilding]
    BY <1>14 DEF EndBuild
  <2>2. building[t] \in Builds /\ building[t].handle \in Handles /\ building[t].raw \in Nat
    BY <1>1, <2>1 DEF DataInv, Builds, Handles
  <2>3. /\ Len(live'[t]) = Len(live[t]) + 1
        /\ \A u \in Threads \ {t} : live'[u] = live[u]
    BY <1>1, <1>14, <2>2, HoldTyped DEF EndBuild
  <2>4. /\ Opened(t) = 1 /\ Opened(t)' = 0
        /\ \A u \in Threads \ {t} : Opened(u)' = Opened(u)
    BY <1>1, <1>4, <2>1 DEF Opened, DataInv
  <2>5. Pop(t, "ReadReleaser")
    BY <1>14 DEF EndBuild, CloseReadReleaser
  <2>6. \A u \in Threads : Cardinality(ReadScopes(u)') = Cardinality(ReadScopes(u))
    BY <1>1, <2>5, ReadsKept DEF Kinds
  <2>7. ASSUME NEW u \in Threads PROVE Cardinality(ReadScopes(u)') = Len(live'[u]) + Opened(u)'
    <3>1. CASE u = t
      BY <1>2, <1>3, <2>3, <2>4, <2>6, <3>1
    <3>2. CASE u # t
      BY <1>3, <2>3, <2>4, <2>6, <3>2
    <3>3. QED
      BY <3>1, <3>2
  <2>8. QED
    BY <1>5, <2>7
<1>15. ASSUME NEW t \in Threads, Unresolve(t)
       PROVE  ReadsCounted'
  <2>1. live[t] # <<>> /\ Cardinality(ReadScopes(t)) = Len(live[t])
    BY <1>15, ResolvedToClose
  <2>2. /\ live' = [live EXCEPT ![t] = SubSeq(live[t], 1, Len(live[t]) - 1)]
        /\ Pop(t, "Read") /\ UNCHANGED building /\ building[t] = NotBuilding
    BY <1>15 DEF Unresolve, CloseRead, Blocked
  <2>3. /\ Len(live'[t]) = Len(live[t]) - 1
        /\ \A u \in Threads \ {t} : live'[u] = live[u]
    BY <1>1, <1>2, <2>1, <2>2 DEF DataInv
  <2>4. \A u \in Threads : Opened(u)' = Opened(u)
    BY <1>7, <2>2
  <2>5. Opened(t)' = 0
    BY <1>4, <2>2
  <2>6. /\ Cardinality(ReadScopes(t)') = Cardinality(ReadScopes(t)) - 1
        /\ \A u \in Threads \ {t} : ReadScopes(u)' = ReadScopes(u)
    BY <1>1, <2>2, ReadsPop
  <2>7. ASSUME NEW u \in Threads PROVE Cardinality(ReadScopes(u)') = Len(live'[u]) + Opened(u)'
    <3>1. CASE u = t
      BY <1>2, <2>1, <2>3, <2>5, <2>6, <3>1
    <3>2. CASE u # t
      BY <1>3, <2>3, <2>4, <2>6, <3>2
    <3>3. QED
      BY <3>1, <3>2
  <2>8. QED
    BY <1>5, <2>7
<1>16. ASSUME NEW t \in Threads, BeginPoll(t) \/ EndPoll(t)
       PROVE  ReadsCounted'
  <2>1. UNCHANGED <<live, building>> /\ (Push(t, "ReadReleaser") \/ Pop(t, "ReadReleaser"))
    BY <1>16 DEF BeginPoll, HandBack, OpenReadReleaser, EndPoll, CloseReadReleaser, handleVars
  <2>2. \A u \in Threads : Cardinality(ReadScopes(u)') = Cardinality(ReadScopes(u))
    BY <1>1, <2>1, ReadsKept DEF Kinds
  <2>3. QED
    BY <1>6, <1>7, <2>1, <2>2
<1>17. CASE BeginJoin \/ EndJoin \/ Tick \/ RestOfFrame \/ (\E h \in Handles : GameChanges(h))
            \/ UNCHANGED vars
  <2>1. UNCHANGED <<live, building>>
    BY <1>17 DEF BeginJoin, EndJoin, Tick, RestOfFrame, GameChanges, handleVars, vars
  <2>2. \/ UNCHANGED scopes
        \/ \E kind \in {"Write", "WriteReleaser"} : Push(Game, kind) \/ Pop(Game, kind)
    BY <1>17 DEF BeginJoin, OpenWriteReleaser, EndJoin, CloseWriteReleaser, Tick, StartTick,
                 RestOfFrame, FrameMove, EndBody, EndDrain, StartSlice, EndSlice, EndSleep,
                 Reacquire, OpenWrite, CloseWrite, GameChanges, vars, frameVars, lockVars
  <2>3. \A u \in Threads : Cardinality(ReadScopes(u)') = Cardinality(ReadScopes(u))
    BY <1>1, <2>2, ReadsKept DEF Kinds
  <2>4. QED
    BY <1>1, <1>6, <1>7, <2>1, <2>3
<1>18. QED
  BY <1>10, <1>11, <1>12, <1>13, <1>14, <1>15, <1>16, <1>17 DEF Next

-----------------------------------------------------------------------------
CountInv == BaseInv /\ ReadsCounted

LEMMA CountInvInit == Init => CountInv
<1> SUFFICES ASSUME Init PROVE CountInv
  OBVIOUS
<1>1. LockInv /\ FrameInv
  BY LockInvInit, FrameInvInit DEF Init, FrameInit
<1>2. ScriptsShare
  BY PartsOfThreads DEF Init, FrameInit, LockInit, ScriptsShare
<1>3. DataInv
  <2>1. /\ generation = 0 /\ releaseEpoch = [t \in Threads |-> 0]
        /\ memory = [h \in Handles |-> 1] /\ built = {}
        /\ live = [t \in Threads |-> <<>>]
        /\ building = [t \in Threads |-> NotBuilding]
        /\ cache = [t \in Scripts |-> [h \in Handles |-> [ptr |-> 0, gen |-> 0]]]
    BY DEF Init, nullptr
  <2>2. [ptr |-> 0, gen |-> 0] \in [ptr : Nat, gen : 0..generation]
    BY <2>1
  <2>3. cache \in [Scripts -> [Handles -> [ptr : Nat, gen : 0..generation]]]
    BY <2>1, <2>2
  <2>4. live \in [Threads -> Seq(Resolveds)]
    BY <2>1
  <2>5. QED
    BY <2>1, <2>3, <2>4, PartsOfThreads DEF DataInv
<1>4. ASSUME NEW t \in Threads
      PROVE  Cardinality(ReadScopes(t)) = Len(live[t]) + (IF building[t] = NotBuilding THEN 0 ELSE 1)
  <2>1. scopes[t] = <<>> /\ live[t] = <<>> /\ building[t] = NotBuilding
    BY <1>4 DEF Init, FrameInit, LockInit
  <2>2. ReadScopes(t) = {}
    BY <2>1 DEF ReadScopes
  <2>3. QED
    BY <2>1, <2>2, FS_EmptySet
<1>5. QED
  BY <1>1, <1>2, <1>3, <1>4 DEF CountInv, BaseInv, ReadsCounted

LEMMA CountInvStep == CountInv /\ [Next]_vars => CountInv'
<1> SUFFICES ASSUME CountInv, [Next]_vars PROVE CountInv'
  OBVIOUS
<1>1. BaseInv /\ ReadsCounted
  BY DEF CountInv
<1>2. LockInv'
  BY <1>1, LockMoves, LockInvStep DEF BaseInv
<1>3. FrameInv' /\ ScriptsShare'
  BY <1>1, FrameStep
<1>4. DataInv'
  BY <1>1, DataStep, ResolvedToClose
<1>5. ReadsCounted'
  BY <1>1, <1>4, CountStep
<1>6. QED
  BY <1>2, <1>3, <1>4, <1>5 DEF CountInv, BaseInv

LEMMA CountInvariant == Spec => []CountInv
BY CountInvInit, CountInvStep, PTL DEF Spec

(***************************************************************************)
(* HandleCache.h:100-147: every Resolved of a thread stands for one of its *)
(* open read locks, for any threads and any nesting of resolves, releases  *)
(* and waits: a pointer never outlives the lock that was taken with it.    *)
(***************************************************************************)
THEOREM HandleTypesHold == Spec => []HandleTypeOK
<1>1. CountInv => HandleTypeOK
  BY DEF CountInv, BaseInv, LockInv, FrameInv, DataInv, ReadsCounted, HandleTypeOK
<1>2. QED
  BY <1>1, CountInvariant, PTL

-----------------------------------------------------------------------------
(* With nothing of its own open, in its frame after the first tick, the    *)
(* game thread is alone: it has the write lock, and no other thread reads. *)
LEMMA GameAlone ==
  ASSUME CountInv, writeLockHeld, phase = "Game", AtBase
  PROVE  /\ active[Game]
         /\ \A t \in Scripts : depth[t] = 0
         /\ live[Game] = <<>>
<1>1. /\ LockTypeOK /\ HeldIsOwned /\ FrameInv /\ DataInv
  BY DEF CountInv, BaseInv, LockInv
<1>2. scopes[Game] # <<>> /\ Len(scopes[Game]) \in Nat /\ Len(scopes[Game]) # 0
  BY <1>1, GameScopes DEF FrameInv, FrameOwnsLock
<1>3. active[Game] /\ Len(scopes[Game]) = 1
  BY <1>2 DEF AtBase
<1>4. readers = {}
  BY <1>1, <1>3, PartsOfThreads, ThreadsAssumption DEF HeldIsOwned, ThreadsAssumption
<1>5. \A t \in Threads : depth[t] \in Nat /\ ~(depth[t] > 0)
  BY <1>1, <1>4 DEF HeldIsOwned, LockTypeOK
<1>6. ASSUME NEW t \in Scripts PROVE depth[t] = 0
  <2>1. t \in Threads
    BY PartsOfThreads
  <2>2. depth[t] \in Nat /\ ~(depth[t] > 0)
    BY <1>5, <2>1
  <2>3. QED
    BY <2>2
<1>7. scopes[Game][1].kind = "Write"
  BY <1>1, <1>2 DEF FrameInv
<1>8. ReadScopes(Game) = {}
  BY <1>3, <1>7 DEF ReadScopes
<1>9. Cardinality(ReadScopes(Game)) = 0
  BY <1>8, FS_EmptySet
<1>10. live[Game] \in Seq(Resolveds) /\ Cardinality(ReadScopes(Game)) = Len(live[Game]) + 0
  BY <1>1, PartsOfThreads DEF CountInv, ReadsCounted, DataInv
<1>11. QED
  BY <1>3, <1>6, <1>9, <1>10

(***************************************************************************)
(* HandleCache.h:27-28: while a script thread keeps a read lock, no tick   *)
(* starts and nothing of the game changes, whatever the game thread was    *)
(* doing when the script took it.                                          *)
(***************************************************************************)
THEOREM NothingMovesHolds == Spec => NothingMovesUnderALock
<1>1. CountInv /\ [Next]_vars =>
        [\A t \in Scripts : writeLockHeld /\ depth[t] > 0 => UNCHANGED <<generation, memory>>]_vars
  <2> SUFFICES ASSUME CountInv, [Next]_vars, NEW t \in Scripts, writeLockHeld, depth[t] > 0
               PROVE  UNCHANGED <<generation, memory>>
    OBVIOUS
  <2>1. CASE Tick \/ \E h \in Handles : GameChanges(h)
    <3>1. phase = "Game" /\ AtBase
      BY <2>1 DEF Tick, StartTick, To, GameChanges
    <3>2. QED
      BY <3>1, GameAlone
  <2>2. CASE \E u \in Threads, h \in Handles :
               ResolveCached(u, h) \/ ResolveByWalk(u, h) \/ BeginBuild(u, h)
    BY <2>2 DEF ResolveCached, ResolveByWalk, BeginBuild
  <2>3. CASE \E u \in Threads : WaitForBuild(u) \/ RunBuild(u) \/ EndBuild(u) \/ Unresolve(u)
                                 \/ BeginPoll(u) \/ EndPoll(u)
    BY <2>3 DEF WaitForBuild, RunBuild, EndBuild, Unresolve, BeginPoll, EndPoll, handleVars
  <2>4. CASE BeginJoin \/ EndJoin \/ RestOfFrame \/ UNCHANGED vars
    BY <2>4 DEF BeginJoin, EndJoin, RestOfFrame, handleVars, vars
  <2>5. QED
    BY <2>1, <2>2, <2>3, <2>4 DEF Next
<1>2. QED
  BY <1>1, CountInvariant, PTL DEF Spec, NothingMovesUnderALock

-----------------------------------------------------------------------------
(* What is true of each Resolved: its epoch is past or current; and while  *)
(* it may be followed, its thread has kept the lock it was made under, at  *)
(* the depth it was made at, so the game could not move its structure.     *)
Kept(t, i) ==
  /\ live[t][i].epoch <= releaseEpoch[t]
  /\ Followable(t, i) /\ live[t][i].handle \in Units =>
       /\ t \in Scripts => depth[t] >= Len(live[t]) - i + 1
       /\ writeLockHeld => Sound(live[t][i])

ResolvedsKept == \A t \in Threads : \A i \in 1..Len(live[t]) : Kept(t, i)

(* A cached pointer is current outside the game's own frame: the frame     *)
(* changes structures, the tick that ends it outdates every entry.         *)
CacheKept ==
  writeLockHeld /\ phase # "Game" =>
    \A t \in Scripts, h \in Units : Hit(t, h) => cache[t][h].ptr = memory[h]

(* The game's own frame never runs without the write lock. *)
FrameIsOwned == writeLockHeld /\ phase = "Game" => active[Game]

FreshInv == CountInv /\ ResolvedsKept /\ CacheKept /\ FrameIsOwned

(* A script that has taken a read lock has shut the game's frame out. *)
LEMMA ReaderShutsFrame ==
  ASSUME CountInv, FrameIsOwned, writeLockHeld, NEW t \in Scripts,
         OpenRead(t) \/ depth[t] > 0
  PROVE  phase # "Game"
<1>1. HeldIsOwned /\ t \in Threads /\ Game \in Threads /\ ~active[t]
  BY PartsOfThreads DEF CountInv, BaseInv, LockInv, ScriptsShare
<1>2. depth[t] \in Nat
  BY <1>1 DEF CountInv, BaseInv, LockInv, LockTypeOK
<1>3. CASE depth[t] > 0
  <2>1. writer = NoThread
    BY <1>1, <1>3 DEF HeldIsOwned
  <2>2. ~active[Game]
    BY <1>1, <2>1, ThreadsAssumption DEF HeldIsOwned, ThreadsAssumption
  <2>3. QED
    BY <2>2 DEF FrameIsOwned
<1>4. CASE depth[t] = 0
  <2>1. OpenRead(t)
    BY <1>4
  <2>2. writer = NoThread
    BY <1>1, <1>4, <2>1 DEF OpenRead, TakeShared
  <2>3. ~active[Game]
    BY <1>1, <2>2, ThreadsAssumption DEF HeldIsOwned, ThreadsAssumption
  <2>4. QED
    BY <2>3 DEF FrameIsOwned
<1>5. QED
  BY <1>2, <1>3, <1>4

(* A Resolved is kept while its thread, the memory and the frame stand still. *)
LEMMA ThreadStands ==
  ASSUME ResolvedsKept, NEW t \in Threads, UNCHANGED <<memory, writeLockHeld>>,
         live'[t] = live[t], releaseEpoch'[t] = releaseEpoch[t],
         t \in Scripts => depth'[t] = depth[t]
  PROVE  \A i \in 1..Len(live'[t]) : Kept(t, i)'
BY DEF ResolvedsKept, Kept, Followable, Sound

(* The lock of a script under the four operations it uses. *)
LEMMA ScriptLock ==
  ASSUME CountInv, NEW t \in Scripts
  PROVE  /\ depth[t] \in Nat
         /\ OpenRead(t) => depth'[t] = depth[t] + 1
         /\ CloseRead(t) => depth'[t] = depth[t] - 1
         /\ OpenReadReleaser(t) => depth'[t] = 0
         /\ CloseReadReleaser(t) => depth[t] = 0
<1>1. LockInv /\ LockTypeOK /\ t \in Threads /\ ~active[t]
  BY PartsOfThreads DEF CountInv, BaseInv, LockInv, ScriptsShare
<1>2. depth \in [Threads -> Nat]
  BY <1>1 DEF LockTypeOK
<1>3. OpenRead(t) => depth'[t] = depth[t] + 1
  BY <1>1, <1>2 DEF OpenRead
<1>4. CloseRead(t) => depth'[t] = depth[t] - 1
  BY <1>1, <1>2 DEF CloseRead
<1>5. OpenReadReleaser(t) => depth'[t] = 0
  BY <1>1, <1>2 DEF OpenReadReleaser
<1>6. ASSUME CloseReadReleaser(t) PROVE depth[t] = 0
  <2>1. Pop(t, "ReadReleaser")
    BY <1>6 DEF CloseReadReleaser
  <2>2. /\ Innermost(t) \in Scopes /\ Innermost(t).kind = "ReadReleaser"
        /\ Inside(Innermost(t)).depth = depth[t]
    BY <1>1, <2>1, InnermostFacts
  <2>3. QED
    BY <2>2, InsideFacts
<1>7. QED
  BY <1>1, <1>2, <1>3, <1>4, <1>5, <1>6

(* Another thread's step leaves a script its depth. *)
LEMMA OthersDepth ==
  ASSUME CountInv, NEW t \in Threads, LockStep(t) \/ UNCHANGED depth, NEW u \in Scripts, u # t
  PROVE  depth'[u] = depth[u]
<1>1. LockInv /\ u \in Threads
  BY PartsOfThreads DEF CountInv, BaseInv
<1>2. CASE LockStep(t)
  <2>1. LockState(u)' = LockState(u)
    BY <1>1, <1>2, StepShape DEF OthersKeep
  <2>2. LockState(u).depth = depth[u] /\ LockState(u)'.depth = depth'[u]
    BY DEF LockState
  <2>3. QED
    BY <2>1, <2>2
<1>3. QED
  BY <1>2

(* A lock that is handed back leaves nothing to follow: its epoch is past. *)
LEMMA HandBackKeeps ==
  ASSUME CountInv, ResolvedsKept, NEW t \in Scripts, HandBack(t),
         UNCHANGED <<writeLockHeld, memory, live>>
  PROVE  ResolvedsKept'
<1>1. DataInv /\ t \in Threads /\ releaseEpoch \in [Threads -> Nat]
      /\ live \in [Threads -> Seq(Resolveds)]
  BY PartsOfThreads DEF CountInv, BaseInv, DataInv
<1>2. depth[t] \in Nat
  BY ScriptLock
<1>3. ASSUME NEW i \in 1..Len(live'[t]) PROVE Kept(t, i)'
  <2>1. i \in 1..Len(live[t]) /\ Len(live[t]) \in Nat /\ live[t][i] \in Resolveds
        /\ live'[t] = live[t]
    BY <1>1, <1>3
  <2>2. Kept(t, i) /\ live[t][i].epoch \in Nat /\ releaseEpoch[t] \in Nat
    BY <1>1, <2>1 DEF ResolvedsKept, Resolveds
  <2>3. CASE depth[t] > 0
    <3>1. releaseEpoch'[t] = releaseEpoch[t] + 1
      BY <1>1, <2>3 DEF HandBack
    <3>2. /\ live[t][i].epoch <= releaseEpoch'[t]
          /\ live[t][i].epoch # releaseEpoch'[t]
      BY <2>2, <3>1 DEF Kept
    <3>3. QED
      BY <2>1, <3>2 DEF Kept, Followable
  <2>4. CASE depth[t] = 0
    <3>1. releaseEpoch'[t] = releaseEpoch[t]
      BY <2>4 DEF HandBack
    <3>2. ~(Followable(t, i) /\ live[t][i].handle \in Units)
      BY <2>1, <2>2, <2>4 DEF Kept
    <3>3. QED
      BY <2>1, <2>2, <3>1, <3>2 DEF Kept, Followable
  <2>5. QED
    BY <1>2, <2>3, <2>4
<1>4. ASSUME NEW u \in Threads, u # t PROVE \A i \in 1..Len(live'[u]) : Kept(u, i)'
  <2>1. releaseEpoch'[u] = releaseEpoch[u] /\ live'[u] = live[u]
    BY <1>1, <1>4 DEF HandBack
  <2>2. u \in Scripts => depth'[u] = depth[u]
    BY <1>1, <1>4, OthersDepth DEF HandBack, LockStep
  <2>3. QED
    BY <2>1, <2>2, ThreadStands
<1>5. QED
  BY <1>3, <1>4 DEF ResolvedsKept

(* A pointer that is resolved under a new read lock is kept, and so are    *)
(* those resolved before it.                                               *)
LEMMA HoldKeeps ==
  ASSUME CountInv, ResolvedsKept, NEW t \in Threads, OpenRead(t),
         NEW h \in Handles, NEW p \in Nat, Hold(t, h, p),
         writeLockHeld /\ h \in Units => (p # nullptr => p = memory[h]),
         UNCHANGED <<writeLockHeld, memory, releaseEpoch>>
  PROVE  ResolvedsKept'
<1>1. DataInv /\ releaseEpoch \in [Threads -> Nat] /\ live \in [Threads -> Seq(Resolveds)]
  BY DEF CountInv, BaseInv, DataInv
<1>0. Len(live[t]) \in Nat
  BY <1>1
<1> PICK n \in Nat : n = Len(live[t])
  BY <1>0
<1>2. /\ Len(live'[t]) = n + 1
      /\ live'[t][n + 1] = [handle |-> h, ptr |-> p, epoch |-> releaseEpoch[t]]
      /\ \A i \in 1..n : live'[t][i] = live[t][i]
      /\ \A u \in Threads \ {t} : live'[u] = live[u]
  BY <1>1, HoldTyped
<1>3. t \in Scripts => depth[t] \in Nat /\ depth'[t] = depth[t] + 1
  BY ScriptLock
<1>4. ASSUME NEW i \in 1..n PROVE Kept(t, i)'
  <2>1. Kept(t, i)
    BY <1>4 DEF ResolvedsKept
  <2>2. live'[t][i] = live[t][i]
    BY <1>2, <1>4
  <2>3. Followable(t, i)' => Followable(t, i)
    BY <2>2 DEF Followable
  <2>4. t \in Scripts /\ depth[t] >= n - i + 1 => depth'[t] >= Len(live'[t]) - i + 1
    BY <1>2, <1>3, <1>4
  <2>5. QED
    BY <2>1, <2>2, <2>3, <2>4 DEF Kept, Sound
<1>5. Kept(t, n + 1)'
  <2>1. /\ live'[t][n + 1].handle = h /\ live'[t][n + 1].ptr = p
        /\ live'[t][n + 1].epoch <= releaseEpoch'[t]
    BY <1>1, <1>2
  <2>2. t \in Scripts => depth'[t] >= Len(live'[t]) - (n + 1) + 1
    BY <1>2, <1>3
  <2>3. writeLockHeld' /\ h \in Units => Sound(live[t][n + 1])'
    BY <2>1 DEF Sound
  <2>4. QED
    BY <2>1, <2>2, <2>3, Zenon DEF Kept
<1>6. ASSUME NEW u \in Threads, u # t PROVE \A i \in 1..Len(live'[u]) : Kept(u, i)'
  <2>1. live'[u] = live[u] /\ (u \in Scripts => depth'[u] = depth[u])
    BY <1>2, <1>6, OthersDepth DEF LockStep
  <2>2. QED
    BY <1>6, <2>1, ThreadStands
<1>7. ASSUME NEW i \in 1..Len(live'[t]) PROVE Kept(t, i)'
  <2>1. i \in 1..n \/ i = n + 1
    BY <1>2, <1>7
  <2>2. QED
    BY <1>4, <1>5, <2>1
<1>8. QED
  BY <1>6, <1>7 DEF ResolvedsKept

(* Closing the innermost one keeps those around it. *)
LEMMA UnresolveKeeps ==
  ASSUME CountInv, ResolvedsKept, NEW t \in Threads, Unresolve(t)
  PROVE  ResolvedsKept'
<1>1. /\ BaseInv /\ ReadsCounted /\ live \in [Threads -> Seq(Resolveds)]
  BY DEF CountInv, BaseInv, DataInv
<1>2. /\ CloseRead(t) /\ UNCHANGED <<writeLockHeld, memory, releaseEpoch>>
      /\ live' = [live EXCEPT ![t] = SubSeq(live[t], 1, Len(live[t]) - 1)]
  BY DEF Unresolve
<1> DEFINE n == Len(live[t])
<1>3. live[t] # <<>>
  BY <1>1, ResolvedToClose
<1>4. /\ n \in Nat /\ n > 0 /\ Len(live'[t]) = n - 1
      /\ \A i \in 1..(n - 1) : live'[t][i] = live[t][i]
      /\ \A u \in Threads \ {t} : live'[u] = live[u]
  <2>1. live[t] \in Seq(Resolveds) /\ n \in Nat /\ n > 0
    BY <1>1, <1>3
  <2>2. live'[t] = SubSeq(live[t], 1, n - 1) /\ \A u \in Threads \ {t} : live'[u] = live[u]
    BY <1>1, <1>2
  <2>3. /\ Len(SubSeq(live[t], 1, n - 1)) = n - 1
        /\ \A i \in 1..(n - 1) : SubSeq(live[t], 1, n - 1)[i] = live[t][i]
    BY <2>1
  <2>4. QED
    BY <2>1, <2>2, <2>3
<1>5. t \in Scripts => depth[t] \in Nat /\ depth'[t] = depth[t] - 1
  BY <1>2, ScriptLock
<1> HIDE DEF n
<1>6. ASSUME NEW i \in 1..Len(live'[t]) PROVE Kept(t, i)'
  <2>1. i \in 1..n /\ live'[t][i] = live[t][i]
    BY <1>4, <1>6
  <2>2. Kept(t, i)
    BY <2>1 DEF ResolvedsKept, n
  <2>3. Followable(t, i)' => Followable(t, i)
    BY <1>2, <2>1 DEF Followable
  <2>4. t \in Scripts /\ depth[t] >= n - i + 1 => depth'[t] >= Len(live'[t]) - i + 1
    BY <1>4, <1>5, <2>1
  <2>5. QED
    BY <1>2, <2>1, <2>2, <2>3, <2>4 DEF Kept, Sound, n
<1>7. ASSUME NEW u \in Threads, u # t PROVE \A i \in 1..Len(live'[u]) : Kept(u, i)'
  <2>1. live'[u] = live[u] /\ (u \in Scripts => depth'[u] = depth[u])
    BY <1>2, <1>4, <1>7, OthersDepth DEF LockStep
  <2>2. QED
    BY <1>2, <1>7, <2>1, ThreadStands
<1>8. QED
  BY <1>6, <1>7 DEF ResolvedsKept

(* With no script inside the lock and no pointer on the game thread there  *)
(* is nothing to follow: the game may change and the frame may begin.      *)
LEMMA NobodyKeeps ==
  ASSUME CountInv, ResolvedsKept, UNCHANGED <<live, releaseEpoch, depth>>, live[Game] = <<>>,
         \A t \in Scripts : depth[t] = 0
  PROVE  ResolvedsKept'
<1> SUFFICES ASSUME NEW t \in Threads, NEW i \in 1..Len(live'[t]) PROVE Kept(t, i)'
  BY DEF ResolvedsKept
<1>1. live[t] \in Seq(Resolveds) /\ Len(live[t]) \in Nat /\ i \in 1..Len(live[t])
  BY DEF CountInv, BaseInv, DataInv
<1>2. t # Game
  BY <1>1
<1>3. t \in Scripts /\ depth[t] = 0
  BY <1>2, PartsOfThreads
<1>4. Kept(t, i)
  BY <1>1 DEF ResolvedsKept
<1>5. ~(Followable(t, i) /\ live[t][i].handle \in Units)
  BY <1>1, <1>3, <1>4 DEF Kept
<1>6. QED
  BY <1>4, <1>5 DEF Kept, Followable

(* Opening or closing something else on a thread that has nothing to       *)
(* follow, or whose depth only grows.                                      *)
LEMMA StillKept ==
  ASSUME CountInv, ResolvedsKept, NEW t \in Threads, LockStep(t),
         UNCHANGED <<live, releaseEpoch, memory, writeLockHeld>>,
         t \in Scripts => OpenRead(t) \/ CloseReadReleaser(t)
  PROVE  ResolvedsKept'
<1>1. ASSUME NEW u \in Threads, u # t \/ t = Game
      PROVE  \A i \in 1..Len(live'[u]) : Kept(u, i)'
  <2>1. u \in Scripts => depth'[u] = depth[u]
    BY <1>1, OthersDepth, PartsOfThreads
  <2>2. QED
    BY <2>1, ThreadStands
<1>2. ASSUME t \in Scripts, NEW i \in 1..Len(live'[t]) PROVE Kept(t, i)'
  <2>1. live[t] \in Seq(Resolveds) /\ Len(live[t]) \in Nat /\ i \in 1..Len(live[t])
    BY <1>2 DEF CountInv, BaseInv, DataInv
  <2>2. Kept(t, i) /\ depth[t] \in Nat
    BY <1>2, <2>1, ScriptLock DEF ResolvedsKept
  <2>3. CASE OpenRead(t)
    <3>1. depth'[t] = depth[t] + 1
      BY <1>2, <2>3, ScriptLock
    <3>2. depth[t] >= Len(live[t]) - i + 1 => depth'[t] >= Len(live'[t]) - i + 1
      BY <2>1, <2>2, <3>1
    <3>3. QED
      BY <1>2, <2>2, <3>2 DEF Kept, Followable, Sound
  <2>4. CASE CloseReadReleaser(t)
    <3>1. depth[t] = 0
      BY <1>2, <2>4, ScriptLock
    <3>2. ~(Followable(t, i) /\ live[t][i].handle \in Units)
      BY <1>2, <2>1, <2>2, <3>1 DEF Kept
    <3>3. QED
      BY <2>2, <3>2 DEF Kept, Followable
  <2>5. QED
    BY <1>2, <2>3, <2>4
<1>3. QED
  BY <1>1, <1>2, PartsOfThreads DEF ResolvedsKept

(* A level that has been waited for takes its place among pointers that    *)
(* nobody may follow any more.                                             *)
LEMMA EndBuildKeeps ==
  ASSUME CountInv, ResolvedsKept, NEW t \in Threads, EndBuild(t)
  PROVE  ResolvedsKept'
<1>1. DataInv /\ releaseEpoch \in [Threads -> Nat] /\ live \in [Threads -> Seq(Resolveds)]
  BY DEF CountInv, BaseInv, DataInv
<1>2. /\ building[t] # NotBuilding /\ CloseReadReleaser(t)
      /\ Hold(t, building[t].handle, building[t].raw)
      /\ UNCHANGED <<writeLockHeld, releaseEpoch, memory>>
  BY DEF EndBuild
<1>3. t \in Scripts /\ building[t] \in Builds
  BY <1>1, <1>2, PartsOfThreads DEF DataInv
<1> PICK h \in Levels, p \in Nat : h = building[t].handle /\ p = building[t].raw
  BY <1>3 DEF Builds
<1>4. h \in Handles /\ h \notin Units /\ Hold(t, h, p)
  BY <1>2, HandlesAssumption DEF Handles, HandlesAssumption
<1>5. Len(live[t]) \in Nat
  BY <1>1
<1> PICK n \in Nat : n = Len(live[t])
  BY <1>5
<1>6. /\ Len(live'[t]) = n + 1
      /\ live'[t][n + 1] = [handle |-> h, ptr |-> p, epoch |-> releaseEpoch[t]]
      /\ \A i \in 1..n : live'[t][i] = live[t][i]
      /\ \A u \in Threads \ {t} : live'[u] = live[u]
  BY <1>1, <1>4, HoldTyped
<1>7. depth[t] = 0
  BY <1>2, <1>3, ScriptLock
<1>8. ASSUME NEW i \in 1..n PROVE Kept(t, i)'
  <2>1. Kept(t, i) /\ live'[t][i] = live[t][i]
    BY <1>6, <1>8 DEF ResolvedsKept
  <2>2. ~(Followable(t, i) /\ live[t][i].handle \in Units)
    BY <1>3, <1>7, <1>8, <2>1 DEF Kept
  <2>3. QED
    BY <1>2, <2>1, <2>2 DEF Kept, Followable
<1>9. Kept(t, n + 1)'
  <2>1. live'[t][n + 1].handle \notin Units /\ live'[t][n + 1].epoch <= releaseEpoch'[t]
    BY <1>1, <1>2, <1>4, <1>6
  <2>2. QED
    BY <2>1 DEF Kept
<1>10. ASSUME NEW u \in Threads, u # t PROVE \A i \in 1..Len(live'[u]) : Kept(u, i)'
  <2>1. live'[u] = live[u] /\ (u \in Scripts => depth'[u] = depth[u])
    BY <1>2, <1>6, <1>10, OthersDepth DEF LockStep
  <2>2. QED
    BY <1>2, <1>10, <2>1, ThreadStands
<1>11. ASSUME NEW i \in 1..Len(live'[t]) PROVE Kept(t, i)'
  <2>1. i \in 1..n \/ i = n + 1
    BY <1>6, <1>11
  <2>2. QED
    BY <1>8, <1>9, <2>1
<1>12. QED
  BY <1>10, <1>11 DEF ResolvedsKept

(* A join counts on the game thread what it hands back. *)
LEMMA BeginJoinKeeps ==
  ASSUME CountInv, ResolvedsKept, BeginJoin
  PROVE  ResolvedsKept'
<1>1. /\ releaseEpoch \in [Threads -> Nat] /\ live \in [Threads -> Seq(Resolveds)]
      /\ Game \in Threads
  BY PartsOfThreads DEF CountInv, BaseInv, DataInv
<1>2. /\ OpenWriteReleaser(Game) /\ UNCHANGED <<writeLockHeld, memory, live>>
      /\ \/ releaseEpoch' = [releaseEpoch EXCEPT ![Game] = releaseEpoch[Game] + 1]
         \/ UNCHANGED releaseEpoch
  BY DEF BeginJoin
<1>3. ASSUME NEW i \in 1..Len(live'[Game]) PROVE Kept(Game, i)'
  <2>1. /\ i \in 1..Len(live[Game]) /\ live[Game][i] \in Resolveds
        /\ live'[Game] = live[Game]
    BY <1>1, <1>2, <1>3
  <2>2. /\ Kept(Game, i) /\ live[Game][i].epoch \in Nat /\ releaseEpoch[Game] \in Nat
        /\ live[Game][i].epoch <= releaseEpoch[Game]
    BY <1>1, <2>1 DEF ResolvedsKept, Resolveds, Kept
  <2>3. Game \notin Scripts
    BY PartsOfThreads
  <2>4. CASE UNCHANGED releaseEpoch
    BY <1>2, <2>1, <2>2, <2>3, <2>4 DEF Kept, Followable, Sound
  <2>5. CASE releaseEpoch' = [releaseEpoch EXCEPT ![Game] = releaseEpoch[Game] + 1]
    <3>1. /\ live'[Game][i].epoch <= releaseEpoch'[Game]
          /\ live'[Game][i].epoch # releaseEpoch'[Game]
      BY <1>1, <2>1, <2>2, <2>5
    <3>2. QED
      BY <3>1 DEF Kept, Followable
  <2>6. QED
    BY <1>2, <2>4, <2>5
<1>4. ASSUME NEW u \in Threads, u # Game PROVE \A i \in 1..Len(live'[u]) : Kept(u, i)'
  <2>1. releaseEpoch'[u] = releaseEpoch[u] /\ live'[u] = live[u]
    BY <1>1, <1>2, <1>4
  <2>2. u \in Scripts => depth'[u] = depth[u]
    BY <1>1, <1>2, <1>4, OthersDepth DEF LockStep
  <2>3. QED
    BY <1>2, <1>4, <2>1, <2>2, ThreadStands
<1>5. QED
  BY <1>3, <1>4 DEF ResolvedsKept

LEMMA FrameMoveResolveds ==
  ASSUME CountInv, ResolvedsKept, RestOfFrame
  PROVE  ResolvedsKept'
<1>1. UNCHANGED <<live, releaseEpoch, memory>> /\ FrameMove
  BY DEF RestOfFrame, handleVars
<1>2. CASE EndBody \/ EndDrain \/ StartSlice \/ EndSlice \/ EndSleep
  <2>1. UNCHANGED <<depth, writeLockHeld>>
    BY <1>2 DEF EndBody, EndDrain, StartSlice, EndSlice, EndSleep, OpenWrite, CloseWrite, lockVars
  <2>2. QED
    BY <1>1, <2>1, ThreadStands DEF ResolvedsKept
<1>3. CASE Reacquire
  <2>1. scopes[Game] = <<>> /\ readers = {} /\ UNCHANGED depth
    BY <1>3 DEF Reacquire, OpenWrite, TakeExclusive
  <2>2. LockTypeOK /\ HeldIsOwned /\ DataInv /\ ReadsCounted
    BY DEF CountInv, BaseInv, LockInv
  <2>3. ASSUME NEW t \in Scripts PROVE depth[t] = 0
    <3>1. t \in Threads
      BY PartsOfThreads
    <3>2. depth[t] \in Nat /\ ~(depth[t] > 0)
      BY <2>1, <2>2, <3>1 DEF HeldIsOwned, LockTypeOK
    <3>3. QED
      BY <3>2
  <2>4. ReadScopes(Game) = {}
    BY <2>1 DEF ReadScopes
  <2>5. live[Game] \in Seq(Resolveds) /\ Cardinality(ReadScopes(Game)) = Len(live[Game]) + 0
    BY <2>2, PartsOfThreads DEF ReadsCounted, DataInv
  <2>6. live[Game] = <<>>
    BY <2>4, <2>5, FS_EmptySet
  <2>7. QED
    BY <1>1, <2>1, <2>3, <2>6, NobodyKeeps
<1>4. QED
  BY <1>1, <1>2, <1>3 DEF FrameMove

LEMMA ResolvedsStep ==
  ASSUME FreshInv, [Next]_vars
  PROVE  ResolvedsKept'
<1>1. CountInv /\ ResolvedsKept /\ CacheKept /\ FrameIsOwned /\ DataInv /\ Game \in Threads
  BY PartsOfThreads DEF FreshInv, CountInv, BaseInv
<1>2. ASSUME NEW t \in Threads, NEW h \in Handles, ResolveCached(t, h)
      PROVE  ResolvedsKept'
  <2>1. /\ t \in Scripts /\ OpenRead(t) /\ Hit(t, h) /\ cache[t][h].ptr \in Nat
        /\ Hold(t, h, cache[t][h].ptr) /\ UNCHANGED <<writeLockHeld, memory, releaseEpoch>>
    BY <1>1, <1>2, PartsOfThreads DEF ResolveCached, Hit, DataInv
  <2>2. writeLockHeld /\ h \in Units => cache[t][h].ptr = memory[h]
    BY <1>1, <2>1, ReaderShutsFrame DEF CacheKept
  <2>3. QED
    BY <1>1, <2>1, <2>2, HoldKeeps
<1>3. ASSUME NEW t \in Threads, NEW h \in Handles, ResolveByWalk(t, h)
      PROVE  ResolvedsKept'
  <2>1. /\ OpenRead(t) /\ Hold(t, h, Pointer(h))
        /\ UNCHANGED <<writeLockHeld, memory, releaseEpoch>>
    BY <1>3 DEF ResolveByWalk
  <2>2. Pointer(h) \in Nat /\ (Pointer(h) # nullptr => Pointer(h) = memory[h])
    BY <1>1, PointerType
  <2>3. QED
    BY <1>1, <2>1, <2>2, HoldKeeps
<1>4. ASSUME NEW t \in Threads, NEW h \in Handles, BeginBuild(t, h)
      PROVE  ResolvedsKept'
  <2>1. OpenRead(t) /\ UNCHANGED <<live, releaseEpoch, memory, writeLockHeld>>
    BY <1>4 DEF BeginBuild
  <2>2. QED
    BY <1>1, <2>1, StillKept DEF LockStep
<1>5. ASSUME NEW t \in Threads, WaitForBuild(t) \/ BeginPoll(t)
      PROVE  ResolvedsKept'
  <2>1. t \in Scripts
    BY <1>1, <1>5, PartsOfThreads DEF WaitForBuild, BeginPoll, DataInv
  <2>2. HandBack(t) /\ UNCHANGED <<writeLockHeld, memory, live>>
    BY <1>5 DEF WaitForBuild, BeginPoll
  <2>3. QED
    BY <1>1, <2>1, <2>2, HandBackKeeps
<1>6. ASSUME NEW t \in Threads, EndPoll(t)
      PROVE  ResolvedsKept'
  <2>1. CloseReadReleaser(t) /\ UNCHANGED <<live, releaseEpoch, memory, writeLockHeld>>
    BY <1>6 DEF EndPoll, handleVars
  <2>2. QED
    BY <1>1, <2>1, StillKept DEF LockStep
<1>7. CASE EndJoin
  <2>1. CloseWriteReleaser(Game) /\ UNCHANGED <<live, releaseEpoch, memory, writeLockHeld>>
    BY <1>7 DEF EndJoin, handleVars
  <2>2. QED
    BY <1>1, <2>1, StillKept, PartsOfThreads DEF LockStep
<1>8. CASE Tick \/ (\E t \in Threads : RunBuild(t)) \/ UNCHANGED vars
  <2>1. UNCHANGED <<live, releaseEpoch, memory, depth, writeLockHeld>>
    BY <1>8 DEF Tick, StartTick, RunBuild, vars, handleVars, frameVars, lockVars
  <2>2. QED
    BY <1>1, <2>1, ThreadStands DEF ResolvedsKept
<1>9. ASSUME NEW h \in Handles, GameChanges(h)
      PROVE  ResolvedsKept'
  <2>1. /\ UNCHANGED <<live, releaseEpoch, depth, writeLockHeld>>
        /\ phase = "Game" /\ AtBase
    BY <1>9 DEF GameChanges, frameVars, lockVars
  <2>2. CASE writeLockHeld
    BY <1>1, <2>1, <2>2, GameAlone, NobodyKeeps
  <2>3. CASE ~writeLockHeld
    BY <1>1, <2>1, <2>3 DEF ResolvedsKept, Kept, Followable
  <2>4. QED
    BY <2>2, <2>3
<1>10. QED
  BY <1>1, <1>2, <1>3, <1>4, <1>5, <1>6, <1>7, <1>8, <1>9, EndBuildKeeps, UnresolveKeeps,
     BeginJoinKeeps, FrameMoveResolveds DEF Next

LEMMA CacheStep ==
  ASSUME FreshInv, [Next]_vars
  PROVE  CacheKept'
<1>1. CountInv /\ CacheKept /\ DataInv
  BY DEF FreshInv, CountInv, BaseInv
<1>2. /\ cache \in [Scripts -> [Handles -> [ptr : Nat, gen : 0..generation]]]
      /\ generation \in Nat /\ Units \subseteq Handles /\ Game \notin Scripts
  BY <1>1, PartsOfThreads DEF DataInv, Handles
<1>3. ASSUME UNCHANGED <<cache, generation, memory>>,
             writeLockHeld' /\ phase' # "Game" => writeLockHeld /\ phase # "Game"
      PROVE  CacheKept'
  BY <1>1, <1>3 DEF CacheKept, Hit
<1>4. ASSUME NEW t \in Scripts, NEW h \in Handles, NEW p \in Nat, Remember(t, h, p),
             h \in Units => (p # nullptr => p = memory[h]),
             UNCHANGED <<generation, memory, phase, writeLockHeld>>
      PROVE  CacheKept'
  <2>1. /\ cache'[t][h] = [ptr |-> p, gen |-> generation]
        /\ \A u \in Scripts, g \in Handles : u # t \/ g # h => cache'[u][g] = cache[u][g]
    BY <1>1, <1>4, RememberTyped
  <2>2. SUFFICES ASSUME writeLockHeld, phase # "Game", NEW u \in Scripts, NEW g \in Units, Hit(u, g)'
                 PROVE  cache'[u][g].ptr = memory[g]
    BY <1>4 DEF CacheKept
  <2>3. CASE u = t /\ g = h
    BY <1>4, <2>1, <2>2, <2>3 DEF Hit
  <2>4. CASE u # t \/ g # h
    <3>1. cache'[u][g] = cache[u][g]
      BY <1>2, <2>1, <2>4
    <3>2. Hit(u, g)
      BY <1>4, <2>2, <3>1 DEF Hit
    <3>3. QED
      BY <1>1, <2>2, <3>1, <3>2 DEF CacheKept
  <2>5. QED
    BY <2>3, <2>4
<1>5. ASSUME NEW t \in Threads, NEW h \in Handles, ResolveByWalk(t, h)
      PROVE  CacheKept'
  <2>1. UNCHANGED <<generation, memory, phase, writeLockHeld>>
    BY <1>5 DEF ResolveByWalk
  <2>2. CASE t = Game
    <3>1. UNCHANGED cache
      BY <1>5, <2>2 DEF ResolveByWalk
    <3>2. QED
      BY <1>3, <2>1, <3>1
  <2>3. CASE t # Game
    <3>1. t \in Scripts /\ Remember(t, h, Pointer(h))
      BY <1>5, <2>3, PartsOfThreads DEF ResolveByWalk
    <3>2. Pointer(h) \in Nat /\ (Pointer(h) # nullptr => Pointer(h) = memory[h])
      BY <1>1, PointerType
    <3>3. QED
      BY <1>4, <2>1, <3>1, <3>2
  <2>4. QED
    BY <2>2, <2>3
<1>6. ASSUME NEW t \in Threads, EndBuild(t)
      PROVE  CacheKept'
  <2>1. /\ UNCHANGED <<generation, memory, phase, writeLockHeld>>
        /\ building[t] # NotBuilding /\ Remember(t, building[t].handle, building[t].raw)
    BY <1>6 DEF EndBuild
  <2>2. t \in Scripts /\ building[t] \in Builds
    BY <1>1, <2>1, PartsOfThreads DEF DataInv
  <2>3. /\ building[t].handle \in Handles /\ building[t].handle \notin Units
        /\ building[t].raw \in Nat
    BY <2>2, HandlesAssumption DEF Builds, Handles, HandlesAssumption
  <2>4. QED
    BY <1>4, <2>1, <2>2, <2>3
<1>7. CASE Tick
  <2>1. UNCHANGED cache /\ generation' = generation + 1
    BY <1>7 DEF Tick
  <2>2. ASSUME NEW u \in Scripts, NEW g \in Units PROVE ~Hit(u, g)'
    <3>1. cache[u][g].gen \in 0..generation
      BY <1>2
    <3>2. cache'[u][g].gen # generation'
      BY <1>2, <2>1, <3>1
    <3>3. QED
      BY <3>2 DEF Hit
  <2>3. QED
    BY <2>2 DEF CacheKept
<1>8. CASE RestOfFrame
  <2>1. UNCHANGED <<cache, generation, memory>> /\ FrameMove
    BY <1>8 DEF RestOfFrame, handleVars
  <2>2. \/ phase' = "Game"
        \/ UNCHANGED writeLockHeld /\ phase # "Game"
    BY <2>1 DEF FrameMove, EndBody, EndDrain, StartSlice, EndSlice, EndSleep, Reacquire, To
  <2>3. QED
    BY <1>3, <2>1, <2>2
<1>9. CASE \E h \in Handles : GameChanges(h)
  BY <1>9 DEF GameChanges, frameVars, CacheKept
<1>10. CASE \/ \E t \in Threads, h \in Handles : ResolveCached(t, h) \/ BeginBuild(t, h)
            \/ \E t \in Threads : WaitForBuild(t) \/ RunBuild(t) \/ Unresolve(t)
                                   \/ BeginPoll(t) \/ EndPoll(t)
            \/ BeginJoin \/ EndJoin \/ UNCHANGED vars
  <2>1. UNCHANGED <<cache, generation, memory, phase, writeLockHeld>>
    BY <1>10 DEF ResolveCached, BeginBuild, WaitForBuild, RunBuild, Unresolve, BeginPoll, EndPoll,
                 BeginJoin, EndJoin, vars, handleVars, frameVars
  <2>2. QED
    BY <1>3, <2>1
<1>11. QED
  BY <1>5, <1>6, <1>7, <1>8, <1>9, <1>10 DEF Next

LEMMA OwnedStep ==
  ASSUME FreshInv, [Next]_vars, JoinsInFrame = FALSE
  PROVE  FrameIsOwned'
<1>1. FrameIsOwned /\ LockTypeOK /\ LockInv /\ Game \in Threads
  BY PartsOfThreads DEF FreshInv, CountInv, BaseInv, LockInv
<1>2. UNCHANGED <<active, phase, writeLockHeld>> => FrameIsOwned'
  BY <1>1 DEF FrameIsOwned
<1>3. phase' # "Game" => FrameIsOwned'
  BY DEF FrameIsOwned
<1>4. CASE BeginJoin
  BY <1>3, <1>4 DEF BeginJoin
<1>5. CASE EndJoin
  <2>1. UNCHANGED <<phase, writeLockHeld>>
        /\ (UNCHANGED active \/ active' = [active EXCEPT ![Game] = TRUE])
    BY <1>5 DEF EndJoin, CloseWriteReleaser
  <2>2. active[Game] => active'[Game]
    BY <1>1, <2>1 DEF LockTypeOK
  <2>3. QED
    BY <1>1, <2>1, <2>2 DEF FrameIsOwned
<1>6. CASE Tick \/ RestOfFrame
  <2>1. phase' # "Game" \/ active' = [active EXCEPT ![Game] = TRUE]
    BY <1>6 DEF Tick, StartTick, RestOfFrame, FrameMove, EndBody, EndDrain, StartSlice, EndSlice,
                EndSleep, Reacquire, OpenWrite, To
  <2>2. active' = [active EXCEPT ![Game] = TRUE] => active'[Game]
    BY <1>1 DEF LockTypeOK
  <2>3. QED
    BY <2>1, <2>2 DEF FrameIsOwned
<1>7. CASE \/ \E t \in Threads, h \in Handles :
                ResolveCached(t, h) \/ ResolveByWalk(t, h) \/ BeginBuild(t, h)
           \/ \E t \in Threads : WaitForBuild(t) \/ RunBuild(t) \/ EndBuild(t) \/ Unresolve(t)
                                   \/ BeginPoll(t) \/ EndPoll(t)
           \/ (\E h \in Handles : GameChanges(h)) \/ UNCHANGED vars
  <2>1. UNCHANGED <<active, phase, writeLockHeld>>
    BY <1>7 DEF ResolveCached, ResolveByWalk, BeginBuild, WaitForBuild, RunBuild, EndBuild, Unresolve,
                BeginPoll, EndPoll, HandBack, OpenRead, CloseRead, OpenReadReleaser,
                CloseReadReleaser, GameChanges, vars, frameVars, lockVars
  <2>2. QED
    BY <1>2, <2>1
<1>8. QED
  BY <1>4, <1>5, <1>6, <1>7 DEF Next

LEMMA FreshInvariant ==
  ASSUME JoinsInFrame = FALSE
  PROVE  Spec => []FreshInv
<1>1. Init => FreshInv
  <2> SUFFICES ASSUME Init PROVE FreshInv
    OBVIOUS
  <2>1. CountInv
    BY CountInvInit
  <2>2. writeLockHeld = FALSE
    BY DEF Init, FrameInit
  <2>3. ASSUME NEW t \in Threads, NEW i \in 1..Len(live[t]) PROVE FALSE
    <3>1. live[t] = <<>>
      BY <2>3 DEF Init
    <3>2. QED
      BY <2>3, <3>1
  <2>4. ResolvedsKept
    BY <2>3 DEF ResolvedsKept
  <2>5. QED
    BY <2>1, <2>2, <2>4 DEF FreshInv, CacheKept, FrameIsOwned
<1>2. FreshInv /\ [Next]_vars => FreshInv'
  <2> SUFFICES ASSUME FreshInv, [Next]_vars PROVE FreshInv'
    OBVIOUS
  <2>1. CountInv'
    BY CountInvStep DEF FreshInv
  <2>2. ResolvedsKept' /\ CacheKept' /\ FrameIsOwned'
    BY ResolvedsStep, CacheStep, OwnedStep
  <2>3. QED
    BY <2>1, <2>2 DEF FreshInv
<1>3. QED
  BY <1>1, <1>2, PTL DEF Spec

(***************************************************************************)
(* HandleCache.h:47-56: where no hook of the game's own frame joins a      *)
(* script, the debug build's epoch check is complete for units and         *)
(* controls: a Resolved it lets by points to what is there now, for any    *)
(* threads and any number of ticks, releases and changes between.          *)
(***************************************************************************)
THEOREM FreshWhenFollowedHolds ==
  ASSUME JoinsInFrame = FALSE
  PROVE  Spec => []FreshWhenFollowed
<1>1. FreshInv => FreshWhenFollowed
  BY DEF FreshInv, ResolvedsKept, Kept, FreshWhenFollowed
<1>2. QED
  BY <1>1, FreshInvariant, PTL

(***************************************************************************)
(* HandleCache.h:25-29: under the same hypothesis, a pointer that Get      *)
(* returns under the game lock, or to a drained task, is the structure's   *)
(* current one.                                                            *)
(***************************************************************************)
THEOREM CachedIsCurrentHolds ==
  ASSUME JoinsInFrame = FALSE
  PROVE  Spec => []CachedIsCurrent
<1>1. FreshInv => CachedIsCurrent
  <2> SUFFICES ASSUME FreshInv, writeLockHeld, NEW t \in Scripts, NEW h \in Units,
                      depth[t] > 0 \/ Draining, Hit(t, h)
               PROVE  cache[t][h].ptr = memory[h]
    BY DEF CachedIsCurrent
  <2>1. phase # "Game"
    BY ReaderShutsFrame DEF FreshInv, Draining
  <2>2. QED
    BY <2>1 DEF FreshInv, CacheKept
<1>2. QED
  BY <1>1, FreshInvariant, PTL
=============================================================================
