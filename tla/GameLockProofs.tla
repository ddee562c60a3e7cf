--------------------------- MODULE GameLockProofs ---------------------------
(***************************************************************************)
(* The game lock for any set of threads and any nesting of scopes: types,  *)
(* the agreement of the thread_locals with the mutex, the nesting of the   *)
(* scopes, and the readers-writer rule they implement; and the frame and   *)
(* the write lock, for every module that runs code in the phases of        *)
(* GameFrame: what keeps the phase and the game thread's scopes in         *)
(* agreement.                                                              *)
(***************************************************************************)
EXTENDS GameFrame, TLAPS

(* No scope opened while its thread held both rights, and the write lock is *)
(* taken only by the game thread with nothing else open.                    *)
OneRight ==
  \A t \in Threads : \A i \in 1..Len(scopes[t]) :
    /\ ~(scopes[t][i].outer.active /\ scopes[t][i].outer.depth > 0)
    /\ scopes[t][i].kind = "Write" => i = 1

LockInv == LockTypeOK /\ HeldIsOwned /\ ScopesNest /\ OneRight

-----------------------------------------------------------------------------
(* What pushing a scope does to the stacks. *)
LEMMA PushFacts ==
  ASSUME LockTypeOK, NEW t \in Threads, NEW kind \in Kinds, Push(t, kind)
  PROVE  LET new == [kind |-> kind, outer |-> LockState(t)]
             n == Len(scopes[t])
         IN  /\ new \in Scopes
             /\ scopes' \in [Threads -> Seq(Scopes)]
             /\ Len(scopes'[t]) = n + 1
             /\ scopes'[t][n + 1] = new
             /\ \A i \in 1..n : scopes'[t][i] = scopes[t][i]
             /\ \A u \in Threads \ {t} : scopes'[u] = scopes[u]
<1> DEFINE new == [kind |-> kind, outer |-> LockState(t)]
<1>1. new \in Scopes
  BY DEF Scopes, LockStates, LockState, LockTypeOK
<1>2. scopes[t] \in Seq(Scopes)
  BY DEF LockTypeOK
<1>3. scopes' = [scopes EXCEPT ![t] = Append(scopes[t], new)]
  BY DEF Push
<1>4. Append(scopes[t], new) \in Seq(Scopes)
  BY <1>1, <1>2
<1>5. scopes'[t] = Append(scopes[t], new)
  BY <1>3 DEF LockTypeOK
<1>6. scopes' \in [Threads -> Seq(Scopes)]
  BY <1>3, <1>4 DEF LockTypeOK
<1>7. \A u \in Threads \ {t} : scopes'[u] = scopes[u]
  BY <1>3 DEF LockTypeOK
<1> HIDE DEF new
<1>8. /\ Len(scopes'[t]) = Len(scopes[t]) + 1
      /\ scopes'[t][Len(scopes[t]) + 1] = new
      /\ \A i \in 1..Len(scopes[t]) : scopes'[t][i] = scopes[t][i]
  BY <1>1, <1>2, <1>5
<1>9. QED
  BY <1>1, <1>6, <1>7, <1>8 DEF new

(* What popping one does. *)
LEMMA PopFacts ==
  ASSUME LockTypeOK, NEW t \in Threads, NEW kind, Pop(t, kind)
  PROVE  LET n == Len(scopes[t])
         IN  /\ n \in Nat /\ n > 0
             /\ scopes[t][n] \in Scopes
             /\ scopes[t][n].kind = kind
             /\ scopes' \in [Threads -> Seq(Scopes)]
             /\ Len(scopes'[t]) = n - 1
             /\ \A i \in 1..(n - 1) : scopes'[t][i] = scopes[t][i]
             /\ \A u \in Threads \ {t} : scopes'[u] = scopes[u]
<1>1. scopes[t] \in Seq(Scopes) /\ scopes[t] # <<>>
  BY DEF LockTypeOK, Pop
<1>2. scopes' = [scopes EXCEPT ![t] = SubSeq(scopes[t], 1, Len(scopes[t]) - 1)]
  BY DEF Pop
<1>3. Len(scopes[t]) \in Nat /\ Len(scopes[t]) > 0
  BY <1>1
<1>4. /\ SubSeq(scopes[t], 1, Len(scopes[t]) - 1) \in Seq(Scopes)
      /\ Len(SubSeq(scopes[t], 1, Len(scopes[t]) - 1)) = Len(scopes[t]) - 1
      /\ \A i \in 1..(Len(scopes[t]) - 1) :
           SubSeq(scopes[t], 1, Len(scopes[t]) - 1)[i] = scopes[t][i]
  BY <1>1, <1>3
<1>5. scopes'[t] = SubSeq(scopes[t], 1, Len(scopes[t]) - 1)
  BY <1>2 DEF LockTypeOK
<1>6. scopes' \in [Threads -> Seq(Scopes)]
  BY <1>2, <1>4 DEF LockTypeOK
<1>7. \A u \in Threads \ {t} : scopes'[u] = scopes[u]
  BY <1>2 DEF LockTypeOK
<1>8. scopes[t][Len(scopes[t])] \in Scopes /\ scopes[t][Len(scopes[t])].kind = kind
  BY <1>1, <1>3 DEF Pop, Innermost
<1>9. QED
  BY <1>3, <1>4, <1>5, <1>6, <1>7, <1>8

-----------------------------------------------------------------------------
(* A step of thread t leaves the others as they are. *)
OthersKeep(t) ==
  \A u \in Threads \ {t} : LockState(u)' = LockState(u)

(* Opening a scope keeps the nesting, if it sets up the state it should. *)
LEMMA PushNests ==
  ASSUME NEW t \in Threads, NEW kind \in Kinds, Push(t, kind),
         LockTypeOK, ScopesNest, OneRight, OthersKeep(t),
         Inside([kind |-> kind, outer |-> LockState(t)]) = LockState(t)',
         ~(active[t] /\ depth[t] > 0),
         kind = "Write" => scopes[t] = <<>>
  PROVE  ScopesNest' /\ OneRight'
<1> DEFINE new == [kind |-> kind, outer |-> LockState(t)]
           n == Len(scopes[t])
<1>1. /\ new \in Scopes
      /\ scopes' \in [Threads -> Seq(Scopes)]
      /\ Len(scopes'[t]) = n + 1
      /\ scopes'[t][n + 1] = new
      /\ \A i \in 1..n : scopes'[t][i] = scopes[t][i]
      /\ \A u \in Threads \ {t} : scopes'[u] = scopes[u]
  BY PushFacts
<1>2. n \in Nat
  BY DEF LockTypeOK
<1>3. new.outer = LockState(t) /\ new.kind = kind
  OBVIOUS
<1>4. Inside(new) = LockState(t)'
  OBVIOUS
<1>5. LockState(t).active = active[t] /\ LockState(t).depth = depth[t]
  BY DEF LockState
<1>6. kind = "Write" => n = 0
  OBVIOUS
<1>7. /\ n = 0 => LockState(t) = Unlocked
      /\ n > 0 => scopes[t][1].outer = Unlocked /\ Inside(scopes[t][n]) = LockState(t)
      /\ \A i \in 1..n : i > 1 => scopes[t][i].outer = Inside(scopes[t][i - 1])
  BY DEF ScopesNest
<1> HIDE DEF new, n
<1>8. ScopesNest'
  <2> SUFFICES ASSUME NEW u \in Threads
               PROVE  LET m == Len(scopes'[u])
                      IN  /\ m = 0 => LockState(u)' = Unlocked
                          /\ m > 0 => /\ scopes'[u][1].outer = Unlocked
                                      /\ Inside(scopes'[u][m]) = LockState(u)'
                          /\ \A i \in 1..m : i > 1 => scopes'[u][i].outer = Inside(scopes'[u][i - 1])
    BY DEF ScopesNest, Inside, Unlocked
  <2>1. CASE u # t
    BY <2>1, <1>1 DEF ScopesNest, OthersKeep
  <2>2. CASE u = t
    <3>1. scopes'[t][1].outer = Unlocked
      BY <1>1, <1>2, <1>3, <1>7
    <3>2. Inside(scopes'[t][n + 1]) = LockState(t)'
      BY <1>1, <1>4
    <3>3. ASSUME NEW i \in 1..(n + 1), i > 1
          PROVE  scopes'[t][i].outer = Inside(scopes'[t][i - 1])
      <4>1. CASE i = n + 1
        BY <4>1, <3>3, <1>1, <1>2, <1>3, <1>7
      <4>2. CASE i \in 1..n
        BY <4>2, <3>3, <1>1, <1>2, <1>7
      <4>3. QED
        BY <4>1, <4>2, <1>2
    <3>4. QED
      BY <2>2, <3>1, <3>2, <3>3, <1>1, <1>2
  <2>3. QED
    BY <2>1, <2>2
<1>9. OneRight'
  <2> SUFFICES ASSUME NEW u \in Threads, NEW i \in 1..Len(scopes'[u])
               PROVE  /\ ~(scopes'[u][i].outer.active /\ scopes'[u][i].outer.depth > 0)
                      /\ scopes'[u][i].kind = "Write" => i = 1
    BY DEF OneRight
  <2>1. CASE u # t
    BY <2>1, <1>1 DEF OneRight
  <2>2. CASE u = t /\ i \in 1..n
    BY <2>2, <1>1, <1>2 DEF OneRight, n
  <2>3. CASE u = t /\ i = n + 1
    BY <2>3, <1>1, <1>2, <1>3, <1>5, <1>6
  <2>4. QED
    BY <2>1, <2>2, <2>3, <1>1, <1>2
<1>10. QED
  BY <1>8, <1>9

(* Closing one keeps it, if the thread is back where the scope opened. *)
LEMMA PopNests ==
  ASSUME NEW t \in Threads, NEW kind, Pop(t, kind),
         LockTypeOK, ScopesNest, OneRight, OthersKeep(t),
         LockState(t)' = Innermost(t).outer
  PROVE  ScopesNest' /\ OneRight'
<1> DEFINE n == Len(scopes[t])
<1>1. /\ n \in Nat /\ n > 0
      /\ scopes' \in [Threads -> Seq(Scopes)]
      /\ Len(scopes'[t]) = n - 1
      /\ \A i \in 1..(n - 1) : scopes'[t][i] = scopes[t][i]
      /\ \A u \in Threads \ {t} : scopes'[u] = scopes[u]
  BY PopFacts
<1>2. LockState(t)' = scopes[t][n].outer
  BY DEF Innermost
<1>3. /\ scopes[t][1].outer = Unlocked
      /\ \A i \in 1..n : i > 1 => scopes[t][i].outer = Inside(scopes[t][i - 1])
  BY <1>1 DEF ScopesNest
<1> HIDE DEF n
<1>4. ScopesNest'
  <2> SUFFICES ASSUME NEW u \in Threads
               PROVE  LET m == Len(scopes'[u])
                      IN  /\ m = 0 => LockState(u)' = Unlocked
                          /\ m > 0 => /\ scopes'[u][1].outer = Unlocked
                                      /\ Inside(scopes'[u][m]) = LockState(u)'
                          /\ \A i \in 1..m : i > 1 => scopes'[u][i].outer = Inside(scopes'[u][i - 1])
    BY DEF ScopesNest, Inside, Unlocked
  <2>1. CASE u # t
    BY <2>1, <1>1 DEF ScopesNest, OthersKeep
  <2>2. CASE u = t
    <3>1. n = 1 => LockState(t)' = Unlocked
      BY <1>2, <1>3
    <3>2. n > 1 => Inside(scopes'[t][n - 1]) = LockState(t)' /\ scopes'[t][1].outer = Unlocked
      BY <1>1, <1>2, <1>3
    <3>3. ASSUME NEW i \in 1..(n - 1), i > 1
          PROVE  scopes'[t][i].outer = Inside(scopes'[t][i - 1])
      <4>1. i \in 1..n /\ i - 1 \in 1..(n - 1)
        BY <3>3, <1>1
      <4>2. scopes'[t][i] = scopes[t][i] /\ scopes'[t][i - 1] = scopes[t][i - 1]
        BY <4>1, <1>1
      <4>3. QED
        BY <4>1, <4>2, <3>3, <1>3
    <3>4. Len(scopes'[u]) = n - 1 /\ n \in Nat /\ n > 0
      BY <2>2, <1>1
    <3>5. QED
      BY <2>2, <3>1, <3>2, <3>3, <3>4
  <2>3. QED
    BY <2>1, <2>2
<1>5. OneRight'
  <2> SUFFICES ASSUME NEW u \in Threads, NEW i \in 1..Len(scopes'[u])
               PROVE  /\ ~(scopes'[u][i].outer.active /\ scopes'[u][i].outer.depth > 0)
                      /\ scopes'[u][i].kind = "Write" => i = 1
    BY DEF OneRight
  <2>1. CASE u # t
    BY <2>1, <1>1 DEF OneRight
  <2>2. CASE u = t
    BY <2>2, <1>1 DEF OneRight, n
  <2>3. QED
    BY <2>1, <2>2
<1>6. QED
  BY <1>4, <1>5

-----------------------------------------------------------------------------
(* Lock states are equal when their parts are. *)
LEMMA SameLockState ==
  ASSUME NEW a \in LockStates, NEW b \in LockStates, a.depth = b.depth, a.active = b.active
  PROVE  a = b
BY DEF LockStates

(* The state inside a scope, part by part. *)
LEMMA InsideFacts ==
  ASSUME NEW scope \in Scopes
  PROVE  /\ Inside(scope) \in LockStates
         /\ scope.kind = "Read" =>
              /\ Inside(scope).active = scope.outer.active
              /\ scope.outer.active => Inside(scope).depth = scope.outer.depth
              /\ ~scope.outer.active => Inside(scope).depth = scope.outer.depth + 1
         /\ scope.kind = "Write" => Inside(scope).active = TRUE /\ Inside(scope).depth = 0
         /\ scope.kind = "ReadReleaser" =>
              Inside(scope).active = scope.outer.active /\ Inside(scope).depth = 0
         /\ scope.kind = "WriteReleaser" =>
              Inside(scope).active = FALSE /\ Inside(scope).depth = scope.outer.depth
<1>1. scope.outer \in LockStates /\ scope.kind \in Kinds
  BY DEF Scopes
<1>2. scope.outer.depth \in Nat /\ scope.outer.active \in BOOLEAN
  BY <1>1 DEF LockStates
<1>3. CASE scope.kind = "Read"
  <2>1. Inside(scope) = IF scope.outer.active THEN scope.outer
                                              ELSE [scope.outer EXCEPT !.depth = @ + 1]
    BY <1>3 DEF Inside
  <2>2. CASE scope.outer.active
    BY <2>1, <2>2, <1>1, <1>3
  <2>3. CASE ~scope.outer.active
    BY <2>1, <2>3, <1>1, <1>2, <1>3 DEF LockStates
  <2>4. QED
    BY <2>2, <2>3
<1>4. CASE scope.kind = "Write"
  BY <1>4 DEF Inside, LockStates
<1>5. CASE scope.kind = "ReadReleaser"
  BY <1>1, <1>2, <1>5 DEF Inside, LockStates
<1>6. CASE scope.kind = "WriteReleaser"
  BY <1>1, <1>2, <1>6 DEF Inside, LockStates
<1>7. QED
  BY <1>1, <1>3, <1>4, <1>5, <1>6 DEF Kinds

(* What the invariant says of one thread. *)
LEMMA ThreadFacts ==
  ASSUME LockInv, NEW t \in Threads
  PROVE  /\ depth[t] \in Nat /\ active[t] \in BOOLEAN
         /\ LockState(t) \in LockStates
         /\ LockState(t).depth = depth[t] /\ LockState(t).active = active[t]
         /\ ~(active[t] /\ depth[t] > 0)
         /\ scopes[t] = <<>> => depth[t] = 0 /\ ~active[t]
<1>1. depth[t] \in Nat /\ active[t] \in BOOLEAN
  BY DEF LockInv, LockTypeOK
<1>2. LockState(t) \in LockStates
  BY <1>1 DEF LockState, LockStates
<1>3. LockState(t).depth = depth[t] /\ LockState(t).active = active[t]
  BY DEF LockState
<1>4. ~(active[t] /\ depth[t] > 0)
  BY ThreadsAssumption DEF LockInv, HeldIsOwned, ThreadsAssumption
<1>5. scopes[t] = <<>> => LockState(t) = Unlocked
  BY DEF LockInv, ScopesNest
<1>6. QED
  BY <1>1, <1>2, <1>3, <1>4, <1>5 DEF Unlocked

(* The innermost scope of a thread says which lock state it is in. *)
LEMMA InnermostFacts ==
  ASSUME LockInv, NEW t \in Threads, NEW kind, Pop(t, kind)
  PROVE  LET s == Innermost(t)
         IN  /\ s \in Scopes /\ s.outer \in LockStates
             /\ s.outer.depth \in Nat /\ s.outer.active \in BOOLEAN
             /\ s.kind = kind
             /\ Inside(s).depth = depth[t] /\ Inside(s).active = active[t]
             /\ ~(s.outer.active /\ s.outer.depth > 0)
             /\ kind = "Write" => s.outer = Unlocked
<1> DEFINE n == Len(scopes[t])
<1>1. LockTypeOK /\ ScopesNest /\ OneRight
  BY DEF LockInv
<1>2. n \in Nat /\ n > 0 /\ Innermost(t) \in Scopes /\ Innermost(t).kind = kind
  BY <1>1, PopFacts DEF Innermost
<1>3. Innermost(t) = scopes[t][n] /\ n \in 1..n
  BY <1>2 DEF Innermost
<1>4. Inside(Innermost(t)) = LockState(t) /\ scopes[t][1].outer = Unlocked
  BY <1>1, <1>2, <1>3 DEF ScopesNest
<1>5. ~(Innermost(t).outer.active /\ Innermost(t).outer.depth > 0)
  BY <1>1, <1>3 DEF OneRight
<1>6. kind = "Write" => n = 1
  BY <1>1, <1>2, <1>3 DEF OneRight
<1> HIDE DEF n
<1>7. Innermost(t).outer \in LockStates
  BY <1>2 DEF Scopes
<1>8. QED
  BY <1>2, <1>3, <1>4, <1>5, <1>6, <1>7, ThreadFacts DEF LockStates

-----------------------------------------------------------------------------
(* A scope that opens as it should keeps the invariant ... *)
LEMMA OpenKeeps ==
  ASSUME LockInv, NEW t \in Threads, NEW kind \in Kinds, Push(t, kind),
         LockTypeOK', HeldIsOwned', OthersKeep(t),
         Inside([kind |-> kind, outer |-> LockState(t)]).depth = depth'[t],
         Inside([kind |-> kind, outer |-> LockState(t)]).active = active'[t],
         kind = "Write" => scopes[t] = <<>>
  PROVE  LockInv'
<1> DEFINE new == [kind |-> kind, outer |-> LockState(t)]
<1>1. LockTypeOK /\ ScopesNest /\ OneRight
  BY DEF LockInv
<1>2. new \in Scopes
  BY ThreadFacts DEF Scopes
<1>3. Inside(new) \in LockStates
  BY <1>2, InsideFacts
<1>4. LockState(t)' \in LockStates
  BY DEF LockState, LockStates, LockTypeOK
<1>5. LockState(t)'.depth = depth'[t] /\ LockState(t)'.active = active'[t]
  BY DEF LockState
<1>6. Inside(new) = LockState(t)'
  BY <1>3, <1>4, <1>5, SameLockState
<1>7. ~(active[t] /\ depth[t] > 0)
  BY ThreadFacts
<1>8. ScopesNest' /\ OneRight'
  BY <1>1, <1>6, <1>7, PushNests
<1>9. QED
  BY <1>8 DEF LockInv

(* ... and so does one that closes by restoring the state it opened in. *)
LEMMA CloseKeeps ==
  ASSUME LockInv, NEW t \in Threads, NEW kind, Pop(t, kind),
         LockTypeOK', HeldIsOwned', OthersKeep(t),
         depth'[t] = Innermost(t).outer.depth,
         active'[t] = Innermost(t).outer.active
  PROVE  LockInv'
<1>1. LockTypeOK /\ ScopesNest /\ OneRight
  BY DEF LockInv
<1>2. Innermost(t).outer \in LockStates
  BY InnermostFacts
<1>3. LockState(t)' \in LockStates
  BY DEF LockState, LockStates, LockTypeOK
<1>4. LockState(t)'.depth = depth'[t] /\ LockState(t)'.active = active'[t]
  BY DEF LockState
<1>5. LockState(t)' = Innermost(t).outer
  BY <1>2, <1>3, <1>4, SameLockState
<1>6. ScopesNest' /\ OneRight'
  BY <1>1, <1>5, PopNests
<1>7. QED
  BY <1>6 DEF LockInv

(* Whatever depth and active become for t alone, the others keep theirs. *)
LEMMA OnlyMine ==
  ASSUME LockTypeOK, NEW t \in Threads, NEW d, NEW a,
         depth' = [depth EXCEPT ![t] = d] \/ UNCHANGED depth,
         active' = [active EXCEPT ![t] = a] \/ UNCHANGED active
  PROVE  OthersKeep(t)
<1>1. \A u \in Threads \ {t} : depth'[u] = depth[u] /\ active'[u] = active[u]
  BY DEF LockTypeOK
<1>2. QED
  BY <1>1 DEF OthersKeep, LockState

-----------------------------------------------------------------------------
(* One lemma per operation of the lock. *)
LEMMA OpenReadKeeps ==
  ASSUME LockInv, NEW t \in Threads, OpenRead(t)
  PROVE  LockInv'
<1>1. LockTypeOK /\ HeldIsOwned /\ Push(t, "Read") /\ UNCHANGED <<writer, active>>
  BY DEF LockInv, OpenRead
<1>2. [kind |-> "Read", outer |-> LockState(t)] \in Scopes
  BY ThreadFacts DEF Scopes, Kinds
<1>3. scopes' \in [Threads -> Seq(Scopes)]
  BY <1>1, PushFacts DEF Kinds
<1>4. CASE active[t]
  <2>1. UNCHANGED <<readers, depth>>
    BY <1>4 DEF OpenRead
  <2>2. LockTypeOK' /\ HeldIsOwned' /\ OthersKeep(t)
    BY <2>1, <1>1, <1>3 DEF LockTypeOK, HeldIsOwned, OthersKeep, LockState
  <2>3. Inside([kind |-> "Read", outer |-> LockState(t)]).depth = depth'[t]
    BY <2>1, <1>2, <1>4, InsideFacts, ThreadFacts
  <2>4. Inside([kind |-> "Read", outer |-> LockState(t)]).active = active'[t]
    BY <1>1, <1>2, InsideFacts, ThreadFacts
  <2>5. QED
    BY <2>2, <2>3, <2>4, <1>1, OpenKeeps DEF Kinds
<1>5. CASE ~active[t]
  <2>1. /\ depth' = [depth EXCEPT ![t] = depth[t] + 1]
        /\ depth[t] = 0 => writer = NoThread /\ readers' = readers \union {t}
        /\ depth[t] # 0 => readers' = readers
    BY <1>5 DEF OpenRead, TakeShared
  <2>2. depth[t] \in Nat /\ depth'[t] = depth[t] + 1
    BY <2>1, <1>1 DEF LockTypeOK
  <2>3. LockTypeOK'
    BY <2>1, <2>2, <1>1, <1>3 DEF LockTypeOK
  <2>4. readers' = readers \union {t}
    BY <2>1, <2>2, <1>1 DEF HeldIsOwned
  <2>5. writer = NoThread
    BY <2>1, <2>2, <1>1 DEF HeldIsOwned
  <2>6. \A u \in Threads : (depth'[u] > 0) <=> (u \in readers')
    BY <2>1, <2>2, <2>4, <1>1 DEF HeldIsOwned, LockTypeOK
  <2>7. HeldIsOwned'
    BY <2>5, <2>6, <1>1 DEF HeldIsOwned
  <2>8. OthersKeep(t)
    BY <2>1, <1>1, OnlyMine
  <2>9. Inside([kind |-> "Read", outer |-> LockState(t)]).depth = depth'[t]
    BY <2>2, <1>2, <1>5, InsideFacts, ThreadFacts
  <2>10. Inside([kind |-> "Read", outer |-> LockState(t)]).active = active'[t]
    BY <1>1, <1>2, InsideFacts, ThreadFacts
  <2>11. QED
    BY <2>3, <2>7, <2>8, <2>9, <2>10, <1>1, OpenKeeps DEF Kinds
<1>6. QED
  BY <1>4, <1>5

LEMMA CloseReadKeeps ==
  ASSUME LockInv, NEW t \in Threads, CloseRead(t)
  PROVE  LockInv'
<1>1. LockTypeOK /\ HeldIsOwned /\ Pop(t, "Read") /\ UNCHANGED <<writer, active>>
  BY DEF LockInv, CloseRead
<1> DEFINE s == Innermost(t)
<1>2. /\ s \in Scopes /\ s.kind = "Read"
      /\ s.outer.depth \in Nat /\ s.outer.active \in BOOLEAN
      /\ Inside(s).depth = depth[t] /\ Inside(s).active = active[t]
  BY <1>1, InnermostFacts
<1> HIDE DEF s
<1>3. /\ s.outer.active = active[t]
      /\ active[t] => depth[t] = s.outer.depth
      /\ ~active[t] => depth[t] = s.outer.depth + 1
  BY <1>2, InsideFacts
<1>4. scopes' \in [Threads -> Seq(Scopes)]
  BY <1>1, PopFacts
<1>5. CASE active[t]
  <2>1. UNCHANGED <<readers, depth>>
    BY <1>5 DEF CloseRead
  <2>2. LockTypeOK' /\ HeldIsOwned' /\ OthersKeep(t)
    BY <2>1, <1>1, <1>4 DEF LockTypeOK, HeldIsOwned, OthersKeep, LockState
  <2>3. QED
    BY <2>1, <2>2, <1>1, <1>3, <1>5, CloseKeeps DEF s
<1>6. CASE ~active[t]
  <2>1. /\ depth' = [depth EXCEPT ![t] = depth[t] - 1]
        /\ readers' = IF depth[t] = 1 THEN readers \ {t} ELSE readers
    BY <1>6 DEF CloseRead
  <2>2. depth[t] \in Nat /\ depth[t] > 0 /\ depth'[t] = depth[t] - 1
    BY <2>1, <1>1, <1>2, <1>3, <1>6 DEF LockTypeOK
  <2>3. LockTypeOK'
    BY <2>1, <2>2, <1>1, <1>4 DEF LockTypeOK
  <2>4. \A u \in Threads : (depth'[u] > 0) <=> (u \in readers')
    BY <2>1, <2>2, <1>1 DEF HeldIsOwned, LockTypeOK
  <2>5. HeldIsOwned'
    BY <2>1, <2>4, <1>1 DEF HeldIsOwned
  <2>6. OthersKeep(t)
    BY <2>1, <1>1, OnlyMine
  <2>7. QED
    BY <2>2, <2>3, <2>5, <2>6, <1>1, <1>2, <1>3, <1>6, CloseKeeps DEF s
<1>7. QED
  BY <1>5, <1>6

LEMMA OpenWriteKeeps ==
  ASSUME LockInv, NEW t \in Threads, OpenWrite(t)
  PROVE  LockInv'
<1>1. /\ LockTypeOK /\ HeldIsOwned /\ Push(t, "Write") /\ scopes[t] = <<>>
      /\ writer = NoThread /\ readers = {} /\ writer' = t
      /\ active' = [active EXCEPT ![t] = TRUE]
      /\ UNCHANGED <<readers, depth>>
  BY DEF LockInv, OpenWrite, TakeExclusive
<1>2. [kind |-> "Write", outer |-> LockState(t)] \in Scopes
  BY ThreadFacts DEF Scopes, Kinds
<1>3. scopes' \in [Threads -> Seq(Scopes)]
  BY <1>1, PushFacts DEF Kinds
<1>4. LockTypeOK' /\ active'[t] = TRUE /\ depth'[t] = 0
  BY <1>1, <1>3, ThreadFacts DEF LockTypeOK
<1>5. \A u \in Threads : active'[u] <=> (writer' = u)
  BY <1>1, ThreadsAssumption DEF HeldIsOwned, LockTypeOK, ThreadsAssumption
<1>6. HeldIsOwned'
  BY <1>1, <1>5 DEF HeldIsOwned
<1>7. OthersKeep(t)
  BY <1>1, OnlyMine
<1>8. QED
  BY <1>1, <1>2, <1>4, <1>6, <1>7, InsideFacts, OpenKeeps DEF Kinds

LEMMA CloseWriteKeeps ==
  ASSUME LockInv, NEW t \in Threads, CloseWrite(t)
  PROVE  LockInv'
<1>1. /\ LockTypeOK /\ HeldIsOwned /\ Pop(t, "Write")
      /\ writer' = NoThread
      /\ active' = [active EXCEPT ![t] = FALSE]
      /\ UNCHANGED <<readers, depth>>
  BY DEF LockInv, CloseWrite
<1> DEFINE s == Innermost(t)
<1>2. /\ s \in Scopes /\ s.kind = "Write" /\ s.outer = Unlocked
      /\ Inside(s).depth = depth[t] /\ Inside(s).active = active[t]
  BY <1>1, InnermostFacts
<1> HIDE DEF s
<1>3. depth[t] = 0 /\ active[t] = TRUE
  BY <1>2, InsideFacts
<1>4. writer = t
  BY <1>1, <1>3 DEF HeldIsOwned
<1>5. scopes' \in [Threads -> Seq(Scopes)]
  BY <1>1, PopFacts
<1>6. LockTypeOK' /\ active'[t] = FALSE /\ depth'[t] = 0
  BY <1>1, <1>3, <1>5 DEF LockTypeOK
<1>7. \A u \in Threads : active'[u] <=> (writer' = u)
  BY <1>1, <1>4, ThreadsAssumption DEF HeldIsOwned, LockTypeOK, ThreadsAssumption
<1>8. HeldIsOwned'
  BY <1>1, <1>7 DEF HeldIsOwned
<1>9. OthersKeep(t)
  BY <1>1, OnlyMine
<1>10. s.outer.depth = 0 /\ s.outer.active = FALSE
  BY <1>2 DEF Unlocked
<1>11. depth'[t] = s.outer.depth /\ active'[t] = s.outer.active
  BY <1>6, <1>10
<1>12. QED
  BY <1>1, <1>6, <1>8, <1>9, <1>11, CloseKeeps DEF s

LEMMA OpenReadReleaserKeeps ==
  ASSUME LockInv, NEW t \in Threads, OpenReadReleaser(t)
  PROVE  LockInv'
<1>1. /\ LockTypeOK /\ HeldIsOwned /\ Push(t, "ReadReleaser")
      /\ depth' = [depth EXCEPT ![t] = 0]
      /\ readers' = IF depth[t] > 0 THEN readers \ {t} ELSE readers
      /\ UNCHANGED <<writer, active>>
  BY DEF LockInv, OpenReadReleaser
<1>2. [kind |-> "ReadReleaser", outer |-> LockState(t)] \in Scopes
  BY ThreadFacts DEF Scopes, Kinds
<1>3. scopes' \in [Threads -> Seq(Scopes)]
  BY <1>1, PushFacts DEF Kinds
<1>4. LockTypeOK' /\ depth'[t] = 0
  BY <1>1, <1>3 DEF LockTypeOK
<1>5. \A u \in Threads : (depth'[u] > 0) <=> (u \in readers')
  BY <1>1 DEF HeldIsOwned, LockTypeOK
<1>6. HeldIsOwned'
  BY <1>1, <1>5 DEF HeldIsOwned
<1>7. OthersKeep(t)
  BY <1>1, OnlyMine
<1>8. active'[t] = active[t]
  BY <1>1
<1>9. QED
  BY <1>1, <1>2, <1>4, <1>6, <1>7, <1>8, ThreadFacts, InsideFacts, OpenKeeps DEF Kinds

LEMMA CloseReadReleaserKeeps ==
  ASSUME LockInv, NEW t \in Threads, CloseReadReleaser(t)
  PROVE  LockInv'
<1>1. LockTypeOK /\ HeldIsOwned /\ Pop(t, "ReadReleaser") /\ UNCHANGED <<writer, active>>
  BY DEF LockInv, CloseReadReleaser
<1> DEFINE s == Innermost(t)
<1>2. /\ s \in Scopes /\ s.kind = "ReadReleaser"
      /\ s.outer.depth \in Nat /\ s.outer.active \in BOOLEAN
      /\ Inside(s).depth = depth[t] /\ Inside(s).active = active[t]
      /\ ~(s.outer.active /\ s.outer.depth > 0)
  BY <1>1, InnermostFacts
<1>3. IF s.outer.depth > 0
      THEN TakeShared(t) /\ depth' = [depth EXCEPT ![t] = s.outer.depth]
      ELSE UNCHANGED <<readers, depth>>
  BY DEF CloseReadReleaser
<1> HIDE DEF s
<1>4. depth[t] = 0 /\ active[t] = s.outer.active
  BY <1>2, InsideFacts
<1>5. scopes' \in [Threads -> Seq(Scopes)]
  BY <1>1, PopFacts
<1>6. CASE s.outer.depth = 0
  <2>1. UNCHANGED <<readers, depth>>
    BY <1>3, <1>6
  <2>2. LockTypeOK' /\ HeldIsOwned' /\ OthersKeep(t)
    BY <2>1, <1>1, <1>5 DEF LockTypeOK, HeldIsOwned, OthersKeep, LockState
  <2>3. QED
    BY <2>1, <2>2, <1>1, <1>4, <1>6, CloseKeeps DEF s
<1>7. CASE s.outer.depth > 0
  <2>1. /\ writer = NoThread /\ readers' = readers \union {t}
        /\ depth' = [depth EXCEPT ![t] = s.outer.depth]
    BY <1>3, <1>7 DEF TakeShared
  <2>2. LockTypeOK' /\ depth'[t] = s.outer.depth
    BY <2>1, <1>1, <1>2, <1>5 DEF LockTypeOK
  <2>3. \A u \in Threads : (depth'[u] > 0) <=> (u \in readers')
    BY <2>1, <2>2, <1>1, <1>7 DEF HeldIsOwned, LockTypeOK
  <2>4. HeldIsOwned'
    BY <2>1, <2>3, <1>1 DEF HeldIsOwned
  <2>5. OthersKeep(t)
    BY <2>1, <1>1, OnlyMine
  <2>6. QED
    BY <2>2, <2>4, <2>5, <1>1, <1>4, CloseKeeps DEF s
<1>8. QED
  BY <1>2, <1>6, <1>7

LEMMA OpenWriteReleaserKeeps ==
  ASSUME LockInv, NEW t \in Threads, OpenWriteReleaser(t)
  PROVE  LockInv'
<1>1. /\ LockTypeOK /\ HeldIsOwned /\ Push(t, "WriteReleaser")
      /\ writer' = IF active[t] THEN NoThread ELSE writer
      /\ active' = [active EXCEPT ![t] = FALSE]
      /\ UNCHANGED <<readers, depth>>
  BY DEF LockInv, OpenWriteReleaser
<1>2. [kind |-> "WriteReleaser", outer |-> LockState(t)] \in Scopes
  BY ThreadFacts DEF Scopes, Kinds
<1>3. scopes' \in [Threads -> Seq(Scopes)]
  BY <1>1, PushFacts DEF Kinds
<1>4. LockTypeOK' /\ active'[t] = FALSE /\ depth'[t] = depth[t]
  BY <1>1, <1>3 DEF LockTypeOK
<1>5. \A u \in Threads : active'[u] <=> (writer' = u)
  BY <1>1, ThreadsAssumption DEF HeldIsOwned, LockTypeOK, ThreadsAssumption
<1>6. HeldIsOwned'
  BY <1>1, <1>5 DEF HeldIsOwned
<1>7. OthersKeep(t)
  BY <1>1, OnlyMine
<1>8. QED
  BY <1>1, <1>2, <1>4, <1>6, <1>7, ThreadFacts, InsideFacts, OpenKeeps DEF Kinds

LEMMA CloseWriteReleaserKeeps ==
  ASSUME LockInv, NEW t \in Threads, CloseWriteReleaser(t)
  PROVE  LockInv'
<1>1. LockTypeOK /\ HeldIsOwned /\ Pop(t, "WriteReleaser") /\ UNCHANGED <<readers, depth>>
  BY DEF LockInv, CloseWriteReleaser
<1> DEFINE s == Innermost(t)
<1>2. /\ s \in Scopes /\ s.kind = "WriteReleaser"
      /\ s.outer.depth \in Nat /\ s.outer.active \in BOOLEAN
      /\ Inside(s).depth = depth[t] /\ Inside(s).active = active[t]
  BY <1>1, InnermostFacts
<1>3. IF s.outer.active
      THEN TakeExclusive(t) /\ active' = [active EXCEPT ![t] = TRUE]
      ELSE UNCHANGED <<writer, active>>
  BY DEF CloseWriteReleaser
<1> HIDE DEF s
<1>4. depth[t] = s.outer.depth /\ active[t] = FALSE
  BY <1>2, InsideFacts
<1>5. scopes' \in [Threads -> Seq(Scopes)]
  BY <1>1, PopFacts
<1>6. CASE ~s.outer.active
  <2>1. UNCHANGED <<writer, active>>
    BY <1>3, <1>6
  <2>2. LockTypeOK' /\ HeldIsOwned' /\ OthersKeep(t)
    BY <2>1, <1>1, <1>5 DEF LockTypeOK, HeldIsOwned, OthersKeep, LockState
  <2>3. QED
    BY <2>1, <2>2, <1>1, <1>2, <1>4, <1>6, CloseKeeps DEF s
<1>7. CASE s.outer.active
  <2>1. /\ writer = NoThread /\ readers = {} /\ writer' = t
        /\ active' = [active EXCEPT ![t] = TRUE]
    BY <1>3, <1>7 DEF TakeExclusive
  <2>2. LockTypeOK' /\ active'[t] = TRUE
    BY <2>1, <1>1, <1>5 DEF LockTypeOK
  <2>3. \A u \in Threads : active'[u] <=> (writer' = u)
    BY <2>1, <1>1, ThreadsAssumption DEF HeldIsOwned, LockTypeOK, ThreadsAssumption
  <2>4. HeldIsOwned'
    BY <2>1, <2>3, <1>1 DEF HeldIsOwned
  <2>5. OthersKeep(t)
    BY <2>1, <1>1, OnlyMine
  <2>6. QED
    BY <2>2, <2>4, <2>5, <1>1, <1>2, <1>4, <1>7, CloseKeeps DEF s
<1>8. QED
  BY <1>6, <1>7

-----------------------------------------------------------------------------
LEMMA LockInvInit == LockInit => LockInv
<1> SUFFICES ASSUME LockInit PROVE LockInv
  OBVIOUS
<1>1. LockTypeOK
  BY DEF LockInit, LockTypeOK
<1>2. HeldIsOwned
  BY ThreadsAssumption DEF LockInit, HeldIsOwned, ThreadsAssumption
<1>3. \A t \in Threads : Len(scopes[t]) = 0 /\ LockState(t) = Unlocked
  BY DEF LockInit, LockState, Unlocked
<1>4. \A t \in Threads : \A i \in 1..Len(scopes[t]) : FALSE
  BY <1>3
<1>5. ScopesNest
  <2> SUFFICES ASSUME NEW t \in Threads
               PROVE  LET n == Len(scopes[t])
                      IN  /\ n = 0 => LockState(t) = Unlocked
                          /\ n > 0 => /\ scopes[t][1].outer = Unlocked
                                      /\ Inside(scopes[t][n]) = LockState(t)
                          /\ \A i \in 1..n : i > 1 => scopes[t][i].outer = Inside(scopes[t][i - 1])
    BY DEF ScopesNest
  <2>1. QED
    BY <1>3, <1>4
<1>6. OneRight
  BY <1>4 DEF OneRight
<1>7. QED
  BY <1>1, <1>2, <1>5, <1>6 DEF LockInv

LEMMA LockInvStep == LockInv /\ [LockNext]_lockVars => LockInv'
<1> SUFFICES ASSUME LockInv, [LockNext]_lockVars PROVE LockInv'
  OBVIOUS
<1>1. CASE UNCHANGED lockVars
  <2>1. /\ readers' = readers /\ writer' = writer /\ depth' = depth
        /\ active' = active /\ scopes' = scopes
    BY <1>1 DEF lockVars
  <2>2. \A t \in Threads : LockState(t)' = LockState(t)
    BY <2>1 DEF LockState
  <2>3. LockTypeOK' /\ HeldIsOwned' /\ OneRight'
    BY <2>1 DEF LockInv, LockTypeOK, HeldIsOwned, OneRight
  <2>4. ScopesNest'
    <3> SUFFICES ASSUME NEW t \in Threads
                 PROVE  LET n == Len(scopes'[t])
                        IN  /\ n = 0 => LockState(t)' = Unlocked
                            /\ n > 0 => /\ scopes'[t][1].outer = Unlocked
                                        /\ Inside(scopes'[t][n]) = LockState(t)'
                            /\ \A i \in 1..n : i > 1 => scopes'[t][i].outer = Inside(scopes'[t][i - 1])
      BY DEF ScopesNest, Inside, Unlocked
    <3>1. QED
      BY <2>1, <2>2 DEF LockInv, ScopesNest
  <2>5. QED
    BY <2>3, <2>4 DEF LockInv
<1>2. CASE LockNext
  <2>1. PICK t \in Threads : LockStep(t)
    BY <1>2 DEF LockNext
  <2>2. QED
    BY <2>1, OpenReadKeeps, CloseReadKeeps, OpenWriteKeeps, CloseWriteKeeps,
       OpenReadReleaserKeeps, CloseReadReleaserKeeps,
       OpenWriteReleaserKeeps, CloseWriteReleaserKeeps DEF LockStep
<1>3. QED
  BY <1>1, <1>2

LEMMA LockInvariant == LockSpec => []LockInv
<1>1. LockInit => LockInv
  BY LockInvInit
<1>2. LockInv /\ [LockNext]_lockVars => LockInv'
  BY LockInvStep
<1>3. QED
  BY <1>1, <1>2, PTL DEF LockSpec

(* The types hold in every state, for every set of threads. *)
THEOREM LockTypesHold == LockSpec => []LockTypeOK
<1>1. LockInv => LockTypeOK
  BY DEF LockInv
<1>2. QED
  BY <1>1, LockInvariant, PTL

(***************************************************************************)
(* GameLock.h:121-123: IsGameLockHeld() never lies.  For every set of      *)
(* threads and every way the four scopes may be nested, a thread's         *)
(* thread_locals announce a right exactly while the mutex grants it.       *)
(***************************************************************************)
THEOREM HeldIsOwnedHolds == LockSpec => []HeldIsOwned
<1>1. LockInv => HeldIsOwned
  BY DEF LockInv
<1>2. QED
  BY <1>1, LockInvariant, PTL

(***************************************************************************)
(* GameLock.h:154-163: a read lock that was a no-op when constructed is a  *)
(* no-op when destroyed, and a releaser restores the depth it took away,   *)
(* because the scopes of a thread always nest.                             *)
(***************************************************************************)
THEOREM ScopesNestHolds == LockSpec => []ScopesNest
<1>1. LockInv => ScopesNest
  BY DEF LockInv
<1>2. QED
  BY <1>1, LockInvariant, PTL

(***************************************************************************)
(* GameLock.h:176-235: whoever has just opened a releaser, to wait inside  *)
(* it, keeps no part of the mutex that the thread it waits for may need.   *)
(***************************************************************************)
THEOREM HandedBackHolds == LockSpec => []HandedBack
<1>1. LockInv => HandedBack
  <2> SUFFICES ASSUME LockInv, NEW t \in Threads, scopes[t] # <<>>
               PROVE  /\ Innermost(t).kind = "ReadReleaser" => t \notin readers
                      /\ Innermost(t).kind = "WriteReleaser" => writer # t
    BY DEF HandedBack
  <2>1. scopes[t] \in Seq(Scopes)
    BY DEF LockInv, LockTypeOK
  <2>2. Len(scopes[t]) \in Nat /\ Len(scopes[t]) > 0 /\ Innermost(t) \in Scopes
    BY <2>1 DEF Innermost
  <2>3. Inside(Innermost(t)) = LockState(t)
    BY <2>2 DEF LockInv, ScopesNest, Innermost
  <2>4. Inside(Innermost(t)).depth = depth[t] /\ Inside(Innermost(t)).active = active[t]
    BY <2>3, ThreadFacts
  <2>5. CASE Innermost(t).kind = "ReadReleaser"
    <3>1. depth[t] = 0
      BY <2>2, <2>4, <2>5, InsideFacts
    <3>2. QED
      BY <3>1, <2>5 DEF LockInv, HeldIsOwned
  <2>6. CASE Innermost(t).kind = "WriteReleaser"
    <3>1. active[t] = FALSE
      BY <2>2, <2>4, <2>6, InsideFacts
    <3>2. QED
      BY <3>1, <2>6 DEF LockInv, HeldIsOwned
  <2>7. QED
    BY <2>5, <2>6
<1>2. QED
  BY <1>1, LockInvariant, PTL

-----------------------------------------------------------------------------
(* A step of t touches no other thread's thread_locals, and changes active  *)
(* only when t has no read lock or is left without the write lock.          *)
LEMMA StepShape ==
  ASSUME LockInv, NEW t \in Threads, LockStep(t)
  PROVE  /\ OthersKeep(t)
         /\ \/ UNCHANGED active
            \/ UNCHANGED depth /\ (readers = {} \/ active'[t] = FALSE)
<1>1. LockTypeOK
  BY DEF LockInv
<1>2. CASE OpenRead(t) \/ CloseRead(t)
  <2>1. UNCHANGED active
    BY <1>2 DEF OpenRead, CloseRead
  <2>2. \E d : depth' = [depth EXCEPT ![t] = d] \/ UNCHANGED depth
    BY <1>2 DEF OpenRead, CloseRead
  <2>3. QED
    BY <2>1, <2>2, <1>1, OnlyMine
<1>3. CASE OpenReadReleaser(t) \/ CloseReadReleaser(t)
  <2>1. UNCHANGED active
    BY <1>3 DEF OpenReadReleaser, CloseReadReleaser
  <2>2. \E d : depth' = [depth EXCEPT ![t] = d] \/ UNCHANGED depth
    BY <1>3 DEF OpenReadReleaser, CloseReadReleaser
  <2>3. QED
    BY <2>1, <2>2, <1>1, OnlyMine
<1>4. CASE OpenWrite(t)
  <2>1. UNCHANGED depth /\ readers = {} /\ active' = [active EXCEPT ![t] = TRUE]
    BY <1>4 DEF OpenWrite, TakeExclusive
  <2>2. QED
    BY <2>1, <1>1, OnlyMine
<1>5. CASE CloseWrite(t) \/ OpenWriteReleaser(t)
  <2>1. UNCHANGED depth /\ active' = [active EXCEPT ![t] = FALSE]
    BY <1>5 DEF CloseWrite, OpenWriteReleaser
  <2>2. active'[t] = FALSE
    BY <2>1, <1>1 DEF LockTypeOK
  <2>3. QED
    BY <2>1, <2>2, <1>1, OnlyMine
<1>6. CASE CloseWriteReleaser(t)
  <2>1. \/ UNCHANGED <<depth, active>>
        \/ UNCHANGED depth /\ readers = {} /\ active' = [active EXCEPT ![t] = TRUE]
    BY <1>6 DEF CloseWriteReleaser, TakeExclusive
  <2>2. QED
    BY <2>1, <1>1, OnlyMine
<1>7. QED
  BY <1>2, <1>3, <1>4, <1>5, <1>6 DEF LockStep

(* A thread never trades one right for the other in a single step. *)
LEMMA NoTrade ==
  ASSUME LockInv, NEW t \in Threads, LockStep(t)
  PROVE  Right(t)' = Right(t) \/ Right(t)' = "none" \/ Right(t) = "none"
<1>1. LockTypeOK /\ HeldIsOwned
  BY DEF LockInv
<1>2. depth[t] \in Nat /\ active[t] \in BOOLEAN /\ ~(active[t] /\ depth[t] > 0)
  BY ThreadFacts
<1>3. CASE UNCHANGED active
  BY <1>3 DEF Right
<1>4. CASE UNCHANGED depth /\ readers = {}
  <2>1. depth[t] = 0
    BY <1>1, <1>2, <1>4 DEF HeldIsOwned
  <2>2. QED
    BY <2>1, <1>4 DEF Right
<1>5. CASE UNCHANGED depth /\ active'[t] = FALSE
  BY <1>2, <1>5 DEF Right
<1>6. QED
  BY <1>3, <1>4, <1>5, StepShape

(* The invariant makes the announced rights compatible. *)
LEMMA RightsCompatible == LockInv => Abstract!Compatible(Access)
<1> SUFFICES ASSUME LockInv, NEW t \in Threads, NEW u \in Threads,
                    t # u, Access[t] = "write"
             PROVE  Access[u] = "none"
  BY DEF Abstract!Compatible
<1>1. LockTypeOK /\ HeldIsOwned
  BY DEF LockInv
<1>2. Right(t) = "write"
  BY DEF Access
<1>3. active[t] /\ writer = t
  BY <1>1, <1>2 DEF Right, HeldIsOwned
<1>4. ~active[u] /\ readers = {}
  BY <1>1, <1>3, ThreadsAssumption DEF HeldIsOwned, ThreadsAssumption
<1>5. ~(depth[u] > 0)
  BY <1>1, <1>4 DEF HeldIsOwned
<1>6. QED
  BY <1>4, <1>5 DEF Access, Right

LEMMA StepImplements ==
  LockInv /\ LockInv' /\ [LockNext]_lockVars => [Abstract!Next]_Access
<1> SUFFICES ASSUME LockInv, LockInv', [LockNext]_lockVars
             PROVE  [Abstract!Next]_Access
  OBVIOUS
<1>1. CASE UNCHANGED lockVars
  BY <1>1 DEF lockVars, Access, Right
<1>2. ASSUME NEW t \in Threads, LockStep(t)
      PROVE  [Abstract!Next]_Access
  <2>1. \A u \in Threads \ {t} : Right(u)' = Right(u)
    <3> SUFFICES ASSUME NEW u \in Threads \ {t} PROVE Right(u)' = Right(u)
      OBVIOUS
    <3>1. LockState(u)' = LockState(u)
      BY <1>2, StepShape DEF OthersKeep
    <3>2. /\ LockState(u).depth = depth[u] /\ LockState(u).active = active[u]
          /\ LockState(u)'.depth = depth'[u] /\ LockState(u)'.active = active'[u]
      BY DEF LockState
    <3>3. QED
      BY <3>1, <3>2 DEF Right
  <2>2. Access' = [Access EXCEPT ![t] = Right(t)']
    BY <2>1 DEF Access
  <2>3. Access[t] = Right(t) /\ Access \in [Threads -> {"none", "read", "write"}]
    BY DEF Access, Right
  <2>4. Right(t)' \in {"none", "read", "write"}
    BY DEF Right
  <2>5. Abstract!Compatible(Access')
    <3>1. Abstract!Compatible(Access)'
      BY RightsCompatible, PTL
    <3>2. QED
      BY <3>1 DEF Abstract!Compatible
  <2>6. CASE Right(t)' = Right(t)
    BY <2>2, <2>3, <2>6
  <2>7. CASE Right(t)' = "none"
    BY <2>2, <2>7 DEF Abstract!Next, Abstract!Withdraw
  <2>8. CASE Right(t) = "none"
    BY <2>2, <2>3, <2>4, <2>5, <2>8 DEF Abstract!Next, Abstract!Grant, Abstract!Rights
  <2>9. QED
    BY <2>6, <2>7, <2>8, <1>2, NoTrade
<1>3. QED
  BY <1>1, <1>2 DEF LockNext

(***************************************************************************)
(* The four RAII objects of GameLock.h implement the readers-writer rule   *)
(* for any number of threads: what IsGameLockHeld() lets a thread do is    *)
(* what ReadersWriter allows it, and every step is one of its grants, one  *)
(* of its withdrawals, or invisible to it.                                 *)
(***************************************************************************)
THEOREM LockImplementsReadersWriter == LockSpec => ImplementsReadersWriter
<1>1. LockInit => Abstract!Init
  BY DEF LockInit, Abstract!Init, Access, Right
<1>2. LockInv /\ LockInv' /\ [LockNext]_lockVars => [Abstract!Next]_Access
  BY StepImplements
<1>3. QED
  BY <1>1, <1>2, LockInvariant, PTL DEF LockSpec, ImplementsReadersWriter, Abstract!Spec

-----------------------------------------------------------------------------
(* The frame and the write lock. *)
(* FrameOwnsLock is not inductive by itself: a releaser that closes must   *)
(* not bring a write lock back that no frame has, and must not be the      *)
(* outermost scope of a frame that has one.                                *)
FrameInv ==
  /\ FrameOwnsLock
  /\ \A i \in 1..Len(scopes[Game]) : scopes[Game][i].outer.active => writeLockHeld
  /\ writeLockHeld /\ scopes[Game] # <<>> => scopes[Game][1].kind = "Write"
  /\ phase \in {"Asleep", "SliceDrain"} => writeLockHeld

LEMMA GameScopes ==
  ASSUME LockTypeOK
  PROVE  /\ Game \in Threads
         /\ scopes[Game] \in Seq(Scopes)
         /\ Len(scopes[Game]) \in Nat
         /\ scopes[Game] = <<>> <=> Len(scopes[Game]) = 0
  BY ThreadsAssumption DEF LockTypeOK

LEMMA FrameInvInit == FrameInit => FrameInv
<1> SUFFICES ASSUME FrameInit PROVE FrameInv
  OBVIOUS
<1>1. /\ phase = "Game" /\ writeLockHeld = FALSE
      /\ scopes[Game] = <<>> /\ active[Game] = FALSE
  BY ThreadsAssumption DEF FrameInit, LockInit
<1>2. phase \in Phases
  BY <1>1 DEF Phases
<1>3. FrameOwnsLock
  BY <1>1, <1>2, Zenon DEF FrameOwnsLock
<1>4. QED
  BY <1>1, <1>3 DEF FrameInv

(* Whatever other threads do. *)
LEMMA FrameKept ==
  ASSUME FrameInv, scopes'[Game] = scopes[Game], active'[Game] = active[Game],
         UNCHANGED <<phase, writeLockHeld>>
  PROVE  FrameInv'
  BY DEF FrameInv, FrameOwnsLock

(* A scope that opens on the game thread while it runs. *)
LEMMA FramePush ==
  ASSUME LockTypeOK, FrameInv, NEW kind \in Kinds \ {"Write"}, Push(Game, kind),
         phase \notin {"Asleep", "AcquireWait"},
         active'[Game] => active[Game], UNCHANGED <<phase, writeLockHeld>>
  PROVE  FrameInv'
<1> DEFINE n == Len(scopes[Game])
           new == [kind |-> kind, outer |-> LockState(Game)]
<1>1. /\ n \in Nat /\ (scopes[Game] = <<>> <=> n = 0)
      /\ Len(scopes'[Game]) = n + 1
      /\ scopes'[Game][n + 1] = new
      /\ \A i \in 1..n : scopes'[Game][i] = scopes[Game][i]
  BY GameScopes, PushFacts
<1>2. writeLockHeld => n > 0 /\ scopes[Game][1].kind = "Write"
  BY <1>1 DEF FrameInv, FrameOwnsLock
<1>3. active[Game] => writeLockHeld
  BY DEF FrameInv, FrameOwnsLock
<1>4. new.outer.active = active[Game]
  BY DEF LockState
<1> HIDE DEF n, new
<1>5. scopes'[Game] # <<>>
  BY <1>1
<1>6. FrameOwnsLock'
  BY <1>3, <1>5 DEF FrameInv, FrameOwnsLock
<1>7. \A i \in 1..Len(scopes'[Game]) : scopes'[Game][i].outer.active => writeLockHeld
  BY <1>1, <1>3, <1>4 DEF FrameInv, n
<1>8. writeLockHeld => scopes'[Game][1].kind = "Write"
  BY <1>1, <1>2
<1>9. QED
  BY <1>6, <1>7, <1>8 DEF FrameInv

(* A scope that closes on the game thread. *)
LEMMA FramePop ==
  ASSUME LockTypeOK, FrameInv, NEW kind \in Kinds \ {"Write"}, Pop(Game, kind),
         active'[Game] => active[Game] \/ Innermost(Game).outer.active,
         UNCHANGED <<phase, writeLockHeld>>
  PROVE  FrameInv'
<1> DEFINE n == Len(scopes[Game])
<1>1. /\ n \in Nat /\ n > 0 /\ scopes[Game] # <<>>
      /\ scopes[Game][n].kind = kind
      /\ Len(scopes'[Game]) = n - 1
      /\ \A i \in 1..(n - 1) : scopes'[Game][i] = scopes[Game][i]
  BY GameScopes, PopFacts
<1>2. Innermost(Game) = scopes[Game][n]
  BY DEF Innermost
<1>3. active'[Game] => writeLockHeld
  BY <1>1, <1>2 DEF FrameInv, FrameOwnsLock
<1>4. writeLockHeld => scopes[Game][1].kind = "Write" /\ n > 1
  BY <1>1 DEF FrameInv
<1> HIDE DEF n
<1>5. writeLockHeld => scopes'[Game] # <<>> /\ phase \notin {"Asleep", "AcquireWait"}
  BY <1>1, <1>4 DEF FrameInv, FrameOwnsLock
<1>6. FrameOwnsLock'
  BY <1>3, <1>5 DEF FrameInv, FrameOwnsLock
<1>7. \A i \in 1..Len(scopes'[Game]) : scopes'[Game][i].outer.active => writeLockHeld
  BY <1>1 DEF FrameInv, n
<1>8. writeLockHeld => scopes'[Game][1].kind = "Write"
  BY <1>1, <1>4
<1>9. QED
  BY <1>6, <1>7, <1>8 DEF FrameInv

(* The moves of the frame itself. *)
LEMMA FrameMoveKeeps ==
  ASSUME LockTypeOK, FrameInv, StartTick \/ FrameMove
  PROVE  FrameInv'
<1> DEFINE n == Len(scopes[Game])
<1>1. /\ Game \in Threads /\ n \in Nat
      /\ scopes[Game] = <<>> <=> n = 0
  BY GameScopes
<1>2. ASSUME UNCHANGED lockVars, writeLockHeld' = writeLockHeld, phase' \in Phases,
             phase' \in {"Asleep", "SliceDrain"} => writeLockHeld,
             writeLockHeld => (phase \in {"Asleep", "AcquireWait"}
                                 <=> phase' \in {"Asleep", "AcquireWait"})
      PROVE  FrameInv'
  BY <1>2 DEF FrameInv, FrameOwnsLock, lockVars
<1>3. CASE StartTick \/ EndBody \/ EndSleep
  <2>1. /\ UNCHANGED lockVars /\ writeLockHeld' = writeLockHeld
        /\ \/ phase = "Game" /\ phase' = "Body"
           \/ phase = "Body" /\ phase' = "Drain"
           \/ phase = "Asleep" /\ phase' = "AcquireWait"
    BY <1>3 DEF StartTick, EndBody, EndSleep, To
  <2>2. QED
    BY <1>2, <2>1 DEF Phases
<1>4. ASSUME CloseWrite(Game), AtBase, writeLockHeld, writeLockHeld' = writeLockHeld,
             phase' = "Asleep"
      PROVE  FrameInv'
  <2>1. n > 0 /\ Len(scopes'[Game]) = n - 1 /\ scopes'[Game] \in Seq(Scopes)
    BY <1>1, <1>4, PopFacts DEF CloseWrite
  <2>2. scopes'[Game] = <<>>
    BY <1>1, <1>4, <2>1 DEF AtBase
  <2>3. QED
    BY <1>4, <2>2 DEF FrameInv, FrameOwnsLock, Phases
<1>5. CASE EndDrain
  <2>1. CASE writeLockHeld
    BY <1>4, <1>5, <2>1 DEF EndDrain, To
  <2>2. CASE ~writeLockHeld
    <3>1. UNCHANGED lockVars /\ writeLockHeld' = writeLockHeld /\ phase' = "AcquireWait"
      BY <1>5, <2>2 DEF EndDrain, To
    <3>2. QED
      BY <1>2, <2>2, <3>1 DEF Phases
  <2>3. QED
    BY <2>1, <2>2
<1>6. CASE EndSlice
  <2>1. phase = "SliceDrain" /\ writeLockHeld
    BY <1>6 DEF EndSlice, FrameInv
  <2>2. QED
    BY <1>4, <1>6, <2>1 DEF EndSlice, To
<1>7. ASSUME OpenWrite(Game), writeLockHeld', phase' \in {"Game", "SliceDrain"}
      PROVE  FrameInv'
  <2>1. n = 0
    BY <1>1, <1>7 DEF OpenWrite
  <2>2. "Write" \in Kinds
    BY DEF Kinds
  <2>3. /\ Len(scopes'[Game]) = 1
        /\ scopes'[Game][1] = [kind |-> "Write", outer |-> LockState(Game)]
    <3>1. /\ Len(scopes'[Game]) = n + 1
          /\ scopes'[Game][n + 1] = [kind |-> "Write", outer |-> LockState(Game)]
      BY <1>1, <1>7, <2>2, PushFacts DEF OpenWrite
    <3>2. QED
      BY <2>1, <3>1
  <2>4. scopes'[Game] # <<>> /\ scopes'[Game][1].kind = "Write"
    BY <2>3
  <2>5. FrameOwnsLock'
    BY <1>7, <2>4 DEF FrameOwnsLock, Phases
  <2>6. QED
    BY <1>7, <2>4, <2>5 DEF FrameInv
<1>8. CASE StartSlice
  <2>1. phase = "Asleep" /\ writeLockHeld
    BY <1>8 DEF StartSlice, FrameInv
  <2>2. QED
    BY <1>7, <1>8, <2>1 DEF StartSlice, To
<1>9. CASE Reacquire
  BY <1>7, <1>9 DEF Reacquire, To
<1>10. QED
  BY <1>3, <1>5, <1>6, <1>8, <1>9 DEF FrameMove
=============================================================================
