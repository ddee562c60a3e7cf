------------------------- MODULE ScriptEventsProofs -------------------------
(***************************************************************************)
(* Proofs about ScriptEvents for any scripts, names, dispatching threads,  *)
(* slots, handlers and nesting.  Three arguments, over one invariant of    *)
(* the dispatches.  Counting: a registration is in its slot's count from   *)
(* before it is installed until after it is gone, and a name that has no   *)
(* slot while it is counted will never have one.  Serving: whoever is due  *)
(* runs and listens, so a dispatch that passes a script over found it not  *)
(* due.  Voting: an event is once among a script's tasks, two dispatches   *)
(* have no event in common and a script never dispatches a blockable one,  *)
(* so that each step makes at most one script owe a vote or not any more.  *)
(***************************************************************************)
EXTENDS ScriptEvents, FiniteSetTheorems, TLAPS

Steps == {"Idle", "State", "Registered", "Expect", "Isolate", "Alive", "Post", "InPlace"}

Dispatch_ ==
  [at : Steps, event : Nat \union {Free}, left : SUBSET Scripts, served : SUBSET Scripts]

EventsTypeOK ==
  /\ slots \subseteq Names
  /\ looked \in [Names -> Names \union {Overflow, NoSlot}]
  /\ handlers \subseteq Registrations /\ inHand \subseteq Registrations
  /\ change \in [Scripts -> {"None", "Install", "Count"}]
  /\ state \in [Scripts -> {"Running", "Paused", "Stopping"}]
  /\ phase \in [Scripts -> {"Live", "Leaving", "Exchanged", "Cleared"}]
  /\ queue \in [Scripts -> Seq(Nat)] /\ running \in [Scripts -> Seq(Nat)]
  /\ dispatch \in [Dispatchers -> Dispatch_]
  /\ name \in Seq(Names)
  /\ remaining \in Seq(Int) /\ promise \in Seq({"Open", "Passed", "Blocked"})
  /\ Len(remaining) = Len(name) /\ Len(promise) = Len(name)
  /\ due \in [Dispatchers -> SUBSET Scripts]

(* What is counted: registrations that are installed, or half changed. *)
Counted == handlers \union inHand

(* No slot of its own will be made for n any more. *)
HasNoSlot(n) == Cardinality(slots) >= MaxSlots \/ n \in LongNames

CountInv ==
  /\ count \in [Names \union {Overflow} -> Int]
  /\ IsFiniteSet(slots) /\ IsFiniteSet(Counted)
  /\ handlers \intersect inHand = {}
  /\ \A s \in Scripts : change[s] = "None" => Mine(s, inHand) = {}
  /\ \A h \in Counted : h[2] \in slots \/ HasNoSlot(h[2])
  /\ CountIsExact

(* A dispatch has an event, and a script while it is not between two; only *)
(* a script's own runs handlers in place.                                  *)
SoundDispatch(d) ==
  /\ dispatch[d].at = "Idle" => dispatch[d] = Idle
  /\ dispatch[d].at # "Idle" => dispatch[d].event \in DOMAIN name
  /\ dispatch[d].at \notin {"Idle", "State"} => dispatch[d].left # {}
  /\ dispatch[d].at = "InPlace" => d \in Scripts /\ Current(d) = d

DispatchInv == \A d \in Dispatchers : SoundDispatch(d)

(* Whoever is due is there, runs and listens. *)
Listens(s, n) ==
  phase[s] = "Live" /\ state[s] = "Running" /\ \E h \in handlers : h[1] = s /\ h[2] = n

DueInv ==
  \A d \in Dispatchers :
    /\ dispatch[d].event = Free => due[d] = {}
    /\ \A s \in due[d] : Listens(s, name[dispatch[d].event])

ServedInv == DueInv /\ EveryListenerServed

(* Each event is once among the tasks of a script. *)
Distinct(s) ==
  /\ IsInjective(queue[s]) /\ IsInjective(running[s])
  /\ Range(queue[s]) \intersect Range(running[s]) = {}
  /\ Range(queue[s]) \union Range(running[s]) \subseteq DOMAIN name

(* No two dispatches have an event in common; a script that is left has    *)
(* not got it yet, unless it is running it in place; and no script         *)
(* dispatches a blockable event.                                           *)
NotYet(d) ==
  \A s \in dispatch[d].left :
    /\ dispatch[d].event \notin Range(queue[s])
    /\ dispatch[d].event \in Range(running[s]) => dispatch[d].at = "InPlace" /\ s = d

OnceInv ==
  /\ \A s \in Scripts : Distinct(s)
  /\ \A d, e \in Dispatchers : d # e /\ dispatch[d].event # Free => dispatch[d].event # dispatch[e].event
  /\ \A d \in Dispatchers : NotYet(d)
  /\ \A d \in Scripts : dispatch[d].event # Free => ~Blockable(dispatch[d].event)

(* What is still expected of an event is owed, and an event of which       *)
(* nothing is expected has its answer or is still being dispatched.        *)
Vote(e) ==
  Blockable(e) =>
    /\ remaining[e] = Cardinality(Owing(e))
    /\ remaining[e] = 0 => promise[e] # "Open" \/ \E d \in Dispatchers : dispatch[d].event = e

VoteInv == \A e \in DOMAIN name : Vote(e)

EventsInv == EventsTypeOK /\ CountInv /\ DispatchInv /\ ServedInv /\ OnceInv /\ VoteInv

-----------------------------------------------------------------------------
(* The least element of a set of numbers. *)
LEMMA LeastNumber ==
  ASSUME NEW T \in SUBSET Nat, T # {}
  PROVE  \E m \in T : \A k \in T : m <= k
<1> DEFINE U == {0..k : k \in T}
<1>1. IsWellFoundedOn(StrictSubsetOrdering(Nat), FiniteSubsetsOf(Nat))
  BY FS_StrictSubsetOrderingWellFounded
<1>2. \A k \in T : IsFiniteSet(0..k) /\ 0..k \in SUBSET Nat
  BY FS_Interval
<1>3. U \subseteq FiniteSubsetsOf(Nat) /\ U # {}
  BY <1>2, Zenon DEF FiniteSubsetsOf
<1>4. PICK V \in U : \A W \in U : <<W, V>> \notin StrictSubsetOrdering(Nat)
  <2> HIDE DEF U
  <2> QED
    BY <1>1, <1>3, WFMin
<1>5. PICK m \in T : V = 0..m
  OBVIOUS
<1>6. ASSUME NEW k \in T, k < m
      PROVE  FALSE
  <2>1. m \in 0..m /\ m \notin 0..k
    BY <1>6
  <2>2. 0..k \subseteq 0..m /\ 0..k # 0..m /\ 0..k \in SUBSET Nat /\ 0..m \in SUBSET Nat
    BY <1>6, <2>1
  <2>3. <<0..k, V>> \notin StrictSubsetOrdering(Nat)
    BY <1>4
  <2> QED
    BY <2>2, <2>3, <1>5, Zenon DEF StrictSubsetOrdering
<1> QED
  BY <1>6

(* What is in a sequence after an event is put at its end ... *)
LEMMA RangeOfAppend ==
  ASSUME NEW q \in Seq(Nat), NEW e \in Nat
  PROVE  /\ Append(q, e) \in Seq(Nat)
         /\ Range(Append(q, e)) = Range(q) \union {e}
         /\ IsInjective(q) /\ e \notin Range(q) => IsInjective(Append(q, e))
<1>1. /\ DOMAIN Append(q, e) = 1..(Len(q) + 1) /\ DOMAIN q = 1..Len(q) /\ Len(q) \in Nat
      /\ \A i \in 1..Len(q) : Append(q, e)[i] = q[i]
      /\ Append(q, e)[Len(q) + 1] = e
  OBVIOUS
<1>2. \A i \in 1..(Len(q) + 1) : i \in 1..Len(q) \/ i = Len(q) + 1
  BY <1>1
<1>3. \A i \in 1..Len(q) : i \in 1..(Len(q) + 1)
  BY <1>1
<1>4. Len(q) + 1 \in 1..(Len(q) + 1)
  BY <1>1
<1>5. Range(Append(q, e)) = Range(q) \union {e}
  BY <1>1, <1>2, <1>3, <1>4 DEF Range
<1>6. IsInjective(q) /\ e \notin Range(q) => IsInjective(Append(q, e))
  BY <1>1, <1>2 DEF Range, IsInjective
<1> QED
  BY <1>5, <1>6

(* ... or taken from its front ... *)
LEMMA RangeOfTail ==
  ASSUME NEW q \in Seq(Nat), q # <<>>
  PROVE  /\ Tail(q) \in Seq(Nat) /\ Head(q) \in Nat
         /\ Range(q) = {Head(q)} \union Range(Tail(q))
         /\ IsInjective(q) => IsInjective(Tail(q)) /\ Head(q) \notin Range(Tail(q))
<1>1. /\ DOMAIN q = 1..Len(q) /\ Len(q) \in Nat \ {0} /\ DOMAIN Tail(q) = 1..(Len(q) - 1)
      /\ Head(q) = q[1] /\ \A i \in 1..(Len(q) - 1) : Tail(q)[i] = q[i + 1]
  OBVIOUS
<1>2. \A i \in 1..Len(q) : i = 1 \/ (i - 1 \in 1..(Len(q) - 1) /\ q[i] = Tail(q)[i - 1])
  BY <1>1
<1>3. \A i \in 1..(Len(q) - 1) : i + 1 \in 1..Len(q) /\ i + 1 # 1
  BY <1>1
<1>4. 1 \in 1..Len(q)
  BY <1>1
<1>5. Range(q) = {Head(q)} \union Range(Tail(q))
  <2>1. ASSUME NEW x \in Range(q)
        PROVE  x = Head(q) \/ x \in Range(Tail(q))
    <3>1. PICK i \in 1..Len(q) : x = q[i]
      BY <1>1 DEF Range
    <3>2. x = Head(q) \/ (i - 1 \in DOMAIN Tail(q) /\ x = Tail(q)[i - 1])
      BY <1>1, <1>2, <3>1
    <3> QED
      BY <3>2 DEF Range
  <2>2. Head(q) \in Range(q) /\ \A x \in Range(Tail(q)) : x \in Range(q)
    BY <1>1, <1>3, <1>4 DEF Range
  <2> QED
    BY <2>1, <2>2
<1>6. ASSUME IsInjective(q)
      PROVE  IsInjective(Tail(q)) /\ Head(q) \notin Range(Tail(q))
  <2>1. ASSUME NEW i \in 1..(Len(q) - 1), NEW j \in 1..(Len(q) - 1), Tail(q)[i] = Tail(q)[j]
        PROVE  i = j
    <3>1. i + 1 = j + 1
      BY <1>1, <1>3, <1>6, <2>1 DEF IsInjective
    <3> QED
      BY <3>1
  <2>2. \A i \in 1..(Len(q) - 1) : Tail(q)[i] # Head(q)
    BY <1>1, <1>3, <1>4, <1>6 DEF IsInjective
  <2> QED
    BY <1>1, <2>1, <2>2 DEF IsInjective, Range
<1> QED
  BY <1>5, <1>6

(* ... or from its end. *)
LEMMA RangeOfFront ==
  ASSUME NEW q \in Seq(Nat), q # <<>>
  PROVE  /\ Front(q) \in Seq(Nat) /\ Last(q) \in Nat
         /\ Range(q) = {Last(q)} \union Range(Front(q))
         /\ IsInjective(q) => IsInjective(Front(q)) /\ Last(q) \notin Range(Front(q))
<1>0. Len(q) \in Nat \ {0}
  OBVIOUS
<1>1. /\ DOMAIN q = 1..Len(q)
      /\ DOMAIN Front(q) = 1..(Len(q) - 1) /\ Front(q) \in Seq(Nat)
      /\ Last(q) = q[Len(q)] /\ \A i \in 1..(Len(q) - 1) : Front(q)[i] = q[i]
  BY DEF Front, Last
<1>2. \A i \in 1..Len(q) : i = Len(q) \/ i \in 1..(Len(q) - 1)
  BY <1>0
<1>3. \A i \in 1..(Len(q) - 1) : i \in 1..Len(q) /\ i # Len(q)
  BY <1>0
<1>4. Len(q) \in 1..Len(q)
  BY <1>0
<1>5. Range(q) = {Last(q)} \union Range(Front(q))
  BY <1>1, <1>2, <1>3, <1>4 DEF Range
<1>6. IsInjective(q) => IsInjective(Front(q)) /\ Last(q) \notin Range(Front(q))
  BY <1>1, <1>3, <1>4 DEF IsInjective, Range
<1> QED
  BY <1>1, <1>4, <1>5, <1>6

LEMMA ScriptsAreFinite == IsFiniteSet(Scripts)
<1>1. Order \in Surjection(1..Len(Order), Scripts)
  BY EventsAssumption DEF Surjection, Scripts, Range
<1>2. IsFiniteSet(1..Len(Order))
  BY EventsAssumption, FS_Interval
<1> QED
  BY <1>1, <1>2, FS_Surjection

(* A set of scripts that is not empty has a first one. *)
LEMMA FirstIsOne ==
  ASSUME NEW set \in SUBSET Scripts, set # {}
  PROVE  First(set) \in set
<1> DEFINE T == {i \in DOMAIN Order : Order[i] \in set}
<1>1. DOMAIN Order = 1..Len(Order) /\ Len(Order) \in Nat
  BY EventsAssumption
<1>2. T \in SUBSET Nat /\ T # {}
  BY <1>1 DEF Scripts, Range
<1>3. PICK i \in T : \A k \in T : i <= k
  <2> HIDE DEF T
  <2> QED
    BY <1>2, LeastNumber
<1>4. \A j \in 1..(i - 1) : j \in DOMAIN Order /\ ~(i <= j)
  BY <1>1, <1>3
<1>5. i \in DOMAIN Order /\ Order[i] \in set /\ \A j \in 1..(i - 1) : Order[j] \notin set
  BY <1>3, <1>4
<1> QED
  BY <1>5 DEF First

LEMMA CurrentIsAScript ==
  ASSUME EventsTypeOK, NEW d \in Dispatchers, dispatch[d].left # {}
  PROVE  Current(d) \in dispatch[d].left /\ Current(d) \in Scripts
BY FirstIsOne DEF EventsTypeOK, Dispatch_, Current

LEMMA NextIsADispatch ==
  ASSUME EventsTypeOK, NEW d \in Dispatchers
  PROVE  /\ Next_(d) \in Dispatch_
         /\ Next_(d).at = "State" /\ Next_(d).event = dispatch[d].event
         /\ Next_(d).left = dispatch[d].left \ {Current(d)} /\ Next_(d).served = dispatch[d].served
<1>1. dispatch[d] \in Dispatch_
  BY DEF EventsTypeOK
<1> QED
  BY <1>1 DEF Next_, Dispatch_, Steps

LEMMA SlotTypes ==
  ASSUME EventsTypeOK, NEW n \in Names
  PROVE  SlotFor(n) \in Names \union {Overflow} /\ (Resolve(n) => slots' \subseteq Names)
BY DEF EventsTypeOK, SlotFor, Resolve

LEMMA SameLength ==
  ASSUME NEW S, NEW q \in Seq(S), NEW r \in [1..Len(q) -> S]
  PROVE  r \in Seq(S) /\ Len(r) = Len(q)
<1>1. Len(q) \in Nat
  OBVIOUS
<1>2. r \in Seq(S)
  BY <1>1
<1> QED
  BY <1>1, <1>2

(* A vote changes the type of nothing. *)
LEMMA VotesTyped ==
  ASSUME EventsTypeOK, NEW e, NEW blocks \in BOOLEAN, Settle(e, blocks)
  PROVE  /\ remaining' \in Seq(Int) /\ promise' \in Seq({"Open", "Passed", "Blocked"})
         /\ Len(remaining') = Len(remaining) /\ Len(promise') = Len(promise)
<1>1. /\ remaining \in [1..Len(remaining) -> Int]
      /\ promise \in [1..Len(promise) -> {"Open", "Passed", "Blocked"}]
  BY DEF EventsTypeOK
<1>2. /\ remaining' \in [1..Len(remaining) -> Int]
      /\ promise' \in [1..Len(promise) -> {"Open", "Passed", "Blocked"}]
  BY <1>1 DEF Settle
<1> QED
  BY <1>2, SameLength DEF EventsTypeOK

LEMMA WatchTyped ==
  ASSUME EventsTypeOK, Watch
  PROVE  due' \in [Dispatchers -> SUBSET Scripts]
<1>1. ASSUME NEW d \in Dispatchers
      PROVE  due'[d] \in SUBSET Scripts
  BY DEF Watch, EventsTypeOK
<1>2. due' = [d \in Dispatchers |-> due'[d]]
  BY DEF Watch
<1> QED
  BY <1>1, <1>2, Zenon

-----------------------------------------------------------------------------
(* The four kinds of steps: with a script's handlers, with its state and   *)
(* its teardown, with its tasks, and of a dispatch.                        *)
RegistryStep(s) ==
  \/ \E n \in Names : Register(s, n) \/ Unregister(s, n)
  \/ ClearAllEvents(s)
  \/ Install(s)
  \/ CountOff(s)

LifeStep(s) == ChangeState(s) \/ Leave(s) \/ Exchange(s) \/ ClearFunctions(s)

TaskStep(s) == Execute(s) \/ Return(s) \/ DropTask(s)

BeginStep(d) ==
  /\ \/ d \in Hooks /\ \E n \in Names : Fire(d, n)
     \/ d \in Scripts /\ \E n \in Names : Broadcast(d, n)

LEMMA StepKinds ==
  ASSUME EventsNext
  PROVE  /\ Watch
         /\ \/ \E s \in Scripts : RegistryStep(s) \/ LifeStep(s) \/ TaskStep(s)
            \/ \E d \in Dispatchers : BeginStep(d) \/ DispatchStep(d)
            \/ \E d \in Hooks, n \in Names : LookUp(d, n)
BY DEF EventsNext, ScriptStep, RegistryStep, LifeStep, TaskStep, BeginStep, Dispatchers

LEMMA Bumped ==
  ASSUME NEW q \in Seq(Int), NEW e, NEW k \in Int
  PROVE  [q EXCEPT ![e] = @ + k] \in Seq(Int) /\ Len([q EXCEPT ![e] = @ + k]) = Len(q)
<1>1. Len(q) \in Nat /\ q \in [1..Len(q) -> Int]
  OBVIOUS
<1>2. [q EXCEPT ![e] = @ + k] \in [1..Len(q) -> Int]
  <2>1. CASE e \in 1..Len(q)
    <3>1. q[e] + k \in Int
      BY <1>1, <2>1
    <3> QED
      BY <1>1, <3>1, Zenon
  <2>2. CASE e \notin 1..Len(q)
    BY <1>1, <2>2, Zenon
  <2> QED
    BY <2>1, <2>2
<1> QED
  BY <1>2, SameLength

(* The type invariant, for each kind of step. *)
LEMMA RegistryStepTyped ==
  ASSUME EventsTypeOK, Watch, NEW s \in Scripts, RegistryStep(s)
  PROVE  EventsTypeOK'
<1> USE WatchTyped DEF EventsTypeOK, threads, traffic
<1>1. ASSUME NEW n \in Names, Register(s, n)
      PROVE  EventsTypeOK'
  <2>1. PICK i \in 1..MaxHandlers : inHand' = inHand \union {<<s, n, i>>}
    BY <1>1 DEF Register
  <2>2. <<s, n, i>> \in Registrations
    BY DEF Registrations
  <2> QED
    BY <1>1, <2>1, <2>2, SlotTypes DEF Register
<1>2. ASSUME NEW gone \in SUBSET handlers, TakeOut(s, gone), UNCHANGED <<threads, traffic>>
      PROVE  EventsTypeOK'
  BY <1>2 DEF TakeOut
<1>3. ASSUME NEW n \in Names, Unregister(s, n)
      PROVE  EventsTypeOK'
  BY <1>3, <1>2 DEF Unregister, Of
<1>4. CASE ClearAllEvents(s)
  BY <1>4, <1>2 DEF ClearAllEvents, Mine
<1>5. CASE Install(s)
  BY <1>5 DEF Install, Mine
<1>6. CASE CountOff(s)
  <2>1. CASE Mine(s, inHand) = {} /\ UNCHANGED <<slots, count, inHand>>
    BY <1>6, <2>1 DEF CountOff
  <2>2. CASE ~(Mine(s, inHand) = {} /\ UNCHANGED <<slots, count, inHand>>)
    <3>1. PICK n \in {h[2] : h \in Mine(s, inHand)} :
            LET gone == {h \in Mine(s, inHand) : h[2] = n} IN
              /\ inHand' = inHand \ gone
              /\ Resolve(n)
              /\ count' = [count EXCEPT ![SlotFor(n)] = @ - Cardinality(gone)]
              /\ UNCHANGED change
      BY <1>6, <2>2 DEF CountOff
    <3>2. n \in Names
      BY DEF Mine, Registrations
    <3> QED
      BY <1>6, <3>1, <3>2, SlotTypes DEF CountOff
  <2> QED
    BY <2>1, <2>2
<1> QED
  BY <1>1, <1>3, <1>4, <1>5, <1>6 DEF RegistryStep

LEMMA LifeStepTyped ==
  ASSUME EventsTypeOK, Watch, NEW s \in Scripts, LifeStep(s)
  PROVE  EventsTypeOK'
<1> USE WatchTyped DEF EventsTypeOK, registry, traffic
<1>1. CASE ChangeState(s)
  BY <1>1 DEF ChangeState
<1>2. CASE Leave(s)
  BY <1>2 DEF Leave
<1>3. CASE Exchange(s)
  BY <1>3 DEF Exchange
<1>4. CASE ClearFunctions(s)
  BY <1>4 DEF ClearFunctions, TakeOut, Mine
<1> QED
  BY <1>1, <1>2, <1>3, <1>4 DEF LifeStep

LEMMA TaskStepTyped ==
  ASSUME EventsTypeOK, DispatchInv, Watch, NEW s \in Scripts, TaskStep(s)
  PROVE  EventsTypeOK'
<1> USE WatchTyped DEF EventsTypeOK, registry, threads
<1>1. CASE Execute(s)
  <2>1. Tail(queue[s]) \in Seq(Nat) /\ Append(running[s], Head(queue[s])) \in Seq(Nat)
    BY <1>1, RangeOfTail, RangeOfAppend DEF Execute
  <2> QED
    BY <1>1, <2>1 DEF Execute
<1>2. CASE Return(s)
  <2>1. PICK blocks \in BOOLEAN : Settle(Last(running[s]), blocks)
    BY <1>2 DEF Return
  <2>2. Front(running[s]) \in Seq(Nat)
    BY <1>2, RangeOfFront DEF Return
  <2>3. s \in Dispatchers
    BY DEF Dispatchers
  <2>a. Next_(s) \in Dispatch_
    BY <2>3, NextIsADispatch
  <2>4. [Next_(s) EXCEPT !.served = @ \union {s}] \in Dispatch_
    BY <2>a DEF Dispatch_
  <2>5. dispatch' \in [Dispatchers -> Dispatch_]
    BY <1>2, <2>4 DEF Return
  <2> QED
    BY <1>2, <2>1, <2>2, <2>5, VotesTyped DEF Return
<1>3. CASE DropTask(s)
  BY <1>3, VotesTyped, RangeOfTail DEF DropTask
<1> QED
  BY <1>1, <1>2, <1>3 DEF TaskStep

LEMMA BeginTyped ==
  ASSUME EventsTypeOK, DispatchInv, Watch, NEW d \in Dispatchers, BeginStep(d)
  PROVE  EventsTypeOK'
<1> USE WatchTyped DEF EventsTypeOK, registry, threads
<1>1. ASSUME NEW n \in Names, Begin(d, n)
      PROVE  /\ dispatch' \in [Dispatchers -> Dispatch_]
             /\ name' \in Seq(Names) /\ remaining' \in Seq(Int) /\ promise' \in Seq({"Open", "Passed", "Blocked"})
             /\ Len(remaining') = Len(name') /\ Len(promise') = Len(name')
             /\ UNCHANGED <<queue, running>>
  <2>1. [at |-> "State", event |-> Len(name) + 1, served |-> {}, left |-> {s \in Scripts : phase[s] = "Live"}] \in Dispatch_
    BY DEF Dispatch_, Steps
  <2> QED
    BY <1>1, <2>1 DEF Begin
<1>2. ASSUME NEW n \in Names, Fire(d, n)
      PROVE  EventsTypeOK'
  BY <1>1, <1>2 DEF Fire
<1>3. ASSUME NEW n \in Names, Broadcast(d, n)
      PROVE  EventsTypeOK'
  BY <1>1, <1>3 DEF Broadcast
<1> QED
  BY <1>2, <1>3 DEF BeginStep

LEMMA LookUpTyped ==
  ASSUME EventsTypeOK, DispatchInv, Watch, NEW d, NEW n \in Names, LookUp(d, n)
  PROVE  EventsTypeOK'
<1> USE WatchTyped DEF EventsTypeOK, threads, traffic
<1>1. looked' \in [Names -> Names \union {Overflow, NoSlot}] /\ slots' \subseteq Names
  BY SlotTypes DEF LookUp
<1> QED
  BY <1>1 DEF LookUp

LEMMA DispatchStepTyped ==
  ASSUME EventsTypeOK, DispatchInv, Watch, NEW d \in Dispatchers, DispatchStep(d)
  PROVE  EventsTypeOK'
<1> USE WatchTyped, NextIsADispatch DEF EventsTypeOK, registry, threads
<1>0. \A at \in Steps : [dispatch[d] EXCEPT !.at = at] \in Dispatch_
  <2>1. dispatch[d] \in Dispatch_
    OBVIOUS
  <2> QED
    BY <2>1 DEF Dispatch_
<1>a. /\ dispatch[d].at # "Idle" => dispatch[d].event \in Nat
      /\ dispatch[d].at \notin {"Idle", "State"} => Current(d) \in Scripts
  <2>1. DOMAIN name \subseteq Nat
    OBVIOUS
  <2> QED
    BY <2>1, CurrentIsAScript DEF DispatchInv, SoundDispatch
<1>1. CASE AskState(d)
  BY <1>0, <1>1 DEF AskState, To, Steps
<1>2. CASE AskRegistered(d)
  BY <1>0, <1>2 DEF AskRegistered, To, Steps
<1>3. CASE IncrementExpected(d)
  <2>2. remaining' \in Seq(Int) /\ Len(remaining') = Len(remaining)
    <3> DEFINE e == dispatch[d].event
    <3>1. remaining' = [remaining EXCEPT ![e] = @ + 1] /\ remaining \in Seq(Int)
      BY <1>3 DEF IncrementExpected
    <3> HIDE DEF e
    <3> QED
      BY <3>1, Bumped
  <2> QED
    BY <1>0, <1>3, <2>2 DEF IncrementExpected, To, Steps
<1>4. ASSUME Reject(d), UNCHANGED <<registry, threads, queue, running, name>>
      PROVE  EventsTypeOK'
  BY <1>4, VotesTyped DEF Reject
<1>5. CASE LoadIsolate(d)
  <2>1. CASE d = Current(d)
    <3>1. d \in Scripts /\ Append(running[d], dispatch[d].event) \in Seq(Nat)
      BY <1>5, <1>a, <2>1, RangeOfAppend DEF LoadIsolate, At
    <3>2. /\ dispatch' = [dispatch EXCEPT ![d].at = "InPlace"]
          /\ running' = [running EXCEPT ![d] = Append(running[d], dispatch[d].event)]
          /\ UNCHANGED <<registry, threads, queue, name, remaining, promise>>
      BY <1>5, <2>1, <3>1 DEF LoadIsolate, To
    <3> QED
      BY <1>0, <3>1, <3>2 DEF Steps
  <2>2. CASE d # Current(d)
    BY <1>0, <1>5, <1>4, <2>2 DEF LoadIsolate, To, Steps
  <2> QED
    BY <2>1, <2>2
<1>6. CASE AskAlive(d)
  BY <1>0, <1>4, <1>6 DEF AskAlive, To, Steps
<1>7. CASE Post(d)
  <2>1. At(d, "Post") /\ Current(d) \in Scripts /\ dispatch[d].event \in Nat
    BY <1>7, <1>a DEF Post, At
  <2>2. Next_(d) \in Dispatch_
    OBVIOUS
  <2>3. [Next_(d) EXCEPT !.served = @ \union {Current(d)}] \in Dispatch_
    BY <2>1, <2>2 DEF Dispatch_
  <2>4. Append(queue[Current(d)], dispatch[d].event) \in Seq(Nat)
    BY <2>1, RangeOfAppend
  <2> QED
    BY <1>7, <2>3, <2>4 DEF Post
<1>8. CASE EndDispatch(d)
  <2>0. promise \in [1..Len(promise) -> {"Open", "Passed", "Blocked"}]
    OBVIOUS
  <2>1. promise' \in [1..Len(promise) -> {"Open", "Passed", "Blocked"}]
    BY <1>8, <2>0 DEF EndDispatch
  <2>2. promise' \in Seq({"Open", "Passed", "Blocked"}) /\ Len(promise') = Len(promise)
    BY <2>1, SameLength
  <2>3. Idle \in Dispatch_
    BY DEF Idle, Dispatch_, Steps
  <2> QED
    BY <1>8, <2>2, <2>3 DEF EndDispatch
<1> QED
  BY <1>1, <1>2, <1>3, <1>5, <1>6, <1>7, <1>8 DEF DispatchStep

-----------------------------------------------------------------------------
(* A name that gets a slot had nothing counted before. *)
LEMMA SlotsGrow ==
  ASSUME EventsTypeOK, CountInv, NEW n \in Names, Resolve(n)
  PROVE  /\ IsFiniteSet(slots')
         /\ \A h \in Counted : h[2] \in slots' <=> h[2] \in slots
         /\ \A h \in Counted : h[2] \in slots' \/ HasNoSlot(h[2])'
         /\ SlotFor(n) = SlotOf(n)'
         /\ n \in slots' \/ HasNoSlot(n)'
         /\ n \in slots \/ HasNoSlot(n) => slots' = slots
<1>1. /\ IsFiniteSet(slots) /\ Cardinality(slots) \in Nat /\ MaxSlots \in Nat /\ Overflow \notin Names
      /\ IsFiniteSet(slots \union {n})
      /\ Cardinality(slots \union {n}) \in Nat
      /\ n \notin slots => Cardinality(slots \union {n}) = Cardinality(slots) + 1
  BY EventsAssumption, FS_AddElement, FS_CardinalityType DEF CountInv
<1>2. CASE n \in slots \/ HasNoSlot(n)
  <2>1. slots' = slots
    BY <1>1, <1>2 DEF Resolve, SlotFor, HasNoSlot
  <2> QED
    BY <1>1, <1>2, <2>1 DEF CountInv, HasNoSlot, SlotFor, SlotOf
<1>3. CASE n \notin slots /\ ~HasNoSlot(n)
  <2>1. slots' = slots \union {n} /\ SlotFor(n) = n
    BY <1>1, <1>3 DEF Resolve, SlotFor, HasNoSlot
  <2>2. \A h \in Counted : h[2] # n /\ (h[2] \in slots \/ h[2] \in LongNames)
    BY <1>1, <1>3 DEF CountInv, HasNoSlot
  <2> QED
    BY <1>1, <1>3, <2>1, <2>2 DEF HasNoSlot, SlotOf
<1> QED
  BY <1>2, <1>3

(* A step that counts nothing. *)
LEMMA SameCounted ==
  ASSUME CountInv, Counted' = Counted, count' = count, IsFiniteSet(slots'),
         \A h \in Counted : h[2] \in slots' <=> h[2] \in slots,
         \A h \in Counted : h[2] \in slots' \/ HasNoSlot(h[2])',
         handlers' \intersect inHand' = {},
         \A s \in Scripts : change'[s] = "None" => Mine(s, inHand') = {}
  PROVE  CountInv'
<1>1. \A k : {h \in Counted : SlotOf(h[2]) = k} = {h \in Counted' : SlotOf(h[2])' = k}
  BY DEF SlotOf
<1>2. CountIsExact'
  BY <1>1, Zenon DEF CountInv, CountIsExact, Counted
<1> QED
  BY <1>2 DEF CountInv

(* What is counted is one registration more ... *)
LEMMA RegisterCounts ==
  ASSUME EventsTypeOK, CountInv, NEW s \in Scripts, NEW n \in Names, Register(s, n)
  PROVE  CountInv'
<1> DEFINE Slotted(k) == {h \in Counted : SlotOf(h[2]) = k}
<1>1. PICK i \in 1..MaxHandlers : <<s, n, i>> \notin handlers /\ inHand' = inHand \union {<<s, n, i>>}
  BY DEF Register
<1> DEFINE new == <<s, n, i>>
<1>2. new[1] = s /\ new[2] = n
  OBVIOUS
<1>3. /\ handlers' = handlers /\ change' = [change EXCEPT ![s] = "Install"]
      /\ Resolve(n) /\ count' = [count EXCEPT ![SlotFor(n)] = @ + 1]
      /\ change[s] = "None"
  BY DEF Register, InJavaScript
<1>4. new \notin Counted /\ Counted' = Counted \union {new}
  <2>1. new \notin inHand
    BY <1>2, <1>3 DEF CountInv, Mine
  <2> QED
    BY <1>1, <1>3, <2>1 DEF Counted
<1>5. /\ IsFiniteSet(slots') /\ \A h \in Counted : h[2] \in slots' <=> h[2] \in slots
      /\ \A h \in Counted : h[2] \in slots' \/ HasNoSlot(h[2])'
      /\ SlotFor(n) = SlotOf(n)' /\ (n \in slots' \/ HasNoSlot(n)')
  BY <1>3, SlotsGrow
<1>6. IsFiniteSet(Counted) /\ IsFiniteSet(Counted') /\ \A k : IsFiniteSet(Slotted(k))
  <2>1. IsFiniteSet(Counted)
    BY DEF CountInv
  <2> QED
    BY <1>4, <2>1, FS_AddElement, FS_Subset
<1>7. \A k : {h \in Counted' : SlotOf(h[2])' = k} = Slotted(k) \union (IF k = SlotFor(n) THEN {new} ELSE {})
  BY <1>2, <1>4, <1>5 DEF SlotOf
<1>8. ASSUME NEW k \in Names \union {Overflow}
      PROVE  count'[k] = Cardinality({h \in Counted' : SlotOf(h[2])' = k})
  <2>1. count[k] = Cardinality(Slotted(k)) /\ count \in [Names \union {Overflow} -> Int]
    BY DEF CountInv, CountIsExact, Counted
  <2>2. CASE k = SlotFor(n)
    <3>1. Cardinality(Slotted(k) \union {new}) = Cardinality(Slotted(k)) + 1
      <4>1. new \notin Slotted(k) /\ IsFiniteSet(Slotted(k))
        BY <1>4, <1>6
      <4> HIDE DEF new, Slotted
      <4> QED
        BY <4>1, FS_AddElement
    <3> QED
      BY <1>3, <1>7, <2>1, <2>2, <3>1
  <2>3. CASE k # SlotFor(n)
    BY <1>3, <1>7, <2>1, <2>3
  <2> QED
    BY <2>2, <2>3
<1>9. CountIsExact' /\ count' \in [Names \union {Overflow} -> Int]
  <2>1. CountIsExact'
    BY <1>8 DEF CountIsExact, Counted
  <2>2. count' \in [Names \union {Overflow} -> Int]
    BY <1>3, SlotTypes DEF CountInv
  <2> QED
    BY <2>1, <2>2
<1>10. handlers' \intersect inHand' = {}
  BY <1>1, <1>3 DEF CountInv
<1>11. \A t \in Scripts : change'[t] = "None" => Mine(t, inHand') = {}
  <2>1. \A t \in Scripts : t # s => Mine(t, inHand') = Mine(t, inHand)
    BY <1>1, <1>2 DEF Mine
  <2> QED
    BY <1>3, <2>1 DEF CountInv, EventsTypeOK
<1>12. \A h \in Counted' : h[2] \in slots' \/ HasNoSlot(h[2])'
  BY <1>2, <1>4, <1>5
<1> QED
  BY <1>5, <1>6, <1>9, <1>10, <1>11, <1>12 DEF CountInv

(* ... or the same ones ... *)
LEMMA TakeOutCounts ==
  ASSUME EventsTypeOK, CountInv, NEW s \in Scripts, NEW gone \in SUBSET handlers,
         \A h \in gone : h[1] = s, TakeOut(s, gone)
  PROVE  CountInv'
<1>1. Counted' = Counted /\ handlers' \intersect inHand' = {}
  BY DEF TakeOut, Counted, CountInv
<1>2. \A t \in Scripts : change'[t] = "None" => Mine(t, inHand') = {}
  <2>1. \A t \in Scripts : t # s => Mine(t, inHand') = Mine(t, inHand)
    BY DEF TakeOut, Mine
  <2> QED
    BY <2>1 DEF CountInv, TakeOut, EventsTypeOK
<1>3. UNCHANGED <<slots, count>> /\ \A h \in Counted : h[2] \in slots' \/ HasNoSlot(h[2])'
  BY DEF TakeOut, CountInv, HasNoSlot
<1> QED
  BY <1>1, <1>2, <1>3, SameCounted DEF CountInv

LEMMA InstallCounts ==
  ASSUME EventsTypeOK, CountInv, NEW s \in Scripts, Install(s)
  PROVE  CountInv'
<1>1. Counted' = Counted /\ handlers' \intersect inHand' = {}
  BY DEF Install, Counted, CountInv, Mine
<1>2. \A t \in Scripts : change'[t] = "None" => Mine(t, inHand') = {}
  <2>1. \A t \in Scripts : Mine(t, inHand') \subseteq Mine(t, inHand) /\ Mine(s, inHand') = {}
    BY DEF Install, Mine
  <2>2. \A t \in Scripts : t = s \/ change'[t] = change[t]
    BY DEF Install, EventsTypeOK
  <2> QED
    BY <2>1, <2>2 DEF CountInv
<1>3. UNCHANGED <<slots, count>> /\ \A h \in Counted : h[2] \in slots' \/ HasNoSlot(h[2])'
  BY DEF Install, CountInv, HasNoSlot
<1> QED
  BY <1>1, <1>2, <1>3, SameCounted DEF CountInv

(* ... or those of one name fewer. *)
LEMMA CountOffCounts ==
  ASSUME EventsTypeOK, CountInv, NEW s \in Scripts, CountOff(s)
  PROVE  CountInv'
<1>1. CASE Mine(s, inHand) = {} /\ change' = [change EXCEPT ![s] = "None"] /\ UNCHANGED <<slots, count, inHand, handlers>>
  <2>1. \A t \in Scripts : t = s \/ change'[t] = change[t]
    BY <1>1 DEF EventsTypeOK
  <2>2. Counted' = Counted /\ handlers' \intersect inHand' = {}
    BY <1>1 DEF Counted, CountInv
  <2>3. \A t \in Scripts : change'[t] = "None" => Mine(t, inHand') = {}
    BY <1>1, <2>1 DEF CountInv, Mine
  <2>4. \A h \in Counted : h[2] \in slots' \/ HasNoSlot(h[2])'
    BY <1>1 DEF CountInv, HasNoSlot
  <2> QED
    BY <1>1, <2>2, <2>3, <2>4, SameCounted DEF CountInv
<1>2. CASE ~(Mine(s, inHand) = {} /\ change' = [change EXCEPT ![s] = "None"] /\ UNCHANGED <<slots, count, inHand, handlers>>)
  <2> DEFINE Slotted(k) == {h \in Counted : SlotOf(h[2]) = k}
             Gone(n) == {h \in Mine(s, inHand) : h[2] = n}
  <2>1. PICK n \in {h[2] : h \in Mine(s, inHand)} :
          /\ inHand' = inHand \ Gone(n)
          /\ Resolve(n)
          /\ count' = [count EXCEPT ![SlotFor(n)] = @ - Cardinality(Gone(n))]
          /\ UNCHANGED <<change, handlers>>
    BY <1>2 DEF CountOff
  <2> DEFINE gone == Gone(n)
  <2>2. /\ n \in Names /\ gone \subseteq inHand /\ gone \subseteq Counted /\ \A h \in gone : h[2] = n
        /\ (n \in slots \/ HasNoSlot(n))
    BY DEF Mine, Registrations, EventsTypeOK, Counted, CountInv
  <2>3. slots' = slots /\ SlotFor(n) = SlotOf(n)
    BY <2>1, <2>2, SlotsGrow DEF SlotOf
  <2>4. Counted' = Counted \ gone /\ handlers' \intersect inHand' = {}
    BY <2>1, <2>2 DEF Counted, CountInv
  <2>5. \A k : {h \in Counted' : SlotOf(h[2])' = k} = Slotted(k) \ gone
    BY <2>3, <2>4 DEF SlotOf
  <2>6. IsFiniteSet(Counted) /\ IsFiniteSet(Counted') /\ IsFiniteSet(gone) /\ \A k : IsFiniteSet(Slotted(k))
    <3>1. IsFiniteSet(Counted) /\ gone \subseteq Counted /\ Counted' \subseteq Counted
      BY <2>2, <2>4 DEF CountInv
    <3> QED
      BY <3>1, FS_Subset
  <2>7. ASSUME NEW k \in Names \union {Overflow}
        PROVE  count'[k] = Cardinality(Slotted(k) \ gone)
    <3>1. count[k] = Cardinality(Slotted(k)) /\ count \in [Names \union {Overflow} -> Int]
      BY DEF CountInv, CountIsExact, Counted
    <3>2. CASE k = SlotFor(n)
      <4>1. gone \subseteq Slotted(k) /\ Slotted(k) \intersect gone = gone
        BY <2>2, <2>3, <3>2
      <4>2. Cardinality(Slotted(k) \ gone) = Cardinality(Slotted(k)) - Cardinality(Slotted(k) \intersect gone)
        BY <2>6, FS_Difference
      <4> QED
        BY <2>1, <3>1, <3>2, <4>1, <4>2
    <3>3. CASE k # SlotFor(n)
      <4>1. Slotted(k) \ gone = Slotted(k)
        BY <2>2, <2>3, <3>3
      <4> QED
        BY <2>1, <3>1, <3>3, <4>1
    <3> QED
      BY <3>2, <3>3
  <2>8. CountIsExact'
    BY <2>5, <2>7 DEF CountIsExact, Counted
  <2>9. count' \in [Names \union {Overflow} -> Int]
    <3>1. Cardinality(gone) \in Nat
      BY <2>6, FS_CardinalityType
    <3>2. SlotFor(n) \in Names \union {Overflow} /\ count[SlotFor(n)] - Cardinality(gone) \in Int
      BY <2>2, <3>1, SlotTypes DEF CountInv
    <3> QED
      BY <2>1, <3>2 DEF CountInv
  <2>10. \A t \in Scripts : change'[t] = "None" => Mine(t, inHand') = {}
    BY <2>1 DEF CountInv, Mine
  <2>11. \A h \in Counted' : h[2] \in slots' \/ HasNoSlot(h[2])'
    BY <2>3, <2>4 DEF CountInv, HasNoSlot
  <2> QED
    BY <2>3, <2>4, <2>6, <2>8, <2>9, <2>10, <2>11 DEF CountInv
<1> QED
  BY <1>1, <1>2

LEMMA CountInvStep ==
  ASSUME EventsTypeOK, CountInv, [EventsNext]_eventsVars
  PROVE  CountInv'
<1>1. ASSUME UNCHANGED <<slots, count, handlers, inHand, change>>
      PROVE  CountInv'
  BY <1>1 DEF CountInv, CountIsExact, Counted, SlotOf, HasNoSlot, Mine
<1>2. CASE UNCHANGED eventsVars
  BY <1>1, <1>2 DEF eventsVars, registry
<1>3. ASSUME NEW s \in Scripts, RegistryStep(s)
      PROVE  CountInv'
  <2>1. ASSUME NEW n \in Names, Unregister(s, n)
        PROVE  CountInv'
    BY <2>1, TakeOutCounts DEF Unregister, Of
  <2>2. CASE ClearAllEvents(s)
    BY <2>2, TakeOutCounts DEF ClearAllEvents, Mine
  <2> QED
    BY <1>3, <2>1, <2>2, RegisterCounts, InstallCounts, CountOffCounts DEF RegistryStep
<1>4. ASSUME NEW s \in Scripts, LifeStep(s)
      PROVE  CountInv'
  <2>1. CASE ClearFunctions(s)
    BY <2>1, TakeOutCounts DEF ClearFunctions, Mine
  <2> QED
    BY <1>1, <1>4, <2>1 DEF LifeStep, ChangeState, Leave, Exchange, registry
<1>5. ASSUME NEW s \in Scripts, TaskStep(s)
      PROVE  CountInv'
  BY <1>1, <1>5 DEF TaskStep, Execute, Return, DropTask, registry
<1>6. ASSUME NEW d \in Dispatchers, DispatchStep(d)
      PROVE  CountInv'
  BY <1>1, <1>6 DEF DispatchStep, AskState, AskRegistered, IncrementExpected, LoadIsolate, AskAlive, Post, EndDispatch, registry
<1>7. ASSUME NEW d \in Dispatchers, NEW n \in Names, Fire(d, n)
      PROVE  CountInv'
  BY <1>1, <1>7 DEF Fire, registry
<1>8. ASSUME NEW d \in Dispatchers, NEW n \in Names, Broadcast(d, n)
      PROVE  CountInv'
  BY <1>1, <1>8 DEF Broadcast, registry
<1>9. ASSUME NEW d, NEW n \in Names, LookUp(d, n)
      PROVE  CountInv'
  <2>1. Resolve(n) /\ Counted' = Counted /\ UNCHANGED <<count, handlers, inHand, change>>
    BY <1>9 DEF LookUp, Counted
  <2> QED
    BY <2>1, SlotsGrow, SameCounted DEF CountInv
<1> QED
  BY <1>2, <1>3, <1>4, <1>5, <1>6, <1>7, <1>8, <1>9, StepKinds DEF BeginStep

-----------------------------------------------------------------------------
(* What a step does to the dispatch it is not about: nothing. *)
LEMMA SameDispatch ==
  ASSUME NEW d, SoundDispatch(d), dispatch'[d] = dispatch[d], DOMAIN name \subseteq DOMAIN name'
  PROVE  SoundDispatch(d)'
BY DEF SoundDispatch, Current

LEMMA OthersKeepTheirDispatch ==
  ASSUME EventsTypeOK, NEW d \in Dispatchers, BeginStep(d) \/ DispatchStep(d)
  PROVE  \A e \in Dispatchers : e # d => dispatch'[e] = dispatch[e]
<1> USE DEF EventsTypeOK
<1>1. CASE BeginStep(d)
  BY <1>1 DEF BeginStep, Fire, Broadcast, Begin
<1>2. CASE AskState(d) \/ AskRegistered(d) \/ IncrementExpected(d)
  BY <1>2 DEF AskState, AskRegistered, IncrementExpected, To
<1>3. CASE LoadIsolate(d) \/ AskAlive(d)
  BY <1>3 DEF LoadIsolate, AskAlive, Reject, To
<1>4. CASE Post(d) \/ EndDispatch(d)
  BY <1>4 DEF Post, EndDispatch
<1> QED
  BY <1>1, <1>2, <1>3, <1>4 DEF DispatchStep

(* What a step of a dispatch makes of it: it goes on with its script, it   *)
(* passes it over, it has served it, or it ends.                           *)
GoesOn(d) ==
  /\ dispatch[d].left # {}
  /\ \E at \in {"Registered", "Expect", "Isolate", "Alive", "Post", "InPlace"} :
       /\ dispatch'[d] = [dispatch[d] EXCEPT !.at = at]
       /\ at = "InPlace" => Current(d) = d

PassesOver(d) == dispatch[d].left # {} /\ dispatch'[d] = Next_(d)

Serves(d) ==
  /\ dispatch[d].left # {}
  /\ dispatch'[d] = [Next_(d) EXCEPT !.served = @ \union {Current(d)}]

Ends(d) == dispatch[d].left = {} /\ dispatch'[d] = Idle

LEMMA DispatchMoves ==
  ASSUME EventsTypeOK, DispatchInv, NEW d \in Dispatchers, DispatchStep(d)
  PROVE  /\ dispatch[d].at # "Idle"
         /\ UNCHANGED <<registry, threads, name>>
         /\ \/ GoesOn(d)
            \/ /\ PassesOver(d)
               /\ \/ state[Current(d)] # "Running"
                  \/ Of(Current(d), name[dispatch[d].event]) = {}
                  \/ ~HasIsolate(Current(d))
            \/ Serves(d)
            \/ Ends(d)
<1> USE DEF EventsTypeOK, At, To, DispatchInv, SoundDispatch
<1>1. CASE AskState(d)
  BY <1>1 DEF AskState, GoesOn, PassesOver
<1>2. CASE AskRegistered(d)
  BY <1>2 DEF AskRegistered, GoesOn, PassesOver
<1>3. CASE IncrementExpected(d)
  BY <1>3 DEF IncrementExpected, GoesOn
<1>4. CASE LoadIsolate(d)
  BY <1>4 DEF LoadIsolate, Reject, GoesOn, PassesOver
<1>5. CASE AskAlive(d)
  BY <1>5 DEF AskAlive, Reject, GoesOn, PassesOver
<1>6. CASE Post(d)
  BY <1>6 DEF Post, Serves
<1>7. CASE EndDispatch(d)
  BY <1>7 DEF EndDispatch, Ends
<1> QED
  BY <1>1, <1>2, <1>3, <1>4, <1>5, <1>6, <1>7 DEF DispatchStep

LEMMA Moved ==
  ASSUME EventsTypeOK, NEW d \in Dispatchers
  PROVE  /\ GoesOn(d) => /\ dispatch'[d].event = dispatch[d].event /\ dispatch'[d].left = dispatch[d].left
                         /\ dispatch'[d].served = dispatch[d].served /\ Current(d)' = Current(d)
                         /\ dispatch'[d].at \notin {"Idle", "State"} /\ dispatch'[d].left # {}
                         /\ dispatch'[d].at = "InPlace" => Current(d) = d
         /\ PassesOver(d) \/ Serves(d) =>
              /\ dispatch'[d].event = dispatch[d].event /\ dispatch'[d].at = "State"
              /\ dispatch'[d].left = dispatch[d].left \ {Current(d)}
              /\ Current(d) \in dispatch[d].left /\ Current(d) \in Scripts
         /\ PassesOver(d) => dispatch'[d].served = dispatch[d].served
         /\ Serves(d) => dispatch'[d].served = dispatch[d].served \union {Current(d)}
<1>1. dispatch[d] \in Dispatch_
  BY DEF EventsTypeOK
<1>2. Next_(d) \in Dispatch_ /\ Next_(d).at = "State" /\ Next_(d).event = dispatch[d].event
      /\ Next_(d).left = dispatch[d].left \ {Current(d)} /\ Next_(d).served = dispatch[d].served
  BY NextIsADispatch
<1>3. GoesOn(d) => /\ dispatch'[d].event = dispatch[d].event /\ dispatch'[d].left = dispatch[d].left
                   /\ dispatch'[d].served = dispatch[d].served
                   /\ dispatch'[d].at \notin {"Idle", "State"} /\ dispatch'[d].left # {}
                   /\ dispatch'[d].at = "InPlace" => Current(d) = d
  BY <1>1 DEF GoesOn, Dispatch_
<1>4. GoesOn(d) => Current(d)' = Current(d)
  BY <1>3 DEF Current
<1>5. PassesOver(d) \/ Serves(d) => Current(d) \in dispatch[d].left /\ Current(d) \in Scripts
  BY CurrentIsAScript DEF PassesOver, Serves
<1>6. PassesOver(d) => dispatch'[d] = Next_(d)
  BY DEF PassesOver
<1>7. Serves(d) => /\ dispatch'[d].event = dispatch[d].event /\ dispatch'[d].at = "State"
                   /\ dispatch'[d].left = dispatch[d].left \ {Current(d)}
                   /\ dispatch'[d].served = dispatch[d].served \union {Current(d)}
  BY <1>2 DEF Serves, Dispatch_
<1> QED
  BY <1>2, <1>3, <1>4, <1>5, <1>6, <1>7

(* What a return of handlers makes of the script's own dispatch. *)
LEMMA ReturnMoves ==
  ASSUME EventsTypeOK, DispatchInv, NEW s \in Scripts, Return(s)
  PROVE  /\ UNCHANGED <<registry, threads, name>> /\ s \in Dispatchers
         /\ \A e \in Dispatchers : e # s => dispatch'[e] = dispatch[e]
         /\ \/ dispatch' = dispatch
            \/ /\ Current(s) = s /\ dispatch[s].left # {}
               /\ dispatch[s].at = "InPlace" /\ dispatch[s].event = Last(running[s])
               /\ Serves(s)
<1>1. s \in Dispatchers
  BY DEF Dispatchers
<1> QED
  BY <1>1 DEF Return, Serves, EventsTypeOK, DispatchInv, SoundDispatch

(* A dispatch begins with the scripts whose isolate is alive. *)
LEMMA BeginMoves ==
  ASSUME EventsTypeOK, DispatchInv, NEW d \in Dispatchers, BeginStep(d)
  PROVE  /\ dispatch[d] = Idle
         /\ \E n \in Names : name' = Append(name, n) /\ (d \in Scripts => <<d, n>> \in Broadcasts)
         /\ dispatch'[d].at = "State" /\ dispatch'[d].event = Len(name) + 1
         /\ dispatch'[d].served = {} /\ dispatch'[d].left = {s \in Scripts : phase[s] = "Live"}
         /\ UNCHANGED <<threads, handlers, queue, running>>
         /\ remaining' = Append(remaining, 0) /\ promise' = Append(promise, "Open")
<1>1. ASSUME NEW n \in Names, Begin(d, n)
      PROVE  /\ dispatch[d] = Idle /\ name' = Append(name, n)
             /\ dispatch'[d].at = "State" /\ dispatch'[d].event = Len(name) + 1
             /\ dispatch'[d].served = {} /\ dispatch'[d].left = {s \in Scripts : phase[s] = "Live"}
             /\ UNCHANGED <<queue, running>>
             /\ remaining' = Append(remaining, 0) /\ promise' = Append(promise, "Open")
  BY <1>1 DEF Begin, EventsTypeOK, DispatchInv, SoundDispatch
<1>2. d \in Hooks => d \notin Scripts
  BY EventsAssumption
<1> QED
  BY <1>1, <1>2 DEF BeginStep, Fire, Broadcast, threads, registry

(* Every dispatch stays sound. *)
LEMMA DispatchInvStep ==
  ASSUME EventsTypeOK, DispatchInv, [EventsNext]_eventsVars
  PROVE  DispatchInv'
<1> SUFFICES ASSUME NEW e \in Dispatchers
             PROVE  SoundDispatch(e)'
  BY DEF DispatchInv
<1>0. SoundDispatch(e) /\ dispatch[e] \in Dispatch_ /\ DOMAIN name = 1..Len(name) /\ Len(name) \in Nat
  BY DEF DispatchInv, EventsTypeOK
<1>1. CASE UNCHANGED traffic
  BY <1>0, <1>1, SameDispatch DEF traffic
<1>2. CASE UNCHANGED eventsVars
  BY <1>1, <1>2 DEF eventsVars
<1>3. ASSUME NEW s \in Scripts, RegistryStep(s) \/ LifeStep(s)
      PROVE  SoundDispatch(e)'
  BY <1>1, <1>3 DEF RegistryStep, Register, Unregister, ClearAllEvents, Install, CountOff,
                    LifeStep, ChangeState, Leave, Exchange, ClearFunctions
<1>4. ASSUME NEW s \in Scripts, TaskStep(s)
      PROVE  SoundDispatch(e)'
  <2>1. CASE Execute(s) \/ DropTask(s)
    BY <1>0, <2>1, SameDispatch DEF Execute, DropTask
  <2>2. CASE Return(s) /\ dispatch'[e] = dispatch[e]
    BY <1>0, <2>2, SameDispatch DEF Return
  <2>3. CASE Return(s) /\ dispatch'[e] # dispatch[e]
    <3>1. e = s /\ Serves(e) /\ dispatch[e].at = "InPlace" /\ name' = name
      BY <2>3, ReturnMoves
    <3>2. dispatch'[e].at = "State" /\ dispatch'[e].event = dispatch[e].event
      BY <3>1, Moved
    <3> QED
      BY <1>0, <3>1, <3>2 DEF SoundDispatch
  <2> QED
    BY <1>4, <2>1, <2>2, <2>3 DEF TaskStep
<1>5. ASSUME NEW d \in Dispatchers, BeginStep(d)
      PROVE  SoundDispatch(e)'
  <2>1. DOMAIN name \subseteq DOMAIN name' /\ Len(name) + 1 \in DOMAIN name'
    <3>1. PICK n \in Names : name' = Append(name, n)
      BY <1>5, BeginMoves
    <3> QED
      BY <3>1 DEF EventsTypeOK
  <2>2. CASE e # d
    BY <1>0, <1>5, <2>1, <2>2, OthersKeepTheirDispatch, SameDispatch
  <2>3. CASE e = d
    <3>1. dispatch'[e].at = "State" /\ dispatch'[e].event = Len(name) + 1
      BY <1>5, <2>3, BeginMoves
    <3> QED
      BY <2>1, <3>1 DEF SoundDispatch
  <2> QED
    BY <2>2, <2>3
<1>6. ASSUME NEW d \in Dispatchers, DispatchStep(d)
      PROVE  SoundDispatch(e)'
  <2>1. UNCHANGED name
    BY <1>6, DispatchMoves
  <2>2. CASE e # d
    BY <1>0, <1>6, <2>1, <2>2, OthersKeepTheirDispatch, SameDispatch
  <2>3. CASE e = d /\ Ends(d)
    BY <2>3 DEF Ends, Idle, SoundDispatch
  <2>4. CASE e = d /\ GoesOn(d)
    <3>1. /\ dispatch'[e].event \in DOMAIN name'
          /\ dispatch'[e].at # "Idle" /\ dispatch'[e].left # {} /\ Current(e)' = Current(e)
          /\ dispatch'[e].at = "InPlace" => Current(e) = e /\ e \in Scripts
      BY <1>0, <1>6, <2>1, <2>4, Moved, DispatchMoves, CurrentIsAScript DEF SoundDispatch, GoesOn
    <3> QED
      BY <3>1 DEF SoundDispatch
  <2>5. CASE e = d /\ (PassesOver(d) \/ Serves(d))
    <3>1. dispatch'[e].at = "State" /\ dispatch'[e].event \in DOMAIN name'
      BY <1>0, <1>6, <2>1, <2>5, Moved, DispatchMoves DEF SoundDispatch
    <3> QED
      BY <3>1 DEF SoundDispatch
  <2> QED
    BY <1>6, <2>2, <2>3, <2>4, <2>5, DispatchMoves
<1>7. ASSUME NEW d, NEW n, LookUp(d, n)
      PROVE  SoundDispatch(e)'
  BY <1>1, <1>7 DEF LookUp
<1> QED
  BY <1>2, <1>3, <1>4, <1>5, <1>6, <1>7, StepKinds

(* Watch keeps of those that are due the ones that still listen. *)
LEMMA WatchKeepsListeners ==
  ASSUME EventsTypeOK, Watch, NEW d \in Dispatchers
  PROVE  /\ dispatch'[d].event = Free => due'[d] = {}
         /\ \A s \in due'[d] : s \in Scripts /\ Listens(s, name[dispatch[d].event])'
         /\ dispatch[d].event # Free => due'[d] \subseteq due[d]
<1>1. due'[d] =
        LET e == dispatch'[d].event IN
        IF e = Free THEN {}
        ELSE {s \in (IF dispatch[d].event = Free THEN Scripts ELSE due[d]) :
               /\ phase'[s] = "Live" /\ state'[s] = "Running"
               /\ \E h \in handlers' : h[1] = s /\ h[2] = name'[e]}
  BY DEF Watch
<1>2. due[d] \subseteq Scripts
  BY DEF EventsTypeOK
<1> QED
  BY <1>1, <1>2 DEF Listens

(* A script that is passed over is not due: it does not run, or not        *)
(* listen.                                                                 *)
LEMMA ServedInvStep ==
  ASSUME EventsTypeOK, DispatchInv, ServedInv, [EventsNext]_eventsVars
  PROVE  ServedInv'
<1>1. CASE UNCHANGED eventsVars
  BY <1>1 DEF eventsVars, registry, threads, traffic, ServedInv, DueInv, EveryListenerServed, Listens
<1>2. CASE EventsNext
  <2>1. Watch
    BY <1>2, StepKinds
  <2>2. DueInv'
    BY <2>1, WatchKeepsListeners DEF DueInv
  <2>3. ASSUME NEW e \in Dispatchers
        PROVE  (due[e] \ dispatch[e].left \subseteq dispatch[e].served)'
    <3>0. due[e] \ dispatch[e].left \subseteq dispatch[e].served
      BY DEF ServedInv, EveryListenerServed
    <3>1. /\ dispatch'[e].event = Free => due'[e] = {}
          /\ \A s \in due'[e] : s \in Scripts /\ Listens(s, name[dispatch[e].event])'
          /\ dispatch[e].event # Free => due'[e] \subseteq due[e]
      BY <2>1, WatchKeepsListeners
    <3>2. CASE dispatch'[e] = dispatch[e]
      BY <3>0, <3>1, <3>2
    <3>3. CASE Serves(e)
      BY <3>0, <3>1, <3>3, Moved
    <3>4. CASE Ends(e)
      BY <3>1, <3>4 DEF Ends, Idle
    <3>5. CASE GoesOn(e)
      BY <3>0, <3>1, <3>5, Moved
    <3>6. CASE /\ PassesOver(e) /\ UNCHANGED <<registry, threads, name>>
               /\ \/ state[Current(e)] # "Running"
                  \/ Of(Current(e), name[dispatch[e].event]) = {}
                  \/ ~HasIsolate(Current(e))
      <4>1. /\ dispatch'[e].event = dispatch[e].event /\ dispatch'[e].served = dispatch[e].served
            /\ dispatch'[e].left = dispatch[e].left \ {Current(e)} /\ Current(e) \in Scripts
        BY <3>6, Moved
      <4>2. Current(e) \notin due'[e]
        BY <3>1, <3>6, <4>1 DEF Listens, HasIsolate, Of, registry, threads
      <4> QED
        BY <3>0, <3>1, <4>1, <4>2
    <3>7. CASE BeginStep(e)
      <4>1. dispatch'[e].left = {s \in Scripts : phase[s] = "Live"} /\ UNCHANGED threads
        BY <3>7, BeginMoves
      <4> QED
        BY <3>1, <4>1 DEF Listens, threads
    <3>8. ASSUME NEW s \in Scripts, RegistryStep(s) \/ LifeStep(s) \/ TaskStep(s)
          PROVE  dispatch'[e] = dispatch[e] \/ Serves(e)
      <4>1. CASE Return(s)
        BY <4>1, ReturnMoves
      <4> QED
        BY <3>8, <4>1 DEF RegistryStep, Register, Unregister, ClearAllEvents, Install, CountOff, LifeStep, ChangeState,
                          Leave, Exchange, ClearFunctions, TaskStep, Execute, DropTask, traffic
    <3>9. ASSUME NEW d \in Dispatchers, BeginStep(d) \/ DispatchStep(d), d # e
          PROVE  dispatch'[e] = dispatch[e]
      BY <3>9, OthersKeepTheirDispatch
    <3>10. ASSUME NEW d, NEW n, LookUp(d, n)
           PROVE  dispatch'[e] = dispatch[e]
      BY <3>10 DEF LookUp, traffic
    <3> QED
      BY <1>2, <3>2, <3>3, <3>4, <3>5, <3>6, <3>7, <3>8, <3>9, <3>10, StepKinds, DispatchMoves
  <2> QED
    BY <2>2, <2>3 DEF ServedInv, EveryListenerServed
<1> QED
  BY <1>1, <1>2

-----------------------------------------------------------------------------
LEMMA EventTypes ==
  ASSUME EventsTypeOK, DispatchInv, OnceInv
  PROVE  /\ DOMAIN name \subseteq Nat /\ DOMAIN name = 1..Len(name) /\ Len(name) \in Nat
         /\ \A d \in Dispatchers : dispatch[d].event = Free \/ dispatch[d].event \in DOMAIN name
         /\ \A d \in Dispatchers : dispatch[d].left \subseteq Scripts
         /\ \A s \in Scripts : queue[s] \in Seq(Nat) /\ running[s] \in Seq(Nat)
         /\ Free \notin Nat
<1>1. DOMAIN name \subseteq Nat /\ DOMAIN name = 1..Len(name) /\ Len(name) \in Nat
  BY DEF EventsTypeOK
<1>2. \A d \in Dispatchers : dispatch[d].event = Free \/ dispatch[d].event \in DOMAIN name
  BY DEF DispatchInv, SoundDispatch, Idle
<1> QED
  BY <1>1, <1>2, EventsAssumption DEF EventsTypeOK, Dispatch_

(* The tasks of one script shrink, or an event that no dispatch has for it *)
(* moves from one place to the other.                                      *)
LEMMA TasksMove ==
  ASSUME EventsTypeOK, DispatchInv, OnceInv, NEW s \in Scripts,
         UNCHANGED <<dispatch, name>>,
         \A t \in Scripts : t # s => queue'[t] = queue[t] /\ running'[t] = running[t],
         Range(queue'[s]) \subseteq Range(queue[s]),
         Range(running'[s]) \subseteq Range(running[s]) \union (Range(queue[s]) \ Range(queue'[s])),
         IsInjective(queue'[s]), IsInjective(running'[s])
  PROVE  OnceInv'
<1>1. \A t \in Scripts : Distinct(t)'
  BY DEF OnceInv, Distinct
<1>2. \A d \in Dispatchers : \A t \in dispatch[d].left : t \in Scripts
  BY EventTypes
<1>3. \A d \in Dispatchers : NotYet(d)'
  <2> SUFFICES ASSUME NEW d \in Dispatchers, NEW t \in dispatch[d].left
               PROVE  /\ dispatch[d].event \notin Range(queue'[t])
                      /\ dispatch[d].event \in Range(running'[t]) => dispatch[d].at = "InPlace" /\ t = d
    BY DEF NotYet
  <2>1. /\ dispatch[d].event \notin Range(queue[t])
        /\ dispatch[d].event \in Range(running[t]) => dispatch[d].at = "InPlace" /\ t = d
    BY DEF OnceInv, NotYet
  <2> QED
    BY <1>2, <2>1
<1> QED
  BY <1>1, <1>3 DEF OnceInv, Blockable

LEMMA TaskStepOnce ==
  ASSUME EventsTypeOK, DispatchInv, OnceInv, NEW s \in Scripts, TaskStep(s)
  PROVE  OnceInv'
<1>0. queue[s] \in Seq(Nat) /\ running[s] \in Seq(Nat) /\ Distinct(s)
  BY EventTypes DEF OnceInv
<1>1. CASE Execute(s)
  <2>1. /\ queue[s] # <<>> /\ queue'[s] = Tail(queue[s]) /\ running'[s] = Append(running[s], Head(queue[s]))
        /\ \A t \in Scripts : t # s => queue'[t] = queue[t] /\ running'[t] = running[t]
        /\ UNCHANGED <<dispatch, name>>
    BY <1>1 DEF Execute, EventsTypeOK
  <2>2. /\ Head(queue[s]) \in Nat /\ Range(queue[s]) = {Head(queue[s])} \union Range(Tail(queue[s]))
        /\ IsInjective(Tail(queue[s])) /\ Head(queue[s]) \notin Range(Tail(queue[s]))
    BY <1>0, <2>1, RangeOfTail DEF Distinct
  <2>3. /\ Range(running'[s]) = Range(running[s]) \union {Head(queue[s])}
        /\ IsInjective(running'[s])
    BY <1>0, <2>1, <2>2, RangeOfAppend DEF Distinct
  <2> QED
    BY <2>1, <2>2, <2>3, TasksMove
<1>2. CASE DropTask(s)
  <2>1. /\ queue[s] # <<>> /\ queue'[s] = Tail(queue[s]) /\ UNCHANGED <<running, dispatch, name>>
        /\ \A t \in Scripts : t # s => queue'[t] = queue[t]
    BY <1>2 DEF DropTask, EventsTypeOK
  <2>2. Range(queue'[s]) \subseteq Range(queue[s]) /\ IsInjective(queue'[s])
    BY <1>0, <2>1, RangeOfTail DEF Distinct
  <2> QED
    BY <1>0, <2>1, <2>2, TasksMove DEF Distinct
<1>3. CASE Return(s)
  <2>1. /\ running[s] # <<>> /\ running'[s] = Front(running[s]) /\ UNCHANGED <<queue, name>>
        /\ \A t \in Scripts : t # s => running'[t] = running[t]
    BY <1>3 DEF Return, EventsTypeOK
  <2>2. Range(running'[s]) \subseteq Range(running[s]) /\ IsInjective(running'[s])
    BY <1>0, <2>1, RangeOfFront DEF Distinct
  <2>3. CASE dispatch' = dispatch
    BY <1>0, <2>1, <2>2, <2>3, TasksMove DEF Distinct
  <2>4. CASE Current(s) = s /\ Serves(s)
    <3>1. /\ s \in Dispatchers /\ dispatch'[s].event = dispatch[s].event
          /\ dispatch'[s].left = dispatch[s].left \ {s}
          /\ \A e \in Dispatchers : e # s => dispatch'[e] = dispatch[e]
      BY <1>3, <2>4, ReturnMoves, Moved
    <3>2. \A t \in Scripts : Distinct(t)'
      BY <2>1, <2>2 DEF OnceInv, Distinct
    <3>3. \A t \in Scripts : Range(running'[t]) \subseteq Range(running[t])
      BY <2>1, <2>2
    <3>4. \A d \in Dispatchers : dispatch'[d].event = dispatch[d].event
      BY <3>1
    <3>5. \A d \in Dispatchers : NotYet(d)'
      <4> SUFFICES ASSUME NEW d \in Dispatchers, NEW t \in dispatch'[d].left
                   PROVE  /\ dispatch[d].event \notin Range(queue[t])
                          /\ dispatch[d].event \in Range(running'[t]) => dispatch'[d].at = "InPlace" /\ t = d
        BY <2>1, <3>4 DEF NotYet
      <4>1. t \in dispatch[d].left /\ t \in Scripts
        BY <3>1, EventTypes
      <4>2. /\ dispatch[d].event \notin Range(queue[t])
            /\ dispatch[d].event \in Range(running[t]) => dispatch[d].at = "InPlace" /\ t = d
        BY <4>1 DEF OnceInv, NotYet
      <4> QED
        BY <3>1, <3>3, <4>1, <4>2
    <3> QED
      BY <2>1, <3>1, <3>2, <3>4, <3>5 DEF OnceInv, Blockable, Dispatchers
  <2> QED
    BY <1>3, <2>3, <2>4, ReturnMoves
<1> QED
  BY <1>1, <1>2, <1>3 DEF TaskStep

(* A dispatch that delivers nothing: it may drop scripts, and end. *)
LEMMA NothingDelivered ==
  ASSUME EventsTypeOK, DispatchInv, OnceInv, NEW d \in Dispatchers,
         dispatch[d].at # "InPlace",
         UNCHANGED <<queue, running, name>>,
         \A x \in Dispatchers : x # d => dispatch'[x] = dispatch[x],
         \/ dispatch'[d].event = dispatch[d].event /\ dispatch'[d].left \subseteq dispatch[d].left
         \/ dispatch'[d] = Idle
  PROVE  OnceInv'
<1>1. \A s \in Scripts : Distinct(s)'
  BY DEF OnceInv, Distinct
<1>2. \A x \in Dispatchers : dispatch'[x].event = Free \/ dispatch'[x].event = dispatch[x].event
  BY DEF Idle
<1>3. \A x, y \in Dispatchers : x # y /\ dispatch'[x].event # Free => dispatch'[x].event # dispatch'[y].event
  BY <1>2 DEF OnceInv
<1>4. \A x \in Dispatchers : NotYet(x)'
  BY DEF OnceInv, NotYet, Idle
<1>5. \A x \in Scripts : dispatch'[x].event # Free => ~Blockable(dispatch[x].event)'
  BY <1>2 DEF OnceInv, Blockable, Dispatchers
<1> QED
  BY <1>1, <1>3, <1>4, <1>5 DEF OnceInv

(* A task is posted, or run in place, once. *)
LEMMA DispatchStepOnce ==
  ASSUME EventsTypeOK, DispatchInv, OnceInv, NEW d \in Dispatchers, DispatchStep(d)
  PROVE  OnceInv'
<1> DEFINE e == dispatch[d].event
<1>0. PICK c : c = Current(d)
  OBVIOUS
<1>1. /\ dispatch[d].at \notin {"InPlace", "Idle"}
      /\ name' = name /\ e \in DOMAIN name /\ e \in Nat /\ e # Free
      /\ \A x \in Dispatchers : x # d => dispatch'[x] = dispatch[x]
  BY OthersKeepTheirDispatch, DispatchMoves, EventTypes
     DEF DispatchStep, AskState, AskRegistered, IncrementExpected, LoadIsolate, AskAlive, Post, EndDispatch, At,
         DispatchInv, SoundDispatch
<1>2. \A s \in dispatch[d].left : s \in Scripts /\ e \notin Range(queue[s]) /\ e \notin Range(running[s])
  BY <1>1, EventTypes DEF OnceInv, NotYet
<1>3. CASE UNCHANGED <<queue, running>>
  <2>1. \/ dispatch'[d].event = e /\ dispatch'[d].left \subseteq dispatch[d].left
        \/ dispatch'[d] = Idle
    BY DispatchMoves, Moved DEF Ends
  <2> QED
    BY <1>1, <1>3, <2>1, NothingDelivered
<1>4. ASSUME c \in Scripts, c \in dispatch[d].left,
             \A s \in Scripts : s # c => queue'[s] = queue[s] /\ running'[s] = running[s],
             \/ /\ queue'[c] = Append(queue[c], e) /\ running'[c] = running[c]
                /\ dispatch'[d].left = dispatch[d].left \ {c}
             \/ /\ running'[c] = Append(running[c], e) /\ queue'[c] = queue[c]
                /\ c = d /\ dispatch'[d].at = "InPlace" /\ dispatch'[d].left = dispatch[d].left,
             dispatch'[d].event = e
      PROVE  OnceInv'
  <2>1. /\ queue[c] \in Seq(Nat) /\ running[c] \in Seq(Nat) /\ Distinct(c)
        /\ e \notin Range(queue[c]) /\ e \notin Range(running[c])
    BY <1>2, <1>4, EventTypes DEF OnceInv
  <2>2. /\ Range(Append(queue[c], e)) = Range(queue[c]) \union {e} /\ IsInjective(Append(queue[c], e))
        /\ Range(Append(running[c], e)) = Range(running[c]) \union {e} /\ IsInjective(Append(running[c], e))
    BY <1>1, <2>1, RangeOfAppend DEF Distinct
  <2>3. Distinct(c)'
    BY <1>1, <1>4, <2>1, <2>2 DEF Distinct
  <2>4. \A s \in Scripts : Distinct(s)'
    BY <1>1, <1>4, <2>3 DEF OnceInv, Distinct
  <2>5. \A x \in Dispatchers : dispatch'[x].event = dispatch[x].event
    BY <1>1, <1>4
  <2>6. \A s \in Scripts : /\ Range(queue'[s]) \subseteq Range(queue[s]) \union {e}
                           /\ Range(running'[s]) \subseteq Range(running[s]) \union {e}
    BY <1>4, <2>2
  <2>7. \A x \in Dispatchers : x # d => NotYet(x)'
    <3> SUFFICES ASSUME NEW x \in Dispatchers, x # d, NEW s \in dispatch[x].left
                 PROVE  /\ dispatch[x].event \notin Range(queue'[s])
                        /\ dispatch[x].event \in Range(running'[s]) => dispatch[x].at = "InPlace" /\ s = x
      BY <1>1 DEF NotYet
    <3>1. s \in Scripts /\ dispatch[x].event # e
      BY <1>1, EventTypes DEF OnceInv
    <3>2. /\ dispatch[x].event \notin Range(queue[s])
          /\ dispatch[x].event \in Range(running[s]) => dispatch[x].at = "InPlace" /\ s = x
      BY DEF OnceInv, NotYet
    <3> QED
      BY <2>6, <3>1, <3>2
  <2>8. NotYet(d)'
    <3>1. CASE dispatch'[d].left = dispatch[d].left \ {c}
      BY <1>2, <1>4, <3>1 DEF NotYet
    <3>2. CASE queue'[c] = queue[c] /\ c = d /\ dispatch'[d].at = "InPlace" /\ dispatch'[d].left = dispatch[d].left
      BY <1>2, <1>4, <3>2 DEF NotYet
    <3> QED
      BY <1>4, <3>1, <3>2
  <2>9. \A x, y \in Dispatchers : x # y /\ dispatch'[x].event # Free => dispatch'[x].event # dispatch'[y].event
    BY <2>5 DEF OnceInv
  <2>10. \A x \in Scripts : dispatch'[x].event # Free => ~Blockable(dispatch[x].event)'
    BY <1>1, <2>5 DEF OnceInv, Blockable, Dispatchers
  <2> QED
    BY <2>4, <2>7, <2>8, <2>9, <2>10 DEF OnceInv
<1>5. CASE LoadIsolate(d) /\ ~UNCHANGED <<queue, running>>
  <2>1. /\ c = d /\ running' = [running EXCEPT ![c] = Append(@, e)] /\ queue' = queue
        /\ dispatch[d].at = "Isolate" /\ dispatch' = [dispatch EXCEPT ![d].at = "InPlace"]
    BY <1>0, <1>5 DEF LoadIsolate, To, At
  <2>2. dispatch[d].left # {} /\ c \in dispatch[d].left /\ c \in Scripts
    BY <1>0, <2>1, CurrentIsAScript DEF DispatchInv, SoundDispatch
  <2>3. /\ dispatch'[d].at = "InPlace" /\ dispatch'[d].left = dispatch[d].left /\ dispatch'[d].event = e
        /\ running'[c] = Append(running[c], e) /\ \A s \in Scripts : s # c => running'[s] = running[s]
    BY <2>1, <2>2 DEF EventsTypeOK, Dispatch_
  <2> QED
    BY <1>4, <2>1, <2>2, <2>3
<1>6. CASE Post(d)
  <2>1. dispatch[d].left # {} /\ c \in dispatch[d].left /\ c \in Scripts
    BY <1>0, <1>6, CurrentIsAScript DEF Post, At, DispatchInv, SoundDispatch
  <2>2. Serves(d) /\ running' = running
    BY <1>0, <1>6, <2>1 DEF Post, Serves, EventsTypeOK
  <2>3. dispatch'[d].left = dispatch[d].left \ {c} /\ dispatch'[d].event = e
    BY <1>0, <2>2, Moved
  <2>4. queue'[c] = Append(queue[c], e) /\ \A s \in Scripts : s # c => queue'[s] = queue[s]
    BY <1>0, <1>6, <2>1 DEF Post, EventsTypeOK
  <2> QED
    BY <1>4, <2>1, <2>2, <2>3, <2>4
<1> QED
  BY <1>3, <1>5, <1>6 DEF DispatchStep, AskState, AskRegistered, IncrementExpected, AskAlive, EndDispatch

(* A new event is among nobody's tasks. *)
LEMMA BeginOnce ==
  ASSUME EventsTypeOK, DispatchInv, OnceInv, NEW d \in Dispatchers, BeginStep(d)
  PROVE  OnceInv'
<1> DEFINE new == Len(name) + 1
<1>1. PICK n \in Names : name' = Append(name, n) /\ (d \in Scripts => <<d, n>> \in Broadcasts)
  BY BeginMoves
<1>2. /\ name' \in Seq(Names) /\ new \in DOMAIN name' /\ name'[new] = n /\ DOMAIN name \subseteq DOMAIN name'
      /\ \A e \in DOMAIN name : name'[e] = name[e]
      /\ new \notin DOMAIN name /\ new \in Nat
  BY <1>1 DEF EventsTypeOK
<1>3. /\ dispatch'[d].event = new /\ UNCHANGED <<queue, running>>
      /\ \A x \in Dispatchers : x # d => dispatch'[x] = dispatch[x]
      /\ dispatch'[d].left \subseteq Scripts
  BY BeginMoves, OthersKeepTheirDispatch
<1>4. \A s \in Scripts : Distinct(s)'
  BY <1>2, <1>3 DEF OnceInv, Distinct
<1>5. \A x \in Dispatchers : dispatch[x].event # new
  BY <1>2, EventTypes
<1>6. \A x, y \in Dispatchers : x # y /\ dispatch'[x].event # Free => dispatch'[x].event # dispatch'[y].event
  BY <1>3, <1>5 DEF OnceInv
<1>7. \A x \in Dispatchers : NotYet(x)'
  <2>1. \A s \in Scripts : new \notin Range(queue[s]) /\ new \notin Range(running[s])
    BY <1>2 DEF OnceInv, Distinct
  <2> QED
    BY <1>3, <2>1 DEF OnceInv, NotYet
<1>8. \A x \in Scripts : dispatch'[x].event # Free => ~Blockable(dispatch[x].event)'
  <2>1. d \in Scripts => n \notin Blockers
    BY <1>1, EventsAssumption
  <2> QED
    BY <1>2, <1>3, <2>1, EventTypes DEF OnceInv, Blockable, Dispatchers
<1> QED
  BY <1>4, <1>6, <1>7, <1>8 DEF OnceInv

LEMMA OnceInvStep ==
  ASSUME EventsTypeOK, DispatchInv, OnceInv, [EventsNext]_eventsVars
  PROVE  OnceInv'
<1>1. CASE UNCHANGED traffic
  BY <1>1 DEF traffic, OnceInv, Distinct, NotYet, Blockable
<1>2. CASE UNCHANGED eventsVars
  BY <1>1, <1>2 DEF eventsVars
<1>3. ASSUME NEW s \in Scripts, RegistryStep(s) \/ LifeStep(s)
      PROVE  UNCHANGED traffic
  BY <1>3 DEF RegistryStep, Register, Unregister, ClearAllEvents, Install, CountOff,
              LifeStep, ChangeState, Leave, Exchange, ClearFunctions
<1>4. ASSUME NEW d, NEW n, LookUp(d, n)
      PROVE  UNCHANGED traffic
  BY <1>4 DEF LookUp
<1> QED
  BY <1>1, <1>2, <1>3, <1>4, TaskStepOnce, BeginOnce, DispatchStepOnce, StepKinds

-----------------------------------------------------------------------------
LEMMA OwingIsFinite ==
  ASSUME NEW e
  PROVE  IsFiniteSet(Owing(e)) /\ Cardinality(Owing(e)) \in Nat /\ (Cardinality(Owing(e)) = 0 <=> Owing(e) = {})
<1>1. Owing(e) \subseteq Scripts
  BY DEF Owing
<1> QED
  BY <1>1, ScriptsAreFinite, FS_Subset, FS_CardinalityType, FS_EmptySet

(* An event that a step is not about owes what it owed. *)
LEMMA OwesAsBefore ==
  ASSUME NEW e,
         \A s \in Scripts : /\ e \in Range(queue'[s]) <=> e \in Range(queue[s])
                            /\ e \in Range(running'[s]) <=> e \in Range(running[s]),
         \A d \in Dispatchers : /\ dispatch'[d].event = e <=> dispatch[d].event = e
                                /\ dispatch[d].event = e => dispatch'[d] = dispatch[d]
  PROVE  Owing(e)' = Owing(e)
BY DEF Owing, Current

(* The vote of an event that a step does not settle. *)
LEMMA VoteKept ==
  ASSUME EventsTypeOK, NEW e \in DOMAIN name, Vote(e),
         name'[e] = name[e], Owing(e)' = Owing(e), remaining'[e] = remaining[e], promise'[e] = promise[e],
         \A d \in Dispatchers : dispatch[d].event = e => dispatch'[d].event = e
  PROVE  Vote(e)'
BY DEF Vote, Blockable

(* A vote that comes in is one of its event. *)
LEMMA SettlesOne ==
  ASSUME EventsTypeOK, NEW x \in DOMAIN name, NEW blocks \in BOOLEAN, Settle(x, blocks)
  PROVE  /\ \A e \in DOMAIN name : e # x => remaining'[e] = remaining[e] /\ promise'[e] = promise[e]
         /\ Blockable(x) => /\ remaining'[x] = remaining[x] - 1
                            /\ remaining[x] = 1 => promise'[x] # "Open"
<1>1. DOMAIN name = 1..Len(name) /\ DOMAIN remaining = DOMAIN name /\ DOMAIN promise = DOMAIN name
  BY DEF EventsTypeOK
<1> QED
  BY <1>1 DEF Settle

(* The vote that is settled is that of one script that owed it. *)
LEMMA VoteSettled ==
  ASSUME EventsTypeOK, NEW x \in DOMAIN name, NEW blocks \in BOOLEAN, Settle(x, blocks), Vote(x), name' = name,
         NEW s \in Owing(x), Owing(x)' = Owing(x) \ {s}
  PROVE  Vote(x)'
<1>1. CASE ~Blockable(x)
  BY <1>1 DEF Vote, Blockable
<1>2. CASE Blockable(x)
  <2>1. /\ remaining'[x] = remaining[x] - 1
        /\ remaining[x] = 1 => promise'[x] # "Open"
    BY <1>2, SettlesOne
  <2>2. Cardinality(Owing(x) \ {s}) = Cardinality(Owing(x)) - 1 /\ Cardinality(Owing(x)) \in Nat
    BY OwingIsFinite, FS_RemoveElement
  <2>3. remaining[x] = Cardinality(Owing(x))
    BY <1>2 DEF Vote
  <2> QED
    BY <2>1, <2>2, <2>3 DEF Vote
<1> QED
  BY <1>1, <1>2

(* A task that has ended, or was dropped, is none of any dispatch. *)
LEMMA TaskStepVotes ==
  ASSUME EventsTypeOK, DispatchInv, OnceInv, VoteInv, NEW s \in Scripts, TaskStep(s)
  PROVE  VoteInv'
<1> DEFINE At_(d) == dispatch[d].at \in {"Isolate", "Alive", "Post"}
<1>0. queue[s] \in Seq(Nat) /\ running[s] \in Seq(Nat) /\ Distinct(s) /\ name' = name
  BY EventTypes DEF OnceInv, TaskStep, Execute, Return, DropTask
<1>t. \A d \in Dispatchers : At_(d) => Current(d) \in dispatch[d].left
  BY CurrentIsAScript DEF DispatchInv, SoundDispatch
<1>v. \A e \in DOMAIN name : Vote(e)
  BY DEF VoteInv, Vote
<1>w. (\A e \in DOMAIN name : Vote(e)') => VoteInv'
  BY <1>0 DEF VoteInv, Vote
<1>1. CASE Execute(s)
  <2>1. /\ queue[s] # <<>> /\ queue'[s] = Tail(queue[s]) /\ running'[s] = Append(running[s], Head(queue[s]))
        /\ \A t \in Scripts : t # s => queue'[t] = queue[t] /\ running'[t] = running[t]
        /\ UNCHANGED <<dispatch, remaining, promise>>
    BY <1>1 DEF Execute, EventsTypeOK
  <2>2. /\ Head(queue[s]) \in Nat /\ Range(queue[s]) = {Head(queue[s])} \union Range(queue'[s])
        /\ Range(running'[s]) = Range(running[s]) \union {Head(queue[s])}
    BY <1>0, <2>1, RangeOfTail, RangeOfAppend
  <2>3. ASSUME NEW e \in DOMAIN name
        PROVE  Owing(e)' = Owing(e)
    <3>1. \A t \in Scripts : e \in Range(queue'[t]) \/ e \in Range(running'[t]) <=> e \in Range(queue[t]) \/ e \in Range(running[t])
      BY <2>1, <2>2
    <3> QED
      BY <2>1, <3>1 DEF Owing, Current
  <2> QED
    BY <1>0, <1>v, <1>w, <2>1, <2>3, VoteKept
<1>2. CASE DropTask(s)
  <2>1. PICK x : x = Head(queue[s])
    OBVIOUS
  <2>2. /\ queue[s] # <<>> /\ queue'[s] = Tail(queue[s]) /\ Settle(x, FALSE)
        /\ \A t \in Scripts : t # s => queue'[t] = queue[t]
        /\ UNCHANGED <<running, dispatch>>
    BY <1>2, <2>1 DEF DropTask, EventsTypeOK
  <2>3. Range(queue[s]) = {x} \union Range(queue'[s]) /\ x \notin Range(queue'[s])
    BY <1>0, <2>1, <2>2, RangeOfTail DEF Distinct
  <2>4. x \in DOMAIN name /\ x \notin Range(running[s])
    BY <1>0, <2>3 DEF Distinct
  <2>5. ASSUME NEW e \in DOMAIN name, e # x
        PROVE  Vote(e)'
    <3>1. Owing(e)' = Owing(e)
      BY <2>2, <2>3, <2>5, OwesAsBefore
    <3>2. remaining'[e] = remaining[e] /\ promise'[e] = promise[e]
      BY <2>2, <2>4, <2>5, SettlesOne
    <3> QED
      BY <1>0, <1>v, <2>2, <3>1, <3>2, VoteKept
  <2>6. Vote(x)'
    <3>1. \A d \in Dispatchers : dispatch[d].event = x /\ At_(d) => Current(d) # s
      BY <1>t, <2>3 DEF OnceInv, NotYet
    <3>2. s \in Owing(x) /\ Owing(x)' = Owing(x) \ {s}
      <4>1. s \in Owing(x)
        BY <2>3 DEF Owing
      <4>2. s \notin Owing(x)'
        BY <2>2, <2>3, <2>4, <3>1 DEF Owing, Current
      <4>3. \A t \in Scripts : t # s => (t \in Owing(x)' <=> t \in Owing(x))
        BY <2>2 DEF Owing, Current
      <4>4. Owing(x) \subseteq Scripts /\ Owing(x)' \subseteq Scripts
        BY DEF Owing
      <4> QED
        BY <4>1, <4>2, <4>3, <4>4
    <3> QED
      BY <1>0, <1>v, <2>2, <2>4, <3>2, VoteSettled
  <2> QED
    BY <1>w, <2>5, <2>6
<1>3. CASE Return(s)
  <2>0. PICK blocks \in BOOLEAN : Settle(Last(running[s]), blocks)
    BY <1>3 DEF Return
  <2>1. PICK x : x = Last(running[s]) /\ Settle(x, blocks)
    BY <2>0
  <2>2. /\ running[s] # <<>> /\ running'[s] = Front(running[s])
        /\ \A t \in Scripts : t # s => running'[t] = running[t]
        /\ UNCHANGED queue
    BY <1>3 DEF Return, EventsTypeOK
  <2>3. Range(running[s]) = {x} \union Range(running'[s]) /\ x \notin Range(running'[s])
    BY <1>0, <2>1, <2>2, RangeOfFront DEF Distinct
  <2>4. x \in DOMAIN name /\ x \notin Range(queue[s])
    BY <1>0, <2>3 DEF Distinct
  <2>d. \A d \in Dispatchers : dispatch'[d] # dispatch[d] =>
          /\ d = s /\ dispatch[d].event = x /\ dispatch'[d].event = x
    BY <1>3, <2>1, ReturnMoves, Moved
  <2>5. ASSUME NEW e \in DOMAIN name, e # x
        PROVE  Vote(e)'
    <3>1. Owing(e)' = Owing(e)
      BY <2>2, <2>3, <2>5, <2>d, OwesAsBefore
    <3>2. remaining'[e] = remaining[e] /\ promise'[e] = promise[e]
      BY <2>1, <2>4, <2>5, SettlesOne
    <3> QED
      BY <1>0, <1>v, <2>d, <3>1, <3>2, VoteKept
  <2>6. Vote(x)'
    <3>a. CASE ~Blockable(x)
      BY <1>0, <3>a DEF Vote, Blockable
    <3>b. CASE Blockable(x)
      <4>d. \A d \in Dispatchers : dispatch'[d] = dispatch[d]
        BY <2>d, <2>4, <3>b, EventTypes DEF OnceInv
      <4>0. \A d \in Dispatchers : dispatch[d].event = x /\ At_(d) => Current(d) # s
        BY <1>t, <2>3 DEF OnceInv, NotYet
      <4>1. s \in Owing(x)
        BY <2>3 DEF Owing
      <4>2. s \notin Owing(x)'
        BY <2>2, <2>3, <2>4, <4>0, <4>d DEF Owing, Current
      <4>3. \A t \in Scripts : t # s => (t \in Owing(x)' <=> t \in Owing(x))
        BY <2>2, <4>d DEF Owing, Current
      <4>4. Owing(x) \subseteq Scripts /\ Owing(x)' \subseteq Scripts
        BY DEF Owing
      <4>5. Owing(x)' = Owing(x) \ {s}
        BY <4>1, <4>2, <4>3, <4>4
      <4> QED
        BY <1>0, <1>v, <2>1, <2>4, <4>1, <4>5, VoteSettled
    <3> QED
      BY <3>a, <3>b
  <2> QED
    BY <1>w, <2>5, <2>6
<1> QED
  BY <1>1, <1>2, <1>3 DEF TaskStep

(* Nothing is owed of a new event. *)
LEMMA BeginVotes ==
  ASSUME EventsTypeOK, DispatchInv, OnceInv, VoteInv, NEW d \in Dispatchers, BeginStep(d)
  PROVE  VoteInv'
<1>0. PICK new : new = Len(name) + 1
  OBVIOUS
<1>1. PICK n \in Names : name' = Append(name, n)
  BY BeginMoves
<1>2. /\ \A e \in DOMAIN name' : e \in DOMAIN name \/ e = new
      /\ \A e \in DOMAIN name : name'[e] = name[e]
      /\ new \notin DOMAIN name /\ new \in Nat
  BY <1>0, <1>1 DEF EventsTypeOK
<1>3. /\ remaining' = Append(remaining, 0) /\ promise' = Append(promise, "Open")
      /\ dispatch[d] = Idle /\ dispatch'[d].event = new /\ dispatch'[d].at = "State"
      /\ UNCHANGED <<queue, running>>
  BY <1>0, BeginMoves
<1>4. \A x \in Dispatchers : x # d => dispatch'[x] = dispatch[x]
  BY OthersKeepTheirDispatch
<1>5. /\ \A e \in DOMAIN name : remaining'[e] = remaining[e] /\ promise'[e] = promise[e]
      /\ remaining'[new] = 0
  BY <1>0, <1>3 DEF EventsTypeOK
<1>6. ASSUME NEW e \in DOMAIN name
      PROVE  Vote(e)'
  <2>1. dispatch[d].event # e /\ dispatch'[d].event # e
    BY <1>2, <1>3, EventTypes DEF Idle
  <2>2. Owing(e)' = Owing(e)
    BY <1>3, <1>4, <2>1, OwesAsBefore
  <2>3. \A x \in Dispatchers : dispatch[x].event = e => dispatch'[x].event = e
    BY <1>4, <2>1
  <2> QED
    BY <1>2, <1>5, <2>2, <2>3, VoteKept DEF VoteInv, Vote
<1>7. Vote(new)'
  <2>1. \A x \in Dispatchers : x # d => dispatch'[x].event # new
    BY <1>2, <1>4, EventTypes
  <2>2. \A s \in Scripts : new \notin Range(queue'[s]) /\ new \notin Range(running'[s])
    BY <1>2, <1>3 DEF OnceInv, Distinct
  <2>3. \A x \in Dispatchers : dispatch'[x].event = new => dispatch'[x].at = "State"
    BY <1>3, <2>1
  <2>4. Owing(new)' = {}
    BY <2>2, <2>3 DEF Owing
  <2>5. Cardinality(Owing(new)') = 0
    BY <2>4, FS_EmptySet
  <2> QED
    BY <1>3, <1>5, <2>5 DEF Vote
<1> QED
  BY <1>2, <1>6, <1>7 DEF VoteInv, Vote

(* The steps of a dispatch between a vote that is expected and its task.   *)
Asked == {"Isolate", "Alive", "Post"}

(* A script owes its vote from IncrementExpected until the task is posted  *)
(* or rejected.                                                            *)
LEMMA DispatchStepVotes ==
  ASSUME EventsTypeOK, DispatchInv, OnceInv, VoteInv, NEW d \in Dispatchers, DispatchStep(d)
  PROVE  VoteInv'
<1>0. PICK c, x : c = Current(d) /\ x = dispatch[d].event
  OBVIOUS
<1>1. /\ dispatch[d].at # "Idle" /\ name' = name /\ x \in DOMAIN name /\ x \in Nat /\ x # Free
      /\ \A y \in Dispatchers : y # d => dispatch'[y] = dispatch[y]
      /\ \A y \in Dispatchers : y # d => dispatch[y].event # x
      /\ dispatch[d] \in Dispatch_
  BY <1>0, OthersKeepTheirDispatch, DispatchMoves, EventTypes DEF DispatchInv, SoundDispatch, OnceInv, EventsTypeOK
<1>2. dispatch[d].at \notin {"Idle", "State"} =>
        /\ c \in dispatch[d].left /\ c \in Scripts
        /\ dispatch[d].at # "InPlace" => x \notin Range(queue[c]) /\ x \notin Range(running[c])
  BY <1>0, CurrentIsAScript DEF DispatchInv, SoundDispatch, OnceInv, NotYet
<1>v. \A e \in DOMAIN name : Vote(e)
  BY DEF VoteInv, Vote
<1>3. /\ dispatch'[d].event \in {x, Free}
      /\ dispatch'[d] = [dispatch[d] EXCEPT !.at = dispatch'[d].at] => Current(d)' = c
  <2>1. dispatch'[d] = [dispatch[d] EXCEPT !.at = dispatch'[d].at] => dispatch'[d].left = dispatch[d].left
    BY <1>1 DEF Dispatch_
  <2>2. dispatch'[d].event \in {x, Free}
    BY <1>0, DispatchMoves, Moved DEF Ends, Idle
  <2> QED
    BY <1>0, <2>1, <2>2 DEF Current
(* The others owe what they owed. *)
<1>4. \A s \in Scripts : \A e \in DOMAIN name : e # x =>
        /\ e \in Range(queue'[s]) <=> e \in Range(queue[s])
        /\ e \in Range(running'[s]) <=> e \in Range(running[s])
  <2>1. CASE UNCHANGED <<queue, running>>
    BY <2>1
  <2>2. CASE Post(d)
    <3>1. c \in Scripts /\ queue' = [queue EXCEPT ![c] = Append(@, x)] /\ running' = running
      BY <1>0, <1>2, <2>2 DEF Post, At
    <3>2. Range(Append(queue[c], x)) = Range(queue[c]) \union {x}
      BY <1>1, <3>1, RangeOfAppend DEF EventsTypeOK
    <3> QED
      BY <3>1, <3>2 DEF EventsTypeOK
  <2>3. CASE LoadIsolate(d) /\ ~UNCHANGED <<queue, running>>
    <3>1. c \in Scripts /\ running' = [running EXCEPT ![c] = Append(@, x)] /\ queue' = queue
      BY <1>0, <1>2, <2>3 DEF LoadIsolate, At
    <3>2. Range(Append(running[c], x)) = Range(running[c]) \union {x}
      BY <1>1, <3>1, RangeOfAppend DEF EventsTypeOK
    <3> QED
      BY <3>1, <3>2 DEF EventsTypeOK
  <2> QED
    BY <2>1, <2>2, <2>3 DEF DispatchStep, AskState, AskRegistered, IncrementExpected, LoadIsolate, AskAlive, EndDispatch
<1>5. ASSUME NEW e \in DOMAIN name, e # x
      PROVE  Owing(e)' = Owing(e) /\ \A y \in Dispatchers : dispatch[y].event = e => dispatch'[y].event = e
  <2>1. e # Free /\ dispatch[d].event # e /\ dispatch'[d].event # e
    BY <1>0, <1>3, <1>5, EventTypes
  <2> QED
    BY <1>1, <1>4, <1>5, <2>1, OwesAsBefore
<1>6. ASSUME NEW e \in DOMAIN name, e # x, remaining'[e] = remaining[e], promise'[e] = promise[e]
      PROVE  Vote(e)'
  BY <1>1, <1>5, <1>6, <1>v, VoteKept
<1>w. (\A e \in DOMAIN name : Vote(e)') => VoteInv'
  BY <1>1 DEF VoteInv, Vote
<1>n. CASE ~Blockable(x)
  <2>1. Vote(x)'
    BY <1>1, <1>n DEF Vote, Blockable
  <2>2. \A e \in DOMAIN name : e # x => remaining'[e] = remaining[e] /\ promise'[e] = promise[e]
    BY <1>0, <1>n, <1>1 DEF EventsTypeOK, DispatchStep, AskState, AskRegistered, IncrementExpected, LoadIsolate, AskAlive, Post,
                       EndDispatch, Reject, Settle
  <2> QED
    BY <1>w, <1>6, <2>1, <2>2
<1> SUFFICES ASSUME Blockable(x)
             PROVE  VoteInv'
  BY <1>n
<1>7. c \in Scripts => c # d
  BY <1>0, <1>1 DEF OnceInv
(* The step only moves. *)
<1>8. ASSUME UNCHANGED <<queue, running, remaining, promise>>, dispatch'[d].event = x,
             \/ dispatch[d].at \notin Asked /\ dispatch'[d].at \notin Asked
             \/ dispatch[d].at \in Asked /\ dispatch'[d].at \in Asked /\ Current(d)' = c
      PROVE  VoteInv'
  <2>1. Owing(x)' = Owing(x)
    <3>1. \A s \in Scripts :
            (\E y \in Dispatchers : dispatch'[y].event = x /\ dispatch'[y].at \in Asked /\ Current(y)' = s)
            <=> (\E y \in Dispatchers : dispatch[y].event = x /\ dispatch[y].at \in Asked /\ Current(y) = s)
      BY <1>0, <1>1, <1>8
    <3> QED
      BY <1>8, <3>1 DEF Owing, Asked
  <2>2. \A y \in Dispatchers : dispatch[y].event = x => dispatch'[y].event = x
    BY <1>1, <1>8
  <2>3. Vote(x)'
    BY <1>1, <1>8, <1>v, <2>1, <2>2, VoteKept
  <2> QED
    BY <1>w, <1>6, <1>8, <2>3
(* The vote is called off. *)
<1>9. ASSUME Reject(d), UNCHANGED <<queue, running>>, dispatch[d].at \in Asked
      PROVE  VoteInv'
  <2>1. Settle(x, FALSE) /\ dispatch'[d].at = "State" /\ dispatch'[d].event = x
    BY <1>0, <1>1, <1>9, NextIsADispatch DEF Reject, EventsTypeOK
  <2>2. c \in Scripts /\ x \notin Range(queue[c]) /\ x \notin Range(running[c])
    BY <1>2, <1>9 DEF Asked
  <2>3. c \in Owing(x)
    BY <1>0, <1>9, <2>2 DEF Owing, Asked
  <2>4. c \notin Owing(x)'
    BY <1>1, <1>9, <2>1, <2>2 DEF Owing
  <2>5. \A s \in Scripts : s # c => (s \in Owing(x)' <=> s \in Owing(x))
    <3>1. \A y \in Dispatchers : y # d => dispatch'[y].event # x
      BY <1>1
    <3>2. \A y \in Dispatchers : y # d => dispatch[y].event # x
      BY <1>1
    <3> QED
      BY <1>0, <1>9, <2>1, <3>1, <3>2 DEF Owing
  <2>6. Owing(x) \subseteq Scripts /\ Owing(x)' \subseteq Scripts
    BY DEF Owing
  <2>7. Owing(x)' = Owing(x) \ {c}
    BY <2>3, <2>4, <2>5, <2>6
  <2>8. Vote(x)'
    BY <1>1, <1>v, <2>1, <2>3, <2>7, VoteSettled
  <2> QED
    BY <1>w, <1>1, <1>6, <2>1, <2>8, SettlesOne
<1>10. CASE AskState(d) \/ AskRegistered(d)
  <2>1. /\ UNCHANGED <<queue, running, remaining, promise>>
        /\ dispatch[d].at \notin Asked
        /\ dispatch'[d].at \in {"State", "Registered", "Expect"} /\ dispatch'[d].event = x
    BY <1>0, <1>1, <1>10, NextIsADispatch
       DEF AskState, AskRegistered, To, At, Asked, EventsTypeOK, Dispatch_
  <2> QED
    BY <1>8, <2>1 DEF Asked
<1>11. CASE IncrementExpected(d)
  <2>1. /\ dispatch[d].at = "Expect" /\ dispatch' = [dispatch EXCEPT ![d].at = "Isolate"]
        /\ remaining' = [remaining EXCEPT ![x] = @ + 1] /\ UNCHANGED <<queue, running, promise>>
    BY <1>0, <1>11 DEF IncrementExpected, At, To
  <2>2. dispatch'[d].at = "Isolate" /\ dispatch'[d].event = x /\ Current(d)' = c
    BY <1>0, <1>1, <1>3, <2>1 DEF EventsTypeOK, Dispatch_
  <2>3. c \in Scripts /\ x \notin Range(queue[c]) /\ x \notin Range(running[c])
    BY <1>2, <2>1
  <2>4. c \notin Owing(x)
    BY <1>1, <2>1, <2>3 DEF Owing
  <2>5. Owing(x)' = Owing(x) \union {c}
    <3>1. c \in Owing(x)'
      BY <1>0, <2>2, <2>3 DEF Owing
    <3>2. \A s \in Scripts : s # c => (s \in Owing(x)' <=> s \in Owing(x))
      BY <1>1, <2>1, <2>2 DEF Owing, Current
    <3>3. Owing(x) \subseteq Scripts /\ Owing(x)' \subseteq Scripts
      BY DEF Owing
    <3> QED
      BY <2>3, <3>1, <3>2, <3>3
  <2>6. Cardinality(Owing(x) \union {c}) = Cardinality(Owing(x)) + 1 /\ Cardinality(Owing(x)) \in Nat
    BY <2>4, OwingIsFinite, FS_AddElement
  <2>7. /\ remaining'[x] = remaining[x] + 1
        /\ \A e \in DOMAIN name : e # x => remaining'[e] = remaining[e] /\ promise'[e] = promise[e]
    BY <1>1, <2>1 DEF EventsTypeOK
  <2>8. Vote(x)'
    BY <1>1, <1>v, <2>5, <2>6, <2>7 DEF Vote
  <2> QED
    BY <1>w, <1>6, <2>7, <2>8
<1>12. CASE LoadIsolate(d) \/ AskAlive(d)
  <2>1. /\ dispatch[d].at \in {"Isolate", "Alive"} /\ c # d /\ UNCHANGED <<queue, running>>
        /\ \/ Reject(d)
           \/ \E at \in {"Alive", "Post"} :
                dispatch' = [dispatch EXCEPT ![d].at = at] /\ UNCHANGED <<remaining, promise>>
    BY <1>0, <1>2, <1>7, <1>12 DEF LoadIsolate, AskAlive, At, To
  <2>2. CASE Reject(d)
    BY <1>9, <2>1, <2>2 DEF Asked
  <2>3. ASSUME NEW at \in {"Alive", "Post"}, dispatch' = [dispatch EXCEPT ![d].at = at], UNCHANGED <<remaining, promise>>
        PROVE  VoteInv'
    <3>1. dispatch'[d].at = at /\ dispatch'[d].event = x /\ Current(d)' = c
      BY <1>0, <1>1, <1>3, <2>3 DEF EventsTypeOK, Dispatch_
    <3> QED
      BY <1>8, <2>1, <2>3, <3>1 DEF Asked
  <2> QED
    BY <2>1, <2>2, <2>3
<1>13. CASE Post(d)
  <2>1. /\ dispatch[d].at = "Post" /\ queue' = [queue EXCEPT ![c] = Append(@, x)]
        /\ UNCHANGED <<running, remaining, promise>>
    BY <1>0, <1>13 DEF Post, At
  <2>2. c \in Scripts /\ dispatch[d].left # {}
    BY <1>2, <2>1
  <2>3. dispatch'[d].at = "State" /\ dispatch'[d].event = x
    <3>1. Serves(d)
      BY <1>13, <2>2 DEF Post, Serves, EventsTypeOK
    <3> QED
      BY <1>0, <3>1, Moved
  <2>4. Range(queue'[c]) = Range(queue[c]) \union {x} /\ \A s \in Scripts : s # c => queue'[s] = queue[s]
    BY <1>1, <2>1, <2>2, RangeOfAppend DEF EventsTypeOK
  <2>5. Owing(x)' = Owing(x)
    <3>1. c \in Owing(x) /\ c \in Owing(x)'
      BY <1>0, <2>1, <2>2, <2>4 DEF Owing
    <3>2. \A s \in Scripts : s # c => (s \in Owing(x)' <=> s \in Owing(x))
      <4>1. \A y \in Dispatchers : y # d => dispatch'[y].event # x
        BY <1>1
      <4> QED
        BY <1>0, <1>1, <2>1, <2>3, <2>4, <4>1 DEF Owing
    <3>3. Owing(x) \subseteq Scripts /\ Owing(x)' \subseteq Scripts
      BY DEF Owing
    <3> QED
      BY <3>1, <3>2, <3>3
  <2>6. Vote(x)'
    BY <1>1, <1>v, <2>1, <2>3, <2>5, VoteKept
  <2> QED
    BY <1>w, <1>6, <2>1, <2>6
<1>14. CASE EndDispatch(d)
  <2>1. /\ dispatch[d].at = "State" /\ dispatch' = [dispatch EXCEPT ![d] = Idle]
        /\ promise' = IF remaining[x] = 0 /\ promise[x] = "Open" THEN [promise EXCEPT ![x] = "Passed"] ELSE promise
        /\ UNCHANGED <<queue, running, remaining>>
    BY <1>0, <1>14 DEF EndDispatch, At
  <2>2. /\ remaining[x] = 0 => promise'[x] # "Open"
        /\ \A e \in DOMAIN name : e # x => promise'[e] = promise[e]
    BY <1>1, <2>1 DEF EventsTypeOK
  <2>3. Owing(x)' = Owing(x)
    <3>1. dispatch'[d] = Idle /\ Idle.at = "Idle"
      BY <2>1 DEF EventsTypeOK, Idle
    <3>2. \A s \in Scripts :
            (\E y \in Dispatchers : dispatch'[y].event = x /\ dispatch'[y].at \in Asked /\ Current(y)' = s)
            <=> (\E y \in Dispatchers : dispatch[y].event = x /\ dispatch[y].at \in Asked /\ Current(y) = s)
      BY <1>1, <2>1, <3>1 DEF Asked
    <3> QED
      BY <2>1, <3>2 DEF Owing, Asked
  <2>4. Vote(x)'
    BY <1>1, <1>v, <2>1, <2>2, <2>3 DEF Vote, Blockable
  <2> QED
    BY <1>w, <1>6, <2>1, <2>2, <2>4
<1> QED
  BY <1>10, <1>11, <1>12, <1>13, <1>14 DEF DispatchStep

-----------------------------------------------------------------------------
LEMMA VoteInvStep ==
  ASSUME EventsTypeOK, DispatchInv, OnceInv, VoteInv, [EventsNext]_eventsVars
  PROVE  VoteInv'
<1>1. CASE UNCHANGED traffic
  BY <1>1 DEF traffic, VoteInv, Vote, Owing, Blockable, Current
<1>2. CASE UNCHANGED eventsVars
  BY <1>1, <1>2 DEF eventsVars
<1>3. ASSUME NEW s \in Scripts, RegistryStep(s) \/ LifeStep(s)
      PROVE  UNCHANGED traffic
  BY <1>3 DEF RegistryStep, Register, Unregister, ClearAllEvents, Install, CountOff,
              LifeStep, ChangeState, Leave, Exchange, ClearFunctions
<1>4. ASSUME NEW d, NEW n, LookUp(d, n)
      PROVE  UNCHANGED traffic
  BY <1>4 DEF LookUp
<1> QED
  BY <1>1, <1>2, <1>3, <1>4, TaskStepVotes, BeginVotes, DispatchStepVotes, StepKinds

LEMMA EventsTypeStep ==
  ASSUME EventsTypeOK, DispatchInv, [EventsNext]_eventsVars
  PROVE  EventsTypeOK'
<1>1. CASE UNCHANGED eventsVars
  BY <1>1 DEF eventsVars, registry, threads, traffic, EventsTypeOK
<1> QED
  BY <1>1, StepKinds, RegistryStepTyped, LifeStepTyped, TaskStepTyped, BeginTyped, DispatchStepTyped, LookUpTyped

LEMMA EventsInvInit == EventsInit => EventsInv
<1> SUFFICES ASSUME EventsInit
             PROVE  EventsInv
  OBVIOUS
<1> USE DEF EventsInit
<1>1. Idle \in Dispatch_ /\ Idle.at = "Idle" /\ Idle.event = Free /\ Idle.left = {}
  BY DEF Idle, Dispatch_, Steps
<1>2. EventsTypeOK
  BY <1>1 DEF EventsTypeOK
<1>3. CountInv
  <2>1. Counted = {} /\ Cardinality({}) = 0 /\ IsFiniteSet({})
    BY FS_EmptySet DEF Counted
  <2>2. \A k : {h \in handlers \union inHand : SlotOf(h[2]) = k} = {}
    BY DEF Counted
  <2>3. CountIsExact
    BY <2>1, <2>2 DEF CountIsExact
  <2> QED
    BY <2>1, <2>3 DEF CountInv, Mine, Counted
<1>4. DispatchInv
  BY <1>1 DEF DispatchInv, SoundDispatch
<1>5. ServedInv
  BY <1>1 DEF ServedInv, DueInv, EveryListenerServed
<1>6. OnceInv
  <2>1. \A s \in Scripts : Distinct(s)
    BY DEF Distinct, Range, IsInjective
  <2> QED
    BY <1>1, <2>1 DEF OnceInv, NotYet, Dispatchers
<1>7. VoteInv
  BY DEF VoteInv
<1> QED
  BY <1>2, <1>3, <1>4, <1>5, <1>6, <1>7 DEF EventsInv

(***************************************************************************)
(* The inductive invariant holds in every state, for any scripts, names    *)
(* and dispatching threads, and any bounds.                                *)
(***************************************************************************)
THEOREM EventsInvariant == EventsSpec => []EventsInv
<1>1. EventsInit => EventsInv
  BY EventsInvInit
<1>2. EventsInv /\ [EventsNext]_eventsVars => EventsInv'
  BY EventsTypeStep, CountInvStep, DispatchInvStep, ServedInvStep, OnceInvStep, VoteInvStep DEF EventsInv
<1> QED
  BY <1>1, <1>2, PTL DEF EventsSpec

(***************************************************************************)
(* Script.cpp:803 and :849, EventDispatch.cpp:30: whatever is registered,  *)
(* unregistered, cleared and torn down, and however many names there are   *)
(* slots for, a listener count is the number of registrations that are     *)
(* installed or half changed and share its slot.                           *)
(***************************************************************************)
THEOREM CountIsExactHolds == EventsSpec => []CountIsExact
<1>1. EventsInv => CountIsExact
  BY DEF EventsInv, CountInv
<1> QED
  BY <1>1, EventsInvariant, PTL

(***************************************************************************)
(* EventDispatch.cpp:54: whatever stops, pauses, unregisters or is torn    *)
(* down meanwhile, an event reaches every script that was running and      *)
(* listening from the beginning of its dispatch to the end.                *)
(***************************************************************************)
THEOREM EveryListenerServedHolds == EventsSpec => []EveryListenerServed
<1>1. EventsInv => EveryListenerServed
  BY DEF EventsInv, ServedInv
<1> QED
  BY <1>1, EventsInvariant, PTL

(***************************************************************************)
(* BlockableEvent.h:34-55, 80 and Script.cpp:1033: every vote is expected  *)
(* until the script's handlers have run, its post was rejected or its task *)
(* was dropped, and then exactly once; when none is left the dispatcher    *)
(* has its answer.                                                         *)
(***************************************************************************)
THEOREM VotesAccountedHolds == EventsSpec => []VotesAccounted
<1>1. EventsInv => VotesAccounted
  BY OwingIsFinite DEF EventsInv, VoteInv, Vote, VotesAccounted
<1> QED
  BY <1>1, EventsInvariant, PTL
=============================================================================
