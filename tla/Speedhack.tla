------------------------------ MODULE Speedhack ------------------------------
(***************************************************************************)
(* The scaled clock of src/src/core/speedhack/Speedhack.cpp: threads that  *)
(* opted in read virtualOffset + (now - realBase) * speed, load by load    *)
(* and without a lock, while SetSpeed moves the three numbers, store by    *)
(* store and under a mutex.                                                *)
(*                                                                         *)
(* What is modelled is one time domain of 64 bits: of a counter            *)
(* (GetTickCount64, QueryPerformanceCounter), which is read through one    *)
(* clock, or of the file times, which are anchored at a coarse clock and   *)
(* read through it and through a precise one.  The domains share the code, *)
(* and the stores to the others fall between the steps here.  (The fourth, *)
(* of the 32-bit tick counts, multiplies an unsigned difference.)          *)
(*                                                                         *)
(* The operating system's clocks (external) do not go back, and the coarse *)
(* one is behind by a timer tick at most.  A speed is a number of Units,   *)
(* so that half a speed can be said; a time is a number of ticks.  A       *)
(* difference of times is a double: exact up to 2^53, which holds for all  *)
(* but the first one of the file times, whose base is still zero; products *)
(* are taken to be smaller.  Loads and stores are relaxed atomics; they    *)
(* happen here in the order of the source.                                 *)
(***************************************************************************)
EXTENDS Integers

CONSTANTS
  Readers,     \* threads that opted in: the game's and those of the scripts
  Setters,     \* threads that set the speed: scripts and the settings panel
  Speeds,      \* the multipliers, in Units
  Unit,        \* the multiplier 1.0
  TopSpeed,    \* MAX_SPEED
  TimerTick,   \* how far the coarse clock may be behind
  Epoch,       \* the file time to begin with
  Exact,       \* 2^53: up to here a double tells all integers apart,
  Grain,       \* and those of the first difference of file times from here
  MaxReal,     \* bound: ticks of the real clock
  MaxSets,     \* bound: changes of the speed
  NoSetter,    \* the owner of the free mutex
  Few          \* what a discontinuity of a few microseconds is, in ticks

ASSUME SpeedsAssumption ==
  /\ {Unit, TopSpeed, Grain} \subseteq Nat \ {0} /\ Unit <= TopSpeed
  /\ Speeds \subseteq 1..TopSpeed
  /\ {TimerTick, Epoch, Exact, MaxReal} \subseteq Nat
  /\ Exact % Grain = 0 /\ MaxReal <= Exact /\ Exact < Epoch
  /\ NoSetter \notin Setters

VARIABLES
  domain,         \* which DomainState: a counter's, or fileTimeState
  clocks,         \* what the operating system's clocks say
  speed,          \* AppConfig.speed
  realBase,       \* DomainState::realBase
  virtualOffset,  \* DomainState::virtualOffset
  scalingActive,  \* scalingActive
  setter,         \* stateMutex, and where its owner is in ReanchorLocked
  sets,           \* number of changes
  reading,        \* per reader: where it is in the hook, what it has loaded
  seen            \* history: per clock, the latest time read that met no change

clockVars == <<domain, speed, realBase, virtualOffset, scalingActive>>
speedhackVars == <<clocks, clockVars, setter, sets, reading, seen>>

Clocks == {"coarse", "precise"}

Start == IF domain = "FileTime" THEN Epoch ELSE 0

Lag == IF domain = "FileTime" THEN TimerTick ELSE 0

NoChange == [by |-> NoSetter, at |-> "Free", to |-> Unit, realNow |-> 0, virtualNow |-> 0]

(* quiet: it has met no change of speed so far.  brief: no tick has passed *)
(* since it began, nor since the change it meets took the mutex.           *)
Reading(step, c) ==
  [at |-> step, clock |-> c, real |-> 0, speed |-> Unit, base |-> 0, value |-> 0, after |-> seen[c],
   quiet |-> setter.by = NoSetter, brief |-> setter.by = NoSetter \/ setter.realNow = clocks.coarse]

SpeedhackInit ==
  /\ domain \in {"Counter", "FileTime"}
  /\ clocks = [c \in Clocks |-> Start]
  /\ speed = Unit /\ realBase = 0 /\ virtualOffset = 0 /\ scalingActive = FALSE
  /\ setter = NoChange /\ sets = 0
  /\ seen = [c \in Clocks |-> 0]
  /\ reading = [t \in Readers |-> Reading("Outside", "coarse")]

(* static_cast<double>: to the nearest one, and to the even one of two.    *)
Double(n) ==
  LET q == n \div Grain
      r == n % Grain
  IN IF n <= Exact THEN n
     ELSE Grain * (IF 2 * r > Grain \/ (2 * r = Grain /\ q % 2 = 1) THEN q + 1 ELSE q)

(* The conversion to int64_t cuts off towards zero. *)
Scaled(delta, s) ==
  IF delta >= 0 THEN (Double(delta) * s) \div Unit ELSE -((Double(-delta) * s) \div Unit)

ToVirtual(now, s, base, offset) == offset + Scaled(now - base, s)

InRead(t) == reading[t].at \notin {"Outside", "Done"}

-----------------------------------------------------------------------------
(* The coarse clock follows with the timer's interrupts. *)
TimeGoesOn ==
  /\ clocks.precise + 1 <= Start + MaxReal
  /\ \E coarse \in {clocks.coarse, clocks.precise + 1} :
       /\ clocks.precise + 1 - coarse <= Lag
       /\ clocks' = [coarse |-> coarse, precise |-> clocks.precise + 1]
  /\ reading' = [t \in Readers |-> [reading[t] EXCEPT !.brief = FALSE]]
  /\ UNCHANGED <<clockVars, setter, sets, seen>>

(* SetSpeed: under stateMutex, and nothing to do for the speed there is. *)

(* Bug: the time since the last change is scaled with the new speed. *)
AnchoredAtNewSpeed(now, to) == ToVirtual(now, to, realBase, virtualOffset)

AnchoredAt(now, to) == ToVirtual(now, speed, realBase, virtualOffset)

BeginSet(t, to) ==
  /\ setter.by = NoSetter
  /\ sets < MaxSets
  /\ t \in Readers => ~InRead(t)
  /\ to # speed
  /\ setter' = [by |-> t, at |-> "Base", to |-> to, realNow |-> clocks.coarse,
                virtualNow |-> AnchoredAt(clocks.coarse, to)]
  /\ sets' = sets + 1
  /\ reading' = [r \in Readers |-> [reading[r] EXCEPT !.quiet = @ /\ ~InRead(r)]]
  /\ UNCHANGED <<clocks, clockVars, seen>>

SetterAt(step, next) == setter.at = step /\ setter' = [setter EXCEPT !.at = next]

StoreBase ==
  /\ SetterAt("Base", "Offset")
  /\ realBase' = setter.realNow
  /\ UNCHANGED <<clocks, domain, speed, virtualOffset, scalingActive, sets, reading, seen>>

StoreOffset ==
  /\ SetterAt("Offset", "Speed")
  /\ virtualOffset' = setter.virtualNow
  /\ UNCHANGED <<clocks, domain, speed, realBase, scalingActive, sets, reading, seen>>

StoreSpeed ==
  /\ SetterAt("Speed", "Active")
  /\ speed' = setter.to
  /\ UNCHANGED <<clocks, domain, realBase, virtualOffset, scalingActive, sets, reading, seen>>

EndSet ==
  /\ setter.at = "Active"
  /\ setter' = NoChange
  /\ scalingActive' = TRUE
  /\ UNCHANGED <<clocks, domain, speed, realBase, virtualOffset, sets, reading, seen>>

-----------------------------------------------------------------------------
Keeps == UNCHANGED <<clocks, clockVars, setter, sets>>

Goes(t, step, next) == reading[t].at = step /\ reading' = [reading EXCEPT ![t] = next]

Begins(t, next) == ~InRead(t) /\ setter.by # t /\ reading' = [reading EXCEPT ![t] = next]

(* A hooked clock: the real time first, then whether it is to be scaled,   *)
(* then LoadSnapshot.                                                      *)
ReadReal(t, c) ==
  /\ c = "precise" => domain = "FileTime"
  /\ Begins(t, [Reading("Engaged", c) EXCEPT !.real = clocks[c]])
  /\ Keeps /\ UNCHANGED seen

(* GetSystemTime and GetLocalTime ask first, and then read the time. *)
AskFirst(t) ==
  /\ domain = "FileTime"
  /\ Begins(t, Reading(IF scalingActive THEN "ToScale" ELSE "AsItIs", "coarse"))
  /\ Keeps /\ UNCHANGED seen

Returns(t, step, value) ==
  /\ Goes(t, step, [reading[t] EXCEPT !.at = "Done", !.value = value,
                                      !.real = 0, !.speed = Unit, !.base = 0])
  /\ seen' = [seen EXCEPT ![reading[t].clock] = IF reading[t].quiet /\ value > @ THEN value ELSE @]
  /\ Keeps

ScalingEngaged(t) ==
  IF scalingActive
    THEN /\ Goes(t, "Engaged", [reading[t] EXCEPT !.at = "Speed"])
         /\ Keeps /\ UNCHANGED seen
    ELSE Returns(t, "Engaged", reading[t].real)

ReadLate(t) ==
  \/ Returns(t, "AsItIs", clocks.coarse)
  \/ /\ Goes(t, "ToScale", [reading[t] EXCEPT !.at = "Speed", !.real = clocks.coarse])
     /\ Keeps /\ UNCHANGED seen

LoadSpeed(t) ==
  /\ Goes(t, "Speed", [reading[t] EXCEPT !.at = "Base", !.speed = speed])
  /\ Keeps /\ UNCHANGED seen

LoadBase(t) ==
  /\ Goes(t, "Base", [reading[t] EXCEPT !.at = "Offset", !.base = realBase])
  /\ Keeps /\ UNCHANGED seen

LoadOffset(t) ==
  LET r == reading[t] IN Returns(t, "Offset", ToVirtual(r.real, r.speed, r.base, virtualOffset))

SpeedhackNext ==
  \/ TimeGoesOn
  \/ \E t \in Setters, to \in Speeds : BeginSet(t, to)
  \/ StoreBase \/ StoreOffset \/ StoreSpeed \/ EndSet
  \/ \E t \in Readers :
       \/ \E c \in Clocks : ReadReal(t, c)
       \/ AskFirst(t) \/ ReadLate(t) \/ ScalingEngaged(t) \/ LoadSpeed(t) \/ LoadBase(t) \/ LoadOffset(t)

SpeedhackSpec == SpeedhackInit /\ [][SpeedhackNext]_speedhackVars

-----------------------------------------------------------------------------
(***************************************************************************)
(* Speedhack.h:30-31, virtual time stays continuous: for reads of one      *)
(* clock that no change of the speed meets half-way, whatever changes come *)
(* between them, on one thread or from one to another, time does not go    *)
(* back.  File times may, but not further than this: once by what the      *)
(* first difference loses as a double, and, where the precise clock is     *)
(* read, by a timer tick at the highest speed, for each change anchors     *)
(* virtual time at the coarse clock.                                       *)
(***************************************************************************)
Lapse(c) ==
  IF domain = "Counter" THEN 0
  ELSE Grain \div 2 + (IF c = "precise" THEN (TimerTick * TopSpeed) \div Unit + 1 ELSE 0)

ClockNeverGoesBack ==
  \A t \in Readers :
    LET r == reading[t] IN r.at = "Done" /\ r.quiet => r.after - r.value <= Lapse(r.clock)

(* Virtual time, by the clock it is anchored at: as the change that is     *)
(* being made has anchored it, or as the three numbers say.                *)
VirtualNow ==
  IF setter.by = NoSetter
    THEN ToVirtual(clocks.coarse, speed, realBase, virtualOffset)
    ELSE ToVirtual(clocks.coarse, setter.to, setter.realNow, setter.virtualNow)

(***************************************************************************)
(* What Speedhack.h:32-34 says of the other reads: a torn (speed, base,    *)
(* offset) makes a discontinuity of a few microseconds at most.  If no     *)
(* tick passes meanwhile, the time of a counter that is read is off by few *)
(* ticks, and not by the time that has passed since the last change.       *)
(***************************************************************************)
TornReadIsClose ==
  domain = "Counter" =>
    \A t \in Readers :
      reading[t].at = "Done" /\ reading[t].brief => reading[t].value - VirtualNow \in -Few..Few
=============================================================================
