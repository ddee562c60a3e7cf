----------------------------- MODULE GameFrame -----------------------------
(***************************************************************************)
(* The game thread's frame (GameLoop::OnSleep in                           *)
(* src/src/runtime/components/gameloop/GameLoop.cpp): which part of it     *)
(* runs, and which part of it runs under the write lock.                   *)
(*                                                                         *)
(*   Game         the game runs its own frame, its hooks call back into    *)
(*                the framework; only here does game memory change         *)
(*   Body         OnSleep up to the first drain                            *)
(*   Drain        GameThread::Drain in the body                            *)
(*   Asleep       between the slices, without the write lock               *)
(*   SliceDrain   GameThread::Drain in a slice, under a GameWriteLock      *)
(*   AcquireWait  waiting to take the lock back for the game's own frame   *)
(*                                                                         *)
(* The first tick differs: nothing holds the write lock yet, so its body   *)
(* and its drain run without it and there are no slices.  host::RunFrame   *)
(* returns false in d2bs.dll.  The end of the wait, a deadline in the      *)
(* code, may come between any two slices.                                  *)
(***************************************************************************)
EXTENDS GameLock

VARIABLES
  phase,          \* GameLoop's FramePhase
  writeLockHeld   \* GameLoop::writeLockHeld_

frameVars == <<lockVars, phase, writeLockHeld>>

Phases == {"Game", "Body", "Drain", "Asleep", "SliceDrain", "AcquireWait"}

FrameInit ==
  /\ LockInit
  /\ phase = "Game"
  /\ writeLockHeld = FALSE

(* Everything the frame opened on the game thread is closed again but the *)
(* write lock that outlives OnSleep.                                      *)
AtBase == Len(scopes[Game]) = IF active[Game] THEN 1 ELSE 0

To(next) == AtBase /\ phase' = next

StartTick ==
  /\ phase = "Game" /\ To("Body")
  /\ UNCHANGED <<lockVars, writeLockHeld>>

EndBody ==
  /\ phase = "Body" /\ To("Drain")
  /\ UNCHANGED <<lockVars, writeLockHeld>>

EndDrain ==
  /\ phase = "Drain"
  /\ IF writeLockHeld THEN CloseWrite(Game) /\ To("Asleep")
                      ELSE UNCHANGED lockVars /\ To("AcquireWait")
  /\ UNCHANGED writeLockHeld

StartSlice ==
  /\ phase = "Asleep" /\ To("SliceDrain")
  /\ OpenWrite(Game)
  /\ UNCHANGED writeLockHeld

EndSlice ==
  /\ phase = "SliceDrain" /\ To("Asleep")
  /\ CloseWrite(Game)
  /\ UNCHANGED writeLockHeld

EndSleep ==
  /\ phase = "Asleep" /\ To("AcquireWait")
  /\ UNCHANGED <<lockVars, writeLockHeld>>

(* A frame that starts without waiting for the readers of the sleep. *)
ReacquireUnlocked ==
  /\ phase = "AcquireWait" /\ To("Game")
  /\ UNCHANGED lockVars
  /\ writeLockHeld' = TRUE

Reacquire ==
  /\ phase = "AcquireWait" /\ To("Game")
  /\ OpenWrite(Game)
  /\ writeLockHeld' = TRUE

(* Every move of the frame but the one that starts a tick. *)
FrameMove ==
  \/ EndBody
  \/ EndDrain
  \/ StartSlice
  \/ EndSlice
  \/ EndSleep
  \/ Reacquire

Draining == phase \in {"Drain", "SliceDrain"}

-----------------------------------------------------------------------------
(* The phase and the write lock agree: from the end of the first tick on,  *)
(* the game's frame, the body and every drain run with the write lock, or  *)
(* with a releaser of it open on the game thread.                          *)
FrameOwnsLock ==
  /\ phase \in Phases /\ writeLockHeld \in BOOLEAN
  /\ writeLockHeld =>
       (phase \in {"Asleep", "AcquireWait"} <=> scopes[Game] = <<>>)
  /\ active[Game] => writeLockHeld
=============================================================================
