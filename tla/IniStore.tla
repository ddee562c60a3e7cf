------------------------------- MODULE IniStore -------------------------------
(***************************************************************************)
(* Writing profiles to d2bs.ini from several processes at once:            *)
(* ProfileService::Add (src/src/runtime/components/profile), WriteKeys     *)
(* (src/src/core/config/IniConfigStore.cpp) and NamedMutexLock             *)
(* (src/src/utils/NamedMutex.h).                                           *)
(*                                                                         *)
(* The file is a function from sections and keys to the writer of the      *)
(* value.  Windows (external): the mutex of a dead process is handed on,   *)
(* as abandoned; the swap of two files happens at once or fails.  A manager *)
(* that rewrites the file under the same mutex is one more writer.         *)
(***************************************************************************)
EXTENDS Naturals

CONSTANTS
  Writers,      \* processes, each adding one profile
  Profile,      \* the profile each one adds
  Keys,         \* the keys of a section
  Nobody,       \* no writer, no value
  MaxAttempts   \* REPLACE_ATTEMPTS

Sections == {Profile[w] : w \in Writers}

ASSUME IniAssumption ==
  /\ Nobody \notin Writers /\ Keys # {}
  /\ Profile \in [Writers -> Sections]
  /\ MaxAttempts \in Nat \ {0}

VARIABLES
  step,      \* where each writer is in Add
  locked,    \* the owner of the named mutex
  file,      \* the file on the disk
  temp,      \* each writer's temporary file
  left,      \* the keys a writer has yet to write to it
  attempts,  \* swaps a writer has tried
  saved,     \* history: writers whose swap succeeded
  timedOut   \* history: some writer went on without the mutex

iniVars == <<step, locked, file, temp, left, attempts, saved, timedOut>>

Contents == [Sections \X Keys -> Writers \union {Nobody}]

Empty == [x \in Sections \X Keys |-> Nobody]

IniInit ==
  /\ step = [w \in Writers |-> "New"]
  /\ locked = Nobody
  /\ file = Empty
  /\ temp = [w \in Writers |-> Empty]
  /\ left = [w \in Writers |-> Keys]
  /\ attempts = [w \in Writers |-> 0]
  /\ saved = {} /\ timedOut = FALSE

GoesTo(w, s) == step' = [step EXCEPT ![w] = s]

Release(w) == locked' = IF locked = w THEN Nobody ELSE locked

-----------------------------------------------------------------------------
(* ProfileExists, asked without the mutex. *)
AskExists(w) ==
  /\ step[w] = "New"
  /\ GoesTo(w, IF \E k \in Keys : file[<<Profile[w], k>>] # Nobody THEN "Over" ELSE "Lock")
  /\ UNCHANGED <<locked, file, temp, left, attempts, saved, timedOut>>

(* (A timeout that nobody notices.) *)
AcquireHeld(w) ==
  /\ step[w] = "Lock"
  /\ locked' = IF locked = Nobody THEN w ELSE locked
  /\ GoesTo(w, "Copy")
  /\ UNCHANGED <<file, temp, left, attempts, saved, timedOut>>

(* NamedMutexLock: waits for the mutex, whoever left it behind ... *)
Acquire(w) ==
  /\ step[w] = "Lock" /\ locked = Nobody
  /\ locked' = w
  /\ GoesTo(w, "Copy")
  /\ UNCHANGED <<file, temp, left, attempts, saved, timedOut>>

(* ... for five seconds, and goes on without it. *)
TimeOut(w) ==
  /\ step[w] = "Lock" /\ locked # Nobody
  /\ GoesTo(w, "Copy") /\ timedOut' = TRUE
  /\ UNCHANGED <<locked, file, temp, left, attempts, saved>>

Copy(w) ==
  /\ step[w] = "Copy"
  /\ temp' = [temp EXCEPT ![w] = file]
  /\ GoesTo(w, "Write")
  /\ UNCHANGED <<locked, file, left, attempts, saved, timedOut>>

(* No temporary file, or no copy: the file is left as it is. *)
StageFails(w) ==
  /\ step[w] = "Copy"
  /\ GoesTo(w, "Over") /\ Release(w)
  /\ UNCHANGED <<file, temp, left, attempts, saved, timedOut>>

(* (Each key is written to the file itself.) *)
WriteKeyInPlace(w) ==
  /\ step[w] = "Write"
  /\ \E k \in left[w] :
       /\ file' = [file EXCEPT ![<<Profile[w], k>>] = w]
       /\ temp' = [temp EXCEPT ![w][<<Profile[w], k>>] = w]
       /\ left' = [left EXCEPT ![w] = @ \ {k}]
  /\ UNCHANGED <<step, locked, attempts, saved, timedOut>>

WriteKey(w) ==
  /\ step[w] = "Write"
  /\ \E k \in left[w] :
       /\ temp' = [temp EXCEPT ![w][<<Profile[w], k>>] = w]
       /\ left' = [left EXCEPT ![w] = @ \ {k}]
  /\ UNCHANGED <<step, locked, file, attempts, saved, timedOut>>

Swap(w) ==
  /\ step[w] = "Write" /\ left[w] = {}
  /\ file' = temp[w] /\ saved' = saved \union {w}
  /\ GoesTo(w, "Over") /\ Release(w)
  /\ UNCHANGED <<temp, left, attempts, timedOut>>

(* A reader has the file open: again, and at last given up. *)
SwapFails(w) ==
  /\ step[w] = "Write" /\ left[w] = {}
  /\ attempts' = [attempts EXCEPT ![w] = @ + 1]
  /\ IF attempts'[w] < MaxAttempts THEN UNCHANGED <<step, locked>>
     ELSE GoesTo(w, "Over") /\ Release(w)
  /\ UNCHANGED <<file, temp, left, saved, timedOut>>

(* The process dies wherever it is; its mutex is abandoned. *)
Crash(w) ==
  /\ step[w] # "Over"
  /\ GoesTo(w, "Over") /\ Release(w)
  /\ UNCHANGED <<file, temp, left, attempts, saved, timedOut>>

IniStep(w) ==
  \/ AskExists(w)
  \/ Acquire(w)
  \/ TimeOut(w)
  \/ Copy(w)
  \/ StageFails(w)
  \/ WriteKey(w)
  \/ Swap(w)
  \/ SwapFails(w)
  \/ Crash(w)

IniNext == \E w \in Writers : IniStep(w)

IniSpec == IniInit /\ [][IniNext]_iniVars

-----------------------------------------------------------------------------
(***************************************************************************)
(* IniConfigStore.cpp:224-233 and NamedMutex.h:15-18: unless a writer's    *)
(* wait for the mutex timed out, a profile that was saved stays in the     *)
(* file, with the values of a writer that saved it, whoever crashes.       *)
(***************************************************************************)
NoLostUpdate ==
  ~timedOut =>
    \A w \in saved : \E v \in saved :
      Profile[v] = Profile[w] /\ \A k \in Keys : file[<<Profile[w], k>>] = v

(***************************************************************************)
(* IniConfigStore.cpp:135 (all-or-nothing) and NamedMutex.h:19-24: even    *)
(* with timeouts, crashes and two writers of one profile, its section in   *)
(* the file is absent or one writer's as a whole.                          *)
(***************************************************************************)
SectionIsWhole ==
  \A s \in Sections :
    \E v \in Writers \union {Nobody} : \A k \in Keys : file[<<s, k>>] = v
=============================================================================
