---------------------------- MODULE SessionScripts ----------------------------
(***************************************************************************)
(* Which scripts the framework starts and stops by itself:                 *)
(* GameLoop::DriveScriptLifecycle and its snapshots                        *)
(* (src/src/runtime/components/gameloop/GameLoop.cpp) against the game's   *)
(* states and the profile that other threads publish in AppConfig          *)
(* (src/src/core/config/AppConfig.cpp, components/profile).                *)
(*                                                                         *)
(* A tick reads the game's state, the launcher's latch and the profile one *)
(* after the other, while other threads change the latch and the profile,  *)
(* and compares them with what the tick before saw.  Starting and stopping *)
(* are single steps here; their insides are ScriptLifecycle's subject.     *)
(* A script is the profile whose paths it was started from; one that ended *)
(* by itself, or whose file would not start, is as good as running, for    *)
(* the lifecycle does not ask.  The paths of a profile may name no script. *)
(*                                                                         *)
(* The game (external) changes its state between two ticks and not more    *)
(* than once: it sleeps in every one of its loops.                         *)
(***************************************************************************)
EXTENDS Naturals

CONSTANTS
  Profiles,    \* profile names as they are written
  NoProfile,   \* no profile yet: the paths of the settings
  Folded,      \* the name without its case: the profile it denotes
  WithGame,    \* the paths that name a script for the game
  WithStarter, \* the paths that name a script for the menu
  None,        \* no script, no session
  MaxSwitches, \* bound: explicit switches of the profile
  MaxChecks,   \* bound: clicks on the latch's box
  MaxSessions  \* bound: game sessions

ASSUME SessionAssumption ==
  /\ NoProfile \notin Profiles
  /\ Folded \in [Profiles \union {NoProfile} -> Profiles \union {NoProfile}]
  /\ Folded[NoProfile] = NoProfile
  /\ \A n \in Profiles : Folded[n] # NoProfile
  /\ {WithGame, WithStarter} \subseteq SUBSET (Profiles \union {NoProfile})
  /\ None \notin Nat \union [paths : Profiles \union {NoProfile}, session : Nat]
  /\ {MaxSwitches, MaxChecks, MaxSessions} \subseteq Nat

VARIABLES
  gameState,      \* game::GetGameState()
  moved,          \* the game has changed its state since the last tick
  gameSession,    \* the game's session: its number, or None outside
  sessions,       \* sessions so far
  waitForProfile, \* AppConfig::waitForProfile
  checks,         \* clicks on its box so far
  profile,        \* AppConfig::profileName_ and profileSwitchCount_
  tick,           \* the step of the tick
  current,        \* the Snapshot the tick takes
  previous,       \* GameLoop::previous_
  paths,          \* AppConfig::scriptPaths_: the profile they are from
  gameScript,     \* the in-game script: its paths and its session
  starter,        \* the menu's script
  console,        \* the console script
  (* History, which no step reads: *)
  unserved,       \* the last change of session or script found no script to start, or the latch held
  unloaded        \* the last profile to be loaded was not found

configVars == <<waitForProfile, checks, profile>>
gameVars == <<gameState, moved, gameSession, sessions>>
startedVars == <<paths, gameScript, starter, console>>
servedVars == <<unserved, unloaded>>
sessionVars == <<gameVars, configVars, tick, current, previous, startedVars, servedVars>>

States == {"Null", "Menu", "Busy", "InGame"}

Snapshot(state, wait, name, count, inSession) ==
  [state |-> state, wait |-> wait, name |-> name, count |-> count, inSession |-> inSession]

SessionInit ==
  /\ gameState = "Null" /\ moved = FALSE
  /\ gameSession = None /\ sessions = 0
  /\ waitForProfile \in BOOLEAN /\ checks = 0
  /\ profile = [name |-> NoProfile, count |-> 0]
  /\ tick = "Asleep"
  /\ current = Snapshot("Null", FALSE, NoProfile, 0, FALSE)
  /\ previous = current
  /\ paths = NoProfile /\ console = NoProfile
  /\ gameScript = None /\ starter = None
  /\ unserved = FALSE /\ unloaded = FALSE

-----------------------------------------------------------------------------
(* The game enters a session with its first InGame and leaves it at a menu. *)
GameMoves ==
  /\ tick = "Asleep" /\ ~moved /\ moved' = TRUE
  /\ gameState' \in States \ {gameState}
  /\ IF gameState' = "InGame" /\ gameSession = None
     THEN sessions < MaxSessions /\ sessions' = sessions + 1 /\ gameSession' = sessions'
     ELSE /\ gameSession' = IF gameState' = "Menu" THEN None ELSE gameSession
          /\ UNCHANGED sessions
  /\ UNCHANGED <<configVars, tick, current, previous, startedVars, servedVars>>

(* AppConfig::SetProfileName, from login(), which a script calls. *)
SetProfileName(n) ==
  /\ starter # None \/ gameScript # None
  /\ profile' = [profile EXCEPT !.name = n]
  /\ waitForProfile' = FALSE
  /\ UNCHANGED <<gameVars, checks, tick, current, previous, startedVars, servedVars>>

(* AppConfig::SwitchProfileName, from profile::Switch of any thread. *)
SwitchProfileName(n) ==
  /\ profile.count < MaxSwitches
  /\ profile' = [name |-> n, count |-> profile.count + 1]
  /\ waitForProfile' = FALSE
  /\ UNCHANGED <<gameVars, checks, tick, current, previous, startedVars, servedVars>>

(* The latch is also a box to check in the settings panel. *)
CheckWaitForProfile ==
  /\ checks < MaxChecks /\ checks' = checks + 1
  /\ waitForProfile' = ~waitForProfile
  /\ UNCHANGED <<gameVars, profile, tick, current, previous, startedVars, servedVars>>

-----------------------------------------------------------------------------
(* OnSleep: TakeSnapshot, step by step. *)

(* (A session that only the state InGame makes.) *)
InGameIsTheSession(state) == state = "InGame"

(* The session latch is carried over what is neither the game nor a menu.  *)
InSession(state) ==
  CASE state = "InGame" -> TRUE
    [] state = "Menu" -> FALSE
    [] OTHER -> previous.inSession

ReadState ==
  /\ tick = "Asleep"
  /\ current' = [current EXCEPT !.state = gameState, !.inSession = InSession(gameState)]
  /\ moved' = FALSE /\ tick' = "Latch"
  /\ UNCHANGED <<gameState, gameSession, sessions, configVars, previous, startedVars, servedVars>>

ReadLatch ==
  /\ tick = "Latch"
  /\ current' = [current EXCEPT !.wait = waitForProfile]
  /\ tick' = "Profile"
  /\ UNCHANGED <<gameVars, configVars, previous, startedVars, servedVars>>

ReadProfile ==
  /\ tick = "Profile"
  /\ current' = [current EXCEPT !.name = profile.name, !.count = profile.count]
  /\ tick' = "Drive"
  /\ UNCHANGED <<gameVars, configVars, previous, startedVars, servedVars>>

-----------------------------------------------------------------------------
(* DriveScriptLifecycle *)

StateChanged == previous.state # current.state

LatchCleared == previous.wait

ProfileChanged == Folded[previous.name] # Folded[current.name]

(* (A login counted as a switch.) *)
AnyChangeIsASwitch == ProfileChanged

ProfileSwitched == ProfileChanged /\ previous.count # current.count

Entered == ~previous.inSession /\ current.inSession

Exited == previous.inSession /\ ~current.inSession

(* ReloadPathsForProfile, when there is a name: *)
Reloads == (ProfileChanged \/ LatchCleared) /\ current.name # NoProfile

(* (Reloaded for another name only.) *)
ReloadedForANewName(found) == IF ProfileChanged /\ found THEN Folded[current.name] ELSE paths

(* the settings' paths with the profile's own, unless it is not found.     *)
ResolvedPaths(found) == IF Reloads /\ found THEN Folded[current.name] ELSE paths

Drives == StateChanged \/ LatchCleared \/ ProfileSwitched

(* When the script of the game is stopped, and when another one is started *)
(* then, if the paths name one.                                            *)
GameScriptDue == Drives /\ (Entered \/ (ProfileSwitched /\ current.state = "InGame"))

GameScriptNext(from) ==
  IF GameScriptDue
  THEN IF from \in WithGame THEN [paths |-> from, session |-> gameSession] ELSE None
  ELSE IF Drives /\ Exited THEN None ELSE gameScript

(* startAtMenu may be switched at any time. *)
StarterMayStart(startAtMenu) ==
  /\ Drives /\ current.state = "Menu"
  /\ \/ LatchCleared \/ ProfileSwitched
     \/ previous.state # "InGame" /\ startAtMenu

StarterNext(from, startAtMenu) ==
  IF StarterMayStart(startAtMenu) THEN IF from \in WithStarter THEN from ELSE None ELSE starter

(* A profile that was there when its name was given may be gone: another   *)
(* process writes the same store.                                          *)
DriveScriptLifecycle ==
  /\ tick = "Drive" /\ tick' = "Asleep"
  /\ previous' = current
  /\ IF current.wait
     THEN /\ unserved' = (Entered \/ Exited \/ unserved)
          /\ UNCHANGED <<startedVars, unloaded>>
     ELSE \E found, startAtMenu \in BOOLEAN :
            /\ paths' = ResolvedPaths(found)
            /\ console' = IF paths' # paths THEN paths' ELSE console
            /\ gameScript' = GameScriptNext(paths')
            /\ starter' = StarterNext(paths', startAtMenu)
            /\ unserved' = IF GameScriptDue THEN gameScript' = None ELSE (unserved /\ ~Exited)
            /\ unloaded' = IF Reloads THEN ~found ELSE unloaded
  /\ UNCHANGED <<gameVars, configVars, current>>

SessionNext ==
  \/ GameMoves
  \/ \E n \in Profiles : SetProfileName(n) \/ SwitchProfileName(n)
  \/ CheckWaitForProfile
  \/ ReadState
  \/ ReadLatch
  \/ ReadProfile
  \/ DriveScriptLifecycle

SessionSpec == SessionInit /\ [][SessionNext]_sessionVars

-----------------------------------------------------------------------------
(* A tick is over and the game has not moved on since. *)
UpToDate == tick = "Asleep" /\ ~moved

(***************************************************************************)
(* GameLoop.h:41-48 and GameLoop.cpp:143: after each tick the in-game      *)
(* script is the one of the session the game is in, through the states a   *)
(* waypoint or a loading area shows, and there is none outside a session;  *)
(* unless the launcher's latch was held when the session was entered or    *)
(* left, or the paths named no script when one was due (see unserved).     *)
(***************************************************************************)
SessionHasItsScript ==
  UpToDate /\ ~unserved =>
    IF gameSession = None THEN gameScript = None
    ELSE gameScript # None /\ gameScript.session = gameSession

(***************************************************************************)
(* docs/game_thread_safety.md (login stores the name without restarting    *)
(* its calling script) and GameLoop.cpp:368: while a session goes on and   *)
(* nobody switches the profile, whatever is stored by login() and whatever *)
(* states the game goes through, its script is not stopped or replaced.    *)
(***************************************************************************)
NoRestartInSession ==
  [][gameScript # None /\ gameScript' # gameScript =>
       \/ gameSession # gameScript.session
       \/ profile.count # previous.count]_sessionVars

(***************************************************************************)
(* GameLoop.cpp:374, GameLoop.h:135-137 and AppConfig.cpp:27: after a tick *)
(* with a clear latch the paths are those of the profile the tick saw,     *)
(* although the latch and the name are read apart from each other; unless  *)
(* that profile was not found when it was last to be loaded.               *)
(***************************************************************************)
PathsFollowProfile ==
  tick = "Asleep" /\ ~previous.wait /\ ~unloaded => paths = Folded[previous.name]
=============================================================================
