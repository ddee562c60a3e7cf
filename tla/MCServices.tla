----------------------------- MODULE MCServices -----------------------------
(***************************************************************************)
(* Components that share no state and of which only safety is asked: each  *)
(* behaviour is one of one of them, while the others stay as they are      *)
(* initially.  The reachable states are the sum of theirs and not the      *)
(* product.                                                                *)
(***************************************************************************)
EXTENDS
  HandleCache, SessionScripts, RoomData, IniStore, Speedhack, Pathfinder, Database

CONSTANTS game, s1, unit, level, sorc, Sorc, pala, g1, g2, g3, r1, r2, w1, w2, w3, k1, k2, moor, den, d1, q1, q2, v1

MCThreads == {game, s1}
MCUnits == {unit}
MCLevels == {level}
MCProfiles == {sorc, Sorc, pala}
MCFolded == [n \in {sorc, Sorc, pala, NoProfile} |-> IF n = Sorc THEN sorc ELSE n]
MCWithGame == {sorc}
MCWithStarter == {sorc}
MCGuards == {g1, g2, g3}
MCRooms == {r1, r2}
MCWriters == {w1, w2, w3}
MCProfile == [w \in {w1, w2, w3} |-> IF w = w3 THEN pala ELSE sorc]
MCKeys == {k1, k2}
MCDatabases == {d1}
MCStatements == {q1, q2}
MCViews == {v1}
MCReaders == {game}
MCSetters == {s1}
MCSpeeds == {1, 5}
MCCells == [l \in {moor, den} |-> IF l = moor THEN (0..5) \X (0..4) ELSE (0..1) \X (0..1)]
MCMoor(s, c) ==
  CASE s = 1 /\ c = <<3, 0>> -> {"Wall"} [] s = 1 /\ c = <<4, 2>> -> {"Wall", "Door"} [] s = 1 /\ c = <<1, 1>> -> {"Door"}
    [] s = 2 /\ c = <<2, 2>> -> {"Object"} [] s = 2 /\ c = <<3, 4>> -> {"NoPlayer"} [] s = 2 /\ c = <<4, 2>> -> {"Door"}
    [] OTHER -> {}
MCCollision == [s \in 1..2 |-> [l \in {moor, den} |-> [c \in MCCells[l] |-> IF l = moor THEN MCMoor(s, c) ELSE {}]]]
MCDoors == [l \in {moor, den} |-> IF l = moor THEN {<<4, 2>>} ELSE {}]
MCRequest(l, start, goal, penalties) == [level |-> l, start |-> start, goal |-> goal, penalties |-> penalties]
MCRequests ==
  {MCRequest(moor, <<1, 3>>, <<4, 1>>, TRUE), MCRequest(moor, <<4, 1>>, <<1, 1>>, FALSE),
   MCRequest(den, <<0, 0>>, <<1, 1>>, FALSE)}

VARIABLE part

servicesVars == <<part, vars, sessionVars, roomVars, iniVars, speedhackVars, pathVars, databaseVars>>

ServicesInit ==
  /\ Init /\ SessionInit /\ RoomInit /\ IniInit /\ SpeedhackInit /\ PathInit /\ DatabaseInit
  /\ part \in {"Handles", "Session", "Room", "Ini", "Clock", "Path", "Database"}
  /\ waitForProfile <=> part = "Session"
  /\ part # "Room" => byGame = {}
  /\ part # "Clock" => domain = "Counter"

ServicesNext ==
  /\ UNCHANGED part
  /\ \/ /\ part = "Handles" /\ Next
        /\ UNCHANGED <<sessionVars, roomVars, iniVars, speedhackVars, pathVars, databaseVars>>
     \/ /\ part = "Session" /\ SessionNext
        /\ UNCHANGED <<vars, roomVars, iniVars, speedhackVars, pathVars, databaseVars>>
     \/ /\ part = "Room" /\ RoomNext
        /\ UNCHANGED <<vars, sessionVars, iniVars, speedhackVars, pathVars, databaseVars>>
     \/ /\ part = "Ini" /\ IniNext
        /\ UNCHANGED <<vars, sessionVars, roomVars, speedhackVars, pathVars, databaseVars>>
     \/ /\ part = "Clock" /\ SpeedhackNext
        /\ UNCHANGED <<vars, sessionVars, roomVars, iniVars, pathVars, databaseVars>>
     \/ /\ part = "Path" /\ PathNext
        /\ UNCHANGED <<vars, sessionVars, roomVars, iniVars, speedhackVars, databaseVars>>
     \/ /\ part = "Database" /\ DatabaseNext
        /\ UNCHANGED <<vars, sessionVars, roomVars, iniVars, speedhackVars, pathVars>>

ServicesSpec == ServicesInit /\ [][ServicesNext]_servicesVars
=============================================================================
