---------------------------- MODULE MCSpeedhack ----------------------------
EXTENDS Speedhack
CONSTANTS game, script, panel
MCReaders == {game, script}
MCSetters == {script, panel}
MCSpeeds == {1, 5}
=============================================================================
