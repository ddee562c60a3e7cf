---------------------------- MODULE MCGameThread ----------------------------
(* Two script threads that queue work for the game thread. *)
EXTENDS GameThread

CONSTANTS game, s1, s2

MCThreads == {game, s1, s2}
MCOneScript == {game, s1}
=============================================================================
