--------------------------- MODULE MCScriptEvents ---------------------------
EXTENDS ScriptEvents
CONSTANTS s1, s2, key, chat, msg, game
MCOrder == <<s1, s2>>
MCNames == {key, msg}
MCBlockers == {key}
MCBroadcasts == {<<s1, msg>>}
MCInterests == {<<s1, key>>, <<s2, key>>, <<s1, msg>>}
MCPausers == {s2}
MCHooks == {game}
MCEmpty == {}
=============================================================================
