----------------------------- MODULE MCInspector -----------------------------
EXTENDS Inspector
CONSTANTS c1, c2
MCConns == {c1, c2}
=============================================================================
