--------------------------- MODULE MCSupervisorTurn ---------------------------
EXTENDS SupervisorTurn

CONSTANTS k1
MCChunks == {k1}
=============================================================================
