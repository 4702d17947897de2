------------------------------ MODULE MCRunStream ------------------------------
EXTENDS RunStream

CONSTANTS t1, t2
MCTabs == {t1, t2}
=============================================================================
