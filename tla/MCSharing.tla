------------------------------- MODULE MCSharing -------------------------------
EXTENDS Sharing, TLC

CONSTANTS founder, ann, bob, v1, v2, r1, r2
MCUsers == {founder, ann, bob}
MCVersions == {v1, v2}
MCRequests == {r1, r2}
Symmetry == Permutations(MCRequests) \cup Permutations(MCVersions)
=============================================================================
