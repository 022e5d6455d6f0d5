---------------------------- MODULE MCCopilotHttp ----------------------------
(* Values for checking CopilotHttp: more requests than threads, and more    *)
(* turns than a session keeps.                                              *)
EXTENDS CopilotHttp, TLC

CONSTANTS r1, r2, r3, r4, i1, i2, i3, s1, s2, s3

FourRequests  == {r1, r2, r3, r4}
ThreeRequests == {r1, r2, r3}
OneId         == {i1}
TwoIds        == {i1, i2}
ThreeIds      == {i1, i2, i3}
OneSession    == {s1}
TwoSessions   == {s1, s2}
ThreeSessions == {s1, s2, s3}

Symmetry == Permutations(FourRequests) \cup Permutations(ThreeIds)
            \cup Permutations(ThreeSessions)

=============================================================================
