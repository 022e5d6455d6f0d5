----------------------- MODULE MCArtifactObservation -----------------------
(* Values for checking ArtifactObservation: two plain directories and a     *)
(* link, each of which may come to be at the granted path; a plain file and *)
(* one on another volume.  A budget of two bytes is read in chunks of two,  *)
(* so that the probe past the budget is a smaller one; files have up to     *)
(* three bytes and are written once, which may leave their size, or their   *)
(* times, or both.                                                          *)
EXTENDS ArtifactObservation, TLC

CONSTANTS home, twin, link, file, alien

Plain     == Permutations({home, twin})
ThreeDirs == {home, twin, link}
TwoFiles  == {file, alien}
Traits    == [o \in ThreeDirs \cup TwoFiles |->
    IF o = link THEN "unsupported" ELSE "plain"]
Volumes   == [o \in ThreeDirs \cup TwoFiles |-> IF o = alien THEN 2 ELSE 1]
=============================================================================
