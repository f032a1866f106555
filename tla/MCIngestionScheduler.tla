------------------------ MODULE MCIngestionScheduler ------------------------
(***************************************************************************)
(* Instances of IngestionScheduler for TLC.  A unit of time is 300 s: the  *)
(* retry delay of 900 s is 3, the intervals of 900 s and 1800 s are 3 and 6*)
(* and a cycle lasts less than the shortest of them.  Job 2 is disabled.    *)
(***************************************************************************)
EXTENDS IngestionScheduler, TLC

CONSTANTS p1, p2

ThreeIntervals == 1 :> 3 @@ 2 :> 3 @@ 3 :> 6
=============================================================================
