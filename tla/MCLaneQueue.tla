---------------------------- MODULE MCLaneQueue ----------------------------
(* Two lanes and three units: two of two tests, one of one. *)
EXTENDS LaneQueue, TLC

CONSTANTS t1, t2, t3, t4, t5, l1, l2
MCLanes == {l1, l2}
MCItems == {t1, t2, t3, t4, t5}
MCUnits == <<<<t1>>, <<t2, t3>>, <<t4, t5>>>>
=============================================================================
