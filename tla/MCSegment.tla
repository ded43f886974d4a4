----------------------------- MODULE MCSegment -----------------------------
(* Segment on a small log: two values, one of them twice as long encoded.  *)
EXTENDS Segment

CONSTANTS short, long

MCValue == {short, long}
MCSize  == [v \in MCValue |-> IF v = short THEN 1 ELSE 2]
MCTime  == {1, 2}
=============================================================================
