---------------------------- MODULE MCLidarFrontEnd ----------------------------
(***************************************************************************)
(* An instance of LidarFrontEnd for TLC: a message of up to four Livox     *)
(* points, or of a few points of two rings, that are filtered, then        *)
(* messages of none, of two, and of enough points to be cut into three.    *)
(***************************************************************************)
EXTENDS LidarFrontEnd

MCMessages == {<<>>, <<1, 0>>, <<0, 2, 4, 5>>}
MCGaps == {-4, -1, 0, 1, 4}
MCSteps == {-1, 0, 1, 3}
===============================================================================
