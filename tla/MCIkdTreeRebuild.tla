--------------------------- MODULE MCIkdTreeRebuild ---------------------------
(***************************************************************************)
(* An instance of IkdTreeRebuild for TLC: two points, boxes that hold one *)
(* or both, and three requests, one operation more than Rebuild_Logger has *)
(* room for.                                                               *)
(***************************************************************************)
EXTENDS IkdTreeRebuild

CONSTANTS p1, p2

MCPoints == {p1, p2}
MCBoxes == {{p1}, {p1, p2}}
MCMaxOps == [root \in BOOLEAN |-> 3]
===============================================================================
