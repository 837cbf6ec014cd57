------------------------------ MODULE MCLocalMap ------------------------------
(***************************************************************************)
(* Instances of LocalMap for TLC: two axes, the lidar on a coarse grid, and *)
(* landmarks that share a voxel, lie in the next one, and lie apart.        *)
(***************************************************************************)
EXTENDS LocalMap

MCPlace(x, y) == [a \in Axes |-> IF a = "x" THEN x ELSE y]
\* Along the diagonal, where the box moves on both axes at once, and off it once.
MCPlaces == {MCPlace(d, d) : d \in {0, 6, 12, 18, 24}} \union {MCPlace(12, 6)}
MCLandmarks == {MCPlace(1, 1), MCPlace(3, 1), MCPlace(5, 1), MCPlace(-11, 3)}
\* There and back again on one axis.
RevisitPlaces == {MCPlace(x, 0) : x \in {-12, -6, 0, 6, 12}}
RevisitLandmarks == {MCPlace(1, 1), MCPlace(-21, 1)}
MCCorrections == {Origin, MCPlace(4, 0)}
===============================================================================
