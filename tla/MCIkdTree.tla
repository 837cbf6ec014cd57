------------------------------- MODULE MCIkdTree -------------------------------
(***************************************************************************)
(* Two instances of IkdTree for TLC: a few points in the plane, two of     *)
(* them level with each other, under every sequence of calls; and a line   *)
(* of points deep enough for a mark to wait two nodes above a rebuild.     *)
(***************************************************************************)
EXTENDS IkdTree

Box(min, max) == [min |-> min, max |-> max]

MCPoints == {<<0, 0>>, <<1, 0>>, <<2, 1>>, <<3, 0>>, <<0, 3>>, <<3, 3>>}
MCNewPoints == {<<0, 0>>, <<1, 0>>, <<3, 3>>}
MCMaps == {<< <<0, 0>>, <<2, 1>>, <<3, 3>>, <<0, 3>> >>, << <<0, 0>>, <<1, 0>>, <<3, 0>> >>}
MCBoxes == {Box(<<0, 0>>, <<2, 4>>), Box(<<2, 0>>, <<4, 4>>), Box(<<0, 0>>, <<4, 1>>)}

LinePoint(n) == <<2 * n, IF n = 15 THEN 5 ELSE 0>>
LineNewPoints == {<<1, 0>>, <<25, 3>>}
LinePoints == {LinePoint(n) : n \in 1 .. 15} \union LineNewPoints
LineMaps == {[n \in 1 .. 15 |-> LinePoint(n)]}
LineBoxes == {Box(<<0, 0>>, <<16, 6>>), Box(<<0, 0>>, <<40, 6>>)}
===============================================================================
