-------------------------------- MODULE KdNode --------------------------------
(***************************************************************************)
(* A node of the k-d tree of ikd_Tree.cpp, and what is done at one node:   *)
(* the marks, counts and ranges that Update makes of those of the sons,    *)
(* the marks that Push_Down hands on, and what the searches tell by a      *)
(* range.  Coordinates are integers, distances are squared.                *)
(***************************************************************************)
EXTENDS Integers, FiniteSetsExt

CONSTANT Dim   \* axes of a point, 3 in the code

ASSUME DimAssumption == Dim \in Nat \ {0}

Axes == 1 .. Dim

Squared(n) == n * n
Sum(f) == LET upto[k \in 0 .. Dim] == IF k = 0 THEN 0 ELSE upto[k - 1] + f[k] IN upto[Dim]
calc_dist(a, b) == Sum([k \in Axes |-> Squared(a[k] - b[k])])

InBox(p, box) == \A k \in Axes : box.min[k] <= p[k] /\ p[k] < box.max[k]

-------------------------------------------------------------------------------
(* Nodes.                                                                  *)

Sides == {"left", "right"}

\* A null pointer; its counts and marks are what it adds to its father's.
Nil == [TreeSize |-> 0, invalid_point_num |-> 0, down_del_num |-> 0,
        tree_deleted |-> TRUE, tree_downsample_deleted |-> TRUE]

Extent(t) == [low |-> t.low, high |-> t.high]
Bounds(extents) ==
  [low |-> [k \in Axes |-> Min({e.low[k] : e \in extents})],
   high |-> [k \in Axes |-> Max({e.high[k] : e \in extents})]]

\* The counts, marks and range of a node from those of its sons.  The range is
\* that of the points that are not deleted, as far as the sons' marks tell,
\* unless all are.
Update(t) ==
  LET sons == {t[s] : s \in Sides} \ {Nil}
      own == [low |-> t.point, high |-> t.point]
      all_deleted == t.point_deleted /\ \A son \in sons : son.tree_deleted
      extents == {Extent(son) : son \in {n \in sons : all_deleted \/ ~n.tree_deleted}}
                 \union {e \in {own} : all_deleted \/ ~t.point_deleted}
      One(b) == IF b THEN 1 ELSE 0
  IN [t EXCEPT
       !.TreeSize = t.left.TreeSize + t.right.TreeSize + 1,
       !.invalid_point_num =
          t.left.invalid_point_num + t.right.invalid_point_num + One(t.point_deleted),
       !.down_del_num =
          t.left.down_del_num + t.right.down_del_num + One(t.point_downsample_deleted),
       !.tree_downsample_deleted =
          t.point_downsample_deleted /\ \A son \in sons : son.tree_downsample_deleted,
       !.tree_deleted = all_deleted,
       !.low = Bounds(extents).low,
       !.high = Bounds(extents).high]

\* InitTreeNode, and Update.
Node(point, axis, left, right) ==
  Update([point |-> point, division_axis |-> axis, left |-> left, right |-> right,
          TreeSize |-> 0, invalid_point_num |-> 0, down_del_num |-> 0,
          point_deleted |-> FALSE, tree_deleted |-> FALSE,
          point_downsample_deleted |-> FALSE, tree_downsample_deleted |-> FALSE,
          need_push_down |-> [s \in Sides |-> FALSE], working_flag |-> FALSE,
          low |-> point, high |-> point])

NewLeaf(t) == t = Node(t.point, t.division_axis, Nil, Nil)

\* Mutants: the son's count of deleted points stays behind; the son's own point is
\* not marked as downsampled.
Marked_KeepsCount(son, father) ==
  LET downsampled == son.tree_downsample_deleted \/ father.tree_downsample_deleted
      point_downsampled == son.point_downsample_deleted \/ father.tree_downsample_deleted
      down_del == IF father.tree_downsample_deleted THEN son.TreeSize ELSE son.down_del_num
  IN [son EXCEPT
       !.tree_downsample_deleted = downsampled,
       !.point_downsample_deleted = point_downsampled,
       !.tree_deleted = father.tree_deleted \/ downsampled,
       !.point_deleted = father.tree_deleted \/ downsampled \/ point_downsampled,
       !.down_del_num = down_del,
       !.need_push_down = [s \in Sides |-> TRUE]]
Marked_KeepsPointFlag(son, father) ==
  LET downsampled == son.tree_downsample_deleted \/ father.tree_downsample_deleted
      down_del == IF father.tree_downsample_deleted THEN son.TreeSize ELSE son.down_del_num
  IN [son EXCEPT
       !.tree_downsample_deleted = downsampled,
       !.tree_deleted = father.tree_deleted \/ downsampled,
       !.point_deleted = @ \/ father.tree_deleted \/ downsampled,
       !.down_del_num = down_del,
       !.invalid_point_num = IF father.tree_deleted THEN son.TreeSize ELSE down_del,
       !.need_push_down = [s \in Sides |-> TRUE]]

\* A son after its father's marks are pushed down to it.
Marked(son, father) ==
  LET downsampled == son.tree_downsample_deleted \/ father.tree_downsample_deleted
      point_downsampled == son.point_downsample_deleted \/ father.tree_downsample_deleted
      down_del == IF father.tree_downsample_deleted THEN son.TreeSize ELSE son.down_del_num
  IN [son EXCEPT
       !.tree_downsample_deleted = downsampled,
       !.point_downsample_deleted = point_downsampled,
       !.tree_deleted = father.tree_deleted \/ downsampled,
       !.point_deleted = father.tree_deleted \/ downsampled \/ point_downsampled,
       !.down_del_num = down_del,
       !.invalid_point_num = IF father.tree_deleted THEN son.TreeSize ELSE down_del,
       !.need_push_down = [s \in Sides |-> TRUE]]

\* Mutant: the marks for the right son are dropped.
Push_Down_LeftOnly(t) ==
  [t EXCEPT !.left = IF t.need_push_down["left"] /\ @ # Nil THEN Marked(@, t) ELSE @,
            !.need_push_down = [s \in Sides |-> FALSE]]

\* A son to which its father has still to push its marks, and what the son is once
\* the father has.
Pending(t, side) == t.need_push_down[side] /\ t[side] # Nil
Reached(t, side) == IF Pending(t, side) THEN Marked(t[side], t) ELSE t[side]

Push_Down(t) ==
  [t EXCEPT !.left = Reached(t, "left"), !.right = Reached(t, "right"),
            !.need_push_down = [s \in Sides |-> @[s] /\ ~Pending(t, s)]]

\* What Delete_by_range makes of a node it need not go below.
AllDeleted(t, is_downsample) ==
  [t EXCEPT !.tree_deleted = TRUE, !.point_deleted = TRUE,
            !.need_push_down = [s \in Sides |-> TRUE],
            !.invalid_point_num = t.TreeSize,
            !.tree_downsample_deleted = @ \/ is_downsample,
            !.point_downsample_deleted = @ \/ is_downsample,
            !.down_del_num = IF is_downsample THEN t.TreeSize ELSE @]

-------------------------------------------------------------------------------
(* What a range tells.                                                     *)

\* Mutant: a box that begins where the range ends is missed.
Misses_AtEnd(t, box) == \E k \in Axes : box.max[k] <= t.low[k] \/ t.high[k] <= box.min[k]

Misses(t, box) == \E k \in Axes : box.max[k] <= t.low[k] \/ t.high[k] < box.min[k]
Covers(t, box) == \A k \in Axes : box.min[k] <= t.low[k] /\ t.high[k] < box.max[k]

Infinity == 1000000

calc_box_dist(t, point) ==
  IF t = Nil THEN Infinity
  ELSE calc_dist(point, [k \in Axes |-> IF point[k] < t.low[k] THEN t.low[k]
                                        ELSE IF point[k] > t.high[k] THEN t.high[k]
                                        ELSE point[k]])
===============================================================================
