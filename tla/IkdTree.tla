-------------------------------- MODULE IkdTree --------------------------------
(***************************************************************************)
(* The incremental k-d tree of ikd_Tree.cpp, node by node: lazy deletion   *)
(* marks that are pushed down on the way, counts and bounding ranges kept  *)
(* by Update, subtrees rebuilt in place, or, from Multi_Thread_Rebuild_-   *)
(* Point_Num nodes on, by the second thread at some later time.            *)
(*                                                                         *)
(* Here the second thread's rebuild is one step between two calls: how it  *)
(* interleaves with them is the subject of IkdTreeRebuild.  What is left   *)
(* of the calls are those Point-LIO makes: Build, Add_Points, Delete_-     *)
(* Point_Boxes, Nearest_Search and acquire_removed_points.  Coordinates    *)
(* are integers, distances are squared, ratios are in percent.             *)
(***************************************************************************)
EXTENDS KdNode, Sequences, FiniteSets, SequencesExt

CONSTANTS Points,          \* all points
          NewPoints,       \* those that are added, and searched around
          Maps,            \* the point clouds that Build may be given, as sequences
          Boxes,           \* the boxes that may be deleted
          downsample_size, \* length of a cell
          Minimal_Unbalanced_Tree_Size,
          Multi_Thread_Rebuild_Point_Num,
          delete_criterion_param, balance_criterion_param,  \* in percent
          k_nearest, MaxDistance,  \* of a nearest search, squared
          MaxOps           \* bound: calls after Build

ASSUME IkdTreeAssumption ==
  /\ Points \subseteq [Axes -> Int] /\ NewPoints \subseteq Points
  /\ Boxes \subseteq [min : [Axes -> Int], max : [Axes -> Int]]
  /\ Minimal_Unbalanced_Tree_Size \in Nat \ {0}
  /\ Minimal_Unbalanced_Tree_Size < Multi_Thread_Rebuild_Point_Num
  /\ delete_criterion_param \in 0 .. 100 /\ balance_criterion_param \in 50 .. 100

VARIABLES
  Root_Node,
  Rebuild_Ptr,     \* the way from the root to the node to rebuild, or none
  Points_deleted,  \* deleted points that a rebuild dropped (of both threads)
  live,            \* history: how often each point is in the map
  owed,            \* history: points deleted and not yet acquired
  ops,             \* history: calls so far
  revived          \* history: a rebuild updated a node with marks to push down

vars == <<Root_Node, Rebuild_Ptr, Points_deleted, live, owed, ops, revived>>

-------------------------------------------------------------------------------
(* Points and boxes.                                                       *)

\* The cell of downsample_size a point lies in, and its distance, doubled, from
\* the middle of it.
Cell(p) ==
  LET least == [k \in Axes |-> (p[k] \div downsample_size) * downsample_size]
  IN [min |-> least, max |-> [k \in Axes |-> least[k] + downsample_size]]
FromMiddle(p, cell) ==
  calc_dist([k \in Axes |-> 2 * p[k]], [k \in Axes |-> cell.min[k] + cell.max[k]])

-------------------------------------------------------------------------------
(* Walks.                                                                  *)

\* flatten leaves no mark behind.
RECURSIVE Flattened(_)
Flattened(t) ==
  IF t = Nil THEN Nil
  ELSE LET u == Push_Down(t)
       IN [u EXCEPT !.left = Flattened(@), !.right = Flattened(@)]

\* The points flatten collects of such a tree: those that are not deleted, and
\* those that are, but not by downsampling.
RECURSIVE Storage(_), Removed(_)
Storage(t) ==
  IF t = Nil THEN <<>>
  ELSE (IF t.point_deleted THEN <<>> ELSE <<t.point>>) \o Storage(t.left) \o Storage(t.right)
Removed(t) ==
  IF t = Nil THEN <<>>
  ELSE Removed(t.left) \o Removed(t.right)
       \o (IF t.point_deleted /\ ~t.point_downsample_deleted THEN <<t.point>> ELSE <<>>)

RECURSIVE NodeAt(_, _)
NodeAt(t, way) == IF way = <<>> THEN t ELSE NodeAt(t[Head(way)], Tail(way))

-------------------------------------------------------------------------------
(* Building and rebuilding.                                                *)

\* The longest axis of some points, the first of several.
DivisionAxis(points) ==
  LET Length(k) == Max({p[k] : p \in points}) - Min({p[k] : p \in points})
  IN CHOOSE k \in Axes : /\ \A j \in Axes : Length(j) <= Length(k)
                         /\ \A j \in 1 .. k - 1 : Length(j) < Length(k)

\* nth_element puts one point in the middle, no greater ones before it and no
\* smaller ones after it, and settles ties as it likes.
RECURSIVE Built(_, _)
Built(storage, indices) ==
  IF indices = {} THEN {Nil}
  ELSE LET axis == DivisionAxis({storage[n] : n \in indices})
           Less(m) == {n \in indices : storage[n][axis] < storage[m][axis]}
           Same(m) == {n \in indices : storage[n][axis] = storage[m][axis]}
           before == (Cardinality(indices) - 1) \div 2
           Lefts(m) == {Less(m) \union ties :
                          ties \in kSubset(before - Cardinality(Less(m)), Same(m) \ {m})}
           Medians == {m \in indices : before \in Cardinality(Less(m)) ..
                                         Cardinality(Less(m)) + Cardinality(Same(m)) - 1}
       IN UNION {UNION {{Node(storage[m], axis, l, r) :
                           l \in Built(storage, left),
                           r \in Built(storage, indices \ (left \union {m}))} :
                   left \in Lefts(m)} : m \in Medians}

BuildTree(storage) == Built(storage, DOMAIN storage)

Criterion_Check(t) ==
  /\ t.TreeSize > Minimal_Unbalanced_Tree_Size
  /\ LET son == IF t.left # Nil THEN t.left ELSE t.right
     IN \/ 100 * t.invalid_point_num > delete_criterion_param * t.TreeSize
        \/ 100 * son.TreeSize > balance_criterion_param * (t.TreeSize - 1)
        \/ 100 * son.TreeSize < (100 - balance_criterion_param) * (t.TreeSize - 1)

(* An update goes down the tree and comes back with a subtree and a context: *)
(* Rebuild_Ptr with the size of the node it points to, and the deleted       *)
(* points that were dropped.                                                 *)

Result(t, c) == [tree |-> t, context |-> c]

Rebuild(t, way, c) ==
  IF t.TreeSize >= Multi_Thread_Rebuild_Point_Num
    THEN {Result(t, IF c.ptr = {} \/ t.TreeSize > c.size
                      THEN [c EXCEPT !.ptr = {way}, !.size = t.TreeSize] ELSE c)}
    ELSE LET f == Flattened(t)
         IN {Result(b, [c EXCEPT !.removed = @ \o Removed(f)]) : b \in BuildTree(Storage(f))}

\* The end of every update that went on to the sons of a node.
Updated(t, way, allow_rebuild, c) ==
  LET u == [Update(t) EXCEPT !.working_flag = FALSE]
      d == IF way \notin c.ptr THEN c
           ELSE IF u.TreeSize < Multi_Thread_Rebuild_Point_Num THEN [c EXCEPT !.ptr = {}]
           ELSE [c EXCEPT !.size = u.TreeSize]
  IN IF allow_rebuild /\ Criterion_Check(u) THEN Rebuild(u, way, d) ELSE {Result(u, d)}

-------------------------------------------------------------------------------
(* The updates.                                                            *)

RECURSIVE Add_by_point(_, _, _, _, _, _)
Add_by_point(t, point, allow_rebuild, father_axis, way, c) ==
  IF t = Nil THEN {Result(Node(point, (father_axis % Dim) + 1, Nil, Nil), c)}
  ELSE LET u == Push_Down(t)
           axis == u.division_axis
           side == IF point[axis] < u.point[axis] THEN "left" ELSE "right"
           further == Append(way, side)
       IN UNION {Updated([u EXCEPT ![side] = r.tree], way, allow_rebuild, r.context) :
                   r \in Add_by_point(u[side], point, allow_rebuild /\ further \notin c.ptr,
                                      axis, further, c)}

\* The returns before the sons leave working_flag set.
RECURSIVE Delete_by_range(_, _, _, _, _, _)
Delete_by_range(t, box, allow_rebuild, is_downsample, way, c) ==
  IF t.tree_deleted THEN {Result(t, c)}
  ELSE
    LET u == [Push_Down(t) EXCEPT !.working_flag = TRUE]
        hit == ~u.point_deleted /\ InBox(u.point, box)
        v == [u EXCEPT !.point_deleted = @ \/ hit,
                       !.point_downsample_deleted = @ \/ (hit /\ is_downsample)]
        Go(side, e) ==
          Delete_by_range(v[side], box, allow_rebuild /\ Append(way, side) \notin e.ptr,
                          is_downsample, Append(way, side), e)
    IN CASE Misses(u, box) -> {Result(u, c)}
         [] Covers(u, box) -> {Result(AllDeleted(u, is_downsample), c)}
         [] OTHER ->
              UNION {UNION {Updated([v EXCEPT !.left = l.tree, !.right = r.tree],
                                    way, allow_rebuild, r.context) :
                              r \in Go("right", l.context)} : l \in Go("left", c)}

-------------------------------------------------------------------------------
(* The searches push marks down as well.                                   *)

RECURSIVE Search_by_range(_, _)
Search_by_range(t, box) ==
  IF t = Nil THEN [tree |-> Nil, found |-> <<>>]
  ELSE
    LET u == Push_Down(t)
        f == Flattened(u)
        l == Search_by_range(u.left, box)
        r == Search_by_range(u.right, box)
        own == IF InBox(u.point, box) /\ ~u.point_deleted THEN <<u.point>> ELSE <<>>
    IN CASE Misses(u, box) -> [tree |-> u, found |-> <<>>]
         [] Covers(u, box) -> [tree |-> f, found |-> Storage(f)]
         [] OTHER -> [tree |-> [u EXCEPT !.left = l.tree, !.right = r.tree],
                      found |-> own \o l.found \o r.found]

Heap == INSTANCE ManualHeap

RECURSIVE Search(_, _, _)
Search(t, point, heap) ==
  IF t.tree_deleted THEN [tree |-> t, heap |-> heap]
  ELSE
    LET u == Push_Down(t)
        dist == calc_dist(point, u.point)
        own == IF ~u.point_deleted /\ dist <= MaxDistance /\ Heap!Better(dist, heap)
                 THEN Heap!Pushed(u.point, dist, heap) ELSE heap
        Dist(s) == calc_box_dist(u[s], point)
        Visit(s, h) == IF Heap!Better(Dist(s), h) THEN Search(u[s], point, h)
                       ELSE [tree |-> u[s], heap |-> h]
        near == IF Dist("left") <= Dist("right") THEN "left" ELSE "right"
        far == IF near = "left" THEN "right" ELSE "left"
        first == Visit(near, own)
        second == Visit(far, first.heap)
    IN IF calc_box_dist(t, point) > MaxDistance THEN [tree |-> t, heap |-> heap]
       ELSE [tree |-> [u EXCEPT ![near] = first.tree, ![far] = second.tree],
             heap |-> second.heap]

-------------------------------------------------------------------------------
(* The calls.                                                              *)

Occurrences(s) == [p \in Points |-> Cardinality({n \in DOMAIN s : s[n] = p})]
Plus(a, b) == [p \in Points |-> a[p] + b[p]]

Init ==
  /\ \E map \in Maps : Root_Node \in BuildTree(map) /\ live = Occurrences(map)
  /\ Rebuild_Ptr = {}
  /\ Points_deleted = Occurrences(<<>>) /\ owed = Occurrences(<<>>)
  /\ ops = 0
  /\ revived = FALSE

Context ==
  [ptr |-> Rebuild_Ptr,
   size |-> Max({0} \union {NodeAt(Root_Node, way).TreeSize : way \in Rebuild_Ptr}),
   removed |-> <<>>]

\* Below the node that waits for the second thread nothing is rebuilt in place.
AtRoot == Rebuild_Ptr = {<<>>}

Call ==
  /\ ops < MaxOps
  /\ ops' = ops + 1
  /\ UNCHANGED revived

Commit(r) ==
  /\ Root_Node' = r.tree
  /\ Rebuild_Ptr' = r.context.ptr
  /\ Points_deleted' = Plus(Points_deleted, Occurrences(r.context.removed))

Added(tree, point, c) == Add_by_point(tree, point, ~AtRoot, tree.division_axis, <<>>, c)
Deleted(tree, box, is_downsample) ==
  Delete_by_range(tree, box, ~AtRoot, is_downsample, <<>>, Context)

\* Add_Points(..., false), for one of its points.
Add_Point(point) ==
  /\ Call
  /\ \E r \in Added(Root_Node, point, Context) : Commit(r)
  /\ live' = [live EXCEPT ![point] = @ + 1]
  /\ UNCHANGED owed

\* Of a point and those found in its cell, the first that is nearer to the middle
\* than all before it.
Nearest(point, found, cell) ==
  FoldLeft(LAMBDA best, p : IF FromMiddle(p, cell) < FromMiddle(best, cell) THEN p ELSE best,
           point, found)

\* Add_Points(..., true), for one of its points: the cell keeps the best one.
Add_Point_Downsampled(point) ==
  LET cell == Cell(point)
      search == Search_by_range(Root_Node, cell)
      best == Nearest(point, search.found, cell)
  IN /\ Call
     /\ IF Len(search.found) > 1 \/ best = point
          THEN /\ \E d \in IF search.found = <<>> THEN {Result(search.tree, Context)}
                            ELSE Deleted(search.tree, cell, TRUE) :
                    \E r \in Added(d.tree, best, d.context) : Commit(r)
               /\ live' = [p \in Points |-> IF p = best THEN 1
                                          ELSE IF InBox(p, cell) THEN 0 ELSE live[p]]
          ELSE /\ Root_Node' = search.tree
               /\ UNCHANGED <<Rebuild_Ptr, Points_deleted, live>>
     /\ UNCHANGED owed

\* Delete_Point_Boxes, for one of its boxes.
Delete_Point_Box(box) ==
  /\ Call
  /\ \E r \in Deleted(Root_Node, box, FALSE) : Commit(r)
  /\ live' = [p \in Points |-> IF InBox(p, box) THEN 0 ELSE live[p]]
  /\ owed' = [p \in Points |-> owed[p] + live[p] - live'[p]]

Nearest_Search(point) ==
  /\ Call
  /\ Root_Node' = Search(Root_Node, point, <<>>).tree
  /\ UNCHANGED <<Rebuild_Ptr, Points_deleted, live, owed>>

acquire_removed_points ==
  /\ Call
  /\ owed' = [p \in Points |-> owed[p] - Points_deleted[p]]
  /\ Points_deleted' = Occurrences(<<>>)
  /\ UNCHANGED <<Root_Node, Rebuild_Ptr, live>>

-------------------------------------------------------------------------------
(* The second thread.                                                      *)

\* Put a subtree at the end of a way, and bring the nodes on the way back up to
\* date, as far as the first whose working_flag is set, or to which its father
\* has still to push its marks.
RECURSIVE Replaced(_, _, _, _)
Replaced(t, way, new, pushes) ==
  IF way = <<>> THEN [tree |-> new, going |-> TRUE, revives |-> FALSE]
  ELSE LET side == Head(way)
           r == Replaced(t[side], Tail(way), new, t.need_push_down[side])
           u == [t EXCEPT ![side] = r.tree]
           going == r.going /\ ~t.working_flag /\ ~pushes
       IN [tree |-> IF going THEN Update(u) ELSE u,
           going |-> going,
           revives |-> r.revives \/ (going /\ Push_Down(t) # t)]

\* Without a point left in it the new root would be null, and is dereferenced
\* (line 332); IkdTreeRebuild follows that.
RebuildInThread ==
  /\ Rebuild_Ptr # {}
  /\ \E way \in Rebuild_Ptr :
       LET old == Flattened(NodeAt(Root_Node, way))
       IN /\ Storage(old) # <<>>
          /\ \E new \in BuildTree(Storage(old)) :
               LET r == Replaced(Root_Node, way, new, FALSE)
               IN Root_Node' = r.tree /\ revived' = (revived \/ r.revives)
          /\ Points_deleted' = Plus(Points_deleted, Occurrences(Removed(old)))
  /\ Rebuild_Ptr' = {}
  /\ UNCHANGED <<live, owed, ops>>

Next ==
  \/ \E p \in NewPoints : Add_Point(p) \/ Add_Point_Downsampled(p) \/ Nearest_Search(p)
  \/ \E box \in Boxes : Delete_Point_Box(box)
  \/ acquire_removed_points
  \/ RebuildInThread

Spec == Init /\ [][Next]_vars

-------------------------------------------------------------------------------
(* Properties.                                                             *)

RECURSIVE Nodes(_), Leads(_, _)
Nodes(t) == IF t = Nil THEN {} ELSE {t} \union Nodes(t.left) \union Nodes(t.right)
Leads(way, t) == t # Nil /\ (way = <<>> \/ Leads(Tail(way), t[Head(way)]))

\* The points a complete walk finds, and those it would find deleted by a box.
Contents == Occurrences(Storage(Flattened(Root_Node)))
Waiting == Occurrences(Removed(Flattened(Root_Node)))
Size(bag) == FoldFunction(LAMBDA x, y : x + y, 0, bag)

\* Every node has a point, an axis, and counts that fit one another; Rebuild_Ptr
\* leads to a node: no rebuild in place above it has taken that away.
TypeOK ==
  /\ \A n \in Nodes(Root_Node) :
       /\ n.point \in Points /\ n.division_axis \in Axes
       /\ n.invalid_point_num \in n.down_del_num .. n.TreeSize
  /\ \A way \in Rebuild_Ptr : Leads(way, Root_Node)
  /\ Points_deleted \in [Points -> Nat] /\ owed \in [Points -> Int]
  /\ ops \in 0 .. MaxOps

\* The tree holds exactly the points that were added and not deleted since, under
\* whatever marks, and whatever was rebuilt: lazy deletion, push-down and both
\* kinds of rebuild together are the operations on a plain bag of points.
MapIsTruth == ~revived => Contents = live

\* A deleted point never comes back.  The rebuild is to bring "the blocked
\* operations into the new tree" (ikd_Tree.cpp:285); a mark that waits to be
\* pushed into the rebuilt subtree is such an operation.
DeletedStaysDeleted == \A p \in Points : Contents[p] <= live[p]

\* A range search finds every point in its box, once per copy, and no deleted one:
\* the ranges by which it turns back never leave a living point out.
RangeSearchFindsAll ==
  \A box \in Boxes :
    Occurrences(Search_by_range(Root_Node, box).found) =
      [p \in Points |-> IF InBox(p, box) THEN Contents[p] ELSE 0]

\* A nearest search finds the k nearest points within the distance, in whatever
\* order it visits the sons.
NearestAreFound ==
  \A q \in NewPoints :
    LET points == Storage(Flattened(Root_Node))
        within == SelectSeq([n \in DOMAIN points |-> calc_dist(points[n], q)],
                            LAMBDA d : d <= MaxDistance)
        sorted == SortSeq(within, LAMBDA a, b : a < b)
    IN Heap!Point_Distance(Search(Root_Node, q, <<>>).heap) =
         SubSeq(sorted, 1, Min({Len(sorted), k_nearest}))

\* Every node tells the truth about the points under it, although marks are on
\* their way and TreeSize may still count nodes that a rebuild dropped: a deleted
\* tree holds none, they lie in the range, and validnum() is their number.  A mark
\* that waits to be pushed down is that of a deleted tree, or waits for a leaf that
\* was put there since.
NodesAreRight ==
  ~revived => \A t \in Nodes(Root_Node) :
    LET points == Storage(Flattened(t))
    IN /\ t.tree_deleted => points = <<>>
       /\ \A n \in DOMAIN points, k \in Axes : t.low[k] <= points[n][k] /\ points[n][k] <= t.high[k]
       /\ t.TreeSize - t.invalid_point_num = Len(points)
       /\ t.tree_downsample_deleted => t.tree_deleted
       /\ t.point_downsample_deleted => t.point_deleted
       /\ \A side \in Sides : Pending(t, side) => t.tree_deleted \/ NewLeaf(t[side])

\* What acquire_removed_points gives away was deleted by a box, and is given away
\* once: not a point that was only downsampled, nor one that is still in the map.
RemovedOnce == \A p \in Points : Points_deleted[p] + Waiting[p] <= owed[p]
===============================================================================
