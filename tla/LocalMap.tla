-------------------------------- MODULE LocalMap --------------------------------
(***************************************************************************)
(* The local map of Point-LIO (laserMapping.cpp): the box that follows the *)
(* lidar (lasermap_fov_segment), what is deleted from the ikd-Tree when it *)
(* moves, and what each scan adds to the tree (map_incremental).           *)
(*                                                                         *)
(* The tree is the set of its points (IkdTree shows that it is one), and   *)
(* the world is integer, with the box's faces and the points off each      *)
(* other's coordinates.  A scan is the set of its points in the world; the *)
(* filter moves the lidar by at most Step while it works on one, and the   *)
(* nearest points of each are those of where it was before its update.     *)
(***************************************************************************)
EXTENDS Integers, FiniteSets, FiniteSetsExt, Functions

CONSTANTS Axes,                 \* the three axes, or fewer
          cube_len,             \* the side of the local map
          DET_RANGE,            \* how far the lidar sees
          filter_size_map_min,  \* the side of a voxel of the map
          NUM_MATCH_POINTS,     \* nearest points looked for
          MatchDist2,           \* and the square of how far
          Landmarks,            \* bound: points that can be seen
          Places,               \* bound: where the lidar can be
          Corrections,          \* bound: how an update moves a point
          Step                  \* how far the lidar moves during a scan

Origin == [a \in Axes |-> 0]

\* MOV_THRESHOLD * DET_RANGE, where MOV_THRESHOLD is 1.5
Margin == (3 * DET_RANGE) \div 2
Larger(x, y) == IF x >= y THEN x ELSE y
mov_dist == Larger((9 * (cube_len - 2 * Margin)) \div 20, DET_RANGE \div 2)

\* The box is larger than the margins and a move, as the launch files make it,
\* and the lidar moves less than the box does.
ASSUME LocalMapAssumption ==
  /\ cube_len \in Nat /\ cube_len % 2 = 0
  /\ DET_RANGE \in Nat /\ Margin \in Nat /\ mov_dist \in Nat
  /\ Step \in Nat /\ Step < mov_dist /\ DET_RANGE + Step <= Margin
  /\ mov_dist < cube_len - 2 * Margin /\ 2 * Margin < cube_len
  /\ filter_size_map_min \in Nat \ {0}
  /\ NUM_MATCH_POINTS \in Nat \ {0}
  /\ Landmarks \subseteq [Axes -> Int] /\ Corrections \subseteq [Axes -> Int]
  /\ Places \subseteq [Axes -> Int] /\ Origin \in Places

VARIABLES
  pos_LiD,               \* where the lidar is, as the filter has it
  LocalMap_Points,       \* the box: its vertex_min and vertex_max
  Localmap_Initialized,
  cub_needrm,            \* the boxes to delete
  init_map, init_feats,  \* whether the tree is built, and what it will be built of
  ikdtree,               \* the points of the tree
  pc,
  given                  \* history: the points map_incremental was last given

boxVars == <<LocalMap_Points, Localmap_Initialized, cub_needrm>>
initVars == <<init_map, init_feats>>
vars == <<pos_LiD, boxVars, initVars, ikdtree, pc, given>>

InBox(p, box) == \A a \in Axes : box.vertex_min[a] <= p[a] /\ p[a] < box.vertex_max[a]
BoxAround(p) == [vertex_min |-> [a \in Axes |-> p[a] - cube_len \div 2],
                 vertex_max |-> [a \in Axes |-> p[a] + cube_len \div 2]]

Init ==
  /\ pos_LiD = Origin
  /\ LocalMap_Points = [vertex_min |-> Origin, vertex_max |-> Origin]
  /\ Localmap_Initialized = FALSE
  /\ cub_needrm = {}
  /\ init_map = FALSE /\ init_feats = {}
  /\ ikdtree = {}
  /\ pc = "segment"
  /\ given = {}

-------------------------------------------------------------------------------
(* lasermap_fov_segment                                                    *)

Abs(x) == IF x >= 0 THEN x ELSE -x
NearMin(a) == Abs(pos_LiD[a] - LocalMap_Points.vertex_min[a]) <= Margin
NearMax(a) == ~NearMin(a) /\ Abs(pos_LiD[a] - LocalMap_Points.vertex_max[a]) <= Margin

\* Mutants: the box moves away from the lidar; the slab at the wrong end is deleted.
Moved_Away(v) == [a \in Axes |-> v[a] + (IF NearMin(a) THEN mov_dist
                                         ELSE IF NearMax(a) THEN -mov_dist ELSE 0)]
LeftBehind_WrongEnd(a) ==
  IF NearMax(a)
    THEN [LocalMap_Points EXCEPT !.vertex_min[a] = LocalMap_Points.vertex_max[a] - mov_dist]
    ELSE [LocalMap_Points EXCEPT !.vertex_max[a] = LocalMap_Points.vertex_min[a] + mov_dist]

\* Each axis has its own move, and the box it leaves behind has the old extent on
\* the other axes.
Moved(v) == [a \in Axes |-> v[a] + (IF NearMin(a) THEN -mov_dist
                                    ELSE IF NearMax(a) THEN mov_dist ELSE 0)]
LeftBehind(a) ==
  IF NearMin(a)
    THEN [LocalMap_Points EXCEPT !.vertex_min[a] = LocalMap_Points.vertex_max[a] - mov_dist]
    ELSE [LocalMap_Points EXCEPT !.vertex_max[a] = LocalMap_Points.vertex_min[a] + mov_dist]

InitialiseLocalMap ==
  /\ pc = "segment"
  /\ ~Localmap_Initialized
  /\ LocalMap_Points' = BoxAround(pos_LiD)
  /\ Localmap_Initialized' = TRUE
  /\ pc' = "scan"
  /\ UNCHANGED <<pos_LiD, cub_needrm, initVars, ikdtree, given>>

\* cub_needrm is shrunk to fit, which leaves in it what is there.
lasermap_fov_segment ==
  /\ pc = "segment"
  /\ Localmap_Initialized
  /\ LET moving == {a \in Axes : NearMin(a) \/ NearMax(a)} IN
     IF moving = {}
       THEN UNCHANGED <<LocalMap_Points, cub_needrm, ikdtree>>
       ELSE /\ LocalMap_Points' = [vertex_min |-> Moved(LocalMap_Points.vertex_min),
                                   vertex_max |-> Moved(LocalMap_Points.vertex_max)]
            /\ cub_needrm' = cub_needrm \union {LeftBehind(a) : a \in moving}
            /\ ikdtree' = {p \in ikdtree : \A box \in cub_needrm' : ~InBox(p, box)}
  /\ pc' = "scan"
  /\ UNCHANGED <<pos_LiD, Localmap_Initialized, initVars, given>>

-------------------------------------------------------------------------------
(* The scan.  Until the map is there the filter stays where it is.         *)

Sees(place, p) == \A a \in Axes : Abs(p[a] - place[a]) <= DET_RANGE
Scans(place) == SUBSET {p \in Landmarks : Sees(place, p)} \ {{}}

\* enough: init_feats_world holds init_map_size points, of this scan or earlier ones;
\* when the tree is built they are not used again.
InitialiseMap ==
  /\ pc = "scan"
  /\ ~init_map
  /\ \E points \in Scans(pos_LiD), enough \in BOOLEAN :
       /\ init_map' = enough
       /\ IF enough THEN ikdtree' = init_feats \union points /\ init_feats' = {}
                    ELSE init_feats' = init_feats \union points /\ UNCHANGED ikdtree
  /\ pc' = "segment"
  /\ UNCHANGED <<pos_LiD, boxVars, given>>

Squares(p, q) == [a \in Axes |-> (p[a] - q[a]) * (p[a] - q[a])]
Dist2(p, q) == FoldFunction(+, 0, Squares(p, q))
Cell(p) == [a \in Axes |-> p[a] \div filter_size_map_min]
mid_point(p) == [a \in Axes |-> Cell(p)[a] * filter_size_map_min + filter_size_map_min \div 2]

\* What Nearest_Points may hold for a point that was at q when it was matched: the
\* nearest ones, as many as there are up to NUM_MATCH_POINTS.
Nearest_Points(q) ==
  LET close == {p \in ikdtree : Dist2(p, q) <= MatchDist2} IN
  {near \in SUBSET close :
     /\ Cardinality(near) <= NUM_MATCH_POINTS
     /\ Cardinality(near) = NUM_MATCH_POINTS \/ near = close
     /\ \A p \in near, r \in close \ near : Dist2(p, q) <= Dist2(r, q)}
Nearest(near, q) == {p \in near : \A r \in near : Dist2(p, q) <= Dist2(r, q)}

\* Mutant: a point of the next voxel counts as one of this.
InVoxel_WholeSide(p, mid) == \A a \in Axes : Abs(p[a] - mid[a]) < filter_size_map_min

\* |p - mid| against 0.866 and 0.5 of the voxel's side.
FarFrom(p, mid) == \E a \in Axes : 1000 * Abs(p[a] - mid[a]) > 866 * filter_size_map_min
InVoxel(p, mid) == \A a \in Axes : 2 * Abs(p[a] - mid[a]) < filter_size_map_min

\* What may become of a point at p that was at q when it was matched: it is added
\* as it is when there is nothing near its voxel, and through the downsampling when
\* the voxel is empty.
Fates(p, q) ==
  {IF near = {} \/ (\E r \in Nearest(near, q) : FarFrom(r, mid_point(p))) THEN "add"
   ELSE IF \A r \in near : ~InVoxel(r, mid_point(p)) THEN "downsample"
   ELSE "drop" : near \in Nearest_Points(q)}

Closest(points, cell) ==
  LET here == {p \in points : Cell(p) = cell} IN
  {p \in here : \A r \in here : Dist2(p, mid_point(p)) <= Dist2(r, mid_point(p))}

\* map_incremental: Add_Points with the downsampling leaves in each voxel of a point
\* the one next to its middle; Add_Points without it only adds.
MapIncremental(points, shift) ==
  LET Can(fate) == {p \in points : fate \in Fates(p, [a \in Axes |-> p[a] + shift[a]])} IN
  \E PointToAdd \in SUBSET Can("downsample"), PointNoNeedDownsample \in SUBSET Can("add") :
    LET cells == {Cell(p) : p \in PointToAdd}
        all == ikdtree \union PointToAdd
    IN /\ PointToAdd \intersect PointNoNeedDownsample = {}
       /\ points \ (PointToAdd \union PointNoNeedDownsample) \subseteq Can("drop")
       /\ \E kept \in [cells -> all] :
            /\ \A c \in cells : kept[c] \in Closest(all, c)
            /\ ikdtree' = {p \in ikdtree : Cell(p) \notin cells} \union Range(kept)
                            \union PointNoNeedDownsample

\* A scan of no more than four points is only used to move the lidar.
HandleScan ==
  /\ pc = "scan"
  /\ init_map
  /\ \E place \in Places :
       /\ \A a \in Axes : Abs(place[a] - pos_LiD[a]) <= Step
       /\ pos_LiD' = place
       /\ \/ /\ ikdtree' = ikdtree
             /\ given' = {}
          \/ \E points \in Scans(place), shift \in Corrections :
               /\ MapIncremental(points, shift)
               /\ given' = points
  /\ pc' = "segment"
  /\ UNCHANGED <<boxVars, initVars>>

Next == InitialiseLocalMap \/ lasermap_fov_segment \/ InitialiseMap \/ HandleScan
Spec == Init /\ [][Next]_vars

-------------------------------------------------------------------------------
(* Properties.                                                             *)

Boxes == [vertex_min : [Axes -> Int], vertex_max : [Axes -> Int]]

TypeOK ==
  /\ pos_LiD \in Places
  /\ LocalMap_Points \in Boxes /\ Localmap_Initialized \in BOOLEAN
  /\ cub_needrm \subseteq Boxes
  /\ init_map \in BOOLEAN /\ init_feats \subseteq Landmarks
  /\ ikdtree \subseteq Landmarks
  /\ pc \in {"segment", "scan"}
  /\ given \subseteq Landmarks

\* Once it has been brought up to the lidar, the box holds everything the lidar can
\* see, with half a range to spare, whatever way it has come there; and it keeps
\* its size.
LidarIsInside ==
  Localmap_Initialized =>
    \A a \in Axes :
      /\ LocalMap_Points.vertex_max[a] - LocalMap_Points.vertex_min[a] = cube_len
      /\ pc = "scan" => /\ pos_LiD[a] - LocalMap_Points.vertex_min[a] > Margin
                        /\ LocalMap_Points.vertex_max[a] - pos_LiD[a] > Margin

\* The tree has no point outside the box: what the lidar has left behind, on any
\* axis and on several at once, has been deleted, and what it adds is inside.
MapIsLocal == \A p \in ikdtree : InBox(p, LocalMap_Points)

\* Every voxel a scan has a point in has one in the map when the scan is done,
\* although the points near it were looked up before the update moved it.
SeenIsMapped == pc = "segment" => \A p \in given : \E q \in ikdtree : Cell(q) = Cell(p)

\* Segmenting the map deletes nothing of the box itself.
LocalPointsStay ==
  [][pc = "segment" => \A p \in ikdtree : InBox(p, LocalMap_Points') => p \in ikdtree']_vars
===============================================================================
