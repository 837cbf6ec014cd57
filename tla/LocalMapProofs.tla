----------------------------- MODULE LocalMapProofs -----------------------------
(***************************************************************************)
(* Proofs about LocalMap, for any axes, landmarks and way of the lidar:    *)
(* the box holds what the lidar sees, the map is inside the box, and what  *)
(* a scan has seen is in the map.                                          *)
(***************************************************************************)
EXTENDS LocalMap, TLAPS

USE LocalMapAssumption

\* The distance of the lidar to the faces of the box on one axis.
Lower(a) == pos_LiD[a] - LocalMap_Points.vertex_min[a]
Upper(a) == LocalMap_Points.vertex_max[a] - pos_LiD[a]

BoxSize == \A a \in Axes : LocalMap_Points.vertex_max[a] - LocalMap_Points.vertex_min[a] = cube_len
Inside(d) == \A a \in Axes : Lower(a) > d /\ Upper(a) > d

\* What the scan's motion leaves of the margin, and what the box holds before
\* the map is built.
BoxInv ==
  /\ Localmap_Initialized =>
       /\ BoxSize
       /\ Inside(Margin - Step)
       /\ pc = "scan" => Inside(Margin)
       /\ ~init_map => /\ Inside(Margin)
                       /\ \A p \in init_feats : InBox(p, LocalMap_Points)
  /\ ~Localmap_Initialized => pc = "segment" /\ ~init_map /\ init_feats = {}
  /\ ~init_map => ikdtree = {}

MapInv == TypeOK /\ BoxInv /\ MapIsLocal

\* A distance is at most the margin only within it.
LEMMA AbsValue == \A x \in Int : Abs(x) \in Nat /\ (x >= 0 => Abs(x) = x) /\ (x < 0 => Abs(x) = -x)
  BY DEF Abs

LEMMA MarginFacts == Margin \in Nat /\ mov_dist \in Nat /\ Step < mov_dist
                       /\ DET_RANGE + Step <= Margin /\ mov_dist < cube_len - 2 * Margin
                       /\ 2 * Margin < cube_len
  OBVIOUS

\* What the lidar sees from a place well inside the box is in the box.
LEMMA SeenIsInside ==
  ASSUME NEW place \in [Axes -> Int], NEW p \in [Axes -> Int], NEW box \in Boxes,
         Sees(place, p),
         \A a \in Axes : place[a] - box.vertex_min[a] > DET_RANGE /\ box.vertex_max[a] - place[a] > DET_RANGE
  PROVE  InBox(p, box)
  <1> SUFFICES ASSUME NEW a \in Axes
               PROVE  box.vertex_min[a] <= p[a] /\ p[a] < box.vertex_max[a]
    BY DEF InBox
  <1>1. box.vertex_min[a] \in Int /\ box.vertex_max[a] \in Int /\ p[a] \in Int /\ place[a] \in Int
    BY DEF Boxes
  <1>2. Abs(p[a] - place[a]) <= DET_RANGE
    BY DEF Sees
  <1>3. -DET_RANGE <= p[a] - place[a] /\ p[a] - place[a] <= DET_RANGE
    BY <1>1, <1>2 DEF Abs
  <1> QED
    BY <1>1, <1>3

\* map_incremental puts nothing into the tree but points of the scan.
LEMMA AddsOnlyPoints ==
  ASSUME NEW points, NEW shift, MapIncremental(points, shift)
  PROVE  ikdtree' \subseteq ikdtree \union points
  <1>1. PICK add, asis :
          /\ add \subseteq points /\ asis \subseteq points
          /\ \E kept \in [{Cell(p) : p \in add} -> ikdtree \union add] :
               ikdtree' = {p \in ikdtree : Cell(p) \notin {Cell(q) : q \in add}} \union Range(kept)
                            \union asis
    BY DEF MapIncremental
  <1>2. PICK kept \in [{Cell(p) : p \in add} -> ikdtree \union add] :
          ikdtree' = {p \in ikdtree : Cell(p) \notin {Cell(q) : q \in add}} \union Range(kept)
                       \union asis
    BY <1>1
  <1>3. Range(kept) \subseteq ikdtree \union add
    BY <1>2 DEF Range
  <1> QED
    BY <1>1, <1>2, <1>3

LEMMA HalfCube == cube_len \div 2 \in Int /\ 2 * (cube_len \div 2) = cube_len
  OBVIOUS

-------------------------------------------------------------------------------

LEMMA InitInv == Init => MapInv
  <1> SUFFICES ASSUME Init PROVE MapInv
    OBVIOUS
  <1>1. Origin \in [Axes -> Int]
    BY DEF Origin
  <1>2. TypeOK
    BY <1>1 DEF Init, TypeOK, Boxes
  <1> QED
    BY <1>2 DEF Init, MapInv, BoxInv, MapIsLocal

LEMMA InitialiseInv == MapInv /\ InitialiseLocalMap => MapInv'
  <1> SUFFICES ASSUME MapInv, InitialiseLocalMap PROVE MapInv'
    OBVIOUS
  <1> USE DEF MapInv, TypeOK
  <1>1. pos_LiD \in [Axes -> Int] /\ LocalMap_Points' = BoxAround(pos_LiD) /\ pos_LiD' = pos_LiD
    BY DEF InitialiseLocalMap
  <1>2. LocalMap_Points' \in Boxes
    BY <1>1, HalfCube DEF BoxAround, Boxes
  <1>3. TypeOK'
    BY <1>2 DEF InitialiseLocalMap, initVars
  <1>4. \A a \in Axes : /\ LocalMap_Points'.vertex_max[a] = pos_LiD[a] + cube_len \div 2
                        /\ LocalMap_Points'.vertex_min[a] = pos_LiD[a] - cube_len \div 2
                        /\ pos_LiD[a] \in Int
    BY <1>1 DEF BoxAround
  <1>5. BoxSize' /\ Inside(Margin)' /\ Inside(Margin - Step)'
    BY <1>1, <1>4, HalfCube, MarginFacts DEF BoxSize, Inside, Lower, Upper
  <1>6. BoxInv'
    BY <1>5 DEF BoxInv, InitialiseLocalMap, initVars
  <1>7. MapIsLocal'
    BY DEF InitialiseLocalMap, BoxInv, MapIsLocal
  <1> QED
    BY <1>3, <1>6, <1>7

\* One axis of a move: the box goes towards the lidar, by less than what would
\* bring its other face within the margin, and by more than the lidar has come.
LEMMA MoveOne ==
  ASSUME TypeOK, BoxSize, Inside(Margin - Step), NEW a \in Axes
  PROVE  LET low == Moved(LocalMap_Points.vertex_min)[a]
             up == Moved(LocalMap_Points.vertex_max)[a]
         IN /\ low \in Int /\ up \in Int /\ up - low = cube_len
            /\ pos_LiD[a] - low > Margin /\ up - pos_LiD[a] > Margin
            /\ ~NearMin(a) /\ ~NearMax(a) => low = LocalMap_Points.vertex_min[a]
                                               /\ up = LocalMap_Points.vertex_max[a]
            /\ NearMin(a) => up = LocalMap_Points.vertex_max[a] - mov_dist
                               /\ low <= LocalMap_Points.vertex_min[a]
            /\ NearMax(a) => low = LocalMap_Points.vertex_min[a] + mov_dist
                               /\ up >= LocalMap_Points.vertex_max[a] /\ ~NearMin(a)
  <1> DEFINE p == pos_LiD[a]
             lo == LocalMap_Points.vertex_min[a]
             hi == LocalMap_Points.vertex_max[a]
  <1>1. p \in Int /\ lo \in Int /\ hi \in Int
    BY DEF TypeOK, Boxes
  <1>2. hi - lo = cube_len /\ p - lo > Margin - Step /\ hi - p > Margin - Step
    BY DEF BoxSize, Inside, Lower, Upper
  <1>3. NearMin(a) <=> p - lo <= Margin
    BY <1>1, <1>2, MarginFacts DEF NearMin, Abs
  <1>4. NearMax(a) <=> ~NearMin(a) /\ hi - p <= Margin
    BY <1>1, <1>2, MarginFacts DEF NearMax, Abs
  <1>5. /\ Moved(LocalMap_Points.vertex_min)[a]
             = lo + (IF NearMin(a) THEN -mov_dist ELSE IF NearMax(a) THEN mov_dist ELSE 0)
        /\ Moved(LocalMap_Points.vertex_max)[a]
             = hi + (IF NearMin(a) THEN -mov_dist ELSE IF NearMax(a) THEN mov_dist ELSE 0)
    BY DEF Moved
  <1> HIDE DEF p, lo, hi
  <1>6. CASE NearMin(a)
    BY <1>1, <1>2, <1>3, <1>4, <1>5, <1>6, MarginFacts DEF p, lo, hi
  <1>7. CASE ~NearMin(a) /\ NearMax(a)
    BY <1>1, <1>2, <1>3, <1>4, <1>5, <1>7, MarginFacts DEF p, lo, hi
  <1>8. CASE ~NearMin(a) /\ ~NearMax(a)
    BY <1>1, <1>2, <1>3, <1>4, <1>5, <1>8, MarginFacts DEF p, lo, hi
  <1> QED
    BY <1>6, <1>7, <1>8

\* A point of the old box that the new one does not hold is in one of the boxes
\* left behind.
LEMMA SegmentInv == MapInv /\ lasermap_fov_segment => MapInv'
  <1> SUFFICES ASSUME MapInv, lasermap_fov_segment PROVE MapInv'
    OBVIOUS
  <1> DEFINE moving == {a \in Axes : NearMin(a) \/ NearMax(a)}
  <1>0. /\ TypeOK /\ BoxSize /\ Inside(Margin - Step) /\ Localmap_Initialized
        /\ pos_LiD' = pos_LiD /\ Localmap_Initialized' = Localmap_Initialized
        /\ init_map' = init_map /\ init_feats' = init_feats /\ given' = given
        /\ pc' = "scan" /\ MapIsLocal
    BY DEF MapInv, BoxInv, lasermap_fov_segment, initVars
  <1>1. CASE moving = {}
    <2>1. UNCHANGED <<LocalMap_Points, cub_needrm, ikdtree>>
      BY <1>1 DEF lasermap_fov_segment
    <2>2. \A a \in Axes : Lower(a) > Margin /\ Upper(a) > Margin
      BY <1>0, <1>1, MoveOne DEF Lower, Upper
    <2>3. Inside(Margin)' /\ Inside(Margin - Step)' /\ BoxSize'
      BY <2>1, <2>2, <1>0 DEF Inside, Lower, Upper, BoxSize
    <2> QED
      BY <1>0, <2>1, <2>3 DEF MapInv, TypeOK, BoxInv, MapIsLocal, lasermap_fov_segment
  <1>2. CASE moving # {}
    <2>1. /\ LocalMap_Points' = [vertex_min |-> Moved(LocalMap_Points.vertex_min),
                                 vertex_max |-> Moved(LocalMap_Points.vertex_max)]
          /\ cub_needrm' = cub_needrm \union {LeftBehind(a) : a \in moving}
          /\ ikdtree' = {p \in ikdtree : \A box \in cub_needrm' : ~InBox(p, box)}
      BY <1>2 DEF lasermap_fov_segment
    <2>2. LocalMap_Points' \in Boxes
      BY <2>1, <1>0, MoveOne DEF Boxes, Moved
    <2>3. \A a \in moving : LeftBehind(a) \in Boxes
      BY <1>0 DEF LeftBehind, TypeOK, Boxes
    <2>4. TypeOK'
      BY <2>1, <2>2, <2>3, <1>0 DEF TypeOK
    <2>5. BoxSize' /\ Inside(Margin)' /\ Inside(Margin - Step)'
      <3> SUFFICES ASSUME NEW a \in Axes
                   PROVE  /\ LocalMap_Points'.vertex_max[a] - LocalMap_Points'.vertex_min[a] = cube_len
                          /\ pos_LiD'[a] - LocalMap_Points'.vertex_min[a] > Margin
                          /\ LocalMap_Points'.vertex_max[a] - pos_LiD'[a] > Margin
                          /\ pos_LiD'[a] - LocalMap_Points'.vertex_min[a] > Margin - Step
                          /\ LocalMap_Points'.vertex_max[a] - pos_LiD'[a] > Margin - Step
        BY DEF BoxSize, Inside, Lower, Upper
      <3>1. pos_LiD[a] \in Int
        BY <1>0 DEF TypeOK
      <3> QED
        BY <1>0, <2>1, <3>1, MoveOne, MarginFacts
    <2>6. \A p \in ikdtree : (\A a \in moving : ~InBox(p, LeftBehind(a))) => InBox(p, LocalMap_Points')
      <3> SUFFICES ASSUME NEW p \in ikdtree, NEW a \in Axes,
                          \A b \in moving : ~InBox(p, LeftBehind(b))
                   PROVE  /\ LocalMap_Points'.vertex_min[a] <= p[a]
                          /\ p[a] < LocalMap_Points'.vertex_max[a]
        BY DEF InBox
      <3>1. InBox(p, LocalMap_Points) /\ \A b \in Axes : p[b] \in Int
        BY <1>0 DEF MapIsLocal, TypeOK
      <3>2. LocalMap_Points \in Boxes
        BY <1>0 DEF TypeOK
      <3>3. /\ LocalMap_Points'.vertex_min[a] = Moved(LocalMap_Points.vertex_min)[a]
            /\ LocalMap_Points'.vertex_max[a] = Moved(LocalMap_Points.vertex_max)[a]
        BY <2>1
      <3>4. CASE NearMin(a)
        <4>1. LeftBehind(a) = [LocalMap_Points EXCEPT !.vertex_min[a]
                                                   = LocalMap_Points.vertex_max[a] - mov_dist]
          BY <3>4 DEF LeftBehind
        <4>2. ~InBox(p, LeftBehind(a))
          BY <3>4
        <4>3. p[a] < LocalMap_Points.vertex_max[a] - mov_dist
          BY <4>1, <4>2, <3>1, <3>2 DEF InBox, Boxes
        <4> QED
          BY <4>3, <3>1, <3>2, <3>3, <3>4, <1>0, MoveOne DEF InBox, Boxes
      <3>5. CASE ~NearMin(a) /\ NearMax(a)
        <4>1. LeftBehind(a) = [LocalMap_Points EXCEPT !.vertex_max[a]
                                                   = LocalMap_Points.vertex_min[a] + mov_dist]
          BY <3>5 DEF LeftBehind
        <4>2. ~InBox(p, LeftBehind(a))
          BY <3>5
        <4>3. p[a] >= LocalMap_Points.vertex_min[a] + mov_dist
          BY <4>1, <4>2, <3>1, <3>2 DEF InBox, Boxes
        <4> QED
          BY <4>3, <3>1, <3>2, <3>3, <3>5, <1>0, MoveOne DEF InBox, Boxes
      <3>6. CASE ~NearMin(a) /\ ~NearMax(a)
        BY <3>1, <3>3, <3>6, <1>0, MoveOne DEF InBox
      <3> QED
        BY <3>4, <3>5, <3>6
    <2>7. MapIsLocal'
      BY <2>1, <2>6 DEF MapIsLocal
    <2>8. init_map
      <3> SUFFICES ASSUME ~init_map PROVE FALSE
        OBVIOUS
      <3>1. Inside(Margin)
        BY <1>0 DEF MapInv, BoxInv
      <3>2. \A a \in Axes : ~NearMin(a) /\ ~NearMax(a)
        BY <3>1, <1>0, MarginFacts DEF Inside, Lower, Upper, NearMin, NearMax, Abs, TypeOK, Boxes
      <3> QED
        BY <3>2, <1>2
    <2>9. BoxInv'
      BY <2>5, <2>8, <1>0 DEF BoxInv
    <2> QED
      BY <2>4, <2>7, <2>9 DEF MapInv
  <1> QED
    BY <1>1, <1>2

LEMMA InitialiseMapInv == MapInv /\ InitialiseMap => MapInv'
  <1> SUFFICES ASSUME MapInv, InitialiseMap PROVE MapInv'
    OBVIOUS
  <1>1. PICK points \in Scans(pos_LiD) :
          \/ /\ init_map' = TRUE /\ ikdtree' = init_feats \union points /\ init_feats' = {}
          \/ /\ init_map' = FALSE /\ init_feats' = init_feats \union points /\ ikdtree' = ikdtree
    BY DEF InitialiseMap
  <1>2. /\ TypeOK /\ BoxInv /\ ~init_map /\ pc = "scan" /\ pc' = "segment" /\ ikdtree = {}
        /\ UNCHANGED <<pos_LiD, LocalMap_Points, Localmap_Initialized, cub_needrm, given>>
        /\ Localmap_Initialized /\ Inside(Margin) /\ Inside(Margin - Step) /\ BoxSize
        /\ \A p \in init_feats : InBox(p, LocalMap_Points)
    BY DEF MapInv, BoxInv, InitialiseMap, boxVars
  <1>3. \A p \in points : p \in Landmarks /\ Sees(pos_LiD, p)
    BY DEF Scans
  <1>4. \A p \in points : InBox(p, LocalMap_Points)
    <2> SUFFICES ASSUME NEW p \in points PROVE InBox(p, LocalMap_Points)
      OBVIOUS
    <2>1. pos_LiD \in [Axes -> Int] /\ p \in [Axes -> Int] /\ LocalMap_Points \in Boxes
      BY <1>2, <1>3 DEF TypeOK
    <2>2. \A a \in Axes : /\ pos_LiD[a] - LocalMap_Points.vertex_min[a] > DET_RANGE
                          /\ LocalMap_Points.vertex_max[a] - pos_LiD[a] > DET_RANGE
      BY <1>2, <2>1, MarginFacts DEF Inside, Lower, Upper, Boxes
    <2> QED
      BY <1>3, <2>1, <2>2, SeenIsInside
  <1>5. TypeOK'
    BY <1>1, <1>2, <1>3 DEF TypeOK
  <1>6. Inside(Margin)' /\ Inside(Margin - Step)' /\ BoxSize'
    BY <1>2 DEF Inside, BoxSize, Lower, Upper
  <1>7. BoxInv'
    BY <1>1, <1>2, <1>4, <1>6 DEF BoxInv
  <1>8. MapIsLocal'
    BY <1>1, <1>2, <1>4 DEF MapIsLocal
  <1> QED
    BY <1>5, <1>7, <1>8 DEF MapInv

\* The lidar moves by no more than Step, so it still sees nothing beyond the box.
LEMMA HandleScanInv == MapInv /\ HandleScan => MapInv'
  <1> SUFFICES ASSUME MapInv, HandleScan PROVE MapInv'
    OBVIOUS
  <1>1. PICK place \in Places :
          /\ \A a \in Axes : Abs(place[a] - pos_LiD[a]) <= Step
          /\ pos_LiD' = place
          /\ \/ ikdtree' = ikdtree /\ given' = {}
             \/ \E points \in Scans(place), shift \in Corrections :
                  MapIncremental(points, shift) /\ given' = points
    BY DEF HandleScan
  <1>2. /\ TypeOK /\ BoxInv /\ init_map /\ init_map' = init_map /\ init_feats' = init_feats
        /\ MapIsLocal
        /\ pc = "scan" /\ pc' = "segment"
        /\ UNCHANGED <<LocalMap_Points, Localmap_Initialized, cub_needrm>>
        /\ Localmap_Initialized /\ Inside(Margin) /\ BoxSize
    BY DEF MapInv, BoxInv, HandleScan, boxVars, initVars
  <1>3. place \in [Axes -> Int] /\ pos_LiD \in [Axes -> Int] /\ LocalMap_Points \in Boxes
    BY <1>2 DEF TypeOK
  <1>4. \A a \in Axes : /\ place[a] - LocalMap_Points.vertex_min[a] > Margin - Step
                        /\ LocalMap_Points.vertex_max[a] - place[a] > Margin - Step
    <2> SUFFICES ASSUME NEW a \in Axes
                 PROVE  /\ place[a] - LocalMap_Points.vertex_min[a] > Margin - Step
                        /\ LocalMap_Points.vertex_max[a] - place[a] > Margin - Step
      OBVIOUS
    <2>1. place[a] - pos_LiD[a] <= Step /\ -Step <= place[a] - pos_LiD[a]
      BY <1>1, <1>3 DEF Abs
    <2>2. LocalMap_Points.vertex_min[a] \in Int /\ LocalMap_Points.vertex_max[a] \in Int
      BY <1>3 DEF Boxes
    <2> QED
      BY <1>2, <1>3, <2>1, <2>2, MarginFacts DEF Inside, Lower, Upper
  <1>5. \A points \in Scans(place) : \A p \in points : p \in Landmarks /\ InBox(p, LocalMap_Points)
    <2> SUFFICES ASSUME NEW points \in Scans(place), NEW p \in points
                 PROVE  p \in Landmarks /\ InBox(p, LocalMap_Points)
      OBVIOUS
    <2>1. p \in Landmarks /\ Sees(place, p)
      BY DEF Scans
    <2>2. p \in [Axes -> Int]
      BY <2>1
    <2>3. \A a \in Axes : /\ place[a] - LocalMap_Points.vertex_min[a] > DET_RANGE
                          /\ LocalMap_Points.vertex_max[a] - place[a] > DET_RANGE
      BY <1>3, <1>4, MarginFacts DEF Boxes
    <2> QED
      BY <2>1, <2>2, <2>3, <1>3, SeenIsInside
  <1>6. \A p \in ikdtree' : p \in Landmarks /\ InBox(p, LocalMap_Points)
    <2>1. CASE ikdtree' = ikdtree
      BY <2>1, <1>2 DEF MapIsLocal, TypeOK
    <2>2. CASE \E points \in Scans(place), shift \in Corrections : MapIncremental(points, shift)
      <3>1. PICK points \in Scans(place), shift \in Corrections : MapIncremental(points, shift)
        BY <2>2
      <3>2. ikdtree' \subseteq ikdtree \union points
        BY <3>1, AddsOnlyPoints
      <3> QED
        BY <3>2, <1>2, <1>5 DEF MapIsLocal, TypeOK
    <2> QED
      BY <1>1, <2>1, <2>2
  <1>7. given' \subseteq Landmarks
    BY <1>1, <1>5
  <1>8. TypeOK'
    <2>1. pos_LiD' \in Places /\ ikdtree' \subseteq Landmarks /\ pc' \in {"segment", "scan"}
      BY <1>1, <1>2, <1>6
    <2> QED
      BY <1>2, <1>7, <2>1 DEF TypeOK
  <1>9. BoxSize' /\ Inside(Margin - Step)'
    BY <1>1, <1>2, <1>4 DEF BoxSize, Inside, Lower, Upper
  <1>10. BoxInv'
    BY <1>2, <1>9 DEF BoxInv
  <1>11. MapIsLocal'
    BY <1>2, <1>6 DEF MapIsLocal
  <1> QED
    BY <1>8, <1>10, <1>11 DEF MapInv

LEMMA StutterInv == MapInv /\ UNCHANGED vars => MapInv'
  BY DEF MapInv, TypeOK, BoxInv, MapIsLocal, BoxSize, Inside, Lower, Upper, vars, boxVars, initVars

\* The invariant holds of every behaviour.
THEOREM MapInvariant == Spec => []MapInv
  <1>1. MapInv /\ [Next]_vars => MapInv'
    BY InitialiseInv, SegmentInv, InitialiseMapInv, HandleScanInv, StutterInv DEF Next
  <1> QED
    BY InitInv, <1>1, PTL DEF Spec

\* Whatever way the lidar goes, the box holds everything it can see
\* (lasermap_fov_segment).
THEOREM LidarInside == Spec => []LidarIsInside
  <1>1. MapInv => LidarIsInside
    BY DEF MapInv, BoxInv, BoxSize, Inside, Lower, Upper, LidarIsInside
  <1> QED
    BY <1>1, MapInvariant, PTL

\* The tree holds nothing outside the box (lasermap_fov_segment, map_incremental).
THEOREM TreeIsLocal == Spec => []MapIsLocal
  <1>1. MapInv => MapIsLocal
    BY DEF MapInv
  <1> QED
    BY <1>1, MapInvariant, PTL

-------------------------------------------------------------------------------
(* What a scan has seen.                                                   *)

\* The number of the interval of length n a number lies in.
LEMMA QuotientIs ==
  ASSUME NEW n \in Nat \ {0}, NEW c \in Int, NEW x \in Int, c * n <= x, x < c * n + n
  PROVE  x \div n = c
  <1> DEFINE d == x \div n
  <1>1. d \in Int /\ n * d <= x /\ x < n * d + n
    OBVIOUS
  <1> HIDE DEF d
  <1>2. \A i, j \in Int : i < j => n * i + n <= n * j
    <2> SUFFICES ASSUME NEW i \in Int, NEW j \in Int, i < j PROVE n * i + n <= n * j
      OBVIOUS
    <2>1. PICK k \in Nat : j = i + 1 + k
      <3>1. j - i - 1 \in Nat /\ j = i + 1 + (j - i - 1)
        OBVIOUS
      <3> QED
        BY <3>1
    <2>2. n * j = n * i + n + n * k /\ n * k \in Nat
      BY <2>1
    <2>3. n * i \in Int
      OBVIOUS
    <2> QED
      BY <2>2, <2>3
  <1>3. c * n = n * c /\ n * c \in Int /\ n * d \in Int
    BY <1>1
  <1>4. ~(d < c) /\ ~(c < d)
    BY <1>1, <1>2, <1>3
  <1> QED
    BY <1>1, <1>4 DEF d

\* A point that counts as one of p's voxel is in p's cell.
LEMMA VoxelIsCell ==
  ASSUME NEW p \in [Axes -> Int], NEW r \in [Axes -> Int], InVoxel(r, mid_point(p))
  PROVE  Cell(r) = Cell(p)
  <1> SUFFICES ASSUME NEW a \in Axes
               PROVE  r[a] \div filter_size_map_min = p[a] \div filter_size_map_min
    BY DEF Cell
  <1> DEFINE n == filter_size_map_min
             c == p[a] \div n
             x == r[a]
  <1>1. n \in Nat \ {0} /\ c \in Int /\ x \in Int
    OBVIOUS
  <1>2. 2 * Abs(x - (c * n + n \div 2)) < n
    BY DEF InVoxel, mid_point, Cell
  <1> HIDE DEF c, n, x
  <1>3. PICK w \in Int : w = c * n
    BY <1>1
  <1>4. PICK h \in Nat : h = n \div 2 /\ 2 * h <= n /\ n <= 2 * h + 1
    BY <1>1
  <1>5. 2 * Abs(x - (w + h)) < n
    BY <1>2, <1>3, <1>4
  <1>6. w <= x /\ x < w + n
    BY <1>1, <1>4, <1>5 DEF Abs
  <1>7. x \div n = c
    BY <1>1, <1>3, <1>6, QuotientIs
  <1> QED
    BY <1>7 DEF x, n, c

\* What the downsampling takes from a cell of the tree, it gives another point.
LEMMA CellsStayFilled ==
  ASSUME NEW points, NEW shift, points \subseteq [Axes -> Int], ikdtree \subseteq [Axes -> Int],
         MapIncremental(points, shift)
  PROVE  \A p \in points : \E q \in ikdtree' : Cell(q) = Cell(p)
  <1> DEFINE Can(fate) == {p \in points : fate \in Fates(p, [a \in Axes |-> p[a] + shift[a]])}
  <1>1. PICK add \in SUBSET Can("downsample"), asis \in SUBSET Can("add") :
          /\ points \ (add \union asis) \subseteq Can("drop")
          /\ \E kept \in [{Cell(p) : p \in add} -> ikdtree \union add] :
               /\ \A c \in {Cell(p) : p \in add} : kept[c] \in Closest(ikdtree \union add, c)
               /\ ikdtree' = {p \in ikdtree : Cell(p) \notin {Cell(q) : q \in add}} \union Range(kept)
                               \union asis
    BY DEF MapIncremental
  <1> DEFINE cells == {Cell(p) : p \in add}
  <1>2. PICK kept \in [cells -> ikdtree \union add] :
          /\ \A c \in cells : kept[c] \in Closest(ikdtree \union add, c)
          /\ ikdtree' = {p \in ikdtree : Cell(p) \notin cells} \union Range(kept) \union asis
    BY <1>1
  <1>3. \A c \in cells : kept[c] \in ikdtree' /\ Cell(kept[c]) = c
    BY <1>2 DEF Range, Closest
  <1>4. \A p \in ikdtree : \E q \in ikdtree' : Cell(q) = Cell(p)
    BY <1>2, <1>3
  <1>5. ASSUME NEW p \in points PROVE \E q \in ikdtree' : Cell(q) = Cell(p)
    <2>1. CASE p \in add
      BY <1>3, <2>1
    <2>2. CASE p \in asis
      BY <1>2, <2>2
    <2>3. CASE p \in Can("drop")
      <3>1. PICK near \in Nearest_Points([a \in Axes |-> p[a] + shift[a]]) :
              ~(\A r \in near : ~InVoxel(r, mid_point(p)))
        BY <2>3 DEF Fates
      <3>2. PICK r \in near : InVoxel(r, mid_point(p))
        BY <3>1
      <3>3. r \in ikdtree
        BY <3>1 DEF Nearest_Points
      <3>4. Cell(r) = Cell(p)
        BY <3>2, <3>3, VoxelIsCell
      <3> QED
        BY <1>4, <3>3, <3>4
    <2> QED
      BY <1>1, <2>1, <2>2, <2>3
  <1> QED
    BY <1>5

\* Before the map is built, map_incremental is given nothing.
SeenInv == (~init_map => given = {}) /\ SeenIsMapped

LEMMA SeenStep == MapInv /\ SeenInv /\ [Next]_vars => SeenInv'
  <1> SUFFICES ASSUME MapInv, SeenInv, [Next]_vars PROVE SeenInv'
    OBVIOUS
  <1> USE DEF SeenInv
  <1>1. CASE InitialiseLocalMap \/ lasermap_fov_segment
    BY <1>1 DEF InitialiseLocalMap, lasermap_fov_segment, initVars, SeenIsMapped
  <1>2. CASE InitialiseMap
    BY <1>2 DEF InitialiseMap, SeenIsMapped
  <1>3. CASE HandleScan
    <2>1. init_map' /\ ikdtree \subseteq Landmarks
      BY <1>3 DEF HandleScan, initVars, MapInv, TypeOK
    <2>2. \/ given' = {}
          \/ \E points \in SUBSET Landmarks, shift \in Corrections :
               MapIncremental(points, shift) /\ given' = points
      BY <1>3 DEF HandleScan, Scans
    <2>3. CASE given' = {}
      BY <2>1, <2>3 DEF SeenIsMapped
    <2>4. CASE \E points \in SUBSET Landmarks, shift \in Corrections :
                 MapIncremental(points, shift) /\ given' = points
      <3>1. PICK points \in SUBSET Landmarks, shift \in Corrections :
              MapIncremental(points, shift) /\ given' = points
        BY <2>4
      <3>2. \A p \in points : \E q \in ikdtree' : Cell(q) = Cell(p)
        BY <2>1, <3>1, CellsStayFilled
      <3> QED
        BY <2>1, <3>1, <3>2 DEF SeenIsMapped, Cell
    <2> QED
      BY <2>2, <2>3, <2>4
  <1>4. CASE UNCHANGED vars
    BY <1>4 DEF vars, initVars, SeenIsMapped, Cell
  <1> QED
    BY <1>1, <1>2, <1>3, <1>4 DEF Next

\* Every voxel a scan has a point in has one in the map when the scan is done,
\* wherever the update has moved it to (map_incremental, Add_Points).
THEOREM SeenAreMapped == Spec => []SeenIsMapped
  <1>1. Init => SeenInv
    BY DEF Init, SeenInv, SeenIsMapped
  <1>2. SeenInv => SeenIsMapped
    BY DEF SeenInv
  <1> QED
    BY <1>1, <1>2, SeenStep, MapInvariant, PTL DEF Spec
===============================================================================
