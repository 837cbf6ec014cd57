---------------------------- MODULE NavigationProofs ----------------------------
(***************************************************************************)
(* Proofs about the path follower among its nodes, for any paths, queues,  *)
(* drifts and jumps of the localization.                                   *)
(***************************************************************************)
EXTENDS Navigation, WellFoundedInduction, TLAPS

\* Robot, odometry and transform are at places.
PlacesOK ==
  /\ place \in Positions /\ odom \in Positions /\ map_odom \in Positions \union {None}

\* While a path is followed there is one, and the index is a natural number.
PathInv ==
  /\ global_path \in Seq(Positions)
  /\ plan => global_path # <<>>
  /\ prune_index \in Nat
  /\ robot \in Int /\ PlacesOK
  /\ IndexInPath

LEMMA LeastNatural ==
  ASSUME NEW S \in SUBSET Nat, S # {}
  PROVE  \E least \in S : \A n \in S : least <= n
<1>1. PICK x \in S : \A y \in S : ~ (<<y, x>> \in OpToRel(<, Nat))
  BY NatLessThanWellFounded, WFMin
<1>2. \A y \in S : ~ (y < x)
  BY <1>1 DEF OpToRel
<1> QED BY <1>2

\* FindNearstPose returns an index of the path, from wherever it starts: an index
\* that is left over from a longer path too.
LEMMA NearestIsInPath ==
  ASSUME NEW path \in Seq(Positions), path # <<>>, NEW index \in Nat, NEW pose \in Int
  PROVE  FindNearstPose(path, index, pose) \in 0 .. Len(path) - 1
<1> DEFINE rises == {i \in index .. Len(path) - 1 : Rises(path, index, pose, i)}
           i == CHOOSE k \in rises : \A j \in rises : k <= j
<1>1. Len(path) \in Nat /\ Len(path) > 0
  OBVIOUS
<1>2. CASE rises = {}
  BY <1>1, <1>2 DEF FindNearstPose
<1>3. CASE rises # {}
  <2>1. PICK least \in rises : \A j \in rises : least <= j
    <3>1. rises \in SUBSET Nat /\ rises # {}
      BY <1>1, <1>3
    <3> HIDE DEF rises
    <3> QED BY <3>1, LeastNatural
  <2>2. i \in rises
    BY <2>1
  <2>3. i \in index .. Len(path) - 1 /\ i > 0
    BY <2>2 DEF Rises
  <2>4. FindNearstPose(path, index, pose) = IF IsTooFarAhead(path, pose, i) THEN i - 1 ELSE i
    BY <1>3 DEF FindNearstPose
  <2> HIDE DEF i
  <2> QED BY <1>1, <2>3, <2>4
<1> QED BY <1>2, <1>3

\* If FindNearstPose returns the last pose, the walk came to the end, and the goal is
\* no farther than what lay ahead; or it stopped there and did not go back.
LEMMA LastIsNear ==
  ASSUME NEW path \in Seq(Positions), NEW index \in Nat, index < Len(path) - 1,
         NEW pose \in Int, FindNearstPose(path, index, pose) = Len(path) - 1
  PROVE  NearGoal(path, index, pose)
<1> DEFINE n == Len(path)
           To(i) == Distance(pose, path[i])
           rises == {i \in index .. n - 1 : Rises(path, index, pose, i)}
<1>1. n \in Nat /\ n > 1 /\ \A i \in 1 .. n : path[i] \in Int /\ To(i) \in Nat
  <2>1. \A i \in 1 .. n : path[i] \in Positions
    OBVIOUS
  <2>2. pose \in Int /\ \A i \in 1 .. n : path[i] \in Int
    BY <2>1, ControllerAssumption
  <2>3. \A a, b \in Int : Distance(a, b) \in Nat
    BY DEF Distance
  <2>4. \A i \in 1 .. n : To(i) \in Nat
    BY <2>2, <2>3
  <2>5. n \in Nat /\ n > 1
    OBVIOUS
  <2> QED BY <2>2, <2>4, <2>5
<1>2. CASE rises = {}
  <2>0. \A i \in index .. n - 1 : ~Rises(path, index, pose, i)
    BY <1>2
  <2> HIDE DEF n, To
  <2> DEFINE nearer == {k \in 0 .. n - 1 - index : To(n - k) < To(n)}
  <2>1. CASE nearer = {}
    <3>1. ASSUME NEW i \in index + 1 .. n PROVE To(n) <= To(i)
      <4>1. n - i \in 0 .. n - 1 - index /\ n - (n - i) = i /\ i \in 1 .. n
        BY <1>1
      <4>2. ~(To(i) < To(n))
        BY <2>1, <4>1
      <4>3. To(i) \in Nat /\ To(n) \in Nat
        BY <1>1, <4>1
      <4> QED BY <4>2, <4>3
    <3>2. index < n - 1
      BY DEF n
    <3> QED BY <3>1, <3>2 DEF NearGoal, n, To
  <2>2. CASE nearer # {}
    <3>1. PICK k \in nearer : \A j \in nearer : k <= j
      <4>1. nearer \in SUBSET Nat
        BY <1>1
      <4> HIDE DEF nearer
      <4> QED BY <2>2, <4>1, LeastNatural
    <3>2. k \in 1 .. n - 1 - index /\ To(n - k) < To(n)
      <4>1. k \in 0 .. n - 1 - index /\ To(n - k) < To(n)
        OBVIOUS
      <4>2. k # 0
        <5>1. To(n) \in Nat /\ n - 0 = n
          BY <1>1
        <5> QED BY <4>1, <5>1
      <4> QED BY <4>1, <4>2
    <3>3. k - 1 \in 0 .. n - 1 - index /\ k - 1 \notin nearer
      <4> HIDE DEF nearer
      <4> QED BY <1>1, <3>1, <3>2
    <3>4. ~(To(n - (k - 1)) < To(n))
      BY <3>3
    <3>5. PICK i \in Nat : i = n - k /\ i \in index .. n - 1 /\ i > 0 /\ i + 1 = n - (k - 1)
                           /\ i \in 1 .. n /\ i + 1 \in 1 .. n
      <4>1. n - k \in Nat /\ n - k \in index .. n - 1 /\ n - k > 0 /\ (n - k) + 1 = n - (k - 1)
            /\ n - k \in 1 .. n /\ (n - k) + 1 \in 1 .. n
        BY <1>1, <3>2
      <4> QED BY <4>1
    <3>6. To(i) < To(i + 1)
      <4>1. To(i) \in Nat /\ To(i + 1) \in Nat /\ To(n) \in Nat
        BY <1>1, <3>5
      <4> QED BY <3>2, <3>4, <3>5, <4>1
    <3>7. Rises(path, index, pose, i)
      <4>1. i - 1 + 1 = i
        BY <3>5
      <4>2. To(i) \in Nat /\ To(i + 1) \in Nat
        BY <1>1, <3>5
      <4>3. To(i + 1) > To(i)
        BY <3>6, <4>2
      <4> QED BY <3>5, <4>1, <4>3 DEF Rises, Pose, To, n
    <3> QED BY <2>0, <3>5, <3>7
  <2> QED BY <2>1, <2>2
<1>3. CASE rises # {}
  <2> DEFINE i == CHOOSE k \in rises : \A j \in rises : k <= j
  <2>1. PICK least \in rises : \A j \in rises : least <= j
    <3>1. rises \in SUBSET Nat
      BY <1>1
    <3> HIDE DEF rises
    <3> QED BY <1>3, <3>1, LeastNatural
  <2>2. i \in rises
    BY <2>1
  <2>3. i \in index .. n - 1 /\ i > 0
    BY <2>2 DEF Rises
  <2>4. FindNearstPose(path, index, pose) = IF IsTooFarAhead(path, pose, i) THEN i - 1 ELSE i
    BY <1>3 DEF FindNearstPose
  <2> HIDE DEF i
  <2>5. i = n - 1 /\ ~IsTooFarAhead(path, pose, n - 1)
    <3>1. (IF IsTooFarAhead(path, pose, i) THEN i - 1 ELSE i) = n - 1
      BY <2>4
    <3>2. n \in Nat /\ i \in Int /\ i <= n - 1
      BY <1>1, <2>3
    <3> HIDE DEF n
    <3>3. ~IsTooFarAhead(path, pose, i) /\ i = n - 1
      BY <3>1, <3>2
    <3> QED BY <3>3
  <2>6. PICK p, q, r \in Int : p = pose /\ q = path[n - 1] /\ r = path[n]
    BY <1>1, ControllerAssumption
  <2>7. ~((r - p) * (q - p) > 0) \/ ~(Distance(p, q) > prune_ahead_dist)
    <3>1. (n - 1) + 1 = n /\ ((n - 1) - 1) + 1 = n - 1
      BY <1>1
    <3> QED BY <2>5, <2>6, <3>1 DEF IsTooFarAhead, Pose
  <2>8. CASE ~(Distance(p, q) > prune_ahead_dist)
    <3>1. Distance(p, q) <= prune_ahead_dist
      BY <2>6, <2>8, ControllerAssumption DEF Distance
    <3> QED BY <2>6, <3>1 DEF NearGoal
  <2>9. CASE ~((r - p) * (q - p) > 0)
    <3>1. \A a, b \in Int : (a > 0 /\ b > 0) \/ (a < 0 /\ b < 0) => a * b > 0
      OBVIOUS
    <3>2. ~(r - p > 0 /\ q - p > 0) /\ ~(r - p < 0 /\ q - p < 0)
      <4>1. PICK u, v \in Int : u = r - p /\ v = q - p
        BY <2>6
      <4>2. ~(u * v > 0)
        BY <2>9, <4>1
      <4>3. ~(u > 0 /\ v > 0) /\ ~(u < 0 /\ v < 0)
        BY <3>1, <4>2
      <4> QED BY <4>1, <4>3
    <3>3. Distance(p, r) <= Distance(q, r)
      BY <2>6, <3>2 DEF Distance
    <3> QED BY <2>6, <3>3 DEF NearGoal
  <2> QED BY <2>7, <2>8, <2>9
<1> QED BY <1>2, <1>3

\* Wherever robot and odometry are, the pose that is looked up is a number.
LEMMA PoseIsNumber ==
  ASSUME NEW transform \in Positions \union {None}, NEW at \in Positions, NEW origin \in Positions
  PROVE  Localized(transform, at, origin) \in Int
<1>1. at \in Int /\ origin \in Int /\ (transform # None => transform \in Int)
  BY ControllerAssumption
<1> QED BY <1>1 DEF Localized

\* One step per action; the others leave the controller alone.
LEMMA PathStep == PathInv /\ [Next]_vars => PathInv'
<1> SUFFICES ASSUME PathInv, [Next]_vars PROVE PathInv' OBVIOUS
<1>0. \/ PlacesOK' /\ (robot' = robot \/ robot' = Localized(map_odom', place', odom'))
      \/ UNCHANGED <<robot, place, odom, map_odom>>
  <2>1. ASSUME Register PROVE PlacesOK' /\ robot' = Localized(map_odom', place', odom')
    <3>1. PICK T_map_scan \in Positions : map_odom' = T_map_scan
      BY <2>1 DEF Register
    <3> QED BY <2>1, <3>1 DEF Register, PathInv, PlacesOK, worldVars
  <2>2. ASSUME Drift PROVE PlacesOK' /\ robot' = Localized(map_odom', place', odom')
    BY <2>2 DEF Drift, PathInv, PlacesOK
  <2>3. ASSUME Base PROVE PlacesOK' /\ robot' = Localized(map_odom', place', odom')
    BY <2>3 DEF Base, PathInv, PlacesOK
  <2>4. \/ Register \/ Drift \/ Base
        \/ UNCHANGED <<robot, place, odom, map_odom>>
    BY DEF Next, vars, Scan, Detect, DivergeCallback, InitialPoseCallback, ReceiveStatus,
           ReceivePath, PlanTimer, Plan, Idle, Succeed, Follow, GlobalPathCallback,
           LocalizationStatusCallback, navigationVars, worldVars
  <2> QED BY <2>1, <2>2, <2>3, <2>4
<1>1. robot' \in Int /\ PlacesOK'
  <2>1. PlacesOK' => Localized(map_odom', place', odom') \in Int
    BY PoseIsNumber DEF PlacesOK
  <2> QED BY <1>0, <2>1 DEF PathInv, PlacesOK
<1> USE DEF IndexInPath
<1>2. ASSUME Idle PROVE PathInv' BY <1>1, <1>2 DEF Idle, PathInv
<1>3. ASSUME Succeed PROVE PathInv' BY <1>1, <1>3 DEF Succeed, PathInv
<1>4. ASSUME Follow PROVE PathInv'
  <2>1. prune_index' \in 0 .. Len(global_path) - 1
    BY <1>4, NearestIsInPath DEF Follow, PathInv
  <2>2. Len(global_path) \in Nat BY DEF PathInv
  <2> QED BY <1>1, <1>4, <2>1, <2>2 DEF Follow, PathInv
<1>5. ASSUME NEW path \in Paths, GlobalPathCallback(path) PROVE PathInv'
  <2>1. path \in Seq(Positions) BY ControllerAssumption
  <2> QED BY <1>1, <1>5, <2>1 DEF GlobalPathCallback, PathInv
<1>6. ASSUME NEW data, LocalizationStatusCallback(data) PROVE PathInv'
  BY <1>1, <1>6 DEF LocalizationStatusCallback, PathInv
<1>7. CASE Base BY <1>1, <1>7 DEF Base, PathInv
<1>8. ASSUME UNCHANGED controllerVars PROVE PathInv' BY <1>1, <1>8 DEF controllerVars, PathInv
<1>9. CASE Scan \/ Detect \/ DivergeCallback \/ InitialPoseCallback \/ Register \/ Drift
  BY <1>8, <1>9 DEF Scan, Detect, DivergeCallback, InitialPoseCallback, Register, Drift
<1>10. CASE ReceiveStatus BY <1>6, <1>10 DEF ReceiveStatus
<1>11. CASE ReceivePath BY <1>5, <1>11 DEF ReceivePath
<1>12. CASE PlanTimer BY <1>2, <1>3, <1>4, <1>12 DEF PlanTimer, Plan
<1>13. CASE UNCHANGED vars BY <1>8, <1>13 DEF vars
<1> QED BY <1>7, <1>9, <1>10, <1>11, <1>12, <1>13 DEF Next

LEMMA PathInvariant == Spec => []PathInv
<1>1. Init => PathInv
  BY NavigationAssumption DEF Init, ControllerInit, PathInv, PlacesOK, IndexInPath
<1> QED BY <1>1, PathStep, PTL DEF Spec

\* The queues stay within their size (the oldest message is lost), and what the nodes
\* hold has its type.
LEMMA EnqueueKeepsSize ==
  ASSUME NEW queue \in Seq(BOOLEAN), Len(queue) <= QueueSize, NEW msg \in BOOLEAN
  PROVE  Enqueue(queue, msg) \in Seq(BOOLEAN) /\ Len(Enqueue(queue, msg)) <= QueueSize
<1>1. CASE Len(queue) = QueueSize
  <2>1. queue # <<>> /\ Len(queue) \in Nat BY <1>1, NavigationAssumption
  <2>2. Tail(queue) \in Seq(BOOLEAN) /\ Len(Tail(queue)) = Len(queue) - 1 BY <2>1
  <2>3. Append(Tail(queue), msg) \in Seq(BOOLEAN) /\ Len(Append(Tail(queue), msg)) = Len(queue)
    BY <2>1, <2>2
  <2>4. Enqueue(queue, msg) = Append(Tail(queue), msg) BY <1>1 DEF Enqueue
  <2>5. Enqueue(queue, msg) \in Seq(BOOLEAN) BY <2>3, <2>4
  <2>6. Len(Enqueue(queue, msg)) = Len(queue) BY <2>3, <2>4
  <2> QED BY <2>5, <2>6
<1>2. CASE Len(queue) # QueueSize
  <2>1. Append(queue, msg) \in Seq(BOOLEAN) /\ Len(Append(queue, msg)) = Len(queue) + 1
    OBVIOUS
  <2>2. Enqueue(queue, msg) = Append(queue, msg) BY <1>2 DEF Enqueue
  <2>3. Len(queue) + 1 <= QueueSize BY <1>2, NavigationAssumption
  <2>4. Enqueue(queue, msg) \in Seq(BOOLEAN) BY <2>1, <2>2
  <2>5. Len(Enqueue(queue, msg)) = Len(queue) + 1 BY <2>1, <2>2
  <2> QED BY <2>3, <2>4, <2>5
<1> QED BY <1>1, <1>2

LEMMA TypeStep == PathInv /\ TypeOK /\ [Next]_vars => TypeOK'
<1> SUFFICES ASSUME PathInv, PathInv', TypeOK, [Next]_vars PROVE TypeOK'
  BY PathStep
<1> DEFINE ControllerOK ==
             /\ diverge \in BOOLEAN /\ plan \in BOOLEAN /\ cmd_vel \in {-1, 0, 1}
             /\ near_goal \in BOOLEAN /\ followed \in BOOLEAN /\ fresh \in BOOLEAN
             /\ success \in BOOLEAN
           QueuesOK ==
             /\ to_controller \in Seq(BOOLEAN) /\ Len(to_controller) <= QueueSize
             /\ to_relocalization \in Seq(BOOLEAN) /\ Len(to_relocalization) <= QueueSize
           NodesOK ==
             /\ scans \in 0 .. 2 /\ localize_success \in BOOLEAN /\ reported \in BOOLEAN
             /\ previous_icp_result \in Int
<1>0. ControllerOK /\ QueuesOK /\ NodesOK BY DEF TypeOK
<1>1. ControllerOK' /\ QueuesOK' /\ NodesOK' => TypeOK' BY DEF TypeOK, PathInv, PlacesOK
<1>2. ControllerOK'
  <2>1. ASSUME Idle \/ Succeed PROVE ControllerOK' BY <1>0, <2>1 DEF Idle, Succeed
  <2>2. ASSUME Follow PROVE ControllerOK'
    <3>1. Direction(global_path, prune_index', robot) \in {-1, 0, 1} BY DEF Direction
    <3>2. NearGoal(global_path, prune_index, robot) \in BOOLEAN BY DEF NearGoal
    <3> QED BY <1>0, <2>2, <3>1, <3>2 DEF Follow
  <2>3. ASSUME NEW path \in Paths, GlobalPathCallback(path) PROVE ControllerOK'
    BY <1>0, <2>3 DEF GlobalPathCallback
  <2>4. ASSUME NEW data, LocalizationStatusCallback(data) PROVE ControllerOK'
    BY <1>0, <2>4 DEF LocalizationStatusCallback
  <2>5. CASE Base BY <1>0, <2>5 DEF Base
  <2>6. ASSUME UNCHANGED controllerVars PROVE ControllerOK' BY <1>0, <2>6 DEF controllerVars
  <2>7. CASE Scan \/ Detect \/ DivergeCallback \/ InitialPoseCallback \/ Register \/ Drift
    BY <2>6, <2>7 DEF Scan, Detect, DivergeCallback, InitialPoseCallback, Register, Drift
  <2>8. CASE ReceiveStatus BY <2>4, <2>8 DEF ReceiveStatus
  <2>9. CASE ReceivePath BY <2>3, <2>9 DEF ReceivePath
  <2>10. CASE PlanTimer BY <2>1, <2>2, <2>10 DEF PlanTimer, Plan
  <2>11. CASE UNCHANGED vars BY <2>6, <2>11 DEF vars
  <2> QED BY <2>5, <2>7, <2>8, <2>9, <2>10, <2>11 DEF Next
<1>3. QueuesOK'
  <2>1. ASSUME Detect PROVE QueuesOK' BY <1>0, <2>1, EnqueueKeepsSize DEF Detect
  <2>2. \A queue \in Seq(BOOLEAN) : queue # <<>> /\ Len(queue) <= QueueSize =>
          Tail(queue) \in Seq(BOOLEAN) /\ Len(Tail(queue)) <= QueueSize
    BY NavigationAssumption
  <2>3. ASSUME DivergeCallback PROVE QueuesOK' BY <1>0, <2>2, <2>3 DEF DivergeCallback
  <2>4. ASSUME ReceiveStatus PROVE QueuesOK' BY <1>0, <2>2, <2>4 DEF ReceiveStatus, navigationVars
  <2>5. CASE UNCHANGED topicVars BY <1>0, <2>5 DEF topicVars
  <2>6. Detect \/ DivergeCallback \/ ReceiveStatus \/ UNCHANGED topicVars
    BY DEF Next, vars, Scan, InitialPoseCallback, Register, Drift, ReceivePath, PlanTimer, Base,
           navigationVars, topicVars
  <2> QED BY <2>1, <2>3, <2>4, <2>5, <2>6
<1>4. NodesOK'
  <2>1. CASE DivergeCallback
    <3>1. Head(to_relocalization) \in BOOLEAN BY <1>0, <2>1 DEF DivergeCallback
    <3> QED BY <1>0, <2>1, <3>1 DEF DivergeCallback
  <2>2. CASE InitialPoseCallback
    <3>1. place \in Int /\ odom \in Int BY ControllerAssumption DEF PathInv, PlacesOK
    <3>2. PICK estimate \in Positions : previous_icp_result' = estimate - (place - odom)
      BY <2>2 DEF InitialPoseCallback
    <3>3. previous_icp_result' \in Int BY <3>1, <3>2, ControllerAssumption
    <3> QED BY <1>0, <2>2, <3>3 DEF InitialPoseCallback
  <2>3. CASE Register
    <3>1. previous_icp_result' \in Int BY <2>3, ControllerAssumption DEF Register
    <3> QED BY <1>0, <2>3, <3>1 DEF Register
  <2>4. CASE Scan BY <1>0, <2>4 DEF Scan, relocalizationVars
  <2>5. CASE UNCHANGED <<scans, relocalizationVars>> BY <1>0, <2>5 DEF relocalizationVars
  <2>6. \/ DivergeCallback \/ InitialPoseCallback \/ Register \/ Scan
        \/ UNCHANGED <<scans, relocalizationVars>>
    BY DEF Next, vars, Detect, Drift, ReceiveStatus, ReceivePath, PlanTimer, Base, navigationVars,
           relocalizationVars
  <2> QED BY <2>1, <2>2, <2>3, <2>4, <2>5, <2>6
<1> QED BY <1>1, <1>2, <1>3, <1>4

\* The type invariant of the four nodes; no queue is ever longer than its size.
THEOREM TypeCorrect == Spec => []TypeOK
<1>1. Init => TypeOK
  <2>1. <<>> \in Seq(BOOLEAN) /\ Len(<<>>) <= QueueSize BY NavigationAssumption
  <2>2. <<>> \in Seq(Positions) OBVIOUS
  <2> SUFFICES ASSUME Init PROVE TypeOK OBVIOUS
  <2>3. /\ plan \in BOOLEAN /\ diverge \in BOOLEAN /\ ~plan /\ near_goal \in BOOLEAN
        /\ followed \in BOOLEAN /\ fresh \in BOOLEAN /\ success \in BOOLEAN
        /\ localize_success \in BOOLEAN /\ reported \in BOOLEAN
    BY DEF Init, ControllerInit
  <2>4. /\ global_path = <<>> /\ to_controller = <<>> /\ to_relocalization = <<>>
        /\ prune_index \in Nat /\ cmd_vel \in {-1, 0, 1} /\ robot \in Int
        /\ scans \in 0 .. 2 /\ map_odom \in Positions \union {None}
        /\ place \in Positions /\ odom \in Positions /\ previous_icp_result \in Int
    BY NavigationAssumption DEF Init, ControllerInit
  <2> QED BY <2>1, <2>2, <2>3, <2>4 DEF TypeOK
<1> QED BY <1>1, TypeStep, PathInvariant, PTL DEF Spec

\* Once a path has been followed for a step, prune_index is in it (FindNearstPose),
\* also when the path has replaced a longer one.
THEOREM IndexIsInPath == Spec => []IndexInPath
<1>1. PathInv => IndexInPath BY DEF PathInv
<1> QED BY <1>1, PathInvariant, PTL

\* A divergence ends the plan, and no later path starts one (GlobalPathCallback,
\* LocalizationStatusCallback).
THEOREM RobotStopsForGood == Spec => []StopsForGood
<1>1. Init => StopsForGood
  BY DEF Init, ControllerInit, StopsForGood
<1>2. StopsForGood /\ [Next]_vars => StopsForGood'
  <2> SUFFICES ASSUME StopsForGood, [Next]_vars PROVE StopsForGood' OBVIOUS
  <2> USE DEF StopsForGood
  <2>1. ASSUME Plan PROVE StopsForGood' BY <2>1 DEF Plan, Idle, Succeed, Follow
  <2>2. ASSUME NEW path, GlobalPathCallback(path) PROVE StopsForGood'
    BY <2>2 DEF GlobalPathCallback
  <2>3. ASSUME NEW data, LocalizationStatusCallback(data) PROVE StopsForGood'
    BY <2>3 DEF LocalizationStatusCallback
  <2>4. CASE Base BY <2>4 DEF Base
  <2>5. ASSUME UNCHANGED controllerVars PROVE StopsForGood' BY <2>5 DEF controllerVars
  <2>6. CASE Scan \/ Detect \/ DivergeCallback \/ InitialPoseCallback \/ Register \/ Drift
    BY <2>5, <2>6 DEF Scan, Detect, DivergeCallback, InitialPoseCallback, Register, Drift
  <2>7. CASE ReceiveStatus BY <2>3, <2>7 DEF ReceiveStatus
  <2>8. CASE ReceivePath BY <2>2, <2>8 DEF ReceivePath
  <2>9. CASE PlanTimer BY <2>1, <2>9 DEF PlanTimer
  <2>10. CASE UNCHANGED vars BY <2>5, <2>10 DEF vars
  <2> QED BY <2>4, <2>6, <2>7, <2>8, <2>9, <2>10 DEF Next
<1> QED BY <1>1, <1>2, PTL DEF Spec

\* A path that is followed from its begin has no index but by a Plan of its own.
NearInv ==
  plan /\ fresh /\ prune_index # 0 =>
    followed /\ (prune_index = Len(global_path) - 1 => near_goal)

LEMMA NearStep == PathInv /\ NearInv /\ [Next]_vars => NearInv'
<1> SUFFICES ASSUME PathInv, NearInv, [Next]_vars PROVE NearInv' OBVIOUS
<1> USE DEF NearInv
<1>1. ASSUME Idle PROVE NearInv' BY <1>1 DEF Idle
<1>2. ASSUME Succeed PROVE NearInv' BY <1>2 DEF Succeed
<1>3. ASSUME Follow PROVE NearInv'
  <2> SUFFICES ASSUME fresh, prune_index' = Len(global_path) - 1
               PROVE  near_goal'
    BY <1>3 DEF Follow
  <2>1. /\ global_path \in Seq(Positions) /\ global_path # <<>>
        /\ prune_index \in Nat /\ robot \in Int
    BY <1>3 DEF Follow, PathInv
  <2>2. prune_index < Len(global_path) - 1
    <3>1. prune_index # Len(global_path) - 1 /\ plan
      BY <1>3 DEF Follow, AtGoal
    <3>2. prune_index = 0 \/ prune_index < Len(global_path)
      BY <3>1 DEF PathInv, IndexInPath
    <3>3. Len(global_path) \in Nat /\ Len(global_path) > 0
      BY <2>1
    <3> QED BY <2>1, <3>1, <3>2, <3>3
  <2>3. FindNearstPose(global_path, prune_index, robot) = Len(global_path) - 1
    BY <1>3 DEF Follow
  <2> QED BY <1>3, <2>1, <2>2, <2>3, LastIsNear DEF Follow
<1>4. ASSUME NEW path, GlobalPathCallback(path) PROVE NearInv' BY <1>4 DEF GlobalPathCallback
<1>5. ASSUME NEW data, LocalizationStatusCallback(data) PROVE NearInv'
  BY <1>5 DEF LocalizationStatusCallback
<1>6. CASE Base BY <1>6 DEF Base
<1>7. ASSUME UNCHANGED controllerVars PROVE NearInv' BY <1>7 DEF controllerVars
<1>8. CASE Scan \/ Detect \/ DivergeCallback \/ InitialPoseCallback \/ Register \/ Drift
  BY <1>7, <1>8 DEF Scan, Detect, DivergeCallback, InitialPoseCallback, Register, Drift
<1>9. CASE ReceiveStatus BY <1>5, <1>9 DEF ReceiveStatus
<1>10. CASE ReceivePath BY <1>4, <1>10 DEF ReceivePath
<1>11. CASE PlanTimer BY <1>1, <1>2, <1>3, <1>11 DEF PlanTimer, Plan
<1>12. CASE UNCHANGED vars BY <1>7, <1>12 DEF vars
<1> QED BY <1>6, <1>8, <1>9, <1>10, <1>11, <1>12 DEF Next

\* Only Succeed says success: at the goal, or with the last pose's index.
LEMMA SuccessStep ==
  ASSUME PathInv, NearInv, [Next]_vars,
         success', ~success, fresh, Len(global_path) > 1
  PROVE  Distance(robot, Last(global_path)) <= goal_dist_tolerance \/ near_goal
<1>1. Succeed
  <2>1. ~success' \/ success' = success \/ Succeed
    BY DEF Next, PlanTimer, Plan, Idle, Follow, ReceivePath, GlobalPathCallback, ReceiveStatus,
           LocalizationStatusCallback, Base, Scan, Detect, DivergeCallback,
           InitialPoseCallback, Register, Drift, controllerVars, vars
  <2> QED BY <2>1
<1>2. plan /\ AtGoal
  BY <1>1 DEF Succeed
<1>3. global_path \in Seq(Positions) /\ Len(global_path) \in Nat
  BY DEF PathInv
<1>4. CASE prune_index = Len(global_path) - 1
  <2>1. PICK n \in Nat : n = Len(global_path) /\ n > 1
    BY <1>3
  <2>2. prune_index # 0
    BY <1>4, <2>1
  <2> QED BY <1>2, <1>4, <2>2 DEF NearInv
<1>5. CASE Distance(robot, Pose(global_path, Len(global_path) - 1)) <= goal_dist_tolerance
  <2>1. Pose(global_path, Len(global_path) - 1) = Last(global_path)
    <3>1. (Len(global_path) - 1) + 1 = Len(global_path)
      BY <1>3
    <3> QED BY <3>1 DEF Pose, Last
  <2> QED BY <1>5, <2>1
<1> QED BY <1>2, <1>4, <1>5 DEF AtGoal

\* "Planning Success!" is said near the goal (Plan, FindNearstPose), for any paths
\* and jumps of the localization.
THEOREM SuccessIsNearGoal == Spec => SuccessNearGoal
<1>1. Init => NearInv
  BY DEF Init, ControllerInit, NearInv
<1>2. PathInv /\ NearInv /\ [Next]_vars =>
        (success' /\ ~success /\ fresh /\ Len(global_path) > 1 =>
           Distance(robot, Last(global_path)) <= goal_dist_tolerance \/ near_goal)
  BY SuccessStep
<1> QED BY <1>1, <1>2, PathInvariant, NearStep, PTL DEF Spec, SuccessNearGoal
===============================================================================
