------------------------------- MODULE Navigation -------------------------------
(***************************************************************************)
(* Four ROS nodes and the topic /diverge between them:                     *)
(*                                                                         *)
(*   obstacle_detector (segmentation.cpp) compares the last scan but one   *)
(*     with the map, and says whether they fit;                            *)
(*   relocalization (relocalization.cpp) registers the scan to the map     *)
(*     while they do not, or its last registration failed, and broadcasts  *)
(*     the transform map -> odom;                                          *)
(*   the controller (Controller) stops when they do not;                   *)
(*   the odometry, which may drift.                                        *)
(*                                                                         *)
(* A transform is how far a frame's origin is from the map's, on the line  *)
(* of Controller.  The registration finds where the lidar is in the map,   *)
(* and that is broadcast as the place of the odometry's origin.            *)
(*                                                                         *)
(* A node's callbacks and timer run in one thread.  A subscriber's queue   *)
(* is bounded, and loses its oldest message when it is full.               *)
(***************************************************************************)
EXTENDS Controller, SequencesExt

CONSTANTS QueueSize,  \* messages a subscriber's queue holds (5)
          Starts,     \* where the odometry may begin
          Basin,      \* how far off a guess may be for the registration to converge
          None,       \* no transform: none was broadcast yet
          MaxEvents   \* bound: drifts of the odometry and initial poses of an operator

ASSUME NavigationAssumption ==
  /\ QueueSize \in Nat \ {0} /\ MaxEvents \in Nat
  /\ Starts \subseteq Positions /\ Basin \in Nat /\ None \notin Int

VARIABLES
  to_controller, to_relocalization,  \* the subscribers' queues of /diverge
  scans,                             \* scans received, up to 2
  place,                             \* where the robot is
  odom,                              \* where the odometry's origin is
  map_odom,                          \* T_map_odom: where it was said to be
  localize_success, reported,        \* relocalization: its own result, and diverge
  previous_icp_result,               \* the next guess of where the lidar is
  events_left

topicVars == <<to_controller, to_relocalization>>
worldVars == <<place, odom>>
relocalizationVars == <<localize_success, reported, previous_icp_result>>
vars == <<controllerVars, robot, topicVars, scans, worldVars, map_odom, relocalizationVars,
          events_left>>

Init ==
  /\ ControllerInit
  /\ to_controller = <<>> /\ to_relocalization = <<>>
  /\ scans = 0
  /\ odom \in Starts /\ place = odom
  /\ map_odom = None
  /\ localize_success = FALSE /\ reported = FALSE
  /\ previous_icp_result = 0
  /\ events_left = MaxEvents

\* A message reaches a subscriber.
Enqueue(queue, msg) ==
  IF Len(queue) = QueueSize THEN Append(Tail(queue), msg) ELSE Append(queue, msg)

-------------------------------------------------------------------------------
(* obstacle_detector.                                                      *)

\* Standard_Scan_Callback of both nodes; the detector works on the scan before.
Scan ==
  /\ scans < 2 /\ scans' = scans + 1
  /\ UNCHANGED <<controllerVars, robot, topicVars, worldVars, map_odom, relocalizationVars,
                 events_left>>

Misplaced == map_odom \notin {None, odom}

\* timer and detect: with the right transform the scan fits, unless much has changed
\* around the robot; with a wrong one it does not; without one anything may come out.
Detect ==
  /\ scans = 2
  /\ \E diverge_data \in BOOLEAN :
       /\ Misplaced => diverge_data
       /\ to_controller' = Enqueue(to_controller, diverge_data)
       /\ to_relocalization' = Enqueue(to_relocalization, diverge_data)
  /\ UNCHANGED <<controllerVars, robot, scans, worldVars, map_odom, relocalizationVars,
                 events_left>>

-------------------------------------------------------------------------------
(* relocalization.                                                         *)

DivergeCallback ==
  /\ to_relocalization # <<>>
  /\ reported' = Head(to_relocalization)
  /\ to_relocalization' = Tail(to_relocalization)
  /\ UNCHANGED <<controllerVars, robot, to_controller, scans, worldVars, map_odom,
                 localize_success, previous_icp_result, events_left>>

\* The operator says where the robot is; the next guess is where that puts the
\* odometry's origin.
InitialPoseCallback ==
  /\ events_left > 0 /\ events_left' = events_left - 1
  /\ \E T_map_baselink_estimate \in Positions :
       previous_icp_result' = T_map_baselink_estimate - (place - odom)
  /\ UNCHANGED <<controllerVars, robot, topicVars, scans, worldVars, map_odom, localize_success,
                 reported>>

\* Mutant: the detector is not listened to.
NeedsRegistration_DeafToDetector == scans > 0 /\ ~localize_success

NeedsRegistration == scans > 0 /\ (~localize_success \/ reported)

\* The registration has a guess to converge from.
Converges == Distance(previous_icp_result, place) <= Basin

\* The pose the controller looks up: the odometry's, behind the transform.
Localized(transform, at, origin) ==
  IF transform = None THEN 0 ELSE transform + (at - origin)

\* timer and registration.  T_odom_lidar is constant, the height the lidar is mounted
\* at: the scan is taken as if from the odometry's origin.  What is found is the place
\* of the lidar; it is broadcast as that of the origin, and is the next guess,
\* whatever its error.
Register ==
  /\ NeedsRegistration
  /\ \E T_map_scan \in Positions :
       /\ Converges => T_map_scan = place
       /\ map_odom' = T_map_scan
       /\ previous_icp_result' = T_map_scan
  /\ localize_success' \in BOOLEAN /\ (Converges => localize_success')
  /\ robot' = Localized(map_odom', place, odom)
  /\ UNCHANGED <<controllerVars, topicVars, scans, worldVars, reported, events_left>>

\* The odometry drifts, as if it had begun elsewhere.
Drift ==
  /\ events_left > 0 /\ events_left' = events_left - 1
  /\ odom' \in Positions \ {odom}
  /\ robot' = Localized(map_odom, place, odom')
  /\ UNCHANGED <<controllerVars, topicVars, scans, place, map_odom, relocalizationVars>>

-------------------------------------------------------------------------------
(* controller.                                                             *)

navigationVars == <<to_relocalization, scans, worldVars, map_odom, relocalizationVars, events_left>>

ReceiveStatus ==
  /\ to_controller # <<>>
  /\ to_controller' = Tail(to_controller)
  /\ LocalizationStatusCallback(Head(to_controller))
  /\ UNCHANGED navigationVars

ReceivePath ==
  /\ \E path \in Paths : GlobalPathCallback(path)
  /\ UNCHANGED <<to_controller, navigationVars>>

PlanTimer == Plan /\ UNCHANGED <<to_controller, navigationVars>>

\* The base, which is not part of the program, does as it is told: a step per command.
Base ==
  /\ cmd_vel # 0 /\ cmd_vel' = 0
  /\ place' = place + cmd_vel /\ place' \in Positions
  /\ robot' = Localized(map_odom, place', odom)
  /\ UNCHANGED <<global_path, plan, diverge, prune_index, paths_left, followed, fresh,
                 near_goal, success, topicVars, scans, odom, map_odom, relocalizationVars,
                 events_left>>

Next ==
  \/ Scan \/ Detect \/ DivergeCallback \/ InitialPoseCallback \/ Register \/ Drift
  \/ ReceiveStatus \/ ReceivePath \/ PlanTimer \/ Base

\* Timers fire, delivered messages are handled, and the base moves.
Fairness ==
  /\ WF_vars(Scan) /\ WF_vars(Detect) /\ WF_vars(DivergeCallback) /\ WF_vars(Register)
  /\ WF_vars(ReceiveStatus) /\ WF_vars(PlanTimer) /\ WF_vars(Base)

Spec == Init /\ [][Next]_vars /\ Fairness

-------------------------------------------------------------------------------
(* Properties.                                                             *)

TypeOK ==
  /\ global_path \in Seq(Positions) /\ plan \in BOOLEAN /\ diverge \in BOOLEAN
  /\ plan => global_path # <<>>
  /\ prune_index \in Nat /\ cmd_vel \in {-1, 0, 1}
  /\ robot \in Int /\ place \in Positions /\ odom \in Positions
  /\ near_goal \in BOOLEAN /\ followed \in BOOLEAN /\ fresh \in BOOLEAN /\ success \in BOOLEAN
  /\ to_controller \in Seq(BOOLEAN) /\ Len(to_controller) <= QueueSize
  /\ to_relocalization \in Seq(BOOLEAN) /\ Len(to_relocalization) <= QueueSize
  /\ scans \in 0 .. 2 /\ map_odom \in Positions \union {None}
  /\ localize_success \in BOOLEAN /\ reported \in BOOLEAN /\ previous_icp_result \in Int

\* Once the path has been followed for a step, prune_index is in it: the next Plan
\* reads the pose before it, and Plan's local path has a pose of the global one.
IndexInPath == plan /\ followed => prune_index < Len(global_path)

\* "Planning Success!" is said at the goal, or after a Plan that saw the robot near
\* it, as long as the path has been followed from its own begin: wherever the
\* localization jumps in between, and whether the path turns back or not.
SuccessNearGoal ==
  [][success' /\ ~success /\ fresh /\ Len(global_path) > 1 =>
       Distance(robot, Last(global_path)) <= goal_dist_tolerance \/ near_goal]_vars

\* After a divergence the robot is never driven along a path again.
StopsForGood == diverge => ~plan

\* A path that is followed comes to an end, unless the transform is replaced by
\* another for ever.
PathEnds == (plan ~> ~plan) \/ []<><<map_odom' # map_odom>>_vars

\* A wrong transform is put right, while the robot stands where the odometry has its
\* origin and the registration has a guess to converge from: whatever /diverge loses.
\* Elsewhere the lidar's place is not the origin's, and the result is wrong again.
Relocalizes ==
  LET CanBeFound == Converges /\ place = odom
  IN (Misplaced /\ CanBeFound) ~> (map_odom = odom \/ ~CanBeFound)
===============================================================================
