------------------------------- MODULE FilterWalk -------------------------------
(***************************************************************************)
(* The walk of the Kalman filter through a scan (laserMapping.cpp, main,   *)
(* and Estimator.cpp, esekfom.hpp), inside the mapping loop.               *)
(*                                                                         *)
(* The downsampled points are sorted by time and grouped; every group is   *)
(* one update.  The filter has a state and a covariance, and each is       *)
(* predicted with a time of its own: the state up to every point           *)
(* (time_predict_last_const, or t_last in the input model), the covariance *)
(* only up to time_update_last, which prop_at_freq_of_imu leaves at the    *)
(* IMU's pace.                                                             *)
(*                                                                         *)
(* The points are matched through idx, an index into the cloud that is     *)
(* moved by the size of each group, on every way out of the update.        *)
(*                                                                         *)
(* With use_imu_as_input an IMU message is the input of the prediction,    *)
(* from it to the next one, and not a measurement; the covariance is then  *)
(* predicted before the state, which comes to the same.                    *)
(***************************************************************************)
EXTENDS LaserMapping

CONSTANT MaxPoints    \* bound: points of a downsampled scan

ASSUME WalkAssumption == MaxPoints \in Nat

VARIABLES
  prop_at_freq_of_imu, publish_odometry_without_downsample, use_imu_as_input,  \* settings
  imu_last,            \* stamp of the message before imu_next; -1: none
  time_update_last,    \* time of the covariance
  input_in,            \* input model: stamp of the message that predicts; -1: none
  feats_down_body,     \* the scan's points: their offsets
  time_seq, k, idx,    \* sizes of the groups, the group in hand, the point before it
  seen,                \* for each point, the time at which it was last matched; -1: not yet
  odom                 \* the last odometry: its stamp, and the time of its state

settings == <<prop_at_freq_of_imu, publish_odometry_without_downsample, use_imu_as_input>>
cloudVars == <<feats_down_body, time_seq, k, idx, seen>>
walkVars == <<vars, settings, imu_last, time_update_last, input_in, cloudVars, odom>>

\* The input model takes messages without a test of imu_en: it is not used without.
WalkInit ==
  /\ Init
  /\ prop_at_freq_of_imu \in BOOLEAN /\ publish_odometry_without_downsample \in BOOLEAN
  /\ use_imu_as_input \in BOOLEAN /\ (use_imu_as_input => imu_en)
  /\ input_in = -1
  /\ imu_last = -1
  /\ time_update_last = 0
  /\ feats_down_body = <<>> /\ time_seq = <<>> /\ k = 1 /\ idx = 0 /\ seen = <<>>
  /\ odom = [stamp |-> -1, state |-> -1]

-------------------------------------------------------------------------------
(* The cloud.                                                              *)

\* Points of one time follow each other; the j-th group ends where the time grows for
\* the j-th time, or with the cloud.
Ends(points) == {i \in DOMAIN points : i = Len(points) \/ points[i + 1] > points[i]}
UpTo(points, i) == Cardinality({e \in Ends(points) : e <= i})
GroupEnd(points, j) == IF j = 0 THEN 0 ELSE CHOOSE e \in Ends(points) : UpTo(points, e) = j

\* Mutant: the last point of the cloud is not counted.
TimeCompressing_LosesLast(points) ==
  LET groups == Cardinality(Ends(points))
      size(j) == GroupEnd(points, j) - GroupEnd(points, j - 1)
  IN  [j \in 1 .. groups |-> IF j = groups /\ size(j) > 1 THEN size(j) - 1 ELSE size(j)]

\* The sizes of the groups.
TimeCompressing(points) ==
  [j \in 1 .. Cardinality(Ends(points)) |-> GroupEnd(points, j) - GroupEnd(points, j - 1)]

\* The clouds that hold points of just these times, sorted by time.
Sorted(points) == \A i \in 1 .. Len(points) - 1 : points[i] <= points[i + 1]
SortedClouds(offs) ==
  {s \in UNION {[1 .. n -> offs] : n \in 1 .. MaxPoints} :
     /\ Sorted(s)
     /\ offs \subseteq {s[i] : i \in DOMAIN s}}

\* While the map is not initialised the points only go into it.
DownsampleCloud ==
  /\ Downsample
  /\ IF init_map
       THEN /\ feats_down_body' \in SortedClouds(times')
            /\ time_seq' = TimeCompressing(feats_down_body')
            /\ k' = 1 /\ idx' = 0
            /\ seen' = [i \in DOMAIN feats_down_body' |-> -1]
       ELSE UNCHANGED cloudVars
  /\ UNCHANGED <<settings, imu_last, time_update_last, input_in, odom>>

\* The points of the group in hand; its last one, which gives the time.
Group == idx + 1 .. idx + time_seq[k]
PointBody == feats_down_body[idx + time_seq[k]]

-------------------------------------------------------------------------------
(* The IMU.                                                                *)

\* sync_packages moves the messages on one by one.
SyncImuLast ==
  /\ SyncPackages
  /\ LET n == Len(imu_deque) - Len(imu_deque') IN
       imu_last' = CASE n = 0 -> imu_last [] n = 1 -> imu_next [] OTHER -> imu_deque[n - 1]
  /\ UNCHANGED <<settings, time_update_last, input_in, cloudVars, odom>>

CatchUp ==
  /\ CatchUpToScan \/ \E t \in times : t = PointBody /\ CatchUpToFirst(t)
  /\ imu_last' = imu_next
  /\ UNCHANGED <<settings, time_update_last, input_in, cloudVars, odom>>

\* An IMU message before the point.  The covariance follows the state, unless no
\* time has passed for it since it was last predicted.
WalkToImu ==
  /\ \E t \in times : t = PointBody /\ PredictToImu(t)
  /\ imu_last' = imu_next
  /\ IF imu_last' > time_update_last
       THEN time_update_last' = imu_last'
       ELSE UNCHANGED time_update_last
  /\ UNCHANGED <<settings, cloudVars, odom>>

\* Mutant: the input stays that of the first frame.
WalkToImuAsInput_KeepsInput == use_imu_as_input /\ WalkToImu /\ UNCHANGED input_in

\* The message is fused as a measurement, or it is the input of the prediction up to
\* its own time and from there on.
WalkToImuAsOutput == ~use_imu_as_input /\ WalkToImu /\ UNCHANGED input_in
WalkToImuAsInput == use_imu_as_input /\ WalkToImu /\ input_in' = imu_next

-------------------------------------------------------------------------------
(* The update.                                                             *)

\* h_model_output and h_model_input: every point of the group is projected with
\* the state of this time, and its neighbours are looked up.
HModel == seen' = [i \in DOMAIN seen |-> IF i \in Group THEN time_predict_last_const' ELSE seen[i]]

\* publish_odometry: the state of now, stamped with the point's time or, once per
\* scan, with the scan's end.
PublishOdometry(at) == odom' = [stamp |-> at, state |-> time_predict_last_const']

\* Mutant: in both modes the stamp is the scan's end.
WalkToPoint_StampsScanEnd(matched) ==
  /\ \E t \in times : t = PointBody /\ PredictToPoint(t)
  /\ IF is_first_frame \/ ~prop_at_freq_of_imu
       THEN time_update_last' = time_predict_last_const'
       ELSE UNCHANGED time_update_last
  /\ HModel
  /\ idx' = idx + time_seq[k] /\ k' = k + 1
  /\ IF IF publish_odometry_without_downsample THEN matched ELSE times' = {}
       THEN PublishOdometry(lidar_end_time)
       ELSE UNCHANGED odom
  /\ UNCHANGED <<settings, imu_last, feats_down_body, time_seq>>

\* A point, and the scan's end after the last one.  The update fails when no
\* point of the group matches the map (update_iterated_dyn_share_modified, with
\* one iteration, returns false): the state stays as predicted.
WalkToPoint(matched) ==
  /\ \E t \in times : t = PointBody /\ PredictToPoint(t)
  /\ IF is_first_frame \/ ~prop_at_freq_of_imu
       THEN time_update_last' = time_predict_last_const'
       ELSE UNCHANGED time_update_last
  /\ HModel
  /\ idx' = idx + time_seq[k] /\ k' = k + 1
  /\ IF publish_odometry_without_downsample
       THEN IF matched THEN PublishOdometry(time_predict_last_const') ELSE UNCHANGED odom
       ELSE IF times' = {} THEN PublishOdometry(lidar_end_time) ELSE UNCHANGED odom
  /\ UNCHANGED <<settings, imu_last, feats_down_body, time_seq>>

WalkToPointAsOutput(matched) == ~use_imu_as_input /\ WalkToPoint(matched) /\ UNCHANGED input_in

\* The first point of all takes the message before it for the input.
WalkToPointAsInput(matched) ==
  /\ use_imu_as_input
  /\ WalkToPoint(matched)
  /\ input_in' = IF is_first_frame THEN imu_last ELSE input_in

-------------------------------------------------------------------------------
WalkLoop ==
  \/ SyncImuLast \/ DownsampleCloud
  \/ CatchUp \/ WalkToImuAsOutput \/ WalkToImuAsInput
  \/ \E matched \in BOOLEAN : WalkToPointAsOutput(matched) \/ WalkToPointAsInput(matched)
  \/ /\ LoseLidar \/ PushScan \/ SyncWithoutImu \/ Process \/ AlignGravity
     /\ UNCHANGED <<settings, imu_last, time_update_last, input_in, cloudVars, odom>>

WalkNext ==
  \/ WalkLoop
  \/ Callbacks /\ UNCHANGED <<settings, imu_last, time_update_last, input_in, cloudVars, odom>>

\* The loop runs on; nothing obliges the sensors to send.
WalkSpec == WalkInit /\ [][WalkNext]_walkVars /\ WF_walkVars(WalkLoop)

-------------------------------------------------------------------------------
(* Properties.                                                             *)

WalkTypeOK ==
  /\ prop_at_freq_of_imu \in BOOLEAN /\ publish_odometry_without_downsample \in BOOLEAN
  /\ use_imu_as_input \in BOOLEAN
  /\ imu_last \in Int /\ time_update_last \in Nat /\ input_in \in Int
  /\ odom \in [stamp : Int, state : Int]

\* idx and the groups lead through the cloud as time does: the point the loop
\* looks at is the next one in time, and when the scan is done each of its points
\* has been matched, at its own time, whatever updates failed on the way
\* (map_incremental takes Nearest_Points, which is never cleared, for all of them).
PointsAreMatchedAtTheirTime ==
  /\ pc = "points" => IsNext(PointBody)
  /\ pc = "points" \/ (pc = "spin" /\ ~lidar_pushed /\ meas.offs # {}) =>
       \A i \in DOMAIN feats_down_body :
         seen[i] = IF i <= idx THEN TimeOf(feats_down_body[i]) ELSE -1
  /\ pc = "spin" /\ ~lidar_pushed /\ seen # <<>> => idx = Len(feats_down_body)

\* The covariance is never ahead of the state, nor behind an IMU message that was
\* taken; and where it is propagated at every point it is at the state's time.  In the
\* input model the filter is predicted with the last message before the point, which
\* sync_packages has not moved on from scan to scan.
CovarianceKeepsUp ==
  ~is_first_frame =>
    /\ time_update_last <= time_predict_last_const
    /\ imu_last <= time_update_last
    /\ ~prop_at_freq_of_imu => time_update_last = time_predict_last_const
    /\ use_imu_as_input => input_in = imu_last

\* The stamps of the odometry increase strictly, and no state is published with
\* a stamp before its time.
OdometryMovesOn ==
  [][odom' # odom => odom.stamp < odom'.stamp /\ odom'.state <= odom'.stamp]_walkVars

-------------------------------------------------------------------------------
(* The inductive invariant of the proofs (LaserMappingProofs).             *)

\* The filter is initialised before the map, and the map before the first walk.
Phases ==
  /\ init_map => ~imu_need_init /\ gravity_align
  /\ pc = "align" => ~imu_need_init
  /\ pc = "points" \/ ~is_first_frame => init_map

\* The message before imu_next is older, and until the first walk begins it is
\* older than every point to come.
ImuLastBehind ==
  /\ imu_last <= imu_next
  /\ is_first_frame =>
       /\ imu_last <= driver_end
       /\ pc = "spin" => \A i \in DOMAIN lidar_buffer : imu_last < lidar_buffer[i].beg
       /\ pc \in {"process", "align"} => imu_last <= lidar_end_time
       /\ pc \in {"process", "align"} /\ init_map => imu_last <= meas.beg
       /\ \A t \in times : imu_last <= TimeOf(t)

\* The last odometry is older than every point to come.
OdometryBehind ==
  /\ odom.stamp <= driver_end
  /\ pc = "spin" => \A i \in DOMAIN lidar_buffer : odom.stamp < lidar_buffer[i].beg
  /\ pc \in {"process", "align"} => odom.stamp < meas.beg
  /\ \A t \in times : odom.stamp < TimeOf(t)

WalkInv ==
  /\ MappingInv /\ WalkTypeOK /\ Phases
  /\ ImuLastBehind /\ OdometryBehind /\ CovarianceKeepsUp

\* The times that are left are those of the points behind idx, and k - 1 groups end up
\* to there; out of the walk nothing is left.
CloudInv ==
  /\ feats_down_body \in Seq(Nat) /\ DOMAIN seen = DOMAIN feats_down_body
  /\ ~init_map => feats_down_body = <<>>
  /\ IF pc = "points"
       THEN /\ idx \in 0 .. Len(feats_down_body) - 1 /\ k \in Nat \ {0}
            /\ Sorted(feats_down_body)
            /\ times = {feats_down_body[i] : i \in idx + 1 .. Len(feats_down_body)}
            /\ time_seq = TimeCompressing(feats_down_body)
            /\ idx \in Ends(feats_down_body) \union {0}
            /\ UpTo(feats_down_body, idx) = k - 1
       ELSE idx = Len(feats_down_body)
  /\ pc = "points" \/ (pc = "spin" /\ ~lidar_pushed /\ meas.offs # {}) =>
       \A i \in DOMAIN feats_down_body :
         seen[i] = IF i <= idx THEN TimeOf(feats_down_body[i]) ELSE -1
===============================================================================
