------------------------------ MODULE Preprocess ------------------------------
(***************************************************************************)
(* The point filters of all the lidars (Point-LIO preprocess.cpp): that of *)
(* AviaHandler for Livox messages, and here those of the spinning lidars,  *)
(* velodyne_handler, hesai_handler and oust64_handler, which process runs  *)
(* on a PointCloud2.                                                       *)
(*                                                                         *)
(* A Velodyne or Hesai message whose last point has no time gets its times *)
(* from the azimuths: each ring counts from its own first point, which is  *)
(* not kept, and a time that would go back is a turn later.  Azimuths and  *)
(* times are in ticks, Turn of them to a turn (omega_l ticks to 1 ms); an  *)
(* azimuth decreases as the lidar turns, and calibration or noise may also *)
(* move it back.  Points also carry the angle their ring has really turned *)
(* by since its first point, which the code does not have, to compare with.*)
(***************************************************************************)
EXTENDS AviaHandler

CONSTANTS Rings,      \* N_SCANS of them; the handlers do not check a point's ring
          Half,       \* ticks in half a turn
          Steps,      \* what an azimuth changes by between two points of a ring
          MaxFired    \* bound: points in a message of a spinning lidar

Turn == 2 * Half

ASSUME PreprocessAssumption ==
  /\ Half \in Nat \ {0}
  /\ Steps \subseteq (1 - Turn)..(Turn - 1)

VARIABLES
  lidar_type,
  given_offset_time,   \* the message's last point has a time
  fired,               \* index of the next point
  is_first, yaw_fp, yaw_last, time_last,  \* of each ring
  pl_added,            \* the kept points, in order
  turned,              \* history: the angle each ring has turned by
  orderly              \* history: no azimuth of the ring moved back

ringVars == <<is_first, yaw_fp, yaw_last, time_last, turned, orderly>>
spinningVars == <<given_offset_time, fired, pl_added, ringVars>>

LidarTypes == {"AVIA", "VELO16", "OUST64", "HESAIxt32", "unknown"}
Yaws == (1 - Half)..Half
Ranges == {"inside", "at", "outside"}   \* of the blind zone

SpinningInit ==
  /\ given_offset_time \in BOOLEAN
  /\ fired = 0
  /\ is_first = [layer \in Rings |-> TRUE]
  /\ yaw_fp = [layer \in Rings |-> 0]
  /\ yaw_last = [layer \in Rings |-> 0]
  /\ time_last = [layer \in Rings |-> 0]
  /\ turned = [layer \in Rings |-> 0]
  /\ orderly = [layer \in Rings |-> TRUE]
  /\ pl_added = <<>>

\* The next point of the message; only kept ones leave a trace in it.
Push(point, kept) ==
  /\ fired < MaxFired
  /\ fired' = fired + 1
  /\ pl_added' = IF fired % point_filter_num = 0 /\ kept THEN Append(pl_added, point)
                                                        ELSE pl_added
  /\ UNCHANGED given_offset_time

\* Every point has its own time, which is taken as it is; a point on the edge of
\* the blind zone is kept.
OusterPoint(t, range) ==
  /\ Push([curvature |-> t, turned |-> t, orderly |-> TRUE], range # "inside")
  /\ UNCHANGED ringVars

\* A Velodyne or Hesai message with times: a point on the edge is not kept.
GivenPoint(t, range) ==
  /\ given_offset_time
  /\ Push([curvature |-> t, turned |-> t, orderly |-> TRUE], range = "outside")
  /\ UNCHANGED ringVars

FirstOfRing(layer, yaw) ==
  /\ ~ given_offset_time
  /\ is_first[layer]
  /\ is_first' = [is_first EXCEPT ![layer] = FALSE]
  /\ yaw_fp' = [yaw_fp EXCEPT ![layer] = yaw]
  /\ yaw_last' = [yaw_last EXCEPT ![layer] = yaw]
  /\ time_last' = [time_last EXCEPT ![layer] = 0]
  /\ fired < MaxFired
  /\ fired' = fired + 1
  /\ UNCHANGED <<given_offset_time, pl_added, turned, orderly>>

\* Mutant: the first azimuth, met again, counts as a turn later.
Derived_StrictlyLess(layer, yaw) ==
  LET t == yaw_fp[layer] - yaw + IF yaw < yaw_fp[layer] THEN 0 ELSE Turn
  IN IF t < time_last[layer] THEN t + Turn ELSE t

\* The time of a point from its azimuth.
Derived(layer, yaw) ==
  LET t == yaw_fp[layer] - yaw + IF yaw <= yaw_fp[layer] THEN 0 ELSE Turn
  IN IF t < time_last[layer] THEN t + Turn ELSE t

\* The azimuth after turning by step, between -Half (excluded) and Half.
Turned(yaw, step) ==
  CASE yaw - step > Half  -> yaw - step - Turn
    [] yaw - step <= -Half -> yaw - step + Turn
    [] OTHER -> yaw - step

\* A later point of a ring.  A message holds less than two turns.
LaterOfRing(layer, step, range) ==
  /\ ~ given_offset_time
  /\ ~ is_first[layer]
  /\ turned[layer] + step < 2 * Turn /\ turned[layer] + step > -Turn
  /\ turned' = [turned EXCEPT ![layer] = @ + step]
  /\ orderly' = [orderly EXCEPT ![layer] = @ /\ step >= 0]
  /\ yaw_last' = [yaw_last EXCEPT ![layer] = Turned(@, step)]
  /\ time_last' = [time_last EXCEPT ![layer] = Derived(layer, yaw_last'[layer])]
  /\ Push([curvature |-> time_last'[layer], turned |-> turned'[layer],
           orderly |-> orderly'[layer]], range = "outside")
  /\ UNCHANGED <<is_first, yaw_fp>>

RingPoint ==
  \E layer \in Rings :
    \/ \E yaw \in Yaws : FirstOfRing(layer, yaw)
    \/ \E step \in Steps, range \in Ranges : LaterOfRing(layer, step, range)

Timed ==
  \E gap \in Gaps, range \in Ranges :
    /\ gap >= 0
    /\ IF lidar_type = "OUST64" THEN OusterPoint(offset + gap, range)
                                 ELSE GivenPoint(offset + gap, range)
    /\ offset' = offset + gap

VelodynePoint == lidar_type = "VELO16" /\ (Timed \/ (RingPoint /\ UNCHANGED offset))

\* The same loop once more; times count from the first point of the message.
HesaiPoint == lidar_type = "HESAIxt32" /\ (Timed \/ (RingPoint /\ UNCHANGED offset))

\* An unknown type only prints an error: its messages come out empty.
ProcessPoint ==
  /\ UNCHANGED lidar_type
  /\ \/ lidar_type = "AVIA" /\ NextPoint /\ UNCHANGED spinningVars
     \/ /\ (lidar_type = "OUST64" /\ Timed) \/ VelodynePoint \/ HesaiPoint
        /\ UNCHANGED <<i, valid_num, previous, pl_surf, historyVars>>

PreprocessInit == lidar_type \in LidarTypes /\ HandlerInit /\ SpinningInit

-------------------------------------------------------------------------------
(* Properties.                                                             *)

\* A time derived from the azimuth is never earlier than the point's own, and is
\* later by whole turns only: by none as long as no azimuth of its ring has moved
\* back.  One that moves back, by however little, can put all the ring's later
\* points a turn too late, and with them the end of the scan.
RingTimeIsTurned ==
  \A k \in DOMAIN pl_added :
    LET p == pl_added[k]
    IN /\ p.curvature - p.turned \in {0, Turn, 2 * Turn}
       /\ p.orderly => p.curvature = p.turned
===============================================================================
