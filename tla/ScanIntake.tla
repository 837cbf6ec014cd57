------------------------------- MODULE ScanIntake -------------------------------
(***************************************************************************)
(* How a lidar message becomes scans in lidar_buffer (Point-LIO            *)
(* laserMapping.cpp, livox_pcl_cbk; standard_pcl_cbk does the same):       *)
(* as it is, cut into subframes (cut_frame), or several messages combined  *)
(* into one (con_frame).  lidar_buffer and time_buffer are always pushed   *)
(* and popped together, so a scan here is a pair of their elements.        *)
(*                                                                         *)
(* A point's curvature is its time in the scan.  Points also carry the     *)
(* time they were measured at, which the code does not have, to compare    *)
(* with: beg + curvature is the time the estimator will take for it.       *)
(***************************************************************************)
EXTENDS Integers, Sequences, Functions

CONSTANTS cut_frame_time_interval,
          con_frame_num,
          Stamps,                   \* stamps of the messages
          Messages,                 \* their points: sequences of offsets
          MaxScans                  \* bound: messages received (scan_count)

ASSUME IntakeAssumption ==
  /\ Stamps \subseteq Nat /\ Messages \subseteq Seq(Nat)
  /\ con_frame_num \in Nat \ {0}

VARIABLES
  mode,                  \* "plain", "cut" (cut_frame) or "combine" (con_frame)
  lidar_buffer,          \* scans that wait for sync_packages
  last_timestamp_lidar,
  scan_count,
  msg,                   \* the message in hand
  ptr,                   \* its points that the cutting loop has yet to visit
  ptr_div, time_div,     \* the subframe that is being cut
  ptr_con, time_con, frame_ct,  \* the messages combined so far
  measured,              \* history: times of all the points accepted
  consumed               \* history: times of the points sync_packages has taken

cutVars == <<ptr, ptr_div, time_div>>
conVars == <<ptr_con, time_con, frame_ct>>
vars == <<mode, lidar_buffer, last_timestamp_lidar, scan_count, msg, cutVars, conVars,
          measured, consumed>>

Point(time, curvature) == [measured |-> time, curvature |-> curvature]
Scan(beg, points) == [beg |-> beg, points |-> points]

\* The points that p_pre->process returns for a message.
Processed(m) == [k \in DOMAIN m.offsets |-> Point(m.stamp + m.offsets[k], m.offsets[k])]

Times(points) == {points[k].measured : k \in DOMAIN points}

Idle == ptr = <<>> /\ ptr_div = <<>>

Init ==
  /\ mode \in {"plain", "cut", "combine"}
  /\ lidar_buffer = <<>>
  /\ last_timestamp_lidar = -1
  /\ scan_count = 0
  /\ msg = [stamp |-> -1, offsets |-> <<>>]
  /\ ptr = <<>> /\ ptr_div = <<>> /\ time_div = 0
  /\ ptr_con = <<>> /\ time_con = 0 /\ frame_ct = 0
  /\ measured = {} /\ consumed = {}

\* A message arrives: any stamp, one that goes back in time included.
Arrives(m) ==
  /\ Idle
  /\ scan_count < MaxScans
  /\ scan_count' = scan_count + 1
  /\ msg' = m
  /\ UNCHANGED mode

LoopBack(m) ==
  /\ Arrives(m)
  /\ m.stamp < last_timestamp_lidar
  /\ UNCHANGED <<lidar_buffer, last_timestamp_lidar, cutVars, conVars, measured, consumed>>

Accepts(m) ==
  /\ Arrives(m)
  /\ m.stamp >= last_timestamp_lidar
  /\ last_timestamp_lidar' = m.stamp
  /\ measured' = measured \union Times(Processed(m))
  /\ UNCHANGED consumed

\* A message without points makes an empty scan.
Plain(m) ==
  /\ mode = "plain"
  /\ Accepts(m)
  /\ lidar_buffer' = Append(lidar_buffer, Scan(m.stamp, Processed(m)))
  /\ UNCHANGED <<cutVars, conVars>>

(* cut_frame *)

\* The sort leaves points of one time in any order.
Sorted(points) ==
  {[k \in DOMAIN points |-> points[order[k]]] :
     order \in {f \in Bijection(DOMAIN points, DOMAIN points) :
                 \A j, k \in DOMAIN points :
                   j < k => points[f[j]].curvature <= points[f[k]].curvature}}

StartCut(m) ==
  /\ mode = "cut"
  /\ Accepts(m)
  /\ ptr' \in Sorted(Processed(m))
  /\ time_div' = m.stamp
  /\ UNCHANGED <<lidar_buffer, ptr_div, conVars>>

\* Mutant: the point that closes a subframe is left out of it.
CutPoint_DropsLast ==
  /\ ptr # <<>>
  /\ ptr' = Tail(ptr)
  /\ LET cut == Head(ptr).curvature + msg.stamp - time_div > cut_frame_time_interval
         sub == Append(ptr_div, Head(ptr))
     IN IF cut
          THEN /\ lidar_buffer' = Append(lidar_buffer, Scan(time_div, ptr_div))
               /\ time_div' = time_div + Head(ptr).curvature
               /\ ptr_div' = <<>>
          ELSE ptr_div' = sub /\ UNCHANGED <<lidar_buffer, time_div>>
  /\ UNCHANGED <<mode, last_timestamp_lidar, scan_count, msg, conVars, measured, consumed>>

\* The subframe's points keep their curvature, which counts from the message's
\* stamp, and time_div moves on by the whole curvature of the last of them.
CutPoint ==
  /\ ptr # <<>>
  /\ ptr' = Tail(ptr)
  /\ LET cut == Head(ptr).curvature + msg.stamp - time_div > cut_frame_time_interval
         sub == Append(ptr_div, Head(ptr))
     IN IF cut
          THEN /\ lidar_buffer' = Append(lidar_buffer, Scan(time_div, sub))
               /\ time_div' = time_div + Head(ptr).curvature
               /\ ptr_div' = <<>>
          ELSE ptr_div' = sub /\ UNCHANGED <<lidar_buffer, time_div>>
  /\ UNCHANGED <<mode, last_timestamp_lidar, scan_count, msg, conVars, measured, consumed>>

EndCut ==
  /\ ptr = <<>> /\ ptr_div # <<>>
  /\ lidar_buffer' = Append(lidar_buffer, Scan(time_div, ptr_div))
  /\ ptr_div' = <<>>
  /\ UNCHANGED <<mode, last_timestamp_lidar, scan_count, msg, ptr, time_div, conVars,
                 measured, consumed>>

(* con_frame *)

\* Mutant: the curvatures are not moved to the first message's time.
Combine_KeepsCurvature(m) ==
  /\ mode = "combine"
  /\ Accepts(m)
  /\ frame_ct < con_frame_num
  /\ time_con' = IF frame_ct = 0 THEN m.stamp ELSE time_con
  /\ ptr_con' = ptr_con \o Processed(m)
  /\ frame_ct' = frame_ct + 1
  /\ UNCHANGED <<lidar_buffer, cutVars>>

Combine(m) ==
  /\ mode = "combine"
  /\ Accepts(m)
  /\ frame_ct < con_frame_num
  /\ time_con' = IF frame_ct = 0 THEN m.stamp ELSE time_con
  /\ ptr_con' = ptr_con \o [k \in DOMAIN Processed(m) |->
                 [Processed(m)[k] EXCEPT !.curvature = @ + m.stamp - time_con']]
  /\ frame_ct' = frame_ct + 1
  /\ UNCHANGED <<lidar_buffer, cutVars>>

\* Enough messages are combined: this one only pushes them.  Its own points go
\* nowhere.
PushCombined(m) ==
  /\ mode = "combine"
  /\ Accepts(m)
  /\ frame_ct = con_frame_num
  /\ lidar_buffer' = Append(lidar_buffer, Scan(time_con, ptr_con))
  /\ ptr_con' = <<>>
  /\ frame_ct' = 0
  /\ UNCHANGED <<time_con, cutVars>>

\* sync_packages takes the oldest scan; the callback runs in the same thread, so
\* never in the middle of a message.
SyncPackages ==
  /\ Idle
  /\ lidar_buffer # <<>>
  /\ consumed' = consumed \union Times(Head(lidar_buffer).points)
  /\ lidar_buffer' = Tail(lidar_buffer)
  /\ UNCHANGED <<mode, last_timestamp_lidar, scan_count, msg, cutVars, conVars, measured>>

Receive(m) == LoopBack(m) \/ Plain(m) \/ StartCut(m) \/ Combine(m) \/ PushCombined(m)

Next ==
  \/ \E m \in [stamp : Stamps, offsets : Messages] : Receive(m)
  \/ CutPoint \/ EndCut
  \/ SyncPackages

Spec == Init /\ [][Next]_vars

-------------------------------------------------------------------------------
(* Properties.                                                             *)

\* The estimator takes a point at the time it was measured: the curvatures, those
\* that con_frame moves included, fit the scan's time in time_buffer.  It is not
\* so of cut_frame, which moves the scan's time and not the curvatures.
PointsKeepTheirTime ==
  mode # "cut" =>
    \A k \in DOMAIN lidar_buffer :
      \A j \in DOMAIN lidar_buffer[k].points :
        LET p == lidar_buffer[k].points[j]
        IN lidar_buffer[k].beg + p.curvature = p.measured

\* Every point of an accepted message is waiting in a scan, in the message that
\* is being cut, in the messages that are being combined, or was taken.
EveryPointIsHeld ==
  measured = (UNION {Times(lidar_buffer[k].points) : k \in DOMAIN lidar_buffer})
             \union Times(ptr) \union Times(ptr_div) \union Times(ptr_con) \union consumed

\* Messages that are taken as they are, or cut, lose no point.
NoPointLost == mode # "combine" => EveryPointIsHeld
===============================================================================
