------------------------------- MODULE PubHandler -------------------------------
(***************************************************************************)
(* The driver's point handler (pub_handler.cpp): the SDK's thread queues   *)
(* raw packets, and a thread of the handler turns them into points and     *)
(* publishes the points of a lidar, a frame, once per interval.            *)
(*                                                                         *)
(* With synchronised lidars a frame ends at a packet whose last point lies *)
(* in the first millisecond of an interval of the lidar's own clock; with  *)
(* others, when an interval of the host's clock has passed.  Which of the  *)
(* two applies is one flag for all lidars, set by whatever packet, IMU     *)
(* packets too, came last.                                                 *)
(*                                                                         *)
(* Times are in ticks.  A point is its number, counted per lidar, and its  *)
(* time; frames go to Lds::StoragePointData, in the same thread.           *)
(***************************************************************************)
EXTENDS Integers, Sequences, FiniteSets

CONSTANTS TimeTypes,        \* lidar -> the time types of its packets
          Ms,               \* ticks in 1 ms, the tolerance too
          publish_interval_ms,
          Dots,             \* points in a packet
          point_interval,   \* ticks between the points of a packet
          Gaps,             \* ticks, of the lidar's clock, from a packet to the next
          HostSteps,        \* how far the host's clock gets between two readings
          Loads,            \* bound: how many packets each lidar sends, a set of functions
          MaxQueue,         \* bound: packets that wait
          MaxNow            \* bound: the host's clock

Handles == DOMAIN TimeTypes
publish_interval == publish_interval_ms * Ms
publish_interval_tolerance == publish_interval - Ms

ASSUME PubHandlerAssumption ==
  /\ TimeTypes \in [Handles -> SUBSET {"NoSync", "Ptp"}]
  /\ Ms \in Nat \ {0}
  /\ publish_interval_ms \in Nat \ {0, 1}    \* publish_freq is at most 100
  /\ Dots \in Nat \ {0} /\ point_interval \in Nat
  /\ Gaps \subseteq Nat /\ HostSteps \subseteq Nat
  /\ Loads \subseteq [Handles -> Nat] /\ MaxQueue \in Nat /\ MaxNow \in Nat

VARIABLES
  is_timestamp_sync, raw_packet_queue, is_quit,
  cb,               \* the packet the SDK's thread is working on, or NoPacket
  pc, raw_data,     \* the handler's thread, and the packet it has taken
  points_clouds,    \* lidar -> points that wait for the frame's end
  first, last_pub_time,
  now,              \* host's clock
  lidar_clock,      \* lidar -> time of its last point
  left,             \* lidar -> packets it has yet to send
  received,         \* history: lidar -> points received
  published,        \* history: lidar -> points published
  last_frame,       \* history: lidar -> time of the last point published, or -1
  steady            \* history: every packet so far was synchronised and came in time

clockVars == <<now, lidar_clock>>
lidarVars == <<left, received, steady>>
threadVars == <<pc, raw_data, points_clouds, first, last_pub_time, published, last_frame>>
handlerVars ==
  <<is_timestamp_sync, raw_packet_queue, cb, lidarVars, clockVars, is_quit, threadVars>>

NoPacket == [handle |-> 0, n |-> 0, time_stamp |-> 0]
Packets == [handle : Handles, n : Nat \ {0}, time_stamp : Nat]

\* The points of a packet.
PointsOf(packet) ==
  [i \in 1 .. Dots |-> [n |-> packet.n + i - 1,
                        offset_time |-> packet.time_stamp + (i - 1) * point_interval]]

HandlerInit ==
  /\ is_timestamp_sync = FALSE /\ raw_packet_queue = <<>>
  /\ is_quit = FALSE
  /\ cb = NoPacket
  /\ pc = "loop" /\ raw_data = NoPacket
  /\ points_clouds = [l \in Handles |-> <<>>]
  /\ first = TRUE /\ last_pub_time = 0
  /\ now = 0
  /\ lidar_clock = [l \in Handles |-> 0]
  /\ left \in Loads
  /\ received = [l \in Handles |-> 0]
  /\ published = [l \in Handles |-> 0]
  /\ last_frame = [l \in Handles |-> -1]
  /\ steady = TRUE

-------------------------------------------------------------------------------
\* The host's clock is read: some time has passed since it was read last.
ReadHostClock == \E step \in HostSteps : now + step <= MaxNow /\ now' = now + step

(* The SDK's thread.                                                       *)

\* From the last point of a packet to that of the next it is more than a millisecond, or
\* more than half of one and half of the packet's own span: the first millisecond of an
\* interval may pass without a packet, or without one that is an interval away from the
\* frame's begin.
Span == (Dots - 1) * point_interval
Late(gap) == gap + Span > Ms \/ 2 * (gap + Span) > Ms + 1 + Span

\* OnLivoxLidarPointCloudCallback, up to the queue: the flag is set for all lidars,
\* and the packet gets its own stamp or the host's time.
PacketArrives(l, time_type, gap) ==
  LET stamp == IF time_type = "Ptp" THEN lidar_clock[l] + gap ELSE now'
  IN /\ IF time_type = "Ptp" THEN UNCHANGED now ELSE ReadHostClock
     /\ ~is_quit /\ cb = NoPacket
     /\ left[l] > 0 /\ left' = [left EXCEPT ![l] = @ - 1]
     /\ is_timestamp_sync' = (time_type # "NoSync")
     /\ cb' = [handle |-> l, n |-> received[l] + 1, time_stamp |-> stamp]
     /\ received' = [received EXCEPT ![l] = @ + Dots]
     /\ lidar_clock' = [lidar_clock EXCEPT ![l] = IF time_type = "Ptp"
                                                    THEN stamp + Span ELSE @]
     /\ steady' = (steady /\ time_type = "Ptp" /\ ~Late(gap))
     /\ UNCHANGED <<raw_packet_queue, is_quit, threadVars>>

\* An IMU packet goes to imu_callback_; it sets the flag too.
ImuArrives(l, time_type) ==
  /\ ~is_quit /\ cb = NoPacket /\ left[l] > 0
  /\ is_timestamp_sync' = (time_type # "NoSync")
  /\ steady' = (steady /\ time_type = "Ptp")
  /\ UNCHANGED <<raw_packet_queue, cb, left, received, clockVars, is_quit, threadVars>>

PushPacket ==
  /\ cb # NoPacket /\ Len(raw_packet_queue) < MaxQueue
  /\ raw_packet_queue' = Append(raw_packet_queue, cb)
  /\ cb' = NoPacket
  /\ UNCHANGED <<is_timestamp_sync, lidarVars, clockVars, is_quit, threadVars>>

-------------------------------------------------------------------------------
(* RawDataProcess.                                                         *)

TestQuit ==
  /\ pc = "loop"
  /\ pc' = IF is_quit THEN "done" ELSE "take"
  /\ UNCHANGED <<is_timestamp_sync, raw_packet_queue, cb, lidarVars, clockVars, is_quit,
                 raw_data, points_clouds, first, last_pub_time, published, last_frame>>

TakePacket ==
  /\ raw_packet_queue # <<>>
  /\ raw_data' = Head(raw_packet_queue)
  /\ raw_packet_queue' = Tail(raw_packet_queue)
  /\ pc' = "process"
  /\ UNCHANGED <<is_timestamp_sync, cb, lidarVars, clockVars, is_quit, points_clouds,
                 first, last_pub_time, published, last_frame>>

WaitForPacket ==
  /\ pc = "take"
  /\ \/ TakePacket
     \/ /\ raw_packet_queue = <<>>
        /\ pc' = "wait"
        /\ UNCHANGED <<is_timestamp_sync, raw_packet_queue, cb, lidarVars, clockVars,
                       is_quit, raw_data, points_clouds, first, last_pub_time, published,
                       last_frame>>

\* Mutant: only a notification ends the wait.
Wake_NotifiedOnly ==
  /\ pc = "wait"
  /\ TakePacket

\* The wait ends when it is notified, and after 500 ms.
Wake ==
  /\ pc = "wait"
  /\ \/ TakePacket
     \/ /\ raw_packet_queue = <<>>
        /\ pc' = "loop"
        /\ UNCHANGED <<is_timestamp_sync, raw_packet_queue, cb, lidarVars, clockVars,
                       is_quit, raw_data, points_clouds, first, last_pub_time, published,
                       last_frame>>

PointCloudProcess ==
  /\ pc = "process"
  /\ points_clouds' = [points_clouds EXCEPT ![raw_data.handle] = @ \o PointsOf(raw_data)]
  /\ pc' = "check"
  /\ UNCHANGED <<is_timestamp_sync, raw_packet_queue, cb, lidarVars, clockVars, is_quit,
                 raw_data, first, last_pub_time, published, last_frame>>

GetLidarBaseTime(l) == IF points_clouds[l] = <<>> THEN 0 ELSE points_clouds[l][1].offset_time
GetRecentTimeStamp(l) ==
  IF points_clouds[l] = <<>> THEN 0
  ELSE points_clouds[l][Len(points_clouds[l])].offset_time

\* Mutant: the points are copied out, not swapped.
PublishPointCloud_Copies(lidars) ==
  /\ published' = [l \in Handles |->
       IF l \in lidars THEN published[l] + Len(points_clouds[l]) ELSE published[l]]
  /\ last_frame' = [l \in Handles |->
       IF l \in lidars /\ points_clouds[l] # <<>> THEN GetRecentTimeStamp(l) ELSE last_frame[l]]
  /\ UNCHANGED points_clouds

\* A frame of the points of some lidars: GetLidarPointClouds and PublishPointCloud.
PublishPointCloud(lidars) ==
  /\ published' = [l \in Handles |->
       IF l \in lidars THEN published[l] + Len(points_clouds[l]) ELSE published[l]]
  /\ last_frame' = [l \in Handles |->
       IF l \in lidars /\ points_clouds[l] # <<>> THEN GetRecentTimeStamp(l) ELSE last_frame[l]]
  /\ points_clouds' = [l \in Handles |-> IF l \in lidars THEN <<>> ELSE points_clouds[l]]

\* Mutant: no tolerance.
FrameEnds_NoTolerance(l) ==
  LET recent_time_ms == GetRecentTimeStamp(l) \div Ms
      diff == GetRecentTimeStamp(l) - GetLidarBaseTime(l)
  IN /\ recent_time_ms % publish_interval_ms = 0 /\ recent_time_ms # 0
     /\ diff < 0 \/ diff >= publish_interval

\* A synchronised lidar's frame is complete: its last point is in the first
\* millisecond of an interval, and an interval, less the tolerance, has passed since
\* its first.  The difference is unsigned: a negative one is large.
FrameEnds(l) ==
  LET recent_time_ms == GetRecentTimeStamp(l) \div Ms
      diff == GetRecentTimeStamp(l) - GetLidarBaseTime(l)
  IN /\ recent_time_ms % publish_interval_ms = 0 /\ recent_time_ms # 0
     /\ diff < 0 \/ diff >= publish_interval_tolerance

CheckTimerSync ==
  /\ pc = "check" /\ is_timestamp_sync
  /\ IF FrameEnds(raw_data.handle)
       THEN PublishPointCloud({raw_data.handle})
       ELSE UNCHANGED <<points_clouds, published, last_frame>>
  /\ pc' = "loop"
  /\ UNCHANGED <<is_timestamp_sync, raw_packet_queue, cb, lidarVars, clockVars, is_quit,
                 raw_data, first, last_pub_time>>

\* The first call only starts the interval.  A frame holds the points of all lidars.
CheckTimerHost ==
  /\ pc = "check" /\ ~is_timestamp_sync
  /\ ReadHostClock
  /\ first' = FALSE
  /\ IF first \/ now' - last_pub_time < publish_interval
       THEN /\ last_pub_time' = IF first THEN now' ELSE last_pub_time
            /\ UNCHANGED <<points_clouds, published, last_frame>>
       ELSE /\ last_pub_time' = last_pub_time + publish_interval
            /\ PublishPointCloud(Handles)
  /\ pc' = "loop"
  /\ UNCHANGED <<is_timestamp_sync, raw_packet_queue, cb, lidarVars, lidar_clock, is_quit,
                 raw_data>>

-------------------------------------------------------------------------------
\* Uninit: the observer is removed, the thread asked to stop, and joined.
Uninit ==
  /\ ~is_quit /\ is_quit' = TRUE
  /\ UNCHANGED <<is_timestamp_sync, raw_packet_queue, cb, lidarVars, clockVars, threadVars>>

SdkThread ==
  \/ \E l \in Handles : \E time_type \in TimeTypes[l] :
       (\E gap \in Gaps : PacketArrives(l, time_type, gap)) \/ ImuArrives(l, time_type)
  \/ PushPacket

RawDataProcess ==
  TestQuit \/ WaitForPacket \/ Wake \/ PointCloudProcess \/ CheckTimerSync \/ CheckTimerHost

HandlerNext == SdkThread \/ RawDataProcess \/ Uninit

\* The handler's thread runs; nothing obliges the lidars to send.
HandlerSpec == HandlerInit /\ [][HandlerNext]_handlerVars /\ WF_handlerVars(RawDataProcess)

-------------------------------------------------------------------------------
(* Properties.                                                             *)

Points == [n : Nat, offset_time : Nat]

HandlerTypeOK ==
  /\ is_timestamp_sync \in BOOLEAN /\ raw_packet_queue \in Seq(Packets)
  /\ is_quit \in BOOLEAN
  /\ cb \in Packets \union {NoPacket}
  /\ pc \in {"loop", "take", "wait", "process", "check", "done"}
  /\ raw_data \in Packets \union {NoPacket}
  /\ pc \in {"process", "check"} => raw_data # NoPacket
  /\ points_clouds \in [Handles -> Seq(Points)]
  /\ first \in BOOLEAN /\ last_pub_time \in Nat /\ last_pub_time <= now
  /\ now \in Nat /\ lidar_clock \in [Handles -> Nat]
  /\ left \in [Handles -> Nat] /\ received \in [Handles -> Nat] /\ published \in [Handles -> Nat]
  /\ last_frame \in [Handles -> Nat \union {-1}]
  /\ steady \in BOOLEAN

\* The packets that are yet to become points: the one in the thread's hand, those in
\* the queue, the one in the SDK's hand.
InFlight ==
  (IF pc = "process" THEN <<raw_data>> ELSE <<>>)
    \o raw_packet_queue
    \o (IF cb = NoPacket THEN <<>> ELSE <<cb>>)

\* How many of the first k packets of a sequence are the lidar's.
PacketsOf(packets, l, k) == Cardinality({i \in 1 .. k : packets[i].handle = l})

\* Points published or in the lidar's frame.
Arranged(l) == published[l] + Len(points_clouds[l])

\* Every point is published once and in order: after the published ones come, without
\* a gap, those of the frame and of one packet after the other up to the last point
\* received, however the packets of lidars and time types are mixed.
EveryPointOnce ==
  \A l \in Handles :
    LET sent(k) == Arranged(l) + Dots * PacketsOf(InFlight, l, k)
    IN /\ \A i \in DOMAIN points_clouds[l] : points_clouds[l][i].n = published[l] + i
       /\ \A i \in DOMAIN InFlight : InFlight[i].handle = l => InFlight[i].n = sent(i - 1) + 1
       /\ received[l] = sent(Len(InFlight))

\* A synchronised lidar gets one frame per interval, none skipped and none split, as
\* long as no packet is late: where the intervals' first milliseconds, the tolerance
\* and the packets' rate must fit together (CheckTimer).
FrameIsOneInterval ==
  [][\A l \in Handles :
       steady /\ last_frame[l] # -1 /\ published'[l] # published[l] =>
         last_frame'[l] \div publish_interval = last_frame[l] \div publish_interval + 1]_handlerVars

\* The destructor's join returns, although nobody notifies the thread.
JoinReturns == is_quit ~> pc = "done"
===============================================================================
