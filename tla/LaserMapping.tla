------------------------------ MODULE LaserMapping ------------------------------
(***************************************************************************)
(* The mapping loop of Point-LIO (laserMapping.cpp, IMU_Processing.hpp),   *)
(* with frames taken as they are, with or without imu_en.                  *)
(*                                                                         *)
(* The callbacks run inside ros::spinOnce, in the loop's own thread; what  *)
(* varies is which messages have arrived by then.  sync_packages waits     *)
(* until the IMU has passed the end of the oldest scan.  The filter then   *)
(* walks through the scan's times and, before each of them, takes every    *)
(* earlier IMU message off imu_deque, with no test that there is one.      *)
(* Without imu_en it goes from point to point, and nobody reads the deque. *)
(*                                                                         *)
(* A scan is its begin time and the set of its points' offsets; points of  *)
(* one offset are one, as time_compressing makes them.  imu_next is the    *)
(* stamp of the IMU message in hand.                                       *)
(***************************************************************************)
EXTENDS Integers, Sequences, FiniteSets, FiniteSetsExt

CONSTANTS Stamps,        \* stamps of the IMU messages
          Begins,        \* begin times of the scans
          Offsets,       \* the sets of offsets a scan may have, the empty one too
          MAX_INI_COUNT, \* IMU messages that initialise the filter
          init_map_size, \* points that make the first map
          MaxImu         \* bound: IMU messages that wait in imu_deque, with and without imu_en

ASSUME MappingAssumption ==
  /\ Stamps \subseteq Nat /\ Begins \subseteq Nat
  /\ \A offs \in Offsets :
       /\ offs \subseteq Nat /\ IsFiniteSet(offs)
       /\ offs # {} => Max(offs) \in offs /\ \A o \in offs : o <= Max(offs)
  /\ MAX_INI_COUNT \in Nat \ {0}
  /\ init_map_size \in Nat

VARIABLES
  imu_en,                               \* setting: there is an IMU to use
  lidar_buffer, last_timestamp_lidar,
  imu_deque, last_timestamp_imu,
  lidar_pushed, meas, lidar_end_time,   \* the scan sync_packages works on
  meas_imu,                             \* length of Measures.imu
  imu_next,                             \* -1: none taken yet
  imu_need_init, init_iter_num, gravity_align,
  init_map, init_feats,
  pc,                                   \* where the loop is
  times,                                \* offsets of the scan yet to be processed
  is_first_frame, time_predict_last_const,
  driver_end                            \* history: end of the last scan accepted

inputVars == <<lidar_buffer, last_timestamp_lidar, imu_deque, last_timestamp_imu, driver_end>>
syncVars == <<lidar_pushed, meas, lidar_end_time>>
initVars == <<imu_need_init, init_iter_num>>
mapVars == <<init_map, init_feats>>
filterVars == <<is_first_frame, time_predict_last_const>>
vars == <<imu_en, inputVars, syncVars, meas_imu, imu_next, initVars, gravity_align, mapVars, pc,
          times, filterVars>>

\* Time of the last point: the largest curvature.
EndOf(scan) == scan.beg + Max(scan.offs)
ScanEnd(scan) == IF scan.offs = {} THEN scan.beg ELSE EndOf(scan)

NoScan == [beg |-> 0, offs |-> {}]

Init ==
  /\ imu_en \in BOOLEAN
  /\ lidar_buffer = <<>> /\ last_timestamp_lidar = -1
  /\ imu_deque = <<>> /\ last_timestamp_imu = -1
  /\ lidar_pushed = FALSE /\ meas = NoScan /\ lidar_end_time = 0
  /\ meas_imu = 0
  /\ imu_next = -1
  /\ imu_need_init = TRUE /\ init_iter_num = 1 /\ gravity_align = FALSE
  /\ init_map = FALSE /\ init_feats = 0
  /\ pc = "spin" /\ times = {}
  /\ is_first_frame = TRUE /\ time_predict_last_const = 0
  /\ driver_end = -1

-------------------------------------------------------------------------------
(* ros::spinOnce: the callbacks.                                           *)

\* Mutant: an IMU message that goes back in time is taken.
ImuCallback_LoopsBack(stamp) ==
  /\ pc = "spin"
  /\ Len(imu_deque) < MaxImu[imu_en]
  /\ imu_deque' = Append(imu_deque, stamp)
  /\ last_timestamp_imu' = stamp
  /\ UNCHANGED <<imu_en, lidar_buffer, last_timestamp_lidar, driver_end, syncVars, meas_imu,
                 imu_next, initVars, gravity_align, mapVars, pc, times, filterVars>>

\* A scan that goes back in time is dropped.
LidarCallback(scan) ==
  /\ pc = "spin"
  /\ scan.beg >= last_timestamp_lidar
  /\ lidar_buffer' = Append(lidar_buffer, scan)
  /\ last_timestamp_lidar' = scan.beg
  /\ driver_end' = ScanEnd(scan)
  /\ UNCHANGED <<imu_en, imu_deque, last_timestamp_imu, syncVars, meas_imu, imu_next, initVars,
                 gravity_align, mapVars, pc, times, filterVars>>

\* An IMU message that goes back in time is dropped; one of the same time is not.
ImuCallback(stamp) ==
  /\ pc = "spin"
  /\ Len(imu_deque) < MaxImu[imu_en]
  /\ stamp >= last_timestamp_imu
  /\ imu_deque' = Append(imu_deque, stamp)
  /\ last_timestamp_imu' = stamp
  /\ UNCHANGED <<imu_en, lidar_buffer, last_timestamp_lidar, driver_end, syncVars, meas_imu,
                 imu_next, initVars, gravity_align, mapVars, pc, times, filterVars>>

-------------------------------------------------------------------------------
(* sync_packages                                                           *)

Synchronising == pc = "spin" /\ imu_en /\ lidar_buffer # <<>> /\ imu_deque # <<>>

\* Mutant: a scan without points stays.
LoseLidar_KeepsScan ==
  /\ Synchronising
  /\ ~lidar_pushed
  /\ Head(lidar_buffer).offs = {}
  /\ meas' = [meas EXCEPT !.offs = {}]
  /\ UNCHANGED <<imu_en, inputVars, lidar_pushed, lidar_end_time, meas_imu, imu_next, initVars,
                 gravity_align, mapVars, pc, times, filterVars>>

\* A scan without points is thrown away.
LoseLidar ==
  /\ Synchronising
  /\ ~lidar_pushed
  /\ Head(lidar_buffer).offs = {}
  /\ lidar_buffer' = Tail(lidar_buffer)
  /\ meas' = [meas EXCEPT !.offs = {}]
  /\ UNCHANGED <<imu_en, last_timestamp_lidar, imu_deque, last_timestamp_imu, driver_end,
                 lidar_pushed, lidar_end_time, meas_imu, imu_next, initVars, gravity_align,
                 mapVars, pc, times, filterVars>>

\* The scan is measured once, and then waits in lidar_buffer for the IMU.
PushScan ==
  /\ Synchronising
  /\ ~lidar_pushed
  /\ Head(lidar_buffer).offs # {}
  /\ meas' = Head(lidar_buffer)
  /\ lidar_end_time' = EndOf(Head(lidar_buffer))
  /\ lidar_pushed' = TRUE
  /\ UNCHANGED <<imu_en, inputVars, meas_imu, imu_next, initVars, gravity_align, mapVars, pc,
                 times, filterVars>>

\* While the filter or the map is not initialised, the IMU messages up to the end
\* of the scan are moved to Measures.imu.  n is how many: the loop goes on while
\* the last one looked at is before the end, and stops at one after it.
Takes(n) ==
  /\ \A i \in 1 .. n : imu_deque[i] <= lidar_end_time
  /\ \A i \in 1 .. n : imu_deque[IF i = 1 THEN 1 ELSE i - 1] < lidar_end_time
  /\ n < Len(imu_deque) =>
       \/ imu_deque[n + 1] > lidar_end_time
       \/ imu_deque[IF n = 0 THEN 1 ELSE n] >= lidar_end_time

\* Mutant: the scan does not wait for the IMU to pass its end.
SyncPackages_DoesNotWait ==
  /\ Synchronising
  /\ lidar_pushed
  /\ \E n \in 0 .. Len(imu_deque) :
       /\ IF imu_need_init \/ ~init_map THEN Takes(n) ELSE n = 0
       /\ meas_imu' = IF imu_need_init THEN meas_imu + n
                      ELSE IF ~init_map THEN meas_imu + 1 + n ELSE meas_imu
       /\ imu_next' = IF n = 0 THEN imu_next ELSE imu_deque[n]
       /\ imu_deque' = SubSeq(imu_deque, n + 1, Len(imu_deque))
  /\ lidar_buffer' = Tail(lidar_buffer)
  /\ lidar_pushed' = FALSE
  /\ pc' = "process"
  /\ UNCHANGED <<imu_en, last_timestamp_lidar, last_timestamp_imu, driver_end, meas,
                 lidar_end_time, initVars, gravity_align, mapVars, times, filterVars>>

\* Measures.imu is not emptied between the scans; once the filter is initialised
\* the last message is put in front again, so that it is not empty.
SyncPackages ==
  /\ Synchronising
  /\ lidar_pushed
  /\ last_timestamp_imu >= lidar_end_time
  /\ \E n \in 0 .. Len(imu_deque) :
       /\ IF imu_need_init \/ ~init_map THEN Takes(n) ELSE n = 0
       /\ meas_imu' = IF imu_need_init THEN meas_imu + n
                      ELSE IF ~init_map THEN meas_imu + 1 + n ELSE meas_imu
       /\ imu_next' = IF n = 0 THEN imu_next ELSE imu_deque[n]
       /\ imu_deque' = SubSeq(imu_deque, n + 1, Len(imu_deque))
  /\ lidar_buffer' = Tail(lidar_buffer)
  /\ lidar_pushed' = FALSE
  /\ pc' = "process"
  /\ UNCHANGED <<imu_en, last_timestamp_lidar, last_timestamp_imu, driver_end, meas,
                 lidar_end_time, initVars, gravity_align, mapVars, times, filterVars>>

\* Without an IMU every scan that has points is ready at once.
SyncWithoutImu ==
  /\ pc = "spin" /\ ~imu_en /\ lidar_buffer # <<>>
  /\ lidar_buffer' = Tail(lidar_buffer)
  /\ meas' = Head(lidar_buffer)
  /\ IF meas'.offs = {}
       THEN UNCHANGED <<lidar_end_time, pc>>
       ELSE lidar_end_time' = EndOf(meas') /\ pc' = "process"
  /\ UNCHANGED <<imu_en, last_timestamp_lidar, imu_deque, last_timestamp_imu, driver_end,
                 lidar_pushed, meas_imu, imu_next, initVars, gravity_align, mapVars, times,
                 filterVars>>

-------------------------------------------------------------------------------
(* main, after sync_packages has returned true                             *)

\* ImuProcess::Process and IMU_init.  The first call sets init_iter_num to 1, which
\* it already is.
Process ==
  /\ pc = "process"
  /\ CASE imu_en /\ imu_need_init /\ meas_imu > 0 ->
              /\ init_iter_num' = init_iter_num + meas_imu
              /\ imu_need_init' = (init_iter_num' <= MAX_INI_COUNT)
       [] ~imu_en -> imu_need_init' = FALSE /\ UNCHANGED init_iter_num
       [] OTHER -> UNCHANGED initVars
  /\ pc' = IF imu_need_init' THEN "spin" ELSE "align"
  /\ UNCHANGED <<imu_en, inputVars, syncVars, meas_imu, imu_next, gravity_align, mapVars, times,
                 filterVars>>

\* The next offset of the scan, and its time (time_current).
IsNext(t) == t \in times /\ \A u \in times : t <= u
TimeOf(t) == meas.beg + t

\* imu_last = imu_next; imu_next = *(imu_deque.front()); imu_deque.pop_front()
TakeImu ==
  /\ imu_next' = Head(imu_deque)
  /\ imu_deque' = Tail(imu_deque)
  /\ UNCHANGED <<imu_en, lidar_buffer, last_timestamp_lidar, last_timestamp_imu, driver_end,
                 syncVars, meas_imu, initVars, gravity_align, mapVars, pc, times>>

\* The gravity is aligned once, with the IMU, if any, brought up to the scan's begin.
CatchUpToScan ==
  /\ pc = "align" /\ ~gravity_align
  /\ imu_en /\ imu_next < meas.beg
  /\ TakeImu
  /\ UNCHANGED filterVars

AlignGravity ==
  /\ pc = "align" /\ ~gravity_align
  /\ imu_en => imu_next >= meas.beg
  /\ gravity_align' = TRUE
  /\ UNCHANGED <<imu_en, inputVars, syncVars, meas_imu, imu_next, initVars, mapVars, pc, times,
                 filterVars>>

Span(offs) == UNION {UNION {a .. b : b \in offs} : a \in offs}

\* The scan is downsampled: a voxel's point has the mean of its points' times.
\* The scans' points make the first map when there are enough of them.
Downsample ==
  /\ pc = "align" /\ gravity_align
  /\ \E kept \in (SUBSET Span(meas.offs)) \ {{}} :
       IF init_map
         THEN times' = kept /\ pc' = "points" /\ UNCHANGED mapVars
         ELSE /\ init_feats' = init_feats + Cardinality(kept)
              /\ init_map' = (init_feats' >= init_map_size)
              /\ pc' = "spin"
              /\ UNCHANGED times
  /\ UNCHANGED <<imu_en, inputVars, syncVars, meas_imu, imu_next, initVars, gravity_align,
                 filterVars>>

\* Before the first point of all the IMU is only brought up to it.
CatchUpToFirst(t) ==
  /\ pc = "points" /\ IsNext(t) /\ is_first_frame
  /\ imu_en /\ imu_next < TimeOf(t)
  /\ TakeImu
  /\ UNCHANGED filterVars

\* The filter is predicted up to each IMU message before the point: one of
\* imu_last's time, when it is imu_next's turn.
PredictToImu(t) ==
  /\ pc = "points" /\ IsNext(t) /\ ~is_first_frame
  /\ imu_en /\ imu_next < TimeOf(t)
  /\ TakeImu
  /\ time_predict_last_const' = imu_next
  /\ UNCHANGED is_first_frame

\* and then up to the point, which updates it.  The scan's last point ends the
\* turn: the odometry is published and the map is extended.
PredictToPoint(t) ==
  /\ pc = "points" /\ IsNext(t)
  /\ imu_en => imu_next >= TimeOf(t)
  /\ time_predict_last_const' = TimeOf(t)
  /\ is_first_frame' = FALSE
  /\ times' = times \ {t}
  /\ pc' = IF times' = {} THEN "spin" ELSE "points"
  /\ UNCHANGED <<imu_en, inputVars, syncVars, meas_imu, imu_next, initVars, gravity_align,
                 mapVars>>

-------------------------------------------------------------------------------
\* The driver's frames follow each other without overlap: PubHandler swaps the
\* points out when it publishes them.  When a recording is played again, they go
\* back in time.
DriverSends(scan) == scan.beg > driver_end \/ scan.beg < last_timestamp_lidar

Callbacks ==
  \/ \E scan \in [beg : Begins, offs : Offsets] : DriverSends(scan) /\ LidarCallback(scan)
  \/ \E stamp \in Stamps : ImuCallback(stamp)

Sync == LoseLidar \/ PushScan \/ SyncPackages \/ SyncWithoutImu

Handle ==
  \/ Process \/ CatchUpToScan \/ AlignGravity \/ Downsample
  \/ \E t \in times : CatchUpToFirst(t) \/ PredictToImu(t) \/ PredictToPoint(t)

Next == Callbacks \/ Sync \/ Handle

\* The loop runs on; nothing obliges the sensors to send.
Spec == Init /\ [][Next]_vars /\ WF_vars(Sync \/ Handle)

-------------------------------------------------------------------------------
(* Properties.                                                             *)

Scans == [beg : Nat, offs : SUBSET Nat]

TypeOK ==
  /\ imu_en \in BOOLEAN
  /\ lidar_buffer \in Seq(Scans) /\ last_timestamp_lidar \in Int
  /\ imu_deque \in Seq(Nat) /\ last_timestamp_imu \in Int
  /\ lidar_pushed \in BOOLEAN /\ meas \in Scans /\ lidar_end_time \in Nat
  /\ meas_imu \in Nat
  /\ imu_next \in Int
  /\ imu_need_init \in BOOLEAN /\ init_iter_num \in Nat /\ gravity_align \in BOOLEAN
  /\ init_map \in BOOLEAN /\ init_feats \in Nat
  /\ pc \in {"spin", "process", "align", "points"}
  /\ times \in SUBSET Nat /\ (times # {} <=> pc = "points")
  /\ is_first_frame \in BOOLEAN /\ time_predict_last_const \in Nat
  /\ driver_end \in Int

\* imu_deque.front() is never taken of an empty deque: whenever the loop needs
\* another IMU message there is one, because sync_packages has seen one that is
\* not before the scan's end, and nobody has taken it since.  (Without imu_en it
\* needs none.)
ImuIsThere ==
  imu_en =>
    /\ pc = "align" /\ ~gravity_align /\ imu_next < meas.beg => imu_deque # <<>>
    /\ \A t \in times :
         pc = "points" /\ IsNext(t) /\ imu_next < TimeOf(t) => imu_deque # <<>>

\* The filter is never predicted back in time, from scan to scan and from IMU
\* message to point: dt in kf_output.predict is not negative.
TimeNeverGoesBack ==
  [][~is_first_frame => time_predict_last_const' >= time_predict_last_const]_vars

\* The scan the loop works on, or waits for the IMU with, is one that was
\* measured at its own end, although the callbacks append scans meanwhile.
MeasuredScan ==
  /\ lidar_pushed => lidar_buffer # <<>> /\ meas = Head(lidar_buffer)
  /\ lidar_pushed \/ pc # "spin" => meas.offs # {} /\ lidar_end_time = EndOf(meas)

\* A scan whose end the IMU has passed is taken off lidar_buffer, when there is
\* an IMU message left to synchronise it with; without imu_en, every scan.
Ready ==
  /\ lidar_buffer # <<>>
  /\ imu_en =>
       /\ imu_deque # <<>>
       /\ Head(lidar_buffer).offs # {} => EndOf(Head(lidar_buffer)) <= last_timestamp_imu
ReadyScanIsTaken ==
  \A b \in Begins : (Ready /\ Head(lidar_buffer).beg = b)
                      ~> \/ lidar_buffer = <<>> \/ Head(lidar_buffer).beg # b
                         \/ imu_en /\ imu_deque = <<>>

-------------------------------------------------------------------------------
(* The inductive invariant of the proofs (LaserMappingProofs).             *)

\* IMU messages are taken in the order of their stamps, and the last one that
\* arrived is the last in the deque or, when that is empty, the one in hand.
ImuOrder ==
  /\ \A i, j \in DOMAIN imu_deque : i <= j => imu_deque[i] <= imu_deque[j]
  /\ \A i \in DOMAIN imu_deque : imu_next <= imu_deque[i]
  /\ imu_next <= last_timestamp_imu
  /\ IF imu_deque = <<>> THEN imu_next = last_timestamp_imu
                         ELSE imu_deque[Len(imu_deque)] = last_timestamp_imu

\* The scans that wait follow each other without overlap.
ScanOrder ==
  /\ last_timestamp_lidar <= driver_end
  /\ \A i \in DOMAIN lidar_buffer :
       lidar_buffer[i].offs \in Offsets /\ ScanEnd(lidar_buffer[i]) <= driver_end
  /\ \A i, j \in DOMAIN lidar_buffer :
       i < j => ScanEnd(lidar_buffer[i]) < lidar_buffer[j].beg

\* The scan in hand ends before the IMU does and before the scans that wait.
ScanInHand ==
  /\ MeasuredScan
  /\ meas.offs \in Offsets \union {{}}
  /\ lidar_pushed => imu_en
  /\ pc # "spin" =>
       /\ ~lidar_pushed
       /\ lidar_end_time <= driver_end
       /\ imu_en => lidar_end_time <= last_timestamp_imu
       /\ \A i \in DOMAIN lidar_buffer : lidar_end_time < lidar_buffer[i].beg
  /\ \A t \in times : \E o \in meas.offs : t <= o

\* The filter is not ahead of anything it has yet to be predicted to.
FilterBehind ==
  ~is_first_frame =>
    /\ imu_en => time_predict_last_const <= imu_next
    /\ time_predict_last_const <= driver_end
    /\ pc = "spin" => \A i \in DOMAIN lidar_buffer :
                        time_predict_last_const < lidar_buffer[i].beg
    /\ pc \in {"process", "align"} => time_predict_last_const <= meas.beg
    /\ pc = "points" => /\ time_predict_last_const <= lidar_end_time
                        /\ \A t \in times : time_predict_last_const <= TimeOf(t)

MappingInv == TypeOK /\ ImuOrder /\ ScanOrder /\ ScanInHand /\ FilterBehind
===============================================================================
