--------------------------- MODULE LaserMappingProofs ---------------------------
(***************************************************************************)
(* Proofs about the mapping loop, for any stamps, scans and thresholds:    *)
(* the IMU message the loop needs is always there, the filter is never     *)
(* predicted back in time, and every point is matched at its own time.     *)
(***************************************************************************)
EXTENDS FilterWalk, TLAPS, SequenceTheorems, FiniteSetTheorems, WellFoundedInduction

USE DEF inputVars, syncVars, initVars, mapVars, filterVars

\* A scan of the driver ends at one of its points and none is later.
LEMMA EndOfScan ==
  ASSUME NEW scan \in Scans, scan.offs \in Offsets, scan.offs # {}
  PROVE  /\ EndOf(scan) \in Nat
         /\ \A o \in scan.offs : scan.beg + o <= EndOf(scan)
         /\ scan.beg <= EndOf(scan)
<1>1. /\ scan.beg \in Nat /\ scan.offs \subseteq Nat
      /\ Max(scan.offs) \in scan.offs /\ \A o \in scan.offs : o <= Max(scan.offs)
  BY MappingAssumption DEF Scans
<1>2. Max(scan.offs) \in Nat BY <1>1
<1>3. EndOf(scan) = scan.beg + Max(scan.offs) BY DEF EndOf
<1> HIDE DEF EndOf
<1> QED BY <1>1, <1>2, <1>3

LEMMA EndOfAnyScan ==
  ASSUME NEW scan \in Scans, scan.offs \in Offsets
  PROVE  ScanEnd(scan) \in Nat /\ scan.beg <= ScanEnd(scan)
BY EndOfScan DEF ScanEnd, Scans

\* What holds of every scan that waits.
LEMMA WaitingScans ==
  ASSUME TypeOK, ScanOrder, NEW i \in DOMAIN lidar_buffer
  PROVE  /\ i \in Nat /\ 1 <= i /\ i <= Len(lidar_buffer) /\ Len(lidar_buffer) \in Nat
         /\ lidar_buffer[i] \in Scans /\ lidar_buffer[i].beg \in Nat
         /\ ScanEnd(lidar_buffer[i]) \in Nat
         /\ lidar_buffer[i].beg <= ScanEnd(lidar_buffer[i])
         /\ ScanEnd(lidar_buffer[i]) <= driver_end
<1>1. lidar_buffer[i] \in Scans /\ lidar_buffer[i].offs \in Offsets
  BY DEF TypeOK, ScanOrder
<1>2. ScanEnd(lidar_buffer[i]) \in Nat /\ lidar_buffer[i].beg <= ScanEnd(lidar_buffer[i])
  BY <1>1, EndOfAnyScan
<1>3. lidar_buffer[i].beg \in Nat BY <1>1 DEF Scans
<1> QED BY <1>1, <1>2, <1>3 DEF TypeOK, ScanOrder

\* Taking the front of a deque, or the first n of it.
LEMMA TailShifts ==
  ASSUME NEW S, NEW s \in Seq(S), s # <<>>
  PROVE  /\ Tail(s) \in Seq(S) /\ Head(s) = s[1] /\ 1 \in DOMAIN s /\ s[1] \in S
         /\ Len(s) \in Nat /\ Len(Tail(s)) = Len(s) - 1
         /\ \A i \in DOMAIN Tail(s) :
              i \in Nat /\ i >= 1 /\ i + 1 \in DOMAIN s /\ Tail(s)[i] = s[i + 1]
<1>1. /\ Tail(s) \in Seq(S) /\ Len(Tail(s)) = Len(s) - 1
      /\ \A i \in 1 .. Len(Tail(s)) : Tail(s)[i] = s[i + 1]
  BY HeadTailProperties
<1>2. Len(s) \in Nat /\ Len(s) >= 1 /\ DOMAIN s = 1 .. Len(s) /\ DOMAIN Tail(s) = 1 .. Len(Tail(s))
  BY <1>1, EmptySeq
<1> QED BY <1>1, <1>2

LEMMA DropShifts ==
  ASSUME NEW S, NEW s \in Seq(S), NEW n \in 0 .. Len(s)
  PROVE  LET d == SubSeq(s, n + 1, Len(s)) IN
         /\ d \in Seq(S) /\ Len(s) \in Nat /\ Len(d) = Len(s) - n
         /\ \A i \in DOMAIN d :
              i \in Nat /\ i >= 1 /\ i <= Len(s) - n /\ n + i \in DOMAIN s /\ d[i] = s[n + i]
<1> DEFINE d == SubSeq(s, n + 1, Len(s))
<1>1. Len(s) \in Nat /\ n \in Nat /\ n <= Len(s) /\ DOMAIN s = 1 .. Len(s)
  OBVIOUS
<1>2. \A i \in n + 1 .. Len(s) : s[i] \in S BY <1>1
<1>3. /\ d \in Seq(S)
      /\ Len(d) = IF n + 1 <= Len(s) THEN Len(s) - (n + 1) + 1 ELSE 0
      /\ \A i \in 1 .. Len(s) - (n + 1) + 1 : d[i] = s[n + 1 + i - 1]
  BY <1>1, <1>2, SubSeqProperties
<1> HIDE DEF d
<1>4. Len(d) = Len(s) - n
  <2>1. CASE n + 1 <= Len(s)
    <3>1. Len(d) = Len(s) - (n + 1) + 1 BY <1>3, <2>1
    <3> QED BY <1>1, <3>1
  <2>2. CASE n = Len(s)
    <3>1. Len(d) = 0 BY <1>1, <1>3, <2>2
    <3> QED BY <1>1, <2>2, <3>1
  <2>3. n + 1 <= Len(s) \/ n = Len(s)
    <3>1. \A a, b \in Nat : a <= b => a + 1 <= b \/ a = b OBVIOUS
    <3> QED BY <1>1, <3>1
  <2> QED BY <2>1, <2>2, <2>3
<1>5. DOMAIN d = 1 .. Len(s) - n BY <1>3, <1>4
<1>6. ASSUME NEW i \in DOMAIN d
      PROVE  i \in Nat /\ i >= 1 /\ i <= Len(s) - n /\ n + i \in DOMAIN s /\ d[i] = s[n + i]
  <2>1. i \in Nat /\ i >= 1 /\ i <= Len(s) - n BY <1>1, <1>5
  <2>2. i \in 1 .. Len(s) - (n + 1) + 1 /\ n + 1 + i - 1 = n + i BY <1>1, <2>1
  <2>3. n + i \in DOMAIN s BY <1>1, <2>1
  <2> QED BY <1>3, <2>1, <2>2, <2>3
<1> QED BY <1>1, <1>3, <1>4, <1>6 DEF d

LEMMA InitMappingInv == Init => MappingInv
<1> SUFFICES ASSUME Init PROVE MappingInv OBVIOUS
<1> USE DEF Init
<1>1. TypeOK
  <2>1. NoScan \in Scans BY DEF NoScan, Scans
  <2>2. lidar_buffer \in Seq(Scans) /\ imu_deque \in Seq(Nat) BY EmptySeq
  <2>3. meas \in Scans /\ (times # {} <=> pc = "points") BY <2>1
  <2>4. /\ last_timestamp_lidar \in Int /\ last_timestamp_imu \in Int /\ imu_next \in Int
        /\ driver_end \in Int /\ lidar_end_time \in Nat /\ meas_imu \in Nat
        /\ init_iter_num \in Nat /\ init_feats \in Nat /\ time_predict_last_const \in Nat
    OBVIOUS
  <2> HIDE DEF NoScan
  <2> QED BY <2>2, <2>3, <2>4 DEF TypeOK
<1>2. ImuOrder BY DEF ImuOrder
<1>3. ScanOrder BY DEF ScanOrder
<1>4. ScanInHand BY DEF ScanInHand, MeasuredScan, NoScan
<1>5. FilterBehind BY DEF FilterBehind
<1> QED BY <1>1, <1>2, <1>3, <1>4, <1>5 DEF MappingInv

\* Without its oldest scan the buffer is as well ordered.
LEMMA FewerScansInOrder ==
  ASSUME ScanOrder, UNCHANGED <<driver_end, last_timestamp_lidar>>,
         \A i \in DOMAIN lidar_buffer' :
            /\ i \in Nat /\ i + 1 \in DOMAIN lidar_buffer
            /\ lidar_buffer'[i] = lidar_buffer[i + 1]
  PROVE  ScanOrder'
<1>1. ASSUME NEW i \in DOMAIN lidar_buffer'
      PROVE  /\ lidar_buffer'[i].offs \in Offsets
             /\ ScanEnd(lidar_buffer'[i]) <= driver_end'
  BY <1>1 DEF ScanOrder
<1>2. ASSUME NEW i \in DOMAIN lidar_buffer', NEW j \in DOMAIN lidar_buffer', i < j
      PROVE  ScanEnd(lidar_buffer'[i]) < lidar_buffer'[j].beg
  <2>1. i + 1 < j + 1 BY <1>2
  <2> QED BY <1>2, <2>1 DEF ScanOrder
<1>3. last_timestamp_lidar' <= driver_end' BY DEF ScanOrder
<1> QED BY <1>1, <1>2, <1>3 DEF ScanOrder, ScanEnd, EndOf

-------------------------------------------------------------------------------
LEMMA LidarCallbackStep ==
  ASSUME MappingInv, NEW scan \in [beg : Begins, offs : Offsets],
         DriverSends(scan), LidarCallback(scan)
  PROVE  MappingInv'
<1> USE DEF MappingInv, LidarCallback
<1>1. /\ scan \in Scans /\ scan.offs \in Offsets /\ scan.beg \in Begins
      /\ ScanEnd(scan) \in Nat /\ scan.beg <= ScanEnd(scan)
  BY MappingAssumption, EndOfAnyScan DEF Scans
<1>2. scan.beg > driver_end
  BY <1>1 DEF DriverSends, TypeOK, Scans
<1>3. /\ lidar_buffer' \in Seq(Scans)
      /\ Len(lidar_buffer') = Len(lidar_buffer) + 1
      /\ \A i \in DOMAIN lidar_buffer :
           i \in DOMAIN lidar_buffer' /\ lidar_buffer'[i] = lidar_buffer[i]
      /\ \A i \in DOMAIN lidar_buffer' :
           i \in DOMAIN lidar_buffer \/ (i = Len(lidar_buffer) + 1 /\ lidar_buffer'[i] = scan)
      /\ lidar_buffer # <<>> => Head(lidar_buffer') = Head(lidar_buffer)
  BY <1>1 DEF TypeOK
<1>4. \A i \in DOMAIN lidar_buffer :
         /\ lidar_buffer[i] \in Scans /\ lidar_buffer[i].beg \in Nat
         /\ ScanEnd(lidar_buffer[i]) \in Nat
         /\ lidar_buffer[i].beg <= ScanEnd(lidar_buffer[i])
         /\ ScanEnd(lidar_buffer[i]) <= driver_end
  BY WaitingScans
<1>5. TypeOK' BY <1>1, <1>3, MappingAssumption DEF TypeOK, Scans
<1>6. ImuOrder' BY DEF ImuOrder
<1>7. ScanOrder'
  <2>1. last_timestamp_lidar' <= driver_end' BY <1>1, <1>3 DEF Scans
  <2>2. ASSUME NEW i \in DOMAIN lidar_buffer'
        PROVE  lidar_buffer'[i].offs \in Offsets /\ ScanEnd(lidar_buffer'[i]) <= driver_end'
    <3>1. CASE i \in DOMAIN lidar_buffer
      BY <1>1, <1>2, <1>3, <1>4, <3>1 DEF ScanOrder, TypeOK, Scans
    <3>2. CASE lidar_buffer'[i] = scan
      BY <1>1, <3>2
    <3> QED BY <1>3, <3>1, <3>2
  <2>3. ASSUME NEW i \in DOMAIN lidar_buffer', NEW j \in DOMAIN lidar_buffer', i < j
        PROVE  ScanEnd(lidar_buffer'[i]) < lidar_buffer'[j].beg
    <3>1. i \in DOMAIN lidar_buffer /\ lidar_buffer'[i] = lidar_buffer[i]
      BY <1>3, <2>3 DEF TypeOK
    <3>2. CASE j \in DOMAIN lidar_buffer
      BY <1>3, <2>3, <3>1, <3>2 DEF ScanOrder
    <3>3. CASE lidar_buffer'[j] = scan
      BY <1>1, <1>2, <1>4, <3>1, <3>3 DEF TypeOK, Scans
    <3> QED BY <1>3, <3>2, <3>3
  <2> QED BY <2>1, <2>2, <2>3 DEF ScanOrder, ScanEnd, EndOf
<1>8. ScanInHand'
  BY <1>3 DEF ScanInHand, MeasuredScan, EndOf
<1>9. FilterBehind'
  <2> SUFFICES ASSUME ~is_first_frame PROVE FilterBehind' BY DEF FilterBehind
  <2>1. time_predict_last_const <= driver_end BY DEF FilterBehind
  <2>2. driver_end <= driver_end' BY <1>1, <1>2, MappingAssumption DEF TypeOK, Scans
  <2>3. ASSUME NEW i \in DOMAIN lidar_buffer'
        PROVE  time_predict_last_const < lidar_buffer'[i].beg
    <3>1. \A j \in DOMAIN lidar_buffer : time_predict_last_const < lidar_buffer[j].beg
      BY DEF FilterBehind
    <3>2. time_predict_last_const < scan.beg
      <4>1. time_predict_last_const \in Nat /\ driver_end \in Int /\ scan.beg \in Nat
        BY <1>1 DEF TypeOK, Scans
      <4> HIDE DEF MappingInv, LidarCallback
      <4> QED BY <1>2, <2>1, <4>1
    <3> HIDE DEF MappingInv, LidarCallback
    <3> QED BY <1>3, <3>1, <3>2
  <2>4. time_predict_last_const <= driver_end'
    BY <1>1, <2>1, <2>2 DEF TypeOK
  <2>5. imu_en' => time_predict_last_const <= imu_next' BY DEF FilterBehind
  <2>6. pc' = "spin" /\ UNCHANGED <<time_predict_last_const, is_first_frame>> OBVIOUS
  <2> QED BY <2>3, <2>4, <2>5, <2>6 DEF FilterBehind
<1> QED BY <1>5, <1>6, <1>7, <1>8, <1>9

LEMMA ImuCallbackStep ==
  ASSUME MappingInv, NEW stamp \in Stamps, ImuCallback(stamp)
  PROVE  MappingInv'
<1> USE DEF MappingInv, ImuCallback
<1>1. stamp \in Nat BY MappingAssumption
<1>2. /\ imu_deque' \in Seq(Nat) /\ imu_deque' # <<>>
      /\ Len(imu_deque') = Len(imu_deque) + 1
      /\ \A i \in DOMAIN imu_deque : imu_deque'[i] = imu_deque[i] /\ imu_deque[i] \in Nat
      /\ imu_deque'[Len(imu_deque) + 1] = stamp
  BY <1>1 DEF TypeOK
<1>3. \A i \in DOMAIN imu_deque' : i \in DOMAIN imu_deque \/ i = Len(imu_deque) + 1
  BY <1>2 DEF TypeOK
<1>4. \A i \in DOMAIN imu_deque : imu_deque[i] <= last_timestamp_imu
  <2> TAKE i \in DOMAIN imu_deque
  <2>1. imu_deque # <<>> /\ Len(imu_deque) \in DOMAIN imu_deque /\ i <= Len(imu_deque)
    BY DEF TypeOK
  <2> QED BY <2>1 DEF ImuOrder
<1>5. TypeOK' BY <1>1, <1>2 DEF TypeOK
<1>6. ImuOrder'
  <2>1. \A i, j \in DOMAIN imu_deque' : i <= j => imu_deque'[i] <= imu_deque'[j]
    BY <1>1, <1>2, <1>3, <1>4 DEF TypeOK, ImuOrder
  <2>2. \A i \in DOMAIN imu_deque' : imu_next <= imu_deque'[i]
    BY <1>1, <1>2, <1>3 DEF TypeOK, ImuOrder
  <2>3. imu_next' = imu_next /\ last_timestamp_imu' = stamp /\ Len(imu_deque') = Len(imu_deque) + 1
    BY <1>2
  <2>4. imu_next <= stamp BY <1>1 DEF ImuOrder, TypeOK
  <2> HIDE DEF MappingInv, ImuCallback
  <2> QED BY <1>2, <2>1, <2>2, <2>3, <2>4 DEF ImuOrder
<1>7. ScanOrder' BY DEF ScanOrder, ScanEnd, EndOf
<1>8. ScanInHand' BY <1>1 DEF ScanInHand, MeasuredScan, EndOf, TypeOK
<1>9. FilterBehind'
  <2>1. imu_en' = imu_en /\ imu_next' = imu_next OBVIOUS
  <2>2. pc = "spin" /\ pc' = "spin" /\ UNCHANGED <<lidar_buffer, driver_end>> OBVIOUS
  <2>3. UNCHANGED <<time_predict_last_const, is_first_frame>> OBVIOUS
  <2> HIDE DEF ImuCallback
  <2> QED BY <2>1, <2>2, <2>3 DEF FilterBehind
<1> QED BY <1>5, <1>6, <1>7, <1>8, <1>9

-------------------------------------------------------------------------------
LEMMA LoseLidarStep == MappingInv /\ LoseLidar => MappingInv'
<1> SUFFICES ASSUME MappingInv, LoseLidar PROVE MappingInv' OBVIOUS
<1> USE DEF MappingInv, LoseLidar, Synchronising
<1>1. /\ lidar_buffer' \in Seq(Scans)
      /\ \A i \in DOMAIN lidar_buffer' :
           /\ i \in Nat /\ i + 1 \in DOMAIN lidar_buffer
           /\ lidar_buffer'[i] = lidar_buffer[i + 1]
  BY TailShifts DEF TypeOK
<1>2. TypeOK' BY <1>1 DEF TypeOK, Scans
<1>3. ImuOrder' BY DEF ImuOrder
<1>4. ScanOrder' BY <1>1, FewerScansInOrder DEF ScanOrder
<1>5. ScanInHand' BY DEF ScanInHand, MeasuredScan, EndOf, TypeOK, Scans
<1>6. FilterBehind' BY <1>1 DEF FilterBehind, TypeOK
<1> QED BY <1>2, <1>3, <1>4, <1>5, <1>6

LEMMA PushScanStep == MappingInv /\ PushScan => MappingInv'
<1> SUFFICES ASSUME MappingInv, PushScan PROVE MappingInv' OBVIOUS
<1> USE DEF MappingInv, PushScan, Synchronising
<1>1. /\ Head(lidar_buffer) \in Scans
      /\ Head(lidar_buffer).offs \in Offsets /\ Head(lidar_buffer).offs # {}
      /\ EndOf(Head(lidar_buffer)) \in Nat
  BY EndOfScan DEF TypeOK, ScanOrder
<1>2. TypeOK' BY <1>1 DEF TypeOK
<1>3. ImuOrder' BY DEF ImuOrder
<1>4. ScanOrder' BY DEF ScanOrder, ScanEnd, EndOf
<1>5. ScanInHand' BY <1>1 DEF ScanInHand, MeasuredScan, EndOf, TypeOK
<1>6. FilterBehind' BY DEF FilterBehind, TypeOK
<1> QED BY <1>2, <1>3, <1>4, <1>5, <1>6

LEMMA SyncPackagesStep == MappingInv /\ SyncPackages => MappingInv'
<1> SUFFICES ASSUME MappingInv, SyncPackages PROVE MappingInv' OBVIOUS
<1> USE DEF MappingInv, Synchronising
<1>1. PICK n \in 0 .. Len(imu_deque) :
        /\ meas_imu' = IF imu_need_init THEN meas_imu + n
                       ELSE IF ~init_map THEN meas_imu + 1 + n ELSE meas_imu
        /\ imu_next' = IF n = 0 THEN imu_next ELSE imu_deque[n]
        /\ imu_deque' = SubSeq(imu_deque, n + 1, Len(imu_deque))
  BY DEF SyncPackages
<1>2. /\ imu_deque' \in Seq(Nat)
      /\ Len(imu_deque) \in Nat /\ Len(imu_deque') = Len(imu_deque) - n
      /\ \A i \in DOMAIN imu_deque' :
           /\ i \in Nat /\ i >= 1 /\ i <= Len(imu_deque) - n
           /\ n + i \in DOMAIN imu_deque
           /\ imu_deque'[i] = imu_deque[n + i]
  BY <1>1, DropShifts DEF TypeOK
<1>3. /\ lidar_buffer' \in Seq(Scans)
      /\ \A i \in DOMAIN lidar_buffer' :
           /\ i \in Nat /\ i >= 1 /\ i + 1 \in DOMAIN lidar_buffer
           /\ lidar_buffer'[i] = lidar_buffer[i + 1]
      /\ meas = lidar_buffer[1] /\ 1 \in DOMAIN lidar_buffer
  BY TailShifts DEF SyncPackages, TypeOK, ScanInHand, MeasuredScan
<1>4. /\ meas \in Scans /\ meas.offs \in Offsets /\ meas.offs # {} /\ meas.beg \in Nat
      /\ lidar_end_time = EndOf(meas) /\ lidar_end_time = ScanEnd(meas)
      /\ lidar_end_time <= driver_end
  BY <1>3, WaitingScans DEF SyncPackages, ScanInHand, MeasuredScan, ScanEnd, ScanOrder
<1>5. /\ imu_deque # <<>> /\ Len(imu_deque) \in DOMAIN imu_deque
      /\ imu_deque[Len(imu_deque)] = last_timestamp_imu
      /\ n > 0 => n \in DOMAIN imu_deque
      /\ n \in Nat /\ n <= Len(imu_deque)
      /\ \A i \in DOMAIN imu_deque :
           i \in Nat /\ i >= 1 /\ i <= Len(imu_deque) /\ imu_deque[i] \in Nat
  <2>1. imu_deque \in Seq(Nat) /\ imu_deque # <<>> BY DEF SyncPackages, TypeOK
  <2>2. Len(imu_deque) \in Nat \ {0} /\ DOMAIN imu_deque = 1 .. Len(imu_deque)
    BY <2>1, EmptySeq
  <2>3. imu_deque[Len(imu_deque)] = last_timestamp_imu BY <2>1 DEF ImuOrder
  <2> QED BY <2>1, <2>2, <2>3
<1>6. imu_next' \in Int /\ imu_next <= imu_next'
  <2>1. CASE n = 0 BY <1>1, <2>1 DEF TypeOK
  <2>2. CASE n > 0 BY <1>1, <1>5, <2>2 DEF TypeOK, ImuOrder
  <2> QED BY <1>5, <2>1, <2>2
<1>7. TypeOK'
  <2>1. meas_imu' \in Nat BY <1>1, <1>5 DEF TypeOK
  <2> QED BY <1>2, <1>3, <1>6, <2>1 DEF SyncPackages, TypeOK
<1>8. ImuOrder'
  <2>1. ASSUME NEW i \in DOMAIN imu_deque', NEW j \in DOMAIN imu_deque', i <= j
        PROVE  imu_deque'[i] <= imu_deque'[j]
    <3>1. n + i <= n + j /\ n + i \in DOMAIN imu_deque /\ n + j \in DOMAIN imu_deque
      BY <1>2, <1>5, <2>1
    <3> QED BY <1>2, <3>1 DEF ImuOrder
  <2>2. ASSUME NEW i \in DOMAIN imu_deque' PROVE imu_next' <= imu_deque'[i]
    <3>1. n + i \in DOMAIN imu_deque /\ n <= n + i /\ imu_deque'[i] = imu_deque[n + i]
      BY <1>2, <1>5
    <3>2. CASE n = 0 BY <1>1, <3>1, <3>2 DEF ImuOrder
    <3>3. CASE n > 0 BY <1>1, <1>5, <3>1, <3>3 DEF ImuOrder
    <3> QED BY <1>5, <3>2, <3>3
  <2>3. imu_next' <= last_timestamp_imu
    <3>1. CASE n = 0 BY <1>1, <3>1 DEF ImuOrder
    <3>2. CASE n > 0 BY <1>1, <1>5, <3>2 DEF ImuOrder
    <3> QED BY <1>5, <3>1, <3>2
  <2>4. IF imu_deque' = <<>> THEN imu_next' = last_timestamp_imu
                             ELSE imu_deque'[Len(imu_deque')] = last_timestamp_imu
    <3>1. CASE n = Len(imu_deque)
      <4>1. imu_deque' = <<>> BY <1>2, <1>5, <3>1, EmptySeq
      <4>2. n > 0 BY <1>5, <3>1
      <4> QED BY <1>1, <1>5, <3>1, <4>1, <4>2
    <3>2. CASE n < Len(imu_deque)
      <4>1. Len(imu_deque') \in DOMAIN imu_deque' /\ imu_deque' # <<>>
        BY <1>2, <1>5, <3>2
      <4>2. imu_deque'[Len(imu_deque')] = imu_deque[n + Len(imu_deque')] BY <1>2, <4>1
      <4>3. n + Len(imu_deque') = Len(imu_deque) BY <1>2, <1>5
      <4> QED BY <1>5, <4>1, <4>2, <4>3
    <3> QED BY <1>5, <3>1, <3>2
  <2>5. last_timestamp_imu' = last_timestamp_imu BY DEF SyncPackages
  <2> QED BY <2>1, <2>2, <2>3, <2>4, <2>5 DEF ImuOrder
<1>9. ScanOrder'
  BY <1>3, FewerScansInOrder DEF SyncPackages
<1>10. ScanInHand'
  <2>1. \A i \in DOMAIN lidar_buffer' : lidar_end_time < lidar_buffer'[i].beg
    <3> TAKE i \in DOMAIN lidar_buffer'
    <3>1. 1 < i + 1 /\ i + 1 \in DOMAIN lidar_buffer BY <1>3
    <3>2. ScanEnd(lidar_buffer[1]) < lidar_buffer[i + 1].beg BY <1>3, <3>1 DEF ScanOrder
    <3> QED BY <1>3, <1>4, <3>2
  <2>2. /\ meas' = meas /\ lidar_end_time' = lidar_end_time /\ times' = {}
        /\ ~lidar_pushed' /\ pc' = "process"
        /\ last_timestamp_imu' = last_timestamp_imu /\ driver_end' = driver_end
        /\ lidar_end_time <= last_timestamp_imu
    BY DEF SyncPackages, TypeOK
  <2>3. MeasuredScan' BY <1>4, <2>2 DEF MeasuredScan, EndOf
  <2> QED BY <1>4, <2>1, <2>2, <2>3 DEF ScanInHand
<1>11. FilterBehind'
  <2> SUFFICES ASSUME ~is_first_frame PROVE FilterBehind' BY DEF FilterBehind, SyncPackages
  <2>1. time_predict_last_const <= imu_next' BY <1>6 DEF SyncPackages, FilterBehind, TypeOK
  <2>2. time_predict_last_const <= meas.beg
    BY <1>3, <1>4 DEF FilterBehind, SyncPackages, TypeOK
  <2>3. /\ time_predict_last_const' = time_predict_last_const /\ meas' = meas
        /\ driver_end' = driver_end /\ pc' = "process"
    BY DEF SyncPackages
  <2> QED BY <2>1, <2>2, <2>3 DEF FilterBehind
<1> QED BY <1>7, <1>8, <1>9, <1>10, <1>11

LEMMA SyncWithoutImuStep == MappingInv /\ SyncWithoutImu => MappingInv'
<1> SUFFICES ASSUME MappingInv, SyncWithoutImu PROVE MappingInv' OBVIOUS
<1> USE DEF MappingInv
<1>1. /\ pc = "spin" /\ ~imu_en /\ ~imu_en' /\ times = {} /\ times' = {} /\ lidar_buffer # <<>>
      /\ UNCHANGED <<last_timestamp_lidar, imu_deque, last_timestamp_imu, driver_end, imu_next,
                     filterVars, lidar_pushed>>
      /\ lidar_buffer' = Tail(lidar_buffer)
  BY DEF SyncWithoutImu, TypeOK
<1>2. /\ lidar_buffer' \in Seq(Scans)
      /\ \A i \in DOMAIN lidar_buffer' :
           /\ i \in Nat /\ i >= 1 /\ i + 1 \in DOMAIN lidar_buffer
           /\ lidar_buffer'[i] = lidar_buffer[i + 1]
      /\ meas' = lidar_buffer[1] /\ 1 \in DOMAIN lidar_buffer
  BY <1>1, TailShifts DEF SyncWithoutImu, TypeOK
<1>3. /\ meas' \in Scans /\ meas'.offs \in Offsets /\ meas'.beg \in Nat
      /\ ScanEnd(lidar_buffer[1]) <= driver_end
  BY <1>2, WaitingScans DEF ScanOrder
<1>4. \/ meas'.offs = {} /\ UNCHANGED <<lidar_end_time, pc>>
      \/ /\ meas'.offs # {} /\ pc' = "process" /\ lidar_end_time' = EndOf(lidar_buffer[1])
         /\ lidar_end_time' \in Nat
  <2>1. CASE meas'.offs = {} BY <2>1 DEF SyncWithoutImu
  <2>2. CASE meas'.offs # {}
    <3>1. EndOf(lidar_buffer[1]) \in Nat BY <1>2, <1>3, <2>2, EndOfScan
    <3> QED BY <1>2, <2>2, <3>1 DEF SyncWithoutImu
  <2> QED BY <2>1, <2>2
<1>5. ~lidar_pushed' BY <1>1 DEF ScanInHand
<1>6. TypeOK'
  <2>1. /\ lidar_end_time' \in Nat /\ pc' \in {"spin", "process"}
    BY <1>1, <1>4 DEF TypeOK
  <2> QED BY <1>1, <1>2, <1>3, <2>1 DEF SyncWithoutImu, TypeOK
<1>7. ImuOrder' BY <1>1 DEF ImuOrder
<1>8. ScanOrder' BY <1>1, <1>2, FewerScansInOrder
<1>9. ScanInHand'
  <2>1. MeasuredScan' BY <1>1, <1>2, <1>4, <1>5 DEF MeasuredScan, EndOf
  <2>2. CASE pc' = "spin" BY <1>1, <1>3, <1>5, <2>1, <2>2 DEF ScanInHand
  <2>3. CASE pc' # "spin"
    <3>1. lidar_end_time' = ScanEnd(lidar_buffer[1]) BY <1>1, <1>2, <1>4, <2>3 DEF ScanEnd
    <3>2. ASSUME NEW i \in DOMAIN lidar_buffer'
          PROVE  lidar_end_time' < lidar_buffer'[i].beg
      <4>1. 1 < i + 1 /\ i + 1 \in DOMAIN lidar_buffer BY <1>2
      <4> QED BY <1>2, <3>1, <4>1 DEF ScanOrder
    <3> QED BY <1>1, <1>3, <1>5, <2>1, <3>1, <3>2 DEF ScanInHand
  <2> QED BY <2>2, <2>3
<1>10. FilterBehind'
  <2> SUFFICES ASSUME ~is_first_frame PROVE FilterBehind' BY <1>1 DEF FilterBehind
  <2>1. /\ time_predict_last_const \in Nat /\ time_predict_last_const <= driver_end
        /\ \A i \in DOMAIN lidar_buffer : time_predict_last_const < lidar_buffer[i].beg
    BY <1>1 DEF FilterBehind, TypeOK
  <2>2. time_predict_last_const <= meas'.beg BY <1>2, <1>3, <2>1
  <2>3. \A i \in DOMAIN lidar_buffer' : time_predict_last_const < lidar_buffer'[i].beg
    BY <1>2, <2>1
  <2>4. pc' \in {"spin", "process"} BY <1>1, <1>4
  <2> QED BY <1>1, <2>1, <2>2, <2>3, <2>4 DEF FilterBehind
<1> QED BY <1>6, <1>7, <1>8, <1>9, <1>10

-------------------------------------------------------------------------------
(* The handling of a scan.                                                 *)

\* Taking the IMU message in front keeps the order; the one in hand gets later.
LEMMA TakeImuKeepsOrder ==
  ASSUME TypeOK, ImuOrder, TakeImu, imu_deque # <<>>
  PROVE  /\ ImuOrder' /\ imu_deque' \in Seq(Nat) /\ imu_next' \in Nat
         /\ imu_next <= imu_next'
<1>1. /\ imu_deque' \in Seq(Nat) /\ Head(imu_deque) = imu_deque[1]
      /\ 1 \in DOMAIN imu_deque /\ imu_deque[1] \in Nat
      /\ Len(imu_deque) \in Nat /\ Len(imu_deque') = Len(imu_deque) - 1
      /\ \A i \in DOMAIN imu_deque' :
           /\ i \in Nat /\ i >= 1 /\ i + 1 \in DOMAIN imu_deque
           /\ imu_deque'[i] = imu_deque[i + 1]
  BY TailShifts DEF TypeOK, TakeImu
<1>2. imu_next' = imu_deque[1] /\ last_timestamp_imu' = last_timestamp_imu
  BY <1>1 DEF TakeImu
<1>3. DOMAIN imu_deque = 1 .. Len(imu_deque) /\ DOMAIN imu_deque' = 1 .. Len(imu_deque')
  BY <1>1 DEF TypeOK
<1>4. imu_deque[Len(imu_deque)] = last_timestamp_imu /\ Len(imu_deque) \in DOMAIN imu_deque
  BY <1>1, <1>3 DEF ImuOrder
<1>5. ASSUME NEW i \in DOMAIN imu_deque', NEW j \in DOMAIN imu_deque', i <= j
      PROVE  imu_deque'[i] <= imu_deque'[j]
  <2>1. i + 1 <= j + 1 BY <1>1, <1>5
  <2> QED BY <1>1, <2>1 DEF ImuOrder
<1>6. ASSUME NEW i \in DOMAIN imu_deque' PROVE imu_next' <= imu_deque'[i]
  <2>1. 1 <= i + 1 BY <1>1
  <2> QED BY <1>1, <1>2, <2>1 DEF ImuOrder
<1>7. imu_next' <= last_timestamp_imu
  <2>1. 1 <= Len(imu_deque) BY <1>1, <1>3
  <2> QED BY <1>1, <1>2, <1>4, <2>1 DEF ImuOrder
<1>8. IF imu_deque' = <<>> THEN imu_next' = last_timestamp_imu
                           ELSE imu_deque'[Len(imu_deque')] = last_timestamp_imu
  <2>1. CASE Len(imu_deque) = 1 BY <1>1, <1>2, <1>4, <2>1, EmptySeq
  <2>2. CASE Len(imu_deque) > 1
    <3>1. Len(imu_deque') \in DOMAIN imu_deque' /\ Len(imu_deque') + 1 = Len(imu_deque)
      BY <1>1, <1>3, <2>2
    <3>2. imu_deque'[Len(imu_deque')] = imu_deque[Len(imu_deque)] BY <1>1, <3>1
    <3> QED BY <1>4, <3>1, <3>2
  <2> QED BY <1>1, <1>3, <2>1, <2>2
<1>9. imu_next <= imu_next' BY <1>1, <1>2 DEF ImuOrder
<1> QED BY <1>1, <1>2, <1>5, <1>6, <1>7, <1>8, <1>9 DEF ImuOrder

\* The points that are left lie before the end of the scan, and so before the
\* last IMU message.
LEMMA TimesBeforeEnd ==
  ASSUME TypeOK, ScanInHand, pc # "spin"
  PROVE  /\ meas \in Scans /\ meas.beg \in Nat /\ meas.beg <= lidar_end_time
         /\ lidar_end_time \in Nat /\ last_timestamp_imu \in Int
         /\ lidar_end_time <= driver_end
         /\ imu_en => lidar_end_time <= last_timestamp_imu
         /\ \A o \in meas.offs : o \in Nat /\ meas.beg + o <= lidar_end_time
         /\ \A t \in times : t \in Nat /\ TimeOf(t) \in Nat /\ TimeOf(t) <= lidar_end_time
                                       /\ meas.beg <= TimeOf(t)
<1>1. meas \in Scans /\ meas.beg \in Nat /\ meas.offs \subseteq Nat
  BY DEF TypeOK, Scans
<1>2. meas.offs \in Offsets /\ meas.offs # {} /\ lidar_end_time = EndOf(meas)
  BY DEF ScanInHand, MeasuredScan
<1>3. /\ EndOf(meas) \in Nat /\ meas.beg <= EndOf(meas)
      /\ \A o \in meas.offs : meas.beg + o <= EndOf(meas)
  BY <1>1, <1>2, EndOfScan
<1>4. ASSUME NEW t \in times
      PROVE  t \in Nat /\ TimeOf(t) \in Nat /\ TimeOf(t) <= lidar_end_time
                       /\ meas.beg <= TimeOf(t)
  <2>1. t \in Nat BY DEF TypeOK
  <2>2. PICK o \in meas.offs : t <= o BY DEF ScanInHand
  <2>3. o \in Nat /\ meas.beg + o <= lidar_end_time BY <1>1, <1>2, <1>3, <2>2
  <2> QED BY <1>1, <1>2, <1>3, <2>1, <2>2, <2>3 DEF TimeOf
<1>5. last_timestamp_imu \in Int BY DEF TypeOK
<1>6. /\ lidar_end_time <= driver_end
      /\ imu_en => lidar_end_time <= last_timestamp_imu
  BY DEF ScanInHand
<1> QED BY <1>1, <1>2, <1>3, <1>4, <1>5, <1>6

\* ImuIsThere, from the inductive invariant: the last IMU message that arrived is
\* not before the end of the scan, so that one in hand that is was not the last.
LEMMA ImuWaits ==
  ASSUME MappingInv
  PROVE  ImuIsThere
<1> USE DEF MappingInv
<1>1. ASSUME imu_en, pc # "spin", imu_next < lidar_end_time PROVE imu_deque # <<>>
  <2>1. lidar_end_time <= last_timestamp_imu /\ lidar_end_time \in Nat
    BY <1>1 DEF ScanInHand, TypeOK
  <2>2. imu_next # last_timestamp_imu BY <1>1, <2>1 DEF TypeOK
  <2> QED BY <2>2 DEF ImuOrder
<1>2. ASSUME imu_en, pc = "align", imu_next < meas.beg PROVE imu_deque # <<>>
  <2>1. imu_next < lidar_end_time BY <1>2, TimesBeforeEnd DEF TypeOK
  <2> QED BY <1>1, <1>2, <2>1
<1>3. ASSUME imu_en, NEW t \in times, pc = "points", imu_next < TimeOf(t)
      PROVE  imu_deque # <<>>
  <2>1. imu_next < lidar_end_time BY <1>3, TimesBeforeEnd DEF TypeOK
  <2> QED BY <1>1, <1>3, <2>1
<1> QED BY <1>2, <1>3 DEF ImuIsThere

\* What the filter and the IMU do leaves the scans as they are.
LEMMA ScansLeftAlone ==
  ASSUME ScanOrder, UNCHANGED <<lidar_buffer, last_timestamp_lidar, driver_end>>
  PROVE  ScanOrder'
BY DEF ScanOrder, ScanEnd, EndOf

LEMMA ProcessStep == MappingInv /\ Process => MappingInv'
<1> SUFFICES ASSUME MappingInv, Process PROVE MappingInv' OBVIOUS
<1> USE DEF MappingInv, Process
<1>1. times = {} BY DEF TypeOK
<1>2. TypeOK'
  <2>1. init_iter_num' \in Nat /\ imu_need_init' \in BOOLEAN
    <3>1. CASE imu_en /\ imu_need_init /\ meas_imu > 0
      <4>1. init_iter_num' = init_iter_num + meas_imu BY <3>1
      <4>2. imu_need_init' = (init_iter_num' <= MAX_INI_COUNT) BY <3>1
      <4> QED BY <4>1, <4>2 DEF TypeOK
    <3>2. CASE imu_en /\ ~(imu_need_init /\ meas_imu > 0) BY <3>2 DEF TypeOK
    <3>3. CASE ~imu_en BY <3>3 DEF TypeOK
    <3> QED BY <3>1, <3>2, <3>3
  <2> QED BY <1>1, <2>1 DEF TypeOK
<1>3. ImuOrder' BY DEF ImuOrder
<1>4. ScanOrder' BY ScansLeftAlone
<1>5. ScanInHand' BY <1>1 DEF ScanInHand, MeasuredScan, EndOf
<1>6. FilterBehind'
  <2> SUFFICES ASSUME ~is_first_frame PROVE FilterBehind' BY DEF FilterBehind
  <2>1. /\ time_predict_last_const <= meas.beg
        /\ imu_en => time_predict_last_const <= imu_next
        /\ time_predict_last_const <= driver_end /\ time_predict_last_const \in Nat
    BY DEF FilterBehind, TypeOK
  <2>2. ASSUME NEW i \in DOMAIN lidar_buffer
        PROVE  time_predict_last_const < lidar_buffer[i].beg
    <3>1. lidar_end_time < lidar_buffer[i].beg BY DEF ScanInHand
    <3>2. lidar_buffer[i].beg \in Nat BY WaitingScans
    <3> QED BY <2>1, <3>1, <3>2, TimesBeforeEnd
  <2> QED BY <2>1, <2>2 DEF FilterBehind
<1> QED BY <1>2, <1>3, <1>4, <1>5, <1>6

\* The two loops that only take IMU messages.
LEMMA CatchUpStep ==
  ASSUME MappingInv, imu_deque # <<>>, TakeImu, UNCHANGED filterVars,
         UNCHANGED gravity_align
  PROVE  MappingInv'
<1> USE DEF MappingInv, TakeImu
<1>1. /\ ImuOrder' /\ imu_deque' \in Seq(Nat) /\ imu_next' \in Nat
      /\ imu_next <= imu_next'
  BY TakeImuKeepsOrder
<1>2. TypeOK' BY <1>1 DEF TypeOK
<1>3. ScanOrder' BY ScansLeftAlone
<1>4. ScanInHand' BY DEF ScanInHand, MeasuredScan, EndOf
<1>5. FilterBehind'
  <2>1. ~is_first_frame /\ imu_en => time_predict_last_const <= imu_next'
    BY <1>1 DEF FilterBehind, TypeOK
  <2> QED BY <2>1 DEF FilterBehind, TimeOf
<1> QED BY <1>1, <1>2, <1>3, <1>4, <1>5

LEMMA AlignGravityStep == MappingInv /\ AlignGravity => MappingInv'
<1> SUFFICES ASSUME MappingInv, AlignGravity PROVE MappingInv' OBVIOUS
<1> USE DEF MappingInv, AlignGravity
<1>1. TypeOK' BY DEF TypeOK
<1>2. ImuOrder' BY DEF ImuOrder
<1>3. ScanOrder' BY ScansLeftAlone
<1>4. ScanInHand' BY DEF ScanInHand, MeasuredScan, EndOf
<1>5. FilterBehind' BY DEF FilterBehind, TimeOf
<1> QED BY <1>1, <1>2, <1>3, <1>4, <1>5

\* A voxel's time lies between two of the scan's.
LEMMA SpanBelowMax ==
  ASSUME NEW offs \in Offsets, NEW kept \in SUBSET Span(offs)
  PROVE  /\ kept \subseteq Nat /\ Cardinality(kept) \in Nat
         /\ \A t \in kept : \E o \in offs : t <= o
<1>1. offs \subseteq Nat BY MappingAssumption
<1>2. ASSUME NEW t \in kept PROVE offs # {} /\ t \in Nat /\ \E o \in offs : t <= o
  <2>1. PICK a \in offs, b \in offs : t \in a .. b BY DEF Span
  <2> QED BY <1>1, <2>1
<1>3. IsFiniteSet(kept)
  <2>1. CASE offs = {} BY <1>2, <2>1, FS_EmptySet
  <2>2. CASE offs # {}
    <3>1. Max(offs) \in offs /\ \A o \in offs : o <= Max(offs) BY <2>2, MappingAssumption
    <3>2. Max(offs) \in Nat BY <1>1, <3>1
    <3>3. IsFiniteSet(0 .. Max(offs)) BY <3>2, FS_Interval
    <3>4. ASSUME NEW t \in kept PROVE t \in 0 .. Max(offs)
      <4>1. PICK o \in offs : t <= o BY <1>2
      <4> QED BY <1>1, <1>2, <3>1, <3>2, <4>1
    <3>5. kept \subseteq 0 .. Max(offs) BY <3>4
    <3> QED BY <3>3, <3>5, FS_Subset
  <2> QED BY <2>1, <2>2
<1>4. Cardinality(kept) \in Nat BY <1>3, FS_CardinalityType
<1> QED BY <1>2, <1>4

LEMMA DownsampleStep == MappingInv /\ Downsample => MappingInv'
<1> SUFFICES ASSUME MappingInv, Downsample PROVE MappingInv' OBVIOUS
<1> USE DEF MappingInv
<1>1. PICK kept \in (SUBSET Span(meas.offs)) \ {{}} :
        IF init_map
          THEN times' = kept /\ pc' = "points" /\ UNCHANGED mapVars
          ELSE /\ init_feats' = init_feats + Cardinality(kept)
               /\ init_map' = (init_feats' >= init_map_size)
               /\ pc' = "spin"
               /\ UNCHANGED times
  BY DEF Downsample
<1>2. /\ pc = "align" /\ times = {} /\ UNCHANGED filterVars /\ UNCHANGED syncVars
      /\ UNCHANGED inputVars /\ UNCHANGED <<imu_en, imu_next, meas_imu, initVars, gravity_align>>
  BY DEF Downsample, TypeOK
<1>3. /\ kept # {} /\ kept \subseteq Nat /\ Cardinality(kept) \in Nat
      /\ \A t \in kept : \E o \in meas.offs : t <= o
  <2>1. meas.offs \in Offsets BY <1>2 DEF ScanInHand, MeasuredScan
  <2>2. kept \in SUBSET Span(meas.offs) /\ kept # {} OBVIOUS
  <2> QED BY <2>1, <2>2, SpanBelowMax
<1>4. ImuOrder' BY <1>2 DEF ImuOrder
<1>5. ScanOrder' BY <1>2, ScansLeftAlone
<1>6. ~is_first_frame =>
        /\ time_predict_last_const \in Nat /\ time_predict_last_const <= meas.beg
        /\ imu_en => time_predict_last_const <= imu_next
        /\ time_predict_last_const <= driver_end
  BY <1>2 DEF FilterBehind, TypeOK
<1>7. CASE init_map
  <2>1. times' = kept /\ pc' = "points" /\ UNCHANGED mapVars BY <1>1, <1>7
  <2>2. TypeOK' BY <1>2, <1>3, <2>1 DEF TypeOK
  <2>3. ScanInHand' BY <1>2, <1>3, <2>1 DEF ScanInHand, MeasuredScan, EndOf
  <2>4. FilterBehind'
    <3> SUFFICES ASSUME ~is_first_frame PROVE FilterBehind' BY <1>2 DEF FilterBehind
    <3>1. \A t \in kept : time_predict_last_const <= meas.beg + t
      <4>1. meas.beg \in Nat BY DEF TypeOK, Scans
      <4> QED BY <1>3, <1>6, <4>1
    <3>2. time_predict_last_const <= lidar_end_time BY <1>2, <1>6, TimesBeforeEnd
    <3> QED BY <1>2, <1>6, <2>1, <3>1, <3>2 DEF FilterBehind, TimeOf
  <2> QED BY <1>4, <1>5, <2>2, <2>3, <2>4
<1>8. CASE ~init_map
  <2>1. /\ init_feats' = init_feats + Cardinality(kept) /\ pc' = "spin" /\ times' = {}
        /\ init_map' = (init_feats' >= init_map_size)
    BY <1>1, <1>2, <1>8
  <2>2. TypeOK' BY <1>2, <1>3, <2>1 DEF TypeOK
  <2>3. ScanInHand' BY <1>2, <2>1 DEF ScanInHand, MeasuredScan, EndOf
  <2>4. FilterBehind'
    <3> SUFFICES ASSUME ~is_first_frame PROVE FilterBehind' BY <1>2 DEF FilterBehind
    <3>1. ASSUME NEW i \in DOMAIN lidar_buffer
          PROVE  time_predict_last_const < lidar_buffer[i].beg
      <4>1. lidar_end_time < lidar_buffer[i].beg BY <1>2 DEF ScanInHand
      <4>2. lidar_buffer[i].beg \in Nat BY WaitingScans
      <4> QED BY <1>2, <1>6, <4>1, <4>2, TimesBeforeEnd
    <3> QED BY <1>2, <1>6, <2>1, <3>1 DEF FilterBehind
  <2> QED BY <1>4, <1>5, <2>2, <2>3, <2>4
<1> QED BY <1>7, <1>8

LEMMA PredictToImuStep ==
  ASSUME MappingInv, NEW t \in times, PredictToImu(t)
  PROVE  MappingInv'
<1> USE DEF MappingInv, PredictToImu, TakeImu
<1>1. imu_deque # <<>> BY ImuWaits DEF ImuIsThere
<1>2. /\ ImuOrder' /\ imu_deque' \in Seq(Nat) /\ imu_next' \in Nat
      /\ imu_next <= imu_next'
  BY <1>1, TakeImuKeepsOrder
<1>3. /\ time_predict_last_const <= imu_next /\ time_predict_last_const \in Nat
      /\ imu_next \in Nat /\ imu_next < TimeOf(t)
      /\ \A u \in times : TimeOf(u) \in Nat /\ TimeOf(t) <= TimeOf(u)
      /\ TimeOf(t) \in Nat /\ TimeOf(t) <= lidar_end_time /\ lidar_end_time <= driver_end
      /\ lidar_end_time \in Nat /\ driver_end \in Int
  <2>1. time_predict_last_const <= imu_next /\ time_predict_last_const \in Nat /\ imu_next \in Int
    BY DEF FilterBehind, TypeOK
  <2>2. \A u \in times : TimeOf(u) \in Nat /\ u \in Nat /\ TimeOf(u) <= lidar_end_time
    BY TimesBeforeEnd
  <2>3. \A u \in times : TimeOf(t) <= TimeOf(u)
    BY <2>2, TimesBeforeEnd DEF IsNext, TimeOf
  <2>4. driver_end \in Int BY DEF TypeOK
  <2> QED BY <2>1, <2>2, <2>3, <2>4, TimesBeforeEnd
<1>4. TypeOK' BY <1>2, <1>3 DEF TypeOK
<1>5. ScanOrder' BY ScansLeftAlone
<1>6. ScanInHand' BY DEF ScanInHand, MeasuredScan, EndOf
<1>7. FilterBehind'
  <2>1. \A u \in times : imu_next <= TimeOf(u) BY <1>3
  <2>2. imu_next <= lidar_end_time /\ imu_next <= driver_end BY <1>3
  <2> QED BY <1>2, <1>3, <2>1, <2>2 DEF FilterBehind, TimeOf
<1> QED BY <1>2, <1>4, <1>5, <1>6, <1>7

LEMMA PredictToPointStep ==
  ASSUME MappingInv, NEW t \in times, PredictToPoint(t)
  PROVE  MappingInv'
<1> USE DEF MappingInv, PredictToPoint
<1>1. /\ TimeOf(t) \in Nat /\ TimeOf(t) <= lidar_end_time /\ lidar_end_time <= driver_end
      /\ lidar_end_time \in Nat /\ driver_end \in Int /\ imu_next \in Int
      /\ \A u \in times : u \in Nat /\ TimeOf(u) \in Nat /\ TimeOf(t) <= TimeOf(u)
  <2>1. \A u \in times : TimeOf(u) \in Nat /\ u \in Nat /\ TimeOf(u) <= lidar_end_time
    BY TimesBeforeEnd
  <2>2. \A u \in times : TimeOf(t) <= TimeOf(u)
    BY <2>1, TimesBeforeEnd DEF IsNext, TimeOf
  <2>3. driver_end \in Int /\ imu_next \in Int BY DEF TypeOK
  <2> QED BY <2>1, <2>2, <2>3, TimesBeforeEnd
<1>2. TypeOK' BY <1>1 DEF TypeOK
<1>3. ImuOrder' BY DEF ImuOrder
<1>4. ScanOrder' BY ScansLeftAlone
<1>5. ScanInHand' BY DEF ScanInHand, MeasuredScan, EndOf
<1>6. FilterBehind'
  <2>1. TimeOf(t) <= driver_end BY <1>1
  <2>2. \A u \in times' : TimeOf(t) <= TimeOf(u) BY <1>1
  <2>3. ASSUME NEW i \in DOMAIN lidar_buffer PROVE TimeOf(t) < lidar_buffer[i].beg
    <3>1. lidar_end_time < lidar_buffer[i].beg BY DEF ScanInHand
    <3>2. lidar_buffer[i].beg \in Nat BY WaitingScans
    <3> QED BY <1>1, <3>1, <3>2
  <2>4. /\ time_predict_last_const' = TimeOf(t)
        /\ imu_en' => time_predict_last_const' <= imu_next'
    BY <1>1
  <2>5. pc' = "spin" \/ pc' = "points" OBVIOUS
  <2>6. \A u \in times' : TimeOf(u)' = TimeOf(u) BY DEF TimeOf
  <2> QED BY <1>1, <2>1, <2>2, <2>3, <2>4, <2>5, <2>6 DEF FilterBehind, TimeOf
<1> QED BY <1>2, <1>3, <1>4, <1>5, <1>6

-------------------------------------------------------------------------------
LEMMA NextStep == MappingInv /\ [Next]_vars => MappingInv'
<1> SUFFICES ASSUME MappingInv, [Next]_vars PROVE MappingInv' OBVIOUS
<1>1. CASE Callbacks
  <2>1. ASSUME NEW scan \in [beg : Begins, offs : Offsets],
               DriverSends(scan), LidarCallback(scan)
        PROVE  MappingInv'
    BY <2>1, LidarCallbackStep
  <2>2. ASSUME NEW stamp \in Stamps, ImuCallback(stamp) PROVE MappingInv'
    BY <2>2, ImuCallbackStep
  <2> QED BY <1>1, <2>1, <2>2 DEF Callbacks
<1>2. CASE Sync BY <1>2, LoseLidarStep, PushScanStep, SyncPackagesStep, SyncWithoutImuStep
  DEF Sync
<1>3. CASE Handle
  <2>1. CASE Process BY <2>1, ProcessStep
  <2>2. CASE CatchUpToScan
    <3>1. imu_deque # <<>> BY <2>2, ImuWaits DEF CatchUpToScan, ImuIsThere
    <3>2. TakeImu /\ UNCHANGED filterVars /\ UNCHANGED gravity_align
      BY <2>2 DEF CatchUpToScan, TakeImu
    <3> QED BY <3>1, <3>2, CatchUpStep
  <2>3. CASE AlignGravity BY <2>3, AlignGravityStep
  <2>4. CASE Downsample BY <2>4, DownsampleStep
  <2>5. ASSUME NEW t \in times, CatchUpToFirst(t) PROVE MappingInv'
    <3>1. imu_deque # <<>> BY <2>5, ImuWaits DEF CatchUpToFirst, ImuIsThere
    <3>2. TakeImu /\ UNCHANGED filterVars /\ UNCHANGED gravity_align
      BY <2>5 DEF CatchUpToFirst, TakeImu
    <3> QED BY <3>1, <3>2, CatchUpStep
  <2>6. ASSUME NEW t \in times, PredictToImu(t) PROVE MappingInv'
    BY <2>6, PredictToImuStep
  <2>7. ASSUME NEW t \in times, PredictToPoint(t) PROVE MappingInv'
    BY <2>7, PredictToPointStep
  <2> QED BY <1>3, <2>1, <2>2, <2>3, <2>4, <2>5, <2>6, <2>7 DEF Handle
<1>4. CASE UNCHANGED vars
  <2>1. TypeOK' BY <1>4 DEF vars, MappingInv, TypeOK
  <2>2. ImuOrder' BY <1>4 DEF vars, MappingInv, ImuOrder
  <2>3. ScanOrder' BY <1>4, ScansLeftAlone DEF vars, MappingInv
  <2>4. ScanInHand' BY <1>4 DEF vars, MappingInv, ScanInHand, MeasuredScan, EndOf
  <2>5. FilterBehind' BY <1>4 DEF vars, MappingInv, FilterBehind, TimeOf
  <2> QED BY <2>1, <2>2, <2>3, <2>4, <2>5 DEF MappingInv
<1> QED BY <1>1, <1>2, <1>3, <1>4 DEF Next

\* The inductive invariant holds of every run of the mapping loop.
THEOREM MappingInvariant == Spec => []MappingInv
BY InitMappingInv, NextStep, PTL DEF Spec

\* The loop's variables keep their types, and it walks through a scan's points
\* exactly while some of them are left (laserMapping.cpp, main).
THEOREM TypeCorrect == Spec => []TypeOK
<1>1. MappingInv => TypeOK BY DEF MappingInv
<1> QED BY <1>1, MappingInvariant, PTL

\* Whenever the loop is about to take imu_deque.front() the deque has a message,
\* for every schedule of callbacks and every scan (laserMapping.cpp, main).
THEOREM ImuIsAlwaysThere == Spec => []ImuIsThere
BY ImuWaits, MappingInvariant, PTL

\* The scan in hand is the oldest one, measured at its own end, however many
\* the callbacks append meanwhile (sync_packages).
THEOREM ScanIsMeasured == Spec => []MeasuredScan
<1>1. MappingInv => MeasuredScan BY DEF MappingInv, ScanInHand
<1> QED BY <1>1, MappingInvariant, PTL

\* No step of the loop predicts the filter back in time: dt is never negative.
THEOREM FilterTimeIsMonotonic == Spec => TimeNeverGoesBack
<1>1. MappingInv /\ [Next]_vars =>
        [~is_first_frame => time_predict_last_const' >= time_predict_last_const]_vars
  <2> SUFFICES ASSUME MappingInv, Next, ~is_first_frame
               PROVE  time_predict_last_const' >= time_predict_last_const
    OBVIOUS
  <2>1. time_predict_last_const \in Nat /\ imu_next \in Int BY DEF MappingInv, TypeOK
  <2>2. CASE UNCHANGED time_predict_last_const BY <2>1, <2>2
  <2>3. ASSUME NEW t \in times, PredictToImu(t)
        PROVE  time_predict_last_const' >= time_predict_last_const
    BY <2>1, <2>3 DEF PredictToImu, MappingInv, FilterBehind
  <2>4. ASSUME NEW t \in times, PredictToPoint(t)
        PROVE  time_predict_last_const' >= time_predict_last_const
    <3>1. TimeOf(t) \in Nat BY <2>4, TimesBeforeEnd DEF PredictToPoint, MappingInv
    <3> QED BY <2>1, <2>4, <3>1 DEF PredictToPoint, MappingInv, FilterBehind
  <2>5. \/ UNCHANGED time_predict_last_const
        \/ \E t \in times : PredictToImu(t) \/ PredictToPoint(t)
    BY DEF Next, Callbacks, Sync, Handle, LidarCallback, ImuCallback, LoseLidar, PushScan,
           SyncPackages, SyncWithoutImu, Process, CatchUpToScan, AlignGravity, Downsample,
           CatchUpToFirst
  <2> QED BY <2>2, <2>3, <2>4, <2>5
<1> QED BY <1>1, MappingInvariant, PTL DEF Spec, TimeNeverGoesBack

-------------------------------------------------------------------------------
(* What ReadyScanIsTaken rests on: a turn of the loop is finite and never   *)
(* stuck, and a scan that is ready stays so until it is taken.              *)

LEMMA LeastOf ==
  ASSUME NEW S, S \subseteq Nat, S # {}
  PROVE  \E x \in S : \A y \in S : x <= y
<1>1. S \subseteq Nat OBVIOUS
<1>2. PICK x \in S : \A y \in S : ~(<<y, x>> \in OpToRel(<, Nat))
  BY NatLessThanWellFounded, WFMin
<1>3. \A y \in S : ~(y < x) BY <1>1, <1>2 DEF OpToRel
<1>4. \A y \in S : x <= y BY <1>1, <1>3
<1> QED BY <1>4

\* sync_packages' loop over the deque has one outcome: Takes has exactly one
\* solution.
LEMMA LoopTakesExactly ==
  ASSUME TypeOK, imu_deque # <<>>
  PROVE  \E n \in 0 .. Len(imu_deque) :
           Takes(n) /\ \A m \in 0 .. Len(imu_deque) : Takes(m) => m = n
<1> DEFINE Stops(b) == b < Len(imu_deque) =>
                         \/ imu_deque[b + 1] > lidar_end_time
                         \/ imu_deque[IF b = 0 THEN 1 ELSE b] >= lidar_end_time
           S == {b \in 0 .. Len(imu_deque) : Stops(b)}
<1>1. /\ Len(imu_deque) \in Nat /\ Len(imu_deque) >= 1
      /\ \A i \in 1 .. Len(imu_deque) : imu_deque[i] \in Nat
      /\ lidar_end_time \in Nat
  BY EmptySeq, ElementOfSeq DEF TypeOK
<1>2. S \subseteq Nat /\ Len(imu_deque) \in S
  BY <1>1
<1>3. PICK n \in S : \A b \in S : n <= b
  <2> HIDE DEF S
  <2> QED BY <1>2, LeastOf
<1>4. \A b \in 0 .. Len(imu_deque) : b < n => ~Stops(b)
  BY <1>1, <1>3
<1>5. Takes(n)
  <2>1. ASSUME NEW i \in 1 .. n
        PROVE  /\ imu_deque[i] <= lidar_end_time
               /\ imu_deque[IF i = 1 THEN 1 ELSE i - 1] < lidar_end_time
    <3>1. i - 1 \in 0 .. Len(imu_deque) /\ i - 1 < n /\ (i - 1) + 1 = i
      BY <1>1, <1>3
    <3>4. ~Stops(i - 1) BY <1>4, <3>1
    <3>2. /\ ~(imu_deque[i] > lidar_end_time)
          /\ ~(imu_deque[IF i = 1 THEN 1 ELSE i - 1] >= lidar_end_time)
      <4>1. ~ \/ imu_deque[(i - 1) + 1] > lidar_end_time
              \/ imu_deque[IF i - 1 = 0 THEN 1 ELSE i - 1] >= lidar_end_time
        BY <3>4
      <4>2. i - 1 = 0 <=> i = 1 OBVIOUS
      <4> QED BY <3>1, <4>1, <4>2
    <3>3. imu_deque[i] \in Nat /\ imu_deque[IF i = 1 THEN 1 ELSE i - 1] \in Nat
      BY <1>1, <1>3
    <3> QED BY <1>1, <3>2, <3>3
  <2> QED BY <1>3, <2>1 DEF Takes
<1>6. ASSUME NEW m \in 0 .. Len(imu_deque), Takes(m) PROVE m = n
  <2>1. m \in S BY <1>6 DEF Takes
  <2>2. ~(n < m)
    <3> SUFFICES ASSUME n < m PROVE FALSE OBVIOUS
    <3>1. n + 1 \in 1 .. m /\ (n + 1) - 1 = n /\ (n + 1 = 1 <=> n = 0) BY <1>1, <1>3
    <3>2. /\ imu_deque[n + 1] <= lidar_end_time
          /\ imu_deque[IF n = 0 THEN 1 ELSE n] < lidar_end_time
      BY <1>6, <3>1 DEF Takes
    <3>3. n < Len(imu_deque) /\ n \in S BY <1>1, <1>3
    <3>6. \/ imu_deque[n + 1] > lidar_end_time
          \/ imu_deque[IF n = 0 THEN 1 ELSE n] >= lidar_end_time
      BY <3>3
    <3>4. imu_deque[n + 1] \in Nat /\ imu_deque[IF n = 0 THEN 1 ELSE n] \in Nat
      BY <1>1, <1>3, <3>3
    <3>5. ~(imu_deque[n + 1] > lidar_end_time)
          /\ ~(imu_deque[IF n = 0 THEN 1 ELSE n] >= lidar_end_time)
      BY <1>1, <3>2, <3>4
    <3> QED BY <3>5, <3>6
  <2> QED BY <1>1, <1>3, <2>1, <2>2
<1> QED BY <1>1, <1>3, <1>5, <1>6

\* How far a turn has come, and what its present part has yet to go through.
Stage ==
  CASE pc = "spin" -> 0 [] pc = "points" -> 1
    [] pc = "align" /\ gravity_align -> 2 [] pc = "align" /\ ~gravity_align -> 3
    [] pc = "process" -> 4
Left == Len(imu_deque) + Cardinality(times)

LEMMA TimesAreFinite ==
  ASSUME MappingInv
  PROVE  IsFiniteSet(times) /\ Cardinality(times) \in Nat
<1>1. CASE times = {} BY <1>1, FS_EmptySet
<1>2. CASE times # {}
  <2>1. pc = "points" BY <1>2 DEF MappingInv, TypeOK
  <2>2. \A t \in times : t \in 0 .. lidar_end_time
    BY <2>1, TimesBeforeEnd DEF MappingInv, TimeOf
  <2>3. IsFiniteSet(0 .. lidar_end_time) BY FS_Interval DEF MappingInv, TypeOK
  <2>4. times \subseteq 0 .. lidar_end_time BY <2>2
  <2>5. IsFiniteSet(times) BY <2>3, <2>4, FS_Subset
  <2> QED BY <2>5, FS_CardinalityType
<1> QED BY <1>1, <1>2

LEMMA TakingLessens ==
  ASSUME MappingInv, imu_deque # <<>>, TakeImu
  PROVE  Left' < Left
<1>1. Len(imu_deque) \in Nat /\ Len(imu_deque') = Len(imu_deque) - 1
  BY TailShifts DEF TakeImu, MappingInv, TypeOK
<1>2. Cardinality(times) \in Nat /\ times' = times BY TimesAreFinite DEF TakeImu
<1> QED BY <1>1, <1>2 DEF Left

\* Between two calls of sync_packages every step brings the turn nearer to its end,
\* in a later stage or with less left of this one, so that each turn is finite; and
\* until then it can go on, as the next point exists and the IMU message it needs is
\* there (laserMapping.cpp, main).
TurnGoesOn ==
  pc # "spin" => Stage' < Stage \/ (Stage' = Stage /\ Left' < Left)

NeverStuck ==
  /\ pc = "points" => \E t \in times :
       IsNext(t) /\ (imu_en /\ imu_next < TimeOf(t) => imu_deque # <<>>)
  /\ pc = "align" /\ ~gravity_align /\ imu_en /\ imu_next < meas.beg => imu_deque # <<>>
  /\ pc = "align" => meas.offs # {}
  /\ Synchronising => \E n \in 0 .. Len(imu_deque) :
       Takes(n) /\ \A m \in 0 .. Len(imu_deque) : Takes(m) => m = n

THEOREM TurnsEnd == Spec => []NeverStuck /\ [][TurnGoesOn]_vars
<1>1. ASSUME MappingInv PROVE NeverStuck
  <2>0. ImuIsThere BY <1>1, ImuWaits
  <2>1. ASSUME pc = "points"
        PROVE  \E t \in times : IsNext(t) /\ (imu_en /\ imu_next < TimeOf(t) => imu_deque # <<>>)
    <3>1. times \in SUBSET Nat /\ times # {} BY <1>1, <2>1 DEF MappingInv, TypeOK
    <3>2. PICK t \in times : \A u \in times : t <= u BY <3>1, LeastOf
    <3>3. IsNext(t) BY <3>2 DEF IsNext
    <3> QED BY <2>0, <2>1, <3>3 DEF ImuIsThere
  <2>2. Synchronising => TypeOK /\ imu_deque # <<>>
    BY <1>1 DEF MappingInv, Synchronising
  <2>3. pc = "align" => meas.offs # {}
    BY <1>1 DEF MappingInv, ScanInHand, MeasuredScan
  <2>4. pc = "align" /\ ~gravity_align /\ imu_en /\ imu_next < meas.beg => imu_deque # <<>>
    BY <2>0 DEF ImuIsThere
  <2> QED BY <2>1, <2>2, <2>3, <2>4, LoopTakesExactly DEF NeverStuck
<1>2. ASSUME MappingInv, MappingInv', Next, pc # "spin"
      PROVE  Stage' < Stage \/ (Stage' = Stage /\ Left' < Left)
  <2>0. Handle
    BY <1>2 DEF Next, Callbacks, LidarCallback, ImuCallback, Sync, Synchronising, LoseLidar,
                PushScan, SyncPackages, SyncWithoutImu
  <2>1. CASE Process
    <3>1. pc = "process" /\ pc' \in {"spin", "align"} BY <2>1 DEF Process
    <3> QED BY <3>1 DEF Stage
  <2>2. CASE CatchUpToScan
    <3>1. imu_deque # <<>> BY <1>2, <2>2, ImuWaits DEF CatchUpToScan, ImuIsThere
    <3>2. Left' < Left BY <1>2, <2>2, <3>1, TakingLessens DEF CatchUpToScan
    <3>3. UNCHANGED <<pc, gravity_align>> BY <2>2 DEF CatchUpToScan, TakeImu
    <3> QED BY <3>2, <3>3 DEF Stage
  <2>3. CASE AlignGravity
    <3>1. pc = "align" /\ pc' = "align" /\ ~gravity_align /\ gravity_align'
      BY <2>3 DEF AlignGravity
    <3> QED BY <3>1 DEF Stage
  <2>4. CASE Downsample
    <3>1. pc = "align" /\ gravity_align /\ pc' \in {"points", "spin"} BY <2>4 DEF Downsample
    <3> QED BY <3>1 DEF Stage
  <2>5. ASSUME NEW t \in times, CatchUpToFirst(t) \/ PredictToImu(t)
        PROVE  Stage' = Stage /\ Left' < Left
    <3>1. imu_deque # <<>> /\ TakeImu
      BY <1>2, <2>5, ImuWaits DEF CatchUpToFirst, PredictToImu, ImuIsThere
    <3>2. UNCHANGED <<pc, gravity_align>>
      BY <2>5 DEF CatchUpToFirst, PredictToImu, TakeImu
    <3>3. Left' < Left BY <1>2, <3>1, TakingLessens
    <3> QED BY <3>2, <3>3 DEF Stage
  <2>6. ASSUME NEW t \in times, PredictToPoint(t)
        PROVE  Stage' < Stage \/ (Stage' = Stage /\ Left' < Left)
    <3>1. /\ pc = "points" /\ pc' \in {"points", "spin"} /\ times' = times \ {t}
          /\ imu_deque' = imu_deque
      BY <2>6 DEF PredictToPoint
    <3>2. CASE pc' = "spin" BY <3>1, <3>2 DEF Stage
    <3>3. CASE pc' = "points"
      <4>1. Cardinality(times \ {t}) = Cardinality(times) - 1 /\ Cardinality(times) \in Nat
        BY <1>2, TimesAreFinite, FS_RemoveElement
      <4>2. Len(imu_deque) \in Nat BY <1>2 DEF MappingInv, TypeOK
      <4>3. Left' < Left BY <3>1, <4>1, <4>2 DEF Left
      <4> QED BY <3>1, <3>3, <4>3 DEF Stage
    <3> QED BY <3>1, <3>2, <3>3
  <2> QED BY <2>0, <2>1, <2>2, <2>3, <2>4, <2>5, <2>6 DEF Handle
<1>3. MappingInv /\ MappingInv' /\ [Next]_vars => [TurnGoesOn]_vars
  BY <1>2 DEF TurnGoesOn
<1> QED BY <1>1, <1>3, MappingInvariant, PTL DEF Spec

\* A scan that is ready stays ready, and first, until the loop takes it off the
\* buffer, whatever the callbacks add meanwhile and the filter takes from the IMU's
\* deque, unless that runs empty; and a ready scan that was measured does not wait
\* for the IMU (laserMapping.cpp, sync_packages).
ReadyWaitsItsTurn ==
  Ready =>
    \/ Ready' /\ Head(lidar_buffer') = Head(lidar_buffer)
    \/ lidar_buffer' = Tail(lidar_buffer)
    \/ imu_en /\ imu_deque' = <<>>

ReadyDoesNotWait == Ready /\ lidar_pushed => lidar_end_time <= last_timestamp_imu

THEOREM ReadyScansStayReady == Spec => []ReadyDoesNotWait /\ [][ReadyWaitsItsTurn]_vars
<1>1. MappingInv => ReadyDoesNotWait
  BY DEF MappingInv, ScanInHand, MeasuredScan, ReadyDoesNotWait, Ready
<1>2. ASSUME MappingInv, Next, Ready, ~(imu_en /\ imu_deque' = <<>>),
             lidar_buffer' # Tail(lidar_buffer)
      PROVE  Ready' /\ Head(lidar_buffer') = Head(lidar_buffer)
  <2>1. imu_en' = imu_en
    BY <1>2 DEF Next, Callbacks, LidarCallback, ImuCallback, Sync, LoseLidar, PushScan,
                SyncPackages, SyncWithoutImu, Handle, Process, CatchUpToScan, TakeImu,
                AlignGravity, Downsample, CatchUpToFirst, PredictToImu, PredictToPoint
  <2>2. last_timestamp_imu \in Int /\ last_timestamp_imu' >= last_timestamp_imu
        /\ last_timestamp_imu' \in Int
    <3>1. last_timestamp_imu \in Int BY <1>2 DEF MappingInv, TypeOK
    <3>2. \/ last_timestamp_imu' = last_timestamp_imu
          \/ \E stamp \in Stamps : ImuCallback(stamp)
      BY <1>2 DEF Next, Callbacks, LidarCallback, Sync, LoseLidar, PushScan,
                  SyncPackages, SyncWithoutImu, Handle, Process, CatchUpToScan, TakeImu,
                  AlignGravity, Downsample, CatchUpToFirst, PredictToImu, PredictToPoint
    <3> QED BY <3>1, <3>2, MappingAssumption DEF ImuCallback
  <2>3. \/ lidar_buffer' = lidar_buffer
        \/ \E scan \in [beg : Begins, offs : Offsets] : LidarCallback(scan)
    BY <1>2 DEF Next, Callbacks, ImuCallback, Sync, LoseLidar, PushScan,
                SyncPackages, SyncWithoutImu, Handle, Process, CatchUpToScan, TakeImu,
                AlignGravity, Downsample, CatchUpToFirst, PredictToImu, PredictToPoint
  <2>4. lidar_buffer' # <<>> /\ Head(lidar_buffer') = Head(lidar_buffer)
    <3>1. lidar_buffer \in Seq(Scans) /\ lidar_buffer # <<>> BY <1>2 DEF MappingInv, TypeOK, Ready
    <3>2. ASSUME NEW scan \in [beg : Begins, offs : Offsets], LidarCallback(scan)
          PROVE  lidar_buffer' # <<>> /\ Head(lidar_buffer') = Head(lidar_buffer)
      <4>1. lidar_buffer' = Append(lidar_buffer, scan) BY <3>2 DEF LidarCallback
      <4> QED BY <3>1, <4>1
    <3> QED BY <2>3, <3>1, <3>2
  <2>5. Head(lidar_buffer).offs # {} => EndOf(Head(lidar_buffer)) \in Nat
    <3>1. 1 \in DOMAIN lidar_buffer /\ Head(lidar_buffer) = lidar_buffer[1]
      BY <1>2, TailShifts DEF MappingInv, TypeOK, Ready
    <3>2. lidar_buffer[1] \in Scans /\ lidar_buffer[1].offs \in Offsets
      BY <1>2, <3>1, WaitingScans DEF MappingInv, ScanOrder
    <3> QED BY <3>1, <3>2, EndOfScan
  <2> QED BY <1>2, <2>1, <2>2, <2>4, <2>5 DEF Ready, EndOf
<1>3. MappingInv /\ [Next]_vars => [ReadyWaitsItsTurn]_vars
  BY <1>2 DEF ReadyWaitsItsTurn
<1> QED BY <1>1, <1>3, MappingInvariant, PTL DEF Spec

-------------------------------------------------------------------------------
(* The filter's walk (FilterWalk).                                         *)

USE DEF settings, cloudVars

\* The walk is the loop's own, with more told of each of its steps.
LEMMA WalkStepsAreLoopSteps == [WalkNext]_walkVars => [Next]_vars
<1>1. CASE WalkNext
  BY <1>1 DEF WalkNext, WalkLoop, SyncImuLast, DownsampleCloud, CatchUp, WalkToImuAsOutput,
              WalkToImuAsInput, WalkToImu, WalkToPointAsOutput, WalkToPointAsInput, WalkToPoint,
              Next, Sync, Handle
<1>2. CASE UNCHANGED walkVars BY <1>2 DEF walkVars
<1> QED BY <1>1, <1>2

LEMMA InitWalkInv == WalkInit => WalkInv
<1> SUFFICES ASSUME WalkInit PROVE WalkInv OBVIOUS
<1>1. MappingInv BY InitMappingInv DEF WalkInit
<1> QED BY <1>1 DEF WalkInit, Init, WalkInv, WalkTypeOK, Phases, ImuLastBehind, OdometryBehind,
                    CovarianceKeepsUp

\* What the facts about the walk rest on in every step.
LEMMA WalkFacts ==
  ASSUME WalkInv
  PROVE  /\ imu_last \in Int /\ imu_next \in Int /\ time_update_last \in Nat
         /\ input_in \in Int
         /\ time_predict_last_const \in Nat /\ driver_end \in Int
         /\ odom.stamp \in Int /\ odom.state \in Int
         /\ \A i \in DOMAIN lidar_buffer : lidar_buffer[i].beg \in Nat
         /\ lidar_end_time \in Nat /\ meas.beg \in Nat
         /\ \A t \in times : t \in Nat /\ TimeOf(t) \in Nat
<1>1. \A i \in DOMAIN lidar_buffer : lidar_buffer[i].beg \in Nat
  BY WaitingScans DEF WalkInv, MappingInv
<1>2. meas.beg \in Nat /\ \A t \in times : t \in Nat BY DEF WalkInv, MappingInv, TypeOK, Scans
<1> QED BY <1>1, <1>2 DEF WalkInv, WalkTypeOK, MappingInv, TypeOK, TimeOf

\* Scans that arrive begin after everything the filter has published.
LEMMA CallbacksKeepWalkInv ==
  ASSUME WalkInv, MappingInv', Callbacks,
         UNCHANGED <<settings, imu_last, time_update_last, input_in, cloudVars, odom>>
  PROVE  WalkInv'
<1> USE DEF WalkInv
<1>1. /\ pc = "spin" /\ times = {} /\ driver_end <= driver_end' /\ driver_end' \in Int
      /\ UNCHANGED <<pc, times, imu_next, is_first_frame, time_predict_last_const, init_map,
                     imu_need_init, gravity_align>>
      /\ \A i \in DOMAIN lidar_buffer' :
           \/ i \in DOMAIN lidar_buffer /\ lidar_buffer'[i] = lidar_buffer[i]
           \/ lidar_buffer'[i].beg > driver_end /\ lidar_buffer'[i].beg \in Nat
  <2>1. ASSUME NEW scan \in [beg : Begins, offs : Offsets], DriverSends(scan), LidarCallback(scan)
        PROVE  /\ scan.beg \in Nat /\ scan.beg > driver_end /\ driver_end' = ScanEnd(scan)
               /\ driver_end <= driver_end' /\ driver_end' \in Int
               /\ \A i \in DOMAIN lidar_buffer' :
                    \/ i \in DOMAIN lidar_buffer /\ lidar_buffer'[i] = lidar_buffer[i]
                    \/ lidar_buffer'[i] = scan
    <3>1. scan \in Scans /\ scan.offs \in Offsets /\ scan.beg \in Nat
      BY MappingAssumption DEF Scans
    <3>2. scan.beg > driver_end
      BY <2>1, <3>1 DEF DriverSends, LidarCallback, MappingInv, TypeOK
    <3>3. driver_end' = ScanEnd(scan) /\ scan.beg <= ScanEnd(scan) /\ ScanEnd(scan) \in Nat
      BY <2>1, <3>1, EndOfAnyScan DEF LidarCallback
    <3>4. lidar_buffer' = Append(lidar_buffer, scan) /\ lidar_buffer \in Seq(Scans)
      BY <2>1 DEF LidarCallback, MappingInv, TypeOK
    <3>5. \A i \in DOMAIN lidar_buffer' :
            \/ i \in DOMAIN lidar_buffer /\ lidar_buffer'[i] = lidar_buffer[i]
            \/ lidar_buffer'[i] = scan
      BY <3>1, <3>4, AppendProperties
    <3>6. driver_end <= driver_end' BY <3>1, <3>2, <3>3, WalkFacts
    <3> QED BY <3>1, <3>2, <3>3, <3>5, <3>6
  <2>2. CASE \E scan \in [beg : Begins, offs : Offsets] : DriverSends(scan) /\ LidarCallback(scan)
    BY <2>1, <2>2 DEF LidarCallback, MappingInv, TypeOK
  <2>3. CASE \E stamp \in Stamps : ImuCallback(stamp)
    BY <2>3, WalkFacts DEF ImuCallback, MappingInv, TypeOK
  <2> QED BY <2>2, <2>3 DEF Callbacks
<1>2. WalkTypeOK' BY DEF WalkTypeOK
<1>3. Phases' BY <1>1 DEF Phases
<1>4. ImuLastBehind' BY <1>1, WalkFacts DEF ImuLastBehind
<1>5. OdometryBehind' BY <1>1, WalkFacts DEF OdometryBehind
<1>6. CovarianceKeepsUp' BY <1>1 DEF CovarianceKeepsUp
<1> QED BY <1>2, <1>3, <1>4, <1>5, <1>6

\* sync_packages moves messages of before the scan's end; once the map is there,
\* none.
LEMMA SyncKeepsWalkInv ==
  ASSUME WalkInv, MappingInv', SyncImuLast
  PROVE  WalkInv'
<1> USE DEF WalkInv, SyncImuLast
<1>1. /\ pc = "spin" /\ times = {} /\ times' = {} /\ pc' = "process" /\ lidar_pushed
      /\ UNCHANGED <<imu_need_init, init_map, gravity_align, is_first_frame, driver_end, meas,
                     lidar_end_time, time_predict_last_const>>
  BY DEF SyncPackages, Synchronising, MappingInv, TypeOK
<1>2. PICK n \in 0 .. Len(imu_deque) :
        /\ IF imu_need_init \/ ~init_map THEN Takes(n) ELSE n = 0
        /\ imu_next' = IF n = 0 THEN imu_next ELSE imu_deque[n]
        /\ imu_deque' = SubSeq(imu_deque, n + 1, Len(imu_deque))
  BY DEF SyncPackages
<1>3. imu_deque \in Seq(Nat) /\ Len(imu_deque) \in Nat /\ n \in Nat BY DEF MappingInv, TypeOK
<1>4. Len(imu_deque) - Len(imu_deque') = n
  <2>1. Len(imu_deque') = Len(imu_deque) - n BY <1>2, <1>3, DropShifts
  <2> QED BY <1>3, <2>1
<1>5. imu_last' = CASE n = 0 -> imu_last [] n = 1 -> imu_next [] OTHER -> imu_deque[n - 1]
  BY <1>4
<1>6. \A i \in 1 .. n : i \in DOMAIN imu_deque /\ imu_deque[i] \in Nat
  BY <1>3
<1>7. meas = lidar_buffer[1] /\ 1 \in DOMAIN lidar_buffer
      /\ meas.beg <= lidar_end_time /\ lidar_end_time <= driver_end
  <2>1. lidar_buffer \in Seq(Scans) /\ lidar_buffer # <<>> /\ meas = Head(lidar_buffer)
        /\ meas.offs # {} /\ lidar_end_time = EndOf(meas)
    BY <1>1 DEF MappingInv, TypeOK, ScanInHand, MeasuredScan
  <2>2. meas = lidar_buffer[1] /\ 1 \in DOMAIN lidar_buffer BY <2>1, TailShifts
  <2>3. lidar_end_time = ScanEnd(meas) BY <2>1 DEF ScanEnd
  <2> QED BY <2>2, <2>3, WaitingScans DEF MappingInv
<1>8. CASE n = 0
  <2>1. imu_last' = imu_last /\ imu_next' = imu_next BY <1>2, <1>5, <1>8
  <2>2. WalkTypeOK' BY <2>1 DEF WalkTypeOK
  <2>3. Phases' BY <1>1 DEF Phases
  <2>4. ImuLastBehind'
    <3>1. imu_last <= imu_next /\ (is_first_frame => imu_last <= driver_end /\ imu_last < meas.beg)
      BY <1>1, <1>7 DEF ImuLastBehind
    <3>2. pc' = "process" /\ times' = {} /\ UNCHANGED <<is_first_frame, driver_end, meas, lidar_end_time>>
      BY <1>1
    <3>3. is_first_frame => imu_last <= lidar_end_time /\ imu_last <= meas.beg
      BY <1>7, <3>1, WalkFacts
    <3> HIDE DEF WalkInv, SyncImuLast
    <3> QED BY <2>1, <3>1, <3>2, <3>3 DEF ImuLastBehind
  <2>5. OdometryBehind' BY <1>1, <1>7, WalkFacts DEF OdometryBehind
  <2>6. CovarianceKeepsUp' BY <1>1, <2>1 DEF CovarianceKeepsUp
  <2> QED BY <2>2, <2>3, <2>4, <2>5, <2>6
<1>9. CASE n # 0
  <2>1. ~init_map /\ is_first_frame /\ Takes(n) BY <1>2, <1>9 DEF Phases
  <2>2. n \in 1 .. n BY <1>3, <1>9
  <2>3. /\ imu_last' \in Int /\ imu_last' <= imu_next' /\ imu_last' <= lidar_end_time
    <3>1. CASE n = 1
      <4>1. imu_last' = imu_next /\ imu_next' = imu_deque[1]
        <5> HIDE DEF WalkInv, SyncImuLast
        <5> QED BY <1>2, <1>5, <3>1
      <4>2. 1 \in DOMAIN imu_deque /\ imu_deque[1] \in Nat BY <1>6, <3>1
      <4>3. imu_deque[1] <= lidar_end_time BY <2>1, <3>1 DEF Takes
      <4>4. imu_next <= imu_deque[1] BY <4>2 DEF MappingInv, ImuOrder
      <4> QED BY <4>1, <4>2, <4>3, <4>4, WalkFacts
    <3>2. CASE n > 1
      <4>1. imu_last' = imu_deque[n - 1] /\ imu_next' = imu_deque[n]
        <5>1. n # 0 /\ n # 1 BY <1>3, <3>2
        <5> HIDE DEF WalkInv, SyncImuLast
        <5> QED BY <1>2, <1>5, <5>1
      <4>2. n - 1 \in 1 .. n /\ n - 1 <= n BY <1>3, <3>2
      <4>3. imu_deque[n - 1] <= lidar_end_time BY <2>1, <4>2 DEF Takes
      <4>4. imu_deque[n - 1] <= imu_deque[n] BY <1>6, <2>2, <4>2 DEF MappingInv, ImuOrder
      <4>5. imu_deque[n - 1] \in Nat BY <1>6, <4>2
      <4> QED BY <4>1, <4>3, <4>4, <4>5
    <3> QED BY <1>3, <1>9, <3>1, <3>2
  <2>4. WalkTypeOK' BY <2>3 DEF WalkTypeOK
  <2>5. Phases' BY <1>1 DEF Phases
  <2>6. ImuLastBehind' BY <1>1, <1>7, <2>1, <2>3, WalkFacts DEF ImuLastBehind
  <2>7. OdometryBehind' BY <1>1, <1>7, WalkFacts DEF OdometryBehind
  <2>8. CovarianceKeepsUp' BY <1>1, <2>1 DEF CovarianceKeepsUp
  <2> QED BY <2>4, <2>5, <2>6, <2>7, <2>8
<1> QED BY <1>8, <1>9

\* The loop's other steps before the walk.
LEMMA PreparationKeepsWalkInv ==
  ASSUME WalkInv, MappingInv',
         LoseLidar \/ PushScan \/ SyncWithoutImu \/ Process \/ AlignGravity,
         UNCHANGED <<settings, imu_last, time_update_last, input_in, cloudVars, odom>>
  PROVE  WalkInv'
<1> USE DEF WalkInv
<1>1. /\ times = {} /\ UNCHANGED <<times, imu_next, is_first_frame, time_predict_last_const, driver_end,
                                    init_map>>
      /\ (imu_need_init' => imu_need_init) /\ (gravity_align => gravity_align')
      /\ (pc' = "align" => ~imu_need_init')
      /\ pc' # "points"
  BY DEF LoseLidar, PushScan, SyncWithoutImu, Process, AlignGravity, Synchronising, MappingInv,
         TypeOK, Phases
<1>2. WalkTypeOK' BY DEF WalkTypeOK
<1>3. Phases' BY <1>1 DEF Phases
<1>4. CASE LoseLidar
  <2>1. /\ pc = "spin" /\ pc' = "spin"
        /\ \A i \in DOMAIN lidar_buffer' : i + 1 \in DOMAIN lidar_buffer
                                          /\ lidar_buffer'[i] = lidar_buffer[i + 1]
    BY <1>4, TailShifts DEF LoseLidar, Synchronising, MappingInv, TypeOK
  <2>2. ImuLastBehind' BY <1>1, <2>1 DEF ImuLastBehind
  <2>3. OdometryBehind' BY <1>1, <2>1 DEF OdometryBehind
  <2>4. CovarianceKeepsUp' BY <1>1 DEF CovarianceKeepsUp
  <2> QED BY <1>2, <1>3, <2>2, <2>3, <2>4
<1>5. CASE PushScan
  <2>1. pc = "spin" /\ pc' = "spin" /\ UNCHANGED lidar_buffer
    BY <1>5 DEF PushScan, Synchronising
  <2>2. ImuLastBehind' BY <1>1, <2>1 DEF ImuLastBehind
  <2>3. OdometryBehind' BY <1>1, <2>1 DEF OdometryBehind
  <2>4. CovarianceKeepsUp' BY <1>1 DEF CovarianceKeepsUp
  <2> QED BY <1>2, <1>3, <2>2, <2>3, <2>4
<1>6. CASE Process \/ AlignGravity
  <2>1. /\ pc \in {"process", "align"} /\ pc' \in {"spin", "align"}
        /\ UNCHANGED <<lidar_buffer, meas, lidar_end_time>>
    BY <1>6 DEF Process, AlignGravity
  <2>2. /\ meas.beg <= lidar_end_time
        /\ \A i \in DOMAIN lidar_buffer : lidar_end_time < lidar_buffer[i].beg
    BY <2>1, TimesBeforeEnd DEF MappingInv, ScanInHand
  <2>3. ImuLastBehind' BY <1>1, <2>1, <2>2, WalkFacts DEF ImuLastBehind
  <2>4. OdometryBehind' BY <1>1, <2>1, <2>2, WalkFacts DEF OdometryBehind
  <2>5. CovarianceKeepsUp' BY <1>1 DEF CovarianceKeepsUp
  <2> QED BY <1>2, <1>3, <2>3, <2>4, <2>5
<1>7. CASE SyncWithoutImu
  <2>1. /\ pc = "spin" /\ 1 \in DOMAIN lidar_buffer /\ meas' = lidar_buffer[1]
        /\ \A i \in DOMAIN lidar_buffer' : i + 1 \in DOMAIN lidar_buffer
                                          /\ lidar_buffer'[i] = lidar_buffer[i + 1]
    BY <1>7, TailShifts DEF SyncWithoutImu, MappingInv, TypeOK
  <2>2. imu_last < meas'.beg \/ ~is_first_frame BY <2>1 DEF ImuLastBehind
  <2>3. odom.stamp < meas'.beg BY <2>1 DEF OdometryBehind
  <2>4. pc' # "spin" => meas'.beg <= lidar_end_time' /\ lidar_end_time' \in Nat
    <3>1. meas' \in Scans /\ meas'.offs \in Offsets
      BY <2>1 DEF MappingInv, TypeOK, ScanOrder
    <3>2. pc' # "spin" => meas'.offs # {} /\ lidar_end_time' = EndOf(lidar_buffer[1])
      BY <1>7, <2>1 DEF SyncWithoutImu, EndOf
    <3> QED BY <2>1, <3>1, <3>2, EndOfScan
  <2>5. ImuLastBehind'
    BY <1>1, <2>1, <2>2, <2>4, WalkFacts DEF ImuLastBehind
  <2>6. OdometryBehind' BY <1>1, <2>1, <2>3 DEF OdometryBehind
  <2>7. CovarianceKeepsUp' BY <1>1 DEF CovarianceKeepsUp
  <2> QED BY <1>2, <1>3, <2>5, <2>6, <2>7
<1> QED BY <1>4, <1>5, <1>6, <1>7

\* Catching up takes messages of before the scan's begin, or the first point.
LEMMA CatchUpKeepsWalkInv ==
  ASSUME WalkInv, MappingInv', CatchUp
  PROVE  WalkInv'
<1> USE DEF WalkInv
<1>1. /\ imu_last' = imu_next /\ imu_next' \in Int /\ imu_next <= imu_next'
      /\ UNCHANGED <<pc, times, meas, lidar_end_time, lidar_buffer, driver_end, is_first_frame,
                     init_map, imu_need_init, gravity_align, odom, prop_at_freq_of_imu,
                     publish_odometry_without_downsample, use_imu_as_input, time_update_last,
                     input_in>>
      /\ pc \in {"align", "points"}
  <2>1. imu_deque # <<>> BY ImuWaits DEF CatchUp, CatchUpToScan, CatchUpToFirst, ImuIsThere
  <2>2. imu_next' = Head(imu_deque)
    BY DEF CatchUp, CatchUpToScan, CatchUpToFirst, TakeImu
  <2>3. Head(imu_deque) = imu_deque[1] /\ 1 \in DOMAIN imu_deque /\ imu_deque[1] \in Nat
    BY <2>1, TailShifts DEF MappingInv, TypeOK
  <2>4. imu_next <= imu_deque[1] BY <2>3 DEF MappingInv, ImuOrder
  <2> QED BY <2>2, <2>3, <2>4 DEF CatchUp, CatchUpToScan, CatchUpToFirst, TakeImu
<1>2. /\ is_first_frame
      /\ pc = "align" => imu_next < meas.beg
      /\ \A t \in times : imu_next <= TimeOf(t)
      /\ imu_next <= lidar_end_time
  <2>1. CASE CatchUpToScan
    <3>1. pc = "align" /\ ~gravity_align /\ imu_next < meas.beg /\ times = {} /\ is_first_frame
      BY <2>1 DEF CatchUpToScan, MappingInv, TypeOK, Phases
    <3>2. meas.beg <= lidar_end_time BY <1>1, TimesBeforeEnd DEF MappingInv
    <3> QED BY <3>1, <3>2, WalkFacts
  <2>2. ASSUME NEW t \in times, CatchUpToFirst(t)
        PROVE  /\ is_first_frame /\ pc = "points" /\ \A u \in times : imu_next <= TimeOf(u)
               /\ imu_next <= lidar_end_time
    <3>1. is_first_frame /\ pc = "points" /\ imu_next < TimeOf(t) /\ \A u \in times : t <= u
      BY <2>2 DEF CatchUpToFirst, IsNext
    <3>2. \A u \in times : TimeOf(t) <= TimeOf(u) BY <3>1, WalkFacts DEF TimeOf
    <3>3. TimeOf(t) <= lidar_end_time BY <1>1, TimesBeforeEnd DEF MappingInv
    <3> QED BY <3>1, <3>2, <3>3, WalkFacts
  <2> QED BY <2>1, <2>2 DEF CatchUp
<1>3. lidar_end_time <= driver_end BY <1>1, TimesBeforeEnd DEF MappingInv
<1>4. WalkTypeOK' BY <1>1, WalkFacts DEF WalkTypeOK
<1>5. Phases' BY <1>1 DEF Phases
<1>6. ImuLastBehind'
  <2>1. \A t \in times' : imu_last' <= TimeOf(t)' BY <1>1, <1>2 DEF TimeOf
  <2> QED BY <1>1, <1>2, <1>3, <2>1, WalkFacts DEF ImuLastBehind
<1>7. OdometryBehind' BY <1>1 DEF OdometryBehind, TimeOf
<1>8. CovarianceKeepsUp' BY <1>1, <1>2 DEF CovarianceKeepsUp
<1> QED BY <1>4, <1>5, <1>6, <1>7, <1>8

\* The points of a downsampled scan are not before its begin.
LEMMA DownsampleKeepsWalkInv ==
  ASSUME WalkInv, MappingInv', DownsampleCloud
  PROVE  WalkInv'
<1> USE DEF WalkInv, DownsampleCloud
<1>1. /\ pc = "align" /\ gravity_align /\ times = {}
      /\ UNCHANGED <<meas, lidar_end_time, lidar_buffer, driver_end, imu_next, is_first_frame,
                     time_predict_last_const, imu_need_init, gravity_align>>
      /\ \/ init_map /\ pc' = "points" /\ init_map'
         \/ ~init_map /\ pc' = "spin" /\ times' = {}
  BY DEF Downsample, MappingInv, TypeOK
<1>2. /\ meas.beg <= lidar_end_time /\ lidar_end_time <= driver_end
      /\ \A i \in DOMAIN lidar_buffer : lidar_end_time < lidar_buffer[i].beg
  BY <1>1, TimesBeforeEnd DEF MappingInv, ScanInHand
<1>3. \A t \in times' : TimeOf(t)' \in Nat /\ meas.beg <= TimeOf(t)'
  <2>1. times' \subseteq Nat BY DEF MappingInv, TypeOK
  <2> QED BY <1>1, <2>1, WalkFacts DEF TimeOf
<1>4. ~imu_need_init BY <1>1 DEF Phases
<1>5. WalkTypeOK' BY DEF WalkTypeOK
<1>6. Phases' BY <1>1, <1>4 DEF Phases
<1>7. ImuLastBehind' BY <1>1, <1>2, <1>3, WalkFacts DEF ImuLastBehind
<1>8. OdometryBehind' BY <1>1, <1>2, <1>3, WalkFacts DEF OdometryBehind
<1>9. CovarianceKeepsUp' BY <1>1 DEF CovarianceKeepsUp
<1> QED BY <1>5, <1>6, <1>7, <1>8, <1>9

\* The covariance is brought up to every IMU message.
LEMMA WalkToImuKeepsWalkInv ==
  ASSUME WalkInv, MappingInv', WalkToImuAsOutput \/ WalkToImuAsInput
  PROVE  WalkInv'
<1>0. WalkToImu /\ input_in' = IF use_imu_as_input THEN imu_next ELSE input_in
  BY DEF WalkToImuAsOutput, WalkToImuAsInput
<1> USE <1>0 DEF WalkInv, WalkToImu
<1>1. PICK t \in times : PredictToImu(t) OBVIOUS
<1>2. /\ imu_last' = imu_next /\ time_predict_last_const' = imu_next
      /\ ~is_first_frame /\ ~is_first_frame' /\ pc = "points" /\ pc' = "points"
      /\ imu_en
      /\ UNCHANGED <<times, meas, lidar_buffer, driver_end, init_map, imu_need_init, gravity_align>>
  BY <1>1 DEF PredictToImu, TakeImu
<1>3. imu_next' \in Int /\ imu_next <= imu_next' /\ imu_next \in Nat
  <2>1. imu_deque # <<>> BY <1>1, ImuWaits DEF PredictToImu, ImuIsThere
  <2>2. Head(imu_deque) = imu_deque[1] /\ 1 \in DOMAIN imu_deque /\ imu_deque[1] \in Nat
    BY <2>1, TailShifts DEF MappingInv, TypeOK
  <2>3. imu_next' = imu_deque[1] BY <1>1, <2>2 DEF PredictToImu, TakeImu
  <2>4. imu_next <= imu_deque[1] BY <2>2 DEF MappingInv, ImuOrder
  <2>5. time_predict_last_const <= imu_next BY <1>2 DEF MappingInv, FilterBehind
  <2> QED BY <2>2, <2>3, <2>4, <2>5, WalkFacts
<1>4. time_update_last <= imu_next
      /\ (~prop_at_freq_of_imu => time_update_last = time_predict_last_const)
  BY <1>2, WalkFacts DEF CovarianceKeepsUp, MappingInv, FilterBehind
<1>5. time_update_last' = imu_next BY <1>2, <1>3, <1>4, WalkFacts
<1>6. WalkTypeOK' BY <1>2, <1>3, <1>5, WalkFacts DEF WalkTypeOK
<1>7. Phases' BY <1>2 DEF Phases
<1>8. ImuLastBehind' BY <1>2, <1>3 DEF ImuLastBehind
<1>9. OdometryBehind' BY <1>2 DEF OdometryBehind, TimeOf
<1>10. CovarianceKeepsUp' BY <1>2, <1>3, <1>5 DEF CovarianceKeepsUp
<1> QED BY <1>6, <1>7, <1>8, <1>9, <1>10

\* Of a point's step: the odometry it may publish is later than the last, and not
\* after the scan's end.
LEMMA WalkToPointPublishes ==
  ASSUME WalkInv, NEW matched \in BOOLEAN, WalkToPoint(matched), NEW t \in times, PredictToPoint(t)
  PROVE  /\ pc = "points" /\ TimeOf(t) \in Nat /\ TimeOf(t) <= lidar_end_time
         /\ time_predict_last_const' = TimeOf(t)
         /\ odom.stamp < TimeOf(t)
         /\ \/ UNCHANGED odom
            \/ odom' = [stamp |-> TimeOf(t), state |-> TimeOf(t)]
            \/ odom' = [stamp |-> lidar_end_time, state |-> TimeOf(t)] /\ times' = {}
<1>1. pc = "points" /\ time_predict_last_const' = TimeOf(t) BY DEF PredictToPoint
<1>2. TimeOf(t) \in Nat /\ TimeOf(t) <= lidar_end_time
  BY <1>1, TimesBeforeEnd DEF WalkInv, MappingInv
<1>3. odom.stamp < TimeOf(t) BY DEF WalkInv, OdometryBehind
<1> QED BY <1>1, <1>2, <1>3 DEF WalkToPoint, PublishOdometry

LEMMA WalkToPointKeepsWalkInv ==
  ASSUME WalkInv, MappingInv', NEW matched \in BOOLEAN,
         WalkToPointAsOutput(matched) \/ WalkToPointAsInput(matched)
  PROVE  WalkInv'
<1>0. /\ WalkToPoint(matched)
      /\ input_in' = IF use_imu_as_input /\ is_first_frame THEN imu_last ELSE input_in
  BY DEF WalkToPointAsOutput, WalkToPointAsInput
<1> USE <1>0 DEF WalkInv
<1>1. PICK t \in times : PredictToPoint(t) BY DEF WalkToPoint
<1>2. /\ pc = "points" /\ TimeOf(t) \in Nat /\ TimeOf(t) <= lidar_end_time
      /\ time_predict_last_const' = TimeOf(t) /\ odom.stamp < TimeOf(t)
      /\ \/ UNCHANGED odom
         \/ odom' = [stamp |-> TimeOf(t), state |-> TimeOf(t)]
         \/ odom' = [stamp |-> lidar_end_time, state |-> TimeOf(t)] /\ times' = {}
  BY <1>1, WalkToPointPublishes
<1>3. /\ UNCHANGED <<settings, imu_last, imu_next, meas, lidar_end_time, lidar_buffer, driver_end, init_map,
                     imu_need_init, gravity_align>>
      /\ ~is_first_frame' /\ times' = times \ {t} /\ pc' \in {"spin", "points"}
      /\ \A u \in times : t <= u
  BY <1>1 DEF WalkToPoint, PredictToPoint, IsNext
<1>4. /\ lidar_end_time <= driver_end
      /\ \A i \in DOMAIN lidar_buffer : lidar_end_time < lidar_buffer[i].beg
  BY <1>2, TimesBeforeEnd DEF MappingInv, ScanInHand
<1>5. \A u \in times' : TimeOf(u)' \in Nat /\ TimeOf(t) < TimeOf(u)'
  BY <1>3, WalkFacts DEF TimeOf
<1>6. odom'.stamp \in Int /\ odom'.state \in Int /\ odom' \in [stamp : Int, state : Int]
      /\ odom'.stamp <= lidar_end_time
      /\ (times' # {} => odom'.stamp <= TimeOf(t))
  BY <1>2, WalkFacts DEF WalkTypeOK
<1>7. time_update_last' \in Nat /\ time_update_last' <= TimeOf(t)
      /\ (~prop_at_freq_of_imu => time_update_last' = TimeOf(t))
      /\ (is_first_frame => time_update_last' = TimeOf(t))
      /\ (~is_first_frame => time_update_last <= time_update_last')
  <2>1. ~is_first_frame => time_update_last <= TimeOf(t)
    BY <1>2, WalkFacts DEF CovarianceKeepsUp, MappingInv, FilterBehind
  <2> QED BY <1>2, <2>1, WalkFacts DEF WalkToPoint
<1>8. imu_last <= time_update_last'
  BY <1>2, <1>7, WalkFacts DEF CovarianceKeepsUp, ImuLastBehind
<1>9. WalkTypeOK' BY <1>3, <1>6, <1>7, WalkFacts DEF WalkTypeOK
<1>10. Phases' BY <1>2, <1>3 DEF Phases
<1>11. ImuLastBehind' BY <1>3 DEF ImuLastBehind
<1>12. OdometryBehind'
  <2>1. odom'.stamp <= driver_end' BY <1>3, <1>4, <1>6, WalkFacts
  <2>2. \A i \in DOMAIN lidar_buffer' : odom'.stamp < lidar_buffer'[i].beg
    BY <1>3, <1>4, <1>6, WalkFacts
  <2>3. \A u \in times' : odom'.stamp < TimeOf(u)' BY <1>2, <1>5, <1>6
  <2> QED BY <1>3, <2>1, <2>2, <2>3 DEF OdometryBehind
<1>13. CovarianceKeepsUp' BY <1>2, <1>3, <1>7, <1>8 DEF CovarianceKeepsUp
<1> QED BY <1>9, <1>10, <1>11, <1>12, <1>13

LEMMA WalkStep == WalkInv /\ [WalkNext]_walkVars => WalkInv'
<1> SUFFICES ASSUME WalkInv, [WalkNext]_walkVars PROVE WalkInv' OBVIOUS
<1>1. MappingInv' BY WalkStepsAreLoopSteps, NextStep DEF WalkInv
<1>2. CASE Callbacks /\ UNCHANGED <<settings, imu_last, time_update_last, input_in, cloudVars, odom>>
  BY <1>1, <1>2, CallbacksKeepWalkInv
<1>3. CASE SyncImuLast BY <1>1, <1>3, SyncKeepsWalkInv
<1>4. CASE DownsampleCloud BY <1>1, <1>4, DownsampleKeepsWalkInv
<1>5. CASE CatchUp BY <1>1, <1>5, CatchUpKeepsWalkInv
<1>6. CASE WalkToImuAsOutput \/ WalkToImuAsInput BY <1>1, <1>6, WalkToImuKeepsWalkInv
<1>7. CASE \E matched \in BOOLEAN : WalkToPointAsOutput(matched) \/ WalkToPointAsInput(matched)
  BY <1>1, <1>7, WalkToPointKeepsWalkInv
<1>8. CASE /\ LoseLidar \/ PushScan \/ SyncWithoutImu \/ Process \/ AlignGravity
           /\ UNCHANGED <<settings, imu_last, time_update_last, input_in, cloudVars, odom>>
  BY <1>1, <1>8, PreparationKeepsWalkInv
<1>9. CASE UNCHANGED walkVars
  BY <1>1, <1>9 DEF walkVars, vars, WalkInv, WalkTypeOK, Phases, ImuLastBehind, OdometryBehind,
                    CovarianceKeepsUp, TimeOf
<1> QED BY <1>2, <1>3, <1>4, <1>5, <1>6, <1>7, <1>8, <1>9 DEF WalkNext, WalkLoop

\* The inductive invariant holds of every run of the loop with its filter.
THEOREM WalkInvariant == WalkSpec => []WalkInv
BY InitWalkInv, WalkStep, PTL DEF WalkSpec

\* The covariance is predicted with the state: never ahead of it, never behind an
\* IMU message that was taken (laserMapping.cpp, main).
THEOREM CovarianceFollowsState == WalkSpec => []CovarianceKeepsUp
<1>1. WalkInv => CovarianceKeepsUp BY DEF WalkInv
<1> QED BY <1>1, WalkInvariant, PTL

\* No two odometries have the same stamp, or stamps out of order, in either way of
\* publishing them (publish_odometry).
THEOREM OdometryInOrder == WalkSpec => OdometryMovesOn
<1>1. WalkInv /\ [WalkNext]_walkVars =>
        [odom' # odom => odom.stamp < odom'.stamp /\ odom'.state <= odom'.stamp]_walkVars
  <2> SUFFICES ASSUME WalkInv, WalkNext, odom' # odom
               PROVE  odom.stamp < odom'.stamp /\ odom'.state <= odom'.stamp
    OBVIOUS
  <2>1. PICK matched \in BOOLEAN : WalkToPoint(matched)
    BY DEF WalkNext, WalkLoop, SyncImuLast, DownsampleCloud, CatchUp, WalkToImuAsOutput,
           WalkToImuAsInput, WalkToImu, WalkToPointAsOutput, WalkToPointAsInput
  <2>2. PICK t \in times : PredictToPoint(t) BY <2>1 DEF WalkToPoint
  <2>3. /\ TimeOf(t) \in Nat /\ TimeOf(t) <= lidar_end_time /\ odom.stamp < TimeOf(t)
        /\ \/ odom' = [stamp |-> TimeOf(t), state |-> TimeOf(t)]
           \/ odom' = [stamp |-> lidar_end_time, state |-> TimeOf(t)]
    BY <2>1, <2>2, WalkToPointPublishes
  <2> QED BY <2>3, WalkFacts
<1> QED BY <1>1, WalkInvariant, PTL DEF WalkSpec, OdometryMovesOn

-------------------------------------------------------------------------------
(* The walk through the cloud.  Ends holds the last points of the groups.  *)

\* The ends are among the points.
LEMMA EndsAreFinite ==
  ASSUME NEW p \in Seq(Nat)
  PROVE  /\ Ends(p) \subseteq 1 .. Len(p) /\ Len(p) \in Nat
         /\ \A T \in SUBSET Ends(p) : IsFiniteSet(T)
         /\ \A i \in 1 .. Len(p) : p[i] \in Nat
<1>0. \A i \in 1 .. Len(p) : p[i] \in Nat BY ElementOfSeq
<1>1. Ends(p) \subseteq 1 .. Len(p) BY DEF Ends
<1>2. Len(p) \in Nat /\ IsFiniteSet(1 .. Len(p)) BY FS_Interval
<1> QED BY <1>0, <1>1, <1>2, FS_Subset

\* After every point but the last there is a next end.
LEMMA NextEnd ==
  ASSUME NEW p \in Seq(Nat), NEW i \in 0 .. Len(p) - 1
  PROVE  \E e \in Ends(p) : e > i /\ \A f \in Ends(p) : f > i => e <= f
<1> DEFINE Later == {e \in Ends(p) : e > i}
<1>1. Later \subseteq Nat /\ Len(p) \in Later BY EndsAreFinite DEF Ends
<1>2. PICK e \in Later : \A f \in Later : ~(<<f, e>> \in OpToRel(<, Nat))
  <2> HIDE DEF Later
  <2> QED BY <1>1, NatLessThanWellFounded, WFMin
<1>3. \A f \in Later : ~(f < e) BY <1>1, <1>2 DEF OpToRel
<1>4. \A f \in Ends(p) : f > i => e <= f BY <1>1, <1>3
<1> QED BY <1>4

\* In a sorted cloud no point is before an earlier one.
LEMMA SortedFar ==
  ASSUME NEW p \in Seq(Nat), Sorted(p)
  PROVE  \A i, j \in 1 .. Len(p) : i <= j => p[i] <= p[j]
<1>0. Len(p) \in Nat /\ \A h \in 1 .. Len(p) : p[h] \in Nat BY EndsAreFinite
<1> SUFFICES ASSUME NEW i \in 1 .. Len(p), NEW g \in 1 .. Len(p), i <= g, ~(p[i] <= p[g])
             PROVE  FALSE
  OBVIOUS
<1> DEFINE Bad == {j \in 1 .. Len(p) : i <= j /\ ~(p[i] <= p[j])}
<1>1. Bad \subseteq Nat /\ g \in Bad OBVIOUS
<1>2. PICK j \in Bad : \A h \in Bad : ~(<<h, j>> \in OpToRel(<, Nat))
  <2> HIDE DEF Bad
  <2> QED BY <1>1, NatLessThanWellFounded, WFMin
<1>3. \A h \in Bad : ~(h < j) BY <1>1, <1>2 DEF OpToRel
<1>4. j \in 1 .. Len(p) /\ i < j /\ ~(p[i] <= p[j])
  <2>1. j \in 1 .. Len(p) /\ i <= j /\ ~(p[i] <= p[j]) BY <1>2
  <2>2. i # j BY <1>0, <2>1
  <2> QED BY <2>1, <2>2
<1>5. j - 1 \in 1 .. Len(p) - 1 /\ (j - 1) + 1 = j /\ i <= j - 1 /\ j - 1 \in 1 .. Len(p) BY <1>4
<1>6. p[i] <= p[j - 1] BY <1>3, <1>5
<1>7. p[j - 1] <= p[j] BY <1>5 DEF Sorted
<1>8. p[i] \in Nat /\ p[j] \in Nat /\ p[j - 1] \in Nat BY <1>0, <1>4, <1>5
<1> QED BY <1>4, <1>6, <1>7, <1>8

\* The points up to the next end have one time.
LEMMA GroupHasOneTime ==
  ASSUME NEW p \in Seq(Nat), Sorted(p),
         NEW i \in 0 .. Len(p) - 1, NEW e \in Ends(p), e > i, \A f \in Ends(p) : f > i => e <= f
  PROVE  \A j \in i + 1 .. e : p[j] = p[e]
<1>0. e \in 1 .. Len(p) BY EndsAreFinite
<1> SUFFICES ASSUME NEW j \in i + 1 .. e, p[j] # p[e] PROVE FALSE OBVIOUS
<1> DEFINE Bad == {d \in 0 .. e - (i + 1) : p[e - d] # p[e]}
<1>1. Bad \subseteq Nat /\ e - j \in Bad
  <2>1. e - j \in 0 .. e - (i + 1) /\ e - (e - j) = j BY <1>0
  <2> QED BY <2>1
<1>2. PICK d \in Bad : \A c \in Bad : ~(<<c, d>> \in OpToRel(<, Nat))
  <2> HIDE DEF Bad
  <2> QED BY <1>1, NatLessThanWellFounded, WFMin
<1>3. \A c \in Bad : ~(c < d) BY <1>1, <1>2 DEF OpToRel
<1>4. d \in 0 .. e - (i + 1) /\ p[e - d] # p[e] BY <1>2
<1>5. d # 0 BY <1>0, <1>4
<1>6. p[e - (d - 1)] = p[e]
  <2>1. d - 1 \in 0 .. e - (i + 1) /\ d - 1 < d BY <1>0, <1>4, <1>5
  <2> QED BY <1>3, <2>1
<1> DEFINE h == e - d
<1>7. h \in 1 .. Len(p) - 1 /\ h + 1 = e - (d - 1) /\ h > i /\ h < e /\ h \in DOMAIN p
  BY <1>0, <1>4, <1>5
<1>8. h \notin Ends(p) BY <1>0, <1>7
<1>9. ~(p[h + 1] > p[h]) BY <1>7, <1>8 DEF Ends
<1>10. p[h] <= p[h + 1] /\ p[h] \in Nat /\ p[h + 1] \in Nat
  <2>1. h \in 1 .. Len(p) /\ h + 1 \in 1 .. Len(p) BY <1>0, <1>7
  <2> QED BY <1>7, <2>1, EndsAreFinite DEF Sorted
<1>11. p[h] = p[h + 1] BY <1>9, <1>10
<1> QED BY <1>4, <1>6, <1>7, <1>11

\* Of the ends, as many are up to one as its group's number.
LEMMA UpToNextEnd ==
  ASSUME NEW p \in Seq(Nat), NEW i \in 0 .. Len(p), NEW e \in Ends(p), e > i,
         \A f \in Ends(p) : f > i => e <= f
  PROVE  UpTo(p, i) \in Nat /\ UpTo(p, e) = UpTo(p, i) + 1
<1>0. Ends(p) \subseteq 1 .. Len(p) BY EndsAreFinite
<1> DEFINE A == {f \in Ends(p) : f <= i}
<1>1. {f \in Ends(p) : f <= e} = A \union {e} BY <1>0
<1>2. IsFiniteSet(A) /\ e \notin A BY <1>0, EndsAreFinite
<1>3. UpTo(p, i) = Cardinality(A) /\ UpTo(p, e) = Cardinality(A \union {e}) BY <1>1 DEF UpTo
<1> HIDE DEF A
<1> QED BY <1>2, <1>3, FS_AddElement, FS_CardinalityType

\* The group ends are numbered in their order.
LEMMA UpToGrows ==
  ASSUME NEW p \in Seq(Nat), NEW e \in Ends(p), NEW f \in Ends(p), e < f
  PROVE  UpTo(p, e) # UpTo(p, f)
<1>0. Ends(p) \subseteq 1 .. Len(p) BY EndsAreFinite
<1> DEFINE A == {g \in Ends(p) : g <= e}
           B == {g \in Ends(p) : g <= f}
<1>1. A \in SUBSET B /\ f \in B /\ f \notin A BY <1>0
<1>2. IsFiniteSet(B) BY EndsAreFinite
<1>3. UpTo(p, e) = Cardinality(A) /\ UpTo(p, f) = Cardinality(B) BY DEF UpTo
<1> HIDE DEF A, B
<1> QED BY <1>1, <1>2, <1>3, FS_Subset

\* GroupEnd counts the ends.
LEMMA GroupEndIs ==
  ASSUME NEW p \in Seq(Nat), NEW e \in Ends(p)
  PROVE  /\ UpTo(p, e) \in 1 .. Cardinality(Ends(p))
         /\ GroupEnd(p, UpTo(p, e)) = e
<1>0. Ends(p) \subseteq 1 .. Len(p) /\ IsFiniteSet(Ends(p)) BY EndsAreFinite
<1> DEFINE A == {g \in Ends(p) : g <= e}
<1>1. A \in SUBSET Ends(p) /\ e \in A /\ IsFiniteSet(A) BY <1>0, EndsAreFinite
<1>2. UpTo(p, e) = Cardinality(A) BY DEF UpTo
<1>3. UpTo(p, e) \in 1 .. Cardinality(Ends(p))
  <2> HIDE DEF A
  <2>1. Cardinality(A) \in Nat /\ Cardinality(A) # 0 /\ Cardinality(Ends(p)) \in Nat
    BY <1>0, <1>1, FS_CardinalityType, FS_EmptySet
  <2>2. Cardinality(A) <= Cardinality(Ends(p)) BY <1>0, <1>1, FS_Subset
  <2> QED BY <1>2, <2>1, <2>2
<1>4. \A f \in Ends(p) : UpTo(p, f) = UpTo(p, e) => f = e
  <2> SUFFICES ASSUME NEW f \in Ends(p), f # e PROVE UpTo(p, f) # UpTo(p, e) OBVIOUS
  <2>1. f < e \/ e < f BY <1>0
  <2> QED BY <2>1, UpToGrows
<1>5. UpTo(p, e) # 0 BY <1>3
<1> HIDE DEF A
<1> QED BY <1>3, <1>4, <1>5 DEF GroupEnd

\* The group in hand: idx and the sizes lead from one end to the next.
LEMMA GroupInHand ==
  ASSUME NEW p \in Seq(Nat), Sorted(p),
         NEW i \in 0 .. Len(p) - 1, i \in Ends(p) \union {0},
         NEW n \in Nat \ {0}, UpTo(p, i) = n - 1
  PROVE  \E e \in Ends(p) :
           /\ e \in i + 1 .. Len(p) /\ UpTo(p, e) = n
           /\ TimeCompressing(p)[n] = e - i
           /\ \A j \in i + 1 .. e : p[j] = p[e]
           /\ \A j \in e + 1 .. Len(p) : p[e] < p[j]
<1>0. Ends(p) \subseteq 1 .. Len(p) /\ Len(p) \in Nat BY EndsAreFinite
<1>1. PICK e \in Ends(p) : e > i /\ \A f \in Ends(p) : f > i => e <= f BY NextEnd
<1>2. e \in i + 1 .. Len(p) BY <1>0, <1>1
<1>3. UpTo(p, e) = n
  <2>1. i \in 0 .. Len(p) BY <1>0
  <2>2. UpTo(p, e) = UpTo(p, i) + 1 BY <1>1, <2>1, UpToNextEnd
  <2> QED BY <2>2
<1>4. GroupEnd(p, n) = e /\ n \in 1 .. Cardinality(Ends(p)) BY <1>3, GroupEndIs
<1>5. GroupEnd(p, n - 1) = i
  <2>1. CASE i = 0
    <3>1. {f \in Ends(p) : f <= 0} = {} BY <1>0
    <3>2. UpTo(p, 0) = 0 BY <3>1, FS_EmptySet DEF UpTo
    <3>3. n - 1 = 0 BY <2>1, <3>2
    <3> QED BY <2>1, <3>3 DEF GroupEnd
  <2>2. CASE i \in Ends(p) BY <2>2, GroupEndIs
  <2> QED BY <2>1, <2>2
<1>6. TimeCompressing(p)[n] = e - i BY <1>4, <1>5 DEF TimeCompressing
<1>7. \A j \in i + 1 .. e : p[j] = p[e] BY <1>1, GroupHasOneTime
<1>8. ASSUME NEW j \in e + 1 .. Len(p) PROVE p[e] < p[j]
  <2>1. e # Len(p) /\ e + 1 \in 1 .. Len(p) /\ e \in 1 .. Len(p) /\ j \in 1 .. Len(p) /\ e + 1 <= j
    BY <1>0, <1>2
  <2>2. p[e + 1] > p[e] BY <2>1 DEF Ends
  <2>3. p[e + 1] <= p[j] BY <2>1, SortedFar
  <2>4. p[e] \in Nat /\ p[e + 1] \in Nat /\ p[j] \in Nat BY <2>1, EndsAreFinite
  <2> QED BY <2>2, <2>3, <2>4
<1> QED BY <1>2, <1>3, <1>6, <1>7, <1>8

\* Where the walk stands: the group in hand has one time, the next of the scan.
LEMMA WalkStands ==
  ASSUME CloudInv, pc = "points"
  PROVE  /\ idx + time_seq[k] \in Ends(feats_down_body)
         /\ idx + time_seq[k] \in idx + 1 .. Len(feats_down_body)
         /\ UpTo(feats_down_body, idx + time_seq[k]) = k
         /\ IsNext(PointBody)
         /\ \A i \in Group : feats_down_body[i] = PointBody
         /\ \A i \in idx + time_seq[k] + 1 .. Len(feats_down_body) : PointBody < feats_down_body[i]
<1> DEFINE p == feats_down_body
<1>1. /\ p \in Seq(Nat) /\ Sorted(p)
      /\ idx \in 0 .. Len(p) - 1 /\ idx \in Ends(p) \union {0} /\ k \in Nat \ {0}
      /\ UpTo(p, idx) = k - 1
      /\ time_seq = TimeCompressing(p) /\ times = {p[i] : i \in idx + 1 .. Len(p)}
  BY DEF CloudInv
<1> HIDE DEF p
<1>2. PICK e \in Ends(p) :
        /\ e \in idx + 1 .. Len(p) /\ UpTo(p, e) = k
        /\ TimeCompressing(p)[k] = e - idx
        /\ \A j \in idx + 1 .. e : p[j] = p[e]
        /\ \A j \in e + 1 .. Len(p) : p[e] < p[j]
  <2>1. \A q \in Seq(Nat) : Sorted(q) =>
          \A i \in 0 .. Len(q) - 1 : i \in Ends(q) \union {0} =>
            \A n \in Nat \ {0} : UpTo(q, i) = n - 1 =>
              \E e \in Ends(q) :
                 /\ e \in i + 1 .. Len(q) /\ UpTo(q, e) = n
                 /\ TimeCompressing(q)[n] = e - i
                 /\ \A j \in i + 1 .. e : q[j] = q[e]
                 /\ \A j \in e + 1 .. Len(q) : q[e] < q[j]
    BY GroupInHand
  <2>2. \A n \in Nat \ {0} : UpTo(p, idx) = n - 1 =>
          \E e \in Ends(p) :
             /\ e \in idx + 1 .. Len(p) /\ UpTo(p, e) = n
             /\ TimeCompressing(p)[n] = e - idx
             /\ \A j \in idx + 1 .. e : p[j] = p[e]
             /\ \A j \in e + 1 .. Len(p) : p[e] < p[j]
    BY <1>1, <2>1
  <2> QED BY <1>1, <2>2
<1>3. idx + time_seq[k] = e BY <1>1, <1>2
<1>4. PointBody = p[e] /\ Group = idx + 1 .. e BY <1>3 DEF PointBody, Group, p
<1>5. IsNext(p[e])
  <2>1. p[e] \in times BY <1>1, <1>2
  <2>2. ASSUME NEW j \in idx + 1 .. Len(p) PROVE p[e] <= p[j]
    <3>1. e \in 1 .. Len(p) /\ j \in 1 .. Len(p) /\ Len(p) \in Nat BY <1>1, <1>2, EndsAreFinite
    <3>2. p[e] \in Nat /\ p[j] \in Nat BY <1>1, <3>1, EndsAreFinite
    <3>3. j \in idx + 1 .. e \/ j \in e + 1 .. Len(p) BY <3>1
    <3> QED BY <1>2, <3>2, <3>3
  <2> QED BY <1>1, <2>1, <2>2 DEF IsNext
<1> QED BY <1>2, <1>3, <1>4, <1>5 DEF p

\* A step that leaves the walk where it is, and the scan as well if it has been walked.
LEMMA CloudLeftAlone ==
  ASSUME CloudInv, UNCHANGED <<cloudVars, times>>,
         pc = "points" <=> pc' = "points",
         init_map => init_map',
         pc' = "points" \/ (pc' = "spin" /\ ~lidar_pushed' /\ meas'.offs # {}) =>
           \/ ~init_map
           \/ /\ pc = "points" \/ (pc = "spin" /\ ~lidar_pushed /\ meas.offs # {})
              /\ UNCHANGED meas
  PROVE  CloudInv'
<1> USE DEF cloudVars
<1>1. /\ feats_down_body' \in Seq(Nat) /\ DOMAIN seen' = DOMAIN feats_down_body'
      /\ ~init_map' => feats_down_body' = <<>>
  BY DEF CloudInv
<1>2. IF pc' = "points"
        THEN /\ idx' \in 0 .. Len(feats_down_body') - 1 /\ k' \in Nat \ {0}
             /\ Sorted(feats_down_body')
             /\ times' = {feats_down_body'[i] : i \in idx' + 1 .. Len(feats_down_body')}
             /\ time_seq' = TimeCompressing(feats_down_body')
             /\ idx' \in Ends(feats_down_body') \union {0}
             /\ UpTo(feats_down_body', idx') = k' - 1
        ELSE idx' = Len(feats_down_body')
  BY DEF CloudInv
<1>3. ASSUME pc' = "points" \/ (pc' = "spin" /\ ~lidar_pushed' /\ meas'.offs # {}),
             NEW i \in DOMAIN feats_down_body'
      PROVE  seen'[i] = IF i <= idx' THEN TimeOf(feats_down_body[i])' ELSE -1
  <2>1. CASE ~init_map
    <3>1. feats_down_body' = <<>> BY <2>1 DEF CloudInv
    <3> QED BY <1>3, <3>1
  <2>2. CASE /\ pc = "points" \/ (pc = "spin" /\ ~lidar_pushed /\ meas.offs # {})
             /\ UNCHANGED meas
    <3>1. seen[i] = IF i <= idx THEN TimeOf(feats_down_body[i]) ELSE -1 BY <1>3, <2>2 DEF CloudInv
    <3>2. TimeOf(feats_down_body[i])' = TimeOf(feats_down_body[i]) BY <2>2 DEF TimeOf
    <3> QED BY <3>1, <3>2
  <2> QED BY <1>3, <2>1, <2>2
<1> QED BY <1>1, <1>2, <1>3 DEF CloudInv, TimeOf

\* A new cloud, or a scan that only goes into the map.
LEMMA DownsampleKeepsCloudInv ==
  ASSUME WalkInv, WalkInv', CloudInv, DownsampleCloud
  PROVE  CloudInv'
<1>1. /\ pc = "align" /\ UNCHANGED meas
      /\ \/ init_map /\ init_map' /\ pc' = "points"
         \/ ~init_map /\ pc' = "spin" /\ UNCHANGED <<times, cloudVars>>
      /\ times' \subseteq Nat
  BY DEF DownsampleCloud, Downsample, WalkInv, MappingInv, TypeOK, mapVars
<1>2. CASE ~init_map BY <1>1, <1>2, CloudLeftAlone
<1>3. CASE init_map
  <2> DEFINE p == feats_down_body'
  <2>1. /\ p \in SortedClouds(times') /\ time_seq' = TimeCompressing(p)
        /\ k' = 1 /\ idx' = 0 /\ seen' = [i \in DOMAIN p |-> -1]
        /\ pc' = "points" /\ init_map'
    BY <1>1, <1>3 DEF DownsampleCloud
  <2> HIDE DEF p
  <2>2. PICK n \in 1 .. MaxPoints : p \in [1 .. n -> times'] BY <2>1 DEF SortedClouds
  <2>3. n \in Nat \ {0} /\ p \in Seq(Nat) /\ Len(p) = n /\ DOMAIN p = 1 .. n
    <3>1. n \in Nat \ {0} BY WalkAssumption
    <3>2. p \in [1 .. n -> Nat] BY <1>1, <2>2
    <3>3. p \in Seq(Nat) /\ Len(p) = n BY <3>1, <3>2
    <3> QED BY <2>2, <3>1, <3>2, <3>3
  <2>4. Sorted(p) BY <2>1 DEF SortedClouds
  <2>5. times' = {p[i] : i \in idx' + 1 .. Len(p)}
    <3>1. times' \subseteq {p[i] : i \in DOMAIN p} BY <2>1 DEF SortedClouds
    <3>2. idx' + 1 .. Len(p) = DOMAIN p BY <2>1, <2>3
    <3> QED BY <2>2, <3>1, <3>2
  <2>6. UpTo(p, idx') = k' - 1
    <3>1. {f \in Ends(p) : f <= 0} = {} BY <2>3, EndsAreFinite
    <3> QED BY <2>1, <3>1, FS_EmptySet DEF UpTo
  <2>7. \A i \in DOMAIN p : seen'[i] = -1 /\ ~(i <= idx') BY <2>1, <2>3
  <2>8. DOMAIN seen' = DOMAIN p /\ idx' \in 0 .. Len(p) - 1 /\ k' \in Nat \ {0}
    BY <2>1, <2>3
  <2> QED BY <2>1, <2>3, <2>4, <2>5, <2>6, <2>7, <2>8 DEF CloudInv, p
<1> QED BY <1>2, <1>3

\* A group is matched, at its time, and the walk moves on to the next or ends.
LEMMA WalkToPointKeepsCloudInv ==
  ASSUME WalkInv, CloudInv, NEW matched \in BOOLEAN, WalkToPoint(matched)
  PROVE  CloudInv'
<1> DEFINE p == feats_down_body
           e == idx + time_seq[k]
<1>1. PICK t \in times : t = PointBody /\ PredictToPoint(t) BY DEF WalkToPoint
<1>2. /\ pc = "points" /\ times' = times \ {t} /\ pc' = IF times' = {} THEN "spin" ELSE "points"
      /\ time_predict_last_const' = TimeOf(t)
      /\ UNCHANGED <<meas, init_map, feats_down_body, time_seq>>
      /\ idx' = e /\ k' = k + 1
      /\ seen' = [i \in DOMAIN seen |->
                    IF i \in Group THEN time_predict_last_const' ELSE seen[i]]
  BY <1>1 DEF WalkToPoint, PredictToPoint, syncVars, mapVars, HModel
<1>3. /\ e \in Ends(p) /\ e \in idx + 1 .. Len(p) /\ UpTo(p, e) = k
      /\ \A i \in Group : p[i] = t
      /\ \A i \in e + 1 .. Len(p) : t < p[i]
  BY <1>1, <1>2, WalkStands
<1>4. /\ p \in Seq(Nat) /\ DOMAIN seen = DOMAIN p /\ DOMAIN p = 1 .. Len(p)
      /\ idx \in 0 .. Len(p) - 1 /\ Len(p) \in Nat /\ k \in Nat \ {0}
      /\ Sorted(p)
      /\ times = {p[i] : i \in idx + 1 .. Len(p)} /\ time_seq = TimeCompressing(p)
      /\ \A i \in DOMAIN p : seen[i] = IF i <= idx THEN TimeOf(p[i]) ELSE -1
      /\ ~init_map => p = <<>>
  BY <1>2, EndsAreFinite DEF CloudInv
<1>5. Group = idx + 1 .. e BY DEF Group
<1> HIDE DEF p, e
<1>6. times' = {p[i] : i \in e + 1 .. Len(p)}
  <2>1. ASSUME NEW i \in idx + 1 .. Len(p) PROVE p[i] # t <=> i \in e + 1 .. Len(p)
    <3>1. i \in idx + 1 .. e \/ i \in e + 1 .. Len(p) BY <1>3, <1>4
    <3>2. t \in Nat BY <1>4, EndsAreFinite
    <3>3. i \in e + 1 .. Len(p) => t < p[i] /\ p[i] \in Nat
      <4>1. i \in 1 .. Len(p) BY <1>4
      <4> QED BY <1>3, <1>4, <4>1, EndsAreFinite
    <3>4. i \in idx + 1 .. e => i \notin e + 1 .. Len(p) BY <1>3, <1>4
    <3> QED BY <1>3, <1>5, <3>1, <3>2, <3>3, <3>4
  <2>2. \A i \in e + 1 .. Len(p) : i \in idx + 1 .. Len(p) BY <1>3, <1>4
  <2> QED BY <1>2, <1>4, <2>1, <2>2
<1>7. \A i \in DOMAIN p : seen'[i] = IF i <= e THEN TimeOf(p[i]) ELSE -1
  <2> SUFFICES ASSUME NEW i \in DOMAIN p
               PROVE  seen'[i] = IF i <= e THEN TimeOf(p[i]) ELSE -1
    OBVIOUS
  <2>1. CASE i \in Group
    <3>1. i <= e BY <1>3, <1>4, <1>5, <2>1
    <3>2. seen'[i] = TimeOf(t) BY <1>2, <1>4, <2>1
    <3> QED BY <1>3, <2>1, <3>1, <3>2
  <2>2. CASE i \notin Group
    <3>1. i <= e <=> i <= idx BY <1>3, <1>4, <1>5, <2>2
    <3>2. seen'[i] = seen[i] BY <1>2, <1>4, <2>2
    <3> QED BY <1>4, <3>1, <3>2
  <2> QED BY <2>1, <2>2
<1>10. e \in Nat \ {0} /\ e <= Len(p) /\ Len(p) \in Nat
  <2>1. idx \in Nat /\ Len(p) \in Nat BY <1>4
  <2> QED BY <1>3, <2>1
<1>8. CASE pc' = "points"
  <2>1. e # Len(p)
    <3>1. times' # {} BY <1>2, <1>8
    <3>2. PICK i \in e + 1 .. Len(p) : TRUE BY <1>6, <3>1
    <3> QED BY <1>10, <3>2
  <2>2. e \in 0 .. Len(p) - 1 BY <1>10, <2>1
  <2>3. k' \in Nat \ {0} /\ UpTo(p, e) = k' - 1 BY <1>2, <1>3, <1>4
  <2>4. DOMAIN seen' = DOMAIN p BY <1>2, <1>4
  <2>5. /\ p' = p /\ p \in Seq(Nat) /\ DOMAIN seen' = DOMAIN p /\ (~init_map' => p = <<>>)
        /\ idx' \in 0 .. Len(p) - 1 /\ k' \in Nat \ {0} /\ Sorted(p)
        /\ times' = {p[i] : i \in idx' + 1 .. Len(p)}
        /\ time_seq' = TimeCompressing(p)
        /\ idx' \in Ends(p) \union {0} /\ UpTo(p, idx') = k' - 1
    BY <1>2, <1>3, <1>4, <1>6, <2>2, <2>3, <2>4 DEF p
  <2>6. \A i \in DOMAIN p : seen'[i] = IF i <= idx' THEN TimeOf(p[i])' ELSE -1
    BY <1>2, <1>7 DEF TimeOf, p
  <2> QED BY <1>8, <2>5, <2>6 DEF CloudInv, p
<1>9. CASE pc' # "points"
  <2>1. e = Len(p)
    <3>1. times' = {} BY <1>2, <1>9
    <3>2. e + 1 \notin e + 1 .. Len(p) BY <1>6, <3>1
    <3> QED BY <1>10, <3>2
  <2>2. DOMAIN seen' = DOMAIN p BY <1>2, <1>4
  <2> QED BY <1>2, <1>4, <1>7, <1>9, <2>1, <2>2 DEF CloudInv, TimeOf, p
<1> QED BY <1>8, <1>9

LEMMA CloudStep == WalkInv /\ WalkInv' /\ CloudInv /\ [WalkNext]_walkVars => CloudInv'
<1> SUFFICES ASSUME WalkInv, WalkInv', CloudInv, [WalkNext]_walkVars PROVE CloudInv' OBVIOUS
<1>1. CASE /\ Callbacks
           /\ UNCHANGED <<settings, imu_last, time_update_last, input_in, cloudVars, odom>>
  <2>1. UNCHANGED <<pc, times, meas, lidar_pushed, init_map, cloudVars>>
    BY <1>1 DEF Callbacks, LidarCallback, ImuCallback
  <2> QED BY <2>1, CloudLeftAlone
<1>2. CASE SyncImuLast
  <2>1. /\ pc = "spin" /\ pc' = "process" /\ UNCHANGED <<times, init_map, cloudVars>>
    BY <1>2 DEF SyncImuLast, SyncPackages, Synchronising
  <2> QED BY <2>1, CloudLeftAlone
<1>3. CASE DownsampleCloud BY <1>3, DownsampleKeepsCloudInv
<1>4. CASE CatchUp \/ WalkToImuAsOutput \/ WalkToImuAsInput
  <2>1. UNCHANGED <<pc, times, meas, lidar_pushed, init_map, cloudVars>>
    BY <1>4 DEF CatchUp, CatchUpToScan, CatchUpToFirst, WalkToImuAsOutput, WalkToImuAsInput,
                WalkToImu, PredictToImu, TakeImu
  <2> QED BY <2>1, CloudLeftAlone
<1>5. CASE \E matched \in BOOLEAN : WalkToPointAsOutput(matched) \/ WalkToPointAsInput(matched)
  BY <1>5, WalkToPointKeepsCloudInv DEF WalkToPointAsOutput, WalkToPointAsInput
<1>6. CASE /\ LoseLidar \/ PushScan \/ SyncWithoutImu \/ Process \/ AlignGravity
           /\ UNCHANGED <<settings, imu_last, time_update_last, input_in, cloudVars, odom>>
  <2>1. /\ UNCHANGED <<times, init_map, cloudVars>> /\ pc # "points" /\ pc' # "points"
        /\ pc' = "spin" /\ ~lidar_pushed' /\ meas'.offs # {} => ~init_map
    <3>1. CASE LoseLidar
      <4>1. pc = "spin" /\ pc' = "spin" /\ UNCHANGED <<times, init_map>> /\ meas'.offs = {}
        BY <3>1 DEF LoseLidar, Synchronising, WalkInv, MappingInv, TypeOK, Scans
      <4> QED BY <1>6, <4>1
    <3>2. CASE PushScan BY <1>6, <3>2 DEF PushScan, Synchronising
    <3>3. CASE SyncWithoutImu BY <1>6, <3>3 DEF SyncWithoutImu
    <3>4. CASE Process
      <4>1. pc = "process" /\ UNCHANGED <<times, init_map>> /\ pc' \in {"spin", "align"}
            /\ (pc' = "spin" => imu_need_init')
        BY <3>4 DEF Process
      <4>2. imu_need_init' => ~init_map' BY DEF WalkInv, Phases
      <4> QED BY <1>6, <4>1, <4>2
    <3>5. CASE AlignGravity BY <1>6, <3>5 DEF AlignGravity
    <3> QED BY <1>6, <3>1, <3>2, <3>3, <3>4, <3>5
  <2> QED BY <2>1, CloudLeftAlone
<1>7. CASE UNCHANGED walkVars
  <2>1. UNCHANGED <<pc, times, meas, lidar_pushed, init_map, cloudVars>>
    BY <1>7 DEF walkVars, vars
  <2> QED BY <2>1, CloudLeftAlone
<1> QED BY <1>1, <1>2, <1>3, <1>4, <1>5, <1>6, <1>7 DEF WalkNext, WalkLoop

\* The sizes of the groups and idx lead the loop to every point of the scan at its own
\* time, and it has matched each of them when the scan is done (laserMapping.cpp, main,
\* and time_compressing of common_lib.h).
THEOREM PointsAreMatched == WalkSpec => []PointsAreMatchedAtTheirTime
<1>1. WalkInit => CloudInv
  BY DEF WalkInit, Init, CloudInv
<1>2. CloudInv => PointsAreMatchedAtTheirTime
  <2> SUFFICES ASSUME CloudInv PROVE PointsAreMatchedAtTheirTime OBVIOUS
  <2>1. pc = "points" => IsNext(PointBody) BY WalkStands
  <2> QED BY <2>1 DEF CloudInv, PointsAreMatchedAtTheirTime
<1> QED BY <1>1, <1>2, CloudStep, WalkInvariant, PTL DEF WalkSpec
===============================================================================
