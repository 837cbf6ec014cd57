---------------------------- MODULE PointCloudProofs ----------------------------
(***************************************************************************)
(* Proofs about the way of a point from the SDK's callback to the topic.   *)
(*                                                                         *)
(* The packet handler, for any lidars, time types, packets and schedule:   *)
(* every point is published once and in order, and a lidar whose packets   *)
(* are in time gets one frame per interval.                                *)
(*                                                                         *)
(* The hand-over of frames from the producer to the poll thread, for every *)
(* number of lidars and packets, and with the store of wr_idx taking       *)
(* effect at once or late.                                                 *)
(***************************************************************************)
EXTENDS PubHandler, PointCloudDelivery, FunctionTheorems, FiniteSetTheorems,
        SequenceTheorems, TLAPS

(* Arithmetic.                                                             *)

\* Quotient and remainder are unique.
LEMMA Quotient ==
  ASSUME NEW m \in Nat \ {0}, NEW q \in Int, NEW r \in 0 .. m - 1
  PROVE  (m * q + r) \div m = q /\ (m * q + r) % m = r
<1> DEFINE p == (m * q + r) \div m
           s == (m * q + r) % m
<1>1. m * q + r \in Int OBVIOUS
<1>2. p \in Int /\ s \in 0 .. m - 1 /\ m * q + r = m * p + s BY <1>1
<1> HIDE DEF p, s
<1>3. m * (q - p) = s - r BY <1>2
<1>4. CASE q - p >= 1
  <2>1. m * (q - p - 1) >= 0 BY <1>2, <1>4
  <2> QED BY <1>2, <1>3, <2>1
<1>5. CASE q - p <= -1
  <2>1. m * (-1 - (q - p)) >= 0 BY <1>2, <1>5
  <2> QED BY <1>2, <1>3, <2>1
<1>6. CASE q = p
  <2>1. s = r BY <1>2, <1>3, <1>6
  <2> QED BY <1>6, <2>1 DEF p, s
<1> QED BY <1>2, <1>4, <1>5, <1>6

\* A time in the first millisecond of the k-th interval.
InFirstMs(t, k) == k * publish_interval <= t /\ t < k * publish_interval + Ms

LEMMA Intervals ==
  /\ Ms \in Nat \ {0} /\ publish_interval_ms \in Nat \ {0, 1}
  /\ publish_interval \in Nat \ {0} /\ 2 * Ms <= publish_interval
  /\ publish_interval_tolerance = publish_interval - Ms
  /\ Dots \in Nat \ {0} /\ point_interval \in Nat /\ Span \in Nat
<1>1. /\ Ms \in Nat \ {0} /\ publish_interval_ms \in Nat \ {0, 1}
      /\ Dots \in Nat \ {0} /\ point_interval \in Nat
  BY PubHandlerAssumption
<1>2. publish_interval_ms * Ms >= 2 * Ms
  <2>1. (publish_interval_ms - 2) * Ms >= 0 BY <1>1
  <2> QED BY <1>1, <2>1
<1>3. publish_interval_ms * Ms \in Nat \ {0} BY <1>1, <1>2
<1>4. (Dots - 1) * point_interval \in Nat BY <1>1
<1> QED BY <1>1, <1>2, <1>3, <1>4
    DEF publish_interval, publish_interval_tolerance, Span

\* The test of CheckTimer, of the millisecond: whether it is the first of an interval.
LEMMA FirstMsIsTested ==
  ASSUME NEW t \in Nat
  PROVE  /\ (t \div Ms) % publish_interval_ms = 0 => \E q \in Nat : InFirstMs(t, q)
         /\ \A q \in Nat : InFirstMs(t, q) =>
              /\ (t \div Ms) % publish_interval_ms = 0
              /\ t \div publish_interval = q
              /\ q # 0 => t \div Ms # 0
<1> USE Intervals
<1>1. ASSUME (t \div Ms) % publish_interval_ms = 0
      PROVE  \E q \in Nat : InFirstMs(t, q)
  <2> DEFINE ms == t \div Ms
             q == ms \div publish_interval_ms
  <2>1. ms \in Nat /\ t - ms * Ms \in 0 .. Ms - 1 OBVIOUS
  <2>2. q \in Nat /\ ms = q * publish_interval_ms
    <3> ms % publish_interval_ms = 0 BY <1>1
    <3> HIDE DEF ms
    <3> QED BY <2>1
  <2> HIDE DEF ms, q
  <2>3. ms * Ms = q * (publish_interval_ms * Ms) BY <2>1, <2>2
  <2>4. InFirstMs(t, q) BY <2>1, <2>2, <2>3 DEF InFirstMs, publish_interval
  <2> QED BY <2>2, <2>4
<1>2. ASSUME NEW q \in Nat, InFirstMs(t, q)
      PROVE  /\ (t \div Ms) % publish_interval_ms = 0
             /\ t \div publish_interval = q
             /\ q # 0 => t \div Ms # 0
  <2> DEFINE r == t - q * publish_interval
  <2>1. r \in 0 .. Ms - 1 /\ r \in 0 .. publish_interval - 1 BY <1>2 DEF InFirstMs
  <2>2. t = publish_interval * q + r OBVIOUS
  <2>3. t = Ms * (publish_interval_ms * q) + r BY DEF publish_interval
  <2> HIDE DEF r
  <2>4. t \div publish_interval = q BY <2>1, <2>2, Quotient
  <2>5. publish_interval_ms * q \in Int OBVIOUS
  <2>6. t \div Ms = publish_interval_ms * q BY <2>1, <2>3, <2>5, Quotient
  <2>7. (publish_interval_ms * q + 0) % publish_interval_ms = 0 BY Quotient
  <2>8. q # 0 => publish_interval_ms * q # 0 OBVIOUS
  <2> QED BY <2>4, <2>5, <2>6, <2>7, <2>8
<1> QED BY <1>1, <1>2

\* Intervals follow each other.
LEMMA NextInterval ==
  ASSUME NEW k \in Nat, NEW q \in Nat
  PROVE  /\ k * publish_interval \in Nat
         /\ (k + 1) * publish_interval = k * publish_interval + publish_interval
         /\ q < k => q * publish_interval <= k * publish_interval - publish_interval
         /\ q > k + 1 => q * publish_interval >= k * publish_interval + 2 * publish_interval
<1> USE Intervals
<1>1. ASSUME q < k PROVE q * publish_interval <= k * publish_interval - publish_interval
  <2>1. (k - 1 - q) * publish_interval >= 0 BY <1>1
  <2> QED BY <2>1
<1>2. ASSUME q > k + 1
      PROVE  q * publish_interval >= k * publish_interval + 2 * publish_interval
  <2>1. (q - k - 2) * publish_interval >= 0 BY <1>2
  <2> QED BY <2>1
<1> QED BY <1>1, <1>2

-------------------------------------------------------------------------------
(* Packets in flight.                                                      *)

LEMMA Concatenate ==
  ASSUME NEW S, NEW s \in Seq(S), NEW t \in Seq(S), NEW x \in S
  PROVE  /\ <<x>> \in Seq(S) /\ <<>> \in Seq(S)
         /\ s \o t \in Seq(S) /\ Append(s, x) \in Seq(S)
         /\ Append(s, x) = s \o <<x>>
  OBVIOUS

\* Before and after the queue.
InHand == IF pc = "process" THEN <<raw_data>> ELSE <<>>
AtSdk == IF cb = NoPacket THEN <<>> ELSE <<cb>>

LEMMA FlightType ==
  ASSUME HandlerTypeOK
  PROVE  /\ InHand \in Seq(Packets) /\ AtSdk \in Seq(Packets)
         /\ InFlight = InHand \o raw_packet_queue \o AtSdk
         /\ InFlight \in Seq(Packets)
<1>1. pc = "process" => raw_data \in Packets BY DEF HandlerTypeOK
<1>2. cb # NoPacket => cb \in Packets BY DEF HandlerTypeOK
<1>3. \A x \in Packets : <<x>> \in Seq(Packets) OBVIOUS
<1>4. InHand \in Seq(Packets) /\ AtSdk \in Seq(Packets)
  BY <1>1, <1>2, <1>3 DEF InHand, AtSdk
<1>5. InFlight = InHand \o raw_packet_queue \o AtSdk BY DEF InFlight, InHand, AtSdk
<1>6. raw_packet_queue \in Seq(Packets) BY DEF HandlerTypeOK
<1> QED BY <1>4, <1>5, <1>6

LEMMA ArriveFlight ==
  ASSUME HandlerTypeOK, cb = NoPacket, cb' # NoPacket, cb' \in Packets,
         UNCHANGED <<pc, raw_data, raw_packet_queue>>
  PROVE  InFlight' = Append(InFlight, cb')
<1> DEFINE s == InHand \o raw_packet_queue
<1>1. s \in Seq(Packets) BY FlightType DEF HandlerTypeOK
<1>2. InFlight = s \o <<>> BY FlightType DEF AtSdk
<1>3. InFlight' = s \o <<cb'>> BY DEF InFlight, InHand
<1> HIDE DEF s
<1>4. s \o <<>> = s BY <1>1, ConcatEmptySeq
<1> QED BY <1>1, <1>2, <1>3, <1>4, Concatenate

LEMMA PushFlight ==
  ASSUME HandlerTypeOK, PushPacket
  PROVE  InFlight' = InFlight
<1> DEFINE q == raw_packet_queue
<1>1. /\ q \in Seq(Packets) /\ cb \in Packets /\ <<cb>> \in Seq(Packets)
      /\ Append(q, cb) = q \o <<cb>>
  BY Concatenate DEF HandlerTypeOK, PushPacket
<1>2. InFlight = InHand \o q \o <<cb>> BY DEF InFlight, InHand, PushPacket
<1>3. InFlight' = InHand \o (q \o <<cb>>) \o <<>>
  BY <1>1 DEF InFlight, InHand, PushPacket, threadVars
<1>4. InHand \in Seq(Packets) BY FlightType
<1> HIDE DEF q
<1>5. q \o <<cb>> \in Seq(Packets) BY <1>1, ConcatProperties
<1>6. InHand \o (q \o <<cb>>) \in Seq(Packets) BY <1>4, <1>5, ConcatProperties
<1>7. InHand \o (q \o <<cb>>) \o <<>> = InHand \o (q \o <<cb>>) BY <1>6, ConcatEmptySeq
<1>8. InHand \o q \o <<cb>> = InHand \o (q \o <<cb>>) BY <1>1, <1>4, ConcatAssociative
<1> QED BY <1>2, <1>3, <1>7, <1>8

LEMMA TakeFlight ==
  ASSUME HandlerTypeOK, pc # "process", TakePacket
  PROVE  InFlight' = InFlight
<1> DEFINE q == raw_packet_queue
<1>1. q \in Seq(Packets) /\ q # <<>> BY DEF HandlerTypeOK, TakePacket
<1>2. AtSdk \in Seq(Packets) BY FlightType
<1>3. InFlight = <<>> \o q \o AtSdk BY DEF InFlight, AtSdk
<1>4. InFlight' = <<Head(q)>> \o Tail(q) \o AtSdk BY DEF InFlight, AtSdk, TakePacket
<1> HIDE DEF q
<1>5. <<>> \o q = q BY <1>1, ConcatEmptySeq
<1>6. <<Head(q)>> \o Tail(q) = q
  <2>1. Head(q) \in Packets /\ Tail(q) \in Seq(Packets) /\ <<Head(q)>> \in Seq(Packets)
    BY <1>1, HeadTailProperties
  <2> QED BY <1>1, <2>1, SeqEqual, HeadTailProperties, ConcatProperties
<1> QED BY <1>3, <1>4, <1>5, <1>6

LEMMA ProcessFlight ==
  ASSUME HandlerTypeOK, PointCloudProcess
  PROVE  /\ InFlight # <<>> /\ InFlight[1] = raw_data
         /\ InFlight' \in Seq(Packets) /\ Len(InFlight) = Len(InFlight') + 1
         /\ \A i \in 1 .. Len(InFlight') : InFlight'[i] = InFlight[i + 1]
<1> DEFINE q == raw_packet_queue
           r == <<raw_data>>
           s == q \o AtSdk
<1>1. q \in Seq(Packets) /\ raw_data \in Packets BY DEF HandlerTypeOK, PointCloudProcess
<1>2. AtSdk \in Seq(Packets) BY FlightType
<1>3. InFlight = r \o q \o AtSdk BY DEF InFlight, AtSdk, PointCloudProcess
<1>4. InFlight' = <<>> \o q \o AtSdk BY DEF InFlight, AtSdk, PointCloudProcess
<1>5. r \in Seq(Packets) /\ Len(r) = 1 /\ r[1] = raw_data BY <1>1
<1> HIDE DEF q, r
<1>6. InFlight = r \o s BY <1>1, <1>2, <1>3, <1>5, ConcatAssociative
<1>7. InFlight' = s BY <1>1, <1>4, ConcatEmptySeq
<1>8. s \in Seq(Packets) BY <1>1, <1>2, ConcatProperties
<1> HIDE DEF s
<1>9. /\ Len(InFlight) = 1 + Len(s)
      /\ \A i \in 1 .. 1 + Len(s) : InFlight[i] = IF i <= 1 THEN r[i] ELSE s[i - 1]
  <2>1. /\ Len(r \o s) = 1 + Len(s)
        /\ \A i \in 1 .. 1 + Len(s) : (r \o s)[i] = IF i <= 1 THEN r[i] ELSE s[i - 1]
    <3>1. /\ Len(r \o s) = Len(r) + Len(s)
          /\ \A i \in 1 .. Len(r) + Len(s) :
               (r \o s)[i] = IF i <= Len(r) THEN r[i] ELSE s[i - Len(r)]
      BY <1>5, <1>8, ConcatProperties
    <3> QED BY <1>5, <3>1, Zenon
  <2> QED BY <1>6, <2>1
<1>10. Len(s) \in Nat BY <1>8, LenProperties
<1>11. InFlight[1] = raw_data BY <1>5, <1>9, <1>10
<1>12. \A i \in 1 .. Len(s) : s[i] = InFlight[i + 1]
  BY <1>9, <1>10
<1>13. InFlight # <<>> BY <1>9, <1>10
<1> QED BY <1>7, <1>8, <1>9, <1>11, <1>12, <1>13

-------------------------------------------------------------------------------
(* Counting a lidar's packets.                                             *)

LEMMA Counted ==
  ASSUME NEW s, NEW l, NEW k \in Nat
  PROVE  /\ PacketsOf(s, l, k) \in Nat
         /\ PacketsOf(s, l, 0) = 0
         /\ \A j \in 0 .. k : PacketsOf(s, l, j) <= PacketsOf(s, l, k)
<1> DEFINE Of(j) == {i \in 1 .. j : s[i].handle = l}
<1>1. IsFiniteSet(Of(k)) /\ Cardinality(Of(k)) \in Nat
  <2>1. IsFiniteSet(1 .. k) BY FS_Interval
  <2> QED BY <2>1, FS_Subset, FS_CardinalityType
<1>2. Cardinality(Of(0)) = 0
  <2>1. Of(0) = {} OBVIOUS
  <2> QED BY <2>1, FS_EmptySet
<1>3. \A j \in 0 .. k : Cardinality(Of(j)) <= Cardinality(Of(k))
  <2> TAKE j \in 0 .. k
  <2>1. Of(j) \subseteq Of(k) OBVIOUS
  <2> QED BY <1>1, <2>1, FS_Subset
<1> QED BY <1>1, <1>2, <1>3 DEF PacketsOf

LEMMA CountedNext ==
  ASSUME NEW s, NEW l, NEW k \in Nat
  PROVE  PacketsOf(s, l, k + 1) =
           IF s[k + 1].handle = l THEN PacketsOf(s, l, k) + 1 ELSE PacketsOf(s, l, k)
<1> DEFINE Of(j) == {i \in 1 .. j : s[i].handle = l}
<1>1. IsFiniteSet(Of(k)) /\ Cardinality(Of(k)) \in Nat
  <2>1. IsFiniteSet(1 .. k) BY FS_Interval
  <2> QED BY <2>1, FS_Subset, FS_CardinalityType
<1>2. CASE s[k + 1].handle = l
  <2>1. Of(k + 1) = Of(k) \union {k + 1} BY <1>2
  <2>2. k + 1 \notin Of(k) OBVIOUS
  <2>3. Cardinality(Of(k + 1)) = Cardinality(Of(k)) + 1
    <3> HIDE DEF Of
    <3> QED BY <1>1, <2>1, <2>2, FS_AddElement
  <2> QED BY <1>1, <1>2, <2>3 DEF PacketsOf
<1>3. CASE s[k + 1].handle # l
  <2>1. Of(k + 1) = Of(k) BY <1>3
  <2> QED BY <1>1, <1>3, <2>1 DEF PacketsOf
<1> QED BY <1>2, <1>3

\* The count depends on the first packets only, whatever follows.
LEMMA CountedPrefix ==
  ASSUME NEW s, NEW t, NEW l, NEW k \in Nat, \A i \in 1 .. k : s[i] = t[i]
  PROVE  PacketsOf(s, l, k) = PacketsOf(t, l, k)
<1>1. {i \in 1 .. k : s[i].handle = l} = {i \in 1 .. k : t[i].handle = l} OBVIOUS
<1> QED BY <1>1 DEF PacketsOf

\* Without the first packet, one less is counted if that was the lidar's.
LEMMA CountedTail ==
  ASSUME NEW s, NEW t, NEW l, NEW k \in Nat, \A i \in 1 .. k : t[i] = s[i + 1]
  PROVE  PacketsOf(s, l, k + 1) =
           PacketsOf(t, l, k) + (IF s[1].handle = l THEN 1 ELSE 0)
<1> DEFINE Later == {i \in 2 .. k + 1 : s[i].handle = l}
           Shifted == {i \in 1 .. k : t[i].handle = l}
           All == {i \in 1 .. k + 1 : s[i].handle = l}
           shift == [i \in Shifted |-> i + 1]
<1>1. shift \in Bijection(Shifted, Later)
  <2>1. shift \in [Shifted -> Later] OBVIOUS
  <2>2. \A i, j \in Shifted : shift[i] = shift[j] => i = j OBVIOUS
  <2>3. \A i \in Later : i - 1 \in Shifted /\ shift[i - 1] = i OBVIOUS
  <2> HIDE DEF shift, Shifted, Later
  <2> QED BY <2>1, <2>2, <2>3, Fun_IsBij DEF ExistsBijection
<1>2. IsFiniteSet(Shifted)
  <2>1. IsFiniteSet(1 .. k) BY FS_Interval
  <2> QED BY <2>1, FS_Subset
<1>3. IsFiniteSet(Later) /\ Cardinality(Later) = Cardinality(Shifted)
  <2>1. ExistsBijection(Shifted, Later) BY <1>1 DEF ExistsBijection
  <2> HIDE DEF Shifted, Later
  <2> QED BY <1>2, <2>1, FS_Bijection
<1>4. Cardinality(Shifted) \in Nat BY <1>2, FS_CardinalityType
<1>5. CASE s[1].handle = l
  <2>1. All = Later \union {1} BY <1>5
  <2>2. 1 \notin Later OBVIOUS
  <2>3. Cardinality(All) = Cardinality(Later) + 1
    <3> HIDE DEF All, Later
    <3> QED BY <1>3, <2>1, <2>2, FS_AddElement
  <2> QED BY <1>3, <1>5, <2>3 DEF PacketsOf
<1>6. CASE s[1].handle # l
  <2>1. All = Later
    <3>1. \A i \in 1 .. k + 1 : i = 1 \/ i \in 2 .. k + 1 OBVIOUS
    <3> QED BY <1>6, <3>1
  <2> QED BY <1>3, <1>4, <1>6, <2>1 DEF PacketsOf
<1> QED BY <1>5, <1>6

-------------------------------------------------------------------------------
(* Types.                                                                  *)

LEMMA PointsOfPacket ==
  ASSUME NEW x \in Packets
  PROVE  /\ PointsOf(x) \in Seq(Points) /\ Len(PointsOf(x)) = Dots
         /\ \A i \in 1 .. Dots : PointsOf(x)[i].n = x.n + i - 1
         /\ PointsOf(x)[1].offset_time = x.time_stamp
         /\ PointsOf(x)[Dots].offset_time = x.time_stamp + Span
<1> USE Intervals
<1>1. x.n \in Nat /\ x.time_stamp \in Nat BY DEF Packets
<1>2. \A i \in 1 .. Dots :
        /\ (i - 1) * point_interval \in Nat
        /\ x.n + i - 1 \in Nat
        /\ x.time_stamp + (i - 1) * point_interval \in Nat
  BY <1>1
<1>3. PointsOf(x) \in [1 .. Dots -> Points] BY <1>2 DEF PointsOf, Points
<1>4. PointsOf(x) \in Seq(Points) /\ Len(PointsOf(x)) = Dots BY <1>3
<1>5. \A i \in 1 .. Dots :
        /\ PointsOf(x)[i].n = x.n + i - 1
        /\ PointsOf(x)[i].offset_time = x.time_stamp + (i - 1) * point_interval
  BY DEF PointsOf
<1>6. 1 \in 1 .. Dots /\ Dots \in 1 .. Dots /\ (1 - 1) * point_interval = 0 OBVIOUS
<1> QED BY <1>1, <1>4, <1>5, <1>6 DEF Span

\* The flags and the thread's place, apart from the data.
FlagsOK ==
  /\ is_timestamp_sync \in BOOLEAN /\ is_quit \in BOOLEAN
  /\ first \in BOOLEAN /\ steady \in BOOLEAN
  /\ pc \in {"loop", "take", "wait", "process", "check", "done"}
DataOK ==
  /\ raw_packet_queue \in Seq(Packets)
  /\ cb \in Packets \union {NoPacket} /\ raw_data \in Packets \union {NoPacket}
  /\ pc \in {"process", "check"} => raw_data # NoPacket
FramesOK ==
  /\ points_clouds \in [Handles -> Seq(Points)] /\ published \in [Handles -> Nat]
  /\ last_frame \in [Handles -> Nat \union {-1}]
ClocksOK ==
  /\ last_pub_time \in Nat /\ last_pub_time <= now
  /\ now \in Nat /\ lidar_clock \in [Handles -> Nat]
  /\ left \in [Handles -> Nat] /\ received \in [Handles -> Nat]

LEMMA TypeParts == HandlerTypeOK <=> FlagsOK /\ DataOK /\ FramesOK /\ ClocksOK
  BY Zenon DEF HandlerTypeOK, FlagsOK, DataOK, FramesOK, ClocksOK

LEMMA HandlerTypeInit == HandlerInit => HandlerTypeOK
<1> SUFFICES ASSUME HandlerInit PROVE HandlerTypeOK OBVIOUS
<1>1. left \in [Handles -> Nat] BY PubHandlerAssumption DEF HandlerInit
<1>2. points_clouds \in [Handles -> Seq(Points)] BY DEF HandlerInit
<1>3. DataOK BY DEF HandlerInit, DataOK
<1>4. FlagsOK BY DEF HandlerInit, FlagsOK
<1>5. FramesOK BY <1>2 DEF HandlerInit, FramesOK
<1>6. ClocksOK BY <1>1 DEF HandlerInit, ClocksOK
<1> QED BY <1>3, <1>4, <1>5, <1>6, TypeParts

LEMMA RealPacket ==
  ASSUME NEW x \in Packets
  PROVE  /\ x # NoPacket
         /\ x.handle \in Handles /\ x.n \in Nat \ {0} /\ x.time_stamp \in Nat
  BY DEF Packets, NoPacket

LEMMA ReadsClock ==
  ASSUME HandlerTypeOK, ReadHostClock
  PROVE  now' \in Nat /\ now <= now'
<1>1. PICK step \in HostSteps : now' = now + step BY DEF ReadHostClock
<1>2. now \in Nat /\ step \in Nat BY PubHandlerAssumption DEF HandlerTypeOK
<1> QED BY <1>1, <1>2

LEMMA Publishes ==
  ASSUME HandlerTypeOK, NEW lidars \in SUBSET Handles, PublishPointCloud(lidars)
  PROVE  FramesOK'
<1>1. /\ points_clouds \in [Handles -> Seq(Points)] /\ published \in [Handles -> Nat]
      /\ last_frame \in [Handles -> Nat \union {-1}]
  BY DEF HandlerTypeOK
<1>2. published' \in [Handles -> Nat] BY <1>1 DEF PublishPointCloud
<1>3. points_clouds' \in [Handles -> Seq(Points)] BY <1>1 DEF PublishPointCloud
<1>4. last_frame' \in [Handles -> Nat \union {-1}]
  <2>1. ASSUME NEW l \in Handles, points_clouds[l] # <<>>
        PROVE  GetRecentTimeStamp(l) \in Nat
    <3>1. points_clouds[l] \in Seq(Points) BY <1>1
    <3> DEFINE s == points_clouds[l]
    <3> HIDE DEF s
    <3>2. s \in Seq(Points) /\ s # <<>> BY <2>1, <3>1 DEF s
    <3>3. Len(s) \in 1 .. Len(s) BY <3>2, EmptySeq, LenProperties
    <3>4. s[Len(s)] \in Points BY <3>2, <3>3, ElementOfSeq
    <3>5. GetRecentTimeStamp(l) = s[Len(s)].offset_time
      BY <2>1 DEF s, GetRecentTimeStamp
    <3> QED BY <3>4, <3>5 DEF Points
  <2> QED BY <1>1, <2>1 DEF PublishPointCloud
<1> QED BY <1>2, <1>3, <1>4 DEF FramesOK

LEMMA HandlerTypeNext ==
  HandlerTypeOK /\ [HandlerNext]_handlerVars => HandlerTypeOK'
<1> SUFFICES ASSUME HandlerTypeOK, [HandlerNext]_handlerVars PROVE HandlerTypeOK' OBVIOUS
<1> USE DEF handlerVars, clockVars, lidarVars, threadVars
<1>0. FlagsOK /\ DataOK /\ FramesOK /\ ClocksOK BY TypeParts
<1> SUFFICES FlagsOK' /\ DataOK' /\ FramesOK' /\ ClocksOK'
  BY Zenon DEF HandlerTypeOK, FlagsOK, DataOK, FramesOK, ClocksOK
<1>1. ASSUME NEW l \in Handles, NEW time_type \in TimeTypes[l], NEW gap \in Gaps,
             PacketArrives(l, time_type, gap)
      PROVE  FlagsOK' /\ DataOK' /\ FramesOK' /\ ClocksOK'
  <2> DEFINE stamp == IF time_type = "Ptp" THEN lidar_clock[l] + gap ELSE now'
  <2>1. gap \in Nat BY PubHandlerAssumption
  <2>2. now' \in Nat /\ now <= now'
    <3>1. CASE time_type = "Ptp" BY <1>0, <1>1, <3>1 DEF PacketArrives, ClocksOK
    <3>2. CASE time_type # "Ptp"
      <4>1. ReadHostClock BY <1>1, <3>2 DEF PacketArrives
      <4> QED BY <4>1, ReadsClock
    <3> QED BY <3>1, <3>2
  <2>3. stamp \in Nat
    <3>1. lidar_clock[l] \in Nat BY <1>0 DEF ClocksOK
    <3> QED BY <2>1, <2>2, <3>1
  <2>4. /\ cb' = [handle |-> l, n |-> received[l] + 1, time_stamp |-> stamp]
        /\ received' = [received EXCEPT ![l] = @ + Dots]
        /\ lidar_clock' = [lidar_clock EXCEPT ![l] = IF time_type = "Ptp"
                                                       THEN stamp + Span ELSE @]
        /\ left' = [left EXCEPT ![l] = @ - 1] /\ left[l] > 0
    BY <1>1 DEF PacketArrives
  <2> HIDE DEF stamp
  <2>5. received[l] + 1 \in Nat \ {0} BY <1>0 DEF ClocksOK
  <2>6. cb' \in Packets BY <2>3, <2>4, <2>5 DEF Packets
  <2>7. DataOK' BY <1>0, <1>1, <2>6 DEF PacketArrives, DataOK
  <2>8. stamp + Span \in Nat BY <2>3, Intervals
  <2>9. ClocksOK'
    <3>1. received' \in [Handles -> Nat] BY <1>0, <2>4, Intervals DEF ClocksOK
    <3>2. left' \in [Handles -> Nat] BY <1>0, <2>4 DEF ClocksOK
    <3>3. lidar_clock' \in [Handles -> Nat] BY <1>0, <2>4, <2>8 DEF ClocksOK
    <3>4. last_pub_time' \in Nat /\ last_pub_time' <= now'
      <4>1. last_pub_time' = last_pub_time BY <1>1 DEF PacketArrives
      <4> QED BY <1>0, <2>2, <4>1 DEF ClocksOK
    <3> QED BY <2>2, <3>1, <3>2, <3>3, <3>4 DEF ClocksOK
  <2>10. FramesOK' BY <1>0, <1>1 DEF PacketArrives, FramesOK
  <2>11. FlagsOK'
    <3>1. is_timestamp_sync' \in BOOLEAN /\ steady' \in BOOLEAN
      BY <1>1, Zenon DEF PacketArrives
    <3> QED BY <1>0, <1>1, <3>1 DEF PacketArrives, FlagsOK
  <2> QED BY <2>7, <2>9, <2>10, <2>11
<1>2. ASSUME NEW l \in Handles, NEW time_type \in TimeTypes[l], ImuArrives(l, time_type)
      PROVE  FlagsOK' /\ DataOK' /\ FramesOK' /\ ClocksOK'
  <2>1. is_timestamp_sync' \in BOOLEAN /\ steady' \in BOOLEAN
    BY <1>2, Zenon DEF ImuArrives
  <2>2. FlagsOK' BY <1>0, <1>2, <2>1 DEF ImuArrives, FlagsOK
  <2>3. DataOK' /\ FramesOK' BY <1>0, <1>2 DEF ImuArrives, DataOK, FramesOK
  <2>4. ClocksOK' BY <1>0, <1>2 DEF ImuArrives, ClocksOK
  <2> QED BY <2>2, <2>3, <2>4
<1>3. CASE PushPacket
  <2>1. DataOK'
    <3>1. raw_packet_queue' \in Seq(Packets)
      BY <1>0, <1>3, Concatenate DEF PushPacket, DataOK
    <3> QED BY <1>0, <1>3, <3>1 DEF PushPacket, DataOK
  <2>2. FlagsOK' /\ FramesOK' BY <1>0, <1>3 DEF PushPacket, FlagsOK, FramesOK
  <2>3. ClocksOK' BY <1>0, <1>3 DEF PushPacket, ClocksOK
  <2> QED BY <2>1, <2>2, <2>3
<1>4. CASE TestQuit BY <1>0, <1>4 DEF TestQuit, FlagsOK, DataOK, FramesOK, ClocksOK
<1>5. ASSUME TakePacket, UNCHANGED <<is_timestamp_sync, is_quit, first, steady>>
      PROVE  FlagsOK' /\ DataOK'
  <2>1. /\ Head(raw_packet_queue) \in Packets
        /\ Tail(raw_packet_queue) \in Seq(Packets)
    BY <1>0, <1>5, HeadTailProperties DEF TakePacket, DataOK
  <2>2. Head(raw_packet_queue) # NoPacket BY <2>1, RealPacket
  <2> QED BY <1>0, <1>5, <2>1, <2>2 DEF TakePacket, FlagsOK, DataOK
<1>6. CASE WaitForPacket
  <2>1. FlagsOK' /\ DataOK'
    BY <1>0, <1>5, <1>6 DEF WaitForPacket, TakePacket, FlagsOK, DataOK
  <2>2. FramesOK' /\ ClocksOK'
    BY <1>0, <1>6 DEF WaitForPacket, TakePacket, FramesOK, ClocksOK
  <2> QED BY <2>1, <2>2
<1>7. CASE Wake
  <2>1. FlagsOK' /\ DataOK' BY <1>0, <1>5, <1>7 DEF Wake, TakePacket, FlagsOK, DataOK
  <2>2. FramesOK' /\ ClocksOK' BY <1>0, <1>7 DEF Wake, TakePacket, FramesOK, ClocksOK
  <2> QED BY <2>1, <2>2
<1>8. CASE PointCloudProcess
  <2>1. raw_data \in Packets BY <1>0, <1>8 DEF DataOK, PointCloudProcess
  <2>2. PointsOf(raw_data) \in Seq(Points) BY <2>1, PointsOfPacket
  <2>3. points_clouds' \in [Handles -> Seq(Points)]
    <3> DEFINE p == PointsOf(raw_data)
    <3>1. points_clouds' = [points_clouds EXCEPT ![raw_data.handle] = @ \o p]
      BY <1>8 DEF PointCloudProcess
    <3> HIDE DEF p
    <3>2. p \in Seq(Points) BY <2>2 DEF p
    <3>3. points_clouds \in [Handles -> Seq(Points)] BY <1>0 DEF FramesOK
    <3>4. \A l \in Handles : points_clouds[l] \o p \in Seq(Points)
      <4> TAKE l \in Handles
      <4>1. points_clouds[l] \in Seq(Points) BY <3>3
      <4> QED BY <3>2, <4>1, ConcatProperties
    <3> DEFINE h == raw_data.handle
               joined == points_clouds[h] \o p
    <3>5. points_clouds' = [points_clouds EXCEPT ![h] = joined] BY <3>1
    <3>6. h \in Handles => joined \in Seq(Points) BY <3>4
    <3> HIDE DEF h, joined
    <3> QED BY <3>3, <3>5, <3>6
  <2>4. FramesOK' BY <1>0, <1>8, <2>3 DEF PointCloudProcess, FramesOK
  <2>5. FlagsOK' /\ DataOK' BY <1>0, <1>8 DEF PointCloudProcess, FlagsOK, DataOK
  <2>6. ClocksOK' BY <1>0, <1>8 DEF PointCloudProcess, ClocksOK
  <2> QED BY <2>4, <2>5, <2>6
<1>9. CASE CheckTimerSync
  <2>1. FramesOK'
    <3>1. {raw_data.handle} \in SUBSET Handles
      BY <1>0, <1>9, RealPacket DEF DataOK, CheckTimerSync
    <3> QED BY <1>0, <1>9, <3>1, Publishes DEF CheckTimerSync, FramesOK
  <2>2. FlagsOK' /\ DataOK' BY <1>0, <1>9 DEF CheckTimerSync, FlagsOK, DataOK
  <2>3. ClocksOK' BY <1>0, <1>9 DEF CheckTimerSync, ClocksOK
  <2> QED BY <2>1, <2>2, <2>3
<1>10. CASE CheckTimerHost
  <2>1. FramesOK' BY <1>0, <1>10, Publishes DEF CheckTimerHost, FramesOK
  <2>2. FlagsOK' /\ DataOK' BY <1>0, <1>10 DEF CheckTimerHost, FlagsOK, DataOK
  <2>3. now' \in Nat /\ now <= now' BY <1>10, ReadsClock DEF CheckTimerHost
  <2>4. last_pub_time' \in Nat /\ last_pub_time' <= now'
    <3>1. PICK n \in Nat : n = now' BY <2>3
    <3>2. /\ publish_interval \in Nat /\ last_pub_time \in Nat /\ now \in Nat
          /\ last_pub_time <= now
      BY <1>0, Intervals DEF ClocksOK
    <3>3. \/ last_pub_time' = n
          \/ last_pub_time' = last_pub_time
          \/ /\ ~(n - last_pub_time < publish_interval)
             /\ last_pub_time' = last_pub_time + publish_interval
      BY <1>10, <3>1 DEF CheckTimerHost
    <3>4. CASE last_pub_time' = n BY <3>1, <3>4
    <3>5. CASE last_pub_time' = last_pub_time BY <2>3, <3>1, <3>2, <3>5
    <3>6. CASE /\ ~(n - last_pub_time < publish_interval)
               /\ last_pub_time' = last_pub_time + publish_interval
      <4>1. \A m, x, i \in Nat : ~(m - x < i) => x + i \in Nat /\ x + i <= m OBVIOUS
      <4>2. /\ last_pub_time + publish_interval \in Nat
            /\ last_pub_time + publish_interval <= n
        BY <3>1, <3>2, <3>6, <4>1
      <4> QED BY <3>1, <3>6, <4>2
    <3> QED BY <3>3, <3>4, <3>5, <3>6
  <2>5. ClocksOK' BY <1>0, <1>10, <2>3, <2>4 DEF CheckTimerHost, ClocksOK
  <2> QED BY <2>1, <2>2, <2>5
<1>11. CASE Uninit BY <1>0, <1>11 DEF Uninit, FlagsOK, DataOK, FramesOK, ClocksOK
<1>12. CASE UNCHANGED handlerVars BY <1>0, <1>12 DEF FlagsOK, DataOK, FramesOK, ClocksOK
<1> QED
  BY <1>1, <1>2, <1>3, <1>4, <1>6, <1>7, <1>8, <1>9, <1>10, <1>11, <1>12
  DEF HandlerNext, SdkThread, RawDataProcess

-------------------------------------------------------------------------------
(* Every point once.                                                       *)

\* The number of the last point of the first k packets in flight.
Sent(l, k) == Arranged(l) + Dots * PacketsOf(InFlight, l, k)

LEMMA OnceBySent ==
  EveryPointOnce <=>
    \A l \in Handles :
      /\ \A i \in DOMAIN points_clouds[l] : points_clouds[l][i].n = published[l] + i
      /\ \A i \in DOMAIN InFlight :
           InFlight[i].handle = l => InFlight[i].n = Sent(l, i - 1) + 1
      /\ received[l] = Sent(l, Len(InFlight))
  BY DEF EveryPointOnce, Sent

LEMMA CloudType ==
  ASSUME HandlerTypeOK, NEW l \in Handles
  PROVE  /\ points_clouds[l] \in Seq(Points) /\ Len(points_clouds[l]) \in Nat
         /\ DOMAIN points_clouds[l] = 1 .. Len(points_clouds[l])
         /\ published[l] \in Nat /\ received[l] \in Nat
         /\ Arranged(l) = published[l] + Len(points_clouds[l]) /\ Arranged(l) \in Nat
<1>1. points_clouds[l] \in Seq(Points) /\ published[l] \in Nat /\ received[l] \in Nat
  BY DEF HandlerTypeOK
<1>2. Len(points_clouds[l]) \in Nat /\ DOMAIN points_clouds[l] = 1 .. Len(points_clouds[l])
  BY <1>1, LenProperties
<1> QED BY <1>1, <1>2 DEF Arranged

\* Multiples of Dots.
LEMMA Times ==
  ASSUME NEW c \in Nat
  PROVE  /\ Dots * c \in Nat /\ Dots * 0 = 0 /\ Dots * (c + 1) = Dots * c + Dots
         /\ \A d \in 0 .. c : Dots * d <= Dots * c
<1> USE Intervals
<1>1. Dots * c \in Nat /\ Dots * 0 = 0 /\ Dots * (c + 1) = Dots * c + Dots OBVIOUS
<1>2. ASSUME NEW d \in 0 .. c PROVE Dots * d <= Dots * c
  <2>1. Dots * (c - d) >= 0 OBVIOUS
  <2> QED BY <2>1
<1> QED BY <1>1, <1>2

LEMMA SentNext ==
  ASSUME HandlerTypeOK, NEW l \in Handles, NEW k \in Nat
  PROVE  /\ Sent(l, k) \in Nat /\ Sent(l, 0) = Arranged(l)
         /\ \A j \in 0 .. k : Sent(l, j) <= Sent(l, k)
         /\ Sent(l, k + 1) = Sent(l, k) + IF InFlight[k + 1].handle = l THEN Dots ELSE 0
<1> DEFINE c(j) == PacketsOf(InFlight, l, j)
           d == Dots * c(k)
<1>1. /\ c(k) \in Nat /\ c(0) = 0 /\ \A j \in 0 .. k : c(j) \in 0 .. c(k)
      /\ c(k + 1) = IF InFlight[k + 1].handle = l THEN c(k) + 1 ELSE c(k)
  <2>1. c(k + 1) = IF InFlight[k + 1].handle = l THEN c(k) + 1 ELSE c(k) BY CountedNext
  <2>2. \A j \in 0 .. k : j \in Nat OBVIOUS
  <2> QED BY <2>1, <2>2, Counted
<1>2. /\ d \in Nat /\ Dots * c(0) = 0
      /\ \A j \in 0 .. k : Dots * c(j) <= d
      /\ Dots * c(k + 1) = d + IF InFlight[k + 1].handle = l THEN Dots ELSE 0
  <2> HIDE DEF c
  <2>1. \A j \in 0 .. k : Dots * c(j) <= d BY <1>1, Times
  <2>2. d \in Nat /\ Dots * c(0) = 0 BY <1>1, Times
  <2>3. Dots * c(k + 1) = d + IF InFlight[k + 1].handle = l THEN Dots ELSE 0
    <3>1. CASE InFlight[k + 1].handle = l BY <1>1, <3>1, Times
    <3>2. CASE InFlight[k + 1].handle # l
      <4>1. c(k + 1) = c(k) BY <1>1, <3>2
      <4>2. Dots * c(k + 1) = d BY <4>1
      <4> HIDE DEF d
      <4> QED BY <2>2, <3>2, <4>2
    <3> QED BY <3>1, <3>2
  <2> HIDE DEF d
  <2> QED BY <2>1, <2>2, <2>3
<1>3. \A j \in 0 .. k : Dots * c(j) \in Nat
  <2> HIDE DEF c
  <2>1. \A j \in 0 .. k : c(j) \in Nat BY <1>1
  <2> QED BY <2>1, Times
<1>4. Arranged(l) \in Nat /\ Dots \in Nat BY CloudType, Intervals
<1>5. \A j \in Nat : Sent(l, j) = Arranged(l) + Dots * c(j) BY DEF Sent
<1> HIDE DEF c, d
<1>6. Sent(l, k) = Arranged(l) + d BY <1>5 DEF d
<1>7. Sent(l, k) \in Nat BY <1>2, <1>4, <1>6
<1>8. Sent(l, 0) = Arranged(l) BY <1>2, <1>4, <1>5
<1>9. \A j \in 0 .. k : Sent(l, j) <= Sent(l, k) BY <1>2, <1>3, <1>4, <1>5, <1>6
<1>10. Sent(l, k + 1) = Sent(l, k) + IF InFlight[k + 1].handle = l THEN Dots ELSE 0
  BY <1>2, <1>4, <1>5, <1>6
<1> QED BY <1>7, <1>8, <1>9, <1>10

LEMMA FlightIndices ==
  ASSUME HandlerTypeOK
  PROVE  /\ Len(InFlight) \in Nat /\ DOMAIN InFlight = 1 .. Len(InFlight)
         /\ \A i \in DOMAIN InFlight :
              /\ InFlight[i] \in Packets /\ InFlight[i].handle \in Handles
              /\ InFlight[i].n \in Nat \ {0} /\ InFlight[i].time_stamp \in Nat
              /\ i \in Nat /\ i - 1 \in Nat
<1>1. InFlight \in Seq(Packets) BY FlightType
<1>2. Len(InFlight) \in Nat /\ DOMAIN InFlight = 1 .. Len(InFlight) BY <1>1, LenProperties
<1>3. \A i \in DOMAIN InFlight : InFlight[i] \in Packets BY <1>1, <1>2, ElementOfSeq
<1>4. \A i \in DOMAIN InFlight : i \in Nat /\ i - 1 \in Nat BY <1>2
<1> QED BY <1>2, <1>3, <1>4, RealPacket

\* A packet in flight is not beyond what has been received.
LEMMA NotBeyond ==
  ASSUME HandlerTypeOK, EveryPointOnce,
         NEW i \in DOMAIN InFlight, NEW l \in Handles, InFlight[i].handle = l
  PROVE  InFlight[i].n + Dots <= received[l] + 1
<1>1. i \in 1 .. Len(InFlight) /\ Len(InFlight) \in Nat /\ i - 1 \in Nat BY FlightIndices
<1>2. InFlight[i].n = Sent(l, i - 1) + 1 /\ received[l] = Sent(l, Len(InFlight))
  BY OnceBySent
<1>3. PICK k \in Nat : k = i - 1 /\ k + 1 = i BY <1>1
<1>4. Sent(l, i) = Sent(l, k) + Dots /\ Sent(l, k) \in Nat BY <1>3, SentNext
<1>5. Sent(l, i) <= Sent(l, Len(InFlight)) /\ Sent(l, Len(InFlight)) \in Nat
  BY <1>1, SentNext
<1>6. InFlight[i].n = Sent(l, k) + 1 BY <1>2, <1>3
<1> QED BY <1>2, <1>4, <1>5, <1>6, Intervals

\* Steps that leave the packets in flight alone.
LEMMA QuietOnce ==
  ASSUME EveryPointOnce, InFlight' = InFlight, received' = received,
         \A l \in Handles : Arranged(l)' = Arranged(l),
         \A l \in Handles : \A i \in DOMAIN points_clouds'[l] :
           points_clouds'[l][i].n = published'[l] + i
  PROVE  EveryPointOnce'
  BY DEF EveryPointOnce

LEMMA CountedAppend ==
  ASSUME NEW s \in Seq(Packets), NEW x \in Packets, NEW l
  PROVE  /\ Append(s, x) \in Seq(Packets) /\ Len(Append(s, x)) = Len(s) + 1
         /\ \A i \in 1 .. Len(s) : Append(s, x)[i] = s[i]
         /\ Append(s, x)[Len(s) + 1] = x
         /\ \A k \in 0 .. Len(s) : PacketsOf(Append(s, x), l, k) = PacketsOf(s, l, k)
         /\ PacketsOf(Append(s, x), l, Len(s) + 1) =
              IF x.handle = l THEN PacketsOf(s, l, Len(s)) + 1 ELSE PacketsOf(s, l, Len(s))
<1> DEFINE t == Append(s, x)
           n == Len(s)
<1>1. /\ t \in Seq(Packets) /\ n \in Nat /\ Len(t) = n + 1
      /\ \A i \in 1 .. n : t[i] = s[i]
      /\ t[n + 1] = x
  OBVIOUS
<1> HIDE DEF t, n
<1>2. \A k \in 0 .. n : PacketsOf(t, l, k) = PacketsOf(s, l, k)
  <2> TAKE k \in 0 .. n
  <2>1. k \in Nat /\ \A i \in 1 .. k : t[i] = s[i] BY <1>1
  <2> QED BY <2>1, CountedPrefix
<1>3. n \in 0 .. n BY <1>1
<1>4. n \in Nat BY <1>1
<1>5. PacketsOf(t, l, n + 1) =
        IF t[n + 1].handle = l THEN PacketsOf(t, l, n) + 1 ELSE PacketsOf(t, l, n)
  BY <1>4, CountedNext
<1>6. PacketsOf(t, l, n + 1) =
        IF x.handle = l THEN PacketsOf(s, l, n) + 1 ELSE PacketsOf(s, l, n)
  BY <1>1, <1>2, <1>3, <1>5
<1> QED BY <1>1, <1>2, <1>6 DEF t, n

LEMMA ArriveOnce ==
  ASSUME HandlerTypeOK, HandlerTypeOK', EveryPointOnce,
         NEW l \in Handles, NEW time_type, NEW gap, PacketArrives(l, time_type, gap)
  PROVE  EveryPointOnce'
<1> DEFINE x == [handle |-> l, n |-> received[l] + 1, time_stamp |-> cb'.time_stamp]
           s == InFlight
           n == Len(s)
<1>1. /\ cb = NoPacket /\ cb' = x /\ received' = [received EXCEPT ![l] = @ + Dots]
      /\ UNCHANGED <<pc, raw_data, raw_packet_queue, points_clouds, published>>
  BY DEF PacketArrives, threadVars
<1>2. /\ cb' \in Packets /\ cb' # NoPacket /\ x.handle = l /\ x.n = received[l] + 1
  <2>1. received[l] \in Nat BY CloudType
  <2>2. x # NoPacket BY <2>1 DEF NoPacket
  <2> QED BY <1>1, <2>2 DEF HandlerTypeOK
<1>3. InFlight' = Append(s, x) BY <1>1, <1>2, ArriveFlight
<1>4. s \in Seq(Packets) /\ x \in Packets /\ n \in Nat
  BY <1>1, <1>2, FlightIndices, FlightType
<1> HIDE DEF s, x, n
<1>5. PICK t : t = Append(s, x) OBVIOUS
<1>6. PICK r \in [Handles -> Nat] : r = received' BY DEF HandlerTypeOK
<1>7. /\ t \in Seq(Packets) /\ Len(t) = n + 1 /\ t[n + 1] = x
      /\ \A i \in 1 .. n : t[i] = s[i]
      /\ DOMAIN t = 1 .. n + 1
  <2>1. /\ t \in Seq(Packets) /\ Len(t) = n + 1 /\ t[n + 1] = x
        /\ \A i \in 1 .. n : t[i] = s[i]
    BY <1>4, <1>5, CountedAppend DEF n
  <2> QED BY <2>1, LenProperties
<1>8. ASSUME NEW m \in Handles
      PROVE  /\ \A i \in DOMAIN points_clouds[m] : points_clouds[m][i].n = published[m] + i
             /\ \A i \in DOMAIN t : t[i].handle = m =>
                  t[i].n = Arranged(m) + Dots * PacketsOf(t, m, i - 1) + 1
             /\ r[m] = Arranged(m) + Dots * PacketsOf(t, m, n + 1)
  <2>1. /\ \A i \in 1 .. n : s[i].handle = m =>
             s[i].n = Arranged(m) + Dots * PacketsOf(s, m, i - 1) + 1
        /\ received[m] = Arranged(m) + Dots * PacketsOf(s, m, n)
        /\ \A i \in DOMAIN points_clouds[m] : points_clouds[m][i].n = published[m] + i
    BY FlightIndices DEF EveryPointOnce, s, n
  <2>2. /\ \A k \in 0 .. n : PacketsOf(t, m, k) = PacketsOf(s, m, k)
        /\ PacketsOf(t, m, n + 1) =
             IF l = m THEN PacketsOf(s, m, n) + 1 ELSE PacketsOf(s, m, n)
    BY <1>2, <1>4, <1>5, CountedAppend DEF n
  <2>3. PacketsOf(s, m, n) \in Nat BY <1>4, Counted
  <2>4. ASSUME NEW i \in DOMAIN t, t[i].handle = m
        PROVE  t[i].n = Arranged(m) + Dots * PacketsOf(t, m, i - 1) + 1
    <3>1. i \in 1 .. n + 1 BY <1>7
    <3>2. CASE i \in 1 .. n
      <4>1. PacketsOf(t, m, i - 1) = PacketsOf(s, m, i - 1) BY <1>4, <2>2, <3>2
      <4> QED BY <1>7, <2>1, <2>4, <3>2, <4>1
    <3>3. CASE i = n + 1
      <4>1. t[i] = x /\ m = l BY <1>2, <1>7, <2>4, <3>3
      <4>2. n \in 0 .. n /\ i - 1 = n BY <1>4, <3>3
      <4>3. PacketsOf(t, m, i - 1) = PacketsOf(s, m, n) BY <2>2, <4>2
      <4> QED BY <1>2, <2>1, <4>1, <4>3
    <3> QED BY <1>4, <3>1, <3>2, <3>3
  <2>5. r[m] = Arranged(m) + Dots * PacketsOf(t, m, n + 1)
    <3>1. r[m] = received[m] + IF l = m THEN Dots ELSE 0
      <4>1. r = [received EXCEPT ![l] = @ + Dots] BY <1>1, <1>6
      <4>2. received \in [Handles -> Nat] BY DEF HandlerTypeOK
      <4> QED BY <4>1, <4>2, Intervals
    <3>2. PICK c \in Nat : c = PacketsOf(s, m, n) BY <2>3
    <3>3. Dots * c \in Nat /\ Dots * (c + 1) = Dots * c + Dots BY Times
    <3>4. Arranged(m) \in Nat BY CloudType
    <3>5. received[m] = Arranged(m) + Dots * c BY <2>1, <3>2
    <3>6. CASE l = m
      <4>1. PacketsOf(t, m, n + 1) = c + 1 BY <2>2, <3>2, <3>6
      <4> QED BY <3>1, <3>3, <3>4, <3>5, <3>6, <4>1, Intervals
    <3>7. CASE l # m
      <4>1. PacketsOf(t, m, n + 1) = c BY <2>2, <3>2, <3>7
      <4> QED BY <3>1, <3>3, <3>4, <3>5, <3>7, <4>1
    <3> QED BY <3>6, <3>7
  <2> QED BY <2>1, <2>4, <2>5
<1>9. \A m \in Handles : Arranged(m)' = Arranged(m) BY <1>1 DEF Arranged
<1>10. InFlight' = t /\ received' = r /\ Len(t) = n + 1 BY <1>3, <1>5, <1>6, <1>7
<1> QED BY <1>1, <1>8, <1>9, <1>10 DEF EveryPointOnce

LEMMA ProcessOnce ==
  ASSUME HandlerTypeOK, HandlerTypeOK', EveryPointOnce, PointCloudProcess
  PROVE  /\ EveryPointOnce'
         /\ raw_data \in Packets /\ raw_data.n = Arranged(raw_data.handle) + 1
         /\ \A l \in Handles :
              Arranged(l)' = Arranged(l) + IF l = raw_data.handle THEN Dots ELSE 0
<1> DEFINE s == InFlight
           h == raw_data.handle
           p == PointsOf(raw_data)
<1>1. raw_data \in Packets /\ h \in Handles
  BY RealPacket DEF HandlerTypeOK, PointCloudProcess
<1>2. /\ points_clouds' = [points_clouds EXCEPT ![h] = points_clouds[h] \o p]
      /\ published' = published /\ received' = received
  BY DEF PointCloudProcess, lidarVars
<1>3. /\ p \in Seq(Points) /\ Len(p) = Dots
      /\ \A i \in 1 .. Dots : p[i].n = raw_data.n + i - 1
  BY <1>1, PointsOfPacket
<1>4. PICK t \in Seq(Packets) : t = InFlight' BY ProcessFlight
<1>5. /\ s # <<>> /\ s[1] = raw_data /\ Len(s) = Len(t) + 1
      /\ \A i \in 1 .. Len(t) : t[i] = s[i + 1]
  BY <1>4, ProcessFlight
<1> DEFINE n == Len(t)
<1>6. n \in Nat /\ DOMAIN t = 1 .. n /\ DOMAIN s = 1 .. n + 1
  BY <1>4, <1>5, LenProperties, FlightIndices
<1> HIDE DEF s, h, p, n
<1>7. \A l \in Handles :
        /\ \A i \in DOMAIN points_clouds[l] : points_clouds[l][i].n = published[l] + i
        /\ \A i \in 1 .. n + 1 :
             s[i].handle = l => s[i].n = Arranged(l) + Dots * PacketsOf(s, l, i - 1) + 1
        /\ received[l] = Arranged(l) + Dots * PacketsOf(s, l, n + 1)
  BY <1>5, <1>6 DEF EveryPointOnce, s, n
<1>8. raw_data.n = Arranged(h) + 1
  <2>1. s[1].handle = h BY <1>5 DEF h
  <2>2. s[1].n = Arranged(h) + Dots * PacketsOf(s, h, 1 - 1) + 1 BY <1>1, <1>6, <1>7, <2>1
  <2>3. PacketsOf(s, h, 1 - 1) = 0 BY Counted
  <2>4. Dots * 0 = 0 /\ Arranged(h) \in Nat BY <1>1, Intervals, CloudType
  <2> QED BY <1>5, <2>2, <2>3, <2>4
<1>9. /\ points_clouds[h] \in Seq(Points) /\ Len(points_clouds[h]) \in Nat
      /\ Arranged(h) = published[h] + Len(points_clouds[h]) /\ published[h] \in Nat
  BY <1>1, CloudType
<1>10. PICK c : c = points_clouds[h] \o p OBVIOUS
<1>11. /\ c \in Seq(Points) /\ Len(c) = Len(points_clouds[h]) + Dots
       /\ \A i \in 1 .. Len(points_clouds[h]) + Dots :
            c[i] = IF i <= Len(points_clouds[h]) THEN points_clouds[h][i]
                   ELSE p[i - Len(points_clouds[h])]
  <2> DEFINE q == points_clouds[h]
  <2>1. q \in Seq(Points) BY <1>9
  <2> HIDE DEF q
  <2>2. /\ q \o p \in Seq(Points) /\ Len(q \o p) = Len(q) + Len(p)
        /\ \A i \in 1 .. Len(q) + Len(p) :
             (q \o p)[i] = IF i <= Len(q) THEN q[i] ELSE p[i - Len(q)]
    BY <1>3, <2>1, ConcatProperties
  <2>3. c = q \o p BY <1>10 DEF q
  <2>4. /\ c \in Seq(Points) /\ Len(c) = Len(q) + Dots
        /\ \A i \in 1 .. Len(q) + Dots :
             c[i] = IF i <= Len(q) THEN q[i] ELSE p[i - Len(q)]
    BY <1>3, <2>2, <2>3, Zenon
  <2> QED BY <2>4 DEF q
<1>12. ASSUME NEW l \in Handles
       PROVE  /\ points_clouds'[l] = IF l = h THEN c ELSE points_clouds[l]
              /\ Arranged(l)' = Arranged(l) + IF l = h THEN Dots ELSE 0
  <2>1. points_clouds \in [Handles -> Seq(Points)] BY DEF HandlerTypeOK
  <2>2. points_clouds'[l] = IF l = h THEN c ELSE points_clouds[l] BY <1>2, <1>10, <2>1
  <2>3. Arranged(l)' = published[l] + Len(points_clouds'[l]) BY <1>2 DEF Arranged
  <2>4. Arranged(l) \in Nat /\ Arranged(l) = published[l] + Len(points_clouds[l])
    BY CloudType
  <2>5. CASE l = h
    <3>1. Arranged(l)' = published[h] + (Len(points_clouds[h]) + Dots)
      BY <1>11, <2>2, <2>3, <2>5
    <3>2. \A a, b, d \in Nat : a + (b + d) = (a + b) + d OBVIOUS
    <3> QED BY <1>9, <2>2, <2>5, <3>1, <3>2, Intervals
  <2>6. CASE l # h BY <2>2, <2>3, <2>4, <2>6
  <2> QED BY <2>5, <2>6
<1>13. PICK a \in [Handles -> Nat] :
         \A l \in Handles : a[l] = Arranged(l) + IF l = h THEN Dots ELSE 0
  <2> DEFINE f == [l \in Handles |-> Arranged(l) + IF l = h THEN Dots ELSE 0]
  <2>1. f \in [Handles -> Nat] BY CloudType, Intervals
  <2> QED BY <2>1
<1>14. ASSUME NEW l \in Handles
       PROVE  /\ \A i \in 1 .. n : t[i].handle = l =>
                   t[i].n = a[l] + Dots * PacketsOf(t, l, i - 1) + 1
              /\ received[l] = a[l] + Dots * PacketsOf(t, l, n)
  <2>1. ASSUME NEW k \in 0 .. n
        PROVE  Arranged(l) + Dots * PacketsOf(s, l, k + 1)
                 = a[l] + Dots * PacketsOf(t, l, k)
    <3>1. k \in Nat /\ \A i \in 1 .. k : t[i] = s[i + 1] BY <1>5, <1>6 DEF n
    <3>2. PacketsOf(s, l, k + 1) = PacketsOf(t, l, k) + IF s[1].handle = l THEN 1 ELSE 0
      BY <3>1, CountedTail
    <3>3. s[1].handle = h BY <1>5 DEF h
    <3>4. PICK d \in Nat : d = PacketsOf(t, l, k) BY <3>1, Counted
    <3>5. Dots * d \in Nat /\ Dots * (d + 1) = Dots * d + Dots BY Times
    <3>6. Arranged(l) \in Nat /\ Dots \in Nat BY CloudType, Intervals
    <3>7. CASE h = l
      <4>1. PacketsOf(s, l, k + 1) = d + 1 /\ a[l] = Arranged(l) + Dots
        BY <1>13, <3>2, <3>3, <3>4, <3>7
      <4> QED BY <3>4, <3>5, <3>6, <4>1
    <3>8. CASE h # l
      <4>1. PacketsOf(s, l, k + 1) = d /\ a[l] = Arranged(l)
        BY <1>13, <3>2, <3>3, <3>4, <3>6, <3>8
      <4> QED BY <3>4, <4>1
    <3> QED BY <3>7, <3>8
  <2>2. ASSUME NEW i \in 1 .. n, t[i].handle = l
        PROVE  t[i].n = a[l] + Dots * PacketsOf(t, l, i - 1) + 1
    <3>1. PICK k \in 0 .. n : k = i - 1 /\ k + 1 = i BY <1>6
    <3>2. i + 1 \in 1 .. n + 1 /\ i + 1 - 1 = i /\ t[i] = s[i + 1] BY <1>5, <1>6 DEF n
    <3>3. t[i].n = Arranged(l) + Dots * PacketsOf(s, l, i) + 1
      BY <1>7, <2>2, <3>2
    <3> QED BY <2>1, <3>1, <3>3
  <2>3. n \in 0 .. n BY <1>6
  <2> QED BY <1>7, <2>1, <2>2, <2>3
<1>15. ASSUME NEW l \in Handles, NEW i \in DOMAIN points_clouds'[l]
       PROVE  points_clouds'[l][i].n = published[l] + i
  <2>1. CASE l = h
    <3>1. points_clouds'[l] = c BY <1>12, <2>1
    <3> DEFINE m == Len(points_clouds[h])
    <3>2. i \in 1 .. m + Dots /\ m \in Nat BY <1>9, <1>11, <3>1, LenProperties
    <3>3. CASE i <= m
      <4>1. i \in DOMAIN points_clouds[h] BY <1>9, <3>2, <3>3, LenProperties
      <4> QED BY <1>1, <1>7, <1>11, <2>1, <3>1, <3>2, <3>3, <4>1
    <3>4. CASE i > m
      <4>1. i - m \in 1 .. Dots BY <3>2, <3>4, Intervals
      <4>2. c[i] = p[i - m] BY <1>11, <3>2, <3>4
      <4> HIDE DEF m
      <4>4. c[i].n = raw_data.n + (i - m) - 1 BY <1>3, <4>1, <4>2
      <4>3. raw_data.n = published[h] + m + 1 BY <1>8, <1>9 DEF m
      <4> QED BY <1>9, <2>1, <3>1, <3>2, <4>3, <4>4
    <3> QED BY <3>2, <3>3, <3>4
  <2>2. CASE l # h BY <1>7, <1>12, <2>2
  <2> QED BY <2>1, <2>2
<1>16. EveryPointOnce'
  <2>1. \A l \in Handles : Arranged(l)' = a[l] BY <1>12, <1>13
  <2>2. InFlight' = t /\ DOMAIN t = 1 .. n /\ Len(t) = n BY <1>4, <1>6 DEF n
  <2> QED BY <1>2, <1>14, <1>15, <2>1, <2>2 DEF EveryPointOnce
<1> QED BY <1>1, <1>8, <1>12, <1>16 DEF h

LEMMA PublishedFrame ==
  ASSUME HandlerTypeOK, NEW lidars \in SUBSET Handles, PublishPointCloud(lidars),
         NEW l \in Handles
  PROVE  /\ Arranged(l)' = Arranged(l)
         /\ points_clouds'[l] = IF l \in lidars THEN <<>> ELSE points_clouds[l]
         /\ published'[l] = IF l \in lidars THEN Arranged(l) ELSE published[l]
         /\ last_frame'[l] = IF l \in lidars /\ points_clouds[l] # <<>>
                               THEN GetRecentTimeStamp(l) ELSE last_frame[l]
<1>1. /\ points_clouds'[l] = IF l \in lidars THEN <<>> ELSE points_clouds[l]
      /\ published'[l] = IF l \in lidars THEN Arranged(l) ELSE published[l]
      /\ last_frame'[l] = IF l \in lidars /\ points_clouds[l] # <<>>
                            THEN GetRecentTimeStamp(l) ELSE last_frame[l]
  BY DEF PublishPointCloud, Arranged
<1>2. Arranged(l)' = published'[l] + Len(points_clouds'[l]) BY DEF Arranged
<1>3. Arranged(l) \in Nat /\ Arranged(l) = published[l] + Len(points_clouds[l])
  BY CloudType
<1>4. CASE l \in lidars
  <2>1. published'[l] = Arranged(l) /\ Len(points_clouds'[l]) = 0 BY <1>1, <1>4
  <2>2. \A a \in Nat : a + 0 = a OBVIOUS
  <2> QED BY <1>1, <1>2, <1>3, <2>1, <2>2
<1>5. CASE l \notin lidars BY <1>1, <1>2, <1>3, <1>5
<1> QED BY <1>4, <1>5

LEMMA PublishedOnce ==
  ASSUME HandlerTypeOK, EveryPointOnce, NEW lidars \in SUBSET Handles,
         PublishPointCloud(lidars), InFlight' = InFlight, received' = received
  PROVE  EveryPointOnce'
<1>1. \A l \in Handles : Arranged(l)' = Arranged(l) BY PublishedFrame
<1>2. ASSUME NEW l \in Handles, NEW i \in DOMAIN points_clouds'[l]
      PROVE  points_clouds'[l][i].n = published'[l] + i
  <2>1. l \notin lidars
    <3>1. SUFFICES ASSUME l \in lidars PROVE FALSE OBVIOUS
    <3>2. points_clouds'[l] = <<>> BY <3>1, PublishedFrame
    <3> QED BY <1>2, <3>2
  <2>2. points_clouds'[l] = points_clouds[l] /\ published'[l] = published[l]
    BY <2>1, PublishedFrame
  <2> QED BY <1>2, <2>2 DEF EveryPointOnce
<1> QED BY <1>1, <1>2, QuietOnce

\* Steps of the thread that only look: nothing moves between its places.
LEMMA SameOnce ==
  ASSUME HandlerTypeOK, EveryPointOnce,
         UNCHANGED <<points_clouds, published, received>>, InFlight' = InFlight
  PROVE  EveryPointOnce'
<1>1. \A l \in Handles : Arranged(l)' = Arranged(l) BY DEF Arranged
<1> QED BY <1>1, QuietOnce DEF EveryPointOnce

\* The steps that leave the packets in flight alone.
LEMMA SameFlight ==
  ASSUME HandlerTypeOK,
         \/ PushPacket \/ TestQuit \/ WaitForPacket \/ Wake \/ CheckTimerSync
         \/ CheckTimerHost \/ Uninit \/ UNCHANGED handlerVars
         \/ \E l, time_type : ImuArrives(l, time_type)
  PROVE  InFlight' = InFlight
<1> USE DEF handlerVars, clockVars, lidarVars, threadVars
<1>1. CASE PushPacket BY <1>1, PushFlight
<1>2. ASSUME TakePacket, pc # "process" PROVE InFlight' = InFlight BY <1>2, TakeFlight
<1>3. ASSUME UNCHANGED <<raw_packet_queue, cb, raw_data>>,
             pc = "process" <=> pc' = "process"
      PROVE  InFlight' = InFlight
  BY <1>3 DEF InFlight
<1>4. CASE TestQuit BY <1>3, <1>4 DEF TestQuit
<1>5. CASE WaitForPacket BY <1>2, <1>3, <1>5 DEF WaitForPacket
<1>6. CASE Wake BY <1>2, <1>3, <1>6 DEF Wake
<1>7. CASE CheckTimerSync BY <1>3, <1>7 DEF CheckTimerSync
<1>8. CASE CheckTimerHost BY <1>3, <1>8 DEF CheckTimerHost
<1>9. CASE Uninit BY <1>3, <1>9 DEF Uninit
<1>10. CASE UNCHANGED handlerVars BY <1>3, <1>10
<1>11. CASE \E l, time_type : ImuArrives(l, time_type) BY <1>3, <1>11 DEF ImuArrives
<1> QED
  BY <1>1, <1>4, <1>5, <1>6, <1>7, <1>8, <1>9, <1>10, <1>11

LEMMA OnceInit == HandlerInit => EveryPointOnce
<1> SUFFICES ASSUME HandlerInit PROVE EveryPointOnce OBVIOUS
<1>1. InFlight = <<>> BY DEF HandlerInit, InFlight
<1>2. ASSUME NEW l \in Handles
      PROVE  points_clouds[l] = <<>> /\ received[l] = 0 /\ Sent(l, 0) = 0
  <2>1. points_clouds[l] = <<>> /\ received[l] = 0 /\ published[l] = 0
    BY DEF HandlerInit
  <2>2. HandlerTypeOK BY HandlerTypeInit
  <2>3. Sent(l, 0) = Arranged(l) BY <2>2, SentNext
  <2>4. Arranged(l) = 0 BY <2>1 DEF Arranged
  <2> QED BY <2>1, <2>3, <2>4
<1> QED BY <1>1, <1>2, OnceBySent

LEMMA OnceNext ==
  ASSUME HandlerTypeOK, EveryPointOnce, [HandlerNext]_handlerVars
  PROVE  EveryPointOnce'
<1> USE DEF clockVars, lidarVars, threadVars
<1>0. HandlerTypeOK' BY HandlerTypeNext
<1>1. CASE \E l \in Handles : \E time_type \in TimeTypes[l] : \E gap \in Gaps :
             PacketArrives(l, time_type, gap)
  BY <1>0, <1>1, ArriveOnce
<1>2. CASE \E l \in Handles : \E time_type \in TimeTypes[l] : ImuArrives(l, time_type)
  <2>1. InFlight' = InFlight BY <1>2, SameFlight
  <2> QED BY <1>2, <2>1, SameOnce DEF ImuArrives
<1>3. CASE PushPacket BY <1>3, SameOnce, SameFlight DEF PushPacket
<1>4. CASE TestQuit BY <1>4, SameOnce, SameFlight DEF TestQuit
<1>5. CASE WaitForPacket BY <1>5, SameOnce, SameFlight DEF WaitForPacket, TakePacket
<1>6. CASE Wake BY <1>6, SameOnce, SameFlight DEF Wake, TakePacket
<1>7. CASE PointCloudProcess BY <1>0, <1>7, ProcessOnce
<1>8. CASE CheckTimerSync
  <2>1. InFlight' = InFlight BY <1>8, SameFlight
  <2>2. {raw_data.handle} \in SUBSET Handles
    BY <1>8, RealPacket DEF HandlerTypeOK, CheckTimerSync
  <2>3. received' = received BY <1>8 DEF CheckTimerSync
  <2>4. CASE PublishPointCloud({raw_data.handle}) BY <2>1, <2>2, <2>3, <2>4, PublishedOnce
  <2>5. CASE UNCHANGED <<points_clouds, published>> BY <2>1, <2>3, <2>5, SameOnce
  <2> QED BY <1>8, <2>4, <2>5 DEF CheckTimerSync
<1>9. CASE CheckTimerHost
  <2>1. InFlight' = InFlight BY <1>9, SameFlight
  <2>2. received' = received BY <1>9 DEF CheckTimerHost
  <2>3. CASE PublishPointCloud(Handles) BY <2>1, <2>2, <2>3, PublishedOnce
  <2>4. CASE UNCHANGED <<points_clouds, published>> BY <2>1, <2>2, <2>4, SameOnce
  <2> QED BY <1>9, <2>3, <2>4 DEF CheckTimerHost
<1>10. CASE Uninit BY <1>10, SameOnce, SameFlight DEF Uninit
<1>11. CASE UNCHANGED handlerVars BY <1>11, SameOnce, SameFlight DEF handlerVars
<1> QED
  BY <1>1, <1>2, <1>3, <1>4, <1>5, <1>6, <1>7, <1>8, <1>9, <1>10, <1>11
  DEF HandlerNext, SdkThread, RawDataProcess

-------------------------------------------------------------------------------
(* One frame per interval.                                                 *)

\* A packet's stamp, after that lidar's last point, if there is one.
InTime(t, stamp) == t # -1 => t <= stamp /\ ~Late(stamp - t)

\* The time of the last point that is published or in the lidar's frame.
Recent(l) == IF points_clouds[l] = <<>> THEN last_frame[l] ELSE GetRecentTimeStamp(l)

\* While lidars are steady, the flag is set as soon as there is a packet.
SyncInv ==
  steady /\ ~is_timestamp_sync =>
    pc \notin {"process", "check"} /\ raw_packet_queue = <<>> /\ cb = NoPacket

\* The packets of a lidar are in time, each after the one before.
Timed(l) ==
  /\ \A i, j \in DOMAIN InFlight :
       InFlight[i].handle = l /\ InFlight[j].handle = l
         /\ InFlight[j].n = InFlight[i].n + Dots =>
           InTime(InFlight[i].time_stamp + Span, InFlight[j].time_stamp)
  /\ \A i \in DOMAIN InFlight :
       InFlight[i].handle = l =>
         /\ InFlight[i].n = Arranged(l) + 1 => InTime(Recent(l), InFlight[i].time_stamp)
         /\ InFlight[i].n + Dots = received[l] + 1 =>
              InFlight[i].time_stamp + Span = lidar_clock[l]
  /\ Arranged(l) = received[l] => Recent(l) \in {-1, lidar_clock[l]}
ClockInv == steady => \A l \in Handles : Timed(l)

\* Where the points of the frame are that follows one that ended in the k-th interval:
\* before the next, or in its first millisecond, but not yet far enough from the first
\* point to end the frame.
Growing(b, r, k) ==
  \/ r < (k + 1) * publish_interval
  \/ r < (k + 1) * publish_interval + Ms /\ r - b < publish_interval_tolerance
FollowsFrame(l, k) ==
  /\ InFirstMs(last_frame[l], k)
  /\ points_clouds[l] # <<>> =>
       /\ InTime(last_frame[l], GetLidarBaseTime(l))
       /\ GetLidarBaseTime(l) <= GetRecentTimeStamp(l)
       /\ IF pc = "check" /\ raw_data.handle = l
            THEN GetRecentTimeStamp(l) < (k + 1) * publish_interval + Ms
            ELSE Growing(GetLidarBaseTime(l), GetRecentTimeStamp(l), k)
FrameInv ==
  steady => \A l \in Handles :
    last_frame[l] # -1 => \E k \in Nat : FollowsFrame(l, k)

HandlerInv == HandlerTypeOK /\ EveryPointOnce /\ SyncInv /\ ClockInv /\ FrameInv

\* The last point of a packet in time.
LEMMA LastPoint ==
  ASSUME NEW t \in Nat, NEW stamp \in Nat, InTime(t, stamp)
  PROVE  /\ t + Span <= stamp + Span /\ stamp + Span <= t + Ms
         /\ 2 * (stamp + Span) <= 2 * t + Ms + 1 + Span
         /\ stamp + Span \in Nat
<1>1. t <= stamp /\ ~(stamp - t + Span > Ms)
      /\ ~(2 * (stamp - t + Span) > Ms + 1 + Span)
  BY DEF InTime, Late
<1>2. \A d, sp, m \in Nat : t <= stamp /\ d = stamp - t /\ ~(d + sp > m)
        /\ ~(2 * (d + sp) > m + 1 + sp) =>
          /\ t + sp <= stamp + sp /\ stamp + sp <= t + m
          /\ 2 * (stamp + sp) <= 2 * t + m + 1 + sp
          /\ stamp + sp \in Nat
  OBVIOUS
<1>3. PICK d \in Nat : d = stamp - t BY <1>1
<1> QED BY <1>1, <1>2, <1>3, Intervals

\* A packet in time does not jump over the first millisecond in which its frame ends:
\* where the rate, the tolerance and the millisecond fit together.
LEMMA NotJumpedOver ==
  ASSUME NEW e \in Nat, NEW k \in Nat, InFirstMs(e, k),
         NEW b \in Nat, NEW r \in Nat, InTime(e, b), b <= r, Growing(b, r, k),
         NEW stamp \in Nat, InTime(r, stamp)
  PROVE  stamp + Span < (k + 1) * publish_interval + Ms
<1>1. PICK p \in Nat, a \in Nat, sp \in Nat, x \in Nat :
        /\ p = publish_interval /\ a = k * publish_interval /\ sp = Span
        /\ x = stamp + Span /\ (k + 1) * publish_interval = a + p
        /\ publish_interval_tolerance = p - Ms
  BY Intervals, NextInterval
<1>2. Ms \in Nat BY Intervals
<1>3. a <= e /\ e < a + Ms BY <1>1 DEF InFirstMs
<1>4. 2 * (b + sp) <= 2 * e + Ms + 1 + sp BY <1>1, LastPoint
<1>5. x <= r + Ms /\ 2 * x <= 2 * r + Ms + 1 + sp BY <1>1, LastPoint
<1>6. r < a + p \/ (r < a + p + Ms /\ r - b < p - Ms) BY <1>1 DEF Growing
<1>7. x < a + p + Ms
  <2>1. CASE r < a + p BY <1>1, <1>2, <1>5, <2>1
  <2>2. CASE r < a + p + Ms /\ r - b < p - Ms BY <1>1, <1>2, <1>3, <1>4, <1>5, <2>2
  <2> QED BY <1>6, <2>1, <2>2
<1> QED BY <1>1, <1>7

\* What CheckTimer finds when the frame has reached the next interval at most.
LEMMA FrameIsChecked ==
  ASSUME NEW e \in Nat, NEW k \in Nat, InFirstMs(e, k),
         NEW b \in Nat, NEW r \in Nat, InTime(e, b), b <= r,
         r < (k + 1) * publish_interval + Ms
  PROVE  /\ (r \div Ms) % publish_interval_ms = 0 /\ r - b >= publish_interval_tolerance
              => InFirstMs(r, k + 1)
         /\ ~(/\ (r \div Ms) % publish_interval_ms = 0 /\ r \div Ms # 0
              /\ r - b >= publish_interval_tolerance)
              => Growing(b, r, k)
<1>1. PICK p \in Nat, a \in Nat, m \in Nat :
        /\ p = publish_interval /\ a = k * publish_interval /\ m = Ms
        /\ (k + 1) * publish_interval = a + p /\ 2 * m <= p
        /\ publish_interval_tolerance = p - m
  BY Intervals, NextInterval
<1>2. a <= e /\ e < a + m BY <1>1 DEF InFirstMs
<1>3. e <= b BY DEF InTime
<1>4. ASSUME (r \div Ms) % publish_interval_ms = 0, r - b >= publish_interval_tolerance
      PROVE  InFirstMs(r, k + 1)
  <2>1. PICK q \in Nat : InFirstMs(r, q) BY <1>4, FirstMsIsTested
  <2>2. PICK c : c = q * publish_interval OBVIOUS
  <2>3. c \in Nat /\ c <= r /\ r < c + m
    BY <1>1, <2>1, <2>2, NextInterval DEF InFirstMs
  <2>4. q < k => c <= a - p BY <1>1, <2>2, NextInterval
  <2>5. q > k + 1 => c >= a + 2 * p BY <1>1, <2>2, NextInterval
  <2>6. r - b >= p - m /\ r < a + p + m BY <1>1, <1>4
  <2>7. ~(q < k) BY <1>1, <1>2, <1>3, <2>3, <2>4
  <2>8. ~(q > k + 1) BY <1>1, <2>3, <2>5, <2>6
  <2>9. q # k
    <3>1. SUFFICES ASSUME q = k PROVE FALSE OBVIOUS
    <3>2. c = a BY <1>1, <2>2, <3>1
    <3> QED BY <1>1, <1>2, <1>3, <2>3, <2>6, <3>2
  <2>10. q = k + 1 BY <2>7, <2>8, <2>9
  <2> QED BY <2>1, <2>10
<1>5. ASSUME ~(/\ (r \div Ms) % publish_interval_ms = 0 /\ r \div Ms # 0
               /\ r - b >= publish_interval_tolerance)
      PROVE  Growing(b, r, k)
  <2>1. SUFFICES ASSUME ~(r < (k + 1) * publish_interval)
                 PROVE  r - b < publish_interval_tolerance
    BY DEF Growing
  <2>2. InFirstMs(r, k + 1) BY <1>1, <2>1 DEF InFirstMs
  <2>3. (r \div Ms) % publish_interval_ms = 0 /\ r \div Ms # 0
    <3>1. k + 1 \in Nat /\ k + 1 # 0 OBVIOUS
    <3> QED BY <2>2, <3>1, FirstMsIsTested
  <2>4. ~(r - b >= p - m) BY <1>1, <1>5, <2>3
  <2> QED BY <1>1, <2>4
<1> QED BY <1>4, <1>5

LEMMA FrameTimes ==
  ASSUME HandlerTypeOK, NEW l \in Handles, points_clouds[l] # <<>>
  PROVE  GetLidarBaseTime(l) \in Nat /\ GetRecentTimeStamp(l) \in Nat
<1> DEFINE s == points_clouds[l]
<1>1. s \in Seq(Points) /\ s # <<>> BY CloudType
<1>2. /\ GetLidarBaseTime(l) = s[1].offset_time
      /\ GetRecentTimeStamp(l) = s[Len(s)].offset_time
  BY <1>1 DEF GetLidarBaseTime, GetRecentTimeStamp
<1> HIDE DEF s
<1>3. 1 \in 1 .. Len(s) /\ Len(s) \in 1 .. Len(s) BY <1>1, EmptySeq, LenProperties
<1>4. s[1] \in Points /\ s[Len(s)] \in Points BY <1>1, <1>3, ElementOfSeq
<1> QED BY <1>2, <1>4 DEF Points

LEMMA RecentType ==
  ASSUME HandlerTypeOK, NEW l \in Handles
  PROVE  Recent(l) \in Nat \union {-1} /\ last_frame[l] \in Nat \union {-1}
<1>1. last_frame[l] \in Nat \union {-1} BY DEF HandlerTypeOK
<1> QED BY <1>1, FrameTimes DEF Recent

\* The points of a packet join the frame.
LEMMA ProcessedFrame ==
  ASSUME HandlerTypeOK, PointCloudProcess, NEW l \in Handles
  PROVE  /\ l # raw_data.handle => points_clouds'[l] = points_clouds[l]
         /\ l = raw_data.handle =>
              /\ points_clouds'[l] # <<>>
              /\ GetRecentTimeStamp(l)' = raw_data.time_stamp + Span
              /\ GetLidarBaseTime(l)' = IF points_clouds[l] = <<>> THEN raw_data.time_stamp
                                        ELSE GetLidarBaseTime(l)
<1> DEFINE h == raw_data.handle
           p == PointsOf(raw_data)
           s == points_clouds[h]
<1>1. raw_data \in Packets /\ h \in Handles
  BY RealPacket DEF HandlerTypeOK, PointCloudProcess
<1>2. points_clouds' = [points_clouds EXCEPT ![h] = s \o p] BY DEF PointCloudProcess
<1>3. points_clouds \in [Handles -> Seq(Points)] BY DEF HandlerTypeOK
<1>4. ASSUME l # h PROVE points_clouds'[l] = points_clouds[l] BY <1>2, <1>3, <1>4
<1>5. ASSUME l = h
      PROVE  /\ points_clouds'[l] # <<>>
             /\ GetRecentTimeStamp(l)' = raw_data.time_stamp + Span
             /\ GetLidarBaseTime(l)' = IF points_clouds[l] = <<>> THEN raw_data.time_stamp
                                       ELSE GetLidarBaseTime(l)
  <2>1. /\ p \in Seq(Points) /\ Len(p) = Dots
        /\ p[1].offset_time = raw_data.time_stamp
        /\ p[Dots].offset_time = raw_data.time_stamp + Span
    BY <1>1, PointsOfPacket
  <2>2. s \in Seq(Points) BY <1>1, <1>3
  <2>3. points_clouds'[l] = s \o p BY <1>1, <1>2, <1>3, <1>5
  <2>4. s = points_clouds[l] BY <1>5
  <2> HIDE DEF s, p, h
  <2>5. PICK n \in Nat : n = Len(s) BY <2>2, LenProperties
  <2>6. PICK c \in Seq(Points) : c = s \o p BY <2>1, <2>2, ConcatProperties
  <2>7. /\ Len(c) = Len(s) + Len(p)
        /\ \A i \in 1 .. Len(s) + Len(p) :
             c[i] = IF i <= Len(s) THEN s[i] ELSE p[i - Len(s)]
    BY <2>1, <2>2, <2>6, ConcatProperties
  <2>8. /\ Len(c) = n + Dots
        /\ \A i \in 1 .. n + Dots : c[i] = IF i <= n THEN s[i] ELSE p[i - n]
    BY <2>1, <2>5, <2>7, Zenon
  <2>9. Dots \in Nat \ {0} BY Intervals
  <2>10. Len(c) # 0 /\ c # <<>> BY <2>8, <2>9
  <2>11. c[n + Dots] = p[Dots]
    <3>1. n + Dots \in 1 .. n + Dots /\ ~(n + Dots <= n) /\ (n + Dots) - n = Dots BY <2>9
    <3> QED BY <2>8, <3>1
  <2>12. c[1] = IF s = <<>> THEN p[1] ELSE s[1]
    <3>1. 1 \in 1 .. n + Dots BY <2>9
    <3>2. CASE s = <<>>
      <4>1. n = 0 BY <2>5, <3>2
      <4>2. ~(1 <= n) /\ 1 - n = 1 BY <4>1
      <4> QED BY <2>8, <3>1, <3>2, <4>2
    <3>3. CASE s # <<>>
      <4>1. 1 <= n BY <2>2, <2>5, <3>3, EmptySeq
      <4> QED BY <2>8, <3>1, <3>3, <4>1
    <3> QED BY <3>2, <3>3
  <2>13. GetRecentTimeStamp(l)' = c[Len(c)].offset_time
    BY <2>3, <2>6, <2>10 DEF GetRecentTimeStamp
  <2>14. GetLidarBaseTime(l)' = c[1].offset_time
    BY <2>3, <2>6, <2>10 DEF GetLidarBaseTime
  <2>15. s # <<>> => GetLidarBaseTime(l) = s[1].offset_time BY <2>4 DEF GetLidarBaseTime
  <2>16. GetLidarBaseTime(l)' = IF s = <<>> THEN raw_data.time_stamp
                                ELSE GetLidarBaseTime(l)
    BY <2>1, <2>12, <2>14, <2>15
  <2>17. GetRecentTimeStamp(l)' = raw_data.time_stamp + Span BY <2>1, <2>8, <2>11, <2>13
  <2> QED BY <2>3, <2>4, <2>6, <2>10, <2>16, <2>17
<1> QED BY <1>4, <1>5

-------------------------------------------------------------------------------
(* The packets' times.                                                     *)

LEMMA SameClock ==
  ASSUME ClockInv, steady' => steady, InFlight' = InFlight,
         UNCHANGED <<received, lidar_clock>>,
         \A l \in Handles : Arranged(l)' = Arranged(l) /\ Recent(l)' = Recent(l)
  PROVE  ClockInv'
<1> SUFFICES ASSUME steady', NEW l \in Handles PROVE Timed(l)'
  BY DEF ClockInv
<1>1. Timed(l) BY DEF ClockInv
<1> QED BY <1>1 DEF Timed, InTime, Late, Span

LEMMA UntouchedClock ==
  ASSUME ClockInv, steady' => steady, InFlight' = InFlight,
         UNCHANGED <<received, lidar_clock, points_clouds, published, last_frame>>
  PROVE  ClockInv'
<1>1. \A l \in Handles : Arranged(l)' = Arranged(l) /\ Recent(l)' = Recent(l)
  BY DEF Arranged, Recent, GetRecentTimeStamp
<1> QED BY <1>1, SameClock

LEMMA PublishedClock ==
  ASSUME HandlerTypeOK, ClockInv, steady' => steady, InFlight' = InFlight,
         UNCHANGED <<received, lidar_clock>>,
         NEW lidars \in SUBSET Handles, PublishPointCloud(lidars)
  PROVE  ClockInv'
<1>1. ASSUME NEW l \in Handles
      PROVE  Arranged(l)' = Arranged(l) /\ Recent(l)' = Recent(l)
  <2>1. Arranged(l)' = Arranged(l) BY PublishedFrame
  <2>2. /\ points_clouds'[l] = IF l \in lidars THEN <<>> ELSE points_clouds[l]
        /\ last_frame'[l] = IF l \in lidars /\ points_clouds[l] # <<>>
                              THEN GetRecentTimeStamp(l) ELSE last_frame[l]
    BY PublishedFrame
  <2>3. Recent(l)' = Recent(l) BY <2>2 DEF Recent, GetRecentTimeStamp
  <2> QED BY <2>1, <2>3
<1> QED BY <1>1, SameClock

LEMMA ArriveClock ==
  ASSUME HandlerTypeOK, HandlerTypeOK', EveryPointOnce, ClockInv,
         NEW l \in Handles, NEW time_type, NEW gap \in Nat,
         PacketArrives(l, time_type, gap)
  PROVE  ClockInv'
<1> SUFFICES ASSUME steady', NEW m \in Handles PROVE Timed(m)'
  BY DEF ClockInv
<1>1. steady /\ time_type = "Ptp" /\ ~Late(gap) BY DEF PacketArrives
<1>2. lidar_clock[l] \in Nat /\ received[l] \in Nat /\ Arranged(l) \in Nat
  BY CloudType DEF HandlerTypeOK
<1>3. PICK x : /\ x = [handle |-> l, n |-> received[l] + 1,
                       time_stamp |-> lidar_clock[l] + gap]
               /\ cb' = x
  BY <1>1 DEF PacketArrives
<1>4. x.handle = l /\ x.n = received[l] + 1 /\ x.time_stamp = lidar_clock[l] + gap
  BY <1>3
<1>5. /\ received' = [received EXCEPT ![l] = received[l] + Dots]
      /\ lidar_clock' = [lidar_clock EXCEPT ![l] = x.time_stamp + Span]
      /\ cb = NoPacket
      /\ UNCHANGED <<pc, raw_data, raw_packet_queue, points_clouds, published, last_frame>>
  BY <1>1, <1>3, <1>4 DEF PacketArrives, threadVars
<1>6. x # NoPacket /\ x \in Packets
  <2>1. x.n # 0 BY <1>2, <1>4
  <2>2. NoPacket.n = 0 BY DEF NoPacket
  <2> QED BY <1>3, <2>1, <2>2 DEF HandlerTypeOK
<1>7. InFlight' = Append(InFlight, x) BY <1>3, <1>5, <1>6, ArriveFlight
<1>8. PICK s, n : s = InFlight /\ n = Len(s) /\ s \in Seq(Packets) /\ n \in Nat
  BY FlightType, FlightIndices
<1>9. PICK t : t = Append(s, x) OBVIOUS
<1>10. /\ InFlight' = t /\ DOMAIN t = 1 .. n + 1 /\ DOMAIN s = 1 .. n /\ t[n + 1] = x
       /\ \A i \in 1 .. n : t[i] = s[i]
  <2>1. /\ t \in Seq(Packets) /\ Len(t) = n + 1 /\ t[n + 1] = x
        /\ \A i \in 1 .. n : t[i] = s[i]
    BY <1>6, <1>8, <1>9, CountedAppend
  <2> QED BY <1>7, <1>8, <1>9, <2>1, LenProperties
<1>11. Timed(m) BY <1>1 DEF ClockInv
<1>12. Arranged(m)' = Arranged(m) /\ Recent(m)' = Recent(m)
  BY <1>5 DEF Arranged, Recent, GetRecentTimeStamp
<1>13. /\ received \in [Handles -> Nat] /\ lidar_clock \in [Handles -> Nat]
       /\ Dots \in Nat \ {0} /\ Span \in Nat
  BY Intervals DEF HandlerTypeOK
<1>14. \A i \in 1 .. n : s[i].handle = m => s[i].n + Dots <= received[m] + 1
  BY <1>8, <1>10, NotBeyond
<1>15. \A i \in 1 .. n :
         s[i].handle \in Handles /\ s[i].n \in Nat /\ s[i].time_stamp \in Nat
  BY <1>8, <1>10, FlightIndices
<1>16. \A i \in 1 .. n + 1 : i \in 1 .. n \/ i = n + 1 BY <1>8
<1>17. CASE m # l
  <2>1. received'[m] = received[m] /\ lidar_clock'[m] = lidar_clock[m]
    BY <1>5, <1>13, <1>17
  <2>2. \A i \in 1 .. n + 1 : t[i].handle = m => i \in 1 .. n /\ t[i] = s[i]
    BY <1>4, <1>10, <1>16, <1>17
  <2> QED BY <1>8, <1>10, <1>11, <1>12, <2>1, <2>2 DEF Timed, InTime, Late, Span
<1>18. CASE m = l
  <2>1. received'[l] = received[l] + Dots /\ lidar_clock'[l] = x.time_stamp + Span
    BY <1>5, <1>13
  <2>2. ASSUME NEW t0 \in {lidar_clock[l], -1} PROVE InTime(t0, x.time_stamp)
    <3>1. lidar_clock[l] <= x.time_stamp /\ x.time_stamp - lidar_clock[l] = gap
      BY <1>2, <1>4
    <3> QED BY <1>1, <2>2, <3>1 DEF InTime
  <2>3. ASSUME NEW i \in 1 .. n + 1, NEW j \in 1 .. n + 1,
               t[i].handle = l, t[j].handle = l, t[j].n = t[i].n + Dots
        PROVE  InTime(t[i].time_stamp + Span, t[j].time_stamp)
    <3>1. CASE i \in 1 .. n /\ j \in 1 .. n
      BY <1>8, <1>10, <1>11, <1>18, <2>3, <3>1 DEF Timed
    <3>2. CASE i \in 1 .. n /\ j = n + 1
      <4>1. s[i].n + Dots = received[l] + 1 /\ s[i].handle = l /\ t[j] = x /\ t[i] = s[i]
        BY <1>4, <1>10, <2>3, <3>2
      <4>2. s[i].time_stamp + Span = lidar_clock[l]
        BY <1>8, <1>10, <1>11, <1>18, <3>2, <4>1 DEF Timed
      <4> QED BY <2>2, <4>1, <4>2
    <3>3. CASE i = n + 1
      <4>1. t[i].n = received[l] + 1 /\ t[j].n <= received[l] + 1
        <5>1. CASE j = n + 1 BY <1>2, <1>4, <1>10, <3>3, <5>1
        <5>2. CASE j \in 1 .. n
          <6>1. s[j].n + Dots <= received[l] + 1 /\ s[j].n \in Nat
            BY <1>10, <1>14, <1>15, <1>18, <2>3, <5>2
          <6>2. s[j].n <= received[l] + 1 BY <1>2, <1>13, <6>1
          <6> QED BY <1>4, <1>10, <3>3, <5>2, <6>2
        <5> QED BY <1>16, <5>1, <5>2
      <4>2. t[j].n \in Nat
        <5>1. CASE j = n + 1 BY <1>2, <1>4, <1>10, <5>1
        <5>2. CASE j \in 1 .. n BY <1>10, <1>15, <5>2
        <5> QED BY <1>16, <5>1, <5>2
      <4> QED BY <1>2, <1>13, <2>3, <4>1, <4>2
    <3> QED BY <1>16, <3>1, <3>2, <3>3
  <2>4. ASSUME NEW i \in 1 .. n + 1, t[i].handle = l
        PROVE  /\ t[i].n = Arranged(l) + 1 => InTime(Recent(l), t[i].time_stamp)
               /\ t[i].n + Dots = received[l] + Dots + 1 =>
                    t[i].time_stamp + Span = x.time_stamp + Span
    <3>1. CASE i \in 1 .. n
      <4>1. s[i].n + Dots <= received[l] + 1 /\ s[i].n \in Nat
        BY <1>10, <1>14, <1>15, <1>18, <2>4, <3>1
      <4>2. ~(s[i].n + Dots = received[l] + Dots + 1) BY <1>2, <1>13, <4>1
      <4> QED BY <1>8, <1>10, <1>11, <1>18, <2>4, <3>1, <4>2 DEF Timed
    <3>2. CASE i = n + 1
      <4>1. ASSUME x.n = Arranged(l) + 1 PROVE InTime(Recent(l), x.time_stamp)
        <5>1. Arranged(l) = received[l] BY <1>2, <1>4, <4>1
        <5>2. Recent(l) \in {-1, lidar_clock[l]} BY <1>11, <1>18, <5>1 DEF Timed
        <5> QED BY <2>2, <5>2
      <4> QED BY <1>10, <3>2, <4>1
    <3> QED BY <1>16, <3>1, <3>2
  <2>5. Arranged(l) # received[l] + Dots
    <3>1. Arranged(l) <= received[l]
      <4>1. received[l] = Sent(l, Len(InFlight)) BY OnceBySent
      <4>2. Sent(l, 0) = Arranged(l) /\ Sent(l, 0) <= Sent(l, Len(InFlight))
        <5>1. Len(InFlight) \in Nat /\ 0 \in 0 .. Len(InFlight) BY FlightIndices
        <5> QED BY <5>1, SentNext
      <4> QED BY <4>1, <4>2
    <3> QED BY <1>2, <1>13, <3>1
  <2> QED BY <1>10, <1>12, <1>18, <2>1, <2>3, <2>4, <2>5 DEF Timed, InTime, Late, Span
<1> QED BY <1>17, <1>18

LEMMA ProcessClock ==
  ASSUME HandlerTypeOK, HandlerTypeOK', EveryPointOnce, ClockInv, PointCloudProcess
  PROVE  /\ ClockInv'
         /\ steady => InTime(Recent(raw_data.handle), raw_data.time_stamp)
<1> DEFINE h == raw_data.handle
<1>1. /\ raw_data \in Packets /\ h \in Handles /\ raw_data.n = Arranged(h) + 1
      /\ \A l \in Handles : Arranged(l)' = Arranged(l) + IF l = h THEN Dots ELSE 0
  BY ProcessOnce, RealPacket
<1>2. UNCHANGED <<received, lidar_clock, steady, raw_data, last_frame>>
  BY DEF PointCloudProcess, lidarVars, clockVars
<1>3. PICK t \in Seq(Packets), s \in Seq(Packets) : t = InFlight' /\ s = InFlight
  BY FlightType, ProcessFlight
<1>4. /\ s # <<>> /\ s[1] = raw_data /\ Len(s) = Len(t) + 1
      /\ \A i \in 1 .. Len(t) : t[i] = s[i + 1]
  BY <1>3, ProcessFlight
<1>5. PICK n \in Nat : n = Len(t) BY <1>3, LenProperties
<1>6. /\ DOMAIN t = 1 .. n /\ DOMAIN s = 1 .. n + 1 /\ 1 \in 1 .. n + 1
      /\ \A i \in 1 .. n : t[i] = s[i + 1] /\ i + 1 \in 1 .. n + 1
  BY <1>3, <1>4, <1>5, LenProperties
<1>7. ASSUME steady PROVE InTime(Recent(h), raw_data.time_stamp)
  <2>1. Timed(h) BY <1>1, <1>7 DEF ClockInv
  <2> QED BY <1>1, <1>3, <1>4, <1>6, <2>1 DEF Timed
<1>8. ASSUME steady, NEW l \in Handles PROVE Timed(l)'
  <2>0. Timed(l) BY <1>8 DEF ClockInv
  <2>1. /\ \A i, j \in 1 .. n + 1 :
             s[i].handle = l /\ s[j].handle = l /\ s[j].n = s[i].n + Dots =>
               InTime(s[i].time_stamp + Span, s[j].time_stamp)
        /\ \A i \in 1 .. n + 1 :
             s[i].handle = l =>
               /\ s[i].n = Arranged(l) + 1 => InTime(Recent(l), s[i].time_stamp)
               /\ s[i].n + Dots = received[l] + 1 => s[i].time_stamp + Span = lidar_clock[l]
        /\ Arranged(l) = received[l] => Recent(l) \in {-1, lidar_clock[l]}
    BY <1>3, <1>6, <2>0 DEF Timed
  <2>4. ASSUME NEW i \in 1 .. n, NEW j \in 1 .. n,
               t[i].handle = l, t[j].handle = l, t[j].n = t[i].n + Dots
        PROVE  InTime(t[i].time_stamp + Span, t[j].time_stamp)
    <3>1. t[i] = s[i + 1] /\ t[j] = s[j + 1] /\ i + 1 \in 1 .. n + 1 /\ j + 1 \in 1 .. n + 1
      BY <1>6
    <3> QED BY <2>1, <2>4, <3>1
  <2>5. ASSUME NEW i \in 1 .. n, t[i].handle = l
        PROVE  /\ t[i] = s[i + 1]
               /\ s[1].handle = l /\ t[i].n = s[1].n + Dots =>
                    InTime(s[1].time_stamp + Span, t[i].time_stamp)
               /\ t[i].n = Arranged(l) + 1 => InTime(Recent(l), t[i].time_stamp)
               /\ t[i].n + Dots = received[l] + 1 =>
                    t[i].time_stamp + Span = lidar_clock[l]
    <3>1. t[i] = s[i + 1] /\ i + 1 \in 1 .. n + 1 /\ 1 \in 1 .. n + 1 BY <1>6
    <3> QED BY <2>1, <2>5, <3>1
  <2>2. CASE l # h
    <3>1. Arranged(l)' = Arranged(l) BY <1>1, <2>2, CloudType
    <3>2. Recent(l)' = Recent(l)
      BY <1>2, <2>2, ProcessedFrame DEF Recent, GetRecentTimeStamp
    <3> QED BY <1>2, <1>3, <1>6, <2>1, <2>4, <2>5, <3>1, <3>2 DEF Timed, InTime, Late, Span
  <2>3. CASE l = h
    <3>1. Arranged(l)' = Arranged(l) + Dots BY <1>1, <2>3
    <3>2. Recent(l)' = raw_data.time_stamp + Span
      BY <2>3, ProcessedFrame DEF Recent
    <3>3. PICK a \in Nat : a = Arranged(l) BY CloudType
    <3>4. raw_data.n = a + 1 /\ s[1].handle = l BY <1>1, <1>4, <2>3, <3>3
    <3>5. ASSUME NEW i \in 1 .. n, t[i].handle = l
          PROVE  /\ t[i].n = a + Dots + 1 =>
                      InTime(raw_data.time_stamp + Span, t[i].time_stamp)
                 /\ t[i].n + Dots = received[l] + 1 =>
                      t[i].time_stamp + Span = lidar_clock[l]
      <4>1. t[i].n = a + Dots + 1 => t[i].n = s[1].n + Dots
        BY <1>4, <3>3, <3>4, Intervals
      <4> QED BY <1>4, <2>5, <3>4, <3>5, <4>1
    <3>6. a + Dots = received[l] => raw_data.time_stamp + Span = lidar_clock[l]
      <4>1. a + Dots = received[l] => s[1].n + Dots = received[l] + 1
        BY <1>4, <3>3, <3>4, Intervals
      <4> QED BY <1>4, <1>6, <2>1, <3>4, <4>1
    <3>8. Arranged(l)' = a + Dots BY <3>1, <3>3
    <3> QED
      BY <1>2, <1>3, <1>6, <2>4, <3>2, <3>5, <3>6, <3>8 DEF Timed, InTime, Late, Span
  <2> QED BY <2>2, <2>3
<1> QED BY <1>2, <1>7, <1>8 DEF ClockInv

LEMMA SyncNext ==
  ASSUME HandlerTypeOK, SyncInv, [HandlerNext]_handlerVars
  PROVE  SyncInv'
<1> USE DEF clockVars, lidarVars, threadVars
<1>1. ASSUME NEW l \in Handles, NEW time_type \in TimeTypes[l], NEW gap \in Gaps,
             PacketArrives(l, time_type, gap)
      PROVE  SyncInv'
  <2>1. steady' => is_timestamp_sync' BY <1>1 DEF PacketArrives
  <2> QED BY <2>1 DEF SyncInv
<1>2. ASSUME NEW l \in Handles, NEW time_type \in TimeTypes[l], ImuArrives(l, time_type)
      PROVE  SyncInv'
  <2>1. steady' => is_timestamp_sync' BY <1>2 DEF ImuArrives
  <2> QED BY <2>1 DEF SyncInv
<1>3. CASE PushPacket BY <1>3 DEF PushPacket, SyncInv
<1>4. CASE TestQuit BY <1>4 DEF TestQuit, SyncInv
<1>5. CASE WaitForPacket BY <1>5 DEF WaitForPacket, TakePacket, SyncInv
<1>6. CASE Wake BY <1>6 DEF Wake, TakePacket, SyncInv
<1>7. CASE PointCloudProcess BY <1>7 DEF PointCloudProcess, SyncInv
<1>8. CASE CheckTimerSync BY <1>8 DEF CheckTimerSync, SyncInv
<1>9. CASE CheckTimerHost BY <1>9 DEF CheckTimerHost, SyncInv
<1>10. CASE Uninit BY <1>10 DEF Uninit, SyncInv
<1>11. CASE UNCHANGED handlerVars BY <1>11 DEF handlerVars, SyncInv
<1> QED
  BY <1>1, <1>2, <1>3, <1>4, <1>5, <1>6, <1>7, <1>8, <1>9, <1>10, <1>11
  DEF HandlerNext, SdkThread, RawDataProcess

LEMMA ClockNext ==
  ASSUME HandlerTypeOK, EveryPointOnce, ClockInv, [HandlerNext]_handlerVars
  PROVE  ClockInv'
<1> USE DEF clockVars, lidarVars, threadVars
<1>0. HandlerTypeOK' BY HandlerTypeNext
<1>1. ASSUME NEW l \in Handles, NEW time_type \in TimeTypes[l], NEW gap \in Gaps,
             PacketArrives(l, time_type, gap)
      PROVE  ClockInv'
  <2>1. gap \in Nat BY PubHandlerAssumption
  <2> QED BY <1>0, <1>1, <2>1, ArriveClock
<1>2. ASSUME NEW l \in Handles, NEW time_type \in TimeTypes[l], ImuArrives(l, time_type)
      PROVE  ClockInv'
  <2>1. steady' => steady BY <1>2 DEF ImuArrives
  <2>2. InFlight' = InFlight BY <1>2, SameFlight
  <2> QED BY <1>2, <2>1, <2>2, UntouchedClock DEF ImuArrives
<1>3. CASE PushPacket BY <1>3, SameFlight, UntouchedClock DEF PushPacket
<1>4. CASE TestQuit BY <1>4, SameFlight, UntouchedClock DEF TestQuit
<1>5. CASE WaitForPacket BY <1>5, SameFlight, UntouchedClock DEF WaitForPacket, TakePacket
<1>6. CASE Wake BY <1>6, SameFlight, UntouchedClock DEF Wake, TakePacket
<1>7. CASE PointCloudProcess BY <1>0, <1>7, ProcessClock
<1>8. CASE CheckTimerSync
  <2>1. InFlight' = InFlight BY <1>8, SameFlight
  <2>2. {raw_data.handle} \in SUBSET Handles
    BY <1>8, RealPacket DEF HandlerTypeOK, CheckTimerSync
  <2>3. UNCHANGED <<received, lidar_clock, steady>> BY <1>8 DEF CheckTimerSync
  <2>4. CASE PublishPointCloud({raw_data.handle})
    BY <2>1, <2>2, <2>3, <2>4, PublishedClock
  <2>5. CASE UNCHANGED <<points_clouds, published, last_frame>>
    BY <2>1, <2>3, <2>5, UntouchedClock
  <2> QED BY <1>8, <2>4, <2>5 DEF CheckTimerSync
<1>9. CASE CheckTimerHost
  <2>1. InFlight' = InFlight BY <1>9, SameFlight
  <2>2. UNCHANGED <<received, lidar_clock, steady>> BY <1>9 DEF CheckTimerHost
  <2>3. CASE PublishPointCloud(Handles) BY <2>1, <2>2, <2>3, PublishedClock
  <2>4. CASE UNCHANGED <<points_clouds, published, last_frame>>
    BY <2>1, <2>2, <2>4, UntouchedClock
  <2> QED BY <1>9, <2>3, <2>4 DEF CheckTimerHost
<1>10. CASE Uninit BY <1>10, SameFlight, UntouchedClock DEF Uninit
<1>11. CASE UNCHANGED handlerVars BY <1>11, SameFlight, UntouchedClock DEF handlerVars
<1> QED
  BY <1>1, <1>2, <1>3, <1>4, <1>5, <1>6, <1>7, <1>8, <1>9, <1>10, <1>11
  DEF HandlerNext, SdkThread, RawDataProcess

-------------------------------------------------------------------------------
(* The frames.                                                             *)

\* A frame is checked at its last packet: it ends in the next interval, or it grows.
LEMMA SyncFrame ==
  ASSUME HandlerInv, steady, CheckTimerSync, NEW k \in Nat, NEW h, h = raw_data.handle,
         last_frame[h] # -1, FollowsFrame(h, k)
  PROVE  /\ FrameEnds(h) =>
              /\ InFirstMs(GetRecentTimeStamp(h), k + 1)
              /\ points_clouds'[h] = <<>> /\ last_frame'[h] = GetRecentTimeStamp(h)
         /\ ~FrameEnds(h) => FollowsFrame(h, k)'
<1> DEFINE e == last_frame[h]
           b == GetLidarBaseTime(h)
           r == GetRecentTimeStamp(h)
<1> USE DEF HandlerInv
<1>1. h \in Handles BY RealPacket DEF HandlerTypeOK, CheckTimerSync
<1>2. e \in Nat BY <1>1, RecentType
<1>3. InFirstMs(e, k) BY DEF FollowsFrame
<1>4. pc = "check" /\ pc' = "loop" /\ raw_data' = raw_data BY DEF CheckTimerSync
<1>5. CASE points_clouds[h] = <<>>
  <2>1. ~FrameEnds(h)
    <3>1. r = 0 BY <1>5 DEF GetRecentTimeStamp
    <3>2. 0 \div Ms = 0
      <4>1. (Ms * 0 + 0) \div Ms = 0 /\ 0 \in 0 .. Ms - 1 BY Quotient, Intervals
      <4> QED BY <4>1, Intervals
    <3> QED BY <3>1, <3>2 DEF FrameEnds
  <2>2. UNCHANGED <<points_clouds, last_frame>> BY <2>1 DEF CheckTimerSync
  <2> QED BY <1>3, <1>5, <2>1, <2>2 DEF FollowsFrame, InFirstMs, publish_interval
<1>6. CASE points_clouds[h] # <<>>
  <2>1. b \in Nat /\ r \in Nat BY <1>1, <1>6, FrameTimes
  <2>2. /\ InTime(e, b) /\ b <= r /\ r < (k + 1) * publish_interval + Ms
    BY <1>4, <1>6 DEF FollowsFrame
  <2> HIDE DEF e, b, r
  <2>3. /\ (r \div Ms) % publish_interval_ms = 0 /\ r - b >= publish_interval_tolerance
             => InFirstMs(r, k + 1)
        /\ ~(/\ (r \div Ms) % publish_interval_ms = 0 /\ r \div Ms # 0
             /\ r - b >= publish_interval_tolerance)
             => Growing(b, r, k)
    BY <1>2, <1>3, <2>1, <2>2, FrameIsChecked
  <2>4. FrameEnds(h) <=> /\ (r \div Ms) % publish_interval_ms = 0 /\ r \div Ms # 0
                         /\ r - b >= publish_interval_tolerance
    <3>1. ~(r - b < 0) BY <2>1, <2>2
    <3> QED BY <3>1 DEF FrameEnds, b, r
  <2>5. ASSUME FrameEnds(h)
        PROVE  /\ InFirstMs(r, k + 1)
               /\ points_clouds'[h] = <<>> /\ last_frame'[h] = r
    <3>1. InFirstMs(r, k + 1) BY <2>3, <2>4, <2>5
    <3>2. PublishPointCloud({h}) BY <2>5 DEF CheckTimerSync
    <3>3. {h} \in SUBSET Handles /\ h \in {h} BY <1>1
    <3> QED BY <1>1, <1>6, <3>1, <3>2, <3>3, PublishedFrame DEF r
  <2>6. ASSUME ~FrameEnds(h) PROVE FollowsFrame(h, k)'
    <3>1. UNCHANGED <<points_clouds, last_frame>> BY <2>6 DEF CheckTimerSync
    <3>2. Growing(b, r, k) BY <2>3, <2>4, <2>6
    <3>3. GetLidarBaseTime(h)' = b /\ GetRecentTimeStamp(h)' = r
      BY <1>4, <3>1 DEF GetLidarBaseTime, GetRecentTimeStamp, b, r
    <3> QED BY <1>3, <1>4, <2>2, <3>1, <3>2, <3>3
            DEF FollowsFrame, InFirstMs, InTime, Late, Span, Growing, e,
                publish_interval, publish_interval_tolerance
  <2> QED BY <2>5, <2>6 DEF r
<1> QED BY <1>5, <1>6

LEMMA SameFrames ==
  ASSUME FrameInv, steady' => steady, UNCHANGED <<points_clouds, last_frame>>,
         \/ UNCHANGED <<pc, raw_data>>
         \/ pc # "check" /\ pc' # "check"
  PROVE  FrameInv'
<1> SUFFICES ASSUME steady', NEW l \in Handles, last_frame'[l] # -1
             PROVE  \E k \in Nat : FollowsFrame(l, k)'
  BY DEF FrameInv
<1>1. PICK k \in Nat : FollowsFrame(l, k) BY DEF FrameInv
<1>2. FollowsFrame(l, k)'
  BY <1>1 DEF FollowsFrame, InFirstMs, InTime, Late, Span, Growing, GetLidarBaseTime,
              GetRecentTimeStamp, publish_interval, publish_interval_tolerance
<1> QED BY <1>2

LEMMA ProcessFrames ==
  ASSUME HandlerInv, HandlerTypeOK', PointCloudProcess
  PROVE  FrameInv'
<1> USE DEF HandlerInv
<1> DEFINE h == raw_data.handle
<1> SUFFICES ASSUME steady', NEW l \in Handles, last_frame'[l] # -1
             PROVE  \E k \in Nat : FollowsFrame(l, k)'
  BY DEF FrameInv
<1>1. /\ UNCHANGED <<raw_data, last_frame, steady>> /\ pc = "process" /\ pc' = "check"
  BY DEF PointCloudProcess, lidarVars
<1>2. PICK k \in Nat : FollowsFrame(l, k) BY <1>1 DEF FrameInv
<1>3. CASE l # h
  <2>1. points_clouds'[l] = points_clouds[l] BY <1>3, ProcessedFrame
  <2>2. FollowsFrame(l, k)'
    BY <1>1, <1>2, <1>3, <2>1
    DEF FollowsFrame, InFirstMs, InTime, Late, Span, Growing, GetLidarBaseTime,
        GetRecentTimeStamp, publish_interval, publish_interval_tolerance
  <2> QED BY <2>2
<1>4. CASE l = h
  <2>1. InTime(Recent(l), raw_data.time_stamp) BY <1>1, <1>4, ProcessClock
  <2>2. /\ points_clouds'[l] # <<>>
        /\ GetRecentTimeStamp(l)' = raw_data.time_stamp + Span
        /\ GetLidarBaseTime(l)' = IF points_clouds[l] = <<>> THEN raw_data.time_stamp
                                  ELSE GetLidarBaseTime(l)
    BY <1>4, ProcessedFrame
  <2>3. PICK stamp \in Nat : stamp = raw_data.time_stamp
    BY RealPacket DEF HandlerTypeOK, PointCloudProcess
  <2>4. PICK e \in Nat : e = last_frame[l] BY <1>1, RecentType
  <2>5. InFirstMs(e, k) BY <1>2, <2>4 DEF FollowsFrame
  <2>6. CASE points_clouds[l] = <<>>
    <3>1. InTime(e, stamp) BY <2>1, <2>3, <2>4, <2>6 DEF Recent
    <3>2. /\ stamp <= stamp + Span /\ stamp + Span <= e + Ms
      BY <3>1, LastPoint, Intervals
    <3>3. stamp + Span < (k + 1) * publish_interval + Ms
      <4>1. PICK a \in Nat, p \in Nat, x \in Nat :
              /\ a = k * publish_interval /\ p = publish_interval
              /\ (k + 1) * publish_interval = a + p /\ x = stamp + Span
        BY NextInterval, Intervals
      <4>2. e < a + Ms /\ 2 * Ms <= p /\ Ms \in Nat BY <2>5, <4>1, Intervals DEF InFirstMs
      <4>3. x <= e + Ms BY <3>2, <4>1
      <4>4. x < a + p + Ms BY <4>1, <4>2, <4>3
      <4> QED BY <4>1, <4>4
    <3>4. FollowsFrame(l, k)'
      BY <1>1, <1>4, <2>2, <2>3, <2>4, <2>5, <2>6, <3>1, <3>2, <3>3
      DEF FollowsFrame, InFirstMs, InTime, Late, Span, publish_interval
    <3> QED BY <3>4
  <2>7. CASE points_clouds[l] # <<>>
    <3>1. PICK b \in Nat, r \in Nat :
            b = GetLidarBaseTime(l) /\ r = GetRecentTimeStamp(l)
      BY <2>7, FrameTimes
    <3>2. InTime(e, b) /\ b <= r /\ Growing(b, r, k)
      BY <1>1, <1>2, <2>4, <2>7, <3>1 DEF FollowsFrame
    <3>3. InTime(r, stamp) BY <2>1, <2>3, <2>7, <3>1 DEF Recent
    <3>4. stamp + Span < (k + 1) * publish_interval + Ms
      BY <2>5, <3>2, <3>3, NotJumpedOver
    <3>5. b <= stamp + Span
      <4>1. r <= stamp BY <3>3 DEF InTime
      <4> QED BY <3>2, <4>1, Intervals
    <3>6. FollowsFrame(l, k)'
      BY <1>1, <1>4, <2>2, <2>3, <2>4, <2>5, <2>7, <3>1, <3>2, <3>4, <3>5
      DEF FollowsFrame, InFirstMs, InTime, Late, Span, publish_interval
    <3> QED BY <3>6
  <2> QED BY <2>6, <2>7
<1> QED BY <1>3, <1>4

LEMMA SyncFrames ==
  ASSUME HandlerInv, CheckTimerSync
  PROVE  FrameInv'
<1> USE DEF HandlerInv
<1> DEFINE h == raw_data.handle
<1> SUFFICES ASSUME steady', NEW l \in Handles, last_frame'[l] # -1
             PROVE  \E k \in Nat : FollowsFrame(l, k)'
  BY DEF FrameInv
<1>1. steady /\ pc = "check" /\ pc' = "loop" /\ raw_data' = raw_data
  BY DEF CheckTimerSync, lidarVars
<1>2. h \in Handles /\ {h} \in SUBSET Handles
  BY RealPacket DEF HandlerTypeOK, CheckTimerSync
<1>3. CASE l # h
  <2>1. points_clouds'[l] = points_clouds[l] /\ last_frame'[l] = last_frame[l]
    BY <1>2, <1>3, PublishedFrame DEF CheckTimerSync
  <2>2. PICK k \in Nat : FollowsFrame(l, k) BY <1>1, <2>1 DEF FrameInv
  <2>3. FollowsFrame(l, k)'
    BY <1>1, <1>3, <2>1, <2>2
    DEF FollowsFrame, InFirstMs, InTime, Late, Span, Growing, GetLidarBaseTime,
        GetRecentTimeStamp, publish_interval, publish_interval_tolerance
  <2> QED BY <2>3
<1>4. CASE l = h /\ FrameEnds(h)
  <2>1. PublishPointCloud({h}) BY <1>4 DEF CheckTimerSync
  <2>2. (GetRecentTimeStamp(h) \div Ms) % publish_interval_ms = 0
        /\ GetRecentTimeStamp(h) \div Ms # 0
    BY <1>4 DEF FrameEnds
  <2>3. points_clouds[h] # <<>>
    <3>1. SUFFICES ASSUME points_clouds[h] = <<>> PROVE FALSE OBVIOUS
    <3>2. GetRecentTimeStamp(h) = 0 BY <3>1 DEF GetRecentTimeStamp
    <3>3. (Ms * 0 + 0) \div Ms = 0 /\ Ms * 0 + 0 = 0 BY Quotient, Intervals
    <3> QED BY <2>2, <3>2, <3>3
  <2>4. points_clouds'[l] = <<>> /\ last_frame'[l] = GetRecentTimeStamp(h)
    <3> HIDE DEF h
    <3>1. h \in {h} OBVIOUS
    <3> QED BY <1>2, <1>4, <2>1, <2>3, <3>1, PublishedFrame
  <2>5. PICK q \in Nat : InFirstMs(GetRecentTimeStamp(h), q)
    BY <1>2, <2>2, <2>3, FrameTimes, FirstMsIsTested
  <2>6. FollowsFrame(l, q)' BY <2>4, <2>5 DEF FollowsFrame, InFirstMs, publish_interval
  <2> QED BY <2>6
<1>5. CASE l = h /\ ~FrameEnds(h)
  <2>1. last_frame' = last_frame BY <1>5 DEF CheckTimerSync
  <2>2. PICK k \in Nat : FollowsFrame(h, k) BY <1>1, <1>2, <1>5, <2>1 DEF FrameInv
  <2>3. FollowsFrame(h, k)' BY <1>1, <1>5, <2>1, <2>2, SyncFrame
  <2> QED BY <1>1, <1>5, <2>3
<1> QED BY <1>3, <1>4, <1>5

LEMMA FrameNext ==
  ASSUME HandlerInv, [HandlerNext]_handlerVars
  PROVE  FrameInv'
<1> USE DEF HandlerInv, clockVars, lidarVars, threadVars
<1>0. HandlerTypeOK' BY HandlerTypeNext
<1>1. ASSUME NEW l \in Handles, NEW time_type \in TimeTypes[l], NEW gap \in Gaps,
             PacketArrives(l, time_type, gap)
      PROVE  FrameInv'
  <2>1. steady' => steady BY <1>1 DEF PacketArrives
  <2> QED BY <1>1, <2>1, SameFrames DEF PacketArrives
<1>2. ASSUME NEW l \in Handles, NEW time_type \in TimeTypes[l], ImuArrives(l, time_type)
      PROVE  FrameInv'
  <2>1. steady' => steady BY <1>2 DEF ImuArrives
  <2> QED BY <1>2, <2>1, SameFrames DEF ImuArrives
<1>3. CASE PushPacket BY <1>3, SameFrames DEF PushPacket
<1>4. CASE TestQuit BY <1>4, SameFrames DEF TestQuit
<1>5. CASE WaitForPacket BY <1>5, SameFrames DEF WaitForPacket, TakePacket
<1>6. CASE Wake BY <1>6, SameFrames DEF Wake, TakePacket
<1>7. CASE PointCloudProcess BY <1>0, <1>7, ProcessFrames
<1>8. CASE CheckTimerSync BY <1>8, SyncFrames
<1>9. CASE CheckTimerHost
  <2>1. ~steady /\ steady' = steady BY <1>9 DEF CheckTimerHost, SyncInv
  <2> QED BY <2>1 DEF FrameInv
<1>10. CASE Uninit BY <1>10, SameFrames DEF Uninit
<1>11. CASE UNCHANGED handlerVars BY <1>11, SameFrames DEF handlerVars
<1> QED
  BY <1>1, <1>2, <1>3, <1>4, <1>5, <1>6, <1>7, <1>8, <1>9, <1>10, <1>11
  DEF HandlerNext, SdkThread, RawDataProcess

LEMMA HandlerInvInit == HandlerInit => HandlerInv
<1> SUFFICES ASSUME HandlerInit PROVE HandlerInv OBVIOUS
<1>1. HandlerTypeOK BY HandlerTypeInit
<1>2. EveryPointOnce BY OnceInit
<1>3. InFlight = <<>> BY DEF HandlerInit, InFlight
<1>4. SyncInv BY DEF HandlerInit, SyncInv
<1>5. ASSUME NEW l \in Handles PROVE points_clouds[l] = <<>> /\ last_frame[l] = -1
  BY DEF HandlerInit
<1>6. ClockInv
  <2>1. \A l \in Handles : Recent(l) = -1 BY <1>5 DEF Recent
  <2> QED BY <1>3, <2>1 DEF ClockInv, Timed
<1>7. FrameInv BY <1>5 DEF FrameInv
<1> QED BY <1>1, <1>2, <1>4, <1>6, <1>7 DEF HandlerInv

LEMMA HandlerInvNext == HandlerInv /\ [HandlerNext]_handlerVars => HandlerInv'
<1> SUFFICES ASSUME HandlerInv, [HandlerNext]_handlerVars PROVE HandlerInv' OBVIOUS
<1>1. HandlerTypeOK /\ EveryPointOnce /\ SyncInv /\ ClockInv BY DEF HandlerInv
<1>2. HandlerTypeOK' BY <1>1, HandlerTypeNext
<1>3. EveryPointOnce' BY <1>1, OnceNext
<1>4. SyncInv' BY <1>1, SyncNext
<1>5. ClockInv' BY <1>1, ClockNext
<1>6. FrameInv' BY FrameNext
<1> QED BY <1>2, <1>3, <1>4, <1>5, <1>6 DEF HandlerInv

\* The inductive invariant of the packet handler (PubHandler): points and packets are
\* numbered without a gap from the last published one on, and while the lidars are
\* steady, packets are in time and every frame is on its way to the next interval.
THEOREM HandlerInvariant == HandlerSpec => []HandlerInv
<1> QED BY HandlerInvInit, HandlerInvNext, PTL DEF HandlerSpec

\* Every variable of the handler keeps its type.
THEOREM HandlerTypeCorrect == HandlerSpec => []HandlerTypeOK
<1>1. HandlerInv => HandlerTypeOK BY DEF HandlerInv
<1> QED BY <1>1, HandlerInvariant, PTL

\* Whatever lidars, synchronised or not, send whatever packets, the points of each
\* are published once and in order, or are still on their way (RawDataProcess,
\* CheckTimer).
THEOREM PointsArePublishedOnce == HandlerSpec => []EveryPointOnce
<1>1. HandlerInv => EveryPointOnce BY DEF HandlerInv
<1> QED BY <1>1, HandlerInvariant, PTL

\* A steady lidar's next frame ends in the next interval, for any rate and length of
\* its packets and any publishing interval of two milliseconds and more: CheckTimer's
\* tolerance of one millisecond is enough.
THEOREM FramesAreIntervals == HandlerSpec => FrameIsOneInterval
<1>1. ASSUME HandlerInv, [HandlerNext]_handlerVars, NEW l \in Handles,
             steady, last_frame[l] # -1, published'[l] # published[l]
      PROVE  last_frame'[l] \div publish_interval = last_frame[l] \div publish_interval + 1
  <2> USE DEF HandlerInv
  <2>1. CheckTimerSync \/ CheckTimerHost
    BY <1>1 DEF HandlerNext, SdkThread, RawDataProcess, handlerVars, clockVars, lidarVars,
                threadVars, PacketArrives, ImuArrives, PushPacket, TestQuit, WaitForPacket,
                TakePacket, Wake, PointCloudProcess, Uninit
  <2>2. CheckTimerSync BY <1>1, <2>1 DEF CheckTimerHost, SyncInv
  <2>3. raw_data.handle \in Handles
    BY <1>1, <2>2, RealPacket DEF HandlerTypeOK, CheckTimerSync
  <2>4. FrameEnds(raw_data.handle) /\ l = raw_data.handle
    BY <1>1, <2>2, <2>3, PublishedFrame DEF CheckTimerSync
  <2>5. PICK k \in Nat : FollowsFrame(l, k) BY <1>1 DEF FrameInv
  <2>6. /\ InFirstMs(GetRecentTimeStamp(l), k + 1)
        /\ last_frame'[l] = GetRecentTimeStamp(l)
    BY <1>1, <2>2, <2>4, <2>5, SyncFrame
  <2>7. last_frame[l] \in Nat /\ InFirstMs(last_frame[l], k)
    BY <1>1, <2>5, RecentType DEF FollowsFrame
  <2>8. points_clouds[l] # <<>>
    <3>1. SUFFICES ASSUME points_clouds[l] = <<>> PROVE FALSE OBVIOUS
    <3>2. GetRecentTimeStamp(l) = 0 BY <3>1 DEF GetRecentTimeStamp
    <3>3. (Ms * 0 + 0) \div Ms = 0 /\ Ms * 0 + 0 = 0 BY Quotient, Intervals
    <3> QED BY <2>4, <3>2, <3>3 DEF FrameEnds
  <2>9. GetRecentTimeStamp(l) \in Nat BY <1>1, <2>8, FrameTimes
  <2>10. GetRecentTimeStamp(l) \div publish_interval = k + 1
    BY <2>6, <2>9, FirstMsIsTested
  <2>11. last_frame[l] \div publish_interval = k BY <2>7, FirstMsIsTested
  <2> QED BY <2>6, <2>10, <2>11
<1>2. HandlerInv /\ [HandlerNext]_handlerVars =>
        [\A l \in Handles :
           steady /\ last_frame[l] # -1 /\ published'[l] # published[l] =>
             last_frame'[l] \div publish_interval
               = last_frame[l] \div publish_interval + 1]_handlerVars
  BY <1>1
<1> QED BY <1>2, HandlerInvariant, PTL DEF HandlerSpec, FrameIsOneInterval

-------------------------------------------------------------------------------
(* What JoinReturns rests on: how many steps the handler's thread has still *)
(* to take once it is asked to stop, and what it can be stuck in.           *)

StepsToQuit ==
  CASE pc = "done" -> 0 [] pc = "loop" -> 1 [] pc = "check" -> 2
    [] pc = "process" -> 3 [] pc = "wait" -> 4 [] pc = "take" -> 5

\* Once Uninit has set is_quit_ it stays set, no step of anybody takes the handler's
\* thread further from its end, and each of its own takes it nearer: the join of
\* ~PubHandler waits for one packet at most, however many are queued and arrive
\* (pub_handler.cpp, Uninit and RawDataProcess).
QuitIsNear ==
  is_quit => /\ is_quit' /\ StepsToQuit' <= StepsToQuit
             /\ RawDataProcess => StepsToQuit' < StepsToQuit

THEOREM QuitIsOnePacketAway == HandlerSpec => [][QuitIsNear]_handlerVars
<1>1. ASSUME HandlerInv, [HandlerNext]_handlerVars PROVE QuitIsNear
  <2>0. pc \in {"loop", "take", "wait", "process", "check", "done"}
    BY <1>1 DEF HandlerInv, HandlerTypeOK
  <2> SUFFICES ASSUME is_quit
               PROVE  /\ is_quit' /\ StepsToQuit' <= StepsToQuit
                      /\ RawDataProcess => StepsToQuit' < StepsToQuit
    BY DEF QuitIsNear
  <2>1. CASE RawDataProcess
    <3>1. is_quit'
      BY <2>1 DEF RawDataProcess, TestQuit, WaitForPacket, Wake, TakePacket, PointCloudProcess,
                  CheckTimerSync, CheckTimerHost
    <3>2. \/ pc = "loop" /\ pc' = "done"
          \/ pc = "take" /\ pc' \in {"process", "wait"}
          \/ pc = "wait" /\ pc' \in {"process", "loop"}
          \/ pc = "process" /\ pc' = "check"
          \/ pc = "check" /\ pc' = "loop"
      BY <2>1 DEF RawDataProcess, TestQuit, WaitForPacket, Wake, TakePacket, PointCloudProcess,
                  CheckTimerSync, CheckTimerHost
    <3> QED
      BY <3>1, <3>2 DEF StepsToQuit
  <2>2. CASE SdkThread \/ Uninit \/ UNCHANGED handlerVars
    <3>1. pc' = pc /\ is_quit'
      BY <2>2 DEF SdkThread, PacketArrives, ImuArrives, PushPacket, Uninit, handlerVars, threadVars
    <3>2. ~RawDataProcess
      BY <3>1 DEF RawDataProcess, TestQuit, WaitForPacket, Wake, TakePacket, PointCloudProcess,
                  CheckTimerSync, CheckTimerHost
    <3>3. StepsToQuit' = StepsToQuit /\ StepsToQuit \in Nat
      BY <2>0, <3>1 DEF StepsToQuit
    <3> QED
      BY <3>1, <3>2, <3>3
  <2> QED
    BY <1>1, <2>1, <2>2 DEF HandlerNext
<1> QED
  BY <1>1, HandlerInvariant, PTL DEF HandlerSpec

-------------------------------------------------------------------------------
(* The hand-over to the poll thread.                                       *)

LEMMA InitDeliveryInv == Init => DeliveryInv
<1> SUFFICES ASSUME Init PROVE DeliveryInv OBVIOUS
<1> USE DeliveryAssumption DEF Init
<1>0. 0 \in Lidars /\ 0 \in 0 .. LidarCount /\ 0 \in 0 .. MaxPackets BY DEF Lidars
<1>1. TypeOK BY <1>0 DEF TypeOK
<1>2. Counters BY DEF Counters
<1>3. Positions BY DEF Positions
<1>4. Covered BY DEF Covered, Waiting
<1> QED BY <1>1, <1>2, <1>3, <1>4 DEF DeliveryInv

USE DEF queueVars, exitVars, producerVars, consumerVars

LEMMA PushLidarDataStep ==
  DeliveryInv /\ (\E l \in Lidars : PushLidarData(l)) => DeliveryInv'
<1> SUFFICES ASSUME DeliveryInv, NEW k \in Lidars, PushLidarData(k)
             PROVE  DeliveryInv'
  OBVIOUS
<1> USE DEF DeliveryInv, PushLidarData
<1>1. TypeOK' BY DEF TypeOK
<1>2. Counters' BY DEF Counters
<1>3. Positions' BY DEF Positions
<1>4. Covered' BY DEF Covered, Waiting, Stalled, VisitAhead, SignalAhead
<1> QED BY <1>1, <1>2, <1>3, <1>4

LEMMA QueuePushAnyStep == DeliveryInv /\ QueuePushAny => DeliveryInv'
<1> SUFFICES ASSUME DeliveryInv, QueuePushAny PROVE DeliveryInv' OBVIOUS
<1> USE DEF DeliveryInv, QueuePushAny
<1>0. /\ target \in Lidars
      /\ pushed[target] \in 0 .. MaxPackets
      /\ pushed[target] + 1 \in 0 .. MaxPackets
      /\ pushed' = [pushed EXCEPT ![target] = pushed[target] + 1]
  BY DeliveryAssumption DEF TypeOK, Positions
<1>1. TypeOK' BY <1>0 DEF TypeOK
<1>2. Counters'
  <2> SUFFICES ASSUME NEW l \in Lidars
               PROVE  /\ popped'[l] <= visible'[l] /\ visible'[l] <= pushed'[l]
                      /\ pushed'[l] <= visible'[l] + 1
                      /\ l \notin StoreBuffered => visible'[l] = pushed'[l]
                      /\ promised'[l] <= pushed'[l]
                      /\ promised'[l] > 0 => l \in sampling'
    BY DEF Counters
  <2>1. /\ popped[l] \in Nat /\ pushed[l] \in Nat /\ visible[l] \in Nat
        /\ promised[l] \in Nat
    BY DeliveryAssumption DEF TypeOK
  <2>2. pushed'[l] = IF l = target THEN pushed[l] + 1 ELSE pushed[l]
    BY <1>0 DEF TypeOK
  <2>3. visible'[l] = IF target \in StoreBuffered THEN pushed[l] ELSE pushed'[l]
    OBVIOUS
  <2>4. promised'[l] = IF l = target /\ target \in sampling THEN pushed'[l] ELSE promised[l]
    BY <1>0 DEF TypeOK
  <2> QED BY <2>1, <2>2, <2>3, <2>4, <1>0 DEF Counters
<1>3. Positions' BY DEF Positions
<1>4. Covered'
  <2> SUFFICES ASSUME NEW l \in Lidars, Waiting(l)', ~SignalAhead(l)'
               PROVE  (\/ Stalled(l)
                       \/ count > 0
                       \/ VisitAhead(l)
                       \/ request_exit /\ cpc # "wait")'
    BY DEF Covered
  <2>1. l # target BY DEF SignalAhead
  <2>2. pushed'[l] = pushed[l] /\ promised'[l] = promised[l] /\ popped'[l] = popped[l]
    BY <2>1, <1>0 DEF TypeOK
  <2> QED BY <2>2 DEF Covered, Waiting, Stalled, VisitAhead, SignalAhead
<1> QED BY <1>1, <1>2, <1>3, <1>4

LEMMA DrainStoreStep == DeliveryInv /\ DrainStore => DeliveryInv'
<1> SUFFICES ASSUME DeliveryInv, DrainStore PROVE DeliveryInv' OBVIOUS
<1> USE DEF DeliveryInv, DrainStore
<1>1. TypeOK' BY DEF TypeOK
<1>2. Counters' BY DeliveryAssumption DEF Counters, TypeOK
<1>3. Positions' BY DEF Positions
<1>4. Covered' BY DEF Covered, Waiting, Stalled, VisitAhead, SignalAhead
<1> QED BY <1>1, <1>2, <1>3, <1>4

LEMMA TestEmptyStep == DeliveryInv /\ TestEmpty => DeliveryInv'
<1> SUFFICES ASSUME DeliveryInv, TestEmpty PROVE DeliveryInv' OBVIOUS
<1> USE DEF DeliveryInv, TestEmpty
<1>1. TypeOK' BY DEF TypeOK
<1>2. Counters' BY DEF Counters
<1>3. Positions' BY DEF Positions
<1>4. Covered'
  <2> SUFFICES ASSUME NEW l \in Lidars, Waiting(l), ppc' # "count"
               PROVE  (\/ Stalled(l)
                       \/ count > 0
                       \/ VisitAhead(l)
                       \/ request_exit /\ cpc # "wait")
    BY DEF Covered, Waiting, Stalled, VisitAhead, SignalAhead
  <2>1. l # target
    BY DeliveryAssumption DEF Waiting, Counters, TypeOK
  <2> QED BY <2>1 DEF Covered, SignalAhead
<1> QED BY <1>1, <1>2, <1>3, <1>4

LEMMA GetCountStep == DeliveryInv /\ GetCount => DeliveryInv'
<1> SUFFICES ASSUME DeliveryInv, GetCount PROVE DeliveryInv' OBVIOUS
<1> USE DEF DeliveryInv, GetCount
<1>1. TypeOK' BY DEF TypeOK
<1>2. Counters' BY DEF Counters
<1>3. Positions' BY DEF Positions, TypeOK
<1>4. Covered' BY DEF Covered, Waiting, Stalled, VisitAhead, SignalAhead, TypeOK
<1> QED BY <1>1, <1>2, <1>3, <1>4

LEMMA SignalStep == DeliveryInv /\ Signal => DeliveryInv'
<1> SUFFICES ASSUME DeliveryInv, Signal PROVE DeliveryInv' OBVIOUS
<1> USE DEF DeliveryInv, Signal
<1>1. TypeOK' BY DEF TypeOK
<1>2. Counters' BY DeliveryAssumption DEF Counters, TypeOK
<1>3. Positions' BY DEF Positions
<1>4. Covered' BY DEF Covered, Positions
<1> QED BY <1>1, <1>2, <1>3, <1>4

LEMMA WaitStep == DeliveryInv /\ Wait => DeliveryInv'
<1> SUFFICES ASSUME DeliveryInv, Wait PROVE DeliveryInv' OBVIOUS
<1> USE DEF DeliveryInv, Wait
<1>1. TypeOK' BY DeliveryAssumption DEF TypeOK
<1>2. Counters' BY DEF Counters
<1>3. Positions' BY DEF Positions, TypeOK
<1>4. Covered' BY DEF Covered, VisitAhead, Lidars
<1> QED BY <1>1, <1>2, <1>3, <1>4

LEMMA DistributeStep == DeliveryInv /\ Distribute => DeliveryInv'
<1> SUFFICES ASSUME DeliveryInv, Distribute PROVE DeliveryInv' OBVIOUS
<1> USE DEF DeliveryInv, Distribute
<1>1. TypeOK' BY DEF TypeOK
<1>2. Counters' BY DEF Counters
<1>3. Positions' BY DEF Positions
<1>4. Covered' BY DEF Covered, Waiting, Stalled, VisitAhead, SignalAhead
<1> QED BY <1>1, <1>2, <1>3, <1>4

LEMMA NextLidarStep == DeliveryInv /\ NextLidar => DeliveryInv'
<1> SUFFICES ASSUME DeliveryInv, NextLidar PROVE DeliveryInv' OBVIOUS
<1> USE DEF DeliveryInv, NextLidar
<1>1. TypeOK' BY DeliveryAssumption DEF TypeOK
<1>2. Counters' BY DEF Counters
<1>3. Positions' BY DeliveryAssumption DEF Positions, TypeOK
<1>4. Covered'
  <2> SUFFICES ASSUME NEW l \in Lidars, Waiting(l), VisitAhead(l)
               PROVE  VisitAhead(l)'
    BY DEF Covered, Waiting, Stalled, VisitAhead, SignalAhead
  <2>1. l \in sampling
    BY DeliveryAssumption DEF Waiting, Counters, TypeOK
  <2>2. l \in Int /\ l < LidarCount /\ index \in Int /\ LidarCount \in Int /\ index <= l
    BY DeliveryAssumption DEF VisitAhead, TypeOK, Lidars
  <2>3. index # LidarCount BY <2>2
  <2>4. CASE index \in sampling BY <2>2, <2>3, <2>4 DEF VisitAhead
  <2>5. CASE index \notin sampling
    <3>1. index + 1 <= l BY <2>1, <2>2, <2>5
    <3> QED BY <3>1, <2>3, <2>5 DEF VisitAhead
  <2> QED BY <2>4, <2>5
<1> QED BY <1>1, <1>2, <1>3, <1>4

LEMMA PollLidarStep == DeliveryInv /\ PollLidar => DeliveryInv'
<1> SUFFICES ASSUME DeliveryInv, PollLidar PROVE DeliveryInv' OBVIOUS
<1> USE DEF DeliveryInv, PollLidar
<1>0. index \in Lidars /\ index + 1 \in 0 .. LidarCount
  BY DeliveryAssumption DEF Positions, TypeOK, Lidars
<1>1. TypeOK' BY <1>0 DEF TypeOK
<1>2. Counters' BY DEF Counters
<1>3. Positions' BY DEF Positions
<1>4. Covered'
  <2> SUFFICES ASSUME NEW l \in Lidars, Waiting(l), VisitAhead(l), ~VisitAhead(l)',
                      ~request_exit
               PROVE  Stalled(l)
    BY DEF Covered, Waiting, Stalled, VisitAhead, SignalAhead
  <2>1. l \in Int /\ index \in Int /\ index <= l
    BY <1>0, DeliveryAssumption DEF VisitAhead, Lidars
  <2>2. popped[index] = visible[index] /\ cpc' = "loop" /\ index' = index + 1
    BY DEF VisitAhead
  <2>3. ~(index + 1 <= l) BY <2>2 DEF VisitAhead
  <2>4. l = index BY <2>1, <2>3
  <2> QED BY <2>2, <2>4, DeliveryAssumption DEF Waiting, Stalled, Counters, TypeOK
<1> QED BY <1>1, <1>2, <1>3, <1>4

LEMMA PublishStep == DeliveryInv /\ Publish => DeliveryInv'
<1> SUFFICES ASSUME DeliveryInv, Publish PROVE DeliveryInv' OBVIOUS
<1> USE DEF DeliveryInv, Publish
<1>0. index \in Lidars
  BY DeliveryAssumption DEF Positions, TypeOK, Lidars
<1>a. CASE popped[index] = visible[index]
  <2>1. TypeOK' BY <1>a DEF TypeOK
  <2>2. Counters' BY <1>a DEF Counters
  <2>3. Positions' BY <1>a DEF Positions
  <2>4. Covered' BY <1>a DEF Covered, Waiting, Stalled, VisitAhead, SignalAhead
  <2> QED BY <2>1, <2>2, <2>3, <2>4
<1>b. CASE popped[index] # visible[index]
  <2>0. /\ popped[index] + 1 <= visible[index]
        /\ popped[index] + 1 \in 0 .. MaxPackets
        /\ popped' = [popped EXCEPT ![index] = popped[index] + 1]
    BY <1>0, <1>b, DeliveryAssumption DEF Counters, TypeOK
  <2>1. TypeOK' BY <1>0, <1>b, <2>0 DEF TypeOK
  <2>2. Counters' BY <1>0, <1>b, <2>0 DEF Counters, TypeOK
  <2>3. Positions' BY <1>b DEF Positions
  <2>4. Covered'
    <3> SUFFICES ASSUME NEW l \in Lidars, Waiting(l)', ~VisitAhead(l)'
                 PROVE  (\/ Stalled(l)
                         \/ count > 0
                         \/ SignalAhead(l)
                         \/ request_exit /\ cpc # "wait")'
      BY DEF Covered
    <3>1. l # index BY <1>0, <1>b, DeliveryAssumption DEF VisitAhead, Lidars
    <3>2. popped'[l] = popped[l] BY <3>1, <2>0, <1>0 DEF TypeOK
    <3> QED BY <3>2, <1>b DEF Covered, Waiting, Stalled, VisitAhead, SignalAhead
  <2> QED BY <2>1, <2>2, <2>3, <2>4
<1> QED BY <1>a, <1>b

LEMMA TestFutureStep == DeliveryInv /\ TestFuture => DeliveryInv'
<1> SUFFICES ASSUME DeliveryInv, TestFuture PROVE DeliveryInv' OBVIOUS
<1> USE DEF DeliveryInv, TestFuture
<1>1. TypeOK' BY DEF TypeOK
<1>2. Counters' BY DEF Counters
<1>3. Positions' BY DEF Positions
<1>4. Covered' BY DEF Covered, Waiting, Stalled, VisitAhead, SignalAhead
<1> QED BY <1>1, <1>2, <1>3, <1>4

LEMMA OtherThreadsStep ==
  DeliveryInv /\ ((\E l \in Lidars : Connect(l)) \/ RequestExit \/ SetExitSignal)
    => DeliveryInv'
<1> SUFFICES ASSUME DeliveryInv,
                    (\E l \in Lidars : Connect(l)) \/ RequestExit \/ SetExitSignal
             PROVE  DeliveryInv'
  OBVIOUS
<1> USE DEF DeliveryInv, Connect, RequestExit, SetExitSignal
<1>1. TypeOK' BY DEF TypeOK
<1>2. Counters' BY DEF Counters
<1>3. Positions' BY DEF Positions
<1>4. Covered' BY DEF Covered, Waiting, Stalled, VisitAhead, SignalAhead
<1> QED BY <1>1, <1>2, <1>3, <1>4

-------------------------------------------------------------------------------
\* Every reachable state satisfies the inductive invariant.
THEOREM DeliveryInvariant == Spec => []DeliveryInv
<1>1. DeliveryInv /\ [Next]_vars => DeliveryInv'
  <2> SUFFICES ASSUME DeliveryInv, [Next]_vars PROVE DeliveryInv' OBVIOUS
  <2>1. CASE \E l \in Lidars : PushLidarData(l) \/ Connect(l)
    BY <2>1, PushLidarDataStep, OtherThreadsStep
  <2>2. CASE Producer
    BY <2>2, QueuePushAnyStep, TestEmptyStep, GetCountStep, SignalStep DEF Producer
  <2>3. CASE PollThread
    BY <2>3, DistributeStep, WaitStep, NextLidarStep, PollLidarStep, PublishStep,
       TestFutureStep DEF PollThread
  <2>4. CASE DrainStore \/ RequestExit \/ SetExitSignal
    BY <2>4, DrainStoreStep, OtherThreadsStep
  <2>5. CASE UNCHANGED vars
    BY <2>5 DEF vars, DeliveryInv, TypeOK, Counters, Positions, Covered, Waiting,
                Stalled, VisitAhead, SignalAhead
  <2> QED BY <2>1, <2>2, <2>3, <2>4, <2>5 DEF Next
<1> QED BY InitDeliveryInv, <1>1, PTL DEF Spec

\* The types hold for every number of lidars and packets.
THEOREM TypeCorrect == Spec => []TypeOK
<1>1. DeliveryInv => TypeOK BY DEF DeliveryInv
<1> QED BY <1>1, DeliveryInvariant, PTL

\* With the one producer thread the semaphore never holds two tokens.
THEOREM AtMostOneToken == Spec => []OneToken
<1>1. DeliveryInv => OneToken BY DEF DeliveryInv, Positions, OneToken
<1> QED BY <1>1, DeliveryInvariant, PTL

\* The poll thread never sleeps on a packet it should publish, but for the last
\* packet of a lidar when stores may be delayed.
THEOREM WakeupsAreNotLost == Spec => []NoLostWakeup
<1>1. DeliveryInv => NoLostWakeup
  BY DeliveryAssumption
  DEF DeliveryInv, TypeOK, Covered, NoLostWakeup, Asleep, Waiting, Stalled,
      VisitAhead, SignalAhead
<1> QED BY <1>1, DeliveryInvariant, PTL
-------------------------------------------------------------------------------
(* What ExitWithTokenJoins rests on.                                       *)

\* How many steps the poll thread has still to take once it is to exit: it
\* goes on to the end of its visit, and publishes what it finds there, which is
\* MaxPackets at most.
StepsToExit ==
  LET ahead == 2 * (LidarCount - index)
  IN CASE cpc = "done" -> 0
       [] cpc = "future" -> 1
       [] cpc = "top" -> 2
       [] cpc = "poll" -> ahead + 2
       [] cpc = "loop" -> ahead + 3
       [] cpc = "publish" -> ahead + 3 + MaxPackets - popped[index]
       [] cpc = "wait" -> 2 * LidarCount + 4

\* The poll thread may not go on: it waits for a token that is not there.
Stuck == cpc = "wait" /\ count = 0

\* Once ~DriverNode has set its signal the exit is requested for good; nobody
\* takes the poll thread further from its end, and each of its own steps takes it
\* nearer; and it never comes to wait for a token that is not there, unless it
\* waits for one already.  So a token that is there when the signal is set is
\* enough for the join to return (driver_node.cpp, lddc.cpp, semaphore.cpp).
ExitIsNear ==
  exit_signal =>
    /\ request_exit /\ exit_signal'
    /\ StepsToExit' <= StepsToExit /\ (PollThread => StepsToExit' < StepsToExit)
    /\ ~Stuck => ~Stuck'

THEOREM ExitNeedsOneToken == Spec => [][ExitIsNear]_vars
<1> DEFINE SignalInv == exit_signal => request_exit
<1>1. Init => SignalInv
  BY DEF Init
<1>2. SignalInv /\ [Next]_vars => SignalInv'
  BY DEF Next, Producer, PollThread, PushLidarData, Connect, QueuePushAny, TestEmpty, GetCount,
         Signal, DrainStore, Distribute, Wait, NextLidar, PollLidar, Publish, TestFuture,
         RequestExit, SetExitSignal, vars
<1>3. ASSUME DeliveryInv, DeliveryInv', SignalInv, [Next]_vars PROVE ExitIsNear
  <2> SUFFICES ASSUME exit_signal
               PROVE  /\ request_exit /\ exit_signal'
                      /\ StepsToExit' <= StepsToExit /\ (PollThread => StepsToExit' < StepsToExit)
                      /\ ~Stuck => ~Stuck'
    BY DEF ExitIsNear
  <2>1. /\ LidarCount \in Nat /\ MaxPackets \in Nat /\ index \in 0 .. LidarCount
        /\ cpc \in {"top", "wait", "loop", "poll", "publish", "future", "done"}
        /\ count \in Nat /\ request_exit
        /\ cpc \in {"poll", "publish"} =>
             index < LidarCount /\ popped[index] \in 0 .. MaxPackets
    <3>1. /\ LidarCount \in Nat /\ MaxPackets \in Nat /\ index \in 0 .. LidarCount
          /\ cpc \in {"top", "wait", "loop", "poll", "publish", "future", "done"}
          /\ count \in Nat /\ popped \in [Lidars -> 0 .. MaxPackets]
          /\ cpc \in {"poll", "publish"} => index < LidarCount
      BY <1>3, DeliveryAssumption DEF DeliveryInv, TypeOK, Positions
    <3>2. request_exit
      BY <1>3
    <3>3. index < LidarCount => index \in Lidars
      BY <3>1 DEF Lidars
    <3> QED
      BY <3>1, <3>2, <3>3
  <2>2. CASE PollThread
    <3>0. exit_signal'
      BY <2>2 DEF PollThread, Distribute, Wait, NextLidar, PollLidar, Publish, TestFuture
    <3>1. CASE Distribute
      <4>1. cpc = "top" /\ cpc' = "future" /\ ~Stuck'
        BY <2>1, <3>1 DEF Distribute, Stuck
      <4>2. StepsToExit = 2 /\ StepsToExit' = 1
        BY <4>1 DEF StepsToExit
      <4> QED
        BY <2>1, <3>0, <4>1, <4>2
    <3>6. CASE TestFuture
      <4>1. cpc = "future" /\ cpc' = "done" /\ ~Stuck'
        BY <2>1, <3>6 DEF TestFuture, Stuck
      <4>2. StepsToExit = 1 /\ StepsToExit' = 0
        BY <4>1 DEF StepsToExit
      <4> QED
        BY <2>1, <3>0, <4>1, <4>2
    <3>2. CASE Wait
      BY <2>1, <3>0, <3>2 DEF Wait, StepsToExit, Stuck
    <3>3. CASE NextLidar
      BY <2>1, <3>0, <3>3 DEF NextLidar, StepsToExit, Stuck
    <3>4. CASE PollLidar
      BY <2>1, <3>0, <3>4 DEF PollLidar, StepsToExit, Stuck
    <3>5. CASE Publish
      <4>1. CASE popped[index] = visible[index]
        BY <2>1, <3>0, <3>5, <4>1 DEF Publish, StepsToExit, Stuck
      <4>2. CASE popped[index] # visible[index]
        <5>1. /\ cpc = "publish" /\ cpc' = "publish" /\ index' = index
              /\ popped'[index] = popped[index] + 1
          BY <1>3, <2>1, <3>5, <4>2 DEF Publish, DeliveryInv, TypeOK, Lidars
        <5> QED
          BY <2>1, <3>0, <5>1 DEF StepsToExit, Stuck
      <4> QED
        BY <4>1, <4>2
    <3> QED
      BY <2>2, <3>1, <3>2, <3>3, <3>4, <3>5, <3>6 DEF PollThread
  <2>3. CASE ~PollThread
    <3>1. /\ UNCHANGED <<cpc, index, popped>> /\ exit_signal'
          /\ count' = count \/ count' = count + 1
      BY <1>3, <2>3
         DEF Next, Producer, PushLidarData, Connect, QueuePushAny, TestEmpty, GetCount, Signal,
             DrainStore, RequestExit, SetExitSignal, vars
    <3>2. StepsToExit' = StepsToExit /\ StepsToExit \in Nat
      BY <2>1, <3>1 DEF StepsToExit
    <3> QED
      BY <2>1, <2>3, <3>1, <3>2 DEF Stuck
  <2> QED
    BY <2>2, <2>3
<1> QED
  BY <1>1, <1>2, <1>3, DeliveryInvariant, PTL DEF Spec
===============================================================================
