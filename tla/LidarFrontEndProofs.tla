-------------------------- MODULE LidarFrontEndProofs --------------------------
(***************************************************************************)
(* Proofs about the lidar callbacks of laserMapping, from the points of a  *)
(* message to the scans in lidar_buffer.                                   *)
(*                                                                         *)
(* Of the Livox filter, for any gaps, threshold, noise and filter, also    *)
(* when times go back and wrap around: a point may be given too early a    *)
(* time, but not one after its own while times go forward, and its own     *)
(* while no point is left out and no gap is large.  Of the ring filters,   *)
(* for any number of rings and ticks in a turn, and any noise of less than *)
(* a turn: the reverse, a time derived from the azimuth may be whole turns *)
(* late, but is never early, and is right until an azimuth moves back.     *)
(*                                                                         *)
(* Of the intake, for any messages, stamps, cutting interval and number of *)
(* messages to combine: points keep their time unless they are cut, and    *)
(* none is lost unless they are combined.                                  *)
(***************************************************************************)
EXTENDS LidarFrontEnd, SequenceTheorems, TLAPS

KeptPoints ==
  [curvature : Nat, time : Int, regular : BOOLEAN, forward : BOOLEAN, latest : Nat]

\* What CurvatureIsTime says of one point.
TimeFits(p) ==
  /\ p.curvature <= p.latest
  /\ p.forward => p.curvature <= p.time
  /\ p.regular => p.curvature = p.time

\* What a kept point's time rests on: the entry before the current point is never
\* after the latest time, is not after the last point's as long as the time has
\* not gone back, and is that time while the message is regular.
TimeInv ==
  /\ offset \in Int /\ latest \in Nat
  /\ regular \in BOOLEAN /\ forward \in BOOLEAN
  /\ previous.curvature \in Nat /\ previous.curvature <= latest
  /\ forward => 0 <= offset /\ previous.curvature <= offset
  /\ regular => forward /\ previous.curvature = offset
  /\ pl_surf \in Seq(KeptPoints)
  /\ \A n \in DOMAIN pl_surf : TimeFits(pl_surf[n])

\* Quotient and remainder are unique.
LEMMA ModOfSum ==
  ASSUME NEW m \in Nat \ {0}, NEW q \in Int, NEW r \in 0 .. m - 1
  PROVE  (m * q + r) % m = r
<1> DEFINE p == (m * q + r) \div m
           s == (m * q + r) % m
<1>1. m * q + r \in Int OBVIOUS
<1>2. p \in Int /\ s \in 0 .. m - 1 /\ m * q + r = m * p + s BY <1>1
<1> HIDE DEF p, s
<1>3. m * (q - p) = s - r BY <1>2
<1>4. CASE q - p >= 1
  <2>1. m * (q - p - 1) >= 0 BY <1>2, <1>4
  <2> QED BY <1>2, <1>3, <2>1
<1>5. CASE q - p <= -1
  <2>1. m * (-1 - (q - p)) >= 0 BY <1>2, <1>5
  <2> QED BY <1>2, <1>3, <2>1
<1>6. CASE q = p BY <1>2, <1>3, <1>6
<1>7. s = r BY <1>2, <1>4, <1>5, <1>6
<1> QED BY <1>7 DEF s

\* The 32 bits hold a time of the frame, and put one before it after all of them.
LEMMA OffsetWraps ==
  ASSUME NEW t \in Int, -Wide < t, t < Wide
  PROVE  OffsetTime(t) = IF t < 0 THEN t + Wide ELSE t
<1>1. Wide \in Nat \ {0} BY AviaAssumption
<1>2. CASE t < 0
  <2>1. t + Wide \in 0 .. Wide - 1 /\ Wide * (-1) + (t + Wide) = t BY <1>1, <1>2
  <2>2. (Wide * (-1) + (t + Wide)) % Wide = t + Wide BY <1>1, <2>1, ModOfSum
  <2> QED BY <1>2, <2>1, <2>2 DEF OffsetTime
<1>3. CASE t >= 0
  <2>1. t \in 0 .. Wide - 1 /\ Wide * 0 + t = t BY <1>1, <1>3
  <2>2. (Wide * 0 + t) % Wide = t BY <1>1, <2>1, ModOfSum
  <2> QED BY <1>3, <2>1, <2>2 DEF OffsetTime
<1> QED BY <1>2, <1>3

LEMMA ReadsLatest ==
  ASSUME TimeInv, NEW t \in Int, Reads(t)
  PROVE  /\ offset' = t
         /\ forward' \in BOOLEAN /\ (forward' => forward /\ offset <= t)
         /\ (forward /\ offset <= t => forward')
         /\ latest' \in Nat /\ latest + Step <= latest' /\ t <= latest'
         /\ latest' < Wide /\ latest' + Ms < Wide + t
<1>1. /\ offset' = t
      /\ latest' = IF t < latest + Step THEN latest + Step ELSE t
      /\ latest' < Wide /\ latest' + Ms < Wide + t
  BY DEF Reads
<1>2. Step \in Nat /\ latest \in Nat /\ forward \in BOOLEAN BY AviaAssumption DEF TimeInv
<1>3. latest' \in Nat /\ latest + Step <= latest' /\ t <= latest' BY <1>1, <1>2
<1>4. forward' = (forward /\ offset <= t) BY DEF Reads
<1> QED BY <1>1, <1>2, <1>3, <1>4

LEMMA CurvatureBounds ==
  ASSUME TimeInv, NEW t \in Int, Reads(t)
  PROVE  LET c == Curvature(OffsetTime(t))
         IN /\ c \in Nat /\ c <= latest'
            /\ forward' => c <= t
            /\ regular /\ offset <= t /\ t - offset < Ms => c = t
<1> DEFINE o == OffsetTime(t)
           p == previous.curvature
<1>1. /\ Ms \in Nat /\ Step \in Nat /\ Step < Ms /\ Wide \in Nat
      /\ offset \in Int /\ latest \in Nat /\ p \in Nat /\ p <= latest
  BY AviaAssumption DEF TimeInv
<1>2. PICK l \in Nat : /\ l = latest'
                       /\ latest + Step <= l /\ t <= l /\ l < Wide /\ l + Ms < Wide + t
  BY ReadsLatest
<1>3. latest + Step <= l /\ t <= l /\ l < Wide /\ l + Ms < Wide + t BY <1>2
<1>4. forward' => p <= offset /\ offset <= t
  BY ReadsLatest DEF TimeInv
<1>5. regular => p = offset BY DEF TimeInv
<1>6. o = IF t < 0 THEN t + Wide ELSE t
  <2>1. -Wide < t /\ t < Wide BY <1>1, <1>3
  <2> QED BY <2>1, OffsetWraps
<1>7. Curvature(o) = IF Abs(o - p) < Ms THEN o ELSE p + Step BY DEF Curvature
<1> HIDE DEF o, p
<1>8. CASE t < 0
  <2>1. o = t + Wide BY <1>6, <1>8
  <2>2. o - p >= Ms BY <1>1, <1>3, <2>1
  <2>3. o - p >= 0 /\ o - p \in Int BY <1>1, <2>1, <2>2
  <2>4. Curvature(o) = p + Step BY <1>1, <1>7, <2>2, <2>3 DEF Abs
  <2>5. ~ forward'
    <3>1. forward' => 0 <= t BY <1>1, <1>4
    <3> QED BY <1>8, <3>1
  <2>6. ~ (regular /\ offset <= t)
    <3>1. regular => 0 <= offset BY <1>1, <1>5
    <3> QED BY <1>1, <1>8, <3>1
  <2>7. p + Step \in Nat /\ p + Step <= latest' BY <1>1, <1>2
  <2> QED BY <2>4, <2>5, <2>6, <2>7 DEF o
<1>9. CASE t >= 0 /\ Abs(t - p) < Ms
  <2>1. Curvature(o) = t BY <1>6, <1>7, <1>9
  <2> QED BY <1>2, <1>9, <2>1 DEF o
<1>10. CASE t >= 0 /\ ~ Abs(t - p) < Ms
  <2>1. Curvature(o) = p + Step BY <1>6, <1>7, <1>10
  <2>2. t - p >= Ms \/ p - t >= Ms BY <1>1, <1>10 DEF Abs
  <2>3. forward' => p + Step <= t
    <3>1. ASSUME p <= offset, offset <= t PROVE p + Step <= t BY <1>1, <2>2, <3>1
    <3> QED BY <1>4, <3>1
  <2>4. ~ (regular /\ offset <= t /\ t - offset < Ms)
    <3>1. ASSUME p = offset, offset <= t, t - offset < Ms PROVE FALSE BY <1>1, <2>2, <3>1
    <3> QED BY <1>5, <3>1
  <2>5. p + Step \in Nat /\ p + Step <= latest' BY <1>1, <1>2
  <2> QED BY <2>1, <2>3, <2>4, <2>5 DEF o
<1> QED BY <1>8, <1>9, <1>10

LEMMA FillKeepsTime ==
  ASSUME TimeInv, NEW t \in Int, NEW position \in Positions, Fill(t, position)
  PROVE  TimeInv'
<1> DEFINE c == Curvature(OffsetTime(t))
           point == [curvature |-> c, time |-> t, regular |-> regular', forward |-> forward',
                     latest |-> latest']
<1>1. Reads(t) /\ regular' = (regular /\ offset <= t /\ t - offset < Ms)
  BY DEF Fill
<1>2. previous' = [position |-> position, curvature |-> c]
      /\ (pl_surf' = pl_surf \/ pl_surf' = Append(pl_surf, point))
  BY DEF Fill
<1>3. /\ c \in Nat /\ c <= latest'
      /\ forward' => c <= t
      /\ regular' => c = t
  BY <1>1, CurvatureBounds
<1>4. /\ offset' = t /\ latest' \in Nat
      /\ forward' \in BOOLEAN
      /\ forward' => forward /\ offset <= t
      /\ forward /\ offset <= t => forward'
  BY <1>1, ReadsLatest
<1> HIDE DEF c
<1>5. regular' \in BOOLEAN /\ forward' \in BOOLEAN /\ (regular' => forward')
  BY <1>1, <1>4 DEF TimeInv
<1>6. forward' => 0 <= t
  <2>1. offset \in Int /\ (forward => 0 <= offset) BY DEF TimeInv
  <2>2. ASSUME 0 <= offset, offset <= t PROVE 0 <= t BY <2>1, <2>2
  <2> QED BY <1>4, <2>1, <2>2
<1>7. point \in KeptPoints /\ TimeFits(point) BY <1>3, <1>4, <1>5 DEF KeptPoints, TimeFits
<1>8. pl_surf \in Seq(KeptPoints) /\ \A n \in DOMAIN pl_surf : TimeFits(pl_surf[n])
  BY DEF TimeInv
<1> HIDE DEF point
<1>9. pl_surf' \in Seq(KeptPoints) /\ \A n \in DOMAIN pl_surf' : TimeFits(pl_surf'[n])
  <2>1. CASE pl_surf' = pl_surf BY <1>8, <2>1
  <2>2. CASE pl_surf' = Append(pl_surf, point)
    <3>1. /\ pl_surf' \in Seq(KeptPoints)
          /\ \A n \in DOMAIN pl_surf' :
               (n \in DOMAIN pl_surf /\ pl_surf'[n] = pl_surf[n]) \/ pl_surf'[n] = point
      BY <1>7, <1>8, <2>2
    <3> QED BY <1>7, <1>8, <3>1
  <2> QED BY <1>2, <2>1, <2>2
<1>10. previous'.curvature = c BY <1>2
<1> QED BY <1>3, <1>4, <1>5, <1>6, <1>9, <1>10 DEF TimeInv

LEMMA SkipKeepsTime ==
  ASSUME TimeInv, NEW t \in Int, NEW valid \in BOOLEAN, Skip(t, valid)
  PROVE  TimeInv'
<1>1. /\ Reads(t) /\ regular' = FALSE /\ pl_surf' = pl_surf
      /\ previous'.curvature = 0
  BY DEF Skip, Unfilled
<1>2. /\ offset' = t /\ latest' \in Nat
      /\ forward' \in BOOLEAN
      /\ forward' => forward /\ offset <= t
  BY <1>1, ReadsLatest
<1>3. forward' => 0 <= t
  <2>1. offset \in Int /\ (forward => 0 <= offset) BY DEF TimeInv
  <2>2. ASSUME 0 <= offset, offset <= t PROVE 0 <= t BY <2>1, <2>2
  <2> QED BY <1>2, <2>1, <2>2
<1>4. /\ offset' \in Int /\ previous'.curvature \in Nat /\ previous'.curvature <= latest'
      /\ forward' => previous'.curvature <= offset'
  BY <1>1, <1>2, <1>3
<1>5. /\ pl_surf' \in Seq(KeptPoints) /\ \A n \in DOMAIN pl_surf' : TimeFits(pl_surf'[n])
      /\ regular' \in BOOLEAN /\ ~ regular'
  BY <1>1 DEF TimeInv
<1> QED BY <1>2, <1>3, <1>4, <1>5 DEF TimeInv

LEMMA TimeStep == TimeInv /\ [NextPoint]_handlerVars => TimeInv'
<1> SUFFICES ASSUME TimeInv, [NextPoint]_handlerVars PROVE TimeInv' OBVIOUS
<1>1. CASE NextPoint
  <2>1. PICK gap \in Gaps : \/ \E valid \in Tags : Skip(offset + gap, valid)
                            \/ \E p \in Positions : Fill(offset + gap, p)
    BY <1>1 DEF NextPoint
  <2>2. offset + gap \in Int /\ Tags \subseteq BOOLEAN
    BY AviaAssumption DEF TimeInv
  <2>3. ASSUME NEW valid \in Tags, Skip(offset + gap, valid) PROVE TimeInv'
    BY <2>2, <2>3, SkipKeepsTime
  <2>4. ASSUME NEW p \in Positions, Fill(offset + gap, p) PROVE TimeInv'
    BY <2>2, <2>4, FillKeepsTime
  <2> QED BY <2>1, <2>3, <2>4
<1>2. CASE UNCHANGED handlerVars BY <1>2 DEF handlerVars, historyVars, TimeInv
<1> QED BY <1>1, <1>2

LEMMA TimeAtFirst ==
  ASSUME HandlerInit PROVE TimeInv
<1>1. pl_surf \in Seq(KeptPoints) /\ DOMAIN pl_surf = {} BY DEF HandlerInit
<1> QED BY <1>1 DEF HandlerInit, TimeInv, Unfilled

LEMMA TimeIsKept == TimeInv => CurvatureIsTime
<1> SUFFICES ASSUME TimeInv, NEW n \in DOMAIN pl_surf
             PROVE  /\ 0 <= pl_surf[n].curvature
                    /\ TimeFits(pl_surf[n])
  BY DEF CurvatureIsTime, TimeFits
<1>1. pl_surf[n] \in KeptPoints BY DEF TimeInv
<1> QED BY <1>1 DEF TimeInv, KeptPoints

-------------------------------------------------------------------------------
AddedPoints == [curvature : Int, turned : Int, orderly : BOOLEAN]

\* A point's time is its own or whole turns later, and its own if its ring is in
\* order.
OnTimeOrLate(curvature, angle, inOrder) ==
  /\ curvature = angle \/ curvature = angle + Turn \/ curvature = angle + 2 * Turn
  /\ inOrder => curvature = angle

\* What the next azimuth of a ring meets: the last one fits the angle turned by,
\* whole turns aside, and the last time is that angle, or whole turns later.
RingFits(first, yaw, time, angle, inOrder) ==
  /\ first \in Yaws /\ yaw \in Yaws
  /\ angle \in Int /\ -Turn < angle /\ angle < 2 * Turn
  /\ \/ first - yaw = angle - 2 * Turn \/ first - yaw = angle - Turn
     \/ first - yaw = angle            \/ first - yaw = angle + Turn
  /\ time \in Int
  /\ inOrder \in BOOLEAN
  /\ inOrder => angle >= 0
  /\ OnTimeOrLate(time, angle, inOrder)

RingInv ==
  /\ offset \in Int
  /\ is_first \in [Rings -> BOOLEAN]
  /\ yaw_fp \in [Rings -> Int] /\ yaw_last \in [Rings -> Int]
  /\ time_last \in [Rings -> Int] /\ turned \in [Rings -> Int]
  /\ orderly \in [Rings -> BOOLEAN]
  /\ \A layer \in Rings :
       IF is_first[layer]
         THEN turned[layer] = 0 /\ orderly[layer]
         ELSE RingFits(yaw_fp[layer], yaw_last[layer], time_last[layer], turned[layer],
                       orderly[layer])
  /\ pl_added \in Seq(AddedPoints)
  /\ \A k \in DOMAIN pl_added :
       OnTimeOrLate(pl_added[k].curvature, pl_added[k].turned, pl_added[k].orderly)

LEMMA TurnType == Half \in Nat /\ Half > 0 /\ Turn \in Nat /\ Turn = 2 * Half
  BY PreprocessAssumption DEF Turn

\* The azimuth that is turned on is an azimuth, and differs by the step, a turn
\* aside.
LEMMA AzimuthTurns ==
  ASSUME NEW yaw \in Yaws, NEW step \in Steps
  PROVE  /\ Turned(yaw, step) \in Yaws
         /\ \/ Turned(yaw, step) = yaw - step
            \/ Turned(yaw, step) = yaw - step - Turn
            \/ Turned(yaw, step) = yaw - step + Turn
  BY TurnType, PreprocessAssumption DEF Turned, Yaws

\* One point of a ring: the derived time fits the angle again.
LEMMA DerivedFits ==
  ASSUME NEW layer \in Rings, NEW step \in Steps, NEW yaw, NEW angle, NEW inOrder,
         RingFits(yaw_fp[layer], yaw_last[layer], time_last[layer], turned[layer],
                  orderly[layer]),
         yaw = Turned(yaw_last[layer], step),
         angle = turned[layer] + step, angle < 2 * Turn, angle > -Turn,
         inOrder = (orderly[layer] /\ step >= 0)
  PROVE  RingFits(yaw_fp[layer], yaw, Derived(layer, yaw), angle, inOrder)
<1> DEFINE first == yaw_fp[layer]
           last == time_last[layer]
           t == first - yaw + IF yaw <= first THEN 0 ELSE Turn
           d == Derived(layer, yaw)
<1>1. /\ first \in Int /\ -Half < first /\ first <= Half
      /\ turned[layer] \in Int /\ last \in Int /\ orderly[layer] \in BOOLEAN
  BY TurnType DEF RingFits, Yaws
<1>2. /\ yaw \in Yaws /\ yaw \in Int /\ -Half < yaw /\ yaw <= Half
      /\ step \in Int /\ -Turn < step /\ step < Turn
  BY AzimuthTurns, PreprocessAssumption, TurnType DEF RingFits, Yaws
<1>3. \/ first - yaw = angle - 2 * Turn \/ first - yaw = angle - Turn
      \/ first - yaw = angle            \/ first - yaw = angle + Turn
  <2>1. \/ yaw = yaw_last[layer] - step \/ yaw = yaw_last[layer] - step - Turn
        \/ yaw = yaw_last[layer] - step + Turn
    BY AzimuthTurns DEF RingFits
  <2>2. /\ yaw_last[layer] \in Int
        /\ \/ first - yaw_last[layer] = turned[layer] - 2 * Turn
           \/ first - yaw_last[layer] = turned[layer] - Turn
           \/ first - yaw_last[layer] = turned[layer]
           \/ first - yaw_last[layer] = turned[layer] + Turn
    BY DEF RingFits, Yaws
  <2> QED BY <1>1, <1>2, <2>1, <2>2, TurnType
<1>4. t \in Int /\ 0 <= t /\ t < Turn /\ (t = first - yaw \/ t = first - yaw + Turn)
  BY <1>1, <1>2, TurnType
<1>5. t = angle - Turn \/ t = angle \/ t = angle + Turn
  BY <1>1, <1>2, <1>3, <1>4, TurnType
<1>6. d = IF t < last THEN t + Turn ELSE t BY DEF Derived
<1>7. /\ last = turned[layer] \/ last = turned[layer] + Turn \/ last = turned[layer] + 2 * Turn
      /\ orderly[layer] => last = turned[layer] /\ turned[layer] >= 0
  BY DEF RingFits, OnTimeOrLate
<1> HIDE DEF t, d, first, last
<1>8. d \in Int /\ (d = angle \/ d = angle + Turn \/ d = angle + 2 * Turn)
  <2>1. CASE t < last BY <1>4, <1>5, <1>6, <1>1, <1>2, <2>1, TurnType
  <2>2. CASE ~ (t < last)
    <3>1. t # angle - Turn BY <1>1, <1>2, <1>4, <1>7, <2>2, TurnType
    <3> QED BY <1>1, <1>2, <1>4, <1>5, <1>6, <2>2, <3>1, TurnType
  <2> QED BY <2>1, <2>2
<1>9. inOrder => d = angle /\ angle >= 0
  <2> SUFFICES ASSUME orderly[layer], step >= 0 PROVE d = angle /\ angle >= 0 OBVIOUS
  <2>1. angle >= 0 /\ last = turned[layer] /\ last <= angle BY <1>1, <1>2, <1>7
  <2>2. CASE t < last BY <1>1, <1>2, <1>4, <1>5, <1>6, <2>1, <2>2, TurnType
  <2>3. CASE ~ (t < last) BY <1>1, <1>2, <1>4, <1>5, <1>6, <2>1, <2>3, TurnType
  <2> QED BY <2>1, <2>2, <2>3
<1>10. inOrder \in BOOLEAN BY <1>1
<1> USE DEF d, first
<1> QED BY <1>1, <1>2, <1>3, <1>8, <1>9, <1>10 DEF RingFits, OnTimeOrLate, Yaws

LEMMA PushFits ==
  ASSUME RingInv, NEW point \in AddedPoints, NEW kept \in BOOLEAN, Push(point, kept),
         OnTimeOrLate(point.curvature, point.turned, point.orderly)
  PROVE  /\ pl_added' \in Seq(AddedPoints)
         /\ \A k \in DOMAIN pl_added' :
              OnTimeOrLate(pl_added'[k].curvature, pl_added'[k].turned, pl_added'[k].orderly)
<1>1. CASE pl_added' = Append(pl_added, point)
  <2>1. /\ pl_added \in Seq(AddedPoints)
        /\ \A k \in DOMAIN pl_added :
             OnTimeOrLate(pl_added[k].curvature, pl_added[k].turned, pl_added[k].orderly)
    BY DEF RingInv
  <2>2. /\ pl_added' \in Seq(AddedPoints)
        /\ \A k \in DOMAIN pl_added' :
             (k \in DOMAIN pl_added /\ pl_added'[k] = pl_added[k]) \/ pl_added'[k] = point
    BY <1>1, <2>1
  <2> QED BY <2>1, <2>2
<1>2. CASE pl_added' = pl_added BY <1>2 DEF RingInv
<1> QED BY <1>1, <1>2 DEF Push

\* A point with a time of its own touches no ring.
LEMMA TimedFits ==
  ASSUME RingInv, Timed PROVE RingInv'
<1>1. PICK gap \in Gaps, range \in Ranges :
        /\ OusterPoint(offset + gap, range) \/ GivenPoint(offset + gap, range)
        /\ offset' = offset + gap
  BY DEF Timed
<1>2. offset + gap \in Int BY AviaAssumption DEF RingInv
<1> DEFINE point == [curvature |-> offset + gap, turned |-> offset + gap, orderly |-> TRUE]
<1>3. point \in AddedPoints /\ OnTimeOrLate(point.curvature, point.turned, point.orderly)
  BY <1>2 DEF AddedPoints, OnTimeOrLate
<1>4. UNCHANGED ringVars /\ \E kept \in BOOLEAN : Push(point, kept)
  BY <1>1 DEF OusterPoint, GivenPoint
<1>5. PICK kept \in BOOLEAN : Push(point, kept) BY <1>4
<1> HIDE DEF point
<1>6. /\ pl_added' \in Seq(AddedPoints)
      /\ \A k \in DOMAIN pl_added' :
           OnTimeOrLate(pl_added'[k].curvature, pl_added'[k].turned, pl_added'[k].orderly)
  BY <1>3, <1>5, PushFits
<1> QED BY <1>1, <1>2, <1>4, <1>6 DEF RingInv, ringVars

LEMMA FirstFits ==
  ASSUME RingInv, UNCHANGED offset, NEW layer \in Rings, NEW yaw \in Yaws,
         FirstOfRing(layer, yaw)
  PROVE  RingInv'
<1>1. /\ turned[layer] = 0 /\ orderly[layer] = TRUE
  BY DEF RingInv, FirstOfRing
<1>2. RingFits(yaw, yaw, 0, 0, TRUE)
  BY TurnType DEF RingFits, OnTimeOrLate, Yaws
<1>3. yaw \in Int BY TurnType DEF Yaws
<1> QED BY <1>1, <1>2, <1>3 DEF RingInv, FirstOfRing

LEMMA LaterFits ==
  ASSUME RingInv, UNCHANGED offset, NEW layer \in Rings, NEW step \in Steps,
         NEW range \in Ranges, LaterOfRing(layer, step, range)
  PROVE  RingInv'
<1> DEFINE yaw == Turned(yaw_last[layer], step)
           time == Derived(layer, yaw)
           angle == turned[layer] + step
           inOrder == orderly[layer] /\ step >= 0
           point == [curvature |-> time, turned |-> angle, orderly |-> inOrder]
<1>1. RingFits(yaw_fp[layer], yaw_last[layer], time_last[layer], turned[layer],
               orderly[layer])
  BY DEF RingInv, LaterOfRing
<1>2. RingFits(yaw_fp[layer], yaw, time, angle, inOrder)
  BY <1>1, DerivedFits DEF LaterOfRing
<1>3. /\ yaw_last' = [yaw_last EXCEPT ![layer] = yaw]
      /\ time_last' = [time_last EXCEPT ![layer] = time]
      /\ turned' = [turned EXCEPT ![layer] = angle]
      /\ orderly' = [orderly EXCEPT ![layer] = inOrder]
      /\ UNCHANGED <<is_first, yaw_fp>>
      /\ ~ is_first[layer]
  BY DEF LaterOfRing, RingInv
<1>4. Push(point, range = "outside") BY <1>3 DEF LaterOfRing, RingInv
<1>5. yaw \in Int /\ time \in Int /\ angle \in Int /\ inOrder \in BOOLEAN
  BY <1>2, TurnType DEF RingFits, Yaws
<1>6. OnTimeOrLate(time, angle, inOrder) BY <1>2 DEF RingFits
<1> HIDE DEF yaw, time, angle, inOrder
<1>7. point \in AddedPoints /\ OnTimeOrLate(point.curvature, point.turned, point.orderly)
  BY <1>5, <1>6 DEF AddedPoints
<1>8. /\ pl_added' \in Seq(AddedPoints)
      /\ \A k \in DOMAIN pl_added' :
           OnTimeOrLate(pl_added'[k].curvature, pl_added'[k].turned, pl_added'[k].orderly)
  BY <1>4, <1>7, PushFits
<1> QED BY <1>2, <1>3, <1>5, <1>8 DEF RingInv

LEMMA RingStep ==
  RingInv /\ [ProcessPoint]_<<lidar_type, handlerVars, spinningVars>> => RingInv'
<1> SUFFICES ASSUME RingInv, [ProcessPoint]_<<lidar_type, handlerVars, spinningVars>>
             PROVE RingInv'
  OBVIOUS
<1>1. CASE NextPoint /\ UNCHANGED spinningVars
  <2>1. \E gap \in Gaps : offset' = offset + gap
    <3>1. PICK gap \in Gaps : \/ \E valid \in Tags : Skip(offset + gap, valid)
                              \/ \E p \in Positions : Fill(offset + gap, p)
      BY <1>1 DEF NextPoint
    <3> QED BY <3>1 DEF Skip, Fill, Reads
  <2>2. offset' \in Int BY <2>1, AviaAssumption DEF RingInv
  <2> QED BY <1>1, <2>2 DEF spinningVars, ringVars, RingInv
<1>2. CASE Timed BY <1>2, TimedFits
<1>3. CASE RingPoint /\ UNCHANGED offset BY <1>3, FirstFits, LaterFits DEF RingPoint
<1>4. CASE UNCHANGED <<lidar_type, handlerVars, spinningVars>>
  BY <1>4 DEF handlerVars, spinningVars, ringVars, RingInv
<1> QED BY <1>1, <1>2, <1>3, <1>4 DEF ProcessPoint, VelodynePoint, HesaiPoint

LEMMA RingAtFirst ==
  ASSUME PreprocessInit PROVE RingInv
<1>1. pl_added \in Seq(AddedPoints) /\ DOMAIN pl_added = {}
  BY DEF PreprocessInit, SpinningInit
<1> QED BY <1>1 DEF PreprocessInit, SpinningInit, HandlerInit, RingInv

LEMMA RingIsRight == RingInv => RingTimeIsTurned
<1> SUFFICES ASSUME RingInv, NEW k \in DOMAIN pl_added
             PROVE  /\ pl_added[k].curvature - pl_added[k].turned \in {0, Turn, 2 * Turn}
                    /\ pl_added[k].orderly => pl_added[k].curvature = pl_added[k].turned
  BY DEF RingTimeIsTurned
<1>1. pl_added[k] \in AddedPoints BY DEF RingInv
<1>2. pl_added[k].curvature \in Int /\ pl_added[k].turned \in Int
  BY <1>1 DEF AddedPoints
<1>3. OnTimeOrLate(pl_added[k].curvature, pl_added[k].turned, pl_added[k].orderly)
  BY DEF RingInv
<1>4. \A c, t \in Int : c = t \/ c = t + Turn \/ c = t + 2 * Turn
                         => c - t \in {0, Turn, 2 * Turn}
  BY TurnType
<1> QED BY <1>2, <1>3, <1>4 DEF OnTimeOrLate

-------------------------------------------------------------------------------
(* The intake.                                                             *)

MeasuredPoints == [measured : Int, curvature : Int]
Scans == [beg : Int, points : Seq(MeasuredPoints)]

\* The times of the points of some scans.
Held(scans) == UNION {Times(scans[n].points) : n \in DOMAIN scans}

\* The points fit the scan's time.
Fits(beg, points) ==
  \A j \in DOMAIN points : beg + points[j].curvature = points[j].measured

\* The messages combined so far fit the time of the first of them.
IntakeInv ==
  /\ lidar_buffer \in Seq(Scans)
  /\ ptr \in Seq(MeasuredPoints) /\ ptr_div \in Seq(MeasuredPoints)
  /\ ptr_con \in Seq(MeasuredPoints)
  /\ time_div \in Int /\ time_con \in Int /\ frame_ct \in Nat
  /\ mode # "combine" =>
       measured = Held(lidar_buffer) \union Times(ptr) \union Times(ptr_div)
                  \union Times(ptr_con) \union consumed
  /\ mode # "cut" => \A n \in DOMAIN lidar_buffer : Fits(lidar_buffer[n].beg, lidar_buffer[n].points)
  /\ mode # "cut" => ptr = <<>> /\ ptr_div = <<>>
  /\ frame_ct = 0 => ptr_con = <<>>
  /\ mode = "combine" => Fits(time_con, ptr_con)

LEMMA TimesOfAppend ==
  ASSUME NEW s \in Seq(MeasuredPoints), NEW p \in MeasuredPoints
  PROVE  Times(Append(s, p)) = Times(s) \union {p.measured}
<1>1. /\ \A k \in DOMAIN s : k \in DOMAIN Append(s, p) /\ Append(s, p)[k] = s[k]
      /\ Len(s) + 1 \in DOMAIN Append(s, p) /\ Append(s, p)[Len(s) + 1] = p
      /\ \A k \in DOMAIN Append(s, p) : k \in DOMAIN s \/ k = Len(s) + 1
  OBVIOUS
<1> QED BY <1>1 DEF Times

LEMMA TimesOfTail ==
  ASSUME NEW s \in Seq(MeasuredPoints), s # <<>>
  PROVE  /\ Head(s) \in MeasuredPoints /\ Tail(s) \in Seq(MeasuredPoints)
         /\ Times(s) = {Head(s).measured} \union Times(Tail(s))
<1>1. /\ 1 \in DOMAIN s /\ Head(s) = s[1] /\ Tail(s) \in Seq(MeasuredPoints)
      /\ \A k \in DOMAIN Tail(s) : k + 1 \in DOMAIN s /\ Tail(s)[k] = s[k + 1]
      /\ \A k \in DOMAIN s : k = 1 \/ (k - 1 \in DOMAIN Tail(s) /\ s[k] = Tail(s)[k - 1])
  OBVIOUS
<1>2. ASSUME NEW t \in Times(s) PROVE t \in {Head(s).measured} \union Times(Tail(s))
  <2>1. PICK k \in DOMAIN s : t = s[k].measured BY <1>2 DEF Times
  <2>2. CASE k = 1 BY <1>1, <2>1, <2>2
  <2>3. CASE k - 1 \in DOMAIN Tail(s) /\ s[k] = Tail(s)[k - 1] BY <2>1, <2>3 DEF Times
  <2> QED BY <1>1, <2>2, <2>3
<1>3. ASSUME NEW t \in {Head(s).measured} \union Times(Tail(s)) PROVE t \in Times(s)
  BY <1>1, <1>3 DEF Times
<1> QED BY <1>1, <1>2, <1>3

LEMMA HeldOfAppend ==
  ASSUME NEW b \in Seq(Scans), NEW scan \in Scans
  PROVE  Held(Append(b, scan)) = Held(b) \union Times(scan.points)
<1>1. /\ \A k \in DOMAIN b : k \in DOMAIN Append(b, scan) /\ Append(b, scan)[k] = b[k]
      /\ Len(b) + 1 \in DOMAIN Append(b, scan) /\ Append(b, scan)[Len(b) + 1] = scan
      /\ \A k \in DOMAIN Append(b, scan) : k \in DOMAIN b \/ k = Len(b) + 1
  OBVIOUS
<1> QED BY <1>1 DEF Held

LEMMA HeldOfTail ==
  ASSUME NEW b \in Seq(Scans), b # <<>>
  PROVE  /\ Tail(b) \in Seq(Scans)
         /\ Held(b) = Times(Head(b).points) \union Held(Tail(b))
         /\ \A k \in DOMAIN Tail(b) : k + 1 \in DOMAIN b /\ Tail(b)[k] = b[k + 1]
<1>1. /\ 1 \in DOMAIN b /\ Head(b) = b[1] /\ Tail(b) \in Seq(Scans)
      /\ \A k \in DOMAIN Tail(b) : k + 1 \in DOMAIN b /\ Tail(b)[k] = b[k + 1]
      /\ \A k \in DOMAIN b : k = 1 \/ (k - 1 \in DOMAIN Tail(b) /\ b[k] = Tail(b)[k - 1])
  OBVIOUS
<1>2. ASSUME NEW t \in Held(b) PROVE t \in Times(Head(b).points) \union Held(Tail(b))
  BY <1>1, <1>2 DEF Held
<1>3. ASSUME NEW t \in Times(Head(b).points) \union Held(Tail(b)) PROVE t \in Held(b)
  BY <1>1, <1>3 DEF Held
<1> QED BY <1>1, <1>2, <1>3

\* A sort moves points and loses none.
LEMMA TimesOfSorted ==
  ASSUME NEW s \in Seq(MeasuredPoints), NEW t \in Sorted(s)
  PROVE  t \in Seq(MeasuredPoints) /\ Times(t) = Times(s)
<1>1. PICK order \in Bijection(DOMAIN s, DOMAIN s) : t = [k \in DOMAIN s |-> s[order[k]]]
  BY DEF Sorted
<1>2. /\ order \in [DOMAIN s -> DOMAIN s]
      /\ \A w \in DOMAIN s : \E v \in DOMAIN s : order[v] = w
  BY <1>1 DEF Bijection, Surjection
<1>3. DOMAIN s = 1 .. Len(s) /\ Len(s) \in Nat OBVIOUS
<1>4. t \in Seq(MeasuredPoints) BY <1>1, <1>2, <1>3
<1>5. ASSUME NEW x \in Times(t) PROVE x \in Times(s) BY <1>1, <1>2, <1>5 DEF Times
<1>6. ASSUME NEW x \in Times(s) PROVE x \in Times(t)
  <2>1. PICK w \in DOMAIN s : x = s[w].measured BY <1>6 DEF Times
  <2>2. PICK v \in DOMAIN s : order[v] = w BY <1>2
  <2> QED BY <1>1, <2>1, <2>2 DEF Times
<1> QED BY <1>4, <1>5, <1>6

LEMMA ProcessedFits ==
  ASSUME NEW m, m.stamp \in Int, m.offsets \in Seq(Int)
  PROVE  Processed(m) \in Seq(MeasuredPoints) /\ Fits(m.stamp, Processed(m))
<1>1. /\ DOMAIN m.offsets = 1 .. Len(m.offsets) /\ Len(m.offsets) \in Nat
      /\ \A k \in DOMAIN m.offsets : m.offsets[k] \in Int
  OBVIOUS
<1>2. \A k \in DOMAIN m.offsets :
        /\ Point(m.stamp + m.offsets[k], m.offsets[k]) \in MeasuredPoints
        /\ m.stamp + m.offsets[k] = Point(m.stamp + m.offsets[k], m.offsets[k]).measured
        /\ Point(m.stamp + m.offsets[k], m.offsets[k]).curvature = m.offsets[k]
  BY <1>1 DEF Point, MeasuredPoints
<1>3. /\ DOMAIN Processed(m) = DOMAIN m.offsets
      /\ \A k \in DOMAIN m.offsets :
           Processed(m)[k] = Point(m.stamp + m.offsets[k], m.offsets[k])
      /\ Processed(m) = [k \in 1 .. Len(m.offsets) |-> Processed(m)[k]]
  BY <1>1 DEF Processed
<1>4. Processed(m) \in Seq(MeasuredPoints)
  <2>1. Processed(m) \in [1 .. Len(m.offsets) -> MeasuredPoints] BY <1>1, <1>2, <1>3
  <2>2. \A n \in Nat : [1 .. n -> MeasuredPoints] \subseteq Seq(MeasuredPoints) BY SeqDef
  <2> HIDE DEF MeasuredPoints
  <2> QED BY <1>1, <2>1, <2>2
<1> QED BY <1>2, <1>3, <1>4 DEF Fits

\* What of the invariant is about the scans that wait, after one is appended.
LEMMA AppendedFits ==
  ASSUME IntakeInv, NEW scan \in Scans, lidar_buffer' = Append(lidar_buffer, scan),
         UNCHANGED mode, mode # "cut" => Fits(scan.beg, scan.points)
  PROVE  /\ lidar_buffer' \in Seq(Scans)
         /\ Held(lidar_buffer') = Held(lidar_buffer) \union Times(scan.points)
         /\ mode' # "cut" =>
              \A n \in DOMAIN lidar_buffer' : Fits(lidar_buffer'[n].beg, lidar_buffer'[n].points)
<1>1. lidar_buffer \in Seq(Scans) BY DEF IntakeInv
<1>2. /\ lidar_buffer' \in Seq(Scans)
      /\ \A n \in DOMAIN lidar_buffer' :
           (n \in DOMAIN lidar_buffer /\ lidar_buffer'[n] = lidar_buffer[n]) \/ lidar_buffer'[n] = scan
  BY <1>1
<1>3. Held(lidar_buffer') = Held(lidar_buffer) \union Times(scan.points)
  BY <1>1, HeldOfAppend
<1> QED BY <1>2, <1>3 DEF IntakeInv

LEMMA TimesOfNone == Times(<<>>) = {} BY DEF Times

LEMMA PlainKeeps ==
  ASSUME IntakeInv, NEW m, m.stamp \in Int, m.offsets \in Seq(Int), Plain(m)
  PROVE  IntakeInv'
<1> DEFINE scan == Scan(m.stamp, Processed(m))
<1>1. Processed(m) \in Seq(MeasuredPoints) /\ Fits(m.stamp, Processed(m)) BY ProcessedFits
<1>2. scan \in Scans /\ scan.beg = m.stamp /\ scan.points = Processed(m)
  BY <1>1 DEF Scan, Scans
<1>3. /\ mode = "plain" /\ lidar_buffer' = Append(lidar_buffer, scan)
      /\ measured' = measured \union Times(scan.points)
      /\ UNCHANGED <<mode, consumed, ptr, ptr_div, time_div, ptr_con, time_con, frame_ct>>
  BY <1>2 DEF Plain, Accepts, Arrives, cutVars, conVars
<1> HIDE DEF scan
<1>4. /\ lidar_buffer' \in Seq(Scans)
      /\ Held(lidar_buffer') = Held(lidar_buffer) \union Times(scan.points)
      /\ mode' # "cut" =>
           \A n \in DOMAIN lidar_buffer' : Fits(lidar_buffer'[n].beg, lidar_buffer'[n].points)
  BY <1>1, <1>2, <1>3, AppendedFits
<1> QED BY <1>3, <1>4 DEF IntakeInv

LEMMA StartCutKeeps ==
  ASSUME IntakeInv, NEW m, m.stamp \in Int, m.offsets \in Seq(Int), StartCut(m)
  PROVE  IntakeInv'
<1>1. Processed(m) \in Seq(MeasuredPoints) BY ProcessedFits
<1>2. /\ mode = "cut" /\ ptr = <<>> /\ ptr' \in Sorted(Processed(m)) /\ time_div' = m.stamp
      /\ measured' = measured \union Times(Processed(m))
      /\ UNCHANGED <<mode, lidar_buffer, consumed, ptr_div, ptr_con, time_con, frame_ct>>
  BY DEF StartCut, Accepts, Arrives, Idle, conVars
<1>3. ptr' \in Seq(MeasuredPoints) /\ Times(ptr') = Times(Processed(m))
  BY <1>1, <1>2, TimesOfSorted
<1>4. measured' = Held(lidar_buffer) \union Times(ptr') \union Times(ptr_div)
                  \union Times(ptr_con) \union consumed
  BY <1>2, <1>3, TimesOfNone DEF IntakeInv
<1> QED BY <1>2, <1>3, <1>4 DEF IntakeInv

LEMMA CutPointKeeps == ASSUME IntakeInv, CutPoint PROVE IntakeInv'
<1>0. mode = "cut" BY DEF IntakeInv, CutPoint
<1> DEFINE p == Head(ptr)
           sub == Append(ptr_div, p)
<1>1. /\ p \in MeasuredPoints /\ Tail(ptr) \in Seq(MeasuredPoints)
      /\ Times(ptr) = {p.measured} \union Times(Tail(ptr))
  BY TimesOfTail DEF IntakeInv, CutPoint
<1>2. sub \in Seq(MeasuredPoints) /\ Times(sub) = Times(ptr_div) \union {p.measured}
  BY <1>1, TimesOfAppend DEF IntakeInv
<1>3. /\ ptr' = Tail(ptr)
      /\ UNCHANGED <<mode, measured, consumed, ptr_con, time_con, frame_ct>>
      /\ \/ /\ lidar_buffer' = Append(lidar_buffer, Scan(time_div, sub))
            /\ time_div' = time_div + p.curvature /\ ptr_div' = <<>>
         \/ ptr_div' = sub /\ UNCHANGED <<lidar_buffer, time_div>>
  BY DEF CutPoint, conVars
<1> HIDE DEF sub, p
<1>4. CASE /\ lidar_buffer' = Append(lidar_buffer, Scan(time_div, sub))
           /\ time_div' = time_div + p.curvature /\ ptr_div' = <<>>
  <2> DEFINE scan == Scan(time_div, sub)
  <2>1. scan \in Scans /\ scan.points = sub BY <1>2 DEF Scan, Scans, IntakeInv
  <2>2. lidar_buffer' \in Seq(Scans)
        /\ Held(lidar_buffer') = Held(lidar_buffer) \union Times(sub)
    BY <1>0, <1>3, <1>4, <2>1, AppendedFits
  <2>3. measured' = Held(lidar_buffer') \union Times(ptr') \union Times(ptr_div')
                    \union Times(ptr_con') \union consumed'
    BY <1>0, <1>1, <1>2, <1>3, <1>4, <2>2, TimesOfNone DEF IntakeInv
  <2>4. time_div' \in Int BY <1>1, <1>4 DEF IntakeInv, MeasuredPoints
  <2>5. ptr_div' \in Seq(MeasuredPoints) BY <1>4
  <2> QED BY <1>0, <1>1, <1>3, <2>2, <2>3, <2>4, <2>5 DEF IntakeInv
<1>5. CASE ptr_div' = sub /\ UNCHANGED <<lidar_buffer, time_div>>
  <2>1. measured' = Held(lidar_buffer') \union Times(ptr') \union Times(ptr_div')
                    \union Times(ptr_con') \union consumed'
    BY <1>0, <1>1, <1>2, <1>3, <1>5 DEF IntakeInv
  <2> QED BY <1>0, <1>1, <1>2, <1>3, <1>5, <2>1 DEF IntakeInv
<1> QED BY <1>3, <1>4, <1>5

LEMMA EndCutKeeps == ASSUME IntakeInv, EndCut PROVE IntakeInv'
<1>0. mode = "cut" BY DEF IntakeInv, EndCut
<1> DEFINE scan == Scan(time_div, ptr_div)
<1>1. scan \in Scans /\ scan.points = ptr_div BY DEF Scan, Scans, IntakeInv
<1>2. /\ lidar_buffer' = Append(lidar_buffer, scan) /\ ptr_div' = <<>>
      /\ UNCHANGED <<mode, measured, consumed, ptr, time_div, ptr_con, time_con, frame_ct>>
  BY DEF EndCut, conVars
<1>3. lidar_buffer' \in Seq(Scans)
      /\ Held(lidar_buffer') = Held(lidar_buffer) \union Times(ptr_div)
  BY <1>0, <1>1, <1>2, AppendedFits
<1>4. measured' = Held(lidar_buffer') \union Times(ptr') \union Times(ptr_div')
                  \union Times(ptr_con') \union consumed'
  BY <1>0, <1>2, <1>3, TimesOfNone DEF IntakeInv
<1>5. ptr_div' \in Seq(MeasuredPoints) BY <1>2
<1> QED BY <1>0, <1>2, <1>3, <1>4, <1>5 DEF IntakeInv

LEMMA CombineKeeps ==
  ASSUME IntakeInv, NEW m, m.stamp \in Int, m.offsets \in Seq(Int), Combine(m)
  PROVE  IntakeInv'
<1> DEFINE points == Processed(m)
           moved == [k \in DOMAIN points |->
                       [points[k] EXCEPT !.curvature = @ + m.stamp - time_con']]
<1>1. points \in Seq(MeasuredPoints) /\ Fits(m.stamp, points) BY ProcessedFits
<1>2. /\ mode = "combine" /\ time_con' = IF frame_ct = 0 THEN m.stamp ELSE time_con
      /\ ptr_con' = ptr_con \o moved /\ frame_ct' = frame_ct + 1
      /\ UNCHANGED <<mode, lidar_buffer, ptr, ptr_div, time_div>>
  BY DEF Combine, Accepts, Arrives, cutVars
<1>3. /\ frame_ct \in Nat /\ time_con \in Int /\ ptr_con \in Seq(MeasuredPoints)
      /\ Fits(time_con, ptr_con) /\ (frame_ct = 0 => ptr_con = <<>>)
  BY <1>2 DEF IntakeInv
<1> HIDE DEF points
<1>4. PICK t \in Int : t = time_con' BY <1>2, <1>3
<1>5. \A p \in MeasuredPoints : m.stamp + p.curvature = p.measured =>
        LET q == [p EXCEPT !.curvature = @ + m.stamp - t]
        IN q \in MeasuredPoints /\ t + q.curvature = q.measured
  <2> SUFFICES ASSUME NEW p \in MeasuredPoints, m.stamp + p.curvature = p.measured
               PROVE  LET q == [p EXCEPT !.curvature = @ + m.stamp - t]
                      IN q \in MeasuredPoints /\ t + q.curvature = q.measured
    OBVIOUS
  <2>1. p.curvature \in Int /\ p.measured \in Int BY DEF MeasuredPoints
  <2>2. PICK c \in Int : c = p.curvature + m.stamp - t /\ t + c = p.measured
    BY <2>1
  <2>3. [p EXCEPT !.curvature = @ + m.stamp - t] = [measured |-> p.measured, curvature |-> c]
    BY <2>2 DEF MeasuredPoints
  <2> QED BY <2>1, <2>2, <2>3 DEF MeasuredPoints
<1>6. /\ DOMAIN moved = DOMAIN points
      /\ \A k \in DOMAIN points : moved[k] = [points[k] EXCEPT !.curvature = @ + m.stamp - t]
  BY <1>4
<1>7. moved \in Seq(MeasuredPoints) /\ Fits(t, moved)
  <2>1. \A k \in DOMAIN points : points[k] \in MeasuredPoints BY <1>1
  <2>2. \A k \in DOMAIN points : moved[k] \in MeasuredPoints
                                 /\ t + moved[k].curvature = moved[k].measured
    BY <1>1, <1>5, <1>6, <2>1 DEF Fits
  <2>3. DOMAIN points = 1 .. Len(points) /\ Len(points) \in Nat BY <1>1
  <2>4. moved \in [1 .. Len(points) -> MeasuredPoints] BY <1>6, <2>2, <2>3
  <2>5. \A n \in Nat : [1 .. n -> MeasuredPoints] \subseteq Seq(MeasuredPoints) BY SeqDef
  <2> HIDE DEF moved
  <2>6. moved \in Seq(MeasuredPoints) BY <2>3, <2>4, <2>5
  <2> QED BY <1>6, <2>2, <2>6 DEF Fits
<1> HIDE DEF moved
<1>8. Fits(t, ptr_con) BY <1>2, <1>3, <1>4 DEF Fits
<1>9. ptr_con' \in Seq(MeasuredPoints) /\ Fits(time_con', ptr_con')
  <2>1. /\ ptr_con' \in Seq(MeasuredPoints)
        /\ \A k \in DOMAIN ptr_con' :
             \/ k \in DOMAIN ptr_con /\ ptr_con'[k] = ptr_con[k]
             \/ k - Len(ptr_con) \in DOMAIN moved /\ ptr_con'[k] = moved[k - Len(ptr_con)]
    BY <1>2, <1>3, <1>7
  <2>2. Fits(t, ptr_con') BY <1>7, <1>8, <2>1 DEF Fits
  <2> QED BY <1>4, <2>1, <2>2
<1>10. frame_ct' \in Nat /\ frame_ct' # 0 BY <1>2, <1>3
<1> QED BY <1>2, <1>4, <1>9, <1>10 DEF IntakeInv

LEMMA PushCombinedKeeps ==
  ASSUME IntakeInv, NEW m, PushCombined(m) PROVE IntakeInv'
<1> DEFINE scan == Scan(time_con, ptr_con)
<1>1. /\ mode = "combine" /\ lidar_buffer' = Append(lidar_buffer, scan)
      /\ ptr_con' = <<>> /\ frame_ct' = 0
      /\ UNCHANGED <<mode, ptr, ptr_div, time_div, time_con>>
  BY DEF PushCombined, Accepts, Arrives, cutVars
<1>2. scan \in Scans /\ Fits(scan.beg, scan.points) BY <1>1 DEF Scan, Scans, IntakeInv
<1> HIDE DEF scan
<1>3. /\ lidar_buffer' \in Seq(Scans)
      /\ mode' # "cut" =>
           \A n \in DOMAIN lidar_buffer' : Fits(lidar_buffer'[n].beg, lidar_buffer'[n].points)
  BY <1>1, <1>2, AppendedFits
<1>4. ptr_con' \in Seq(MeasuredPoints) /\ Fits(time_con', ptr_con') BY <1>1 DEF Fits
<1> QED BY <1>1, <1>3, <1>4 DEF IntakeInv

LEMMA SyncPackagesKeeps == ASSUME IntakeInv, SyncPackages PROVE IntakeInv'
<1>1. /\ lidar_buffer # <<>> /\ lidar_buffer' = Tail(lidar_buffer)
      /\ consumed' = consumed \union Times(Head(lidar_buffer).points)
      /\ UNCHANGED <<mode, measured, ptr, ptr_div, time_div, ptr_con, time_con, frame_ct>>
  BY DEF SyncPackages, cutVars, conVars
<1>2. lidar_buffer \in Seq(Scans) BY DEF IntakeInv
<1>3. /\ lidar_buffer' \in Seq(Scans)
      /\ Held(lidar_buffer) = Times(Head(lidar_buffer).points) \union Held(lidar_buffer')
      /\ \A k \in DOMAIN lidar_buffer' :
           k + 1 \in DOMAIN lidar_buffer /\ lidar_buffer'[k] = lidar_buffer[k + 1]
  BY <1>1, <1>2, HeldOfTail
<1>4. mode' # "cut" =>
        \A n \in DOMAIN lidar_buffer' : Fits(lidar_buffer'[n].beg, lidar_buffer'[n].points)
  BY <1>1, <1>3 DEF IntakeInv
<1>5. mode' # "combine" =>
        measured' = Held(lidar_buffer') \union Times(ptr') \union Times(ptr_div')
                    \union Times(ptr_con') \union consumed'
  BY <1>1, <1>3 DEF IntakeInv
<1> QED BY <1>1, <1>3, <1>4, <1>5 DEF IntakeInv

LEMMA ReceiveKeeps ==
  ASSUME IntakeInv, NEW m, m.stamp \in Int, m.offsets \in Seq(Int), Receive(m)
  PROVE  IntakeInv'
<1>1. CASE LoopBack(m) BY <1>1 DEF LoopBack, Arrives, cutVars, conVars, IntakeInv
<1>2. CASE Plain(m) BY <1>2, PlainKeeps
<1>3. CASE StartCut(m) BY <1>3, StartCutKeeps
<1>4. CASE Combine(m) BY <1>4, CombineKeeps
<1>5. CASE PushCombined(m) BY <1>5, PushCombinedKeeps
<1> QED BY <1>1, <1>2, <1>3, <1>4, <1>5 DEF Receive

LEMMA IntakeStep == IntakeInv /\ [Next]_vars => IntakeInv'
<1> SUFFICES ASSUME IntakeInv, [Next]_vars PROVE IntakeInv' OBVIOUS
<1>1. ASSUME NEW m \in [stamp : Stamps, offsets : Messages], Receive(m) PROVE IntakeInv'
  <2>1. m.offsets \in Messages OBVIOUS
  <2>2. m.stamp \in Int
    <3>1. PICK t \in Stamps : m.stamp = t OBVIOUS
    <3>2. Stamps \subseteq Nat BY IntakeAssumption
    <3>3. t \in Int BY <3>2
    <3> QED BY <3>1, <3>3
  <2>3. m.offsets \in Seq(Int)
    <3>1. Seq(Nat) \subseteq Seq(Int)
      <4>1. \A n \in Nat : [1 .. n -> Nat] \subseteq [1 .. n -> Int] OBVIOUS
      <4> QED BY <4>1, SeqDef
    <3> QED BY <2>1, <3>1, IntakeAssumption
  <2> QED BY <1>1, <2>2, <2>3, ReceiveKeeps
<1>2. CASE CutPoint BY <1>2, CutPointKeeps
<1>3. CASE EndCut BY <1>3, EndCutKeeps
<1>4. CASE SyncPackages BY <1>4, SyncPackagesKeeps
<1>5. CASE UNCHANGED vars BY <1>5 DEF vars, cutVars, conVars, IntakeInv
<1> QED BY <1>1, <1>2, <1>3, <1>4, <1>5 DEF Next

-------------------------------------------------------------------------------
(* The front end.                                                          *)

\* Of the handlers only one runs.
FrontEndInv ==
  /\ IntakeInv /\ RingInv
  /\ lidar_type = "AVIA" => TimeInv
  /\ lidar_type # "AVIA" => pl_surf = <<>>

LEMMA KeptIsTimes == FrontEndInv => Kept \in Seq(Int)
<1> SUFFICES ASSUME FrontEndInv PROVE Kept \in Seq(Int) OBVIOUS
<1>1. \A n \in Nat : [1 .. n -> Int] \subseteq Seq(Int) BY SeqDef
<1>2. CASE lidar_type = "AVIA"
  <2>1. pl_surf \in Seq(KeptPoints) BY <1>2 DEF FrontEndInv, TimeInv
  <2>2. /\ Len(pl_surf) \in Nat /\ DOMAIN pl_surf = 1 .. Len(pl_surf)
        /\ \A k \in DOMAIN pl_surf : pl_surf[k] \in KeptPoints
    BY <2>1
  <2>3. Kept = [k \in 1 .. Len(pl_surf) |-> pl_surf[k].curvature] BY <1>2, <2>2 DEF Kept
  <2>4. \A k \in DOMAIN pl_surf : pl_surf[k].curvature \in Int BY <2>2 DEF KeptPoints
  <2>5. Kept \in [1 .. Len(pl_surf) -> Int] BY <2>2, <2>3, <2>4
  <2> QED BY <1>1, <2>2, <2>5
<1>3. CASE lidar_type # "AVIA"
  <2>1. pl_added \in Seq(AddedPoints) BY DEF FrontEndInv, RingInv
  <2>2. /\ Len(pl_added) \in Nat /\ DOMAIN pl_added = 1 .. Len(pl_added)
        /\ \A k \in DOMAIN pl_added : pl_added[k] \in AddedPoints
    BY <2>1
  <2>3. Kept = [k \in 1 .. Len(pl_added) |-> pl_added[k].curvature] BY <1>3, <2>2 DEF Kept
  <2>4. \A k \in DOMAIN pl_added : pl_added[k].curvature \in Int BY <2>2 DEF AddedPoints
  <2>5. Kept \in [1 .. Len(pl_added) -> Int] BY <2>2, <2>3, <2>4
  <2> QED BY <1>1, <2>2, <2>5
<1> QED BY <1>2, <1>3

LEMMA FrontEndAtFirst == FrontEndInit => FrontEndInv
<1> SUFFICES ASSUME FrontEndInit PROVE FrontEndInv OBVIOUS
<1>1. Init /\ PreprocessInit /\ HandlerInit BY DEF FrontEndInit, PreprocessInit
<1>2. IntakeInv
  <2>1. /\ lidar_buffer \in Seq(Scans) /\ DOMAIN lidar_buffer = {}
        /\ ptr \in Seq(MeasuredPoints) /\ ptr_div \in Seq(MeasuredPoints)
        /\ ptr_con \in Seq(MeasuredPoints) /\ DOMAIN ptr_con = {}
    BY <1>1 DEF Init
  <2>2. Held(lidar_buffer) = {} BY <2>1 DEF Held
  <2> QED BY <1>1, <2>1, <2>2, TimesOfNone DEF Init, IntakeInv, Fits
<1> QED BY <1>1, <1>2, TimeAtFirst, RingAtFirst DEF FrontEndInv, HandlerInit

LEMMA ProcessKeeps == ASSUME FrontEndInv, Process PROVE FrontEndInv'
<1>1. ProcessPoint /\ UNCHANGED vars BY DEF Process
<1>2. IntakeInv' BY <1>1, IntakeStep DEF FrontEndInv
<1>3. RingInv' BY <1>1, RingStep DEF FrontEndInv
<1>4. UNCHANGED lidar_type BY <1>1 DEF ProcessPoint
<1>5. CASE lidar_type = "AVIA"
  <2>1. NextPoint BY <1>1, <1>5 DEF ProcessPoint, VelodynePoint, HesaiPoint
  <2>2. TimeInv' BY <1>5, <2>1, TimeStep DEF FrontEndInv
  <2> QED BY <1>2, <1>3, <1>4, <1>5, <2>2 DEF FrontEndInv
<1>6. CASE lidar_type # "AVIA"
  <2>1. UNCHANGED pl_surf BY <1>1, <1>6 DEF ProcessPoint
  <2> QED BY <1>2, <1>3, <1>4, <1>6, <2>1 DEF FrontEndInv
<1> QED BY <1>5, <1>6

LEMMA ReceiveProcessedKeeps == ASSUME FrontEndInv, ReceiveProcessed PROVE FrontEndInv'
<1>1. IntakeInv'
  <2>1. PICK base_time \in Stamps : Receive(CustomMsg(base_time)) BY DEF ReceiveProcessed
  <2>2. base_time \in Int
    <3>1. Stamps \subseteq Nat BY IntakeAssumption
    <3> QED BY <3>1
  <2>3. Kept \in Seq(Int) BY KeptIsTimes
  <2>4. CustomMsg(base_time).stamp \in Int /\ CustomMsg(base_time).offsets \in Seq(Int)
    BY <2>2, <2>3 DEF CustomMsg
  <2>5. IntakeInv BY DEF FrontEndInv
  <2> QED BY <2>1, <2>4, <2>5, ReceiveKeeps
<1>2. /\ offset' = 0 /\ previous' = Unfilled /\ pl_surf' = <<>>
      /\ regular' = TRUE /\ forward' = TRUE /\ latest' = 0
      /\ is_first' = [layer \in Rings |-> TRUE] /\ orderly' = [layer \in Rings |-> TRUE]
      /\ yaw_fp' = [layer \in Rings |-> 0] /\ yaw_last' = [layer \in Rings |-> 0]
      /\ time_last' = [layer \in Rings |-> 0] /\ turned' = [layer \in Rings |-> 0]
      /\ pl_added' = <<>>
  BY DEF ReceiveProcessed
<1>3. RingInv'
  <2>1. pl_added' \in Seq(AddedPoints) /\ DOMAIN pl_added' = {} BY <1>2
  <2> QED BY <1>2, <2>1 DEF RingInv
<1>4. TimeInv'
  <2>1. pl_surf' \in Seq(KeptPoints) /\ DOMAIN pl_surf' = {} BY <1>2
  <2> QED BY <1>2, <2>1 DEF TimeInv, Unfilled
<1> QED BY <1>1, <1>2, <1>3, <1>4 DEF FrontEndInv

LEMMA FrontEndStep == FrontEndInv /\ [FrontEndNext]_frontEndVars => FrontEndInv'
<1> SUFFICES ASSUME FrontEndInv, [FrontEndNext]_frontEndVars PROVE FrontEndInv' OBVIOUS
<1>1. CASE Process BY <1>1, ProcessKeeps
<1>2. CASE ReceiveProcessed BY <1>2, ReceiveProcessedKeeps
<1>3. ASSUME [Next]_vars, UNCHANGED filterVars PROVE FrontEndInv'
  <2>1. IntakeInv' BY <1>3, IntakeStep DEF FrontEndInv
  <2>2. UNCHANGED <<lidar_type, handlerVars, spinningVars>> BY <1>3 DEF filterVars
  <2>3. RingInv' BY <2>2, RingStep DEF FrontEndInv
  <2>4. lidar_type = "AVIA" => TimeInv' BY <2>2, TimeStep DEF FrontEndInv
  <2>5. UNCHANGED <<lidar_type, pl_surf>> BY <2>2 DEF handlerVars
  <2> QED BY <2>1, <2>3, <2>4, <2>5 DEF FrontEndInv
<1>4. CASE GoOn BY <1>3, <1>4 DEF GoOn
<1>5. CASE UNCHANGED frontEndVars BY <1>3, <1>5 DEF frontEndVars
<1> QED BY <1>1, <1>2, <1>4, <1>5 DEF FrontEndNext

\* The filter of the lidar and the intake keep their invariants, whatever the lidar
\* type, the mode, the points and the messages (livox_pcl_cbk, standard_pcl_cbk).
THEOREM FrontEndInvariant == FrontEndSpec => []FrontEndInv
BY FrontEndAtFirst, FrontEndStep, PTL DEF FrontEndSpec

\* For any noise, filter and threshold, and times that may go back and wrap around:
\* no kept point is put after the latest time by more than the steps put in, none
\* after its own while the time goes forward, and each at its own while the message
\* is regular (Lddc::FillPointsToCustomMsg, Preprocess::avia_handler).
THEOREM PointsKeepTheTime == FrontEndSpec => []CurvatureIsTime
<1>1. FrontEndInv => CurvatureIsTime
  <2> SUFFICES ASSUME FrontEndInv PROVE CurvatureIsTime OBVIOUS
  <2>1. CASE lidar_type = "AVIA" BY <2>1, TimeIsKept DEF FrontEndInv
  <2>2. CASE lidar_type # "AVIA"
    <3>1. DOMAIN pl_surf = {} BY <2>2 DEF FrontEndInv
    <3> QED BY <3>1 DEF CurvatureIsTime
  <2> QED BY <2>1, <2>2
<1> QED BY <1>1, FrontEndInvariant, PTL

\* The time velodyne_handler or hesai_handler derives from an azimuth is never
\* before the point's own, late by whole turns only, and right in a ring whose
\* azimuths have not moved back: the end of a scan is never put before its last
\* point.
THEOREM RingTimes == FrontEndSpec => []RingTimeIsTurned
<1>1. FrontEndInv => RingTimeIsTurned BY RingIsRight DEF FrontEndInv
<1> QED BY <1>1, FrontEndInvariant, PTL

\* A point of a scan in lidar_buffer has the time it was measured at, for any number
\* of messages combined (con_frame), unless cut_frame is on.
THEOREM TimesAreKept == FrontEndSpec => []PointsKeepTheirTime
<1>1. FrontEndInv => PointsKeepTheirTime
  BY DEF FrontEndInv, IntakeInv, Fits, PointsKeepTheirTime
<1> QED BY <1>1, FrontEndInvariant, PTL

\* A message taken as it is or cut loses no point, however it is sorted and wherever
\* it is cut.
THEOREM PointsAreNotLost == FrontEndSpec => []NoPointLost
<1>1. FrontEndInv => NoPointLost
  <2> SUFFICES ASSUME FrontEndInv, mode # "combine" PROVE EveryPointIsHeld BY DEF NoPointLost
  <2>1. measured = Held(lidar_buffer) \union Times(ptr) \union Times(ptr_div)
                   \union Times(ptr_con) \union consumed
    BY DEF FrontEndInv, IntakeInv
  <2>2. Held(lidar_buffer) = UNION {Times(lidar_buffer[k].points) : k \in DOMAIN lidar_buffer}
    BY Zenon DEF Held
  <2> QED BY <2>1, <2>2 DEF EveryPointIsHeld
<1> QED BY <1>1, FrontEndInvariant, PTL
===============================================================================
