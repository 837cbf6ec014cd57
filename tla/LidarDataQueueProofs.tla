-------------------------- MODULE LidarDataQueueProofs --------------------------
(***************************************************************************)
(* Proofs about the packet ring for every power-of-two size and index      *)
(* width (RingAssumption), and for every number of packets.                *)
(***************************************************************************)
EXTENDS LidarDataQueue, TLAPS

(* Facts about %, for rings with wrapping indices.                         *)

\* Euclidean division by a positive number.
LEMMA DivMod ==
  ASSUME NEW a \in Int, NEW m \in Nat \ {0}
  PROVE  /\ a \div m \in Int
         /\ a % m \in 0 .. m - 1
         /\ a = m * (a \div m) + (a % m)
  OBVIOUS

\* The only multiple of m strictly between -m and m is zero.
LEMMA OnlyZeroIsSmall ==
  ASSUME NEW m \in Nat \ {0}, NEW d \in Int, m * d < m, m * d > -m
  PROVE  d = 0
<1>1. CASE d >= 1
  <2>1. m * (d - 1) >= 0 BY <1>1
  <2> QED BY <2>1
<1>2. CASE d <= -1
  <2>1. m * (-1 - d) >= 0 BY <1>2
  <2> QED BY <2>1
<1> QED BY <1>1, <1>2

\* Quotient and remainder are unique.
LEMMA ModOfSum ==
  ASSUME NEW m \in Nat \ {0}, NEW q \in Int, NEW r \in 0 .. m - 1
  PROVE  (m * q + r) % m = r
<1>1. m * q + r \in Int OBVIOUS
<1>2. PICK p \in Int, s \in 0 .. m - 1 : m * q + r = m * p + s /\ s = (m * q + r) % m
  BY <1>1, DivMod
<1>3. m * (q - p) = s - r  BY <1>2
<1>4. q - p = 0 BY <1>3, OnlyZeroIsSmall
<1> QED BY <1>2, <1>3, <1>4

\* Reducing by a multiple of s first does not change the remainder by s.
LEMMA ModOfMod ==
  ASSUME NEW m \in Nat \ {0}, NEW s \in Nat \ {0}, m % s = 0, NEW a \in Int
  PROVE  (a % m) % s = a % s
<1>1. PICK k \in Int : m = s * k
  <2>1. /\ m \div s \in Int
        /\ m = s * (m \div s) + (m % s)
    BY DivMod
  <2>2. m = s * (m \div s) BY <2>1
  <2> QED BY <2>1, <2>2
<1>2. PICK q \in Int : a = m * q + (a % m) BY DivMod
<1>3. PICK p \in Int, r \in 0 .. s - 1 : a % m = s * p + r
  <2> DEFINE b == a % m
  <2>1. b \in Int BY DivMod
  <2>2. /\ b \div s \in Int
        /\ b % s \in 0 .. s - 1
        /\ b = s * (b \div s) + (b % s)
    <3> HIDE DEF b
    <3> QED BY <2>1, DivMod
  <2> QED BY <2>2
<1>4. a = s * (k * q + p) + r
  <2>1. (s * k) * q = s * (k * q) OBVIOUS
  <2>2. s * (k * q + p) = s * (k * q) + s * p OBVIOUS
  <2> QED BY <1>1, <1>2, <1>3, <2>1, <2>2
<1>5. (s * (k * q + p) + r) % s = r BY ModOfSum
<1>6. (s * p + r) % s = r BY ModOfSum
<1> QED BY <1>3, <1>4, <1>5, <1>6

\* Incrementing a reduced counter is reducing the incremented one.
LEMMA ModOfIncrement ==
  ASSUME NEW m \in Nat \ {0}, NEW a \in Int
  PROVE  ((a % m) + 1) % m = (a + 1) % m
<1>1. PICK q \in Int, r \in 0 .. m - 1 : a = m * q + r /\ r = a % m BY DivMod
<1>2. PICK p \in Int, t \in 0 .. m - 1 : r + 1 = m * p + t /\ t = (r + 1) % m
  <2>1. r + 1 \in Int OBVIOUS
  <2> QED BY <2>1, DivMod
<1>3. a + 1 = m * (q + p) + t BY <1>1, <1>2
<1>4. (m * (q + p) + t) % m = t BY ModOfSum
<1> QED BY <1>1, <1>2, <1>3, <1>4

\* The difference of two reduced counters, reduced, is their distance as long
\* as the distance is less than the modulus.
LEMMA ModOfDifference ==
  ASSUME NEW m \in Nat \ {0}, NEW a \in Int, NEW b \in Int, b <= a, a - b < m
  PROVE  ((a % m) - (b % m)) % m = a - b
<1>1. PICK q \in Int, r \in 0 .. m - 1 : a = m * q + r /\ r = a % m BY DivMod
<1>2. PICK p \in Int, s \in 0 .. m - 1 : b = m * p + s /\ s = b % m BY DivMod
<1>3. r - s = m * (p - q) + (a - b) BY <1>1, <1>2
<1>4. (m * (p - q) + (a - b)) % m = a - b BY ModOfSum
<1> QED BY <1>1, <1>2, <1>3, <1>4

\* Two numbers less than s apart with the same remainder by s are equal.
LEMMA ModSeparates ==
  ASSUME NEW s \in Nat \ {0}, NEW a \in Int, NEW b \in Int,
         a - b < s, b - a < s, a % s = b % s
  PROVE  a = b
<1>1. PICK q \in Int : a = s * q + (a % s) BY DivMod
<1>2. PICK p \in Int : b = s * p + (b % s) BY DivMod
<1>3. a % s \in Int BY DivMod
<1>4. a - b = s * (q - p) BY <1>1, <1>2, <1>3
<1>5. q - p = 0 BY <1>4, OnlyZeroIsSmall
<1> QED BY <1>4, <1>5

\* Adding to a reduced counter, as ModOfMod.
LEMMA ModOfShifted ==
  ASSUME NEW m \in Nat \ {0}, NEW s \in Nat \ {0}, m % s = 0,
         NEW a \in Int, NEW j \in Int
  PROVE  ((a % m) + j) % s = (a + j) % s
<1>1. PICK k \in Int : m = s * k
  <2>1. /\ m \div s \in Int
        /\ m = s * (m \div s) + (m % s)
    BY DivMod
  <2>2. m = s * (m \div s) BY <2>1
  <2> QED BY <2>1, <2>2
<1>2. PICK q \in Int, r \in 0 .. m - 1 : a = m * q + r /\ r = a % m BY DivMod
<1>3. PICK p \in Int, t \in 0 .. s - 1 : r + j = s * p + t
  <2>1. r + j \in Int OBVIOUS
  <2> DEFINE b == r + j
  <2>2. /\ b \div s \in Int
        /\ b % s \in 0 .. s - 1
        /\ b = s * (b \div s) + (b % s)
    <3> HIDE DEF b
    <3>1. b \in Int BY <2>1 DEF b
    <3> QED BY <3>1, DivMod
  <2> QED BY <2>2
<1>4. a + j = s * (k * q + p) + t
  <2>1. (s * k) * q = s * (k * q) OBVIOUS
  <2>2. s * (k * q + p) = s * (k * q) + s * p OBVIOUS
  <2> QED BY <1>1, <1>2, <1>3, <2>1, <2>2
<1>5. (s * (k * q + p) + t) % s = t BY ModOfSum
<1>6. (s * p + t) % s = t BY ModOfSum
<1> QED BY <1>2, <1>3, <1>4, <1>5, <1>6

-------------------------------------------------------------------------------
(* The ring.                                                               *)

\* The slot of the n-th packet, reached through its index.
LEMMA SlotOfCount ==
  ASSUME NEW n \in Nat, NEW idx, idx = n % IdxMod, mask = Size - 1
  PROVE  SlotOf(idx) = n % Size /\ n % Size \in Slots
<1>1. /\ IdxMod \in Nat \ {0} /\ Size \in Nat \ {0} /\ IdxMod % Size = 0
      /\ n \in Int
  BY RingAssumption
<1>2. (n % IdxMod) % Size = n % Size BY <1>1, ModOfMod
<1>3. mask + 1 = Size BY <1>1
<1>4. n % Size \in 0 .. Size - 1 BY <1>1, DivMod
<1> QED BY <1>2, <1>3, <1>4 DEF SlotOf, Slots

\* Incrementing an index follows incrementing the count it stands for.
LEMMA BumpOfCount ==
  ASSUME NEW n \in Nat
  PROVE  /\ Bump(n % IdxMod) = (n + 1) % IdxMod
         /\ (n + 1) % IdxMod \in 0 .. IdxMod - 1
<1>1. IdxMod \in Nat \ {0} /\ n \in Int BY RingAssumption
<1>2. ((n % IdxMod) + 1) % IdxMod = (n + 1) % IdxMod BY <1>1, ModOfIncrement
<1>3. (n + 1) % IdxMod \in 0 .. IdxMod - 1
  <2>1. n + 1 \in Int OBVIOUS
  <2> QED BY <1>1, <2>1, DivMod
<1> QED BY <1>2, <1>3 DEF Bump

\* The uint32_t difference of the indices is the number of packets in the ring.
LEMMA UsedIsDistance ==
  ASSUME Counting, accepted \in Nat, popped \in Nat
  PROVE  QueueUsedSize = accepted - popped
<1>1. /\ IdxMod \in Nat \ {0} /\ Size \in Nat \ {0} /\ accepted - popped < IdxMod
      /\ accepted \in Int /\ popped \in Int /\ popped <= accepted
  BY RingAssumption DEF Counting
<1>2. ((accepted % IdxMod) - (popped % IdxMod)) % IdxMod = accepted - popped
  BY <1>1, ModOfDifference
<1> QED BY <1>2 DEF QueueUsedSize, Counting

\* The indices are equal just when the ring is empty.
LEMMA EmptyIsEqualCounts ==
  ASSUME Counting, accepted \in Nat, popped \in Nat
  PROVE  QueueIsEmpty <=> accepted = popped
<1>1. /\ IdxMod \in Nat \ {0} /\ Size \in Nat \ {0}
      /\ accepted - popped < IdxMod /\ popped - accepted < IdxMod
      /\ accepted \in Int /\ popped \in Int
  BY RingAssumption DEF Counting
<1>2. accepted % IdxMod = popped % IdxMod => accepted = popped
  BY <1>1, ModSeparates
<1> QED BY <1>2 DEF QueueIsEmpty, Counting

\* Two packets that are in the ring together are in different slots.
LEMMA SlotsDiffer ==
  ASSUME NEW a \in Nat, NEW b \in Nat, a # b, a - b < Size, b - a < Size
  PROVE  a % Size # b % Size
<1>1. Size \in Nat \ {0} /\ a \in Int /\ b \in Int BY RingAssumption
<1> QED BY <1>1, ModSeparates

LEMMA InitRingInv == Init => RingInv
<1> SUFFICES ASSUME Init PROVE RingInv OBVIOUS
<1> USE DEF Init
<1>1. Size \in Nat \ {0} /\ IdxMod \in Nat \ {0} /\ MaxPackets \in Nat BY RingAssumption
<1>2. TypeOK
  <2>1. NoPacket \in Fields BY DEF NoPacket, Fields
  <2>2. IdxMod \in Nat \ {0} BY <1>1
  <2>3. 0 \in 0 .. IdxMod - 1 /\ 0 \in 0 .. MaxPackets BY <1>1
  <2>4. storage_packet \in [Slots -> Fields] BY <2>1
  <2> QED BY <2>1, <2>2, <2>3, <2>4 DEF TypeOK
<1>3. InitPhase BY DEF InitPhase
<1>4. 0 % IdxMod = 0 BY <1>1
<1>5. Counting BY <1>1, <1>4 DEF Counting
<1>6. Contents BY DEF Contents
<1> QED BY <1>2, <1>3, <1>5, <1>6 DEF RingInv

-------------------------------------------------------------------------------
(* The producer's and the consumer's steps preserve the invariant.         *)

LEMMA OfferStep == RingInv /\ Offer => RingInv'
<1> SUFFICES ASSUME RingInv, Offer PROVE RingInv' OBVIOUS
<1> USE DEF RingInv, Offer
<1>1. TypeOK' BY DEF TypeOK, Fields
<1>2. InitPhase' BY DEF InitPhase
<1>3. Counting' BY DEF Counting, TypeOK
<1>4. Contents' BY DEF Contents, InitPhase, Packet
<1> QED BY <1>1, <1>2, <1>3, <1>4

LEMMA InitQueueStep == RingInv /\ InitQueue => RingInv'
<1> SUFFICES ASSUME RingInv, InitQueue PROVE RingInv' OBVIOUS
<1> USE DEF RingInv, InitQueue
<1>0. Size \in Nat \ {0} /\ IdxMod \in Nat \ {0} /\ 0 \in 0 .. IdxMod - 1
  BY RingAssumption
<1>1. TypeOK' BY <1>0 DEF TypeOK
<1>2. InitPhase' BY DEF InitPhase
<1>3. Counting' BY DEF Counting, InitPhase
<1>4. Contents' BY DEF Contents
<1> QED BY <1>1, <1>2, <1>3, <1>4

LEMMA CheckFullStep == RingInv /\ CheckFull => RingInv'
<1> SUFFICES ASSUME RingInv, CheckFull PROVE RingInv' OBVIOUS
<1> USE DEF RingInv, CheckFull, ringVars
<1>1. TypeOK' BY DEF TypeOK
<1>2. InitPhase' BY DEF InitPhase
<1>3. Counting'
  <2>1. QueueUsedSize = accepted - popped BY UsedIsDistance DEF TypeOK
  <2>2. mask = Size - 1 BY DEF InitPhase
  <2>3. ppc' = "base_time" => accepted - popped < Size
    BY <2>1, <2>2, RingAssumption DEF QueueIsFull, Counting, TypeOK
  <2> QED BY <2>3 DEF Counting
<1>4. Contents' BY DEF Contents
<1> QED BY <1>1, <1>2, <1>3, <1>4

\* Filling the producer's slot leaves the packets in the ring as they are.
LEMMA FillingIsHarmless ==
  ASSUME RingInv, ppc \in {"base_time", "points"},
         NEW n \in popped .. accepted - 1
  PROVE  n % Size # accepted % Size
<1>1. /\ n \in Nat /\ accepted \in Nat /\ n # accepted
      /\ n - accepted < Size /\ accepted - n < Size
  BY RingAssumption DEF RingInv, TypeOK, Counting
<1> QED BY <1>1, SlotsDiffer

LEMMA WriteBaseTimeStep == RingInv /\ WriteBaseTime => RingInv'
<1> SUFFICES ASSUME RingInv, WriteBaseTime PROVE RingInv' OBVIOUS
<1> USE DEF RingInv, WriteBaseTime
<1>0. SlotOf(wr_idx) = accepted % Size /\ accepted % Size \in Slots
  BY SlotOfCount DEF InitPhase, Counting, TypeOK
<1>1. TypeOK' BY <1>0 DEF TypeOK, Fields
<1>2. InitPhase' BY DEF InitPhase
<1>3. Counting' BY DEF Counting
<1>4. Contents'
  <2>1. \A n \in popped .. accepted - 1 : storage_packet'[n % Size] = Packet(n)
    <3> TAKE n \in popped .. accepted - 1
    <3>1. n % Size # accepted % Size BY FillingIsHarmless
    <3>2. n % Size \in Slots
      BY RingAssumption, DivMod DEF Slots, TypeOK
    <3>3. storage_packet[n % Size] = Packet(n) BY DEF Contents
    <3> QED BY <1>0, <3>1, <3>2, <3>3 DEF TypeOK
  <2>2. storage_packet'[accepted % Size].base_time = accepted
    BY <1>0 DEF TypeOK, Fields
  <2> QED BY <2>1, <2>2 DEF Contents
<1> QED BY <1>1, <1>2, <1>3, <1>4

LEMMA WritePointsStep == RingInv /\ WritePoints => RingInv'
<1> SUFFICES ASSUME RingInv, WritePoints PROVE RingInv' OBVIOUS
<1> USE DEF RingInv, WritePoints
<1>0. SlotOf(wr_idx) = accepted % Size /\ accepted % Size \in Slots
  BY SlotOfCount DEF InitPhase, Counting, TypeOK
<1>1. TypeOK' BY <1>0 DEF TypeOK, Fields
<1>2. InitPhase' BY DEF InitPhase
<1>3. Counting' BY DEF Counting
<1>4. Contents'
  <2>1. \A n \in popped .. accepted - 1 : storage_packet'[n % Size] = Packet(n)
    <3> TAKE n \in popped .. accepted - 1
    <3>1. n % Size # accepted % Size BY FillingIsHarmless
    <3>2. n % Size \in Slots
      BY RingAssumption, DivMod DEF Slots, TypeOK
    <3>3. storage_packet[n % Size] = Packet(n) BY DEF Contents
    <3> QED BY <1>0, <3>1, <3>2, <3>3 DEF TypeOK
  <2>2. /\ storage_packet'[accepted % Size].points = accepted
        /\ storage_packet'[accepted % Size].base_time = accepted
    BY <1>0 DEF TypeOK, Fields, Contents
  <2> QED BY <2>1, <2>2 DEF Contents
<1> QED BY <1>1, <1>2, <1>3, <1>4

LEMMA PublishIndexStep == RingInv /\ PublishIndex => RingInv'
<1> SUFFICES ASSUME RingInv, PublishIndex PROVE RingInv' OBVIOUS
<1> USE DEF RingInv, PublishIndex
<1>0. wr_idx' = (accepted + 1) % IdxMod /\ wr_idx' \in 0 .. IdxMod - 1
  BY BumpOfCount DEF Counting, TypeOK
<1>1. TypeOK'
  <2>1. accepted < MaxPackets /\ accepted \in 0 .. MaxPackets /\ MaxPackets \in Nat
    BY RingAssumption DEF InitPhase, TypeOK
  <2>2. accepted' \in 0 .. MaxPackets BY <2>1
  <2> QED BY <1>0, <2>2 DEF TypeOK
<1>2. InitPhase' BY DEF InitPhase
<1>3. Counting' BY <1>0, RingAssumption DEF Counting, TypeOK
<1>4. Contents'
  <2>1. storage_packet[accepted % Size] = Packet(accepted)
    <3>1. accepted % Size \in Slots
      BY RingAssumption, DivMod DEF Slots, TypeOK
    <3>2. storage_packet[accepted % Size] \in Fields BY <3>1 DEF TypeOK
    <3> QED BY <3>2 DEF Contents, Packet, Fields
  <2>2. ASSUME NEW n \in popped .. accepted
        PROVE  storage_packet[n % Size] = Packet(n)
    BY <2>1 DEF Contents, TypeOK
  <2> QED BY <2>2 DEF Contents, TypeOK
<1> QED BY <1>1, <1>2, <1>3, <1>4

LEMMA CheckEmptyStep == RingInv /\ CheckEmpty => RingInv'
<1> SUFFICES ASSUME RingInv, CheckEmpty PROVE RingInv' OBVIOUS
<1> USE DEF RingInv, CheckEmpty, ringVars
<1>0. popped < accepted BY EmptyIsEqualCounts DEF Counting, TypeOK
<1>1. TypeOK' BY DEF TypeOK
<1>2. InitPhase' BY <1>0 DEF InitPhase
<1>3. Counting' BY <1>0 DEF Counting
<1>4. Contents' BY DEF Contents
<1> QED BY <1>1, <1>2, <1>3, <1>4

\* The slot the consumer copies from holds the oldest packet.
LEMMA ReadsOldest ==
  ASSUME RingInv, cpc # "poll"
  PROVE  storage_packet[SlotOf(rd_idx)] = Packet(popped)
<1>1. popped \in popped .. accepted - 1 /\ popped \in Nat
  BY DEF RingInv, Counting, TypeOK
<1>2. SlotOf(rd_idx) = popped % Size
  BY <1>1, SlotOfCount DEF RingInv, InitPhase, Counting
<1> QED BY <1>1, <1>2 DEF RingInv, Contents

LEMMA ReadBaseTimeStep == RingInv /\ ReadBaseTime => RingInv'
<1> SUFFICES ASSUME RingInv, ReadBaseTime PROVE RingInv' OBVIOUS
<1> USE DEF RingInv, ReadBaseTime, ringVars
<1>0. storage_packet[SlotOf(rd_idx)].base_time = popped BY ReadsOldest DEF Packet
<1>1. TypeOK' BY <1>0 DEF TypeOK, Fields
<1>2. InitPhase' BY DEF InitPhase
<1>3. Counting' BY DEF Counting
<1>4. Contents' BY <1>0 DEF Contents, TypeOK, Fields
<1> QED BY <1>1, <1>2, <1>3, <1>4

LEMMA ReadPointsStep == RingInv /\ ReadPoints => RingInv'
<1> SUFFICES ASSUME RingInv, ReadPoints PROVE RingInv' OBVIOUS
<1> USE DEF RingInv, ReadPoints, ringVars
<1>0. storage_packet[SlotOf(rd_idx)].points = popped BY ReadsOldest DEF Packet
<1>1. TypeOK' BY <1>0 DEF TypeOK, Fields
<1>2. InitPhase' BY DEF InitPhase
<1>3. Counting' BY DEF Counting
<1>4. Contents' BY <1>0 DEF Contents, TypeOK, Fields
<1> QED BY <1>1, <1>2, <1>3, <1>4

LEMMA QueuePopUpdateStep == RingInv /\ QueuePopUpdate => RingInv'
<1> SUFFICES ASSUME RingInv, QueuePopUpdate PROVE RingInv' OBVIOUS
<1> USE DEF RingInv, QueuePopUpdate
<1>0. rd_idx' = (popped + 1) % IdxMod /\ rd_idx' \in 0 .. IdxMod - 1
  BY BumpOfCount DEF Counting, TypeOK
<1>1. TypeOK' BY <1>0 DEF TypeOK
<1>2. InitPhase' BY DEF InitPhase
<1>3. Counting'
  <2>1. popped \in Nat /\ accepted \in Nat /\ popped < accepted
        /\ accepted - popped <= Size /\ wr_idx = accepted % IdxMod
    BY DEF Counting, TypeOK
  <2>2. /\ popped' <= accepted'
        /\ accepted' - popped' <= Size
        /\ accepted' - popped' < Size
    BY <2>1, RingAssumption
  <2> QED BY <1>0, <2>1, <2>2 DEF Counting
<1>4. Contents' BY DEF Contents, TypeOK
<1> QED BY <1>1, <1>2, <1>3, <1>4

-------------------------------------------------------------------------------
\* Every reachable state of the ring satisfies the inductive invariant.
THEOREM RingInvariant == Spec => []RingInv
<1>1. RingInv /\ [Next]_vars => RingInv'
  <2> SUFFICES ASSUME RingInv, [Next]_vars PROVE RingInv' OBVIOUS
  <2>1. CASE Producer
    BY <2>1, OfferStep, InitQueueStep, CheckFullStep, WriteBaseTimeStep,
       WritePointsStep, PublishIndexStep DEF Producer
  <2>2. CASE Consumer
    BY <2>2, CheckEmptyStep, ReadBaseTimeStep, ReadPointsStep, QueuePopUpdateStep
    DEF Consumer
  <2>3. CASE UNCHANGED vars
    BY <2>3 DEF vars, ringVars, RingInv, TypeOK, InitPhase, Counting, Contents
  <2> QED BY <2>1, <2>2, <2>3 DEF Next
<1> QED BY InitRingInv, <1>1, PTL DEF Spec

\* The types hold for every size of the ring.
THEOREM TypeCorrect == Spec => []TypeOK
<1>1. RingInv => TypeOK BY DEF RingInv
<1> QED BY <1>1, RingInvariant, PTL

\* The two threads are never in the same slot (ldq.cpp's index protocol).
THEOREM SlotsAreExclusive == Spec => []NoSlotConflict
<1>1. RingInv => NoSlotConflict
  <2> SUFFICES ASSUME RingInv,
                      ppc \in {"base_time", "points"}, cpc \in {"base_time", "points"}
               PROVE  SlotOf(wr_idx) # SlotOf(rd_idx)
    BY DEF NoSlotConflict
  <2>1. popped \in popped .. accepted - 1 /\ popped \in Nat /\ accepted \in Nat
    BY DEF RingInv, Counting, TypeOK
  <2>2. popped % Size # accepted % Size BY <2>1, FillingIsHarmless
  <2>3. mask = Size - 1 /\ rd_idx = popped % IdxMod /\ wr_idx = accepted % IdxMod
    BY DEF RingInv, InitPhase, Counting
  <2> QED BY <2>1, <2>2, <2>3, SlotOfCount
<1> QED BY <1>1, RingInvariant, PTL

\* What is popped is the oldest packet, whole (QueuePrePop).
THEOREM PopsAreWhole == Spec => []PopsOldestWhole
<1>1. RingInv => PopsOldestWhole
  BY DEF RingInv, TypeOK, Fields, Contents, PopsOldestWhole, Packet
<1> QED BY <1>1, RingInvariant, PTL

-------------------------------------------------------------------------------
(* The ring implements the bounded FIFO buffer.                            *)

\* The packets numbered popped .. accepted - 1.
Numbered == [i \in 1 .. accepted - popped |-> Packet(popped + i - 1)]

LEMMA QueuedIsNumbered == RingInv => Queued = Numbered
<1> SUFFICES ASSUME RingInv PROVE Queued = Numbered OBVIOUS
<1>1. QueueUsedSize = accepted - popped /\ accepted - popped \in Nat
  BY UsedIsDistance DEF RingInv, Counting, TypeOK
<1>2. ASSUME NEW i \in 1 .. accepted - popped
      PROVE  storage_packet[(rd_idx + i - 1) % Size] = Packet(popped + i - 1)
  <2>1. /\ IdxMod \in Nat \ {0} /\ Size \in Nat \ {0} /\ IdxMod % Size = 0
        /\ popped \in Int /\ rd_idx = popped % IdxMod /\ rd_idx \in Int
    BY <1>1, RingAssumption DEF RingInv, TypeOK, Counting
  <2>2. PICK j \in Int : j = i - 1 BY <1>1
  <2>3. ((popped % IdxMod) + j) % Size = (popped + j) % Size
    <3>1. IdxMod \in Nat \ {0} /\ Size \in Nat \ {0} /\ IdxMod % Size = 0 /\ popped \in Int
      BY <2>1
    <3> QED BY <3>1, ModOfShifted, Zenon
  <2>4. rd_idx + i - 1 = rd_idx + j /\ popped + i - 1 = popped + j
    BY <2>1, <2>2, <1>1
  <2>5. popped + j \in popped .. accepted - 1
    BY <1>1, <2>2 DEF RingInv, TypeOK
  <2>6. storage_packet[(popped + j) % Size] = Packet(popped + j)
    BY <2>5 DEF RingInv, Contents
  <2> QED BY <2>1, <2>3, <2>4, <2>6
<1> QED BY <1>1, <1>2 DEF Queued, Numbered

LEMMA NextQueuedIsNumbered == RingInv' => Queued' = Numbered'
<1>1. RingInv => Queued = Numbered BY QueuedIsNumbered
<1>2. (RingInv => Queued = Numbered)' BY <1>1, PTL
<1> QED BY <1>2

LEMMA StartsAsFifo == Init => Fifo!Init
<1> SUFFICES ASSUME Init PROVE Fifo!Init OBVIOUS
<1>1. Queued = Numbered BY InitRingInv, QueuedIsNumbered
<1>2. Numbered = <<>> BY DEF Init, Numbered
<1> QED BY <1>1, <1>2 DEF Init, Fifo!Init, Fifo!NoPacket, NoPacket

\* Steps that keep the counts and the handed packet keep the buffer.
LEMMA SameCountsStutter ==
  ASSUME RingInv, RingInv', UNCHANGED <<accepted, popped, handed>>
  PROVE  UNCHANGED Fifo!fifoVars
<1>1. Queued = Numbered /\ Queued' = Numbered'
  BY QueuedIsNumbered, NextQueuedIsNumbered
<1>2. Numbered' = Numbered BY DEF Numbered
<1> QED BY <1>1, <1>2 DEF Fifo!fifoVars

LEMMA PublishIsAccept ==
  ASSUME RingInv, RingInv', PublishIndex
  PROVE  Fifo!Accept
<1>1. Queued = Numbered /\ Queued' = Numbered'
  BY QueuedIsNumbered, NextQueuedIsNumbered
<1>2. /\ accepted \in Nat /\ popped \in Nat /\ accepted - popped \in Nat
      /\ accepted - popped < Size /\ accepted < MaxPackets
      /\ accepted' = accepted + 1 /\ popped' = popped /\ handed' = handed
  BY DEF RingInv, TypeOK, Counting, InitPhase, PublishIndex
<1>3. Len(Numbered) = accepted - popped
  BY <1>2 DEF Numbered
<1>4. Numbered' = Append(Numbered, Packet(accepted))
  <2> DEFINE Longer == [i \in 1 .. (accepted - popped) + 1 |-> Packet(popped + i - 1)]
  <2>1. Numbered' = Longer BY <1>2 DEF Numbered, Packet
  <2>2. Longer = Append(Numbered, Packet(accepted))
    BY <1>2, <1>3 DEF Numbered, Packet
  <2> QED BY <2>1, <2>2
<1> QED BY <1>1, <1>2, <1>3, <1>4 DEF Fifo!Accept, Fifo!Packet, Packet

LEMMA PopIsHandOver ==
  ASSUME RingInv, RingInv', QueuePopUpdate
  PROVE  Fifo!HandOver
<1>1. Queued = Numbered /\ Queued' = Numbered'
  BY QueuedIsNumbered, NextQueuedIsNumbered
<1>2. /\ accepted \in Nat /\ popped \in Nat /\ accepted - popped \in Nat
      /\ popped < accepted
      /\ accepted' = accepted /\ popped' = popped + 1 /\ handed' = pkg
      /\ pkg = Packet(popped)
  BY DEF RingInv, TypeOK, Fields, Counting, Contents, QueuePopUpdate, Packet
<1>3. Len(Numbered) = accepted - popped /\ Numbered # <<>>
  BY <1>2 DEF Numbered
<1>4. Head(Numbered) = Packet(popped)
  BY <1>2, <1>3 DEF Numbered
<1>5. Numbered' = Tail(Numbered)
  <2> DEFINE Shorter == [i \in 1 .. (accepted - popped) - 1 |-> Packet(popped + 1 + i - 1)]
  <2>1. Numbered' = Shorter BY <1>2 DEF Numbered, Packet
  <2>2. Shorter = Tail(Numbered)
    BY <1>2, <1>3 DEF Numbered, Packet
  <2> QED BY <2>1, <2>2
<1> QED BY <1>1, <1>2, <1>3, <1>4, <1>5 DEF Fifo!HandOver

\* Every behaviour of the ring is one of the bounded FIFO buffer, as far as
\* safety goes: what is checked with its liveness as ImplementsFifo.
THEOREM RingIsFifo == Spec => Fifo!Init /\ [][Fifo!Next]_(Fifo!fifoVars)
<1>1. RingInv /\ RingInv' /\ [Next]_vars => [Fifo!Next]_(Fifo!fifoVars)
  <2> SUFFICES ASSUME RingInv, RingInv', [Next]_vars
               PROVE  [Fifo!Next]_(Fifo!fifoVars)
    OBVIOUS
  <2>1. CASE PublishIndex BY <2>1, PublishIsAccept DEF Fifo!Next
  <2>2. CASE QueuePopUpdate BY <2>2, PopIsHandOver DEF Fifo!Next
  <2>3. CASE UNCHANGED <<accepted, popped, handed>>
    BY <2>3, SameCountsStutter
  <2> QED
    BY <2>1, <2>2, <2>3
    DEF Next, Producer, Consumer, Offer, InitQueue, CheckFull, WriteBaseTime,
        WritePoints, CheckEmpty, ReadBaseTime, ReadPoints, vars
<1> QED BY StartsAsFifo, <1>1, RingInvariant, PTL DEF Spec
-------------------------------------------------------------------------------
(* The ring is the two counters that PointCloudDelivery takes it for.      *)

\* What the tests of the indices say of the counts, whatever they have wrapped: a
\* ring whose mask is set is full when Size packets wait in it and empty when none
\* does (QueueIsFull, QueueIsEmpty, QueueUsedSize of ldq.cpp).  The producer stores
\* a packet only when there is room, and the consumer takes one only when there is one.
TestsAreOfCounts ==
  /\ QueueUsedSize = accepted - popped
  /\ QueueIsEmpty <=> popped = accepted
  /\ ppc = "check" => (QueueIsFull <=> accepted - popped >= Size)

\* The steps that PointCloudDelivery has of a queue: a push with room, a pop of
\* what is there, or neither.
CounterStep ==
  \/ accepted' = accepted + 1 /\ popped' = popped /\ accepted - popped < Size
  \/ popped' = popped + 1 /\ accepted' = accepted /\ popped < accepted
  \/ UNCHANGED <<accepted, popped>>

THEOREM RingIsTwoCounters == Spec => []TestsAreOfCounts /\ [][CounterStep]_vars
<1>1. ASSUME RingInv PROVE TestsAreOfCounts
  <2>1. /\ popped \in Nat /\ accepted \in Nat /\ popped <= accepted
        /\ accepted - popped <= Size /\ Size \in Nat \ {0}
    BY <1>1, RingAssumption DEF RingInv, TypeOK, Counting
  <2>2. QueueUsedSize = accepted - popped
    BY <1>1, <2>1, UsedIsDistance DEF RingInv, Counting, TypeOK
  <2>3. QueueIsEmpty <=> popped = accepted
    BY <1>1, <2>1, EmptyIsEqualCounts DEF RingInv, Counting, TypeOK, QueueIsEmpty
  <2>4. ppc = "check" => mask = Size - 1
    BY <1>1 DEF RingInv, InitPhase
  <2>5. ppc = "check" => (QueueIsFull <=> accepted - popped >= Size)
    BY <2>1, <2>2, <2>4 DEF QueueIsFull
  <2> QED BY <2>2, <2>3, <2>5 DEF TestsAreOfCounts
<1>2. ASSUME RingInv, [Next]_vars PROVE CounterStep
  <2>1. CASE PublishIndex
    BY <1>2, <2>1 DEF PublishIndex, RingInv, Counting, CounterStep
  <2>2. CASE QueuePopUpdate
    BY <1>2, <2>2 DEF QueuePopUpdate, RingInv, Counting, CounterStep
  <2>3. CASE UNCHANGED <<accepted, popped>> BY <2>3 DEF CounterStep
  <2> QED
    BY <1>2, <2>1, <2>2, <2>3
    DEF Next, Producer, Consumer, Offer, InitQueue, CheckFull, WriteBaseTime, WritePoints,
        CheckEmpty, ReadBaseTime, ReadPoints, vars
<1> QED BY <1>1, <1>2, RingInvariant, PTL DEF Spec
===============================================================================
