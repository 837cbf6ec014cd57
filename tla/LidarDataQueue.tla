---------------------------- MODULE LidarDataQueue ----------------------------
(***************************************************************************)
(* The packet queue of one lidar (comm/ldq.cpp) as its two threads use it, *)
(* at the grain of single memory accesses:                                 *)
(*                                                                         *)
(*  - the producer is the PubHandler thread inside Lds::PushLidarData      *)
(*    (lds.cpp), which creates the ring on the first frame, tests for      *)
(*    room, fills a slot and then advances wr_idx;                         *)
(*  - the consumer is the point-cloud poll thread inside                   *)
(*    Lddc::PublishPointcloud2 (lddc.cpp), which tests for a packet,       *)
(*    copies a slot out and then advances rd_idx.                          *)
(*                                                                         *)
(* No lock is taken.  The indices are uint32_t counters that run on past   *)
(* the ring and wrap at 2^32, here at IdxMod.  Packet contents are never   *)
(* looked at by the queue, so the n-th accepted packet is the number n,    *)
(* kept in two fields because the code copies the fields one by one.       *)
(*                                                                         *)
(* Each access takes effect in program order (the volatile indices on an   *)
(* x86 build); what a delayed index store does is in PointCloudDelivery.   *)
(***************************************************************************)
EXTENDS Integers, Sequences

CONSTANTS Size,        \* queue size after RoundupPowerOf2
          IdxMod,      \* 2^32: the range of the uint32_t indices
          MaxPackets   \* bound: packets accepted in a behaviour

\* RoundupPowerOf2 returns a power of two of at most 2^31, which divides 2^32
\* and is at most half of it.
ASSUME RingAssumption ==
  /\ Size \in Nat \ {0}
  /\ IdxMod \in Nat
  /\ IdxMod % Size = 0
  /\ IdxMod >= 2 * Size
  /\ MaxPackets \in Nat

VARIABLES
  storage_packet,      \* slot -> packet
  allocated,           \* storage_packet # nullptr
  rd_idx, wr_idx,
  mask,                \* 0 until InitQueue has set it, then Size - 1
  ppc,                 \* where the producer is in PushLidarData / QueuePushAny
  cpc,                 \* where the consumer is in its loop / QueuePop
  pkg,                 \* the consumer's local StoragePacket
  handed,              \* history: the packet that was popped last
  accepted, popped     \* history: packets pushed and popped so far

ringVars == <<storage_packet, allocated, rd_idx, wr_idx, mask>>
vars == <<ringVars, ppc, cpc, pkg, handed, accepted, popped>>

Slots == 0 .. Size - 1

Packet(n) == [base_time |-> n, points |-> n]
NoPacket == [base_time |-> -1, points |-> -1]

-------------------------------------------------------------------------------
(* The queue operations.                                                   *)

\* Mutant: a ring that admits one packet too many.
QueueIsFull_AdmitsOneMore == (wr_idx - rd_idx) % IdxMod > mask + 1

\* uint32_t increment
Bump(i) == (i + 1) % IdxMod

\* uint32_t subtraction
QueueUsedSize == (wr_idx - rd_idx) % IdxMod

QueueIsFull == QueueUsedSize > mask

QueueIsEmpty == rd_idx = wr_idx

\* idx & mask, for a mask that is one less than a power of two
SlotOf(idx) == idx % (mask + 1)

-------------------------------------------------------------------------------
Init ==
  /\ storage_packet = [s \in Slots |-> NoPacket]
  /\ allocated = FALSE
  /\ rd_idx = 0 /\ wr_idx = 0
  /\ mask = 0
  /\ ppc = "idle" /\ cpc = "poll"
  /\ pkg = NoPacket
  /\ handed = NoPacket
  /\ accepted = 0 /\ popped = 0

(* The producer.                                                           *)

\* A frame arrives.  The first one creates the storage; the pointer is stored
\* before the indices and the mask are.
Offer ==
  /\ ppc = "idle"
  /\ accepted < MaxPackets
  /\ IF allocated
       THEN ppc' = "check" /\ UNCHANGED allocated
       ELSE ppc' = "init" /\ allocated' = TRUE
  /\ UNCHANGED <<storage_packet, rd_idx, wr_idx, mask, cpc, pkg, handed, accepted, popped>>

InitQueue ==
  /\ ppc = "init"
  /\ rd_idx' = 0 /\ wr_idx' = 0
  /\ mask' = Size - 1
  /\ ppc' = "check"
  /\ UNCHANGED <<storage_packet, allocated, cpc, pkg, handed, accepted, popped>>

\* Mutant: a frame that finds the ring full overwrites the oldest packet.
CheckFull_Overwrites ==
  /\ ppc = "check"
  /\ ppc' = "base_time"
  /\ UNCHANGED <<ringVars, cpc, pkg, handed, accepted, popped>>

\* A frame that finds the ring full is dropped.
CheckFull ==
  /\ ppc = "check"
  /\ ppc' = IF QueueIsFull THEN "idle" ELSE "base_time"
  /\ UNCHANGED <<ringVars, cpc, pkg, handed, accepted, popped>>

WriteBaseTime ==
  /\ ppc = "base_time"
  /\ storage_packet' = [storage_packet EXCEPT ![SlotOf(wr_idx)].base_time = accepted]
  /\ ppc' = "points"
  /\ UNCHANGED <<allocated, rd_idx, wr_idx, mask, cpc, pkg, handed, accepted, popped>>

WritePoints ==
  /\ ppc = "points"
  /\ storage_packet' = [storage_packet EXCEPT ![SlotOf(wr_idx)].points = accepted]
  /\ ppc' = "publish"
  /\ UNCHANGED <<allocated, rd_idx, wr_idx, mask, cpc, pkg, handed, accepted, popped>>

PublishIndex ==
  /\ ppc = "publish"
  /\ wr_idx' = Bump(wr_idx)
  /\ accepted' = accepted + 1
  /\ ppc' = "idle"
  /\ UNCHANGED <<storage_packet, allocated, rd_idx, mask, cpc, pkg, handed, popped>>

(* The consumer.                                                           *)

\* Mutant: the consumer trusts the storage pointer and not the indices.
CheckEmpty_TrustsStorage ==
  /\ cpc = "poll"
  /\ allocated
  /\ cpc' = "base_time"
  /\ UNCHANGED <<ringVars, ppc, pkg, handed, accepted, popped>>

\* The loop test of the publisher and the test inside QueuePrePop.  Only this
\* thread moves rd_idx, so the second test cannot differ from the first.
CheckEmpty ==
  /\ cpc = "poll"
  /\ allocated /\ ~QueueIsEmpty
  /\ cpc' = "base_time"
  /\ UNCHANGED <<ringVars, ppc, pkg, handed, accepted, popped>>

ReadBaseTime ==
  /\ cpc = "base_time"
  /\ pkg' = [pkg EXCEPT !.base_time = storage_packet[SlotOf(rd_idx)].base_time]
  /\ cpc' = "points"
  /\ UNCHANGED <<ringVars, ppc, handed, accepted, popped>>

ReadPoints ==
  /\ cpc = "points"
  /\ pkg' = [pkg EXCEPT !.points = storage_packet[SlotOf(rd_idx)].points]
  /\ cpc' = "update"
  /\ UNCHANGED <<ringVars, ppc, handed, accepted, popped>>

QueuePopUpdate ==
  /\ cpc = "update"
  /\ rd_idx' = Bump(rd_idx)
  /\ handed' = pkg
  /\ popped' = popped + 1
  /\ cpc' = "poll"
  /\ UNCHANGED <<storage_packet, allocated, wr_idx, mask, ppc, pkg, accepted>>

-------------------------------------------------------------------------------
Producer == Offer \/ InitQueue \/ CheckFull \/ WriteBaseTime \/ WritePoints \/ PublishIndex
Consumer == CheckEmpty \/ ReadBaseTime \/ ReadPoints \/ QueuePopUpdate

Next == Producer \/ Consumer

\* The poll thread is an OS thread that is never suspended for good while the
\* queue has packets.  Nothing obliges the lidar to send, so the producer has
\* no fairness.
Spec == Init /\ [][Next]_vars /\ WF_vars(Consumer)

-------------------------------------------------------------------------------
(* Properties.                                                             *)

Fields == [base_time : Nat \union {-1}, points : Nat \union {-1}]

TypeOK ==
  /\ storage_packet \in [Slots -> Fields]
  /\ allocated \in BOOLEAN
  /\ rd_idx \in 0 .. IdxMod - 1 /\ wr_idx \in 0 .. IdxMod - 1
  /\ mask \in {0, Size - 1}
  /\ ppc \in {"idle", "init", "check", "base_time", "points", "publish"}
  /\ cpc \in {"poll", "base_time", "points", "update"}
  /\ pkg \in Fields /\ handed \in Fields
  /\ accepted \in 0 .. MaxPackets /\ popped \in Nat

\* The producer never fills the slot the consumer is copying out of: the only
\* thing that keeps the two threads apart is the order in which each of them
\* tests and advances the indices (QueueIsFull, QueuePushAny, QueuePrePop,
\* QueuePopUpdate), also after the indices have wrapped.
NoSlotConflict ==
  ~ /\ ppc \in {"base_time", "points"}
    /\ cpc \in {"base_time", "points"}
    /\ SlotOf(wr_idx) = SlotOf(rd_idx)

\* The packet QueuePop hands to the publisher is the oldest one accepted and
\* not yet popped, with both parts from the same frame: nothing is torn,
\* repeated, skipped or overwritten, whatever the two threads' interleaving.
PopsOldestWhole == cpc = "update" => pkg = Packet(popped)

\* The packets in the ring, oldest first, read off the indices and the slots.
Queued == [i \in 1 .. QueueUsedSize |-> storage_packet[(rd_idx + i - 1) % Size]]

Fifo == INSTANCE PacketFifo WITH Capacity <- Size, fifo <- Queued

\* Every step of the two threads is a step of the bounded FIFO buffer or changes
\* nothing in it, and a packet that was accepted is handed over in the end.
ImplementsFifo == Fifo!Spec

-------------------------------------------------------------------------------
(* The inductive invariant of the proofs (LidarDataQueueProofs).           *)

\* Before InitQueue has set the mask nothing was accepted and the consumer
\* has not passed its first test.
InitPhase ==
  /\ ppc # "idle" => allocated
  /\ ppc # "idle" => accepted < MaxPackets
  /\ (~allocated \/ ppc = "init") =>
        accepted = 0 /\ popped = 0 /\ rd_idx = 0 /\ wr_idx = 0 /\ cpc = "poll"
  /\ (allocated /\ ppc # "init") => mask = Size - 1

\* The indices are the packet counts, reduced; the counts are at most Size
\* apart, less while the producer fills a slot, and not equal while the
\* consumer empties one.
Counting ==
  /\ rd_idx = popped % IdxMod
  /\ wr_idx = accepted % IdxMod
  /\ popped <= accepted
  /\ accepted - popped <= Size
  /\ ppc \in {"base_time", "points", "publish"} => accepted - popped < Size
  /\ cpc # "poll" => popped < accepted

\* What the slots and the consumer's copy hold.
Contents ==
  /\ \A n \in popped .. accepted - 1 : storage_packet[n % Size] = Packet(n)
  /\ ppc \in {"points", "publish"} => storage_packet[accepted % Size].base_time = accepted
  /\ ppc = "publish" => storage_packet[accepted % Size].points = accepted
  /\ cpc \in {"points", "update"} => pkg.base_time = popped
  /\ cpc = "update" => pkg.points = popped

RingInv == TypeOK /\ InitPhase /\ Counting /\ Contents
===============================================================================
