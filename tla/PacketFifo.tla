------------------------------ MODULE PacketFifo ------------------------------
(***************************************************************************)
(* What the per-lidar packet queue of comm/ldq.cpp promises its two        *)
(* threads: a bounded first-in first-out buffer.  A frame offered while    *)
(* the buffer is full is dropped (a stuttering step here); an accepted     *)
(* packet is handed over once, whole, in the order of acceptance.          *)
(*                                                                         *)
(* Packet(n) is the n-th accepted packet.  Its two fields stand for the    *)
(* parts that LidarDataQueue copies one after the other; a packet made of  *)
(* the halves of two frames is not Packet(n) for any n.                    *)
(***************************************************************************)
EXTENDS Integers, Sequences

CONSTANTS Capacity,    \* the slots of the ring
          MaxPackets   \* bound: how many packets are accepted in a behaviour

VARIABLES fifo,        \* the packets accepted and not yet handed over
          accepted,    \* how many packets were accepted so far
          handed       \* the packet handed over last

fifoVars == <<fifo, accepted, handed>>

Packet(n) == [base_time |-> n, points |-> n]
NoPacket == [base_time |-> -1, points |-> -1]

Init ==
  /\ fifo = <<>>
  /\ accepted = 0
  /\ handed = NoPacket

Accept ==
  /\ Len(fifo) < Capacity
  /\ accepted < MaxPackets
  /\ fifo' = Append(fifo, Packet(accepted))
  /\ accepted' = accepted + 1
  /\ UNCHANGED handed

HandOver ==
  /\ fifo # <<>>
  /\ handed' = Head(fifo)
  /\ fifo' = Tail(fifo)
  /\ UNCHANGED accepted

Next == Accept \/ HandOver

Spec == Init /\ [][Next]_fifoVars /\ WF_fifoVars(HandOver)
===============================================================================
