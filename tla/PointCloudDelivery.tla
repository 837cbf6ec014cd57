-------------------------- MODULE PointCloudDelivery --------------------------
(***************************************************************************)
(* How an accepted point-cloud packet reaches a ROS topic: the PubHandler  *)
(* thread in Lds::PushLidarData, the point-cloud poll thread in            *)
(* DriverNode::PointCloudDataPollThread / Lddc::DistributePointCloudData,  *)
(* the SDK thread that connects lidars, and the destructor of DriverNode.  *)
(* They share the packet queues, pcd_semaphore_, connect_state,            *)
(* request_exit_ and exit_signal_.                                         *)
(*                                                                         *)
(* Each queue is the bounded FIFO that LidarDataQueue implements, so what  *)
(* matters of it here is how many packets were pushed and popped.          *)
(*                                                                         *)
(* pushed is wr_idx as the producer reads it back, visible is wr_idx as    *)
(* the other threads read it.  For a lidar of StoreBuffered the two may    *)
(* differ: between the store of wr_idx and the plain read of count_        *)
(* (Semaphore::GetCount takes no lock) there is no fence, so an x86 core   *)
(* may read count_ first.  A mutex operation of the producer drains the    *)
(* buffer, and so does the copying of the next packet, which is far larger *)
(* than a store buffer.                                                    *)
(***************************************************************************)
EXTENDS Integers, FiniteSets

CONSTANTS LidarCount,     \* lidar_count_: the length of lidars_
          Capacity,       \* the size of a lidar's ring
          MaxPackets,     \* bound: packets pushed per lidar
          StoreBuffered   \* the lidars whose store of wr_idx may be delayed

ASSUME DeliveryAssumption ==
  /\ LidarCount \in Nat \ {0}
  /\ Capacity \in Nat \ {0}
  /\ MaxPackets \in Nat
  /\ StoreBuffered \subseteq 0 .. LidarCount - 1

Lidars == 0 .. LidarCount - 1

VARIABLES
  pushed, visible, popped,  \* [Lidars -> Nat]: wr_idx, as seen, and rd_idx
  promised,      \* history: pushed, as of the last push to a sampling lidar
  sampling,      \* the lidars whose connect_state is kConnectStateSampling
  count,         \* pcd_semaphore_.count_
  request_exit,  \* Lds::request_exit_
  exit_signal,   \* exit_signal_ has been set
  ppc, target,   \* the producer: where it is, and the lidar it pushes to
  cpc, index     \* the poll thread: where it is, and its loop variable i

queueVars == <<pushed, visible, popped, promised>>
exitVars == <<request_exit, exit_signal>>
producerVars == <<ppc, target>>
consumerVars == <<cpc, index>>
vars == <<queueVars, sampling, count, exitVars, producerVars, consumerVars>>

Init ==
  /\ pushed = [l \in Lidars |-> 0]
  /\ visible = [l \in Lidars |-> 0]
  /\ popped = [l \in Lidars |-> 0]
  /\ promised = [l \in Lidars |-> 0]
  /\ sampling = {}
  /\ count = 0
  /\ request_exit = FALSE /\ exit_signal = FALSE
  /\ ppc = "idle" /\ target = 0
  /\ cpc = "top" /\ index = 0

-------------------------------------------------------------------------------
(* The producer: Lds::PushLidarData for one lidar of the frame.            *)

\* A full queue drops the packet but still looks at the semaphore.
PushLidarData(l) ==
  /\ ppc = "idle"
  /\ pushed[l] < MaxPackets
  /\ target' = l
  /\ ppc' = IF pushed[l] - popped[l] >= Capacity THEN "count" ELSE "push"
  /\ UNCHANGED <<queueVars, sampling, count, exitVars, consumerVars>>

QueuePushAny ==
  /\ ppc = "push"
  /\ pushed' = [pushed EXCEPT ![target] = @ + 1]
  /\ visible' = IF target \in StoreBuffered THEN pushed ELSE pushed'
  /\ promised' = IF target \in sampling
                   THEN [promised EXCEPT ![target] = pushed'[target]]
                   ELSE promised
  /\ ppc' = "test"
  /\ UNCHANGED <<popped, target, sampling, count, exitVars, consumerVars>>

\* The store buffer drains at any time.
DrainStore ==
  /\ visible # pushed
  /\ visible' = pushed
  /\ UNCHANGED <<pushed, popped, promised, sampling, count, exitVars, producerVars, consumerVars>>

\* Mutant: a token is only posted for the packet that finds the queue empty.
TestEmpty_FirstPacketOnly ==
  /\ ppc = "test"
  /\ ppc' = IF popped[target] + 1 = pushed[target] THEN "count" ELSE "idle"
  /\ UNCHANGED <<queueVars, target, sampling, count, exitVars, consumerVars>>

\* if (!QueueIsEmpty(queue)): the poll thread may already have taken it.
TestEmpty ==
  /\ ppc = "test"
  /\ ppc' = IF popped[target] = pushed[target] THEN "idle" ELSE "count"
  /\ UNCHANGED <<queueVars, target, sampling, count, exitVars, consumerVars>>

\* if (pcd_semaphore_.GetCount() <= 0), read outside the semaphore's mutex.
GetCount ==
  /\ ppc = "count"
  /\ ppc' = IF count <= 0 THEN "signal" ELSE "idle"
  /\ UNCHANGED <<queueVars, target, sampling, count, exitVars, consumerVars>>

\* Locking the mutex drains the store buffer.
Signal ==
  /\ ppc = "signal"
  /\ count' = count + 1
  /\ visible' = pushed
  /\ ppc' = "idle"
  /\ UNCHANGED <<pushed, popped, promised, target, sampling, exitVars, consumerVars>>

-------------------------------------------------------------------------------
(* The poll thread.                                                        *)

\* do { DistributePointCloudData(): if (IsRequestExit()) return;
Distribute ==
  /\ cpc = "top"
  /\ cpc' = IF request_exit THEN "future" ELSE "wait"
  /\ UNCHANGED <<queueVars, sampling, count, exitVars, producerVars, index>>

\* pcd_semaphore_.Wait()
Wait ==
  /\ cpc = "wait"
  /\ count > 0
  /\ count' = count - 1
  /\ cpc' = "loop" /\ index' = 0
  /\ UNCHANGED <<queueVars, sampling, exitVars, producerVars>>

\* for (i ...): a lidar that is not sampling is passed over.
NextLidar ==
  /\ cpc = "loop"
  /\ IF index = LidarCount
       THEN cpc' = "future" /\ UNCHANGED index
       ELSE IF index \in sampling
              THEN cpc' = "poll" /\ UNCHANGED index
              ELSE cpc' = "loop" /\ index' = index + 1
  /\ UNCHANGED <<queueVars, sampling, count, exitVars, producerVars>>

\* while (!IsRequestExit() && !QueueIsEmpty(p_queue))
PollLidar ==
  /\ cpc = "poll"
  /\ IF request_exit \/ popped[index] = visible[index]
       THEN cpc' = "loop" /\ index' = index + 1
       ELSE cpc' = "publish" /\ UNCHANGED index
  /\ UNCHANGED <<queueVars, sampling, count, exitVars, producerVars>>

\* Mutant: one packet per wake-up.
Publish_OnePacket ==
  /\ cpc = "publish"
  /\ popped' = [popped EXCEPT ![index] = @ + 1]
  /\ cpc' = "loop" /\ index' = index + 1
  /\ UNCHANGED <<pushed, visible, promised, sampling, count, exitVars, producerVars>>

\* while (!QueueIsEmpty(queue)) pop and publish: this loop does not look at
\* request_exit_.
Publish ==
  /\ cpc = "publish"
  /\ IF popped[index] = visible[index]
       THEN cpc' = "poll" /\ UNCHANGED popped
       ELSE cpc' = "publish" /\ popped' = [popped EXCEPT ![index] = @ + 1]
  /\ UNCHANGED <<pushed, visible, promised, index, sampling, count, exitVars, producerVars>>

\* Mutant: the thread goes back to the semaphore without testing for exit.
TestFuture_Forgotten ==
  /\ cpc = "future"
  /\ cpc' = "wait"
  /\ UNCHANGED <<queueVars, sampling, count, exitVars, producerVars, index>>

\* } while (future_.wait_for(0) == timeout);
TestFuture ==
  /\ cpc = "future"
  /\ cpc' = IF exit_signal THEN "done" ELSE "top"
  /\ UNCHANGED <<queueVars, sampling, count, exitVars, producerVars, index>>

-------------------------------------------------------------------------------
(* The other threads.                                                      *)

\* A configuration callback sets kConnectStateSampling; nothing unsets it.
Connect(l) ==
  /\ l \notin sampling
  /\ sampling' = sampling \union {l}
  /\ UNCHANGED <<queueVars, count, exitVars, producerVars, consumerVars>>

\* ~DriverNode(): RequestExit, then exit_signal_.set_value(), then join().
RequestExit ==
  /\ ~request_exit
  /\ request_exit' = TRUE
  /\ UNCHANGED <<queueVars, sampling, count, exit_signal, producerVars, consumerVars>>

SetExitSignal ==
  /\ request_exit /\ ~exit_signal
  /\ exit_signal' = TRUE
  /\ UNCHANGED <<queueVars, sampling, count, request_exit, producerVars, consumerVars>>

-------------------------------------------------------------------------------
Producer == QueuePushAny \/ TestEmpty \/ GetCount \/ Signal
PollThread == Distribute \/ Wait \/ NextLidar \/ PollLidar \/ Publish \/ TestFuture

Next ==
  \/ \E l \in Lidars : PushLidarData(l) \/ Connect(l)
  \/ Producer \/ DrainStore
  \/ PollThread
  \/ RequestExit \/ SetExitSignal

\* A thread that can run does run: the producer finishes a push it has begun,
\* the poll thread goes on unless it waits for a token, the destructor goes on
\* once begun, and a store buffer drains.  Whether a lidar sends or connects,
\* and whether the node is shut down, is open.
Fairness ==
  /\ WF_vars(Producer) /\ WF_vars(PollThread)
  /\ WF_vars(DrainStore) /\ WF_vars(SetExitSignal)

Spec == Init /\ [][Next]_vars /\ Fairness

-------------------------------------------------------------------------------
(* Properties.                                                             *)

TypeOK ==
  /\ pushed \in [Lidars -> 0 .. MaxPackets]
  /\ visible \in [Lidars -> 0 .. MaxPackets]
  /\ popped \in [Lidars -> 0 .. MaxPackets]
  /\ promised \in [Lidars -> 0 .. MaxPackets]
  /\ sampling \subseteq Lidars
  /\ count \in Nat
  /\ request_exit \in BOOLEAN /\ exit_signal \in BOOLEAN
  /\ ppc \in {"idle", "push", "test", "count", "signal"}
  /\ target \in Lidars
  /\ cpc \in {"top", "wait", "loop", "poll", "publish", "future", "done"}
  /\ index \in 0 .. LidarCount

\* The unlocked read of count_ before Signal is a check-then-act: with one
\* producer it never lets two tokens pile up, and a dropped packet cannot
\* post a second token either.
OneToken == count <= 1

\* The poll thread asleep on an empty semaphore, the producer not about to wake it.
Asleep == cpc = "wait" /\ count = 0 /\ ppc \in {"idle", "push"}

\* While the poll thread sleeps and nobody is about to wake it, no packet that
\* was accepted from a sampling lidar is left in a queue, except, when the
\* store of wr_idx may be delayed, the last packet of that lidar: the producer
\* writes wr_idx and then reads count_ while the poll thread writes count_ and
\* then reads wr_idx, and each may miss what the other wrote.  It costs the
\* wake-up of one packet of a lidar, never of two.
NoLostWakeup ==
  Asleep => \A l \in Lidars :
    \/ popped[l] >= promised[l]
    \/ l \in StoreBuffered /\ popped[l] = pushed[l] - 1

\* A packet accepted from a sampling lidar is published in the end, unless the
\* node is shut down (with stores that take effect in order).
EveryPromisedPacketPublished ==
  \A l \in Lidars \ StoreBuffered, n \in 1 .. MaxPackets :
    (promised[l] >= n) ~> (popped[l] >= n \/ request_exit)

\* With a delayed store, the lidar's next packet gets the waiting one out (a
\* packet of another lidar may not: the poll thread, still running, may take it
\* before the producer tests whether a token is needed).
PublishedAfterNextPush ==
  \A l \in StoreBuffered, n \in 1 .. MaxPackets - 1 :
    (promised[l] > n) ~> (popped[l] >= n \/ request_exit)

\* join() in ~DriverNode returns if a token is there to wake the poll thread
\* after the exit signal was set (without one it waits for ever, in Wait).
ExitWithTokenJoins == (exit_signal /\ count > 0) ~> (cpc = "done")

-------------------------------------------------------------------------------
(* The inductive invariant of the proofs (PointCloudProofs).               *)

\* The counters of a queue are ordered, and the index the other threads see is
\* at most one packet behind; only sampling lidars have promised packets.
Counters ==
  \A l \in Lidars :
    /\ popped[l] <= visible[l] /\ visible[l] <= pushed[l]
    /\ pushed[l] <= visible[l] + 1
    /\ l \notin StoreBuffered => visible[l] = pushed[l]
    /\ promised[l] <= pushed[l]
    /\ promised[l] > 0 => l \in sampling

Positions ==
  /\ ppc = "push" => pushed[target] < MaxPackets
  /\ cpc \in {"poll", "publish"} => index < LidarCount
  /\ count <= 1
  /\ ppc = "signal" => count = 0

Waiting(l) == popped[l] < promised[l]
Stalled(l) == l \in StoreBuffered /\ popped[l] = pushed[l] - 1

\* The poll loop has not passed lidar l yet.
VisitAhead(l) == cpc \in {"loop", "poll", "publish"} /\ index <= l

\* The producer is about to look at the semaphore on behalf of l.
SignalAhead(l) == ppc \in {"count", "signal"} \/ (ppc = "test" /\ target = l)

Covered ==
  \A l \in Lidars : Waiting(l) =>
    \/ Stalled(l)
    \/ count > 0
    \/ VisitAhead(l)
    \/ SignalAhead(l)
    \/ request_exit /\ cpc # "wait"

DeliveryInv == TypeOK /\ Counters /\ Positions /\ Covered
===============================================================================
