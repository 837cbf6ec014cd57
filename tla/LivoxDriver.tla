------------------------------ MODULE LivoxDriver ------------------------------
(***************************************************************************)
(* The driver from its start to its end, as IMU data see it: an IMU packet *)
(* goes from the SDK's data thread (PubHandler, LidarCommonCallback,       *)
(* Lds::StorageImuData) through the list of its lidar's index and          *)
(* imu_semaphore_ to the IMU poll thread (Lddc::DistributeImuData), which  *)
(* publishes it on the topic of that index once the lidar samples.         *)
(*                                                                         *)
(* A packet is represented by the handle it comes from.  With multi_topic  *)
(* each index has a topic, named after lidars_[index].handle when its      *)
(* first message is published.                                             *)
(***************************************************************************)
EXTENDS DriverStartup, Sequences

CONSTANTS MaxImu,   \* bound: [JsonFiles -> [Handles -> Nat]], IMU packets sent
          Shutdown  \* bound: the json files with which the node is shut down

ASSUME DriverAssumption ==
  MaxImu \in [JsonFiles -> [Handles -> Nat]] /\ Shutdown \subseteq JsonFiles

VARIABLES
  imu_data,      \* [Indices -> Seq(Handles)]: lidars_[i].imu_data
  imu_count,     \* imu_semaphore_.count_
  spc, source,   \* the SDK's data thread: where it is, whose packet it has
  ipc, index,    \* the IMU poll thread: where it is, and its loop variable i
  imu_topic,     \* private_imu_pub_: index -> the handle its topic is named after
  request_exit,  \* Lds::request_exit_
  exit_signal,   \* exit_signal_ has been set
  imu_sent,      \* history: [Handles -> Nat], packets sent
  imu_stored,    \* history: [Handles -> Nat], packets stored
  imu_due,       \* history: [Handles -> Nat], imu_stored when last sampling
  imu_published, \* history: [Handles -> Nat], messages published
  used_topics    \* history: pairs of a lidar and a topic it was published on

senderVars == <<spc, source, imu_sent, imu_stored, imu_due>>
pollVars == <<ipc, index, imu_topic, imu_published, used_topics>>
exitVars == <<request_exit, exit_signal>>
imuVars == <<imu_data, imu_count, senderVars, pollVars, exitVars>>
driverVars == <<vars, startupVars, imuVars>>

DriverInit ==
  /\ StartupInit
  /\ imu_data = [i \in Indices |-> <<>>]
  /\ imu_count = 0
  /\ spc = "idle" /\ source = CHOOSE h \in Handles : TRUE
  /\ ipc = "top" /\ index = 0
  /\ imu_topic = [i \in {} |-> Nobody]
  /\ request_exit = FALSE /\ exit_signal = FALSE
  /\ imu_sent = [h \in Handles |-> 0]
  /\ imu_stored = [h \in Handles |-> 0]
  /\ imu_due = [h \in Handles |-> 0]
  /\ imu_published = [h \in Handles |-> 0]
  /\ used_topics = {}

-------------------------------------------------------------------------------
(* LidarImuDataQueue, under its own mutex.                                 *)
Push(i, h) == imu_data' = [imu_data EXCEPT ![i] = Append(@, h)]
Pop(i) == imu_data' = [imu_data EXCEPT ![i] = Tail(@)]
Empty(i) == imu_data[i] = <<>>

-------------------------------------------------------------------------------
(* The SDK's data thread.                                                  *)

\* imu_callback_ and its client data are set; before, IMU packets are dropped.
LidarImuDataCallback == main = "started"

\* CacheIndex::GetIndex fails for a lidar without an index.
HasIndex(h) == h \in registered

\* The arrival of a packet, and StorageImuData up to its Push: a lidar without
\* an index is ignored, one that does not sample is not.
StorageImuData(h) ==
  /\ LidarImuDataCallback /\ spc = "idle"
  /\ imu_sent[h] < MaxImu[wanted][h]
  /\ imu_sent' = [imu_sent EXCEPT ![h] = @ + 1]
  /\ source' = h
  /\ IF HasIndex(h)
       THEN /\ Push(map_index[h], h)
            /\ imu_stored' = [imu_stored EXCEPT ![h] = @ + 1]
            /\ imu_due' = IF h \in sampling
                            THEN [imu_due EXCEPT ![h] = imu_stored'[h]] ELSE imu_due
            /\ spc' = "test"
       ELSE UNCHANGED <<imu_data, imu_stored, imu_due, spc>>
  /\ UNCHANGED <<imu_count, pollVars, exitVars>>

\* Mutant: a token is only posted for the packet that finds the list empty.
TestImuEmpty_FirstPacketOnly ==
  /\ spc = "test"
  /\ spc' = IF Len(imu_data[map_index[source]]) = 1 THEN "count" ELSE "idle"
  /\ UNCHANGED <<imu_data, imu_count, source, imu_sent, imu_stored, imu_due, pollVars, exitVars>>

\* if (!imu_queue->Empty()): the poll thread may have popped it already.
TestImuEmpty ==
  /\ spc = "test"
  /\ spc' = IF Empty(map_index[source]) THEN "idle" ELSE "count"
  /\ UNCHANGED <<imu_data, imu_count, source, imu_sent, imu_stored, imu_due, pollVars, exitVars>>

GetImuCount ==
  /\ spc = "count"
  /\ spc' = IF imu_count <= 0 THEN "signal" ELSE "idle"
  /\ UNCHANGED <<imu_data, imu_count, source, imu_sent, imu_stored, imu_due, pollVars, exitVars>>

SignalImu ==
  /\ spc = "signal"
  /\ imu_count' = imu_count + 1
  /\ spc' = "idle"
  /\ UNCHANGED <<imu_data, source, imu_sent, imu_stored, imu_due, pollVars, exitVars>>

-------------------------------------------------------------------------------
(* DriverNode::ImuDataPollThread, which is also started after a failed     *)
(* initialisation.                                                         *)

DistributeImuData ==
  /\ ipc = "top" /\ ThreadsStarted
  /\ ipc' = IF request_exit THEN "future" ELSE "wait"
  /\ UNCHANGED <<imu_data, imu_count, senderVars, index, imu_topic, imu_published,
                 used_topics, exitVars>>

WaitForImu ==
  /\ ipc = "wait" /\ imu_count > 0
  /\ imu_count' = imu_count - 1
  /\ ipc' = "loop" /\ index' = 0
  /\ UNCHANGED <<imu_data, senderVars, imu_topic, imu_published, used_topics, exitVars>>

\* The lidars whose connect_state is not kConnectStateSampling are passed over.
Samples(i) == \E h \in sampling : map_index[h] = i

NextImuLidar ==
  /\ ipc = "loop"
  /\ IF index = MaxDevices
       THEN ipc' = "future" /\ UNCHANGED index
       ELSE IF Samples(index)
              THEN ipc' = "poll" /\ UNCHANGED index
              ELSE ipc' = "loop" /\ index' = index + 1
  /\ UNCHANGED <<imu_data, imu_count, senderVars, imu_topic, imu_published, used_topics, exitVars>>

\* The topic of an index is created with its first message.
GetCurrentImuPublisher(i) ==
  IF i \in DOMAIN imu_topic THEN imu_topic ELSE With(imu_topic, i, devices[i])

\* The oldest packet is popped and published.
PublishImuData ==
  LET h == Head(imu_data[index])
  IN  /\ Pop(index)
      /\ imu_topic' = GetCurrentImuPublisher(index)
      /\ imu_published' = [imu_published EXCEPT ![h] = @ + 1]
      /\ used_topics' = used_topics \union {<<h, imu_topic'[index]>>}
      /\ UNCHANGED <<ipc, index>>

\* while (!IsRequestExit() && !Empty()) PublishImuData(...)
PollImu ==
  /\ ipc = "poll"
  /\ IF request_exit \/ Empty(index)
       THEN /\ ipc' = "loop" /\ index' = index + 1
            /\ UNCHANGED <<imu_data, imu_topic, imu_published, used_topics>>
       ELSE PublishImuData
  /\ UNCHANGED <<imu_count, senderVars, exitVars>>

TestImuFuture ==
  /\ ipc = "future"
  /\ ipc' = IF exit_signal THEN "done" ELSE "top"
  /\ UNCHANGED <<imu_data, imu_count, senderVars, index, imu_topic, imu_published,
                 used_topics, exitVars>>

-------------------------------------------------------------------------------
(* ~DriverNode: RequestExit, exit_signal_.set_value(), then both joins.    *)
RequestExit ==
  /\ ThreadsStarted /\ wanted \in Shutdown /\ ~request_exit
  /\ request_exit' = TRUE
  /\ UNCHANGED <<imu_data, imu_count, senderVars, pollVars, exit_signal>>

SetExitSignal ==
  /\ request_exit /\ ~exit_signal
  /\ exit_signal' = TRUE
  /\ UNCHANGED <<imu_data, imu_count, senderVars, pollVars, request_exit>>

-------------------------------------------------------------------------------
DataThread == TestImuEmpty \/ GetImuCount \/ SignalImu
ImuPollThread == DistributeImuData \/ WaitForImu \/ NextImuLidar \/ PollImu \/ TestImuFuture

DriverNext ==
  \/ StartupNext /\ UNCHANGED imuVars
  \/ /\ \/ \E h \in Handles : StorageImuData(h)
        \/ DataThread \/ ImuPollThread
        \/ RequestExit \/ SetExitSignal
     /\ UNCHANGED <<vars, startupVars>>

\* The detection thread finishes a handler it has begun.  A device that is
\* asked for a setting over and over answers in the end (an assumption on the
\* SDK and the device; without it nothing but timeouts need ever arrive).  The
\* data thread finishes what it has begun, and the poll thread and the
\* destructor go on.
DriverFairness ==
  /\ WF_driverVars(DetectionThread /\ UNCHANGED <<startupVars, imuVars>>)
  /\ \A h \in Handles, c \in Settings :
       WF_driverVars(Acknowledged(h, c) /\ UNCHANGED <<startupVars, imuVars>>)
  /\ WF_driverVars(DataThread /\ UNCHANGED <<vars, startupVars>>)
  /\ WF_driverVars(ImuPollThread /\ UNCHANGED <<vars, startupVars>>)
  /\ WF_driverVars(SetExitSignal /\ UNCHANGED <<vars, startupVars>>)

DriverSpec == DriverInit /\ [][DriverNext]_driverVars /\ DriverFairness

-------------------------------------------------------------------------------
(* Properties.                                                             *)

\* A configured lidar has its index, its entry of lidars_ and its topic for
\* itself, whoever else announces itself and when: nothing else is published
\* on its topic, and it is published on no other.  (Lidars that were not
\* configured have the handle 0 and share a topic.)
TopicIsOwn ==
  \A h \in Configured : \A use \in used_topics :
    (use[1] = h) <=> (use[2] = h)

\* An IMU packet stored while its lidar samples is published in the end, with
\* all that was stored before it and waited because the lidar did not sample
\* yet, unless the node is shut down.
ImuIsPublished ==
  \A h \in Handles :
    (imu_published[h] < imu_due[h]) ~> (imu_published[h] >= imu_due[h] \/ request_exit)

-------------------------------------------------------------------------------
(* The inductive invariant of the proof (LivoxDriverProofs): before the    *)
(* lidars have their indices no IMU data are stored, and from then on what *)
(* is filed under an index is its lidar's.                                 *)
ImuTypeOK ==
  /\ imu_data \in [Indices -> Seq(Handles)]
  /\ index \in 0 .. MaxDevices
  /\ ipc \in {"top", "wait", "loop", "poll", "future", "done"}
  /\ DOMAIN imu_topic \subseteq Indices

FiledUnderTheirIndex ==
  \A i \in Indices : \A k \in 1 .. Len(imu_data[i]) :
    imu_data[i][k] \in registered /\ map_index[imu_data[i][k]] = i
NothingBeforeTheStart ==
  main # "started" =>
    /\ \A i \in Indices : imu_data[i] = <<>>
    /\ DOMAIN imu_topic = {} /\ used_topics = {}
TopicOfTheEntry == \A i \in DOMAIN imu_topic : imu_topic[i] = devices[i]
UsedTheirEntry ==
  \A use \in used_topics :
    use[1] \in registered /\ use[2] = devices[map_index[use[1]]]

ImuInv ==
  /\ ImuTypeOK /\ (ipc = "poll" => index < MaxDevices)
  /\ FiledUnderTheirIndex /\ NothingBeforeTheStart /\ TopicOfTheEntry /\ UsedTheirEntry

DriverInv == HandshakeInv /\ StartupInv /\ ImuInv
===============================================================================
