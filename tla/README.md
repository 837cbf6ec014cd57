# Models of the sentry's lidar driver, mapping and navigation

TLA+ specifications of the concurrent and stateful parts of this workspace, TLC
configurations that check them on small instances, and TLAPS proofs about all of them; of the
ikd-Tree itself, about its heap, its nodes and its rebuilding. Everything is written from the code under `src/src`; where the code and a
comment disagree, the model follows the code.

Contents: [the system](#1-the-system) · [the modules](#2-the-modules) ·
[the runs](#3-what-is-checked) · [fairness](#4-fairness) · [the proofs](#5-what-is-proved) ·
[disagreements](#6-where-the-code-and-its-comments-disagree) ·
[limits](#7-what-is-not-shown) · [plan](#8-plan)

## 1. The system

A ROS 1 workspace for a sentry robot with a Livox lidar.

```
 lidar --UDP--> Livox SDK (threads of its own)
                  | packets                | announcements, answers
                  v                        v
            PubHandler (thread)      LivoxLidarCallback
                  | frames                 | connect_state
                  v                        v
            Lds::PushLidarData --ring--> Lddc poll threads --> /livox/lidar, /livox/imu
                                                                   |
                          laserMapping (one thread; ikd-Tree has a second)
                                                                   | odometry, tf
   obstacle_detector <-- scans, tf --> relocalization              v
        |  /diverge  ---------------------^   | tf map -> odom
        +---------> controller <--------------+      <-- global path (move_base)
                        +--> /cmd_vel
```

| Component | State it keeps | Operations | What makes it hard | What makes it correct |
|---|---|---|---|---|
| Data queue, `comm/ldq.cpp` | slots, `rd_idx`, `wr_idx` | init, push, pop, full, empty | two threads, no lock, indices that wrap | bounded FIFO; never both threads in one slot |
| Delivery, `lds.cpp`, `lddc.cpp`, `semaphore.cpp`, `driver_node.cpp` | one ring per lidar, one semaphore, exit flags | push, signal, wait, poll, exit | a count that is read without its lock; one token for many packets | no lost wake-up; every accepted packet is published; the destructor's join |
| Packet handler, `comm/pub_handler.cpp` | packet queue, points per lidar, a global "synchronised" flag | packet callback, process, end a frame, `Uninit` | frames are cut by time stamps; the flag changes under waiting packets | every point in one frame, once; one frame per interval |
| Startup and cache index, `lds_lidar.cpp`, `comm/cache_index.cpp`, `parse_cfg_file/` | the configured lidars, a map from handle to slot | parse, start the SDK, register, allocate an index | files that cannot be read, more lidars than slots, strangers, failures half-way | a lidar is one slot, one topic |
| Configuration handshake, `call_back/livox_lidar_callback.cpp` | `set_bits`, `connect_state`, commands under way | announcement, one callback per command | two SDK threads, timeouts, refusals, second announcements | samples when and only when it is configured |
| IMU data, `comm/lidar_imu_data_queue.cpp`, `lddc.cpp` | a list per lidar, one semaphore | store, poll, publish, exit | packets before the lidar samples; one token for many packets and lidars | what was stored of a sampling lidar is published, on its topic |
| ikd-Tree, the tree, `ikd_Tree.cpp` | nodes with counts, ranges and marks; removed points | build, add, downsample, delete boxes, two searches, rebuild | marks that wait at different levels; ranges and counts that lag behind | the same points as a plain bag; both searches find all of it; counts |
| ikd-Tree, the second thread | `Rebuild_Ptr`, logger, a counter, five mutexes | rebuild of a large subtree | updates during a rebuild are logged and replayed | no update lost, doubled or reordered; no search in freed nodes; no deadlock |
| Point filters, `preprocess.cpp` | `pl_full`, `pl_surf`, the azimuth and time of each ring | one pass over a message | a Livox point's time depends on the entry before it, a ring's time on azimuths that wrap | a kept point's time |
| Scan intake, `laserMapping.cpp` callbacks | `lidar_buffer`, the scan being combined | one message: plain, cut, combined | messages that go back in time | no point lost, no time changed |
| Mapping loop, `laserMapping.cpp`, `IMU_Processing.hpp`, `Estimator.cpp` | `imu_deque`, scan in hand, the times of state and covariance, the groups of points | callbacks, `sync_packages`, the walk through a scan, odometry | what has arrived at each `spinOnce`; two clocks in the filter; matches that fail | IMU messages are there when taken; time never goes back; state and covariance together; every point matched at its time |
| Local map, `lasermap_fov_segment`, `map_incremental` | the box, `cub_needrm`, the tree | move the box, delete behind it, add a scan | moves on several axes; neighbours looked up before the update | the box holds what is seen; the map is inside the box; what is seen is mapped |
| Detector, relocalization, controller | path and index, `diverge`, transform, guesses | timers and callbacks of three nodes | bounded queues between nodes, drift, new paths at any time | index inside the path; stops for good; ends; finds the transform again |
| Estimator's numbers, IKFoM, FOV checker, spline | matrices | | floating point | not modelled |
| Tracking, simulation nodes, launch controller, Gazebo plugin, vendored libraries | | | | not modelled (section 7) |

The full list with reasons is `components` in `PROJECT.json`; `hazards` there lists,
line by line, what is hard to test, and the property that watches over it or why
none does.

## 2. The modules

In every module the variables and actions carry the code's names where TLA+ allows it;
a line of `map` in `PROJECT.json` gives the source lines of each definition. Variables
commented *history* record what happened and are read only by properties. Operators
named `<Definition>_<Defect>`, each under the comment "Mutant", are faulty versions
of that definition; no behaviour uses them. They show that the properties can fail.

```
 PacketFifo <~~ LidarDataQueue          LidarConfigHandshake <-- DriverStartup <-- LivoxDriver
                    : (two counters)
              PointCloudDelivery        PubHandler

 AviaHandler <-- Preprocess <-- LidarFrontEnd --> ScanIntake      LaserMapping <-- FilterWalk
 ManualHeap, KdNode <-- IkdTree         ManualQ <-- IkdTreeRebuild        LocalMap
 Controller <-- Navigation
                                <-- EXTENDS or INSTANCE,  <~~ refines
```

### The driver

**`LidarDataQueue`, `PacketFifo`.** The ring, one action per access: `WriteBaseTime` and
`WritePoints` are `QueuePushAny`'s two writes to the slot, `PublishIndex` its `wr_idx++`;
`ReadBaseTime`, `ReadPoints`, `QueuePopUpdate` likewise. `Offer`, `InitQueue`, `CheckFull`
are the callers in `PushLidarData`, `CheckEmpty` the one in the publish loop. Indices are
modulo `IdxMod` (2^32 in the code). `PacketFifo` is what the ring promises: a bounded
buffer that hands over the oldest packet whole; `ImplementsFifo` is the refinement.

**`PointCloudDelivery`.** Composes rings, semaphore, poll loop, connections and
destructor. A ring is here two counters, `pushed` and `popped`: what
its tests read is their difference, and its steps add to them (`RingIsTwoCounters`, section 5).
`Wait` waits on the predicate, as the code does. `visible` is `wr_idx` as other threads see it: for a lidar in
`StoreBuffered` it may lag behind `pushed`, because nothing orders the store of `wr_idx`
and the read of `count_`. Assumed of memory: `volatile` accesses of an x86 core, which
reorders no more than a later load before an earlier store; a locked operation, or the
copying of a whole packet, drains the buffer.

**`PubHandler`.** `PacketArrives`, `PushPacket` and `ImuArrives` are the SDK's callback;
`TestQuit` … `PointCloudProcess` are `RawDataProcess`; `CheckTimerSync` and
`CheckTimerHost` the two branches of `CheckTimer`, which read the flag when they run, not
when the packet came. Time is in ticks, `Ms` of them to a millisecond; `publish_interval_ms`
is at least 2, since `livox_ros_driver2.cpp:74` keeps `publish_freq` at 100 and below. `diff` is unsigned in the
code, hence the disjunct `diff < 0`. `frame_` is consumed inside the callback.
Publishing frequencies whose interval is not a whole number of ms (30 Hz) are not modelled.

**`LidarConfigHandshake`, `DriverStartup`, `LivoxDriver`.** Three layers of one
specification. The first has the announcements and answers: `AnnounceUnknown`,
`AnnounceKnown`, `RequestSetting` (one command, under `config_mutex_`), `SendAttitude`,
`SendWorkMode`, `EnableImu` are `LidarInfoChangeCallback`; `SettingAcknowledged`,
`OtherAcknowledged`, `TimedOut`, `Refused` are the answers. A device that was not in the
json file has a configuration of zeroes, in which no setting is -1, so all four are
requested. The second adds what comes before: the two parses, with every way they fail,
the SDK's start, the loop that registers the configured lidars in the order of the file,
and `CacheIndex`; the main thread goes through these before the SDK has the callback. It conjoins
the first layer's actions with what they do to the index. The third adds the IMU's way: storing,
the two reads that decide on a token, the poll loop, the topic that is made at an index's
first message, and the destructor. A packet is the handle it comes from.

### The mapping

**`IkdTreeRebuild`, `ManualQ`.** Both threads around one rebuild. The tree is a bag of points;
`covered` is a deleted ancestor's mark that has not been pushed down. A request is a few
steps: test `Rebuild_Ptr`, lock, apply, log. The rebuild thread has one action per
critical section of `multi_thread_rebuild`; the destructor sets `termination_flag` and joins it.
The logger is the ring of `MANUAL_Q`, which does not look for a free slot. `at_root` chooses
a subtree below the root or the whole tree, whose range search takes no lock. Left out: the
logger's own mutex (both threads take it only inside `working_flag_mutex`), the deleted-point
caches, and the early reset of `Rebuild_Ptr` for a subtree that has become small (lines 843-844).

**`IkdTree`, `KdNode`, `ManualHeap`.** The tree itself. A node is a record with the fields of
`KD_TREE_NODE`. `KdNode` has what is done at one node: `Update`, `Push_Down` (`Pending` and `Reached`
say to whom marks are still to be pushed, and what they make of it), `AllDeleted`, which
`Delete_by_range` makes of a node that its box covers, and what the searches tell by a range
(`Misses`, `Covers`, `calc_box_dist`). `ManualHeap` is the heap of a nearest search, with the rule of
what is offered to it (`Better`, `Pushed`); its two loops are recursive functions of the number
of turns. Neither module declares a recursive operator, so both can be reasoned about.
In `IkdTree` an update is an operator that goes down the tree and returns every tree it may leave, since
`nth_element` settles ties as it likes, with a context: `Rebuild_Ptr` (as the way from the
root) and the points removed. `Criterion_Check`,
`Rebuild`, `Add_by_point`, `Delete_by_range`, `Search_by_range`, `Search` are the functions
of those names. `RebuildInThread` is the whole of the second thread's work in one step
between two calls, followed by the walk up to the root (`Replaced`); `IkdTreeRebuild` takes
that step apart, and leaves open (in `Swap`) whether the walk clears an ancestor's mark. The abstract
specification is `live`, a bag of points. A call of `Add_Points` or `Delete_Point_Boxes`
with several points or boxes is several calls here.

**`AviaHandler`, `Preprocess`.** The filters, one action per point. `AviaHandler`: `OffsetTime` is the
driver's conversion to 32 bits, after which a point before the frame's first one has a time that
has wrapped; `Curvature` is line 119, and `previous` is `pl_full[i - 1]`, which is all zero when it was
not filled. `Preprocess` adds the other three handlers: points with a time of their own
(Ouster, and Velodyne and Hesai when the message has times), and `Derived`, the time from
the azimuth, by ring. `turned` is the angle the ring has really turned by.

**`ScanIntake`.** `Plain`, `StartCut`/`CutPoint`/`EndCut`, `Combine`/`PushCombined`,
`LoopBack`. A scan is a pair of an element of `lidar_buffer` and one of `time_buffer`,
which the code always changes together. `Sorted` leaves points of one time in any order.

**`LidarFrontEnd`.** The callbacks as a whole: `Process` runs the filter of the lidar's type
over a message, `ReceiveProcessed` hands the points it kept to `ScanIntake`, `GoOn` receives further messages.

**`LaserMapping`, `FilterWalk`.** `LaserMapping` is the loop: callbacks, which run inside
`ros::spinOnce` in the loop's thread; `LoseLidar`, `PushScan`, `SyncPackages`,
`SyncWithoutImu`; then `Process` (IMU initialisation), `CatchUpToScan`, `AlignGravity`,
`Downsample` and, for each time of the scan, `CatchUpToFirst`, `PredictToImu`,
`PredictToPoint`. `DriverSends` says which scans the driver sends: they follow each other
without overlap, or start again from before (a recording); a scan with exactly the stamp of
the one before is not sent. `FilterWalk` conjoins to these actions what happens inside the
filter: the groups of points of one time (`TimeCompressing`), the index `idx` through which
points are matched, the covariance's own clock `time_update_last`, the input that predicts
when `use_imu_as_input` is on, an update that fails, and the odometry. The settings
`imu_en`, `prop_at_freq_of_imu`, `publish_odometry_without_downsample` and
`use_imu_as_input` are chosen in the initial state; the last only together with the first,
since the code then takes messages without asking for it.

**`LocalMap`.** The box (`lasermap_fov_segment`), the slabs in `cub_needrm`, and
`map_incremental`, whose choice between adding a point, adding it through the downsampling
and leaving it out rests on neighbours looked up where the point was before the update.
The tree is the set of its points; the world is integer, with faces of the box off the points.

### The navigation

**`Controller`, `Navigation`.** `Controller` is the follower alone, `Navigation` composes
it with detector, relocalization, their queues of `/diverge`, and the odometry. Poses
are numbers on a line, which keeps what `FindNearstPose` decides on: whether a distance
grew, and whether two poses are on one side of the robot. A transform is a number too, how far one frame's
origin is from another's: `place` is where the robot is, `odom` where the odometry's origin is,
`map_odom` where relocalization says the latter is. The scan goes into the registration in the lidar's frame
(`T_odom_lidar` is a constant), so what comes out is the lidar's place, and that is broadcast as
the origin's (`Register`). The registration itself is external: from a guess within `Basin` of the lidar it
finds the lidar, with an error below `diverge_threshold`; from any other, anything may come out
with any error. Headings are not modelled.

**`MC*`** instantiate the modules for TLC. **`*Proofs`** hold the proofs.

## 3. What is checked

Every property of a passing run has a mutant under `mutants`: a defect, written as a
bug someone might make, under which TLC finds that very property violated.

| Run | Shows | Instance |
|---|---|---|
| `queue` | `NoSlotConflict`, `PopsOldestWhole`, refinement `ImplementsFifo` | 4 slots, indices modulo 8, 18 packets: the indices wrap twice, the ring fills and empties at every phase |
| `delivery` | `NoLostWakeup`, `EveryPromisedPacketPublished`, `PublishedAfterNextPush`, `ExitWithTokenJoins` | two lidars, one with delayed stores; rings of 2, 3 packets each, so that a ring fills and drops |
| `pub_handler` | `EveryPointOnce`, `FrameIsOneInterval`, `JoinReturns` | 12 packets of a synchronised lidar, which span three intervals with gaps of 1 to 3 ticks, or 4 beside one of an unsynchronised lidar, so that the flag changes under waiting packets |
| `driver` | `SamplingIsConfigured`, `TopicIsOwn`, `AskedLidarSamples`, `ImuIsPublished` | two slots, three devices; a file with one lidar, announced twice, with two settings; one with all three, so that the last finds no slot, two IMU packets and a shutdown; one without lidars, or none that can be read |
| `ikd_rebuild` | `TreeIsTruth`, `NoSearchInDeletedNodes`, `BothThreadsFinish` | two points, two boxes, 3 requests, below the root or at it, a logger of 2 slots: enough to have a request before the copy, one during the replay, one after the swap, and to overflow the logger |
| `ikd_tree` | `MapIsTruth`, `RangeSearchFindsAll`, `NearestAreFound`, `NodesAreRight`, `RemovedOnce` | trees of three and four points in the plane, five calls; thresholds so low (rebuild from 3 nodes, in the thread from 5) that both kinds of rebuild, and a mark over a waiting rebuild, occur; four nearest points, so that the heap fills and is reordered |
| `front_end` | `CurvatureIsTime`, `RingTimeIsTurned`, `PointsKeepTheirTime`, `NoPointLost` | a Livox message of up to four points, gaps from 4 ticks back to 4 on, below, at and above 1 ms, noise, three positions; or four points of two rings that turn, stand or go back; then messages of none, two or four points, cut into up to three; each of the three modes |
| `mapping` | `ImuIsThere`, `TimeNeverGoesBack`, `PointsAreMatchedAtTheirTime`, `CovarianceKeepsUp`, `OdometryMovesOn`, `ReadyScanIsTaken` | three begin times, empty, short and long scans of up to three points, IMU stamps before, between, at and after all of their ends, two waiting at most (one where nobody reads them); every combination of the settings |
| `local_map` | `LidarIsInside`, `MapIsLocal`, `SeenIsMapped` | a lidar that goes along a diagonal, on which the box moves on both axes at once, and off it; landmarks that share a voxel, lie in the next one and lie apart |
| `navigation` | `IndexInPath`, `StopsForGood`, `SuccessNearGoal`, `PathEnds`, `Relocalizes` | three positions; a straight path, one that turns back, one of a single pose and an empty one; two arrivals; an odometry that begins where the first guess finds the robot and one that begins too far off; one drift or initial pose; queues of one message, so that they overflow |
| `ikd_revived`, `local_map_revisit` | violations: see section 6 | |

The passing runs have between a thousand states (the ring) and a million (the front end). `CHECK_DEADLOCK FALSE` is set because every model may stop: the bounds on
packets, requests and messages run out, and a node that has exited does nothing.
The type invariants (`TypeOK`, `WalkTypeOK` and the like) are not listed with the runs: except for the
ikd-Tree's they are parts of the inductive invariants that are proved (section 5).

How to read the conditional properties:

* `NoLostWakeup` excepts one packet of a lidar with delayed stores; the exception is real: without it
  TLC finds the packet that is left in the ring with the poll thread asleep.
  `PublishedAfterNextPush` bounds it.
* `FrameIsOneInterval` holds while every packet of the lidar is in time (`steady`): the
  time from the last point of one packet to that of the next is at most a millisecond, and
  at most about half of one plus half a packet (`Late`). Mid-360 packets, 0.48 ms apart, satisfy it; one
  lost packet does not, and then a frame may be two intervals long. The bound is tight: TLC finds a
  longer frame for the next tick.
* `AskedLidarSamples` excepts a lidar that refuses a setting: the code gives up on it.
* `TopicIsOwn` is about configured lidars; section 6 says what becomes of others.
* `TreeIsTruth` holds until a rebuild has printed "ERROR!!!" (`error`), copied no point
  (`emptied`), found more operations logged than there are slots (`overflown`) or cleared an
  ancestor's mark (`revived`); section 6 says how each comes about.
* `MapIsTruth` and `NodesAreRight` hold until a rebuild has updated a
  node with marks to push down (`revived`).
* `NodesAreRight` says of every node, not of the root alone, that a deleted one has no living point
  below it and that the points below one that is not lie in its range and are as many as its
  counts differ by (`validnum()`); at nodes that marks have still to reach, the points as
  they are without those marks. `TreeSize` alone does go
  stale: `Delete_by_range` returns early with `working_flag` set (line 774), at which the
  walk up from a rebuilt subtree stops.
* `NoSearchInDeletedNodes` leaves out the range search at the root: `Add_Points` makes it
  without a lock (`ikd_Tree.cpp:501`), while the tree may be copied, replaced and deleted.
* `CurvatureIsTime` says that a point has its own time only of messages without noise and
  large gaps (`regular`); of the others, that it is not late while times go forward, and
  never late by what a wrapped time would add. `RingTimeIsTurned` says the time is right
  until an azimuth of the ring moves back, and afterwards never early.
* `PointsKeepTheirTime` leaves out `cut_frame`, `NoPointLost` leaves out `con_frame`: there
  the code does go wrong (section 6).
* `LidarIsInside` rests on `LocalMapAssumption`: the box is larger than both margins and a
  move, and the lidar moves by less than the box does in one scan.
* `SuccessNearGoal` is about paths that arrive when none is being followed (`fresh`). What the
  robot was near to is what the last `Plan` saw (`near_goal`): the last pose but one, the goal,
  or nothing of the path that is nearer than the goal. A bound on the distance alone is false: the proof
  attempt found a path that turns back and a localization that jumps to where it does.
* `Relocalizes` is about a guess from which the registration converges, and about a robot that stands at
  the odometry's origin, since elsewhere the transform it is given is wrong (section 6). In between, the
  property ends with the first step away, or with a drift that moves the origin.
* `PathEnds` lets a path go on for ever if the transform is replaced for ever: registrations that
  do not converge may make it wrong and right in turn, and every alarm is lost in between.
* `ExitWithTokenJoins` needs a token: without one, and with no packets, `~DriverNode` waits for ever.

## 4. Fairness

Weak fairness of whole threads, never of a choice inside one: an operating-system thread
that can go on does. The consumer of the ring (`queue`), poll thread and producer (`delivery`), handler's thread
(`pub_handler`), mapping and rebuild threads (`ikd_rebuild`), the mapping loop (`mapping`);
for `navigation`, that timers fire, that queued messages are handled (`ros::spin`) and that
the base moves as told. `driver` is fair to the detection thread, the SDK's data thread, the
IMU poll thread and the destructor, and to a device's acknowledgement of each command: a
device that is asked again and again answers in the end. The last is an assumption about
the SDK and the device; the code only keeps asking. `local_map`, `front_end` and `ikd_tree`
check safety only and assume none. Nothing obliges lidars, planner or operator to send
anything, the rebuild to be asked for, or a node to be shut down.

## 5. What is proved

With TLAPS, for all values of the constants that satisfy the module's `ASSUME`. Of a liveness
property its safety half is proved where that is what could go wrong: what the thread waits for is there
or on its way, and each of its steps takes it nearer to its end. That it takes these steps is fairness.

* **Ring** (`LidarDataQueueProofs`): `RingInv`, hence `TypeOK`, `NoSlotConflict` and
  `PopsOldestWhole`; and every step maps to a step of `PacketFifo` or a stutter
  (`RingIsFifo`). The invariant says that the indices are the numbers of packets accepted
  and popped modulo `IdxMod`, that these differ by at most `Size`, and that the slots
  between them hold the packets with those numbers. So full, empty and the used size are tests
  of two counters (`RingIsTwoCounters`), which is the ring of `PointCloudDelivery`. The invariant
  is needed because `NoSlotConflict` alone says nothing of why two indices that are equal modulo
  `Size` cannot be both in use.
  The module begins with the facts about `%` it rests on. The assumption that the ring's size divides 2^32 and is at most
  half of it is what `RoundupPowerOf2` guarantees.
* **Delivery** (`PointCloudProofs`): `DeliveryInv`, hence `TypeOK`, `OneToken` and
  `NoLostWakeup`, for any number of lidars and any set of delayed ones. Its heart is
  `Covered`: an accepted packet that still waits is covered by a token, by a poll loop that has not passed its
  lidar, by a producer about to look at the semaphore, by a delayed store, or by the exit.
  `ExitNeedsOneToken` gives the variant of the poll thread after the exit is signalled, and the only place
  where it may still wait.
* **Packet handler** (`PointCloudProofs`): `HandlerInv`, hence `EveryPointOnce` and
  `FrameIsOneInterval`, for any lidars, time types, mixture of packets and schedule.
  `EveryPointOnce` is inductive as it stands. For the intervals, `SyncInv` says that the flag is set before a
  packet of a steady lidar is looked at, `ClockInv` that the packets in flight are in time, each after the one
  before, and `FrameInv` that a frame which follows one of the k-th interval has not passed the
  (k+1)-th's first millisecond (`Growing`). That a frame is then ended there, neither skipped nor
  split, is arithmetic: `Late` is the condition it needs.
  `QuitIsOnePacketAway`: the quit flag stays set, and from any step the handler's thread has at most
  the packet in hand to finish, whatever is queued.
* **Driver** (`LivoxDriverProofs`): `DriverInv`, hence `SamplingIsConfigured` and `TopicIsOwn`, for any
  devices, files, settings, number of slots and order of answers. `AskedKeepTheirBit` says
  that a setting that was requested and not acknowledged still has its bit; `AskedForAll`
  that outside the mutex a lidar was asked for all of its settings or for none. Together they
  make "no bits left" mean "everything acknowledged". `ConfigComesFirst` is why the file cannot change
  what was requested. `TopicIsOwn` needs that `AllocateIndex` never gives an index twice
  (`OneIndexEach`), that the entry at a configured lidar's index is its own (`EntriesAreTheirs`), that the
  strangers come after the lidars of the file (`ConfiguredGoFirst`), and that data are filed under
  the index of the lidar they come from (`ImuInv`).
  For the two liveness properties: a lidar that was asked, refused nothing and does not sample has bits left, and
  for each of them a command under way (`AnswersAreToCome`), and while the poll thread sleeps with no token to come
  nothing of a sampling lidar waits (`ImuWakeupsAreNotLost`).
* **Rebuilding** (`IkdTreeProofs`): `RebuildInv`, hence `TreeIsTruth` and
  `NoSearchInDeletedNodes`, for any points, boxes, requests and room in the logger. `PtrInv`, `SearchInv` and
  `HoldInv` say where each thread is while a mutex, the counter or `Rebuild_Ptr` is in a state;
  `RingInv` that the logger is a ring; `TruthInv` that what the mapping thread has still to apply leads to
  `truth`; and `CopyInv`, the heart, that the new tree, with the operation in the rebuild thread's hand and
  the logged ones replayed on it one after the other, is the old tree.
  `NoDeadlock`: the two threads never wait for each other, and the rebuild thread waits only for an
  update or a search that is under way.
* **The tree's heap** (`IkdTreeProofs`): `push` and `pop` keep the order, for any entries and `k_nearest`, and
  lose and double none (`PushKeepsTheHeap`, `PopTakesTheTop`). So, whatever points a search comes by, the
  heap holds the nearest of them (`OffersKeepTheNearest`); a son whose box is no nearer than the
  top has none of these (`TurningBackLosesNothing`); and they are given nearest first
  (`NearestComeFirst`). The order with one entry out of place is the invariant of each loop; the loop is a
  recursive function over the number of its turns, whose existence and equation are proved first.
* **The tree's nodes** (`IkdTreeProofs`): `Living(t)` is the set of the points below a node with the way to each,
  seen through the marks on that way; a node is `Right` if its marks, range and counts are true of them, and
  `Trees` are the trees of any height all of whose nodes are. `NodesAreRight`, in the run, is what
  says that the trees TLC meets are such. Each operation at a node makes trees of trees:
  `Delete_by_range`'s marking takes all points and no more (`DeletedIsDeleted`), `Push_Down` takes none
  (`PushDownKeepsThePoints`), `Update` gathers the sons' whatever they have become
  (`UpdateTakesTheSons`), and a subtree may be replaced by one with the same points without it
  (`SonsMayBeReplaced`). `UpdateTakesTheSons` asks that no mark waits at the node, but for a leaf inserted
  since: the rebuild's walk to the root calls `Update` without looking, and `ikd_revived`
  (section 6) is what comes of it. `RangesTell` is why a search may turn back at a range or a box distance.
* **Front end** (`LidarFrontEndProofs`): `FrontEndInv`, hence all four properties of the
  run. `TimeInv` (Livox): the previous entry's time never exceeds the last offset time, and
  equals it while no point was left out. `RingInv` (spinning lidars): the time of a ring is the
  angle it has turned by, up to whole turns, and those are none while no azimuth has moved
  back. `IntakeInv`: the points held in buffer, cut and combination, with those taken, are
  the points accepted; every scan, and the combination, fits its begin time.
* **Mapping loop** (`LaserMappingProofs`): `MappingInv`, hence `TypeOK`, `ImuIsThere`,
  `MeasuredScan` and `TimeNeverGoesBack`, for any scans and stamps. `ImuOrder` says that the last stamp received is that
  of the last message in the deque or of the one in hand; `ScanInHand` that the scan's
  end is not after that stamp. Together they give a message whenever a loop needs one.
  `FilterBehind` adds that the filter's time is before everything it has yet to be predicted to.
  On top of it `WalkInv`, hence `CovarianceKeepsUp` and `OdometryMovesOn`: the message before
  the one in hand, and the last odometry, are older than every point to come
  (`ImuLastBehind`, `OdometryBehind`), and filter, map and first walk begin in that order (`Phases`).
  `TurnsEnd` is the variant of one turn of the loop; `ReadyScansStayReady` that a scan which may be taken stays
  so, and first, until it is, unless the filter empties `imu_deque`.
  Then `CloudInv`, hence `PointsAreMatchedAtTheirTime`: the times that are left are those of the
  points behind `idx`, which is the end of the (k-1)-th group. A group is the run of points between two
  ends, `TimeCompressing` is defined by counting ends, and the next point in time is then the k-th
  group's (`GroupInHand`).
* **Local map** (`LocalMapProofs`): `MapInv`, hence `LidarIsInside`, `MapIsLocal` and `SeenIsMapped`, for any
  axes, landmarks and way of the lidar. The invariant is that the box keeps the whole margin
  once it has been moved, and the margin less one step until then; a point seen from within
  the margin is inside. For `SeenIsMapped` each way of adding a point keeps every voxel that is filled
  filled (`CellsStayFilled`), and a point that is left out has a neighbour in its own voxel.
* **Navigation** (`NavigationProofs`): `IndexInPath`, since `FindNearstPose` returns an
  index of the path from any natural number, and `StopsForGood`; and `SuccessNearGoal`, by `NearInv`:
  an index other than 0 was reached by following this path, and one at its end was reached by a
  `Plan` that saw the goal near. The index `FindNearstPose` chooses is a least one, about which
  `LastIsNear` reasons.
  `TypeOK` bounds every subscriber's queue, since `EnqueueKeepsSize` drops the oldest message of
  a full one.

Only model-checked:

* Liveness, as far as it needs fairness and `ENABLED`: the liveness half of `ImplementsFifo`,
  `PublishedAfterNextPush`, `EveryPromisedPacketPublished`, `ExitWithTokenJoins`, `JoinReturns`,
  `AskedLidarSamples`, `ImuIsPublished`, `BothThreadsFinish`, `ReadyScanIsTaken`, `PathEnds` and
  `Relocalizes`. The last two have no theorem about their safety half either.
* The five properties of `ikd_tree`. An update of the tree, its rebuilding in place and its searches are
  recursive operators that return sets of trees; the theorems above are about each step of
  the recursion, not about where it goes.

The two violated properties are false and have no theorem.

Induction over a number is needed in several places (a path's poses, a cloud's points, an index's
slots, a loop's turns, a tree's height), and done by a least counterexample: a non-empty set of
naturals has a least element (`NatLessThanWellFounded`, `WFMin`), and the step shows that it is no
counterexample. That a recursive function satisfies its own equation is shown in the same way, from
the functions on its first values.

## 6. Where the code and its comments disagree

Shown by a run of its own:

* `ikd_revived`: after a swap, `ikd_Tree.cpp:345` updates a father whose `tree_deleted` mark was
  pushed to it by its own father and is not pushed on yet. `Update` takes the mark from the sons, the
  new son has none, and the points that a box deleted are in the map again. The run builds
  15 points on a line. An insertion makes a subtree three levels down on the left wait for its rebuild, a
  box deletes the root's left subtree, and a downsampled insertion pushes the mark of its top node
  down a level, to the father of the subtree that waits.
* `local_map_revisit`: `laserMapping.cpp:164` shrinks `cub_needrm` to fit and never clears it. The
  next move of the box deletes every slab of every earlier move again: the robot drives
  out, comes back, maps what it had left behind, and loses it, inside the box.

Met while modelling, and part of the models or the hazards, without a run of their own.
In the driver:

* `livox_lidar_callback.cpp:53`: a lidar that is not in the json file gets a slot, but its handle
  is never written: all of them publish as lidar 0.
* A configured lidar whose settings are all -1 is never asked for one, so no answer makes it sample.
* `lds.cpp:115`: the IMU data of a lidar that does not sample pile up without bound.
* `cache_index.cpp:81` looks into the map without the lock the detection thread inserts under.
* `livox_lidar_callback.cpp:111`: a work mode that is refused is tried again for ever, asleep
  for a second each time in the SDK's thread.
* A user configuration that cannot be parsed is only logged; the poll threads start even if
  the initialisation failed; with an invalid `data_src`, `~DriverNode` dereferences a null
  `lds_`; with an invalid `xfer_format` the publish loop spins without popping (`lddc.cpp:168`).

In the ikd-Tree:

* `ikd_Tree.cpp:352` clears `rebuild_flag` after the mutex is released; an update that
  waited for it is logged for a rebuild that is over, and the next rebuild prints "ERROR!!!"
  (line 246) and applies it twice. (`IkdTreeRebuild` reaches this; history `error`.)
* `ikd_Tree.cpp:282`: if every point was deleted before the copy, the logged updates are not
  replayed, although line 279 says "update missed operations". (History `emptied`.)
* `ikd_Tree.h:240`: `MANUAL_Q::push` overwrites the oldest operation when `Q_LEN` wait. (History `overflown`.)
* `ikd_Tree.cpp:501`: `Add_Points` searches at the root without a lock while the second thread
  copies, replaces and deletes the tree.
* Not called by Point-LIO: `Delete_by_point` follows one side only at ties, so a point level
  with its node may not be found; `Add_by_range` compares with ranges that leave deleted
  points out, so a box around the living ones revives others outside it.

In the mapping:

* `preprocess.cpp:119` compares a point with `pl_full[i-1]` even if that was never filled; after one
  noisy point, more than 1 ms into a scan, times start again near 0, although line 116 calls
  them the points' times.
* A point a hair before its ring's first azimuth, or an azimuth that moves back, puts the
  ring's later points whole turns late. The first point of every ring is dropped. The ring
  number is not checked against `N_SCANS`. Ouster points on the edge of the blind zone are
  kept, those of the others not.
* `laserMapping.cpp:359` drops the message that completes a combined scan; line 333 places a second
  subframe's points after their time, as its begin time moves and their offsets do not.
* `laserMapping.cpp:304` logs "clear buffer" and clears nothing.
* `laserMapping.cpp:475`: `meas.imu` is never cleared, so that the initialisation averages
  its first messages again with every scan.
* An IMU message with the stamp of an earlier one is not fused (`dt_cov` is 0). With `imu_en` off and
  `prop_at_freq_of_imu` on, the covariance stays behind for ever after the first point;
  with `imu_en` off and `use_imu_as_input` on, lines 1172 and 1208 take the front of an empty deque.
  The shipped launch files set none of these.
* `imu_deque` (with `imu_en` off), `path.poses` and `pcl_wait_save` grow without bound, and
  `s_plot11[scan_count]` (line 373) is written past its 720000 entries by a run that is long enough.

In the navigation:

* `relocalization.cpp:85-99,159-161` broadcasts the registration's result as map -> odom. The scan it registers is
  the lidar's, moved by the constant `T_odom_lidar` (lines 68-69, 81-82), although its name says that it is the lidar's
  pose in the odometry's frame: the result is map -> lidar, and equal only while the robot stands where the
  odometry began, as it does at the start. Elsewhere a registration that converges leaves a wrong transform
  wrong, and a false alarm of the detector makes a right one wrong, until the robot is back there. The next guess is
  then the lidar's place, while line 189 sets it to the origin's.
* `controller.cpp:77`: a new path does not reset `prune_index`, and the planner sends paths
  three times a second (`navigation/launch/simu_navi.launch:23`): the follower starts
  in the middle of the new path and may say "Planning Success!" far from its goal.
* `controller.cpp:152` compares square roots of signed velocities: NaN, and no speed limit.
* A registration without a single correspondence has error 0, and counts as a success
  (`relocalization.cpp`, `diverge_threshold`).
* `launch_controller.py` cannot run: `Bool` is not imported and `restart_launch` calls
  `start_launch` with an argument missing.

## 7. What is not shown

Not modelled, and why:

* Floating point: registration, the Kalman filter's numbers, splines, the speed law, the
  field-of-view checker (which the mapping loop does not call), ray casting in the Gazebo
  plugin. A finite model of them would be a different program.
* Third-party code: rapidjson, small_gicp (a copy in `relocalization` and one in
  `segmentation`) and IKFoM, which together are larger than the workspace's own code; what
  this workspace needs of them is in the modules of their callers.
* Code nothing calls: the feature extraction of `preprocess.cpp` (lines 360-795), the coarse
  registration of `relocalization.cpp`, and of the ikd-Tree `Delete_Points`,
  `Add_Point_Boxes`, `Radius_Search` and `Box_Search`.
* Tracking (a callback and a timer in one thread; publishing a goal is empty), the test bench
  (`sentry_simulation`), and the launch controller, which cannot run.
* Clouds, path and log files that Point-LIO publishes or writes and nothing reads back.

Of what is modelled:

* The shape of the ikd-Tree under the interleavings of its two threads: `IkdTree` has the shape
  and no interleaving, `IkdTreeRebuild` the interleavings and no shape. Rounding of its
  coordinates and distances.
* Data races below the level of one variable: `Rebuild_Ptr` and the tree's pointers are
  read without a lock; the models take one such read or write as atomic. The two reads
  of `Rebuild_Ptr` in one condition are taken as one.
* Starvation of the rebuild thread by a mapping thread that never pauses, and of the exit by
  a publish loop that never finds its ring empty: requests and packets are bounded.
* ROS 2 builds, rosbag output, `time_unit_scale`; `ResetLidar` and `DeInitQueue`, which run
  before the first packet or at exit.

## 8. Plan

Done: ring and abstract FIFO; delivery; handler; startup, handshake and IMU data, composed;
the tree with its heap, its rebuild with its queue; all point filters and the scan intake,
composed; the mapping loop with the filter's walk, in all its settings; the local map;
navigation; proofs of every safety property that a passing run checks, but for those of `ikd_tree`,
and there of the heap and of what is done at each node; the safety halves of most liveness properties.

Next, a proof: `MapIsTruth`. With the theorems about nodes what is missing is `IkdTree`'s recursion as functions
over the tree's height, so that an update can be followed from the root down and up again.

Next, modules, should the code begin to use them: the uncalled operations of the ikd-Tree, with
`MapIsTruth` restated for them, and the odometry ring of `vehicle_simulator.cpp`.
