------------------------- MODULE LidarConfigHandshake -------------------------
(***************************************************************************)
(* How a lidar gets from "announced by the SDK" to kConnectStateSampling,  *)
(* the state in which the poll thread publishes its packets                *)
(* (call_back/livox_lidar_callback.cpp).  The SDK's detection thread calls *)
(* LidarInfoChangeCallback; its command thread calls the callback of each  *)
(* asynchronous command with success, timeout or failure.  The two share   *)
(* set_bits, guarded by config_mutex_.                                     *)
(*                                                                         *)
(* A device announced again (it was unplugged, or rebooted) goes through   *)
(* the same handler while commands of the first round may be under way.    *)
(***************************************************************************)
EXTENDS Integers, FiniteSets

CONSTANTS Handles,      \* the devices on the network
          JsonFiles,    \* the user's json files: [devices -> SUBSET Settings],
                        \* the settings that are not -1
          MaxDevices,   \* kMaxSourceLidar
          MaxRounds     \* bound: [JsonFiles -> [Handles -> Nat]], how often a
                        \* device is announced

Settings == {"data_type", "scan_pattern", "blind_spot", "dual_emit"}
Others == {"attitude", "work_mode", "imu"}
Commands == Settings \union Others
Tracked == Settings \union {"work_mode"}

ASSUME HandshakeAssumption ==
  /\ \A json \in JsonFiles :
       /\ DOMAIN json \subseteq Handles /\ json \in [DOMAIN json -> SUBSET Settings]
  /\ MaxDevices \in Nat
  /\ MaxRounds \in [JsonFiles -> [Handles -> Nat]]
  /\ IsFiniteSet(Handles) /\ Handles # {}

VARIABLES
  wanted,       \* the json file, read when the driver starts
  registered,   \* the handles in cache_index_
  set_bits,     \* [Handles -> SUBSET Settings]
  sampling,     \* the handles whose connect_state is kConnectStateSampling
  in_flight,    \* [Handles -> [Commands -> Nat]]: commands not answered yet
  mutex_held,   \* config_mutex_ is held by the detection thread
  pc, handle,   \* the detection thread: where it is, and its argument
  todo,         \* the settings it has still to send under the mutex
  rounds,       \* history: how often a device was announced
  asked,        \* history: the settings ever requested of a device
  acked,        \* history: the Tracked commands a device has ever acknowledged
  refused       \* history: the settings a device has ever refused

threadVars == <<mutex_held, pc, handle, todo>>
historyVars == <<rounds, asked, acked, refused>>
vars == <<wanted, registered, set_bits, sampling, in_flight, threadVars, historyVars>>

Configured == DOMAIN wanted

HandshakeInit ==
  /\ wanted \in JsonFiles
  /\ registered = {}
  /\ set_bits = [h \in Handles |-> {}]
  /\ sampling = {}
  /\ in_flight = [h \in Handles |-> [c \in Commands |-> 0]]
  /\ mutex_held = FALSE
  /\ pc = "idle" /\ handle = (CHOOSE h \in Handles : TRUE) /\ todo = {}
  /\ rounds = [h \in Handles |-> 0]
  /\ asked = [h \in Handles |-> {}]
  /\ acked = [h \in Handles |-> {}]
  /\ refused = [h \in Handles |-> {}]

\* The settings the handler sends.  A device that was registered because it
\* announced itself has a livox_config of zeroes, where no setting is -1.
Requested(h) == IF h \in Configured /\ h \in registered THEN wanted[h] ELSE Settings

Sent(h, c) == [in_flight EXCEPT ![h][c] = @ + 1]
Answered(h, c) == [in_flight EXCEPT ![h][c] = @ - 1]

-------------------------------------------------------------------------------
(* LidarInfoChangeCallback, on the detection thread.                       *)

\* The device is unknown: it gets a free index, if there is one.
AnnounceUnknown(h) ==
  /\ pc = "idle"
  /\ rounds[h] < MaxRounds[wanted][h]
  /\ h \notin registered
  /\ rounds' = [rounds EXCEPT ![h] = @ + 1]
  /\ handle' = h
  /\ IF Cardinality(registered) < MaxDevices
       THEN registered' = registered \union {h} /\ pc' = "work_mode"
       ELSE UNCHANGED <<registered, pc>>
  /\ UNCHANGED <<wanted, set_bits, sampling, in_flight, mutex_held, todo, asked, acked, refused>>

\* The device is known: the mutex is held while all its settings are requested.
AnnounceKnown(h) ==
  /\ pc = "idle"
  /\ rounds[h] < MaxRounds[wanted][h]
  /\ h \in registered
  /\ ~mutex_held
  /\ mutex_held' = TRUE
  /\ rounds' = [rounds EXCEPT ![h] = @ + 1]
  /\ handle' = h
  /\ todo' = Requested(h)
  /\ pc' = "settings"
  /\ UNCHANGED <<wanted, registered, set_bits, sampling, in_flight, asked, acked, refused>>

\* Mutant: the mutex is given back after each setting.
RequestSetting_Unguarded(c) ==
  /\ pc = "settings"
  /\ c \in todo
  /\ mutex_held' = FALSE
  /\ set_bits' = [set_bits EXCEPT ![handle] = @ \union {c}]
  /\ asked' = [asked EXCEPT ![handle] = @ \union {c}]
  /\ in_flight' = Sent(handle, c)
  /\ todo' = todo \ {c}
  /\ UNCHANGED <<wanted, registered, sampling, pc, handle, rounds, acked, refused>>

\* set_bits |= ...; SetLivoxLidar...(handle, ..., callback)
RequestSetting(c) ==
  /\ pc = "settings"
  /\ c \in todo
  /\ set_bits' = [set_bits EXCEPT ![handle] = @ \union {c}]
  /\ asked' = [asked EXCEPT ![handle] = @ \union {c}]
  /\ in_flight' = Sent(handle, c)
  /\ todo' = todo \ {c}
  /\ UNCHANGED <<wanted, registered, sampling, mutex_held, pc, handle, rounds, acked, refused>>

\* The mutex is released and the attitude sent, to config.handle: that is 0,
\* nobody's handle, for a device that was not configured.
SendAttitude ==
  /\ pc = "settings" /\ todo = {}
  /\ mutex_held' = FALSE
  /\ in_flight' = IF handle \in Configured THEN Sent(handle, "attitude") ELSE in_flight
  /\ pc' = "work_mode"
  /\ UNCHANGED <<wanted, registered, set_bits, sampling, handle, todo, historyVars>>

SendWorkMode ==
  /\ pc = "work_mode"
  /\ in_flight' = Sent(handle, "work_mode")
  /\ pc' = "imu"
  /\ UNCHANGED <<wanted, registered, set_bits, sampling, mutex_held, handle, todo, historyVars>>

EnableImu ==
  /\ pc = "imu"
  /\ in_flight' = Sent(handle, "imu")
  /\ pc' = "idle"
  /\ UNCHANGED <<wanted, registered, set_bits, sampling, mutex_held, handle, todo, historyVars>>

-------------------------------------------------------------------------------
(* The callbacks of the commands, on the command thread.                   *)

\* Mutant: the callback tests for the last bit before it clears its own.
SettingAcknowledged_TestsFirst(h, c) ==
  /\ c \in Settings /\ in_flight[h][c] > 0
  /\ ~mutex_held
  /\ in_flight' = Answered(h, c)
  /\ set_bits' = [set_bits EXCEPT ![h] = @ \ {c}]
  /\ sampling' = IF set_bits[h] = {} THEN sampling \union {h} ELSE sampling
  /\ acked' = [acked EXCEPT ![h] = @ \union {c}]
  /\ UNCHANGED <<wanted, registered, threadVars, rounds, asked, refused>>

\* Success: under the mutex the bit is cleared; without bits left the lidar
\* samples.
SettingAcknowledged(h, c) ==
  /\ c \in Settings /\ in_flight[h][c] > 0
  /\ ~mutex_held
  /\ in_flight' = Answered(h, c)
  /\ set_bits' = [set_bits EXCEPT ![h] = @ \ {c}]
  /\ sampling' = IF set_bits'[h] = {} THEN sampling \union {h} ELSE sampling
  /\ acked' = [acked EXCEPT ![h] = @ \union {c}]
  /\ UNCHANGED <<wanted, registered, threadVars, rounds, asked, refused>>

OtherAcknowledged(h, c) ==
  /\ c \in Others /\ in_flight[h][c] > 0
  /\ in_flight' = Answered(h, c)
  /\ acked' = [acked EXCEPT ![h] = @ \union ({c} \intersect Tracked)]
  /\ UNCHANGED <<wanted, registered, set_bits, sampling, threadVars, rounds, asked, refused>>

\* Timeout: the command is sent again, so one stays under way.  The IMU
\* callback gives up when the SDK passes it no response.
TimedOut(h, c) ==
  /\ in_flight[h][c] > 0
  /\ \/ UNCHANGED in_flight
     \/ c = "imu" /\ in_flight' = Answered(h, c)
  /\ UNCHANGED <<wanted, registered, set_bits, sampling, threadVars, historyVars>>

\* Any other status: given up, but for the work mode, which is tried again a
\* second later.
Refused(h, c) ==
  /\ in_flight[h][c] > 0
  /\ in_flight' = IF c = "work_mode" THEN in_flight ELSE Answered(h, c)
  /\ refused' = [refused EXCEPT ![h] = @ \union ({c} \intersect Settings)]
  /\ UNCHANGED <<wanted, registered, set_bits, sampling, threadVars, rounds, asked, acked>>

-------------------------------------------------------------------------------
DetectionThread ==
  \/ \E c \in Settings : RequestSetting(c)
  \/ SendAttitude \/ SendWorkMode \/ EnableImu

Acknowledged(h, c) == SettingAcknowledged(h, c) \/ OtherAcknowledged(h, c)

-------------------------------------------------------------------------------
(* Properties.                                                             *)

\* Every variable of the handshake has its type.
TypeOK ==
  /\ wanted \in JsonFiles
  /\ registered \subseteq Handles
  /\ set_bits \in [Handles -> SUBSET Settings]
  /\ sampling \subseteq Handles
  /\ in_flight \in [Handles -> [Commands -> Nat]]
  /\ mutex_held \in BOOLEAN
  /\ pc \in {"idle", "settings", "work_mode", "imu"}
  /\ handle \in Handles
  /\ todo \subseteq Settings
  /\ rounds \in [Handles -> Nat]
  /\ asked \in [Handles -> SUBSET Settings]
  /\ acked \in [Handles -> SUBSET Tracked]
  /\ refused \in [Handles -> SUBSET Settings]

\* A lidar is taken into the polling loop only when every setting of its
\* configuration has been acknowledged: a quick answer to the first command
\* does not make it sample while the handler still has others to send, and
\* neither does an answer that belongs to an earlier announcement.
SamplingIsConfigured ==
  \A h \in sampling : Requested(h) \subseteq acked[h]

\* A lidar that was asked for a setting samples in the end, unless it refuses
\* one: the last callback to clear its bit sees that it is the last, whatever
\* the order of the answers and however many commands time out.
AskedLidarSamples ==
  \A h \in Handles :
    (asked[h] # {}) ~> (h \in sampling \/ refused[h] # {})

-------------------------------------------------------------------------------
(* The inductive invariant of the proof (LivoxDriverProofs): a setting that *)
(* was asked for and not acknowledged keeps its bit, and outside the mutex  *)
(* a lidar was asked for all of its settings or for none.                   *)
MutexIsTheHandlers == mutex_held <=> pc = "settings"
NothingAskedOfStrangers == \A h \in Handles \ registered : asked[h] = {}
AskedKeepTheirBit ==
  \A h \in Handles : asked[h] \subseteq set_bits[h] \union acked[h]
CommandsWereAsked ==
  \A h \in Handles, c \in Settings : in_flight[h][c] > 0 => c \in asked[h]
AskedForAll ==
  \A h \in Handles :
    asked[h] # {} =>
      Requested(h) \subseteq
        asked[h] \union (IF mutex_held /\ handle = h THEN todo ELSE {})
HandlerAsksTheRest ==
  mutex_held => /\ handle \in registered
                /\ Requested(handle) \subseteq asked[handle] \union todo

SamplersWereAsked == \A h \in sampling : asked[h] # {}

HandshakeInv ==
  /\ TypeOK
  /\ MutexIsTheHandlers /\ NothingAskedOfStrangers /\ SamplersWereAsked
  /\ AskedKeepTheirBit /\ CommandsWereAsked /\ AskedForAll /\ HandlerAsksTheRest
  /\ SamplingIsConfigured
===============================================================================
