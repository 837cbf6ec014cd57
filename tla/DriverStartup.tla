----------------------------- MODULE DriverStartup -----------------------------
(***************************************************************************)
(* What comes before the handshake: the driver's main thread reads its     *)
(* json file, starts the SDK, gives every configured lidar an index        *)
(* (lds_lidar.cpp, comm/cache_index.cpp) and only then lets the SDK        *)
(* announce lidars.  The index is the lidar's identity from there on: its  *)
(* packets, its IMU data and its topics are filed under it.                *)
(*                                                                         *)
(* The handshake's own actions are conjoined with what they do to the      *)
(* index.                                                                  *)
(***************************************************************************)
EXTENDS LidarConfigHandshake, FiniteSetsExt

CONSTANTS Nobody,    \* the handle 0, "0.0.0.0", of a zeroed LidarDevice
          Place      \* [Handles -> Nat]: the order of the json file's lidars

ASSUME StartupAssumption ==
  /\ Nobody \notin Handles
  /\ Place \in [Handles -> Nat]
  /\ [h \in {} |-> {}] \in JsonFiles

VARIABLES
  main,         \* where the main thread is
  to_add,       \* the configured handles whose index is still to be allocated
  info_cb,      \* LidarInfoChangeCallback has been given to the SDK
  map_index,    \* map_index_: handle -> index, a function on registered
  index_cache,  \* index_cache_: the indices in use
  devices       \* lidars_[i].handle

indexVars == <<map_index, index_cache, devices>>
startupVars == <<main, to_add, info_cb, indexVars>>

Indices == 0 .. MaxDevices - 1

\* A map with one more entry.
With(f, x, y) == [z \in DOMAIN f \union {x} |-> IF z = x THEN y ELSE f[z]]

StartupInit ==
  /\ HandshakeInit
  /\ main = "summary" /\ to_add = {} /\ info_cb = FALSE
  /\ map_index = [h \in {} |-> 0]
  /\ index_cache = {}
  /\ devices = [i \in Indices |-> Nobody]

-------------------------------------------------------------------------------
(* CacheIndex                                                              *)

\* Mutant: the index is handed out and not marked as used.
GetFreeIndex_Unmarked(h) ==
  LET i == Min(Indices \ index_cache)
  IN  /\ map_index' = With(map_index, h, i)
      /\ UNCHANGED index_cache

\* A handle without an index gets the first free one.  (Both critical sections
\* of GetFreeIndex run in one thread: the main thread until info_cb is set,
\* the detection thread from then on.)
GetFreeIndex(h) ==
  LET i == Min(Indices \ index_cache)
  IN  /\ map_index' = With(map_index, h, i)
      /\ index_cache' = index_cache \union {i}

-------------------------------------------------------------------------------
(* LdsLidar::InitLdsLidar, on the main thread.                             *)

\* lidar_summary_info.lidar_type, if the file has one: Livox or not.
ParseSummaryInfo == {"livox", "other", "failed"}

\* Without a lidar_type the driver gives up; with one that is not Livox it
\* goes on without lidars.
ParseSummaryConfig ==
  /\ main = "summary"
  /\ \E lidar_type \in ParseSummaryInfo :
       main' = CASE lidar_type = "livox" -> "user"
                 [] lidar_type = "other" -> "pub_handle"
                 [] lidar_type = "failed" -> "failed"
  /\ UNCHANGED <<vars, to_add, info_cb, indexVars>>

\* The lidars with an ip, each with the settings that are given; no lidar if the
\* file cannot be opened or parsed.
Parse == {wanted, [h \in {} |-> {}]}

\* A json file that cannot be parsed counts as one without lidars.
ParseUserConfigs ==
  /\ main = "user"
  /\ main' = "sdk"
  /\ wanted' \in Parse
  /\ UNCHANGED <<registered, set_bits, sampling, in_flight, threadVars, historyVars,
                 to_add, info_cb, indexVars>>

LivoxLidarSdkInit ==
  /\ main = "sdk"
  /\ \/ main' = "devices" /\ to_add' = Configured
     \/ main' = "failed" /\ UNCHANGED to_add
  /\ UNCHANGED <<vars, info_cb, indexVars>>

\* One turn of "fill in lidar devices": a lidar for which no index is left is
\* passed over.
AddDevice(h) ==
  /\ main = "devices"
  /\ h \in to_add /\ \A g \in to_add : Place[h] <= Place[g]
  /\ to_add' = to_add \ {h}
  /\ IF index_cache = Indices
       THEN UNCHANGED <<registered, indexVars>>
       ELSE /\ GetFreeIndex(h)
            /\ registered' = registered \union {h}
            /\ devices' = [devices EXCEPT ![map_index'[h]] = h]
  /\ UNCHANGED <<wanted, set_bits, sampling, in_flight, threadVars, historyVars, main, info_cb>>

SetInfoChangeCallback ==
  /\ main = "devices" /\ to_add = {}
  /\ info_cb' = TRUE
  /\ main' = "pub_handle"
  /\ UNCHANGED <<vars, to_add, indexVars>>

\* From here on the packets of the lidars are seen.
SetLidarPubHandle ==
  /\ main = "pub_handle"
  /\ main' = "started"
  /\ UNCHANGED <<vars, to_add, info_cb, indexVars>>

Startup ==
  \/ ParseSummaryConfig \/ ParseUserConfigs \/ LivoxLidarSdkInit
  \/ \E h \in Handles : AddDevice(h)
  \/ SetInfoChangeCallback \/ SetLidarPubHandle

-------------------------------------------------------------------------------
(* The handshake, from the moment on that the SDK has the callback.        *)

\* A lidar that was not configured gets an index, but its LidarDevice keeps
\* the handle 0.
AnnounceStranger(h) ==
  /\ info_cb
  /\ AnnounceUnknown(h)
  /\ IF registered' = registered
       THEN UNCHANGED indexVars
       ELSE GetFreeIndex(h) /\ UNCHANGED devices
  /\ UNCHANGED <<main, to_add, info_cb>>

Handshake ==
  /\ \/ \E h \in Handles : info_cb /\ AnnounceKnown(h)
     \/ DetectionThread
     \/ \E h \in Handles, c \in Commands :
          Acknowledged(h, c) \/ TimedOut(h, c) \/ Refused(h, c)
  /\ UNCHANGED startupVars

\* Both poll threads are started whether InitLdsLidar succeeded or not.
ThreadsStarted == main \in {"started", "failed"}

StartupNext == Startup \/ Handshake \/ \E h \in Handles : AnnounceStranger(h)

-------------------------------------------------------------------------------
(* The inductive invariant of the proof (LivoxDriverProofs).  map_index and *)
(* index_cache agree, and the entry of lidars_ at an index names the        *)
(* configured lidar that has it, or nobody.                                 *)
StartupTypeOK ==
  /\ main \in {"summary", "user", "sdk", "devices", "pub_handle", "started", "failed"}
  /\ to_add \subseteq Handles
  /\ info_cb \in BOOLEAN
  /\ map_index \in [registered -> Indices]
  /\ devices \in [Indices -> Handles \union {Nobody}]

OneIndexEach ==
  /\ index_cache = {map_index[h] : h \in registered}
  /\ \A g, h \in registered : map_index[g] = map_index[h] => g = h

EntriesAreTheirs ==
  /\ \A h \in registered \intersect Configured : devices[map_index[h]] = h
  /\ \A i \in Indices :
       devices[i] # Nobody => devices[i] \in registered /\ map_index[devices[i]] = i

\* The file is read before a lidar has an index, and every lidar of the file
\* had its turn before a stranger can take one.
ConfigComesFirst == main \in {"summary", "user", "sdk"} => registered = {} /\ ~info_cb
ConfiguredGoFirst ==
  /\ main = "devices" => /\ ~info_cb /\ to_add \intersect registered = {}
                         /\ \/ Configured \subseteq registered \union to_add
                            \/ index_cache = Indices
  /\ info_cb => Configured \subseteq registered \/ index_cache = Indices

StartupInv ==
  StartupTypeOK /\ OneIndexEach /\ EntriesAreTheirs /\ ConfigComesFirst /\ ConfiguredGoFirst
===============================================================================
