--------------------------- MODULE LivoxDriverProofs ---------------------------
(***************************************************************************)
(* SamplingIsConfigured and TopicIsOwn for every set of devices, json      *)
(* files, number of indices and order of answers.                          *)
(***************************************************************************)
EXTENDS LivoxDriver, FiniteSetTheorems, WellFoundedInduction, TLAPS

\* What the invariant speaks of.
handshakeVars == <<wanted, registered, set_bits, sampling, in_flight, mutex_held,
                   pc, handle, todo, rounds, asked, acked, refused>>

LEMMA SettingsAreCommands == Settings \subseteq Commands /\ Settings \subseteq Tracked
  BY DEF Commands, Tracked

\* A handshake that has not begun satisfies the invariant.
LEMMA InitHandshakeInv == DriverInit => HandshakeInv
<1> SUFFICES ASSUME DriverInit PROVE HandshakeInv
  OBVIOUS
<1> USE DEF DriverInit, StartupInit, HandshakeInit
<1>1. (CHOOSE h \in Handles : TRUE) \in Handles
  BY HandshakeAssumption
<1>2. TypeOK
  BY <1>1 DEF TypeOK
<1>3. MutexIsTheHandlers /\ NothingAskedOfStrangers /\ SamplersWereAsked /\ AskedKeepTheirBit
  BY DEF MutexIsTheHandlers, NothingAskedOfStrangers, SamplersWereAsked, AskedKeepTheirBit
<1>4. CommandsWereAsked
  BY SettingsAreCommands DEF CommandsWereAsked
<1>5. AskedForAll /\ HandlerAsksTheRest /\ SamplingIsConfigured
  BY DEF AskedForAll, HandlerAsksTheRest, SamplingIsConfigured
<1> QED
  BY <1>2, <1>3, <1>4, <1>5 DEF HandshakeInv

\* While no lidar is registered the file may be read anew, and a lidar that was
\* not registered was asked for nothing: neither changes what was Requested of a
\* lidar that was asked.
LEMMA RegistrationKeepsInv ==
  ASSUME HandshakeInv, wanted' \in JsonFiles, registered' \subseteq Handles,
         registered \subseteq registered',
         wanted' = wanted \/ registered = {},
         UNCHANGED <<set_bits, sampling, in_flight, mutex_held, todo, asked, acked, refused>>,
         rounds' \in [Handles -> Nat],
         \/ UNCHANGED <<pc, handle>>
         \/ ~mutex_held /\ handle' \in Handles /\ pc' \in {"idle", "work_mode"}
  PROVE  HandshakeInv'
<1> USE DEF HandshakeInv
<1>1. TypeOK'
  BY DEF TypeOK
<1>2. /\ MutexIsTheHandlers' /\ NothingAskedOfStrangers' /\ SamplersWereAsked'
      /\ AskedKeepTheirBit' /\ CommandsWereAsked'
  BY DEF TypeOK, MutexIsTheHandlers, NothingAskedOfStrangers, SamplersWereAsked,
         AskedKeepTheirBit, CommandsWereAsked
<1>3. ASSUME NEW h \in Handles, h \in registered PROVE Requested(h)' = Requested(h)
  BY <1>3 DEF Requested, Configured
<1>4. ASSUME NEW h \in Handles, asked[h] # {} PROVE h \in registered
  BY <1>4 DEF NothingAskedOfStrangers
<1>5. mutex_held => UNCHANGED handle
  OBVIOUS
<1>6. AskedForAll'
  BY <1>3, <1>4, <1>5 DEF AskedForAll, TypeOK
<1>7. HandlerAsksTheRest'
  BY <1>3, <1>5 DEF HandlerAsksTheRest, TypeOK
<1>8. SamplingIsConfigured'
  BY <1>3, <1>4 DEF SamplingIsConfigured, SamplersWereAsked, TypeOK
<1> QED
  BY <1>1, <1>2, <1>6, <1>7, <1>8

\* The mutex is taken, and all that is wanted of the lidar is still to be asked.
LEMMA AnnounceKnownKeepsInv ==
  ASSUME HandshakeInv, NEW h \in Handles, AnnounceKnown(h)
  PROVE  HandshakeInv'
<1> USE DEF HandshakeInv, AnnounceKnown
<1>0. Requested(h) \subseteq Settings
  BY HandshakeAssumption DEF Requested, Configured, TypeOK
<1>1. TypeOK'
  BY <1>0 DEF TypeOK
<1>2. /\ MutexIsTheHandlers' /\ NothingAskedOfStrangers' /\ SamplersWereAsked'
      /\ AskedKeepTheirBit' /\ CommandsWereAsked'
  BY DEF TypeOK, MutexIsTheHandlers, NothingAskedOfStrangers, SamplersWereAsked,
         AskedKeepTheirBit, CommandsWereAsked
<1>3. \A g \in Handles : Requested(g)' = Requested(g)
  BY DEF Requested, Configured
<1>4. AskedForAll' /\ HandlerAsksTheRest' /\ SamplingIsConfigured'
  BY <1>3 DEF AskedForAll, HandlerAsksTheRest, SamplingIsConfigured, TypeOK
<1> QED
  BY <1>1, <1>2, <1>4

\* A bit and its command go out together, under the mutex.
LEMMA RequestSettingKeepsInv ==
  ASSUME HandshakeInv, NEW c \in Settings, RequestSetting(c)
  PROVE  HandshakeInv'
<1> USE DEF HandshakeInv, RequestSetting, Sent
<1>0. mutex_held /\ handle \in registered /\ c \in Commands
  BY SettingsAreCommands DEF MutexIsTheHandlers, HandlerAsksTheRest
<1>1. TypeOK'
  BY <1>0 DEF TypeOK
<1>2. MutexIsTheHandlers' /\ NothingAskedOfStrangers' /\ SamplersWereAsked'
  BY <1>0 DEF TypeOK, MutexIsTheHandlers, NothingAskedOfStrangers, SamplersWereAsked
<1>3. AskedKeepTheirBit' /\ CommandsWereAsked'
  BY SettingsAreCommands DEF TypeOK, AskedKeepTheirBit, CommandsWereAsked
<1>4. \A g \in Handles : Requested(g)' = Requested(g)
  BY DEF Requested, Configured
<1>5. AskedForAll' /\ HandlerAsksTheRest' /\ SamplingIsConfigured'
  BY <1>0, <1>4 DEF AskedForAll, HandlerAsksTheRest, SamplingIsConfigured, TypeOK
<1> QED
  BY <1>1, <1>2, <1>3, <1>5

\* The other commands of the handler: the mutex is given back when nothing is
\* left to ask.
LEMMA SendOthersKeepsInv ==
  ASSUME HandshakeInv, SendAttitude \/ SendWorkMode \/ EnableImu
  PROVE  HandshakeInv'
<1> USE DEF HandshakeInv, Sent, historyVars
<1>0. /\ "attitude" \in Commands /\ "work_mode" \in Commands /\ "imu" \in Commands
      /\ "attitude" \notin Settings /\ "work_mode" \notin Settings /\ "imu" \notin Settings
  BY DEF Commands, Others, Settings
<1>1. /\ in_flight' \in [Handles -> [Commands -> Nat]]
      /\ \A h \in Handles, c \in Settings : in_flight'[h][c] = in_flight[h][c]
  <2>1. CASE SendAttitude
    BY <1>0, <2>1, SettingsAreCommands DEF SendAttitude, TypeOK
  <2>2. CASE SendWorkMode
    BY <1>0, <2>2, SettingsAreCommands DEF SendWorkMode, TypeOK
  <2>3. CASE EnableImu
    BY <1>0, <2>3, SettingsAreCommands DEF EnableImu, TypeOK
  <2> QED
    BY <2>1, <2>2, <2>3
<1>2. /\ UNCHANGED <<wanted, registered, set_bits, sampling, handle, todo, rounds, asked, acked, refused>>
      /\ (mutex_held' = mutex_held /\ ~mutex_held) \/ (mutex_held' = FALSE /\ todo = {})
      /\ pc' # "settings" /\ pc' \in {"idle", "work_mode", "imu"}
  <2>1. CASE SendAttitude
    BY <2>1 DEF SendAttitude
  <2>2. CASE SendWorkMode
    BY <2>2 DEF SendWorkMode, MutexIsTheHandlers
  <2>3. CASE EnableImu
    BY <2>3 DEF EnableImu, MutexIsTheHandlers
  <2> QED
    BY <2>1, <2>2, <2>3
<1>3. TypeOK'
  BY <1>1, <1>2 DEF TypeOK
<1>4. /\ MutexIsTheHandlers' /\ NothingAskedOfStrangers' /\ SamplersWereAsked'
      /\ AskedKeepTheirBit' /\ CommandsWereAsked'
  BY <1>1, <1>2 DEF TypeOK, MutexIsTheHandlers, NothingAskedOfStrangers, SamplersWereAsked,
                    AskedKeepTheirBit, CommandsWereAsked
<1>5. \A g \in Handles : Requested(g)' = Requested(g)
  BY <1>2 DEF Requested, Configured
<1>6. AskedForAll' /\ HandlerAsksTheRest' /\ SamplingIsConfigured'
  BY <1>2, <1>5 DEF AskedForAll, HandlerAsksTheRest, SamplingIsConfigured, TypeOK
<1> QED
  BY <1>3, <1>4, <1>6

\* The last bit to be cleared makes the lidar sample: outside the mutex it was
\* asked for everything, and what has no bit any more is acknowledged.
LEMMA SettingAcknowledgedKeepsInv ==
  ASSUME HandshakeInv, NEW h \in Handles, NEW c \in Commands, SettingAcknowledged(h, c)
  PROVE  HandshakeInv'
<1> USE DEF HandshakeInv, SettingAcknowledged, Answered, threadVars
<1>0. c \in Settings /\ c \in Tracked /\ c \in asked[h] /\ ~mutex_held
  BY SettingsAreCommands DEF CommandsWereAsked
<1>1. /\ in_flight' \in [Handles -> [Commands -> Nat]]
      /\ \A g \in Handles, d \in Settings : in_flight'[g][d] > 0 => in_flight[g][d] > 0
  BY <1>0, SettingsAreCommands DEF TypeOK
<1>2. TypeOK'
  BY <1>0, <1>1 DEF TypeOK
<1>3. MutexIsTheHandlers' /\ NothingAskedOfStrangers' /\ CommandsWereAsked'
  BY <1>1 DEF TypeOK, MutexIsTheHandlers, NothingAskedOfStrangers, CommandsWereAsked
<1>4. AskedKeepTheirBit' /\ SamplersWereAsked'
  BY <1>0 DEF TypeOK, AskedKeepTheirBit, SamplersWereAsked
<1>5. \A g \in Handles : Requested(g)' = Requested(g)
  BY DEF Requested, Configured
<1>6. AskedForAll' /\ HandlerAsksTheRest'
  BY <1>0, <1>5 DEF AskedForAll, HandlerAsksTheRest, TypeOK
<1>7. SamplingIsConfigured'
  <2> SUFFICES ASSUME NEW g \in Handles, g \in sampling' PROVE Requested(g) \subseteq acked'[g]
    BY <1>2, <1>5 DEF SamplingIsConfigured, TypeOK
  <2>1. acked[g] \subseteq acked'[g]
    BY DEF TypeOK
  <2>2. CASE g \in sampling
    BY <2>1, <2>2 DEF SamplingIsConfigured
  <2>3. CASE g \notin sampling
    <3>1. g = h /\ set_bits'[h] = {}
      BY <2>3
    <3>2. Requested(h) \subseteq asked[h]
      BY <1>0 DEF AskedForAll
    <3>3. asked'[h] \subseteq acked'[h]
      BY <1>4, <3>1 DEF AskedKeepTheirBit
    <3> QED
      BY <3>1, <3>2, <3>3
  <2> QED
    BY <2>2, <2>3
<1> QED
  BY <1>2, <1>3, <1>4, <1>6, <1>7

\* Every other answer clears no bit, and leaves no more commands under way.
LEMMA OtherAnswersKeepInv ==
  ASSUME HandshakeInv, NEW h \in Handles, NEW c \in Commands,
         OtherAcknowledged(h, c) \/ TimedOut(h, c) \/ Refused(h, c)
  PROVE  HandshakeInv'
<1> USE DEF HandshakeInv, OtherAcknowledged, TimedOut, Refused, Answered, threadVars, historyVars
<1>0. in_flight[h][c] > 0
  OBVIOUS
<1>1. in_flight' = in_flight \/ in_flight' = [in_flight EXCEPT ![h][c] = @ - 1]
  OBVIOUS
<1>2. /\ in_flight' \in [Handles -> [Commands -> Nat]]
      /\ \A g \in Handles, d \in Settings : in_flight'[g][d] > 0 => in_flight[g][d] > 0
  <2> HIDE DEF HandshakeInv, OtherAcknowledged, TimedOut, Refused
  <2>1. in_flight \in [Handles -> [Commands -> Nat]]
    BY DEF HandshakeInv, TypeOK
  <2> QED
    BY <1>0, <1>1, <2>1, SettingsAreCommands
<1>8. /\ UNCHANGED <<wanted, registered, set_bits, sampling>>
      /\ UNCHANGED <<mutex_held, pc, handle, todo, rounds, asked>>
  OBVIOUS
<1>9. \/ acked' = acked
      \/ acked' = [acked EXCEPT ![h] = @ \union ({c} \intersect Tracked)]
  OBVIOUS
<1>10. /\ acked' \in [Handles -> SUBSET Tracked]
       /\ \A g \in Handles : acked[g] \subseteq acked'[g]
  BY <1>9 DEF TypeOK
<1>11. \/ refused' = refused
       \/ refused' = [refused EXCEPT ![h] = @ \union ({c} \intersect Settings)]
  OBVIOUS
<1>12. refused' \in [Handles -> SUBSET Settings]
  BY <1>11 DEF TypeOK
<1>3. TypeOK'
  BY <1>2, <1>8, <1>10, <1>12 DEF TypeOK
<1>4. /\ MutexIsTheHandlers' /\ NothingAskedOfStrangers' /\ SamplersWereAsked'
      /\ CommandsWereAsked'
  BY <1>2, <1>8 DEF MutexIsTheHandlers, NothingAskedOfStrangers, SamplersWereAsked, CommandsWereAsked
<1>5. AskedKeepTheirBit'
  BY <1>8, <1>10 DEF AskedKeepTheirBit
<1>6. \A g \in Handles : Requested(g)' = Requested(g)
  BY <1>8 DEF Requested, Configured
<1>7. AskedForAll' /\ HandlerAsksTheRest' /\ SamplingIsConfigured'
  BY <1>6, <1>8, <1>10 DEF AskedForAll, HandlerAsksTheRest, SamplingIsConfigured, TypeOK
<1> QED
  BY <1>3, <1>4, <1>5, <1>7

\* The initialisation registers lidars that were asked for nothing yet, and
\* reads the file before it registers any.
LEMMA StartupKeepsHandshakeInv ==
  ASSUME HandshakeInv, ConfigComesFirst, Startup
  PROVE  HandshakeInv'
<1> USE DEF indexVars, ParseSummaryInfo
<1>1. /\ UNCHANGED <<set_bits, sampling, in_flight, mutex_held, todo, asked, acked, refused>>
      /\ UNCHANGED <<pc, handle, rounds>>
  BY DEF Startup, ParseSummaryConfig, ParseUserConfigs, LivoxLidarSdkInit, AddDevice,
         SetInfoChangeCallback, SetLidarPubHandle, vars, threadVars, historyVars
<1>2. wanted' = wanted \/ registered = {}
  BY DEF Startup, ParseSummaryConfig, ParseUserConfigs, LivoxLidarSdkInit, AddDevice,
         SetInfoChangeCallback, SetLidarPubHandle, vars, ConfigComesFirst
<1>3. wanted' \in JsonFiles
  BY StartupAssumption
     DEF Parse, Startup, ParseSummaryConfig, ParseUserConfigs, LivoxLidarSdkInit, AddDevice,
         SetInfoChangeCallback, SetLidarPubHandle, vars, HandshakeInv, TypeOK
<1>4. registered \subseteq registered' /\ registered' \subseteq Handles
  BY DEF Startup, ParseSummaryConfig, ParseUserConfigs, LivoxLidarSdkInit, AddDevice,
         SetInfoChangeCallback, SetLidarPubHandle, vars, HandshakeInv, TypeOK
<1> QED
  BY <1>1, <1>2, <1>3, <1>4, RegistrationKeepsInv DEF HandshakeInv, TypeOK

LEMMA AnnounceStrangerKeepsHandshakeInv ==
  ASSUME HandshakeInv, NEW h \in Handles, AnnounceStranger(h)
  PROVE  HandshakeInv'
<1> USE DEF AnnounceStranger, AnnounceUnknown
<1>1. ~mutex_held
  BY DEF HandshakeInv, MutexIsTheHandlers
<1>2. rounds' \in [Handles -> Nat]
  BY DEF HandshakeInv, TypeOK
<1>3. /\ UNCHANGED <<set_bits, sampling, in_flight, mutex_held, todo, asked, acked, refused>>
      /\ wanted' = wanted /\ wanted' \in JsonFiles
      /\ registered \subseteq registered' /\ registered' \subseteq Handles
      /\ handle' \in Handles /\ pc' \in {"idle", "work_mode"}
  BY DEF HandshakeInv, TypeOK
<1> QED
  BY <1>1, <1>2, <1>3, RegistrationKeepsInv

LEMMA HandshakeKeepsHandshakeInv ==
  ASSUME HandshakeInv, Handshake
  PROVE  HandshakeInv'
<1>1. CASE \E h \in Handles : AnnounceKnown(h)
  BY <1>1, AnnounceKnownKeepsInv
<1>2. CASE \E c \in Settings : RequestSetting(c)
  BY <1>2, RequestSettingKeepsInv
<1>3. CASE SendAttitude \/ SendWorkMode \/ EnableImu
  BY <1>3, SendOthersKeepsInv
<1>4. CASE \E h \in Handles, c \in Commands : SettingAcknowledged(h, c)
  BY <1>4, SettingAcknowledgedKeepsInv
<1>5. CASE \E h \in Handles, c \in Commands :
             OtherAcknowledged(h, c) \/ TimedOut(h, c) \/ Refused(h, c)
  BY <1>5, OtherAnswersKeepInv
<1> QED
  BY <1>1, <1>2, <1>3, <1>4, <1>5 DEF Handshake, DetectionThread, Acknowledged

\* Whatever else the driver does does not touch the handshake.
LEMMA IdleKeepsHandshakeInv ==
  ASSUME HandshakeInv, UNCHANGED vars
  PROVE  HandshakeInv'
<1>1. wanted' \in JsonFiles /\ registered' \subseteq Handles /\ rounds' \in [Handles -> Nat]
  BY DEF HandshakeInv, TypeOK, vars, historyVars
<1> QED
  BY <1>1, RegistrationKeepsInv DEF vars, threadVars, historyVars

-------------------------------------------------------------------------------
(* The indices.                                                            *)

LEMMA MinIsLeast ==
  ASSUME NEW S \in SUBSET Nat, S # {}
  PROVE  Min(S) \in S /\ \A y \in S : Min(S) <= y
<1>1. PICK x \in S : \A y \in S : ~ (<<y, x>> \in OpToRel(<, Nat))
  BY NatLessThanWellFounded, WFMin
<1>2. \A y \in S : ~ (y < x)
  BY <1>1 DEF OpToRel
<1>3. \A y \in S : x <= y
  BY <1>2
<1> QED
  BY <1>3 DEF Min

LEMMA FreeIndexIsFree ==
  ASSUME index_cache \subseteq Indices, index_cache # Indices
  PROVE  Min(Indices \ index_cache) \in Indices \ index_cache
<1>1. Indices \ index_cache \in SUBSET Nat
  BY HandshakeAssumption DEF Indices
<1>2. Indices \ index_cache # {}
  BY Zenon
<1> QED
  BY <1>1, <1>2, MinIsLeast

\* With fewer lidars than indices an index is free.
LEMMA RoomLeft ==
  ASSUME StartupTypeOK, OneIndexEach, registered \subseteq Handles,
         Cardinality(registered) < MaxDevices
  PROVE  index_cache # Indices
<1> SUFFICES ASSUME index_cache = Indices PROVE FALSE
  OBVIOUS
<1>1. IsFiniteSet(registered)
  BY FS_Subset, HandshakeAssumption
<1>2. map_index \in Surjection(registered, Indices)
  BY DEF OneIndexEach, StartupTypeOK, Surjection
<1>3. Cardinality(Indices) <= Cardinality(registered)
  BY <1>1, <1>2, FS_Surjection
<1>4. Cardinality(Indices) = MaxDevices
  <2>1. 0 \in Int /\ MaxDevices - 1 \in Int
    BY HandshakeAssumption
  <2>2. Cardinality(0 .. MaxDevices - 1)
          = IF 0 > MaxDevices - 1 THEN 0 ELSE (MaxDevices - 1) - 0 + 1
    BY <2>1, FS_Interval, Zenon
  <2> QED
    BY <2>2, HandshakeAssumption DEF Indices
<1>5. Cardinality(registered) \in Nat
  BY <1>1, FS_CardinalityType
<1> QED
  BY <1>3, <1>4, <1>5, HandshakeAssumption

\* A lidar without an index gets one that no other has, and the others keep
\* theirs.
LEMMA GetFreeIndexGivesOne ==
  ASSUME StartupTypeOK, OneIndexEach, NEW h \in Handles \ registered, index_cache # Indices,
         GetFreeIndex(h), registered' = registered \union {h}
  PROVE  /\ map_index' \in [registered' -> Indices]
         /\ \A g \in registered : map_index'[g] = map_index[g]
         /\ map_index'[h] \notin index_cache
         /\ index_cache \subseteq index_cache'
         /\ OneIndexEach'
<1> DEFINE i == Min(Indices \ index_cache)
<1>1. index_cache \subseteq Indices
  BY DEF OneIndexEach, StartupTypeOK
<1>2. i \in Indices /\ i \notin index_cache
  BY <1>1, FreeIndexIsFree
<1>3. map_index' = With(map_index, h, i) /\ index_cache' = index_cache \union {i}
  BY DEF GetFreeIndex
<1> HIDE DEF i
<1>4. map_index' = [g \in registered' |-> IF g = h THEN i ELSE map_index[g]]
  BY <1>3 DEF StartupTypeOK, With
<1>5. map_index' \in [registered' -> Indices]
  BY <1>2, <1>4 DEF StartupTypeOK
<1>6. map_index'[h] = i /\ \A g \in registered : map_index'[g] = map_index[g]
  BY <1>4
<1>7. index_cache' = {map_index'[g] : g \in registered'}
  BY <1>3, <1>6 DEF OneIndexEach
<1>8. \A g, k \in registered' : map_index'[g] = map_index'[k] => g = k
  BY <1>2, <1>6 DEF OneIndexEach
<1> QED
  BY <1>2, <1>3, <1>5, <1>6, <1>7, <1>8 DEF OneIndexEach

\* Nothing has an index before the driver starts.
LEMMA InitStartupInv == DriverInit => StartupInv
<1> SUFFICES ASSUME DriverInit PROVE StartupInv
  OBVIOUS
<1> USE DEF DriverInit, StartupInit, HandshakeInit
<1>1. StartupTypeOK
  BY DEF StartupTypeOK
<1>2. OneIndexEach /\ EntriesAreTheirs
  BY DEF OneIndexEach, EntriesAreTheirs
<1>3. ConfigComesFirst /\ ConfiguredGoFirst
  BY DEF ConfigComesFirst, ConfiguredGoFirst
<1> QED
  BY <1>1, <1>2, <1>3 DEF StartupInv

\* A configured lidar gets its index and its entry of lidars_ in one turn, or
\* there is none left.
LEMMA AddDeviceKeepsStartupInv ==
  ASSUME HandshakeInv, StartupInv, NEW h \in Handles, AddDevice(h)
  PROVE  StartupInv'
<1>1. /\ main = "devices" /\ UNCHANGED <<wanted, main, info_cb>>
      /\ h \in to_add /\ to_add' = to_add \ {h} /\ Configured' = Configured
  BY DEF AddDevice, Configured
<1>2. h \notin registered /\ ~info_cb
  BY <1>1 DEF StartupInv, ConfiguredGoFirst
<1>3. CASE index_cache = Indices
  <2>1. UNCHANGED <<registered, map_index, index_cache, devices>>
    BY <1>3 DEF AddDevice, indexVars
  <2>2. index_cache' = Indices'
    BY <1>3, <2>1 DEF Indices
  <2>3. StartupTypeOK'
    BY <1>1, <2>1 DEF StartupInv, StartupTypeOK, Indices
  <2>4. OneIndexEach' /\ EntriesAreTheirs'
    BY <1>1, <2>1 DEF StartupInv, OneIndexEach, EntriesAreTheirs, Configured, Indices
  <2>5. ConfigComesFirst' /\ ConfiguredGoFirst'
    BY <1>1, <1>2, <2>1, <2>2 DEF StartupInv, ConfigComesFirst, ConfiguredGoFirst
  <2> QED
    BY <2>3, <2>4, <2>5 DEF StartupInv
<1>4. CASE index_cache # Indices
  <2>1. /\ GetFreeIndex(h) /\ registered' = registered \union {h}
        /\ devices' = [devices EXCEPT ![map_index'[h]] = h]
    BY <1>4 DEF AddDevice
  <2>2. /\ map_index' \in [registered' -> Indices]
        /\ \A g \in registered : map_index'[g] = map_index[g]
        /\ map_index'[h] \notin index_cache
        /\ OneIndexEach'
    BY <1>2, <1>4, <2>1, GetFreeIndexGivesOne DEF StartupInv
  <2>3. PICK i \in Indices : map_index'[h] = i /\ i \notin index_cache
    BY <2>1, <2>2
  <2>4. \A g \in registered : map_index[g] \in Indices /\ map_index[g] # i
    BY <2>3 DEF StartupInv, StartupTypeOK, OneIndexEach
  <2>5. devices' = [devices EXCEPT ![i] = h] /\ devices' \in [Indices -> Handles \union {Nobody}]
    BY <2>1, <2>3 DEF StartupInv, StartupTypeOK
  <2>6. StartupTypeOK'
    BY <1>1, <2>2, <2>5 DEF StartupInv, StartupTypeOK, Indices
  <2>7. EntriesAreTheirs'
    <3>1. ASSUME NEW g \in registered' \intersect Configured' PROVE devices'[map_index'[g]] = g
      <4>1. CASE g = h
        BY <2>3, <2>5, <4>1 DEF StartupInv, StartupTypeOK
      <4>2. CASE g # h
        <5>1. g \in registered \intersect Configured /\ devices[map_index[g]] = g
          BY <1>1, <2>1, <4>2 DEF StartupInv, EntriesAreTheirs
        <5> QED
          BY <2>2, <2>4, <2>5, <5>1 DEF StartupInv, StartupTypeOK
      <4> QED
        BY <4>1, <4>2
    <3>2. ASSUME NEW k \in Indices, devices'[k] # Nobody
          PROVE  devices'[k] \in registered' /\ map_index'[devices'[k]] = k
      <4>1. CASE k = i
        BY <2>1, <2>3, <2>5, <4>1 DEF StartupInv, StartupTypeOK
      <4>2. CASE k # i
        <5>1. devices'[k] = devices[k]
          BY <2>5, <4>2 DEF StartupInv, StartupTypeOK
        <5>2. devices[k] \in registered /\ map_index[devices[k]] = k
          BY <3>2, <5>1 DEF StartupInv, EntriesAreTheirs
        <5> QED
          BY <2>1, <2>2, <5>1, <5>2
      <4> QED
        BY <4>1, <4>2
    <3> QED
      BY <3>1, <3>2 DEF EntriesAreTheirs, Indices
  <2>8. ConfigComesFirst'
    BY <1>1 DEF ConfigComesFirst
  <2>9. ConfiguredGoFirst'
    BY <1>1, <1>2, <1>4, <2>1 DEF StartupInv, ConfiguredGoFirst
  <2> QED
    BY <2>2, <2>6, <2>7, <2>8, <2>9 DEF StartupInv
<1> QED
  BY <1>3, <1>4

\* The steps that hand out no index.
LEMMA IndicesStay ==
  ASSUME HandshakeInv, StartupInv,
         UNCHANGED <<registered, map_index, index_cache, devices>>,
         wanted' = wanted \/ registered = {},
         to_add' \subseteq Handles, info_cb' \in BOOLEAN,
         main' \in {"summary", "user", "sdk", "devices", "pub_handle", "started", "failed"},
         ConfigComesFirst', ConfiguredGoFirst'
  PROVE  StartupInv'
<1>1. StartupTypeOK'
  BY DEF StartupInv, StartupTypeOK, Indices
<1>2. OneIndexEach'
  BY DEF StartupInv, OneIndexEach
<1>3. registered' \intersect Configured' = registered \intersect Configured
  BY DEF Configured
<1>4. EntriesAreTheirs'
  BY <1>3 DEF StartupInv, EntriesAreTheirs, Indices
<1> QED
  BY <1>1, <1>2, <1>4 DEF StartupInv

LEMMA StartupKeepsStartupInv ==
  ASSUME HandshakeInv, StartupInv, Startup
  PROVE  StartupInv'
<1> USE DEF indexVars, vars, StartupInv, StartupTypeOK, ConfigComesFirst, ConfiguredGoFirst
<1> DEFINE Premises ==
      /\ UNCHANGED <<registered, map_index, index_cache, devices>>
      /\ wanted' = wanted \/ registered = {}
      /\ to_add' \subseteq Handles /\ info_cb' \in BOOLEAN
      /\ main' \in {"summary", "user", "sdk", "devices", "pub_handle", "started", "failed"}
      /\ ConfigComesFirst' /\ ConfiguredGoFirst'
<1>1. CASE ParseSummaryConfig
  <2>1. main = "summary" /\ main' \in {"user", "pub_handle", "failed"}
    BY <1>1 DEF ParseSummaryConfig, ParseSummaryInfo
  <2>2. UNCHANGED <<wanted, registered, to_add, info_cb, map_index, index_cache, devices>>
    BY <1>1 DEF ParseSummaryConfig
  <2>3. Premises
    BY <2>1, <2>2
  <2> QED
    BY <2>3, IndicesStay
<1>2. CASE ParseUserConfigs
  <2>1. Premises
    BY <1>2 DEF ParseUserConfigs
  <2> QED
    BY <2>1, IndicesStay
<1>3. CASE LivoxLidarSdkInit
  <2>1. Configured \subseteq Handles /\ Configured' = Configured
    BY <1>3, HandshakeAssumption DEF LivoxLidarSdkInit, Configured, HandshakeInv, TypeOK
  <2>2. /\ main = "sdk"
        /\ UNCHANGED <<wanted, registered, info_cb, map_index, index_cache, devices>>
    BY <1>3 DEF LivoxLidarSdkInit
  <2>3. \/ main' = "devices" /\ to_add' = Configured
        \/ main' = "failed" /\ to_add' = to_add
    BY <1>3 DEF LivoxLidarSdkInit
  <2>4. Premises
    BY <2>1, <2>2, <2>3
  <2> QED
    BY <2>4, IndicesStay
<1>4. CASE \E h \in Handles : AddDevice(h)
  <2> HIDE DEF StartupInv, StartupTypeOK, ConfigComesFirst, ConfiguredGoFirst
  <2> QED
    BY <1>4, AddDeviceKeepsStartupInv
<1>5. CASE SetInfoChangeCallback
  <2>1. Premises
    BY <1>5 DEF SetInfoChangeCallback, Configured, Indices
  <2> QED
    BY <2>1, IndicesStay
<1>6. CASE SetLidarPubHandle
  <2>1. Premises
    BY <1>6 DEF SetLidarPubHandle, Configured, Indices
  <2> QED
    BY <2>1, IndicesStay
<1> QED
  BY <1>1, <1>2, <1>3, <1>4, <1>5, <1>6 DEF Startup

\* A stranger only finds an index free when every configured lidar has its own.
LEMMA AnnounceStrangerKeepsStartupInv ==
  ASSUME HandshakeInv, StartupInv, NEW h \in Handles, AnnounceStranger(h)
  PROVE  StartupInv'
<1>1. /\ h \notin registered /\ info_cb /\ UNCHANGED <<wanted, main, to_add, info_cb>>
      /\ Configured' = Configured
  BY DEF AnnounceStranger, AnnounceUnknown, Configured
<1>2. CASE Cardinality(registered) < MaxDevices
  <2>1. registered' = registered \union {h} /\ registered' # registered
    BY <1>1, <1>2 DEF AnnounceStranger, AnnounceUnknown
  <2>2. GetFreeIndex(h) /\ devices' = devices
    BY <2>1 DEF AnnounceStranger
  <2>3. index_cache # Indices
    BY <1>2, RoomLeft DEF StartupInv, HandshakeInv, TypeOK
  <2>4. /\ map_index' \in [registered' -> Indices]
        /\ \A g \in registered : map_index'[g] = map_index[g]
        /\ OneIndexEach'
    BY <1>1, <2>1, <2>2, <2>3, GetFreeIndexGivesOne DEF StartupInv
  <2>5. Configured \subseteq registered
    BY <1>1, <2>3 DEF StartupInv, ConfiguredGoFirst
  <2>6. StartupTypeOK'
    BY <1>1, <2>2, <2>4 DEF StartupInv, StartupTypeOK, Indices
  <2>7. EntriesAreTheirs'
    BY <1>1, <2>1, <2>2, <2>4, <2>5 DEF StartupInv, EntriesAreTheirs, Indices
  <2>8. ConfigComesFirst' /\ ConfiguredGoFirst'
    BY <1>1, <2>1, <2>5 DEF StartupInv, ConfigComesFirst, ConfiguredGoFirst
  <2> QED
    BY <2>4, <2>6, <2>7, <2>8 DEF StartupInv
<1>3. CASE ~(Cardinality(registered) < MaxDevices)
  <2>1. UNCHANGED <<registered, map_index, index_cache, devices>>
    BY <1>1, <1>3 DEF AnnounceStranger, AnnounceUnknown, indexVars
  <2>2. ConfigComesFirst' /\ ConfiguredGoFirst'
    BY <1>1, <2>1 DEF StartupInv, ConfigComesFirst, ConfiguredGoFirst, Indices
  <2>3. to_add' \subseteq Handles /\ info_cb' \in BOOLEAN
        /\ main' \in {"summary", "user", "sdk", "devices", "pub_handle", "started", "failed"}
    BY <1>1 DEF StartupInv, StartupTypeOK
  <2> QED
    BY <1>1, <2>1, <2>2, <2>3, IndicesStay
<1> QED
  BY <1>2, <1>3

\* What neither registers a lidar nor starts the driver.
LEMMA IdleKeepsStartupInv ==
  ASSUME HandshakeInv, StartupInv, UNCHANGED <<wanted, registered>>, UNCHANGED startupVars
  PROVE  StartupInv'
<1>1. /\ UNCHANGED <<registered, map_index, index_cache, devices, main, to_add, info_cb>>
      /\ Configured' = Configured
  BY DEF startupVars, indexVars, Configured
<1>2. ConfigComesFirst' /\ ConfiguredGoFirst'
  BY <1>1 DEF StartupInv, ConfigComesFirst, ConfiguredGoFirst, Indices
<1>3. to_add' \subseteq Handles /\ info_cb' \in BOOLEAN
      /\ main' \in {"summary", "user", "sdk", "devices", "pub_handle", "started", "failed"}
  BY <1>1 DEF StartupInv, StartupTypeOK
<1> QED
  BY <1>1, <1>2, <1>3, IndicesStay

LEMMA HandshakeRegistersNone ==
  ASSUME Handshake
  PROVE  UNCHANGED <<wanted, registered>> /\ UNCHANGED startupVars
BY DEF Handshake, DetectionThread, Acknowledged, AnnounceKnown, RequestSetting, SendAttitude,
       SendWorkMode, EnableImu, SettingAcknowledged, OtherAcknowledged, TimedOut, Refused

-------------------------------------------------------------------------------
(* What is filed under an index.                                           *)

LEMMA InitImuInv == DriverInit => ImuInv
<1> SUFFICES ASSUME DriverInit PROVE ImuInv
  OBVIOUS
<1> USE DEF DriverInit
<1>1. ImuTypeOK
  BY HandshakeAssumption DEF ImuTypeOK
<1>2. FiledUnderTheirIndex /\ NothingBeforeTheStart
  BY DEF FiledUnderTheirIndex, NothingBeforeTheStart
<1>3. TopicOfTheEntry /\ UsedTheirEntry
  BY DEF TopicOfTheEntry, UsedTheirEntry
<1> QED
  BY <1>1, <1>2, <1>3 DEF ImuInv

\* Once the driver has started, the indices only get more.
LEMMA FilingStays ==
  ASSUME ImuInv, UNCHANGED imuVars,
         main = "started" => /\ main' = "started" /\ devices' = devices
                             /\ registered \subseteq registered'
                             /\ \A g \in registered : map_index'[g] = map_index[g]
  PROVE  ImuInv'
<1>1. UNCHANGED <<imu_data, ipc, index, imu_topic, used_topics>>
  BY DEF imuVars, pollVars
<1>2. ImuTypeOK' /\ (ipc' = "poll" => index' < MaxDevices)
  BY <1>1 DEF ImuInv, ImuTypeOK, Indices
<1>3. NothingBeforeTheStart'
  BY <1>1 DEF ImuInv, NothingBeforeTheStart, Indices
<1>4. CASE main = "started"
  <2>1. FiledUnderTheirIndex'
    BY <1>1, <1>4 DEF ImuInv, FiledUnderTheirIndex, Indices
  <2>2. TopicOfTheEntry'
    BY <1>1, <1>4 DEF ImuInv, TopicOfTheEntry
  <2>3. UsedTheirEntry'
    BY <1>1, <1>4 DEF ImuInv, UsedTheirEntry
  <2> QED
    BY <1>2, <1>3, <2>1, <2>2, <2>3 DEF ImuInv
<1>5. CASE main # "started"
  <2>1. /\ \A i \in Indices : imu_data'[i] = <<>>
        /\ DOMAIN imu_topic' = {} /\ used_topics' = {}
    BY <1>1, <1>5 DEF ImuInv, NothingBeforeTheStart
  <2>2. FiledUnderTheirIndex'
    BY <2>1 DEF FiledUnderTheirIndex, Indices
  <2>3. TopicOfTheEntry' /\ UsedTheirEntry'
    BY <2>1 DEF TopicOfTheEntry, UsedTheirEntry
  <2> QED
    BY <1>2, <1>3, <2>2, <2>3 DEF ImuInv
<1> QED
  BY <1>4, <1>5

LEMMA StartupNextKeepsImuInv ==
  ASSUME DriverInv, StartupNext, UNCHANGED imuVars
  PROVE  ImuInv'
<1>1. CASE Startup
  <2>1. main # "started"
    BY <1>1 DEF Startup, ParseSummaryConfig, ParseUserConfigs, LivoxLidarSdkInit, AddDevice,
                SetInfoChangeCallback, SetLidarPubHandle
  <2> QED
    BY <2>1, FilingStays DEF DriverInv
<1>2. CASE Handshake
  <2>1. UNCHANGED <<registered, main, map_index, devices>>
    BY <1>2, HandshakeRegistersNone DEF startupVars, indexVars
  <2> QED
    BY <2>1, FilingStays DEF DriverInv
<1>3. ASSUME NEW h \in Handles, AnnounceStranger(h) PROVE ImuInv'
  <2>1. /\ h \notin registered /\ main' = main
        /\ registered' = registered \/ registered' = registered \union {h}
    BY <1>3 DEF AnnounceStranger, AnnounceUnknown
  <2>2. CASE registered' = registered
    BY <1>3, <2>1, <2>2, FilingStays DEF AnnounceStranger, indexVars, DriverInv
  <2>3. CASE registered' # registered
    <3>1. /\ Cardinality(registered) < MaxDevices
          /\ GetFreeIndex(h) /\ devices' = devices
          /\ registered' = registered \union {h}
      BY <1>3, <2>3 DEF AnnounceStranger, AnnounceUnknown
    <3>2. index_cache # Indices
      BY <3>1, RoomLeft DEF DriverInv, StartupInv, HandshakeInv, TypeOK
    <3>3. \A g \in registered : map_index'[g] = map_index[g]
      BY <2>1, <3>1, <3>2, GetFreeIndexGivesOne DEF DriverInv, StartupInv
    <3> QED
      BY <2>1, <3>1, <3>3, FilingStays DEF DriverInv
  <2> QED
    BY <2>2, <2>3
<1> QED
  BY <1>1, <1>2, <1>3 DEF StartupNext

\* A packet is filed under its lidar's index, which it has from then on.
LEMMA StorageKeepsImuInv ==
  ASSUME DriverInv, NEW h \in Handles, StorageImuData(h), UNCHANGED <<vars, startupVars>>
  PROVE  ImuInv'
<1>1. /\ main = "started"
      /\ UNCHANGED <<main, registered, map_index, devices, ipc, index, imu_topic, used_topics>>
  BY DEF StorageImuData, LidarImuDataCallback, vars, startupVars, indexVars, pollVars
<1>2. CASE h \notin registered
  <2>1. imu_data' = imu_data
    BY <1>2 DEF StorageImuData, HasIndex
  <2>2. ImuTypeOK' /\ (ipc' = "poll" => index' < MaxDevices)
    BY <1>1, <2>1 DEF DriverInv, ImuInv, ImuTypeOK, Indices
  <2>3. FiledUnderTheirIndex' /\ NothingBeforeTheStart'
    BY <1>1, <2>1 DEF DriverInv, ImuInv, FiledUnderTheirIndex, NothingBeforeTheStart, Indices
  <2>4. TopicOfTheEntry' /\ UsedTheirEntry'
    BY <1>1 DEF DriverInv, ImuInv, TopicOfTheEntry, UsedTheirEntry
  <2> QED
    BY <2>2, <2>3, <2>4 DEF ImuInv
<1>3. CASE h \in registered
  <2>1. PICK j \in Indices : j = map_index[h]
    BY <1>3 DEF DriverInv, StartupInv, StartupTypeOK
  <2>2. imu_data' = [imu_data EXCEPT ![j] = Append(imu_data[j], h)]
    BY <1>3, <2>1 DEF StorageImuData, HasIndex, Push
  <2>3. imu_data \in [Indices -> Seq(Handles)]
    BY DEF DriverInv, ImuInv, ImuTypeOK
  <2>4. imu_data' \in [Indices -> Seq(Handles)]
    BY <2>2, <2>3
  <2>5. ImuTypeOK' /\ (ipc' = "poll" => index' < MaxDevices)
    BY <1>1, <2>4 DEF DriverInv, ImuInv, ImuTypeOK, Indices
  <2>6. ASSUME NEW i \in Indices, NEW k \in 1 .. Len(imu_data'[i])
        PROVE  imu_data'[i][k] \in registered /\ map_index[imu_data'[i][k]] = i
    <3>1. CASE i # j
      <4>1. imu_data'[i] = imu_data[i]
        BY <2>2, <2>3, <3>1
      <4> QED
        BY <4>1 DEF DriverInv, ImuInv, FiledUnderTheirIndex
    <3>2. CASE i = j
      <4>1. imu_data[j] \in Seq(Handles) /\ imu_data'[i] = Append(imu_data[j], h)
        BY <2>2, <2>3, <3>2
      <4>2. CASE k \in 1 .. Len(imu_data[j])
        <5>1. imu_data'[i][k] = imu_data[j][k]
          BY <4>1, <4>2
        <5> QED
          BY <3>2, <4>2, <5>1 DEF DriverInv, ImuInv, FiledUnderTheirIndex
      <4>3. CASE k \notin 1 .. Len(imu_data[j])
        <5>1. imu_data'[i][k] = h
          BY <4>1, <4>3
        <5> QED
          BY <1>3, <2>1, <3>2, <5>1
      <4> QED
        BY <4>2, <4>3
    <3> QED
      BY <3>1, <3>2
  <2>7. FiledUnderTheirIndex'
    BY <1>1, <2>6 DEF FiledUnderTheirIndex, Indices
  <2>8. NothingBeforeTheStart' /\ TopicOfTheEntry' /\ UsedTheirEntry'
    BY <1>1 DEF DriverInv, ImuInv, NothingBeforeTheStart, TopicOfTheEntry, UsedTheirEntry
  <2> QED
    BY <2>5, <2>7, <2>8 DEF ImuInv
<1> QED
  BY <1>2, <1>3

\* A packet is published on the topic of the index it was filed under.
LEMMA PublishKeepsImuInv ==
  ASSUME DriverInv, PollImu, UNCHANGED <<vars, startupVars>>
  PROVE  ImuInv'
<1>1. /\ UNCHANGED <<main, registered, map_index, devices>>
      /\ index \in Indices /\ ipc = "poll"
  BY HandshakeAssumption
     DEF PollImu, vars, startupVars, indexVars, DriverInv, ImuInv, ImuTypeOK, Indices
<1>2. CASE request_exit \/ Empty(index)
  <2>1. /\ ipc' = "loop" /\ index' = index + 1
        /\ UNCHANGED <<imu_data, imu_topic, used_topics>>
    BY <1>2 DEF PollImu
  <2>2. index' \in 0 .. MaxDevices
    BY <1>1, <2>1, HandshakeAssumption DEF Indices
  <2>3. ImuTypeOK' /\ (ipc' = "poll" => index' < MaxDevices)
    BY <2>1, <2>2 DEF DriverInv, ImuInv, ImuTypeOK, Indices
  <2>4. FiledUnderTheirIndex' /\ NothingBeforeTheStart'
    BY <1>1, <2>1 DEF DriverInv, ImuInv, FiledUnderTheirIndex, NothingBeforeTheStart, Indices
  <2>5. TopicOfTheEntry' /\ UsedTheirEntry'
    BY <1>1, <2>1 DEF DriverInv, ImuInv, TopicOfTheEntry, UsedTheirEntry
  <2> QED
    BY <2>3, <2>4, <2>5 DEF ImuInv
<1>3. CASE ~(request_exit \/ Empty(index))
  <2> DEFINE h == Head(imu_data[index])
  <2>1. /\ imu_data' = [imu_data EXCEPT ![index] = Tail(imu_data[index])]
        /\ imu_topic' = GetCurrentImuPublisher(index)
        /\ used_topics' = used_topics \union {<<h, imu_topic'[index]>>}
        /\ UNCHANGED <<ipc, index>>
    BY <1>3 DEF PollImu, PublishImuData, Pop
  <2>2. imu_data \in [Indices -> Seq(Handles)] /\ imu_data[index] # <<>>
    BY <1>3 DEF DriverInv, ImuInv, ImuTypeOK, Empty
  <2>3. imu_data[index] \in Seq(Handles)
    BY <1>1, <2>2
  <2>4. h \in registered /\ map_index[h] = index
    <3>1. h = imu_data[index][1] /\ 1 \in 1 .. Len(imu_data[index])
      BY <2>2, <2>3
    <3> QED
      BY <1>1, <3>1 DEF DriverInv, ImuInv, FiledUnderTheirIndex
  <2>5. main = "started"
    BY <1>1, <2>2 DEF DriverInv, ImuInv, NothingBeforeTheStart
  <2> HIDE DEF h
  <2>6. /\ DOMAIN imu_topic' \subseteq Indices /\ index \in DOMAIN imu_topic'
        /\ \A i \in DOMAIN imu_topic' : imu_topic'[i] = devices[i]
    BY <1>1, <2>1
       DEF GetCurrentImuPublisher, With, DriverInv, ImuInv, ImuTypeOK, TopicOfTheEntry
  <2>7. imu_data' \in [Indices -> Seq(Handles)]
    <3>1. Tail(imu_data[index]) \in Seq(Handles)
      BY <2>2, <2>3
    <3> QED
      BY <1>1, <2>1, <2>2, <3>1
  <2>8. ImuTypeOK' /\ (ipc' = "poll" => index' < MaxDevices)
    BY <1>1, <2>1, <2>6, <2>7 DEF DriverInv, ImuInv, ImuTypeOK, Indices
  <2>9. ASSUME NEW i \in Indices, NEW k \in 1 .. Len(imu_data'[i])
        PROVE  imu_data'[i][k] \in registered /\ map_index[imu_data'[i][k]] = i
    <3>1. CASE i # index
      <4>1. imu_data'[i] = imu_data[i]
        BY <2>1, <2>2, <3>1
      <4> QED
        BY <4>1 DEF DriverInv, ImuInv, FiledUnderTheirIndex
    <3>2. CASE i = index
      <4>1. imu_data'[i] = Tail(imu_data[i])
        BY <2>1, <2>2, <3>2
      <4>2. k + 1 \in 1 .. Len(imu_data[i]) /\ imu_data'[i][k] = imu_data[i][k + 1]
        BY <2>2, <2>3, <3>2, <4>1
      <4> QED
        BY <4>2 DEF DriverInv, ImuInv, FiledUnderTheirIndex
    <3> QED
      BY <3>1, <3>2
  <2>10. FiledUnderTheirIndex'
    BY <1>1, <2>9 DEF FiledUnderTheirIndex, Indices
  <2>11. NothingBeforeTheStart'
    BY <1>1, <2>5 DEF NothingBeforeTheStart
  <2>12. TopicOfTheEntry'
    BY <1>1, <2>6 DEF TopicOfTheEntry
  <2>13. UsedTheirEntry'
    BY <1>1, <2>1, <2>4, <2>6 DEF DriverInv, ImuInv, UsedTheirEntry
  <2> QED
    BY <2>8, <2>10, <2>11, <2>12, <2>13 DEF ImuInv
<1> QED
  BY <1>2, <1>3

\* The other steps of the data thread, the poll thread and the destructor.
LEMMA OtherStepsKeepImuInv ==
  ASSUME DriverInv, UNCHANGED <<vars, startupVars>>,
         \/ DataThread \/ RequestExit \/ SetExitSignal \/ UNCHANGED imuVars
         \/ DistributeImuData \/ WaitForImu \/ NextImuLidar \/ TestImuFuture
  PROVE  ImuInv'
<1>1. UNCHANGED <<main, registered, map_index, devices>>
  BY DEF vars, startupVars, indexVars
<1>2. UNCHANGED <<imu_data, imu_topic, used_topics>>
  BY DEF DataThread, TestImuEmpty, GetImuCount, SignalImu, RequestExit, SetExitSignal,
         DistributeImuData, WaitForImu, NextImuLidar, TestImuFuture, imuVars, pollVars
<1>3. /\ index' \in 0 .. MaxDevices
      /\ ipc' \in {"top", "wait", "loop", "poll", "future", "done"}
      /\ ipc' = "poll" => index' < MaxDevices
  <2> USE HandshakeAssumption DEF DriverInv, ImuInv, ImuTypeOK
  <2>1. CASE NextImuLidar
    BY <2>1 DEF NextImuLidar
  <2>2. CASE WaitForImu
    BY <2>2 DEF WaitForImu
  <2>3. CASE DistributeImuData \/ TestImuFuture
    BY <2>3 DEF DistributeImuData, TestImuFuture
  <2>4. CASE DataThread \/ RequestExit \/ SetExitSignal \/ UNCHANGED imuVars
    BY <2>4 DEF DataThread, TestImuEmpty, GetImuCount, SignalImu, RequestExit, SetExitSignal,
                imuVars, pollVars
  <2> QED
    BY <2>1, <2>2, <2>3, <2>4
<1>4. ImuTypeOK' /\ (ipc' = "poll" => index' < MaxDevices)
  BY <1>2, <1>3 DEF DriverInv, ImuInv, ImuTypeOK, Indices
<1>5. FiledUnderTheirIndex' /\ NothingBeforeTheStart'
  BY <1>1, <1>2 DEF DriverInv, ImuInv, FiledUnderTheirIndex, NothingBeforeTheStart, Indices
<1>6. TopicOfTheEntry' /\ UsedTheirEntry'
  BY <1>1, <1>2 DEF DriverInv, ImuInv, TopicOfTheEntry, UsedTheirEntry
<1> QED
  BY <1>4, <1>5, <1>6 DEF ImuInv

-------------------------------------------------------------------------------
\* The invariant holds in every reachable state, whatever the devices, json
\* files, retries and refusals (livox_lidar_callback.cpp, lds_lidar.cpp, lds.cpp,
\* lddc.cpp).
THEOREM DriverInvariant == DriverSpec => []DriverInv
<1>1. DriverInit => DriverInv
  BY InitHandshakeInv, InitStartupInv, InitImuInv DEF DriverInv
<1>2. DriverInv /\ [DriverNext]_driverVars => DriverInv'
  <2> SUFFICES ASSUME DriverInv, [DriverNext]_driverVars PROVE DriverInv'
    OBVIOUS
  <2>0. HandshakeInv /\ StartupInv /\ ConfigComesFirst
    BY DEF DriverInv, StartupInv
  <2>1. CASE StartupNext /\ UNCHANGED imuVars
    <3>1. HandshakeInv'
      BY <2>0, <2>1, StartupKeepsHandshakeInv, HandshakeKeepsHandshakeInv,
         AnnounceStrangerKeepsHandshakeInv DEF StartupNext
    <3>2. StartupInv'
      BY <2>0, <2>1, StartupKeepsStartupInv, HandshakeRegistersNone, IdleKeepsStartupInv,
         AnnounceStrangerKeepsStartupInv DEF StartupNext
    <3> QED
      BY <2>1, <3>1, <3>2, StartupNextKeepsImuInv DEF DriverInv
  <2>2. CASE UNCHANGED <<vars, startupVars>>
    <3>1. HandshakeInv' /\ StartupInv'
      BY <2>0, <2>2, IdleKeepsHandshakeInv, IdleKeepsStartupInv DEF vars
    <3>2. ImuInv'
      <4>1. CASE \E h \in Handles : StorageImuData(h)
        BY <2>2, <4>1, StorageKeepsImuInv
      <4>2. CASE PollImu
        BY <2>2, <4>2, PublishKeepsImuInv
      <4>3. CASE \/ DataThread \/ RequestExit \/ SetExitSignal \/ UNCHANGED imuVars
                 \/ DistributeImuData \/ WaitForImu \/ NextImuLidar \/ TestImuFuture
        BY <2>2, <4>3, OtherStepsKeepImuInv
      <4> QED
        BY <4>1, <4>2, <4>3 DEF DriverNext, ImuPollThread, driverVars
    <3> QED
      BY <3>1, <3>2 DEF DriverInv
  <2>3. UNCHANGED driverVars => UNCHANGED <<vars, startupVars>>
    BY DEF driverVars
  <2> QED
    BY <2>1, <2>2, <2>3 DEF DriverNext
<1> QED
  BY <1>1, <1>2, PTL DEF DriverSpec

\* A lidar never samples before all the settings of its configuration are
\* acknowledged.
THEOREM SamplersAreConfigured == DriverSpec => []SamplingIsConfigured
<1>1. DriverInv => SamplingIsConfigured
  BY DEF DriverInv, HandshakeInv
<1> QED
  BY <1>1, DriverInvariant, PTL

\* Whoever announces itself, and when: a configured lidar's IMU data are on its
\* own topic, and nobody else's are.
THEOREM TopicsAreOwn == DriverSpec => []TopicIsOwn
<1>1. DriverInv => TopicIsOwn
  <2> SUFFICES ASSUME DriverInv, NEW h \in Configured, NEW use \in used_topics
               PROVE  (use[1] = h) <=> (use[2] = h)
    BY DEF TopicIsOwn
  <2>1. h \in Handles /\ h # Nobody
    BY HandshakeAssumption, StartupAssumption DEF DriverInv, HandshakeInv, TypeOK, Configured
  <2>2. PICK g \in registered : use[1] = g /\ use[2] = devices[map_index[g]]
    BY DEF DriverInv, ImuInv, UsedTheirEntry
  <2>3. map_index[g] \in Indices
    BY DEF DriverInv, StartupInv, StartupTypeOK
  <2>4. ASSUME g = h PROVE use[2] = h
    BY <2>2, <2>4 DEF DriverInv, StartupInv, EntriesAreTheirs
  <2>5. ASSUME use[2] = h PROVE g = h
    <3>1. h \in registered /\ map_index[h] = map_index[g]
      BY <2>1, <2>2, <2>3, <2>5 DEF DriverInv, StartupInv, EntriesAreTheirs
    <3> QED
      BY <3>1 DEF DriverInv, StartupInv, OneIndexEach
  <2> QED
    BY <2>2, <2>4, <2>5
<1> QED
  BY <1>1, DriverInvariant, PTL
-------------------------------------------------------------------------------
(* What AskedLidarSamples and ImuIsPublished rest on.  That something       *)
(* happens in the end needs fairness; that whoever waits is waited for by   *)
(* somebody, an answer under way or a wake-up to come, does not.            *)

\* A bit that is set has its command under way, unless the lidar refused it;
\* and a lidar that was asked has a bit or samples.
BitsHaveCommands ==
  \A h \in Handles : \A c \in set_bits[h] : in_flight[h][c] > 0 \/ c \in refused[h]
AskedHaveBits ==
  \A h \in Handles : asked[h] # {} => set_bits[h] # {} \/ h \in sampling

AnswersInv == BitsHaveCommands /\ AskedHaveBits

\* A step that sets and clears no bit, and answers no setting but with a refusal.
LEMMA BitsStay ==
  ASSUME AnswersInv, TypeOK, UNCHANGED <<set_bits, asked, sampling>>,
         \A h \in Handles, c \in Settings :
           in_flight[h][c] > 0 => in_flight'[h][c] > 0 \/ c \in refused'[h],
         \A h \in Handles : refused[h] \subseteq refused'[h]
  PROVE  AnswersInv'
<1>1. \A h \in Handles : set_bits[h] \subseteq Settings
  BY DEF TypeOK
<1>2. BitsHaveCommands'
  BY <1>1 DEF AnswersInv, BitsHaveCommands
<1>3. AskedHaveBits'
  BY DEF AnswersInv, AskedHaveBits
<1> QED
  BY <1>2, <1>3 DEF AnswersInv

LEMMA RequestSettingKeepsAnswers ==
  ASSUME AnswersInv, TypeOK, NEW c \in Settings, RequestSetting(c)
  PROVE  AnswersInv'
<1> USE DEF RequestSetting, Sent, TypeOK, AnswersInv
<1>1. c \in Commands
  BY SettingsAreCommands
<1>2. \A h \in Handles, d \in Settings :
        /\ in_flight[h][d] \in Nat
        /\ in_flight'[h][d] = IF h = handle /\ d = c THEN in_flight[h][d] + 1 ELSE in_flight[h][d]
  BY <1>1, SettingsAreCommands
<1>3. \A h \in Handles : /\ set_bits'[h] = IF h = handle THEN set_bits[h] \union {c} ELSE set_bits[h]
                         /\ set_bits[h] \subseteq Settings
  OBVIOUS
<1>4. BitsHaveCommands'
  BY <1>2, <1>3 DEF BitsHaveCommands
<1>5. AskedHaveBits'
  BY DEF AskedHaveBits
<1> QED
  BY <1>4, <1>5

LEMMA AcknowledgedKeepsAnswers ==
  ASSUME AnswersInv, TypeOK, NEW h \in Handles, NEW c \in Commands, SettingAcknowledged(h, c)
  PROVE  AnswersInv'
<1> USE DEF SettingAcknowledged, Answered, TypeOK, AnswersInv
<1>1. \A g \in Handles, d \in Settings :
        g # h \/ d # c => in_flight'[g][d] = in_flight[g][d]
  BY SettingsAreCommands
<1>2. \A g \in Handles : /\ set_bits'[g] = IF g = h THEN set_bits[g] \ {c} ELSE set_bits[g]
                         /\ set_bits[g] \subseteq Settings
  OBVIOUS
<1>3. BitsHaveCommands'
  BY <1>1, <1>2 DEF BitsHaveCommands
<1>4. AskedHaveBits'
  BY <1>2 DEF AskedHaveBits
<1> QED
  BY <1>3, <1>4

LEMMA HandshakeKeepsAnswers ==
  ASSUME AnswersInv, TypeOK, Handshake
  PROVE  AnswersInv'
<1>1. CASE \E h \in Handles : AnnounceKnown(h)
  BY <1>1, BitsStay DEF AnnounceKnown
<1>2. CASE \E c \in Settings : RequestSetting(c)
  BY <1>2, RequestSettingKeepsAnswers
<1>3. CASE SendAttitude \/ SendWorkMode \/ EnableImu
  <2>1. /\ UNCHANGED <<set_bits, asked, sampling, refused>>
        /\ \/ in_flight' = in_flight
           \/ \E c \in Others : in_flight' = Sent(handle, c)
    BY <1>3 DEF SendAttitude, SendWorkMode, EnableImu, historyVars, Others
  <2>2. \A c \in Others : c \notin Settings
    BY DEF Others, Settings
  <2>3. \A h \in Handles, c \in Settings : in_flight'[h][c] = in_flight[h][c]
    BY <2>1, <2>2, SettingsAreCommands DEF Sent, TypeOK
  <2> QED
    BY <2>1, <2>3, BitsStay
<1>4. CASE \E h \in Handles, c \in Commands : SettingAcknowledged(h, c)
  BY <1>4, AcknowledgedKeepsAnswers
<1>5. ASSUME NEW h \in Handles, NEW c \in Commands,
             OtherAcknowledged(h, c) \/ TimedOut(h, c) \/ Refused(h, c)
      PROVE  AnswersInv'
  <2>1. UNCHANGED <<set_bits, asked, sampling>>
    BY <1>5 DEF OtherAcknowledged, TimedOut, Refused, historyVars
  <2>2. /\ in_flight' = in_flight \/ in_flight' = Answered(h, c)
        /\ refused' = [refused EXCEPT ![h] = @ \union ({c} \intersect Settings)] \/ refused' = refused
    BY <1>5 DEF OtherAcknowledged, TimedOut, Refused, historyVars
  <2>3. \/ c \notin Settings
        \/ in_flight' = in_flight
        \/ refused' = [refused EXCEPT ![h] = @ \union ({c} \intersect Settings)]
    BY <1>5 DEF OtherAcknowledged, TimedOut, Refused, Others, Settings
  <2>4. \A g \in Handles, d \in Settings :
          g # h \/ d # c \/ in_flight' = in_flight => in_flight'[g][d] = in_flight[g][d]
    BY <2>2, SettingsAreCommands DEF Answered, TypeOK
  <2>5. \A g \in Handles : refused[g] \subseteq refused'[g]
    BY <2>2 DEF TypeOK
  <2>6. c \notin Settings \/ in_flight' = in_flight \/ c \in refused'[h]
    BY <2>3 DEF TypeOK
  <2> QED
    BY <2>1, <2>4, <2>5, <2>6, BitsStay
<1> QED
  BY <1>1, <1>2, <1>3, <1>4, <1>5 DEF Handshake, DetectionThread, Acknowledged

\* As long as a lidar that was asked does not sample and refused nothing, it has
\* a bit, and each of its bits has a command under way: there is always an answer
\* to come that clears one, whichever commands were repeated, timed out or were
\* sent twice because the lidar was announced again (livox_lidar_callback.cpp).
NobodyIsForgotten ==
  \A h \in Handles :
    asked[h] # {} /\ h \notin sampling /\ refused[h] = {} =>
      set_bits[h] # {} /\ \A c \in set_bits[h] : in_flight[h][c] > 0

THEOREM AnswersAreToCome == DriverSpec => []NobodyIsForgotten
<1>1. DriverInit => AnswersInv
  BY DEF DriverInit, StartupInit, HandshakeInit, AnswersInv, BitsHaveCommands, AskedHaveBits
<1>2. AnswersInv /\ DriverInv /\ [DriverNext]_driverVars => AnswersInv'
  <2> SUFFICES ASSUME AnswersInv, DriverInv, [DriverNext]_driverVars PROVE AnswersInv'
    OBVIOUS
  <2>0. TypeOK
    BY DEF DriverInv, HandshakeInv
  <2>1. CASE Handshake
    BY <2>0, <2>1, HandshakeKeepsAnswers
  <2>2. CASE Startup
    BY <2>0, <2>2, BitsStay
       DEF Startup, ParseSummaryConfig, ParseUserConfigs, LivoxLidarSdkInit, AddDevice,
           SetInfoChangeCallback, SetLidarPubHandle, vars, historyVars
  <2>3. CASE \E h \in Handles : AnnounceStranger(h)
    BY <2>0, <2>3, BitsStay DEF AnnounceStranger, AnnounceUnknown
  <2>4. CASE UNCHANGED vars
    BY <2>0, <2>4, BitsStay DEF vars, historyVars
  <2> QED
    BY <2>1, <2>2, <2>3, <2>4 DEF DriverNext, StartupNext, driverVars
<1>3. AnswersInv => NobodyIsForgotten
  BY DEF AnswersInv, BitsHaveCommands, AskedHaveBits, NobodyIsForgotten
<1> QED
  BY <1>1, <1>2, <1>3, DriverInvariant, PTL DEF DriverSpec
-------------------------------------------------------------------------------
(* The wake-ups of the IMU poll thread.                                    *)

WakeTypeOK ==
  /\ imu_count \in Nat /\ request_exit \in BOOLEAN /\ source \in Handles
  /\ spc \in {"idle", "test", "count", "signal"}
  /\ imu_stored \in [Handles -> Nat] /\ imu_due \in [Handles -> Nat]
  /\ imu_published \in [Handles -> Nat]
  /\ spc = "test" => source \in registered

\* What was stored and not published is in the list of the lidar's index.
StoredAreFiled ==
  \A h \in Handles :
    IF h \in registered
      THEN imu_stored[h] = imu_published[h] + Len(imu_data[map_index[h]])
      ELSE imu_stored[h] = 0 /\ imu_published[h] = 0

DuesAreSamplers ==
  \A h \in Handles : imu_due[h] <= imu_stored[h] /\ (imu_due[h] > 0 => h \in sampling)

\* The packet is seen to: a token is there, the poll loop has not passed the
\* lidar's index, the data thread is about to look at the semaphore, or the node
\* is shut down.
ImuCovered(h) ==
  \/ imu_count > 0
  \/ ipc \in {"loop", "poll"} /\ index <= map_index[h]
  \/ spc \in {"count", "signal"}
  \/ spc = "test" /\ source = h
  \/ request_exit

DueAreCovered == \A h \in Handles : imu_published[h] < imu_due[h] => ImuCovered(h)

WakeInv == WakeTypeOK /\ StoredAreFiled /\ DuesAreSamplers /\ DueAreCovered

LEMMA DueIsFiled ==
  ASSUME DriverInv, WakeInv, NEW h \in Handles, imu_published[h] < imu_due[h]
  PROVE  h \in registered /\ h \in sampling /\ map_index[h] \in Indices
         /\ imu_data[map_index[h]] # <<>>
<1> USE DEF WakeInv, WakeTypeOK
<1>1. h \in registered /\ h \in sampling
  BY DEF StoredAreFiled, DuesAreSamplers
<1>2. map_index[h] \in Indices
  BY <1>1 DEF DriverInv, StartupInv, StartupTypeOK
<1>3. Len(imu_data[map_index[h]]) > 0
  BY <1>1, <1>2 DEF StoredAreFiled, DuesAreSamplers, DriverInv, ImuInv, ImuTypeOK
<1> QED
  BY <1>1, <1>2, <1>3

\* Lidars that get an index have stored nothing yet.
LEMMA StartupNextKeepsWakeInv ==
  ASSUME DriverInv, DriverInv', WakeInv, UNCHANGED imuVars,
         registered \subseteq registered', sampling \subseteq sampling',
         \A h \in registered : map_index'[h] = map_index[h],
         \A h \in registered' \ registered : imu_data[map_index'[h]] = <<>>
  PROVE  WakeInv'
<1> USE DEF WakeInv, imuVars, senderVars, pollVars, exitVars
<1>1. WakeTypeOK'
  BY DEF WakeTypeOK
<1>2. UNCHANGED <<imu_data, imu_stored, imu_published>>
  OBVIOUS
<1>5. ASSUME NEW h \in Handles
      PROVE  IF h \in registered'
               THEN imu_stored[h] = imu_published[h] + Len(imu_data[map_index'[h]])
               ELSE imu_stored[h] = 0 /\ imu_published[h] = 0
  <2>1. IF h \in registered
          THEN imu_stored[h] = imu_published[h] + Len(imu_data[map_index[h]])
          ELSE imu_stored[h] = 0 /\ imu_published[h] = 0
    BY DEF StoredAreFiled
  <2>2. CASE h \in registered
    BY <2>1, <2>2
  <2>3. CASE h \in registered' \ registered
    <3>1. Len(imu_data[map_index'[h]]) = 0
      BY <2>3
    <3> QED
      BY <2>1, <2>3, <3>1
  <2>4. CASE h \notin registered'
    BY <2>1, <2>4
  <2> QED
    BY <2>2, <2>3, <2>4
<1>6. StoredAreFiled'
  BY <1>2, <1>5 DEF StoredAreFiled
<1>3. DuesAreSamplers'
  BY DEF DuesAreSamplers
<1>4. ASSUME NEW h \in Handles, imu_published'[h] < imu_due'[h] PROVE ImuCovered(h)'
  <2>1. imu_published[h] < imu_due[h]
    BY <1>4
  <2>2. h \in registered /\ ImuCovered(h)
    BY <2>1, DueIsFiled DEF DueAreCovered
  <2> QED
    BY <2>2 DEF ImuCovered
<1> QED
  BY <1>1, <1>3, <1>4, <1>6 DEF DueAreCovered

LEMMA StorageKeepsWakeInv ==
  ASSUME DriverInv, WakeInv, NEW h \in Handles, StorageImuData(h),
         UNCHANGED <<vars, startupVars>>
  PROVE  WakeInv'
<1>1. /\ UNCHANGED <<registered, sampling, map_index, imu_count, ipc, index, imu_published,
                      request_exit>>
      /\ spc = "idle" /\ source' = h
  BY DEF StorageImuData, vars, startupVars, indexVars, pollVars, exitVars
<1>2. CASE h \notin registered
  <2>1. UNCHANGED <<imu_data, imu_stored, imu_due, spc>>
    BY <1>2 DEF StorageImuData, HasIndex
  <2> QED
    BY <1>1, <2>1
       DEF WakeInv, WakeTypeOK, StoredAreFiled, DuesAreSamplers, DueAreCovered, ImuCovered
<1>3. CASE h \in registered
  <2>1. /\ imu_data' = [imu_data EXCEPT ![map_index[h]] = Append(@, h)]
        /\ imu_stored' = [imu_stored EXCEPT ![h] = @ + 1]
        /\ imu_due' = IF h \in sampling THEN [imu_due EXCEPT ![h] = imu_stored'[h]] ELSE imu_due
        /\ spc' = "test"
    BY <1>3 DEF StorageImuData, HasIndex, Push
  <2>2. map_index[h] \in Indices /\ imu_data \in [Indices -> Seq(Handles)]
    BY <1>3 DEF DriverInv, StartupInv, StartupTypeOK, ImuInv, ImuTypeOK
  <2>3. WakeTypeOK'
    BY <1>1, <1>3, <2>1 DEF WakeInv, WakeTypeOK
  <2>4. \A g \in registered :
          /\ map_index[g] \in Indices
          /\ g # h => map_index[g] # map_index[h]
    BY <1>3 DEF DriverInv, StartupInv, StartupTypeOK, OneIndexEach
  <2>5. \A g \in registered :
          Len(imu_data'[map_index[g]]) =
            IF g = h THEN Len(imu_data[map_index[g]]) + 1 ELSE Len(imu_data[map_index[g]])
    BY <1>3, <2>1, <2>2, <2>4
  <2>6. StoredAreFiled'
    <3>1. ASSUME NEW g \in Handles
          PROVE  IF g \in registered
                   THEN imu_stored'[g] = imu_published[g] + Len(imu_data'[map_index[g]])
                   ELSE imu_stored'[g] = 0 /\ imu_published[g] = 0
      <4>1. /\ imu_stored \in [Handles -> Nat] /\ imu_published[g] \in Nat
            /\ IF g \in registered
                 THEN imu_stored[g] = imu_published[g] + Len(imu_data[map_index[g]])
                 ELSE imu_stored[g] = 0 /\ imu_published[g] = 0
        BY DEF WakeInv, WakeTypeOK, StoredAreFiled
      <4>2. imu_stored'[g] = IF g = h THEN imu_stored[g] + 1 ELSE imu_stored[g]
        BY <2>1, <4>1
      <4>3. g \in registered => Len(imu_data[map_index[g]]) \in Nat
        BY <2>2, <2>4
      <4> QED
        BY <1>3, <2>5, <4>1, <4>2, <4>3
    <3> QED
      BY <1>1, <3>1 DEF StoredAreFiled
  <2>7. DuesAreSamplers'
    BY <1>1, <2>1 DEF WakeInv, WakeTypeOK, DuesAreSamplers
  <2>8. DueAreCovered'
    BY <1>1, <2>1 DEF WakeInv, WakeTypeOK, DueAreCovered, ImuCovered
  <2> QED
    BY <2>3, <2>6, <2>7, <2>8 DEF WakeInv
<1> QED
  BY <1>2, <1>3

\* The visit of an index: the loop goes on only from an empty list, or when the
\* node is shut down.
LEMMA PollKeepsWakeInv ==
  ASSUME DriverInv, WakeInv, PollImu, UNCHANGED <<vars, startupVars>>
  PROVE  WakeInv'
<1>1. /\ UNCHANGED <<registered, sampling, map_index, imu_count, spc, source, imu_stored,
                      imu_due, request_exit>>
      /\ ipc = "poll" /\ index \in Indices
  BY HandshakeAssumption
     DEF PollImu, vars, startupVars, indexVars, senderVars, exitVars, DriverInv, ImuInv,
         ImuTypeOK, Indices
<1>2. CASE request_exit \/ Empty(index)
  <2>1. /\ ipc' = "loop" /\ index' = index + 1
        /\ UNCHANGED <<imu_data, imu_published>>
    BY <1>2 DEF PollImu
  <2>2. WakeTypeOK' /\ StoredAreFiled' /\ DuesAreSamplers'
    BY <1>1, <2>1 DEF WakeInv, WakeTypeOK, StoredAreFiled, DuesAreSamplers
  <2>3. ASSUME NEW h \in Handles, imu_published[h] < imu_due[h] PROVE ImuCovered(h)'
    <3>1. /\ map_index[h] \in Indices /\ imu_data[map_index[h]] # <<>> /\ ImuCovered(h)
      BY <2>3, DueIsFiled DEF WakeInv, DueAreCovered
    <3>2. request_exit \/ map_index[h] # index
      BY <1>2, <3>1 DEF Empty
    <3> QED
      BY <1>1, <2>1, <3>1, <3>2, HandshakeAssumption DEF ImuCovered, Indices
  <2> QED
    BY <1>1, <2>1, <2>2, <2>3 DEF WakeInv, DueAreCovered
<1>3. CASE ~(request_exit \/ Empty(index))
  <2> DEFINE h == Head(imu_data[index])
  <2>1. /\ imu_data' = [imu_data EXCEPT ![index] = Tail(imu_data[index])]
        /\ imu_published' = [imu_published EXCEPT ![h] = imu_published[h] + 1]
        /\ UNCHANGED <<ipc, index>>
    BY <1>3 DEF PollImu, PublishImuData, Pop
  <2>2. imu_data \in [Indices -> Seq(Handles)] /\ imu_data[index] # <<>>
    BY <1>3 DEF DriverInv, ImuInv, ImuTypeOK, Empty
  <2>3. imu_data[index] \in Seq(Handles)
    BY <1>1, <2>2
  <2>4. h \in registered /\ map_index[h] = index
    <3>1. h = imu_data[index][1] /\ 1 \in 1 .. Len(imu_data[index])
      BY <2>2, <2>3
    <3> QED
      BY <1>1, <3>1 DEF DriverInv, ImuInv, FiledUnderTheirIndex
  <2> HIDE DEF h
  <2>5. h \in Handles
    BY <2>4 DEF DriverInv, HandshakeInv, TypeOK
  <2>6. WakeTypeOK'
    BY <1>1, <2>1, <2>5 DEF WakeInv, WakeTypeOK
  <2>7. \A g \in registered :
          /\ map_index[g] \in Indices
          /\ g # h => map_index[g] # index
    BY <2>4 DEF DriverInv, StartupInv, StartupTypeOK, OneIndexEach
  <2>8. Len(Tail(imu_data[index])) = Len(imu_data[index]) - 1 /\ Len(imu_data[index]) \in Nat
    BY <2>2, <2>3
  <2>9. \A g \in registered :
          Len(imu_data'[map_index[g]]) =
            IF g = h THEN Len(imu_data[map_index[g]]) - 1 ELSE Len(imu_data[map_index[g]])
    BY <1>1, <2>1, <2>2, <2>4, <2>7, <2>8
  <2>10. StoredAreFiled'
    <3> SUFFICES ASSUME NEW g \in Handles
                 PROVE  IF g \in registered
                          THEN imu_stored[g] = imu_published'[g] + Len(imu_data'[map_index[g]])
                          ELSE imu_stored[g] = 0 /\ imu_published'[g] = 0
      BY <1>1 DEF StoredAreFiled
    <3>1. imu_published \in [Handles -> Nat]
      BY DEF WakeInv, WakeTypeOK
    <3>2. CASE g = h
      <4>1. Len(imu_data'[map_index[g]]) = Len(imu_data[index]) - 1
        BY <2>4, <2>9, <3>2
      <4>2. imu_published'[g] = imu_published[g] + 1 /\ imu_published[g] \in Nat
        BY <2>1, <2>5, <3>1, <3>2
      <4>3. imu_stored[g] = imu_published[g] + Len(imu_data[index])
        BY <2>4, <3>2 DEF WakeInv, StoredAreFiled
      <4> QED
        BY <2>4, <2>8, <3>2, <4>1, <4>2, <4>3
    <3>3. CASE g # h
      BY <2>1, <2>9, <3>1, <3>3 DEF WakeInv, StoredAreFiled
    <3> QED
      BY <3>2, <3>3
  <2>11. DuesAreSamplers'
    BY <1>1 DEF WakeInv, DuesAreSamplers
  <2>12. \A g \in Handles : imu_published[g] \in Nat /\ imu_published'[g] \in Nat
                            /\ imu_due[g] \in Nat /\ imu_published[g] <= imu_published'[g]
    BY <2>1, <2>5 DEF WakeInv, WakeTypeOK
  <2>13. DueAreCovered'
    BY <1>1, <2>1, <2>12 DEF WakeInv, DueAreCovered, ImuCovered
  <2> QED
    BY <2>6, <2>10, <2>11, <2>13 DEF WakeInv
<1> QED
  BY <1>2, <1>3

\* The semaphore: a token is posted unless one is there, and taken for a visit
\* of every index.
LEMMA OtherStepsKeepWakeInv ==
  ASSUME DriverInv, WakeInv, UNCHANGED <<vars, startupVars>>,
         \/ DataThread \/ RequestExit \/ SetExitSignal \/ UNCHANGED imuVars
         \/ DistributeImuData \/ WaitForImu \/ NextImuLidar \/ TestImuFuture
  PROVE  WakeInv'
<1>1. UNCHANGED <<registered, sampling, map_index>>
  BY DEF vars, startupVars, indexVars
<1>2. UNCHANGED <<imu_data, source, imu_stored, imu_due, imu_published>>
  BY DEF DataThread, TestImuEmpty, GetImuCount, SignalImu, RequestExit, SetExitSignal,
         DistributeImuData, WaitForImu, NextImuLidar, TestImuFuture, imuVars, pollVars, senderVars
<1>3. /\ imu_count' \in Nat /\ request_exit' \in BOOLEAN
      /\ spc' \in {"idle", "test", "count", "signal"}
      /\ spc' = "test" => spc = "test"
  <2> USE DEF WakeInv, WakeTypeOK
  <2>1. CASE DataThread
    BY <2>1 DEF DataThread, TestImuEmpty, GetImuCount, SignalImu, exitVars
  <2>2. CASE RequestExit \/ SetExitSignal \/ UNCHANGED imuVars
    BY <2>2 DEF RequestExit, SetExitSignal, imuVars, senderVars, exitVars
  <2>3. CASE DistributeImuData \/ WaitForImu \/ NextImuLidar \/ TestImuFuture
    <3>1. /\ UNCHANGED <<spc, request_exit>>
          /\ \/ imu_count' = imu_count
             \/ imu_count' = imu_count - 1 /\ imu_count > 0
      BY <2>3 DEF DistributeImuData, WaitForImu, NextImuLidar, TestImuFuture, senderVars, exitVars
    <3> QED
      BY <3>1
  <2> QED
    BY <2>1, <2>2, <2>3
<1>4. WakeTypeOK' /\ StoredAreFiled' /\ DuesAreSamplers'
  BY <1>1, <1>2, <1>3 DEF WakeInv, WakeTypeOK, StoredAreFiled, DuesAreSamplers
<1>5. ASSUME NEW h \in Handles, imu_published[h] < imu_due[h] PROVE ImuCovered(h)'
  <2>1. /\ h \in sampling /\ map_index[h] \in 0 .. MaxDevices - 1
        /\ imu_data[map_index[h]] # <<>> /\ ImuCovered(h)
    BY <1>5, DueIsFiled DEF WakeInv, DueAreCovered, Indices
  <2>2. index \in 0 .. MaxDevices /\ imu_count \in Nat /\ MaxDevices \in Nat
    BY HandshakeAssumption DEF DriverInv, ImuInv, ImuTypeOK, WakeInv, WakeTypeOK
  <2> USE <1>1, <2>1, <2>2 DEF ImuCovered
  <2>3. CASE DataThread
    BY <2>3 DEF DataThread, TestImuEmpty, GetImuCount, SignalImu, Empty, pollVars, exitVars
  <2>4. CASE RequestExit \/ SetExitSignal \/ UNCHANGED imuVars
    BY <2>4 DEF RequestExit, SetExitSignal, imuVars, pollVars, senderVars, exitVars
  <2>5. CASE DistributeImuData \/ TestImuFuture
    BY <2>5 DEF DistributeImuData, TestImuFuture, senderVars, exitVars
  <2>6. CASE WaitForImu
    BY <2>6 DEF WaitForImu
  <2>7. CASE NextImuLidar
    BY <2>7 DEF NextImuLidar, Samples, senderVars, exitVars
  <2> QED
    BY <2>3, <2>4, <2>5, <2>6, <2>7
<1> QED
  BY <1>2, <1>4, <1>5 DEF WakeInv, DueAreCovered

LEMMA StartupNextKeepsWake ==
  ASSUME DriverInv, DriverInv', WakeInv, StartupNext, UNCHANGED imuVars
  PROVE  WakeInv'
<1>0. StartupInv /\ registered \subseteq Handles
  BY DEF DriverInv, HandshakeInv, TypeOK
<1>1. CASE Startup
  <2>1. main # "started"
    BY <1>1 DEF Startup, ParseSummaryConfig, ParseUserConfigs, LivoxLidarSdkInit, AddDevice,
                SetInfoChangeCallback, SetLidarPubHandle
  <2>2. \A i \in Indices : imu_data[i] = <<>>
    BY <2>1 DEF DriverInv, ImuInv, NothingBeforeTheStart
  <2>3. sampling' = sampling
    BY <1>1 DEF Startup, ParseSummaryConfig, ParseUserConfigs, LivoxLidarSdkInit, AddDevice,
                SetInfoChangeCallback, SetLidarPubHandle, vars
  <2>4. \A h \in registered' : map_index'[h] \in Indices
    BY DEF DriverInv, StartupInv, StartupTypeOK, Indices
  <2>5. /\ registered \subseteq registered'
        /\ \A h \in registered : map_index'[h] = map_index[h]
    <3>1. CASE \E h \in Handles : AddDevice(h)
      <4>1. PICK h \in Handles : AddDevice(h)
        BY <3>1
      <4>2. h \notin registered
        BY <4>1, <1>0 DEF AddDevice, StartupInv, ConfiguredGoFirst
      <4>3. CASE index_cache = Indices
        BY <4>1, <4>3 DEF AddDevice, indexVars
      <4>4. CASE index_cache # Indices
        <5>1. GetFreeIndex(h) /\ registered' = registered \union {h}
          BY <4>1, <4>4 DEF AddDevice
        <5> QED
          BY <1>0, <4>2, <4>4, <5>1, GetFreeIndexGivesOne DEF StartupInv
      <4> QED
        BY <4>3, <4>4
    <3>2. CASE ~ \E h \in Handles : AddDevice(h)
      BY <1>1, <3>2
         DEF Startup, ParseSummaryConfig, ParseUserConfigs, LivoxLidarSdkInit,
             SetInfoChangeCallback, SetLidarPubHandle, vars, indexVars
    <3> QED
      BY <3>1, <3>2
  <2> QED
    BY <2>2, <2>3, <2>4, <2>5, StartupNextKeepsWakeInv
<1>2. CASE Handshake
  <2>1. UNCHANGED <<registered, map_index>>
    BY <1>2, HandshakeRegistersNone DEF startupVars, indexVars
  <2>2. sampling \subseteq sampling'
    BY <1>2 DEF Handshake, DetectionThread, Acknowledged, AnnounceKnown, RequestSetting,
                SendAttitude, SendWorkMode, EnableImu, SettingAcknowledged, OtherAcknowledged,
                TimedOut, Refused
  <2> QED
    BY <2>1, <2>2, StartupNextKeepsWakeInv
<1>3. ASSUME NEW h \in Handles, AnnounceStranger(h) PROVE WakeInv'
  <2>1. /\ h \notin registered /\ sampling' = sampling
        /\ registered' = registered \/ registered' = registered \union {h}
    BY <1>3 DEF AnnounceStranger, AnnounceUnknown
  <2>2. CASE registered' = registered
    BY <1>3, <2>1, <2>2, StartupNextKeepsWakeInv DEF AnnounceStranger, indexVars
  <2>3. CASE registered' # registered
    <3>1. /\ Cardinality(registered) < MaxDevices
          /\ GetFreeIndex(h) /\ registered' = registered \union {h}
      BY <1>3, <2>3 DEF AnnounceStranger, AnnounceUnknown
    <3>2. index_cache # Indices
      BY <1>0, <3>1, RoomLeft DEF StartupInv
    <3>3. \A g \in registered : map_index'[g] = map_index[g]
      BY <1>0, <2>1, <3>1, <3>2, GetFreeIndexGivesOne DEF StartupInv
    <3>4. map_index'[h] \in Indices /\ \A g \in registered : map_index'[g] # map_index'[h]
      BY <2>1, <3>1 DEF DriverInv, StartupInv, StartupTypeOK, OneIndexEach, Indices
    <3>5. imu_data[map_index'[h]] = <<>>
      <4> DEFINE i == map_index'[h]
      <4>1. i \in Indices /\ imu_data[i] \in Seq(Handles)
        BY <3>4 DEF DriverInv, ImuInv, ImuTypeOK
      <4>2. \A k \in 1 .. Len(imu_data[i]) : imu_data[i][k] \in registered /\ map_index[imu_data[i][k]] = i
        BY <4>1 DEF DriverInv, ImuInv, FiledUnderTheirIndex
      <4>3. ~ 1 \in 1 .. Len(imu_data[i])
        BY <3>3, <3>4, <4>2
      <4> QED
        BY <4>1, <4>3
    <3> QED
      BY <2>1, <3>1, <3>3, <3>5, StartupNextKeepsWakeInv
  <2> QED
    BY <2>1, <2>2, <2>3
<1> QED
  BY <1>1, <1>2, <1>3 DEF StartupNext

\* The poll thread never sleeps on what is due: with no token, nobody about to
\* post one and no shutdown, all that a lidar stored while it sampled is published;
\* and what is stored and not published yet is in the list of the lidar's own index,
\* no packet lost, copied or filed elsewhere (lds.cpp, lddc.cpp,
\* lidar_imu_data_queue.cpp).
ImuSleeps == ipc = "wait" /\ imu_count = 0 /\ spc = "idle" /\ ~request_exit

NothingDueWhileAsleep ==
  /\ ImuSleeps => \A h \in Handles : imu_published[h] >= imu_due[h]
  /\ \A h \in registered :
       imu_stored[h] = imu_published[h] + Len(imu_data[map_index[h]])

THEOREM ImuWakeupsAreNotLost == DriverSpec => []NothingDueWhileAsleep
<1>1. DriverInit => WakeInv
  <2> SUFFICES ASSUME DriverInit PROVE WakeInv
    OBVIOUS
  <2>1. (CHOOSE h \in Handles : TRUE) \in Handles
    BY HandshakeAssumption
  <2>2. registered = {}
    BY DEF DriverInit, StartupInit, HandshakeInit
  <2>3. WakeTypeOK
    BY <2>1 DEF DriverInit, WakeTypeOK
  <2>4. \A h \in Handles : imu_stored[h] = 0 /\ imu_published[h] = 0 /\ imu_due[h] = 0
    BY DEF DriverInit
  <2>5. StoredAreFiled /\ DuesAreSamplers /\ DueAreCovered
    BY <2>2, <2>4 DEF StoredAreFiled, DuesAreSamplers, DueAreCovered
  <2> QED
    BY <2>3, <2>5 DEF WakeInv
<1>2. WakeInv /\ DriverInv /\ DriverInv' /\ [DriverNext]_driverVars => WakeInv'
  <2> SUFFICES ASSUME WakeInv, DriverInv, DriverInv', [DriverNext]_driverVars PROVE WakeInv'
    OBVIOUS
  <2>1. CASE StartupNext /\ UNCHANGED imuVars
    BY <2>1, StartupNextKeepsWake
  <2>2. CASE UNCHANGED <<vars, startupVars>>
    <3>1. CASE \E h \in Handles : StorageImuData(h)
      BY <2>2, <3>1, StorageKeepsWakeInv
    <3>2. CASE PollImu
      BY <2>2, <3>2, PollKeepsWakeInv
    <3>3. CASE \/ DataThread \/ RequestExit \/ SetExitSignal \/ UNCHANGED imuVars
               \/ DistributeImuData \/ WaitForImu \/ NextImuLidar \/ TestImuFuture
      BY <2>2, <3>3, OtherStepsKeepWakeInv
    <3> QED
      BY <3>1, <3>2, <3>3 DEF DriverNext, ImuPollThread, driverVars
  <2> QED
    BY <2>1, <2>2 DEF DriverNext, driverVars
<1>3. WakeInv /\ DriverInv => NothingDueWhileAsleep
  <2>1. ASSUME WakeInv, ImuSleeps, NEW h \in Handles PROVE imu_published[h] >= imu_due[h]
    BY <2>1 DEF WakeInv, WakeTypeOK, DueAreCovered, ImuCovered, ImuSleeps
  <2>2. ASSUME WakeInv, DriverInv, NEW h \in registered
        PROVE  imu_stored[h] = imu_published[h] + Len(imu_data[map_index[h]])
    BY <2>2 DEF WakeInv, StoredAreFiled, DriverInv, HandshakeInv, TypeOK
  <2> QED
    BY <2>1, <2>2 DEF NothingDueWhileAsleep
<1> QED
  BY <1>1, <1>2, <1>3, DriverInvariant, PTL DEF DriverSpec
===============================================================================
