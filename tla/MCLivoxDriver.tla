----------------------------- MODULE MCLivoxDriver -----------------------------
(***************************************************************************)
(* Two indices and three devices, of which the json file may name one, all *)
(* (the last to be looked up gets no index) or none (they compete for the  *)
(* indices, and the ones that get them are configured when they are        *)
(* announced again).  The handshake has most of its interleavings with the *)
(* first file, IMU data are sent with the second.                          *)
(***************************************************************************)
EXTENDS LivoxDriver, TLC

CONSTANTS livox, hap, stranger

MCHandles == {livox, hap, stranger}
OneLidar == livox :> {"data_type", "blind_spot"}
AllLidars == (livox :> {"data_type"}) @@ (hap :> {"data_type"}) @@ (stranger :> {"data_type"})
NoLidars == [h \in {} |-> {}]
MCJsonFiles == {OneLidar, AllLidars, NoLidars}
MCPlace == (hap :> 1) @@ (livox :> 2) @@ (stranger :> 3)
MCRounds ==
  [json \in MCJsonFiles |->
     [h \in MCHandles |-> CASE h = livox -> IF json = AllLidars THEN 1 ELSE 2
                         [] h = hap -> 0
                         [] h = stranger -> IF json = AllLidars THEN 1 ELSE 0]]
MCImu ==
  [json \in MCJsonFiles |->
     [h \in MCHandles |-> IF json # AllLidars THEN 0
                          ELSE CASE h = livox -> 2 [] h = hap -> 0 [] h = stranger -> 0]]
MCShutdown == {AllLidars}
===============================================================================
