----------------------------- MODULE LidarFrontEnd -----------------------------
(***************************************************************************)
(* The whole of livox_pcl_cbk, or of standard_pcl_cbk for a spinning       *)
(* lidar: the filter of Preprocess, point by point, and then the intake of *)
(* ScanIntake, which gets the points it has kept.                          *)
(*                                                                         *)
(* The first message is filtered; the messages after it, which meet a      *)
(* buffer, a cut or a combination that it has begun, come from Messages.   *)
(***************************************************************************)
EXTENDS Preprocess, ScanIntake

filterVars == <<lidar_type, handlerVars, spinningVars>>
frontEndVars == <<vars, filterVars>>

\* The points kept, in the order of the message, with the time they were given.
Kept ==
  LET points == IF lidar_type = "AVIA" THEN pl_surf ELSE pl_added
  IN [k \in DOMAIN points |-> points[k].curvature]

\* The driver's message: its stamp and timebase are the frame's base_time.
CustomMsg(base_time) == [stamp |-> base_time, offsets |-> Kept]

FrontEndInit == Init /\ PreprocessInit

Process ==
  /\ scan_count = 0
  /\ ProcessPoint
  /\ UNCHANGED vars

\* The handler's variables are its own: the next message starts afresh.
ReceiveProcessed ==
  /\ scan_count = 0
  /\ \E base_time \in Stamps : Receive(CustomMsg(base_time))
  /\ UNCHANGED lidar_type
  /\ i' = 1 /\ offset' = 0 /\ valid_num' = 0
  /\ previous' = Unfilled
  /\ pl_surf' = <<>>
  /\ regular' = TRUE /\ forward' = TRUE /\ latest' = 0
  /\ given_offset_time' = FALSE /\ fired' = 0
  /\ is_first' = [layer \in Rings |-> TRUE]
  /\ orderly' = [layer \in Rings |-> TRUE]
  /\ LET zero == [layer \in Rings |-> 0]
     IN yaw_fp' = zero /\ yaw_last' = zero /\ time_last' = zero /\ turned' = zero
  /\ pl_added' = <<>>

GoOn ==
  /\ scan_count > 0
  /\ Next
  /\ UNCHANGED filterVars

FrontEndNext == Process \/ ReceiveProcessed \/ GoOn

FrontEndSpec == FrontEndInit /\ [][FrontEndNext]_frontEndVars
===============================================================================
