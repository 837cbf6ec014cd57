------------------------------ MODULE MCPubHandler ------------------------------
(***************************************************************************)
(* An instance of PubHandler for TLC: a synchronised lidar that sends for  *)
(* two intervals and more, and one that is not synchronised.               *)
(***************************************************************************)
EXTENDS PubHandler, TLC

MCTimeTypes == 1 :> {"Ptp"} @@ 2 :> {"NoSync"}
MCLoads == {1 :> 12 @@ 2 :> 0, 1 :> 4 @@ 2 :> 1}
===============================================================================
