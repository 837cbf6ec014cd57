----------------------------- MODULE MCFilterWalk -----------------------------
(***************************************************************************)
(* An instance of FilterWalk for TLC: scans of no point, of one, and of  *)
(* two that are apart.                                                     *)
(***************************************************************************)
EXTENDS FilterWalk

MCOffsets == {{}, {0}, {0, 2}}
MCMaxImu == [on \in BOOLEAN |-> IF on THEN 2 ELSE 1]
===============================================================================
