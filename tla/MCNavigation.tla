------------------------------ MODULE MCNavigation ------------------------------
(***************************************************************************)
(* An instance of Navigation for TLC: a straight path, one that turns      *)
(* back, and a short one.                                                  *)
(***************************************************************************)
EXTENDS Navigation

MCPaths == {<<0, 1, 2>>, <<1, 2, 1, 0>>, <<1>>, <<>>}
===============================================================================
