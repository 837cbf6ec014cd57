------------------------------- MODULE Controller -------------------------------
(***************************************************************************)
(* The path follower (navigation/src/controller.cpp): a timer looks up the *)
(* robot's pose, moves prune_index along the global path and drives to the *)
(* pose there, until it says that the plan has succeeded.                  *)
(*                                                                         *)
(* Timer and callbacks run in one thread, ros::spin's.  Poses are numbers  *)
(* on a line; prune_index counts from 0, as in the code.                   *)
(***************************************************************************)
EXTENDS Integers, Sequences, FiniteSets

CONSTANTS Positions,            \* where the robot and the poses may be
          Paths,                \* the global paths, the empty one too, within 100 m
          goal_dist_tolerance,
          prune_ahead_dist,
          Horizon,              \* poses that make the local path (20)
          MaxPaths              \* bound: global paths that arrive

ASSUME ControllerAssumption ==
  /\ Positions \subseteq Int /\ Paths \subseteq Seq(Positions)
  /\ goal_dist_tolerance \in Nat /\ prune_ahead_dist \in Nat
  /\ Horizon \in Nat \ {0} /\ MaxPaths \in Nat

VARIABLES
  global_path, plan, diverge, prune_index,
  cmd_vel,       \* direction of the command: -1, 0, 1
  robot,         \* the pose the localization gives, all zero if it has none
  paths_left,    \* global paths that may still arrive
  followed,      \* history: a Plan has been made with this path
  fresh,         \* history: this path arrived when none was being followed
  near_goal,     \* history: what the last Plan with this path saw of NearGoal
  success        \* history: "Planning Success!" was said of this path

controllerVars == <<global_path, plan, diverge, prune_index, cmd_vel, paths_left, followed, fresh,
                    near_goal, success>>

ControllerInit ==
  /\ global_path = <<>> /\ plan = FALSE /\ diverge = FALSE /\ prune_index = 0
  /\ cmd_vel = 0
  /\ robot = 0
  /\ paths_left = MaxPaths
  /\ followed = FALSE /\ fresh = TRUE /\ near_goal = FALSE
  /\ success = FALSE

Pose(path, i) == path[i + 1]
Distance(a, b) == IF a <= b THEN b - a ELSE a - b

\* What success should mean of a Plan with prune_index at index: the pose is within
\* prune_ahead_dist of the last pose but one, or no farther from the goal than that
\* one is, or no farther from the goal than from any pose that is still to come.
NearGoal(path, index, pose) ==
  LET n == Len(path)
      To(i) == Distance(pose, path[i])
  IN /\ index < n - 1
     /\ \/ To(n - 1) <= prune_ahead_dist
        \/ To(n) <= Distance(path[n - 1], path[n])
        \/ \A i \in index + 1 .. n : To(n) <= To(i)

-------------------------------------------------------------------------------
\* FindNearstPose.  The walk starts at index and stops at the first pose that is
\* farther than the one before it; there is none before pose 0.
Rises(path, index, pose, i) ==
  /\ i \in index .. Len(path) - 1 /\ i > 0
  /\ Distance(pose, Pose(path, i)) > Distance(pose, Pose(path, i - 1))

\* The robot has not reached the pose before: both are on one side of it, and that
\* one is far.
IsTooFarAhead(path, pose, i) ==
  /\ (Pose(path, i) - pose) * (Pose(path, i - 1) - pose) > 0
  /\ Distance(pose, Pose(path, i - 1)) > prune_ahead_dist

\* Mutants: the index is not limited to the path; it goes on where it should go back.
FindNearstPose_Unlimited(path, index, pose) ==
  LET rises == {i \in index .. Len(path) - 1 : Rises(path, index, pose, i)}
  IN IF rises = {} THEN IF index < Len(path) THEN Len(path) ELSE index
     ELSE LET i == CHOOSE i \in rises : \A j \in rises : i <= j
          IN IF IsTooFarAhead(path, pose, i) THEN i - 1 ELSE i
FindNearstPose_NeverBack(path, index, pose) ==
  LET rises == {i \in index .. Len(path) - 1 : Rises(path, index, pose, i)}
  IN IF rises = {} THEN Len(path) - 1
     ELSE LET i == CHOOSE i \in rises : \A j \in rises : i <= j
          IN IF i = Len(path) - 1 THEN i ELSE i + 1

FindNearstPose(path, index, pose) ==
  LET rises == {i \in index .. Len(path) - 1 : Rises(path, index, pose, i)}
  IN IF rises = {} THEN Len(path) - 1
     ELSE LET i == CHOOSE i \in rises : \A j \in rises : i <= j
          IN IF IsTooFarAhead(path, pose, i) THEN i - 1 ELSE i

\* GenTraj and FollowTraj: the command leads to the first pose of the local path
\* that is not the robot's own.
Direction(path, index, pose) ==
  LET ahead == {i \in index .. Len(path) - 1 : i - index < Horizon /\ Pose(path, i) # pose}
  IN IF ahead = {} THEN 0
     ELSE LET i == CHOOSE i \in ahead : \A j \in ahead : i <= j
          IN IF Pose(path, i) > pose THEN 1 ELSE -1

-------------------------------------------------------------------------------
\* The timer.  Without a plan the robot stands, or turns.
Idle ==
  /\ ~plan
  /\ cmd_vel' = 0
  /\ UNCHANGED <<global_path, plan, diverge, prune_index, robot, paths_left, followed, fresh,
                 near_goal, success>>

AtGoal ==
  \/ Distance(robot, Pose(global_path, Len(global_path) - 1)) <= goal_dist_tolerance
  \/ prune_index = Len(global_path) - 1

Succeed ==
  /\ plan /\ AtGoal
  /\ plan' = FALSE
  /\ cmd_vel' = 0
  /\ prune_index' = 0
  /\ success' = TRUE
  /\ UNCHANGED <<global_path, diverge, robot, paths_left, followed, fresh,
                 near_goal>>

\* Mutant: the index is passed by value.
Follow_IndexByValue ==
  /\ plan /\ ~AtGoal
  /\ cmd_vel' = Direction(global_path, FindNearstPose(global_path, prune_index, robot), robot)
  /\ followed' = TRUE
  /\ near_goal' = NearGoal(global_path, prune_index, robot)
  /\ UNCHANGED <<global_path, plan, diverge, prune_index, robot, paths_left, fresh, success>>

Follow ==
  /\ plan /\ ~AtGoal
  /\ prune_index' = FindNearstPose(global_path, prune_index, robot)
  /\ cmd_vel' = Direction(global_path, prune_index', robot)
  /\ followed' = TRUE
  /\ near_goal' = NearGoal(global_path, prune_index, robot)
  /\ UNCHANGED <<global_path, plan, diverge, robot, paths_left, fresh, success>>

Plan == Idle \/ Succeed \/ Follow

\* Mutant: a path that arrives after the divergence is followed.
GlobalPathCallback_AfterDivergence(path) ==
  /\ paths_left > 0 /\ paths_left' = paths_left - 1
  /\ IF path = <<>>
       THEN UNCHANGED <<global_path, plan, followed, fresh, near_goal, success>>
       ELSE /\ global_path' = path
            /\ plan' = TRUE
            /\ followed' = FALSE /\ fresh' = (prune_index = 0) /\ success' = FALSE
            /\ near_goal' = FALSE
  /\ UNCHANGED <<diverge, prune_index, cmd_vel, robot>>

\* prune_index stays what it was for the path before.
GlobalPathCallback(path) ==
  /\ paths_left > 0 /\ paths_left' = paths_left - 1
  /\ IF path = <<>>
       THEN UNCHANGED <<global_path, plan, followed, fresh, near_goal, success>>
       ELSE /\ global_path' = path
            /\ plan' = (plan \/ ~diverge)
            /\ followed' = FALSE /\ fresh' = (prune_index = 0) /\ success' = FALSE
            /\ near_goal' = FALSE
  /\ UNCHANGED <<diverge, prune_index, cmd_vel, robot>>

\* A divergence stops the robot, for good.
LocalizationStatusCallback(data) ==
  /\ IF data THEN diverge' = TRUE /\ plan' = FALSE ELSE UNCHANGED <<diverge, plan>>
  /\ UNCHANGED <<global_path, prune_index, cmd_vel, robot, paths_left, followed, fresh,
                 near_goal, success>>
===============================================================================
