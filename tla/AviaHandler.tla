------------------------------ MODULE AviaHandler ------------------------------
(***************************************************************************)
(* The points of a Livox frame on their way through a CustomMsg            *)
(* (livox_ros_driver2 lddc.cpp, FillPointsToCustomMsg) and the filter of   *)
(* the scan (Point-LIO preprocess.cpp, avia_handler): which of them are    *)
(* kept, and the time each is given.                                       *)
(*                                                                         *)
(* The points come one by one, with any gap between their times; a clock   *)
(* that is set, or a packet that was overtaken, makes them go back.  The   *)
(* message has a point's time as 32 bits from the frame's first point on,  *)
(* so that one before it wraps around.                                     *)
(*                                                                         *)
(* pl_full is resized afresh for every message, so an entry that the loop  *)
(* does not fill holds the origin at time 0; the entry before the current  *)
(* point decides whether the point's own offset time is believed.          *)
(*                                                                         *)
(* Times are in ticks.  A position is a number, 0 the origin, which is     *)
(* inside the blind zone.                                                  *)
(***************************************************************************)
EXTENDS Integers, Sequences

CONSTANTS Ms,               \* ticks in 1 ms: the largest gap that is believed
          Step,             \* 0.004166667 ms: the gap put in its place
          point_filter_num, \* one of so many valid points is kept
          Wide,             \* ticks that 32 bits hold: 4.29 s
          Gaps,             \* gaps between the times of two points
          Positions,        \* positions of the points
          Tags,             \* {TRUE}: every point is valid; BOOLEAN: noise too
          MaxPoints         \* bound: points in a message

ASSUME AviaAssumption ==
  /\ Step \in Nat /\ Ms \in Nat /\ Step < Ms
  /\ point_filter_num \in Nat \ {0}
  /\ Wide \in Nat \ {0}
  /\ Gaps \subseteq Int
  /\ Tags \subseteq BOOLEAN

VARIABLES i,          \* index of the next point
          offset,     \* time of the last point, from the frame's first on
          valid_num,  \* valid points so far
          previous,   \* pl_full[i - 1]
          pl_surf,    \* the kept points, in order: their times, and what was known of them
  regular,    \* history: no entry was left unfilled and no gap was 1 ms or more, or back
  forward,    \* history: the time has not gone back
  latest      \* history: the latest time so far, and a step more for each point since

historyVars == <<regular, forward, latest>>
handlerVars == <<i, offset, valid_num, previous, pl_surf, historyVars>>

Unfilled == [position |-> 0, curvature |-> 0]

Abs(n) == IF n < 0 THEN -n ELSE n

\* Mutant: the step is added to the threshold.
Curvature_AddsMs(t) ==
  IF Abs(t - previous.curvature) < Ms THEN t ELSE previous.curvature + Ms + Step

\* offset_time of the CustomPoint: static_cast<uint32_t>(time - base_time).
OffsetTime(t) == t % Wide

\* The time given to a point: its offset_time, unless that is 1 ms or more away
\* from the entry before it.
Curvature(t) ==
  IF Abs(t - previous.curvature) < Ms THEN t ELSE previous.curvature + Step

\* Point 0 of the message is never looked at; the frame's base_time is its time.
HandlerInit ==
  /\ i = 1
  /\ offset = 0
  /\ valid_num = 0
  /\ previous = Unfilled
  /\ pl_surf = <<>>
  /\ regular = TRUE /\ forward = TRUE /\ latest = 0

\* A point of time t.  A frame is over long before the 32 bits wrap (the driver
\* publishes at 0.5 Hz or faster).
Reads(t) ==
  /\ offset' = t
  /\ forward' = (forward /\ offset <= t)
  /\ latest' = IF t < latest + Step THEN latest + Step ELSE t
  /\ latest' < Wide /\ latest' + Ms < Wide + t

\* A point with a bad line or tag, or one that point_filter_num drops: its entry
\* of pl_full is left unfilled.
Skip(t, valid) ==
  /\ ~ (valid /\ (valid_num + 1) % point_filter_num = 0)
  /\ valid_num' = IF valid THEN valid_num + 1 ELSE valid_num
  /\ previous' = Unfilled
  /\ Reads(t)
  /\ regular' = FALSE
  /\ UNCHANGED pl_surf

\* A point that is looked at; it is kept when it moved and is not blind.
Fill(t, position) ==
  /\ (valid_num + 1) % point_filter_num = 0
  /\ valid_num' = valid_num + 1
  /\ previous' = [position |-> position, curvature |-> Curvature(OffsetTime(t))]
  /\ Reads(t)
  /\ regular' = (regular /\ offset <= t /\ t - offset < Ms)
  /\ pl_surf' = IF position # previous.position /\ position # 0
                  THEN Append(pl_surf, [curvature |-> Curvature(OffsetTime(t)), time |-> t,
                                        regular |-> regular', forward |-> forward',
                                        latest |-> latest'])
                  ELSE pl_surf

NextPoint ==
  /\ i < MaxPoints
  /\ i' = i + 1
  /\ \E gap \in Gaps :
       \/ \E valid \in Tags : Skip(offset + gap, valid)
       \/ TRUE \in Tags /\ \E p \in Positions : Fill(offset + gap, p)

-------------------------------------------------------------------------------
(* Properties.                                                             *)

\* A kept point is never given a time later than its own, noise and filtering or
\* not, so that lidar_end_time, the largest curvature, is never after the scan's
\* real end, on which sync_packages and the order of the scans rely.  As long as
\* every point is looked at and no two are 1 ms apart, it is given its own, also
\* where it is compared with the unfilled entry of point 0.  After the time has
\* gone back it may be later, but by the steps put in place of the gaps only:
\* never by what a time that wrapped around would add.
CurvatureIsTime ==
  \A n \in DOMAIN pl_surf :
    LET p == pl_surf[n]
    IN /\ 0 <= p.curvature /\ p.curvature <= p.latest
       /\ p.forward => p.curvature <= p.time
       /\ p.regular => p.curvature = p.time
===============================================================================
