-------------------------------- MODULE ManualQ --------------------------------
(***************************************************************************)
(* MANUAL_Q of ikd_Tree.h, the queue of logged operations: a ring of Q_LEN *)
(* slots.  push does not look whether a slot is free: with more than Q_LEN *)
(* operations waiting the oldest are overwritten, while counter, and the   *)
(* number of operations that pop gives out, go on growing.                 *)
(***************************************************************************)
EXTENDS Integers

CONSTANT Q_LEN   \* at least 1

Queues(Operations) ==
  [q : [0 .. Q_LEN - 1 -> Operations], head : 0 .. Q_LEN - 1, tail : 0 .. Q_LEN - 1,
   counter : Nat, is_empty : BOOLEAN]

\* After clear(); what the slots hold does not matter, say nothing.
Cleared(nothing) ==
  [q |-> [slot \in 0 .. Q_LEN - 1 |-> nothing], head |-> 0, tail |-> 0, counter |-> 0,
   is_empty |-> TRUE]

front(queue) == queue.q[queue.head]
empty(queue) == queue.is_empty

pop(queue) ==
  IF queue.counter = 0 THEN queue
  ELSE [queue EXCEPT !.head = (@ + 1) % Q_LEN, !.counter = @ - 1,
                     !.is_empty = @ \/ queue.counter = 1]

push(queue, op) ==
  [queue EXCEPT !.q[queue.tail] = op, !.counter = @ + 1, !.is_empty = FALSE,
                !.tail = (@ + 1) % Q_LEN]

\* More operations wait than there are slots for.
Overflown(queue) == queue.counter > Q_LEN
===============================================================================
