------------------------------ MODULE ManualHeap ------------------------------
(***************************************************************************)
(* MANUAL_HEAP of ikd_Tree.h, and what Nearest_Search makes of it: the     *)
(* k_nearest points found so far, the farthest on top.  A heap is the      *)
(* sequence of its first heap_size entries, from heap[0] on; entries       *)
(* compare by distance, then by x.                                         *)
(***************************************************************************)
EXTENDS Integers, Sequences, SequencesExt

CONSTANT k_nearest

cap == 2 * k_nearest   \* max_capacity

Entries == [x : Int, dist : Int]

PointType_CMP(x, dist) == [x |-> x, dist |-> dist]

Less(a, b) == IF a.dist = b.dist THEN a.x < b.x ELSE a.dist < b.dist

\* A loop's states from the given one on: body is one turn of it, and leaves a
\* state as it is where the loop breaks.
Runs(body, state) ==
  LET after[k \in Nat] == IF k = 0 THEN state ELSE body[after[k - 1]] IN after

\* The states of the heap's own loops: a heap, and heap_index, the place of the
\* entry on its way.
OnTheWay == {s \in Seq(Entries) \X Nat : s[2] \in 1 .. Len(s[1])}

Exchanged(heap, m, n) == [heap EXCEPT ![m] = heap[n], ![n] = heap[m]]

GreaterSon(heap, n) ==
  IF 2 * n + 1 <= Len(heap) /\ Less(heap[2 * n], heap[2 * n + 1]) THEN 2 * n + 1 ELSE 2 * n

Down == [s \in OnTheWay |->
  LET heap == s[1]
      n == s[2]
      son == GreaterSon(heap, n)
  IN IF 2 * n <= Len(heap) /\ Less(heap[n], heap[son])
       THEN <<Exchanged(heap, n, son), son>>
       ELSE s]

Up == [s \in OnTheWay |->
  LET heap == s[1]
      n == s[2]
  IN IF n > 1 /\ Less(heap[n \div 2], heap[n])
       THEN <<Exchanged(heap, n, n \div 2), n \div 2>>
       ELSE s]

\* The entry at n goes down while a son is greater, the greater son coming up:
\* Len(heap) turns are enough.
MoveDown(heap, n) == Runs(Down, <<heap, n>>)[Len(heap)][1]

\* The entry at n goes up while its ancestor is less: n turns are enough.
FloatUp(heap, n) == Runs(Up, <<heap, n>>)[n][1]

top(heap) == heap[1]

\* The last entry takes the place of the first.
pop(heap) ==
  IF heap = <<>> THEN <<>>
  ELSE LET rest == Front([heap EXCEPT ![1] = Last(heap)])
       IN IF rest = <<>> THEN rest ELSE MoveDown(rest, 1)

\* A full heap takes nothing.
push(heap, entry) ==
  IF Len(heap) >= cap THEN heap ELSE FloatUp(Append(heap, entry), Len(heap) + 1)

-------------------------------------------------------------------------------
(* The search.                                                             *)

\* Mutant: a son is not visited for a heap that is not full.
Better_NotFull(dist, heap) == heap = <<>> \/ dist < top(heap).dist

\* Whether a distance is worth a place among the k_nearest.
Better(dist, heap) == Len(heap) < k_nearest \/ dist < top(heap).dist

Pushed(point, dist, heap) ==
  push(IF Len(heap) >= k_nearest THEN pop(heap) ELSE heap, PointType_CMP(point[1], dist))

\* The heap is emptied from the top, each entry put before those already taken:
\* k_found turns.
Emptied == [s \in Seq(Entries) \X Seq(Entries) |->
  IF s[1] = <<>> THEN s ELSE <<pop(s[1]), <<top(s[1])>> \o s[2]>>]

k_found(heap) == IF Len(heap) < k_nearest THEN Len(heap) ELSE k_nearest

Nearest_Points(heap) == Runs(Emptied, <<heap, <<>>>>)[k_found(heap)][2]

Point_Distance(heap) ==
  LET found == Nearest_Points(heap) IN [n \in DOMAIN found |-> found[n].dist]
===============================================================================
