----------------------------- MODULE IkdTreeProofs -----------------------------
(***************************************************************************)
(* Proofs about the ikd-Tree.  First, what a nearest search rests on: of   *)
(* all the points it comes by, in whatever order, the heap of ManualHeap   *)
(* keeps the nearest, and they are given nearest first, for any entries    *)
(* and any k_nearest.                                                      *)
(*                                                                         *)
(* Then the operations at one node of KdNode: on trees of any height, with *)
(* any marks on their way, each keeps what the nodes tell of their points, *)
(* and has the effect on these that its callers rely on.                   *)
(*                                                                         *)
(* Last, the rebuilding of a subtree in the second thread, for any points, *)
(* boxes, number of requests and room in Rebuild_Logger: nothing is lost   *)
(* by a rebuild, and no search is caught in the nodes it frees.            *)
(***************************************************************************)
EXTENDS IkdTreeRebuild, ManualHeap, KdNode, SequenceTheorems, FunctionTheorems,
        FiniteSetTheorems, WellFoundedInduction, TLAPS

-------------------------------------------------------------------------------
(* The heap of a nearest search.  What the states of a loop are after any  *)
(* number of turns is a recursive function: there is one.                  *)

LEMMA LeastNumber ==
  ASSUME NEW Bad, Bad \subseteq Nat, Bad # {}
  PROVE  \E k \in Bad : \A j \in Bad : k <= j
<1>1. PICK k \in Bad : \A j \in Bad : ~(<<j, k>> \in OpToRel(<, Nat))
  BY NatLessThanWellFounded, WFMin
<1>2. \A j \in Bad : ~(j < k)
  BY <1>1 DEF OpToRel
<1> QED
  BY <1>2

\* What a loop runs through up to its n-th turn.
Beginnings(F, x, n) ==
  {g \in [0 .. n -> DOMAIN F] : g[0] = x /\ \A k \in 0 .. n - 1 : g[k + 1] = F[g[k]]}

LEMMA BeginningsExist ==
  ASSUME NEW X, NEW F \in [X -> X], NEW x \in X
  PROVE  \A n \in Nat : Beginnings(F, x, n) # {}
<1> DEFINE Bad == {n \in Nat : Beginnings(F, x, n) = {}}
<1> SUFFICES ASSUME Bad # {} PROVE FALSE
  OBVIOUS
<1>1. PICK n \in Bad : \A j \in Bad : n <= j
  BY LeastNumber
<1>2. CASE n = 0
  <2>1. [i \in 0 .. 0 |-> x] \in Beginnings(F, x, 0)
    BY DEF Beginnings
  <2> QED
    BY <1>2, <2>1
<1>3. CASE n # 0
  <2>1. n - 1 \in Nat /\ n - 1 \notin Bad
    BY <1>1, <1>3
  <2>2. PICK g \in Beginnings(F, x, n - 1) : TRUE
    BY <2>1
  <2> DEFINE h == [i \in 0 .. n |-> IF i = n THEN F[g[n - 1]] ELSE g[i]]
  <2>3. g \in [0 .. n - 1 -> X] /\ g[0] = x /\ \A k \in 0 .. n - 2 : g[k + 1] = F[g[k]]
    BY <2>1, <2>2 DEF Beginnings
  <2>4. h \in [0 .. n -> X]
    BY <2>1, <2>3
  <2>5. h[0] = x
    BY <1>3, <2>1, <2>3
  <2>6. ASSUME NEW k \in 0 .. n - 1 PROVE h[k + 1] = F[h[k]]
    BY <2>1, <2>3, <2>6
  <2>7. h \in Beginnings(F, x, n)
    BY <2>4, <2>5, <2>6 DEF Beginnings
  <2> QED
    BY <2>7
<1> QED
  BY <1>2, <1>3

LEMMA BeginningsAgree ==
  ASSUME NEW X, NEW F \in [X -> X], NEW x \in X,
         NEW m \in Nat, NEW n \in Nat,
         NEW g \in Beginnings(F, x, m), NEW h \in Beginnings(F, x, n)
  PROVE  \A k \in Nat : k <= m /\ k <= n => g[k] = h[k]
<1> DEFINE Bad == {k \in Nat : k <= m /\ k <= n /\ g[k] # h[k]}
<1> SUFFICES ASSUME Bad # {} PROVE FALSE
  OBVIOUS
<1>1. PICK k \in Bad : \A j \in Bad : k <= j
  BY LeastNumber
<1>2. k # 0
  BY DEF Beginnings
<1>3. k - 1 \in Nat /\ k - 1 \notin Bad
  BY <1>1, <1>2
<1>4. g[k - 1] = h[k - 1]
  BY <1>3
<1>5. g[k - 1 + 1] = F[g[k - 1]] /\ h[k - 1 + 1] = F[h[k - 1]]
  BY <1>3 DEF Beginnings
<1>6. k - 1 + 1 = k
  OBVIOUS
<1> QED
  BY <1>4, <1>5, <1>6

\* Runs is what its equation says it is: the loop's state after each turn.
LEMMA RunsStepByStep ==
  ASSUME NEW X, NEW F \in [X -> X], NEW x \in X
  PROVE  /\ Runs(F, x) \in [Nat -> X]
         /\ Runs(F, x)[0] = x
         /\ \A k \in Nat : Runs(F, x)[k + 1] = F[Runs(F, x)[k]]
<1> DEFINE pick(n) == CHOOSE g \in Beginnings(F, x, n) : TRUE
           after == [n \in Nat |-> pick(n)[n]]
           Turn(r) == [k \in Nat |-> IF k = 0 THEN x ELSE F[r[k - 1]]]
<1>1. ASSUME NEW n \in Nat PROVE pick(n) \in Beginnings(F, x, n)
  BY BeginningsExist
<1>2. ASSUME NEW n \in Nat PROVE after[n] = pick(n)[n] /\ after[n] \in X
  <2>1. after[n] = pick(n)[n]
    OBVIOUS
  <2>2. pick(n) \in Beginnings(F, x, n)
    BY <1>1
  <2> HIDE DEF pick, after
  <2>3. pick(n) \in [0 .. n -> X] /\ n \in 0 .. n
    BY <2>2 DEF Beginnings
  <2> QED
    BY <2>1, <2>3
<1>3. after[0] = x
  <2>1. pick(0) \in Beginnings(F, x, 0) /\ after[0] = pick(0)[0]
    BY <1>1, <1>2
  <2> HIDE DEF pick, after
  <2> QED
    BY <2>1 DEF Beginnings
<1>4. ASSUME NEW n \in Nat, n # 0 PROVE after[n] = F[after[n - 1]]
  <2>1. n - 1 \in Nat
    BY <1>4
  <2>2. pick(n)[n - 1] = pick(n - 1)[n - 1]
    <3> HIDE DEF pick
    <3> QED BY <1>1, <2>1, BeginningsAgree
  <2>3. pick(n)[n - 1 + 1] = F[pick(n)[n - 1]]
    <3>1. pick(n) \in Beginnings(F, x, n)
      BY <1>1
    <3> HIDE DEF pick
    <3> QED BY <3>1, <2>1 DEF Beginnings
  <2>4. after[n] = pick(n)[n] /\ after[n - 1] = pick(n - 1)[n - 1]
    BY <1>2, <2>1
  <2> HIDE DEF pick, after
  <2>5. n - 1 + 1 = n
    BY <2>1
  <2> QED
    BY <2>2, <2>3, <2>4, <2>5
<1>5. after = Turn(after)
  <2>1. ASSUME NEW n \in Nat PROVE after[n] = Turn(after)[n]
    <3>1. Turn(after)[n] = IF n = 0 THEN x ELSE F[after[n - 1]]
      OBVIOUS
    <3> HIDE DEF after, Turn
    <3> QED BY <3>1, <1>3, <1>4
  <2>2. after = [n \in Nat |-> after[n]]
    OBVIOUS
  <2>3. Turn(after) = [n \in Nat |-> Turn(after)[n]]
    OBVIOUS
  <2> HIDE DEF after, Turn
  <2> QED BY <2>1, <2>2, <2>3
<1>6. Runs(F, x) = CHOOSE r : r = Turn(r)
  BY DEF Runs
<1> DEFINE r == Runs(F, x)
<1>7. r = Turn(r)
  <2> HIDE DEF after, Turn
  <2> QED BY <1>5, <1>6
<1>8. DOMAIN r = Nat /\ r = [n \in Nat |-> r[n]]
  <2>1. DOMAIN Turn(r) = Nat /\ Turn(r) = [n \in Nat |-> Turn(r)[n]]
    OBVIOUS
  <2> HIDE DEF r, Turn
  <2> QED BY <2>1, <1>7
<1>9. r[0] = x
  <2>1. Turn(r)[0] = x
    OBVIOUS
  <2> HIDE DEF r, Turn
  <2> QED BY <2>1, <1>7
<1>10. ASSUME NEW k \in Nat PROVE r[k + 1] = F[r[k]]
  <2>1. Turn(r)[k + 1] = F[r[k + 1 - 1]]
    <3> HIDE DEF r
    <3> QED OBVIOUS
  <2>2. k + 1 - 1 = k
    OBVIOUS
  <2> HIDE DEF r, Turn
  <2> QED BY <2>1, <2>2, <1>7
<1> HIDE DEF r
<1> DEFINE Bad == {k \in Nat : r[k] \notin X}
<1>11. ASSUME Bad # {} PROVE FALSE
  <2>1. PICK k \in Bad : \A j \in Bad : k <= j
    BY <1>11, LeastNumber
  <2>2. k # 0
    BY <1>9
  <2>3. k - 1 \in Nat /\ k - 1 \notin Bad
    BY <2>1, <2>2
  <2>4. r[k - 1 + 1] = F[r[k - 1]]
    BY <2>3, <1>10
  <2>5. k - 1 + 1 = k
    OBVIOUS
  <2> QED
    BY <2>3, <2>4, <2>5
<1>12. r \in [Nat -> X]
  BY <1>8, <1>11
<1> QED
  BY <1>9, <1>10, <1>12 DEF r

\* What every turn keeps, the loop keeps.
LEMMA RunsKeep ==
  ASSUME NEW X, NEW F \in [X -> X], NEW I \in SUBSET X, NEW x \in I,
         \A s \in I : F[s] \in I
  PROVE  /\ Runs(F, x)[0] = x
         /\ \A k \in Nat : Runs(F, x)[k] \in I /\ Runs(F, x)[k + 1] = F[Runs(F, x)[k]]
<1> DEFINE r == Runs(F, x)
           Bad == {k \in Nat : r[k] \notin I}
<1>1. r[0] = x /\ \A k \in Nat : r[k + 1] = F[r[k]]
  <2>1. x \in X
    OBVIOUS
  <2> QED
    BY <2>1, RunsStepByStep
<1> HIDE DEF r
<1>2. ASSUME Bad # {} PROVE FALSE
  <2>1. PICK k \in Bad : \A j \in Bad : k <= j
    BY <1>2, LeastNumber
  <2>2. k # 0
    BY <1>1
  <2>3. k - 1 \in Nat /\ k - 1 \notin Bad
    BY <2>1, <2>2
  <2>4. r[k - 1 + 1] = F[r[k - 1]]
    BY <2>3, <1>1
  <2>5. k - 1 + 1 = k
    OBVIOUS
  <2> QED
    BY <2>3, <2>4, <2>5
<1> QED
  BY <1>1, <1>2 DEF r

\* A loop whose turns lessen a number has stopped when its turns are as many.
LEMMA RunsStop ==
  ASSUME NEW X, NEW F \in [X -> X], NEW I \in SUBSET X, NEW x \in I,
         NEW v \in [X -> Nat],
         \A s \in I : F[s] \in I /\ (F[s] = s \/ v[F[s]] < v[s]),
         NEW n \in Nat, v[x] <= n
  PROVE  F[Runs(F, x)[n]] = Runs(F, x)[n]
<1> DEFINE r == Runs(F, x)
<1>1. r[0] = x /\ \A k \in Nat : r[k + 1] = F[r[k]]
  BY RunsKeep
<1>2. \A k \in Nat : r[k] \in I
  BY RunsKeep
<1> DEFINE Bad == {k \in Nat : F[r[k]] # r[k] /\ ~(v[r[k]] + k <= v[x])}
<1> HIDE DEF r
<1>3. \A k \in Nat : v[r[k]] \in Nat
  BY <1>2
<1>4. v[x] \in Nat
  OBVIOUS
<1>5. ASSUME Bad # {} PROVE FALSE
  <2>1. PICK k \in Bad : \A j \in Bad : k <= j
    BY <1>5, LeastNumber
  <2>2. k # 0
    BY <1>1, <1>4
  <2>3. k - 1 \in Nat /\ k - 1 \notin Bad
    BY <2>1, <2>2
  <2>4. r[k] = F[r[k - 1]]
    <3>1. r[k - 1 + 1] = F[r[k - 1]]
      BY <2>3, <1>1
    <3>2. k - 1 + 1 = k
      OBVIOUS
    <3> QED BY <3>1, <3>2
  <2>5. F[r[k - 1]] # r[k - 1]
    BY <2>4, <2>1
  <2>6. v[r[k - 1]] + (k - 1) <= v[x]
    BY <2>3, <2>5
  <2>7. v[r[k]] < v[r[k - 1]]
    BY <2>3, <2>4, <2>5, <1>2
  <2>8. v[r[k]] + k <= v[x]
    BY <2>3, <2>6, <2>7, <1>3, <1>4
  <2> QED
    BY <2>8
<1>6. F[r[n]] = r[n] \/ v[r[n]] + n <= v[x]
  BY <1>5
<1>7. CASE v[r[n]] + n <= v[x]
  <2>1. v[r[n]] = 0
    BY <1>3, <1>4, <1>7
  <2>2. F[r[n]] = r[n] \/ v[F[r[n]]] < v[r[n]]
    BY <1>2
  <2>3. v[F[r[n]]] \in Nat
    BY <1>2
  <2> QED
    BY <2>1, <2>2, <2>3 DEF r
<1> QED
  BY <1>6, <1>7 DEF r

-------------------------------------------------------------------------------
\* Less is a strict order of the entries.
LEMMA LessIsAnOrder ==
  ASSUME NEW a \in Entries, NEW b \in Entries, NEW c \in Entries
  PROVE  /\ ~Less(a, a)
         /\ Less(a, b) => ~Less(b, a)
         /\ ~Less(a, b) /\ ~Less(b, c) => ~Less(a, c)
BY DEF Less, Entries

LEMMA Halves ==
  ASSUME NEW m \in Nat, m >= 2
  PROVE  /\ m \div 2 \in Nat /\ 1 <= m \div 2 /\ m \div 2 < m
         /\ \A n \in Nat : m \div 2 = n <=> m = 2 * n \/ m = 2 * n + 1
OBVIOUS

LEMMA ExchangedIsASequence ==
  ASSUME NEW heap \in Seq(Entries), NEW m \in 1 .. Len(heap), NEW n \in 1 .. Len(heap)
  PROVE  /\ Exchanged(heap, m, n) \in Seq(Entries)
         /\ Len(Exchanged(heap, m, n)) = Len(heap)
         /\ \A i \in 1 .. Len(heap) : heap[i] \in Entries
         /\ \A i \in 1 .. Len(heap) :
              Exchanged(heap, m, n)[i] =
                IF i = n THEN heap[m] ELSE IF i = m THEN heap[n] ELSE heap[i]
BY DEF Exchanged

\* No entry is less than a son of its.
HeapOrder(heap) == \A m \in 2 .. Len(heap) : ~Less(heap[m \div 2], heap[m])

\* Only the entry on its way down, at n, may be less than its sons; what comes
\* up in its place is not less than they are.
DownOrder == {s \in OnTheWay :
  \A m \in 2 .. Len(s[1]) :
    IF m \div 2 = s[2]
      THEN s[2] > 1 => ~Less(s[1][s[2] \div 2], s[1][m])
      ELSE ~Less(s[1][m \div 2], s[1][m])}

LEMMA GreaterSonIsASon ==
  ASSUME NEW s \in OnTheWay, 2 * s[2] <= Len(s[1])
  PROVE  /\ GreaterSon(s[1], s[2]) \in 2 .. Len(s[1])
         /\ GreaterSon(s[1], s[2]) \div 2 = s[2]
         /\ \A m \in 2 .. Len(s[1]) :
              m \div 2 = s[2] => ~Less(s[1][GreaterSon(s[1], s[2])], s[1][m])
<1> DEFINE heap == s[1]
           n == s[2]
           son == GreaterSon(heap, n)
<1>1. heap \in Seq(Entries) /\ n \in 1 .. Len(heap) /\ Len(heap) \in Nat
  BY DEF OnTheWay
<1>2. \A i \in 1 .. Len(heap) : heap[i] \in Entries
  BY <1>1
<1>3. son = 2 * n \/ (son = 2 * n + 1 /\ 2 * n + 1 <= Len(heap))
  BY DEF GreaterSon
<1> HIDE DEF heap, n
<1>4. son \in 2 .. Len(heap)
  <2> HIDE DEF son
  <2> QED BY <1>1, <1>3 DEF heap, n
<1>5. son \div 2 = n
  <2> HIDE DEF son
  <2> QED BY <1>1, <1>3
<1>6. ASSUME NEW m \in 2 .. Len(heap), m \div 2 = n
      PROVE  ~Less(heap[son], heap[m])
  <2>1. m = 2 * n \/ m = 2 * n + 1
    BY <1>1, <1>6
  <2>2. m \in 1 .. Len(heap) /\ son \in 1 .. Len(heap)
    <3> HIDE DEF son
    <3> QED BY <1>1, <1>4
  <2>3. CASE m = son
    <3> HIDE DEF son
    <3> QED BY <2>2, <2>3, <1>2, LessIsAnOrder
  <2>4. CASE m # son
    <3>1. CASE son = 2 * n + 1 /\ m = 2 * n
      <4>1. Less(heap[2 * n], heap[2 * n + 1])
        BY <3>1, <1>1 DEF GreaterSon
      <4> HIDE DEF son
      <4> QED BY <4>1, <3>1, <2>2, <1>2, LessIsAnOrder
    <3>2. CASE son = 2 * n /\ m = 2 * n + 1
      BY <3>2, <1>1, <2>2 DEF GreaterSon
    <3> HIDE DEF son
    <3> QED BY <3>1, <3>2, <2>4, <2>1, <1>3
  <2> QED BY <2>3, <2>4
<1> QED
  BY <1>4, <1>5, <1>6 DEF heap, n

LEMMA DownIsAFunction == Down \in [OnTheWay -> OnTheWay]
<1>1. ASSUME NEW s \in OnTheWay PROVE Down[s] \in OnTheWay
  <2>1. s[1] \in Seq(Entries) /\ s[2] \in 1 .. Len(s[1]) /\ Len(s[1]) \in Nat
    BY DEF OnTheWay
  <2>2. CASE 2 * s[2] <= Len(s[1]) /\ Less(s[1][s[2]], s[1][GreaterSon(s[1], s[2])])
    <3> DEFINE son == GreaterSon(s[1], s[2])
    <3>1. Down[s] = <<Exchanged(s[1], s[2], son), son>>
      BY <2>2 DEF Down
    <3>2. son \in 1 .. Len(s[1])
      BY <2>2, <2>1, GreaterSonIsASon
    <3> HIDE DEF son
    <3> QED BY <3>1, <3>2, <2>1, ExchangedIsASequence DEF OnTheWay
  <2>3. CASE ~(2 * s[2] <= Len(s[1]) /\ Less(s[1][s[2]], s[1][GreaterSon(s[1], s[2])]))
    BY <2>3 DEF Down
  <2> QED BY <2>2, <2>3
<1> QED
  BY <1>1 DEF Down

LEMMA DownKeepsDownOrder ==
  ASSUME NEW s \in DownOrder
  PROVE  /\ Down[s] \in DownOrder
         /\ Len(Down[s][1]) = Len(s[1])
         /\ Down[s] = s \/ s[2] < Down[s][2]
<1>1. s \in OnTheWay /\ Down[s] \in OnTheWay
  BY DownIsAFunction DEF DownOrder
<1> DEFINE heap == s[1]
           n == s[2]
           son == GreaterSon(heap, n)
           goes == 2 * n <= Len(heap) /\ Less(heap[n], heap[son])
<1>2. CASE ~goes
  BY <1>1, <1>2 DEF Down
<1>3. CASE goes
  <2>1. Down[s] = <<Exchanged(heap, n, son), son>>
    BY <1>1, <1>3 DEF Down
  <2>2. heap \in Seq(Entries) /\ n \in 1 .. Len(heap) /\ Len(heap) \in Nat
    BY <1>1 DEF OnTheWay
  <2>3. /\ son \in 2 .. Len(heap) /\ son \div 2 = n
        /\ \A m \in 2 .. Len(heap) : m \div 2 = n => ~Less(heap[son], heap[m])
    BY <1>1, <1>3, GreaterSonIsASon
  <2>4. \A m \in 2 .. Len(heap) :
          IF m \div 2 = n THEN n > 1 => ~Less(heap[n \div 2], heap[m])
                          ELSE ~Less(heap[m \div 2], heap[m])
    BY DEF DownOrder
  <2>5. Less(heap[n], heap[son])
    BY <1>3
  <2> DEFINE new == Exchanged(heap, n, son)
  <2> HIDE DEF heap, n, son, goes
  <2>6. son \in 1 .. Len(heap) /\ n < son
    BY <2>2, <2>3, Halves
  <2>7. /\ new \in Seq(Entries) /\ Len(new) = Len(heap)
        /\ \A i \in 1 .. Len(heap) : heap[i] \in Entries
        /\ \A i \in 1 .. Len(heap) :
             new[i] = IF i = son THEN heap[n] ELSE IF i = n THEN heap[son] ELSE heap[i]
    BY <2>2, <2>6, ExchangedIsASequence
  <2> HIDE DEF new
  <2>8. ASSUME NEW m \in 2 .. Len(heap)
        PROVE  IF m \div 2 = son THEN son > 1 => ~Less(new[son \div 2], new[m])
                                 ELSE ~Less(new[m \div 2], new[m])
    <3>1. /\ m \in 1 .. Len(heap) /\ m \div 2 \in 1 .. Len(heap) /\ m \div 2 < m
      BY <2>2, Halves
    <3>2. CASE m \div 2 = son
      <4>1. m # son /\ m # n /\ son # n
        BY <3>1, <3>2, <2>6, <2>2
      <4>2. new[son \div 2] = heap[son] /\ new[m] = heap[m]
        BY <4>1, <2>7, <2>3, <2>2, <3>1
      <4>3. ~Less(heap[son], heap[m])
        BY <3>2, <4>1, <2>4
      <4> QED
        BY <4>2, <4>3, <3>2
    <3>3. CASE m = son
      <4>1. new[m \div 2] = heap[son] /\ new[m] = heap[n]
        BY <3>3, <2>7, <2>3, <2>2, <2>6
      <4>2. ~Less(heap[son], heap[n])
        BY <2>5, <2>7, <2>6, <2>2, LessIsAnOrder
      <4> QED
        BY <4>1, <4>2, <3>3, <3>1
    <3>4. CASE m \div 2 = n /\ m # son
      <4>1. m # n /\ m \div 2 # son
        BY <3>1, <3>4, <2>2, <2>6
      <4>2. new[m \div 2] = heap[son] /\ new[m] = heap[m]
        BY <4>1, <3>4, <3>1, <2>2, <2>7, <2>6
      <4> QED
        BY <4>1, <4>2, <3>4, <2>3
    <3>5. CASE m = n
      <4>1. n > 1 /\ m \div 2 = n \div 2 /\ m \div 2 # n /\ m \div 2 # son
        BY <3>1, <3>5, <2>6, <2>2
      <4>2. new[m \div 2] = heap[n \div 2] /\ new[m] = heap[son]
        BY <4>1, <3>5, <3>1, <2>2, <2>7, <2>6
      <4>3. ~Less(heap[n \div 2], heap[son])
        BY <4>1, <2>4, <2>3
      <4> QED
        BY <4>1, <4>2, <4>3
    <3>6. CASE m \div 2 # son /\ m # son /\ m \div 2 # n /\ m # n
      <4>1. new[m \div 2] = heap[m \div 2] /\ new[m] = heap[m]
        BY <3>6, <3>1, <2>7
      <4> QED
        BY <4>1, <3>6, <2>4
    <3> QED
      BY <3>2, <3>3, <3>4, <3>5, <3>6
  <2>9. Down[s] \in DownOrder
    <3>1. Down[s][1] = new /\ Down[s][2] = son
      BY <2>1 DEF new
    <3> QED
      BY <1>1, <2>7, <2>8, <3>1 DEF DownOrder
  <2> QED
    BY <2>1, <2>6, <2>7, <2>9 DEF new, heap, n
<1> QED
  BY <1>2, <1>3

\* MoveDown leaves the heap in order.
LEMMA MoveDownRestoresOrder ==
  ASSUME NEW s \in DownOrder
  PROVE  /\ MoveDown(s[1], s[2]) \in Seq(Entries)
         /\ Len(MoveDown(s[1], s[2])) = Len(s[1])
         /\ HeapOrder(MoveDown(s[1], s[2]))
<1> DEFINE size == Len(s[1])
           I == {t \in DownOrder : Len(t[1]) = size}
           v == [t \in OnTheWay |-> IF t[2] <= size THEN size - t[2] ELSE 0]
           end == Runs(Down, s)[size]
<1>1. /\ s \in OnTheWay /\ s[1] \in Seq(Entries) /\ size \in Nat /\ s[2] \in 1 .. size
      /\ s = <<s[1], s[2]>>
  BY DEF DownOrder, OnTheWay
<1>2. Down \in [OnTheWay -> OnTheWay] /\ I \in SUBSET OnTheWay /\ s \in I
  BY DownIsAFunction DEF DownOrder
<1>3. v \in [OnTheWay -> Nat]
  BY <1>1 DEF OnTheWay
<1>4. ASSUME NEW t \in I PROVE Down[t] \in I /\ (Down[t] = t \/ v[Down[t]] < v[t])
  <2>1. /\ Down[t] \in DownOrder /\ Len(Down[t][1]) = size
        /\ Down[t] = t \/ t[2] < Down[t][2]
    BY <1>4, DownKeepsDownOrder
  <2>2. t[2] \in 1 .. size /\ Down[t][2] \in 1 .. size /\ t \in OnTheWay /\ Down[t] \in OnTheWay
    BY <2>1 DEF DownOrder, OnTheWay
  <2>3. v[t] = size - t[2] /\ v[Down[t]] = size - Down[t][2]
    BY <2>2
  <2> HIDE DEF v
  <2> QED
    BY <2>1, <2>2, <2>3, <1>1
<1>5. v[s] <= size
  BY <1>1
<1> HIDE DEF I, v, size
<1>6. end \in I /\ Down[end] = end
  <2>1. size \in Nat /\ \A t \in I : Down[t] \in I
    BY <1>1, <1>4
  <2>2. end \in I
    BY <1>2, <2>1, RunsKeep
  <2>3. \A t \in I : Down[t] \in I /\ (Down[t] = t \/ v[Down[t]] < v[t])
    BY <1>4
  <2>4. Down[end] = end
    BY <1>2, <1>3, <1>5, <2>1, <2>3, RunsStop, SMTT(30)
  <2> QED
    BY <2>2, <2>4
<1> HIDE DEF end
<1>7. /\ end \in DownOrder /\ end \in OnTheWay /\ Len(end[1]) = size
      /\ end[1] \in Seq(Entries) /\ end[2] \in 1 .. size
  BY <1>6 DEF I, DownOrder, OnTheWay
<1> DEFINE heap == end[1]
           n == end[2]
           son == GreaterSon(heap, n)
<1>8. ~(2 * n <= Len(heap) /\ Less(heap[n], heap[son]))
  <2>1. CASE 2 * n <= Len(heap) /\ Less(heap[n], heap[son])
    <3>1. Down[end] = <<Exchanged(heap, n, son), son>>
      BY <1>7, <2>1 DEF Down
    <3>2. son \in 2 .. Len(heap) /\ son \div 2 = n
      BY <1>7, <2>1, GreaterSonIsASon
    <3>3. son # n
      BY <1>7, <1>1, <3>2, Halves
    <3> HIDE DEF son
    <3> QED
      BY <3>1, <3>3, <1>6
  <2> QED
    BY <2>1
<1>9. ASSUME NEW m \in 2 .. Len(heap) PROVE ~Less(heap[m \div 2], heap[m])
  <2>1. CASE m \div 2 = n
    <3>1. 2 * n <= Len(heap) /\ m \in 1 .. Len(heap) /\ n \in 1 .. Len(heap)
      BY <1>1, <1>7, <2>1, Halves
    <3>2. son \in 1 .. Len(heap) /\ ~Less(heap[son], heap[m])
      <4>1. /\ son \in 2 .. Len(heap)
            /\ \A k \in 2 .. Len(heap) : k \div 2 = n => ~Less(heap[son], heap[k])
        BY <1>7, <3>1, GreaterSonIsASon
      <4> HIDE DEF heap, n, son
      <4> QED
        BY <4>1, <2>1, <3>1
    <3>3. ~Less(heap[n], heap[son])
      BY <1>8, <3>1
    <3>4. heap[n] \in Entries /\ heap[son] \in Entries /\ heap[m] \in Entries
      BY <1>7, <3>1, <3>2
    <3> HIDE DEF heap, n, son
    <3> QED
      BY <2>1, <3>2, <3>3, <3>4, LessIsAnOrder
  <2>2. CASE m \div 2 # n
    BY <1>7, <2>2 DEF DownOrder
  <2> QED
    BY <2>1, <2>2
<1>10. MoveDown(s[1], s[2]) = heap
  BY <1>1 DEF MoveDown, end, size
<1> QED
  BY <1>7, <1>9, <1>10 DEF HeapOrder, size

-------------------------------------------------------------------------------
\* Only the entry on its way up, at n, may be greater than its ancestor, and
\* that is not less than its sons.
UpOrder == {s \in OnTheWay :
  \A m \in 2 .. Len(s[1]) :
    /\ m # s[2] => ~Less(s[1][m \div 2], s[1][m])
    /\ m \div 2 = s[2] /\ s[2] > 1 => ~Less(s[1][s[2] \div 2], s[1][m])}

LEMMA UpIsAFunction == Up \in [OnTheWay -> OnTheWay]
<1>1. ASSUME NEW s \in OnTheWay PROVE Up[s] \in OnTheWay
  <2>1. s[1] \in Seq(Entries) /\ s[2] \in 1 .. Len(s[1]) /\ Len(s[1]) \in Nat
    BY DEF OnTheWay
  <2>2. CASE s[2] > 1 /\ Less(s[1][s[2] \div 2], s[1][s[2]])
    <3>1. Up[s] = <<Exchanged(s[1], s[2], s[2] \div 2), s[2] \div 2>>
      BY <2>2 DEF Up
    <3>2. s[2] \div 2 \in 1 .. Len(s[1])
      BY <2>1, <2>2, Halves
    <3> QED BY <3>1, <3>2, <2>1, ExchangedIsASequence DEF OnTheWay
  <2>3. CASE ~(s[2] > 1 /\ Less(s[1][s[2] \div 2], s[1][s[2]]))
    BY <2>3 DEF Up
  <2> QED BY <2>2, <2>3
<1> QED
  BY <1>1 DEF Up

LEMMA UpKeepsUpOrder ==
  ASSUME NEW s \in UpOrder
  PROVE  /\ Up[s] \in UpOrder
         /\ Len(Up[s][1]) = Len(s[1])
         /\ Up[s] = s \/ Up[s][2] < s[2]
<1>1. s \in OnTheWay /\ Up[s] \in OnTheWay
  BY UpIsAFunction DEF UpOrder
<1> DEFINE heap == s[1]
           n == s[2]
           h == n \div 2
           goes == n > 1 /\ Less(heap[h], heap[n])
<1>2. CASE ~goes
  BY <1>1, <1>2 DEF Up
<1>3. CASE goes
  <2>1. Up[s] = <<Exchanged(heap, n, h), h>>
    BY <1>1, <1>3 DEF Up
  <2>2. heap \in Seq(Entries) /\ n \in 1 .. Len(heap) /\ Len(heap) \in Nat /\ n > 1
    BY <1>1, <1>3 DEF OnTheWay
  <2>3. h \in 1 .. Len(heap) /\ h < n
    BY <2>2, Halves
  <2>4. \A m \in 2 .. Len(heap) :
          /\ m # n => ~Less(heap[m \div 2], heap[m])
          /\ m \div 2 = n /\ n > 1 => ~Less(heap[n \div 2], heap[m])
    BY DEF UpOrder
  <2>5. Less(heap[h], heap[n]) /\ n \div 2 = h
    BY <1>3
  <2> DEFINE new == Exchanged(heap, n, h)
  <2> HIDE DEF heap, n, h, goes
  <2>6. /\ new \in Seq(Entries) /\ Len(new) = Len(heap)
        /\ \A i \in 1 .. Len(heap) : heap[i] \in Entries
        /\ \A i \in 1 .. Len(heap) :
             new[i] = IF i = h THEN heap[n] ELSE IF i = n THEN heap[h] ELSE heap[i]
    BY <2>2, <2>3, ExchangedIsASequence
  <2> HIDE DEF new
  <2>7. ASSUME NEW m \in 2 .. Len(heap)
        PROVE  /\ m # h => ~Less(new[m \div 2], new[m])
               /\ m \div 2 = h /\ h > 1 => ~Less(new[h \div 2], new[m])
    <3>1. m \in 1 .. Len(heap) /\ m \div 2 \in 1 .. Len(heap) /\ m \div 2 < m
      BY <2>2, Halves
    <3>2. ASSUME m # h PROVE ~Less(new[m \div 2], new[m])
      <4>1. CASE m = n
        <5>1. new[m \div 2] = heap[n] /\ new[m] = heap[h]
          BY <4>1, <2>2, <2>3, <2>5, <2>6
        <5> QED BY <5>1, <2>2, <2>3, <2>5, <2>6, LessIsAnOrder
      <4>2. CASE m # n /\ m \div 2 = h
        <5>1. new[m \div 2] = heap[n] /\ new[m] = heap[m]
          BY <4>2, <3>1, <3>2, <2>2, <2>3, <2>6
        <5>2. ~Less(heap[h], heap[m])
          BY <4>2, <2>4
        <5>3. ~Less(heap[n], heap[h])
          BY <2>2, <2>3, <2>5, <2>6, LessIsAnOrder
        <5> QED BY <5>1, <5>2, <5>3, <3>1, <2>2, <2>3, <2>6, LessIsAnOrder
      <4>3. CASE m \div 2 = n
        <5>1. m # n /\ n # h
          BY <4>3, <3>1, <2>2, <2>3
        <5>2. new[m \div 2] = heap[h] /\ new[m] = heap[m]
          BY <4>3, <5>1, <3>1, <3>2, <2>2, <2>3, <2>6
        <5>3. ~Less(heap[h], heap[m])
          BY <4>3, <2>2, <2>4, <2>5
        <5> QED BY <5>2, <5>3
      <4>4. CASE m # n /\ m \div 2 # h /\ m \div 2 # n
        <5>1. new[m \div 2] = heap[m \div 2] /\ new[m] = heap[m]
          BY <4>4, <3>1, <3>2, <2>6
        <5> QED BY <5>1, <4>4, <2>4
      <4> QED BY <4>1, <4>2, <4>3, <4>4
    <3>3. ASSUME m \div 2 = h, h > 1 PROVE ~Less(new[h \div 2], new[m])
      <4>1. /\ h \div 2 \in 1 .. Len(heap) /\ h \div 2 # h /\ h \div 2 # n
            /\ h \in 2 .. Len(heap) /\ h # n /\ m # h
        BY <3>1, <3>3, <2>2, <2>3, Halves
      <4>2. new[h \div 2] = heap[h \div 2]
        BY <4>1, <2>6
      <4>3. ~Less(heap[h \div 2], heap[h])
        BY <4>1, <2>4
      <4>4. CASE m = n
        <5>1. new[m] = heap[h]
          BY <4>4, <4>1, <2>2, <2>6
        <5> QED BY <5>1, <4>2, <4>3
      <4>5. CASE m # n
        <5>1. new[m] = heap[m]
          BY <4>5, <4>1, <3>1, <2>6
        <5>2. ~Less(heap[h], heap[m])
          BY <4>5, <3>3, <2>4
        <5> QED BY <5>1, <5>2, <4>1, <4>2, <4>3, <3>1, <2>3, <2>6, LessIsAnOrder
      <4> QED BY <4>4, <4>5
    <3> QED
      BY <3>2, <3>3
  <2>8. Up[s] \in UpOrder
    <3>1. Up[s][1] = new /\ Up[s][2] = h
      BY <2>1 DEF new
    <3> QED
      BY <1>1, <2>6, <2>7, <3>1 DEF UpOrder
  <2> QED
    BY <2>1, <2>3, <2>6, <2>8 DEF new, heap, n
<1> QED
  BY <1>2, <1>3

\* FloatUp leaves the heap in order.
LEMMA FloatUpRestoresOrder ==
  ASSUME NEW s \in UpOrder
  PROVE  /\ FloatUp(s[1], s[2]) \in Seq(Entries)
         /\ Len(FloatUp(s[1], s[2])) = Len(s[1])
         /\ HeapOrder(FloatUp(s[1], s[2]))
<1> DEFINE size == Len(s[1])
           I == {t \in UpOrder : Len(t[1]) = size}
           v == [t \in OnTheWay |-> t[2]]
           end == Runs(Up, s)[s[2]]
<1>1. /\ s \in OnTheWay /\ s[1] \in Seq(Entries) /\ size \in Nat /\ s[2] \in 1 .. size
      /\ s[2] \in Nat /\ s = <<s[1], s[2]>>
  BY DEF UpOrder, OnTheWay
<1>2. Up \in [OnTheWay -> OnTheWay] /\ I \in SUBSET OnTheWay /\ s \in I
  BY UpIsAFunction DEF UpOrder
<1>3. v \in [OnTheWay -> Nat]
  BY <1>1 DEF OnTheWay
<1>4. ASSUME NEW t \in I PROVE Up[t] \in I /\ (Up[t] = t \/ v[Up[t]] < v[t])
  <2>1. /\ Up[t] \in UpOrder /\ Len(Up[t][1]) = size
        /\ Up[t] = t \/ Up[t][2] < t[2]
    BY <1>4, UpKeepsUpOrder
  <2>2. t \in OnTheWay /\ Up[t] \in OnTheWay
    BY <2>1 DEF UpOrder
  <2> QED
    BY <2>1, <2>2
<1>5. v[s] <= s[2]
  BY <1>1
<1> HIDE DEF I, v, size
<1>6. end \in I /\ Up[end] = end
  <2>1. s[2] \in Nat /\ \A t \in I : Up[t] \in I
    BY <1>1, <1>4
  <2>2. end \in I
    BY <1>2, <2>1, RunsKeep
  <2>3. \A t \in I : Up[t] \in I /\ (Up[t] = t \/ v[Up[t]] < v[t])
    BY <1>4
  <2>4. Up[end] = end
    BY <1>2, <1>3, <1>5, <2>1, <2>3, RunsStop, SMTT(30)
  <2> QED
    BY <2>2, <2>4
<1> HIDE DEF end
<1>7. /\ end \in UpOrder /\ end \in OnTheWay /\ Len(end[1]) = size
      /\ end[1] \in Seq(Entries) /\ end[2] \in 1 .. size
  BY <1>6 DEF I, UpOrder, OnTheWay
<1> DEFINE heap == end[1]
           n == end[2]
<1>8. ~(n > 1 /\ Less(heap[n \div 2], heap[n]))
  <2>1. CASE n > 1 /\ Less(heap[n \div 2], heap[n])
    <3>1. Up[end] = <<Exchanged(heap, n, n \div 2), n \div 2>>
      BY <1>7, <2>1 DEF Up
    <3>2. n \div 2 # n
      BY <1>7, <1>1, <2>1, Halves
    <3> QED
      BY <3>1, <3>2, <1>6
  <2> QED
    BY <2>1
<1>9. ASSUME NEW m \in 2 .. Len(heap) PROVE ~Less(heap[m \div 2], heap[m])
  <2>1. CASE m = n
    BY <1>8, <1>1, <1>7, <2>1
  <2>2. CASE m # n
    BY <1>7, <2>2 DEF UpOrder
  <2> QED
    BY <2>1, <2>2
<1>10. FloatUp(s[1], s[2]) = heap
  BY <1>1 DEF FloatUp, end
<1> QED
  BY <1>7, <1>9, <1>10 DEF HeapOrder, size


-------------------------------------------------------------------------------
\* The same entries in some order.
Rearranged(a, b) ==
  /\ Len(a) = Len(b)
  /\ \E p \in Bijection(1 .. Len(a), 1 .. Len(a)) : \A i \in 1 .. Len(a) : b[i] = a[p[i]]

LEMMA RearrangedSame ==
  ASSUME NEW S, NEW a \in Seq(S)
  PROVE  Rearranged(a, a)
<1> DEFINE D == 1 .. Len(a)
           p == [i \in D |-> i]
<1>1. p \in Bijection(D, D)
  BY Fun_IsBij
<1> QED
  BY <1>1 DEF Rearranged

LEMMA RearrangedTwice ==
  ASSUME NEW S, NEW a \in Seq(S), NEW b \in Seq(S), NEW c \in Seq(S),
         Rearranged(a, b), Rearranged(b, c)
  PROVE  Rearranged(a, c)
<1> DEFINE D == 1 .. Len(a)
<1>1. Len(a) = Len(b) /\ Len(b) = Len(c)
  BY DEF Rearranged
<1>2. PICK p \in Bijection(D, D) : \A i \in D : b[i] = a[p[i]]
  BY DEF Rearranged
<1>3. PICK q \in Bijection(D, D) : \A i \in D : c[i] = b[q[i]]
  BY <1>1 DEF Rearranged
<1> DEFINE r == [i \in D |-> p[q[i]]]
<1>4. r \in Bijection(D, D)
  BY Fun_BijTransitive
<1>5. q \in [D -> D]
  BY DEF Bijection, Injection
<1>6. \A i \in D : c[i] = a[r[i]]
  BY <1>2, <1>3, <1>5
<1> HIDE DEF r
<1> QED
  BY <1>1, <1>4, <1>6 DEF Rearranged

LEMMA RearrangedBefore ==
  ASSUME NEW S, NEW a \in Seq(S), NEW b \in Seq(S), NEW c \in Seq(S), Rearranged(a, b)
  PROVE  Rearranged(a \o c, b \o c)
<1> DEFINE n == Len(a)
           D == 1 .. n
           E == 1 .. n + Len(c)
<1>0. Len(a) = Len(b)
  BY DEF Rearranged
<1>1. /\ Len(b) = n /\ n \in Nat /\ Len(c) \in Nat
      /\ Len(a \o c) = n + Len(c) /\ Len(b \o c) = n + Len(c)
  <2>1. Len(a) \in Nat /\ Len(c) \in Nat
    OBVIOUS
  <2>2. Len(a \o c) = Len(a) + Len(c) /\ Len(b \o c) = Len(b) + Len(c)
    OBVIOUS
  <2> QED
    BY ONLY <1>0, <2>1, <2>2
<1>2. PICK p \in Bijection(D, D) : \A i \in D : b[i] = a[p[i]]
  BY DEF Rearranged
<1>3. /\ p \in [D -> D]
      /\ \A i, j \in D : p[i] = p[j] => i = j
      /\ \A i \in D : \E j \in D : p[j] = i
  BY DEF Bijection, Injection, Surjection, IsInjective
<1> DEFINE q == [i \in E |-> IF i <= n THEN p[i] ELSE i]
<1> HIDE DEF n
<1>4. q \in [E -> E]
  BY <1>1, <1>3
<1>5. ASSUME NEW i \in E, NEW j \in E, q[i] = q[j] PROVE i = j
  <2>1. \A k \in E : IF k <= n THEN k \in D /\ q[k] = p[k] /\ q[k] <= n ELSE q[k] = k
    BY <1>1, <1>3
  <2> HIDE DEF q
  <2>2. CASE i <= n
    <3>1. j <= n
      BY <2>1, <2>2, <1>5
    <3> QED BY <2>1, <2>2, <3>1, <1>3, <1>5
  <2>3. CASE ~(i <= n)
    <3>1. ~(j <= n)
      BY <2>1, <2>3, <1>5
    <3> QED BY <2>1, <2>3, <3>1, <1>5
  <2> QED BY <2>2, <2>3
<1>6. \A i \in E : \E j \in E : q[j] = i
  <2> TAKE i \in E
  <2>1. CASE i \in D
    <3>1. PICK j \in D : p[j] = i
      BY <1>3, <2>1
    <3> QED BY <3>1, <1>1
  <2>2. CASE i \notin D
    <3>1. q[i] = i
      BY <2>2, <1>1
    <3> QED BY <3>1
  <2> QED BY <2>1, <2>2
<1>7. q \in Bijection(E, E)
  <2> HIDE DEF q
  <2> QED BY <1>4, <1>5, <1>6, Fun_IsBij
<1>8. \A i \in E : (b \o c)[i] = (a \o c)[q[i]]
  <2> TAKE i \in E
  <2>1. CASE i <= n
    <3>1. i \in D /\ p[i] \in D /\ q[i] = p[i]
      BY <2>1, <1>1, <1>3
    <3>2. (b \o c)[i] = b[i] /\ (a \o c)[p[i]] = a[p[i]]
      BY <3>1, <1>1 DEF n
    <3> QED BY <3>1, <3>2, <1>2
  <2>2. CASE ~(i <= n)
    <3>1. q[i] = i
      BY <2>2
    <3>2. (b \o c)[i] = c[i - n] /\ (a \o c)[i] = c[i - n]
      BY <2>2, <1>1 DEF n
    <3> QED BY <3>1, <3>2
  <2> QED BY <2>1, <2>2
<1> HIDE DEF q
<1> QED
  BY <1>1, <1>7, <1>8 DEF Rearranged

LEMMA RearrangedAround ==
  ASSUME NEW S, NEW a \in Seq(S), NEW b \in Seq(S)
  PROVE  Rearranged(a \o b, b \o a)
<1> DEFINE m == Len(a)
           n == Len(b)
           E == 1 .. m + n
           q == [i \in E |-> IF i <= n THEN m + i ELSE i - n]
<1>1. m \in Nat /\ n \in Nat /\ Len(a \o b) = m + n /\ Len(b \o a) = m + n
  OBVIOUS
<1>2. \A i \in E : (b \o a)[i] = IF i <= n THEN b[i] ELSE a[i - n]
  BY <1>1
<1>3. \A i \in E : (a \o b)[i] = IF i <= m THEN a[i] ELSE b[i - m]
  BY <1>1
<1> HIDE DEF m, n
<1>4. q \in [E -> E]
  BY <1>1
<1>5. \A i, j \in E : q[i] = q[j] => i = j
  BY <1>1
<1>6. \A i \in E : \E j \in E : q[j] = i
  <2> TAKE i \in E
  <2> DEFINE j == IF i <= m THEN n + i ELSE i - m
  <2>1. j \in E /\ q[j] = i
    BY <1>1
  <2> QED BY <2>1
<1>7. q \in Bijection(E, E)
  <2> HIDE DEF q
  <2> QED BY <1>4, <1>5, <1>6, Fun_IsBij
<1>8. \A i \in E : (b \o a)[i] = (a \o b)[q[i]]
  <2> TAKE i \in E
  <2>1. CASE i <= n
    <3>1. PICK k \in E : k = m + i
      BY <2>1, <1>1
    <3>2. q[i] = k /\ k - m = i /\ ~(k <= m)
      BY <3>1, <2>1, <1>1
    <3> HIDE DEF q
    <3>3. (b \o a)[i] = b[i] /\ (a \o b)[k] = b[k - m]
      BY <3>2, <2>1, <1>2, <1>3
    <3> QED BY <3>2, <3>3
  <2>2. CASE ~(i <= n)
    <3>1. q[i] = i - n /\ i - n \in E /\ i - n <= m
      BY <2>2, <1>1
    <3> HIDE DEF q
    <3>2. (b \o a)[i] = a[i - n]
      BY <2>2, <1>2
    <3>3. (a \o b)[i - n] = a[i - n]
      BY <3>1, <1>3
    <3> QED BY <3>1, <3>2, <3>3
  <2> QED BY <2>1, <2>2
<1> HIDE DEF q
<1> QED
  BY <1>1, <1>7, <1>8 DEF Rearranged, m, n

LEMMA RearrangedAfter ==
  ASSUME NEW S, NEW a \in Seq(S), NEW b \in Seq(S), NEW c \in Seq(S), Rearranged(a, b)
  PROVE  Rearranged(c \o a, c \o b)
<1>1. /\ c \o a \in Seq(S) /\ a \o c \in Seq(S)
      /\ c \o b \in Seq(S) /\ b \o c \in Seq(S)
  OBVIOUS
<1>2. Rearranged(c \o a, a \o c) /\ Rearranged(b \o c, c \o b)
  BY RearrangedAround
<1>3. Rearranged(a \o c, b \o c)
  BY RearrangedBefore
<1>4. Rearranged(c \o a, b \o c)
  BY <1>1, <1>2, <1>3, RearrangedTwice
<1> QED
  BY <1>1, <1>2, <1>4, RearrangedTwice

LEMMA ExchangedRearranges ==
  ASSUME NEW heap \in Seq(Entries), NEW m \in 1 .. Len(heap), NEW n \in 1 .. Len(heap)
  PROVE  Rearranged(heap, Exchanged(heap, m, n))
<1> DEFINE D == 1 .. Len(heap)
           p == [i \in D |-> IF i = n THEN m ELSE IF i = m THEN n ELSE i]
<1>1. p \in [D -> D] /\ \A i, j \in D : p[i] = p[j] => i = j
  OBVIOUS
<1>2. \A i \in D : p[i] \in D /\ p[p[i]] = i
  OBVIOUS
<1>3. p \in Bijection(D, D)
  <2> HIDE DEF p
  <2> QED BY <1>1, <1>2, Fun_IsBij
<1>4. ASSUME NEW i \in D PROVE Exchanged(heap, m, n)[i] = heap[p[i]]
  <2>1. \A k \in D :
          Exchanged(heap, m, n)[k] = IF k = n THEN heap[m] ELSE IF k = m THEN heap[n] ELSE heap[k]
    BY ExchangedIsASequence
  <2>2. p[i] = IF i = n THEN m ELSE IF i = m THEN n ELSE i
    OBVIOUS
  <2> HIDE DEF p
  <2>3. Exchanged(heap, m, n)[i] = IF i = n THEN heap[m] ELSE IF i = m THEN heap[n] ELSE heap[i]
    BY <2>1
  <2> QED BY <2>2, <2>3
<1>5. Len(heap) = Len(Exchanged(heap, m, n))
  BY ExchangedIsASequence
<1> HIDE DEF p
<1> QED
  BY <1>3, <1>4, <1>5 DEF Rearranged

LEMMA MoveDownRearranges ==
  ASSUME NEW s \in OnTheWay
  PROVE  Rearranged(s[1], MoveDown(s[1], s[2]))
<1> DEFINE I == {t \in OnTheWay : Rearranged(s[1], t[1])}
<1>1. /\ s[1] \in Seq(Entries) /\ Len(s[1]) \in Nat /\ s = <<s[1], s[2]>>
  BY DEF OnTheWay
<1>2. s \in I
  BY <1>1, RearrangedSame
<1>3. ASSUME NEW t \in I PROVE Down[t] \in I
  <2> DEFINE heap == t[1]
             n == t[2]
             son == GreaterSon(heap, n)
  <2>1. t \in OnTheWay /\ heap \in Seq(Entries) /\ n \in 1 .. Len(heap) /\ Len(heap) \in Nat
    BY DEF OnTheWay
  <2>2. CASE 2 * n <= Len(heap) /\ Less(heap[n], heap[son])
    <3>1. Down[t] = <<Exchanged(heap, n, son), son>> /\ Down[t] \in OnTheWay
      BY <2>1, <2>2, DownIsAFunction DEF Down
    <3>2. son \in 1 .. Len(heap)
      BY <2>1, <2>2, GreaterSonIsASon
    <3> HIDE DEF son, heap, n
    <3>3. Exchanged(heap, n, son) \in Seq(Entries) /\ Rearranged(heap, Exchanged(heap, n, son))
      BY <2>1, <3>2, ExchangedIsASequence, ExchangedRearranges
    <3>4. Rearranged(s[1], heap)
      BY DEF heap
    <3>5. Rearranged(s[1], Exchanged(heap, n, son))
      BY <1>1, <2>1, <3>3, <3>4, RearrangedTwice
    <3> QED
      BY <3>1, <3>5
  <2>3. CASE ~(2 * n <= Len(heap) /\ Less(heap[n], heap[son]))
    BY <2>1, <2>3 DEF Down
  <2> QED
    BY <2>2, <2>3
<1>4. Runs(Down, s)[Len(s[1])] \in I
  <2>1. I \in SUBSET OnTheWay
    OBVIOUS
  <2> HIDE DEF I
  <2> QED
    BY <2>1, <1>1, <1>2, <1>3, DownIsAFunction, RunsKeep
<1> QED
  BY <1>1, <1>4 DEF MoveDown

LEMMA FloatUpRearranges ==
  ASSUME NEW s \in OnTheWay
  PROVE  Rearranged(s[1], FloatUp(s[1], s[2]))
<1> DEFINE I == {t \in OnTheWay : Rearranged(s[1], t[1])}
<1>1. /\ s[1] \in Seq(Entries) /\ s[2] \in Nat /\ s = <<s[1], s[2]>>
  BY DEF OnTheWay
<1>2. s \in I
  BY <1>1, RearrangedSame
<1>3. ASSUME NEW t \in I PROVE Up[t] \in I
  <2> DEFINE heap == t[1]
             n == t[2]
             h == n \div 2
  <2>1. t \in OnTheWay /\ heap \in Seq(Entries) /\ n \in 1 .. Len(heap) /\ Len(heap) \in Nat
    BY DEF OnTheWay
  <2>2. CASE n > 1 /\ Less(heap[h], heap[n])
    <3>1. Up[t] = <<Exchanged(heap, n, h), h>> /\ Up[t] \in OnTheWay
      BY <2>1, <2>2, UpIsAFunction DEF Up
    <3>2. h \in 1 .. Len(heap)
      BY <2>1, <2>2, Halves
    <3> HIDE DEF h, heap, n
    <3>3. Exchanged(heap, n, h) \in Seq(Entries) /\ Rearranged(heap, Exchanged(heap, n, h))
      BY <2>1, <3>2, ExchangedIsASequence, ExchangedRearranges
    <3>4. Rearranged(s[1], heap)
      BY DEF heap
    <3>5. Rearranged(s[1], Exchanged(heap, n, h))
      BY <1>1, <2>1, <3>3, <3>4, RearrangedTwice
    <3> QED
      BY <3>1, <3>5
  <2>3. CASE ~(n > 1 /\ Less(heap[h], heap[n]))
    BY <2>1, <2>3 DEF Up
  <2> QED
    BY <2>2, <2>3
<1>4. Runs(Up, s)[s[2]] \in I
  <2>1. I \in SUBSET OnTheWay
    OBVIOUS
  <2> HIDE DEF I
  <2> QED
    BY <2>1, <1>1, <1>2, <1>3, UpIsAFunction, RunsKeep
<1> QED
  BY <1>1, <1>4 DEF FloatUp


-------------------------------------------------------------------------------
\* The top is the farthest of the heap: no entry on the way from it down to an
\* entry is less than the next.
LEMMA NoneIsAboveTheTop ==
  ASSUME NEW heap \in Seq(Entries), HeapOrder(heap)
  PROVE  \A i \in 1 .. Len(heap) : ~Less(top(heap), heap[i])
<1> DEFINE Bad == {i \in 1 .. Len(heap) : Less(heap[1], heap[i])}
<1> SUFFICES ASSUME Bad # {} PROVE FALSE
  BY DEF top
<1>1. PICK m \in Bad : \A j \in Bad : m <= j
  <2>1. Bad \subseteq Nat
    OBVIOUS
  <2> HIDE DEF Bad
  <2> QED BY <2>1, LeastNumber
<1>2. \A i \in 1 .. Len(heap) : heap[i] \in Entries
  OBVIOUS
<1>3. m \in 1 .. Len(heap) /\ Less(heap[1], heap[m]) /\ 1 \in 1 .. Len(heap)
  OBVIOUS
<1>4. m # 1
  BY <1>2, <1>3, LessIsAnOrder
<1>5. m \in 2 .. Len(heap) /\ m \div 2 \in 1 .. Len(heap) /\ m \div 2 < m
  BY <1>3, <1>4, Halves
<1>6. m \div 2 \notin Bad
  BY <1>1, <1>5
<1>7. ~Less(heap[1], heap[m \div 2])
  BY <1>5, <1>6
<1>8. ~Less(heap[m \div 2], heap[m])
  BY <1>5 DEF HeapOrder
<1> HIDE DEF Bad
<1> QED
  BY <1>2, <1>3, <1>5, <1>7, <1>8, LessIsAnOrder

LEMMA LessIsNotNearer ==
  ASSUME NEW a \in Entries, NEW b \in Entries, ~Less(a, b)
  PROVE  b.dist <= a.dist
BY DEF Less, Entries

\* MANUAL_HEAP::push keeps the heap in order and loses nothing while there is room.
THEOREM PushKeepsTheHeap ==
  ASSUME NEW heap \in Seq(Entries), HeapOrder(heap), NEW entry \in Entries, k_nearest \in Nat
  PROVE  /\ push(heap, entry) \in Seq(Entries) /\ HeapOrder(push(heap, entry))
         /\ Len(heap) < cap => Rearranged(Append(heap, entry), push(heap, entry))
<1>1. CASE Len(heap) >= cap
  BY <1>1 DEF push, cap
<1>2. CASE ~(Len(heap) >= cap)
  <2> DEFINE new == Append(heap, entry)
             n == Len(heap) + 1
             s == <<new, n>>
  <2>1. push(heap, entry) = FloatUp(new, n)
    BY <1>2 DEF push
  <2>2. /\ new \in Seq(Entries) /\ Len(heap) \in Nat /\ Len(new) = n /\ n \in 1 .. Len(new)
        /\ \A i \in 1 .. Len(heap) : new[i] = heap[i]
    OBVIOUS
  <2>3. s \in OnTheWay /\ s[1] = new /\ s[2] = n
    BY <2>2 DEF OnTheWay
  <2> HIDE DEF new, s
  <2>4. s \in UpOrder
    <3>1. ASSUME NEW m \in 2 .. Len(new)
          PROVE  /\ m # n => ~Less(new[m \div 2], new[m])
                 /\ m \div 2 # n
      <4>1. m \div 2 \in Nat /\ 1 <= m \div 2 /\ m \div 2 < m
        BY Halves
      <4>2. ASSUME m # n PROVE ~Less(new[m \div 2], new[m])
        <5>1. m \in 2 .. Len(heap) /\ m \div 2 \in 1 .. Len(heap) /\ m \in 1 .. Len(heap)
          BY <4>1, <4>2, <2>2
        <5>2. new[m] = heap[m] /\ new[m \div 2] = heap[m \div 2]
          BY <5>1, <2>2
        <5> QED BY <5>1, <5>2 DEF HeapOrder
      <4> QED BY <4>1, <4>2, <2>2
    <3> QED
      BY <2>3, <3>1 DEF UpOrder
  <2>5. FloatUp(new, n) \in Seq(Entries) /\ HeapOrder(FloatUp(new, n))
    BY <2>3, <2>4, FloatUpRestoresOrder
  <2>6. Rearranged(new, FloatUp(new, n))
    BY <2>3, FloatUpRearranges
  <2> QED
    BY <2>1, <2>5, <2>6 DEF new
<1> QED
  BY <1>1, <1>2

\* MANUAL_HEAP::pop takes the top out and nothing else, and keeps the heap in order.
THEOREM PopTakesTheTop ==
  ASSUME NEW heap \in Seq(Entries), HeapOrder(heap), heap # <<>>
  PROVE  /\ pop(heap) \in Seq(Entries) /\ HeapOrder(pop(heap))
         /\ top(heap) \in Entries
         /\ Rearranged(heap, pop(heap) \o <<top(heap)>>)
<1> DEFINE size == Len(heap)
           moved == Exchanged(heap, 1, size)
           rest == SubSeq(moved, 1, size - 1)
           s == <<rest, 1>>
<1>1. /\ size \in Nat /\ 1 \in 1 .. size /\ size \in 1 .. size
      /\ top(heap) = heap[1] /\ heap[1] \in Entries /\ heap[size] \in Entries
  BY DEF top
<1>2. /\ moved \in Seq(Entries) /\ Len(moved) = size
      /\ \A i \in 1 .. size :
           moved[i] = IF i = size THEN heap[1] ELSE IF i = 1 THEN heap[size] ELSE heap[i]
  <2> HIDE DEF size
  <2>1. 1 \in 1 .. Len(heap) /\ size \in 1 .. Len(heap)
    BY <1>1 DEF size
  <2>2. moved \in Seq(Entries) /\ Len(moved) = Len(heap)
    BY <2>1, ExchangedIsASequence
  <2>3. \A i \in 1 .. Len(heap) :
          moved[i] = IF i = size THEN heap[1] ELSE IF i = 1 THEN heap[size] ELSE heap[i]
    BY <2>1, ExchangedIsASequence
  <2> QED
    BY <2>2, <2>3 DEF size
<1>3. rest = Front([heap EXCEPT ![1] = Last(heap)])
  <2> DEFINE first == [heap EXCEPT ![1] = Last(heap)]
  <2>1. /\ first \in Seq(Entries) /\ Len(first) = size
        /\ \A i \in 1 .. size : first[i] = IF i = 1 THEN heap[size] ELSE heap[i]
    BY <1>1 DEF Last
  <2>2. Front(first) = SubSeq(first, 1, size - 1)
    BY <2>1 DEF Front
  <2>3. \A i \in 1 .. size - 1 : first[i] = moved[i]
    <3> HIDE DEF first, moved, size
    <3> QED BY <1>1, <1>2, <2>1
  <2>4. SubSeq(first, 1, size - 1) = SubSeq(moved, 1, size - 1)
    <3> HIDE DEF first, moved, size
    <3>1. /\ SubSeq(first, 1, size - 1) = [i \in 1 .. size - 1 |-> first[i]]
          /\ SubSeq(moved, 1, size - 1) = [i \in 1 .. size - 1 |-> moved[i]]
      BY <1>1, <1>2, <2>1
    <3> QED BY <3>1, <2>3
  <2> QED
    BY <2>2, <2>4
<1>4. /\ rest \in Seq(Entries) /\ Len(rest) = size - 1
      /\ \A i \in 1 .. size - 1 : rest[i] = moved[i]
  <2> HIDE DEF moved, size
  <2> QED BY <1>1, <1>2
<1>5. moved = rest \o <<top(heap)>>
  <2> HIDE DEF moved, size, rest
  <2>1. rest \o <<top(heap)>> \in Seq(Entries) /\ Len(rest \o <<top(heap)>>) = size
    BY <1>1, <1>4
  <2>2. \A i \in 1 .. size : (rest \o <<top(heap)>>)[i] = moved[i]
    BY <1>1, <1>2, <1>4
  <2> QED
    BY <2>1, <2>2, <1>2, SeqEqual
<1>6. Rearranged(heap, moved)
  BY <1>1, ExchangedRearranges
<1>7. pop(heap) = IF rest = <<>> THEN rest ELSE MoveDown(rest, 1)
  <2> HIDE DEF rest
  <2> QED BY <1>3 DEF pop
<1> HIDE DEF size, moved, rest, s
<1>8. CASE rest = <<>>
  <2>1. pop(heap) = <<>>
    BY <1>7, <1>8
  <2>2. HeapOrder(<<>>)
    BY DEF HeapOrder
  <2> QED
    BY <2>1, <2>2, <1>1, <1>5, <1>6, <1>8
<1>9. CASE rest # <<>>
  <2>1. pop(heap) = MoveDown(rest, 1)
    BY <1>7, <1>9
  <2>2. s \in OnTheWay /\ s[1] = rest /\ s[2] = 1
    BY <1>4, <1>9 DEF OnTheWay, s
  <2>3. s \in DownOrder
    <3>1. ASSUME NEW m \in 2 .. Len(rest), m \div 2 # 1
          PROVE  ~Less(rest[m \div 2], rest[m])
      <4>1. m \div 2 \in Nat /\ 1 <= m \div 2 /\ m \div 2 < m
        BY Halves
      <4>2. /\ m \div 2 \in 1 .. size - 1 /\ m \in 1 .. size - 1 /\ m \in 2 .. size
            /\ m # size /\ m # 1 /\ m \div 2 # size
        BY <4>1, <1>1, <1>4
      <4>3. rest[m] = heap[m] /\ rest[m \div 2] = heap[m \div 2]
        BY <4>2, <3>1, <1>1, <1>2, <1>4
      <4> QED
        BY <4>2, <4>3 DEF HeapOrder, size
    <3> QED
      BY <2>2, <3>1 DEF DownOrder
  <2>4. MoveDown(rest, 1) \in Seq(Entries) /\ HeapOrder(MoveDown(rest, 1))
    BY <2>2, <2>3, MoveDownRestoresOrder
  <2>5. Rearranged(rest, MoveDown(rest, 1))
    BY <2>2, MoveDownRearranges
  <2> DEFINE last == <<top(heap)>>
             down == MoveDown(rest, 1)
  <2>6. last \in Seq(Entries) /\ down \in Seq(Entries) /\ Rearranged(rest, down)
    BY <2>4, <2>5, <1>1
  <2>7. moved = rest \o last
    BY <1>5
  <2> HIDE DEF last, down
  <2>8. Rearranged(rest \o last, down \o last)
    BY <2>6, <1>4, RearrangedBefore
  <2>9. down \o last \in Seq(Entries)
    BY <2>6
  <2>10. Rearranged(moved, down \o last)
    BY <2>7, <2>8
  <2>11. Rearranged(heap, down \o last)
    BY <2>9, <2>10, <1>2, <1>6, RearrangedTwice
  <2> QED
    BY <2>1, <2>4, <2>11, <1>1 DEF last, down
<1> QED
  BY <1>8, <1>9

-------------------------------------------------------------------------------
LEMMA RearrangedElements ==
  ASSUME NEW S, NEW a \in Seq(S), NEW b \in Seq(S), Rearranged(a, b)
  PROVE  \A i \in 1 .. Len(b) : \E j \in 1 .. Len(a) : b[i] = a[j]
<1>1. Len(a) = Len(b)
  BY DEF Rearranged
<1>2. PICK p \in Bijection(1 .. Len(a), 1 .. Len(a)) : \A i \in 1 .. Len(a) : b[i] = a[p[i]]
  BY DEF Rearranged
<1>3. p \in [1 .. Len(a) -> 1 .. Len(a)]
  BY DEF Bijection, Injection
<1> QED
  BY <1>1, <1>2, <1>3

\* The heap holds the k_nearest of the entries a search has come by, or all of
\* them while they are fewer.
HoldsTheNearest(heap, seen) ==
  /\ Len(heap) <= k_nearest
  /\ \E others \in Seq(Entries) :
       /\ Rearranged(seen, heap \o others)
       /\ others # <<>> => Len(heap) = k_nearest
       /\ \A i \in 1 .. Len(heap), j \in 1 .. Len(others) : heap[i].dist <= others[j].dist

\* Search turns back before a son when the nearest its box can have, at dist, is
\* not Better: no point of the son would have been among the nearest.
THEOREM TurningBackLosesNothing ==
  ASSUME NEW heap \in Seq(Entries), HeapOrder(heap), k_nearest \in Nat \ {0},
         NEW seen \in Seq(Entries), HoldsTheNearest(heap, seen),
         NEW dist \in Int, ~Better(dist, heap),
         NEW rest \in Seq(Entries), \A i \in 1 .. Len(rest) : dist <= rest[i].dist
  PROVE  HoldsTheNearest(heap, seen \o rest)
<1>1. PICK others \in Seq(Entries) :
        /\ Rearranged(seen, heap \o others)
        /\ others # <<>> => Len(heap) = k_nearest
        /\ \A i \in 1 .. Len(heap), j \in 1 .. Len(others) : heap[i].dist <= others[j].dist
  BY DEF HoldsTheNearest
<1>2. Len(heap) = k_nearest /\ ~(dist < top(heap).dist)
  BY DEF Better, HoldsTheNearest
<1>3. /\ heap \o others \in Seq(Entries) /\ others \o rest \in Seq(Entries)
      /\ seen \o rest \in Seq(Entries) /\ (heap \o others) \o rest = heap \o (others \o rest)
  OBVIOUS
<1>4. Rearranged(seen \o rest, heap \o (others \o rest))
  <2>1. Rearranged(seen \o rest, (heap \o others) \o rest)
    BY <1>1, <1>3, RearrangedBefore
  <2> QED
    BY <2>1, <1>3
<1>5. ASSUME NEW i \in 1 .. Len(heap) PROVE heap[i].dist <= dist
  <2>1. heap[i] \in Entries /\ top(heap) \in Entries /\ ~Less(top(heap), heap[i])
    BY NoneIsAboveTheTop DEF top
  <2>2. heap[i].dist <= top(heap).dist /\ heap[i].dist \in Int /\ top(heap).dist \in Int
    BY <2>1, LessIsNotNearer DEF Entries
  <2> QED
    BY <2>2, <1>2
<1>6. ASSUME NEW i \in 1 .. Len(heap), NEW j \in 1 .. Len(others \o rest)
      PROVE  heap[i].dist <= (others \o rest)[j].dist
  <2>1. CASE j \in 1 .. Len(others)
    <3>1. (others \o rest)[j] = others[j]
      BY <2>1
    <3> QED BY <2>1, <3>1, <1>1
  <2>2. CASE j \notin 1 .. Len(others)
    <3>1. j - Len(others) \in 1 .. Len(rest) /\ (others \o rest)[j] = rest[j - Len(others)]
      BY <2>2
    <3>2. rest[j - Len(others)].dist \in Int /\ heap[i].dist \in Int
      <4>1. rest[j - Len(others)] \in Entries /\ heap[i] \in Entries
        BY <3>1
      <4> QED BY <4>1 DEF Entries
    <3>3. dist <= rest[j - Len(others)].dist
      BY <3>1
    <3>4. heap[i].dist <= rest[j - Len(others)].dist
      BY <3>2, <3>3, <1>5
    <3> QED BY <3>1, <3>4
  <2> QED BY <2>1, <2>2
<1> QED
  BY <1>2, <1>3, <1>4, <1>6 DEF HoldsTheNearest

LEMMA NothingIsNearest == HeapOrder(<<>>) /\ (k_nearest \in Nat => HoldsTheNearest(<<>>, <<>>))
<1>1. <<>> \in Seq(Entries) /\ <<>> \o <<>> = <<>> /\ Len(<<>>) = 0
  OBVIOUS
<1>2. Rearranged(<<>>, <<>>)
  BY <1>1, RearrangedSame
<1>3. HeapOrder(<<>>)
  BY <1>1 DEF HeapOrder
<1>4. ASSUME k_nearest \in Nat PROVE HoldsTheNearest(<<>>, <<>>)
  <2> DEFINE none == <<>>
  <2>1. none \in Seq(Entries) /\ none \o none = none /\ Len(none) = 0 /\ Rearranged(none, none)
    BY <1>1, <1>2
  <2>2. ~(none # <<>>)
    OBVIOUS
  <2> HIDE DEF none
  <2>3. /\ \A i \in 1 .. Len(none), j \in 1 .. Len(none) : none[i].dist <= none[j].dist
        /\ Len(none) <= k_nearest /\ Rearranged(none, none \o none)
    BY <2>1, <1>4
  <2>4. HoldsTheNearest(none, none)
    BY <2>1, <2>2, <2>3 DEF HoldsTheNearest
  <2> QED
    BY <2>4 DEF none
<1> QED
  BY <1>3, <1>4

LEMMA OneMore ==
  ASSUME NEW S, NEW a \in Seq(S), NEW e \in S
  PROVE  /\ <<e>> \in Seq(S) /\ Len(<<e>>) = 1 /\ <<e>>[1] = e
         /\ Append(a, e) = a \o <<e>> /\ a \o <<e>> \in Seq(S)
         /\ Len(a) \in Nat /\ Len(a \o <<e>>) = Len(a) + 1
         /\ \A i \in 1 .. Len(a) : (a \o <<e>>)[i] = a[i]
         /\ (a \o <<e>>)[Len(a) + 1] = e
OBVIOUS

LEMMA RearrangedWithin ==
  ASSUME NEW S, NEW all \in Seq(S), NEW heap \in Seq(S), NEW popped \in Seq(S),
         NEW others \in Seq(S), NEW last \in Seq(S),
         Rearranged(all, heap \o others), Rearranged(heap, popped \o last)
  PROVE  Rearranged(all, popped \o (last \o others))
<1>1. /\ heap \o others \in Seq(S) /\ popped \o last \in Seq(S)
      /\ (popped \o last) \o others \in Seq(S)
  OBVIOUS
<1>2. (popped \o last) \o others = popped \o (last \o others)
  OBVIOUS
<1>3. Rearranged(heap \o others, (popped \o last) \o others)
  BY <1>1, RearrangedBefore
<1>4. Rearranged(all, (popped \o last) \o others)
  BY <1>1, <1>3, RearrangedTwice
<1> QED
  BY <1>2, <1>4

\* One entry comes and another goes.
LEMMA RearrangedInPlaceOf ==
  ASSUME NEW S, NEW all \in Seq(S), NEW heap \in Seq(S), NEW popped \in Seq(S),
         NEW new \in Seq(S), NEW others \in Seq(S), NEW one \in Seq(S), NEW last \in Seq(S),
         Rearranged(all, heap \o others), Rearranged(heap, popped \o last),
         Rearranged(popped \o one, new)
  PROVE  Rearranged(all \o one, new \o (last \o others))
<1> DEFINE tail == last \o others
<1>1. tail \in Seq(S)
  OBVIOUS
<1>2. Rearranged(all, popped \o tail)
  BY RearrangedWithin
<1> HIDE DEF tail
<1>3. /\ popped \o tail \in Seq(S) /\ tail \o one \in Seq(S) /\ one \o tail \in Seq(S)
      /\ all \o one \in Seq(S) /\ popped \o one \in Seq(S) /\ new \o tail \in Seq(S)
  BY <1>1
<1>4. /\ (popped \o tail) \o one = popped \o (tail \o one)
      /\ (popped \o one) \o tail = popped \o (one \o tail)
  <2>1. (popped \o tail) \o one = popped \o (tail \o one)
    BY <1>1
  <2>2. (popped \o one) \o tail = popped \o (one \o tail)
    BY <1>1
  <2> QED
    BY <2>1, <2>2
<1>5. popped \o (tail \o one) \in Seq(S) /\ popped \o (one \o tail) \in Seq(S)
  BY <1>3
<1>6. Rearranged(all \o one, popped \o (tail \o one))
  BY <1>2, <1>3, <1>4, RearrangedBefore
<1>7. Rearranged(popped \o (tail \o one), popped \o (one \o tail))
  BY <1>1, <1>3, RearrangedAround, RearrangedAfter
<1>8. Rearranged(all \o one, popped \o (one \o tail))
  BY <1>3, <1>5, <1>6, <1>7, RearrangedTwice
<1>9. Rearranged(popped \o (one \o tail), new \o tail)
  BY <1>1, <1>3, <1>4, RearrangedBefore
<1> QED
  BY <1>3, <1>5, <1>8, <1>9, RearrangedTwice DEF tail

LEMMA PoppedAreNearer ==
  ASSUME NEW heap \in Seq(Entries), HeapOrder(heap), heap # <<>>
  PROVE  /\ Len(pop(heap)) + 1 = Len(heap)
         /\ top(heap).dist \in Int
         /\ \E i \in 1 .. Len(heap) : top(heap) = heap[i]
         /\ \A i \in 1 .. Len(pop(heap)) :
              pop(heap)[i].dist \in Int /\ pop(heap)[i].dist <= top(heap).dist
<1> DEFINE popped == pop(heap)
           t == top(heap)
           both == popped \o <<t>>
<1>1. popped \in Seq(Entries) /\ t \in Entries /\ Rearranged(heap, both)
  BY PopTakesTheTop
<1>2. t = heap[1] /\ 1 \in 1 .. Len(heap)
  BY DEF top
<1>3. ASSUME NEW i \in 1 .. Len(heap) PROVE heap[i].dist \in Int /\ heap[i].dist <= t.dist
  <2>1. heap[i] \in Entries /\ ~Less(t, heap[i])
    BY NoneIsAboveTheTop
  <2> QED BY <2>1, <1>1, LessIsNotNearer DEF Entries
<1> HIDE DEF popped, t
<1>4. /\ both \in Seq(Entries) /\ Len(both) = Len(popped) + 1 /\ Len(popped) \in Nat
      /\ \A i \in 1 .. Len(popped) : both[i] = popped[i]
  BY <1>1, OneMore
<1> HIDE DEF both
<1>5. Len(heap) = Len(both)
  BY <1>1 DEF Rearranged
<1>6. ASSUME NEW i \in 1 .. Len(popped) PROVE popped[i].dist \in Int /\ popped[i].dist <= t.dist
  <2>1. i \in 1 .. Len(both) /\ popped[i] = both[i]
    BY <1>4
  <2>2. PICK j \in 1 .. Len(heap) : both[i] = heap[j]
    BY <2>1, <1>1, <1>4, RearrangedElements
  <2> QED
    BY <2>1, <2>2, <1>3
<1>7. t.dist \in Int
  BY <1>1 DEF Entries
<1> QED
  BY <1>2, <1>4, <1>5, <1>6, <1>7 DEF popped, t

\* Search offers a point: when its distance is Better it is pushed, in the place of
\* the farthest once there are k_nearest.
THEOREM OffersKeepTheNearest ==
  ASSUME NEW heap \in Seq(Entries), HeapOrder(heap), k_nearest \in Nat \ {0},
         NEW seen \in Seq(Entries), HoldsTheNearest(heap, seen),
         NEW point, point[1] \in Int, NEW dist \in Int
  PROVE  LET new == IF Better(dist, heap) THEN Pushed(point, dist, heap) ELSE heap
         IN /\ new \in Seq(Entries) /\ HeapOrder(new)
            /\ HoldsTheNearest(new, Append(seen, PointType_CMP(point[1], dist)))
<1> DEFINE e == PointType_CMP(point[1], dist)
           one == <<e>>
<1>1. e \in Entries /\ e.dist = dist
  BY DEF Entries, PointType_CMP
<1> HIDE DEF e
<1>2. /\ one \in Seq(Entries) /\ Len(one) = 1 /\ one[1] = e
      /\ Append(seen, e) = seen \o one /\ seen \o one \in Seq(Entries)
  BY <1>1, OneMore
<1>3. PICK others \in Seq(Entries) :
        /\ Rearranged(seen, heap \o others)
        /\ others # <<>> => Len(heap) = k_nearest
        /\ \A i \in 1 .. Len(heap), j \in 1 .. Len(others) : heap[i].dist <= others[j].dist
  BY DEF HoldsTheNearest
<1>4. Len(heap) <= k_nearest /\ Len(heap) \in Nat
  BY DEF HoldsTheNearest
<1>5. CASE ~Better(dist, heap)
  <2>1. \A i \in 1 .. Len(one) : dist <= one[i].dist
    BY <1>1, <1>2
  <2> HIDE DEF one
  <2>2. HoldsTheNearest(heap, seen \o one)
    BY <1>2, <1>5, <2>1, TurningBackLosesNothing
  <2> QED
    BY <1>2, <1>5, <2>2 DEF e
<1>6. CASE Better(dist, heap) /\ Len(heap) < k_nearest
  <2> DEFINE new == push(heap, e)
  <2>1. Pushed(point, dist, heap) = new
    BY <1>6, <1>4 DEF Pushed, e
  <2>2. Len(heap) < cap
    BY <1>6, <1>4 DEF cap
  <2>3. new \in Seq(Entries) /\ HeapOrder(new) /\ Rearranged(Append(heap, e), new)
    BY <1>1, <2>2, PushKeepsTheHeap
  <2> HIDE DEF new
  <2>4. others = <<>> /\ heap \o others = heap
    BY <1>3, <1>6, ConcatEmptySeq
  <2>5. /\ Append(heap, e) = heap \o one /\ heap \o one \in Seq(Entries)
        /\ Len(heap \o one) = Len(heap) + 1
    BY <1>1, OneMore
  <2> HIDE DEF one
  <2>6. Rearranged(seen \o one, heap \o one)
    <3>1. Rearranged(seen, heap)
      BY <1>3, <2>4
    <3> QED BY <3>1, <1>2, RearrangedBefore
  <2>7. Rearranged(seen \o one, new)
    <3>1. Rearranged(heap \o one, new)
      BY <2>3, <2>5
    <3> QED BY <3>1, <1>2, <2>3, <2>5, <2>6, RearrangedTwice
  <2>8. Len(new) <= k_nearest
    <3>1. Len(new) = Len(heap \o one)
      BY <2>3, <2>5 DEF Rearranged
    <3> QED BY <3>1, <2>5, <1>4, <1>6
  <2>9. HoldsTheNearest(new, seen \o one)
    <3>1. new \o others = new /\ Len(others) = 0
      BY <2>3, <2>4, ConcatEmptySeq
    <3>2. Rearranged(seen \o one, new \o others) /\ ~(others # <<>>)
      BY <3>1, <2>4, <2>7
    <3>3. \A i \in 1 .. Len(new), j \in 1 .. Len(others) : new[i].dist <= others[j].dist
      BY <3>1
    <3> QED
      BY <3>2, <3>3, <2>8 DEF HoldsTheNearest
  <2> QED
    BY <1>2, <1>6, <2>1, <2>3, <2>9 DEF e
<1>7. CASE Better(dist, heap) /\ Len(heap) = k_nearest
  <2> DEFINE popped == pop(heap)
             new == push(popped, e)
             t == top(heap)
             last == <<t>>
             tail == last \o others
  <2>1. heap # <<>>
    BY <1>7
  <2>2. /\ popped \in Seq(Entries) /\ HeapOrder(popped) /\ t \in Entries
        /\ Rearranged(heap, popped \o last)
    BY <2>1, PopTakesTheTop
  <2>3. dist < t.dist /\ t.dist \in Int
    BY <1>4, <1>7, <2>2 DEF Better, Entries
  <2>4. Pushed(point, dist, heap) = new
    BY <1>4, <1>7 DEF Pushed, e
  <2>5. /\ Len(popped) + 1 = Len(heap)
        /\ \A i \in 1 .. Len(popped) : popped[i].dist \in Int /\ popped[i].dist <= t.dist
    BY <2>1, PoppedAreNearer
  <2>6. t = heap[1] /\ 1 \in 1 .. Len(heap)
    BY <2>1 DEF top
  <2> HIDE DEF popped, t
  <2>7. /\ last \in Seq(Entries) /\ Len(last) = 1 /\ last[1] = t
        /\ Len(popped) \in Nat
    BY <2>2, OneMore
  <2>8. /\ Append(popped, e) = popped \o one /\ popped \o one \in Seq(Entries)
        /\ Len(popped \o one) = Len(popped) + 1
        /\ \A i \in 1 .. Len(popped) : (popped \o one)[i] = popped[i]
        /\ (popped \o one)[Len(popped) + 1] = e
    BY <1>1, <2>2, OneMore
  <2> HIDE DEF one, last
  <2>9. Len(popped) + 1 = k_nearest /\ Len(popped) < cap
    BY <2>5, <2>7, <1>7 DEF cap
  <2>10. new \in Seq(Entries) /\ HeapOrder(new) /\ Rearranged(Append(popped, e), new)
    BY <1>1, <2>2, <2>9, PushKeepsTheHeap
  <2> HIDE DEF new
  <2>11. Rearranged(popped \o one, new)
    BY <2>8, <2>10
  <2>12. Len(new) = k_nearest
    <3>1. Len(new) = Len(popped \o one)
      BY <2>11 DEF Rearranged
    <3> QED BY <3>1, <2>8, <2>9
  <2>13. Rearranged(seen \o one, new \o tail)
    BY <1>2, <1>3, <2>2, <2>7, <2>10, <2>11, RearrangedInPlaceOf
  <2>14. ASSUME NEW i \in 1 .. Len(new) PROVE new[i].dist \in Int /\ new[i].dist <= t.dist
    <3>1. PICK j \in 1 .. Len(popped \o one) : new[i] = (popped \o one)[j]
      <4> DEFINE both == popped \o one
      <4>1. both \in Seq(Entries) /\ Rearranged(both, new)
        BY <2>8, <2>11
      <4> HIDE DEF both
      <4>2. \E j \in 1 .. Len(both) : new[i] = both[j]
        BY <4>1, <2>10, RearrangedElements
      <4> QED BY <4>2 DEF both
    <3>2. CASE j \in 1 .. Len(popped)
      <4>1. new[i] = popped[j]
        BY <3>1, <3>2, <2>8
      <4> QED
        BY <4>1, <3>2, <2>5
    <3>3. CASE j \notin 1 .. Len(popped)
      <4>1. j = Len(popped) + 1
        BY <3>1, <3>3, <2>7, <2>8
      <4> QED
        BY <4>1, <3>1, <1>1, <2>3, <2>8
    <3> QED BY <3>2, <3>3
  <2>15. /\ tail \in Seq(Entries) /\ Len(tail) = 1 + Len(others) /\ Len(others) \in Nat
         /\ \A j \in 1 .. 1 + Len(others) :
              tail[j] = IF j <= 1 THEN last[j] ELSE others[j - 1]
    <3>1. /\ tail \in Seq(Entries) /\ Len(tail) = Len(last) + Len(others)
          /\ \A j \in 1 .. Len(last) + Len(others) :
               tail[j] = IF j <= Len(last) THEN last[j] ELSE others[j - Len(last)]
      BY <2>7, ConcatProperties
    <3> HIDE DEF tail
    <3> QED
      BY <3>1, <2>7
  <2> HIDE DEF tail
  <2>16. ASSUME NEW j \in 1 .. Len(tail) PROVE tail[j].dist \in Int /\ t.dist <= tail[j].dist
    <3>1. CASE j = 1
      <4>1. tail[j] = t
        BY <3>1, <2>7, <2>15
      <4> QED BY <4>1, <2>3
    <3>2. CASE j # 1
      <4>1. j - 1 \in 1 .. Len(others) /\ tail[j] = others[j - 1]
        BY <3>2, <2>15
      <4>2. others[j - 1] \in Entries /\ heap[1].dist <= others[j - 1].dist
        BY <4>1, <2>6, <1>3
      <4> QED BY <4>1, <4>2, <2>6 DEF Entries
    <3> QED BY <3>1, <3>2
  <2>17. ASSUME NEW i \in 1 .. Len(new), NEW j \in 1 .. Len(tail)
         PROVE  new[i].dist <= tail[j].dist
    BY <2>3, <2>14, <2>16
  <2>18. HoldsTheNearest(new, seen \o one)
    BY <2>12, <2>13, <2>15, <2>17 DEF HoldsTheNearest
  <2> QED
    BY <1>2, <1>7, <2>4, <2>10, <2>18 DEF e
<1> QED
  BY <1>4, <1>5, <1>6, <1>7


Ascending(found) == \A i, j \in 1 .. Len(found) : i <= j => found[i].dist <= found[j].dist

\* Between two turns of the loop that empties the heap: what is taken out is in
\* order, and nothing left in the heap is farther.
BeingEmptied(heap) == {s \in Seq(Entries) \X Seq(Entries) :
  /\ HeapOrder(s[1])
  /\ Rearranged(heap, s[1] \o s[2])
  /\ Ascending(s[2])
  /\ \A i \in 1 .. Len(s[1]), j \in 1 .. Len(s[2]) : s[1][i].dist <= s[2][j].dist}

LEMMA PopIsASequence ==
  ASSUME NEW heap \in Seq(Entries), heap # <<>>
  PROVE  pop(heap) \in Seq(Entries)
<1> DEFINE first == [heap EXCEPT ![1] = Last(heap)]
           rest == Front(first)
<1>1. first \in Seq(Entries) /\ Len(first) = Len(heap) /\ Len(heap) \in Nat /\ Len(heap) >= 1
  BY DEF Last
<1>2. rest \in Seq(Entries)
  BY <1>1 DEF Front
<1> HIDE DEF first, rest
<1>3. ASSUME rest # <<>> PROVE MoveDown(rest, 1) \in Seq(Entries)
  <2>1. <<rest, 1>> \in OnTheWay /\ Len(rest) \in Nat
    BY <1>2, <1>3 DEF OnTheWay
  <2>2. Runs(Down, <<rest, 1>>) \in [Nat -> OnTheWay]
    BY <2>1, DownIsAFunction, RunsStepByStep
  <2>3. Runs(Down, <<rest, 1>>)[Len(rest)] \in OnTheWay
    BY <2>1, <2>2
  <2> QED
    BY <2>3 DEF MoveDown, OnTheWay
<1> QED
  BY <1>2, <1>3 DEF pop, first, rest

LEMMA EmptiedIsAFunction ==
  Emptied \in [Seq(Entries) \X Seq(Entries) -> Seq(Entries) \X Seq(Entries)]
<1>1. ASSUME NEW s \in Seq(Entries) \X Seq(Entries), s[1] # <<>>
      PROVE  <<pop(s[1]), <<top(s[1])>> \o s[2]>> \in Seq(Entries) \X Seq(Entries)
  <2>1. s[1] \in Seq(Entries) /\ s[2] \in Seq(Entries) /\ top(s[1]) \in Entries
    BY <1>1 DEF top
  <2>2. <<top(s[1])>> \o s[2] \in Seq(Entries)
    BY <2>1
  <2> QED
    BY <2>1, <2>2, <1>1, PopIsASequence
<1> QED
  BY <1>1 DEF Emptied

LEMMA EmptyingGoesOn ==
  ASSUME NEW heap \in Seq(Entries), NEW s \in BeingEmptied(heap), s[1] # <<>>
  PROVE  Emptied[s] \in BeingEmptied(heap) /\ Len(Emptied[s][1]) + 1 = Len(s[1])
<1> DEFINE h == s[1]
           out == s[2]
           popped == pop(h)
           t == top(h)
           last == <<t>>
           new == last \o out
<1>1. /\ s \in Seq(Entries) \X Seq(Entries) /\ h \in Seq(Entries) /\ out \in Seq(Entries)
      /\ HeapOrder(h) /\ Rearranged(heap, h \o out) /\ Ascending(out)
      /\ \A i \in 1 .. Len(h), j \in 1 .. Len(out) : h[i].dist <= out[j].dist
  BY DEF BeingEmptied
<1>2. Emptied[s] = <<popped, new>> /\ Emptied[s] \in Seq(Entries) \X Seq(Entries)
  BY <1>1, EmptiedIsAFunction DEF Emptied
<1>3. /\ popped \in Seq(Entries) /\ HeapOrder(popped) /\ t \in Entries
      /\ Rearranged(h, popped \o last)
  BY <1>1, PopTakesTheTop
<1>4. /\ Len(popped) + 1 = Len(h) /\ t.dist \in Int
      /\ \E i \in 1 .. Len(h) : t = h[i]
      /\ \A i \in 1 .. Len(popped) : popped[i].dist \in Int /\ popped[i].dist <= t.dist
  BY <1>1, PoppedAreNearer
<1> HIDE DEF h, out, popped, t
<1>5. last \in Seq(Entries) /\ Len(last) = 1 /\ last[1] = t
  BY <1>3, OneMore
<1> HIDE DEF last
<1>6. /\ new \in Seq(Entries) /\ Len(new) = 1 + Len(out) /\ Len(out) \in Nat
      /\ \A j \in 1 .. 1 + Len(out) : new[j] = IF j <= 1 THEN last[j] ELSE out[j - 1]
  <2>1. out \in Seq(Entries)
    BY <1>1
  <2>2. /\ new \in Seq(Entries) /\ Len(new) = Len(last) + Len(out)
        /\ \A j \in 1 .. Len(last) + Len(out) :
             new[j] = IF j <= Len(last) THEN last[j] ELSE out[j - Len(last)]
    BY <2>1, <1>5, ConcatProperties
  <2> HIDE DEF new
  <2> QED
    BY <2>1, <2>2, <1>5
<1>7. Rearranged(heap, popped \o new)
  BY <1>1, <1>3, <1>5, RearrangedWithin
<1> HIDE DEF new
<1>8. ASSUME NEW j \in 1 .. Len(out) PROVE out[j].dist \in Int /\ t.dist <= out[j].dist
  <2>1. out[j] \in Entries
    BY <1>1
  <2> QED
    BY <2>1, <1>1, <1>4 DEF Entries
<1>9. ASSUME NEW j \in 1 .. Len(new)
      PROVE  /\ new[j].dist \in Int /\ t.dist <= new[j].dist
             /\ j # 1 => j - 1 \in 1 .. Len(out) /\ new[j] = out[j - 1]
             /\ j = 1 => new[j] = t
  <2>1. CASE j = 1
    BY <2>1, <1>4, <1>5, <1>6
  <2>2. CASE j # 1
    <3>1. j - 1 \in 1 .. Len(out) /\ new[j] = out[j - 1]
      BY <2>2, <1>6
    <3> QED BY <3>1, <2>2, <1>8
  <2> QED BY <2>1, <2>2
<1>10. Ascending(new)
  <2>1. ASSUME NEW i \in 1 .. Len(new), NEW j \in 1 .. Len(new), i <= j
        PROVE  new[i].dist <= new[j].dist
    <3>1. CASE i = 1
      BY <3>1, <1>9
    <3>2. CASE i # 1
      <4>1. j # 1 /\ i - 1 <= j - 1
        BY <3>2, <2>1, <1>6
      <4>2. /\ i - 1 \in 1 .. Len(out) /\ j - 1 \in 1 .. Len(out)
            /\ new[i] = out[i - 1] /\ new[j] = out[j - 1]
        BY <3>2, <4>1, <1>9
      <4>3. out[i - 1].dist <= out[j - 1].dist
        BY <4>1, <4>2, <1>1 DEF Ascending
      <4> QED BY <4>2, <4>3
    <3> QED BY <3>1, <3>2
  <2> QED
    BY <2>1 DEF Ascending
<1>11. ASSUME NEW i \in 1 .. Len(popped), NEW j \in 1 .. Len(new)
       PROVE  popped[i].dist <= new[j].dist
  BY <1>4, <1>9
<1>12. Emptied[s] \in BeingEmptied(heap)
  BY <1>2, <1>3, <1>7, <1>10, <1>11 DEF BeingEmptied
<1> QED
  BY <1>2, <1>4, <1>12 DEF h

\* Nearest_Search gives the points of its heap, all of them, the nearest first:
\* map_incremental relies on that when it looks at the first.
THEOREM NearestComeFirst ==
  ASSUME NEW heap \in Seq(Entries), HeapOrder(heap), k_nearest \in Nat,
         Len(heap) <= k_nearest
  PROVE  /\ Nearest_Points(heap) \in Seq(Entries)
         /\ Rearranged(heap, Nearest_Points(heap))
         /\ Point_Distance(heap) \in Seq(Int)
         /\ Len(Point_Distance(heap)) = Len(heap)
         /\ \A i, j \in 1 .. Len(heap) :
              i <= j => Point_Distance(heap)[i] <= Point_Distance(heap)[j]
<1> DEFINE X == Seq(Entries) \X Seq(Entries)
           I == BeingEmptied(heap)
           v == [s \in X |-> Len(s[1])]
           start == <<heap, <<>>>>
           end == Runs(Emptied, start)[Len(heap)]
           found == end[2]
<1>1. start \in I
  <2>1. <<>> \in Seq(Entries) /\ Len(<<>>) = 0 /\ Ascending(<<>>)
    BY DEF Ascending
  <2>2. heap \o <<>> = heap /\ Rearranged(heap, heap)
    BY RearrangedSame
  <2>3. start \in X /\ start[1] = heap /\ start[2] = <<>>
    BY <2>1
  <2>4. /\ HeapOrder(start[1]) /\ Rearranged(heap, start[1] \o start[2]) /\ Ascending(start[2])
        /\ Len(start[2]) = 0
    BY <2>1, <2>2, <2>3
  <2> HIDE DEF start
  <2>5. \A i \in 1 .. Len(start[1]), j \in 1 .. Len(start[2]) :
          start[1][i].dist <= start[2][j].dist
    BY <2>4
  <2> QED
    BY <2>3, <2>4, <2>5 DEF BeingEmptied
<1>2. Emptied \in [X -> X] /\ I \in SUBSET X /\ v \in [X -> Nat] /\ Len(heap) \in Nat
  BY EmptiedIsAFunction DEF BeingEmptied
<1>3. ASSUME NEW s \in I
      PROVE  /\ Emptied[s] \in I
             /\ Emptied[s] = s \/ v[Emptied[s]] < v[s]
             /\ Emptied[s] = s => s[1] = <<>>
  <2>1. s \in X
    BY <1>2
  <2>2. CASE s[1] = <<>>
    BY <2>1, <2>2 DEF Emptied
  <2>3. CASE s[1] # <<>>
    <3>1. Emptied[s] \in I /\ Len(Emptied[s][1]) + 1 = Len(s[1])
      BY <2>3, EmptyingGoesOn
    <3>2. Len(Emptied[s][1]) \in Nat /\ Len(s[1]) \in Nat /\ Emptied[s] \in X
      BY <3>1, <2>1, <1>2
    <3>3. Len(Emptied[s][1]) < Len(s[1])
      BY <3>1, <3>2
    <3>4. v[Emptied[s]] < v[s]
      BY <3>2, <3>3, <2>1
    <3> HIDE DEF X, I, v
    <3> QED
      BY <3>1, <3>3, <3>4, <3>2
  <2> QED
    BY <2>2, <2>3
<1>4. v[start] <= Len(heap)
  BY <1>1, <1>2
<1> HIDE DEF X, I, v, start
<1>5. end \in I /\ Emptied[end] = end
  <2>1. \A s \in I : Emptied[s] \in I /\ (Emptied[s] = s \/ v[Emptied[s]] < v[s])
    BY <1>3
  <2>2. \A s \in I : Emptied[s] \in I
    BY <1>3
  <2>3. end \in I
    BY <1>1, <1>2, <2>2, RunsKeep
  <2>4. Emptied[end] = end
    BY <1>1, <1>2, <1>4, <2>1, RunsStop, SMTT(30)
  <2> QED
    BY <2>3, <2>4
<1>6. Nearest_Points(heap) = found
  <2>1. k_found(heap) = Len(heap)
    BY <1>2 DEF k_found
  <2> QED
    BY <2>1 DEF Nearest_Points, start
<1> HIDE DEF end
<1>7. end[1] = <<>>
  BY <1>3, <1>5
<1>8. found \in Seq(Entries) /\ Rearranged(heap, end[1] \o found) /\ Ascending(found)
  BY <1>5 DEF I, BeingEmptied
<1>9. Rearranged(heap, found)
  <2>1. <<>> \o found = found
    BY <1>8
  <2> QED
    BY <1>7, <1>8, <2>1
<1>10. Len(found) = Len(heap) /\ Len(found) \in Nat /\ DOMAIN found = 1 .. Len(heap)
  BY <1>8, <1>9 DEF Rearranged
<1> HIDE DEF found
<1>11. Point_Distance(heap) = [n \in 1 .. Len(heap) |-> found[n].dist]
  BY <1>6, <1>10 DEF Point_Distance
<1>12. \A n \in 1 .. Len(heap) : found[n].dist \in Int
  <2>1. \A n \in 1 .. Len(heap) : found[n] \in Entries
    BY <1>8, <1>10
  <2> QED
    BY <2>1 DEF Entries
<1>13. Point_Distance(heap) \in Seq(Int) /\ Len(Point_Distance(heap)) = Len(heap)
  BY <1>10, <1>11, <1>12
<1>14. ASSUME NEW i \in 1 .. Len(heap), NEW j \in 1 .. Len(heap), i <= j
       PROVE  Point_Distance(heap)[i] <= Point_Distance(heap)[j]
  <2>1. found[i].dist <= found[j].dist
    BY <1>8, <1>10, <1>14 DEF Ascending
  <2> QED
    BY <2>1, <1>11
<1> QED
  BY <1>6, <1>8, <1>9, <1>13, <1>14

-------------------------------------------------------------------------------
(* Nodes, and trees of them.                                               *)

\* The nodes over some trees.
NodesOver(S) ==
  [point : [Axes -> Int], division_axis : Int, left : S, right : S,
   TreeSize : Int, invalid_point_num : Int, down_del_num : Int,
   point_deleted : BOOLEAN, tree_deleted : BOOLEAN,
   point_downsample_deleted : BOOLEAN, tree_downsample_deleted : BOOLEAN,
   need_push_down : [Sides -> BOOLEAN], working_flag : BOOLEAN,
   low : [Axes -> Int], high : [Axes -> Int]]

LEMMA SonsOf ==
  ASSUME NEW S, NEW t \in NodesOver(S)
  PROVE  /\ t["left"] = t.left /\ t["right"] = t.right
         /\ \A side \in Sides : t[side] \in S
BY DEF NodesOver, Sides

LEMMA NilIsNoNode ==
  ASSUME NEW S, NEW t \in NodesOver(S)
  PROVE  t # Nil
<1>1. "point" \in DOMAIN t
  BY DEF NodesOver
<1>2. "point" \notin DOMAIN Nil
  BY DEF Nil
<1> QED BY <1>1, <1>2

\* What Marked, Push_Down, AllDeleted and Update make of a node's fields.
LEMMA MarkedFields ==
  ASSUME NEW S, NEW son \in NodesOver(S), NEW father \in NodesOver(S)
  PROVE  LET m == Marked(son, father)
             ds == son.tree_downsample_deleted \/ father.tree_downsample_deleted
         IN /\ m \in NodesOver(S)
            /\ m.point = son.point /\ m.left = son.left /\ m.right = son.right
            /\ m.low = son.low /\ m.high = son.high
            /\ m.TreeSize = son.TreeSize
            /\ m.need_push_down = [s \in Sides |-> TRUE]
            /\ m.tree_downsample_deleted <=> ds
            /\ m.tree_deleted <=> father.tree_deleted \/ ds
            /\ m.point_downsample_deleted <=>
                 son.point_downsample_deleted \/ father.tree_downsample_deleted
            /\ m.point_deleted <=>
                 father.tree_deleted \/ ds \/ son.point_downsample_deleted
            /\ m.down_del_num =
                 IF father.tree_downsample_deleted THEN son.TreeSize ELSE son.down_del_num
            /\ m.invalid_point_num =
                 IF father.tree_deleted THEN son.TreeSize ELSE m.down_del_num
<1> DEFINE m == Marked(son, father)
           ds == son.tree_downsample_deleted \/ father.tree_downsample_deleted
           pds == son.point_downsample_deleted \/ father.tree_downsample_deleted
           td == father.tree_deleted \/ ds
           pd == father.tree_deleted \/ ds \/ pds
           ddn == IF father.tree_downsample_deleted THEN son.TreeSize ELSE son.down_del_num
           ipn == IF father.tree_deleted THEN son.TreeSize ELSE ddn
<1>1. /\ ds \in BOOLEAN /\ pds \in BOOLEAN /\ td \in BOOLEAN /\ pd \in BOOLEAN
      /\ ddn \in Int /\ ipn \in Int
  BY DEF NodesOver
<1>2. m = [son EXCEPT !.tree_downsample_deleted = ds, !.point_downsample_deleted = pds,
             !.tree_deleted = td, !.point_deleted = pd, !.down_del_num = ddn,
             !.invalid_point_num = ipn, !.need_push_down = [s \in Sides |-> TRUE]]
  BY Zenon DEF Marked
<1>3. /\ (pds <=> son.point_downsample_deleted \/ father.tree_downsample_deleted)
      /\ (td <=> father.tree_deleted \/ ds)
      /\ (pd <=> father.tree_deleted \/ ds \/ son.point_downsample_deleted)
  OBVIOUS
<1> HIDE DEF m, ds, pds, td, pd, ddn, ipn
<1>4. m \in NodesOver(S)
  <2>1. [s \in Sides |-> TRUE] \in [Sides -> BOOLEAN]
    OBVIOUS
  <2> DEFINE need == [s \in Sides |-> TRUE]
  <2> HIDE DEF need
  <2>2. need \in [Sides -> BOOLEAN]
    BY <2>1 DEF need
  <2>3. m = [son EXCEPT !.tree_downsample_deleted = ds, !.point_downsample_deleted = pds,
             !.tree_deleted = td, !.point_deleted = pd, !.down_del_num = ddn,
             !.invalid_point_num = ipn, !.need_push_down = need]
    BY <1>2 DEF need
  <2>4. /\ m.point = son.point /\ m.left = son.left /\ m.right = son.right
      /\ m.low = son.low /\ m.high = son.high /\ m.division_axis = son.division_axis
      /\ m.TreeSize = son.TreeSize /\ m.working_flag = son.working_flag
      /\ m.need_push_down = need
      /\ m.tree_downsample_deleted = ds /\ m.tree_deleted = td
      /\ m.point_downsample_deleted = pds /\ m.point_deleted = pd
      /\ m.down_del_num = ddn /\ m.invalid_point_num = ipn
    BY <1>1, <2>3 DEF NodesOver
  <2>5. m = [point |-> m.point, division_axis |-> m.division_axis, left |-> m.left, right |-> m.right,
   TreeSize |-> m.TreeSize, invalid_point_num |-> m.invalid_point_num, down_del_num |-> m.down_del_num,
   point_deleted |-> m.point_deleted, tree_deleted |-> m.tree_deleted,
   point_downsample_deleted |-> m.point_downsample_deleted, tree_downsample_deleted |-> m.tree_downsample_deleted,
   need_push_down |-> m.need_push_down, working_flag |-> m.working_flag,
   low |-> m.low, high |-> m.high]
    BY <2>3 DEF NodesOver
  <2> QED
    BY <1>1, <2>2, <2>4, <2>5 DEF NodesOver
<1>5. /\ m.point = son.point /\ m.left = son.left /\ m.right = son.right
      /\ m.low = son.low /\ m.high = son.high
      /\ m.TreeSize = son.TreeSize
      /\ m.need_push_down = [s \in Sides |-> TRUE]
      /\ m.tree_downsample_deleted = ds /\ m.tree_deleted = td
      /\ m.point_downsample_deleted = pds /\ m.point_deleted = pd
      /\ m.down_del_num = ddn /\ m.invalid_point_num = ipn
  BY <1>1, <1>2 DEF NodesOver
<1> QED
  BY <1>3, <1>4, <1>5 DEF m, ds, ddn, ipn

LEMMA ReachedFields ==
  ASSUME NEW S, S \subseteq {Nil} \union NodesOver(S), NEW t \in NodesOver(S), NEW side \in Sides
  PROVE  /\ Reached(t, side) \in {Nil} \union NodesOver(S)
         /\ Reached(t, side) = Nil <=> t[side] = Nil
<1>1. t[side] \in {Nil} \union NodesOver(S)
  BY SonsOf
<1>2. CASE Pending(t, side)
  <2>1. t[side] \in NodesOver(S)
    BY <1>1, <1>2 DEF Pending
  <2>2. Marked(t[side], t) \in NodesOver(S)
    BY <2>1, MarkedFields
  <2> QED
    BY <1>2, <2>1, <2>2, NilIsNoNode DEF Reached
<1>3. CASE ~Pending(t, side)
  BY <1>1, <1>3 DEF Reached
<1> QED
  BY <1>2, <1>3

LEMMA PushedFields ==
  ASSUME NEW S, NEW t \in NodesOver(S), NEW R,
         Reached(t, "left") \in R, Reached(t, "right") \in R
  PROVE  LET u == Push_Down(t)
         IN /\ u \in NodesOver(R)
            /\ u.left = Reached(t, "left") /\ u.right = Reached(t, "right")
            /\ u.need_push_down = [s \in Sides |-> t.need_push_down[s] /\ ~Pending(t, s)]
            /\ u.point = t.point /\ u.low = t.low /\ u.high = t.high
            /\ u.TreeSize = t.TreeSize /\ u.invalid_point_num = t.invalid_point_num
            /\ u.point_deleted = t.point_deleted /\ u.tree_deleted = t.tree_deleted
            /\ u.point_downsample_deleted = t.point_downsample_deleted
            /\ u.tree_downsample_deleted = t.tree_downsample_deleted
<1> DEFINE u == Push_Down(t)
           l == Reached(t, "left")
           r == Reached(t, "right")
           need == [s \in Sides |-> t.need_push_down[s] /\ ~Pending(t, s)]
<1>1. need \in [Sides -> BOOLEAN]
  BY DEF NodesOver
<1>2. u = [t EXCEPT !.left = l, !.right = r, !.need_push_down = need]
  BY DEF Push_Down, NodesOver
<1>3. l \in R /\ r \in R
  OBVIOUS
<1>9. need = [s \in Sides |-> t.need_push_down[s] /\ ~Pending(t, s)]
  OBVIOUS
<1> HIDE DEF u, l, r, need
<1>4. /\ u.left = l /\ u.right = r /\ u.need_push_down = need
      /\ u.point = t.point /\ u.low = t.low /\ u.high = t.high
      /\ u.TreeSize = t.TreeSize /\ u.invalid_point_num = t.invalid_point_num
      /\ u.down_del_num = t.down_del_num /\ u.division_axis = t.division_axis
      /\ u.point_deleted = t.point_deleted /\ u.tree_deleted = t.tree_deleted
      /\ u.point_downsample_deleted = t.point_downsample_deleted
      /\ u.tree_downsample_deleted = t.tree_downsample_deleted
      /\ u.working_flag = t.working_flag
  BY <1>1, <1>2 DEF NodesOver
<1>5. u = [point |-> u.point, division_axis |-> u.division_axis, left |-> u.left,
           right |-> u.right, TreeSize |-> u.TreeSize, invalid_point_num |-> u.invalid_point_num,
           down_del_num |-> u.down_del_num, point_deleted |-> u.point_deleted,
           tree_deleted |-> u.tree_deleted,
           point_downsample_deleted |-> u.point_downsample_deleted,
           tree_downsample_deleted |-> u.tree_downsample_deleted,
           need_push_down |-> u.need_push_down, working_flag |-> u.working_flag,
           low |-> u.low, high |-> u.high]
  BY <1>2 DEF NodesOver
<1>6. u \in NodesOver(R)
  BY <1>1, <1>3, <1>4, <1>5 DEF NodesOver
<1> QED
  BY <1>4, <1>6, <1>9 DEF u, l, r

LEMMA DeletedFields ==
  ASSUME NEW S, NEW t \in NodesOver(S), NEW is_downsample \in BOOLEAN
  PROVE  LET u == AllDeleted(t, is_downsample)
         IN /\ u \in NodesOver(S)
            /\ u.left = t.left /\ u.right = t.right
            /\ u.need_push_down = [s \in Sides |-> TRUE]
            /\ u.point = t.point /\ u.low = t.low /\ u.high = t.high
            /\ u.TreeSize = t.TreeSize /\ u.invalid_point_num = t.TreeSize
            /\ u.point_deleted /\ u.tree_deleted
<1> DEFINE u == AllDeleted(t, is_downsample)
           tds == t.tree_downsample_deleted \/ is_downsample
           pds == t.point_downsample_deleted \/ is_downsample
           ddn == IF is_downsample THEN t.TreeSize ELSE t.down_del_num
           need == [s \in Sides |-> TRUE]
<1>1. /\ need \in [Sides -> BOOLEAN] /\ tds \in BOOLEAN /\ pds \in BOOLEAN /\ ddn \in Int
  BY DEF NodesOver
<1>2. u = [t EXCEPT !.tree_deleted = TRUE, !.point_deleted = TRUE, !.need_push_down = need,
            !.invalid_point_num = t.TreeSize, !.tree_downsample_deleted = tds,
            !.point_downsample_deleted = pds, !.down_del_num = ddn]
  BY DEF AllDeleted, NodesOver
<1>9. need = [s \in Sides |-> TRUE]
  OBVIOUS
<1> HIDE DEF u, tds, pds, ddn, need
<1>4. /\ u.left = t.left /\ u.right = t.right /\ u.need_push_down = need
      /\ u.point = t.point /\ u.low = t.low /\ u.high = t.high
      /\ u.TreeSize = t.TreeSize /\ u.invalid_point_num = t.TreeSize
      /\ u.down_del_num = ddn /\ u.division_axis = t.division_axis
      /\ u.point_deleted = TRUE /\ u.tree_deleted = TRUE
      /\ u.point_downsample_deleted = pds
      /\ u.tree_downsample_deleted = tds
      /\ u.working_flag = t.working_flag
  BY <1>1, <1>2 DEF NodesOver
<1>5. u = [point |-> u.point, division_axis |-> u.division_axis, left |-> u.left,
           right |-> u.right, TreeSize |-> u.TreeSize, invalid_point_num |-> u.invalid_point_num,
           down_del_num |-> u.down_del_num, point_deleted |-> u.point_deleted,
           tree_deleted |-> u.tree_deleted,
           point_downsample_deleted |-> u.point_downsample_deleted,
           tree_downsample_deleted |-> u.tree_downsample_deleted,
           need_push_down |-> u.need_push_down, working_flag |-> u.working_flag,
           low |-> u.low, high |-> u.high]
  BY <1>2 DEF NodesOver
<1>6. u \in NodesOver(S)
  BY <1>1, <1>4, <1>5 DEF NodesOver
<1> QED
  BY <1>4, <1>6, <1>9 DEF u

LEMMA LeastAndGreatest ==
  ASSUME NEW a \in Int, NEW b \in Int, NEW c \in Int, NEW X, X \subseteq {a, b, c}, X # {}
  PROVE  /\ Min(X) \in X /\ \A x \in X : Min(X) <= x
         /\ Max(X) \in X /\ \A x \in X : x <= Max(X)
<1>1. \E m \in X : \A x \in X : m <= x
  <2>1. CASE a \in X /\ (b \in X => a <= b) /\ (c \in X => a <= c)
    <3>1. \A x \in X : a <= x BY <2>1
    <3> QED BY <2>1, <3>1
  <2>2. CASE b \in X /\ (a \in X => b <= a) /\ (c \in X => b <= c)
    <3>1. \A x \in X : b <= x BY <2>2
    <3> QED BY <2>2, <3>1
  <2>3. CASE c \in X /\ (a \in X => c <= a) /\ (b \in X => c <= b)
    <3>1. \A x \in X : c <= x BY <2>3
    <3> QED BY <2>3, <3>1
  <2>4. a \in X \/ b \in X \/ c \in X OBVIOUS
  <2>5. \/ a \in X /\ (b \in X => a <= b) /\ (c \in X => a <= c)
        \/ b \in X /\ (a \in X => b <= a) /\ (c \in X => b <= c)
        \/ c \in X /\ (a \in X => c <= a) /\ (b \in X => c <= b)
    BY <2>4
  <2> QED BY <2>1, <2>2, <2>3, <2>5
<1>2. \E m \in X : \A x \in X : m >= x
  <2>1. CASE a \in X /\ (b \in X => a >= b) /\ (c \in X => a >= c)
    <3>1. \A x \in X : a >= x BY <2>1
    <3> QED BY <2>1, <3>1
  <2>2. CASE b \in X /\ (a \in X => b >= a) /\ (c \in X => b >= c)
    <3>1. \A x \in X : b >= x BY <2>2
    <3> QED BY <2>2, <3>1
  <2>3. CASE c \in X /\ (a \in X => c >= a) /\ (b \in X => c >= b)
    <3>1. \A x \in X : c >= x BY <2>3
    <3> QED BY <2>3, <3>1
  <2>4. a \in X \/ b \in X \/ c \in X OBVIOUS
  <2>5. \/ a \in X /\ (b \in X => a >= b) /\ (c \in X => a >= c)
        \/ b \in X /\ (a \in X => b >= a) /\ (c \in X => b >= c)
        \/ c \in X /\ (a \in X => c >= a) /\ (b \in X => c >= b)
    BY <2>4
  <2> QED BY <2>1, <2>2, <2>3, <2>5
<1>3. Min(X) \in X /\ \A x \in X : Min(X) <= x
  BY <1>1 DEF Min
<1>4. Max(X) \in X /\ \A x \in X : Max(X) >= x
  BY <1>2 DEF Max
<1> QED
  BY <1>3, <1>4

\* The range of an updated node holds the range of each son that is counted in,
\* and the node's own point if that is.
LEMMA BoundsHold ==
  ASSUME NEW S, S \subseteq {Nil} \union NodesOver(S), NEW t \in NodesOver(S),
         NEW extents, extents # {},
         \A e \in extents : \/ e = [low |-> t.point, high |-> t.point]
                           \/ \E s \in Sides : t[s] # Nil /\ e = Extent(t[s])
  PROVE  /\ Bounds(extents).low \in [Axes -> Int] /\ Bounds(extents).high \in [Axes -> Int]
         /\ \A e \in extents, k \in Axes :
              Bounds(extents).low[k] <= e.low[k] /\ e.high[k] <= Bounds(extents).high[k]
<1>1. t.point \in [Axes -> Int]
  BY DEF NodesOver
<1>2. ASSUME NEW s \in Sides, t[s] # Nil
      PROVE  t[s].low \in [Axes -> Int] /\ t[s].high \in [Axes -> Int]
  BY <1>2, SonsOf DEF NodesOver
<1>3. ASSUME NEW k \in Axes
      PROVE  LET lows == {e.low[k] : e \in extents}
                 highs == {e.high[k] : e \in extents}
             IN /\ Min(lows) \in Int /\ \A x \in lows : Min(lows) <= x
                /\ Max(highs) \in Int /\ \A x \in highs : x <= Max(highs)
  <2> DEFINE lows == {e.low[k] : e \in extents}
             highs == {e.high[k] : e \in extents}
             Low(s) == IF t[s] = Nil THEN t.point[k] ELSE t[s].low[k]
             High(s) == IF t[s] = Nil THEN t.point[k] ELSE t[s].high[k]
  <2>1. /\ t.point[k] \in Int
        /\ Low("left") \in Int /\ Low("right") \in Int
        /\ High("left") \in Int /\ High("right") \in Int
    BY <1>1, <1>2 DEF Sides
  <2>2. \A e \in extents :
          /\ e.low[k] \in {Low("left"), Low("right"), t.point[k]}
          /\ e.high[k] \in {High("left"), High("right"), t.point[k]}
    BY DEF Sides, Extent
  <2>3. /\ lows \subseteq {Low("left"), Low("right"), t.point[k]} /\ lows # {}
        /\ highs \subseteq {High("left"), High("right"), t.point[k]} /\ highs # {}
    BY <2>2
  <2> HIDE DEF lows, highs, Low, High
  <2>4. /\ Min(lows) \in lows /\ \A x \in lows : Min(lows) <= x
        /\ Max(highs) \in highs /\ \A x \in highs : x <= Max(highs)
    BY <2>1, <2>3, LeastAndGreatest
  <2>5. Min(lows) \in Int /\ Max(highs) \in Int
    BY <2>1, <2>3, <2>4
  <2> QED
    BY <2>4, <2>5 DEF lows, highs
<1>4. /\ Bounds(extents).low = [k \in Axes |-> Min({e.low[k] : e \in extents})]
      /\ Bounds(extents).high = [k \in Axes |-> Max({e.high[k] : e \in extents})]
  BY DEF Bounds
<1>5. ASSUME NEW e \in extents, NEW k \in Axes
      PROVE  Bounds(extents).low[k] <= e.low[k] /\ e.high[k] <= Bounds(extents).high[k]
  <2> DEFINE lows == {f.low[k] : f \in extents}
             highs == {f.high[k] : f \in extents}
  <2>1. e.low[k] \in lows /\ e.high[k] \in highs
    OBVIOUS
  <2>2. Bounds(extents).low[k] = Min(lows) /\ Bounds(extents).high[k] = Max(highs)
    BY <1>4
  <2>3. (\A x \in lows : Min(lows) <= x) /\ (\A x \in highs : x <= Max(highs))
    BY <1>3
  <2> HIDE DEF lows, highs
  <2> QED
    BY <2>1, <2>2, <2>3
<1>6. Bounds(extents).low \in [Axes -> Int] /\ Bounds(extents).high \in [Axes -> Int]
  BY <1>3, <1>4
<1> QED
  BY <1>5, <1>6

LEMMA UpdatedFields ==
  ASSUME NEW S, S \subseteq {Nil} \union NodesOver(S), NEW t \in NodesOver(S)
  PROVE  LET u == Update(t)
             One(b) == IF b THEN 1 ELSE 0
         IN /\ u \in NodesOver(S)
            /\ u.left = t.left /\ u.right = t.right
            /\ u.need_push_down = t.need_push_down /\ u.point = t.point
            /\ u.point_deleted = t.point_deleted
            /\ u.point_downsample_deleted = t.point_downsample_deleted
            /\ u.TreeSize = t.left.TreeSize + t.right.TreeSize + 1
            /\ u.invalid_point_num =
                 t.left.invalid_point_num + t.right.invalid_point_num + One(t.point_deleted)
            /\ u.down_del_num =
                 t.left.down_del_num + t.right.down_del_num + One(t.point_downsample_deleted)
            /\ u.tree_deleted <=>
                 t.point_deleted /\ \A s \in Sides : t[s] # Nil => t[s].tree_deleted
            /\ u.tree_downsample_deleted <=>
                 /\ t.point_downsample_deleted
                 /\ \A s \in Sides : t[s] # Nil => t[s].tree_downsample_deleted
            /\ ~t.point_deleted =>
                 \A k \in Axes : u.low[k] <= t.point[k] /\ t.point[k] <= u.high[k]
            /\ \A s \in Sides : t[s] # Nil /\ ~t[s].tree_deleted =>
                 \A k \in Axes : u.low[k] <= t[s].low[k] /\ t[s].high[k] <= u.high[k]
<1> DEFINE u == Update(t)
           One(b) == IF b THEN 1 ELSE 0
           sons == {t[s] : s \in Sides} \ {Nil}
           own == [low |-> t.point, high |-> t.point]
           td == t.point_deleted /\ \A son \in sons : son.tree_deleted
           tds == t.point_downsample_deleted /\ \A son \in sons : son.tree_downsample_deleted
           extents == {Extent(son) : son \in {n \in sons : td \/ ~n.tree_deleted}}
                      \union {e \in {own} : td \/ ~t.point_deleted}
           size == t.left.TreeSize + t.right.TreeSize + 1
           ipn == t.left.invalid_point_num + t.right.invalid_point_num + One(t.point_deleted)
           ddn == t.left.down_del_num + t.right.down_del_num + One(t.point_downsample_deleted)
           low == Bounds(extents).low
           high == Bounds(extents).high
<1>1. \A s \in Sides : t[s] \in {Nil} \union NodesOver(S)
  BY SonsOf
<1>2. \A s \in Sides : /\ t[s].TreeSize \in Int /\ t[s].invalid_point_num \in Int
                       /\ t[s].down_del_num \in Int
  BY <1>1 DEF Nil, NodesOver
<1>3. size \in Int /\ ipn \in Int /\ ddn \in Int
  BY <1>2, SonsOf DEF Sides
<1>4. td \in BOOLEAN /\ tds \in BOOLEAN
  BY DEF NodesOver
<1>5. \A son : son \in sons <=> \E s \in Sides : t[s] # Nil /\ son = t[s]
  OBVIOUS
<1>6. \A e \in extents : \/ e = [low |-> t.point, high |-> t.point]
                         \/ \E s \in Sides : t[s] # Nil /\ e = Extent(t[s])
  BY <1>5
<1>7. extents # {}
  <2>1. CASE td
    BY <2>1
  <2>2. CASE ~t.point_deleted
    BY <2>2
  <2>3. CASE ~td /\ t.point_deleted
    <3>1. PICK son \in sons : ~son.tree_deleted
      BY <2>3
    <3>2. Extent(son) \in extents
      BY <3>1
    <3> QED BY <3>2
  <2> QED
    BY <2>1, <2>2, <2>3
<1>8. ~t.point_deleted => own \in extents
  OBVIOUS
<1>9. \A s \in Sides : t[s] # Nil /\ ~t[s].tree_deleted => Extent(t[s]) \in extents
  BY <1>5
<1>10. td <=> t.point_deleted /\ \A s \in Sides : t[s] # Nil => t[s].tree_deleted
  BY <1>5
<1>11. tds <=> /\ t.point_downsample_deleted
               /\ \A s \in Sides : t[s] # Nil => t[s].tree_downsample_deleted
  BY <1>5
<1>12. u = [t EXCEPT !.TreeSize = size, !.invalid_point_num = ipn, !.down_del_num = ddn,
             !.tree_downsample_deleted = tds, !.tree_deleted = td, !.low = low, !.high = high]
  BY Zenon DEF Update
<1> HIDE DEF extents
<1>13. /\ low \in [Axes -> Int] /\ high \in [Axes -> Int]
       /\ \A e \in extents, k \in Axes : low[k] <= e.low[k] /\ e.high[k] <= high[k]
  BY <1>6, <1>7, BoundsHold
<1>14. ~t.point_deleted => \A k \in Axes : low[k] <= t.point[k] /\ t.point[k] <= high[k]
  <2>1. own.low = t.point /\ own.high = t.point
    OBVIOUS
  <2> HIDE DEF own, low, high
  <2> QED BY <1>8, <1>13, <2>1
<1>15. \A s \in Sides : t[s] # Nil /\ ~t[s].tree_deleted =>
         \A k \in Axes : low[k] <= t[s].low[k] /\ t[s].high[k] <= high[k]
  <2>1. \A s \in Sides : Extent(t[s]).low = t[s].low /\ Extent(t[s]).high = t[s].high
    BY DEF Extent
  <2> HIDE DEF low, high
  <2> QED BY <1>9, <1>13, <2>1
<1>16. /\ size = t.left.TreeSize + t.right.TreeSize + 1
       /\ ipn = t.left.invalid_point_num + t.right.invalid_point_num + One(t.point_deleted)
       /\ ddn = t.left.down_del_num + t.right.down_del_num + One(t.point_downsample_deleted)
  OBVIOUS
<1> HIDE DEF u, td, tds, size, ipn, ddn, low, high, sons, own
<1>17. /\ u.left = t.left /\ u.right = t.right /\ u.need_push_down = t.need_push_down
       /\ u.point = t.point /\ u.low = low /\ u.high = high
       /\ u.TreeSize = size /\ u.invalid_point_num = ipn
       /\ u.down_del_num = ddn /\ u.division_axis = t.division_axis
       /\ u.point_deleted = t.point_deleted /\ u.tree_deleted = td
       /\ u.point_downsample_deleted = t.point_downsample_deleted
       /\ u.tree_downsample_deleted = tds
       /\ u.working_flag = t.working_flag
  BY <1>12 DEF NodesOver
<1>18. u = [point |-> u.point, division_axis |-> u.division_axis, left |-> u.left,
           right |-> u.right, TreeSize |-> u.TreeSize, invalid_point_num |-> u.invalid_point_num,
           down_del_num |-> u.down_del_num, point_deleted |-> u.point_deleted,
           tree_deleted |-> u.tree_deleted,
           point_downsample_deleted |-> u.point_downsample_deleted,
           tree_downsample_deleted |-> u.tree_downsample_deleted,
           need_push_down |-> u.need_push_down, working_flag |-> u.working_flag,
           low |-> u.low, high |-> u.high]
  BY <1>12 DEF NodesOver
<1>19. u \in NodesOver(S)
  BY <1>3, <1>4, <1>13, <1>17, <1>18 DEF NodesOver
<1> QED
  BY <1>10, <1>11, <1>14, <1>15, <1>16, <1>17, <1>19 DEF u

-------------------------------------------------------------------------------
\* The nodes of a tree along a way, each as it is once the marks above it have come
\* down to it.
Leads(path, t, way) ==
  /\ path = [i \in 0 .. Len(way) |-> path[i]]
  /\ path[0] = t
  /\ \A i \in 1 .. Len(way) : path[i - 1] # Nil /\ path[i] = Reached(path[i - 1], way[i])

\* The points a complete walk finds in a tree, each with the way to it.
Places == Seq(Sides) \X [Axes -> Int]
Living(t) ==
  {place \in Places :
     \E path : LET node == path[Len(place[1])]
              IN /\ Leads(path, t, place[1])
                 /\ node # Nil /\ ~node.point_deleted /\ node.point = place[2]}

LEMMA OwnPoint ==
  ASSUME NEW t, NEW p \in [Axes -> Int]
  PROVE  << <<>>, p>> \in Living(t) <=> t # Nil /\ ~t.point_deleted /\ t.point = p
<1> DEFINE place == << <<>>, p>>
<1>1. place \in Seq(Sides) \X [Axes -> Int] /\ place[1] = <<>> /\ place[2] = p /\ Len(place[1]) = 0
  <2>1. <<>> \in Seq(Sides) /\ Len(<<>>) = 0
    BY EmptySeq
  <2> QED BY <2>1
<1> HIDE DEF place
<1>2. ASSUME place \in Living(t) PROVE t # Nil /\ ~t.point_deleted /\ t.point = p
  <2>1. PICK path : LET node == path[Len(place[1])]
                    IN /\ Leads(path, t, place[1])
                       /\ node # Nil /\ ~node.point_deleted /\ node.point = place[2]
    BY <1>2 DEF Living, Places
  <2>2. path[0] = t
    BY <2>1 DEF Leads
  <2> QED BY <1>1, <2>1, <2>2
<1>3. ASSUME t # Nil, ~t.point_deleted, t.point = p PROVE place \in Living(t)
  <2> DEFINE path == [i \in 0 .. 0 |-> t]
  <2>1. path[0] = t /\ path = [i \in 0 .. 0 |-> path[i]]
    OBVIOUS
  <2> HIDE DEF path
  <2>2. Leads(path, t, <<>>)
    BY <2>1 DEF Leads
  <2> QED BY <1>1, <1>3, <2>1, <2>2 DEF Living, Places
<1> QED BY <1>2, <1>3 DEF place

LEMMA PointBelow ==
  ASSUME NEW t, t # Nil, NEW side \in Sides, NEW way \in Seq(Sides), NEW p \in [Axes -> Int]
  PROVE  << <<side>> \o way, p>> \in Living(t) <=> <<way, p>> \in Living(Reached(t, side))
<1> DEFINE longer == <<side>> \o way
           upper == <<longer, p>>
           lower == <<way, p>>
           son == Reached(t, side)
           n == Len(way)
<1>1. /\ longer \in Seq(Sides) /\ Len(longer) = n + 1 /\ n \in Nat
      /\ longer[1] = side /\ \A i \in 1 .. n : longer[i + 1] = way[i]
  OBVIOUS
<1>2. /\ upper \in Seq(Sides) \X [Axes -> Int] /\ upper[1] = longer /\ upper[2] = p
      /\ lower \in Seq(Sides) \X [Axes -> Int] /\ lower[1] = way /\ lower[2] = p
  BY <1>1
<1> HIDE DEF longer, upper, lower, son, n
<1>3. ASSUME upper \in Living(t) PROVE lower \in Living(son)
  <2>1. PICK path : LET node == path[Len(upper[1])]
                    IN /\ Leads(path, t, upper[1])
                       /\ node # Nil /\ ~node.point_deleted /\ node.point = upper[2]
    BY <1>3 DEF Living, Places
  <2> DEFINE rest == [i \in 0 .. n |-> path[i + 1]]
  <2>2. path[0] = t /\ \A i \in 1 .. n + 1 :
           path[i - 1] # Nil /\ path[i] = Reached(path[i - 1], longer[i])
    BY <1>1, <1>2, <2>1 DEF Leads
  <2>3. rest[0] = son
    <3>1. 1 \in 1 .. n + 1 /\ 0 \in 0 .. n BY <1>1
    <3>2. path[1] = Reached(path[1 - 1], longer[1]) BY <2>2, <3>1
    <3> QED BY <1>1, <2>2, <3>1, <3>2 DEF son
  <2>4. ASSUME NEW i \in 1 .. n
        PROVE  rest[i - 1] # Nil /\ rest[i] = Reached(rest[i - 1], way[i])
    <3>1. i + 1 \in 1 .. n + 1 /\ i - 1 \in 0 .. n /\ i \in 0 .. n /\ (i + 1) - 1 = i
      BY <1>1
    <3>2. path[(i + 1) - 1] # Nil /\ path[i + 1] = Reached(path[(i + 1) - 1], longer[i + 1])
      BY <2>2, <3>1
    <3>3. rest[i - 1] = path[i] /\ rest[i] = path[i + 1]
      BY <3>1
    <3> QED BY <1>1, <3>1, <3>2, <3>3
  <2>5. rest[n] = path[n + 1] /\ rest = [i \in 0 .. n |-> rest[i]]
    BY <1>1
  <2> HIDE DEF rest
  <2>6. Leads(rest, son, way)
    BY <2>3, <2>4, <2>5 DEF Leads, n
  <2>7. rest[n] # Nil /\ ~rest[n].point_deleted /\ rest[n].point = p
    BY <1>1, <1>2, <2>1, <2>5
  <2> QED BY <1>2, <2>6, <2>7 DEF Living, Places, n
<1>4. ASSUME lower \in Living(son) PROVE upper \in Living(t)
  <2>1. PICK rest : LET node == rest[Len(lower[1])]
                    IN /\ Leads(rest, son, lower[1])
                       /\ node # Nil /\ ~node.point_deleted /\ node.point = lower[2]
    BY <1>4 DEF Living, Places
  <2> DEFINE path == [i \in 0 .. n + 1 |-> IF i = 0 THEN t ELSE rest[i - 1]]
  <2>2. rest[0] = son /\ \A i \in 1 .. n :
           rest[i - 1] # Nil /\ rest[i] = Reached(rest[i - 1], way[i])
    BY <1>2, <2>1 DEF Leads, n
  <2>3. path[0] = t /\ path[n + 1] = rest[n] /\ path = [i \in 0 .. n + 1 |-> path[i]]
    BY <1>1
  <2>4. ASSUME NEW i \in 1 .. n + 1
        PROVE  path[i - 1] # Nil /\ path[i] = Reached(path[i - 1], longer[i])
    <3>1. CASE i = 1
      <4>1. path[1] = rest[0] /\ path[1 - 1] = t
        BY <1>1, <2>3
      <4> QED BY <1>1, <2>2, <3>1, <4>1 DEF son
    <3>2. CASE i # 1
      <4>1. i - 1 \in 1 .. n /\ (i - 1) + 1 = i /\ i - 1 # 0 /\ i # 0
            /\ i \in 0 .. n + 1 /\ i - 1 \in 0 .. n + 1
        BY <1>1, <3>2
      <4>2. rest[(i - 1) - 1] # Nil /\ rest[i - 1] = Reached(rest[(i - 1) - 1], way[i - 1])
        BY <2>2, <4>1
      <4>3. path[i] = rest[i - 1] /\ path[i - 1] = rest[(i - 1) - 1]
        BY <4>1
      <4>4. longer[i] = way[i - 1]
        BY <1>1, <4>1
      <4> QED BY <4>2, <4>3, <4>4
    <3> QED BY <3>1, <3>2
  <2> HIDE DEF path
  <2>5. Leads(path, t, longer)
    BY <1>1, <2>3, <2>4 DEF Leads
  <2>6. path[Len(longer)] # Nil /\ ~path[Len(longer)].point_deleted /\ path[Len(longer)].point = p
    BY <1>1, <1>2, <2>1, <2>3 DEF n
  <2> QED BY <1>2, <2>5, <2>6 DEF Living, Places
<1> QED BY <1>3, <1>4 DEF upper, lower, son, longer

LEMMA NothingInNil == Living(Nil) = {}
<1> SUFFICES ASSUME NEW place \in Living(Nil) PROVE FALSE
  OBVIOUS
<1>1. PICK path : LET node == path[Len(place[1])]
                  IN /\ Leads(path, Nil, place[1])
                     /\ node # Nil /\ ~node.point_deleted /\ node.point = place[2]
  BY DEF Living, Places
<1>2. place[1] \in Seq(Sides)
  BY DEF Living, Places
<1>3. CASE Len(place[1]) = 0
  BY <1>1, <1>3 DEF Leads
<1>4. CASE Len(place[1]) # 0
  <2>1. 1 \in 1 .. Len(place[1])
    BY <1>2, <1>4
  <2>2. path[1 - 1] # Nil
    BY <1>1, <2>1 DEF Leads
  <2> QED BY <1>1, <2>2 DEF Leads
<1> QED BY <1>3, <1>4

\* Every way is empty, or goes on from a side.
LEMMA WaysBegin ==
  ASSUME NEW way \in Seq(Sides), way # <<>>
  PROVE  \E side \in Sides, rest \in Seq(Sides) :
           way = <<side>> \o rest /\ Len(rest) < Len(way)
<1> DEFINE side == Head(way)
           rest == Tail(way)
<1>1. side \in Sides /\ rest \in Seq(Sides) /\ Len(rest) < Len(way) /\ way = <<side>> \o rest
  OBVIOUS
<1> HIDE DEF side, rest
<1> QED BY <1>1

\* The places of a tree's points: its own, and those under its sons.
Under(side, places) == {<< <<side>> \o place[1], place[2]>> : place \in places}
Own(t) == IF t.point_deleted THEN {} ELSE {<< <<>>, t.point>>}
Joined(own, left, right) == own \union Under("left", left) \union Under("right", right)

LEMMA LivingParts ==
  ASSUME NEW t, t # Nil, t.point \in [Axes -> Int]
  PROVE  Living(t) = Joined(Own(t), Living(Reached(t, "left")), Living(Reached(t, "right")))
<1> DEFINE parts == Own(t) \union Under("left", Living(Reached(t, "left")))
                           \union Under("right", Living(Reached(t, "right")))
<1>1. ASSUME NEW place \in Living(t) PROVE place \in parts
  <2>1. PICK way \in Seq(Sides), p \in [Axes -> Int] : place = <<way, p>>
    BY DEF Living, Places
  <2>2. CASE way = <<>>
    BY <2>1, <2>2, OwnPoint DEF Own
  <2>3. CASE way # <<>>
    <3>1. PICK side \in Sides, rest \in Seq(Sides) : way = <<side>> \o rest
      BY <2>3, WaysBegin
    <3>2. <<rest, p>> \in Living(Reached(t, side))
      BY <2>1, <3>1, PointBelow
    <3>3. place = << <<side>> \o <<rest, p>>[1], <<rest, p>>[2]>>
      BY <2>1, <3>1
    <3>4. place \in Under(side, Living(Reached(t, side)))
      BY <3>2, <3>3 DEF Under
    <3> QED BY <3>4 DEF Sides
  <2> QED BY <2>2, <2>3
<1>2. ASSUME NEW place \in Own(t) PROVE place \in Living(t)
  BY OwnPoint DEF Own
<1>3. ASSUME NEW side \in Sides, NEW place \in Under(side, Living(Reached(t, side)))
      PROVE  place \in Living(t)
  <2>1. PICK q \in Living(Reached(t, side)) : place = << <<side>> \o q[1], q[2]>>
    BY DEF Under
  <2>2. q[1] \in Seq(Sides) /\ q[2] \in [Axes -> Int] /\ q = <<q[1], q[2]>>
    BY DEF Living, Places
  <2> QED BY <2>1, <2>2, PointBelow
<1>4. "left" \in Sides /\ "right" \in Sides
  BY DEF Sides
<1> HIDE DEF parts
<1>5. ASSUME NEW place \in parts PROVE place \in Living(t)
  BY <1>2, <1>3, <1>4 DEF parts
<1> QED BY <1>1, <1>5 DEF parts, Joined

LEMMA UnderOne ==
  ASSUME NEW side \in Sides, NEW places, places \subseteq Places
  PROVE  /\ \A q \in Under(side, places) :
              /\ q \in Places
              /\ q[1] # <<>> /\ q[1][1] = side
              /\ <<Tail(q[1]), q[2]>> \in places /\ q[1] = <<side>> \o Tail(q[1])
         /\ \A place \in places : << <<side>> \o place[1], place[2]>> \in Under(side, places)
<1>1. ASSUME NEW place \in places
      PROVE  LET way == <<side>> \o place[1]
             IN /\ <<way, place[2]>> \in Places
                /\ way # <<>> /\ way[1] = side /\ Tail(way) = place[1]
                /\ <<place[1], place[2]>> = place
  <2>1. place[1] \in Seq(Sides) /\ place[2] \in [Axes -> Int] /\ <<place[1], place[2]>> = place
    BY DEF Places
  <2>2. LET way == <<side>> \o place[1]
        IN way \in Seq(Sides) /\ way # <<>> /\ way[1] = side /\ Tail(way) = place[1]
    BY <2>1
  <2> QED BY <2>1, <2>2 DEF Places
<1>2. ASSUME NEW q \in Under(side, places)
      PROVE  /\ q \in Places
             /\ q[1] # <<>> /\ q[1][1] = side
             /\ <<Tail(q[1]), q[2]>> \in places /\ q[1] = <<side>> \o Tail(q[1])
  <2>1. PICK place \in places : q = << <<side>> \o place[1], place[2]>>
    BY DEF Under
  <2>2. q[1] = <<side>> \o place[1] /\ q[2] = place[2]
    BY <2>1
  <2> QED BY <1>1, <2>1, <2>2
<1>3. \A place \in places : << <<side>> \o place[1], place[2]>> \in Under(side, places)
  BY DEF Under
<1> QED BY <1>2, <1>3

LEMMA UnderCounts ==
  ASSUME NEW side \in Sides, NEW places, places \subseteq Places,
         IsFiniteSet(places)
  PROVE  /\ IsFiniteSet(Under(side, places))
         /\ Cardinality(Under(side, places)) = Cardinality(places)
<1> DEFINE f == [place \in places |-> << <<side>> \o place[1], place[2]>>]
           U == Under(side, places)
<1>1. f \in [places -> U]
  BY UnderOne
<1>2. ASSUME NEW a \in places, NEW b \in places, f[a] = f[b] PROVE a = b
  <2>1. /\ a[1] \in Seq(Sides) /\ b[1] \in Seq(Sides)
        /\ a = <<a[1], a[2]>> /\ b = <<b[1], b[2]>>
    BY DEF Places
  <2>2. <<side>> \o a[1] = <<side>> \o b[1] /\ a[2] = b[2]
    BY <1>2
  <2>3. Tail(<<side>> \o a[1]) = a[1] /\ Tail(<<side>> \o b[1]) = b[1]
    BY <2>1
  <2> QED BY <2>1, <2>2, <2>3
<1>3. ASSUME NEW q \in U PROVE \E place \in places : f[place] = q
  BY DEF Under
<1> HIDE DEF f, U
<1>4. f \in Bijection(places, U)
  BY <1>1, <1>2, <1>3, Fun_IsBij
<1>5. ExistsBijection(places, U)
  BY <1>4 DEF ExistsBijection
<1> QED BY <1>5, FS_Bijection DEF U

LEMMA PartsCount ==
  ASSUME NEW own, NEW L, NEW R, \A q \in own : q[1] = <<>>, IsFiniteSet(own),
         L \subseteq Places, R \subseteq Places,
         IsFiniteSet(L), IsFiniteSet(R)
  PROVE  /\ IsFiniteSet(Joined(own, L, R))
         /\ Cardinality(Joined(own, L, R)) = Cardinality(own) + Cardinality(L) + Cardinality(R)
<1> DEFINE UL == Under("left", L)
           UR == Under("right", R)
           both == own \union UL
<1>0. "left" \in Sides /\ "right" \in Sides /\ "left" # "right"
  BY DEF Sides
<1>1. /\ IsFiniteSet(UL) /\ Cardinality(UL) = Cardinality(L) /\ Cardinality(L) \in Nat
      /\ IsFiniteSet(UR) /\ Cardinality(UR) = Cardinality(R) /\ Cardinality(R) \in Nat
  BY <1>0, UnderCounts, FS_CardinalityType
<1>8. \A q \in UL : q[1] # <<>> /\ q[1][1] = "left"
  <2>1. /\ \A q \in Under("left", L) :
              /\ q \in Places
              /\ q[1] # <<>> /\ q[1][1] = "left"
              /\ <<Tail(q[1]), q[2]>> \in L /\ q[1] = <<"left">> \o Tail(q[1])
        /\ \A place \in L : << <<"left">> \o place[1], place[2]>> \in Under("left", L)
    BY <1>0, UnderOne, Zenon
  <2> QED BY <2>1
<1>9. \A q \in UR : q[1] # <<>> /\ q[1][1] = "right"
  <2>1. /\ \A q \in Under("right", R) :
              /\ q \in Places
              /\ q[1] # <<>> /\ q[1][1] = "right"
              /\ <<Tail(q[1]), q[2]>> \in R /\ q[1] = <<"right">> \o Tail(q[1])
        /\ \A place \in R : << <<"right">> \o place[1], place[2]>> \in Under("right", R)
    BY <1>0, UnderOne, Zenon
  <2> QED BY <2>1
<1> HIDE DEF UL, UR
<1>4. own \cap UL = {} /\ both \cap UR = {}
  BY <1>0, <1>8, <1>9
<1>10. Cardinality({}) = 0
  BY FS_EmptySet
<1>5. IsFiniteSet(both) /\ Cardinality(both) = Cardinality(own) + Cardinality(UL) - 0
  <2>1. /\ IsFiniteSet(own \union UL)
        /\ Cardinality(own \union UL) =
             Cardinality(own) + Cardinality(UL) - Cardinality(own \cap UL)
    BY <1>1, FS_Union
  <2> QED BY <1>4, <1>10, <2>1
<1> HIDE DEF both
<1>6. /\ IsFiniteSet(both \union UR)
      /\ Cardinality(both \union UR) = Cardinality(both) + Cardinality(UR) - 0
  <2>1. /\ IsFiniteSet(both \union UR)
        /\ Cardinality(both \union UR) =
             Cardinality(both) + Cardinality(UR) - Cardinality(both \cap UR)
    BY <1>1, <1>5, FS_Union
  <2> QED BY <1>4, <1>10, <2>1
<1>7. Cardinality(both \union UR) = Cardinality(own) + Cardinality(L) + Cardinality(R)
  <2>1. Cardinality(own) \in Nat
    BY FS_CardinalityType
  <2> QED BY <1>1, <1>5, <1>6, <2>1
<1> QED BY <1>6, <1>7 DEF both, UL, UR, Joined

-------------------------------------------------------------------------------
\* A node that tells the truth about the points under it.  A mark it has still to
\* push down is of a deleted tree, or waits for the leaf that was put there since.
Right(t) ==
  /\ t.tree_deleted => Living(t) = {}
  /\ \A place \in Living(t), k \in Axes : t.low[k] <= place[2][k] /\ place[2][k] <= t.high[k]
  /\ IsFiniteSet(Living(t)) /\ t.TreeSize - t.invalid_point_num = Cardinality(Living(t))
  /\ t.tree_downsample_deleted => t.tree_deleted
  /\ t.point_downsample_deleted => t.point_deleted
  /\ \A side \in Sides : Pending(t, side) => t.tree_deleted \/ NewLeaf(t[side])

\* The trees, of any height, all of whose nodes do.
Grown(trees) == {Nil} \union {t \in NodesOver(trees) : Right(t)}
TreesOf[height \in Nat] == IF height = 0 THEN {Nil} ELSE Grown(TreesOf[height - 1])
Trees == UNION {TreesOf[height] : height \in Nat}

\* TreesOf is what its equation says it is.
IsTreesOf(g, n) == g = [k \in 0 .. n |-> IF k = 0 THEN {Nil} ELSE Grown(g[k - 1])]

LEMMA TreesByHeight ==
  /\ TreesOf[0] = {Nil}
  /\ \A n \in Nat : TreesOf[n + 1] = Grown(TreesOf[n])
<1> DEFINE pick(n) == CHOOSE g : IsTreesOf(g, n)
           all == [n \in Nat |-> pick(n)[n]]
<1>1. ASSUME NEW g, NEW n \in Nat, IsTreesOf(g, n), NEW k \in 0 .. n
      PROVE  g[k] = IF k = 0 THEN {Nil} ELSE Grown(g[k - 1])
  BY <1>1 DEF IsTreesOf
<1>2. ASSUME NEW n \in Nat PROVE \E g : IsTreesOf(g, n)
  <2> DEFINE Bad == {m \in Nat : ~\E g : IsTreesOf(g, m)}
  <2> SUFFICES ASSUME Bad # {} PROVE FALSE
    OBVIOUS
  <2>1. PICK m \in Bad : \A j \in Bad : m <= j
    BY LeastNumber
  <2>2. CASE m = 0
    <3> DEFINE g == [k \in 0 .. 0 |-> {Nil}]
    <3>1. g = [k \in 0 .. 0 |-> IF k = 0 THEN {Nil} ELSE Grown(g[k - 1])]
      OBVIOUS
    <3> HIDE DEF g
    <3>2. IsTreesOf(g, 0)
      BY <3>1 DEF IsTreesOf
    <3> QED BY <2>2, <3>2
  <2>3. CASE m # 0
    <3>1. m - 1 \in Nat /\ ~(m <= m - 1)
      BY <2>3
    <3>2. m - 1 \notin Bad
      <4> HIDE DEF Bad
      <4> QED BY <2>1, <3>1
    <3>3. PICK g : IsTreesOf(g, m - 1)
      BY <3>1, <3>2
    <3> DEFINE h == [k \in 0 .. m |-> IF k = m THEN Grown(g[m - 1]) ELSE g[k]]
    <3>4. ASSUME NEW k \in 0 .. m
          PROVE  h[k] = IF k = 0 THEN {Nil} ELSE Grown(h[k - 1])
      <4>1. CASE k = m
        <5>1. k - 1 \in 0 .. m /\ k - 1 # m /\ k # 0
          BY <2>3, <4>1
        <5>2. h[k - 1] = g[m - 1] /\ h[k] = Grown(g[m - 1])
          BY <4>1, <5>1
        <5> QED BY <5>1, <5>2
      <4>2. CASE k # m
        <5>1. k \in 0 .. m - 1 /\ h[k] = g[k]
          BY <4>2
        <5>2. g[k] = IF k = 0 THEN {Nil} ELSE Grown(g[k - 1])
          BY <1>1, <3>1, <3>3, <5>1
        <5>3. k # 0 => h[k - 1] = g[k - 1]
          BY <4>2
        <5> HIDE DEF h
        <5> QED BY <5>1, <5>2, <5>3
      <4> QED BY <4>1, <4>2
    <3>5. h = [k \in 0 .. m |-> h[k]]
      OBVIOUS
    <3> HIDE DEF h
    <3>6. IsTreesOf(h, m)
      BY <3>4, <3>5 DEF IsTreesOf
    <3> QED BY <3>6
  <2> QED BY <2>2, <2>3
<1>3. ASSUME NEW m \in Nat, NEW n \in Nat, NEW g, NEW h, IsTreesOf(g, m), IsTreesOf(h, n), m <= n
      PROVE  g[m] = h[m]
  <2> DEFINE Bad == {k \in Nat : k <= m /\ g[k] # h[k]}
  <2>1. ASSUME Bad # {} PROVE FALSE
    <3>1. PICK k \in Bad : \A j \in Bad : k <= j
      BY <2>1, LeastNumber
    <3>2. k \in 0 .. m /\ k \in 0 .. n
      BY <1>3
    <3>3. /\ g[k] = IF k = 0 THEN {Nil} ELSE Grown(g[k - 1])
          /\ h[k] = IF k = 0 THEN {Nil} ELSE Grown(h[k - 1])
      BY <1>1, <1>3, <3>2
    <3>4. k # 0
      BY <3>3
    <3>5. k - 1 \in Nat /\ k - 1 <= m /\ ~(k <= k - 1)
      BY <3>2, <3>4
    <3>6. g[k - 1] = h[k - 1]
      BY <3>1, <3>5
    <3> QED BY <3>1, <3>3, <3>6
  <2> QED BY <2>1
<1>4. ASSUME NEW n \in Nat PROVE IsTreesOf(pick(n), n)
  BY <1>2
<1>5. \A n \in Nat : all[n] = pick(n)[n]
  OBVIOUS
<1>6. ASSUME NEW n \in Nat
      PROVE  all[n] = IF n = 0 THEN {Nil} ELSE Grown(all[n - 1])
  <2> HIDE DEF pick
  <2>1. pick(n)[n] = IF n = 0 THEN {Nil} ELSE Grown(pick(n)[n - 1])
    BY <1>1, <1>4
  <2>2. n # 0 => n - 1 \in Nat /\ n - 1 <= n
    OBVIOUS
  <2>3. n # 0 => pick(n - 1)[n - 1] = pick(n)[n - 1]
    BY <1>3, <1>4, <2>2
  <2> HIDE DEF all
  <2> QED BY <1>5, <2>1, <2>2, <2>3
<1>7. all = [n \in Nat |-> IF n = 0 THEN {Nil} ELSE Grown(all[n - 1])]
  <2>1. all = [n \in Nat |-> all[n]]
    OBVIOUS
  <2> HIDE DEF all
  <2> QED BY <1>6, <2>1
<1> HIDE DEF all
<1>8. TreesOf = [n \in Nat |-> IF n = 0 THEN {Nil} ELSE Grown(TreesOf[n - 1])]
  BY <1>7 DEF TreesOf
<1>9. TreesOf[0] = {Nil}
  BY <1>8
<1>10. ASSUME NEW n \in Nat PROVE TreesOf[n + 1] = Grown(TreesOf[n])
  <2>1. n + 1 \in Nat /\ n + 1 # 0 /\ (n + 1) - 1 = n
    OBVIOUS
  <2>2. TreesOf[n + 1] = IF n + 1 = 0 THEN {Nil} ELSE Grown(TreesOf[(n + 1) - 1])
    BY <1>8, <2>1
  <2> QED BY <2>1, <2>2
<1> QED BY <1>9, <1>10

LEMMA NodesOverMore ==
  ASSUME NEW S, NEW T, S \subseteq T
  PROVE  NodesOver(S) \subseteq NodesOver(T) /\ Grown(S) \subseteq Grown(T)
<1>1. NodesOver(S) \subseteq NodesOver(T)
  BY DEF NodesOver
<1> QED BY <1>1 DEF Grown

\* A tree of right nodes is nothing, or a right node over two such trees.
LEMMA TreesAreGrown == Trees = Grown(Trees)
<1> DEFINE Bad == {n \in Nat : ~(TreesOf[n] \subseteq TreesOf[n + 1])}
<1>1. Bad = {}
  <2> SUFFICES ASSUME Bad # {} PROVE FALSE
    OBVIOUS
  <2>1. PICK n \in Bad : \A j \in Bad : n <= j
    BY LeastNumber
  <2>2. n # 0
    <3>1. TreesOf[0] \subseteq TreesOf[0 + 1]
      BY TreesByHeight DEF Grown
    <3> QED BY <3>1
  <2>3. n - 1 \in Nat /\ ~(n <= n - 1) /\ (n - 1) + 1 = n
    BY <2>2
  <2>4. n - 1 \notin Bad
    <3> HIDE DEF Bad
    <3> QED BY <2>1, <2>3
  <2>5. TreesOf[n - 1] \subseteq TreesOf[n]
    BY <2>3, <2>4
  <2>6. TreesOf[n] = Grown(TreesOf[n - 1]) /\ TreesOf[n + 1] = Grown(TreesOf[n])
    BY <2>3, TreesByHeight
  <2>7. TreesOf[n] \subseteq TreesOf[n + 1]
    <3>1. Grown(TreesOf[n - 1]) \subseteq Grown(TreesOf[n])
      BY <2>5, NodesOverMore
    <3> QED BY <2>6, <3>1, Zenon
  <2> QED BY <2>7
<1>2. \A n \in Nat : TreesOf[n] \subseteq TreesOf[n + 1]
  BY <1>1
<1>3. ASSUME NEW m \in Nat, NEW n \in Nat, m <= n PROVE TreesOf[m] \subseteq TreesOf[n]
  <2> DEFINE Far == {d \in Nat : ~(TreesOf[m] \subseteq TreesOf[m + d])}
  <2>1. Far = {}
    <3> SUFFICES ASSUME Far # {} PROVE FALSE
      OBVIOUS
    <3>1. PICK d \in Far : \A j \in Far : d <= j
      BY LeastNumber
    <3>2. d # 0
      <4>1. m + 0 = m
        OBVIOUS
      <4> QED BY <4>1
    <3>3. d - 1 \in Nat /\ ~(d <= d - 1) /\ (m + (d - 1)) + 1 = m + d /\ m + (d - 1) \in Nat
      BY <3>2
    <3>4. d - 1 \notin Far
      <4> HIDE DEF Far
      <4> QED BY <3>1, <3>3
    <3>5. TreesOf[m] \subseteq TreesOf[m + (d - 1)]
      BY <3>3, <3>4
    <3>6. TreesOf[m + (d - 1)] \subseteq TreesOf[(m + (d - 1)) + 1]
      BY <1>2, <3>3
    <3>7. TreesOf[m] \subseteq TreesOf[m + d]
      BY <3>3, <3>5, <3>6
    <3> QED BY <3>7
  <2>2. n - m \in Nat /\ m + (n - m) = n
    BY <1>3
  <2>3. TreesOf[m] \subseteq TreesOf[m + (n - m)]
    BY <2>1, <2>2
  <2> QED BY <2>2, <2>3
<1>4. ASSUME NEW t \in Trees PROVE t \in Grown(Trees)
  <2>1. PICK n \in Nat : t \in TreesOf[n]
    BY DEF Trees
  <2>2. t \in TreesOf[n + 1] /\ TreesOf[n + 1] = Grown(TreesOf[n])
    BY <1>2, <2>1, TreesByHeight
  <2>3. TreesOf[n] \subseteq Trees
    BY DEF Trees
  <2> QED BY <2>2, <2>3, NodesOverMore
<1>5. ASSUME NEW t \in Grown(Trees) PROVE t \in Trees
  <2>1. CASE t = Nil
    <3>1. t \in TreesOf[0]
      BY <2>1, TreesByHeight
    <3> QED BY <3>1 DEF Trees
  <2>2. CASE t \in NodesOver(Trees) /\ Right(t)
    <3>1. t.left \in Trees /\ t.right \in Trees
      BY <2>2 DEF NodesOver
    <3>2. PICK m \in Nat : t.left \in TreesOf[m]
      BY <3>1 DEF Trees
    <3>3. PICK n \in Nat : t.right \in TreesOf[n]
      BY <3>1 DEF Trees
    <3>4. PICK h \in Nat : m <= h /\ n <= h
      <4>1. m + n \in Nat /\ m <= m + n /\ n <= m + n
        OBVIOUS
      <4> QED BY <4>1
    <3>5. t.left \in TreesOf[h] /\ t.right \in TreesOf[h]
      BY <1>3, <3>2, <3>3, <3>4
    <3>6. t \in NodesOver(TreesOf[h])
      BY <2>2, <3>5 DEF NodesOver
    <3>7. t \in TreesOf[h + 1] /\ h + 1 \in Nat
      BY <2>2, <3>6, TreesByHeight DEF Grown
    <3> QED BY <3>7 DEF Trees
  <2> QED BY <1>5, <2>1, <2>2 DEF Grown
<1> QED BY <1>4, <1>5

\* A new leaf.
LEMMA LeafFields ==
  ASSUME NEW S, Nil \in S, NEW R, NEW t \in NodesOver(R), NewLeaf(t)
  PROVE  /\ t \in NodesOver(S) /\ t.left = Nil /\ t.right = Nil
         /\ ~t.point_deleted /\ ~t.tree_deleted
         /\ ~t.point_downsample_deleted /\ ~t.tree_downsample_deleted
         /\ t.TreeSize = 1 /\ t.invalid_point_num = 0 /\ t.down_del_num = 0
         /\ \A k \in Axes : t.low[k] <= t.point[k] /\ t.point[k] <= t.high[k]
<1>1. PICK point \in [Axes -> Int], axis \in Int : t = Node(point, axis, Nil, Nil)
  BY DEF NewLeaf, NodesOver
<1> DEFINE raw == [point |-> point, division_axis |-> axis, left |-> Nil, right |-> Nil,
          TreeSize |-> 0, invalid_point_num |-> 0, down_del_num |-> 0,
          point_deleted |-> FALSE, tree_deleted |-> FALSE,
          point_downsample_deleted |-> FALSE, tree_downsample_deleted |-> FALSE,
          need_push_down |-> [s \in Sides |-> FALSE], working_flag |-> FALSE,
          low |-> point, high |-> point]
<1>2. raw \in NodesOver({Nil}) /\ t = Update(raw)
  BY <1>1 DEF NodesOver, Node
<1>3. /\ raw.left = Nil /\ raw.right = Nil /\ raw["left"] = Nil /\ raw["right"] = Nil
      /\ raw.point_deleted = FALSE /\ raw.point_downsample_deleted = FALSE
  OBVIOUS
<1>4. Nil.TreeSize = 0 /\ Nil.invalid_point_num = 0 /\ Nil.down_del_num = 0
  BY DEF Nil
<1> HIDE DEF raw
<1>5. /\ t \in NodesOver({Nil}) /\ t.left = Nil /\ t.right = Nil
      /\ ~t.point_deleted /\ ~t.tree_deleted
      /\ ~t.point_downsample_deleted /\ ~t.tree_downsample_deleted
      /\ t.TreeSize = 1 /\ t.invalid_point_num = 0 /\ t.down_del_num = 0
      /\ \A k \in Axes : t.low[k] <= t.point[k] /\ t.point[k] <= t.high[k]
  BY <1>2, <1>3, <1>4, UpdatedFields
<1>6. NodesOver({Nil}) \subseteq NodesOver(S)
  BY DEF NodesOver
<1> QED BY <1>5, <1>6

LEMMA LeafIsRight ==
  ASSUME NEW S, NEW t \in NodesOver(S), t.left = Nil, t.right = Nil,
         ~t.point_deleted, ~t.tree_deleted, ~t.point_downsample_deleted,
         ~t.tree_downsample_deleted, t.TreeSize - t.invalid_point_num = 1,
         \A k \in Axes : t.low[k] <= t.point[k] /\ t.point[k] <= t.high[k]
  PROVE  Right(t) /\ Living(t) = {<< <<>>, t.point>>}
<1>1. t # Nil /\ t.point \in [Axes -> Int]
  BY NilIsNoNode DEF NodesOver
<1>2. t["left"] = Nil /\ t["right"] = Nil
  BY SonsOf
<1>3. Reached(t, "left") = Nil /\ Reached(t, "right") = Nil
  BY <1>2 DEF Reached, Pending
<1>4. Under("left", {}) = {} /\ Under("right", {}) = {}
  BY DEF Under
<1>5. Living(t) = {<< <<>>, t.point>>}
  BY <1>1, <1>3, <1>4, LivingParts, NothingInNil DEF Own, Joined
<1>6. IsFiniteSet(Living(t)) /\ Cardinality(Living(t)) = 1
  BY <1>5, FS_Singleton
<1>7. \A side \in Sides : ~Pending(t, side)
  BY <1>2 DEF Pending, Sides
<1>8. \A place \in Living(t) : place[2] = t.point
  BY <1>5
<1> QED BY <1>5, <1>6, <1>7, <1>8 DEF Right

\* A mark that is pushed all the way down leaves nothing alive.
LEMMA DeadHoldNothing ==
  ASSUME NEW S, S \subseteq {Nil} \union NodesOver(S), NEW dead \in NodesOver(S),
         dead.tree_deleted, dead.point_deleted, \A s \in Sides : dead.need_push_down[s]
  PROVE  Living(dead) = {}
<1> DEFINE Dead == {t \in NodesOver(S) : /\ t.tree_deleted /\ t.point_deleted
                                       /\ \A s \in Sides : t.need_push_down[s]}
           Bad == {n \in Nat : \E t \in Dead : \E place \in Living(t) : n = Len(place[1])}
<1>1. ASSUME NEW t \in Dead, NEW side \in Sides
      PROVE  Reached(t, side) \in {Nil} \union Dead
  <2>1. t[side] \in {Nil} \union NodesOver(S)
    BY SonsOf
  <2>2. CASE t[side] = Nil
    BY <2>2 DEF Reached, Pending
  <2>3. CASE t[side] \in NodesOver(S)
    <3>1. Reached(t, side) = Marked(t[side], t)
      BY <2>3, NilIsNoNode DEF Reached, Pending
    <3>2. Marked(t[side], t) \in Dead
      BY <2>3, MarkedFields
    <3> QED BY <3>1, <3>2
  <2> QED BY <2>1, <2>2, <2>3
<1>2. \A t \in Dead : t # Nil /\ t.point_deleted /\ t.point \in [Axes -> Int]
  BY NilIsNoNode DEF NodesOver
<1>3. ASSUME NEW t \in Dead, NEW place \in Living(t)
      PROVE  \E u \in Dead : \E q \in Living(u) : Len(q[1]) < Len(place[1]) /\ Len(q[1]) \in Nat
  <2>1. PICK way \in Seq(Sides), p \in [Axes -> Int] : place = <<way, p>>
    BY DEF Living, Places
  <2>2. way # <<>>
    BY <1>2, <2>1, OwnPoint
  <2>3. PICK side \in Sides, rest \in Seq(Sides) : way = <<side>> \o rest /\ Len(rest) < Len(way)
    BY <2>2, WaysBegin
  <2>4. <<rest, p>> \in Living(Reached(t, side))
    BY <1>2, <2>1, <2>3, PointBelow
  <2>5. Reached(t, side) \in Dead
    BY <1>1, <2>4, NothingInNil
  <2>6. <<rest, p>>[1] = rest /\ place[1] = way /\ Len(rest) \in Nat
    BY <2>1
  <2> HIDE DEF Dead
  <2> QED BY <2>3, <2>4, <2>5, <2>6
<1>4. \A t \in Dead : \A place \in Living(t) : Len(place[1]) \in Nat
  BY DEF Living
<1>5. dead \in Dead
  OBVIOUS
<1> HIDE DEF Dead
<1>6. Bad = {}
  <2> SUFFICES ASSUME Bad # {} PROVE FALSE
    OBVIOUS
  <2>1. PICK n \in Bad : \A j \in Bad : n <= j
    BY LeastNumber
  <2>2. PICK t \in Dead : \E place \in Living(t) : n = Len(place[1])
    OBVIOUS
  <2>5. PICK place \in Living(t) : n = Len(place[1])
    BY <2>2
  <2>6. PICK u \in Dead : \E q \in Living(u) : Len(q[1]) < n /\ Len(q[1]) \in Nat
    BY <1>3, <2>5
  <2>3. PICK q \in Living(u) : Len(q[1]) < n /\ Len(q[1]) \in Nat
    BY <2>6
  <2>4. Len(q[1]) \in Bad /\ n \in Nat
    BY <2>3
  <2> QED BY <2>1, <2>3, <2>4
<1> QED BY <1>4, <1>5, <1>6


LEMMA TreesNodes ==
  /\ Nil \in Trees /\ Trees \subseteq {Nil} \union NodesOver(Trees)
  /\ \A t : t \in NodesOver(Trees) /\ Right(t) => t \in Trees
  /\ \A t \in Trees : t # Nil => t \in NodesOver(Trees) /\ Right(t)
<1>1. \A t : t \in Trees <=> t = Nil \/ (t \in NodesOver(Trees) /\ Right(t))
  BY TreesAreGrown DEF Grown
<1> QED BY <1>1

LEMMA DeadIsRight ==
  ASSUME NEW dead \in NodesOver(Trees),
         dead.tree_deleted, dead.point_deleted, \A s \in Sides : dead.need_push_down[s],
         dead.invalid_point_num = dead.TreeSize
  PROVE  dead \in Trees /\ Living(dead) = {}
<1>1. Trees \subseteq {Nil} \union NodesOver(Trees)
  BY TreesNodes
<1>2. Living(dead) = {}
  BY <1>1, DeadHoldNothing
<1>3. IsFiniteSet(Living(dead)) /\ Cardinality(Living(dead)) = 0
  BY <1>2, FS_EmptySet
<1>4. dead.TreeSize - dead.invalid_point_num = 0
  BY DEF NodesOver
<1>5. Right(dead)
  BY <1>2, <1>3, <1>4 DEF Right
<1> QED BY <1>2, <1>5, TreesNodes

\* A box deletion that covers a tree's range marks its root and goes no further
\* (ikd_Tree.cpp:780): that takes every point below it, once the marks have come
\* down, leaves the counts right, and no node's mark or range untrue.
THEOREM DeletedIsDeleted ==
  ASSUME NEW t \in Trees, t # Nil, NEW is_downsample \in BOOLEAN
  PROVE  /\ AllDeleted(t, is_downsample) \in Trees
         /\ Living(AllDeleted(t, is_downsample)) = {}
<1> DEFINE u == AllDeleted(t, is_downsample)
<1>1. t \in NodesOver(Trees)
  BY TreesNodes
<1>2. /\ u \in NodesOver(Trees) /\ u.need_push_down = [s \in Sides |-> TRUE]
      /\ u.TreeSize = t.TreeSize /\ u.invalid_point_num = t.TreeSize
      /\ u.point_deleted /\ u.tree_deleted
  BY <1>1, DeletedFields
<1> HIDE DEF u
<1>3. \A s \in Sides : u.need_push_down[s]
  BY <1>2
<1> QED BY <1>2, <1>3, DeadIsRight DEF u

\* The marks that come down make a tree of a tree.
LEMMA ReachedIsATree ==
  ASSUME NEW t \in Trees, t # Nil, NEW side \in Sides
  PROVE  Reached(t, side) \in Trees
<1> DEFINE son == t[side]
           m == Marked(son, t)
<1>1. t \in NodesOver(Trees) /\ Right(t)
  BY TreesNodes
<1>2. son \in Trees
  BY <1>1, SonsOf
<1>3. CASE ~Pending(t, side)
  BY <1>2, <1>3 DEF Reached
<1>4. CASE Pending(t, side)
  <2>1. son \in NodesOver(Trees) /\ Right(son)
    BY <1>2, <1>4, TreesNodes DEF Pending
  <2>2. t.tree_deleted \/ NewLeaf(son)
    BY <1>1, <1>4 DEF Right
  <2>3. Reached(t, side) = m
    BY <1>4 DEF Reached
  <2> HIDE DEF son
  <2>7. /\ m \in NodesOver(Trees)
        /\ m.point = son.point /\ m.left = son.left /\ m.right = son.right
        /\ m.low = son.low /\ m.high = son.high
        /\ m.TreeSize = son.TreeSize
    BY <1>1, <2>1, MarkedFields
  <2>11. \A s \in Sides : m.need_push_down[s]
    BY <1>1, <2>1, MarkedFields
  <2>8. /\ m.tree_downsample_deleted <=>
             son.tree_downsample_deleted \/ t.tree_downsample_deleted
        /\ m.tree_deleted <=>
             t.tree_deleted \/ son.tree_downsample_deleted \/ t.tree_downsample_deleted
    BY <1>1, <2>1, MarkedFields
  <2>9. /\ m.point_downsample_deleted <=>
             son.point_downsample_deleted \/ t.tree_downsample_deleted
        /\ m.point_deleted <=>
             \/ t.tree_deleted \/ son.tree_downsample_deleted
             \/ t.tree_downsample_deleted \/ son.point_downsample_deleted
    BY <1>1, <2>1, MarkedFields
  <2>10. /\ m.down_del_num =
              IF t.tree_downsample_deleted THEN son.TreeSize ELSE son.down_del_num
         /\ m.invalid_point_num =
              IF t.tree_deleted THEN son.TreeSize ELSE m.down_del_num
    BY <1>1, <2>1, MarkedFields
  <2> HIDE DEF m
  <2>5. CASE t.tree_deleted
    <3>2. m.tree_deleted /\ m.point_deleted /\ m.invalid_point_num = m.TreeSize
      BY <2>7, <2>8, <2>9, <2>10, <2>5
    <3>3. m \in Trees
      BY <2>7, <2>11, <3>2, DeadIsRight
    <3> QED BY <2>3, <3>3
  <2>6. CASE ~t.tree_deleted /\ NewLeaf(son)
    <3>1. Nil \in Trees
      BY TreesNodes
    <3>2. /\ son.left = Nil /\ son.right = Nil
          /\ ~son.point_deleted /\ ~son.tree_deleted
          /\ ~son.point_downsample_deleted /\ ~son.tree_downsample_deleted
          /\ son.TreeSize = 1 /\ son.invalid_point_num = 0 /\ son.down_del_num = 0
          /\ \A k \in Axes : son.low[k] <= son.point[k] /\ son.point[k] <= son.high[k]
      BY <2>1, <2>6, <3>1, LeafFields
    <3>3. ~t.tree_downsample_deleted
      BY <1>1, <2>6 DEF Right
    <3>4. /\ m.left = Nil /\ m.right = Nil
          /\ ~m.point_deleted /\ ~m.tree_deleted
          /\ ~m.point_downsample_deleted /\ ~m.tree_downsample_deleted
          /\ m.TreeSize = 1 /\ m.down_del_num = 0
      BY <2>7, <2>8, <2>9, <2>10, <2>6, <3>2, <3>3
    <3>5. m.TreeSize - m.invalid_point_num = 1
      BY <2>7, <2>8, <2>9, <2>10, <2>6, <3>4
    <3>6. \A k \in Axes : m.low[k] <= m.point[k] /\ m.point[k] <= m.high[k]
      BY <2>7, <2>8, <2>9, <2>10, <3>2
    <3>7. Right(m)
      BY <2>7, <2>8, <2>9, <2>10, <3>4, <3>5, <3>6, LeafIsRight
    <3> QED BY <2>3, <2>7, <2>8, <2>9, <2>10, <3>7, TreesNodes
  <2> QED BY <2>2, <2>5, <2>6
<1> QED BY <1>3, <1>4

\* Push_Down changes neither the points of a tree nor what its nodes tell of them,
\* and leaves no mark of the node for later: not those of a deleted tree, nor those
\* that wait for a leaf that was added below since.
THEOREM PushDownKeepsThePoints ==
  ASSUME NEW t \in Trees, t # Nil
  PROVE  /\ Push_Down(t) \in Trees
         /\ Living(Push_Down(t)) = Living(t)
         /\ \A side \in Sides : ~Pending(Push_Down(t), side)
<1> DEFINE u == Push_Down(t)
<1>1. t \in NodesOver(Trees) /\ Right(t)
  BY TreesNodes
<1>2. "left" \in Sides /\ "right" \in Sides /\ \A side \in Sides : side \in {"left", "right"}
  BY DEF Sides
<1>3. Reached(t, "left") \in Trees /\ Reached(t, "right") \in Trees
  BY <1>2, ReachedIsATree
<1>4. /\ u \in NodesOver(Trees)
      /\ u.left = Reached(t, "left") /\ u.right = Reached(t, "right")
      /\ u.need_push_down = [s \in Sides |-> t.need_push_down[s] /\ ~Pending(t, s)]
      /\ u.point = t.point /\ u.low = t.low /\ u.high = t.high
      /\ u.TreeSize = t.TreeSize /\ u.invalid_point_num = t.invalid_point_num
      /\ u.point_deleted = t.point_deleted /\ u.tree_deleted = t.tree_deleted
      /\ u.point_downsample_deleted = t.point_downsample_deleted
      /\ u.tree_downsample_deleted = t.tree_downsample_deleted
  BY <1>1, <1>3, PushedFields, Zenon
<1> HIDE DEF u
<1>5. ASSUME NEW side \in Sides
      PROVE  u[side] = Reached(t, side) /\ ~Pending(u, side)
  <2>1. u[side] = Reached(t, side)
    BY <1>2, <1>4, SonsOf
  <2>2. ASSUME Pending(u, side) PROVE FALSE
    <3>1. u.need_push_down[side] /\ u[side] # Nil
      BY <2>2 DEF Pending
    <3>2. t.need_push_down[side] /\ ~Pending(t, side)
      BY <1>4, <3>1
    <3>3. t[side] = Nil
      BY <3>2 DEF Pending
    <3> QED BY <2>1, <3>1, <3>2, <3>3 DEF Reached
  <2> QED BY <2>1, <2>2
<1>6. \A side \in Sides : Reached(u, side) = Reached(t, side)
  BY <1>5 DEF Reached
<1>7. Living(u) = Living(t)
  <2>1. Own(u) = Own(t)
    BY <1>4 DEF Own
  <2>2. t # Nil /\ u # Nil /\ t.point \in [Axes -> Int] /\ u.point \in [Axes -> Int]
    BY <1>1, <1>4, NilIsNoNode DEF NodesOver
  <2> QED BY <1>2, <1>6, <2>1, <2>2, LivingParts
<1>8. Right(u)
  BY <1>1, <1>4, <1>5, <1>7 DEF Right
<1> QED BY <1>4, <1>5, <1>7, <1>8, TreesNodes DEF u

\* The marks of a node that is not deleted leave a new leaf alive.
LEMMA LeafStaysAlive ==
  ASSUME NEW t \in NodesOver(Trees), NEW side \in Sides,
         ~t.tree_deleted, ~t.tree_downsample_deleted, t[side] # Nil, NewLeaf(t[side])
  PROVE  Living(Marked(t[side], t)) = Living(t[side])
<1> DEFINE son == t[side]
           m == Marked(son, t)
<1>1. Nil \in Trees
  BY TreesNodes
<1> HIDE DEF son
<1>2. /\ son \in NodesOver(Trees) /\ son.left = Nil /\ son.right = Nil
      /\ ~son.point_deleted /\ ~son.tree_deleted
      /\ ~son.point_downsample_deleted /\ ~son.tree_downsample_deleted
      /\ son.TreeSize = 1 /\ son.invalid_point_num = 0 /\ son.down_del_num = 0
      /\ \A k \in Axes : son.low[k] <= son.point[k] /\ son.point[k] <= son.high[k]
  <2>1. NewLeaf(son) /\ son \in NodesOver(Trees)
    BY SonsOf, TreesNodes DEF son
  <2> QED BY <1>1, <2>1, LeafFields
<1> HIDE DEF m
<1>3. /\ m \in NodesOver(Trees)
      /\ m.point = son.point /\ m.left = son.left /\ m.right = son.right
      /\ m.low = son.low /\ m.high = son.high /\ m.TreeSize = son.TreeSize
  BY <1>2, MarkedFields DEF m
<1>4. /\ ~m.tree_deleted /\ ~m.point_deleted
      /\ ~m.point_downsample_deleted /\ ~m.tree_downsample_deleted
  BY <1>2, MarkedFields DEF m
<1>5. m.down_del_num = 0 /\ m.invalid_point_num = m.down_del_num
  BY <1>2, MarkedFields DEF m
<1>6. Living(son) = {<< <<>>, son.point>>}
  <2>1. son.TreeSize - son.invalid_point_num = 1
    BY <1>2
  <2> QED BY <1>2, <2>1, LeafIsRight
<1>7. Living(m) = {<< <<>>, m.point>>}
  <2>1. m.TreeSize - m.invalid_point_num = 1
    BY <1>2, <1>3, <1>5
  <2>2. \A k \in Axes : m.low[k] <= m.point[k] /\ m.point[k] <= m.high[k]
    BY <1>2, <1>3
  <2> QED BY <1>2, <1>3, <1>4, <2>1, <2>2, LeafIsRight
<1> QED BY <1>3, <1>6, <1>7 DEF m, son

\* The counts at a tree's root tell how many points it holds.
LEMMA LivingAreCounted ==
  ASSUME NEW t \in Trees
  PROVE  /\ Living(t) \subseteq Places
         /\ IsFiniteSet(Living(t)) /\ Cardinality(Living(t)) \in Nat
         /\ t.TreeSize \in Int /\ t.invalid_point_num \in Int
         /\ t.TreeSize - t.invalid_point_num = Cardinality(Living(t))
<1>1. Living(t) \subseteq Places
  BY DEF Living
<1>2. CASE t = Nil
  <2>1. Living(t) = {}
    BY <1>2, NothingInNil
  <2>2. IsFiniteSet(Living(t)) /\ Cardinality(Living(t)) = 0
    BY <2>1, FS_EmptySet
  <2>3. t.TreeSize = 0 /\ t.invalid_point_num = 0
    BY <1>2 DEF Nil
  <2> QED BY <1>1, <2>2, <2>3
<1>3. CASE t # Nil
  <2>1. t \in NodesOver(Trees) /\ Right(t)
    BY <1>3, TreesNodes
  <2>2. t.TreeSize \in Int /\ t.invalid_point_num \in Int
    BY <2>1 DEF NodesOver
  <2>3. IsFiniteSet(Living(t)) /\ t.TreeSize - t.invalid_point_num = Cardinality(Living(t))
    BY <2>1 DEF Right
  <2> QED BY <1>1, <2>2, <2>3, FS_CardinalityType
<1> QED BY <1>2, <1>3

\* Update makes of a node whatever its sons have become the root of a tree that holds
\* its own point and theirs, and tells the truth about them, if the node has no
\* marks to push down but to a new leaf.  multi_thread_rebuild's walk to the root
\* (ikd_Tree.cpp:345) calls it without looking at those marks.
THEOREM UpdateTakesTheSons ==
  ASSUME NEW t \in NodesOver(Trees),
         t.point_downsample_deleted => t.point_deleted,
         \A side \in Sides : Pending(t, side) => NewLeaf(t[side])
  PROVE  /\ Update(t) \in Trees
         /\ Living(Update(t)) =
              Joined(Own(t), Living(t.left), Living(t.right))
<1> DEFINE u == Update(t)
           L == Living(t.left)
           R == Living(t.right)
           all == Joined(Own(t), L, R)
<1>1. /\ "left" \in Sides /\ "right" \in Sides /\ \A side \in Sides : side \in {"left", "right"}
      /\ t["left"] = t.left /\ t["right"] = t.right /\ \A side \in Sides : t[side] \in Trees
      /\ t.left \in Trees /\ t.right \in Trees
  BY SonsOf DEF Sides
<1>2. Trees \subseteq {Nil} \union NodesOver(Trees)
  BY TreesNodes
<1>3. /\ u \in NodesOver(Trees)
      /\ u.left = t.left /\ u.right = t.right
      /\ u.need_push_down = t.need_push_down /\ u.point = t.point
      /\ u.point_deleted = t.point_deleted
      /\ u.point_downsample_deleted = t.point_downsample_deleted
  BY <1>2, UpdatedFields
<1>4. /\ u.TreeSize = t.left.TreeSize + t.right.TreeSize + 1
      /\ u.invalid_point_num = t.left.invalid_point_num + t.right.invalid_point_num
                               + (IF t.point_deleted THEN 1 ELSE 0)
  BY <1>2, UpdatedFields
<1>5. /\ u.tree_deleted <=> t.point_deleted /\ \A s \in Sides : t[s] # Nil => t[s].tree_deleted
      /\ u.tree_downsample_deleted <=>
           /\ t.point_downsample_deleted
           /\ \A s \in Sides : t[s] # Nil => t[s].tree_downsample_deleted
  BY <1>2, UpdatedFields
<1>6. /\ ~t.point_deleted => \A k \in Axes : u.low[k] <= t.point[k] /\ t.point[k] <= u.high[k]
      /\ \A s \in Sides : t[s] # Nil /\ ~t[s].tree_deleted =>
           \A k \in Axes : u.low[k] <= t[s].low[k] /\ t[s].high[k] <= u.high[k]
  BY <1>2, UpdatedFields
<1> HIDE DEF u
<1>7. \A side \in Sides : u[side] = t[side] /\ (Pending(u, side) <=> Pending(t, side))
  <2>1. u["left"] = u.left /\ u["right"] = u.right
    BY <1>3, SonsOf
  <2> QED BY <1>1, <1>3, <2>1 DEF Pending
<1>8. ASSUME NEW side \in Sides PROVE Living(Reached(u, side)) = Living(t[side])
  <2>1. CASE ~Pending(u, side)
    BY <1>7, <2>1 DEF Reached
  <2>2. CASE Pending(u, side)
    <3>1. NewLeaf(u[side]) /\ u[side] # Nil /\ u[side] = t[side]
      BY <1>7, <2>2 DEF Pending
    <3>2. Nil \in Trees
      BY TreesNodes
    <3>3. ~u[side].tree_deleted /\ ~u[side].tree_downsample_deleted
      BY <1>1, <3>1, <3>2, TreesNodes, LeafFields
    <3>4. ~u.tree_deleted /\ ~u.tree_downsample_deleted
      BY <1>5, <3>1, <3>3
    <3>5. Living(Marked(u[side], u)) = Living(u[side])
      BY <1>3, <3>1, <3>4, LeafStaysAlive
    <3> QED BY <2>2, <3>1, <3>5 DEF Reached
  <2> QED BY <2>1, <2>2
<1>9. Living(u) = all
  <2>1. Own(u) = Own(t)
    BY <1>3 DEF Own
  <2>2. u # Nil /\ u.point \in [Axes -> Int]
    BY <1>3, NilIsNoNode DEF NodesOver
  <2>3. Living(u) = Joined(Own(u), Living(Reached(u, "left")), Living(Reached(u, "right")))
    BY <2>2, LivingParts
  <2> QED BY <1>1, <1>8, <2>1, <2>3
<1>10. /\ L \subseteq Places /\ R \subseteq Places
       /\ IsFiniteSet(L) /\ IsFiniteSet(R) /\ Cardinality(L) \in Nat /\ Cardinality(R) \in Nat
       /\ t.left.TreeSize \in Int /\ t.left.invalid_point_num \in Int
       /\ t.right.TreeSize \in Int /\ t.right.invalid_point_num \in Int
       /\ t.left.TreeSize - t.left.invalid_point_num = Cardinality(L)
       /\ t.right.TreeSize - t.right.invalid_point_num = Cardinality(R)
  BY <1>1, LivingAreCounted
<1>11. t.point_deleted \in BOOLEAN /\ t.point \in [Axes -> Int]
  BY DEF NodesOver
<1>12. /\ IsFiniteSet(all)
       /\ Cardinality(all) = (IF t.point_deleted THEN 0 ELSE 1) + Cardinality(L) + Cardinality(R)
  <2> HIDE DEF L, R
  <2>1. \A q \in Own(t) : q[1] = <<>>
    BY DEF Own
  <2>2. IsFiniteSet(Own(t)) /\ Cardinality(Own(t)) = IF t.point_deleted THEN 0 ELSE 1
    BY <1>11, FS_EmptySet, FS_Singleton DEF Own
  <2>3. IsFiniteSet(all) /\ Cardinality(all) = Cardinality(Own(t)) + Cardinality(L) + Cardinality(R)
    BY <1>10, <2>1, <2>2, PartsCount
  <2> QED BY <2>2, <2>3
<1>13. u.TreeSize - u.invalid_point_num = Cardinality(all)
  <2> DEFINE l == t.left
             r == t.right
             one == IF t.point_deleted THEN 1 ELSE 0
  <2> HIDE DEF L, R, all
  <2>1. one \in Int /\ Cardinality(all) = 1 - one + Cardinality(L) + Cardinality(R)
    BY <1>11, <1>12, <1>10
  <2>2. u.TreeSize = l.TreeSize + r.TreeSize + 1
        /\ u.invalid_point_num = l.invalid_point_num + r.invalid_point_num + one
    BY <1>4
  <2>3. /\ l.TreeSize \in Int /\ l.invalid_point_num \in Int
        /\ r.TreeSize \in Int /\ r.invalid_point_num \in Int
        /\ l.TreeSize - l.invalid_point_num = Cardinality(L)
        /\ r.TreeSize - r.invalid_point_num = Cardinality(R)
    BY <1>10
  <2>4. Cardinality(L) \in Nat /\ Cardinality(R) \in Nat
    BY <1>10
  <2> HIDE DEF l, r, one
  <2>5. \A lt, li, rt, ri, cl, cr, o, ut, ui, c \in Int :
          /\ c = 1 - o + cl + cr /\ ut = lt + rt + 1 /\ ui = li + ri + o
          /\ lt - li = cl /\ rt - ri = cr
          => ut - ui = c
    OBVIOUS
  <2>6. u.TreeSize \in Int /\ u.invalid_point_num \in Int /\ Cardinality(all) \in Int
    BY <2>1, <2>2, <2>3, <2>4
  <2> QED BY <2>1, <2>2, <2>3, <2>4, <2>5, <2>6
<1>14. ASSUME NEW place \in all
       PROVE  \/ ~t.point_deleted /\ place[2] = t.point
              \/ \E side \in Sides : \E below \in Living(t[side]) : place[2] = below[2]
  <2>1. CASE place \in Own(t)
    BY <2>1 DEF Own
  <2>2. CASE place \in Under("left", L)
    <3>1. PICK below \in L : place[2] = below[2]
      BY <2>2 DEF Under
    <3> QED BY <1>1, <3>1
  <2>3. CASE place \in Under("right", R)
    <3>1. PICK below \in R : place[2] = below[2]
      BY <2>3 DEF Under
    <3> QED BY <1>1, <3>1
  <2> QED BY <2>1, <2>2, <2>3 DEF Joined
<1> HIDE DEF L, R, all
<1>15. ASSUME NEW side \in Sides, NEW below \in Living(t[side])
       PROVE  /\ t[side] # Nil /\ ~t[side].tree_deleted
              /\ \A k \in Axes : u.low[k] <= below[2][k] /\ below[2][k] <= u.high[k]
  <2>1. t[side] # Nil
    BY NothingInNil
  <2>2. t[side] \in NodesOver(Trees) /\ Right(t[side])
    BY <1>1, <2>1, TreesNodes
  <2>3. ~t[side].tree_deleted
    BY <2>2 DEF Right
  <2>4. \A k \in Axes : t[side].low[k] <= below[2][k] /\ below[2][k] <= t[side].high[k]
    BY <2>2 DEF Right
  <2>5. \A k \in Axes : u.low[k] <= t[side].low[k] /\ t[side].high[k] <= u.high[k]
    BY <1>6, <2>1, <2>3
  <2>6. below[2] \in [Axes -> Int] /\ u.low \in [Axes -> Int] /\ u.high \in [Axes -> Int]
        /\ t[side].low \in [Axes -> Int] /\ t[side].high \in [Axes -> Int]
    BY <1>3, <2>2 DEF NodesOver, Living, Places
  <2> HIDE DEF L, R
  <2>7. ASSUME NEW k \in Axes
        PROVE  u.low[k] <= below[2][k] /\ below[2][k] <= u.high[k]
    <3>1. /\ u.low[k] \in Int /\ u.high[k] \in Int /\ below[2][k] \in Int
          /\ t[side].low[k] \in Int /\ t[side].high[k] \in Int
      BY <2>6
    <3> QED BY <2>4, <2>5, <3>1
  <2> QED BY <2>1, <2>3, <2>7
<1>16. \A place \in all, k \in Axes : u.low[k] <= place[2][k] /\ place[2][k] <= u.high[k]
  BY <1>6, <1>14, <1>15
<1>17. u.tree_deleted => all = {}
  BY <1>5, <1>14, <1>15
<1>18. u.tree_downsample_deleted => u.tree_deleted
  <2> SUFFICES ASSUME u.tree_downsample_deleted PROVE u.tree_deleted
    OBVIOUS
  <2>1. \A s \in Sides : t[s] # Nil => t[s].tree_downsample_deleted
    BY <1>5
  <2>2. \A s \in Sides : t[s] # Nil => t[s].tree_deleted
    <3>1. \A s \in Sides : t[s] # Nil => Right(t[s])
      BY <1>1, TreesNodes
    <3> QED BY <2>1, <3>1 DEF Right
  <2> QED BY <1>5, <2>2
<1>19. \A side \in Sides : Pending(u, side) => NewLeaf(u[side])
  BY <1>7
<1>20. Right(u)
  BY <1>3, <1>9, <1>12, <1>13, <1>16, <1>17, <1>18, <1>19 DEF Right
<1> QED BY <1>3, <1>9, <1>20, TreesNodes DEF u, all, L, R

\* So a node that is made over two such trees is one, and holds its point and theirs.
LEMMA NodeTakesItsSons ==
  ASSUME NEW point \in [Axes -> Int], NEW axis \in Int, NEW left \in Trees, NEW right \in Trees
  PROVE  LET t == Node(point, axis, left, right)
         IN t \in Trees /\ Living(t) = Joined({<< <<>>, point>>}, Living(left), Living(right))
<1> DEFINE raw == [point |-> point, division_axis |-> axis, left |-> left, right |-> right,
          TreeSize |-> 0, invalid_point_num |-> 0, down_del_num |-> 0,
          point_deleted |-> FALSE, tree_deleted |-> FALSE,
          point_downsample_deleted |-> FALSE, tree_downsample_deleted |-> FALSE,
          need_push_down |-> [s \in Sides |-> FALSE], working_flag |-> FALSE,
          low |-> point, high |-> point]
<1>1. raw \in NodesOver(Trees) /\ Node(point, axis, left, right) = Update(raw)
  BY DEF NodesOver, Node
<1>2. /\ raw.left = left /\ raw.right = right /\ raw.point = point
      /\ raw.point_deleted = FALSE /\ raw.point_downsample_deleted = FALSE
      /\ \A s \in Sides : ~raw.need_push_down[s]
  OBVIOUS
<1> HIDE DEF raw
<1>3. \A side \in Sides : ~Pending(raw, side)
  BY <1>2 DEF Pending
<1>4. Update(raw) \in Trees /\ Living(Update(raw)) = Joined(Own(raw), Living(left), Living(right))
  BY <1>1, <1>2, <1>3, UpdateTakesTheSons
<1>5. Own(raw) = {<< <<>>, point>>}
  BY <1>2 DEF Own
<1> QED BY <1>1, <1>4, <1>5


\* How many of a tree's points lie in a set, and trees with the same points: as many
\* in every set.
Those(places, points) == {place \in places : place[2] \in points}
Copies(t, points) == Cardinality(Those(Living(t), points))
SamePoints(a, b) == \A points \in SUBSET [Axes -> Int] : Copies(a, points) = Copies(b, points)

LEMMA PartsCopies ==
  ASSUME NEW own, NEW L, NEW R, \A q \in own : q[1] = <<>>, IsFiniteSet(own),
         L \subseteq Places, R \subseteq Places, IsFiniteSet(L), IsFiniteSet(R), NEW points
  PROVE  Cardinality(Those(Joined(own, L, R), points)) =
           Cardinality(Those(own, points)) + Cardinality(Those(L, points)) + Cardinality(Those(R, points))
<1>1. ASSUME NEW side, NEW places
      PROVE  Those(Under(side, places), points) = Under(side, Those(places, points))
  <2>1. ASSUME NEW q \in Those(Under(side, places), points) PROVE q \in Under(side, Those(places, points))
    <3>1. PICK place \in places : q = << <<side>> \o place[1], place[2]>>
      BY <2>1 DEF Under, Those
    <3>2. place \in Those(places, points)
      BY <2>1, <3>1 DEF Those
    <3>3. q = << <<side>> \o place[1], place[2]>>
      BY <3>1
    <3> QED BY <3>2, <3>3 DEF Under
  <2>2. ASSUME NEW q \in Under(side, Those(places, points)) PROVE q \in Those(Under(side, places), points)
    <3>1. PICK place \in Those(places, points) : q = << <<side>> \o place[1], place[2]>>
      BY <2>2 DEF Under, Those
    <3>2. q \in Under(side, places) /\ q[2] \in points
      BY <3>1 DEF Under, Those
    <3> QED BY <3>2 DEF Those
  <2> QED BY <2>1, <2>2
<1>2. Those(Joined(own, L, R), points) = Joined(Those(own, points), Those(L, points), Those(R, points))
  <2>1. Those(Joined(own, L, R), points) =
          Those(own, points) \union Those(Under("left", L), points) \union Those(Under("right", R), points)
    BY DEF Joined, Those
  <2> QED BY <1>1, <2>1 DEF Joined
<1>3. /\ \A q \in Those(own, points) : q[1] = <<>>
      /\ Those(L, points) \subseteq Places /\ Those(R, points) \subseteq Places
      /\ Those(own, points) \subseteq own /\ Those(L, points) \subseteq L /\ Those(R, points) \subseteq R
  BY DEF Those
<1>4. IsFiniteSet(Those(own, points)) /\ IsFiniteSet(Those(L, points)) /\ IsFiniteSet(Those(R, points))
  BY <1>3, FS_Subset
<1>5. Cardinality(Joined(Those(own, points), Those(L, points), Those(R, points))) =
        Cardinality(Those(own, points)) + Cardinality(Those(L, points)) + Cardinality(Those(R, points))
  BY <1>3, <1>4, PartsCount
<1> QED BY <1>2, <1>5

\* The marks of a deleted node leave nothing alive in its son.
LEMMA DeadIsMarked ==
  ASSUME NEW son \in NodesOver(Trees), NEW t \in NodesOver(Trees),
         t.tree_deleted
  PROVE  Marked(son, t) \in Trees /\ Living(Marked(son, t)) = {}
<1> DEFINE m == Marked(son, t)
<1>1. m \in NodesOver(Trees) /\ \A s \in Sides : m.need_push_down[s]
  BY MarkedFields
<1>2. m.tree_deleted /\ m.point_deleted /\ m.invalid_point_num = m.TreeSize
  BY MarkedFields
<1> HIDE DEF m
<1>3. m \in Trees /\ Living(m) = {}
  BY <1>1, <1>2, DeadIsRight
<1> QED BY <1>3 DEF m

LEMMA CopiesOfParts ==
  ASSUME NEW t \in NodesOver(Trees), NEW points,
         \A side \in Sides : Reached(t, side) \in Trees
  PROVE  /\ IsFiniteSet(Living(t))
         /\ Copies(t, points) = Cardinality(Those(Own(t), points))
              + Copies(Reached(t, "left"), points) + Copies(Reached(t, "right"), points)
<1> DEFINE L == Living(Reached(t, "left"))
           R == Living(Reached(t, "right"))
           own == Own(t)
<1>1. "left" \in Sides /\ "right" \in Sides
  BY DEF Sides
<1>2. L \subseteq Places /\ R \subseteq Places /\ IsFiniteSet(L) /\ IsFiniteSet(R)
  BY <1>1, LivingAreCounted
<1>3. (\A q \in own : q[1] = <<>>) /\ IsFiniteSet(own)
  <2>1. \A q \in own : q[1] = <<>>
    BY DEF Own
  <2>2. IsFiniteSet(own)
    BY FS_EmptySet, FS_Singleton DEF Own
  <2> QED BY <2>1, <2>2
<1>4. Living(t) = Joined(own, L, R)
  BY LivingParts, NilIsNoNode DEF NodesOver
<1> HIDE DEF L, R, own
<1>5. IsFiniteSet(Living(t))
  BY <1>2, <1>3, <1>4, PartsCount
<1>6. Cardinality(Those(Joined(own, L, R), points)) =
        Cardinality(Those(own, points)) + Cardinality(Those(L, points)) + Cardinality(Those(R, points))
  BY <1>2, <1>3, PartsCopies
<1> QED BY <1>4, <1>5, <1>6 DEF Copies, L, R, own

\* A tree may be replaced by one with the same points, as a search that pushes marks
\* down and a rebuild do, without calling Update above it: what the nodes above tell
\* stays true, and the points the same.  A tree that still waits for the marks of a
\* deleted node may be replaced by any: multi_thread_rebuild's walk to the root may
\* end there.
THEOREM SonsMayBeReplaced ==
  ASSUME NEW t \in Trees, t # Nil, NEW new \in [Sides -> Trees],
         \A side \in Sides :
           /\ t[side] = Nil => new[side] = Nil
           /\ IF Pending(t, side) THEN t.tree_deleted ELSE SamePoints(t[side], new[side])
  PROVE  LET u == [t EXCEPT !.left = new["left"], !.right = new["right"]]
         IN u \in Trees /\ SamePoints(t, u)
<1> DEFINE l == new["left"]
           r == new["right"]
           u == [t EXCEPT !.left = l, !.right = r]
<1>1. t \in NodesOver(Trees) /\ Right(t)
  BY TreesNodes
<1>2. "left" \in Sides /\ "right" \in Sides /\ \A side \in Sides : side \in {"left", "right"}
  BY DEF Sides
<1>3. /\ u \in NodesOver(Trees)
      /\ u.left = new["left"] /\ u.right = new["right"] /\ u.need_push_down = t.need_push_down
      /\ u.point = t.point /\ u.low = t.low /\ u.high = t.high
      /\ u.TreeSize = t.TreeSize /\ u.invalid_point_num = t.invalid_point_num
      /\ u.point_deleted = t.point_deleted /\ u.tree_deleted = t.tree_deleted
      /\ u.point_downsample_deleted = t.point_downsample_deleted
      /\ u.tree_downsample_deleted = t.tree_downsample_deleted
  <2>1. l \in Trees /\ r \in Trees
    BY <1>2
  <2> HIDE DEF l, r
  <2>2. /\ u \in NodesOver(Trees)
        /\ u.left = l /\ u.right = r /\ u.need_push_down = t.need_push_down
        /\ u.point = t.point /\ u.low = t.low /\ u.high = t.high
        /\ u.TreeSize = t.TreeSize /\ u.invalid_point_num = t.invalid_point_num
        /\ u.point_deleted = t.point_deleted /\ u.tree_deleted = t.tree_deleted
        /\ u.point_downsample_deleted = t.point_downsample_deleted
        /\ u.tree_downsample_deleted = t.tree_downsample_deleted
    BY <1>1, <2>1 DEF NodesOver
  <2> QED BY <2>2 DEF l, r
<1> HIDE DEF u
<1>4. \A side \in Sides : u[side] = new[side] /\ new[side] \in Trees
  BY <1>2, <1>3, SonsOf
<1>5. ASSUME NEW side \in Sides PROVE Reached(t, side) \in Trees
  BY ReachedIsATree
<1>6. ASSUME NEW side \in Sides
      PROVE  /\ Reached(u, side) \in Trees
             /\ SamePoints(Reached(t, side), Reached(u, side))
  <2>1. CASE ~Pending(t, side)
    <3>1. ~Pending(u, side)
      BY <1>3, <1>4, <2>1 DEF Pending
    <3>2. Reached(t, side) = t[side] /\ Reached(u, side) = new[side]
      BY <1>4, <2>1, <3>1 DEF Reached
    <3>3. SamePoints(t[side], new[side])
      BY <2>1
    <3> QED BY <1>4, <3>2, <3>3
  <2>2. CASE Pending(t, side)
    <3>1. t.tree_deleted /\ u.tree_deleted /\ t.need_push_down[side]
      BY <1>3, <2>2 DEF Pending
    <3>2. Living(Reached(t, side)) = {}
      <4>1. t[side] \in NodesOver(Trees)
        BY <1>1, <2>2, SonsOf, TreesNodes DEF Pending
      <4>2. Living(Marked(t[side], t)) = {}
        BY <1>1, <3>1, <4>1, DeadIsMarked
      <4> QED BY <2>2, <4>2 DEF Reached
    <3>3. Reached(u, side) \in Trees /\ Living(Reached(u, side)) = {}
      <4>1. CASE new[side] = Nil
        <5>1. Reached(u, side) = Nil
          BY <1>4, <4>1 DEF Reached, Pending
        <5> QED BY <5>1, NothingInNil, TreesNodes
      <4>2. CASE new[side] # Nil
        <5>1. u[side] \in NodesOver(Trees)
          BY <1>4, <4>2, TreesNodes
        <5>2. Marked(u[side], u) \in Trees /\ Living(Marked(u[side], u)) = {}
          BY <1>3, <3>1, <5>1, DeadIsMarked
        <5>3. Reached(u, side) = Marked(u[side], u)
          BY <1>3, <1>4, <3>1, <4>2 DEF Reached, Pending
        <5> QED BY <5>2, <5>3
      <4> QED BY <4>1, <4>2
    <3> QED BY <3>2, <3>3 DEF SamePoints, Copies
  <2> QED BY <2>1, <2>2
<1>7. SamePoints(t, u)
  <2> SUFFICES ASSUME NEW points \in SUBSET [Axes -> Int]
               PROVE  Copies(t, points) = Copies(u, points)
    BY DEF SamePoints
  <2>1. Own(u) = Own(t)
    BY <1>3 DEF Own
  <2>2. Copies(t, points) = Cardinality(Those(Own(t), points))
          + Copies(Reached(t, "left"), points) + Copies(Reached(t, "right"), points)
    BY <1>1, <1>5, CopiesOfParts
  <2>3. Copies(u, points) = Cardinality(Those(Own(u), points))
          + Copies(Reached(u, "left"), points) + Copies(Reached(u, "right"), points)
    BY <1>3, <1>6, CopiesOfParts
  <2>4. /\ Copies(Reached(t, "left"), points) = Copies(Reached(u, "left"), points)
        /\ Copies(Reached(t, "right"), points) = Copies(Reached(u, "right"), points)
    BY <1>2, <1>6 DEF SamePoints
  <2> QED BY <2>1, <2>2, <2>3, <2>4
<1>8. IsFiniteSet(Living(t)) /\ IsFiniteSet(Living(u))
  BY <1>1, <1>3, <1>5, <1>6, CopiesOfParts
<1>9. /\ \A place \in Living(t) : place[2] \in [Axes -> Int]
      /\ \A place \in Living(u) : place[2] \in [Axes -> Int]
  BY DEF Living, Places
<1>10. Cardinality(Living(t)) = Cardinality(Living(u))
  <2>1. Those(Living(t), [Axes -> Int]) = Living(t) /\ Those(Living(u), [Axes -> Int]) = Living(u)
    BY <1>9 DEF Those
  <2>2. Copies(t, [Axes -> Int]) = Copies(u, [Axes -> Int])
    BY <1>7 DEF SamePoints
  <2> QED BY <2>1, <2>2 DEF Copies
<1>11. ASSUME NEW place \in Living(u)
       PROVE  \E other \in Living(t) : other[2] = place[2]
  <2> DEFINE one == {place[2]}
             here == Those(Living(t), one)
             there == Those(Living(u), one)
  <2>1. one \in SUBSET [Axes -> Int]
    BY <1>9
  <2>2. Cardinality(here) = Cardinality(there)
    BY <1>7, <2>1 DEF SamePoints, Copies
  <2>3. place \in there /\ here \subseteq Living(t) /\ there \subseteq Living(u)
    BY DEF Those
  <2>4. \A other \in here : other \in Living(t) /\ other[2] = place[2]
    BY DEF Those
  <2> HIDE DEF here, there
  <2>5. IsFiniteSet(here) /\ IsFiniteSet(there)
    BY <1>8, <2>3, FS_Subset
  <2>6. Cardinality(there) # 0
    BY <2>3, <2>5, FS_EmptySet
  <2>7. here # {}
    BY <2>2, <2>6, FS_EmptySet
  <2> QED BY <2>4, <2>7
<1>12. u.tree_deleted => Living(u) = {}
  BY <1>1, <1>3, <1>11 DEF Right
<1>13. \A place \in Living(u), k \in Axes : u.low[k] <= place[2][k] /\ place[2][k] <= u.high[k]
  <2> SUFFICES ASSUME NEW place \in Living(u), NEW k \in Axes
               PROVE  u.low[k] <= place[2][k] /\ place[2][k] <= u.high[k]
    OBVIOUS
  <2>1. PICK other \in Living(t) : other[2] = place[2]
    BY <1>11
  <2>2. t.low[k] <= other[2][k] /\ other[2][k] <= t.high[k]
    BY <1>1 DEF Right
  <2> QED BY <1>3, <2>1, <2>2
<1>14. \A side \in Sides : Pending(u, side) => u.tree_deleted
  BY <1>3, <1>4 DEF Pending
<1>15. Right(u)
  BY <1>1, <1>3, <1>8, <1>10, <1>12, <1>13, <1>14 DEF Right
<1> QED BY <1>3, <1>7, <1>15, TreesNodes DEF u

\* The partial sums of the first n terms.
IsSum(s, f, n) == /\ s \in [0 .. n -> Nat] /\ s[0] = 0
                  /\ \A k \in 1 .. n : s[k] = s[k - 1] + f[k]

\* A sum of greater terms is no less: the sum is a recursive function, and there
\* is one.
LEMMA SumsGrow ==
  ASSUME NEW f \in [Axes -> Nat], NEW g \in [Axes -> Nat], \A k \in Axes : f[k] <= g[k]
  PROVE  Sum(f) <= Sum(g)
<1> DEFINE Upto(h) == CHOOSE s : s = [k \in 0 .. Dim |-> IF k = 0 THEN 0 ELSE s[k - 1] + h[k]]
<1>1. Dim \in Nat
  BY DimAssumption
<1>2. ASSUME NEW h \in [Axes -> Nat]
      PROVE  IsSum(Upto(h), h, Dim) /\ Sum(h) = Upto(h)[Dim]
  <2> DEFINE Bad == {n \in Nat : n <= Dim /\ ~\E s : IsSum(s, h, n)}
  <2>1. Bad = {}
    <3> SUFFICES ASSUME Bad # {} PROVE FALSE
      OBVIOUS
    <3>1. PICK n \in Bad : \A j \in Bad : n <= j
      BY LeastNumber
    <3>2. CASE n = 0
      <4>1. IsSum([k \in 0 .. 0 |-> 0], h, 0)
        BY DEF IsSum
      <4> QED BY <3>2, <4>1
    <3>3. CASE n # 0
      <4>1. n - 1 \in Nat /\ n - 1 \notin Bad /\ n - 1 <= Dim
        <5>1. n \in Nat /\ n <= Dim /\ n - 1 \in Nat /\ n - 1 <= Dim /\ ~(n <= n - 1)
          BY <1>1, <3>3
        <5> HIDE DEF Bad
        <5> QED BY <3>1, <5>1
      <4>2. PICK s : IsSum(s, h, n - 1)
        BY <4>1
      <4> DEFINE longer == [k \in 0 .. n |-> IF k = n THEN s[n - 1] + h[n] ELSE s[k]]
      <4>3. h[n] \in Nat
        BY <1>1, <3>1, <3>3 DEF Axes
      <4>4. s \in [0 .. n - 1 -> Nat] /\ s[0] = 0 /\ \A k \in 1 .. n - 1 : s[k] = s[k - 1] + h[k]
        BY <4>2 DEF IsSum
      <4>5. longer \in [0 .. n -> Nat] /\ longer[0] = 0
        BY <3>3, <4>1, <4>3, <4>4
      <4>6. ASSUME NEW k \in 1 .. n PROVE longer[k] = longer[k - 1] + h[k]
        <5>1. k \in 0 .. n /\ k - 1 \in 0 .. n /\ k - 1 # n
          BY <4>6
        <5>2. longer[k - 1] = s[k - 1]
          BY <5>1
        <5>3. CASE k = n
          BY <5>1, <5>2, <5>3
        <5>4. CASE k # n
          <6>1. k \in 1 .. n - 1 /\ longer[k] = s[k]
            BY <5>1, <5>4
          <6> QED BY <4>4, <5>2, <6>1
        <5> QED BY <5>3, <5>4
      <4> HIDE DEF longer
      <4>7. IsSum(longer, h, n)
        BY <4>5, <4>6 DEF IsSum
      <4> QED BY <4>7
    <3> QED BY <3>2, <3>3
  <2>2. PICK s : IsSum(s, h, Dim)
    BY <1>1, <2>1
  <2>3. s = [k \in 0 .. Dim |-> IF k = 0 THEN 0 ELSE s[k - 1] + h[k]]
    BY <1>1, <2>2 DEF IsSum
  <2>4. Upto(h) = [k \in 0 .. Dim |-> IF k = 0 THEN 0 ELSE Upto(h)[k - 1] + h[k]]
    BY <2>3
  <2>5. Sum(h) = Upto(h)[Dim]
    BY DEF Sum
  <2> HIDE DEF Upto
  <2> DEFINE u == Upto(h)
             Wrong == {n \in Nat : n <= Dim /\ u[n] \notin Nat}
  <2>6. u[0] = 0 /\ \A k \in 1 .. Dim : u[k] = u[k - 1] + h[k]
    BY <1>1, <2>4
  <2>7. Wrong = {}
    <3> SUFFICES ASSUME Wrong # {} PROVE FALSE
      OBVIOUS
    <3>1. PICK n \in Wrong : \A j \in Wrong : n <= j
      BY LeastNumber
    <3>2. n # 0
      BY <2>6
    <3>3. n - 1 \in Nat /\ n - 1 \notin Wrong /\ n \in 1 .. Dim
      BY <1>1, <3>1, <3>2
    <3>4. h[n] \in Nat /\ u[n] = u[n - 1] + h[n] /\ u[n - 1] \in Nat
      BY <1>1, <2>6, <3>3 DEF Axes
    <3> HIDE DEF u
    <3> QED BY <3>1, <3>4
  <2>8. u \in [0 .. Dim -> Nat]
    <3>1. \A k \in 0 .. Dim : u[k] \in Nat
      BY <1>1, <2>7
    <3>2. u = [k \in 0 .. Dim |-> u[k]]
      BY <2>4
    <3> HIDE DEF u
    <3> QED BY <3>1, <3>2
  <2> QED BY <2>5, <2>6, <2>8 DEF IsSum
<1> HIDE DEF Upto
<1> DEFINE F == Upto(f)
           G == Upto(g)
           Worse == {n \in Nat : n <= Dim /\ ~(F[n] <= G[n])}
<1>3. IsSum(F, f, Dim) /\ IsSum(G, g, Dim) /\ Sum(f) = F[Dim] /\ Sum(g) = G[Dim]
  BY <1>2
<1> HIDE DEF F, G
<1>4. Worse = {}
  <2> SUFFICES ASSUME Worse # {} PROVE FALSE
    OBVIOUS
  <2>1. PICK n \in Worse : \A j \in Worse : n <= j
    BY LeastNumber
  <2>2. n # 0
    BY <1>3 DEF IsSum
  <2>3. n - 1 \in Nat /\ n - 1 \notin Worse /\ n \in 1 .. Dim /\ n - 1 \in 0 .. Dim
    BY <1>1, <2>1, <2>2
  <2>4. /\ F[n - 1] <= G[n - 1] /\ F[n - 1] \in Nat /\ G[n - 1] \in Nat
        /\ F[n] = F[n - 1] + f[n] /\ G[n] = G[n - 1] + g[n]
    BY <1>1, <1>3, <2>3 DEF IsSum
  <2>5. f[n] \in Nat /\ g[n] \in Nat /\ f[n] <= g[n]
    BY <2>3 DEF Axes
  <2>6. F[n] <= G[n]
    BY <2>4, <2>5
  <2> QED BY <2>1, <2>6
<1>5. F[Dim] <= G[Dim]
  BY <1>1, <1>4
<1> QED BY <1>3, <1>5

LEMMA SquaresGrow ==
  ASSUME NEW a \in Int, NEW b \in Int, \/ 0 <= a /\ a <= b
                                       \/ b <= a /\ a <= 0
                                       \/ a = 0
  PROVE  Squared(a) \in Nat /\ Squared(b) \in Nat /\ Squared(a) <= Squared(b)
<1>1. ASSUME NEW x \in Nat, NEW y \in Nat, x <= y
      PROVE  x * x \in Nat /\ y * y \in Nat /\ x * x <= y * y
  <2>1. PICK d \in Nat : y = x + d
    <3>1. y - x \in Nat /\ y = x + (y - x)
      BY <1>1
    <3> QED BY <3>1
  <2>2. y * y = x * x + 2 * (x * d) + d * d
    BY <2>1
  <2>3. x * x \in Nat /\ x * d \in Nat /\ d * d \in Nat
    OBVIOUS
  <2> QED BY <2>2, <2>3
<1>2. ASSUME NEW x \in Int PROVE x * x = (-x) * (-x)
  OBVIOUS
<1>3. CASE 0 <= a /\ a <= b
  BY <1>1, <1>3 DEF Squared
<1>4. CASE b <= a /\ a <= 0
  <2>1. -a \in Nat /\ -b \in Nat /\ -a <= -b
    BY <1>4
  <2> QED BY <1>1, <1>2, <2>1 DEF Squared
<1>5. CASE a = 0
  <2>1. Squared(a) = 0
    BY <1>5 DEF Squared
  <2>2. Squared(b) \in Nat
    <3>1. b \in Nat \/ -b \in Nat
      OBVIOUS
    <3> QED BY <1>1, <1>2, <3>1 DEF Squared
  <2> QED BY <2>1, <2>2
<1> QED BY <1>3, <1>4, <1>5

\* What a search or a deletion tells by a range is true of every living point: it
\* turns back where none is in the box, goes no further where all are, and no point
\* is nearer than calc_box_dist.
THEOREM RangesTell ==
  ASSUME NEW t \in Trees, t # Nil, NEW place \in Living(t),
         NEW box \in [min : [Axes -> Int], max : [Axes -> Int]], NEW point \in [Axes -> Int]
  PROVE  /\ Misses(t, box) => ~InBox(place[2], box)
         /\ Covers(t, box) => InBox(place[2], box)
         /\ calc_box_dist(t, point) <= calc_dist(point, place[2])
<1> DEFINE p == place[2]
           nearest == [k \in Axes |-> IF point[k] < t.low[k] THEN t.low[k]
                                      ELSE IF point[k] > t.high[k] THEN t.high[k]
                                      ELSE point[k]]
<1>1. t \in NodesOver(Trees) /\ \A k \in Axes : t.low[k] <= p[k] /\ p[k] <= t.high[k]
  BY TreesNodes DEF Right
<1>2. p \in [Axes -> Int] /\ t.low \in [Axes -> Int] /\ t.high \in [Axes -> Int]
  BY <1>1 DEF NodesOver, Living, Places
<1>3. \A k \in Axes : /\ p[k] \in Int /\ t.low[k] \in Int /\ t.high[k] \in Int
                      /\ box.min[k] \in Int /\ box.max[k] \in Int /\ point[k] \in Int
  BY <1>2
<1> HIDE DEF p
<1>4. Misses(t, box) => ~InBox(p, box)
  BY <1>1, <1>3 DEF Misses, InBox
<1>5. Covers(t, box) => InBox(p, box)
  BY <1>1, <1>3 DEF Covers, InBox
<1>6. calc_box_dist(t, point) <= calc_dist(point, p)
  <2> DEFINE f == [k \in Axes |-> Squared(point[k] - nearest[k])]
             g == [k \in Axes |-> Squared(point[k] - p[k])]
  <2>1. ASSUME NEW k \in Axes
        PROVE  f[k] \in Nat /\ g[k] \in Nat /\ f[k] <= g[k]
    <3> DEFINE a == point[k] - nearest[k]
               b == point[k] - p[k]
    <3>1. /\ a \in Int /\ b \in Int
          /\ \/ 0 <= a /\ a <= b
             \/ b <= a /\ a <= 0
             \/ a = 0
      BY <1>1, <1>3
    <3>2. f[k] = Squared(a) /\ g[k] = Squared(b)
      OBVIOUS
    <3> HIDE DEF a, b, f, g
    <3> QED BY <3>1, <3>2, SquaresGrow
  <2>2. f \in [Axes -> Nat] /\ g \in [Axes -> Nat]
    BY <2>1
  <2>3. Sum(f) <= Sum(g)
    <3> HIDE DEF f, g
    <3> QED BY <2>1, <2>2, SumsGrow
  <2>4. calc_box_dist(t, point) = Sum(f) /\ calc_dist(point, p) = Sum(g)
    BY Zenon DEF calc_box_dist, calc_dist
  <2> QED BY <2>3, <2>4
<1> QED BY <1>4, <1>5, <1>6 DEF p

-------------------------------------------------------------------------------
(* The inductive invariant.                                                *)

\* Where the rebuild thread works on the subtree that Rebuild_Ptr points to,
Rebuilding == {"lock_search", "flatten", "unlock_search", "drain", "replay",
               "lock_search_again", "swap", "unlock_search_again", "forget"}
\* where it keeps nearest searches out,
Excluding == {"flatten", "unlock_search", "swap", "unlock_search_again"}
\* and where it holds working_flag_mutex.
Holding == {"lock_search", "flatten", "unlock_search", "lock_search_again", "swap",
            "unlock_search_again", "forget", "unlock_working"}

\* Rebuild_Ptr stays as the thread that relies on it has read it.
PtrInv ==
  /\ ptr_held <=> rpc \notin {"start", "terminated"}
  /\ rpc \in Rebuilding => Rebuild_Ptr
  /\ rpc \in {"unlock_working", "clear_flag", "delete_nodes"} => ~Rebuild_Ptr
  /\ mpc = "direct" => ~Rebuild_Ptr

\* A search that a rebuild could catch in the nodes it frees.
Protected == at_root => doing = "nearest"

\* search_mutex_counter is -1 or counts the one search there can be; a search that
\* is neither counted nor holds search_flag_mutex has found Rebuild_Ptr null.
SearchInv ==
  /\ reading # "none" <=> mpc = "reading"
  /\ counted => mpc = "reading"
  /\ search_held => mpc = "reading"
  /\ rpc \in Excluding => ~counted
  /\ search_mutex_counter = IF rpc \in Excluding THEN -1 ELSE IF counted THEN 1 ELSE 0
  /\ mpc = "reading" /\ Protected => counted \/ search_held \/ ~Rebuild_Ptr
  /\ reading = "old" /\ Protected => rpc = "unlock_search_again" /\ search_held

\* While every rebuild has copied a point, working_flag_mutex excludes.
HoldInv ==
  ~emptied =>
    /\ working = "main" <=> mpc \in {"apply", "log"}
    /\ working = "rebuild" <=> rpc \in Holding
    /\ rpc = "unlock_search" => new_root # NoPoint

\* The mark of a deleted ancestor is there only until the next request that
\* comes by pushes it down, first of all.
TodoInv ==
  /\ todo # <<>> <=> mpc \in {"test", "direct", "lock", "apply", "log"}
  /\ covered => ~at_root
  /\ covered => \/ mpc \in {"idle", "join", "joined"}
                \/ mpc \in {"test", "direct", "lock", "apply"} /\ todo[1] = PushDown

\* What the histories exclude.
Sound == ~error /\ ~emptied /\ ~overflown /\ ~revived

\* The operations that the mapping thread has still to apply make the tree what
\* it should be.
After(c, s) == IF s = <<>> THEN c ELSE ApplyAll(c, s)
Remaining == IF mpc = "log" THEN Rest ELSE todo
TruthInv == Sound => After(Contents, Remaining) = truth

\* Rebuild_Logger is a ring of counter operations from head on, ...
Ring(queue) ==
  /\ queue.counter <= Q_LEN
  /\ queue.tail = (queue.head + queue.counter) % Q_LEN
RingInv ==
  /\ Rebuild_Logger.is_empty <=> Rebuild_Logger.counter = 0
  /\ ~overflown => Ring(Rebuild_Logger)

\* ... the i-th of which is
Logged(queue, i) == queue.q[(queue.head + i) % Q_LEN]

\* The logged operations, run one after the other, turn c into d: steps is what
\* there is after each of them.
IsReplay(steps, c, queue, d) ==
  /\ steps \in [0 .. queue.counter -> Bags]
  /\ steps[0] = c /\ steps[queue.counter] = d
  /\ \A i \in 0 .. queue.counter - 1 : steps[i + 1] = Apply(steps[i], Logged(queue, i))
Replays(c, queue, d) == \E steps \in [0 .. queue.counter -> Bags] : IsReplay(steps, c, queue, d)

\* An update is logged after it is applied: what the log leads to is the tree
\* before the update that is not logged yet.
LeadsToTree(c) ==
  \E t \in Bags : /\ Replays(c, Rebuild_Logger, t)
                  /\ tree = IF mpc = "log" THEN ApplyAll(t, Batch) ELSE t

Replayed == IF rpc = "replay" THEN Apply(new_root, operation) ELSE new_root

\* From the copying to the swapping the new tree is the old one, but for what is
\* logged and, of that, in the rebuild thread's hand.
CopyInv ==
  Sound =>
    /\ rpc \in Rebuilding \ {"unlock_search_again", "forget"} => rebuild_flag
    /\ rpc \in {"lock_search", "flatten", "unlock_search"} => Rebuild_Logger.counter = 0
    /\ rpc \in {"unlock_search", "lock_search_again", "swap"} => new_root = tree
    /\ rpc \in {"drain", "replay"} => LeadsToTree(Replayed)

RebuildInv ==
  /\ TypeOK /\ PtrInv /\ SearchInv /\ HoldInv /\ TodoInv /\ RingInv /\ TruthInv /\ CopyInv

-------------------------------------------------------------------------------
(* Lemmas about the operators.                                             *)

USE RebuildAssumption DEF treeVars, lockVars, searchVars, mainVars, rebuildVars, historyVars

LEMMA ApplyType ==
  ASSUME NEW c \in Bags, NEW op \in Operations
  PROVE  Apply(c, op) \in Bags
  BY DEF Bags, Apply, Operations

LEMMA OperationTypes ==
  /\ PushDown \in Operations
  /\ \A p \in Points : Add(p) \in Operations
  /\ \A box \in SUBSET Points : Delete(box) \in Operations
  /\ NoPoint \in Bags
  BY DEF PushDown, Add, Delete, Operations, NoPoint, Bags

\* Whatever is in the subtree, pushing a deleted ancestor's mark down empties it.
LEMMA PushDownEmpties == ASSUME NEW c \in Bags PROVE Apply(c, PushDown) = NoPoint
  BY DEF Apply, PushDown, Delete, NoPoint

LEMMA OneOrTwo ==
  ASSUME NEW s \in Seq(Operations), s # <<>>, Len(s) <= 2
  PROVE  /\ Len(s) \in {1, 2}
         /\ s[1] \in Operations
         /\ Len(s) = 2 => s[2] \in Operations
<1>1. Len(s) \in Nat /\ Len(s) # 0 OBVIOUS
<1>2. Len(s) \in {1, 2}
  <2> DEFINE n == Len(s)
  <2>1. n \in Nat /\ n # 0 /\ n <= 2 BY <1>1
  <2> HIDE DEF n
  <2>2. n \in {1, 2} BY <2>1
  <2> QED BY <2>2 DEF n
<1>3. \A i \in 1 .. Len(s) : s[i] \in Operations OBVIOUS
<1> QED BY <1>2, <1>3

LEMMA ApplyAllType ==
  ASSUME NEW c \in Bags, NEW s \in Seq(Operations), s # <<>>, Len(s) <= 2
  PROVE  ApplyAll(c, s) \in Bags
<1>1. CASE Len(s) = 1
  <2>1. s[1] \in Operations BY <1>1
  <2> QED BY <1>1, <2>1, ApplyType DEF ApplyAll
<1>2. CASE Len(s) = 2
  <2>1. s[1] \in Operations /\ s[2] \in Operations BY <1>2
  <2>2. Apply(c, s[1]) \in Bags BY <2>1, ApplyType
  <2> QED BY <1>2, <2>1, <2>2, ApplyType DEF ApplyAll
<1> QED BY <1>1, <1>2, OneOrTwo

\* An update is one operation or two; what is left is applied by the next one.
LEMMA BatchAndRest ==
  ASSUME todo \in Seq(Operations), todo # <<>>, Len(todo) <= 2
  PROVE  /\ Batch \in Seq(Operations) /\ Batch # <<>> /\ Len(Batch) <= 2
         /\ Batch[1] = todo[1]
         /\ Rest \in Seq(Operations) /\ Len(Rest) <= 1
         /\ \A c : After(ApplyAll(c, Batch), Rest) = ApplyAll(c, todo)
<1>1. CASE at_root BY <1>1 DEF Batch, Rest, After
<1>2. CASE ~at_root
  <2>0. Len(todo) \in {1, 2} BY OneOrTwo
  <2>1. Batch = <<todo[1]>>
    <3>1. SubSeq(todo, 1, 1) = [i \in 1 .. 1 |-> todo[i]] BY <2>0
    <3>2. [i \in 1 .. 1 |-> todo[i]] = <<todo[1]>> OBVIOUS
    <3> QED BY <1>2, <3>1, <3>2 DEF Batch
  <2>2. Rest = Tail(todo) /\ Len(Rest) = Len(todo) - 1 BY <1>2 DEF Rest
  <2>3. todo[1] \in Operations OBVIOUS
  <2>4. ASSUME NEW c PROVE After(ApplyAll(c, Batch), Rest) = ApplyAll(c, todo)
    <3>1. ApplyAll(c, Batch) = Apply(c, todo[1]) BY <2>1 DEF ApplyAll
    <3>2. CASE Len(todo) = 1
      BY <2>2, <3>1, <3>2 DEF After, ApplyAll
    <3>3. CASE Len(todo) = 2
      <4>0. \A i \in 1 .. Len(todo) - 1 : Tail(todo)[i] = todo[i + 1] OBVIOUS
      <4>1. Len(Rest) = 1 /\ Rest[1] = todo[2]
        <5>1. 1 \in 1 .. Len(todo) - 1 /\ 1 + 1 = 2 BY <3>3
        <5> QED BY <4>0, <2>2, <3>3, <5>1
      <4> QED BY <3>1, <3>3, <4>1, <2>1 DEF After, ApplyAll
    <3> QED BY <2>0, <3>2, <3>3
  <2> QED BY <2>0, <2>1, <2>2, <2>3, <2>4
<1> QED BY <1>1, <1>2

\* A request has one or two operations to apply, or three actions to search.
LEMMA BeginTodo ==
  ASSUME NEW what, NEW operations \in Seq(Operations), Len(operations) <= 1,
         todo \in Seq(Operations), Begin(what, operations)
  PROVE  /\ todo' \in Seq(Operations) /\ Len(todo') <= 2
         /\ covered => todo' # <<>> /\ todo'[1] = PushDown
         /\ mpc' = IF todo' = <<>> THEN "search" ELSE "test"
  BY OperationTypes DEF Begin

LEMMA PushType ==
  ASSUME NEW queue \in Logger!Queues(Operations), NEW op \in Operations
  PROVE  Logger!push(queue, op) \in Logger!Queues(Operations)
<1>1. /\ queue.q \in [0 .. Q_LEN - 1 -> Operations] /\ queue.tail \in 0 .. Q_LEN - 1
      /\ queue.counter \in Nat
  BY DEF Logger!Queues
<1>2. (queue.tail + 1) % Q_LEN \in 0 .. Q_LEN - 1 BY <1>1
<1>3. [queue.q EXCEPT ![queue.tail] = op] \in [0 .. Q_LEN - 1 -> Operations] BY <1>1
<1>4. queue.counter + 1 \in Nat BY <1>1
<1> QED BY <1>2, <1>3, <1>4 DEF Logger!push, Logger!Queues

LEMMA PopType ==
  ASSUME NEW queue \in Logger!Queues(Operations)
  PROVE  /\ Logger!pop(queue) \in Logger!Queues(Operations)
         /\ Logger!front(queue) \in Operations
<1>1. /\ queue.q \in [0 .. Q_LEN - 1 -> Operations] /\ queue.head \in 0 .. Q_LEN - 1
      /\ queue.counter \in Nat
  BY DEF Logger!Queues
<1>2. (queue.head + 1) % Q_LEN \in 0 .. Q_LEN - 1 BY <1>1
<1>3. queue.counter # 0 => queue.counter - 1 \in Nat BY <1>1
<1>4. (queue.is_empty \/ queue.counter = 1) \in BOOLEAN OBVIOUS
<1>5. Logger!pop(queue) \in Logger!Queues(Operations)
  BY <1>2, <1>3, <1>4 DEF Logger!pop, Logger!Queues
<1> QED BY <1>1, <1>5 DEF Logger!front

LEMMA PushAllType ==
  ASSUME NEW queue \in Logger!Queues(Operations),
         NEW s \in Seq(Operations), s # <<>>, Len(s) <= 2
  PROVE  PushAll(queue, s) \in Logger!Queues(Operations)
<1>1. s[1] \in Operations /\ (Len(s) # 1 => s[2] \in Operations) BY OneOrTwo
<1>2. Logger!push(queue, s[1]) \in Logger!Queues(Operations) BY <1>1, PushType
<1> QED BY <1>1, <1>2, PushType DEF PushAll

-------------------------------------------------------------------------------
(* The locks and the counter.                                              *)

\* The four requests that Begin makes.
BeginRequest ==
  \E what \in {"update", "downsample", "nearest"} :
    \E operations \in Seq(Operations) :
      /\ Begin(what, operations)
      /\ Len(operations) <= 1
      /\ what = "update" <=> operations # <<>>
      /\ what = "nearest" => ~covered
      /\ truth' = After(truth, operations)

LEMMA BeginIsRequest ==
  ASSUME NEW what \in {"update", "downsample", "nearest"},
         NEW operations \in Seq(Operations), Len(operations) <= 1,
         Begin(what, operations), what = "update" <=> operations # <<>>,
         what = "nearest" => ~covered, truth' = After(truth, operations)
  PROVE  BeginRequest
  BY Zenon DEF BeginRequest

LEMMA RequestCases ==
  ASSUME Request
  PROVE  BeginRequest \/ DeleteAncestor \/ StopThread
<1>1. ASSUME NEW op \in Operations, Begin("update", <<op>>), truth' = Apply(truth, op)
      PROVE  BeginRequest
  <2>1. <<op>> \in Seq(Operations) /\ Len(<<op>>) = 1 /\ <<op>> # <<>> OBVIOUS
  <2>2. After(truth, <<op>>) = Apply(truth, op) BY DEF After, ApplyAll
  <2> DEFINE operations == <<op>>
  <2>3. operations \in Seq(Operations) /\ Len(operations) <= 1 /\ operations # <<>>
    BY <2>1
  <2>4. Begin("update", operations) /\ truth' = After(truth, operations)
    BY <1>1, <2>2
  <2> HIDE DEF operations
  <2> QED BY <2>3, <2>4, BeginIsRequest
<1>2. ASSUME NEW what \in {"downsample", "nearest"}, Begin(what, <<>>), truth' = truth,
             what = "nearest" => ~covered
      PROVE  BeginRequest
  <2>1. <<>> \in Seq(Operations) /\ Len(<<>>) = 0 OBVIOUS
  <2>2. After(truth, <<>>) = truth BY DEF After
  <2> DEFINE operations == <<>>
  <2>3. operations \in Seq(Operations) /\ Len(operations) <= 1 /\ operations = <<>>
    BY <2>1
  <2>4. Begin(what, operations) /\ truth' = After(truth, operations)
    BY <1>2, <2>2
  <2> HIDE DEF operations
  <2> QED BY <1>2, <2>3, <2>4, BeginIsRequest
<1>3. ASSUME NEW p \in Points, AddPoint(p) PROVE BeginRequest
  BY <1>1, <1>3, OperationTypes DEF AddPoint
<1>4. ASSUME NEW box \in Boxes, DeleteBox(box) PROVE BeginRequest
  BY <1>1, <1>4, OperationTypes DEF DeleteBox
<1>5. AddDownsampled \/ NearestSearch => BeginRequest
  BY <1>2 DEF AddDownsampled, NearestSearch
<1> QED BY <1>3, <1>4, <1>5 DEF Request

LockInv == PtrInv /\ SearchInv /\ HoldInv

LEMMA LockStep == TypeOK /\ LockInv /\ [Next]_vars => LockInv'
<1> SUFFICES ASSUME TypeOK, LockInv, [Next]_vars PROVE LockInv' OBVIOUS
<1> USE DEF LockInv, PtrInv, SearchInv, HoldInv, Protected, Rebuilding, Excluding, Holding
<1>1. CASE BeginRequest BY <1>1 DEF BeginRequest, Begin, Ready
<1>2. CASE DeleteAncestor BY <1>2 DEF DeleteAncestor, Ready
<1>3. CASE StopThread BY <1>3 DEF StopThread, TypeOK
<1>4. CASE TestRebuildPtr BY <1>4 DEF TestRebuildPtr, TypeOK
<1>5. CASE UpdateDirectly BY <1>5 DEF UpdateDirectly, NextUpdate, TypeOK
<1>6. CASE LockWorkingFlag BY <1>6 DEF LockWorkingFlag, TypeOK
<1>7. CASE UpdateLocked BY <1>7 DEF UpdateLocked, TypeOK
<1>8. CASE LogUpdate BY <1>8 DEF LogUpdate, NextUpdate, TypeOK
<1>9. CASE RangeSearch BY <1>9 DEF RangeSearch, TypeOK
<1>10. CASE TestBeforeSearch BY <1>10 DEF TestBeforeSearch, TypeOK
<1>11. CASE CountSearch BY <1>11 DEF CountSearch, TypeOK
<1>12. CASE EndNearestSearch BY <1>12 DEF EndNearestSearch, EndSearch, TypeOK
<1>13. CASE Join BY <1>13 DEF Join, TypeOK
<1>14. CASE LockRebuildPtr BY <1>14 DEF LockRebuildPtr, TypeOK
<1>15. CASE NothingToRebuild BY <1>15 DEF NothingToRebuild, TypeOK
<1>16. CASE StartRebuild BY <1>16 DEF StartRebuild, TypeOK
<1>17. CASE LockSearch BY <1>17 DEF LockSearch, TypeOK
<1>18. CASE Flatten BY <1>18 DEF Flatten, TypeOK
<1>19. CASE UnlockSearch BY <1>19 DEF UnlockSearch, TypeOK
<1>20. CASE PopOperation BY <1>20 DEF PopOperation, TypeOK
<1>21. CASE RunOperation BY <1>21 DEF RunOperation, TypeOK
<1>22. CASE LoggerDrained BY <1>22 DEF LoggerDrained, TypeOK
<1>23. CASE Swap BY <1>23 DEF Swap, TypeOK
<1>24. CASE UnlockSearchAgain BY <1>24 DEF UnlockSearchAgain, TypeOK
<1>25. CASE ForgetRebuildPtr BY <1>25 DEF ForgetRebuildPtr, TypeOK
<1>26. CASE UnlockWorkingFlag BY <1>26 DEF UnlockWorkingFlag, TypeOK
<1>27. CASE ClearRebuildFlag BY <1>27 DEF ClearRebuildFlag, TypeOK
<1>28. CASE DeleteOldNodes BY <1>28 DEF DeleteOldNodes, TypeOK
<1>29. ASSUME NEW box, NEW p, EndRangeSearch(box, p) PROVE LockInv'
  BY <1>29 DEF EndRangeSearch, EndSearch, TypeOK
<1>30. CASE UNCHANGED vars BY <1>30 DEF vars
<1> QED
  BY <1>1, <1>2, <1>3, <1>4, <1>5, <1>6, <1>7, <1>8, <1>9, <1>10, <1>11, <1>12, <1>13, <1>14, <1>15, <1>16, <1>17, <1>18, <1>19, <1>20, <1>21, <1>22, <1>23, <1>24, <1>25, <1>26, <1>27, <1>28, <1>29, <1>30, RequestCases
  DEF Next, MappingThread, RebuildThread

-------------------------------------------------------------------------------
(* Types, and what the mapping thread has still to apply.                  *)

\* What a range search ends with: an addition, or a deletion and an addition.
LEMMA EndRangeSearchTodo ==
  ASSUME TypeOK, NEW box \in Boxes, NEW p \in box, EndRangeSearch(box, p)
  PROVE  /\ todo' \in Seq(Operations) /\ todo' # <<>> /\ Len(todo') <= 2
         /\ truth' = ApplyAll(truth, todo')
<1>1. box \in SUBSET Points /\ p \in Points OBVIOUS
<1>2. Delete(box) \in Operations /\ Add(p) \in Operations BY <1>1, OperationTypes
<1>3. todo' \in {<<Add(p)>>, <<Delete(box), Add(p)>>} BY DEF EndRangeSearch
<1>4. truth' = ApplyAll(truth, todo') BY DEF EndRangeSearch
<1>5. \A a, b \in Operations :
         /\ <<a>> \in Seq(Operations) /\ Len(<<a>>) = 1
         /\ <<a, b>> \in Seq(Operations) /\ Len(<<a, b>>) = 2
  OBVIOUS
<1>6. PICK s \in Seq(Operations) : s = todo' /\ (Len(s) = 1 \/ Len(s) = 2)
  BY <1>2, <1>3, <1>5
<1>7. Len(s) <= 2
  <2> DEFINE n == Len(s)
  <2>1. n = 1 \/ n = 2 BY <1>6
  <2> HIDE DEF n
  <2>2. n <= 2 BY <2>1
  <2> QED BY <2>2 DEF n
<1>8. s # <<>>
  <2>1. Len(s) # 0 BY <1>6
  <2>2. Len(<<>>) = 0 OBVIOUS
  <2> QED BY <2>1, <2>2
<1> QED BY <1>4, <1>6, <1>7, <1>8

LEMMA UpdatedType ==
  ASSUME TypeOK, TodoInv, mpc \in {"direct", "apply"}, Updated
  PROVE  tree' \in Bags
  BY BatchAndRest, ApplyAllType DEF TypeOK, TodoInv, Updated

LEMMA LogType ==
  ASSUME TypeOK, TodoInv, mpc = "log", Log(Rebuild_Logger)
  PROVE  Rebuild_Logger' \in Logger!Queues(Operations) /\ overflown' \in BOOLEAN
  BY BatchAndRest, PushAllType DEF TypeOK, TodoInv, Log

LEMMA NextUpdateType ==
  ASSUME TypeOK, TodoInv, mpc \in {"direct", "log"}, NextUpdate
  PROVE  /\ todo' \in Seq(Operations) /\ Len(todo') <= 2
         /\ mpc' \in {"test", "idle", "search"}
         /\ todo' # <<>> <=> mpc' = "test"
  BY BatchAndRest DEF TypeOK, TodoInv, NextUpdate

LEMMA TodoStep == TypeOK /\ TodoInv /\ [Next]_vars => TodoInv'
<1> SUFFICES ASSUME TypeOK, TodoInv, [Next]_vars PROVE TodoInv' OBVIOUS
<1> USE DEF TodoInv
<1>1. CASE BeginRequest
  <2>1. PICK what \in {"update", "downsample", "nearest"}, operations \in Seq(Operations) :
           Begin(what, operations) /\ Len(operations) <= 1
    BY <1>1 DEF BeginRequest
  <2>2. /\ covered => todo' # <<>> /\ todo'[1] = PushDown
        /\ mpc' = IF todo' = <<>> THEN "search" ELSE "test"
    BY <2>1, BeginTodo DEF TypeOK
  <2> QED BY <2>1, <2>2 DEF Begin, PushDown
<1>2. CASE DeleteAncestor BY <1>2 DEF DeleteAncestor, Ready
<1>3. CASE StopThread BY <1>3 DEF StopThread, Updated, EndSearch
<1>4. CASE TestRebuildPtr BY <1>4 DEF TestRebuildPtr, Updated, EndSearch
<1>5. CASE UpdateDirectly BY <1>5, NextUpdateType DEF UpdateDirectly, Updated
<1>6. CASE LockWorkingFlag BY <1>6 DEF LockWorkingFlag, Updated, EndSearch
<1>7. CASE UpdateLocked BY <1>7 DEF UpdateLocked, Updated, EndSearch
<1>8. CASE LogUpdate BY <1>8, NextUpdateType DEF LogUpdate, Updated
<1>9. CASE RangeSearch BY <1>9 DEF RangeSearch, Updated, EndSearch
<1>10. CASE TestBeforeSearch BY <1>10 DEF TestBeforeSearch, Updated, EndSearch
<1>11. CASE CountSearch BY <1>11 DEF CountSearch, Updated, EndSearch
<1>12. CASE EndNearestSearch BY <1>12 DEF EndNearestSearch, Updated, EndSearch
<1>13. CASE Join BY <1>13 DEF Join, Updated, EndSearch
<1>14. ASSUME NEW box \in Boxes, NEW p \in box, EndRangeSearch(box, p) PROVE TodoInv'
  <2>1. todo' # <<>> BY <1>14, EndRangeSearchTodo
  <2> QED BY <1>14, <2>1 DEF EndRangeSearch, EndSearch
<1>15. CASE Swap
  <2>1. covered' => covered BY <1>15 DEF Swap
  <2>2. UNCHANGED <<at_root, mainVars>> BY <1>15 DEF Swap
  <2> QED BY <2>1, <2>2 DEF PushDown
<1>16. ASSUME UNCHANGED <<at_root, covered, mainVars>> PROVE TodoInv' BY <1>16 DEF PushDown
<1>17. CASE LockRebuildPtr \/ NothingToRebuild \/ StartRebuild \/ LockSearch \/ Flatten \/ UnlockSearch \/ PopOperation
         \/ RunOperation \/ LoggerDrained \/ UnlockSearchAgain \/ ForgetRebuildPtr \/ UnlockWorkingFlag \/ ClearRebuildFlag \/ DeleteOldNodes \/ UNCHANGED vars
  BY <1>16, <1>17
  DEF LockRebuildPtr, NothingToRebuild, StartRebuild, LockSearch, Flatten, UnlockSearch, PopOperation,
      RunOperation, LoggerDrained, UnlockSearchAgain, ForgetRebuildPtr, UnlockWorkingFlag, ClearRebuildFlag, DeleteOldNodes, vars
<1> QED
  BY <1>1, <1>2, <1>3, <1>4, <1>5, <1>6, <1>7, <1>8, <1>9, <1>10, <1>11, <1>12, <1>13, <1>14, <1>15, <1>17, RequestCases
  DEF Next, MappingThread, RebuildThread


\* The flags and the rest of TypeOK.
Flags == <<covered, Rebuild_Ptr, rebuild_flag, counted, search_held, ptr_held,
           termination_flag, at_root, error, emptied, overflown, revived>>
FlagsOK ==
  /\ covered \in BOOLEAN /\ Rebuild_Ptr \in BOOLEAN /\ rebuild_flag \in BOOLEAN
  /\ counted \in BOOLEAN /\ search_held \in BOOLEAN /\ ptr_held \in BOOLEAN
  /\ termination_flag \in BOOLEAN /\ at_root \in BOOLEAN
  /\ error \in BOOLEAN /\ emptied \in BOOLEAN /\ overflown \in BOOLEAN /\ revived \in BOOLEAN

LEMMA FlagsStep == FlagsOK /\ [Next]_vars => FlagsOK'
<1> SUFFICES ASSUME FlagsOK, [Next]_vars PROVE FlagsOK' OBVIOUS
<1> USE DEF FlagsOK
<1>1. CASE BeginRequest BY <1>1 DEF BeginRequest, Begin
<1>2. CASE DeleteAncestor BY <1>2 DEF DeleteAncestor
<1>3. CASE StopThread BY <1>3 DEF StopThread
<1>4. CASE TestRebuildPtr BY <1>4 DEF TestRebuildPtr
<1>5. CASE UpdateDirectly BY <1>5 DEF UpdateDirectly, Updated
<1>6. CASE LockWorkingFlag BY <1>6 DEF LockWorkingFlag
<1>7. CASE UpdateLocked BY <1>7 DEF UpdateLocked, Updated
<1>8. CASE LogUpdate BY <1>8 DEF LogUpdate, Log
<1>9. CASE RangeSearch BY <1>9 DEF RangeSearch
<1>10. CASE TestBeforeSearch BY <1>10 DEF TestBeforeSearch
<1>11. CASE CountSearch BY <1>11 DEF CountSearch
<1>12. CASE EndNearestSearch BY <1>12 DEF EndNearestSearch, EndSearch
<1>13. CASE Join BY <1>13 DEF Join
<1>14. CASE LockRebuildPtr BY <1>14 DEF LockRebuildPtr
<1>15. CASE NothingToRebuild BY <1>15 DEF NothingToRebuild
<1>16. CASE StartRebuild BY <1>16 DEF StartRebuild
<1>17. CASE LockSearch BY <1>17 DEF LockSearch
<1>18. CASE Flatten BY <1>18 DEF Flatten
<1>19. CASE UnlockSearch BY <1>19 DEF UnlockSearch
<1>20. CASE PopOperation BY <1>20 DEF PopOperation
<1>21. CASE RunOperation BY <1>21 DEF RunOperation
<1>22. CASE LoggerDrained BY <1>22 DEF LoggerDrained
<1>23. CASE Swap BY <1>23 DEF Swap
<1>24. CASE UnlockSearchAgain BY <1>24 DEF UnlockSearchAgain
<1>25. CASE ForgetRebuildPtr BY <1>25 DEF ForgetRebuildPtr
<1>26. CASE UnlockWorkingFlag BY <1>26 DEF UnlockWorkingFlag
<1>27. CASE ClearRebuildFlag BY <1>27 DEF ClearRebuildFlag
<1>28. CASE DeleteOldNodes BY <1>28 DEF DeleteOldNodes
<1>29. ASSUME NEW box \in Boxes, NEW p \in box, EndRangeSearch(box, p) PROVE FlagsOK'
  BY <1>29 DEF EndRangeSearch, EndSearch
<1>30. CASE UNCHANGED vars BY <1>30 DEF vars
<1> QED
  BY <1>1, <1>2, <1>3, <1>4, <1>5, <1>6, <1>7, <1>8, <1>9, <1>10, <1>11, <1>12, <1>13, <1>14, <1>15, <1>16, <1>17, <1>18, <1>19, <1>20, <1>21, <1>22, <1>23, <1>24, <1>25, <1>26, <1>27, <1>28, <1>29, <1>30, RequestCases
  DEF Next, MappingThread, RebuildThread

DataOK ==
  /\ tree \in Bags /\ new_root \in Bags /\ truth \in Bags
  /\ Rebuild_Logger \in Logger!Queues(Operations) /\ operation \in Operations
  /\ todo \in Seq(Operations) /\ Len(todo) <= 2
  /\ search_mutex_counter \in {-1, 0, 1}
  /\ reading \in {"none", "tree", "old"}
  /\ working \in {"none", "main", "rebuild"}
  /\ mpc \in {"idle", "test", "direct", "lock", "apply", "log", "search", "count",
              "reading", "join", "joined"}
  /\ doing \in {"update", "downsample", "nearest"}
  /\ rpc \in {"start", "lock_working", "lock_search", "flatten", "unlock_search", "drain",
              "replay", "lock_search_again", "swap", "unlock_search_again", "forget",
              "unlock_working", "clear_flag", "delete_nodes", "terminated"}
  /\ ops \in 0 .. MaxOps[at_root]

LEMMA DataStep ==
  TypeOK /\ TodoInv /\ search_mutex_counter' \in {-1, 0, 1} /\ [Next]_vars => DataOK'
<1> SUFFICES ASSUME TypeOK, TodoInv, search_mutex_counter' \in {-1, 0, 1}, [Next]_vars
             PROVE  DataOK'
  OBVIOUS
<1> USE DEF DataOK
<1>0. DataOK /\ at_root \in BOOLEAN BY DEF TypeOK
<1>1. CASE BeginRequest
  <2>1. PICK what \in {"update", "downsample", "nearest"}, operations \in Seq(Operations) :
           /\ Begin(what, operations) /\ Len(operations) <= 1
           /\ truth' = After(truth, operations)
    BY <1>1 DEF BeginRequest
  <2>2. todo' \in Seq(Operations) /\ Len(todo') <= 2 /\ mpc' \in {"search", "test"}
    BY <1>0, <2>1, BeginTodo
  <2>3. truth' \in Bags BY <1>0, <2>1, ApplyAllType DEF After
  <2>4. ops' \in 0 .. MaxOps[at_root] /\ at_root' = at_root
    <3>1. MaxOps[at_root] \in Nat BY <1>0
    <3> QED BY <1>0, <3>1, <2>1 DEF Begin, Ready
  <2> QED BY <1>0, <2>1, <2>2, <2>3, <2>4 DEF Begin
<1>2. CASE DeleteAncestor
  <2>1. ops' \in 0 .. MaxOps[at_root] /\ at_root' = at_root
    <3>1. MaxOps[at_root] \in Nat BY <1>0
    <3> QED BY <1>0, <3>1, <1>2 DEF DeleteAncestor, Ready
  <2> QED BY <1>0, <1>2, <2>1, OperationTypes DEF DeleteAncestor
<1>3. CASE StopThread BY <1>0, <1>3 DEF StopThread
<1>4. CASE TestRebuildPtr BY <1>0, <1>4 DEF TestRebuildPtr
<1>5. CASE UpdateDirectly BY <1>0, <1>5, NextUpdateType, UpdatedType DEF UpdateDirectly
<1>6. CASE LockWorkingFlag BY <1>0, <1>6 DEF LockWorkingFlag
<1>7. CASE UpdateLocked BY <1>0, <1>7, UpdatedType DEF UpdateLocked
<1>8. CASE LogUpdate BY <1>0, <1>8, NextUpdateType, LogType DEF LogUpdate
<1>9. CASE RangeSearch BY <1>0, <1>9 DEF RangeSearch
<1>10. CASE TestBeforeSearch BY <1>0, <1>10 DEF TestBeforeSearch
<1>11. CASE CountSearch BY <1>0, <1>11 DEF CountSearch
<1>12. CASE EndNearestSearch BY <1>0, <1>12 DEF EndNearestSearch, EndSearch
<1>13. CASE Join BY <1>0, <1>13 DEF Join
<1>14. CASE LockRebuildPtr BY <1>0, <1>14 DEF LockRebuildPtr
<1>15. CASE NothingToRebuild BY <1>0, <1>15 DEF NothingToRebuild
<1>16. CASE StartRebuild BY <1>0, <1>16 DEF StartRebuild
<1>17. CASE LockSearch BY <1>0, <1>17 DEF LockSearch
<1>18. CASE Flatten BY <1>0, <1>18 DEF Flatten
<1>19. CASE UnlockSearch BY <1>0, <1>19 DEF UnlockSearch
<1>20. CASE PopOperation BY <1>0, <1>20, PopType DEF PopOperation
<1>21. CASE RunOperation BY <1>0, <1>21, ApplyType DEF RunOperation
<1>22. CASE LoggerDrained BY <1>0, <1>22 DEF LoggerDrained
<1>23. CASE Swap BY <1>0, <1>23 DEF Swap
<1>24. CASE UnlockSearchAgain BY <1>0, <1>24 DEF UnlockSearchAgain
<1>25. CASE ForgetRebuildPtr BY <1>0, <1>25 DEF ForgetRebuildPtr
<1>26. CASE UnlockWorkingFlag BY <1>0, <1>26 DEF UnlockWorkingFlag
<1>27. CASE ClearRebuildFlag BY <1>0, <1>27 DEF ClearRebuildFlag
<1>28. CASE DeleteOldNodes BY <1>0, <1>28 DEF DeleteOldNodes
<1>29. ASSUME NEW box \in Boxes, NEW p \in box, EndRangeSearch(box, p) PROVE DataOK'
  <2>1. todo' \in Seq(Operations) /\ Len(todo') <= 2 /\ truth' \in Bags
    BY <1>0, <1>29, EndRangeSearchTodo, ApplyAllType
  <2> QED BY <1>0, <1>29, <2>1 DEF EndRangeSearch, EndSearch
<1>30. CASE UNCHANGED vars BY <1>0, <1>30 DEF vars
<1> QED
  BY <1>1, <1>2, <1>3, <1>4, <1>5, <1>6, <1>7, <1>8, <1>9, <1>10, <1>11, <1>12, <1>13, <1>14, <1>15, <1>16, <1>17, <1>18, <1>19, <1>20, <1>21, <1>22, <1>23, <1>24, <1>25, <1>26, <1>27, <1>28, <1>29, <1>30, RequestCases
  DEF Next, MappingThread, RebuildThread

LEMMA TypeStep == TypeOK /\ LockInv /\ TodoInv /\ [Next]_vars => TypeOK'
<1> SUFFICES ASSUME TypeOK, LockInv, TodoInv, [Next]_vars PROVE TypeOK' OBVIOUS
<1>1. search_mutex_counter' \in {-1, 0, 1}
  <2>1. LockInv' BY LockStep
  <2> QED BY <2>1 DEF LockInv, SearchInv
<1>2. DataOK' BY <1>1, DataStep
<1>3. FlagsOK' BY FlagsStep DEF TypeOK, FlagsOK
<1> QED BY <1>2, <1>3 DEF TypeOK, DataOK, FlagsOK

-------------------------------------------------------------------------------
(* Rebuild_Logger, while it has room.                                      *)

\* A number below twice the modulus.
LEMMA SlotOf ==
  ASSUME NEW a \in Nat, a < 2 * Q_LEN
  PROVE  a % Q_LEN = IF a < Q_LEN THEN a ELSE a - Q_LEN
<1>1. PICK d \in Int, r \in 0 .. Q_LEN - 1 : a = Q_LEN * d + r /\ r = a % Q_LEN
  <2>1. /\ a \div Q_LEN \in Int /\ a % Q_LEN \in 0 .. Q_LEN - 1
        /\ a = Q_LEN * (a \div Q_LEN) + (a % Q_LEN)
    OBVIOUS
  <2> QED BY <2>1
<1>2. CASE d <= -1
  <2>1. Q_LEN * (-1 - d) >= 0 BY <1>2
  <2>2. Q_LEN * d <= -Q_LEN BY <2>1
  <2> QED BY <1>1, <2>2
<1>3. CASE d >= 2
  <2>1. Q_LEN * (d - 2) >= 0 BY <1>3
  <2>2. Q_LEN * d >= 2 * Q_LEN BY <2>1
  <2> QED BY <1>1, <2>2
<1>4. CASE d = 0 BY <1>1, <1>4
<1>5. CASE d = 1 BY <1>1, <1>5
<1> QED BY <1>2, <1>3, <1>4, <1>5

Queues == Logger!Queues(Operations)

LEMMA QueueFields ==
  ASSUME NEW queue \in Queues
  PROVE  /\ queue.q \in [0 .. Q_LEN - 1 -> Operations]
         /\ queue.head \in 0 .. Q_LEN - 1 /\ queue.tail \in 0 .. Q_LEN - 1
         /\ queue.counter \in Nat /\ queue.is_empty \in BOOLEAN
  BY DEF Queues, Logger!Queues

LEMMA PushFields ==
  ASSUME NEW queue \in Queues, NEW op \in Operations
  PROVE  LET pushed == Logger!push(queue, op)
         IN /\ pushed \in Queues
            /\ pushed.q = [queue.q EXCEPT ![queue.tail] = op]
            /\ pushed.head = queue.head
            /\ pushed.counter = queue.counter + 1
            /\ pushed.tail = (queue.tail + 1) % Q_LEN
            /\ pushed.is_empty = FALSE
<1>1. Logger!push(queue, op) \in Queues BY PushType DEF Queues
<1> QED BY <1>1 DEF Logger!push, Queues, Logger!Queues

\* What is in the queue stays, and the operation comes last.
LEMMA PushLogged ==
  ASSUME NEW queue \in Queues, Ring(queue), NEW op \in Operations, queue.counter < Q_LEN
  PROVE  LET pushed == Logger!push(queue, op)
         IN /\ Ring(pushed)
            /\ \A i \in 0 .. queue.counter - 1 : Logged(pushed, i) = Logged(queue, i)
            /\ Logged(pushed, queue.counter) = op
<1> DEFINE pushed == Logger!push(queue, op)
<1>1. PICK h \in 0 .. Q_LEN - 1, n \in 0 .. Q_LEN - 1, t \in 0 .. Q_LEN - 1 :
         h = queue.head /\ n = queue.counter /\ t = queue.tail
  BY QueueFields
<1>2. /\ pushed.q = [queue.q EXCEPT ![t] = op] /\ pushed.head = h
      /\ pushed.counter = n + 1 /\ pushed.tail = (t + 1) % Q_LEN
  BY <1>1, PushFields
<1>3. t = (h + n) % Q_LEN BY <1>1 DEF Ring
<1>4. t = IF h + n < Q_LEN THEN h + n ELSE h + n - Q_LEN
  BY <1>3, SlotOf
<1>5. (t + 1) % Q_LEN = IF t + 1 < Q_LEN THEN t + 1 ELSE t + 1 - Q_LEN
  BY SlotOf
<1>6. (h + (n + 1)) % Q_LEN
        = IF h + (n + 1) < Q_LEN THEN h + (n + 1) ELSE h + (n + 1) - Q_LEN
  BY SlotOf
<1>7. (t + 1) % Q_LEN = (h + (n + 1)) % Q_LEN BY <1>4, <1>5, <1>6
<1>8. Ring(pushed)
  <2>1. n + 1 <= Q_LEN OBVIOUS
  <2> HIDE DEF pushed
  <2> QED BY <1>2, <1>7, <2>1 DEF Ring
<1>9. ASSUME NEW i \in 0 .. n - 1 PROVE (h + i) % Q_LEN # t /\ (h + i) % Q_LEN \in 0 .. Q_LEN - 1
  <2>1. (h + i) % Q_LEN = IF h + i < Q_LEN THEN h + i ELSE h + i - Q_LEN
    BY SlotOf
  <2> QED BY <1>4, <2>1
<1>10. queue.q \in [0 .. Q_LEN - 1 -> Operations] BY QueueFields
<1>11. \A i \in 0 .. n - 1 : Logged(pushed, i) = Logged(queue, i)
  <2> HIDE DEF pushed
  <2> QED BY <1>1, <1>2, <1>9, <1>10 DEF Logged
<1>12. Logged(pushed, n) = op
  <2> HIDE DEF pushed
  <2> QED BY <1>1, <1>2, <1>3, <1>10 DEF Logged
<1> QED BY <1>1, <1>8, <1>11, <1>12

\* An operation that is logged is replayed after those before it.
LEMMA PushReplays ==
  ASSUME NEW queue \in Queues, Ring(queue), NEW op \in Operations, queue.counter < Q_LEN,
         NEW c \in Bags, NEW t \in Bags, Replays(c, queue, t)
  PROVE  Replays(c, Logger!push(queue, op), Apply(t, op))
<1> DEFINE pushed == Logger!push(queue, op)
           n == queue.counter
<1>1. PICK steps \in [0 .. n -> Bags] : IsReplay(steps, c, queue, t)
  BY DEF Replays
<1>2. n \in Nat BY QueueFields
<1>3. pushed.counter = n + 1 BY PushFields
<1>4. /\ \A i \in 0 .. n - 1 : Logged(pushed, i) = Logged(queue, i)
      /\ Logged(pushed, n) = op
  BY PushLogged
<1>5. Apply(t, op) \in Bags BY ApplyType
<1>6. /\ steps[0] = c /\ steps[n] = t
      /\ \A i \in 0 .. n - 1 : steps[i + 1] = Apply(steps[i], Logged(queue, i))
  BY <1>1 DEF IsReplay
<1> DEFINE longer == [i \in 0 .. n + 1 |-> IF i = n + 1 THEN Apply(t, op) ELSE steps[i]]
<1> HIDE DEF pushed, n
<1>7. longer \in [0 .. n + 1 -> Bags]
  <2> SUFFICES ASSUME NEW i \in 0 .. n + 1 PROVE longer[i] \in Bags OBVIOUS
  <2>1. CASE i = n + 1 BY <1>5, <2>1
  <2>2. CASE i # n + 1
    <3>1. i \in 0 .. n BY <1>2, <2>2
    <3> QED BY <2>2, <3>1
  <2> QED BY <2>1, <2>2
<1>8. longer[0] = c BY <1>2, <1>6
<1>9. longer[n + 1] = Apply(t, op) BY <1>2
<1>10. ASSUME NEW i \in 0 .. n PROVE longer[i + 1] = Apply(longer[i], Logged(pushed, i))
  <2>1. longer[i] = steps[i] BY <1>2
  <2>2. CASE i = n BY <1>2, <1>4, <1>6, <1>9, <2>1, <2>2
  <2>3. CASE i # n
    <3>1. i \in 0 .. n - 1 BY <1>2, <2>3
    <3>2. longer[i + 1] = steps[i + 1] BY <1>2, <3>1
    <3> QED BY <1>4, <1>6, <2>1, <3>1, <3>2
  <2> QED BY <2>2, <2>3
<1>11. (n + 1) - 1 = n BY <1>2
<1> HIDE DEF longer
<1>12. IsReplay(longer, c, pushed, Apply(t, op))
  BY <1>3, <1>7, <1>8, <1>9, <1>10, <1>11 DEF IsReplay
<1>13. Replays(c, pushed, Apply(t, op)) BY <1>3, <1>7, <1>12 DEF Replays
<1> QED BY <1>13 DEF pushed

LEMMA PopFields ==
  ASSUME NEW queue \in Queues, queue.counter # 0
  PROVE  LET popped == Logger!pop(queue)
         IN /\ popped \in Queues
            /\ popped.q = queue.q
            /\ popped.head = (queue.head + 1) % Q_LEN
            /\ popped.counter = queue.counter - 1
            /\ popped.tail = queue.tail
<1>1. Logger!pop(queue) \in Queues BY PopType DEF Queues
<1> QED BY <1>1 DEF Logger!pop, Queues, Logger!Queues

\* The first operation is out, the others stay.
LEMMA PopLogged ==
  ASSUME NEW queue \in Queues, Ring(queue), queue.counter # 0
  PROVE  LET popped == Logger!pop(queue)
         IN /\ Ring(popped)
            /\ \A i \in 0 .. queue.counter - 2 : Logged(popped, i) = Logged(queue, i + 1)
            /\ Logged(queue, 0) = Logger!front(queue)
<1> DEFINE popped == Logger!pop(queue)
<1>1. PICK h \in 0 .. Q_LEN - 1, n \in 1 .. Q_LEN, t \in 0 .. Q_LEN - 1 :
         h = queue.head /\ n = queue.counter /\ t = queue.tail
  BY QueueFields DEF Ring
<1>2. /\ popped.q = queue.q /\ popped.head = (h + 1) % Q_LEN
      /\ popped.counter = n - 1 /\ popped.tail = t
  BY <1>1, PopFields
<1>3. t = (h + n) % Q_LEN BY <1>1 DEF Ring
<1>4. (h + 1) % Q_LEN = IF h + 1 < Q_LEN THEN h + 1 ELSE h + 1 - Q_LEN
  BY SlotOf
<1>5. ASSUME NEW i \in 0 .. n - 1 PROVE (((h + 1) % Q_LEN) + i) % Q_LEN = (h + (i + 1)) % Q_LEN
  <2> DEFINE g == (h + 1) % Q_LEN
  <2>1. g \in 0 .. Q_LEN - 1 /\ g = (IF h + 1 < Q_LEN THEN h + 1 ELSE h + 1 - Q_LEN)
    BY <1>4
  <2> HIDE DEF g
  <2>2. (g + i) % Q_LEN = IF g + i < Q_LEN THEN g + i ELSE g + i - Q_LEN
    BY <2>1, SlotOf
  <2>3. (h + (i + 1)) % Q_LEN
          = IF h + (i + 1) < Q_LEN THEN h + (i + 1) ELSE h + (i + 1) - Q_LEN
    BY SlotOf
  <2>4. (g + i) % Q_LEN = (h + (i + 1)) % Q_LEN BY <2>1, <2>2, <2>3
  <2> QED BY <2>4 DEF g
<1>6. Ring(popped)
  <2>1. n - 1 \in 0 .. n - 1 /\ (n - 1) + 1 = n /\ n - 1 <= Q_LEN OBVIOUS
  <2>2. (((h + 1) % Q_LEN) + (n - 1)) % Q_LEN = (h + n) % Q_LEN BY <1>5, <2>1
  <2> HIDE DEF popped
  <2> QED BY <1>2, <1>3, <2>1, <2>2 DEF Ring
<1>7. \A i \in 0 .. n - 2 : Logged(popped, i) = Logged(queue, i + 1)
  <2> HIDE DEF popped
  <2> QED BY <1>1, <1>2, <1>5 DEF Logged
<1>8. Logged(queue, 0) = Logger!front(queue)
  <2>1. (h + 0) % Q_LEN = h BY SlotOf
  <2> QED BY <1>1, <2>1 DEF Logged, Logger!front
<1> QED BY <1>1, <1>6, <1>7, <1>8

\* The operation that is taken out is the first of the replay.
LEMMA PopReplays ==
  ASSUME NEW queue \in Queues, Ring(queue), queue.counter # 0,
         NEW c \in Bags, NEW t \in Bags, Replays(c, queue, t)
  PROVE  Replays(Apply(c, Logger!front(queue)), Logger!pop(queue), t)
<1> DEFINE popped == Logger!pop(queue)
           n == queue.counter
<1>1. PICK steps \in [0 .. n -> Bags] : IsReplay(steps, c, queue, t)
  BY DEF Replays
<1>2. n \in Nat /\ n # 0 BY QueueFields
<1>3. popped.counter = n - 1 BY PopFields
<1>4. /\ \A i \in 0 .. n - 2 : Logged(popped, i) = Logged(queue, i + 1)
      /\ Logged(queue, 0) = Logger!front(queue)
  BY PopLogged
<1>5. /\ steps[0] = c /\ steps[n] = t
      /\ \A i \in 0 .. n - 1 : steps[i + 1] = Apply(steps[i], Logged(queue, i))
  BY <1>1 DEF IsReplay
<1> DEFINE shorter == [i \in 0 .. n - 1 |-> steps[i + 1]]
<1> HIDE DEF popped, n
<1>6. shorter \in [0 .. n - 1 -> Bags]
  <2> SUFFICES ASSUME NEW i \in 0 .. n - 1 PROVE shorter[i] \in Bags OBVIOUS
  <2>1. i + 1 \in 0 .. n BY <1>2
  <2> QED BY <2>1
<1>7. shorter[0] = Apply(c, Logger!front(queue))
  <2>1. 0 \in 0 .. n - 1 /\ 0 + 1 = 1 BY <1>2
  <2>2. steps[0 + 1] = Apply(steps[0], Logged(queue, 0)) BY <1>5, <2>1
  <2> QED BY <1>4, <1>5, <2>1, <2>2
<1>8. shorter[n - 1] = t BY <1>2, <1>5
<1>9. ASSUME NEW i \in 0 .. n - 2 PROVE shorter[i + 1] = Apply(shorter[i], Logged(popped, i))
  <2>1. i \in 0 .. n - 1 /\ i + 1 \in 0 .. n - 1 BY <1>2
  <2>2. shorter[i] = steps[i + 1] /\ shorter[i + 1] = steps[(i + 1) + 1] BY <2>1
  <2> QED BY <1>4, <1>5, <2>1, <2>2
<1>10. (n - 1) - 1 = n - 2 BY <1>2
<1> HIDE DEF shorter
<1>11. IsReplay(shorter, Apply(c, Logger!front(queue)), popped, t)
  BY <1>3, <1>6, <1>7, <1>8, <1>9, <1>10 DEF IsReplay
<1>12. Replays(Apply(c, Logger!front(queue)), popped, t) BY <1>3, <1>6, <1>11 DEF Replays
<1> QED BY <1>12 DEF popped

\* Nothing logged, nothing to replay.
LEMMA EmptyReplays ==
  ASSUME NEW queue, queue.counter = 0, NEW c \in Bags
  PROVE  /\ Replays(c, queue, c)
         /\ \A t : Replays(c, queue, t) => c = t
<1> DEFINE steps == [i \in 0 .. 0 |-> c]
<1>1. steps \in [0 .. 0 -> Bags] OBVIOUS
<1>2. IsReplay(steps, c, queue, c) BY <1>1 DEF IsReplay
<1>3. Replays(c, queue, c) BY <1>1, <1>2 DEF Replays
<1>4. ASSUME NEW t, Replays(c, queue, t) PROVE c = t BY <1>4 DEF Replays, IsReplay
<1> QED BY <1>3, <1>4

-------------------------------------------------------------------------------
(* The logger, the truth and the copy.                                     *)

\* A batch of one operation or two, for which there is room.
LEMMA PushAllAdds ==
  ASSUME NEW queue \in Queues, NEW s \in Seq(Operations), s # <<>>, Len(s) <= 2
  PROVE  LET pushed == PushAll(queue, s)
         IN pushed \in Queues /\ pushed.is_empty = FALSE /\ pushed.counter > 0
<1> DEFINE one == Logger!push(queue, s[1])
           two == Logger!push(one, s[2])
<1>1. queue.counter \in Nat BY QueueFields
<1>2. s[1] \in Operations /\ (Len(s) = 2 => s[2] \in Operations) /\ Len(s) \in {1, 2}
  BY OneOrTwo
<1>3. one \in Queues /\ one.is_empty = FALSE /\ one.counter = queue.counter + 1
  BY <1>2, PushFields
<1>4. one.counter > 0
  <2> HIDE DEF one
  <2> QED BY <1>1, <1>3
<1>5. CASE Len(s) = 1 BY <1>3, <1>4, <1>5 DEF PushAll
<1>6. CASE Len(s) = 2
  <2>1. PushAll(queue, s) = two BY <1>6 DEF PushAll
  <2> HIDE DEF one
  <2>2. two \in Queues /\ two.is_empty = FALSE /\ two.counter = one.counter + 1
    BY <1>2, <1>3, <1>6, PushFields
  <2>3. one.counter \in Nat BY <1>3, QueueFields
  <2> HIDE DEF two
  <2>4. two.counter > 0 BY <1>4, <2>2, <2>3
  <2> QED BY <2>1, <2>2, <2>4
<1> QED BY <1>2, <1>5, <1>6

LEMMA PushAllReplays ==
  ASSUME NEW queue \in Queues, Ring(queue), NEW s \in Seq(Operations), s # <<>>, Len(s) <= 2,
         PushAll(queue, s).counter <= Q_LEN
  PROVE  /\ Ring(PushAll(queue, s))
         /\ \A c, t \in Bags :
              Replays(c, queue, t) => Replays(c, PushAll(queue, s), ApplyAll(t, s))
<1> DEFINE one == Logger!push(queue, s[1])
           two == Logger!push(one, s[2])
<1>1. queue.counter \in Nat BY QueueFields
<1>2. s[1] \in Operations /\ (Len(s) = 2 => s[2] \in Operations) /\ Len(s) \in {1, 2}
  BY OneOrTwo
<1>3. /\ one \in Queues /\ one.is_empty = FALSE
      /\ one.counter = queue.counter + 1
  BY <1>2, PushFields
<1>4. ASSUME queue.counter < Q_LEN
      PROVE  /\ Ring(one)
             /\ \A c, t \in Bags : Replays(c, queue, t) => Replays(c, one, Apply(t, s[1]))
  BY <1>2, <1>4, PushLogged, PushReplays
<1>5. CASE Len(s) = 1
  <2>1. PushAll(queue, s) = one BY <1>5 DEF PushAll
  <2>2. \A t : ApplyAll(t, s) = Apply(t, s[1]) BY <1>5 DEF ApplyAll
  <2> HIDE DEF one
  <2>3. queue.counter < Q_LEN BY <1>1, <1>3, <2>1
  <2> QED BY <1>4, <2>1, <2>2, <2>3
<1>6. CASE Len(s) = 2
  <2>1. PushAll(queue, s) = two BY <1>6 DEF PushAll
  <2>2. \A t : ApplyAll(t, s) = Apply(Apply(t, s[1]), s[2]) BY <1>6 DEF ApplyAll
  <2>3. s[2] \in Operations BY <1>2, <1>6
  <2> HIDE DEF one
  <2>4. two \in Queues /\ two.is_empty = FALSE /\ two.counter = one.counter + 1
    BY <1>3, <2>3, PushFields
  <2>5. queue.counter < Q_LEN /\ one.counter < Q_LEN
    <3> HIDE DEF two
    <3> QED BY <1>1, <1>3, <2>1, <2>4
  <2>6. /\ Ring(two)
        /\ \A c, t \in Bags : Replays(c, one, t) => Replays(c, two, Apply(t, s[2]))
    BY <1>3, <1>4, <2>3, <2>5, PushLogged, PushReplays
  <2>7. \A t \in Bags : Apply(t, s[1]) \in Bags BY <1>2, ApplyType
  <2> HIDE DEF two
  <2> QED BY <1>4, <2>1, <2>2, <2>5, <2>6, <2>7
<1> QED BY <1>2, <1>5, <1>6

\* What a step that logs a batch does to the logger.
LEMMA LogFacts ==
  ASSUME TypeOK, TodoInv, RingInv, mpc = "log", Log(Rebuild_Logger)
  PROVE  /\ Rebuild_Logger'.is_empty <=> Rebuild_Logger'.counter = 0
         /\ ~overflown' => ~overflown /\ Ring(Rebuild_Logger')
         /\ ~overflown' /\ rebuild_flag =>
              \A c, t \in Bags : Replays(c, Rebuild_Logger, t) =>
                                   Replays(c, Rebuild_Logger', ApplyAll(t, Batch))
<1>1. Rebuild_Logger \in Queues /\ (Rebuild_Logger.is_empty <=> Rebuild_Logger.counter = 0)
  BY DEF TypeOK, Queues, RingInv
<1>2. Batch \in Seq(Operations) /\ Batch # <<>> /\ Len(Batch) <= 2
  BY BatchAndRest DEF TypeOK, TodoInv
<1>3. overflown' = (overflown \/ Logger!Overflown(Rebuild_Logger')) BY DEF Log
<1>4. CASE ~rebuild_flag
  <2>1. Rebuild_Logger' = Rebuild_Logger BY <1>4 DEF Log
  <2> QED BY <1>1, <1>3, <1>4, <2>1 DEF RingInv
<1>5. CASE rebuild_flag
  <2>1. PICK pushed : pushed = PushAll(Rebuild_Logger, Batch) OBVIOUS
  <2>2. Rebuild_Logger' = pushed BY <1>5, <2>1 DEF Log
  <2>3. pushed \in Queues /\ pushed.is_empty = FALSE /\ pushed.counter # 0
    <3>1. /\ PushAll(Rebuild_Logger, Batch) \in Queues
          /\ PushAll(Rebuild_Logger, Batch).is_empty = FALSE
          /\ PushAll(Rebuild_Logger, Batch).counter > 0
      BY <1>1, <1>2, PushAllAdds
    <3> QED BY <2>1, <3>1
  <2>4. ASSUME ~overflown' PROVE ~overflown /\ pushed.counter <= Q_LEN
    <3>1. ~Logger!Overflown(pushed) /\ ~overflown BY <1>3, <2>2, <2>4
    <3>2. pushed.counter \in Nat BY <2>3, QueueFields
    <3> QED BY <3>1, <3>2 DEF Logger!Overflown
  <2>5. ASSUME ~overflown'
        PROVE  /\ Ring(pushed)
               /\ \A c, t \in Bags : Replays(c, Rebuild_Logger, t) =>
                                       Replays(c, pushed, ApplyAll(t, Batch))
    <3>1. Ring(Rebuild_Logger) BY <2>4, <2>5 DEF RingInv
    <3> QED BY <1>1, <1>2, <2>1, <2>4, <2>5, <3>1, PushAllReplays
  <2> QED BY <2>2, <2>3, <2>4, <2>5
<1> QED BY <1>4, <1>5

LEMMA RingStep == TypeOK /\ TodoInv /\ RingInv /\ [Next]_vars => RingInv'
<1> SUFFICES ASSUME TypeOK, TodoInv, RingInv, [Next]_vars PROVE RingInv' OBVIOUS
<1>1. ASSUME UNCHANGED <<Rebuild_Logger, overflown>> PROVE RingInv' BY <1>1 DEF RingInv, Ring
<1>2. CASE LogUpdate BY <1>2, LogFacts DEF LogUpdate, RingInv
<1>3. CASE PopOperation
  <2>1. Rebuild_Logger \in Queues /\ ~Rebuild_Logger.is_empty /\ Rebuild_Logger.counter # 0
    BY <1>3 DEF PopOperation, Logger!empty, TypeOK, Queues, RingInv
  <2>2. PICK popped : popped = Logger!pop(Rebuild_Logger) OBVIOUS
  <2>3. Rebuild_Logger' = popped /\ overflown' = overflown BY <1>3, <2>2 DEF PopOperation
  <2>4. popped.is_empty <=> popped.counter = 0
    <3>1. Rebuild_Logger.counter \in Nat BY <2>1, QueueFields
    <3>2. popped.counter = Rebuild_Logger.counter - 1 BY <2>1, <2>2, PopFields
    <3>3. popped.is_empty = (Rebuild_Logger.is_empty \/ Rebuild_Logger.counter = 1)
      BY <2>1, <2>2 DEF Logger!pop, Queues, Logger!Queues
    <3>4. popped.counter = 0 <=> Rebuild_Logger.counter = 1 BY <3>1, <3>2
    <3> QED BY <2>1, <3>3, <3>4
  <2>5. ~overflown => Ring(popped) BY <2>1, <2>2, PopLogged DEF RingInv
  <2> QED BY <2>3, <2>4, <2>5 DEF RingInv
<1>4. CASE StopThread \/ TestRebuildPtr \/ LockWorkingFlag \/ RangeSearch \/ TestBeforeSearch \/ CountSearch
         \/ EndNearestSearch \/ Join \/ UpdateDirectly \/ UpdateLocked \/ DeleteAncestor
  BY <1>1, <1>4
  DEF StopThread, TestRebuildPtr, LockWorkingFlag, RangeSearch, TestBeforeSearch, CountSearch,
      EndNearestSearch, Join, UpdateDirectly, UpdateLocked, DeleteAncestor, EndSearch
<1>5. CASE LockRebuildPtr \/ NothingToRebuild \/ StartRebuild \/ LockSearch \/ Flatten \/ UnlockSearch \/ RunOperation
         \/ LoggerDrained \/ Swap \/ UnlockSearchAgain \/ ForgetRebuildPtr \/ UnlockWorkingFlag \/ ClearRebuildFlag \/ DeleteOldNodes \/ UNCHANGED vars
  BY <1>1, <1>5
  DEF LockRebuildPtr, NothingToRebuild, StartRebuild, LockSearch, Flatten, UnlockSearch, RunOperation,
      LoggerDrained, Swap, UnlockSearchAgain, ForgetRebuildPtr, UnlockWorkingFlag, ClearRebuildFlag, DeleteOldNodes, vars
<1>6. CASE BeginRequest BY <1>1, <1>6 DEF BeginRequest, Begin
<1>7. ASSUME NEW box \in Boxes, NEW p \in box, EndRangeSearch(box, p) PROVE RingInv'
  BY <1>1, <1>7 DEF EndRangeSearch, EndSearch
<1> QED
  BY <1>2, <1>3, <1>4, <1>5, <1>6, <1>7, RequestCases DEF Next, MappingThread, RebuildThread

\* A mark that is pushed down first makes up for what is below it.
LEMMA MarkIsPushedDown ==
  ASSUME TypeOK, TodoInv, mpc \in {"test", "direct", "lock", "apply"}
  PROVE  After(Contents, todo) = ApplyAll(tree, todo)
<1>1. todo # <<>> BY DEF TodoInv
<1>2. CASE ~covered BY <1>1, <1>2 DEF After, Contents
<1>3. CASE covered
  <2>1. todo[1] = PushDown BY <1>3 DEF TodoInv
  <2>2. Apply(NoPoint, PushDown) = Apply(tree, PushDown)
    BY PushDownEmpties, OperationTypes DEF TypeOK
  <2> QED BY <1>1, <1>3, <2>1, <2>2 DEF After, Contents, ApplyAll
<1> QED BY <1>2, <1>3

LEMMA UpdateKeepsTruth ==
  ASSUME TypeOK, TodoInv, mpc \in {"direct", "apply"}, Updated,
         After(Contents, todo) = truth
  PROVE  After(Contents', Rest) = truth
<1>1. todo # <<>> BY DEF TodoInv
<1>2. Contents' = ApplyAll(tree, Batch) BY DEF Updated, Contents
<1>3. After(ApplyAll(tree, Batch), Rest) = ApplyAll(tree, todo)
  BY <1>1, BatchAndRest DEF TypeOK
<1> QED BY <1>2, <1>3, MarkIsPushedDown

LEMMA PairOf == ASSUME NEW S, NEW a \in S, NEW b \in S PROVE <<a>> \o <<b>> = <<a, b>>
<1>1. <<a>> \in Seq(S) /\ <<b>> \in Seq(S) /\ <<a, b>> \in Seq(S) OBVIOUS
<1>2. Len(<<a>> \o <<b>>) = 2 /\ Len(<<a, b>>) = 2 /\ <<a>> \o <<b>> \in Seq(S) BY <1>1
<1>3. \A i \in 1 .. 2 : (<<a>> \o <<b>>)[i] = <<a, b>>[i] BY <1>1
<1> QED BY <1>1, <1>2, <1>3, SeqEqual

\* A request adds to what is to be applied what it adds to the truth.
LEMMA BeginKeepsTruth ==
  ASSUME TypeOK, TodoInv, mpc = "idle", Contents = truth,
         NEW what, NEW operations \in Seq(Operations), Len(operations) <= 1,
         Begin(what, operations), truth' = After(truth, operations)
  PROVE  After(Contents, todo') = truth'
<1>1. CASE ~covered BY <1>1 DEF Begin
<1>2. CASE covered
  <2>1. todo' = <<PushDown>> \o operations BY <1>2 DEF Begin
  <2>2. Contents = NoPoint /\ Apply(NoPoint, PushDown) = NoPoint
    BY <1>2, PushDownEmpties, OperationTypes DEF Contents
  <2>3. CASE operations = <<>>
    <3>1. todo' = <<PushDown>> BY <2>1, <2>3
    <3> QED BY <2>2, <2>3, <3>1 DEF After, ApplyAll
  <2>4. CASE operations # <<>>
    <3>1. Len(operations) = 1 BY <2>4, OneOrTwo
    <3>2. PICK op \in Operations : operations = <<op>> BY <3>1
    <3>3. todo' = <<PushDown, op>> BY <2>1, <3>2, PairOf, OperationTypes
    <3> QED BY <2>2, <3>2, <3>3 DEF After, ApplyAll
  <2> QED BY <2>3, <2>4
<1> QED BY <1>1, <1>2

\* No step takes an error back.
LEMMA SoundStep == TypeOK /\ [Next]_vars /\ Sound' => Sound
<1> SUFFICES ASSUME TypeOK, [Next]_vars, Sound' PROVE Sound OBVIOUS
<1> USE DEF Sound
<1>1. CASE BeginRequest BY <1>1 DEF BeginRequest, Begin
<1>2. CASE DeleteAncestor BY <1>2 DEF DeleteAncestor
<1>3. CASE StopThread BY <1>3 DEF StopThread
<1>4. CASE TestRebuildPtr BY <1>4 DEF TestRebuildPtr
<1>5. CASE UpdateDirectly BY <1>5 DEF UpdateDirectly
<1>6. CASE LockWorkingFlag BY <1>6 DEF LockWorkingFlag
<1>7. CASE UpdateLocked BY <1>7 DEF UpdateLocked
<1>8. CASE LogUpdate BY <1>8 DEF LogUpdate, Log
<1>9. CASE RangeSearch BY <1>9 DEF RangeSearch
<1>10. CASE TestBeforeSearch BY <1>10 DEF TestBeforeSearch
<1>11. CASE CountSearch BY <1>11 DEF CountSearch
<1>12. CASE EndNearestSearch BY <1>12 DEF EndNearestSearch
<1>13. CASE Join BY <1>13 DEF Join
<1>14. CASE LockRebuildPtr BY <1>14 DEF LockRebuildPtr
<1>15. CASE NothingToRebuild BY <1>15 DEF NothingToRebuild
<1>16. CASE StartRebuild BY <1>16 DEF StartRebuild
<1>17. CASE LockSearch BY <1>17 DEF LockSearch
<1>18. CASE Flatten BY <1>18 DEF Flatten
<1>19. CASE UnlockSearch BY <1>19 DEF UnlockSearch
<1>20. CASE PopOperation BY <1>20 DEF PopOperation
<1>21. CASE RunOperation BY <1>21 DEF RunOperation
<1>22. CASE LoggerDrained BY <1>22 DEF LoggerDrained
<1>23. CASE Swap BY <1>23 DEF Swap
<1>24. CASE UnlockSearchAgain BY <1>24 DEF UnlockSearchAgain
<1>25. CASE ForgetRebuildPtr BY <1>25 DEF ForgetRebuildPtr
<1>26. CASE UnlockWorkingFlag BY <1>26 DEF UnlockWorkingFlag
<1>27. CASE ClearRebuildFlag BY <1>27 DEF ClearRebuildFlag
<1>28. CASE DeleteOldNodes BY <1>28 DEF DeleteOldNodes
<1>29. ASSUME NEW box, NEW p, EndRangeSearch(box, p) PROVE Sound
  BY <1>29 DEF EndRangeSearch
<1>30. CASE UNCHANGED vars BY <1>30 DEF vars
<1> QED
  BY <1>1, <1>2, <1>3, <1>4, <1>5, <1>6, <1>7, <1>8, <1>9, <1>10, <1>11, <1>12, <1>13, <1>14, <1>15, <1>16, <1>17, <1>18, <1>19, <1>20, <1>21, <1>22, <1>23, <1>24, <1>25, <1>26, <1>27, <1>28, <1>29, <1>30, RequestCases
  DEF Next, MappingThread, RebuildThread

LEMMA TruthStep ==
  TypeOK /\ TodoInv /\ CopyInv /\ TruthInv /\ [Next]_vars => TruthInv'
<1> SUFFICES ASSUME TypeOK, TodoInv, CopyInv, TruthInv, [Next]_vars, Sound'
             PROVE  After(Contents, Remaining)' = truth'
  BY DEF TruthInv
<1>1. Sound /\ After(Contents, Remaining) = truth BY SoundStep DEF TruthInv
<1>2. CASE BeginRequest
  <2>1. PICK what \in {"update", "downsample", "nearest"}, operations \in Seq(Operations) :
           /\ Begin(what, operations) /\ Len(operations) <= 1
           /\ truth' = After(truth, operations)
    BY <1>2 DEF BeginRequest
  <2>2. mpc = "idle" /\ todo = <<>> BY <2>1 DEF Begin, Ready, TodoInv
  <2>3. Contents = truth BY <1>1, <2>2 DEF Remaining, After
  <2>4. mpc' # "log" /\ Contents' = Contents BY <2>1 DEF Begin, Contents
  <2>5. After(Contents, todo') = truth' BY <2>1, <2>2, <2>3, BeginKeepsTruth
  <2> QED BY <2>4, <2>5 DEF Remaining, After, ApplyAll, Apply
<1>3. CASE DeleteAncestor
  <2>1. todo' = <<>> /\ mpc' # "log" BY <1>3 DEF DeleteAncestor, Ready, TodoInv
  <2>2. Contents' = truth' BY <1>3 DEF DeleteAncestor, Contents, NoPoint
  <2> QED BY <2>1, <2>2 DEF Remaining, After
<1>4. CASE UpdateDirectly
  <2>1. After(Contents, todo) = truth BY <1>1, <1>4 DEF UpdateDirectly, Remaining
  <2>2. After(Contents', Rest) = truth BY <1>4, <2>1, UpdateKeepsTruth DEF UpdateDirectly
  <2>3. Remaining' = Rest /\ truth' = truth
    BY <1>4 DEF UpdateDirectly, NextUpdate, Remaining
  <2> QED BY <2>2, <2>3 DEF After, ApplyAll, Apply
<1>5. CASE UpdateLocked
  <2>1. After(Contents, todo) = truth BY <1>1, <1>5 DEF UpdateLocked, Remaining
  <2>2. After(Contents', Rest) = truth BY <1>5, <2>1, UpdateKeepsTruth DEF UpdateLocked
  <2>3. Remaining' = Rest /\ truth' = truth
    BY <1>5 DEF UpdateLocked, Remaining, Rest
  <2> QED BY <2>2, <2>3 DEF After, ApplyAll, Apply
<1>6. CASE LogUpdate
  <2>1. Remaining = Rest /\ Remaining' = Rest BY <1>6 DEF LogUpdate, NextUpdate, Remaining
  <2>2. Contents' = Contents /\ truth' = truth BY <1>6 DEF LogUpdate, Contents, NoPoint
  <2> QED BY <1>1, <2>1, <2>2 DEF After, ApplyAll, Apply
<1>7. ASSUME NEW box \in Boxes, NEW p \in box, EndRangeSearch(box, p)
      PROVE  After(Contents, Remaining)' = truth'
  <2>1. todo = <<>> /\ mpc # "log" BY <1>7 DEF EndRangeSearch, EndSearch, TodoInv
  <2>2. Contents = truth BY <1>1, <2>1 DEF Remaining, After
  <2>3. todo' # <<>> /\ truth' = ApplyAll(truth, todo') BY <1>7, EndRangeSearchTodo
  <2>4. mpc' # "log" /\ Contents' = Contents
    BY <1>7 DEF EndRangeSearch, EndSearch, Contents, NoPoint
  <2> QED BY <2>2, <2>3, <2>4 DEF Remaining, After, ApplyAll, Apply
<1>8. CASE Swap
  <2>1. tree' = tree BY <1>1, <1>8 DEF Swap, CopyInv
  <2>2. covered' = covered BY <1>8 DEF Swap, Sound
  <2>3. UNCHANGED <<at_root, mainVars, truth>> BY <1>8 DEF Swap
  <2> QED BY <1>1, <2>1, <2>2, <2>3 DEF After, ApplyAll, Apply, Contents, NoPoint, Remaining, Rest
<1>9. ASSUME UNCHANGED <<at_root, treeVars, todo, truth>>, mpc' # "log", mpc # "log"
      PROVE  After(Contents, Remaining)' = truth'
  BY <1>1, <1>9 DEF After, ApplyAll, Apply, Contents, NoPoint, Remaining, Rest
<1>10. ASSUME UNCHANGED <<at_root, treeVars, todo, truth, mpc>>
      PROVE  After(Contents, Remaining)' = truth'
  BY <1>1, <1>10 DEF After, ApplyAll, Apply, Contents, NoPoint, Remaining, Rest
<1>11. CASE StopThread \/ TestRebuildPtr \/ LockWorkingFlag \/ RangeSearch \/ TestBeforeSearch
         \/ CountSearch \/ EndNearestSearch \/ Join
  BY <1>9, <1>11
  DEF StopThread, TestRebuildPtr, LockWorkingFlag, RangeSearch, TestBeforeSearch,
      CountSearch, EndNearestSearch, Join, EndSearch
<1>12. CASE LockRebuildPtr \/ NothingToRebuild \/ StartRebuild \/ LockSearch \/ Flatten \/ UnlockSearch \/ PopOperation
         \/ RunOperation \/ LoggerDrained \/ UnlockSearchAgain \/ ForgetRebuildPtr \/ UnlockWorkingFlag \/ ClearRebuildFlag \/ DeleteOldNodes
         \/ UNCHANGED vars
  BY <1>10, <1>12
  DEF LockRebuildPtr, NothingToRebuild, StartRebuild, LockSearch, Flatten, UnlockSearch, PopOperation,
      RunOperation, LoggerDrained, UnlockSearchAgain, ForgetRebuildPtr, UnlockWorkingFlag, ClearRebuildFlag, DeleteOldNodes, vars
<1> QED
  BY <1>2, <1>3, <1>4, <1>5, <1>6, <1>7, <1>8, <1>11, <1>12, RequestCases
  DEF Next, MappingThread, RebuildThread

\* What an update in the next state has to show.
LEMMA LeadsNext ==
  ASSUME NEW t \in Bags, Replays(Replayed', Rebuild_Logger', t),
         tree' = IF mpc' = "log" THEN ApplyAll(t, Batch') ELSE t
  PROVE  LeadsToTree(Replayed)'
  BY DEF LeadsToTree, Replays, IsReplay, Logged, Bags, Apply, ApplyAll

\* The mapping thread's steps that are no part of an update leave the copy as it is.
LEMMA CopyFrame ==
  ASSUME CopyInv, Sound' => Sound,
         UNCHANGED <<tree, rebuild_flag, Rebuild_Logger, rebuildVars>>,
         mpc # "log", mpc' # "log"
  PROVE  CopyInv'
<1>1. Replayed' = Replayed BY DEF Replayed, Apply
<1>2. ASSUME LeadsToTree(Replayed) PROVE LeadsToTree(Replayed)'
  <2>1. PICK t \in Bags : Replays(Replayed, Rebuild_Logger, t) /\ tree = t
    BY <1>2 DEF LeadsToTree
  <2> QED BY <1>1, <2>1, LeadsNext
<1> QED BY <1>2 DEF CopyInv

LEMMA CopyStep ==
  ASSUME TypeOK, LockInv, TodoInv, RingInv, CopyInv, [Next]_vars
  PROVE  CopyInv'
<1>0. Sound' => Sound BY SoundStep
<1>1. CASE BeginRequest
  BY <1>0, <1>1, CopyFrame DEF BeginRequest, Begin, Ready
<1>2. CASE StopThread \/ TestRebuildPtr \/ LockWorkingFlag \/ RangeSearch \/ TestBeforeSearch
         \/ CountSearch \/ EndNearestSearch \/ Join \/ DeleteAncestor
  BY <1>0, <1>2, CopyFrame
  DEF StopThread, TestRebuildPtr, LockWorkingFlag, RangeSearch, TestBeforeSearch,
      CountSearch, EndNearestSearch, Join, DeleteAncestor, Ready, EndSearch
<1>3. ASSUME NEW box, NEW p, EndRangeSearch(box, p) PROVE CopyInv'
  BY <1>0, <1>3, CopyFrame DEF EndRangeSearch, EndSearch
<1>4. CASE UpdateDirectly
  <2>1. rpc \notin Rebuilding /\ rpc' = rpc BY <1>4 DEF UpdateDirectly, LockInv, PtrInv
  <2> QED BY <2>1 DEF CopyInv, Rebuilding
<1>5. CASE UpdateLocked
  <2> SUFFICES ASSUME Sound' PROVE CopyInv' BY DEF CopyInv
  <2>1. Sound /\ rpc \notin Holding
    BY <1>0, <1>5 DEF UpdateLocked, Sound, LockInv, HoldInv
  <2>2. /\ Rebuild_Logger' = Rebuild_Logger /\ UNCHANGED <<at_root, rebuild_flag, todo, rebuildVars>>
        /\ mpc = "apply" /\ mpc' = "log" /\ tree' = ApplyAll(tree, Batch)
    BY <1>5 DEF UpdateLocked, Updated
  <2>3. ASSUME rpc \in {"drain", "replay"} PROVE LeadsToTree(Replayed)'
    <3>1. PICK t \in Bags : Replays(Replayed, Rebuild_Logger, t) /\ tree = t
      BY <2>1, <2>2, <2>3 DEF LeadsToTree, CopyInv
    <3>2. Batch' = Batch /\ Replayed' = Replayed BY <2>2 DEF Batch, Replayed, Apply
    <3>3. Replays(Replayed', Rebuild_Logger', t) BY <2>2, <3>1, <3>2
    <3>4. tree' = ApplyAll(t, Batch') BY <2>2, <3>1, <3>2
    <3> QED BY <2>2, <3>3, <3>4, LeadsNext
  <2> QED BY <2>1, <2>2, <2>3 DEF CopyInv, Holding, Rebuilding
<1>6. CASE LogUpdate
  <2> SUFFICES ASSUME Sound' PROVE CopyInv' BY DEF CopyInv
  <2>1. Sound /\ rpc \notin Holding /\ ~overflown'
    BY <1>0, <1>6 DEF LogUpdate, Sound, LockInv, HoldInv
  <2>2. /\ UNCHANGED <<tree, rebuild_flag, rebuildVars>> /\ mpc = "log" /\ mpc' # "log"
    BY <1>6 DEF LogUpdate, NextUpdate
  <2>3. ASSUME rpc \in {"drain", "replay"} PROVE LeadsToTree(Replayed)'
    <3>1. rebuild_flag /\ LeadsToTree(Replayed)
      BY <2>1, <2>3 DEF CopyInv, Rebuilding
    <3>2. PICK t \in Bags : Replays(Replayed, Rebuild_Logger, t) /\ tree = ApplyAll(t, Batch)
      BY <2>2, <3>1 DEF LeadsToTree
    <3>3. Replayed \in Bags /\ Replayed' = Replayed
      BY <2>2, ApplyType DEF Replayed, TypeOK, Apply
    <3>4. Replays(Replayed, Rebuild_Logger', tree)
      BY <1>6, <2>1, <3>1, <3>2, <3>3, LogFacts DEF LogUpdate
    <3>5. tree' \in Bags /\ Replays(Replayed', Rebuild_Logger', tree')
      BY <2>2, <3>3, <3>4 DEF TypeOK
    <3> QED BY <2>2, <3>5, LeadsNext
  <2> QED BY <2>1, <2>2, <2>3 DEF CopyInv, Holding, Rebuilding
<1>7. CASE StartRebuild
  <2>1. Sound' => Rebuild_Logger.counter = 0
    BY <1>7 DEF StartRebuild, Sound, Logger!empty, RingInv
  <2> QED BY <1>7, <2>1 DEF StartRebuild, CopyInv
<1>8. CASE LockSearch BY <1>0, <1>8 DEF LockSearch, CopyInv, Rebuilding
<1>9. CASE Flatten BY <1>0, <1>9 DEF Flatten, CopyInv, Rebuilding
<1>10. CASE UnlockSearch
  <2> SUFFICES ASSUME Sound' PROVE CopyInv' BY DEF CopyInv
  <2>1. Sound /\ new_root # NoPoint /\ mpc \notin {"apply", "log"}
    BY <1>0, <1>10 DEF UnlockSearch, Sound, LockInv, HoldInv, Holding, TypeOK
  <2>2. /\ UNCHANGED <<tree, new_root, Rebuild_Logger, rebuild_flag, mpc>>
        /\ rpc = "unlock_search" /\ rpc' = "drain"
    BY <1>10, <2>1 DEF UnlockSearch
  <2>3. Rebuild_Logger.counter = 0 /\ new_root = tree /\ tree \in Bags /\ rebuild_flag
    BY <2>1, <2>2 DEF CopyInv, Rebuilding, TypeOK
  <2>4. Replays(new_root, Rebuild_Logger, tree) BY <2>3, EmptyReplays
  <2>5. Replayed' = new_root BY <2>2 DEF Replayed
  <2>6. LeadsToTree(Replayed)' BY <2>1, <2>2, <2>3, <2>4, <2>5, LeadsNext
  <2> QED BY <2>2, <2>3, <2>6 DEF CopyInv, Rebuilding
<1>11. CASE PopOperation
  <2> SUFFICES ASSUME Sound' PROVE CopyInv' BY DEF CopyInv
  <2>1. Sound /\ mpc # "log"
    BY <1>0, <1>11 DEF PopOperation, Sound, LockInv, HoldInv
  <2>2. /\ UNCHANGED <<tree, new_root, rebuild_flag, mpc>>
        /\ rpc = "drain" /\ rpc' = "replay"
        /\ operation' = Logger!front(Rebuild_Logger)
        /\ Rebuild_Logger' = Logger!pop(Rebuild_Logger)
        /\ ~Logger!empty(Rebuild_Logger)
    BY <1>11 DEF PopOperation
  <2>3. Rebuild_Logger \in Queues /\ Ring(Rebuild_Logger) /\ Rebuild_Logger.counter # 0
    BY <2>1, <2>2 DEF TypeOK, Queues, RingInv, Logger!empty, Sound
  <2>4. rebuild_flag /\ LeadsToTree(Replayed) /\ Replayed = new_root
    BY <2>1, <2>2 DEF CopyInv, Rebuilding, Replayed
  <2>5. tree \in Bags /\ new_root \in Bags /\ Replays(new_root, Rebuild_Logger, tree)
    BY <2>1, <2>4 DEF LeadsToTree, TypeOK
  <2>6. Replays(Apply(new_root, operation'), Rebuild_Logger', tree)
    BY <2>2, <2>3, <2>5, PopReplays
  <2>7. Replayed' = Apply(new_root, operation') BY <2>2 DEF Replayed, Apply
  <2>8. LeadsToTree(Replayed)' BY <2>1, <2>2, <2>5, <2>6, <2>7, LeadsNext
  <2> QED BY <2>2, <2>4, <2>8 DEF CopyInv, Rebuilding
<1>12. CASE RunOperation
  <2> SUFFICES ASSUME Sound' PROVE CopyInv' BY DEF CopyInv
  <2>1. /\ UNCHANGED <<at_root, todo, tree, Rebuild_Logger, rebuild_flag, mpc>>
        /\ rpc = "replay" /\ rpc' = "drain"
    BY <1>12 DEF RunOperation
  <2>2. Replayed' = Replayed BY <1>12, <2>1 DEF RunOperation, Replayed
  <2>3. rebuild_flag /\ LeadsToTree(Replayed) BY <1>0, <2>1 DEF CopyInv, Rebuilding
  <2>4. PICK t \in Bags : /\ Replays(Replayed, Rebuild_Logger, t)
                          /\ tree = IF mpc = "log" THEN ApplyAll(t, Batch) ELSE t
    BY <2>3 DEF LeadsToTree
  <2>5. Batch' = Batch BY <2>1 DEF Batch
  <2>6. LeadsToTree(Replayed)' BY <2>1, <2>2, <2>4, <2>5, LeadsNext
  <2> QED BY <2>1, <2>3, <2>6 DEF CopyInv, Rebuilding
<1>13. CASE LoggerDrained
  <2> SUFFICES ASSUME Sound' PROVE CopyInv' BY DEF CopyInv
  <2>1. Sound /\ mpc # "log"
    BY <1>0, <1>13 DEF LoggerDrained, Sound, LockInv, HoldInv
  <2>2. /\ UNCHANGED <<tree, new_root, Rebuild_Logger, rebuild_flag>>
        /\ rpc = "drain" /\ rpc' = "lock_search_again" /\ Rebuild_Logger.counter = 0
    BY <1>13 DEF LoggerDrained, Logger!empty, RingInv
  <2>3. rebuild_flag /\ LeadsToTree(Replayed) /\ Replayed = new_root
    BY <2>1, <2>2 DEF CopyInv, Rebuilding, Replayed
  <2>4. Replays(new_root, Rebuild_Logger, tree) BY <2>1, <2>3 DEF LeadsToTree
  <2>5. new_root = tree BY <2>2, <2>4, EmptyReplays DEF TypeOK
  <2> QED BY <2>2, <2>3, <2>5 DEF CopyInv, Rebuilding
<1>14. CASE Swap \/ UnlockSearchAgain \/ ForgetRebuildPtr \/ UnlockWorkingFlag
         \/ ClearRebuildFlag \/ DeleteOldNodes \/ LockRebuildPtr \/ NothingToRebuild
  BY <1>14
  DEF Swap, UnlockSearchAgain, ForgetRebuildPtr, UnlockWorkingFlag,
      ClearRebuildFlag, DeleteOldNodes, LockRebuildPtr, NothingToRebuild, CopyInv, Rebuilding
<1>15. CASE UNCHANGED vars
  <2>1. /\ UNCHANGED <<at_root, mpc, todo, tree, Rebuild_Logger, rebuild_flag, rebuildVars>>
    BY <1>15 DEF vars
  <2>2. Replayed' = Replayed /\ Batch' = Batch BY <2>1 DEF Replayed, Batch, Apply
  <2>3. ASSUME LeadsToTree(Replayed) PROVE LeadsToTree(Replayed)'
    <3>1. PICK t \in Bags : /\ Replays(Replayed, Rebuild_Logger, t)
                            /\ tree = IF mpc = "log" THEN ApplyAll(t, Batch) ELSE t
      BY <2>3 DEF LeadsToTree
    <3> QED BY <2>1, <2>2, <3>1, LeadsNext
  <2> QED BY <1>0, <2>1, <2>3 DEF CopyInv
<1> QED
  BY <1>1, <1>2, <1>3, <1>4, <1>5, <1>6, <1>7, <1>8, <1>9, <1>10, <1>11, <1>12, <1>13, <1>14,
     <1>15, RequestCases
  DEF Next, MappingThread, RebuildThread

-------------------------------------------------------------------------------
(* The theorems.                                                           *)

LEMMA InitInv == Init => RebuildInv
<1> SUFFICES ASSUME Init PROVE RebuildInv OBVIOUS
<1> USE DEF Init
<1>1. Rebuild_Logger \in Logger!Queues(Operations) /\ Rebuild_Logger.is_empty = TRUE
      /\ Rebuild_Logger.counter = 0 /\ Rebuild_Logger.head = 0 /\ Rebuild_Logger.tail = 0
  BY OperationTypes DEF Logger!Cleared, Logger!Queues
<1>2. DataOK
  <2>1. tree \in Bags BY DEF Bags
  <2>2. <<>> \in Seq(Operations) /\ Len(<<>>) <= 2 OBVIOUS
  <2>3. 0 \in 0 .. MaxOps[at_root]
    <3>1. MaxOps[at_root] \in Nat OBVIOUS
    <3> QED BY <3>1
  <2> QED BY <1>1, <2>1, <2>2, <2>3, OperationTypes DEF DataOK
<1>3. FlagsOK BY DEF FlagsOK
<1>4. TypeOK BY <1>2, <1>3 DEF TypeOK, DataOK, FlagsOK
<1>5. PtrInv /\ SearchInv /\ HoldInv /\ TodoInv
  BY DEF PtrInv, SearchInv, HoldInv, TodoInv, Rebuilding, Excluding, Holding
<1>6. RingInv
  <2>1. (0 + 0) % Q_LEN = 0 BY SlotOf
  <2> QED BY <1>1, <2>1 DEF RingInv, Ring
<1>7. TruthInv BY DEF TruthInv, After, Remaining, Contents
<1>8. CopyInv BY DEF CopyInv, Rebuilding
<1> QED BY <1>4, <1>5, <1>6, <1>7, <1>8 DEF RebuildInv

LEMMA NextInv == RebuildInv /\ [Next]_vars => RebuildInv'
<1> SUFFICES ASSUME RebuildInv, [Next]_vars PROVE RebuildInv' OBVIOUS
<1> USE DEF RebuildInv
<1>1. LockInv BY DEF LockInv
<1>2. LockInv' BY <1>1, LockStep
<1>3. TypeOK' BY <1>1, TypeStep
<1>4. TodoInv' BY TodoStep
<1>5. RingInv' BY RingStep
<1>6. TruthInv' BY TruthStep
<1>7. CopyInv' BY <1>1, CopyStep
<1> QED BY <1>2, <1>3, <1>4, <1>5, <1>6, <1>7 DEF LockInv

\* The inductive invariant of the rebuilding thread, whatever the mapping thread does
\* meanwhile (multi_thread_rebuild, and what Add_Points and Delete_Point_Boxes log).
THEOREM RebuildInvariant == Spec => []RebuildInv
<1> QED BY InitInv, NextInv, PTL DEF Spec

\* Every variable keeps its type, for any points, boxes, bounds and room in the
\* logger.
THEOREM TypeCorrect == Spec => []TypeOK
<1>1. RebuildInv => TypeOK BY DEF RebuildInv
<1> QED BY <1>1, RebuildInvariant, PTL

\* Whatever updates the mapping thread makes while its subtree is copied, built
\* anew, brought up to date from the logger and swapped in (multi_thread_rebuild),
\* it finds them all in the tree, once and in order, unless one of the histories
\* says that a rebuild has gone wrong.
THEOREM NothingIsLost == Spec => []TreeIsTruth
<1>1. RebuildInv => TreeIsTruth
  BY DEF RebuildInv, TreeIsTruth, TruthInv, Sound, TodoInv, Remaining, After
<1> QED BY <1>1, RebuildInvariant, PTL

\* search_mutex_counter and search_flag_mutex keep every search they protect out
\* of the nodes that delete_tree_nodes frees, even after an empty copy has broken
\* working_flag_mutex.
THEOREM SearchesAreSafe == Spec => []NoSearchInDeletedNodes
<1>1. RebuildInv => NoSearchInDeletedNodes
  BY DEF RebuildInv, NoSearchInDeletedNodes, SearchInv, Protected
<1> QED BY <1>1, RebuildInvariant, PTL

-------------------------------------------------------------------------------
(* Who waits for whom.                                                     *)

\* The mapping thread waits: for working_flag_mutex, for the counter, or to join.
MainWaits ==
  \/ mpc = "lock" /\ working # "none"
  \/ mpc = "count" /\ search_mutex_counter = -1
  \/ mpc = "join" /\ rpc # "terminated"

\* The rebuild thread waits: for working_flag_mutex, for the counter, or for
\* search_flag_mutex.
RebuildWaits ==
  \/ rpc \in {"lock_working", "drain"} /\ working # "none"
  \/ rpc \in {"lock_search", "lock_search_again"}
     /\ (search_held \/ search_mutex_counter # 0)
  \/ rpc \in {"unlock_search", "unlock_search_again"} /\ search_held

\* Whatever has become of the mutex after an empty copy, it is held by a thread
\* that is on its way to release it.
HolderInv ==
  /\ working = "main" => mpc \in {"apply", "log"}
  /\ working = "rebuild" => rpc \in Holding

LEMMA HolderStep == TypeOK /\ HolderInv /\ [Next]_vars => HolderInv'
<1> SUFFICES ASSUME TypeOK, HolderInv, [Next]_vars PROVE HolderInv' OBVIOUS
<1> USE DEF HolderInv, Holding
<1>1. CASE BeginRequest BY <1>1 DEF BeginRequest, Begin, Ready
<1>2. CASE DeleteAncestor \/ StopThread BY <1>2 DEF DeleteAncestor, StopThread, Ready
<1>3. CASE TestRebuildPtr \/ UpdateDirectly \/ LockWorkingFlag \/ UpdateLocked \/ LogUpdate
  BY <1>3
  DEF TestRebuildPtr, UpdateDirectly, LockWorkingFlag, UpdateLocked, LogUpdate, NextUpdate
<1>4. CASE RangeSearch \/ TestBeforeSearch \/ CountSearch \/ EndNearestSearch \/ Join
  BY <1>4 DEF RangeSearch, TestBeforeSearch, CountSearch, EndNearestSearch, EndSearch, Join
<1>5. ASSUME NEW box, NEW p, EndRangeSearch(box, p) PROVE HolderInv'
  BY <1>5 DEF EndRangeSearch, EndSearch
<1>6. CASE LockRebuildPtr \/ NothingToRebuild \/ StartRebuild \/ LockSearch \/ Flatten
  BY <1>6 DEF LockRebuildPtr, NothingToRebuild, StartRebuild, LockSearch, Flatten
<1>7. CASE UnlockSearch \/ PopOperation \/ RunOperation \/ LoggerDrained \/ Swap
  BY <1>7 DEF UnlockSearch, PopOperation, RunOperation, LoggerDrained, Swap
<1>8. CASE UnlockSearchAgain \/ ForgetRebuildPtr \/ UnlockWorkingFlag \/ ClearRebuildFlag
         \/ DeleteOldNodes
  BY <1>8
  DEF UnlockSearchAgain, ForgetRebuildPtr, UnlockWorkingFlag, ClearRebuildFlag, DeleteOldNodes
<1>9. CASE UNCHANGED vars BY <1>9 DEF vars, lockVars, mainVars, rebuildVars
<1> QED
  BY <1>1, <1>2, <1>3, <1>4, <1>5, <1>6, <1>7, <1>8, <1>9, RequestCases
  DEF Next, MappingThread, RebuildThread

\* The rebuild thread waits only for an update or a search that is under way, in
\* which the mapping thread waits for nothing.
WaitsAreShort == RebuildWaits => mpc \in {"apply", "log", "reading"}

\* Two threads, five mutexes and a counter, taken in different orders: they never
\* wait for each other, not even after a rebuild has given back a mutex it did not
\* hold (multi_thread_rebuild, and the updates and searches of ikd_Tree.cpp).
THEOREM NoDeadlock == Spec => [](WaitsAreShort /\ ~(MainWaits /\ RebuildWaits))
<1>1. Init => HolderInv BY DEF Init, HolderInv
<1>2. RebuildInv => TypeOK BY DEF RebuildInv
<1>3. Spec => []HolderInv BY <1>1, <1>2, HolderStep, RebuildInvariant, PTL DEF Spec
<1>4. RebuildInv /\ HolderInv => WaitsAreShort /\ ~(MainWaits /\ RebuildWaits)
  BY DEF RebuildInv, TypeOK, SearchInv, Excluding, Holding, HolderInv,
         WaitsAreShort, MainWaits, RebuildWaits
<1> QED BY <1>3, <1>4, RebuildInvariant, PTL
===============================================================================
