---------------------------- MODULE IkdTreeRebuild ----------------------------
(***************************************************************************)
(* How ikd_Tree.cpp rebuilds a large subtree in a second thread while the  *)
(* mapping thread goes on adding, deleting and searching points.           *)
(*                                                                         *)
(* The rebuild thread copies the points of *Rebuild_Ptr, builds a balanced *)
(* tree from the copy, replays on it what the mapping thread has logged    *)
(* since, and puts the new tree in the place of the old one.  The mapping  *)
(* thread takes working_flag_mutex for an update of that subtree and logs  *)
(* the update if rebuild_flag is set; a search of it excludes the copying  *)
(* and the swapping by search_mutex_counter or search_flag_mutex.          *)
(*                                                                         *)
(* The module follows one subtree of at least Multi_Thread_Rebuild_Point_- *)
(* Num nodes.  Its shape does not matter here, only how often each point   *)
(* is live in it.  rebuild_logger_mutex_lock is left out: both threads     *)
(* take it only while they hold working_flag_mutex.                        *)
(***************************************************************************)
EXTENDS Integers, Sequences

CONSTANTS Points,   \* the points that may be in the subtree
          Boxes,    \* the boxes that may be deleted, as sets of points
          MaxOps,   \* bound: requests made, of a subtree (FALSE) and of the tree (TRUE)
          Q_LEN     \* operations Rebuild_Logger has room for

ASSUME RebuildAssumption ==
  /\ Boxes \subseteq SUBSET Points
  /\ MaxOps \in [BOOLEAN -> Nat]
  /\ Q_LEN \in Nat \ {0}

VARIABLES
  at_root,       \* the subtree is the whole tree (Rebuild_Ptr is &Root_Node)
  tree,          \* Points -> Nat: the live points below the father's pointer
  covered,       \* an ancestor is deleted and the mark not yet pushed down here
  Rebuild_Ptr,   \* it points to the subtree (TRUE) or is nullptr
  rebuild_flag,
  Rebuild_Logger,         \* the MANUAL_Q of logged operations
  search_mutex_counter,
  working,       \* who holds working_flag_mutex
  search_held,   \* the mapping thread holds search_flag_mutex for a range search
  ptr_held,      \* the rebuild thread holds rebuild_ptr_mutex_lock
  termination_flag,
  mpc,           \* the mapping thread: where it is,
  doing,         \*   what was asked for ("nearest", "downsample" or "update"),
  todo,          \*   the operations it has still to apply,
  reading,       \*   the tree it searches ("none", "tree", or "old": swapped out)
  counted,       \*   whether its search is counted in search_mutex_counter
  rpc,           \* the rebuild thread: where it is,
  new_root,      \*   the points of new_root_node (first, of Rebuild_PCL_Storage),
  operation,     \*   and the Operation it replays
  truth,         \* history: the points as they should be
  ops,           \* history: requests made so far
  error,         \* history: "ERROR!!!" has been printed
  emptied,       \* history: a rebuild has copied no point at all
  overflown,     \* history: an operation was logged that Rebuild_Logger had no room for
  revived        \* history: a rebuild has cleared the mark of a deleted ancestor

treeVars == <<tree, covered>>
lockVars == <<working, search_held, ptr_held>>
searchVars == <<search_mutex_counter, reading, counted>>
mainVars == <<mpc, doing, todo>>
rebuildVars == <<rpc, new_root, operation>>
historyVars == <<truth, ops, error, emptied, overflown, revived>>
vars == <<at_root, treeVars, Rebuild_Ptr, rebuild_flag, Rebuild_Logger, lockVars,
          searchVars, termination_flag, mainVars, rebuildVars, historyVars>>

Bags == [Points -> Nat]
NoPoint == [p \in Points |-> 0]

Add(p) == [kind |-> "add", points |-> {p}]
Delete(box) == [kind |-> "delete", points |-> box]
PushDown == Delete(Points)   \* of a deleted ancestor: the whole subtree goes
Logger == INSTANCE ManualQ

Operations == [kind : {"add", "delete"}, points : SUBSET Points]

\* Add_by_point, Delete_by_range, and PUSH_DOWN of a deleted father.
Apply(c, op) ==
  [p \in Points |->
     IF p \notin op.points THEN c[p] ELSE IF op.kind = "add" THEN c[p] + 1 ELSE 0]

\* An update applies and logs one operation, or two at the root.
ApplyAll(c, s) == IF Len(s) = 1 THEN Apply(c, s[1]) ELSE Apply(Apply(c, s[1]), s[2])
PushAll(logger, s) ==
  IF Len(s) = 1 THEN Logger!push(logger, s[1])
  ELSE Logger!push(Logger!push(logger, s[1]), s[2])

\* The points a search finds.
Contents == IF covered THEN NoPoint ELSE tree

Init ==
  /\ at_root \in BOOLEAN
  /\ tree = [p \in Points |-> 1] /\ covered = FALSE
  /\ Rebuild_Ptr = FALSE /\ rebuild_flag = FALSE
  /\ Rebuild_Logger = Logger!Cleared(PushDown)
  /\ search_mutex_counter = 0 /\ reading = "none" /\ counted = FALSE
  /\ working = "none" /\ search_held = FALSE /\ ptr_held = FALSE
  /\ termination_flag = FALSE
  /\ mpc = "idle" /\ doing = "update" /\ todo = <<>>
  /\ rpc = "start" /\ new_root = NoPoint /\ operation = PushDown
  /\ truth = tree /\ ops = 0 /\ error = FALSE /\ emptied = FALSE
  /\ overflown = FALSE /\ revived = FALSE

-------------------------------------------------------------------------------
(* The mapping thread: requests.                                           *)

\* A tree whose root is gone is not used any more: the next Add_Points would
\* read Root_Node->division_axis.
Ready == mpc = "idle" /\ ops < MaxOps[at_root] /\ ~(at_root /\ emptied)

\* A request that reaches the subtree first pushes a deleted ancestor's mark down.
Begin(what, operations) ==
  /\ Ready
  /\ ops' = ops + 1
  /\ doing' = what
  /\ todo' = IF covered THEN <<PushDown>> \o operations ELSE operations
  /\ mpc' = IF todo' = <<>> THEN "search" ELSE "test"
  /\ UNCHANGED <<at_root, treeVars, Rebuild_Ptr, rebuild_flag, Rebuild_Logger, lockVars,
                 searchVars,
                 termination_flag, rebuildVars, error, emptied, overflown, revived>>

\* Add_Points(..., false)
AddPoint(p) == Begin("update", <<Add(p)>>) /\ truth' = Apply(truth, Add(p))

\* Delete_Point_Boxes
DeleteBox(box) == Begin("update", <<Delete(box)>>) /\ truth' = Apply(truth, Delete(box))

\* Add_Points(..., true): a range search decides what to put into the box.
AddDownsampled == Begin("downsample", <<>>) /\ UNCHANGED truth

\* Nearest_Search turns back at a deleted ancestor.
NearestSearch == ~covered /\ Begin("nearest", <<>>) /\ UNCHANGED truth

\* Delete_Point_Boxes, with a box that covers an ancestor of the subtree.
DeleteAncestor ==
  /\ Ready /\ ~at_root
  /\ ops' = ops + 1
  /\ covered' = TRUE
  /\ truth' = NoPoint
  /\ UNCHANGED <<at_root, tree, Rebuild_Ptr, rebuild_flag, Rebuild_Logger, lockVars, searchVars,
                 termination_flag, mainVars, rebuildVars, error, emptied, overflown, revived>>

-------------------------------------------------------------------------------
(* The mapping thread: an update.                                          *)

\* A delete and an add of a downsampled box are one update at the root.
Batch == IF at_root THEN todo ELSE SubSeq(todo, 1, 1)
Rest == IF at_root THEN <<>> ELSE Tail(todo)

NextUpdate ==
  /\ todo' = Rest
  /\ mpc' = IF Rest # <<>> THEN "test" ELSE IF doing = "update" THEN "idle" ELSE "search"

Updated ==
  /\ tree' = ApplyAll(tree, Batch)
  /\ covered' = FALSE

\* Rebuild_Ptr == nullptr || *Rebuild_Ptr != ..., read under no lock.
TestRebuildPtr ==
  /\ mpc = "test"
  /\ mpc' = IF Rebuild_Ptr THEN "lock" ELSE "direct"
  /\ UNCHANGED <<at_root, treeVars, Rebuild_Ptr, rebuild_flag, Rebuild_Logger, lockVars,
                 searchVars,
                 termination_flag, doing, todo, rebuildVars, historyVars>>

\* Rebuild(): a criterion may ask for a rebuild (not while a mark is pushed down),
\* which is dropped while the rebuild thread holds rebuild_ptr_mutex_lock.
UpdateDirectly ==
  /\ mpc = "direct"
  /\ Updated
  /\ NextUpdate
  /\ Rebuild_Ptr' \in IF ptr_held \/ covered THEN {Rebuild_Ptr} ELSE {Rebuild_Ptr, TRUE}
  /\ UNCHANGED <<at_root, rebuild_flag, Rebuild_Logger, lockVars, searchVars,
                 termination_flag, doing, rebuildVars, historyVars>>

LockWorkingFlag ==
  /\ mpc = "lock" /\ working = "none"
  /\ working' = "main"
  /\ mpc' = "apply"
  /\ UNCHANGED <<at_root, treeVars, Rebuild_Ptr, rebuild_flag, Rebuild_Logger, search_held,
                 ptr_held,
                 searchVars, termination_flag, doing, todo, rebuildVars, historyVars>>

UpdateLocked ==
  /\ mpc = "apply"
  /\ Updated
  /\ mpc' = "log"
  /\ UNCHANGED <<at_root, Rebuild_Ptr, rebuild_flag, Rebuild_Logger, lockVars, searchVars,
                 termination_flag, doing, todo, rebuildVars, historyVars>>

\* if (rebuild_flag) Rebuild_Logger.push(...): of all the batch.
Log(logger) ==
  /\ Rebuild_Logger' = IF rebuild_flag THEN PushAll(logger, Batch) ELSE logger
  /\ overflown' = (overflown \/ Logger!Overflown(Rebuild_Logger'))

\* Mutant: the mutex is kept.
LogUpdate_KeepsMutex ==
  /\ mpc = "log"
  /\ Log(Rebuild_Logger)
  /\ NextUpdate
  /\ UNCHANGED <<at_root, treeVars, Rebuild_Ptr, rebuild_flag, lockVars, searchVars,
                 termination_flag, doing, rebuildVars, truth, ops, error, emptied, revived>>

\* The mutex is released after the logging.
LogUpdate ==
  /\ mpc = "log"
  /\ Log(Rebuild_Logger)
  /\ working' = "none"
  /\ NextUpdate
  /\ UNCHANGED <<at_root, treeVars, Rebuild_Ptr, rebuild_flag, search_held, ptr_held, searchVars,
                 termination_flag, doing, rebuildVars, truth, ops, error, emptied, revived>>

-------------------------------------------------------------------------------
(* The mapping thread: a search.                                           *)

\* At the root a range search takes no lock.  Below, it holds search_flag_mutex
\* and does not look at the counter.
RangeSearch ==
  /\ mpc = "search" /\ doing = "downsample"
  /\ search_held' = (Rebuild_Ptr /\ ~at_root)
  /\ reading' = "tree" /\ mpc' = "reading"
  /\ UNCHANGED <<at_root, treeVars, Rebuild_Ptr, rebuild_flag, Rebuild_Logger, working, ptr_held,
                 search_mutex_counter, counted, termination_flag, doing, todo,
                 rebuildVars, historyVars>>

TestBeforeSearch ==
  /\ mpc = "search" /\ doing = "nearest"
  /\ IF Rebuild_Ptr
       THEN mpc' = "count" /\ UNCHANGED reading
       ELSE mpc' = "reading" /\ reading' = "tree"
  /\ UNCHANGED <<at_root, treeVars, Rebuild_Ptr, rebuild_flag, Rebuild_Logger, lockVars,
                 search_mutex_counter, counted, termination_flag, doing, todo,
                 rebuildVars, historyVars>>

\* while (search_mutex_counter == -1) usleep(1); search_mutex_counter += 1;
CountSearch ==
  /\ mpc = "count" /\ search_mutex_counter # -1
  /\ search_mutex_counter' = search_mutex_counter + 1 /\ counted' = TRUE
  /\ reading' = "tree" /\ mpc' = "reading"
  /\ UNCHANGED <<at_root, treeVars, Rebuild_Ptr, rebuild_flag, Rebuild_Logger, lockVars,
                 termination_flag, doing, todo, rebuildVars, historyVars>>

EndSearch ==
  /\ mpc = "reading"
  /\ search_mutex_counter' = IF counted THEN search_mutex_counter - 1 ELSE search_mutex_counter
  /\ counted' = FALSE /\ search_held' = FALSE /\ reading' = "none"
  /\ UNCHANGED <<at_root, treeVars, Rebuild_Ptr, rebuild_flag, Rebuild_Logger, working, ptr_held,
                 termination_flag, rebuildVars>>

EndNearestSearch ==
  /\ doing = "nearest"
  /\ EndSearch
  /\ mpc' = "idle"
  /\ UNCHANGED <<at_root, doing, todo, historyVars>>

\* The box holds points already: they make place for one, a new one or one of them.
EndRangeSearch(box, p) ==
  /\ doing = "downsample"
  /\ EndSearch
  /\ LET found == \E q \in box : Contents[q] > 0
         update == IF found THEN <<Delete(box), Add(p)>> ELSE <<Add(p)>>
     IN todo' = update /\ truth' = ApplyAll(truth, update)
  /\ doing' = "update" /\ mpc' = "test"
  /\ UNCHANGED <<at_root, ops, error, emptied, overflown, revived>>

\* ~KD_TREE(): stop_thread() sets the flag and joins.
StopThread ==
  /\ mpc = "idle"
  /\ termination_flag' = TRUE
  /\ mpc' = "join"
  /\ UNCHANGED <<at_root, treeVars, Rebuild_Ptr, rebuild_flag, Rebuild_Logger, lockVars,
                 searchVars,
                 doing, todo, rebuildVars, historyVars>>

Join ==
  /\ mpc = "join" /\ rpc = "terminated"
  /\ mpc' = "joined"
  /\ UNCHANGED <<at_root, treeVars, Rebuild_Ptr, rebuild_flag, Rebuild_Logger, lockVars,
                 searchVars,
                 termination_flag, doing, todo, rebuildVars, historyVars>>

-------------------------------------------------------------------------------
(* The rebuild thread: multi_thread_rebuild().                             *)

\* while (!terminated) { lock rebuild_ptr_mutex_lock
LockRebuildPtr ==
  /\ rpc = "start"
  /\ IF termination_flag
       THEN rpc' = "terminated" /\ UNCHANGED ptr_held
       ELSE rpc' = "lock_working" /\ ptr_held' = TRUE
  /\ UNCHANGED <<at_root, treeVars, Rebuild_Ptr, rebuild_flag, Rebuild_Logger, working,
                 search_held,
                 searchVars, termination_flag, mainVars, new_root, operation, historyVars>>

\* Nothing to rebuild: the mutexes are released again.
NothingToRebuild ==
  /\ rpc = "lock_working" /\ working = "none" /\ ~Rebuild_Ptr
  /\ ptr_held' = FALSE
  /\ rpc' = "start"
  /\ UNCHANGED <<at_root, treeVars, Rebuild_Ptr, rebuild_flag, Rebuild_Logger, working,
                 search_held,
                 searchVars, termination_flag, mainVars, new_root, operation, historyVars>>

StartRebuild ==
  /\ rpc = "lock_working" /\ working = "none" /\ Rebuild_Ptr
  /\ working' = "rebuild"
  /\ error' = (error \/ ~Logger!empty(Rebuild_Logger))
  /\ rebuild_flag' = TRUE
  /\ rpc' = "lock_search"
  /\ UNCHANGED <<at_root, treeVars, Rebuild_Ptr, Rebuild_Logger, search_held, ptr_held, searchVars,
                 termination_flag, mainVars, new_root, operation, truth, ops, emptied, overflown, revived>>

\* Mutant: the searches are waited for before the copying only.
LockSearch_OnlyToCopy ==
  /\ rpc \in {"lock_search", "lock_search_again"} /\ ~search_held
  /\ rpc = "lock_search" => search_mutex_counter = 0
  /\ search_mutex_counter' = IF rpc = "lock_search" THEN -1 ELSE search_mutex_counter
  /\ rpc' = IF rpc = "lock_search" THEN "flatten" ELSE "swap"
  /\ UNCHANGED <<at_root, treeVars, Rebuild_Ptr, rebuild_flag, Rebuild_Logger, lockVars,
                 reading, counted,
                 termination_flag, mainVars, new_root, operation, historyVars>>

\* while (search_mutex_counter != 0) usleep(1); search_mutex_counter = -1;
LockSearch ==
  /\ rpc \in {"lock_search", "lock_search_again"} /\ ~search_held
  /\ search_mutex_counter = 0
  /\ search_mutex_counter' = -1
  /\ rpc' = IF rpc = "lock_search" THEN "flatten" ELSE "swap"
  /\ UNCHANGED <<at_root, treeVars, Rebuild_Ptr, rebuild_flag, Rebuild_Logger, lockVars,
                 reading, counted,
                 termination_flag, mainVars, new_root, operation, historyVars>>

Flatten ==
  /\ rpc = "flatten"
  /\ new_root' = tree
  /\ emptied' = (emptied \/ tree = NoPoint)
  /\ rpc' = "unlock_search"
  /\ UNCHANGED <<at_root, treeVars, Rebuild_Ptr, rebuild_flag, Rebuild_Logger, lockVars,
                 searchVars,
                 termination_flag, mainVars, operation, truth, ops, error, overflown, revived>>

\* search_mutex_counter = 0, and working_flag_mutex is released.  A copy without
\* points is not built, and nothing is replayed on it.
UnlockSearch ==
  /\ rpc = "unlock_search" /\ ~search_held
  /\ search_mutex_counter' = 0
  /\ working' = "none"
  /\ rpc' = IF new_root = NoPoint THEN "lock_search_again" ELSE "drain"
  /\ UNCHANGED <<at_root, treeVars, Rebuild_Ptr, rebuild_flag, Rebuild_Logger, search_held,
                 ptr_held,
                 reading, counted, termination_flag, mainVars, new_root, operation, historyVars>>

\* An operation is taken from the logger under the mutex...
PopOperation ==
  /\ rpc = "drain" /\ working = "none" /\ ~Logger!empty(Rebuild_Logger)
  /\ operation' = Logger!front(Rebuild_Logger)
  /\ Rebuild_Logger' = Logger!pop(Rebuild_Logger)
  /\ rpc' = "replay"
  /\ UNCHANGED <<at_root, treeVars, Rebuild_Ptr, rebuild_flag, lockVars, searchVars,
                 termination_flag, mainVars, new_root, historyVars>>

\* ... and run without it.
RunOperation ==
  /\ rpc = "replay"
  /\ new_root' = Apply(new_root, operation)
  /\ rpc' = "drain"
  /\ UNCHANGED <<at_root, treeVars, Rebuild_Ptr, rebuild_flag, Rebuild_Logger, lockVars,
                 searchVars,
                 termination_flag, mainVars, operation, historyVars>>

\* Mutant: the mutex is given back between the last replay and the swap.
LoggerDrained_Unlocked ==
  /\ rpc = "drain" /\ working = "none" /\ Logger!empty(Rebuild_Logger)
  /\ rpc' = "lock_search_again"
  /\ UNCHANGED <<at_root, treeVars, Rebuild_Ptr, rebuild_flag, Rebuild_Logger, lockVars,
                 searchVars,
                 termination_flag, mainVars, new_root, operation, historyVars>>

\* The mutex stays locked once the logger is found empty.
LoggerDrained ==
  /\ rpc = "drain" /\ working = "none" /\ Logger!empty(Rebuild_Logger)
  /\ working' = "rebuild"
  /\ rpc' = "lock_search_again"
  /\ UNCHANGED <<at_root, treeVars, Rebuild_Ptr, rebuild_flag, Rebuild_Logger, search_held,
                 ptr_held,
                 searchVars, termination_flag, mainVars, new_root, operation, historyVars>>

\* (*Rebuild_Ptr) = new_root_node; the ancestors are brought up to date, which may
\* clear the mark of one of them (IkdTree shows of which).
Swap ==
  /\ rpc = "swap"
  /\ tree' = new_root
  /\ covered' \in {covered, FALSE}
  /\ revived' = (revived \/ covered' # covered)
  /\ reading' = IF reading = "tree" THEN "old" ELSE reading
  /\ rpc' = "unlock_search_again"
  /\ UNCHANGED <<at_root, Rebuild_Ptr, rebuild_flag, Rebuild_Logger, lockVars,
                 search_mutex_counter, counted, termination_flag, mainVars,
                 new_root, operation, truth, ops, error, emptied, overflown>>

UnlockSearchAgain ==
  /\ rpc = "unlock_search_again" /\ ~search_held
  /\ search_mutex_counter' = 0
  /\ rpc' = "forget"
  /\ UNCHANGED <<at_root, treeVars, Rebuild_Ptr, rebuild_flag, Rebuild_Logger, lockVars,
                 reading, counted,
                 termination_flag, mainVars, new_root, operation, historyVars>>

ForgetRebuildPtr ==
  /\ rpc = "forget"
  /\ Rebuild_Ptr' = FALSE
  /\ rpc' = "unlock_working"
  /\ UNCHANGED <<at_root, treeVars, rebuild_flag, Rebuild_Logger, lockVars, searchVars,
                 termination_flag, mainVars, new_root, operation, historyVars>>

\* After an empty copy the thread does not hold the mutex: the C library then
\* releases it for whoever does.
UnlockWorkingFlag ==
  /\ rpc = "unlock_working"
  /\ working' = "none"
  /\ rpc' = "clear_flag"
  /\ UNCHANGED <<at_root, treeVars, Rebuild_Ptr, rebuild_flag, Rebuild_Logger, search_held,
                 ptr_held,
                 searchVars, termination_flag, mainVars, new_root, operation, historyVars>>

\* rebuild_flag = false, under no lock.
ClearRebuildFlag ==
  /\ rpc = "clear_flag"
  /\ rebuild_flag' = FALSE
  /\ rpc' = "delete_nodes"
  /\ UNCHANGED <<at_root, treeVars, Rebuild_Ptr, Rebuild_Logger, lockVars, searchVars,
                 termination_flag, mainVars, new_root, operation, historyVars>>

\* delete_tree_nodes(&old_root_node), and rebuild_ptr_mutex_lock is released.
DeleteOldNodes ==
  /\ rpc = "delete_nodes"
  /\ ptr_held' = FALSE
  /\ rpc' = "start"
  /\ UNCHANGED <<at_root, treeVars, Rebuild_Ptr, rebuild_flag, Rebuild_Logger, working,
                 search_held,
                 searchVars, termination_flag, mainVars, new_root, operation, historyVars>>

-------------------------------------------------------------------------------
Request ==
  \/ \E p \in Points : AddPoint(p)
  \/ \E box \in Boxes : DeleteBox(box)
  \/ AddDownsampled \/ NearestSearch \/ DeleteAncestor \/ StopThread

MappingThread ==
  \/ TestRebuildPtr \/ UpdateDirectly \/ LockWorkingFlag \/ UpdateLocked \/ LogUpdate
  \/ RangeSearch \/ TestBeforeSearch \/ CountSearch \/ EndNearestSearch
  \/ \E box \in Boxes : \E p \in box : EndRangeSearch(box, p)
  \/ Join

RebuildThread ==
  \/ LockRebuildPtr \/ NothingToRebuild \/ StartRebuild \/ LockSearch \/ Flatten
  \/ UnlockSearch \/ PopOperation \/ RunOperation \/ LoggerDrained \/ Swap
  \/ UnlockSearchAgain \/ ForgetRebuildPtr \/ UnlockWorkingFlag \/ ClearRebuildFlag
  \/ DeleteOldNodes

Next == Request \/ MappingThread \/ RebuildThread

\* Both are OS threads: each goes on while it can.  The mapping thread makes
\* finitely many requests of the tree per scan (MaxOps), so a lock or the
\* counter, once free and not asked for by it, stays so.  Nothing obliges it to
\* make a request.
Spec ==
  Init /\ [][Next]_vars /\ WF_vars(MappingThread) /\ WF_vars(RebuildThread)

-------------------------------------------------------------------------------
(* Properties.                                                             *)

TypeOK ==
  /\ tree \in Bags /\ new_root \in Bags /\ truth \in Bags
  /\ covered \in BOOLEAN /\ Rebuild_Ptr \in BOOLEAN /\ rebuild_flag \in BOOLEAN
  /\ Rebuild_Logger \in Logger!Queues(Operations) /\ operation \in Operations
  /\ todo \in Seq(Operations) /\ Len(todo) <= 2
  /\ search_mutex_counter \in {-1, 0, 1} /\ counted \in BOOLEAN
  /\ reading \in {"none", "tree", "old"}
  /\ working \in {"none", "main", "rebuild"}
  /\ search_held \in BOOLEAN /\ ptr_held \in BOOLEAN /\ termination_flag \in BOOLEAN
  /\ mpc \in {"idle", "test", "direct", "lock", "apply", "log", "search", "count",
              "reading", "join", "joined"}
  /\ doing \in {"update", "downsample", "nearest"}
  /\ rpc \in {"start", "lock_working", "lock_search", "flatten", "unlock_search", "drain",
              "replay", "lock_search_again", "swap", "unlock_search_again", "forget",
              "unlock_working", "clear_flag", "delete_nodes", "terminated"}
  /\ ops \in 0 .. MaxOps[at_root] /\ at_root \in BOOLEAN /\ error \in BOOLEAN /\ emptied \in BOOLEAN
  /\ overflown \in BOOLEAN /\ revived \in BOOLEAN

\* Between its requests the mapping thread finds in the tree what it has put
\* there: no update is lost by a rebuild, none is applied twice and none out of
\* order, wherever in the copying, building, replaying and swapping it fell, as
\* long as no rebuild has printed "ERROR!!!", copied an empty subtree, run out of
\* slots to log operations in, or cleared the mark of a deleted ancestor.
TreeIsTruth ==
  mpc = "idle" /\ ~error /\ ~emptied /\ ~overflown /\ ~revived => Contents = truth

\* delete_tree_nodes never frees nodes that a search is still going through: a
\* nearest search anywhere, a range search below the root (the range search of
\* Add_Points at the root takes no lock, line 501, and can be caught there).
NoSearchInDeletedNodes ==
  rpc = "start" /\ (at_root => doing = "nearest") => reading # "old"

\* The two threads never wait for each other: a requested rebuild is carried out
\* in the end, unless the tree is destroyed, so the rebuild thread is not kept
\* waiting for a mutex, the counter or the logger for ever; and a request is
\* answered in the end, and the destructor's join returns.
BothThreadsFinish ==
  /\ Rebuild_Ptr ~> (~Rebuild_Ptr \/ termination_flag)
  /\ (mpc # "idle") ~> (mpc \in {"idle", "joined"})
===============================================================================
