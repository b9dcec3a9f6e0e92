----------------------------- MODULE IkdRebuild -----------------------------
(***************************************************************************)
(* The local map of the lidar odometry: an incremental k-d tree that one   *)
(* thread (LidarProcessor) extends, trims and searches while a second      *)
(* thread rebuilds an unbalanced subtree in a copy, replays the operations *)
(* it missed and puts the copy in place (ikd_Tree.cpp).                    *)
(*                                                                         *)
(* The geometry is abstracted: a point is a model value, the points whose  *)
(* path runs through the one subtree that may be rebuilt on its own are    *)
(* SonPoints, and its father is the root of the tree.  Balance and size    *)
(* are abstracted to the choice of the subtree.  Kept are the two threads, *)
(* the searching threads, the mutexes, search_mutex_counter, the logger,   *)
(* the lazy deletion of a whole subtree and every order the code allows.   *)
(***************************************************************************)
EXTENDS Integers, Sequences, FiniteSets

CONSTANTS
  Points,      \* the points the map may hold
  SonPoints,   \* those below the son that may be rebuilt alone
  Voxels,      \* the cells of the downsampling, a partition of Points
  Boxes,       \* boxes the trimming may delete (sets of points)
  Searchers,   \* the threads of the parallel nearest-neighbour search
  MaxLog,      \* bound: operations the logger may hold at the start of one
  None

ASSUME TreeAssumption ==
  /\ SonPoints \subseteq Points
  /\ Voxels \subseteq SUBSET Points
  /\ Boxes \subseteq SUBSET Points
  /\ IsFiniteSet(Searchers)
  /\ MaxLog \in Nat
  /\ None \notin {"son", "root", "main", "rebuild"}

VARIABLES
  live,                  \* points no node of the tree marks deleted
  pending,               \* root: tree_deleted, not yet pushed down to the son
  Rebuild_Ptr,           \* None, "son" or "root"
  rebuild_flag,
  Rebuild_Logger,
  working_flag_mutex,    \* None or the thread that took it
  search_flag_mutex,     \* TRUE while a box search holds it
  search_mutex_counter,
  rpc,                   \* the rebuild thread
  fresh,                 \* the copy: Rebuild_PCL_Storage, then new_root_node
  guarded,               \* history: see LogCovers
  mpc, todo, whole,      \* the mapping thread, its operations, root locked
  spc                    \* the searching threads

treeVars == <<live, pending>>
lockVars == <<working_flag_mutex, search_flag_mutex, search_mutex_counter>>
rebuildVars == <<Rebuild_Ptr, rebuild_flag, rpc, fresh>>
mainVars == <<mpc, todo, whole>>
vars == <<live, pending, Rebuild_Ptr, rebuild_flag, Rebuild_Logger,
          working_flag_mutex, search_flag_mutex, search_mutex_counter,
          rpc, fresh, guarded, mpc, todo, whole, spc>>

-----------------------------------------------------------------------------
(* Operations *)

Ops == [add : BOOLEAN, pts : SUBSET Points]
Add(p) == [add |-> TRUE, pts |-> {p}]
Delete(b) == [add |-> FALSE, pts |-> b]

\* What an operation does to a set of points.
Run(op, S) == IF op.add THEN S \cup op.pts ELSE S \ op.pts

Region == IF Rebuild_Ptr = "root" THEN Points ELSE SonPoints

\* A tree whose root is lazily deleted still holds the son's old marks.
Contents == IF pending THEN live \ SonPoints ELSE live

\* The root covers every point, so only the box of all of them is lazy.
Covers(op) == ~op.add /\ op.pts = Points

\* The effect of an operation on the whole tree under the lock of the root.
RunOnRoot(op) ==
  CASE ~op.add /\ pending -> UNCHANGED treeVars
    [] Covers(op)         -> /\ pending' = TRUE
                             /\ live' = live \cap SonPoints
    [] OTHER              -> /\ pending' = FALSE
                             /\ live' = Run(op, Contents)

\* An operation on the tree under rebuild is logged once the copy was begun.
Log(op) == Rebuild_Logger' = IF rebuild_flag THEN Append(Rebuild_Logger, op)
                                             ELSE Rebuild_Logger

-----------------------------------------------------------------------------
Init ==
  /\ live \in (SUBSET Points) \ {{}}
  /\ pending = FALSE
  /\ Rebuild_Ptr = None
  /\ rebuild_flag = FALSE
  /\ Rebuild_Logger = <<>>
  /\ working_flag_mutex = None
  /\ search_flag_mutex = FALSE
  /\ search_mutex_counter = 0
  /\ rpc = "idle"
  /\ fresh = {}
  /\ guarded = TRUE
  /\ mpc = "idle"
  /\ todo = <<>>
  /\ whole = FALSE
  /\ spc = [s \in Searchers |-> "out"]

Alive == rpc # "crashed"

-----------------------------------------------------------------------------
(* The mapping thread: Delete_Point_Boxes, Add_Points, the parallel search *)

\* Whether the root itself is being rebuilt is asked once per operation; an
\* addition with downsampling asks once for its deletion and its addition.
Begin(ops) ==
  /\ todo' = ops
  /\ whole' = (Rebuild_Ptr = "root")
  /\ mpc' = "descend"

MayBegin == Alive /\ mpc = "idle" /\ Len(Rebuild_Logger) <= MaxLog

DeletePointBox(b) ==
  /\ MayBegin
  /\ Begin(<<Delete(b)>>)
  /\ UNCHANGED <<treeVars, lockVars, rebuildVars, Rebuild_Logger, guarded, spc>>

AddPlain(p) ==
  /\ MayBegin
  /\ Begin(<<Add(p)>>)
  /\ UNCHANGED <<treeVars, lockVars, rebuildVars, Rebuild_Logger, guarded, spc>>

\* An addition with downsampling first looks for the points near the new one.
AddDownsampled ==
  /\ MayBegin
  /\ mpc' = "box"
  /\ UNCHANGED <<treeVars, lockVars, rebuildVars, Rebuild_Logger, guarded, todo, whole, spc>>

\* Push_Down at the root: the son takes the root's deletion.  If the son is
\* being rebuilt this is done under working_flag_mutex and logged.
PushMustLock == pending /\ Rebuild_Ptr = "son"

\* What pushes down: a search in the box, an addition.  A deletion leaves a
\* deleted root alone.  The lock is only asked for after the check.
CheckPush ==
  /\ Alive
  /\ PushMustLock
  /\ mpc = "box" \/ (mpc = "descend" /\ ~whole /\ Head(todo).add)
  /\ mpc' = "push"
  /\ UNCHANGED <<treeVars, lockVars, rebuildVars, Rebuild_Logger, guarded, todo, whole, spc>>

PushLocked ==
  /\ Alive
  /\ mpc = "push"
  /\ working_flag_mutex = None
  /\ live' = live \ SonPoints
  /\ pending' = FALSE
  /\ mpc' = IF todo = <<>> THEN "box" ELSE "descend"
  /\ UNCHANGED <<lockVars, rebuildVars, guarded, todo, whole, spc>>

MutantLogPush == PushLocked /\ UNCHANGED Rebuild_Logger

\* The rebuild may have ended while the lock was waited for, and the flag
\* not yet been cleared.  (A son it left empty is a null pointer here: that
\* crash is ReplaceNull's.)
LogPush == PushLocked /\ Log(Delete(SonPoints))

\* Search_by_range: inside a son under rebuild it holds search_flag_mutex;
\* nothing guards it when the tree under rebuild is the whole tree.
BoxSearch ==
  /\ Alive
  /\ mpc = "box"
  /\ ~PushMustLock
  /\ live' = Contents
  /\ pending' = FALSE
  /\ search_flag_mutex' = (Rebuild_Ptr = "son")
  /\ mpc' = "search"
  /\ UNCHANGED <<working_flag_mutex, search_mutex_counter, rebuildVars, Rebuild_Logger,
                 guarded, todo, whole, spc>>

\* What the cell of a new point holds is replaced by the point nearest to
\* the middle, found or new; or the new point is left out.
Downsample ==
  /\ Alive
  /\ mpc = "search"
  /\ search_flag_mutex' = FALSE
  /\ \E v \in Voxels, p \in Points :
       /\ p \in v
       /\ \E kept \in (live \cap v) \cup {p} :
            IF Cardinality(live \cap v) > 1 \/ kept = p
            THEN Begin(IF live \cap v = {} THEN <<Add(kept)>> ELSE <<Delete(v), Add(kept)>>)
            ELSE mpc' = "idle" /\ UNCHANGED <<todo, whole>>
  /\ UNCHANGED <<treeVars, working_flag_mutex, search_mutex_counter, rebuildVars,
                 Rebuild_Logger, guarded, spc>>

\* The root is being rebuilt: everything under working_flag_mutex, then logged.
LockRoot ==
  /\ Alive
  /\ mpc = "descend"
  /\ whole
  /\ working_flag_mutex = None
  /\ working_flag_mutex' = "main"
  /\ RunOnRoot(Head(todo))
  /\ mpc' = "log"
  /\ UNCHANGED <<search_flag_mutex, search_mutex_counter, rebuildVars, Rebuild_Logger,
                 guarded, todo, whole, spc>>

\* Otherwise the root is visited without a lock.  A covered tree is only
\* marked, a deleted one is left alone; else the marks are pushed down and
\* the part outside the son is done.
VisitRoot ==
  LET op == Head(todo) IN
  /\ Alive
  /\ mpc = "descend"
  /\ ~whole
  /\ op.add => ~PushMustLock
  /\ guarded' = (guarded /\ Rebuild_Ptr # "root")
  /\ CASE ~op.add /\ pending ->
            /\ mpc' = "next"
            /\ UNCHANGED treeVars
       [] Covers(op) ->
            /\ pending' = TRUE
            /\ live' = live \cap SonPoints
            /\ mpc' = "next"
       [] OTHER ->
            /\ live' = (Contents \cap SonPoints) \cup (Run(op, Contents) \ SonPoints)
            /\ pending' = FALSE
            /\ mpc' = IF op.pts \cap SonPoints = {} THEN "balance" ELSE "son"
  /\ UNCHANGED <<lockVars, rebuildVars, Rebuild_Logger, todo, whole, spc>>

\* An operation on what lies below the son.
BelowSon(op) == [op EXCEPT !.pts = @ \cap SonPoints]

\* A son not under rebuild is visited without a lock, and the way back up
\* may find it unbalanced, except that one the box covers is marked and not
\* looked at.  For one under rebuild the lock is asked for, after the check.
VisitSon ==
  LET op == Head(todo) IN
  /\ Alive
  /\ mpc = "son"
  /\ guarded' = (guarded /\ Rebuild_Ptr # "root")
  /\ \/ /\ Rebuild_Ptr = "son"
        /\ mpc' = "lockSon"
        /\ UNCHANGED <<live, Rebuild_Ptr>>
     \/ /\ Rebuild_Ptr # "son"
        /\ live' = Run(BelowSon(op), live)
        /\ mpc' = "balance"
        /\ \/ UNCHANGED Rebuild_Ptr
           \/ /\ op.add \/ ~(SonPoints \subseteq op.pts)
              /\ rpc = "idle"
              /\ Rebuild_Ptr = None
              /\ Rebuild_Ptr' = "son"
  /\ UNCHANGED <<pending, lockVars, rebuild_flag, rpc, fresh, Rebuild_Logger, todo, whole, spc>>

\* By then the rebuild may have ended: the operation runs on the new son.
LockSon ==
  /\ Alive
  /\ mpc = "lockSon"
  /\ working_flag_mutex = None
  /\ working_flag_mutex' = "main"
  /\ live' = Run(BelowSon(Head(todo)), live)
  /\ mpc' = "log"
  /\ UNCHANGED <<pending, search_flag_mutex, search_mutex_counter, rebuildVars,
                 Rebuild_Logger, guarded, todo, whole, spc>>

\* The end of the critical section; both operations of a downsampling under
\* the root's lock share one.
LogOperation ==
  LET op == Head(todo) IN
  /\ Alive
  /\ mpc = "log"
  /\ Log(IF whole THEN op ELSE BelowSon(op))
  /\ IF whole /\ Len(todo) > 1
     THEN /\ todo' = Tail(todo)
          /\ RunOnRoot(Head(todo'))
          /\ UNCHANGED <<mpc, working_flag_mutex>>
     ELSE /\ working_flag_mutex' = None
          /\ mpc' = IF whole THEN "next" ELSE "balance"
          /\ UNCHANGED <<todo, treeVars>>
  /\ UNCHANGED <<search_flag_mutex, search_mutex_counter, rebuildVars, guarded, whole, spc>>

\* Back at the root, which may be found unbalanced: it is the larger tree,
\* so it takes the place of the son unless the rebuild thread is busy.
Balance ==
  /\ Alive
  /\ mpc = "balance"
  /\ mpc' = "next"
  /\ \/ UNCHANGED Rebuild_Ptr
     \/ rpc = "idle" /\ Rebuild_Ptr' = "root"
  /\ UNCHANGED <<treeVars, lockVars, rebuild_flag, rpc, fresh, Rebuild_Logger, guarded,
                 todo, whole, spc>>

NextOperation ==
  /\ Alive
  /\ mpc = "next"
  /\ todo' = Tail(todo)
  /\ mpc' = IF todo' = <<>> THEN "idle" ELSE "descend"
  /\ UNCHANGED <<treeVars, lockVars, rebuildVars, Rebuild_Logger, guarded, whole, spc>>

\* The filter update runs the searches in parallel and waits for all of them.
BeginUpdate ==
  /\ MayBegin
  /\ mpc' = "update"
  /\ UNCHANGED <<treeVars, lockVars, rebuildVars, Rebuild_Logger, guarded, todo, whole, spc>>

EndUpdate ==
  /\ Alive
  /\ mpc = "update"
  /\ \A s \in Searchers : spc[s] = "out"
  /\ mpc' = "idle"
  /\ UNCHANGED <<treeVars, lockVars, rebuildVars, Rebuild_Logger, guarded, todo, whole, spc>>

Move(s, from, to) == Alive /\ spc[s] = from /\ spc' = [spc EXCEPT ![s] = to]

\* A search that meets the subtree under rebuild must be counted; the check
\* and the counting are two steps.
SearchMeets(s) ==
  /\ mpc = "update"
  /\ Move(s, "out", IF Rebuild_Ptr = None THEN "free" ELSE "want")
  /\ UNCHANGED <<treeVars, lockVars, rebuildVars, Rebuild_Logger, guarded, mainVars>>

SearchEnter(s) ==
  /\ Move(s, "want", "counted")
  /\ search_flag_mutex = FALSE
  /\ search_mutex_counter # -1
  /\ search_mutex_counter' = search_mutex_counter + 1
  /\ UNCHANGED <<treeVars, working_flag_mutex, search_flag_mutex, rebuildVars,
                 Rebuild_Logger, guarded, mainVars>>

SearchLeave(s) ==
  /\ \/ Move(s, "free", "out") /\ UNCHANGED search_mutex_counter
     \/ /\ Move(s, "counted", "out")
        /\ search_flag_mutex = FALSE
        /\ search_mutex_counter' = search_mutex_counter - 1
  /\ UNCHANGED <<treeVars, working_flag_mutex, search_flag_mutex, rebuildVars,
                 Rebuild_Logger, guarded, mainVars>>

-----------------------------------------------------------------------------
(* The rebuild thread: multi_thread_rebuild *)

Goto(from, to) == rpc = from /\ rpc' = to

RebuildBegin ==
  /\ Goto("idle", "lockCopy")
  /\ Rebuild_Ptr # None
  /\ working_flag_mutex = None
  /\ working_flag_mutex' = "rebuild"
  /\ rebuild_flag' = TRUE
  /\ guarded' = (Rebuild_Logger = <<>>)
  /\ UNCHANGED <<treeVars, search_flag_mutex, search_mutex_counter, Rebuild_Ptr, fresh,
                 Rebuild_Logger, mainVars, spc>>

MutantLockSearch ==
  /\ \/ Goto("lockCopy", "copy")
     \/ Goto("lockReplace", "replace")
     \/ Goto("lockNull", "replaceNull")
  /\ search_flag_mutex = FALSE
  /\ search_mutex_counter' = -1
  /\ UNCHANGED <<treeVars, working_flag_mutex, search_flag_mutex, Rebuild_Ptr, rebuild_flag,
                 fresh, Rebuild_Logger, guarded, mainVars, spc>>

\* Before it copies and before it replaces, the thread waits until no
\* search is counted, and shuts the counter.
LockSearch ==
  /\ \/ Goto("lockCopy", "copy")
     \/ Goto("lockReplace", "replace")
     \/ Goto("lockNull", "replaceNull")
  /\ search_flag_mutex = FALSE
  /\ search_mutex_counter = 0
  /\ search_mutex_counter' = -1
  /\ UNCHANGED <<treeVars, working_flag_mutex, search_flag_mutex, Rebuild_Ptr, rebuild_flag,
                 fresh, Rebuild_Logger, guarded, mainVars, spc>>

\* flatten: what is not marked deleted, after pushing the marks down.
Copy ==
  /\ Goto("copy", "unlockCopy")
  /\ IF Rebuild_Ptr = "root"
     THEN /\ fresh' = Contents
          /\ live' = Contents
          /\ pending' = FALSE
     ELSE /\ fresh' = live \cap SonPoints
          /\ UNCHANGED treeVars
  /\ UNCHANGED <<lockVars, Rebuild_Ptr, rebuild_flag, Rebuild_Logger, guarded, mainVars, spc>>

MutantUnlockCopy ==
  /\ Goto("unlockCopy", "build")
  /\ search_flag_mutex = FALSE
  /\ working_flag_mutex' = None
  /\ UNCHANGED <<treeVars, search_flag_mutex, search_mutex_counter, Rebuild_Ptr, rebuild_flag,
                 fresh, Rebuild_Logger, guarded, mainVars, spc>>

UnlockCopy ==
  /\ Goto("unlockCopy", "build")
  /\ search_flag_mutex = FALSE
  /\ search_mutex_counter' = 0
  /\ working_flag_mutex' = None
  /\ UNCHANGED <<treeVars, search_flag_mutex, Rebuild_Ptr, rebuild_flag, fresh,
                 Rebuild_Logger, guarded, mainVars, spc>>

\* An empty copy is not built, and then neither is the lock taken again nor
\* the log replayed.
BuildTree ==
  /\ rpc = "build"
  /\ IF fresh = {}
     THEN /\ rpc' = "lockNull"
          /\ guarded' = FALSE
          /\ UNCHANGED working_flag_mutex
     ELSE /\ working_flag_mutex = None
          /\ working_flag_mutex' = "rebuild"
          /\ rpc' = "drain"
          /\ UNCHANGED guarded
  /\ UNCHANGED <<treeVars, search_flag_mutex, search_mutex_counter, Rebuild_Ptr, rebuild_flag,
                 fresh, Rebuild_Logger, mainVars, spc>>

\* The lock is given up while one operation runs on the copy.
Drain ==
  /\ rpc = "drain"
  /\ IF Rebuild_Logger = <<>>
     THEN rpc' = "lockReplace" /\ UNCHANGED working_flag_mutex
     ELSE rpc' = "replay" /\ working_flag_mutex' = None
  /\ UNCHANGED <<treeVars, search_flag_mutex, search_mutex_counter, Rebuild_Ptr, rebuild_flag,
                 fresh, Rebuild_Logger, guarded, mainVars, spc>>

MutantReplay ==
  /\ Goto("replay", "lockReplace")
  /\ working_flag_mutex = None
  /\ working_flag_mutex' = "rebuild"
  /\ fresh' = Run(Head(Rebuild_Logger), fresh)
  /\ Rebuild_Logger' = Tail(Rebuild_Logger)
  /\ UNCHANGED <<treeVars, search_flag_mutex, search_mutex_counter, Rebuild_Ptr, rebuild_flag,
                 guarded, mainVars, spc>>

Replay ==
  /\ Goto("replay", "drain")
  /\ working_flag_mutex = None
  /\ working_flag_mutex' = "rebuild"
  /\ fresh' = Run(Head(Rebuild_Logger), fresh)
  /\ Rebuild_Logger' = Tail(Rebuild_Logger)
  /\ UNCHANGED <<treeVars, search_flag_mutex, search_mutex_counter, Rebuild_Ptr, rebuild_flag,
                 guarded, mainVars, spc>>

\* The copy takes the subtree's place.
Replace ==
  /\ Goto("replace", "unlockReplace")
  /\ IF Rebuild_Ptr = "root"
     THEN live' = fresh /\ pending' = FALSE
     ELSE live' = (live \ SonPoints) \cup fresh /\ UNCHANGED pending
  /\ UNCHANGED <<lockVars, Rebuild_Ptr, rebuild_flag, fresh, Rebuild_Logger, guarded,
                 mainVars, spc>>

\* A copy that was never built is a null pointer: the optimised build drops
\* the unused reads through it, or crashes; a null root crashes the next
\* addition in any case.
ReplaceNull ==
  /\ rpc = "replaceNull"
  /\ \/ /\ rpc' = "crashed"
        /\ UNCHANGED live
     \/ /\ Rebuild_Ptr = "son"
        /\ rpc' = "unlockReplace"
        /\ live' = live \ SonPoints
  /\ UNCHANGED <<pending, lockVars, Rebuild_Ptr, rebuild_flag, fresh, Rebuild_Logger,
                 guarded, mainVars, spc>>

\* The mutex is unlocked whoever holds it, and before the flag is cleared.
UnlockReplace ==
  /\ Goto("unlockReplace", "clear")
  /\ search_flag_mutex = FALSE
  /\ search_mutex_counter' = 0
  /\ Rebuild_Ptr' = None
  /\ working_flag_mutex' = None
  /\ UNCHANGED <<treeVars, search_flag_mutex, rebuild_flag, fresh, Rebuild_Logger, guarded,
                 mainVars, spc>>

\* Then the old nodes are deleted and rebuild_ptr_mutex_lock is released.
ClearFlag ==
  /\ Goto("clear", "idle")
  /\ rebuild_flag' = FALSE
  /\ UNCHANGED <<treeVars, lockVars, Rebuild_Ptr, fresh, Rebuild_Logger, guarded, mainVars, spc>>

-----------------------------------------------------------------------------
MapStep ==
  \/ \E b \in Boxes : DeletePointBox(b)
  \/ \E p \in Points : AddPlain(p)
  \/ AddDownsampled \/ BeginUpdate

MapContinue ==
  \/ CheckPush \/ LogPush \/ BoxSearch \/ Downsample \/ LockRoot
  \/ VisitRoot \/ VisitSon \/ LockSon \/ LogOperation \/ Balance
  \/ NextOperation \/ EndUpdate

SearchContinue(s) == SearchEnter(s) \/ SearchLeave(s)

RebuildStep ==
  \/ RebuildBegin \/ LockSearch \/ Copy \/ UnlockCopy \/ BuildTree \/ Drain
  \/ Replay \/ Replace \/ ReplaceNull \/ UnlockReplace \/ ClearFlag

Next ==
  \/ MapStep \/ MapContinue \/ RebuildStep
  \/ \E s \in Searchers : SearchMeets(s) \/ SearchContinue(s)

Spec == Init /\ [][Next]_vars

\* The operating system runs both threads, and a search that was begun.
FairSpec ==
  /\ Spec
  /\ WF_vars(MapContinue)
  /\ WF_vars(RebuildStep)
  /\ \A s \in Searchers : WF_vars(SearchContinue(s))

-----------------------------------------------------------------------------
TypeOK ==
  /\ live \in SUBSET Points
  /\ pending \in BOOLEAN
  /\ Rebuild_Ptr \in {None, "son", "root"}
  /\ rebuild_flag \in BOOLEAN
  /\ Rebuild_Logger \in Seq(Ops)
  /\ working_flag_mutex \in {None, "main", "rebuild"}
  /\ search_flag_mutex \in BOOLEAN
  /\ search_mutex_counter \in -1 .. Cardinality(Searchers)
  /\ rpc \in {"idle", "lockCopy", "copy", "unlockCopy", "build", "drain", "replay",
              "lockReplace", "replace", "lockNull", "replaceNull", "unlockReplace",
              "clear", "crashed"}
  /\ fresh \in SUBSET Points
  /\ guarded \in BOOLEAN
  /\ mpc \in {"idle", "box", "push", "search", "descend", "son", "lockSon", "log", "balance",
              "next", "update"}
  /\ todo \in Seq(Ops)
  /\ whole \in BOOLEAN
  /\ spc \in [Searchers -> {"out", "want", "counted", "free"}]

\* While the rebuild thread has shut the counter, to copy the subtree or to
\* put the copy in its place, no nearest-neighbour search is in the tree
\* (Nearest_Search, Search; "Lock Search" in multi_thread_rebuild).
SearchLocked ==
  search_mutex_counter = -1 => \A s \in Searchers : spc[s] \notin {"counted", "free"}

\* The operations the copy misses: those logged, and the one being logged.
Missed ==
  IF mpc = "log" /\ rebuild_flag
  THEN Append(Rebuild_Logger, IF whole THEN Head(todo) ELSE BelowSon(Head(todo)))
  ELSE Rebuild_Logger

\* The last missed operation on p decides, or else the copy itself.
Agrees(p, tree) ==
  \/ /\ \A i \in DOMAIN Missed : p \notin Missed[i].pts
     /\ (p \in tree) <=> (p \in fresh)
  \/ \E i \in DOMAIN Missed :
       /\ p \in Missed[i].pts
       /\ \A j \in DOMAIN Missed : j > i => p \notin Missed[j].pts
       /\ (p \in tree) <=> Missed[i].add

\* From the copy to the replacement, the copy and the log together always
\* give the tree that is in use, point by point: no operation is missed,
\* none is replayed twice and none is replayed out of order.  guarded says
\* what this rests on: the log was empty when the rebuild began, the copy
\* was not, and no operation reached a root under rebuild without its lock.
LogCovers ==
  guarded /\ rpc \in {"unlockCopy", "build", "drain", "replay", "lockReplace", "replace"}
    => \A p \in Region :
         Agrees(p, IF Rebuild_Ptr = "root" THEN Contents ELSE live)

\* Putting such a copy in place changes nothing the map holds (the
\* replacement in multi_thread_rebuild).
ReplaceKeepsContents ==
  [][rpc # "unlockReplace" /\ rpc' = "unlockReplace" /\ guarded
       => (Contents' = Contents)]_vars

\* The mapping thread finishes every update and every search returns, unless
\* the rebuild thread died of the unlock it does not own: the mutexes, the
\* counter of searches and the unlocked waits between them never close a cycle.
NobodyWaitsForEver ==
  /\ (mpc \notin {"idle", "update"}) ~> (mpc = "idle" \/ rpc = "crashed")
  /\ \A s \in Searchers : (spc[s] = "want") ~> (spc[s] # "want" \/ rpc = "crashed")
=============================================================================
