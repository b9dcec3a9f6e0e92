------------------------- MODULE IkdRebuild_proofs --------------------------
(* Theorems about IkdRebuild, for any points, boxes, voxels and any finite   *)
(* number of searching threads: the lock that keeps the nearest-neighbour    *)
(* searches out of a subtree while it is copied or replaced, and the log     *)
(* that makes the copy keep up with the tree.                                *)
EXTENDS IkdRebuild, FiniteSetTheorems, TLAPS

Counted == {s \in Searchers : spc[s] = "counted"}

\* Where the rebuild thread is with the counter shut.  It dies with it shut.
Shut == {"copy", "unlockCopy", "replace", "replaceNull", "unlockReplace", "crashed"}

Open == {"idle", "lockCopy", "build", "drain", "replay", "lockReplace", "lockNull", "clear"}

(* What the control of the threads rests on.  A search is in the tree only   *)
(* during the filter update, in which nothing gives the rebuild thread a new *)
(* subtree; one that is not counted began with no subtree to rebuild.        *)
LockInv ==
  /\ rpc \in Shut \cup Open
  /\ spc \in [Searchers -> {"out", "want", "counted", "free"}]
  /\ Rebuild_Ptr = None => rpc \in {"idle", "clear"}
  /\ \A s \in Searchers : spc[s] # "out" => mpc = "update"
  /\ \A s \in Searchers : spc[s] = "free" => Rebuild_Ptr = None
  /\ rpc \in Shut => search_mutex_counter = -1 /\ Counted = {}
  /\ rpc \in Open => search_mutex_counter = Cardinality(Counted)

LEMMA CountedFinite == IsFiniteSet(Counted) /\ Cardinality(Counted) \in Nat
BY TreeAssumption, FS_Subset, FS_CardinalityType DEF Counted

LEMMA LocksInitially == Init => LockInv
<1> SUFFICES ASSUME Init
             PROVE  LockInv
  OBVIOUS
<1>1. Counted = {}
  BY DEF Init, Counted
<1>2. Cardinality(Counted) = 0
  BY <1>1, FS_EmptySet
<1> QED
  BY <1>1, <1>2 DEF Init, LockInv, Shut, Open

(* Outside the filter update no search is in the tree, and the mapping       *)
(* thread touches neither the counter nor the state of the rebuild thread.   *)
LEMMA QuietStep ==
  ASSUME LockInv, mpc # "update",
         UNCHANGED << rpc, spc, search_mutex_counter >>,
         Rebuild_Ptr' = Rebuild_Ptr \/ Rebuild_Ptr' # None
  PROVE  LockInv'
<1>1. \A s \in Searchers : spc'[s] = "out"
  BY DEF LockInv
<1>2. Counted' = Counted
  BY DEF Counted
<1> QED
  BY <1>1, <1>2 DEF LockInv

LEMMA MapLocks ==
  ASSUME LockInv, MapStep \/ MapContinue
  PROVE  LockInv'
<1>1. CASE \E b \in Boxes : DeletePointBox(b)
  BY <1>1, QuietStep DEF DeletePointBox, MayBegin, rebuildVars, lockVars
<1>2. CASE \E p \in Points : AddPlain(p)
  BY <1>2, QuietStep DEF AddPlain, MayBegin, rebuildVars, lockVars
<1>3. CASE AddDownsampled
  BY <1>3, QuietStep DEF AddDownsampled, MayBegin, rebuildVars, lockVars
<1>4. CASE BeginUpdate
  <2>1. UNCHANGED << rpc, spc, search_mutex_counter, Rebuild_Ptr >> /\ mpc' = "update"
    BY <1>4 DEF BeginUpdate, rebuildVars, lockVars
  <2>2. Counted' = Counted
    BY <2>1 DEF Counted
  <2> QED
    BY <2>1, <2>2 DEF LockInv
<1>5. CASE Downsample
  BY <1>5, QuietStep DEF Downsample, rebuildVars
<1>6. CASE LockRoot
  BY <1>6, QuietStep DEF LockRoot, rebuildVars
<1>7. CASE VisitRoot
  BY <1>7, QuietStep DEF VisitRoot, rebuildVars, lockVars
<1>8. CASE VisitSon
  BY <1>8, QuietStep, TreeAssumption DEF VisitSon, lockVars
<1>9. CASE LogOperation
  BY <1>9, QuietStep DEF LogOperation, rebuildVars
<1>10. CASE Balance
  BY <1>10, QuietStep, TreeAssumption DEF Balance, lockVars
<1>11. CASE NextOperation
  BY <1>11, QuietStep DEF NextOperation, rebuildVars, lockVars
<1>12. CASE EndUpdate
  <2>1. /\ UNCHANGED << rpc, spc, search_mutex_counter, Rebuild_Ptr >>
        /\ \A s \in Searchers : spc[s] = "out"
    BY <1>12 DEF EndUpdate, rebuildVars, lockVars
  <2>2. Counted' = Counted
    BY <2>1 DEF Counted
  <2> QED
    BY <2>1, <2>2 DEF LockInv
<1>13. CASE CheckPush
  BY <1>13, QuietStep DEF CheckPush, rebuildVars, lockVars
<1>14. CASE LogPush
  BY <1>14, QuietStep DEF LogPush, PushLocked, rebuildVars, lockVars
<1>15. CASE BoxSearch
  BY <1>15, QuietStep DEF BoxSearch, rebuildVars
<1>16. CASE LockSon
  BY <1>16, QuietStep DEF LockSon, rebuildVars
<1> QED
  BY <1>1, <1>2, <1>3, <1>4, <1>5, <1>6, <1>7, <1>8, <1>9, <1>10, <1>11, <1>12, <1>13,
     <1>14, <1>15, <1>16 DEF MapStep, MapContinue

LEMMA SearchLocks ==
  ASSUME LockInv, NEW s \in Searchers, SearchMeets(s) \/ SearchContinue(s)
  PROVE  LockInv'
<1>0. /\ UNCHANGED << rpc, Rebuild_Ptr, mpc >>
      /\ \E to \in {"out", "want", "counted", "free"} : spc' = [spc EXCEPT ![s] = to]
      /\ mpc' = "update" /\ rpc # "crashed"
  BY DEF SearchMeets, SearchContinue, SearchEnter, SearchLeave, Move, Alive, mainVars,
         rebuildVars, LockInv
<1>1. IsFiniteSet(Counted) /\ Cardinality(Counted) \in Nat
  BY CountedFinite
<1>2. CASE SearchMeets(s)
  <2>1. UNCHANGED search_mutex_counter /\ spc[s] = "out"
        /\ spc' = [spc EXCEPT ![s] = IF Rebuild_Ptr = None THEN "free" ELSE "want"]
    BY <1>2 DEF SearchMeets, Move, lockVars
  <2>2. Counted' = Counted
    BY <2>1 DEF Counted, LockInv
  <2>3. \A t \in Searchers : spc'[t] = "free" => Rebuild_Ptr = None
    BY <2>1 DEF LockInv
  <2> QED
    BY <1>0, <2>1, <2>2, <2>3 DEF LockInv
<1>3. CASE SearchEnter(s)
  <2>1. /\ spc[s] = "want" /\ spc' = [spc EXCEPT ![s] = "counted"]
        /\ search_mutex_counter # -1 /\ search_mutex_counter' = search_mutex_counter + 1
    BY <1>3 DEF SearchEnter, Move
  <2>2. Counted' = Counted \cup {s} /\ s \notin Counted
    BY <2>1 DEF Counted, LockInv
  <2>3. Cardinality(Counted') = Cardinality(Counted) + 1
    BY <1>1, <2>2, FS_AddElement
  <2>4. rpc \notin Shut
    BY <2>1 DEF LockInv
  <2> QED
    BY <1>0, <2>1, <2>3, <2>4 DEF LockInv
<1>4. CASE SearchLeave(s) /\ spc[s] = "free"
  <2>1. UNCHANGED search_mutex_counter /\ spc' = [spc EXCEPT ![s] = "out"]
    BY <1>4 DEF SearchLeave, Move
  <2>2. Counted' = Counted
    BY <1>4, <2>1 DEF Counted, LockInv
  <2> QED
    BY <1>0, <2>1, <2>2 DEF LockInv
<1>5. CASE SearchLeave(s) /\ spc[s] # "free"
  <2>1. /\ spc[s] = "counted" /\ spc' = [spc EXCEPT ![s] = "out"]
        /\ search_mutex_counter' = search_mutex_counter - 1
    BY <1>5 DEF SearchLeave, Move
  <2>2. s \in Counted /\ Counted' = Counted \ {s}
    BY <2>1 DEF Counted, LockInv
  <2>3. Cardinality(Counted') = Cardinality(Counted) - 1
    BY <1>1, <2>2, FS_RemoveElement
  <2>4. rpc \notin Shut
    BY <2>2 DEF LockInv
  <2> QED
    BY <1>0, <1>1, <2>1, <2>3, <2>4 DEF LockInv
<1> QED
  BY <1>2, <1>3, <1>4, <1>5 DEF SearchContinue

LEMMA RebuildLocks ==
  ASSUME LockInv, RebuildStep
  PROVE  LockInv'
<1>0. UNCHANGED << spc, mpc >>
  BY DEF RebuildStep, RebuildBegin, LockSearch, Copy, UnlockCopy, BuildTree, Drain, Replay,
         Replace, ReplaceNull, UnlockReplace, ClearFlag, mainVars
<1>1. Counted' = Counted
  BY <1>0 DEF Counted
<1>2. CASE LockSearch
  <2>1. rpc \in Open /\ rpc' \in Shut /\ search_mutex_counter = 0
        /\ search_mutex_counter' = -1 /\ UNCHANGED Rebuild_Ptr /\ rpc # "idle" /\ rpc # "clear"
    BY <1>2 DEF LockSearch, Goto, Open, Shut
  <2>2. Counted = {}
    BY <2>1, CountedFinite, FS_EmptySet DEF LockInv
  <2>3. rpc' \notin Open
    BY <1>2 DEF LockSearch, Goto, Open
  <2> QED
    BY <1>0, <1>1, <2>1, <2>2, <2>3 DEF LockInv
<1>3. CASE UnlockCopy \/ UnlockReplace
  <2>1. /\ rpc \in Shut \ {"idle", "clear"} /\ rpc' \in {"build", "clear"}
        /\ search_mutex_counter' = 0
        /\ \/ UNCHANGED Rebuild_Ptr
           \/ Rebuild_Ptr' = None /\ rpc' = "clear"
    BY <1>3 DEF UnlockCopy, UnlockReplace, Goto, Shut
  <2>2. Counted = {} /\ Cardinality(Counted) = 0
    BY <2>1, FS_EmptySet DEF LockInv
  <2>3. Rebuild_Ptr' = None => rpc' \in {"idle", "clear"}
    BY <2>1 DEF LockInv
  <2>4. \A t \in Searchers : spc[t] = "free" => Rebuild_Ptr' = None
    BY <2>1 DEF LockInv
  <2>5. rpc' \in Open /\ rpc' \notin Shut
    BY <2>1 DEF Open, Shut
  <2> QED
    BY <1>0, <1>1, <2>1, <2>2, <2>3, <2>4, <2>5 DEF LockInv
<1>4. CASE Copy \/ Replace \/ ReplaceNull
  <2>1. /\ rpc \in Shut /\ rpc' \in Shut \ Open /\ UNCHANGED << search_mutex_counter, Rebuild_Ptr >>
        /\ rpc # "idle" /\ rpc # "clear"
    BY <1>4 DEF Copy, Replace, ReplaceNull, Goto, lockVars, Shut, Open
  <2> QED
    BY <1>0, <1>1, <2>1 DEF LockInv
<1>5. CASE RebuildBegin \/ BuildTree \/ Drain \/ Replay \/ ClearFlag
  <2>1. /\ rpc \in Open /\ rpc' \in Open \ Shut
        /\ UNCHANGED << search_mutex_counter, Rebuild_Ptr >>
        /\ Rebuild_Ptr = None => rpc \notin {"idle", "clear"} \/ rpc' = "idle"
    BY <1>5 DEF RebuildBegin, BuildTree, Drain, Replay, ClearFlag, Goto, lockVars, Shut, Open
  <2> QED
    BY <1>0, <1>1, <2>1 DEF LockInv
<1> QED
  BY <1>2, <1>3, <1>4, <1>5 DEF RebuildStep

LEMMA LocksInvariant == Spec => []LockInv
<1>1. Init => LockInv
  BY LocksInitially
<1>2. LockInv /\ [Next]_vars => LockInv'
  <2> SUFFICES ASSUME LockInv, [Next]_vars
               PROVE  LockInv'
    OBVIOUS
  <2>1. CASE UNCHANGED vars
    <3>1. UNCHANGED << rpc, spc, search_mutex_counter, Rebuild_Ptr, mpc >>
      BY <2>1 DEF vars
    <3> QED
      BY <3>1 DEF LockInv, Counted
  <2> QED
    BY <2>1, MapLocks, SearchLocks, RebuildLocks DEF Next
<1> QED
  BY <1>1, <1>2, PTL DEF Spec

(* No nearest-neighbour search is in the tree while the rebuild thread       *)
(* copies a subtree or puts the copy in its place (the two critical sections *)
(* of multi_thread_rebuild), however many threads search: a search is let in *)
(* uncounted only when nothing is being rebuilt, and nothing begins to be    *)
(* until the update that runs the searches is over.                          *)
THEOREM SearchesKeepOut == Spec => []SearchLocked
<1>1. LockInv => SearchLocked
  <2> SUFFICES ASSUME LockInv, search_mutex_counter = -1, NEW s \in Searchers
               PROVE  spc[s] \notin {"counted", "free"}
    BY DEF SearchLocked
  <2>1. rpc \in Shut
    BY CountedFinite DEF LockInv
  <2>2. spc[s] # "counted"
    BY <2>1 DEF LockInv, Counted
  <2>3. spc[s] # "free"
    BY <2>1 DEF LockInv, Shut
  <2> QED
    BY <2>2, <2>3
<1> QED
  BY <1>1, LocksInvariant, PTL

-----------------------------------------------------------------------------
\* The variables that hold points, operations and places, apart from those
\* LockInv speaks of.  An operation is at hand wherever one is looked at.
DataInv ==
  /\ live \in SUBSET Points /\ fresh \in SUBSET Points
  /\ pending \in BOOLEAN /\ rebuild_flag \in BOOLEAN /\ guarded \in BOOLEAN
  /\ whole \in BOOLEAN /\ search_flag_mutex \in BOOLEAN
  /\ Rebuild_Ptr \in {None, "son", "root"}
  /\ working_flag_mutex \in {None, "main", "rebuild"}
  /\ mpc \in {"idle", "box", "push", "search", "descend", "son", "lockSon", "log", "balance",
              "next", "update"}
  /\ todo \in Seq(Ops) /\ Rebuild_Logger \in Seq(Ops)
  /\ mpc \in {"descend", "son", "lockSon", "log", "balance", "next"} => todo # <<>>
  /\ rpc = "replay" => Rebuild_Logger # <<>>

LEMMA OperationTypes ==
  /\ \A p \in Points : Add(p) \in Ops
  /\ \A b \in SUBSET Points : Delete(b) \in Ops
  /\ \A op \in Ops : BelowSon(op) \in Ops
  /\ \A op \in Ops, S \in SUBSET Points : Run(op, S) \in SUBSET Points
BY TreeAssumption DEF Add, Delete, BelowSon, Ops, Run

LEMMA ContentsType == DataInv => Contents \in SUBSET Points
BY DEF DataInv, Contents

(* Logging an operation, or none.                                            *)
LEMMA LogType ==
  ASSUME DataInv, NEW op \in Ops, Log(op) \/ UNCHANGED Rebuild_Logger
  PROVE  Rebuild_Logger' \in Seq(Ops) /\ (Rebuild_Logger # <<>> => Rebuild_Logger' # <<>>)
BY DEF DataInv, Log

LEMMA BeginType ==
  ASSUME NEW ops \in Seq(Ops), ops # <<>>, Begin(ops)
  PROVE  todo' \in Seq(Ops) /\ todo' # <<>> /\ whole' \in BOOLEAN /\ mpc' = "descend"
BY DEF Begin

LEMMA RootType ==
  ASSUME DataInv, NEW op \in Ops, RunOnRoot(op)
  PROVE  live' \in SUBSET Points /\ pending' \in BOOLEAN
<1>1. Contents \in SUBSET Points /\ Run(op, Contents) \in SUBSET Points
  BY ContentsType, OperationTypes
<1> QED
  BY <1>1 DEF RunOnRoot, DataInv, treeVars

LEMMA MapStepData ==
  ASSUME DataInv, MapStep
  PROVE  DataInv'
<1>1. CASE \E b \in Boxes : DeletePointBox(b)
  <2>1. PICK b \in Boxes : DeletePointBox(b)
    BY <1>1
  <2>2. << Delete(b) >> \in Seq(Ops) /\ << Delete(b) >> # <<>>
    BY OperationTypes, TreeAssumption
  <2>3. todo' \in Seq(Ops) /\ todo' # <<>> /\ whole' \in BOOLEAN /\ mpc' = "descend"
    BY <2>1, <2>2, BeginType DEF DeletePointBox
  <2> QED
    BY <2>1, <2>3 DEF DeletePointBox, DataInv, treeVars, lockVars, rebuildVars
<1>2. CASE \E p \in Points : AddPlain(p)
  <2>1. PICK p \in Points : AddPlain(p)
    BY <1>2
  <2>2. << Add(p) >> \in Seq(Ops) /\ << Add(p) >> # <<>>
    BY OperationTypes
  <2>3. todo' \in Seq(Ops) /\ todo' # <<>> /\ whole' \in BOOLEAN /\ mpc' = "descend"
    BY <2>1, <2>2, BeginType DEF AddPlain
  <2> QED
    BY <2>1, <2>3 DEF AddPlain, DataInv, treeVars, lockVars, rebuildVars
<1>3. CASE AddDownsampled
  BY <1>3 DEF AddDownsampled, DataInv, treeVars, lockVars, rebuildVars
<1>4. CASE BeginUpdate
  BY <1>4 DEF BeginUpdate, DataInv, treeVars, lockVars, rebuildVars
<1> QED
  BY <1>1, <1>2, <1>3, <1>4 DEF MapStep

LEMMA MapContinueData ==
  ASSUME DataInv, MapContinue
  PROVE  DataInv'
<1>0. Contents \in SUBSET Points
  BY ContentsType
<1>1. mpc \in {"descend", "son", "lockSon", "log", "balance", "next"} => Head(todo) \in Ops
  BY DEF DataInv
<1>2. CASE Downsample
  <2>1. PICK v \in Voxels, p \in Points :
          \E kept \in (live \cap v) \cup {p} :
            IF Cardinality(live \cap v) > 1 \/ kept = p
            THEN Begin(IF live \cap v = {} THEN <<Add(kept)>> ELSE <<Delete(v), Add(kept)>>)
            ELSE mpc' = "idle" /\ UNCHANGED <<todo, whole>>
    BY <1>2 DEF Downsample
  <2>2. PICK kept \in Points :
          \/ Begin(<<Add(kept)>>) \/ Begin(<<Delete(v), Add(kept)>>)
          \/ mpc' = "idle" /\ UNCHANGED <<todo, whole>>
    BY <2>1 DEF DataInv
  <2>3. /\ <<Add(kept)>> \in Seq(Ops) /\ <<Add(kept)>> # <<>>
        /\ <<Delete(v), Add(kept)>> \in Seq(Ops) /\ <<Delete(v), Add(kept)>> # <<>>
    BY OperationTypes, TreeAssumption
  <2>4. \/ todo' \in Seq(Ops) /\ todo' # <<>> /\ whole' \in BOOLEAN /\ mpc' = "descend"
        \/ mpc' = "idle" /\ UNCHANGED <<todo, whole>>
    BY <2>2, <2>3, BeginType
  <2> QED
    BY <1>2, <2>4 DEF Downsample, DataInv, treeVars, rebuildVars
<1>3. CASE LockRoot
  <2>1. live' \in SUBSET Points /\ pending' \in BOOLEAN
    BY <1>1, <1>3, RootType DEF LockRoot
  <2> QED
    BY <1>3, <2>1 DEF LockRoot, DataInv, rebuildVars
<1>4. CASE VisitRoot
  <2>1. Run(Head(todo), Contents) \in SUBSET Points
    BY <1>0, <1>1, <1>4, OperationTypes DEF VisitRoot
  <2>2. live' \in SUBSET Points /\ pending' \in BOOLEAN
    BY <1>0, <1>4, <2>1 DEF VisitRoot, DataInv, treeVars
  <2>3. mpc' \in {"next", "balance", "son"} /\ guarded' \in BOOLEAN
        /\ UNCHANGED << lockVars, rebuildVars, Rebuild_Logger, todo, whole >> /\ todo # <<>>
    BY <1>4 DEF VisitRoot, DataInv
  <2> QED
    BY <2>2, <2>3 DEF DataInv, lockVars, rebuildVars
<1>5. CASE VisitSon
  <2>1. live' \in SUBSET Points
    BY <1>1, <1>5, OperationTypes DEF VisitSon, DataInv
  <2> QED
    BY <1>5, <2>1 DEF VisitSon, DataInv, lockVars
<1>6. CASE LogOperation
  <2> DEFINE op == IF whole THEN Head(todo) ELSE BelowSon(Head(todo))
  <2>1. op \in Ops /\ Log(op)
    BY <1>1, <1>6, OperationTypes DEF LogOperation
  <2>2. Rebuild_Logger' \in Seq(Ops) /\ (Rebuild_Logger # <<>> => Rebuild_Logger' # <<>>)
    BY <2>1, LogType
  <2>3. CASE whole /\ Len(todo) > 1
    <3>1. todo' = Tail(todo) /\ todo' \in Seq(Ops) /\ todo' # <<>> /\ Head(todo') \in Ops
      BY <1>6, <2>3 DEF LogOperation, DataInv
    <3>2. live' \in SUBSET Points /\ pending' \in BOOLEAN
      BY <1>6, <2>3, <3>1, RootType DEF LogOperation
    <3> QED
      BY <1>6, <2>2, <2>3, <3>1, <3>2 DEF LogOperation, DataInv, rebuildVars
  <2>4. CASE ~(whole /\ Len(todo) > 1)
    BY <1>6, <2>2, <2>4 DEF LogOperation, DataInv, rebuildVars, treeVars
  <2> QED
    BY <2>3, <2>4
<1>7. CASE Balance
  BY <1>7 DEF Balance, DataInv, treeVars, lockVars
<1>8. CASE NextOperation
  BY <1>8 DEF NextOperation, DataInv, treeVars, lockVars, rebuildVars
<1>9. CASE EndUpdate
  BY <1>9 DEF EndUpdate, DataInv, treeVars, lockVars, rebuildVars
<1>10. CASE CheckPush
  BY <1>10 DEF CheckPush, DataInv, treeVars, lockVars, rebuildVars
<1>11. CASE LogPush
  <2>1. Rebuild_Logger' \in Seq(Ops) /\ (Rebuild_Logger # <<>> => Rebuild_Logger' # <<>>)
    BY <1>11, OperationTypes, TreeAssumption, LogType DEF LogPush
  <2> QED
    BY <1>11, <2>1 DEF LogPush, PushLocked, DataInv, lockVars, rebuildVars
<1>12. CASE BoxSearch
  BY <1>0, <1>12 DEF BoxSearch, DataInv, rebuildVars
<1>13. CASE LockSon
  <2>1. live' \in SUBSET Points
    BY <1>1, <1>13, OperationTypes DEF LockSon, DataInv
  <2> QED
    BY <1>13, <2>1 DEF LockSon, DataInv, rebuildVars
<1> QED
  BY <1>2, <1>3, <1>4, <1>5, <1>6, <1>7, <1>8, <1>9, <1>10, <1>11, <1>12, <1>13
     DEF MapContinue

LEMMA SearchData ==
  ASSUME DataInv, NEW s \in Searchers, SearchMeets(s) \/ SearchContinue(s)
  PROVE  DataInv'
BY DEF SearchMeets, SearchContinue, SearchEnter, SearchLeave, Move, DataInv, treeVars,
       lockVars, rebuildVars, mainVars

LEMMA RebuildData ==
  ASSUME DataInv, RebuildStep
  PROVE  DataInv'
<1>0. Contents \in SUBSET Points
  BY ContentsType
<1>1. CASE RebuildBegin
  BY <1>1 DEF RebuildBegin, Goto, DataInv, treeVars, mainVars
<1>2. CASE LockSearch
  BY <1>2 DEF LockSearch, Goto, DataInv, treeVars, mainVars
<1>3. CASE Copy
  BY <1>0, <1>3 DEF Copy, Goto, DataInv, treeVars, lockVars, mainVars
<1>4. CASE UnlockCopy
  BY <1>4 DEF UnlockCopy, Goto, DataInv, treeVars, mainVars
<1>5. CASE BuildTree
  <2>1. UNCHANGED << live, pending, fresh, Rebuild_Ptr, Rebuild_Logger, rebuild_flag >>
        /\ UNCHANGED << search_flag_mutex, mpc, todo, whole >>
    BY <1>5 DEF BuildTree, treeVars, mainVars
  <2>2. /\ working_flag_mutex' \in {None, "main", "rebuild"} /\ guarded' \in BOOLEAN
        /\ rpc' # "replay"
    BY <1>5 DEF BuildTree, DataInv
  <2> QED
    BY <2>1, <2>2 DEF DataInv
<1>6. CASE Drain
  BY <1>6 DEF Drain, DataInv, treeVars, mainVars
<1>7. CASE Replay
  <2>1. Head(Rebuild_Logger) \in Ops /\ Tail(Rebuild_Logger) \in Seq(Ops)
    BY <1>7 DEF Replay, Goto, DataInv
  <2>2. fresh' \in SUBSET Points
    BY <1>7, <2>1, OperationTypes DEF Replay, DataInv
  <2> QED
    BY <1>7, <2>1, <2>2 DEF Replay, Goto, DataInv, treeVars, mainVars
<1>8. CASE Replace
  BY <1>8 DEF Replace, Goto, DataInv, lockVars, mainVars
<1>9. CASE ReplaceNull
  BY <1>9 DEF ReplaceNull, DataInv, lockVars, mainVars
<1>10. CASE UnlockReplace
  BY <1>10 DEF UnlockReplace, Goto, DataInv, treeVars, mainVars
<1>11. CASE ClearFlag
  BY <1>11 DEF ClearFlag, Goto, DataInv, treeVars, lockVars, mainVars
<1> QED
  BY <1>1, <1>2, <1>3, <1>4, <1>5, <1>6, <1>7, <1>8, <1>9, <1>10, <1>11 DEF RebuildStep

LEMMA DataInvariant == Spec => []DataInv
<1>1. Init => DataInv
  <2>1. Init => live \in SUBSET Points
    BY Zenon DEF Init
  <2>2. {} \in SUBSET Points /\ <<>> \in Seq(Ops)
    OBVIOUS
  <2> QED
    BY <2>1, <2>2 DEF Init, DataInv
<1>2. DataInv /\ [Next]_vars => DataInv'
  <2> SUFFICES ASSUME DataInv, [Next]_vars
               PROVE  DataInv'
    OBVIOUS
  <2>1. CASE UNCHANGED vars
    BY <2>1 DEF vars, DataInv
  <2> QED
    BY <2>1, MapStepData, MapContinueData, SearchData, RebuildData DEF Next
<1> QED
  BY <1>1, <1>2, PTL DEF Spec

(* Every variable keeps its kind; the counter of searches is -1, or counts   *)
(* searching threads.                                                        *)
THEOREM TypeCorrect == Spec => []TypeOK
<1>1. LockInv /\ DataInv => TypeOK
  <2> SUFFICES ASSUME LockInv, DataInv
               PROVE  TypeOK
    OBVIOUS
  <2>1. IsFiniteSet(Searchers) /\ Counted \in SUBSET Searchers
    BY TreeAssumption DEF Counted
  <2>2. Cardinality(Counted) \in 0..Cardinality(Searchers) /\ Cardinality(Searchers) \in Nat
    BY <2>1, CountedFinite, FS_Subset, FS_CardinalityType
  <2>3. search_mutex_counter \in -1..Cardinality(Searchers)
    BY <2>2 DEF LockInv
  <2> QED
    BY <2>3 DEF LockInv, DataInv, TypeOK, Shut, Open
<1> QED
  BY <1>1, LocksInvariant, DataInvariant, PTL

-----------------------------------------------------------------------------
(* What the lock and the logger rest on.  The rebuild thread holds the lock  *)
(* while it copies, looks for operations to replay and replaces; between an  *)
(* operation on a tree under rebuild and its logging the mapping thread      *)
(* holds it, unless the rebuild ended before it had it, or unlocked it.      *)
HandInv ==
  /\ rpc # "idle" => rebuild_flag
  /\ rpc \in {"lockCopy", "copy", "unlockCopy", "drain", "lockReplace", "replace"} =>
       working_flag_mutex = "rebuild"
  /\ mpc = "log" =>
       \/ Rebuild_Ptr = None
       \/ /\ working_flag_mutex = "main"
          /\ Rebuild_Ptr = IF whole THEN "root" ELSE "son"
  /\ mpc \in {"son", "lockSon", "balance"} \/ (mpc = "push" /\ todo # <<>>) => ~whole
  /\ mpc \in {"push", "lockSon"} => Rebuild_Ptr \in {None, "son"}
  /\ mpc \in {"idle", "box", "search", "update"} => todo = <<>>
  /\ mpc \in {"descend", "next"} => ~(whole /\ Rebuild_Ptr = "son")
  /\ guarded /\ rpc \in {"lockCopy", "copy", "lockReplace", "replace"} => Rebuild_Logger = <<>>
  /\ rpc \in {"lockNull", "replaceNull"} => ~guarded

Copied == {"unlockCopy", "build", "drain", "replay", "lockReplace", "replace"}

(* The tree under rebuild, as the mapping thread sees it.                    *)
Tree == IF Rebuild_Ptr = "root" THEN Contents ELSE live

(* The copy and the missed operations give the tree; those on the son stay   *)
(* below it.                                                                 *)
Covered ==
  /\ \A p \in Region : Agrees(p, Tree)
  /\ Rebuild_Ptr = "son" =>
       fresh \subseteq SonPoints /\ \A i \in DOMAIN Missed : Missed[i].pts \subseteq SonPoints
  /\ Rebuild_Ptr = "root" /\ pending => live \subseteq SonPoints

CoverInv == guarded /\ rpc \in Copied => Covered

(* Nothing is logged while the rebuild thread holds the lock.                *)
LEMMA Logged ==
  ASSUME HandInv, LockInv, LogOperation \/ LogPush \/ UNCHANGED Rebuild_Logger,
         guarded, rpc \in {"lockCopy", "copy", "lockReplace", "replace"}
  PROVE  Rebuild_Logger' = <<>>
<1>1. working_flag_mutex = "rebuild" /\ Rebuild_Logger = <<>> /\ Rebuild_Ptr # None
  BY DEF HandInv, LockInv
<1>2. ~LogOperation
  BY <1>1 DEF HandInv, LogOperation
<1>3. ~LogPush
  BY <1>1, TreeAssumption DEF LogPush, PushLocked
<1> QED
  BY <1>1, <1>2, <1>3

(* The mapping thread gives the rebuild thread no step, never regains what    *)
(* guarded says, and writes the log only where it says it does.              *)
LEMMA MapKeeps ==
  ASSUME MapStep \/ MapContinue
  PROVE  /\ UNCHANGED << rpc, rebuild_flag >>
         /\ guarded' => guarded
         /\ LogOperation \/ LogPush \/ UNCHANGED Rebuild_Logger
<1>1. UNCHANGED << rpc, rebuild_flag >>
  BY DEF MapStep, MapContinue, DeletePointBox, AddPlain, AddDownsampled, BeginUpdate, CheckPush,
         LogPush, PushLocked, BoxSearch, Downsample, LockRoot, VisitRoot, VisitSon, LockSon,
         LogOperation, Balance, NextOperation, EndUpdate, rebuildVars
<1>2. guarded' => guarded
  <2>1. CASE VisitRoot
    BY <2>1 DEF VisitRoot
  <2>2. CASE VisitSon
    BY <2>2 DEF VisitSon
  <2>3. CASE UNCHANGED guarded
    BY <2>3
  <2> QED
    BY <2>1, <2>2, <2>3 DEF MapStep, MapContinue, DeletePointBox, AddPlain, AddDownsampled,
         BeginUpdate, CheckPush, LogPush, PushLocked, BoxSearch, Downsample, LockRoot, LockSon,
         LogOperation, Balance, NextOperation, EndUpdate
<1>3. LogOperation \/ LogPush \/ UNCHANGED Rebuild_Logger
  BY DEF MapStep, MapContinue, DeletePointBox, AddPlain, AddDownsampled, BeginUpdate, CheckPush,
         BoxSearch, Downsample, LockRoot, VisitRoot, VisitSon, LockSon, Balance,
         NextOperation, EndUpdate
<1> QED
  BY <1>1, <1>2, <1>3

LEMMA MapHand ==
  ASSUME LockInv, DataInv, HandInv, MapStep \/ MapContinue
  PROVE  HandInv'
<1>0. /\ UNCHANGED << rpc, rebuild_flag >>
      /\ guarded' => guarded
      /\ LogOperation \/ LogPush \/ UNCHANGED Rebuild_Logger
  BY MapKeeps
<1>1. /\ rpc' # "idle" => rebuild_flag'
      /\ guarded' /\ rpc' \in {"lockCopy", "copy", "lockReplace", "replace"} => Rebuild_Logger' = <<>>
      /\ rpc' \in {"lockNull", "replaceNull"} => ~guarded'
  BY <1>0, Logged DEF HandInv
<1>2. ASSUME UNCHANGED << working_flag_mutex, Rebuild_Ptr >>, mpc' # "log",
             mpc' \in {"son", "lockSon", "balance"} \/ (mpc' = "push" /\ todo' # <<>>) => ~whole',
             mpc' \in {"push", "lockSon"} => Rebuild_Ptr' \in {None, "son"},
             mpc' \in {"idle", "box", "search", "update"} => todo' = <<>>,
             mpc' \in {"descend", "next"} => ~(whole' /\ Rebuild_Ptr' = "son")
      PROVE  HandInv'
  BY <1>0, <1>1, <1>2 DEF HandInv
<1>3. CASE MapStep \/ EndUpdate \/ NextOperation \/ BoxSearch \/ Downsample
  <2>1. UNCHANGED << working_flag_mutex, Rebuild_Ptr >>
        /\ mpc' \notin {"log", "push", "son", "lockSon", "balance"}
    BY <1>3 DEF MapStep, DeletePointBox, AddPlain, AddDownsampled, BeginUpdate, BoxSearch,
                Downsample, NextOperation, EndUpdate, rebuildVars, lockVars, Begin
  <2>2. mpc' \in {"descend", "next"} => ~(whole' /\ Rebuild_Ptr' = "son")
    BY <1>3 DEF MapStep, DeletePointBox, AddPlain, AddDownsampled, BeginUpdate, BoxSearch,
                Downsample, NextOperation, EndUpdate, rebuildVars, lockVars, Begin, HandInv
  <2>3. mpc' \in {"idle", "box", "search", "update"} => todo' = <<>>
    BY <1>3 DEF MapStep, MayBegin, DeletePointBox, AddPlain, AddDownsampled, BeginUpdate, BoxSearch,
                Downsample, NextOperation, EndUpdate, Begin, HandInv
  <2> QED
    BY <1>2, <2>1, <2>2, <2>3
<1>4. CASE VisitRoot
  <2>1. UNCHANGED << working_flag_mutex, Rebuild_Ptr >> /\ ~whole'
        /\ mpc' \in {"next", "son", "balance"}
    BY <1>4 DEF VisitRoot, lockVars, rebuildVars
  <2> QED
    BY <1>2, <2>1
<1>5. CASE Balance
  <2>1. /\ UNCHANGED working_flag_mutex /\ mpc' = "next" /\ ~whole'
        /\ Rebuild_Ptr' = Rebuild_Ptr \/ rpc = "idle"
    BY <1>5 DEF Balance, lockVars, HandInv
  <2> QED
    BY <1>0, <1>1, <2>1 DEF HandInv
<1>6. CASE LockRoot
  <2>1. /\ working_flag_mutex = None /\ working_flag_mutex' = "main" /\ mpc' = "log"
        /\ mpc = "descend" /\ whole /\ whole' /\ Rebuild_Ptr' = Rebuild_Ptr
    BY <1>6 DEF LockRoot, rebuildVars
  <2>2. Rebuild_Ptr \in {None, "root"}
    BY <2>1 DEF HandInv, DataInv
  <2>3. rpc \notin {"lockCopy", "copy", "unlockCopy", "drain", "lockReplace", "replace"}
    BY <2>1, TreeAssumption DEF HandInv
  <2> QED
    BY <1>0, <1>1, <2>1, <2>2, <2>3 DEF HandInv
<1>7. CASE VisitSon
  <2>1. ~whole /\ UNCHANGED << whole, working_flag_mutex >>
    BY <1>7 DEF VisitSon, HandInv, lockVars
  <2>2. \/ mpc' = "lockSon" /\ Rebuild_Ptr' = "son"
        \/ mpc' = "balance"
    BY <1>7 DEF VisitSon
  <2>3. rpc # "idle" => UNCHANGED Rebuild_Ptr
    BY <1>7 DEF VisitSon
  <2> QED
    BY <1>0, <1>1, <2>1, <2>2, <2>3 DEF HandInv
<1>9. CASE LockSon
  <2>1. /\ working_flag_mutex = None /\ working_flag_mutex' = "main" /\ mpc' = "log"
        /\ ~whole' /\ Rebuild_Ptr' = Rebuild_Ptr /\ Rebuild_Ptr \in {None, "son"}
    BY <1>9 DEF LockSon, rebuildVars, HandInv
  <2>2. rpc \notin {"lockCopy", "copy", "unlockCopy", "drain", "lockReplace", "replace"}
    BY <2>1, TreeAssumption DEF HandInv
  <2> QED
    BY <1>0, <1>1, <2>1, <2>2 DEF HandInv
<1>10. CASE CheckPush
  <2>1. /\ UNCHANGED << working_flag_mutex, Rebuild_Ptr, todo, whole >> /\ mpc' = "push"
        /\ Rebuild_Ptr = "son"
        /\ mpc = "box" \/ ~whole
    BY <1>10 DEF CheckPush, PushMustLock, lockVars, rebuildVars
  <2>2. mpc = "box" => todo = <<>>
    BY DEF HandInv
  <2> QED
    BY <1>2, <2>1, <2>2
<1>11. CASE LogPush
  <2>1. /\ UNCHANGED << working_flag_mutex, Rebuild_Ptr, whole >> /\ mpc = "push"
        /\ (mpc' = "box" /\ todo' = <<>>) \/ (mpc' = "descend" /\ todo # <<>>)
    BY <1>11 DEF LogPush, PushLocked, lockVars, rebuildVars
  <2>2. mpc' = "descend" => ~whole'
    BY <2>1 DEF HandInv
  <2> QED
    BY <1>2, <2>1, <2>2
<1>8. CASE LogOperation
  <2>1. mpc = "log" /\ UNCHANGED << Rebuild_Ptr, whole >>
    BY <1>8 DEF LogOperation, rebuildVars
  <2>2. rpc \notin {"lockCopy", "copy", "unlockCopy", "drain", "lockReplace", "replace"}
    BY <2>1 DEF HandInv, LockInv
  <2>3. CASE whole /\ Len(todo) > 1
    <3>1. UNCHANGED << mpc, working_flag_mutex >>
      BY <1>8, <2>3 DEF LogOperation
    <3> QED
      BY <1>0, <1>1, <2>1, <2>2, <3>1 DEF HandInv
  <2>4. CASE ~(whole /\ Len(todo) > 1)
    <3>1. mpc' = IF whole THEN "next" ELSE "balance"
      BY <1>8, <2>4 DEF LogOperation
    <3>2. ~(whole /\ Rebuild_Ptr = "son")
      BY <2>1, TreeAssumption DEF HandInv
    <3> QED
      BY <1>0, <1>1, <2>1, <2>2, <3>1, <3>2 DEF HandInv
  <2> QED
    BY <2>3, <2>4
<1> QED
  BY <1>3, <1>4, <1>5, <1>6, <1>7, <1>8, <1>9, <1>10, <1>11 DEF MapContinue

LEMMA RebuildHand ==
  ASSUME LockInv, DataInv, HandInv, RebuildStep
  PROVE  HandInv'
<1>0. UNCHANGED << mpc, whole, todo >>
  BY DEF RebuildStep, RebuildBegin, LockSearch, Copy, UnlockCopy, BuildTree, Drain, Replay,
         Replace, ReplaceNull, UnlockReplace, ClearFlag, mainVars
<1>1. CASE RebuildBegin
  BY <1>0, <1>1, TreeAssumption DEF RebuildBegin, Goto, HandInv
<1>2. CASE LockSearch
  BY <1>0, <1>2 DEF LockSearch, Goto, HandInv
<1>3. CASE Copy
  BY <1>0, <1>3 DEF Copy, Goto, HandInv, lockVars
<1>4. CASE UnlockCopy
  BY <1>0, <1>4, TreeAssumption DEF UnlockCopy, Goto, HandInv, LockInv
<1>5. CASE BuildTree
  BY <1>0, <1>5, TreeAssumption DEF BuildTree, HandInv
<1>6. CASE Drain
  BY <1>0, <1>6, TreeAssumption DEF Drain, HandInv, LockInv
<1>7. CASE Replay
  BY <1>0, <1>7, TreeAssumption DEF Replay, Goto, HandInv
<1>8. CASE Replace
  BY <1>0, <1>8 DEF Replace, Goto, HandInv, lockVars
<1>9. CASE ReplaceNull
  BY <1>0, <1>9 DEF ReplaceNull, HandInv, lockVars
<1>10. CASE UnlockReplace
  BY <1>0, <1>10, TreeAssumption DEF UnlockReplace, Goto, HandInv
<1>11. CASE ClearFlag
  BY <1>0, <1>11 DEF ClearFlag, Goto, HandInv, lockVars
<1> QED
  BY <1>1, <1>2, <1>3, <1>4, <1>5, <1>6, <1>7, <1>8, <1>9, <1>10, <1>11 DEF RebuildStep

LEMMA SearchHand ==
  ASSUME HandInv, NEW s \in Searchers, SearchMeets(s) \/ SearchContinue(s)
  PROVE  HandInv'
BY DEF SearchMeets, SearchContinue, SearchEnter, SearchLeave, HandInv, lockVars, rebuildVars,
       mainVars

LEMMA HandInvariant == Spec => []HandInv
<1>1. Init => HandInv
  BY DEF Init, HandInv
<1>2. LockInv /\ DataInv /\ HandInv /\ [Next]_vars => HandInv'
  <2> SUFFICES ASSUME LockInv, DataInv, HandInv, [Next]_vars
               PROVE  HandInv'
    OBVIOUS
  <2>1. CASE UNCHANGED vars
    BY <2>1 DEF vars, HandInv
  <2> QED
    BY <2>1, MapHand, SearchHand, RebuildHand DEF Next
<1> QED
  BY <1>1, <1>2, LocksInvariant, DataInvariant, PTL DEF Spec

-----------------------------------------------------------------------------
(* Replaying: what a sequence of missed operations and a copy say of a tree. *)
Says(p, ms, tree, copy) ==
  \/ /\ \A i \in DOMAIN ms : p \notin ms[i].pts
     /\ (p \in tree) <=> (p \in copy)
  \/ \E i \in DOMAIN ms :
       /\ p \in ms[i].pts
       /\ \A j \in DOMAIN ms : j > i => p \notin ms[j].pts
       /\ (p \in tree) <=> ms[i].add

LEMMA AgreesSays ==
  ASSUME NEW p, NEW tree
  PROVE  Agrees(p, tree) <=> Says(p, Missed, tree, fresh)
BY DEF Agrees, Says

LEMMA RunAt ==
  ASSUME NEW op \in Ops, NEW S, NEW p
  PROVE  p \in Run(op, S) <=> IF p \in op.pts THEN op.add ELSE p \in S
BY DEF Run, Ops

(* An operation is done on the tree and missed by the copy.                  *)
LEMMA OneMore ==
  ASSUME NEW ms \in Seq(Ops), NEW op \in Ops, NEW p, NEW tree, NEW copy,
         Says(p, ms, tree, copy), NEW new, p \in new <=> p \in Run(op, tree)
  PROVE  Says(p, Append(ms, op), new, copy)
<1> DEFINE n == Len(ms)  ns == Append(ms, op)
<1>1. /\ n \in Nat /\ DOMAIN ms = 1..n /\ DOMAIN ns = 1..(n + 1)
      /\ \A i \in 1..n : ns[i] = ms[i]
      /\ ns[n + 1] = op
  OBVIOUS
<1>2. p \in new <=> IF p \in op.pts THEN op.add ELSE p \in tree
  BY RunAt
<1> HIDE DEF n, ns
<1>3. CASE p \in op.pts
  <2>1. n + 1 \in DOMAIN ns /\ p \in ns[n + 1].pts /\ (p \in new <=> ns[n + 1].add)
    BY <1>1, <1>2, <1>3
  <2>2. \A j \in DOMAIN ns : j > n + 1 => p \notin ns[j].pts
    BY <1>1
  <2> QED
    BY <2>1, <2>2 DEF Says, ns
<1>4. CASE p \notin op.pts
  <2>1. p \in new <=> p \in tree
    BY <1>2, <1>4
  <2>2. CASE \A i \in DOMAIN ms : p \notin ms[i].pts
    <3>1. \A i \in DOMAIN ns : p \notin ns[i].pts
      BY <1>1, <1>4, <2>2
    <3>2. p \in tree <=> p \in copy
      BY <2>2 DEF Says
    <3> QED
      BY <2>1, <3>1, <3>2 DEF Says, ns
  <2>3. CASE ~(\A i \in DOMAIN ms : p \notin ms[i].pts)
    <3>1. PICK i \in DOMAIN ms :
            /\ p \in ms[i].pts
            /\ \A j \in DOMAIN ms : j > i => p \notin ms[j].pts
            /\ (p \in tree) <=> ms[i].add
      BY <2>3 DEF Says
    <3>2. i \in DOMAIN ns /\ ns[i] = ms[i]
      BY <1>1, <3>1
    <3>3. \A j \in DOMAIN ns : j > i => p \notin ns[j].pts
      BY <1>1, <1>4, <3>1
    <3> QED
      BY <2>1, <3>1, <3>2, <3>3 DEF Says, ns
  <2> QED
    BY <2>2, <2>3
<1> QED
  BY <1>3, <1>4

(* The first missed operation is done on the copy.                           *)
LEMMA OneLess ==
  ASSUME NEW ms \in Seq(Ops), ms # << >>, NEW p, NEW tree, NEW copy,
         Says(p, ms, tree, copy)
  PROVE  Says(p, Tail(ms), tree, Run(Head(ms), copy))
<1> DEFINE n == Len(ms)  ns == Tail(ms)  new == Run(Head(ms), copy)
<1>1. /\ n \in Nat \ {0} /\ DOMAIN ms = 1..n /\ DOMAIN ns = 1..(n - 1)
      /\ \A i \in 1..(n - 1) : ns[i] = ms[i + 1]
      /\ Head(ms) = ms[1] /\ ms[1] \in Ops
  OBVIOUS
<1>2. p \in new <=> IF p \in ms[1].pts THEN ms[1].add ELSE p \in copy
  BY <1>1, RunAt
<1> HIDE DEF n, ns, new
<1>3. CASE \A i \in DOMAIN ms : p \notin ms[i].pts
  <2>1. \A i \in DOMAIN ns : p \notin ns[i].pts
    <3>1. \A i \in 1..(n - 1) : i + 1 \in 1..n
      BY <1>1
    <3> QED
      BY <1>1, <1>3, <3>1
  <2>2. p \in tree <=> p \in copy
    BY <1>3 DEF Says
  <2>3. p \in new <=> p \in copy
    BY <1>1, <1>2, <1>3
  <2> QED
    BY <2>1, <2>2, <2>3 DEF Says, ns, new
<1>4. CASE ~(\A i \in DOMAIN ms : p \notin ms[i].pts)
  <2>1. PICK i \in DOMAIN ms :
          /\ p \in ms[i].pts
          /\ \A j \in DOMAIN ms : j > i => p \notin ms[j].pts
          /\ (p \in tree) <=> ms[i].add
    BY <1>4 DEF Says
  <2>2. \A j \in DOMAIN ns : j + 1 \in DOMAIN ms /\ ns[j] = ms[j + 1]
    BY <1>1
  <2>3. CASE i = 1
    <3>1. \A j \in DOMAIN ns : p \notin ns[j].pts
      <4>1. \A j \in DOMAIN ns : j + 1 > 1
        BY <1>1
      <4> QED
        BY <2>1, <2>2, <2>3, <4>1
    <3>2. p \in tree <=> p \in new
      BY <1>2, <2>1, <2>3
    <3> QED
      BY <3>1, <3>2 DEF Says, ns, new
  <2>4. CASE i # 1
    <3>1. i - 1 \in DOMAIN ns /\ ns[i - 1] = ms[i]
      BY <1>1, <2>1, <2>4
    <3>2. \A j \in DOMAIN ns : j > i - 1 => p \notin ns[j].pts
      <4>1. \A j \in DOMAIN ns : j > i - 1 => j + 1 > i
        BY <1>1, <2>1
      <4> QED
        BY <2>1, <2>2, <4>1
    <3> QED
      BY <2>1, <3>1, <3>2 DEF Says, ns, new
  <2> QED
    BY <2>3, <2>4
<1> QED
  BY <1>3, <1>4

(* Nothing happened to the tree or to the log.                               *)
LEMMA SameTree ==
  ASSUME Covered, UNCHANGED << Rebuild_Ptr, fresh >>, Missed' = Missed,
         \A p \in Region : p \in Tree' <=> p \in Tree,
         Rebuild_Ptr = "root" /\ pending' => live' \subseteq SonPoints
  PROVE  Covered'
<1>1. Region' = Region
  BY DEF Region
<1>2. ASSUME NEW p \in Region PROVE Says(p, Missed, Tree', fresh)
  <2>1. Says(p, Missed, Tree, fresh)
    BY AgreesSays DEF Covered
  <2> QED
    BY <2>1 DEF Says
<1>3. \A p \in Region' : Says(p, Missed, Tree, fresh)'
  BY <1>1, <1>2 DEF Says
<1>4. \A p \in Region' : Agrees(p, Tree)'
  BY <1>3 DEF Says, Agrees
<1> QED
  BY <1>4 DEF Covered

(* An operation was done on the tree and joined the missed ones.             *)
LEMMA MissedOne ==
  ASSUME Covered, UNCHANGED << Rebuild_Ptr, fresh >>, Missed \in Seq(Ops),
         NEW op \in Ops, Missed' = Append(Missed, op),
         \A p \in Region : p \in Tree' <=> p \in Run(op, Tree),
         Rebuild_Ptr = "son" => op.pts \subseteq SonPoints,
         Rebuild_Ptr = "root" /\ pending' => live' \subseteq SonPoints
  PROVE  Covered'
<1>1. Region' = Region
  BY DEF Region
<1>2. ASSUME NEW p \in Region PROVE Says(p, Missed', Tree', fresh)
  <2>1. Says(p, Missed, Tree, fresh)
    BY AgreesSays DEF Covered
  <2>2. p \in Tree' <=> p \in Run(op, Tree)
    OBVIOUS
  <2>3. Says(p, Append(Missed, op), Tree', fresh)
    BY <2>1, <2>2, OneMore
  <2> QED
    BY <2>3
<1>3. \A p \in Region' : Says(p, Missed, Tree, fresh)'
  BY <1>1, <1>2 DEF Says
<1>4. \A p \in Region' : Agrees(p, Tree)'
  BY <1>3 DEF Says, Agrees
<1>5. Rebuild_Ptr = "son" => \A i \in DOMAIN Missed' : Missed'[i].pts \subseteq SonPoints
  <2>1. DOMAIN Append(Missed, op) = 1..(Len(Missed) + 1) /\ Len(Missed) \in Nat
        /\ DOMAIN Missed = 1..Len(Missed)
        /\ \A i \in 1..Len(Missed) : Append(Missed, op)[i] = Missed[i]
        /\ Append(Missed, op)[Len(Missed) + 1] = op
    OBVIOUS
  <2> QED
    BY <2>1 DEF Covered
<1> QED
  BY <1>4, <1>5 DEF Covered

(* What the copy misses is a sequence of operations.                         *)
LEMMA MissedType ==
  ASSUME DataInv
  PROVE  Missed \in Seq(Ops)
<1>1. mpc = "log" => Head(todo) \in Ops
  BY DEF DataInv
<1>2. mpc = "log" => BelowSon(Head(todo)) \in Ops
  BY <1>1, OperationTypes
<1> QED
  BY <1>1, <1>2 DEF Missed, DataInv

(* Under the lock of the root an operation does to the whole tree what it    *)
(* says, also when the tree is only marked.                                  *)
LEMMA RootRuns ==
  ASSUME DataInv, NEW op \in Ops, RunOnRoot(op), pending => live \subseteq SonPoints
  PROVE  /\ Contents' = Run(op, Contents)
         /\ pending' => live' \subseteq SonPoints
<1>1. CASE ~op.add /\ pending
  <2>1. UNCHANGED << live, pending >> /\ Contents = {}
    BY <1>1 DEF RunOnRoot, treeVars, Contents
  <2> QED
    BY <1>1, <2>1 DEF Contents, Run
<1>2. CASE ~(~op.add /\ pending) /\ Covers(op)
  <2>1. pending' = TRUE /\ live' = live \cap SonPoints
    BY <1>2 DEF RunOnRoot
  <2>2. Contents' = {} /\ Run(op, Contents) = {}
    BY <1>2, <2>1, ContentsType DEF Contents, Run, Covers
  <2> QED
    BY <2>1, <2>2
<1>3. CASE ~(~op.add /\ pending) /\ ~Covers(op)
  BY <1>3 DEF RunOnRoot, Contents
<1> QED
  BY <1>1, <1>2, <1>3

(* A step of the mapping thread leaves the tree alone, or misses what it does.*)
LEMMA MapCovers ==
  ASSUME LockInv, DataInv, HandInv, CoverInv, MapStep \/ MapContinue
  PROVE  CoverInv'
<1> SUFFICES ASSUME guarded', rpc' \in Copied PROVE Covered'
  BY DEF CoverInv
<1>0. /\ rpc \in Copied /\ rpc # "idle" /\ guarded /\ rebuild_flag /\ UNCHANGED rebuild_flag
      /\ Rebuild_Ptr \in {"son", "root"} /\ Covered
  <2>1. UNCHANGED << rpc, rebuild_flag >> /\ guarded
    BY MapKeeps
  <2> QED
    BY <2>1 DEF Copied, LockInv, HandInv, DataInv, CoverInv
<1>1. UNCHANGED << Rebuild_Ptr, fresh >>
  BY <1>0, TreeAssumption
     DEF MapStep, MapContinue, DeletePointBox, AddPlain, AddDownsampled, BeginUpdate, CheckPush,
         LogPush, PushLocked, BoxSearch, Downsample, LockRoot, VisitRoot, VisitSon, LockSon,
         LogOperation, Balance, NextOperation, EndUpdate, rebuildVars
<1>2. Missed \in Seq(Ops) /\ Delete(SonPoints) \in Ops /\ Delete(SonPoints).pts = SonPoints
  BY MissedType, OperationTypes, TreeAssumption DEF Delete
<1>3. CASE \/ MapStep \/ CheckPush \/ Downsample \/ Balance \/ NextOperation \/ EndUpdate
           \/ VisitSon
  <2>1. mpc # "log" /\ mpc' # "log" /\ UNCHANGED << live, pending, Rebuild_Logger >>
    <3>1. CASE VisitSon
      <4>1. mpc = "son" /\ Rebuild_Ptr = "son"
        BY <1>0, <3>1, TreeAssumption DEF VisitSon
      <4> QED
        BY <3>1, <4>1 DEF VisitSon
    <3>2. CASE ~VisitSon
      BY <1>3, <3>2 DEF MapStep, DeletePointBox, AddPlain, AddDownsampled, BeginUpdate, CheckPush,
                Downsample, Balance, NextOperation, EndUpdate, treeVars, MayBegin, Begin
    <3> QED
      BY <3>1, <3>2
  <2>2. Missed' = Missed /\ Tree' = Tree
    BY <1>1, <2>1 DEF Missed, Tree, Contents
  <2> QED
    BY <1>0, <1>1, <2>1, <2>2, SameTree DEF Covered
<1>4. CASE LogPush
  <2>1. /\ mpc = "push" /\ mpc' # "log" /\ Log(Delete(SonPoints))
        /\ live' = live \ SonPoints
    BY <1>4 DEF LogPush, PushLocked
  <2>2. Rebuild_Ptr = "son"
    BY <1>0, <2>1, TreeAssumption DEF HandInv
  <2>3. Missed' = Append(Missed, Delete(SonPoints))
    BY <1>0, <2>1 DEF Missed, Log
  <2>4. Tree = live /\ Tree' = live' /\ Tree' = Run(Delete(SonPoints), Tree)
    BY <1>1, <2>1, <2>2 DEF Tree, Run, Delete
  <2> QED
    BY <1>0, <1>1, <1>2, <2>2, <2>3, <2>4, MissedOne
<1>9. CASE BoxSearch
  <2>1. /\ mpc # "log" /\ mpc' # "log" /\ UNCHANGED Rebuild_Logger
        /\ live' = Contents /\ pending' = FALSE /\ ~PushMustLock
    BY <1>9 DEF BoxSearch
  <2>2. Missed' = Missed
    BY <2>1 DEF Missed
  <2>3. Tree' = Tree
    BY <1>0, <1>1, <2>1 DEF PushMustLock, Tree, Contents
  <2> QED
    BY <1>0, <1>1, <2>1, <2>2, <2>3, SameTree
<1>5. CASE LockRoot
  <2> DEFINE op == Head(todo)
  <2>1. /\ mpc = "descend" /\ mpc' = "log" /\ whole /\ UNCHANGED << whole, todo, Rebuild_Logger >>
        /\ RunOnRoot(op)
    BY <1>5 DEF LockRoot
  <2>2. Rebuild_Ptr = "root" /\ op \in Ops
    BY <1>0, <2>1 DEF HandInv, DataInv
  <2>3. Missed' = Append(Missed, op)
    BY <1>0, <2>1 DEF Missed
  <2>4. Contents' = Run(op, Contents) /\ (pending' => live' \subseteq SonPoints)
    BY <1>0, <2>1, <2>2, RootRuns DEF Covered
  <2>5. Tree = Contents /\ Tree' = Contents'
    BY <1>1, <2>2 DEF Tree
  <2> HIDE DEF op
  <2> QED
    BY <1>0, <1>1, <1>2, <2>2, <2>3, <2>4, <2>5, MissedOne
<1>6. CASE VisitRoot
  <2>1. Rebuild_Ptr = "son" /\ mpc # "log" /\ mpc' # "log" /\ UNCHANGED Rebuild_Logger
    BY <1>0, <1>6 DEF VisitRoot
  <2>2. Tree = live /\ Tree' = live' /\ Region = SonPoints /\ Missed' = Missed
    BY <1>1, <2>1 DEF Tree, Region, Missed
  <2>3. \A p \in SonPoints : p \in live' <=> p \in live
    <3>1. \/ live' = live \/ live' = live \cap SonPoints
          \/ /\ ~pending
             /\ live' = (Contents \cap SonPoints) \cup (Run(Head(todo), Contents) \ SonPoints)
      BY <1>6, <2>1 DEF VisitRoot, PushMustLock, treeVars, DataInv
    <3> QED
      BY <3>1 DEF Contents
  <2> QED
    BY <1>0, <1>1, <2>1, <2>2, <2>3, SameTree
<1>7. CASE LockSon
  <2> DEFINE op == BelowSon(Head(todo))
  <2>1. /\ mpc = "lockSon" /\ mpc' = "log"
        /\ UNCHANGED << whole, todo, Rebuild_Logger >> /\ live' = Run(op, live)
    BY <1>7 DEF LockSon
  <2>2. Head(todo) \in Ops /\ ~whole /\ Rebuild_Ptr = "son"
    BY <1>0, <2>1, TreeAssumption DEF DataInv, HandInv
  <2>3. op \in Ops /\ op.pts \subseteq SonPoints
    BY <2>2, OperationTypes DEF Ops, BelowSon
  <2>4. Missed' = Append(Missed, op)
    BY <1>0, <2>1, <2>2 DEF Missed
  <2>5. Tree = live /\ Tree' = live'
    BY <1>1, <2>2 DEF Tree
  <2> HIDE DEF op
  <2> QED
    BY <1>0, <1>1, <1>2, <2>1, <2>2, <2>3, <2>4, <2>5, MissedOne
<1>8. CASE LogOperation
  <2> DEFINE op == IF whole THEN Head(todo) ELSE BelowSon(Head(todo))
  <2>1. mpc = "log" /\ UNCHANGED whole /\ Log(op)
    BY <1>8 DEF LogOperation
  <2>2. Missed = Append(Rebuild_Logger, op) /\ Rebuild_Logger' = Missed
    BY <1>0, <2>1 DEF Missed, Log
  <2>3. CASE whole /\ Len(todo) > 1
    <3>1. mpc' = "log" /\ todo' = Tail(todo) /\ RunOnRoot(Head(todo'))
      BY <1>8, <2>1, <2>3 DEF LogOperation
    <3>2. Head(todo') \in Ops /\ Rebuild_Ptr = "root"
      BY <1>0, <2>1, <2>3, <3>1, TreeAssumption DEF DataInv, HandInv
    <3>3. Missed' = Append(Missed, Head(todo'))
      BY <1>0, <2>1, <2>2, <2>3, <3>1 DEF Missed
    <3>4. Contents' = Run(Head(todo'), Contents) /\ (pending' => live' \subseteq SonPoints)
      BY <1>0, <3>1, <3>2, RootRuns DEF Covered
    <3>5. Tree = Contents /\ Tree' = Contents'
      BY <1>1, <3>2 DEF Tree
    <3> QED
      BY <1>0, <1>1, <1>2, <3>2, <3>3, <3>4, <3>5, MissedOne
  <2>4. CASE ~(whole /\ Len(todo) > 1)
    <3>1. mpc' # "log" /\ UNCHANGED << live, pending >>
      BY <1>8, <2>4 DEF LogOperation, treeVars
    <3>2. Missed' = Missed /\ Tree' = Tree
      BY <1>1, <2>2, <3>1 DEF Missed, Tree, Contents
    <3> QED
      BY <1>0, <1>1, <3>1, <3>2, SameTree DEF Covered
  <2> QED
    BY <2>3, <2>4
<1> QED
  BY <1>3, <1>4, <1>5, <1>6, <1>7, <1>8, <1>9 DEF MapContinue

(* The copy starts as the tree, and each replayed operation is missed no more.*)
LEMMA RebuildCovers ==
  ASSUME LockInv, DataInv, HandInv, CoverInv, RebuildStep
  PROVE  CoverInv'
<1> SUFFICES ASSUME guarded', rpc' \in Copied PROVE Covered'
  BY DEF CoverInv
<1>0. UNCHANGED << mpc, todo, whole >>
  BY DEF RebuildStep, RebuildBegin, LockSearch, Copy, UnlockCopy, BuildTree, Drain, Replay,
         Replace, ReplaceNull, UnlockReplace, ClearFlag, mainVars
<1>1. CASE Copy
  <2>1. rpc = "copy" /\ UNCHANGED << guarded, Rebuild_Ptr, Rebuild_Logger, rebuild_flag >>
    BY <1>1 DEF Copy, Goto, lockVars
  <2>2. Rebuild_Ptr \in {"son", "root"} /\ Rebuild_Logger = <<>> /\ mpc # "log"
    <3>1. Rebuild_Ptr # None /\ working_flag_mutex = "rebuild"
      BY <2>1 DEF LockInv, HandInv
    <3> QED
      BY <2>1, <3>1 DEF HandInv, DataInv
  <2>3. Missed' = <<>>
    BY <1>0, <2>1, <2>2 DEF Missed
  <2>4. \A p \in Region' : p \in Tree' <=> p \in fresh'
    <3>1. CASE Rebuild_Ptr = "root"
      <4>1. live' = fresh' /\ pending' = FALSE
        BY <1>1, <3>1 DEF Copy
      <4>2. Tree' = live'
        BY <2>1, <3>1, <4>1 DEF Tree, Contents
      <4> QED
        BY <4>1, <4>2
    <3>2. CASE Rebuild_Ptr = "son"
      <4>1. fresh' = live \cap SonPoints /\ live' = live
        BY <1>1, <3>2 DEF Copy, treeVars
      <4>2. Tree' = live' /\ Region' = SonPoints
        BY <2>1, <3>2 DEF Tree, Region
      <4> QED
        BY <4>1, <4>2
    <3> QED
      BY <2>2, <3>1, <3>2
  <2>5. \A p \in Region' : Agrees(p, Tree)'
    BY <2>3, <2>4 DEF Agrees
  <2>6. Rebuild_Ptr = "son" => fresh' \subseteq SonPoints
    BY <1>1 DEF Copy
  <2>7. Rebuild_Ptr = "root" => pending' = FALSE
    BY <1>1 DEF Copy
  <2> QED
    BY <2>1, <2>2, <2>3, <2>5, <2>6, <2>7 DEF Covered
<1>2. CASE UnlockCopy \/ BuildTree \/ Drain \/ LockSearch
  <2>1. rpc \in Copied /\ guarded
        /\ UNCHANGED << live, pending, fresh, Rebuild_Ptr, Rebuild_Logger, rebuild_flag >>
    BY <1>2 DEF UnlockCopy, BuildTree, Drain, LockSearch, Goto, Copied, treeVars
  <2>2. Missed' = Missed /\ Tree' = Tree
    BY <1>0, <2>1 DEF Missed, Tree, Contents
  <2> QED
    BY <2>1, <2>2, SameTree DEF Covered, CoverInv
<1>3. CASE Replay
  <2> DEFINE op == Head(Rebuild_Logger)
  <2>1. /\ rpc = "replay" /\ working_flag_mutex = None /\ guarded
        /\ UNCHANGED << live, pending, Rebuild_Ptr, rebuild_flag >>
        /\ fresh' = Run(op, fresh) /\ Rebuild_Logger' = Tail(Rebuild_Logger)
    BY <1>3 DEF Replay, Goto, treeVars
  <2>2. mpc # "log"
    BY <2>1, TreeAssumption DEF HandInv, LockInv
  <2>3. /\ Rebuild_Logger \in Seq(Ops) /\ Rebuild_Logger # <<>> /\ Missed = Rebuild_Logger
        /\ Missed' = Tail(Rebuild_Logger) /\ op \in Ops /\ Tree' = Tree /\ Region' = Region
    BY <1>0, <2>1, <2>2 DEF DataInv, Missed, Tree, Contents, Region
  <2>4. Covered
    BY <2>1 DEF CoverInv, Copied
  <2>5. ASSUME NEW p \in Region PROVE Says(p, Missed', Tree', fresh')
    <3>1. Says(p, Rebuild_Logger, Tree, fresh)
      BY <2>3, <2>4, AgreesSays DEF Covered
    <3>2. Says(p, Tail(Rebuild_Logger), Tree, Run(op, fresh))
      BY <2>3, <3>1, OneLess
    <3> QED
      BY <2>1, <2>3, <3>2
  <2>6. \A p \in Region' : Agrees(p, Tree)'
    BY <2>3, <2>5 DEF Says, Agrees
  <2>7. Rebuild_Ptr = "son" =>
          fresh' \subseteq SonPoints /\ \A i \in DOMAIN Missed' : Missed'[i].pts \subseteq SonPoints
    <3>1. /\ op = Rebuild_Logger[1] /\ 1 \in DOMAIN Rebuild_Logger
          /\ \A i \in DOMAIN Tail(Rebuild_Logger) :
               /\ i + 1 \in DOMAIN Rebuild_Logger
               /\ Tail(Rebuild_Logger)[i] = Rebuild_Logger[i + 1]
      BY <2>3
    <3>2. Rebuild_Ptr = "son" => fresh \subseteq SonPoints /\ op.pts \subseteq SonPoints
      BY <2>3, <2>4, <3>1 DEF Covered
    <3>3. Rebuild_Ptr = "son" => Run(op, fresh) \subseteq SonPoints
      BY <3>2 DEF Run
    <3> HIDE DEF op
    <3> QED
      BY <2>1, <2>3, <2>4, <3>1, <3>3 DEF Covered
  <2> HIDE DEF op
  <2> QED
    BY <2>1, <2>4, <2>6, <2>7 DEF Covered
<1>4. CASE RebuildBegin \/ Replace \/ ReplaceNull \/ UnlockReplace \/ ClearFlag
  BY <1>4 DEF RebuildBegin, Replace, ReplaceNull, UnlockReplace, ClearFlag, Goto, Copied
<1> QED
  BY <1>1, <1>2, <1>3, <1>4 DEF RebuildStep

(* The searching threads touch none of it.                                   *)
LEMMA SearchCovers ==
  ASSUME CoverInv, NEW s \in Searchers, SearchMeets(s) \/ SearchContinue(s)
  PROVE  CoverInv'
<1>1. /\ UNCHANGED << live, pending, Rebuild_Ptr, rebuild_flag, rpc, fresh, Rebuild_Logger >>
      /\ UNCHANGED << guarded, mpc, todo, whole >>
  BY DEF SearchMeets, SearchContinue, SearchEnter, SearchLeave, treeVars, rebuildVars, mainVars
<1> QED
  BY <1>1, SameTree DEF CoverInv, Covered, Missed, Tree, Contents

CopyInv == LockInv /\ DataInv /\ HandInv /\ CoverInv

LEMMA CopyInvariant == Spec => []CopyInv
<1>1. Init => CoverInv
  BY DEF Init, CoverInv, Copied
<1>2. LockInv /\ DataInv /\ HandInv /\ CoverInv /\ [Next]_vars => CoverInv'
  <2> SUFFICES ASSUME LockInv, DataInv, HandInv, CoverInv, [Next]_vars
               PROVE  CoverInv'
    OBVIOUS
  <2>1. CASE UNCHANGED vars
    BY <2>1, SameTree DEF vars, CoverInv, Covered, Missed, Tree, Contents
  <2> QED
    BY <2>1, MapCovers, SearchCovers, RebuildCovers DEF Next
<1> QED
  BY <1>1, <1>2, LocksInvariant, DataInvariant, HandInvariant, PTL DEF Spec, CopyInv

(* The copy and the operations it missed always give the tree in use, point  *)
(* by point, whatever points, boxes and voxels there are and however many    *)
(* operations are logged while the copy is built and replayed on.            *)
THEOREM CopyKeepsUp == Spec => []LogCovers
<1>1. CopyInv => LogCovers
  BY DEF CopyInv, CoverInv, Covered, Copied, Tree, LogCovers
<1> QED
  BY <1>1, CopyInvariant, PTL

(* So the map holds the same points before and after the copy takes the      *)
(* place of the subtree.                                                     *)
THEOREM ReplacesWithTheSame == Spec => ReplaceKeepsContents
<1>1. ASSUME CopyInv, [Next]_vars, rpc # "unlockReplace", rpc' = "unlockReplace", guarded
      PROVE  Contents' = Contents
  <2>1. Next
    BY <1>1 DEF vars
  <2>2. Replace \/ ReplaceNull
    <3>1. MapStep \/ MapContinue => UNCHANGED rpc
      BY MapKeeps
    <3>2. \A s \in Searchers : SearchMeets(s) \/ SearchContinue(s) => UNCHANGED rpc
      BY DEF SearchMeets, SearchContinue, SearchEnter, SearchLeave, rebuildVars
    <3>3. RebuildStep
      BY <1>1, <2>1, <3>1, <3>2 DEF Next
    <3> QED
      BY <1>1, <3>3 DEF RebuildStep, RebuildBegin, LockSearch, Copy, UnlockCopy, BuildTree, Drain,
                        Replay, UnlockReplace, ClearFlag, Goto
  <2>3. ~ReplaceNull
    BY <1>1 DEF ReplaceNull, CopyInv, HandInv
  <2>4. Replace /\ rpc = "replace" /\ rpc \in Copied
    BY <2>2, <2>3 DEF Replace, Goto, Copied
  <2>5. Missed = <<>> /\ Rebuild_Ptr \in {"son", "root"}
    <3>1. working_flag_mutex = "rebuild" /\ Rebuild_Logger = <<>> /\ Rebuild_Ptr # None
      BY <1>1, <2>4 DEF CopyInv, HandInv, LockInv
    <3>2. mpc # "log"
      BY <1>1, <3>1 DEF CopyInv, HandInv
    <3> QED
      BY <1>1, <3>1, <3>2 DEF Missed, CopyInv, DataInv
  <2>6. Covered /\ DataInv
    BY <1>1, <2>4 DEF CopyInv, CoverInv
  <2>7. \A p \in Region : p \in Tree <=> p \in fresh
    BY <2>5, <2>6 DEF Covered, Agrees
  <2>8. CASE Rebuild_Ptr = "root"
    <3>1. \A p \in Points : p \in Contents <=> p \in fresh
      BY <2>7, <2>8 DEF Region, Tree
    <3>2. Contents = fresh
      BY <2>6, <3>1, ContentsType DEF DataInv
    <3> QED
      BY <2>4, <2>8, <3>2 DEF Replace, Contents
  <2>9. CASE Rebuild_Ptr = "son"
    <3>1. live \cap SonPoints = fresh
      BY <2>6, <2>7, <2>9, TreeAssumption DEF Region, Tree, Covered
    <3>2. live' = live /\ UNCHANGED pending
      BY <2>4, <2>9, <3>1 DEF Replace
    <3> QED
      BY <3>2 DEF Contents
  <2> QED
    BY <2>5, <2>8, <2>9
<1>2. CopyInv /\ [Next]_vars => [rpc # "unlockReplace" /\ rpc' = "unlockReplace" /\ guarded
                                    => (Contents' = Contents)]_vars
  BY <1>1
<1> QED
  BY <1>2, CopyInvariant, PTL DEF Spec, ReplaceKeepsContents
=============================================================================
