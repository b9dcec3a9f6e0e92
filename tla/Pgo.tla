-------------------------------- MODULE Pgo ---------------------------------
(* The pose-graph node of pgo_gps_fusion: it turns the scans of FAST-LIO2    *)
(* into keyframes of a graph, closes loops, adds GPS positions once the      *)
(* frames of GPS and map are aligned, and publishes map->odom, the alignment *)
(* and whether the map is being corrected.  One thread runs every callback.  *)
(*                                                                           *)
(* Positions are coordinates on a line, times are stamps; keyframes are      *)
(* numbered from 1, in the code from 0.  The solver is external: with        *)
(* nothing but odometry it leaves the keyframes where they are, from the     *)
(* first loop or GPS factor on each update may move each of them.  The       *)
(* alignment is represented by the pairs it was computed from.  Clouds and noise models are left out, and    *)
(* with them whether ICP converges, which is any outcome.                    *)
EXTENDS Integers, Sequences, SequencesExt, FiniteSetsExt

CONSTANTS
  MaxTime, MaxKeys, MaxClouds, MaxSessions,         \* bounds
  Positions,                                        \* in odom
  EnuPositions,                                     \* of a GPS sample
  Corrections,                                      \* of the solver
  MaxGlobal,                                        \* bound on the corrections
  key_pose_delta_trans,
  min_loop_poses,                                   \* 10
  min_loop_detect_duration, loop_time_tresh, loop_search_radius,
  gps_buffer_size,                                  \* 50
  gps_factor_interval, gps_window,                  \* one second
  gps_alignment_min_points, gps_alignment_min_spread,
  correction_jump_thresh, correction_window

ASSUME PgoAssumption ==
  /\ Positions \cup EnuPositions \cup Corrections \subseteq Int /\ 0 \in Corrections
  /\ {MaxTime, MaxGlobal, key_pose_delta_trans, min_loop_detect_duration,
      loop_time_tresh, loop_search_radius, gps_window,
      gps_alignment_min_spread, correction_jump_thresh} \subseteq Nat
  /\ {MaxKeys, MaxClouds, MaxSessions, min_loop_poses, gps_buffer_size,
      gps_factor_interval, gps_alignment_min_points, correction_window}
       \subseteq Nat \ {0}

VARIABLES
  cloud_buffer, last_message_time, gps_buffer,
  m_key_poses,             \* [local, global, time]
  m_history_pairs,         \* <<target, source>> of every loop
  m_graph, m_isam2,        \* factors not yet, and factors already, in the solver
  m_t_offset,
  alignment_pairs,         \* [key, enu, map]
  alignment,               \* [valid, from |-> the pairs it was solved from]
  last_tf,                 \* the map->odom last published, <<>> before
  last_offset,             \* <<>> before the first keyframe
  correction_for,          \* how much is left of the correction window
  patches, poses_txt,      \* of the saved map: <<keyframe, session>>
  session                  \* history: how often the node was started

inputs == << cloud_buffer, last_message_time, gps_buffer >>
graph == << m_key_poses, m_history_pairs, m_graph, m_isam2, m_t_offset >>
aligned == << alignment_pairs, alignment >>
published == << last_tf, last_offset, correction_for >>
saved == << patches, poses_txt >>
vars == << inputs, graph, aligned, published, saved, session >>

Init ==
  /\ cloud_buffer = <<>> /\ last_message_time = 0 /\ gps_buffer = <<>>
  /\ m_key_poses = <<>> /\ m_history_pairs = <<>>
  /\ m_graph = <<>> /\ m_isam2 = <<>> /\ m_t_offset = 0
  /\ alignment_pairs = <<>> /\ alignment = [valid |-> FALSE, from |-> <<>>]
  /\ last_tf = <<>> /\ last_offset = <<>> /\ correction_for = 0
  /\ patches = {} /\ poses_txt = {} /\ session = 1

Dist(a, b) == IF a < b THEN b - a ELSE a - b

-----------------------------------------------------------------------------
(* A sample that passes the checks on status and covariance.                 *)
gpsCB(time, enu) ==
  /\ UNCHANGED << cloud_buffer, last_message_time, graph, aligned, published,
                  saved, session >>
  /\ LET kept == Append(gps_buffer, [time |-> time, enu |-> enu])
     IN  gps_buffer' = IF Len(kept) > gps_buffer_size THEN Tail(kept) ELSE kept

syncCB(time, pos) ==
  /\ UNCHANGED << gps_buffer, graph, aligned, published, saved, session >>
  /\ Len(cloud_buffer) < MaxClouds
  /\ time >= last_message_time
  /\ last_message_time' = time
  /\ cloud_buffer' = Append(cloud_buffer, [time |-> time, pos |-> pos])

-----------------------------------------------------------------------------
(* SimplePGO.                                                                *)

isKeyPose(cp) ==
  m_key_poses # <<>> => Dist(cp.pos, Last(m_key_poses).local) > key_pose_delta_trans

WithKeyPose(cp) ==
  Append(m_key_poses,
         [local |-> cp.pos, global |-> cp.pos + m_t_offset, time |-> cp.time])

KeyPoseFactor(n) == IF n = 1 THEN << "prior", 1 >> ELSE << "between", n - 1, n >>

(* The keyframes a loop may be closed with: near, and long ago.              *)
LoopTargets(keys) ==
  LET n == Len(keys)
      resting ==
        /\ min_loop_detect_duration > 0 /\ m_history_pairs # <<>>
        /\ keys[n].time - keys[Last(m_history_pairs)[2]].time
             < min_loop_detect_duration
  IN  IF n < min_loop_poses \/ resting THEN {}
      ELSE { i \in 1..(n - 1) :
               /\ Dist(keys[i].global, keys[n].global) <= loop_search_radius
               /\ keys[n].time - keys[i].time > loop_time_tresh }

(* External: what the solver makes of the keyframes.  The prior and odometry *)
(* agree with the first values of the keyframes.                             *)
Estimates(keys, factors) ==
  IF \A i \in DOMAIN factors : factors[i][1] \in {"prior", "between"} THEN {keys}
  ELSE { [i \in DOMAIN keys |->
            [keys[i] EXCEPT !.global = keys[i].global + move[i]]] :
           move \in [DOMAIN keys -> Corrections] }

(* The mutant keeps the factors it has handed over.                          *)
MutantRemaining(factors) == factors

Remaining(factors) == <<>>

-----------------------------------------------------------------------------
(* Alignment of the GPS frame with the map.                                  *)

(* The sample nearest in time, the older of two equally near.                *)
ClosestGps(time) ==
  LET diff(i) == Dist(gps_buffer[i].time, time)
      near == { i \in DOMAIN gps_buffer : diff(i) < gps_window }
      best == { i \in near : \A j \in near : diff(i) <= diff(j) }
  IN  IF near = {} THEN <<>> ELSE << gps_buffer[Min(best)] >>

PairsFromGraph(pairs, keys) ==
  [i \in DOMAIN pairs |-> [pairs[i] EXCEPT !.map = keys[pairs[i].key].global]]

Spread(pairs) ==
  LET enus == { pairs[i].enu : i \in DOMAIN pairs }
  IN  IF enus = {} THEN 0 ELSE Max(enus) - Min(enus)

(* sum_dot, times the number of pairs; sum_cross is 0 on a line.             *)
Covariance(pairs) ==
  LET Sum(of(_)) == SumFunction([i \in DOMAIN pairs |-> of(pairs[i])])
  IN  Len(pairs) * Sum(LAMBDA p : p.enu * p.map)
        - Sum(LAMBDA p : p.enu) * Sum(LAMBDA p : p.map)

Solvable(pairs) ==
  /\ Len(pairs) >= gps_alignment_min_points
  /\ Spread(pairs) >= gps_alignment_min_spread
  /\ Covariance(pairs) # 0

Solved(before, pairs) ==
  [valid |-> Solvable(pairs),
   from |-> IF Solvable(pairs) THEN pairs ELSE before.from]

(* tryAddGPSFactor for the newest of the keyframes, if it is the turn of one.*)
WithGps(keys) ==
  LET n == Len(keys)
      gps == ClosestGps(keys[n].time)
  IN  IF (n - 1) % gps_factor_interval # 0 \/ gps = <<>> THEN alignment_pairs
      ELSE PairsFromGraph(Append(alignment_pairs,
             [key |-> n, enu |-> gps[1].enu, map |-> keys[n].global]), keys)

(* The mutant leaves the alignment as it was before the solver moved the     *)
(* keyframes.                                                                *)
MutantPairsAfter(pairs, keys) == pairs

PairsAfter(pairs, keys) == PairsFromGraph(pairs, keys)

-----------------------------------------------------------------------------
(* The mutant compares with the offset from before the solver ran.           *)
MutantJump(offset) == IF last_offset = <<>> THEN 0 ELSE Dist(m_t_offset, last_offset[1])

Jump(offset) == IF last_offset = <<>> THEN 0 ELSE Dist(offset, last_offset[1])

(* The new keyframe, its GPS factor and its loops go to the solver, and what *)
(* the solver makes of all keyframes is the pose, the offset and the         *)
(* alignment that are published.                                             *)
AddKeyPose(keys, pairs, loops) ==
  LET n == Len(keys)
      first == Solved(alignment, pairs)
      with_gps == Len(pairs) > Len(alignment_pairs) /\ first.valid
      factors == m_graph \o << KeyPoseFactor(n) >>
                 \o (IF with_gps THEN << << "gps", n >> >> ELSE <<>>)
                 \o [i \in DOMAIN loops |-> << "loop" >> \o loops[i]]
  IN  /\ m_history_pairs' = m_history_pairs \o loops
      /\ m_isam2' = m_isam2 \o factors
      /\ m_graph' = Remaining(factors)
      /\ m_key_poses' \in Estimates(keys, m_isam2')
      /\ \A i \in 1..n : Dist(m_key_poses'[i].global, 0) <= MaxGlobal
      /\ m_t_offset' = m_key_poses'[n].global - m_key_poses'[n].local
      /\ correction_for' = IF Jump(m_t_offset') > correction_jump_thresh
                           THEN correction_window ELSE correction_for
      /\ last_offset' = << m_t_offset' >>
      /\ alignment_pairs' = PairsAfter(pairs, m_key_poses')
      /\ alignment' = Solved(first, alignment_pairs')
      /\ last_tf' = << m_t_offset' >>

(* The timer with a scan that becomes a keyframe.                            *)
KeyPose ==
  /\ UNCHANGED << last_message_time, gps_buffer, saved, session >>
  /\ cloud_buffer # <<>> /\ Len(m_key_poses) < MaxKeys
  /\ isKeyPose(Head(cloud_buffer))
  /\ cloud_buffer' = Tail(cloud_buffer)
  /\ \E keys \in {WithKeyPose(Head(cloud_buffer))} :
     \E pairs \in {WithGps(keys)}, targets \in {LoopTargets(keys)} :
     \E loops \in {<<>>} \cup { << << t, Len(keys) >> >> : t \in targets } :
       AddKeyPose(keys, pairs, loops)

(* The timer with any other scan.  With none it repeats the last transform.  *)
OtherPose ==
  /\ UNCHANGED << last_message_time, gps_buffer, graph, aligned, last_offset,
                  correction_for, saved, session >>
  /\ cloud_buffer # <<>> /\ ~isKeyPose(Head(cloud_buffer))
  /\ cloud_buffer' = Tail(cloud_buffer)
  /\ last_tf' = << m_t_offset >>

Time ==
  /\ UNCHANGED << inputs, graph, aligned, last_tf, last_offset, saved, session >>
  /\ correction_for > 0
  /\ correction_for' = correction_for - 1

-----------------------------------------------------------------------------
(* The mutant writes over the patches of the last map.                       *)
MutantOldPatches(new) == { p \in patches : \A q \in new : q[1] # p[1] }

OldPatches(new) == {}

(* Without save_patches the service empties poses.txt and leaves the patches *)
(* that are there.                                                           *)
saveMapsCB ==
  /\ UNCHANGED << inputs, graph, aligned, published, session >>
  /\ m_key_poses # <<>>
  /\ LET new == { << i, session >> : i \in DOMAIN m_key_poses }
     IN  \/ /\ patches' = OldPatches(new) \cup new
            /\ poses_txt' = new
         \/ /\ poses_txt' = {}
            /\ UNCHANGED patches

(* The session ends and the next one is recorded into the same directory.    *)
Restart ==
  /\ UNCHANGED saved
  /\ session < MaxSessions /\ m_key_poses # <<>>
  /\ session' = session + 1
  /\ cloud_buffer' = <<>> /\ last_message_time' = 0 /\ gps_buffer' = <<>>
  /\ m_key_poses' = <<>> /\ m_history_pairs' = <<>>
  /\ m_graph' = <<>> /\ m_isam2' = <<>> /\ m_t_offset' = 0
  /\ alignment_pairs' = <<>> /\ alignment' = [valid |-> FALSE, from |-> <<>>]
  /\ last_tf' = <<>> /\ last_offset' = <<>> /\ correction_for' = 0

Next ==
  \/ \E time \in 0..MaxTime, enu \in EnuPositions : gpsCB(time, enu)
  \/ \E time \in 0..MaxTime, pos \in Positions : syncCB(time, pos)
  \/ KeyPose \/ OtherPose \/ Time
  \/ saveMapsCB \/ Restart

Spec == Init /\ [][Next]_vars

-----------------------------------------------------------------------------
(* The solver has the prior, one odometry factor from each keyframe to the   *)
(* next, at most one GPS factor per keyframe and every loop found, each      *)
(* exactly once: handing one over twice would halve its noise                *)
(* (simple_pgo.cpp:189 and 198).                                             *)
SolverHasEachFactorOnce ==
  /\ m_graph = <<>>
  /\ IsInjective(m_isam2)
  /\ ToSet(m_isam2) = { KeyPoseFactor(i) : i \in DOMAIN m_key_poses }
       \cup { << "loop" >> \o p : p \in ToSet(m_history_pairs) }
       \cup { f \in ToSet(m_isam2) : f[1] = "gps" /\ f[2] \in DOMAIN m_key_poses }

(* The alignment on /gps_corridor/enu_to_map was computed from where the     *)
(* keyframes are now, not from where they were before a loop was closed, and *)
(* from all of the pairs.                                                    *)
AlignmentFollowsGraph ==
  /\ alignment.valid <=> Solvable(alignment_pairs)
  /\ alignment.valid =>
       /\ Len(alignment.from) = Len(alignment_pairs)
       /\ \A i \in DOMAIN alignment.from :
            alignment.from[i].map = m_key_poses[alignment.from[i].key].global

(* Whenever map->odom jumps by more than the threshold, the correction       *)
(* status says so from the same tick on: its consumers discard what they     *)
(* measure meanwhile.                                                        *)
JumpIsAnnounced ==
  [][ last_tf # <<>> /\ last_tf' # <<>>
      /\ Dist(last_tf'[1], last_tf[1]) > correction_jump_thresh
      => correction_for' > 0 ]_vars

(* docs-EN/commands.md:433: the patches of a saved map and its poses.txt are *)
(* one-to-one, and of one session, also in a directory that held the map of  *)
(* a longer session.  This is so for every map that has poses: a save        *)
(* without patches leaves an empty poses.txt beside the patches of the last  *)
(* one with them, which are one-to-one with nothing.                         *)
SavedMapIsWhole == poses_txt # {} => patches = poses_txt
=============================================================================
