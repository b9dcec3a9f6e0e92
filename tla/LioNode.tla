------------------------------ MODULE LioNode -------------------------------
(* The FAST-LIO2 node of fastlio2: two subscriptions fill buffers, a timer   *)
(* pairs the oldest scan with the IMU samples up to its end and hands both   *)
(* to MapBuilder, which predicts the filter state over the samples, corrects *)
(* it with the scan and grows the local map.  One thread runs every callback.*)
(*                                                                           *)
(* A sample is its stamp.  A scan is its stamps <<start, end>>; one whose    *)
(* points were all filtered out is <<start, start - 1>>.  The pose is its    *)
(* coordinate along one axis, in steps; the loops of trimCloudMap treat the  *)
(* three axes alike.  Whether enough points match the map is any outcome.    *)
(* Point clouds, covariances and the published topics are left out.          *)
EXTENDS Integers, Sequences, SequencesExt

CONSTANTS
  MaxStamp,                  \* bound on the stamps
  MaxImus, MaxScans,         \* bounds on the buffers
  MaxReorders,               \* bound on the messages that arrive out of order
  Span,                      \* duration of a full scan
  Durations,                 \* of the points left by the range filter, -1 for
                             \* none
  min_imu_samples_per_lidar, imu_init_num,
  Moves,                     \* what a prediction may add to the pose
  Corrections,               \* what an update may add to it after that
  MaxPose,                   \* bound on the pose
  half_cube_len,             \* cube_len / 2.0
  det_range,
  det_thresh,                \* move_thresh * det_range
  mov_dist                   \* how far the local map moves

ASSUME LioAssumption ==
  /\ {MaxStamp, MaxImus, MaxScans, MaxReorders, MaxPose, half_cube_len,
      det_range, det_thresh} \subseteq Nat
  /\ {Span, min_imu_samples_per_lidar, imu_init_num, mov_dist} \subseteq Nat \ {0}
  /\ Moves \cup Corrections \subseteq Int /\ Durations \subseteq -1..Span

(* The map reaches beyond what one move deletes, the margin that makes it    *)
(* move, the range of the lidar and the way from the prediction that the map *)
(* is moved for to where the scan leaves the pose: what the update corrects, *)
(* or the whole prediction when it is taken back.  With a cube of 300 m and  *)
(* a move_thresh of 1.5 this way may be 96 m for the default det_range of    *)
(* 60 m, and more for the configured one of 30 m.                            *)
ASSUME MapAssumption ==
  \A way \in Moves \cup Corrections : \A back \in {way, -way} :
    mov_dist + det_thresh + det_range + back <= 2 * half_cube_len

VARIABLES
  imu_buffer, lidar_buffer, last_imu_time, last_lidar_time,
  lidar_pushed,
  cloud,                     \* m_package.cloud
  status,                    \* MapBuilder::m_status
  imu_cache,                 \* samples collected for the initialization
  m_last_imu, m_last_propagate_end_time,
  predictions,               \* history: the intervals the last undistort
                             \* predicted the state over
  state,                     \* the filter: [time |-> history: up to when its
                             \* pose has been predicted, pos |-> the pose]
  local_map,                 \* the corners of m_local_map, <<>> before the first
  removed,                   \* history: what the last trim took from the map
  reorders                   \* history: messages out of order

buffers == << imu_buffer, lidar_buffer, last_imu_time, last_lidar_time, reorders >>
estimate == << status, imu_cache, m_last_imu, m_last_propagate_end_time,
               predictions, state, local_map, removed >>
vars == << buffers, lidar_pushed, cloud, estimate >>

Stamps == 0..MaxStamp
Scans == {scan \in Stamps \X (-1..MaxStamp) : scan[2] - scan[1] \in Durations}
IsEmpty(scan) == scan[2] < scan[1]

Init ==
  /\ imu_buffer = <<>> /\ last_imu_time = -1
  /\ lidar_buffer = <<>> /\ last_lidar_time = -1
  /\ lidar_pushed = FALSE /\ cloud = << 0, -1 >>
  /\ status = "IMU_INIT" /\ imu_cache = 0
  /\ m_last_imu = 0 /\ m_last_propagate_end_time = 0 /\ predictions = <<>>
  /\ state = [time |-> 0, pos |-> 0]
  /\ local_map = <<>> /\ removed = <<>>
  /\ reorders = 0

(* The mutant keeps the samples from before the time went back.              *)
MutantImuBuffer(late) == imu_buffer

ImuBuffer(late) == IF late THEN <<>> ELSE imu_buffer

(* Two samples never have the same stamp.                                    *)
ImuCB(stamp) ==
  /\ UNCHANGED << lidar_buffer, last_lidar_time, lidar_pushed, cloud, estimate >>
  /\ stamp # last_imu_time
  /\ LET late == stamp < last_imu_time
     IN  /\ late => reorders < MaxReorders
         /\ late \/ Len(imu_buffer) < MaxImus
         /\ reorders' = IF late THEN reorders + 1 ELSE reorders
         /\ imu_buffer' = Append(ImuBuffer(late), stamp)
  /\ last_imu_time' = stamp

(* A scan starts when the one before it ends, or later when one is lost.     *)
LidarCB(scan) ==
  /\ UNCHANGED << imu_buffer, last_imu_time, lidar_pushed, cloud, estimate >>
  /\ LET late == scan[1] < last_lidar_time
     IN  /\ ~late => /\ last_lidar_time # -1 => scan[1] >= last_lidar_time + Span
                     /\ Len(lidar_buffer) < MaxScans
         /\ late => reorders < MaxReorders
         /\ reorders' = IF late THEN reorders + 1 ELSE reorders
         /\ lidar_buffer' = Append(IF late THEN <<>> ELSE lidar_buffer, scan)
  /\ last_lidar_time' = scan[1]

-----------------------------------------------------------------------------
(* The first interval starts where the last prediction ended; the mutant     *)
(* starts it at the sample.                                                  *)
MutantFrom(head) == head

From(head) ==
  IF head < m_last_propagate_end_time THEN m_last_propagate_end_time ELSE head

(* IMUProcessor::undistort: the intervals passed to predict, by the pair of  *)
(* samples that the loop is at; the last one goes on to the end of the scan. *)
Undistort(imus, cloud_end_time) ==
  LET n == Len(imus)
      cache == << m_last_imu >> \o imus
      kept == {k \in 1..n : cache[k + 1] >= m_last_propagate_end_time}
  IN  [k \in kept \cup {n + 1} |->
         IF k \in kept THEN << From(cache[k]), cache[k + 1] >>
                       ELSE << cache[n + 1], cloud_end_time >>]

(* The mutant deletes the side that the vehicle is on.                       *)
MutantSlabs(low, high) ==
  << << low, low + mov_dist >>, << high - mov_dist, high >> >>

(* temp_corner when the map moves down, and when it moves up.                *)
Slabs(low, high) ==
  << << high - mov_dist, high >>, << low, low + mov_dist >> >>

(* LidarProcessor::trimCloudMap at the predicted pose: the map it leaves and *)
(* the slab it deletes.                                                      *)
Trim(pos) ==
  LET low == local_map[1]  high == local_map[2]
      Distance(corner) == IF pos < corner THEN corner - pos ELSE pos - corner
  IN  IF local_map = <<>>
        THEN << << pos - half_cube_len, pos + half_cube_len >>, <<>> >>
      ELSE IF Distance(low) <= det_thresh
        THEN << << low - mov_dist, high - mov_dist >>, Slabs(low, high)[1] >>
      ELSE IF Distance(high) <= det_thresh
        THEN << << low + mov_dist, high + mov_dist >>, Slabs(low, high)[2] >>
      ELSE << local_map, <<>> >>

(* IMUProcessor::initialize.                                                 *)
Initialize(imus, cloud_end_time) ==
  /\ UNCHANGED << predictions, local_map, removed >>
  /\ imu_cache' = imu_cache + Len(imus)
  /\ IF imu_cache' >= imu_init_num
       THEN /\ status' = "MAP_INIT"
            /\ m_last_imu' = Last(imus)
            /\ m_last_propagate_end_time' = cloud_end_time
            /\ state' = [state EXCEPT !.time = cloud_end_time]
       ELSE UNCHANGED << status, m_last_imu, m_last_propagate_end_time, state >>

Predict(imus, cloud_end_time) ==
  /\ UNCHANGED imu_cache
  /\ predictions' = Undistort(imus, cloud_end_time)
  /\ m_last_imu' = Last(imus)
  /\ m_last_propagate_end_time' = cloud_end_time

Predicted(move, cloud_end_time) ==
  [time |-> cloud_end_time, pos |-> state.pos + move]

(* The first scan after the initialization becomes the map.                  *)
InitMap(imus, cloud_end_time) ==
  /\ Predict(imus, cloud_end_time)
  /\ UNCHANGED << local_map, removed >>
  /\ state' = Predicted(0, cloud_end_time)
  /\ status' = "MAPPING"

(* updateLossFunc counts the points that match a plane of the map; the first *)
(* iteration of IESKF::update without 50 of them ends the update, which is   *)
(* not valid when no iteration had them.                                     *)
EffectivePoints == {"enough", "few"}
UpdateValid(points) == points = "enough"

(* IESKF::update adds its deltas to the predicted state, and MapBuilder      *)
(* restores the state when none of its iterations had enough points.         *)
Updated(update_valid, predicted, correction) ==
  IF update_valid THEN [predicted EXCEPT !.pos = @ + correction] ELSE state

(* The map is moved at the predicted pose, before the update.                *)
Correct(imus, cloud_end_time) ==
  /\ Predict(imus, cloud_end_time)
  /\ UNCHANGED status
  /\ \E move \in Moves, correction \in Corrections, points \in EffectivePoints :
       LET predicted == Predicted(move, cloud_end_time)
           trimmed == Trim(predicted.pos)
       IN  /\ local_map' = trimmed[1] /\ removed' = trimmed[2]
           /\ state' = Updated(UpdateValid(points), predicted, correction)
           /\ state'.pos \in -MaxPose..MaxPose

(* MapBuilder::process.                                                      *)
Process(imus, cloud_end_time) ==
  \/ status = "IMU_INIT" /\ Initialize(imus, cloud_end_time)
  \/ status = "MAP_INIT" /\ InitMap(imus, cloud_end_time)
  \/ status = "MAPPING" /\ Correct(imus, cloud_end_time)

-----------------------------------------------------------------------------
(* timerCB.  syncPackage remembers in lidar_pushed that the oldest scan is   *)
(* in the package already, and takes the scan and its samples once a sample  *)
(* from after its end has come.                                              *)
DropEmptyScan ==
  /\ imu_buffer # <<>> /\ lidar_buffer # <<>> /\ ~lidar_pushed
  /\ IsEmpty(Head(lidar_buffer))
  /\ cloud' = Head(lidar_buffer)
  /\ lidar_buffer' = Tail(lidar_buffer)
  /\ UNCHANGED << imu_buffer, last_imu_time, last_lidar_time, reorders,
                  lidar_pushed, estimate >>

PushScan ==
  /\ imu_buffer # <<>> /\ lidar_buffer # <<>> /\ ~lidar_pushed
  /\ ~IsEmpty(Head(lidar_buffer))
  /\ last_imu_time < Head(lidar_buffer)[2]
  /\ cloud' = Head(lidar_buffer)
  /\ lidar_pushed' = TRUE
  /\ UNCHANGED << buffers, estimate >>

Pushed == IF lidar_pushed THEN cloud ELSE Head(lidar_buffer)

(* The samples before the first one at or after the end of the scan.         *)
ImusUntil(cloud_end_time) ==
  LET later == { k \in 1..Len(imu_buffer) : imu_buffer[k] >= cloud_end_time }
      first == IF later = {} THEN Len(imu_buffer) + 1
               ELSE CHOOSE k \in later : \A l \in later : k <= l
  IN  SubSeq(imu_buffer, 1, first - 1)

(* The mutant forgets that the package is used.                              *)
MutantPopScan ==
  /\ cloud' = Pushed
  /\ lidar_buffer' = Tail(lidar_buffer)
  /\ UNCHANGED lidar_pushed

PopScan ==
  /\ cloud' = Pushed
  /\ lidar_buffer' = Tail(lidar_buffer)
  /\ lidar_pushed' = FALSE

TakePackage ==
  /\ imu_buffer # <<>> /\ lidar_buffer # <<>>
  /\ lidar_pushed \/ ~IsEmpty(Head(lidar_buffer))
  /\ last_imu_time >= Pushed[2]
  /\ UNCHANGED << last_imu_time, last_lidar_time, reorders >>
  /\ PopScan
  /\ LET imus == ImusUntil(Pushed[2])
     IN  /\ imu_buffer' = SubSeq(imu_buffer, Len(imus) + 1, Len(imu_buffer))
         /\ \/ /\ Len(imus) < min_imu_samples_per_lidar
               /\ UNCHANGED estimate
            \/ /\ Len(imus) >= min_imu_samples_per_lidar
               /\ Process(imus, Pushed[2])

Next ==
  \/ \E stamp \in Stamps : ImuCB(stamp)
  \/ \E scan \in Scans : LidarCB(scan)
  \/ DropEmptyScan
  \/ PushScan
  \/ TakePackage

Spec == Init /\ [][Next]_vars

-----------------------------------------------------------------------------
(* The filter never predicts backwards, whatever the order of the messages:  *)
(* dt is negative nowhere in IMUProcessor::undistort.  It rests on imuCB     *)
(* throwing the buffer away when time goes back.                             *)
PredictsForward ==
  \A k \in DOMAIN predictions : predictions[k][1] <= predictions[k][2]

(* While messages come in order, the predictions of a package start where    *)
(* those of the package before ended and leave no gap and no overlap, also   *)
(* across the packages that timerCB drops.                                   *)
Tiles(intervals, from, to) ==
  \A k \in DOMAIN intervals :
    /\ (\A j \in DOMAIN intervals : k <= j) => intervals[k][1] = from
    /\ (\A j \in DOMAIN intervals : j <= k) => intervals[k][2] = to
    /\ \A j \in DOMAIN intervals :
         j < k /\ (\A l \in DOMAIN intervals : l <= j \/ l >= k)
           => intervals[j][2] = intervals[k][1]

TilesTime ==
  [][ reorders = 0 /\ predictions' # predictions
      => Tiles(predictions', m_last_propagate_end_time, m_last_propagate_end_time') ]_vars

(* While scans come in order, the scan that leaves lidar_buffer is the one   *)
(* in the package: lidar_pushed says so across the ticks of the timer that   *)
(* wait for samples.                                                         *)
TakesEachScanOnce ==
  [][ reorders' = 0 /\ Len(lidar_buffer') < Len(lidar_buffer)
      => cloud' = Head(lidar_buffer) ]_vars

(* trimCloudMap runs on the prediction.  The update then moves the pose, or, *)
(* without enough points, restores it and not the map: what was deleted is   *)
(* nonetheless not within the range of the lidar where the pose ends up.     *)
NothingNearIsForgotten ==
  removed # <<>> => \/ removed[2] + det_range <= state.pos
                    \/ state.pos + det_range <= removed[1]

=============================================================================
