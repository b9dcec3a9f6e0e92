--------------------------- MODULE LioNode_proofs ---------------------------
(* Theorems about LioNode, for any stamps, buffers, durations of scans,      *)
(* numbers of samples and messages out of order, and any moves of the        *)
(* vehicle that the size of the local map allows for.                        *)
EXTENDS LioNode, SequenceTheorems, WellFoundedInduction, TLAPS

(* A set of natural numbers has a least element.                             *)
LEMMA LeastElement ==
  ASSUME NEW S \in SUBSET Nat, S # {}
  PROVE  \E n \in S : \A m \in S : n <= m
<1>1. PICK n \in S : \A m \in S : ~(<< m, n >> \in OpToRel(<, Nat))
  BY NatLessThanWellFounded, WFMin, Zenon
<1>2. \A m \in S : ~(m < n)
  BY <1>1 DEF OpToRel
<1> QED
  BY <1>2

-----------------------------------------------------------------------------
(* The samples.  Those in the buffer are in order, also after the time went  *)
(* back and the buffer was thrown away; the one that the last package ended  *)
(* with is from before the end of its scan, up to which the state is         *)
(* predicted.  In order, no sample that is still to be taken is from before. *)
Ascending(buffer) ==
  \A i, j \in 1..Len(buffer) : i < j => buffer[i] < buffer[j]

SampleInv ==
  /\ imu_buffer \in Seq(Nat) /\ Ascending(imu_buffer)
  /\ last_imu_time \in -1..MaxStamp /\ reorders \in Nat
  /\ \A i \in 1..Len(imu_buffer) : imu_buffer[i] <= last_imu_time
  /\ m_last_imu \in Nat /\ m_last_propagate_end_time \in Nat
  /\ m_last_imu <= m_last_propagate_end_time
  /\ PredictsForward
  /\ reorders = 0 =>
       /\ \A i \in 1..Len(imu_buffer) : imu_buffer[i] >= m_last_propagate_end_time
       /\ m_last_propagate_end_time = 0 \/ last_imu_time >= m_last_propagate_end_time

(* The scans.  The package holds a scan with points while lidar_pushed says  *)
(* so, and in order it is the oldest one of the buffer.                      *)
ScanInv ==
  /\ lidar_buffer \in Seq(Scans) /\ reorders \in Nat /\ lidar_pushed \in BOOLEAN
  /\ lidar_pushed => cloud \in Scans /\ ~IsEmpty(cloud)
  /\ lidar_pushed /\ reorders = 0 => lidar_buffer # << >> /\ cloud = Head(lidar_buffer)

(* The local map, which keeps its size.                                      *)
Cubes == {<< middle - half_cube_len, middle + half_cube_len >> : middle \in Int}

MapInv ==
  /\ state \in [time : Int, pos : Int]
  /\ local_map \in {<< >>} \cup Cubes
  /\ status # "MAPPING" => removed = << >>
  /\ NothingNearIsForgotten

-----------------------------------------------------------------------------
(* syncPackage takes the samples from before the end of the scan, and those  *)
(* only.                                                                     *)
LEMMA TakenSamples ==
  ASSUME SampleInv, NEW t \in Nat
  PROVE  LET imus == ImusUntil(t)
             n == Len(imus)
             rest == SubSeq(imu_buffer, n + 1, Len(imu_buffer))
         IN  /\ imus \in Seq(Nat) /\ n \in 0..Len(imu_buffer)
             /\ \A k \in 1..n : imus[k] = imu_buffer[k] /\ imus[k] < t
             /\ rest \in Seq(Nat) /\ Len(rest) = Len(imu_buffer) - n
             /\ \A k \in 1..Len(rest) : rest[k] = imu_buffer[n + k] /\ rest[k] >= t
<1> DEFINE m == Len(imu_buffer)
           later == {k \in 1..m : imu_buffer[k] >= t}
           first == IF later = {} THEN m + 1
                    ELSE CHOOSE k \in later : \A l \in later : k <= l
           imus == ImusUntil(t)
           rest == SubSeq(imu_buffer, first, m)
<1>1. imu_buffer \in Seq(Nat) /\ m \in Nat /\ \A k \in 1..m : imu_buffer[k] \in Nat
  BY DEF SampleInv
<1>2. /\ first \in 1..(m + 1)
      /\ \A k \in 1..(first - 1) : imu_buffer[k] < t
      /\ \A k \in first..m : imu_buffer[k] >= t
  <2>1. CASE later = {}
    BY <1>1, <2>1
  <2>2. CASE later # {}
    <3>1. \E k \in later : \A l \in later : k <= l
      <4>1. later \in SUBSET Nat
        BY <1>1
      <4> QED
        BY <2>2, <4>1, LeastElement
    <3>2. first \in later /\ \A l \in later : first <= l
      BY <2>2, <3>1
    <3> HIDE DEF first
    <3>3. \A k \in 1..(first - 1) : k \in 1..m /\ k \notin later
      BY <1>1, <3>2
    <3>4. \A k \in 1..(first - 1) : imu_buffer[k] < t
      BY <1>1, <3>3
    <3>5. \A k \in first..m : imu_buffer[first] <= imu_buffer[k]
      BY <1>1, <3>2 DEF SampleInv, Ascending
    <3>6. \A k \in first..m : imu_buffer[k] >= t
      BY <1>1, <3>2, <3>5
    <3> QED
      BY <1>1, <3>2, <3>4, <3>6
  <2> QED
    BY <2>1, <2>2
<1>3. imus = SubSeq(imu_buffer, 1, first - 1)
  BY DEF ImusUntil
<1> HIDE DEF later, first, imus
<1>4. /\ imus \in Seq(Nat) /\ Len(imus) = first - 1
      /\ \A k \in 1..(first - 1) : imus[k] = imu_buffer[k]
  BY <1>1, <1>2, <1>3
<1>5. /\ rest \in Seq(Nat) /\ Len(rest) = m - (first - 1)
      /\ \A k \in 1..Len(rest) : rest[k] = imu_buffer[(first - 1) + k]
  BY <1>1, <1>2
<1>6. \A k \in 1..Len(rest) : (first - 1) + k \in first..m
  BY <1>1, <1>2, <1>5
<1>7. rest = SubSeq(imu_buffer, Len(imus) + 1, Len(imu_buffer))
  BY <1>1, <1>2, <1>4
<1> HIDE DEF rest
<1>8. \A k \in 1..Len(rest) : rest[k] = imu_buffer[Len(imus) + k] /\ rest[k] >= t
  BY <1>2, <1>4, <1>5, <1>6
<1>9. /\ Len(imus) \in 0..m /\ Len(rest) = m - Len(imus)
      /\ \A k \in 1..Len(imus) : imus[k] = imu_buffer[k] /\ imus[k] < t
  BY <1>1, <1>2, <1>4, <1>5
<1> HIDE DEF m
<1> QED
  BY <1>4, <1>5, <1>7, <1>8, <1>9 DEF imus, rest, m

(* The intervals of a package whose samples are in order.                    *)
Orderly(imus, t) ==
  /\ imus \in Seq(Nat) /\ imus # << >> /\ Ascending(imus)
  /\ \A k \in 1..Len(imus) : imus[k] < t

LEMMA Intervals ==
  ASSUME SampleInv, NEW t \in Nat, NEW imus, Orderly(imus, t)
  PROVE  LET n == Len(imus)
             m == m_last_propagate_end_time
             before(k) == IF k = 1 THEN m_last_imu ELSE imus[k - 1]
             kept == {k \in 1..n : imus[k] >= m}
             u == Undistort(imus, t)
         IN  /\ n \in Nat \ {0} /\ DOMAIN u = kept \cup {n + 1}
             /\ \A k \in kept : u[k] = << From(before(k)), imus[k] >>
             /\ u[n + 1] = << imus[n], t >>
<1> DEFINE n == Len(imus)
           m == m_last_propagate_end_time
           before(k) == IF k = 1 THEN m_last_imu ELSE imus[k - 1]
           cache == << m_last_imu >> \o imus
           kept == {k \in 1..n : imus[k] >= m}
           u == Undistort(imus, t)
<1>1. /\ n \in Nat \ {0} /\ m \in Nat /\ m_last_imu \in Nat /\ imus \in Seq(Nat)
      /\ \A k \in 1..n : imus[k] \in Nat
  BY DEF Orderly, SampleInv
<1>2. /\ \A k \in 1..n : cache[k + 1] = imus[k]
      /\ \A k \in 1..n : cache[k] = before(k)
  <2>1. << m_last_imu >> \in Seq(Nat) /\ Len(<< m_last_imu >>) = 1 /\ << m_last_imu >>[1] = m_last_imu
    BY <1>1
  <2>2. /\ cache[1] = m_last_imu
        /\ \A k \in 1..n : cache[k + 1] = imus[k]
    BY <1>1, <2>1
  <2> HIDE DEF cache
  <2>3. \A k \in 2..n : k - 1 \in 1..n /\ (k - 1) + 1 = k
    BY <1>1
  <2>4. \A k \in 2..n : cache[k] = imus[k - 1]
    BY <2>2, <2>3
  <2> QED
    BY <1>1, <2>2, <2>4
<1>3. kept = {k \in 1..n : cache[k + 1] >= m}
  BY <1>2
<1>4. u = [k \in kept \cup {n + 1} |->
             IF k \in kept THEN << From(cache[k]), cache[k + 1] >> ELSE << cache[n + 1], t >>]
  BY <1>3 DEF Undistort
<1> HIDE DEF cache, before, u
<1>5. \A k \in kept : u[k] = << From(before(k)), imus[k] >>
  BY <1>2, <1>4
<1>6. n + 1 \notin kept /\ n \in 1..n
  BY <1>1
<1>7. u[n + 1] = << imus[n], t >>
  BY <1>2, <1>4, <1>6
<1>8. DOMAIN u = kept \cup {n + 1}
  BY <1>4
<1> QED
  BY <1>1, <1>5, <1>7, <1>8 DEF before, u

(* No interval goes backwards: one that begins before the end of the last    *)
(* prediction is cut there, and is left out when it ends there, too.         *)
LEMMA IntervalsForward ==
  ASSUME SampleInv, NEW t \in Nat, NEW imus, Orderly(imus, t)
  PROVE  \A k \in DOMAIN Undistort(imus, t) :
           Undistort(imus, t)[k][1] <= Undistort(imus, t)[k][2]
<1> DEFINE n == Len(imus)
           m == m_last_propagate_end_time
           before(k) == IF k = 1 THEN m_last_imu ELSE imus[k - 1]
           kept == {k \in 1..n : imus[k] >= m}
           u == Undistort(imus, t)
<1>1. /\ n \in Nat \ {0} /\ DOMAIN u = kept \cup {n + 1}
      /\ \A k \in kept : u[k] = << From(before(k)), imus[k] >>
      /\ u[n + 1] = << imus[n], t >>
  BY Intervals
<1>2. /\ m \in Nat /\ m_last_imu \in Nat /\ m_last_imu <= m
      /\ \A k \in 1..n : imus[k] \in Nat /\ imus[k] < t
      /\ \A i, j \in 1..n : i < j => imus[i] < imus[j]
  BY DEF SampleInv, Orderly, Ascending
<1>3. ASSUME NEW k \in kept PROVE From(before(k)) <= imus[k]
  <2>1. k \in 1..n /\ imus[k] >= m /\ imus[k] \in Nat
    BY <1>2
  <2>2. before(k) \in Nat /\ before(k) <= imus[k]
    <3>1. CASE k = 1
      BY <1>2, <2>1, <3>1
    <3>2. CASE k # 1
      <4>1. k - 1 \in 1..n /\ k - 1 < k
        BY <1>1, <2>1, <3>2
      <4> QED
        BY <1>2, <2>1, <3>2, <4>1
    <3> QED
      BY <3>1, <3>2
  <2> HIDE DEF before
  <2> QED
    BY <1>2, <2>1, <2>2 DEF From
<1>4. imus[n] <= t
  BY <1>1, <1>2
<1> HIDE DEF before, u, kept
<1>5. ASSUME NEW k \in DOMAIN u PROVE u[k][1] <= u[k][2]
  <2>1. CASE k \in kept
    BY <1>1, <1>3, <2>1
  <2>2. CASE k = n + 1
    BY <1>1, <1>4, <2>2
  <2> QED
    BY <1>1, <2>1, <2>2
<1> QED
  BY <1>5 DEF u

(* While every sample is from after the last prediction, the intervals leave *)
(* no gap and no overlap.                                                    *)
LEMMA IntervalsTile ==
  ASSUME SampleInv, NEW t \in Nat, NEW imus, Orderly(imus, t),
         \A k \in 1..Len(imus) : imus[k] >= m_last_propagate_end_time
  PROVE  Tiles(Undistort(imus, t), m_last_propagate_end_time, t)
<1> DEFINE n == Len(imus)
           m == m_last_propagate_end_time
           before(k) == IF k = 1 THEN m_last_imu ELSE imus[k - 1]
           kept == {k \in 1..n : imus[k] >= m}
           u == Undistort(imus, t)
<1>1. /\ n \in Nat \ {0} /\ DOMAIN u = kept \cup {n + 1}
      /\ \A k \in kept : u[k] = << From(before(k)), imus[k] >>
      /\ u[n + 1] = << imus[n], t >>
  BY Intervals
<1>2. m \in Nat /\ m_last_imu \in Nat /\ m_last_imu <= m /\ \A k \in 1..n : imus[k] \in Nat
  BY DEF SampleInv, Orderly
<1>3. kept = 1..n
  OBVIOUS
<1>4. DOMAIN u = 1..(n + 1)
  BY <1>1, <1>3
<1>5. u[1][1] = m
  BY <1>1, <1>2, <1>3 DEF From
<1>6. \A k \in 2..n : u[k][1] = imus[k - 1]
  <2>1. ASSUME NEW k \in 2..n PROVE u[k][1] = imus[k - 1]
    <3>1. k \in 1..n /\ k # 1 /\ k - 1 \in 1..n
      BY <1>1
    <3>2. u[k][1] = From(imus[k - 1])
      BY <1>1, <1>3, <3>1
    <3>3. imus[k - 1] >= m /\ imus[k - 1] \in Nat
      BY <1>2, <3>1
    <3> QED
      BY <1>2, <3>2, <3>3 DEF From
  <2> QED
    BY <2>1
<1>7. /\ \A k \in 1..n : u[k][2] = imus[k]
      /\ u[n + 1][1] = imus[n] /\ u[n + 1][2] = t
  BY <1>1, <1>3
<1> HIDE DEF u, kept, before
<1>8. ASSUME NEW k \in 2..(n + 1) PROVE u[k - 1][2] = u[k][1]
  <2>1. k - 1 \in 1..n /\ (k = n + 1 \/ k \in 2..n)
    BY <1>1
  <2> QED
    BY <1>1, <1>6, <1>7, <2>1
<1>9. ASSUME NEW k \in DOMAIN u, \A j \in DOMAIN u : k <= j PROVE u[k][1] = m
  BY <1>1, <1>4, <1>5, <1>9
<1>10. ASSUME NEW k \in DOMAIN u, \A j \in DOMAIN u : j <= k PROVE u[k][2] = t
  BY <1>1, <1>4, <1>7, <1>10
<1>11. ASSUME NEW k \in DOMAIN u, NEW j \in DOMAIN u, j < k,
              \A l \in DOMAIN u : l <= j \/ l >= k
       PROVE  u[j][2] = u[k][1]
  <2>1. k \in 2..(n + 1) /\ k - 1 \in DOMAIN u
    BY <1>1, <1>4, <1>11
  <2>2. j = k - 1
    BY <1>1, <1>4, <1>11, <2>1
  <2> QED
    BY <1>8, <2>1, <2>2
<1> QED
  BY <1>9, <1>10, <1>11 DEF Tiles, u, m

-----------------------------------------------------------------------------
(* The end of the scan that a package is made of.                            *)
LEMMA PushedScan ==
  ASSUME ScanInv, TakePackage
  PROVE  Pushed \in Scans /\ Pushed[2] \in Nat /\ Pushed[2] \in Stamps
<1>1. Pushed \in Scans /\ ~IsEmpty(Pushed)
  BY DEF TakePackage, Pushed, ScanInv
<1> QED
  BY <1>1, LioAssumption DEF Scans, Stamps, IsEmpty

(* What a package leaves of the samples, and the prediction over those taken.*)
LEMMA PackageSamples ==
  ASSUME SampleInv, ScanInv, TakePackage
  PROVE  LET t == Pushed[2]
             imus == ImusUntil(t)
         IN  /\ t \in Nat /\ imus \in Seq(Nat)
             /\ imu_buffer' \in Seq(Nat) /\ Ascending(imu_buffer')
             /\ \A i \in 1..Len(imu_buffer') :
                  /\ imu_buffer'[i] <= last_imu_time /\ imu_buffer'[i] >= t
                  /\ reorders = 0 => imu_buffer'[i] >= m_last_propagate_end_time
             /\ Len(imus) >= min_imu_samples_per_lidar => Orderly(imus, t)
             /\ reorders = 0 =>
                  \A k \in 1..Len(imus) : imus[k] >= m_last_propagate_end_time
<1> DEFINE t == Pushed[2]  imus == ImusUntil(t)  n == Len(imus)  m == Len(imu_buffer)
           rest == SubSeq(imu_buffer, n + 1, m)
<1>1. t \in Nat
  BY PushedScan
<1>2. /\ imus \in Seq(Nat) /\ n \in 0..m
      /\ \A k \in 1..n : imus[k] = imu_buffer[k] /\ imus[k] < t
      /\ rest \in Seq(Nat) /\ Len(rest) = m - n
      /\ \A k \in 1..Len(rest) : rest[k] = imu_buffer[n + k] /\ rest[k] >= t
  BY <1>1, TakenSamples
<1>3. imu_buffer' = rest /\ m \in Nat
  BY DEF TakePackage, SampleInv
<1>4. /\ \A i \in 1..m : imu_buffer[i] \in Nat /\ imu_buffer[i] <= last_imu_time
      /\ \A i, j \in 1..m : i < j => imu_buffer[i] < imu_buffer[j]
      /\ reorders = 0 => \A i \in 1..m : imu_buffer[i] >= m_last_propagate_end_time
  BY DEF SampleInv, Ascending
<1> HIDE DEF t, imus, n, m, rest
<1>5. \A k \in 1..Len(rest) : n + k \in 1..m
  BY <1>2, <1>3
<1>6. \A k \in 1..n : k \in 1..m
  BY <1>2, <1>3
<1>7. Ascending(rest)
  BY <1>2, <1>3, <1>4, <1>5 DEF Ascending
<1>8. \A i \in 1..Len(rest) :
        /\ rest[i] <= last_imu_time /\ rest[i] >= t
        /\ reorders = 0 => rest[i] >= m_last_propagate_end_time
  BY <1>2, <1>4, <1>5
<1>9. n >= min_imu_samples_per_lidar => Orderly(imus, t)
  <2>1. min_imu_samples_per_lidar \in Nat \ {0}
    BY LioAssumption
  <2>2. \A i, j \in 1..n : i < j => imus[i] < imus[j]
    BY <1>2, <1>4, <1>6
  <2>3. n >= min_imu_samples_per_lidar => imus # << >>
    BY <2>1, <1>2 DEF n
  <2> QED
    BY <1>2, <2>2, <2>3 DEF Orderly, Ascending, n
<1>10. reorders = 0 => \A k \in 1..n : imus[k] >= m_last_propagate_end_time
  BY <1>2, <1>4, <1>6
<1> QED
  BY <1>1, <1>2, <1>3, <1>7, <1>8, <1>9, <1>10 DEF t, imus, n

LEMMA PackageSampleInv ==
  ASSUME SampleInv, ScanInv, TakePackage
  PROVE  SampleInv'
<1> DEFINE t == Pushed[2]  imus == ImusUntil(t)
<1>1. /\ t \in Nat /\ imus \in Seq(Nat)
      /\ imu_buffer' \in Seq(Nat) /\ Ascending(imu_buffer')
      /\ \A i \in 1..Len(imu_buffer') :
           /\ imu_buffer'[i] <= last_imu_time /\ imu_buffer'[i] >= t
           /\ reorders = 0 => imu_buffer'[i] >= m_last_propagate_end_time
      /\ Len(imus) >= min_imu_samples_per_lidar => Orderly(imus, t)
  BY PackageSamples
<1>2. UNCHANGED << last_imu_time, reorders >> /\ last_imu_time >= t
  BY DEF TakePackage
<1>3. CASE UNCHANGED estimate
  <2>1. UNCHANGED << m_last_imu, m_last_propagate_end_time, predictions >>
    BY <1>3 DEF estimate
  <2> HIDE DEF t, imus
  <2> QED
    BY <1>1, <1>2, <2>1 DEF SampleInv, PredictsForward
<1>4. CASE Len(imus) >= min_imu_samples_per_lidar /\ Process(imus, t)
  <2>1. Orderly(imus, t)
    BY <1>1, <1>4
  <2>2. Last(imus) \in Nat /\ Last(imus) < t
    <3>1. Len(imus) \in 1..Len(imus) /\ \A k \in 1..Len(imus) : imus[k] \in Nat
      BY <2>1 DEF Orderly
    <3> QED
      BY <2>1, <3>1 DEF Orderly, Last
  <2> HIDE DEF t, imus
  <2>3. \/ UNCHANGED << m_last_imu, m_last_propagate_end_time >>
        \/ m_last_imu' = Last(imus) /\ m_last_propagate_end_time' = t
    BY <1>4 DEF Process, Initialize, InitMap, Correct, Predict
  <2>4. PredictsForward'
    <3>1. UNCHANGED predictions \/ predictions' = Undistort(imus, t)
      BY <1>4 DEF Process, Initialize, InitMap, Correct, Predict
    <3>2. CASE UNCHANGED predictions
      BY <3>2 DEF SampleInv, PredictsForward
    <3>3. CASE predictions' = Undistort(imus, t)
      BY <1>1, <2>1, <3>3, IntervalsForward DEF PredictsForward
    <3> QED
      BY <3>1, <3>2, <3>3
  <2> QED
    BY <1>1, <1>2, <2>2, <2>3, <2>4 DEF SampleInv
<1> QED
  BY <1>3, <1>4 DEF TakePackage

LEMMA ImuSampleInv ==
  ASSUME SampleInv, NEW stamp \in Stamps, ImuCB(stamp)
  PROVE  SampleInv'
<1> DEFINE buffer == ImuBuffer(stamp < last_imu_time)
<1>1. /\ imu_buffer' = Append(buffer, stamp) /\ last_imu_time' = stamp /\ stamp # last_imu_time
      /\ reorders' = IF stamp < last_imu_time THEN reorders + 1 ELSE reorders
      /\ UNCHANGED << m_last_imu, m_last_propagate_end_time, predictions >>
  BY DEF ImuCB, estimate
<1>2. stamp \in Nat /\ stamp \in 0..MaxStamp /\ MaxStamp \in Nat /\ reorders \in Nat
      /\ last_imu_time \in Int
  BY LioAssumption DEF Stamps, SampleInv
<1>3. /\ buffer \in Seq(Nat) /\ Ascending(buffer)
      /\ \A i \in 1..Len(buffer) : buffer[i] < stamp
      /\ \A i \in 1..Len(buffer) :
           reorders' = 0 => buffer[i] >= m_last_propagate_end_time
  <2>1. CASE stamp < last_imu_time
    <3>1. buffer = << >>
      BY <2>1 DEF ImuBuffer
    <3> HIDE DEF buffer
    <3>2. buffer \in Seq(Nat) /\ Len(buffer) = 0 /\ 1..0 = {}
      BY <3>1
    <3> QED
      BY <3>2 DEF Ascending
  <2>2. CASE ~(stamp < last_imu_time)
    <3>1. buffer = imu_buffer /\ last_imu_time < stamp /\ reorders' = reorders
      BY <1>1, <1>2, <2>2 DEF ImuBuffer
    <3>2. \A i \in 1..Len(imu_buffer) : imu_buffer[i] \in Nat /\ imu_buffer[i] <= last_imu_time
      BY DEF SampleInv
    <3> HIDE DEF buffer
    <3> QED
      BY <1>2, <3>1, <3>2 DEF SampleInv
  <2> QED
    BY <2>1, <2>2
<1> HIDE DEF buffer
<1>4. /\ imu_buffer' \in Seq(Nat) /\ Len(imu_buffer') = Len(buffer) + 1 /\ Len(buffer) \in Nat
      /\ \A i \in 1..Len(buffer) : imu_buffer'[i] = buffer[i] /\ buffer[i] \in Nat
      /\ imu_buffer'[Len(buffer) + 1] = stamp
  BY <1>1, <1>2, <1>3
<1>5. Ascending(imu_buffer')
  <2>1. ASSUME NEW i \in 1..(Len(buffer) + 1), NEW j \in 1..(Len(buffer) + 1), i < j
        PROVE  imu_buffer'[i] < imu_buffer'[j]
    <3>1. i \in 1..Len(buffer) /\ (j \in 1..Len(buffer) \/ j = Len(buffer) + 1)
      BY <1>4, <2>1
    <3> QED
      BY <1>3, <1>4, <2>1, <3>1 DEF Ascending
  <2> QED
    BY <1>4, <2>1 DEF Ascending
<1>6. \A i \in 1..Len(imu_buffer') : imu_buffer'[i] <= last_imu_time'
  BY <1>1, <1>2, <1>3, <1>4
<1>7. ASSUME reorders' = 0
      PROVE  /\ \A i \in 1..Len(imu_buffer') : imu_buffer'[i] >= m_last_propagate_end_time'
             /\ m_last_propagate_end_time' = 0 \/ last_imu_time' >= m_last_propagate_end_time'
  <2>1. reorders = 0 /\ ~(stamp < last_imu_time)
    BY <1>1, <1>2, <1>7
  <2>2. m_last_propagate_end_time \in Nat /\ stamp >= m_last_propagate_end_time
    BY <1>2, <2>1 DEF SampleInv
  <2> QED
    BY <1>1, <1>3, <1>4, <1>7, <2>2
<1>8. PredictsForward'
  BY <1>1 DEF SampleInv, PredictsForward
<1> QED
  BY <1>1, <1>2, <1>4, <1>5, <1>6, <1>7, <1>8 DEF SampleInv

(* The other handlers leave the samples alone.                               *)
LEMMA OtherSampleInv ==
  ASSUME SampleInv,
         (\E scan \in Scans : LidarCB(scan)) \/ DropEmptyScan \/ PushScan \/ UNCHANGED vars
  PROVE  SampleInv'
<1>1. UNCHANGED << imu_buffer, last_imu_time, m_last_imu, m_last_propagate_end_time, predictions >>
  BY DEF LidarCB, DropEmptyScan, PushScan, estimate, buffers, vars
<1>2. reorders' \in Nat /\ (reorders' = 0 => reorders = 0)
  <2>1. reorders' = reorders \/ reorders' = reorders + 1
    BY DEF LidarCB, DropEmptyScan, PushScan, buffers, vars
  <2> QED
    BY <2>1 DEF SampleInv
<1> QED
  BY <1>1, <1>2 DEF SampleInv, PredictsForward

LEMMA SampleStep ==
  ASSUME SampleInv, ScanInv, [Next]_vars
  PROVE  SampleInv'
BY PackageSampleInv, ImuSampleInv, OtherSampleInv DEF Next

-----------------------------------------------------------------------------
(* The scan in the package stays the oldest of the buffer until a scan out   *)
(* of order empties the buffer.                                              *)
LEMMA ScanStep ==
  ASSUME ScanInv, [Next]_vars
  PROVE  ScanInv'
<1>0. reorders \in Nat
  BY DEF ScanInv
<1>1. ASSUME NEW stamp \in Stamps, ImuCB(stamp) PROVE ScanInv'
  <2>1. UNCHANGED << lidar_buffer, lidar_pushed, cloud >>
        /\ reorders' \in {reorders, reorders + 1}
    BY <1>1 DEF ImuCB
  <2> QED
    BY <1>0, <2>1 DEF ScanInv, IsEmpty
<1>2. ASSUME NEW scan \in Scans, LidarCB(scan) PROVE ScanInv'
  <2>1. UNCHANGED << lidar_pushed, cloud >>
    BY <1>2 DEF LidarCB
  <2>2. CASE scan[1] < last_lidar_time
    <3>1. reorders' = reorders + 1 /\ lidar_buffer' = Append(<< >>, scan)
      BY <1>2, <2>2 DEF LidarCB
    <3>2. lidar_buffer' \in Seq(Scans) /\ reorders' # 0 /\ reorders' \in Nat
      BY <1>0, <3>1
    <3> QED
      BY <2>1, <3>2 DEF ScanInv, IsEmpty
  <2>3. CASE ~(scan[1] < last_lidar_time)
    <3>1. reorders' = reorders /\ lidar_buffer' = Append(lidar_buffer, scan)
      BY <1>2, <2>3 DEF LidarCB
    <3>2. /\ lidar_buffer' \in Seq(Scans)
          /\ lidar_buffer # << >> => lidar_buffer' # << >> /\ Head(lidar_buffer') = Head(lidar_buffer)
      BY <3>1 DEF ScanInv
    <3> QED
      BY <2>1, <3>1, <3>2 DEF ScanInv, IsEmpty
  <2> QED
    BY <2>2, <2>3
<1>3. CASE DropEmptyScan \/ TakePackage
  <2>1. lidar_buffer' = Tail(lidar_buffer) /\ lidar_buffer # << >> /\ UNCHANGED reorders
        /\ lidar_pushed' = FALSE
    BY <1>3 DEF DropEmptyScan, TakePackage, PopScan, ScanInv
  <2>2. lidar_buffer' \in Seq(Scans)
    BY <2>1 DEF ScanInv
  <2> QED
    BY <2>1, <2>2 DEF ScanInv
<1>4. CASE PushScan
  <2>1. /\ lidar_buffer # << >> /\ cloud' = Head(lidar_buffer) /\ lidar_pushed' = TRUE
        /\ ~IsEmpty(Head(lidar_buffer)) /\ UNCHANGED << lidar_buffer, reorders >>
    BY <1>4 DEF PushScan, buffers
  <2>2. Head(lidar_buffer) \in Scans
    BY <2>1 DEF ScanInv
  <2> QED
    BY <2>1, <2>2 DEF ScanInv, IsEmpty
<1>5. CASE UNCHANGED vars
  BY <1>5 DEF vars, buffers, ScanInv, IsEmpty
<1> QED
  BY <1>1, <1>2, <1>3, <1>4, <1>5 DEF Next

-----------------------------------------------------------------------------
(* What the map loses is out of range of the pose the update corrects to,    *)
(* and of the old one when the update is not valid.                          *)
LEMMA TrimmedMap ==
  ASSUME MapInv, NEW pos \in Int, NEW t \in Nat, NEW move \in Moves,
         NEW correction \in Corrections, pos = state.pos + move
  PROVE  /\ Trim(pos)[1] \in Cubes
         /\ Trim(pos)[2] # << >> =>
              \A p \in {pos + correction, state.pos} :
                \/ Trim(pos)[2][2] + det_range <= p
                \/ p + det_range <= Trim(pos)[2][1]
<1> DEFINE h == half_cube_len  trimmed == Trim(pos)
           Distance(corner) == IF pos < corner THEN corner - pos ELSE pos - corner
<1>0. /\ h \in Nat /\ det_thresh \in Nat /\ det_range \in Nat /\ mov_dist \in Nat
      /\ move \in Int /\ correction \in Int /\ state.pos \in Int
      /\ mov_dist + det_thresh + det_range + move <= 2 * h
      /\ mov_dist + det_thresh + det_range - move <= 2 * h
      /\ mov_dist + det_thresh + det_range + correction <= 2 * h
      /\ mov_dist + det_thresh + det_range - correction <= 2 * h
  <2>1. /\ h \in Nat /\ det_thresh \in Nat /\ det_range \in Nat /\ mov_dist \in Nat
        /\ move \in Int /\ correction \in Int
    BY LioAssumption
  <2>2. \A back \in {move, -move, correction, -correction} :
          mov_dist + det_thresh + det_range + back <= 2 * h
    BY MapAssumption
  <2> QED
    BY <2>1, <2>2 DEF MapInv
<1>1. CASE local_map = << >>
  <2>1. trimmed = << << pos - h, pos + h >>, << >> >>
    BY <1>1 DEF Trim
  <2> QED
    BY <2>1 DEF Cubes
<1>2. CASE local_map # << >>
  <2>1. PICK c \in Int : local_map = << c - h, c + h >>
    BY <1>2 DEF MapInv, Cubes
  <2>2. local_map[1] = c - h /\ local_map[2] = c + h
    BY <2>1
  <2> DEFINE low == local_map[1]  high == local_map[2]
  <2>3. trimmed = IF Distance(low) <= det_thresh
                    THEN << << low - mov_dist, high - mov_dist >>, << high - mov_dist, high >> >>
                  ELSE IF Distance(high) <= det_thresh
                    THEN << << low + mov_dist, high + mov_dist >>, << low, low + mov_dist >> >>
                  ELSE << local_map, << >> >>
    BY <1>2 DEF Trim, Slabs
  <2> HIDE DEF trimmed
  <2>4. CASE Distance(low) <= det_thresh
    <3>1. trimmed = << << low - mov_dist, high - mov_dist >>, << high - mov_dist, high >> >>
      BY <2>3, <2>4
    <3>2. /\ trimmed[1] = << low - mov_dist, high - mov_dist >>
          /\ trimmed[2][1] = high - mov_dist
      BY <3>1
    <3>3. /\ low - mov_dist = (c - mov_dist) - h /\ high - mov_dist = (c - mov_dist) + h
          /\ c - mov_dist \in Int
      BY <1>0, <2>2
    <3>4. trimmed[1] \in Cubes
      BY <3>2, <3>3 DEF Cubes
    <3>5. pos <= c - h + det_thresh
      BY <1>0, <2>2, <2>4
    <3>6. \A p \in {pos + correction, state.pos} : p + det_range <= high - mov_dist
      BY <1>0, <2>2, <3>5
    <3> QED
      BY <3>2, <3>4, <3>6 DEF trimmed
  <2>5. CASE ~(Distance(low) <= det_thresh) /\ Distance(high) <= det_thresh
    <3>1. trimmed = << << low + mov_dist, high + mov_dist >>, << low, low + mov_dist >> >>
      BY <2>3, <2>5
    <3>2. /\ trimmed[1] = << low + mov_dist, high + mov_dist >>
          /\ trimmed[2][2] = low + mov_dist
      BY <3>1
    <3>3. /\ low + mov_dist = (c + mov_dist) - h /\ high + mov_dist = (c + mov_dist) + h
          /\ c + mov_dist \in Int
      BY <1>0, <2>2
    <3>4. trimmed[1] \in Cubes
      BY <3>2, <3>3 DEF Cubes
    <3>5. pos >= c + h - det_thresh
      BY <1>0, <2>2, <2>5
    <3>6. \A p \in {pos + correction, state.pos} : (low + mov_dist) + det_range <= p
      BY <1>0, <2>2, <3>5
    <3> QED
      BY <3>2, <3>4, <3>6 DEF trimmed
  <2>6. CASE ~(Distance(low) <= det_thresh) /\ ~(Distance(high) <= det_thresh)
    <3>1. trimmed = << local_map, << >> >>
      BY <2>3, <2>6
    <3>2. trimmed[1] = local_map /\ trimmed[2] = << >> /\ local_map \in Cubes
      BY <2>1, <3>1 DEF Cubes
    <3> QED
      BY <3>2 DEF trimmed
  <2> QED
    BY <2>4, <2>5, <2>6
<1> QED
  BY <1>1, <1>2

LEMMA MapStep ==
  ASSUME ScanInv, MapInv, [Next]_vars
  PROVE  MapInv'
<1>1. CASE UNCHANGED estimate
  <2>1. UNCHANGED << status, state, local_map, removed >>
    BY <1>1 DEF estimate
  <2> QED
    BY <2>1 DEF MapInv, NothingNearIsForgotten
<1>2. CASE TakePackage /\ Process(ImusUntil(Pushed[2]), Pushed[2])
  <2> DEFINE t == Pushed[2]  imus == ImusUntil(t)
  <2>1. t \in Nat
    BY <1>2, PushedScan
  <2> HIDE DEF t, imus
  <2>2. CASE status = "IMU_INIT" /\ Initialize(imus, t)
    <3>1. UNCHANGED << local_map, removed >> /\ removed = << >>
      BY <2>2 DEF Initialize, MapInv
    <3>2. state' \in [time : Int, pos : Int]
      BY <2>1, <2>2 DEF Initialize, MapInv
    <3> QED
      BY <3>1, <3>2 DEF MapInv, NothingNearIsForgotten
  <2>3. CASE status = "MAP_INIT" /\ InitMap(imus, t)
    <3>1. UNCHANGED << local_map, removed >> /\ removed = << >>
      BY <2>3 DEF InitMap, MapInv
    <3>2. state' \in [time : Int, pos : Int]
      BY <2>1, <2>3 DEF InitMap, Predicted, MapInv
    <3> QED
      BY <3>1, <3>2 DEF MapInv, NothingNearIsForgotten
  <2>4. CASE status = "MAPPING" /\ Correct(imus, t)
    <3>1. PICK move \in Moves, correction \in Corrections, points \in EffectivePoints :
            /\ local_map' = Trim(Predicted(move, t).pos)[1]
            /\ removed' = Trim(Predicted(move, t).pos)[2]
            /\ state' = Updated(UpdateValid(points), Predicted(move, t), correction)
      BY <2>4 DEF Correct
    <3> DEFINE pos == state.pos + move
    <3>2. pos \in Int /\ Predicted(move, t) = [time |-> t, pos |-> pos] /\ Predicted(move, t).pos = pos
      BY LioAssumption DEF MapInv, Predicted
    <3>3. state' \in {[time |-> t, pos |-> pos + correction], state}
      BY <3>1, <3>2 DEF Updated
    <3>4. correction \in Int
      BY LioAssumption
    <3>5. state' \in [time : Int, pos : Int] /\ state'.pos \in {pos + correction, state.pos}
      BY <2>1, <3>2, <3>3, <3>4 DEF MapInv
    <3> HIDE DEF pos
    <3>6. /\ Trim(pos)[1] \in Cubes
          /\ Trim(pos)[2] # << >> =>
               \A p \in {pos + correction, state.pos} :
                 \/ Trim(pos)[2][2] + det_range <= p
                 \/ p + det_range <= Trim(pos)[2][1]
      BY <2>1, <3>2, TrimmedMap DEF pos
    <3>7. local_map' \in Cubes /\ removed' = Trim(pos)[2] /\ status' = "MAPPING"
      BY <2>4, <3>1, <3>2, <3>6 DEF Correct
    <3>8. NothingNearIsForgotten'
      BY <3>5, <3>6, <3>7 DEF NothingNearIsForgotten
    <3> QED
      BY <3>5, <3>7, <3>8 DEF MapInv
  <2> QED
    BY <1>2, <2>2, <2>3, <2>4 DEF Process, t, imus
<1> QED
  BY <1>1, <1>2 DEF Next, ImuCB, LidarCB, DropEmptyScan, PushScan, TakePackage, vars

-----------------------------------------------------------------------------
LioInv == SampleInv /\ ScanInv /\ MapInv

LEMMA Invariant == Spec => []LioInv
<1>1. Init => LioInv
  <2> SUFFICES ASSUME Init
               PROVE  LioInv
    OBVIOUS
  <2>1. MaxStamp \in Nat /\ << >> \in Seq(Nat) /\ << >> \in Seq(Scans)
        /\ DOMAIN << >> = {} /\ Len(<< >>) = 0 /\ 1..0 = {}
    BY LioAssumption
  <2>2. SampleInv
    BY <2>1 DEF Init, SampleInv, Ascending, PredictsForward
  <2>3. ScanInv
    BY <2>1 DEF Init, ScanInv
  <2>4. MapInv
    BY DEF Init, MapInv, NothingNearIsForgotten
  <2> QED
    BY <2>2, <2>3, <2>4 DEF LioInv
<1>2. LioInv /\ [Next]_vars => LioInv'
  BY SampleStep, ScanStep, MapStep DEF LioInv
<1> QED
  BY <1>1, <1>2, PTL DEF Spec

(* The filter never predicts backwards, for any buffers, whatever number of  *)
(* messages comes out of order.                                              *)
THEOREM NeverPredictsBack == Spec => []PredictsForward
<1>1. LioInv => PredictsForward
  BY DEF LioInv, SampleInv
<1> QED
  BY <1>1, Invariant, PTL

(* Nothing within the range of the lidar is deleted from the local map, for  *)
(* a cube that is large enough for the corrections of the updates and the    *)
(* predictions that are taken back.                                          *)
THEOREM KeepsWhatIsNear == Spec => []NothingNearIsForgotten
<1>1. LioInv => NothingNearIsForgotten
  BY DEF LioInv, MapInv
<1> QED
  BY <1>1, Invariant, PTL

(* While messages come in order, no time is predicted over twice and none is *)
(* left out, whatever packages are dropped.                                  *)
THEOREM PredictsEachTimeOnce == Spec => TilesTime
<1>1. ASSUME LioInv, [Next]_vars, reorders = 0, predictions' # predictions
      PROVE  Tiles(predictions', m_last_propagate_end_time, m_last_propagate_end_time')
  <2> DEFINE t == Pushed[2]  imus == ImusUntil(t)
  <2>1. TakePackage /\ Len(imus) >= min_imu_samples_per_lidar /\ Process(imus, t)
    BY <1>1 DEF Next, ImuCB, LidarCB, DropEmptyScan, PushScan, TakePackage, vars, estimate
  <2>2. /\ t \in Nat /\ Orderly(imus, t)
        /\ \A k \in 1..Len(imus) : imus[k] >= m_last_propagate_end_time
    BY <1>1, <2>1, PackageSamples DEF LioInv
  <2> HIDE DEF t, imus
  <2>3. predictions' = Undistort(imus, t) /\ m_last_propagate_end_time' = t
    BY <1>1, <2>1 DEF Process, Initialize, InitMap, Correct, Predict
  <2> QED
    BY <1>1, <2>2, <2>3, IntervalsTile DEF LioInv
<1>2. LioInv /\ [Next]_vars =>
        [ reorders = 0 /\ predictions' # predictions
            => Tiles(predictions', m_last_propagate_end_time, m_last_propagate_end_time') ]_vars
  BY <1>1
<1> QED
  BY <1>2, Invariant, PTL DEF Spec, TilesTime

(* While scans come in order, the scan that is taken from the buffer is the  *)
(* one in the package, across any number of ticks that wait for samples.     *)
THEOREM TakesTheOldestScan == Spec => TakesEachScanOnce
<1>1. ASSUME LioInv, [Next]_vars, reorders' = 0, Len(lidar_buffer') < Len(lidar_buffer)
      PROVE  cloud' = Head(lidar_buffer)
  <2>1. lidar_buffer \in Seq(Scans) /\ Len(lidar_buffer) \in Nat /\ reorders \in Nat
    BY <1>1 DEF LioInv, ScanInv
  <2>2. \A stamp \in Stamps : ~ImuCB(stamp)
    BY <1>1, <2>1 DEF ImuCB
  <2>3. \A scan \in Scans : ~LidarCB(scan)
    <3>1. ASSUME NEW scan \in Scans, LidarCB(scan) PROVE FALSE
      <4>1. lidar_buffer' = Append(lidar_buffer, scan)
        BY <1>1, <2>1, <3>1 DEF LidarCB
      <4>2. Len(lidar_buffer') = Len(lidar_buffer) + 1
        BY <2>1, <4>1
      <4> QED
        BY <1>1, <2>1, <4>2
    <3> QED
      BY <3>1
  <2>4. CASE DropEmptyScan
    BY <2>4 DEF DropEmptyScan
  <2>5. CASE TakePackage
    <3>1. cloud' = Pushed /\ reorders = 0
      BY <1>1, <2>5 DEF TakePackage, PopScan
    <3> QED
      BY <1>1, <3>1 DEF Pushed, LioInv, ScanInv
  <2>6. ~PushScan /\ ~UNCHANGED vars
    BY <1>1, <2>1 DEF PushScan, buffers, vars
  <2> QED
    BY <1>1, <2>2, <2>3, <2>4, <2>5, <2>6 DEF Next
<1>2. LioInv /\ [Next]_vars =>
        [ reorders' = 0 /\ Len(lidar_buffer') < Len(lidar_buffer)
            => cloud' = Head(lidar_buffer) ]_vars
  BY <1>1
<1> QED
  BY <1>2, Invariant, PTL DEF Spec, TakesEachScanOnce
=============================================================================
