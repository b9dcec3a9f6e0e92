--------------------------- MODULE RtkFgo_proofs ---------------------------
(* Theorems about RtkFgo, for any window, tolerances and numbers of samples, *)
(* and whichever factors the configuration enables.                          *)
EXTENDS RtkFgo, SequenceTheorems, WellFoundedInduction, TLAPS

(* A set of natural numbers has a least element.                             *)
LEMMA LeastElement ==
  ASSUME NEW S \in SUBSET Nat, S # {}
  PROVE  \E n \in S : \A m \in S : n <= m
<1>1. PICK n \in S : \A m \in S : ~(<< m, n >> \in OpToRel(<, Nat))
  BY NatLessThanWellFounded, WFMin, Zenon
<1>2. \A m \in S : ~(m < n)
  BY <1>1 DEF OpToRel
<1> QED
  BY <1>2

(* TimestampedBuffer::closest returns a sample of the buffer, and none is    *)
(* nearer, or it returns none.                                               *)
LEMMA ClosestIsSample ==
  ASSUME NEW buffer \in SUBSET Nat, NEW stamp \in Nat, NEW tolerance \in Nat
  PROVE  LET c == Closest(buffer, stamp, tolerance)
         IN \/ c = 0
            \/ c \in buffer /\ \A t \in buffer : Distance(c, stamp) <= Distance(t, stamp)
<1> DEFINE near == {s \in buffer : Distance(s, stamp) <= tolerance}
           Better(s, t) == \/ Distance(s, stamp) < Distance(t, stamp)
                           \/ Distance(s, stamp) = Distance(t, stamp) /\ s >= t
<1>1. CASE near = {}
  BY <1>1 DEF Closest
<1>2. CASE near # {}
  <2> DEFINE far == {Distance(s, stamp) : s \in near}
  <2>0. \A s \in near : s \in Nat /\ s \in buffer
    <3>1. \A s \in near : s \in buffer
      BY Zenon
    <3> QED
      BY <3>1
  <2>1. far \in SUBSET Nat /\ far # {}
    <3>1. \A s \in near : Distance(s, stamp) \in Nat
      BY <2>0 DEF Distance
    <3> HIDE DEF near
    <3> QED
      BY <1>2, <3>1
  <2>2. PICK d \in far : \A e \in far : d <= e
    BY <2>1, LeastElement, Zenon
  <2>3. PICK n \in near : Distance(n, stamp) = d
    BY <2>2
  <2>4. \A t \in near : Distance(n, stamp) <= Distance(t, stamp)
    BY <2>2, <2>3
  <2>5. \E s \in near : \A t \in near : Better(s, t)
    <3>1. CASE \E s \in near : Distance(s, stamp) = d /\ s > n
      <4>1. PICK s \in near : Distance(s, stamp) = d /\ s > n
        BY <3>1
      <4>2. \A t \in near : Better(s, t)
        BY <4>1, <2>0, <2>3, <2>4 DEF Distance
      <4> QED
        BY <4>2
    <3>2. CASE ~\E s \in near : Distance(s, stamp) = d /\ s > n
      <4>1. \A t \in near : Better(n, t)
        BY <3>2, <2>0, <2>3, <2>4 DEF Distance
      <4> QED
        BY <4>1
    <3> QED
      BY <3>1, <3>2
  <2>6. Closest(buffer, stamp, tolerance) = CHOOSE s \in near : \A t \in near : Better(s, t)
    BY <1>2 DEF Closest
  <2> HIDE DEF Better
  <2> DEFINE c == CHOOSE s \in near : \A t \in near : Better(s, t)
  <2>7. c \in near /\ \A t \in near : Better(c, t)
    BY <2>5
  <2> HIDE DEF c
  <2>8. c \in buffer /\ Distance(c, stamp) <= tolerance
    BY <2>7, Zenon
  <2>9. ASSUME NEW t \in buffer PROVE Distance(c, stamp) <= Distance(t, stamp)
    <3>1. Distance(c, stamp) \in Nat /\ Distance(t, stamp) \in Nat
      BY <2>8 DEF Distance
    <3>2. CASE t \in near
      BY <2>7, <3>1, <3>2 DEF Better
    <3>3. CASE t \notin near
      <4>1. ~(Distance(t, stamp) <= tolerance)
        BY <3>3, Zenon
      <4> HIDE DEF near
      <4> QED
        BY <2>8, <3>1, <4>1
    <3> QED
      BY <3>2, <3>3
  <2> QED
    BY <2>6, <2>8, <2>9 DEF c
<1> QED
  BY <1>1, <1>2

-----------------------------------------------------------------------------
(* The graph.  Its factors are at any time those its records call for, which *)
(* is why the window can be built again from the records alone.              *)
Interval == Nat \X Nat

Keyframe == [index : Nat, stamp_s : Nat]
Transition == [from_index : Nat, to_index : Nat, lio : Interval, wheel : Interval \cup {NoPose}]
Record == [state_index : Nat, data : Interval]

(* The factors that the records of a graph call for.                         *)
Made(g) ==
  {PosePrior : i \in 1..Len(g.states)}
  \cup {MotionPrior(i - 1) : i \in 1..Len(g.states)}
  \cup {Factor("lio", t.from_index, t.to_index, t.lio) : t \in g.transitions}
  \cup {Factor("wheel", t.from_index, t.to_index, t.wheel) :
          t \in {t \in g.transitions : t.wheel # NoPose}}
  \cup {Factor("gps", r.state_index, r.state_index, r.data) : r \in g.rtk_position_records}
  \cup {Factor("yaw", r.state_index, r.state_index, r.data) : r \in g.heading_records}

(* A graph holds the factors of its records and no other.                    *)
GraphsLike(g) ==
  [states : Seq(Keyframe), transitions : SUBSET Transition,
   rtk_position_records : SUBSET Record, heading_records : SUBSET Record,
   factors : {Made(g)}]

(* A keyframe is numbered by its place, one FAST-LIO motion joins each to    *)
(* the one before it, and nothing is recorded beyond the newest.             *)
Coherent(g) ==
  LET n == Len(g.states)
  IN /\ g \in GraphsLike(g)
     /\ \A i \in 1..n : g.states[i].index = i - 1
     /\ \A i, j \in 1..n : i < j => g.states[i].stamp_s < g.states[j].stamp_s
     /\ \A t \in g.transitions : t.to_index = t.from_index + 1 /\ t.to_index < n
     /\ \A i \in 2..n : \E t \in g.transitions : t.from_index = i - 2
     /\ \A r \in g.rtk_position_records \cup g.heading_records : r.state_index < n

Kinds == {"lio", "wheel", "gps", "yaw"}

(* A measurement of the graph, by the numbers of its keyframes.              *)
LioOf(g, i, j, d) ==
  \E t \in g.transitions : t.from_index = i /\ t.to_index = j /\ t.lio = d

WheelOf(g, i, j, d) ==
  d # NoPose /\ \E t \in g.transitions : t.from_index = i /\ t.to_index = j /\ t.wheel = d

RecordOf(records, i, d) == \E r \in records : r.state_index = i /\ r.data = d

Measured(g, k, i, j, d) ==
  \/ k = "lio" /\ LioOf(g, i, j, d)
  \/ k = "wheel" /\ WheelOf(g, i, j, d)
  \/ k = "gps" /\ i = j /\ RecordOf(g.rtk_position_records, i, d)
  \/ k = "yaw" /\ i = j /\ RecordOf(g.heading_records, i, d)

(* The factors of a measured kind are the records of that kind.              *)
LEMMA FactorsAreMeasured ==
  ASSUME NEW g, g.factors = Made(g), NEW f, f \in g.factors, f.kind \in Kinds
  PROVE  /\ f = Factor(f.kind, f.from, f.to, f.data)
         /\ Measured(g, f.kind, f.from, f.to, f.data)
<1>1. CASE \E i \in 1..Len(g.states) : f = PosePrior \/ f = MotionPrior(i - 1)
  <2>1. f.kind \in {"prior", "motion"}
    BY <1>1 DEF PosePrior, MotionPrior, Factor
  <2> QED
    BY <2>1 DEF Kinds
<1>2. CASE \E t \in g.transitions : f = Factor("lio", t.from_index, t.to_index, t.lio)
  BY <1>2 DEF Measured, LioOf, WheelOf, RecordOf, Factor
<1>3. CASE \E t \in g.transitions :
             t.wheel # NoPose /\ f = Factor("wheel", t.from_index, t.to_index, t.wheel)
  BY <1>3 DEF Measured, LioOf, WheelOf, RecordOf, Factor
<1>4. CASE \E r \in g.rtk_position_records : f = Factor("gps", r.state_index, r.state_index, r.data)
  BY <1>4 DEF Measured, LioOf, WheelOf, RecordOf, Factor
<1>5. CASE \E r \in g.heading_records : f = Factor("yaw", r.state_index, r.state_index, r.data)
  BY <1>5 DEF Measured, LioOf, WheelOf, RecordOf, Factor
<1> QED
  BY <1>1, <1>2, <1>3, <1>4, <1>5 DEF Made

(* And each such record is a factor.                                         *)
LEMMA MeasuredAreFactors ==
  ASSUME NEW g, g.factors = Made(g), NEW k, NEW i, NEW j, NEW d, Measured(g, k, i, j, d)
  PROVE  Factor(k, i, j, d) \in g.factors /\ k \in Kinds
<1>1. CASE k = "lio"
  <2>1. PICK t \in g.transitions : t.from_index = i /\ t.to_index = j /\ t.lio = d
    BY <1>1 DEF Measured, LioOf
  <2> QED
    BY <1>1, <2>1 DEF Made, Kinds
<1>2. CASE k = "wheel"
  <2>1. PICK t \in g.transitions : t.from_index = i /\ t.to_index = j /\ t.wheel = d /\ d # NoPose
    BY <1>2 DEF Measured, WheelOf
  <2> QED
    BY <1>2, <2>1 DEF Made, Kinds
<1>3. CASE k = "gps"
  <2>1. PICK r \in g.rtk_position_records : i = j /\ r.state_index = i /\ r.data = d
    BY <1>3 DEF Measured, RecordOf
  <2> QED
    BY <1>3, <2>1 DEF Made, Kinds
<1>4. CASE k = "yaw"
  <2>1. PICK r \in g.heading_records : i = j /\ r.state_index = i /\ r.data = d
    BY <1>4 DEF Measured, RecordOf
  <2> QED
    BY <1>4, <2>1 DEF Made, Kinds
<1> QED
  BY <1>1, <1>2, <1>3, <1>4 DEF Measured

Linked(from, to, motion, wheel) ==
  [from_index |-> from, to_index |-> to, lio |-> motion, wheel |-> wheel]

(* A keyframe is numbered by its place, and no two have the same stamp.      *)
LEMMA NewestKeyframe ==
  ASSUME NEW g, Coherent(g), g.states # << >>
  PROVE  /\ Len(g.states) \in Nat \ {0}
         /\ Latest(g) = g.states[Len(g.states)] /\ Latest(g) \in Keyframe
         /\ Latest(g).index = Len(g.states) - 1
<1>1. g.states \in Seq(Keyframe)
  BY DEF Coherent, GraphsLike
<1>2. Len(g.states) \in Nat \ {0}
  BY <1>1, EmptySeq
<1>3. g.states[Len(g.states)] \in Keyframe
  BY <1>1, <1>2, ElementOfSeq
<1> QED
  BY <1>2, <1>3 DEF Coherent, Latest

(* A keyframe and its FAST-LIO motion enter at the end.                      *)
LEMMA ExtendGraph ==
  ASSUME NEW g, Coherent(g), g.states # << >>, NEW stamp \in Nat, Latest(g).stamp_s < stamp,
         NEW motion \in Interval
  PROVE  LET h == Extend(g, stamp, motion)
             n == Len(g.states)
         IN /\ Coherent(h)
            /\ h.states = Append(g.states, [index |-> n, stamp_s |-> stamp])
            /\ h.transitions = g.transitions \cup {Linked(n - 1, n, motion, NoPose)}
            /\ \A k, i, j, d : Measured(h, k, i, j, d) <=>
                 \/ Measured(g, k, i, j, d)
                 \/ k = "lio" /\ i = n - 1 /\ j = n /\ d = motion
<1> DEFINE h == Extend(g, stamp, motion)
           n == Len(g.states)
           t == Linked(n - 1, n, motion, NoPose)
           s == [index |-> n, stamp_s |-> stamp]
<1>1. n \in Nat \ {0} /\ Latest(g) = g.states[n] /\ Latest(g).index = n - 1
  BY NewestKeyframe
<1>2. g \in GraphsLike(g)
  BY DEF Coherent
<1>4. /\ h.states = Append(g.states, s) /\ h.transitions = g.transitions \cup {t}
      /\ h.rtk_position_records = g.rtk_position_records
      /\ h.heading_records = g.heading_records
      /\ h.factors = g.factors \cup {Factor("lio", n - 1, n, motion), MotionPrior(n)}
  BY <1>1, <1>2 DEF Extend, Linked, GraphsLike
<1>5. g.states \in Seq(Keyframe) /\ s \in Keyframe
  BY <1>1, <1>2 DEF GraphsLike, Keyframe
<1>6. /\ h.states \in Seq(Keyframe) /\ Len(h.states) = n + 1
      /\ \A i \in 1..n : h.states[i] = g.states[i]
      /\ h.states[n + 1] = s
  BY <1>1, <1>4, <1>5
<1>c. /\ \A i \in 1..n : g.states[i].index = i - 1
      /\ \A i, j \in 1..n : i < j => g.states[i].stamp_s < g.states[j].stamp_s
      /\ \A i \in 1..n : g.states[i].stamp_s \in Nat
  <2>1. \A i \in 1..n : g.states[i] \in Keyframe
    BY <1>5, ElementOfSeq
  <2> QED
    BY <2>1 DEF Coherent, Keyframe
<1>s. s.index = n /\ s.stamp_s = stamp
  OBVIOUS
<1>n. \A i \in 1..(n + 1) : i \in 1..n \/ i = n + 1
  BY <1>1
<1>7. t \in Transition /\ t.from_index = n - 1 /\ t.to_index = n /\ t.lio = motion /\ t.wheel = NoPose
  BY <1>1 DEF Linked, Transition
<1>8. \A k, i, j, d : Measured(h, k, i, j, d) <=>
         \/ Measured(g, k, i, j, d)
         \/ k = "lio" /\ i = n - 1 /\ j = n /\ d = motion
  BY <1>4, <1>7 DEF Measured, LioOf, WheelOf
<1>9. h.factors = Made(h)
  <2>1. MotionPrior((n + 1) - 1) = MotionPrior(n) /\ n + 1 \in 1..(n + 1) /\ 1..n \subseteq 1..(n + 1)
    BY <1>1
  <2>2. {MotionPrior(i - 1) : i \in 1..(n + 1)} = {MotionPrior(i - 1) : i \in 1..n} \cup {MotionPrior(n)}
    BY <1>n, <2>1, Zenon
  <2>3. {PosePrior : i \in 1..(n + 1)} = {PosePrior : i \in 1..n}
    BY <1>1
  <2>4. {Factor("lio", u.from_index, u.to_index, u.lio) : u \in h.transitions}
          = {Factor("lio", u.from_index, u.to_index, u.lio) : u \in g.transitions}
              \cup {Factor("lio", n - 1, n, motion)}
    BY <1>4, <1>7
  <2>5. {u \in h.transitions : u.wheel # NoPose} = {u \in g.transitions : u.wheel # NoPose}
    BY <1>4, <1>7
  <2>6. g.factors = Made(g)
    BY <1>2 DEF GraphsLike
  <2> HIDE DEF h, t, s
  <2> QED
    BY <1>4, <1>6, <2>2, <2>3, <2>4, <2>5, <2>6 DEF Made
<1>11. h \in GraphsLike(h)
  <2>1. Append(g.states, s) \in Seq(Keyframe)
    BY <1>5
  <2>2. g.transitions \cup {t} \in SUBSET Transition
    BY <1>2, <1>7 DEF GraphsLike
  <2>3. h \in [states : {h.states}, transitions : {h.transitions},
                rtk_position_records : {h.rtk_position_records},
                heading_records : {h.heading_records}, factors : {h.factors}]
    BY <1>1, <1>2 DEF Extend, GraphsLike
  <2>4. g.rtk_position_records \in SUBSET Record /\ g.heading_records \in SUBSET Record
    BY <1>2 DEF GraphsLike
  <2> HIDE DEF h, t, s
  <2> QED
    BY <1>4, <1>9, <2>1, <2>2, <2>3, <2>4 DEF GraphsLike
<1>12. \A i \in 1..(n + 1) : h.states[i].index = i - 1
  <2>1. \A i \in 1..n : h.states[i].index = i - 1
    BY <1>6, <1>c
  <2>2. h.states[n + 1].index = (n + 1) - 1
    BY <1>1, <1>6, <1>s
  <2> HIDE DEF h, s, n
  <2> QED
    BY <1>n, <2>1, <2>2
<1>13. \A i, j \in 1..(n + 1) : i < j => h.states[i].stamp_s < h.states[j].stamp_s
  <2> HIDE DEF h, s
  <2>1. \A i \in 1..n : h.states[i].stamp_s < stamp
    <3>1. g.states[n].stamp_s < stamp /\ n \in 1..n
      BY <1>1
    <3>2. \A i \in 1..n : i = n \/ i < n
      BY <1>1
    <3>3. \A i \in 1..n : g.states[i].stamp_s <= g.states[n].stamp_s
      BY <1>c, <3>1, <3>2
    <3>4. \A i \in 1..n : g.states[i].stamp_s < stamp
      BY <1>c, <3>1, <3>3
    <3> QED
      BY <1>6, <3>4
  <2>2. \A i, j \in 1..n : i < j => h.states[i].stamp_s < h.states[j].stamp_s
    BY <1>6, <1>c
  <2>3. h.states[n + 1].stamp_s = stamp
    BY <1>6, <1>s
  <2>4. \A i, j \in 1..(n + 1) : i < j => i \in 1..n
    BY <1>1
  <2> HIDE DEF n
  <2> QED
    BY <1>n, <2>1, <2>2, <2>3, <2>4
<1>14. \A u \in h.transitions : u.to_index = u.from_index + 1 /\ u.to_index < n + 1
  BY <1>1, <1>2, <1>4, <1>7 DEF Coherent, GraphsLike, Transition
<1>15. \A i \in 2..(n + 1) : \E u \in h.transitions : u.from_index = i - 2
  <2> SUFFICES ASSUME NEW i \in 2..(n + 1) PROVE \E u \in h.transitions : u.from_index = i - 2
    OBVIOUS
  <2>1. CASE i \in 2..n
    BY <1>4, <2>1 DEF Coherent
  <2>2. CASE i = n + 1
    BY <1>1, <1>4, <1>7, <2>2
  <2> QED
    BY <1>1, <2>1, <2>2
<1>16. \A r \in h.rtk_position_records \cup h.heading_records : r.state_index < n + 1
  BY <1>1, <1>2, <1>4 DEF Coherent, GraphsLike, Record
<1>17. Coherent(h)
  <2> HIDE DEF h
  <2> QED
    BY <1>6, <1>9, <1>11, <1>12, <1>13, <1>14, <1>15, <1>16 DEF Coherent
<1> QED
  BY <1>4, <1>8, <1>17

(* A measurement more is a factor more.                                      *)
LEMMA OneMoreFactor ==
  ASSUME NEW g, NEW h, Len(h.states) = Len(g.states), NEW kind, NEW from, NEW to, NEW data,
         \A k, i, j, d : Measured(h, k, i, j, d) <=>
            \/ Measured(g, k, i, j, d)
            \/ k = kind /\ i = from /\ j = to /\ d = data
  PROVE  Made(h) = Made(g) \cup {Factor(kind, from, to, data)}
<1> DEFINE Priors == {PosePrior : i \in 1..Len(g.states)}
                     \cup {MotionPrior(i - 1) : i \in 1..Len(g.states)}
           Others(q) == {Factor("lio", t.from_index, t.to_index, t.lio) : t \in q.transitions}
              \cup {Factor("wheel", t.from_index, t.to_index, t.wheel) :
                      t \in {t \in q.transitions : t.wheel # NoPose}}
              \cup {Factor("gps", r.state_index, r.state_index, r.data) :
                      r \in q.rtk_position_records}
              \cup {Factor("yaw", r.state_index, r.state_index, r.data) :
                      r \in q.heading_records}
<1>1. Made(g) = Priors \cup Others(g) /\ Made(h) = Priors \cup Others(h)
  BY DEF Made
<1>2. ASSUME NEW q
      PROVE  \A f : f \in Others(q) <=>
               \E k, i, j, d : Measured(q, k, i, j, d) /\ f = Factor(k, i, j, d)
  <2>1. ASSUME NEW f, f \in Others(q)
        PROVE  \E k, i, j, d : Measured(q, k, i, j, d) /\ f = Factor(k, i, j, d)
    <3>1. CASE \E t \in q.transitions : f = Factor("lio", t.from_index, t.to_index, t.lio)
      BY <3>1 DEF Measured, LioOf
    <3>2. CASE \E t \in q.transitions :
                 t.wheel # NoPose /\ f = Factor("wheel", t.from_index, t.to_index, t.wheel)
      BY <3>2 DEF Measured, WheelOf
    <3>3. CASE \E r \in q.rtk_position_records :
                 f = Factor("gps", r.state_index, r.state_index, r.data)
      BY <3>3 DEF Measured, RecordOf
    <3>4. CASE \E r \in q.heading_records :
                 f = Factor("yaw", r.state_index, r.state_index, r.data)
      BY <3>4 DEF Measured, RecordOf
    <3> QED
      BY <2>1, <3>1, <3>2, <3>3, <3>4
  <2>2. ASSUME NEW k, NEW i, NEW j, NEW d, Measured(q, k, i, j, d)
        PROVE  Factor(k, i, j, d) \in Others(q)
    BY <2>2 DEF Measured, LioOf, WheelOf, RecordOf
  <2> HIDE DEF Others
  <2> QED
    BY <2>1, <2>2
<1>3. \A f : f \in Others(h) <=> f \in Others(g) \/ f = Factor(kind, from, to, data)
  <2> HIDE DEF Others
  <2> QED
    BY <1>2
<1> HIDE DEF Others, Priors
<1> QED
  BY <1>1, <1>3

(* The wheel motion is added to the FAST-LIO motion that has just been.      *)
LEMMA WheelGraph ==
  ASSUME NEW g, Coherent(g), Len(g.states) >= 2, NEW wheel \in Interval,
         \A t \in g.transitions : t.to_index = Len(g.states) - 1 => t.wheel = NoPose
  PROVE  LET h == AddWheelPlanarFactorForLatestTransition(g, wheel)
             n == Len(g.states)
         IN /\ Coherent(h)
            /\ h.states = g.states
            /\ \A t \in h.transitions : \E u \in g.transitions :
                 /\ t.to_index = u.to_index
                 /\ t.wheel = IF t.to_index = n - 1 THEN wheel ELSE u.wheel
            /\ \A k, i, j, d : Measured(h, k, i, j, d) <=>
                 \/ Measured(g, k, i, j, d)
                 \/ k = "wheel" /\ i = n - 2 /\ j = n - 1 /\ d = wheel
<1> DEFINE h == AddWheelPlanarFactorForLatestTransition(g, wheel)
           n == Len(g.states)
           W(t) == IF t.from_index = n - 2 /\ t.to_index = n - 1
                     THEN [t EXCEPT !.wheel = wheel] ELSE t
<1>1. /\ g.states \in Seq(Keyframe) /\ n \in Nat /\ n >= 2
      /\ g \in GraphsLike(g) /\ g.transitions \in SUBSET Transition
  BY LenProperties DEF Coherent, GraphsLike
<1>2. g.states[n - 1].index = n - 2 /\ Latest(g).index = n - 1
  BY <1>1 DEF Coherent, Latest
<1>3. /\ h.states = g.states /\ h.transitions = {W(t) : t \in g.transitions}
      /\ h.rtk_position_records = g.rtk_position_records
      /\ h.heading_records = g.heading_records
      /\ h.factors = g.factors \cup {Factor("wheel", n - 2, n - 1, wheel)}
      /\ h \in [states : {h.states}, transitions : {h.transitions},
                rtk_position_records : {h.rtk_position_records},
                heading_records : {h.heading_records}, factors : {h.factors}]
  <2>1. h = [g EXCEPT !.factors = g.factors \cup {Factor("wheel", n - 2, n - 1, wheel)},
                     !.transitions = {W(t) : t \in g.transitions}]
    BY <1>1, <1>2 DEF AddWheelPlanarFactorForLatestTransition
  <2> HIDE DEF h, W
  <2> QED
    BY <1>1, <2>1 DEF GraphsLike
<1>4. wheel # NoPose
  BY DEF Interval, NoPose
<1>5. ASSUME NEW t \in g.transitions
      PROVE  /\ W(t) \in Transition
             /\ W(t).from_index = t.from_index /\ W(t).to_index = t.to_index /\ W(t).lio = t.lio
             /\ W(t).wheel = IF t.to_index = n - 1 THEN wheel ELSE t.wheel
             /\ t.to_index = t.from_index + 1 /\ t.to_index < n
             /\ t.from_index \in Nat /\ t.to_index \in Nat
  <2>1. t \in Transition /\ t.to_index = t.from_index + 1 /\ t.to_index < n
    BY <1>1 DEF Coherent
  <2> QED
    BY <1>1, <2>1 DEF Transition
<1> HIDE DEF h, W
<1>6. \A k, i, j, d : Measured(h, k, i, j, d) <=>
        \/ Measured(g, k, i, j, d)
        \/ k = "wheel" /\ i = n - 2 /\ j = n - 1 /\ d = wheel
  <2>1. PICK t \in g.transitions : t.from_index = n - 2
    BY <1>1 DEF Coherent
  <2>2. \A i, j, d : LioOf(h, i, j, d) <=> LioOf(g, i, j, d)
    BY <1>3, <1>5 DEF LioOf
  <2>3. ASSUME NEW i, NEW j, NEW d
        PROVE  WheelOf(h, i, j, d) <=>
                 WheelOf(g, i, j, d) \/ (i = n - 2 /\ j = n - 1 /\ d = wheel)
    <3>1. ASSUME NEW u \in g.transitions, u.from_index = i, u.to_index = j, u.wheel = d, d # NoPose
          PROVE  W(u).from_index = i /\ W(u).to_index = j /\ W(u).wheel = d
      BY <1>5, <3>1
    <3>2. W(t).from_index = n - 2 /\ W(t).to_index = n - 1 /\ W(t).wheel = wheel
      BY <1>1, <1>5, <2>1
    <3>3. ASSUME NEW u \in g.transitions, W(u).wheel = d
          PROVE  u.wheel = d \/ (u.from_index = n - 2 /\ u.to_index = n - 1 /\ d = wheel)
      BY <1>1, <1>5, <3>3
    <3> QED
      BY <1>3, <1>4, <1>5, <3>1, <3>2, <3>3 DEF WheelOf
  <2> QED
    BY <1>3, <2>2, <2>3 DEF Measured
<1>7. h \in GraphsLike(h)
  <2>1. Made(h) = Made(g) \cup {Factor("wheel", n - 2, n - 1, wheel)}
    <3>1. Len(h.states) = Len(g.states)
      BY <1>3
    <3> DEFINE from == n - 2  to == n - 1
    <3>2. \A k, i, j, d : Measured(h, k, i, j, d) <=>
            \/ Measured(g, k, i, j, d)
            \/ k = "wheel" /\ i = from /\ j = to /\ d = wheel
      BY <1>6
    <3> HIDE DEF from, to
    <3>3. Made(h) = Made(g) \cup {Factor("wheel", from, to, wheel)}
      BY <3>1, <3>2, OneMoreFactor
    <3> QED
      BY <3>3 DEF from, to
  <2>2. h.factors = Made(h)
    BY <1>1, <1>3, <2>1 DEF GraphsLike
  <2>3. h.transitions \in SUBSET Transition
    BY <1>3, <1>5
  <2>4. g.rtk_position_records \in SUBSET Record /\ g.heading_records \in SUBSET Record
    BY <1>1 DEF GraphsLike
  <2> QED
    BY <1>1, <1>3, <2>2, <2>3, <2>4 DEF GraphsLike
<1>8. \A t \in h.transitions : t.to_index = t.from_index + 1 /\ t.to_index < n
  BY <1>3, <1>5
<1>9. \A i \in 2..n : \E t \in h.transitions : t.from_index = i - 2
  BY <1>3, <1>5 DEF Coherent
<1>10. Coherent(h)
  BY <1>3, <1>7, <1>8, <1>9 DEF Coherent
<1>11. \A t \in h.transitions : \E u \in g.transitions :
         /\ t.to_index = u.to_index
         /\ t.wheel = IF t.to_index = n - 1 THEN wheel ELSE u.wheel
  BY <1>3, <1>5
<1> QED
  BY <1>3, <1>6, <1>10, <1>11 DEF h

(* A fix or a heading is recorded with the newest keyframe.                  *)
LEMMA FixGraph ==
  ASSUME NEW g, Coherent(g), g.states # << >>, NEW data \in Interval
  PROVE  LET h == ShadowRtkCommit(g, data)
             n == Len(g.states)
         IN /\ Coherent(h)
            /\ h.states = g.states /\ h.transitions = g.transitions
            /\ \A k, i, j, d : Measured(h, k, i, j, d) <=>
                 \/ Measured(g, k, i, j, d)
                 \/ k = "gps" /\ i = n - 1 /\ j = n - 1 /\ d = data
<1> DEFINE h == ShadowRtkCommit(g, data)
           n == Len(g.states)
           r == [state_index |-> n - 1, data |-> data]
<1>1. n \in Nat \ {0} /\ Latest(g).index = n - 1
  BY NewestKeyframe
<1>2. g \in GraphsLike(g)
  BY DEF Coherent
<1>3. /\ h.states = g.states /\ h.transitions = g.transitions
      /\ h.rtk_position_records = g.rtk_position_records \cup {r}
      /\ h.heading_records = g.heading_records
      /\ h.factors = g.factors \cup {Factor("gps", n - 1, n - 1, data)}
      /\ h \in [states : {h.states}, transitions : {h.transitions},
                rtk_position_records : {h.rtk_position_records},
                heading_records : {h.heading_records}, factors : {h.factors}]
  BY <1>1, <1>2 DEF ShadowRtkCommit, GraphsLike
<1>4. r \in Record /\ r.state_index = n - 1 /\ r.data = data
  BY <1>1 DEF Record
<1> HIDE DEF h, r
<1>5. \A k, i, j, d : Measured(h, k, i, j, d) <=>
        \/ Measured(g, k, i, j, d)
        \/ k = "gps" /\ i = n - 1 /\ j = n - 1 /\ d = data
  BY <1>3, <1>4 DEF Measured, LioOf, WheelOf, RecordOf
<1>6. h \in GraphsLike(h)
  <2>1. Made(h) = Made(g) \cup {Factor("gps", n - 1, n - 1, data)}
    BY <1>3, <1>5, OneMoreFactor
  <2>2. h.factors = Made(h)
    BY <1>2, <1>3, <2>1 DEF GraphsLike
  <2> QED
    BY <1>2, <1>3, <1>4, <2>2 DEF GraphsLike
<1>7. \A s \in h.rtk_position_records \cup h.heading_records : s.state_index < n
  BY <1>1, <1>3, <1>4 DEF Coherent
<1>8. Coherent(h)
  BY <1>3, <1>6, <1>7 DEF Coherent
<1> QED
  BY <1>3, <1>5, <1>8 DEF h

(* The same for a heading.                                                   *)
LEMMA HeadingGraph ==
  ASSUME NEW g, Coherent(g), g.states # << >>, NEW data \in Interval
  PROVE  LET h == AddRtkHeading(g, data)
             n == Len(g.states)
         IN /\ Coherent(h)
            /\ h.states = g.states /\ h.transitions = g.transitions
            /\ \A k, i, j, d : Measured(h, k, i, j, d) <=>
                 \/ Measured(g, k, i, j, d)
                 \/ k = "yaw" /\ i = n - 1 /\ j = n - 1 /\ d = data
<1> DEFINE h == AddRtkHeading(g, data)
           n == Len(g.states)
           r == [state_index |-> n - 1, data |-> data]
<1>1. n \in Nat \ {0} /\ Latest(g).index = n - 1
  BY NewestKeyframe
<1>2. g \in GraphsLike(g)
  BY DEF Coherent
<1>3. /\ h.states = g.states /\ h.transitions = g.transitions
      /\ h.rtk_position_records = g.rtk_position_records
      /\ h.heading_records = g.heading_records \cup {r}
      /\ h.factors = g.factors \cup {Factor("yaw", n - 1, n - 1, data)}
      /\ h \in [states : {h.states}, transitions : {h.transitions},
                rtk_position_records : {h.rtk_position_records},
                heading_records : {h.heading_records}, factors : {h.factors}]
  BY <1>1, <1>2 DEF AddRtkHeading, GraphsLike
<1>4. r \in Record /\ r.state_index = n - 1 /\ r.data = data
  BY <1>1 DEF Record
<1> HIDE DEF h, r
<1>5. \A k, i, j, d : Measured(h, k, i, j, d) <=>
        \/ Measured(g, k, i, j, d)
        \/ k = "yaw" /\ i = n - 1 /\ j = n - 1 /\ d = data
  BY <1>3, <1>4 DEF Measured, LioOf, WheelOf, RecordOf
<1>6. h \in GraphsLike(h)
  <2>1. Made(h) = Made(g) \cup {Factor("yaw", n - 1, n - 1, data)}
    BY <1>3, <1>5, OneMoreFactor
  <2>2. h.factors = Made(h)
    BY <1>2, <1>3, <2>1 DEF GraphsLike
  <2> QED
    BY <1>2, <1>3, <1>4, <2>2 DEF GraphsLike
<1>7. \A s \in h.rtk_position_records \cup h.heading_records : s.state_index < n
  BY <1>1, <1>3, <1>4 DEF Coherent
<1>8. Coherent(h)
  BY <1>3, <1>6, <1>7 DEF Coherent
<1> QED
  BY <1>3, <1>5, <1>8 DEF h

(* Dropping the oldest keyframe moves every number down by one, and drops    *)
(* what was measured at or from that keyframe.                               *)
LEMMA RebuiltGraph ==
  ASSUME NEW g, Coherent(g), Len(g.states) = max_states + 1
  PROVE  LET h == RebuildActiveWindow(g)
         IN /\ Coherent(h) /\ Len(h.states) = max_states
            /\ \A i \in 1..max_states :
                 h.states[i] = [index |-> i - 1, stamp_s |-> g.states[i + 1].stamp_s]
            /\ \A t \in h.transitions : \E u \in g.transitions :
                 u.to_index = t.to_index + 1 /\ t.wheel = u.wheel
            /\ \A k, i, j, d : Measured(h, k, i, j, d) <=>
                 i \in Nat /\ j \in Nat /\ Measured(g, k, i + 1, j + 1, d)
<1> DEFINE h == RebuildActiveWindow(g)
           n == max_states
           Down(r) == [r EXCEPT !.state_index = @ - 1]
           DownT(t) == [t EXCEPT !.from_index = @ - 1, !.to_index = @ - 1]
<1>1. n \in Nat /\ n >= 2
  BY GraphAssumption
<1>2. /\ g \in GraphsLike(g) /\ g.states \in Seq(Keyframe)
      /\ g.transitions \in SUBSET Transition
      /\ g.rtk_position_records \in SUBSET Record /\ g.heading_records \in SUBSET Record
  BY DEF Coherent, GraphsLike
<1>3. \A i \in 1..(n + 1) : g.states[i] \in Keyframe /\ g.states[i].index = i - 1
  <2>1. \A i \in 1..(n + 1) : g.states[i] \in Keyframe
    BY <1>2, ElementOfSeq
  <2> QED
    BY <2>1 DEF Coherent
<1>4. /\ Kept(g) \in Seq(Keyframe) /\ Len(Kept(g)) = n
      /\ \A i \in 1..n : Kept(g)[i] = g.states[i + 1]
  <2>1. Kept(g) = SubSeq(g.states, 2, n + 1)
    <3>1. Keep(g) = n
      BY <1>1 DEF Keep
    <3>2. (n + 1) - n + 1 = 2
      BY <1>1
    <3> QED
      BY <3>1, <3>2 DEF Kept
  <2>2. 2 \in Int /\ n + 1 \in Int /\ (n + 1) - 2 + 1 = n /\ 2 <= n + 1
    BY <1>1
  <2>3. \A i \in 2..(n + 1) : g.states[i] \in Keyframe
    BY <1>1, <1>3
  <2>4. /\ SubSeq(g.states, 2, n + 1) \in Seq(Keyframe)
        /\ Len(SubSeq(g.states, 2, n + 1)) = n
        /\ \A i \in 1..n : SubSeq(g.states, 2, n + 1)[i] = g.states[2 + i - 1]
    BY <2>2, <2>3, SubSeqProperties
  <2>5. \A i \in 1..n : 2 + i - 1 = i + 1
    BY <1>1
  <2> QED
    BY <2>1, <2>4, <2>5
<1>5. FirstKept(g) = 1
  <2>1. 1 \in 1..n /\ 1 + 1 \in 1..(n + 1) /\ (1 + 1) - 1 = 1
    BY <1>1
  <2> QED
    BY <1>3, <1>4, <2>1 DEF FirstKept
<1>6. \A i \in Nat : Fits(i, g) <=> i >= 1 /\ i - 1 < n
  BY <1>4, <1>5 DEF Fits
<1>7. ASSUME NEW records \in SUBSET Record
      PROVE  Moved(records, g) = {Down(r) : r \in {r \in records : r.state_index >= 1 /\ r.state_index - 1 < n}}
  <2>1. \A r \in records : Fits(r.state_index, g) <=> r.state_index >= 1 /\ r.state_index - 1 < n
    BY <1>6 DEF Record
  <2> QED
    BY <2>1, <1>5 DEF Moved
<1>8. MovedTransitions(g) = {DownT(t) : t \in {t \in g.transitions : t.from_index >= 1}}
  <2>1. \A t \in g.transitions : Fits(t.from_index, g) /\ Fits(t.to_index, g) <=> t.from_index >= 1
    <3> SUFFICES ASSUME NEW t \in g.transitions
                 PROVE  Fits(t.from_index, g) /\ Fits(t.to_index, g) <=> t.from_index >= 1
      OBVIOUS
    <3>1. t.from_index \in Nat /\ t.to_index = t.from_index + 1 /\ t.to_index < n + 1
      BY <1>2 DEF Coherent, Transition
    <3> QED
      BY <3>1, <1>1, <1>6
  <2> QED
    BY <2>1, <1>5 DEF MovedTransitions
<1>9. ASSUME NEW t \in g.transitions, t.from_index >= 1
      PROVE  /\ DownT(t) \in Transition /\ DownT(t).from_index = t.from_index - 1
             /\ DownT(t).to_index = t.to_index - 1
             /\ DownT(t).lio = t.lio /\ DownT(t).wheel = t.wheel
             /\ t.from_index \in Nat /\ t.to_index = t.from_index + 1 /\ t.to_index < n + 1
  <2>1. t \in Transition /\ t.to_index = t.from_index + 1 /\ t.to_index < n + 1
    BY <1>2 DEF Coherent
  <2>2. t.from_index \in Nat /\ t.to_index \in Nat /\ t.lio \in Interval
        /\ t.wheel \in Interval \cup {NoPose}
    BY <2>1 DEF Transition
  <2>3. /\ DownT(t).from_index = t.from_index - 1 /\ DownT(t).to_index = t.to_index - 1
        /\ DownT(t).lio = t.lio /\ DownT(t).wheel = t.wheel
        /\ DownT(t) \in [from_index : {t.from_index - 1}, to_index : {t.to_index - 1},
                         lio : {t.lio}, wheel : {t.wheel}]
    BY <2>1 DEF Transition
  <2>4. t.from_index - 1 \in Nat /\ t.to_index - 1 \in Nat
    BY <1>9, <2>1, <2>2
  <2> HIDE DEF DownT
  <2>5. DownT(t) \in Transition
    BY <2>2, <2>3, <2>4 DEF Transition
  <2> QED
    BY <2>1, <2>2, <2>3, <2>5
<1>10. ASSUME NEW r \in g.rtk_position_records \cup g.heading_records, r.state_index >= 1
       PROVE  /\ Down(r) \in Record /\ Down(r).state_index = r.state_index - 1
              /\ Down(r).data = r.data /\ r.state_index \in Nat
              /\ r.state_index - 1 < n
  <2>1. r \in Record /\ r.state_index < n + 1
    BY <1>2 DEF Coherent
  <2> QED
    BY <1>1, <1>10, <2>1 DEF Record
<1> HIDE DEF Down, DownT
<1>11. /\ h.states = [i \in 1..n |-> [index |-> i - 1, stamp_s |-> Kept(g)[i].stamp_s]]
       /\ h.transitions = MovedTransitions(g)
       /\ h.rtk_position_records = Moved(g.rtk_position_records, g)
       /\ h.heading_records = Moved(g.heading_records, g)
       /\ h \in [states : {h.states}, transitions : {h.transitions},
                 rtk_position_records : {h.rtk_position_records},
                 heading_records : {h.heading_records}, factors : {h.factors}]
  BY <1>4 DEF RebuildActiveWindow
<1>12. /\ h.states \in Seq(Keyframe) /\ Len(h.states) = n
       /\ \A i \in 1..n : h.states[i] = [index |-> i - 1, stamp_s |-> g.states[i + 1].stamp_s]
  <2>1. \A i \in 1..n : [index |-> i - 1, stamp_s |-> Kept(g)[i].stamp_s] \in Keyframe
    <3>1. \A i \in 1..n : i + 1 \in 1..(n + 1) /\ i - 1 \in Nat
      BY <1>1
    <3> QED
      BY <3>1, <1>3, <1>4 DEF Keyframe
  <2>2. h.states \in [1..n -> Keyframe]
    BY <1>11, <2>1
  <2>3. h.states \in Seq(Keyframe)
    BY <1>1, <2>2, SeqDef
  <2>4. Len(h.states) = n
    BY <1>1, <2>2
  <2>5. \A i \in 1..n : h.states[i] = [index |-> i - 1, stamp_s |-> Kept(g)[i].stamp_s]
    BY <1>11
  <2> QED
    BY <1>4, <2>3, <2>4, <2>5
<1>13. ASSUME NEW i, NEW j, NEW d
       PROVE  LioOf(h, i, j, d) <=> i \in Nat /\ j \in Nat /\ LioOf(g, i + 1, j + 1, d)
  <2>1. ASSUME LioOf(h, i, j, d)
        PROVE  i \in Nat /\ j \in Nat /\ LioOf(g, i + 1, j + 1, d)
    <3>1. PICK v \in g.transitions :
            /\ v.from_index >= 1
            /\ DownT(v).from_index = i /\ DownT(v).to_index = j /\ DownT(v).lio = d
      BY <2>1, <1>8, <1>11 DEF LioOf
    <3> QED
      BY <3>1, <1>9 DEF LioOf
  <2>2. ASSUME i \in Nat, j \in Nat, LioOf(g, i + 1, j + 1, d)
        PROVE  LioOf(h, i, j, d)
    <3>1. PICK v \in g.transitions : v.from_index = i + 1 /\ v.to_index = j + 1 /\ v.lio = d
      BY <2>2 DEF LioOf
    <3>2. v.from_index >= 1 /\ DownT(v) \in h.transitions
      BY <2>2, <3>1, <1>8, <1>11
    <3>3. DownT(v).from_index = i /\ DownT(v).to_index = j /\ DownT(v).lio = d
      BY <2>2, <3>1, <3>2, <1>9
    <3> HIDE DEF h
    <3> QED
      BY <3>2, <3>3 DEF LioOf
  <2> QED
    BY <2>1, <2>2
<1>14. ASSUME NEW i, NEW j, NEW d
       PROVE  WheelOf(h, i, j, d) <=> i \in Nat /\ j \in Nat /\ WheelOf(g, i + 1, j + 1, d)
  <2>1. ASSUME WheelOf(h, i, j, d)
        PROVE  i \in Nat /\ j \in Nat /\ WheelOf(g, i + 1, j + 1, d)
    <3>1. PICK v \in g.transitions :
            /\ v.from_index >= 1 /\ d # NoPose
            /\ DownT(v).from_index = i /\ DownT(v).to_index = j /\ DownT(v).wheel = d
      BY <2>1, <1>8, <1>11 DEF WheelOf
    <3> QED
      BY <3>1, <1>9 DEF WheelOf
  <2>2. ASSUME i \in Nat, j \in Nat, WheelOf(g, i + 1, j + 1, d)
        PROVE  WheelOf(h, i, j, d)
    <3>1. PICK v \in g.transitions :
            v.from_index = i + 1 /\ v.to_index = j + 1 /\ v.wheel = d /\ d # NoPose
      BY <2>2 DEF WheelOf
    <3>2. v.from_index >= 1 /\ DownT(v) \in h.transitions
      BY <2>2, <3>1, <1>8, <1>11
    <3>3. DownT(v).from_index = i /\ DownT(v).to_index = j /\ DownT(v).wheel = d
      BY <2>2, <3>1, <3>2, <1>9
    <3> HIDE DEF h
    <3> QED
      BY <3>1, <3>2, <3>3 DEF WheelOf
  <2> QED
    BY <2>1, <2>2
<1>15. ASSUME NEW old \in {g.rtk_position_records, g.heading_records}, NEW i, NEW d
       PROVE  RecordOf(Moved(old, g), i, d) <=> i \in Nat /\ RecordOf(old, i + 1, d)
  <2>0. Moved(old, g) = {Down(r) : r \in {r \in old : r.state_index >= 1 /\ r.state_index - 1 < n}}
    BY <1>2, <1>7
  <2>1. ASSUME RecordOf(Moved(old, g), i, d)
        PROVE  i \in Nat /\ RecordOf(old, i + 1, d)
    <3>1. PICK r \in old : r.state_index >= 1 /\ Down(r).state_index = i /\ Down(r).data = d
      BY <2>0, <2>1 DEF RecordOf
    <3> QED
      BY <3>1, <1>10 DEF RecordOf
  <2>2. ASSUME i \in Nat, RecordOf(old, i + 1, d)
        PROVE  RecordOf(Moved(old, g), i, d)
    <3>1. PICK r \in old : r.state_index = i + 1 /\ r.data = d
      BY <2>2 DEF RecordOf
    <3>2. r.state_index >= 1 /\ Down(r) \in Moved(old, g)
      BY <2>0, <2>2, <3>1, <1>10
    <3> QED
      BY <2>2, <3>1, <3>2, <1>10 DEF RecordOf
  <2> QED
    BY <2>1, <2>2
<1>16. \A k, i, j, d : Measured(h, k, i, j, d) <=>
         i \in Nat /\ j \in Nat /\ Measured(g, k, i + 1, j + 1, d)
  <2> SUFFICES ASSUME NEW k, NEW i, NEW j, NEW d
               PROVE  Measured(h, k, i, j, d) <=>
                        i \in Nat /\ j \in Nat /\ Measured(g, k, i + 1, j + 1, d)
    OBVIOUS
  <2>1. /\ RecordOf(h.rtk_position_records, i, d)
             <=> i \in Nat /\ RecordOf(g.rtk_position_records, i + 1, d)
        /\ RecordOf(h.heading_records, i, d)
             <=> i \in Nat /\ RecordOf(g.heading_records, i + 1, d)
    BY <1>11, <1>15
  <2>2. i \in Nat /\ j \in Nat => (i + 1 = j + 1 <=> i = j)
    OBVIOUS
  <2> QED
    BY <1>13, <1>14, <2>1, <2>2 DEF Measured
<1>17. h.factors = Made(h)
  <2>1. 1 \in 1..n
    BY <1>1
  <2>2. {PosePrior} = {PosePrior : i \in 1..n}
    BY <2>1
  <2> QED
    BY <2>2, <1>4, <1>11, <1>12 DEF RebuildActiveWindow, Made
<1> HIDE DEF h
<1>18. h \in GraphsLike(h)
  <2>1. h.transitions \in SUBSET Transition
    BY <1>8, <1>9, <1>11
  <2>2. \A q \in {g.rtk_position_records, g.heading_records} : Moved(q, g) \in SUBSET Record
    BY <1>2, <1>7, <1>10
  <2>3. h.rtk_position_records \in SUBSET Record /\ h.heading_records \in SUBSET Record
    BY <1>11, <2>2
  <2> QED
    BY <1>11, <1>12, <1>17, <2>1, <2>3 DEF GraphsLike
<1>19. \A i \in 1..n : h.states[i].index = i - 1 /\ h.states[i].stamp_s = g.states[i + 1].stamp_s
  <2> SUFFICES ASSUME NEW i \in 1..n
               PROVE  h.states[i].index = i - 1 /\ h.states[i].stamp_s = g.states[i + 1].stamp_s
    OBVIOUS
  <2>1. h.states[i] = [index |-> i - 1, stamp_s |-> g.states[i + 1].stamp_s]
    BY <1>12
  <2> QED
    BY <2>1
<1>20. \A i, j \in 1..n : i < j => h.states[i].stamp_s < h.states[j].stamp_s
  <2>1. \A i \in 1..n : i + 1 \in 1..(n + 1) /\ h.states[i].stamp_s = g.states[i + 1].stamp_s
    BY <1>1, <1>19
  <2>2. \A i, j \in 1..n : i < j => i + 1 < j + 1
    BY <1>1
  <2> QED
    BY <2>1, <2>2 DEF Coherent
<1>21. \A t \in h.transitions : t.to_index = t.from_index + 1 /\ t.to_index < n
  <2> SUFFICES ASSUME NEW t \in h.transitions
               PROVE  t.to_index = t.from_index + 1 /\ t.to_index < n
    OBVIOUS
  <2>1. PICK v \in g.transitions : v.from_index >= 1 /\ t = DownT(v)
    BY <1>8, <1>11
  <2> QED
    BY <1>1, <2>1, <1>9
<1>22. \A i \in 2..n : \E t \in h.transitions : t.from_index = i - 2
  <2> SUFFICES ASSUME NEW i \in 2..n PROVE \E t \in h.transitions : t.from_index = i - 2
    OBVIOUS
  <2>1. i + 1 \in 2..(n + 1) /\ (i + 1) - 2 = i - 1 /\ i - 1 >= 1
    BY <1>1
  <2>2. PICK v \in g.transitions : v.from_index = (i + 1) - 2
    BY <2>1 DEF Coherent
  <2>3. v.from_index = i - 1 /\ v.from_index >= 1 /\ v.from_index - 1 = i - 2
    BY <2>1, <2>2
  <2>4. DownT(v) \in h.transitions /\ DownT(v).from_index = i - 2
    BY <2>3, <1>8, <1>9, <1>11
  <2> QED
    BY <2>4
<1>23. \A r \in h.rtk_position_records \cup h.heading_records : r.state_index < n
  <2> SUFFICES ASSUME NEW old \in {g.rtk_position_records, g.heading_records},
                      NEW q \in Moved(old, g)
               PROVE  q.state_index < n
    BY <1>11
  <2>1. PICK r \in old : r.state_index >= 1 /\ q = Down(r)
    BY <1>2, <1>7
  <2> QED
    BY <2>1, <1>10
<1>24. Coherent(h)
  BY <1>12, <1>18, <1>19, <1>20, <1>21, <1>22, <1>23 DEF Coherent
<1>25. \A t \in h.transitions : \E u \in g.transitions :
         u.to_index = t.to_index + 1 /\ t.wheel = u.wheel
  <2> SUFFICES ASSUME NEW t \in h.transitions
               PROVE  \E u \in g.transitions : u.to_index = t.to_index + 1 /\ t.wheel = u.wheel
    OBVIOUS
  <2>1. PICK v \in g.transitions : v.from_index >= 1 /\ t = DownT(v)
    BY <1>8, <1>11
  <2>2. v.to_index = t.to_index + 1 /\ t.wheel = v.wheel
    BY <2>1, <1>9
  <2> QED
    BY <2>2
<1> QED
  BY <1>12, <1>16, <1>24, <1>25 DEF h

(* What is measured lies at or between keyframes of the window.              *)
LEMMA MeasuredInWindow ==
  ASSUME NEW g, Coherent(g), NEW k, NEW i, NEW j, NEW d, Measured(g, k, i, j, d)
  PROVE  i \in 0..(Len(g.states) - 1) /\ j \in 0..(Len(g.states) - 1)
<1> DEFINE n == Len(g.states)
<1>1. n \in Nat
  BY LenProperties DEF Coherent, GraphsLike
<1>2. CASE LioOf(g, i, j, d) \/ WheelOf(g, i, j, d)
  <2>1. PICK t \in g.transitions : t.from_index = i /\ t.to_index = j
    BY <1>2 DEF LioOf, WheelOf
  <2>2. t \in Transition /\ t.to_index = t.from_index + 1 /\ t.to_index < n
    BY DEF Coherent, GraphsLike
  <2> QED
    BY <1>1, <2>1, <2>2 DEF Transition
<1>3. CASE i = j /\ (RecordOf(g.rtk_position_records, i, d) \/ RecordOf(g.heading_records, i, d))
  <2>1. PICK r \in g.rtk_position_records \cup g.heading_records : r.state_index = i
    BY <1>3 DEF RecordOf
  <2>2. r \in Record /\ r.state_index < n
    BY DEF Coherent, GraphsLike
  <2> QED
    BY <1>1, <1>3, <2>1, <2>2 DEF Record
<1> QED
  BY <1>2, <1>3 DEF Measured

(* How many keyframes leave when one enters.                                 *)
Leaving(g) == IF Len(g.states) < max_states THEN 0 ELSE 1

(* addFastLioBetween on a graph that is within its window.                   *)
LEMMA ExtendedGraph ==
  ASSUME NEW g, Coherent(g), g.states # << >>, Len(g.states) <= max_states,
         NEW stamp \in Nat, Latest(g).stamp_s < stamp, NEW motion \in Interval
  PROVE  LET p == AddFastLioBetween(g, stamp, motion)
             n == Len(g.states)
             o == Leaving(g)
         IN /\ Coherent(p) /\ Len(p.states) = n + 1 - o /\ n + 1 - o >= 2
            /\ Len(p.states) <= max_states
            /\ \A i \in 1..(n - o) : p.states[i].stamp_s = g.states[i + o].stamp_s
            /\ p.states[n + 1 - o].stamp_s = stamp
            /\ \A t \in p.transitions :
                 \/ t.to_index = n - o /\ t.wheel = NoPose
                 \/ \E u \in g.transitions : u.to_index = t.to_index + o /\ u.wheel = t.wheel
            /\ \A k, i, j, d : Measured(p, k, i, j, d) <=>
                 /\ i \in Nat /\ j \in Nat
                 /\ \/ Measured(g, k, i + o, j + o, d)
                    \/ k = "lio" /\ i = n - 1 - o /\ j = n - o /\ d = motion
<1> DEFINE p == AddFastLioBetween(g, stamp, motion)
           e == Extend(g, stamp, motion)
           n == Len(g.states)
           new == Linked(n - 1, n, motion, NoPose)
           s == [index |-> n, stamp_s |-> stamp]
<1>0. n \in Nat \ {0} /\ max_states \in Nat /\ max_states >= 2 /\ n <= max_states
  BY NewestKeyframe, GraphAssumption
<1>1. /\ Coherent(e)
      /\ e.states = Append(g.states, s) /\ e.transitions = g.transitions \cup {new}
      /\ \A k, i, j, d : Measured(e, k, i, j, d) <=>
           \/ Measured(g, k, i, j, d)
           \/ k = "lio" /\ i = n - 1 /\ j = n /\ d = motion
  BY ExtendGraph
<1>2. /\ Len(e.states) = n + 1
      /\ \A i \in 1..n : e.states[i] = g.states[i]
      /\ e.states[n + 1].stamp_s = stamp
  <2>1. g.states \in Seq(Keyframe)
    BY DEF Coherent, GraphsLike
  <2> QED
    BY <1>0, <1>1, <2>1
<1>3. new.to_index = n /\ new.wheel = NoPose
  BY DEF Linked
<1>4. \A k, i, j, d : Measured(g, k, i, j, d) => i \in Nat /\ j \in Nat
  BY <1>0, MeasuredInWindow
<1> HIDE DEF e, new, s
<1>5. CASE n < max_states
  <2>1. p = e
    BY <1>0, <1>2, <1>5 DEF AddFastLioBetween, PruneIfNeeded, e
  <2>2. Leaving(g) = 0
    BY <1>5 DEF Leaving
  <2>3. \A i \in Nat : i + 0 = i
    OBVIOUS
  <2>4. n + 1 - 0 = n + 1 /\ n - 0 = n /\ n - 1 - 0 = n - 1
    BY <1>0
  <2>5. \A k, i, j, d : Measured(p, k, i, j, d) <=>
          /\ i \in Nat /\ j \in Nat
          /\ \/ Measured(g, k, i + 0, j + 0, d)
             \/ k = "lio" /\ i = n - 1 - 0 /\ j = n - 0 /\ d = motion
    BY <1>0, <1>1, <1>4, <2>1, <2>3, <2>4
  <2>6. \A t \in p.transitions :
          \/ t.to_index = n - 0 /\ t.wheel = NoPose
          \/ \E u \in g.transitions : u.to_index = t.to_index + 0 /\ u.wheel = t.wheel
    <3>1. \A u \in g.transitions : u.to_index \in Nat
      BY DEF Coherent, GraphsLike, Transition
    <3> QED
      BY <1>1, <1>3, <2>1, <2>3, <2>4, <3>1
  <2>7. \A i \in 1..(n - 0) : p.states[i].stamp_s = g.states[i + 0].stamp_s
    BY <1>0, <1>2, <2>1, <2>4
  <2>8. Coherent(p) /\ Len(p.states) = n + 1 - 0 /\ n + 1 - 0 >= 2 /\ Len(p.states) <= max_states
        /\ p.states[n + 1 - 0].stamp_s = stamp
    BY <1>0, <1>1, <1>2, <1>5, <2>1, <2>4
  <2> HIDE DEF p
  <2> QED
    BY <2>2, <2>5, <2>6, <2>7, <2>8 DEF p
<1>6. CASE n = max_states
  <2>1. p = RebuildActiveWindow(e)
    BY <1>0, <1>2, <1>6 DEF AddFastLioBetween, PruneIfNeeded, e
  <2>2. Leaving(g) = 1
    BY <1>6 DEF Leaving
  <2>3. /\ Coherent(p) /\ Len(p.states) = n
        /\ \A i \in 1..n : p.states[i] = [index |-> i - 1, stamp_s |-> e.states[i + 1].stamp_s]
        /\ \A t \in p.transitions : \E u \in e.transitions :
             u.to_index = t.to_index + 1 /\ t.wheel = u.wheel
        /\ \A k, i, j, d : Measured(p, k, i, j, d) <=>
             i \in Nat /\ j \in Nat /\ Measured(e, k, i + 1, j + 1, d)
    <3>1. Coherent(e) /\ Len(e.states) = max_states + 1
      BY <1>1, <1>2, <1>6
    <3> HIDE DEF n, p
    <3> QED
      BY <1>6, <2>1, <3>1, RebuiltGraph
  <2> HIDE DEF p
  <2>4. n + 1 - 1 = n /\ n - 1 - 1 = n - 2
    BY <1>0
  <2>5. \A k, i, j, d : Measured(p, k, i, j, d) <=>
          /\ i \in Nat /\ j \in Nat
          /\ \/ Measured(g, k, i + 1, j + 1, d)
             \/ k = "lio" /\ i = n - 1 - 1 /\ j = n - 1 /\ d = motion
    <3> SUFFICES ASSUME NEW k, NEW i \in Nat, NEW j \in Nat, NEW d
                 PROVE  Measured(p, k, i, j, d) <=>
                          \/ Measured(g, k, i + 1, j + 1, d)
                          \/ k = "lio" /\ i = n - 1 - 1 /\ j = n - 1 /\ d = motion
      BY <2>3
    <3>1. (i + 1 = n - 1 <=> i = n - 1 - 1) /\ (j + 1 = n <=> j = n - 1)
      BY <1>0
    <3> QED
      BY <1>1, <2>3, <3>1
  <2>6. \A t \in p.transitions :
          \/ t.to_index = n - 1 /\ t.wheel = NoPose
          \/ \E u \in g.transitions : u.to_index = t.to_index + 1 /\ u.wheel = t.wheel
    <3> SUFFICES ASSUME NEW t \in p.transitions
                 PROVE  \/ t.to_index = n - 1 /\ t.wheel = NoPose
                        \/ \E u \in g.transitions : u.to_index = t.to_index + 1 /\ u.wheel = t.wheel
      OBVIOUS
    <3>1. PICK u \in e.transitions : u.to_index = t.to_index + 1 /\ t.wheel = u.wheel
      BY <2>3
    <3>2. t.to_index \in Nat
      BY <2>3 DEF Coherent, GraphsLike, Transition
    <3>3. CASE u = new
      BY <1>0, <1>3, <3>1, <3>2, <3>3
    <3> QED
      BY <1>1, <3>1, <3>3
  <2>7. \A i \in 1..n : p.states[i].stamp_s = e.states[i + 1].stamp_s
    <3> SUFFICES ASSUME NEW i \in 1..n PROVE p.states[i].stamp_s = e.states[i + 1].stamp_s
      OBVIOUS
    <3>1. p.states[i] = [index |-> i - 1, stamp_s |-> e.states[i + 1].stamp_s]
      BY <2>3
    <3> QED
      BY <3>1
  <2>8. \A i \in 1..(n - 1) : p.states[i].stamp_s = g.states[i + 1].stamp_s
    <3>1. \A i \in 1..(n - 1) : i \in 1..n /\ i + 1 \in 1..n
      BY <1>0
    <3> QED
      BY <1>2, <2>7, <3>1
  <2>9. Coherent(p) /\ Len(p.states) = n + 1 - 1 /\ n + 1 - 1 >= 2 /\ Len(p.states) <= max_states
        /\ p.states[n + 1 - 1].stamp_s = stamp
    BY <1>0, <1>2, <1>6, <2>3, <2>4, <2>7
  <2> QED
    BY <2>2, <2>5, <2>6, <2>8, <2>9 DEF p
<1> QED
  BY <1>0, <1>5, <1>6

-----------------------------------------------------------------------------
(* The keyframes by their stamps, and what was measured at and between them. *)
WindowOf(g) == [i \in 1..Len(g.states) |-> g.states[i].stamp_s]

Read(g, k, i, j, d) ==
  [kind |-> k, from |-> g.states[i + 1].stamp_s, to |-> g.states[j + 1].stamp_s, data |-> d]

MeasurementsOf(g) ==
  {[kind |-> f.kind, from |-> g.states[f.from + 1].stamp_s,
    to |-> g.states[f.to + 1].stamp_s, data |-> f.data] :
     f \in {f \in g.factors : f.kind \notin {"prior", "motion"}}}

(* They are what the records say, read with the stamps.                      *)
LEMMA MeasurementsAreRead ==
  ASSUME NEW g, Coherent(g)
  PROVE  \A m : m \in MeasurementsOf(g) <=>
           \E k, i, j, d : Measured(g, k, i, j, d) /\ m = Read(g, k, i, j, d)
<1>1. g.factors = Made(g)
  BY DEF Coherent, GraphsLike
<1>2. ASSUME NEW m, m \in MeasurementsOf(g)
      PROVE  \E k, i, j, d : Measured(g, k, i, j, d) /\ m = Read(g, k, i, j, d)
  <2>1. PICK f \in g.factors :
          f.kind \notin {"prior", "motion"} /\ m = Read(g, f.kind, f.from, f.to, f.data)
    BY <1>2 DEF MeasurementsOf, Read
  <2>2. f.kind \in Kinds
    <3>1. \A i : PosePrior.kind = "prior" /\ MotionPrior(i).kind = "motion"
      BY DEF PosePrior, MotionPrior, Factor
    <3>2. \A k, i, j, d : Factor(k, i, j, d).kind = k
      BY DEF Factor
    <3> QED
      BY <1>1, <2>1, <3>1, <3>2 DEF Made, Kinds
  <2>3. Measured(g, f.kind, f.from, f.to, f.data)
    BY <1>1, <2>2, FactorsAreMeasured
  <2> QED
    BY <2>1, <2>3
<1>3. ASSUME NEW k, NEW i, NEW j, NEW d, Measured(g, k, i, j, d)
      PROVE  Read(g, k, i, j, d) \in MeasurementsOf(g)
  <2>1. Factor(k, i, j, d) \in g.factors /\ k \in Kinds
    BY <1>1, <1>3, MeasuredAreFactors
  <2> DEFINE f == Factor(k, i, j, d)
  <2>2. f.kind = k /\ f.from = i /\ f.to = j /\ f.data = d
    BY DEF Factor
  <2>3. k \notin {"prior", "motion"}
    BY <2>1 DEF Kinds
  <2> HIDE DEF f
  <2>4. f \in {q \in g.factors : q.kind \notin {"prior", "motion"}}
    BY <2>1, <2>2, <2>3 DEF f
  <2>5. Read(g, k, i, j, d) = [kind |-> f.kind, from |-> g.states[f.from + 1].stamp_s,
                               to |-> g.states[f.to + 1].stamp_s, data |-> f.data]
    BY <2>2 DEF Read
  <2> QED
    BY <2>4, <2>5 DEF MeasurementsOf
<1> QED
  BY <1>2, <1>3

(* The window is as long as the graph.                                       *)
LEMMA WindowIsSeq ==
  ASSUME NEW g, Coherent(g)
  PROVE  /\ WindowOf(g) \in Seq(Nat) /\ Len(WindowOf(g)) = Len(g.states)
         /\ Len(g.states) \in Nat
         /\ \A i \in 1..Len(g.states) : WindowOf(g)[i] = g.states[i].stamp_s
<1>1. g.states \in Seq(Keyframe) /\ Len(g.states) \in Nat
  BY LenProperties DEF Coherent, GraphsLike
<1>2. \A i \in 1..Len(g.states) : g.states[i].stamp_s \in Nat
  <2>1. \A i \in 1..Len(g.states) : g.states[i] \in Keyframe
    BY <1>1, ElementOfSeq
  <2> QED
    BY <2>1 DEF Keyframe
<1>3. WindowOf(g) \in [1..Len(g.states) -> Nat]
  BY <1>2 DEF WindowOf
<1>4. WindowOf(g) \in Seq(Nat)
  BY <1>1, <1>3, SeqDef
<1>5. Len(WindowOf(g)) = Len(g.states)
  BY <1>1, <1>3
<1> QED
  BY <1>1, <1>4, <1>5 DEF WindowOf

(* One step of KeyframeWindow, as a relation of two windows.                 *)
Contains(w, s) == \E i \in 1..Len(w) : w[i] = s

Enters(w, v, ms, s) ==
  /\ \A i \in 1..Len(w) : w[i] < s
  /\ v = IF Len(w) < max_states THEN Append(w, s) ELSE Tail(Append(w, s))
  /\ w # << >> => \E m \in ms : m.kind = "lio" /\ m.to = s

Stays(w, v, old, new) ==
  \A m \in old : m \in new <=> Contains(v, m.from) /\ Contains(v, m.to)

Moving(w, v, m) ==
  /\ m.kind \in {"lio", "wheel"} /\ w # << >> /\ v # w
  /\ m.from = w[Len(w)] /\ m.to = v[Len(v)]
  /\ m.kind = "lio" => m.data = << m.from, m.to >>

AtNewest(v, m) == m.kind \in {"gps", "yaw"} /\ m.from = m.to /\ m.to = v[Len(v)]

(* The window of the graph when a keyframe enters: at its end, and the first *)
(* one leaves when it was full.                                              *)
LEMMA WindowMoves ==
  ASSUME NEW g, Coherent(g), g.states # << >>, Len(g.states) <= max_states,
         NEW p, Coherent(p), NEW stamp \in Nat,
         Len(p.states) = Len(g.states) + 1 - Leaving(g),
         \A i \in 1..(Len(g.states) - Leaving(g)) :
            p.states[i].stamp_s = g.states[i + Leaving(g)].stamp_s,
         p.states[Len(g.states) + 1 - Leaving(g)].stamp_s = stamp
  PROVE  WindowOf(p) = IF Len(WindowOf(g)) < max_states
                         THEN Append(WindowOf(g), stamp)
                         ELSE Tail(Append(WindowOf(g), stamp))
<1> DEFINE n == Len(g.states)  w == WindowOf(g)  v == WindowOf(p)  a == Append(w, stamp)
<1>1. /\ n \in Nat \ {0} /\ n <= max_states /\ max_states \in Nat /\ max_states >= 2
      /\ w \in Seq(Nat) /\ Len(w) = n /\ \A i \in 1..n : w[i] = g.states[i].stamp_s
  BY NewestKeyframe, WindowIsSeq, GraphAssumption
<1>2. /\ v \in Seq(Nat) /\ Len(v) = n + 1 - Leaving(g)
      /\ \A i \in 1..(n + 1 - Leaving(g)) : v[i] = p.states[i].stamp_s
  BY WindowIsSeq
<1> HIDE DEF n, w, v
<1>3. a \in Seq(Nat) /\ Len(a) = n + 1 /\ a[n + 1] = stamp /\ \A i \in 1..n : a[i] = w[i]
  BY <1>1
<1>4. CASE n < max_states
  <2>1. Leaving(g) = 0
    BY <1>4 DEF Leaving, n
  <2>2. n + 1 - 0 = n + 1 /\ n - 0 = n /\ \A i \in 1..n : i + 0 = i
    BY <1>1
  <2>3. \A i \in 1..(n + 1) : i \in 1..n \/ i = n + 1
    BY <1>1
  <2>4. Len(v) = n + 1 /\ \A i \in 1..(n + 1) : v[i] = a[i]
    <3>1. \A i \in 1..n : p.states[i].stamp_s = g.states[i].stamp_s
      BY <2>1, <2>2 DEF n
    <3>2. p.states[n + 1].stamp_s = stamp
      BY <2>1, <2>2 DEF n
    <3>3. \A i \in 1..n : i \in 1..(n + 1)
      BY <1>1
    <3>4. n + 1 \in 1..(n + 1)
      BY <1>1
    <3> HIDE DEF a
    <3>5. \A i \in 1..n : v[i] = a[i]
      <4>1. \A i \in 1..n : v[i] = p.states[i].stamp_s
        BY <1>2, <2>1, <2>2, <3>3
      <4> QED
        BY <1>1, <1>3, <3>1, <4>1
    <3>6. v[n + 1] = a[n + 1]
      BY <1>2, <1>3, <2>1, <2>2, <3>2, <3>4
    <3> QED
      BY <1>2, <2>1, <2>2, <2>3, <3>5, <3>6
  <2>5. v = a
    <3> HIDE DEF a
    <3> QED
      BY <1>2, <1>3, <2>4, SeqEqual
  <2> QED
    BY <1>1, <1>4, <2>5 DEF w, v
<1>5. CASE n = max_states
  <2>1. Leaving(g) = 1
    BY <1>5 DEF Leaving, n
  <2>2. n + 1 - 1 = n
    BY <1>1
  <2>3. Tail(a) \in Seq(Nat) /\ Len(Tail(a)) = n /\ \A i \in 1..n : Tail(a)[i] = a[i + 1]
    <3>1. a # << >>
      BY <1>1, <1>3
    <3> HIDE DEF a
    <3> QED
      BY <1>1, <1>3, <2>2, <3>1, HeadTailProperties
  <2>4. \A i \in 1..n : v[i] = Tail(a)[i]
    <3> SUFFICES ASSUME NEW i \in 1..n PROVE v[i] = a[i + 1]
      BY <2>3
    <3>1. v[i] = p.states[i].stamp_s
      BY <1>2, <2>1, <2>2
    <3>2. CASE i = n
      <4>1. p.states[n].stamp_s = stamp
        BY <2>1, <2>2 DEF n
      <4> QED
        BY <1>3, <3>1, <3>2, <4>1
    <3>3. CASE i # n
      <4>1. i \in 1..(n - 1) /\ i + 1 \in 1..n
        BY <1>1, <3>3
      <4>2. p.states[i].stamp_s = g.states[i + 1].stamp_s
        BY <2>1, <4>1 DEF n
      <4> QED
        BY <1>1, <1>3, <3>1, <4>1, <4>2
    <3> QED
      BY <3>2, <3>3
  <2>5. v = Tail(a)
    <3> HIDE DEF a
    <3> QED
      BY <1>2, <2>1, <2>2, <2>3, <2>4, SeqEqual
  <2> QED
    BY <1>1, <1>5, <2>5 DEF w, v
<1> QED
  BY <1>1, <1>4, <1>5 DEF w

(* What a keyframe, its FAST-LIO motion and its wheel motion do to a window. *)
KeyframeEntered(g, h, stamp, newest) ==
  /\ Coherent(h) /\ h.states # << >> /\ Len(h.states) <= max_states
  /\ Latest(h).stamp_s = stamp
  /\ Enters(WindowOf(g), WindowOf(h), MeasurementsOf(h), stamp)
  /\ \A m \in MeasurementsOf(h) :
       m \in MeasurementsOf(g) \/ Moving(WindowOf(g), WindowOf(h), m)
  /\ Stays(WindowOf(g), WindowOf(h), MeasurementsOf(g), MeasurementsOf(h))
  /\ \A t \in h.transitions :
       \/ /\ t.to_index = Len(h.states) - 1
          /\ t.wheel \in newest
       \/ /\ t.to_index < Len(h.states) - 1
          /\ \E u \in g.transitions :
               u.to_index = t.to_index + Leaving(g) /\ u.wheel = t.wheel

(* A keyframe, its FAST-LIO motion and its wheel motion are a step of the    *)
(* window: what was measured stays where it was, or leaves with the oldest   *)
(* keyframe.                                                                 *)
LEMMA KeyframeEnters ==
  ASSUME NEW g, Coherent(g), g.states # << >>, Len(g.states) <= max_states,
         NEW stamp \in Nat, Latest(g).stamp_s < stamp, NEW wheel \in Interval,
         NEW p, p = AddFastLioBetween(g, stamp, << Latest(g).stamp_s, stamp >>),
         NEW h, h \in {p, AddWheelPlanarFactorForLatestTransition(p, wheel)}
  PROVE  KeyframeEntered(g, h, stamp, IF h = p THEN {NoPose} ELSE {wheel})
<1> DEFINE n == Len(g.states)  o == Leaving(g)  w == WindowOf(g)  v == WindowOf(h)
           motion == << Latest(g).stamp_s, stamp >>
<1>1. /\ n \in Nat \ {0} /\ n <= max_states /\ max_states \in Nat /\ max_states >= 2
      /\ Latest(g) = g.states[n] /\ Latest(g) \in Keyframe
  BY NewestKeyframe, GraphAssumption
<1>2. o \in {0, 1} /\ (o = 1 <=> n = max_states) /\ n - o \in Nat \ {0}
  BY <1>1 DEF Leaving
<1>3. motion \in Interval
  BY <1>1 DEF Interval, Keyframe
<1>4. /\ Coherent(p) /\ Len(p.states) = n + 1 - o /\ n + 1 - o >= 2
      /\ Len(p.states) <= max_states
      /\ \A i \in 1..(n - o) : p.states[i].stamp_s = g.states[i + o].stamp_s
      /\ p.states[n + 1 - o].stamp_s = stamp
      /\ \A t \in p.transitions :
           \/ t.to_index = n - o /\ t.wheel = NoPose
           \/ \E u \in g.transitions : u.to_index = t.to_index + o /\ u.wheel = t.wheel
      /\ \A k, i, j, d : Measured(p, k, i, j, d) <=>
           /\ i \in Nat /\ j \in Nat
           /\ \/ Measured(g, k, i + o, j + o, d)
              \/ k = "lio" /\ i = n - 1 - o /\ j = n - o /\ d = motion
  <2> DEFINE q == AddFastLioBetween(g, stamp, motion)
  <2>1. /\ Coherent(q) /\ Len(q.states) = n + 1 - o /\ n + 1 - o >= 2
        /\ Len(q.states) <= max_states
        /\ \A i \in 1..(n - o) : q.states[i].stamp_s = g.states[i + o].stamp_s
        /\ q.states[n + 1 - o].stamp_s = stamp
        /\ \A t \in q.transitions :
             \/ t.to_index = n - o /\ t.wheel = NoPose
             \/ \E u \in g.transitions : u.to_index = t.to_index + o /\ u.wheel = t.wheel
        /\ \A k, i, j, d : Measured(q, k, i, j, d) <=>
             /\ i \in Nat /\ j \in Nat
             /\ \/ Measured(g, k, i + o, j + o, d)
                \/ k = "lio" /\ i = n - 1 - o /\ j = n - o /\ d = motion
    <3> HIDE DEF motion
    <3> QED
      BY <1>3, ExtendedGraph
  <2>2. p = q
    OBVIOUS
  <2> HIDE DEF q
  <2> QED
    BY <2>1, <2>2
<1> HIDE DEF motion, n, o, w, v
<1>5. \A u \in g.transitions : u.to_index \in Nat /\ u.to_index < n
  BY DEF Coherent, GraphsLike, Transition, n
<1>6. /\ Coherent(h) /\ h.states = p.states
      /\ \A t \in h.transitions : \E u \in p.transitions :
           /\ t.to_index = u.to_index
           /\ t.wheel = IF t.to_index = n - o /\ h # p THEN wheel ELSE u.wheel
      /\ \A k, i, j, d : Measured(p, k, i, j, d) => Measured(h, k, i, j, d)
      /\ \A k, i, j, d : Measured(h, k, i, j, d) =>
           Measured(p, k, i, j, d) \/ (k = "wheel" /\ i = n - 1 - o /\ j = n - o)
  <2>1. CASE h = p
    BY <1>4, <2>1
  <2>2. CASE h # p
    <3>1. h = AddWheelPlanarFactorForLatestTransition(p, wheel)
      BY <2>2
    <3>2. \A t \in p.transitions : t.to_index = Len(p.states) - 1 => t.wheel = NoPose
      <4> SUFFICES ASSUME NEW t \in p.transitions, t.to_index = Len(p.states) - 1
                   PROVE  t.wheel = NoPose
        OBVIOUS
      <4>1. t.to_index = n - o
        BY <1>1, <1>2, <1>4
      <4>2. ~\E u \in g.transitions : u.to_index = t.to_index + o
        BY <1>1, <1>2, <1>5, <4>1
      <4> QED
        BY <1>4, <4>2
    <3>3. Len(p.states) - 1 = n - o /\ Len(p.states) - 2 = n - 1 - o
      BY <1>1, <1>2, <1>4
    <3>4. /\ Coherent(h) /\ h.states = p.states
          /\ \A t \in h.transitions : \E u \in p.transitions :
               /\ t.to_index = u.to_index
               /\ t.wheel = IF t.to_index = Len(p.states) - 1 THEN wheel ELSE u.wheel
          /\ \A k, i, j, d : Measured(h, k, i, j, d) <=>
               \/ Measured(p, k, i, j, d)
               \/ k = "wheel" /\ i = Len(p.states) - 2 /\ j = Len(p.states) - 1 /\ d = wheel
      <4>1. Len(p.states) >= 2
        BY <1>4
      <4> QED
        BY <1>4, <3>1, <3>2, <4>1, WheelGraph
    <3> QED
      BY <2>2, <3>3, <3>4
  <2> QED
    BY <2>1, <2>2
<1>7. /\ v = IF Len(w) < max_states THEN Append(w, stamp) ELSE Tail(Append(w, stamp))
      /\ w \in Seq(Nat) /\ Len(w) = n /\ \A i \in 1..n : w[i] = g.states[i].stamp_s
      /\ v \in Seq(Nat) /\ Len(v) = n + 1 - o
      /\ \A i \in 1..(n + 1 - o) : v[i] = h.states[i].stamp_s
  <2>1. v = IF Len(w) < max_states THEN Append(w, stamp) ELSE Tail(Append(w, stamp))
    <3>1. /\ Coherent(h) /\ Len(h.states) = n + 1 - o
          /\ \A i \in 1..(n - o) : h.states[i].stamp_s = g.states[i + o].stamp_s
          /\ h.states[n + 1 - o].stamp_s = stamp
      BY <1>4, <1>6
    <3> QED
      BY <3>1, WindowMoves DEF n, o, w, v
  <2>2. /\ w \in Seq(Nat) /\ Len(w) = n /\ \A i \in 1..n : w[i] = g.states[i].stamp_s
    BY WindowIsSeq DEF n, w
  <2>3. Len(h.states) = n + 1 - o
    BY <1>4, <1>6
  <2>4. v \in Seq(Nat) /\ Len(v) = n + 1 - o /\ \A i \in 1..(n + 1 - o) : v[i] = h.states[i].stamp_s
    BY <1>6, <2>3, WindowIsSeq DEF v
  <2> QED
    BY <2>1, <2>2, <2>4
<1>8. h.states # << >> /\ Len(h.states) <= max_states /\ Latest(h).stamp_s = stamp
  <2>1. Len(h.states) >= 2
    BY <1>4, <1>6
  <2> QED
    BY <1>4, <1>6, <2>1 DEF Latest
<1>9. /\ \A i \in 0..(n - 1 - o) : h.states[i + 1].stamp_s = g.states[(i + o) + 1].stamp_s
      /\ h.states[(n - o) + 1].stamp_s = stamp
      /\ h.states[(n - 1 - o) + 1].stamp_s = g.states[n].stamp_s
  <2>1. \A i \in 0..(n - 1 - o) : i + 1 \in 1..(n - o) /\ (i + 1) + o = (i + o) + 1
    BY <1>1, <1>2
  <2>2. (n - o) + 1 = n + 1 - o /\ n - 1 - o \in 0..(n - 1 - o) /\ ((n - 1 - o) + o) + 1 = n
    BY <1>1, <1>2
  <2>3. \A i \in 0..(n - 1 - o) : h.states[i + 1].stamp_s = g.states[(i + o) + 1].stamp_s
    BY <1>4, <1>6, <2>1
  <2> QED
    BY <1>4, <1>6, <2>2, <2>3
<1>10. /\ \A i \in 1..n : g.states[i].stamp_s \in Nat /\ g.states[i].stamp_s < stamp
       /\ \A i, j \in 1..n : i < j => g.states[i].stamp_s < g.states[j].stamp_s
  <2>1. \A i, j \in 1..n : i < j => g.states[i].stamp_s < g.states[j].stamp_s
    BY DEF Coherent, n
  <2>2. \A i \in 1..n : g.states[i].stamp_s \in Nat
    BY <1>7, ElementOfSeq
  <2>3. g.states[n].stamp_s < stamp /\ n \in 1..n
    BY <1>1
  <2>4. \A i \in 1..n : i = n \/ i < n
    BY <1>1
  <2> QED
    BY <2>1, <2>2, <2>3, <2>4
<1>11. ASSUME NEW a \in 0..(n - 1)
       PROVE  Contains(v, g.states[a + 1].stamp_s) <=> a >= o
  <2>1. ASSUME a >= o PROVE Contains(v, g.states[a + 1].stamp_s)
    <3>1. a - o \in 0..(n - 1 - o) /\ (a - o) + o = a /\ (a - o) + 1 \in 1..(n + 1 - o)
      BY <1>1, <1>2, <2>1
    <3>2. v[(a - o) + 1] = g.states[a + 1].stamp_s
      BY <1>7, <1>9, <3>1
    <3> QED
      BY <1>7, <3>1, <3>2 DEF Contains
  <2>2. ASSUME ~(a >= o) PROVE ~Contains(v, g.states[a + 1].stamp_s)
    <3>1. a = 0 /\ o = 1 /\ n >= 2
      BY <1>1, <1>2, <2>2
    <3> SUFFICES ASSUME NEW i \in 1..n, v[i] = g.states[1].stamp_s
                 PROVE  FALSE
      BY <1>1, <1>7, <3>1 DEF Contains
    <3>2. CASE i = n
      <4>1. v[n] = stamp
        <5>1. n + 1 - o = n /\ n \in 1..n
          BY <1>1, <3>1
        <5> QED
          BY <1>4, <1>6, <1>7, <5>1
      <4>2. 1 \in 1..n
        BY <1>1
      <4>3. g.states[1].stamp_s \in Nat /\ g.states[1].stamp_s < stamp
        BY <1>10, <4>2
      <4> QED
        BY <3>2, <4>1, <4>3
    <3>3. CASE i # n
      <4>1. i \in 1..(n - 1) /\ i + 1 \in 1..n /\ 1 \in 1..n /\ 1 < i + 1
        BY <1>1, <3>3
      <4>2. v[i] = g.states[i + 1].stamp_s
        <5>1. n + 1 - o = n /\ n - o = n - 1
          BY <1>1, <3>1
        <5>2. v[i] = p.states[i].stamp_s
          BY <1>6, <1>7, <5>1
        <5>3. p.states[i].stamp_s = g.states[i + 1].stamp_s
          BY <1>4, <3>1, <4>1, <5>1
        <5> QED
          BY <5>2, <5>3
      <4>3. g.states[1].stamp_s \in Nat /\ g.states[1].stamp_s < g.states[i + 1].stamp_s
        BY <1>10, <4>1
      <4> QED
        BY <4>2, <4>3
    <3> QED
      BY <3>2, <3>3
  <2> QED
    BY <2>1, <2>2
<1>12. ASSUME NEW k, NEW i, NEW j, NEW d, i \in Nat, j \in Nat, Measured(g, k, i + o, j + o, d)
       PROVE  Read(g, k, i + o, j + o, d) = Read(h, k, i, j, d)
  <2>1. i + o \in 0..(n - 1) /\ j + o \in 0..(n - 1)
    BY <1>12, MeasuredInWindow DEF n
  <2>2. i \in 0..(n - 1 - o) /\ j \in 0..(n - 1 - o)
    BY <1>1, <1>2, <1>12, <2>1
  <2> QED
    BY <1>9, <2>2 DEF Read
<1>13. ASSUME NEW m \in MeasurementsOf(h)
       PROVE  /\ m \in MeasurementsOf(g) \/ Moving(w, v, m)
              /\ Contains(v, m.from) /\ Contains(v, m.to)
  <2>1. PICK k, i, j, d : Measured(h, k, i, j, d) /\ m = Read(h, k, i, j, d)
    BY <1>6, MeasurementsAreRead
  <2>2. m.kind = k /\ m.from = h.states[i + 1].stamp_s /\ m.to = h.states[j + 1].stamp_s /\ m.data = d
    BY <2>1 DEF Read
  <2>3. Contains(v, m.from) /\ Contains(v, m.to)
    <3>1. i \in 0..(n - o) /\ j \in 0..(n - o)
      <4>1. i \in 0..(Len(h.states) - 1) /\ j \in 0..(Len(h.states) - 1)
        BY <1>6, <2>1, MeasuredInWindow
      <4>2. Len(h.states) - 1 = n - o
        <5>1. Len(h.states) = n + 1 - o
          BY <1>4, <1>6
        <5> QED
          BY <1>1, <1>2, <5>1
      <4> QED
        BY <4>1, <4>2
    <3>2. i + 1 \in 1..(n + 1 - o) /\ j + 1 \in 1..(n + 1 - o)
      BY <1>1, <1>2, <3>1
    <3>3. v[i + 1] = m.from /\ v[j + 1] = m.to
      BY <1>7, <2>2, <3>2
    <3> QED
      BY <1>7, <3>2, <3>3 DEF Contains
  <2>4. CASE i \in Nat /\ j \in Nat /\ Measured(g, k, i + o, j + o, d)
    <3>1. m = Read(g, k, i + o, j + o, d)
      BY <1>12, <2>1, <2>4
    <3>2. m \in MeasurementsOf(g)
      BY <2>4, <3>1, MeasurementsAreRead
    <3> QED
      BY <2>3, <3>2
  <2>5. CASE k \in {"lio", "wheel"} /\ i = n - 1 - o /\ j = n - o /\ (k = "lio" => d = motion)
    <3>1. m.from = g.states[n].stamp_s /\ m.to = stamp
      BY <1>9, <2>2, <2>5
    <3>2. w[Len(w)] = g.states[n].stamp_s
      BY <1>1, <1>7
    <3>3. v[Len(v)] = stamp
      <4>1. n + 1 - o \in 1..(n + 1 - o)
        BY <1>1, <1>2
      <4> QED
        BY <1>4, <1>6, <1>7, <4>1
    <3>4. w # << >> /\ v # w
      <4>1. g.states[n].stamp_s # stamp
        BY <1>1, <1>10
      <4> QED
        BY <1>1, <1>7, <3>2, <3>3, <4>1
    <3>5. motion = << m.from, m.to >>
      BY <1>1, <3>1 DEF motion
    <3> QED
      BY <2>2, <2>3, <2>5, <3>1, <3>2, <3>3, <3>4, <3>5 DEF Moving
  <2> QED
    BY <1>4, <1>6, <2>1, <2>4, <2>5
<1>14. Enters(w, v, MeasurementsOf(h), stamp)
  <2>1. \A i \in 1..Len(w) : w[i] < stamp
    BY <1>7, <1>10
  <2>2. Measured(h, "lio", n - 1 - o, n - o, motion)
    <3>1. n - 1 - o \in Nat /\ n - o \in Nat
      BY <1>1, <1>2
    <3> QED
      BY <1>4, <1>6, <3>1
  <2>3. Read(h, "lio", n - 1 - o, n - o, motion) \in MeasurementsOf(h)
    BY <1>6, <2>2, MeasurementsAreRead
  <2>4. /\ Read(h, "lio", n - 1 - o, n - o, motion).kind = "lio"
        /\ Read(h, "lio", n - 1 - o, n - o, motion).to = stamp
    BY <1>9 DEF Read
  <2> QED
    BY <1>7, <2>1, <2>3, <2>4 DEF Enters
<1>15. Stays(w, v, MeasurementsOf(g), MeasurementsOf(h))
  <2> SUFFICES ASSUME NEW m \in MeasurementsOf(g), Contains(v, m.from), Contains(v, m.to)
               PROVE  m \in MeasurementsOf(h)
    BY <1>13 DEF Stays
  <2>1. PICK k, a, b, d : Measured(g, k, a, b, d) /\ m = Read(g, k, a, b, d)
    BY MeasurementsAreRead
  <2>2. a \in 0..(n - 1) /\ b \in 0..(n - 1)
    BY <2>1, MeasuredInWindow DEF n
  <2>3. m.from = g.states[a + 1].stamp_s /\ m.to = g.states[b + 1].stamp_s
    BY <2>1 DEF Read
  <2>4. a >= o /\ b >= o
    BY <1>11, <2>2, <2>3
  <2>5. a - o \in Nat /\ b - o \in Nat /\ (a - o) + o = a /\ (b - o) + o = b
    BY <1>1, <1>2, <2>2, <2>4
  <2>6. Measured(h, k, a - o, b - o, d) /\ m = Read(h, k, a - o, b - o, d)
    <3>1. Measured(g, k, (a - o) + o, (b - o) + o, d)
      BY <2>1, <2>5
    <3> QED
      BY <1>4, <1>6, <1>12, <2>1, <2>5, <3>1
  <2> QED
    BY <1>6, <2>6, MeasurementsAreRead
<1>16. ASSUME NEW t \in h.transitions
       PROVE  \/ /\ t.to_index = Len(h.states) - 1
                 /\ t.wheel \in IF h = p THEN {NoPose} ELSE {wheel}
              \/ /\ t.to_index < Len(h.states) - 1
                 /\ \E u \in g.transitions : u.to_index = t.to_index + o /\ u.wheel = t.wheel
  <2>1. PICK q \in p.transitions :
          /\ t.to_index = q.to_index
          /\ t.wheel = IF t.to_index = n - o /\ h # p THEN wheel ELSE q.wheel
    BY <1>6
  <2>2. Len(h.states) - 1 = n - o
    <3>1. Len(h.states) = n + 1 - o
      BY <1>4, <1>6
    <3> QED
      BY <1>1, <1>2, <3>1
  <2>3. CASE q.to_index = n - o /\ q.wheel = NoPose
    BY <2>1, <2>2, <2>3
  <2>4. CASE \E u \in g.transitions : u.to_index = q.to_index + o /\ u.wheel = q.wheel
    <3>1. PICK u \in g.transitions : u.to_index = q.to_index + o /\ u.wheel = q.wheel
      BY <2>4
    <3>2. u.to_index < n /\ u.to_index \in Nat
      BY <1>5
    <3>3. q.to_index \in Nat
      BY <1>4 DEF Coherent, GraphsLike, Transition
    <3>4. q.to_index < n - o
      BY <1>1, <1>2, <3>1, <3>2, <3>3
    <3>5. t.wheel = u.wheel /\ u.to_index = t.to_index + o
      BY <1>1, <1>2, <2>1, <3>1, <3>3, <3>4
    <3> QED
      BY <2>1, <2>2, <3>4, <3>5
  <2> QED
    BY <1>4, <2>3, <2>4
<1> QED
  BY <1>6, <1>8, <1>13, <1>14, <1>15, <1>16 DEF KeyframeEntered, w, v, o

(* A fix or a heading is measured at the newest keyframe of the window.      *)
LEMMA FixEnters ==
  ASSUME NEW g, Coherent(g), g.states # << >>, NEW h, Coherent(h), h.states = g.states,
         NEW kind \in {"gps", "yaw"}, NEW data,
         \A k, i, j, d : Measured(h, k, i, j, d) <=>
            \/ Measured(g, k, i, j, d)
            \/ k = kind /\ i = Len(g.states) - 1 /\ j = Len(g.states) - 1 /\ d = data
  PROVE  /\ WindowOf(h) = WindowOf(g) /\ MeasurementsOf(g) \subseteq MeasurementsOf(h)
         /\ \A m \in MeasurementsOf(h) : m \in MeasurementsOf(g) \/ AtNewest(WindowOf(g), m)
<1> DEFINE n == Len(g.states)
<1>1. n \in Nat \ {0}
  BY NewestKeyframe
<1>2. WindowOf(h) = WindowOf(g)
  BY DEF WindowOf
<1>3. \A k, i, j, d : Read(h, k, i, j, d) = Read(g, k, i, j, d)
  BY DEF Read
<1>4. MeasurementsOf(g) \subseteq MeasurementsOf(h)
  BY <1>3, MeasurementsAreRead
<1>5. ASSUME NEW m \in MeasurementsOf(h)
      PROVE  m \in MeasurementsOf(g) \/ AtNewest(WindowOf(g), m)
  <2>1. PICK k, i, j, d : Measured(h, k, i, j, d) /\ m = Read(g, k, i, j, d)
    BY <1>3, MeasurementsAreRead
  <2>2. CASE Measured(g, k, i, j, d)
    BY <2>1, <2>2, MeasurementsAreRead
  <2>3. CASE k = kind /\ i = n - 1 /\ j = n - 1
    <3>1. (n - 1) + 1 = n /\ n \in 1..n
      BY <1>1
    <3>2. m.kind = kind /\ m.from = g.states[n].stamp_s /\ m.to = g.states[n].stamp_s
      BY <2>1, <2>3, <3>1 DEF Read
    <3>3. WindowOf(g)[Len(WindowOf(g))] = g.states[n].stamp_s
      BY <3>1, WindowIsSeq
    <3> QED
      BY <3>2, <3>3 DEF AtNewest
  <2> QED
    BY <2>1, <2>2, <2>3
<1> QED
  BY <1>2, <1>4, <1>5

-----------------------------------------------------------------------------
USE DEF Stamps, Sentences, Capped

(* What the timer finds in the buffers are stamps of the clock.              *)
LEMMA TimerStamps ==
  ASSUME TypeOK
  PROVE  KeyframeStamp \in 0..lio /\ PreviousWheel \in Stamps
<1>1. KeyframeStamp \in 0..lio
  BY DEF TypeOK, KeyframeStamp
<1>2. WheelSample \in Stamps
  <2>1. wheel_buffer_ \in SUBSET Nat /\ lio \in Nat /\ WheelTolerance \in Nat
    BY NodeAssumption DEF TypeOK
  <2>2. Closest(wheel_buffer_, lio, WheelTolerance) \in wheel_buffer_ \cup {0}
    BY <2>1, ClosestIsSample
  <2>3. wheel_buffer_ \cup {0} \subseteq Stamps
    BY NodeAssumption DEF TypeOK
  <2> QED
    BY <2>2, <2>3, NodeAssumption DEF WheelSample
<1> QED
  BY <1>1, <1>2 DEF TypeOK, PreviousWheel

(* An unfinished run is shorter than what it asks for.                       *)
Unfinished(a) == ~a.initialized => a.count < bootstrap_required_consecutive_samples

(* The anchor's run stays within what it asks for.                           *)
LEMMA BootstrapType ==
  ASSUME TypeOK, Unfinished(anchor), NEW stable \in BOOLEAN
  PROVE  /\ AfterBootstrap(stable) \in [initialized : BOOLEAN,
              count : 0..bootstrap_required_consecutive_samples,
              headings : 0..bootstrap_required_consecutive_samples]
         /\ Unfinished(AfterBootstrap(stable))
<1> DEFINE needed == bootstrap_required_consecutive_samples
<1>1. needed \in Nat \ {0}
  BY NodeAssumption
<1>2. anchor \in [initialized : BOOLEAN, count : 0..needed, headings : 0..needed]
  BY DEF TypeOK
<1>3. CASE ~anchor.initialized /\ Judges
  <2>0. anchor.count \in 0..(needed - 1) /\ anchor.headings \in 0..needed
    BY <1>1, <1>2, <1>3 DEF Unfinished
  <2> DEFINE headings == IF use_rtk_heading_for_yaw THEN Capped(anchor.headings + 1, needed)
                                                    ELSE anchor.headings
             Run(i, c, h) == [initialized |-> i, count |-> c, headings |-> h]
  <2>1. headings \in 0..needed
    BY <1>1, <2>0
  <2>2. AfterBootstrap(stable) =
          IF ~Candidate THEN Run(FALSE, 0, 0)
          ELSE IF anchor.count + 1 < needed THEN Run(FALSE, anchor.count + 1, headings)
          ELSE IF use_rtk_heading_for_yaw /\ (headings < needed \/ ~stable)
            THEN Run(FALSE, 0, 0)
          ELSE Run(TRUE, anchor.count + 1, headings)
    BY <1>3 DEF AfterBootstrap
  <2> HIDE DEF headings
  <2>3. CASE AfterBootstrap(stable) = Run(FALSE, 0, 0)
    BY <1>1, <2>3 DEF Unfinished
  <2>4. CASE anchor.count + 1 < needed /\ AfterBootstrap(stable) = Run(FALSE, anchor.count + 1, headings)
    BY <1>1, <2>0, <2>1, <2>4 DEF Unfinished
  <2>5. CASE AfterBootstrap(stable) = Run(TRUE, anchor.count + 1, headings)
    BY <1>1, <2>0, <2>1, <2>5 DEF Unfinished
  <2> QED
    BY <2>2, <2>3, <2>4, <2>5
<1>4. CASE anchor.initialized \/ ~Judges
  BY <1>2, <1>4 DEF AfterBootstrap
<1> QED
  BY <1>3, <1>4

States == {"local", "candidate", "recovery", "locked", "degraded"}
Machine == [state : States, strong : 0..recovery_min_samples,
            invalid : 0..degraded_to_local_samples]

(* The machine after one tick, whatever was decided.                         *)
LEMMA MachineType ==
  ASSUME TypeOK, NEW decision
  PROVE  /\ Update(decision) \in Machine
         /\ MarkRecoveryCommitted(Update(decision)) \in Machine
         /\ MarkRecoveryRejected(Update(decision)) \in Machine
<1>0. /\ recovery_min_samples \in Nat \ {0}
      /\ degraded_to_local_samples \in Nat \ {0}
  BY NodeAssumption
<1>1. sm \in Machine
  BY DEF TypeOK, Machine, States
<1>2. \A s \in States : Dropped(s) \in States
  BY DEF Dropped, States
<1>3. AcceptStrongCandidate \in Machine
  <2> DEFINE strong == Capped(sm.strong + 1, recovery_min_samples)
  <2>1. strong \in 0..recovery_min_samples
    BY <1>0, <1>1 DEF Machine
  <2>2. AcceptStrongCandidate.strong = strong /\ AcceptStrongCandidate.invalid = 0
    BY DEF AcceptStrongCandidate
  <2>3. AcceptStrongCandidate.state \in States
    BY <1>1 DEF AcceptStrongCandidate, Machine, States
  <2>4. AcceptStrongCandidate =
          [state |-> AcceptStrongCandidate.state, strong |-> strong, invalid |-> 0]
    BY DEF AcceptStrongCandidate
  <2> HIDE DEF strong
  <2> QED
    BY <1>0, <2>1, <2>3, <2>4 DEF Machine
<1>4. AcceptWeakOrDiagnostic \in Machine
  <2>1. AcceptWeakOrDiagnostic =
          [state |-> Dropped(sm.state), strong |-> 0, invalid |-> sm.invalid]
    BY DEF AcceptWeakOrDiagnostic
  <2>2. sm.state \in States /\ sm.invalid \in 0..degraded_to_local_samples
    BY <1>1 DEF Machine
  <2> QED
    BY <1>0, <1>2, <2>1, <2>2 DEF Machine
<1>5. AcceptRejected \in Machine
  <2> DEFINE invalid == Capped(sm.invalid + 1, degraded_to_local_samples)
  <2>1. invalid \in 0..degraded_to_local_samples
    BY <1>0, <1>1 DEF Machine
  <2>2. AcceptRejected.state \in States
    BY <1>1, <1>2 DEF AcceptRejected, Machine, States
  <2>3. AcceptRejected =
          [state |-> AcceptRejected.state, strong |-> 0, invalid |-> invalid]
    BY DEF AcceptRejected
  <2> HIDE DEF invalid
  <2> QED
    BY <1>0, <2>1, <2>2, <2>3 DEF Machine
<1>6. Update(decision) \in Machine
  BY <1>3, <1>4, <1>5 DEF Update
<1>7. MarkRecoveryCommitted(Update(decision)) \in Machine
  BY <1>0, <1>6 DEF MarkRecoveryCommitted, Machine, States
<1>8. MarkRecoveryRejected(Update(decision)) \in Machine
  BY <1>0, <1>2, <1>6 DEF MarkRecoveryRejected, Machine
<1> QED
  BY <1>6, <1>7, <1>8

-----------------------------------------------------------------------------
IInv == TypeOK /\ Unfinished(anchor) /\ CountsTheRun

(* What the end of a tick makes of the machine and of the run.               *)
LEMMA MachineCounts ==
  ASSUME TypeOK, CountsTheRun, NEW decision \in {"rejected", "weak", "strong"},
         NEW accepted \in BOOLEAN, NEW g, Conclude(g, decision, Update(decision), accepted)
  PROVE  /\ sm' \in Machine /\ run' \in 0..recovery_min_samples
         /\ CountsTheRun'
<1> DEFINE u == Update(decision)  R == recovery_min_samples
<1>0. R \in Nat \ {0} /\ rtk_position_enabled \in BOOLEAN
  BY NodeAssumption
<1>1. u \in Machine /\ MarkRecoveryCommitted(u) \in Machine /\ MarkRecoveryRejected(u) \in Machine
  BY MachineType
<1>2. sm \in Machine /\ run \in 0..R /\ sm.strong = run
  BY DEF TypeOK, Machine, States, CountsTheRun
<1>3. Tries(decision, u) \in BOOLEAN
  BY <1>0 DEF Tries
<1>4. CASE decision # "strong"
  <2>1. ~Tries(decision, u)
    BY <1>4 DEF Tries
  <2>2. sm' = u /\ run' = 0
    BY <1>4, <2>1 DEF Conclude
  <2>3. u.strong = 0
    BY <1>2, <1>4 DEF Update, AcceptRejected, AcceptWeakOrDiagnostic, Machine
  <2>4. u.state \in {"local", "degraded", sm.state} /\ u.state \notin {"recovery", "locked"}
    BY <1>2, <1>4 DEF Update, AcceptRejected, AcceptWeakOrDiagnostic, Dropped, Machine, States
  <2> QED
    BY <1>0, <1>1, <2>2, <2>3, <2>4 DEF CountsTheRun
<1>5. CASE decision = "strong"
  <2>1. u = AcceptStrongCandidate
    BY <1>5 DEF Update
  <2>2. u.strong = Capped(run + 1, R)
    BY <1>2, <2>1 DEF AcceptStrongCandidate
  <2>3. Capped(run + 1, R) \in 0..R
    BY <1>0, <1>2
  <2>4. /\ u.state \in {"candidate", "recovery", "locked"}
        /\ u.state = "recovery" => u.strong = R \/ sm.state = "recovery"
        /\ u.state = "candidate" => u.strong < R
        /\ u.state = "locked" => sm.state = "locked"
    BY <1>0, <1>2, <2>1, <2>2 DEF AcceptStrongCandidate, Machine, States
  <2>5. CASE ~Tries(decision, u)
    <3>1. sm' = u /\ run' = Capped(run + 1, R)
      BY <1>5, <2>5 DEF Conclude
    <3>2. rtk_position_enabled => u.state = "candidate"
      BY <1>0, <1>5, <2>4, <2>5 DEF Tries
    <3> QED
      BY <1>0, <1>1, <2>2, <2>3, <2>4, <3>1, <3>2 DEF CountsTheRun
  <2>6. CASE Tries(decision, u) /\ accepted
    <3>1. sm' = MarkRecoveryCommitted(u) /\ run' = Capped(run + 1, R)
      BY <1>5, <2>6 DEF Conclude
    <3>2. rtk_position_enabled /\ u.state \in {"recovery", "locked"}
      BY <2>6 DEF Tries
    <3>3. u.strong = R
      BY <1>0, <1>2, <2>2, <2>4, <3>2 DEF CountsTheRun
    <3>4. MarkRecoveryCommitted(u).state = "locked" /\ MarkRecoveryCommitted(u).strong = R
      BY <3>2, <3>3 DEF MarkRecoveryCommitted
    <3> QED
      BY <1>0, <1>1, <2>2, <2>3, <3>1, <3>3, <3>4 DEF CountsTheRun
  <2>7. CASE Tries(decision, u) /\ ~accepted
    <3>1. sm' = MarkRecoveryRejected(u) /\ run' = 0
      BY <1>5, <2>7 DEF Conclude
    <3>2. u.state \in {"recovery", "locked"}
      BY <2>7 DEF Tries
    <3>3. sm'.state \in {"local", "degraded"} /\ sm'.strong = 0
      BY <3>1, <3>2 DEF MarkRecoveryRejected, Dropped
    <3> QED
      BY <1>0, <1>1, <3>1, <3>3 DEF CountsTheRun
  <2> QED
    BY <1>3, <2>5, <2>6, <2>7
<1> QED
  BY <1>4, <1>5

-----------------------------------------------------------------------------
(* The initial state satisfies the invariant.                                *)
LEMMA InitialType == Init => IInv
<1> SUFFICES ASSUME Init
             PROVE  IInv
  OBVIOUS
<1>1. TypeOK
  BY NodeAssumption DEF Init, TypeOK
<1>2. Unfinished(anchor) /\ CountsTheRun
  BY NodeAssumption DEF Init, Unfinished, CountsTheRun
<1> QED
  BY <1>1, <1>2 DEF IInv

(* A message changes what the sensors said, and nothing the timer keeps.     *)
LEMMA MessageStep ==
  ASSUME IInv,
         \/ Advance \/ OnFastLio \/ OnWheel \/ OnHeading \/ OnFix \/ OnNmea
         \/ UNCHANGED vars
  PROVE  IInv'
<1>1. UNCHANGED << anchor, sm, run, last_lio_stamp_, previous_wheel_stamp_ >>
  BY DEF Advance, OnFastLio, OnWheel, OnHeading, OnFix, OnNmea, Rest, vars
<1>2. /\ clock' \in 1..MaxStamp /\ lio' \in lio..clock'
      /\ wheel_buffer_' \subseteq 1..clock' /\ heading_buffer_' \subseteq 1..clock'
      /\ fix' \in 0..clock'
  <2>1. CASE Advance
    BY <2>1, NodeAssumption DEF IInv, TypeOK, Advance
  <2>2. CASE OnFastLio
    BY <2>2, NodeAssumption DEF IInv, TypeOK, OnFastLio
  <2>3. CASE OnWheel
    BY <2>3, NodeAssumption DEF IInv, TypeOK, OnWheel
  <2>4. CASE OnHeading
    BY <2>4, NodeAssumption DEF IInv, TypeOK, OnHeading
  <2>5. CASE OnFix
    BY <2>5, NodeAssumption DEF IInv, TypeOK, OnFix
  <2>6. CASE OnNmea \/ UNCHANGED vars
    <3>1. UNCHANGED << clock, lio, wheel_buffer_, heading_buffer_, fix >>
      BY <2>6 DEF OnNmea, sensors, vars
    <3> QED
      BY <3>1, NodeAssumption DEF IInv, TypeOK
  <2> QED
    BY <2>1, <2>2, <2>3, <2>4, <2>5, <2>6
<1>3. nmea' \in Sentences
  BY DEF IInv, TypeOK, Advance, OnFastLio, OnWheel, OnHeading, OnFix, OnNmea, vars
<1>4. TypeOK'
  BY <1>1, <1>2, <1>3, NodeAssumption DEF IInv, TypeOK
<1> QED
  BY <1>1, <1>4 DEF IInv, Unfinished, CountsTheRun

(* A tick of the timer, which does all the rest.                             *)
LEMMA TimerStep ==
  ASSUME IInv, OnTimer
  PROVE  IInv'
<1>0. TypeOK /\ Unfinished(anchor) /\ CountsTheRun
  BY DEF IInv
<1>1. UNCHANGED << clock, lio, wheel_buffer_, heading_buffer_, fix, nmea >>
  BY DEF OnTimer, sensors
<1>2. PICK stable \in BOOLEAN : anchor' = AfterBootstrap(stable)
  BY DEF OnTimer
<1>3. /\ anchor' \in [initialized : BOOLEAN,
                      count : 0..bootstrap_required_consecutive_samples,
                      headings : 0..bootstrap_required_consecutive_samples]
      /\ Unfinished(anchor)'
  <2>1. Unfinished(AfterBootstrap(stable))
    BY <1>0, BootstrapType
  <2> QED
    BY <1>0, <1>2, <2>1, BootstrapType DEF Unfinished
<1>4. PICK d \in Decisions(anchor') :
        \E accepted \in {TRUE, ~Tries(d, Update(d))} :
          Conclude(WithKeyframe, d, Update(d), accepted)
  BY DEF OnTimer
<1>5. d \in {"rejected", "weak", "strong"}
  BY <1>4 DEF Decisions, Decision
<1>6. PICK accepted \in BOOLEAN : Conclude(WithKeyframe, d, Update(d), accepted)
  BY <1>4
<1>7. sm' \in Machine /\ run' \in 0..recovery_min_samples /\ CountsTheRun'
  BY <1>0, <1>5, <1>6, MachineCounts
<1>8. last_lio_stamp_' \in 0..lio /\ previous_wheel_stamp_' \in Stamps
  BY <1>0, TimerStamps DEF OnTimer
<1>9. TypeOK'
  BY <1>0, <1>1, <1>3, <1>7, <1>8 DEF TypeOK, Machine, States
<1> QED
  BY <1>3, <1>7, <1>9 DEF IInv

(* The invariant holds.                                                      *)
LEMMA Invariant == Spec => []IInv
<1>1. Init => IInv
  BY InitialType
<1>2. IInv /\ [Next]_vars => IInv'
  BY MessageStep, TimerStep DEF Next
<1> QED
  BY <1>1, <1>2, PTL DEF Spec

(* Every variable keeps its kind, buffered stamps lie in the past, and no    *)
(* keyframe is ahead of the newest FAST-LIO pose.                            *)
THEOREM TypeCorrect == Spec => []TypeOK
<1>1. IInv => TypeOK
  BY DEF IInv
<1> QED
  BY <1>1, Invariant, PTL

(* The machine commits a fix at every tick exactly while the run of strong   *)
(* ticks is as long as recovery_min_samples asks, for any such number and    *)
(* any anchor, window or tolerances.                                         *)
THEOREM LockedByStrongTicks == Spec => []LockedIffStrongTicks
<1>1. IInv => LockedIffStrongTicks
  BY NodeAssumption DEF IInv, TypeOK, CountsTheRun, LockedIffStrongTicks
<1> QED
  BY <1>1, Invariant, PTL
-----------------------------------------------------------------------------
(* The node: the newest keyframe is the one of last_lio_stamp_, and the      *)
(* wheel samples that were used are in order.                                *)
GraphFollows ==
  /\ Coherent(graph_) /\ Len(graph_.states) <= max_states
  /\ last_lio_stamp_ = 0 <=> graph_.states = << >>
  /\ last_lio_stamp_ # 0 => Latest(graph_).stamp_s = last_lio_stamp_

WheelOrder(transitions, bound) ==
  \A t, u \in transitions :
    t.wheel # NoPose /\ u.wheel # NoPose =>
      /\ t.wheel[1] <= t.wheel[2] /\ t.wheel[2] <= bound
      /\ t.to_index < u.to_index => t.wheel[2] <= u.wheel[1]

WheelFollows ==
  /\ WheelOrder(graph_.transitions, previous_wheel_stamp_)
  /\ previous_wheel_stamp_ # 0 =>
       /\ previous_wheel_stamp_ \in wheel_buffer_
       /\ \A s \in wheel_buffer_ :
            s < previous_wheel_stamp_ => s + previous_wheel_stamp_ <= 2 * last_lio_stamp_

GraphInv == TypeOK /\ GraphFollows /\ WheelFollows

(* No keyframe yet.                                                          *)
LEMMA InitialGraph == Init => GraphInv
<1> SUFFICES ASSUME Init PROVE GraphInv
  OBVIOUS
<1>1. TypeOK
  BY InitialType DEF IInv
<1>2. /\ EmptyGraph.states = << >> /\ EmptyGraph.transitions = {}
      /\ EmptyGraph.rtk_position_records = {} /\ EmptyGraph.heading_records = {}
      /\ EmptyGraph.factors = {} /\ Len(EmptyGraph.states) = 0
  BY DEF EmptyGraph
<1>3. Made(EmptyGraph) = {}
  <2>1. 1..0 = {}
    OBVIOUS
  <2> QED
    BY <1>2, <2>1 DEF Made
<1>4. EmptyGraph \in GraphsLike(EmptyGraph)
  <2>1. << >> \in Seq(Keyframe)
    OBVIOUS
  <2> QED
    BY <1>2, <1>3, <2>1 DEF EmptyGraph, GraphsLike
<1>5. Coherent(EmptyGraph)
  BY <1>2, <1>4 DEF Coherent
<1>6. GraphFollows
  BY <1>2, <1>5, GraphAssumption DEF Init, GraphFollows
<1>7. WheelFollows
  BY <1>2 DEF Init, WheelFollows, WheelOrder
<1> QED
  BY <1>1, <1>6, <1>7 DEF GraphInv

(* The first keyframe has its priors and no measurement.                     *)
LEMMA FirstKeyframe ==
  ASSUME NEW stamp \in Nat
  PROVE  LET h == AddInitialState(stamp)
         IN /\ Coherent(h) /\ Len(h.states) = 1 /\ h.states # << >>
            /\ Latest(h).stamp_s = stamp /\ h.transitions = {}
            /\ WindowOf(h) = << stamp >> /\ MeasurementsOf(h) = {}
<1> DEFINE h == AddInitialState(stamp)  s == [index |-> 0, stamp_s |-> stamp]
<1>1. /\ h.states = << s >> /\ h.transitions = {}
      /\ h.rtk_position_records = {} /\ h.heading_records = {}
      /\ h.factors = {PosePrior, MotionPrior(0)}
      /\ h \in [states : {h.states}, transitions : {h.transitions},
                rtk_position_records : {h.rtk_position_records},
                heading_records : {h.heading_records}, factors : {h.factors}]
  BY DEF AddInitialState
<1>2. s \in Keyframe /\ s.index = 0 /\ s.stamp_s = stamp
  BY DEF Keyframe
<1> HIDE DEF h, s
<1>3. h.states \in Seq(Keyframe) /\ Len(h.states) = 1 /\ h.states[1] = s
  BY <1>1, <1>2
<1>4. h.factors = Made(h)
  <2>1. 1..1 = {1} /\ 1 - 1 = 0
    OBVIOUS
  <2>2. {PosePrior : i \in {1}} = {PosePrior} /\ {MotionPrior(i - 1) : i \in {1}} = {MotionPrior(1 - 1)}
    BY Zenon
  <2> QED
    BY <1>1, <1>3, <2>1, <2>2 DEF Made
<1>5. Coherent(h)
  <2>1. h \in GraphsLike(h)
    BY <1>1, <1>3, <1>4 DEF GraphsLike
  <2> QED
    BY <1>1, <1>2, <1>3, <2>1 DEF Coherent
<1>6. WindowOf(h) = << stamp >>
  <2>1. /\ WindowOf(h) \in Seq(Nat) /\ Len(WindowOf(h)) = 1 /\ WindowOf(h)[1] = stamp
    BY <1>2, <1>3, <1>5, WindowIsSeq
  <2>2. << stamp >> \in Seq(Nat) /\ Len(<< stamp >>) = 1 /\ << stamp >>[1] = stamp
    OBVIOUS
  <2> QED
    BY <2>1, <2>2, SeqEqual
<1>7. MeasurementsOf(h) = {}
  <2>1. ASSUME NEW k, NEW i, NEW j, NEW d PROVE ~Measured(h, k, i, j, d)
    BY <1>1 DEF Measured, LioOf, WheelOf, RecordOf
  <2> QED
    BY <1>5, <2>1, MeasurementsAreRead
<1>8. Latest(h).stamp_s = stamp /\ h.states # << >>
  BY <1>2, <1>3 DEF Latest
<1> QED
  BY <1>1, <1>3, <1>5, <1>6, <1>7, <1>8 DEF h

(* The messages change no keyframe, and a new wheel sample is the newest.    *)
LEMMA MessageGraph ==
  ASSUME GraphInv, TypeOK',
         \/ Advance \/ OnFastLio \/ OnWheel \/ OnHeading \/ OnFix \/ OnNmea
         \/ UNCHANGED vars
  PROVE  GraphInv' /\ UNCHANGED graph_
<1>1. UNCHANGED << graph_, last_lio_stamp_, previous_wheel_stamp_ >>
  BY DEF Advance, OnFastLio, OnWheel, OnHeading, OnFix, OnNmea, Rest, vars
<1>2. wheel_buffer_' = wheel_buffer_ \/ wheel_buffer_' = wheel_buffer_ \cup {clock}
  <2>1. CASE OnWheel
    BY <2>1 DEF OnWheel
  <2>2. CASE UNCHANGED vars
    BY <2>2 DEF vars, sensors
  <2>3. CASE OnNmea
    BY <2>3 DEF OnNmea, sensors
  <2> QED
    BY <2>1, <2>2, <2>3 DEF Advance, OnFastLio, OnHeading, OnFix
<1>3. GraphFollows'
  BY <1>1 DEF GraphInv, GraphFollows
<1>4. previous_wheel_stamp_ # 0 => previous_wheel_stamp_ <= clock
  BY NodeAssumption DEF GraphInv, WheelFollows, TypeOK
<1>5. ASSUME previous_wheel_stamp_ # 0
      PROVE  /\ previous_wheel_stamp_ \in wheel_buffer_'
             /\ \A s \in wheel_buffer_' :
                  s < previous_wheel_stamp_ => s + previous_wheel_stamp_ <= 2 * last_lio_stamp_
  <2>1. /\ previous_wheel_stamp_ \in wheel_buffer_
        /\ \A s \in wheel_buffer_ :
             s < previous_wheel_stamp_ => s + previous_wheel_stamp_ <= 2 * last_lio_stamp_
    BY <1>5 DEF GraphInv, WheelFollows
  <2>2. clock \in Nat /\ previous_wheel_stamp_ \in Nat
    BY NodeAssumption DEF GraphInv, TypeOK
  <2>3. ~(clock < previous_wheel_stamp_)
    BY <1>4, <1>5, <2>2
  <2> QED
    BY <1>2, <2>1, <2>3
<1>6. WheelFollows'
  BY <1>1, <1>5 DEF GraphInv, WheelFollows
<1> QED
  BY <1>1, <1>3, <1>6 DEF GraphInv

(* The sample nearest to a later stamp is no earlier than the one before.    *)
LEMMA SamplesInOrder ==
  ASSUME NEW B \in SUBSET Nat, NEW p \in B, NEW last \in Nat, NEW stamp \in Nat, last <= stamp,
         \A s \in B : s < p => s + p <= 2 * last,
         NEW c \in B, \A t \in B : Distance(c, stamp) <= Distance(t, stamp)
  PROVE  last < stamp => p <= c
<1> SUFFICES ASSUME last < stamp, c < p PROVE FALSE
  OBVIOUS
<1>1. c + p <= 2 * last /\ Distance(c, stamp) <= Distance(p, stamp)
  OBVIOUS
<1>2. c < stamp
  BY <1>1
<1> QED
  BY <1>1, <1>2 DEF Distance

(* A sample has no other as near to its keyframe before it.                  *)
LEMMA SampleIsNearest ==
  ASSUME NEW B \in SUBSET Nat, NEW stamp \in Nat,
         NEW c \in B, \A t \in B : Distance(c, stamp) <= Distance(t, stamp)
  PROVE  \A s \in B : s < c => s + c <= 2 * stamp
<1> SUFFICES ASSUME NEW s \in B, s < c PROVE s + c <= 2 * stamp
  OBVIOUS
<1>1. Distance(c, stamp) <= Distance(s, stamp)
  OBVIOUS
<1> QED
  BY <1>1 DEF Distance

Newest(w) == w[Len(w)]

(* One step of the window, with the graph after the keyframe of a tick.      *)
WindowStep(g, h) ==
  /\ \/ WindowOf(h) = WindowOf(g)
     \/ Enters(WindowOf(g), WindowOf(h), MeasurementsOf(h), Newest(WindowOf(h)))
  /\ \A m \in MeasurementsOf(h) :
       \/ m \in MeasurementsOf(g) \/ Moving(WindowOf(g), WindowOf(h), m)
       \/ AtNewest(WindowOf(h), m)
  /\ Stays(WindowOf(g), WindowOf(h), MeasurementsOf(g), MeasurementsOf(h))

(* What the timer makes of the graph before it turns to the fix.             *)
KeyframeResult(h) ==
  /\ Coherent(h) /\ h.states # << >> /\ Len(h.states) <= max_states
  /\ Latest(h).stamp_s = KeyframeStamp
  /\ WindowStep(graph_, h)
  /\ WheelOrder(h.transitions, PreviousWheel)

(* Everything a coherent graph holds is in its window.                       *)
LEMMA MeasurementsStay ==
  ASSUME NEW g, Coherent(g)
  PROVE  WindowStep(g, g)
<1>1. ASSUME NEW m \in MeasurementsOf(g)
      PROVE  Contains(WindowOf(g), m.from) /\ Contains(WindowOf(g), m.to)
  <2>1. PICK k, i, j, d : Measured(g, k, i, j, d) /\ m = Read(g, k, i, j, d)
    BY MeasurementsAreRead
  <2>2. i \in 0..(Len(g.states) - 1) /\ j \in 0..(Len(g.states) - 1) /\ Len(g.states) \in Nat
    BY <2>1, MeasuredInWindow, WindowIsSeq
  <2>3. i + 1 \in 1..Len(g.states) /\ j + 1 \in 1..Len(g.states)
    BY <2>2
  <2>4. m.from = g.states[i + 1].stamp_s /\ m.to = g.states[j + 1].stamp_s
    BY <2>1 DEF Read
  <2>5. m.from = WindowOf(g)[i + 1] /\ m.to = WindowOf(g)[j + 1]
    BY <2>3, <2>4, WindowIsSeq
  <2>6. Len(WindowOf(g)) = Len(g.states)
    BY WindowIsSeq
  <2> QED
    BY <2>3, <2>5, <2>6 DEF Contains
<1> QED
  BY <1>1 DEF WindowStep, Stays

(* The first keyframe, or the one that extends the graph.                    *)
LEMMA KeyframeGraph ==
  ASSUME GraphInv, lio # 0
  PROVE  KeyframeResult(WithKeyframe)
<1>0. /\ TypeOK /\ GraphFollows /\ WheelFollows
      /\ lio \in Nat \ {0} /\ last_lio_stamp_ \in 0..lio /\ previous_wheel_stamp_ \in Nat
      /\ wheel_buffer_ \in SUBSET Nat /\ max_states \in Nat /\ max_states >= 2
      /\ WheelTolerance \in Nat
  BY NodeAssumption, GraphAssumption DEF GraphInv, TypeOK
<1>1. WheelSample = 0 \/ /\ WheelSample \in wheel_buffer_
                         /\ \A t \in wheel_buffer_ : Distance(WheelSample, lio) <= Distance(t, lio)
  BY <1>0, ClosestIsSample DEF WheelSample
<1>s. WheelSample \in Nat
  <2>1. WheelSample = 0 \/ WheelSample \in wheel_buffer_
    BY <1>1
  <2>2. \A s \in wheel_buffer_ : s \in Nat
    BY <1>0
  <2> QED
    BY <2>1, <2>2
<1>2. CASE last_lio_stamp_ = 0
  <2> DEFINE h == AddInitialState(lio)
  <2>1. WithKeyframe = h /\ KeyframeStamp = lio
    BY <1>2 DEF WithKeyframe, KeyframeStamp, NewKeyframe
  <2>2. /\ Coherent(h) /\ Len(h.states) = 1 /\ h.states # << >>
        /\ Latest(h).stamp_s = lio /\ h.transitions = {}
        /\ WindowOf(h) = << lio >> /\ MeasurementsOf(h) = {}
    BY <1>0, FirstKeyframe
  <2> HIDE DEF h
  <2>3. graph_.states = << >> /\ Coherent(graph_)
    BY <1>0, <1>2 DEF GraphFollows
  <2>4. WindowOf(graph_) = << >> /\ Len(graph_.states) = 0
    <3>1. Len(graph_.states) = 0
      BY <2>3
    <3>2. WindowOf(graph_) \in Seq(Nat) /\ Len(WindowOf(graph_)) = 0
      BY <2>3, <3>1, WindowIsSeq
    <3> QED
      BY <3>1, <3>2, EmptySeq
  <2>5. MeasurementsOf(graph_) = {}
    <3>1. ASSUME NEW k, NEW i, NEW j, NEW d PROVE ~Measured(graph_, k, i, j, d)
      <4>1. 0..(0 - 1) = {}
        OBVIOUS
      <4> QED
        BY <2>3, <2>4, <4>1, MeasuredInWindow
    <3> QED
      BY <2>3, <3>1, MeasurementsAreRead
  <2>6. Enters(<< >>, << lio >>, {}, lio)
    <3>1. Len(<< >>) = 0 /\ 1..0 = {} /\ Append(<< >>, lio) = << lio >>
      OBVIOUS
    <3> QED
      BY <1>0, <3>1 DEF Enters
  <2>7. Newest(<< lio >>) = lio
    BY DEF Newest
  <2>8. WindowStep(graph_, h)
    BY <2>2, <2>4, <2>5, <2>6, <2>7 DEF WindowStep, Stays
  <2> QED
    BY <1>0, <2>1, <2>2, <2>8 DEF KeyframeResult, WheelOrder
<1>3. CASE NewKeyframe
  <2> DEFINE g == graph_
             motion == << last_lio_stamp_, lio >>
             p == AddFastLioBetween(g, lio, motion)
             links == WheelSample # 0 /\ previous_wheel_stamp_ # 0
             wheel == IF links THEN WheelPose ELSE << 0, 0 >>
             h == IF links THEN AddWheelPlanarFactorForLatestTransition(p, wheel) ELSE p
  <2>1. last_lio_stamp_ # 0 /\ last_lio_stamp_ < lio
    BY <1>0, <1>3 DEF NewKeyframe
  <2>2. WithKeyframe = h /\ KeyframeStamp = lio
    BY <1>3, <2>1 DEF WithKeyframe, KeyframeStamp, NewKeyframe
  <2>3. /\ Coherent(g) /\ g.states # << >> /\ Len(g.states) <= max_states
        /\ Latest(g).stamp_s = last_lio_stamp_
    BY <1>0, <2>1 DEF GraphFollows
  <2>4. wheel \in Interval
    BY <1>0, <1>s DEF Interval, WheelPose
  <2>5. p = AddFastLioBetween(g, lio, << Latest(g).stamp_s, lio >>)
    BY <2>3
  <2>6. h \in {p, AddWheelPlanarFactorForLatestTransition(p, wheel)}
    OBVIOUS
  <2> HIDE DEF g, p, h, wheel, motion
  <2>7. /\ Coherent(h) /\ h.states # << >> /\ Len(h.states) <= max_states
        /\ Latest(h).stamp_s = lio
        /\ Enters(WindowOf(g), WindowOf(h), MeasurementsOf(h), lio)
        /\ \A m \in MeasurementsOf(h) :
             m \in MeasurementsOf(g) \/ Moving(WindowOf(g), WindowOf(h), m)
        /\ Stays(WindowOf(g), WindowOf(h), MeasurementsOf(g), MeasurementsOf(h))
        /\ \A t \in h.transitions :
             \/ /\ t.to_index = Len(h.states) - 1
                /\ t.wheel \in IF h = p THEN {NoPose} ELSE {wheel}
             \/ /\ t.to_index < Len(h.states) - 1
                /\ \E u \in g.transitions :
                     u.to_index = t.to_index + Leaving(g) /\ u.wheel = t.wheel
    <3>1. lio \in Nat /\ Latest(g).stamp_s < lio
      BY <1>0, <2>1, <2>3
    <3>2. KeyframeEntered(g, h, lio, IF h = p THEN {NoPose} ELSE {wheel})
      BY <2>3, <2>4, <2>5, <2>6, <3>1, KeyframeEnters
    <3> QED
      BY <3>2 DEF KeyframeEntered
  <2>8. Newest(WindowOf(h)) = lio
    <3>1. Len(h.states) \in Nat \ {0} /\ Latest(h) = h.states[Len(h.states)]
      BY <2>7, NewestKeyframe
    <3> QED
      BY <2>7, <3>1, WindowIsSeq DEF Newest
  <2>9. WindowStep(graph_, h)
    BY <2>7, <2>8 DEF WindowStep, g
  <2>10. WheelOrder(h.transitions, PreviousWheel)
    <3> DEFINE P == previous_wheel_stamp_  Q == PreviousWheel
    <3>0. WheelOrder(g.transitions, P)
      BY <1>0 DEF WheelFollows, g
    <3>1. P \in Nat /\ Q \in Nat /\ P <= Q /\ (links => Q = WheelSample /\ P # 0)
      <4>1. CASE WheelSample = 0
        BY <1>0, <4>1 DEF PreviousWheel
      <4>2. CASE WheelSample # 0 /\ P = 0
        BY <1>0, <1>s, <4>2 DEF PreviousWheel
      <4>3. CASE WheelSample # 0 /\ P # 0
        <5>1. P \in wheel_buffer_ /\ \A s \in wheel_buffer_ : s < P => s + P <= 2 * last_lio_stamp_
          BY <1>0, <4>3 DEF WheelFollows
        <5>2. WheelSample \in wheel_buffer_ /\ \A t \in wheel_buffer_ : Distance(WheelSample, lio) <= Distance(t, lio)
          BY <1>1, <4>3
        <5>3. last_lio_stamp_ \in Nat /\ last_lio_stamp_ <= lio /\ lio \in Nat
          BY <1>0
        <5>4. last_lio_stamp_ < lio => P <= WheelSample
          BY <1>0, <5>1, <5>2, <5>3, SamplesInOrder
        <5> QED
          BY <1>0, <2>1, <4>3, <5>2, <5>4 DEF PreviousWheel
      <4> QED
        BY <4>1, <4>2, <4>3
    <3>2. h # p => links /\ wheel = << P, Q >>
      <4>1. h # p => links
        BY DEF h
      <4> QED
        BY <3>1, <4>1 DEF wheel, WheelPose
    <3>3. ASSUME NEW t \in h.transitions, t.wheel # NoPose
          PROVE  \/ t.to_index = Len(h.states) - 1 /\ t.wheel = << P, Q >>
                 \/ /\ t.to_index < Len(h.states) - 1
                    /\ \E u \in g.transitions :
                         u.to_index = t.to_index + Leaving(g) /\ u.wheel = t.wheel
      BY <2>7, <3>2, <3>3
    <3> HIDE DEF P, Q, links
    <3>4. \A t \in h.transitions : t.to_index \in Nat
      BY <2>7 DEF Coherent, GraphsLike, Transition
    <3>5. \A u \in g.transitions : u.to_index \in Nat /\ u.wheel \in Interval \cup {NoPose}
      BY <2>3 DEF Coherent, GraphsLike, Transition
    <3>6. Leaving(g) \in {0, 1} /\ Len(h.states) \in Nat
      BY <2>7, WindowIsSeq DEF Leaving
    <3>7. << P, Q >>[1] = P /\ << P, Q >>[2] = Q
      OBVIOUS
    <3> SUFFICES ASSUME NEW t \in h.transitions, NEW u \in h.transitions,
                        t.wheel # NoPose, u.wheel # NoPose
                 PROVE  /\ t.wheel[1] <= t.wheel[2] /\ t.wheel[2] <= Q
                        /\ t.to_index < u.to_index => t.wheel[2] <= u.wheel[1]
      BY DEF WheelOrder, Q
    <3>8. CASE t.to_index = Len(h.states) - 1 /\ t.wheel = << P, Q >>
      <4>1. ~(t.to_index < u.to_index)
        BY <2>7, <3>4, <3>6, <3>8
      <4> QED
        BY <3>1, <3>7, <3>8, <4>1
    <3>9. CASE /\ t.to_index < Len(h.states) - 1
               /\ \E r \in g.transitions :
                    r.to_index = t.to_index + Leaving(g) /\ r.wheel = t.wheel
      <4>1. PICK r \in g.transitions : r.to_index = t.to_index + Leaving(g) /\ r.wheel = t.wheel
        BY <3>9
      <4>2. t.wheel[1] <= t.wheel[2] /\ t.wheel[2] <= P
        BY <3>0, <4>1 DEF WheelOrder
      <4>3. t.wheel[1] \in Nat /\ t.wheel[2] \in Nat
        BY <3>5, <4>1 DEF Interval
      <4>4. CASE u.to_index = Len(h.states) - 1 /\ u.wheel = << P, Q >>
        BY <3>1, <3>7, <4>2, <4>3, <4>4
      <4>5. CASE \E q \in g.transitions :
                   q.to_index = u.to_index + Leaving(g) /\ q.wheel = u.wheel
        <5>1. PICK q \in g.transitions : q.to_index = u.to_index + Leaving(g) /\ q.wheel = u.wheel
          BY <4>5
        <5>2. t.to_index < u.to_index => r.to_index < q.to_index
          BY <3>4, <3>6, <4>1, <5>1
        <5>3. t.to_index < u.to_index => t.wheel[2] <= u.wheel[1]
          BY <3>0, <4>1, <5>1, <5>2 DEF WheelOrder
        <5> QED
          BY <3>1, <4>2, <4>3, <5>3
      <4> QED
        BY <3>3, <4>4, <4>5
    <3> QED
      BY <3>3, <3>8, <3>9
  <2> QED
    BY <2>2, <2>7, <2>9, <2>10 DEF KeyframeResult
<1>4. CASE last_lio_stamp_ # 0 /\ ~NewKeyframe
  <2>1. WithKeyframe = graph_ /\ KeyframeStamp = last_lio_stamp_ /\ PreviousWheel = previous_wheel_stamp_
    BY <1>4 DEF WithKeyframe, KeyframeStamp, PreviousWheel, WheelSample
  <2>2. /\ Coherent(graph_) /\ graph_.states # << >> /\ Len(graph_.states) <= max_states
        /\ Latest(graph_).stamp_s = last_lio_stamp_ /\ WheelOrder(graph_.transitions, previous_wheel_stamp_)
    BY <1>0, <1>4 DEF GraphFollows, WheelFollows
  <2> QED
    BY <2>1, <2>2, MeasurementsStay DEF KeyframeResult
<1> QED
  BY <1>2, <1>3, <1>4

(* The fix of a tick is measured at the keyframe of the tick.                *)
LEMMA FixResult ==
  ASSUME TypeOK, NEW g, KeyframeResult(g)
  PROVE  KeyframeResult(WithFix(g))
<1> DEFINE data == << fix, fix >>
           c == ShadowRtkCommit(g, data)
           heading == << LatestHeading, LatestHeading >>
<1>1. Coherent(g) /\ g.states # << >>
  BY DEF KeyframeResult
<1>2. data \in Interval /\ heading \in Interval
  <2>1. fix \in Nat /\ KeyframeStamp \in Nat /\ HeadingTolerance \in Nat
        /\ heading_buffer_ \in SUBSET Nat
    BY TimerStamps, NodeAssumption DEF TypeOK
  <2>2. LatestHeading = 0 \/ LatestHeading \in heading_buffer_
    BY <2>1, ClosestIsSample DEF LatestHeading
  <2>3. \A s \in heading_buffer_ : s \in Nat
    BY <2>1
  <2>4. LatestHeading \in Nat
    BY <2>2, <2>3
  <2> QED
    BY <2>1, <2>4 DEF Interval
<1> HIDE DEF heading, data
<1>3. /\ Coherent(c) /\ c.states = g.states /\ c.transitions = g.transitions
      /\ WindowOf(c) = WindowOf(g) /\ MeasurementsOf(g) \subseteq MeasurementsOf(c)
      /\ \A m \in MeasurementsOf(c) : m \in MeasurementsOf(g) \/ AtNewest(WindowOf(g), m)
  <2>1. /\ Coherent(c) /\ c.states = g.states /\ c.transitions = g.transitions
        /\ \A k, i, j, d : Measured(c, k, i, j, d) <=>
             \/ Measured(g, k, i, j, d)
             \/ k = "gps" /\ i = Len(g.states) - 1 /\ j = Len(g.states) - 1 /\ d = data
    BY <1>1, <1>2, FixGraph
  <2> HIDE DEF c
  <2>2. "gps" \in {"gps", "yaw"}
    OBVIOUS
  <2> QED
    <3>1. /\ WindowOf(c) = WindowOf(g) /\ MeasurementsOf(g) \subseteq MeasurementsOf(c)
          /\ \A m \in MeasurementsOf(c) : m \in MeasurementsOf(g) \/ AtNewest(WindowOf(g), m)
      BY <1>1, <2>1, <2>2, FixEnters
    <3> QED
      BY <2>1, <3>1
<1> HIDE DEF c
<1>4. PICK h : /\ h = WithFix(g)
               /\ Coherent(h) /\ h.states = c.states /\ h.transitions = c.transitions
               /\ WindowOf(h) = WindowOf(c) /\ MeasurementsOf(c) \subseteq MeasurementsOf(h)
               /\ \A m \in MeasurementsOf(h) : m \in MeasurementsOf(c) \/ AtNewest(WindowOf(c), m)
  <2>1. CASE rtk_heading_enabled /\ LatestHeading # 0
    <3> DEFINE h == AddRtkHeading(c, heading)
    <3>1. WithFix(g) = h
      BY <2>1 DEF WithFix, c, heading, data
    <3>2. c.states # << >>
      BY <1>1, <1>3
    <3>3. /\ Coherent(h) /\ h.states = c.states /\ h.transitions = c.transitions
          /\ \A k, i, j, d : Measured(h, k, i, j, d) <=>
               \/ Measured(c, k, i, j, d)
               \/ k = "yaw" /\ i = Len(c.states) - 1 /\ j = Len(c.states) - 1 /\ d = heading
      BY <1>2, <1>3, <3>2, HeadingGraph
    <3> HIDE DEF h
    <3>4. "yaw" \in {"gps", "yaw"}
      OBVIOUS
    <3>5. /\ WindowOf(h) = WindowOf(c) /\ MeasurementsOf(c) \subseteq MeasurementsOf(h)
          /\ \A m \in MeasurementsOf(h) : m \in MeasurementsOf(c) \/ AtNewest(WindowOf(c), m)
      BY <1>3, <3>2, <3>3, <3>4, FixEnters
    <3> QED
      BY <3>1, <3>3, <3>5
  <2>2. CASE ~(rtk_heading_enabled /\ LatestHeading # 0)
    <3>1. WithFix(g) = c
      BY <2>2 DEF WithFix, c, data
    <3> QED
      BY <1>3, <3>1
  <2> QED
    BY <2>1, <2>2
<1>5. /\ h.states = g.states /\ h.transitions = g.transitions /\ WindowOf(h) = WindowOf(g)
      /\ MeasurementsOf(g) \subseteq MeasurementsOf(h)
      /\ \A m \in MeasurementsOf(h) : m \in MeasurementsOf(g) \/ AtNewest(WindowOf(g), m)
  BY <1>3, <1>4
<1>6. WindowStep(graph_, g)
  BY DEF KeyframeResult
<1>7. \/ WindowOf(h) = WindowOf(graph_)
      \/ Enters(WindowOf(graph_), WindowOf(h), MeasurementsOf(h), Newest(WindowOf(h)))
  BY <1>5, <1>6 DEF WindowStep, Enters
<1>8. \A m \in MeasurementsOf(h) :
        \/ m \in MeasurementsOf(graph_) \/ Moving(WindowOf(graph_), WindowOf(h), m)
        \/ AtNewest(WindowOf(h), m)
  BY <1>5, <1>6 DEF WindowStep
<1>9. Stays(WindowOf(graph_), WindowOf(h), MeasurementsOf(graph_), MeasurementsOf(h))
  <2> SUFFICES ASSUME NEW m \in MeasurementsOf(graph_)
               PROVE  m \in MeasurementsOf(h) <=>
                        Contains(WindowOf(g), m.from) /\ Contains(WindowOf(g), m.to)
    BY <1>5 DEF Stays
  <2>1. m \in MeasurementsOf(g) <=> Contains(WindowOf(g), m.from) /\ Contains(WindowOf(g), m.to)
    BY <1>6 DEF WindowStep, Stays
  <2>2. AtNewest(WindowOf(g), m) => Contains(WindowOf(g), m.from) /\ Contains(WindowOf(g), m.to)
    <3>1. Len(WindowOf(g)) \in 1..Len(WindowOf(g))
      BY <1>1, NewestKeyframe, WindowIsSeq
    <3> QED
      BY <3>1 DEF AtNewest, Contains
  <2> QED
    BY <1>5, <2>1, <2>2
<1>10. WindowStep(graph_, h)
  BY <1>7, <1>8, <1>9 DEF WindowStep
<1>11. Latest(h).stamp_s = KeyframeStamp
  BY <1>5 DEF KeyframeResult, Latest
<1> QED
  BY <1>1, <1>4, <1>5, <1>10, <1>11 DEF KeyframeResult

(* A tick extends the window and keeps the samples in order.                 *)
LEMMA TimerGraph ==
  ASSUME GraphInv, OnTimer, TypeOK'
  PROVE  GraphInv' /\ WindowStep(graph_, graph_')
<1>0. /\ TypeOK /\ lio # 0 /\ lio \in Nat /\ last_lio_stamp_ \in 0..lio
      /\ wheel_buffer_ \in SUBSET Nat /\ WheelTolerance \in Nat
  BY NodeAssumption DEF GraphInv, TypeOK, OnTimer
<1>1. UNCHANGED << clock, lio, wheel_buffer_ >>
  BY DEF OnTimer, sensors
<1>2. last_lio_stamp_' = KeyframeStamp /\ previous_wheel_stamp_' = PreviousWheel
  BY DEF OnTimer
<1>3. graph_' \in {WithKeyframe, WithFix(WithKeyframe)}
  BY DEF OnTimer, Conclude
<1>4. KeyframeResult(graph_')
  BY <1>0, <1>3, KeyframeGraph, FixResult
<1>5. GraphFollows'
  <2>1. last_lio_stamp_' # 0
    BY <1>0, <1>2 DEF KeyframeStamp
  <2> QED
    BY <1>2, <1>4, <2>1 DEF KeyframeResult, GraphFollows, Latest
<1>6. ASSUME PreviousWheel # 0
      PROVE  /\ PreviousWheel \in wheel_buffer_
             /\ \A s \in wheel_buffer_ :
                  s < PreviousWheel => s + PreviousWheel <= 2 * KeyframeStamp
  <2>1. CASE WheelSample # 0
    <3>1. NewKeyframe /\ WheelSample = Closest(wheel_buffer_, lio, WheelTolerance)
      BY <2>1 DEF WheelSample
    <3>2. KeyframeStamp = lio
      BY <3>1 DEF KeyframeStamp
    <3>3. /\ WheelSample \in wheel_buffer_
          /\ \A t \in wheel_buffer_ : Distance(WheelSample, lio) <= Distance(t, lio)
      BY <1>0, <2>1, <3>1, ClosestIsSample
    <3>4. \A s \in wheel_buffer_ : s < WheelSample => s + WheelSample <= 2 * lio
      BY <1>0, <3>3, SampleIsNearest
    <3> QED
      BY <2>1, <3>2, <3>3, <3>4 DEF PreviousWheel
  <2>2. CASE WheelSample = 0
    <3>1. PreviousWheel = previous_wheel_stamp_
      BY <2>2 DEF PreviousWheel
    <3>2. /\ previous_wheel_stamp_ \in wheel_buffer_
          /\ \A s \in wheel_buffer_ :
               s < previous_wheel_stamp_ => s + previous_wheel_stamp_ <= 2 * last_lio_stamp_
      BY <1>6, <3>1 DEF GraphInv, WheelFollows
    <3>3. last_lio_stamp_ <= KeyframeStamp /\ KeyframeStamp \in Nat
      BY <1>0 DEF KeyframeStamp
    <3>4. \A s \in wheel_buffer_ : s \in Nat
      BY <1>0
    <3> QED
      BY <1>0, <3>1, <3>2, <3>3, <3>4
  <2> QED
    BY <2>1, <2>2
<1>7. WheelFollows'
  BY <1>1, <1>2, <1>4, <1>6 DEF KeyframeResult, WheelFollows
<1> QED
  BY <1>4, <1>5, <1>7 DEF GraphInv, KeyframeResult

(* The invariant of the graph holds.                                         *)
LEMMA GraphInvariant == Spec => []GraphInv
<1>1. GraphInv /\ TypeOK' /\ [Next]_vars => GraphInv'
  BY MessageGraph, TimerGraph DEF Next
<1> QED
  BY <1>1, InitialGraph, TypeCorrect, PTL DEF Spec

(* The optimizer can solve the graph at any time, for any length of the      *)
(* window: no keyframe is without its priors or off the chain, and no factor *)
(* is about a keyframe that has left.                                        *)
THEOREM AlwaysSolvable == Spec => []GraphSolvable
<1>1. ASSUME GraphInv PROVE GraphSolvable
  <2> DEFINE g == graph_  n == Len(graph_.states)
             Has(kind, from, to) ==
               \E f \in graph_.factors : f.kind = kind /\ f.from = from /\ f.to = to
  <2>0. n \in Nat /\ n <= max_states /\ Coherent(g) /\ g.factors = Made(g)
    BY <1>1, WindowIsSeq DEF GraphInv, GraphFollows, Coherent, GraphsLike
  <2>1. \A i \in 1..n : g.states[i].index = i - 1
    BY <2>0 DEF Coherent
  <2>2. ASSUME NEW i \in 1..n PROVE Has("motion", i - 1, i - 1) /\ Has("prior", 0, 0)
    <3>1. MotionPrior(i - 1) \in g.factors /\ PosePrior \in g.factors
      BY <2>0 DEF Made
    <3> QED
      BY <3>1 DEF MotionPrior, PosePrior, Factor
  <2>3. ASSUME NEW i \in 2..n PROVE Has("lio", i - 2, i - 1)
    <3>1. PICK t \in g.transitions : t.from_index = i - 2
      BY <2>0 DEF Coherent
    <3>2. t.to_index = i - 1
      BY <2>0, <3>1 DEF Coherent
    <3>3. Factor("lio", i - 2, i - 1, t.lio) \in g.factors
      <4>1. LioOf(g, i - 2, i - 1, t.lio)
        BY <3>1, <3>2 DEF LioOf
      <4>2. Measured(g, "lio", i - 2, i - 1, t.lio)
        BY <4>1 DEF Measured
      <4> QED
        BY <2>0, <4>2, MeasuredAreFactors
    <3> QED
      BY <3>3 DEF Factor
  <2>4. n > 0 => Has("prior", 0, 0)
    <3>1. n > 0 => 1 \in 1..n
      BY <2>0
    <3> QED
      BY <2>2, <3>1
  <2>5. ASSUME NEW f \in g.factors PROVE f.from < n /\ f.to < n
    <3>1. CASE f.kind \in Kinds
      <4>1. Measured(g, f.kind, f.from, f.to, f.data)
        BY <2>0, <3>1, FactorsAreMeasured
      <4>2. f.from \in 0..(n - 1) /\ f.to \in 0..(n - 1)
        BY <2>0, <4>1, MeasuredInWindow
      <4> QED
        BY <2>0, <4>2
    <3>2. CASE f.kind \notin Kinds
      <4>1. \A k, i, j, d : Factor(k, i, j, d).kind = k
        BY DEF Factor
      <4>2. \E i \in 1..n : f = PosePrior \/ f = MotionPrior(i - 1)
        BY <2>0, <3>2, <4>1 DEF Made, Kinds
      <4> QED
        BY <2>0, <4>2 DEF PosePrior, MotionPrior, Factor
    <3> QED
      BY <3>1, <3>2
  <2> HIDE DEF Has, g
  <2> QED
    BY <2>0, <2>1, <2>2, <2>3, <2>4, <2>5 DEF GraphSolvable, Has, g
<1> QED
  BY <1>1, GraphInvariant, PTL

(* No wheel motion is counted twice, for any tolerance, any order of the     *)
(* samples and the keyframes and any window.                                 *)
THEOREM CountsWheelOnce == Spec => []WheelCountedOnce
<1>1. GraphInv => WheelCountedOnce
  BY DEF GraphInv, WheelFollows, WheelOrder, WheelCountedOnce
<1> QED
  BY <1>1, GraphInvariant, PTL

(* The graph with its numbers, its records and its rebuilding implements the *)
(* window of KeyframeWindow, where every measurement stays at its keyframe.  *)
THEOREM ImplementsWindow == Spec => KeepsMeasurements
<1>1. ASSUME Init PROVE Window!Init
  <2>1. graph_.states = << >> /\ graph_.factors = {} /\ Len(graph_.states) = 0
    BY <1>1 DEF Init, EmptyGraph
  <2>2. [i \in 1..Len(graph_.states) |-> graph_.states[i].stamp_s] = << >>
    <3>1. Coherent(graph_)
      BY <1>1, InitialGraph DEF GraphInv, GraphFollows
    <3>2. WindowOf(graph_) \in Seq(Nat) /\ Len(WindowOf(graph_)) = 0
      BY <2>1, <3>1, WindowIsSeq
    <3> QED
      BY <3>2, EmptySeq DEF WindowOf
  <2> QED
    BY <2>1, <2>2 DEF Window!Init, Measurements
<1>2. ASSUME GraphInv, TypeOK', [Next]_vars
      PROVE  [Window!Next]_<< [i \in 1..Len(graph_.states) |-> graph_.states[i].stamp_s],
                              Measurements >>
  <2>1. Measurements = MeasurementsOf(graph_) /\ Measurements' = MeasurementsOf(graph_')
    BY DEF Measurements, MeasurementsOf, StampOf
  <2>2. CASE OnTimer
    <3>1. WindowStep(graph_, graph_')
      BY <1>2, <2>2, TimerGraph
    <3> QED
      BY <2>1, <3>1
         DEF WindowStep, WindowOf, Newest, Enters, Contains, Stays, Moving, AtNewest,
             Window!Next, Window!Extended, Window!IsNew, Window!In, Window!Newest
  <2>3. CASE ~OnTimer
    <3>1. UNCHANGED graph_
      BY <1>2, <2>3, MessageGraph DEF Next
    <3> QED
      BY <2>1, <3>1
  <2> QED
    BY <2>2, <2>3
<1> QED
  BY <1>1, <1>2, GraphInvariant, TypeCorrect, PTL DEF Spec, KeepsMeasurements, Window!Spec
=============================================================================
