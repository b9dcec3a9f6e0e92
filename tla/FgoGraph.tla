------------------------------ MODULE FgoGraph ------------------------------
(* The class FgoGraph of rtk_fgo_localizer: a window of keyframes numbered   *)
(* from 0, the factors over them, and the records from which the factors are *)
(* made again, with new numbers, when the oldest keyframe is dropped.  Each  *)
(* operator is a method, from the graph before to the graph after.           *)
(*                                                                           *)
(* A pose, a velocity and the optimizer's result are abstracted.  What was   *)
(* measured is the pair of the times it was measured between (for a fix or a *)
(* heading, twice the time it was taken at).  Equal factors are one: how     *)
(* often the same fix was committed to the same keyframe does not show.      *)
EXTENDS Integers, Sequences

CONSTANT max_states
ASSUME GraphAssumption == max_states \in Nat /\ max_states >= 2

NoPose == << >>

Factor(kind, from, to, data) ==
  [kind |-> kind, from |-> from, to |-> to, data |-> data]

PosePrior == Factor("prior", 0, 0, NoPose)

(* The velocity and bias priors, which every keyframe has.                   *)
MotionPrior(i) == Factor("motion", i, i, NoPose)

EmptyGraph ==
  [states |-> << >>, transitions |-> {}, rtk_position_records |-> {},
   heading_records |-> {}, factors |-> {}]

Latest(g) == g.states[Len(g.states)]

AddInitialState(stamp) ==
  [states |-> << [index |-> 0, stamp_s |-> stamp] >>, transitions |-> {},
   rtk_position_records |-> {}, heading_records |-> {},
   factors |-> {PosePrior, MotionPrior(0)}]

-----------------------------------------------------------------------------
(* rebuildActiveWindow: the last max_states keyframes are numbered from 0    *)
(* again, and the records that lie in them are moved by the old number of    *)
(* the first one.                                                            *)
Keep(g) == IF Len(g.states) < max_states THEN Len(g.states) ELSE max_states

Kept(g) == SubSeq(g.states, Len(g.states) - Keep(g) + 1, Len(g.states))

FirstKept(g) == Kept(g)[1].index

Fits(i, g) == i >= FirstKept(g) /\ i - FirstKept(g) < Len(Kept(g))

(* The plausible bug: the records keep the old numbers.                      *)
MutantMoved(records, g) == {r \in records : Fits(r.state_index, g)}

Moved(records, g) ==
  {[r EXCEPT !.state_index = @ - FirstKept(g)] :
     r \in {r \in records : Fits(r.state_index, g)}}

MovedTransitions(g) ==
  {[t EXCEPT !.from_index = @ - FirstKept(g), !.to_index = @ - FirstKept(g)] :
     t \in {t \in g.transitions : Fits(t.from_index, g) /\ Fits(t.to_index, g)}}

(* The plausible bug: a rebuilt keyframe has no velocity and bias priors.    *)
MutantRebuildActiveWindow(g) ==
  [states |-> [i \in 1..Len(Kept(g)) |->
                 [index |-> i - 1, stamp_s |-> Kept(g)[i].stamp_s]],
   transitions |-> MovedTransitions(g),
   rtk_position_records |-> Moved(g.rtk_position_records, g),
   heading_records |-> Moved(g.heading_records, g),
   factors |->
     {PosePrior}
     \cup {Factor("lio", t.from_index, t.to_index, t.lio) : t \in MovedTransitions(g)}]

RebuildActiveWindow(g) ==
  LET positions   == Moved(g.rtk_position_records, g)
      headings    == Moved(g.heading_records, g)
      transitions == MovedTransitions(g)
      linked      == {t \in transitions : t.wheel # NoPose}
  IN [states |-> [i \in 1..Len(Kept(g)) |->
                    [index |-> i - 1, stamp_s |-> Kept(g)[i].stamp_s]],
      transitions |-> transitions,
      rtk_position_records |-> positions,
      heading_records |-> headings,
      factors |->
        {PosePrior}
        \cup {MotionPrior(i - 1) : i \in 1..Len(Kept(g))}
        \cup {Factor("lio", t.from_index, t.to_index, t.lio) : t \in transitions}
        \cup {Factor("wheel", t.from_index, t.to_index, t.wheel) : t \in linked}
        \cup {Factor("gps", r.state_index, r.state_index, r.data) : r \in positions}
        \cup {Factor("yaw", r.state_index, r.state_index, r.data) : r \in headings}]

PruneIfNeeded(g) ==
  IF Len(g.states) <= max_states THEN g ELSE RebuildActiveWindow(g)

-----------------------------------------------------------------------------
Extend(g, stamp, lio) ==
  LET previous == Latest(g)
      next     == previous.index + 1
  IN [g EXCEPT
        !.states = Append(@, [index |-> next, stamp_s |-> stamp]),
        !.transitions = @ \cup {[from_index |-> previous.index, to_index |-> next,
                                 lio |-> lio, wheel |-> NoPose]},
        !.factors = @ \cup {Factor("lio", previous.index, next, lio),
                            MotionPrior(next)}]

AddFastLioBetween(g, stamp, lio) == PruneIfNeeded(Extend(g, stamp, lio))

AddWheelPlanarFactorForLatestTransition(g, wheel) ==
  LET from == g.states[Len(g.states) - 1].index
      to   == Latest(g).index
  IN IF Len(g.states) < 2
       THEN g
       ELSE [g EXCEPT
               !.factors = @ \cup {Factor("wheel", from, to, wheel)},
               !.transitions =
                 {IF t.from_index = from /\ t.to_index = to
                    THEN [t EXCEPT !.wheel = wheel] ELSE t : t \in @}]

(* tryShadowRtkCommit when the trial optimization is accepted; when it is    *)
(* refused or raises, the graph is as it was.                                *)
ShadowRtkCommit(g, fix) ==
  [g EXCEPT
     !.factors = @ \cup {Factor("gps", Latest(g).index, Latest(g).index, fix)},
     !.rtk_position_records = @ \cup {[state_index |-> Latest(g).index, data |-> fix]}]

AddRtkHeading(g, heading) ==
  [g EXCEPT
     !.factors = @ \cup {Factor("yaw", Latest(g).index, Latest(g).index, heading)},
     !.heading_records = @ \cup {[state_index |-> Latest(g).index, data |-> heading]}]
=============================================================================
