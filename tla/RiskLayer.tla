----------------------------- MODULE RiskLayer ------------------------------
(* The friction-risk path of FRC: the risk pipeline renders the anchors of   *)
(* the memory around the vehicle and publishes a grid at every tick; the     *)
(* costmap layer FrcLayer keeps the latest grid and lets it raise the cost   *)
(* of the cells it covers.  The layer's callbacks run on the node's thread,  *)
(* updateBounds and updateCosts on the costmap's update thread, so a grid, a *)
(* clock tick or a service call may come between the two.                    *)
(*                                                                           *)
(* The world is a line of cells.  A grid is a function from the cells it     *)
(* covers to [risk, conf], both in percent.  The other layers of the costmap *)
(* and the memory manager, which chooses the anchors, are external: any      *)
(* bounds, any obstacles, any list of anchors.                               *)
EXTENDS Integers, Sequences, FiniteSetsExt

CONSTANTS
  LastCell,                    \* the cells are 0..LastCell
  half,                        \* the grid covers this many cells on each side
  Poses, Shifts,               \* of the vehicle; of the map frame in odom
  AnchorLists,                 \* what the memory may publish
  Decays,                      \* exp(-d^2 / 2 sigma^2) in percent, for d = 0..
  overrun_disable_count,
  watchdog,                    \* watchdog_timeout_s, in steps of the clock
  tau,
  MaxCosts,                    \* what the parameter max_cost may be set to
  OtherBounds,                 \* what the other layers may want redrawn
  Obstacles,                   \* what the other layers may mark
  None

Cells == 0..LastCell
Lethal == 254
Inscribed == 253               \* from here on a planner sees a collision, and
                               \* the event marker an obstacle

ASSUME RiskAssumption ==
  /\ {LastCell, half, watchdog, tau} \subseteq Nat
  /\ overrun_disable_count \in Nat \ {0}
  /\ MaxCosts \subseteq Int /\ MaxCosts # {}
  /\ Poses \subseteq Cells /\ Shifts \subseteq Int
  /\ OtherBounds \subseteq SUBSET Cells /\ Obstacles \subseteq SUBSET Cells
  /\ AnchorLists \subseteq
       Seq([state : STRING, p_usable : Int, severity : Int, map_x : Int])
  /\ Decays \in Seq(0..100)

VARIABLES
  pose, anchors,               \* the pipeline's inputs
  overruns, publishing,
  grid,                        \* published, not yet at the layer
  latest_, age,                \* the layer's grid and the time since it came
  enabled_, max_cost_,
  phase, bounds,               \* of the update thread
  master,                      \* the costmap
  plain,                       \* history: the costmap without this layer
  full                         \* history: the cells drawn with a risk of 100 %
                               \* under a cap of Inscribed

pipeline == << pose, anchors, overruns, publishing >>
parameters == << enabled_, max_cost_ >>
update == << phase, bounds, master, plain, full >>
riskVars == << pipeline, grid, latest_, age, parameters, update >>

RiskInit ==
  /\ pose = None /\ anchors = <<>>
  /\ overruns = 0 /\ publishing = TRUE
  /\ grid = None /\ latest_ = None /\ age = 0
  /\ enabled_ = FALSE /\ max_cost_ \in MaxCosts
  /\ phase = "bounds" /\ bounds = {}
  /\ master = [c \in Cells |-> 0] /\ plain = master /\ full = {}

-----------------------------------------------------------------------------
(* The risk pipeline.                                                        *)

OnOdom ==
  /\ UNCHANGED << anchors, overruns, publishing, grid, latest_, age, parameters,
                  update >>
  /\ pose' \in Poses \ {pose}

OnAnchors ==
  /\ UNCHANGED << pose, overruns, publishing, grid, latest_, age, parameters,
                  update >>
  /\ anchors' \in AnchorLists \ {anchors}

Percent(n) == IF n < 0 THEN 0 ELSE IF n > 100 THEN 100 ELSE n

injectionWeight(anchor) ==
  IF anchor.state = "retired" THEN 0
  ELSE Percent((anchor.severity * anchor.p_usable)
                 \div (IF anchor.state = "stale" THEN 200 ELSE 100))

Confidence(anchor) ==
  IF anchor.state = "candidate" THEN (8 * anchor.p_usable) \div 10
  ELSE anchor.p_usable

Distance(c, d) == IF c < d THEN d - c ELSE c - d

RenderedAt(c, anchor, shift) ==
  LET d == Distance(c, shift + anchor.map_x)
  IN  IF d < Len(Decays) THEN (injectionWeight(anchor) * Decays[d + 1]) \div 100
      ELSE 0

(* The anchors are rendered one after the other, and a cell takes the risk   *)
(* and the confidence of each that exceeds the risk it has: it ends with     *)
(* those of the first of the strongest ones.                                 *)
Strongest(c, shift) ==
  anchors[Min({ i \in DOMAIN anchors :
                  \A j \in DOMAIN anchors :
                     RenderedAt(c, anchors[j], shift) <= RenderedAt(c, anchors[i], shift) })]

Blank == [risk |-> 0, conf |-> 0]

renderGaussian(c, shift) ==
  LET anchor == Strongest(c, shift)
  IN  IF anchors = <<>> \/ RenderedAt(c, anchor, shift) = 0 THEN Blank
      ELSE [risk |-> RenderedAt(c, anchor, shift), conf |-> Confidence(anchor)]

toOccupancyData(cell) == [risk |-> Percent(cell.risk), conf |-> Percent(cell.conf)]

Area == { c \in Cells : Distance(c, pose) <= half }

Frame(shift) ==
  [c \in Area |->
     toOccupancyData(IF shift = None THEN Blank ELSE renderGaussian(c, shift))]

(* The map frame may be anywhere in odom, or unknown.  A tick that is too    *)
(* slow still publishes until it is the overrun_disable_count-th in a row.   *)
Tick(slow) ==
  /\ UNCHANGED << pose, anchors, latest_, age, parameters, update >>
  /\ pose # None
  /\ overruns' = IF slow THEN Min({overruns + 1, overrun_disable_count}) ELSE 0
  /\ publishing' = (overruns' < overrun_disable_count)
  /\ \E shift \in Shifts \cup {None} :
        grid' = IF publishing' THEN Frame(shift) ELSE grid

-----------------------------------------------------------------------------
(* The costmap layer: the callbacks of the node's thread.                    *)

riskCB ==
  /\ UNCHANGED << pipeline, parameters, update >>
  /\ grid # None
  /\ latest_' = grid /\ age' = 0 /\ grid' = None

(* /frc/enable, /frc/disable, or the parameter "enabled".                    *)
SetEnabled ==
  /\ UNCHANGED << pipeline, grid, latest_, age, max_cost_, update >>
  /\ enabled_' = ~enabled_

(* dynamicParametersCallback with max_cost.                                  *)
SetMaxCost ==
  /\ UNCHANGED << pipeline, grid, latest_, age, enabled_, update >>
  /\ max_cost_' \in MaxCosts \ {max_cost_}

Clock ==
  /\ UNCHANGED << pipeline, grid, latest_, parameters, update >>
  /\ latest_ # None /\ age <= watchdog
  /\ age' = age + 1

-----------------------------------------------------------------------------
(* The costmap layer: one round of the update thread.                        *)

riskFresh == latest_ # None /\ age <= watchdog

(* The mutant asks for no redraw when the grid is too old to be used.        *)
MutantExtent == IF enabled_ /\ riskFresh THEN DOMAIN latest_ ELSE {}

Extent == IF enabled_ /\ latest_ # None THEN DOMAIN latest_ ELSE {}

Hull(cells) == IF cells = {} THEN {} ELSE Min(cells)..Max(cells)

updateBounds ==
  /\ UNCHANGED << pipeline, grid, latest_, age, parameters, master, plain, full >>
  /\ phase = "bounds"
  /\ \E others \in OtherBounds :
        /\ bounds' = Hull(others \cup Extent)
        /\ phase' = IF bounds' = {} THEN "bounds" ELSE "costs"

(* std::clamp(max_cost_, 0, 253).                                            *)
max_cost == Min({Max({max_cost_, 0}), Inscribed})

(* The mutant overwrites the cost.                                           *)
MutantgatedCost(current, cell) ==
  IF cell.conf < tau THEN current ELSE (Percent(cell.risk) * max_cost) \div 100

gatedCost(current, cell) ==
  IF cell.conf < tau \/ current >= Lethal THEN current
  ELSE Max({current, (Percent(cell.risk) * max_cost) \div 100})

(* External: the layers before this one mark the obstacles, the inflation    *)
(* layer after it surrounds each lethal cell.                                *)
Marked(obstacles) == [c \in Cells |-> IF c \in obstacles THEN Lethal ELSE 0]

Inflated(costs) ==
  [c \in Cells |->
     IF \E d \in Cells : costs[d] = Lethal /\ Distance(c, d) = 1
     THEN Max({costs[c], Inscribed}) ELSE costs[c]]

Raised(costs) ==
  [c \in Cells |-> IF enabled_ /\ riskFresh /\ c \in DOMAIN latest_
                   THEN gatedCost(costs[c], latest_[c]) ELSE costs[c]]

FullRisk ==
  { c \in Cells : /\ enabled_ /\ riskFresh /\ c \in DOMAIN latest_
                  /\ latest_[c].risk = 100 /\ max_cost = Inscribed }

Redrawn(old, new) == [c \in Cells |-> IF c \in bounds THEN new[c] ELSE old[c]]

updateCosts ==
  /\ UNCHANGED << pipeline, grid, latest_, age, parameters >>
  /\ phase = "costs"
  /\ phase' = "bounds" /\ bounds' = {}
  /\ \E obstacles \in Obstacles :
        /\ master' = Redrawn(master, Inflated(Raised(Marked(obstacles))))
        /\ plain' = Redrawn(plain, Inflated(Marked(obstacles)))
  /\ full' = (full \ bounds) \cup (FullRisk \cap bounds)

(* The costmap is cleared between two rounds and resets its layers.          *)
reset ==
  /\ UNCHANGED << pipeline, grid, age, parameters, phase, bounds >>
  /\ phase = "bounds"
  /\ latest_' = None
  /\ master' = [c \in Cells |-> 0] /\ plain' = master' /\ full' = {}

-----------------------------------------------------------------------------
RiskNext ==
  \/ OnOdom \/ OnAnchors
  \/ \E slow \in BOOLEAN : Tick(slow)
  \/ riskCB \/ SetEnabled \/ SetMaxCost \/ Clock
  \/ updateBounds \/ updateCosts \/ reset

RiskSpec == RiskInit /\ [][RiskNext]_riskVars

(* The clock runs, the executor delivers a grid that was published, and the  *)
(* costmap's update thread is periodic.  Nothing says that the pipeline      *)
(* ticks, or ticks in time.                                                  *)
RiskFairSpec ==
  /\ RiskSpec
  /\ WF_riskVars(Clock) /\ WF_riskVars(riskCB)
  /\ WF_riskVars(updateBounds) /\ WF_riskVars(updateCosts)

-----------------------------------------------------------------------------
(* risk_gate.hpp: risk only raises the cost of cells, and a lethal cell      *)
(* neither comes nor goes.  A cell reaches the value from which the planner  *)
(* sees a collision and the event marker an obstacle, so that a rendered     *)
(* risk is reported as a near collision and comes back as a new anchor, only *)
(* where it did without the layer or where max_cost was set to the upper end *)
(* of its range (nav2_corridor_rtk.yaml:449 advises 200) and the risk is     *)
(* full when the cell is drawn.                                              *)
RiskOnlyRaises ==
  \A c \in Cells :
    /\ master[c] >= plain[c]
    /\ master[c] >= Lethal => plain[c] >= Lethal
    /\ master[c] >= Inscribed => plain[c] >= Inscribed \/ c \in full

(* Nothing new comes from the pipeline: its ticks take too long and it has   *)
(* stopped publishing, or no anchor has any weight left.                     *)
NoNewRisk == ~publishing \/ \A i \in DOMAIN anchors : injectionWeight(anchors[i]) = 0

Bypassed == \A c \in DOMAIN latest_ : master[c] = plain[c]

(* "risk_grid publishing disabled, frc_layer watchdog will bypass"           *)
(* (risk_pipeline_node.cpp:359): once the pipeline has no new risk, an       *)
(* enabled layer leaves no risk in the area of its grid, even when no other  *)
(* layer asks for that area to be redrawn.                                   *)
RiskFades ==
  NoNewRisk ~> (~NoNewRisk \/ ~enabled_ \/ latest_ = None \/ Bypassed)
=============================================================================
