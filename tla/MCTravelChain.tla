--------------------------- MODULE MCTravelChain ---------------------------
(***************************************************************************)
(* One axis and three commands: forward by twice what the limiter allows   *)
(* in one step, stop and reverse.  Two lower controllers, one that gives   *)
(* up before the host does and one that gives up after it.                 *)
(***************************************************************************)
EXTENDS TravelChain

MCTimeout == [status |-> 0, authority |-> 0, obstacle |-> 0, cmd |-> 1]
MCReduced(c) == {c, Stop}
MCStop == Zero
MCCommands == {[a \in Axes |-> v] : v \in {-1, 0, 2}}
=============================================================================
