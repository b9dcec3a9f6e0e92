--------------------------- MODULE KeyframeWindow ---------------------------
(* What the factor graph of the RTK localizer promises to its node: it holds *)
(* the last max_states keyframes, and every measurement it was given for one *)
(* of them for as long as that keyframe is in the window, at that keyframe   *)
(* and no other.  Keyframes are named by their time stamp; how the graph     *)
(* numbers its variables does not appear here.                               *)
EXTENDS Integers, Sequences

CONSTANT max_states   \* at least 2

VARIABLES window,        \* the stamps of the keyframes, oldest first
          measurements   \* records [kind, from, to, data] over those stamps

In(s, w) == \E i \in 1..Len(w) : w[i] = s

Newest(w) == w[Len(w)]

Init == window = << >> /\ measurements = {}

(* One measurement between or at the newest keyframes: the FAST-LIO and the  *)
(* wheel motion lead from the keyframe before it, and the FAST-LIO motion is *)
(* the one measured between exactly these two; a fix or a heading is at it.  *)
IsNew(m) ==
  \/ /\ m.kind \in {"gps", "yaw"}
     /\ m.from = m.to /\ m.to = Newest(window')
  \/ /\ m.kind \in {"lio", "wheel"}
     /\ window # << >> /\ window' # window
     /\ m.from = Newest(window) /\ m.to = Newest(window')
     /\ m.kind = "lio" => m.data = << m.from, m.to >>

(* A keyframe enters at the end; the oldest one leaves a full window.        *)
Extended(s) ==
  /\ \A i \in 1..Len(window) : window[i] < s
  /\ IF Len(window) < max_states THEN window' = Append(window, s)
                                 ELSE window' = Tail(Append(window, s))
  /\ window # << >> =>
       \E m \in measurements' : m.kind = "lio" /\ m.to = s

Next ==
  /\ window' = window \/ Extended(Newest(window'))
  /\ \A m \in measurements' \ measurements : IsNew(m)
  /\ \A m \in measurements :
       m \in measurements' <=> In(m.from, window') /\ In(m.to, window')

Spec == Init /\ [][Next]_<< window, measurements >>
=============================================================================
