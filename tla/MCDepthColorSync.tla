-------------------------- MODULE MCDepthColorSync --------------------------
(* An instance of DepthColorSync for TLC: two streams of the depth sensor,  *)
(* one of the color sensor and one of the infrared sensor. Two addresses of *)
(* holders, and one more for the one that a refused group leaves behind.    *)
EXTENDS DepthColorSync, TLC

CONSTANTS d1, d2, color, ir, depthSensor, colorSensor, irSensor, g1, g2, g3

MCStreams    == {d1, d2, color, ir}
MCDepthColor == {d1, d2, color}
MCSensors    == {depthSensor, colorSensor, irSensor}
MCSensorOf   == [s \in MCStreams |-> CASE s \in {d1, d2} -> depthSensor
                                       [] s = color      -> colorSensor
                                       [] s = ir         -> irSensor]
MCGroups     == {g1, g2, g3}
MCSymmetry   == Permutations(MCGroups) \cup Permutations({d1, d2})
=============================================================================
