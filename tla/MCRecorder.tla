----------------------------- MODULE MCRecorder -----------------------------
(* Instances of Recorder for TLC. MCRecorder.cfg: two streams, each attached *)
(* once. RecorderClose.cfg: one stream and one frame.                        *)
EXTENDS Recorder, TLC

CONSTANTS s1, s2

OneStream  == {s1}
TwoStreams == {s1, s2}
Symmetry   == Permutations(TwoStreams)
=============================================================================
