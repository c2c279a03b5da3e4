---------------------------- MODULE MCStreamRead ----------------------------
(* Instances of StreamRead for TLC. MCStreamRead.cfg: two threads read one   *)
(* stream, which is started and stopped meanwhile. MCStreamWait.cfg: one      *)
(* thread waits for two streams that share a sensor, so that stopping one of  *)
(* them leaves the driver running.                                           *)
EXTENDS StreamRead, TLC

CONSTANTS s1, s2, sensor, r1, r2

OneStream   == {s1}
TwoStreams  == {s1, s2}
OneSensor   == {sensor}
SensorOfOne == [s \in OneStream |-> sensor]
SensorOfTwo == [s \in TwoStreams |-> sensor]
OneReader   == {r1}
TwoReaders  == {r1, r2}
Symmetry    == Permutations(TwoReaders)
=============================================================================
