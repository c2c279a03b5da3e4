--------------------------- MODULE MCSyncedFrames ---------------------------
(* Instances of SyncedFrames for TLC: a depth and a color stream, frames of  *)
(* two indexes, and two threads that each read either stream.                *)
EXTENDS SyncedFrames, TLC

CONSTANTS depth, color, r1, r2

TwoStreams == {depth, color}
TwoIndexes == {1, 2}
TwoReaders == {r1, r2}
Symmetry   == Permutations(TwoReaders)
=============================================================================
