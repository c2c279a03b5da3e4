----------------------------- MODULE MCFrameSync -----------------------------
(* The depth and the color stream, in both orders and with two streams of one sensor. *)
EXTENDS FrameSync, TLC

CONSTANTS depth, color, a1, a2

TwoStreams == {depth, color}
TwoApps == {a1, a2}
AllGroups == {<<depth>>, <<depth, color>>, <<color, depth>>, <<depth, depth, color>>}
Symmetry == Permutations(TwoApps)
=============================================================================
