--------------------------- MODULE MCFrameBuffers ---------------------------
(* A small instance of FrameBuffers for TLC: the driver, an application and a*)
(* recorder thread, two streams, two sizes and one allocator of its own.    *)
EXTENDS FrameBuffers, TLC

CONSTANTS f1, f2, b1, b2, b3, driver, app, recorder, s1, s2, custom

MCFrames   == {f1, f2}
MCBuffers  == {b1, b2, b3}
MCThreads  == {driver, app, recorder}
MCStreams  == {s1, s2}
MCCustom   == {custom}
MCSizes    == {1, 2}
MCSymmetry == Permutations(MCFrames) \cup Permutations(MCBuffers)
              \cup Permutations({app, recorder}) \cup Permutations(MCStreams)
=============================================================================
