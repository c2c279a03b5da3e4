--------------------------- MODULE MCPlayerDevice ---------------------------
(* Two threads of an application, and a recording of one or two streams. *)
EXTENDS PlayerDevice

CONSTANTS u1, u2, depth, color

TwoUsers == {u1, u2}
OneSource == {depth}
TwoSources == {depth, color}
=============================================================================
