---------------------------- MODULE MCDepthStream ----------------------------
(* One stream, with few frames, losses, failures and calls. The id after 4 is 0, so *)
(* that the packet of data of the second frame has id 0.                            *)
EXTENDS DepthStream
=============================================================================
