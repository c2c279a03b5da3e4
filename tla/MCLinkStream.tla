---------------------------- MODULE MCLinkStream ----------------------------
(* One stream, its device and one thread of the application. *)
EXTENDS LinkStream
=============================================================================
