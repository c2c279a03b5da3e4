------------------------------ MODULE FrameFeed ------------------------------
(***************************************************************************)
(* What a stream promises to the application that reads it, whatever the   *)
(* number of its readers: the frames handed out for a stream are frames    *)
(* the sensor made, each at most once, and never an older one after a      *)
(* newer one. Frames may be skipped: a reader that is late gets the newest. *)
(***************************************************************************)
EXTENDS Naturals, Sequences

CONSTANT Streams

VARIABLES
    made,       \* number of frames made so far; frame n is the n-th one
    delivered   \* for each stream, the frames handed to readers, in their order

Init == made = 0 /\ delivered = [s \in Streams |-> <<>>]

Make == made' = made + 1 /\ UNCHANGED delivered

Deliver(s, n) ==
    /\ \A i \in DOMAIN delivered[s] : delivered[s][i] < n
    /\ delivered' = [delivered EXCEPT ![s] = Append(@, n)]
    /\ UNCHANGED made

Next == Make \/ \E s \in Streams : \E n \in 1..made : Deliver(s, n)

Spec == Init /\ [][Next]_<<made, delivered>>
=============================================================================
