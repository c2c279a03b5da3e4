---------------------------- MODULE MCPlayerNode ----------------------------
(* Sessions with two nodes. *)
EXTENDS PlayerNode

CONSTANTS MaxEvents, MaxTime

\* The times of a node's frames begin with 0 and increase.
Event(type, n, t) == [type |-> type, node |-> n, time |-> t]
MCEvents ==
    {Event("data", n, t) : n \in Nodes, t \in 0..MaxTime}
    \cup {Event("property", 1, 0), Event("removed", 1, 0)}
TimesAreRecorded(e) ==
    \A i \in DOMAIN e : e[i].type = "data" =>
      LET before == {j \in 1..i-1 : e[j].type = "data" /\ e[j].node = e[i].node} IN
      IF before = {} THEN e[i].time = 0 ELSE \A j \in before : e[j].time < e[i].time
AfterRemoved(e) ==
    \A i, j \in DOMAIN e : i < j /\ e[i].type = "removed" => e[j].node # e[i].node
Count(e, type, n) == Cardinality({i \in DOMAIN e : e[i].type = type /\ e[i].node = n})
EventSequences(least, most) ==
    {e \in UNION {[1..k -> MCEvents] : k \in least..most} :
       /\ \E i \in DOMAIN e : e[i].type = "data" /\ e[i].node = 2
       /\ TimesAreRecorded(e) /\ AfterRemoved(e)
       /\ Cardinality({i \in DOMAIN e : e[i].type = "property"}) <= 1}

Full(e) == [events |-> e, early |-> {}, initial |-> Nodes, tables |-> Nodes,
            finished |-> TRUE]

Lacking(e) ==
    {[Full(e) EXCEPT !.tables = {1}], [Full(e) EXCEPT !.initial = {2}],
     [Full(e) EXCEPT !.finished = FALSE, !.tables = {}]}
    \cup IF \E i \in DOMAIN e : e[i].node = 1 THEN {}
         ELSE {[Full(e) EXCEPT !.early = {1}]}

\* Recordings with all there is, the longest with two frames of each node and a
\* property, then some where something is missing: seek tables, the property when the
\* stream was attached, the end, or all of a node but its beginning.
MCSessions ==
    {Full(e) : e \in {x \in EventSequences(3, MaxEvents - 1) : Count(x, "data", 1) > 0}}
    \cup {Full(e) : e \in {x \in EventSequences(MaxEvents, MaxEvents) :
                            /\ \A n \in Nodes : Count(x, "data", n) = 2
                            /\ Count(x, "property", 1) = 1}}
    \cup UNION {Lacking(e) : e \in EventSequences(MaxEvents - 2, MaxEvents - 2)}
=============================================================================
