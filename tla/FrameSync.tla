------------------------------- MODULE FrameSync -------------------------------
(***************************************************************************)
(* The frame sync of the PS1080 driver: XnSensor::OnNewStreamData keeps    *)
(* the frames of a group of streams until there is one of each, close in   *)
(* time, and hands the set to the core with one new index for all of them. *)
(* Each stream has a thread that reads its USB endpoint and makes its      *)
(* frames; threads of the application start and stop streams, which may    *)
(* switch the sync, and replace the group.                                 *)
(*                                                                         *)
(* A step of a USB thread under m_frameSyncCs is one action. The sync is   *)
(* decided from three properties without that lock, so a call decides in   *)
(* one step and sets m_nFrameSyncEnabled in another; replacing the group   *)
(* keeps the lock (cs) from its first step to its last. Handing a frame to *)
(* the core is raising XnDeviceBase's event of new stream data.            *)
(***************************************************************************)
EXTENDS Integers, Sequences, FiniteSets

CONSTANTS
    Streams,        \* the depth and the color stream
    Apps,           \* threads of the application
    Groups,         \* the groups the core makes: sequences of streams
    MaxDiff,        \* FRAME_SYNC_MAX_FRAME_TIME_DIFF
    Period,         \* at least so much later is the next frame of a stream
    MaxFrames,      \* bound: frames of each stream
    MaxTime,        \* bound: timestamps
    MaxCalls,       \* bound: calls of the application
    None

ASSUME StreamsAssumption == \E s, t \in Streams : Streams = {s, t}
ASSUME GroupsAssumption == \A g \in Groups : g \in Seq(Streams) /\ g # <<>>
ASSUME TimesAssumption == MaxDiff \in Nat /\ Period \in Nat /\ MaxTime \in Nat
ASSUME BoundsAssumption == MaxFrames \in Nat /\ MaxCalls \in Nat
ASSUME NoneAssumption ==
    None \notin Streams /\ None \notin [stream : Streams, id : 1..MaxFrames, time : 0..MaxTime]

VARIABLES
    on,             \* m_Stream0Mode, m_Stream1Mode: the streams that are on
    started,        \* the streams whose start has returned
    requested,      \* m_FrameSync
    enabled,        \* m_nFrameSyncEnabled
    synced,         \* m_FrameSyncedStreams: of each the stream and its stored frame
    lastFrameID,    \* m_nFrameSyncLastFrameID
    cs,             \* the thread of the application that keeps m_frameSyncCs, or None
    usb,            \* [at, frame, seen, kind] of each stream's thread
    stable,         \* [id, time]: m_nStableFrameID and the timestamp of the last frame
    refs,           \* references of the driver to each frame
    app,            \* [at, stream, group, value] of each thread of the application
    calls,          \* the calls so far
    handed,         \* history: of each stream, the frame handed last for this group
    undisturbed     \* history: no command failed, no decision was overtaken by another

vars == <<on, started, requested, enabled, synced, lastFrameID, cs, usb, stable, refs,
          app, calls, handed, undisturbed>>

properties == <<on, started, requested>>
threads == <<usb, stable>>

Frames == [stream : Streams, id : 1..MaxFrames]
Idle == [at |-> "idle", stream |-> None, group |-> <<>>, value |-> FALSE]
\* A frame is handed on in a "set"; "alone", though its stream is in the group and the
\* sync is on; or "free" of both.
Nothing == [index |-> 0, time |-> 0, kind |-> "free"]
Waiting == [at |-> "wait", frame |-> None, seen |-> 0, kind |-> "free"]

Init ==
    /\ on = {} /\ started = {} /\ requested = FALSE /\ enabled = FALSE
    /\ synced = <<>> /\ lastFrameID = 0 /\ cs = None
    /\ usb = [s \in Streams |-> [Waiting EXCEPT !.at = "off"]]
    /\ stable = [s \in Streams |-> [id |-> 0, time |-> 0]]
    /\ refs = [f \in Frames |-> 0]
    /\ app = [a \in Apps |-> Idle] /\ calls = 0
    /\ handed = [s \in Streams |-> Nothing]
    /\ undisturbed = TRUE

-----------------------------------------------------------------------------
(* A USB thread: a frame is complete, and OnNewStreamData gets it. *)

FrameOf(f) == [stream |-> f.stream, id |-> f.id]
Distance(f, g) == IF f.time > g.time THEN f.time - g.time ELSE g.time - f.time

\* MarkWriteBufferAsStable: the working buffer gets its index, and a new one is taken.
FrameReady(s) ==
    /\ usb[s].at = "wait" /\ stable[s].id < MaxFrames
    /\ \E t \in (stable[s].time + Period)..MaxTime :
        LET f == [stream |-> s, id |-> stable[s].id + 1, time |-> t] IN
        /\ stable' = [stable EXCEPT ![s] = [id |-> f.id, time |-> t]]
        /\ usb' = [usb EXCEPT ![s] = [Waiting EXCEPT !.at = "new", !.frame = f]]
        /\ refs' = [refs EXCEPT ![FrameOf(f)] = 1]
    /\ UNCHANGED <<properties, enabled, synced, lastFrameID, cs, app, calls, handed, undisturbed>>

NeverFar(f, e) == FALSE         \* mutant: times are not compared

\* The loop ends at the first other stream whose stored frame is too far from f.
IsFar(f, e) == e.stream # f.stream /\ e.frame # None /\ Distance(f, e.frame) > MaxDiff
End(f) ==
    LET far == {i \in DOMAIN synced : enabled /\ IsFar(f, synced[i])}
    IN  IF far = {} THEN Len(synced) + 1 ELSE CHOOSE i \in far : \A j \in far : i <= j

\* The entries of f's stream that the loop comes to, and how many frames it counts.
Own(f) == {i \in DOMAIN synced : enabled /\ i < End(f) /\ synced[i].stream = f.stream}
Counted(f) == {i \in DOMAIN synced : enabled /\ i < End(f) /\ (i \in Own(f) \/ synced[i].frame # None)}

\* The entries released at the end of the loop: the far frame when f is newer, else f
\* itself, in the last of its entries. Without an entry so far f is dropped altogether.
Last(S) == {i \in S : \A j \in S : j <= i}
Outdated(f) ==
    IF End(f) > Len(synced) THEN {}
    ELSE IF f.time > synced[End(f)].frame.time THEN {End(f)} ELSE Last(Own(f))
Dropped(f) ==
    /\ End(f) <= Len(synced) /\ Own(f) = {}
    /\ f.time <= synced[End(f)].frame.time

Stored(f) ==
    [i \in DOMAIN synced |->
        IF i \in Outdated(f) THEN [synced[i] EXCEPT !.frame = None]
        ELSE IF i \in Own(f) THEN [synced[i] EXCEPT !.frame = f]
        ELSE synced[i]]

KeptRefsOfReplaced(f) == [g \in Frames |->      \* mutant: a replaced frame is not released
    LET of(i) == synced[i].frame # None /\ FrameOf(synced[i].frame) = g IN
    refs[g] + (IF g = FrameOf(f) THEN Cardinality(Own(f)) ELSE 0)
            - Cardinality({i \in Outdated(f) : IF i \in Own(f) THEN g = FrameOf(f) ELSE of(i)})]

\* AddRefToFrame for each entry f is stored in, ReleaseFrame for each frame replaced,
\* and for each one released as outdated.
KeptRefs(f) == [g \in Frames |->
    LET of(i) == synced[i].frame # None /\ FrameOf(synced[i].frame) = g IN
    refs[g] + (IF g = FrameOf(f) THEN Cardinality(Own(f)) ELSE 0)
            - Cardinality({i \in Own(f) : of(i)})
            - Cardinality({i \in Outdated(f) : IF i \in Own(f) THEN g = FrameOf(f) ELSE of(i)})]

\* mutant: a stream that is twice in the group is counted once
IsCompleteOfOne(f) == Cardinality(Counted(f)) - Cardinality(Own(f)) + 1 = Len(synced)

\* All the frames arrived.
IsComplete(f) == Cardinality(Counted(f)) = Len(synced)

\* The whole set gets the next index, is handed to the core and released.
SendSet(f) ==
    LET of(g) == {i \in DOMAIN synced : FrameOf(Stored(f)[i].frame) = g} IN
    /\ lastFrameID' = lastFrameID + 1
    /\ handed' = [s \in Streams |->
                    IF \E i \in DOMAIN synced : synced[i].stream = s
                    THEN [index |-> lastFrameID + 1, kind |-> "set",
                          time |-> (CHOOSE e \in {Stored(f)[i] : i \in DOMAIN synced} :
                                        e.stream = s).frame.time]
                    ELSE handed[s]]
    /\ synced' = [i \in DOMAIN synced |-> [synced[i] EXCEPT !.frame = None]]
    /\ refs' = [g \in Frames |-> KeptRefs(f)[g] - Cardinality(of(g)) - (IF g = FrameOf(f) THEN 1 ELSE 0)]

\* The critical section of OnNewStreamData. A frame of a synced stream stays in the
\* list or goes with its set; any other goes on alone, unless it was dropped.
OnNewStreamData(s) ==
    LET f == usb[s].frame
        done == [usb EXCEPT ![s] = Waiting]
    IN
    /\ usb[s].at = "new" /\ cs = None
    /\ \/ /\ Own(f) # {} /\ IsComplete(f)
          /\ SendSet(f) /\ usb' = done
       \/ /\ Own(f) # {} /\ ~IsComplete(f)
          /\ synced' = Stored(f) /\ usb' = done
          /\ refs' = [KeptRefs(f) EXCEPT ![FrameOf(f)] = @ - 1]
          /\ UNCHANGED <<lastFrameID, handed>>
       \/ /\ Own(f) = {}
          /\ synced' = Stored(f) /\ refs' = KeptRefs(f)
          /\ usb' = [usb EXCEPT ![s] = [usb[s] EXCEPT
                        !.at = IF Dropped(f) THEN "drop" ELSE "pass",
                        !.kind = IF enabled /\ \E i \in DOMAIN synced : synced[i].stream = s
                                 THEN "alone" ELSE "free"]]
          /\ UNCHANGED <<lastFrameID, handed>>
    /\ UNCHANGED <<properties, enabled, cs, stable, app, calls, undisturbed>>

\* The lock is left. m_nFrameSyncLastFrameID is read and written without it.
ReadLastID(s) ==
    /\ usb[s].at \in {"pass", "drop"}
    /\ usb' = [usb EXCEPT ![s] = [usb[s] EXCEPT
                    !.at = IF usb[s].at = "pass" THEN "raise" ELSE "raiseDrop",
                    !.seen = IF lastFrameID < usb[s].frame.id THEN usb[s].frame.id ELSE lastFrameID]]
    /\ UNCHANGED <<properties, enabled, synced, lastFrameID, cs, stable, refs, app, calls,
                   handed, undisturbed>>

\* The larger index is written, and the frame is handed to the core with its own index.
PassFrame(s) ==
    /\ usb[s].at \in {"raise", "raiseDrop"}
    /\ lastFrameID' = usb[s].seen
    /\ handed' = IF usb[s].at = "raise"
                 THEN [handed EXCEPT ![s] = [index |-> usb[s].frame.id, kind |-> usb[s].kind,
                                             time |-> usb[s].frame.time]]
                 ELSE handed
    /\ refs' = [refs EXCEPT ![FrameOf(usb[s].frame)] = @ - 1]
    /\ usb' = [usb EXCEPT ![s] = Waiting]
    /\ UNCHANGED <<properties, enabled, synced, cs, stable, app, calls, undisturbed>>

-----------------------------------------------------------------------------
(* The application. A command to the firmware may fail. *)

BothOn == on = Streams           \* mutant: the sync is not asked for

\* The user asked for the sync, and both streams are on.
Both == requested /\ on = Streams

\* A decision of another call is under way: its flag was not set yet.
Undecided(a) == \E b \in Apps \ {a} : app[b].at \in {"flag", "groupFlag"}

\* The stream's thread exists before the stream's mode is set, which raises the event
\* of the property.
StartStream(a, s) ==
    /\ app[a].at = "idle" /\ calls < MaxCalls /\ calls' = calls + 1
    /\ usb[s].at = "off" /\ s \notin started
    /\ \A b \in Apps : app[b].stream # s
    /\ usb' = [usb EXCEPT ![s].at = "wait"]
    /\ on' = on \cup {s}
    /\ app' = [app EXCEPT ![a] = [Idle EXCEPT !.at = "decide", !.stream = s]]
    /\ undisturbed' = (undisturbed /\ ~Undecided(a))
    /\ UNCHANGED <<started, requested, enabled, synced, lastFrameID, cs, stable, refs, handed>>

\* The core has regrouped before it stops a stream, and that disabled the sync: a failure of
\* it, which the driver ignores, would leave the stream in synced.
StopStream(a, s) ==
    /\ app[a].at = "idle" /\ calls < MaxCalls /\ calls' = calls + 1
    /\ s \in started
    /\ \A i \in DOMAIN synced : synced[i].stream # s
    /\ \A b \in Apps : \A i \in DOMAIN app[b].group : app[b].group[i] # s
    /\ started' = started \ {s}
    /\ on' = on \ {s}
    /\ app' = [app EXCEPT ![a] = [Idle EXCEPT !.at = "decide", !.stream = s]]
    /\ undisturbed' = (undisturbed /\ ~Undecided(a))
    /\ UNCHANGED <<requested, enabled, synced, lastFrameID, cs, threads, refs, handed>>

\* OnFrameSyncPropertyChanged: decides from the properties, and tells the firmware.
Decide(a) ==
    /\ app[a].at = "decide"
    /\ app' = [app EXCEPT ![a] = [app[a] EXCEPT !.at = "flag", !.value = Both]]
    /\ UNCHANGED <<properties, enabled, synced, lastFrameID, cs, threads, refs, calls, handed,
                   undisturbed>>

\* The command fails: the call returns, and the flag stays.
DecideFails(a) ==
    /\ app[a].at = "decide"
    /\ app' = [app EXCEPT ![a] = Idle] /\ undisturbed' = FALSE
    /\ UNCHANGED <<properties, enabled, synced, lastFrameID, cs, threads, refs, calls, handed>>

\* Then it sets m_nFrameSyncEnabled under the lock. A start is done, a stop waits for
\* the stream's thread.
SetEnabled(a) ==
    /\ app[a].at = "flag" /\ cs = None
    /\ enabled' = app[a].value
    /\ IF app[a].stream \in on
       THEN app' = [app EXCEPT ![a] = Idle] /\ started' = started \cup {app[a].stream}
       ELSE app' = [app EXCEPT ![a].at = "join"] /\ UNCHANGED started
    /\ UNCHANGED <<on, requested, synced, lastFrameID, cs, threads, refs, calls, handed, undisturbed>>

\* SetActualRead(FALSE).
JoinThread(a) ==
    /\ app[a].at = "join" /\ usb[app[a].stream].at = "wait"
    /\ usb' = [usb EXCEPT ![app[a].stream].at = "off"]
    /\ app' = [app EXCEPT ![a] = Idle]
    /\ UNCHANGED <<properties, enabled, synced, lastFrameID, cs, stable, refs, calls, handed,
                   undisturbed>>

\* SetFrameSyncStreamGroup takes the lock and sets m_FrameSync; the event is only
\* raised when its value changes. The core makes a group of started streams when there
\* is none, and ends it with an empty one.
BeginGroup(a, g) ==
    /\ app[a].at = "idle" /\ calls < MaxCalls /\ calls' = calls + 1
    /\ cs = None
    /\ (g = <<>>) # (synced = <<>>) /\ \A i \in DOMAIN g : g[i] \in started
    /\ cs' = a
    /\ requested' = (g # <<>>)
    /\ app' = [app EXCEPT ![a] = [Idle EXCEPT
                    !.at = IF requested = (g # <<>>) THEN "replace" ELSE "groupDecide", !.group = g]]
    /\ undisturbed' = (undisturbed /\ (requested = (g # <<>>) \/ ~Undecided(a)))
    /\ UNCHANGED <<on, started, enabled, synced, lastFrameID, threads, refs, handed>>

\* OnFrameSyncPropertyChanged inside it. The group stays when the command fails, and
\* m_FrameSync does not go back.
GroupDecide(a) ==
    /\ app[a].at = "groupDecide"
    /\ app' = [app EXCEPT ![a] = [app[a] EXCEPT !.at = "groupFlag", !.value = Both]]
    /\ UNCHANGED <<properties, enabled, synced, lastFrameID, cs, threads, refs, calls, handed,
                   undisturbed>>
GroupFails(a) ==
    /\ app[a].at = "groupDecide"
    /\ app' = [app EXCEPT ![a] = Idle] /\ cs' = None /\ undisturbed' = FALSE
    /\ UNCHANGED <<properties, enabled, synced, lastFrameID, threads, refs, calls, handed>>
GroupSetEnabled(a) ==
    /\ app[a].at = "groupFlag"
    /\ enabled' = app[a].value
    /\ app' = [app EXCEPT ![a].at = "replace"]
    /\ UNCHANGED <<properties, synced, lastFrameID, cs, threads, refs, calls, handed, undisturbed>>

\* The stored frames are released, and the new streams have none.
ReplaceGroup(a) ==
    /\ app[a].at = "replace"
    /\ synced' = [i \in DOMAIN app[a].group |-> [stream |-> app[a].group[i], frame |-> None]]
    /\ refs' = [f \in Frames |-> refs[f] - Cardinality({i \in DOMAIN synced :
                    synced[i].frame # None /\ FrameOf(synced[i].frame) = f})]
    /\ handed' = [s \in Streams |-> Nothing]
    /\ usb' = [s \in Streams |-> [usb[s] EXCEPT !.kind = "free"]]
    /\ cs' = None /\ app' = [app EXCEPT ![a] = Idle]
    /\ UNCHANGED <<properties, enabled, lastFrameID, stable, calls, undisturbed>>

-----------------------------------------------------------------------------
UsbThread(s) == FrameReady(s) \/ OnNewStreamData(s) \/ ReadLastID(s) \/ PassFrame(s)

Application(a) ==
    \/ \E s \in Streams : StartStream(a, s) \/ StopStream(a, s)
    \/ Decide(a) \/ DecideFails(a) \/ SetEnabled(a) \/ JoinThread(a)
    \/ \E g \in Groups \cup {<<>>} : BeginGroup(a, g)
    \/ GroupDecide(a) \/ GroupFails(a) \/ GroupSetEnabled(a) \/ ReplaceGroup(a)

Next == (\E s \in Streams : UsbThread(s)) \/ (\E a \in Apps : Application(a))

Spec == Init /\ [][Next]_vars

-----------------------------------------------------------------------------
(* Types. *)

TimedFrames == [stream : Streams, id : 1..MaxFrames, time : 0..MaxTime]
Entries == [stream : Streams, frame : TimedFrames \cup {None}]
UsbStates ==
    [at : {"off", "wait", "new", "pass", "drop", "raise", "raiseDrop"},
     frame : TimedFrames \cup {None}, seen : Nat, kind : {"free", "alone"}]
AppStates ==
    [at : {"idle", "decide", "flag", "join", "groupDecide", "groupFlag", "replace"},
     stream : Streams \cup {None}, group : Seq(Streams), value : BOOLEAN]

TypeOK ==
    /\ on \subseteq Streams /\ started \subseteq Streams
    /\ {requested, enabled, undisturbed} \subseteq BOOLEAN
    /\ synced \in Seq(Entries)
    /\ lastFrameID \in Nat
    /\ cs \in Apps \cup {None}
    /\ usb \in [Streams -> UsbStates]
    /\ stable \in [Streams -> [id : 0..MaxFrames, time : 0..MaxTime]]
    /\ refs \in [Frames -> Int]
    /\ app \in [Apps -> AppStates]
    /\ calls \in 0..MaxCalls
    /\ handed \in [Streams -> [index : Nat, time : 0..MaxTime, kind : {"free", "alone", "set"}]]

-----------------------------------------------------------------------------
(* Properties. *)

\* The streams of the last set were handed frames of one moment with one index.
SetIsOfOneMoment ==
    \A s, t \in Streams :
        handed[s].kind = "set" /\ handed[t].kind = "set" =>
            /\ handed[s].index = handed[t].index
            /\ handed[s].time - handed[t].time <= MaxDiff

\* No frame leaks in the list, and none is released while it is used: the references
\* of the driver are those of the stream's thread and of the list.
ReferencesExact ==
    \A f \in Frames :
        refs[f] = Cardinality({i \in DOMAIN synced : synced[i].frame # None
                                                   /\ FrameOf(synced[i].frame) = f})
                + Cardinality({s \in Streams : usb[s].frame # None /\ FrameOf(usb[s].frame) = f})

\* A set that is complete was handed on: there is always a stream whose frame is missing.
NoCompleteSetWaits ==
    synced # <<>> => \E i \in DOMAIN synced : synced[i].frame = None

\* Between calls the sync is on exactly while it is asked for and both streams are on,
\* unless a command failed or a decision was overtaken by a change it had not seen.
EnabledIsCurrent ==
    undisturbed /\ (\A a \in Apps : app[a].at \in {"idle", "join"}) => enabled = (requested /\ on = Streams)

\* "Send the frame (it is not frame-synced)": a frame handed on with its own index is
\* of a stream that is not in the group, or came when the sync was off.
OnlyUnsyncedGoAlone == \A s \in Streams : handed[s].kind # "alone"

\* The core takes frames of a group for one set when their indexes are equal: the last
\* frames it was handed, of two streams of the group, only have one index when they are
\* of one moment. A frame that goes alone may have the index of a set before it.
SameIndexSameMoment ==
    \A s, t \in Streams :
        "free" \notin {handed[s].kind, handed[t].kind} /\ handed[s].index = handed[t].index
            => handed[s].time - handed[t].time <= MaxDiff
=============================================================================
