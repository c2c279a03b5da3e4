---------------------------- MODULE SyncedFrames ----------------------------
(***************************************************************************)
(* SyncedStreamsFrameHolder (OniSyncedStreamsFrameHolder.cpp): the frame   *)
(* holder shared by the depth and color streams of a device while frame    *)
(* sync is on. It keeps the last frame of each stream and, once the last   *)
(* frames of all of them have one index, latches them as the synced set    *)
(* that waitForStreams and readFrame hand out.                             *)
(*                                                                         *)
(* The module follows one group through its life. Every operation of the   *)
(* holder runs under the holder's lock, the raising of the events          *)
(* included, so each is one step. A stream enters a group only while it is *)
(* started, so the `enabled` flag of its entry is TRUE. The event of the   *)
(* stream's listener, raised with the two others, is left to StreamRead.   *)
(*                                                                         *)
(* A frame is known by its stream and index; 0 stands for NULL.            *)
(***************************************************************************)
EXTENDS Naturals

CONSTANTS
    Streams,        \* the streams of the group
    First,          \* the stream of entry 0 of m_FrameSyncedStreams
    Indexes,        \* values of OniFrame::frameIndex
    Readers,        \* application threads
    None

ASSUME StreamsAssumption == First \in Streams /\ None \notin Streams
ASSUME IndexesAssumption == Indexes \subseteq Nat \ {0}

VARIABLES
    last,           \* pLastFrame of each entry
    synced,         \* pSyncedFrame of each entry
    held,           \* references the holder owns, for each stream and index
    holderEvent,    \* VideoStream::m_newFrameInternalEventForFrameHolder
    threadEvent,    \* the events of Context::m_waitingThreads
    registered,     \* the threads that have an entry in m_waitingThreads
    reader,         \* where each reader is
    given           \* history: what each stream handed out of the current set

vars == <<last, synced, held, holderEvent, threadEvent, registered, reader, given>>
readerVars == <<registered, reader>>

FrameIds == Streams \X Indexes
Empty == [s \in Streams |-> 0]
Idle == [step |-> "idle", stream |-> None]

TypeOK ==
    /\ last \in [Streams -> Indexes \cup {0}]
    /\ synced \in [Streams -> Indexes \cup {0}]
    /\ held \in [FrameIds -> Nat]
    /\ holderEvent \in [Streams -> BOOLEAN]
    /\ threadEvent \in [Readers -> BOOLEAN]
    /\ registered \subseteq Readers
    /\ reader \in [Readers ->
         {Idle} \cup [step : {"scan", "block", "found", "read", "wait"}, stream : Streams]]
    /\ given \in [Streams -> Indexes \cup {0}]

Init ==
    /\ last = Empty /\ synced = Empty /\ given = Empty
    /\ held = [p \in FrameIds |-> 0]
    /\ holderEvent \in [Streams -> BOOLEAN]     \* left from before the group
    /\ threadEvent = [t \in Readers |-> FALSE]
    /\ registered = {}
    /\ reader = [t \in Readers |-> Idle]

-----------------------------------------------------------------------------

One(condition) == IF condition THEN 1 ELSE 0

\* Mutant: only the waiting threads' events are set.
RaiseThreadEvents ==
    /\ threadEvent' = [t \in Readers |-> threadEvent[t] \/ t \in registered]
    /\ UNCHANGED holderEvent

\* raiseNewFrameEvent of every stream of the group.
RaiseNewFrameEvents ==
    /\ holderEvent' = [s \in Streams |-> TRUE]
    /\ threadEvent' = [t \in Readers |-> threadEvent[t] \/ t \in registered]

\* The latched set may be replaced when none of it was read, or all of it.
Replaceable(unread) == unread \in {{}, Streams}

\* Mutant: a frame of every stream is enough.
AllStored(stored, i) == \A u \in Streams : stored[u] # 0

\* The last frames `stored` are a set of the index of the new one.
Matches(stored, i) == \A u \in Streams : stored[u] = i

\* processNewFrame: keep the frame as the last one of its stream; latch when the
\* last frames of all streams match and the set before was not touched or is used up.
ProcessNewFrame(s, i) ==
    LET stored  == [last EXCEPT ![s] = i]
        unread  == {u \in Streams : synced[u] # 0}
        latch   == /\ Replaceable(unread)
                   /\ Matches(stored, i)
    IN  /\ held' = [p \in FrameIds |->
                     held[p] + One(p = <<s, i>>)
                             - One(p = <<s, last[s]>>)
                             - One(latch /\ synced[p[1]] = p[2])]
        /\ IF latch
             THEN /\ synced' = stored /\ last' = Empty /\ given' = Empty
                  /\ RaiseNewFrameEvents
             ELSE /\ last' = stored
                  /\ UNCHANGED <<synced, given, holderEvent, threadEvent>>
        /\ UNCHANGED readerVars

-----------------------------------------------------------------------------
(* A reader: Context::waitForStreams on one stream, then readFrame.        *)

Step(t, step) == reader' = [reader EXCEPT ![t].step = step]

Call(t, s) ==
    /\ reader[t] = Idle
    /\ registered' = registered \cup {t}
    /\ reader' = [reader EXCEPT ![t] = [step |-> "scan", stream |-> s]]
    /\ UNCHANGED <<last, synced, held, holderEvent, threadEvent, given>>

\* peekFrame shows only synced frames.
Peek(t) ==
    /\ reader[t].step = "scan"
    /\ Step(t, IF synced[reader[t].stream] # 0 THEN "found" ELSE "block")
    /\ UNCHANGED <<last, synced, held, holderEvent, threadEvent, registered, given>>

Wake(t) ==
    /\ reader[t].step = "block" /\ threadEvent[t]
    /\ threadEvent' = [threadEvent EXCEPT ![t] = FALSE]
    /\ Step(t, "scan")
    /\ UNCHANGED <<last, synced, held, holderEvent, registered, given>>

\* A waitForStreams that was not called by readFrame returns when its stream has
\* a frame, or when its time is over.
Return(t) ==
    /\ reader[t].step \in {"found", "block"}
    /\ reader' = [reader EXCEPT ![t] = Idle]
    /\ UNCHANGED <<last, synced, held, holderEvent, threadEvent, registered, given>>

\* readFrame finds nothing: unlock and wait for the stream's event ...
FindNothing(t) ==
    LET s == reader[t].stream IN
    /\ reader[t].step \in {"found", "read"} /\ synced[s] = 0 /\ last[s] = 0
    /\ Step(t, "wait")
    /\ UNCHANGED <<last, synced, held, holderEvent, threadEvent, registered, given>>

\* ... and start again.
WaitNewFrameEvent(t) ==
    LET s == reader[t].stream IN
    /\ reader[t].step = "wait" /\ holderEvent[s]
    /\ holderEvent' = [holderEvent EXCEPT ![s] = FALSE]
    /\ Step(t, "read")
    /\ UNCHANGED <<last, synced, held, threadEvent, registered, given>>

Newest(S) == CHOOSE i \in S : \A j \in S : j <= i

\* readFrame takes the synced frame of the stream or else the last one; drops the
\* synced frames of the other streams if they do not match it; and latches the
\* last frames if they match and no synced one is left. In that test, which
\* compares with entry 0, the stream whose last frame was taken counts as valid.
ReadFrame(t) ==
    LET s          == reader[t].stream
        fromSynced == synced[s] # 0
        frame      == IF fromSynced THEN synced[s] ELSE last[s]
        remaining  == IF fromSynced THEN last ELSE [last EXCEPT ![s] = 0]
        others     == {synced[u] : u \in Streams \ {s}} \ {0}
        invalidate == others # {} /\ frame # Newest(others)
        valid      == {u \in Streams : remaining[u] # 0 /\ remaining[u] = last[First]}
                      \cup IF fromSynced THEN {} ELSE {s}
        left       == IF invalidate THEN Empty ELSE [synced EXCEPT ![s] = 0]
        latch      == left = Empty /\ valid = Streams
    IN  /\ reader[t].step \in {"found", "read"} /\ frame # 0
        /\ held' = [p \in FrameIds |->
                     held[p] - One(p = <<s, frame>>)
                             - One(invalidate /\ p[1] # s /\ synced[p[1]] = p[2])]
        /\ IF latch
             THEN /\ synced' = remaining /\ last' = Empty
                  /\ given' = [Empty EXCEPT ![s] = IF fromSynced THEN 0 ELSE frame]
                  /\ RaiseNewFrameEvents
             ELSE /\ synced' = left /\ last' = remaining
                  /\ given' = IF left = Empty THEN Empty ELSE [given EXCEPT ![s] = frame]
                  /\ UNCHANGED <<holderEvent, threadEvent>>
        /\ reader' = [reader EXCEPT ![t] = Idle]
        /\ UNCHANGED registered

ReaderStep(t) ==
    Peek(t) \/ Wake(t) \/ FindNothing(t) \/ WaitNewFrameEvent(t) \/ ReadFrame(t)

-----------------------------------------------------------------------------

\* Mutant: the last frames are forgotten, not released.
RegroupWithoutRelease ==
    /\ \A t \in Readers : reader[t].step # "wait"
    /\ held' = [p \in FrameIds |-> held[p] - One(synced[p[1]] = p[2])]
    /\ last' = Empty /\ synced' = Empty /\ given' = Empty
    /\ UNCHANGED <<holderEvent, threadEvent, readerVars>>

\* Device::refreshDepthColorSyncState with the same streams (another stream of the
\* device is created or destroyed): disableFrameSync clears the holder, and
\* enableFrameSyncEx makes the group a new one. The old holder is deleted, so no
\* thread may be waiting inside it: assumed here, not ensured by the code.
Regroup ==
    /\ \A t \in Readers : reader[t].step # "wait"
    /\ held' = [p \in FrameIds |-> held[p] - One(last[p[1]] = p[2])
                                           - One(synced[p[1]] = p[2])]
    /\ last' = Empty /\ synced' = Empty /\ given' = Empty
    /\ UNCHANGED <<holderEvent, threadEvent, readerVars>>

Next ==
    \/ \E s \in Streams, i \in Indexes : ProcessNewFrame(s, i)
    \/ \E t \in Readers : ReaderStep(t) \/ Return(t) \/ \E s \in Streams : Call(t, s)
    \/ Regroup

Spec == Init /\ [][Next]_vars

-----------------------------------------------------------------------------
(* Properties *)

\* Whatever frames are lost, read or dropped, the synced frames the streams show
\* at any moment have one index: readers that take them get a matching set.
SyncedFramesMatch ==
    \A s, u \in Streams : synced[s] # 0 /\ synced[u] # 0 => synced[s] = synced[u]

\* The references the holder owns are those of the frames it shows: latching,
\* replacing, invalidating and clearing release each frame once and leak none.
HeldExact ==
    \A s \in Streams, i \in Indexes :
        held[<<s, i>>] = One(last[s] = i) + One(synced[s] = i)

\* A matching set of last frames never waits while nothing is latched: the reader
\* that takes the rest of the old set makes the new one available.
MatchingSetIsOffered ==
    (\A s \in Streams : last[s] # 0 /\ last[s] = last[First]) =>
        \E s \in Streams : synced[s] # 0

\* A reader does not sleep in waitForStreams on a synced frame it was not told of.
NoLostWakeup ==
    \A t \in Readers :
        reader[t].step = "block" /\ synced[reader[t].stream] # 0 => threadEvent[t]

\* A reader does not hang in readFrame on a synced frame: its event is set, or
\* another reader of the stream has consumed it and will take the frame.
WaitingReaderIsSignalled ==
    \A t \in Readers :
        reader[t].step = "wait" /\ synced[reader[t].stream] # 0 =>
            \/ holderEvent[reader[t].stream]
            \/ \E u \in Readers : /\ reader[u].stream = reader[t].stream
                                  /\ reader[u].step = "read"

\* "frame numbers for corresponding frames of depth and color are guaranteed to
\* match" (OpenNI.h, VideoFrameRef::getFrameIndex): what is left of a set matches
\* what the other streams handed out of it.
SetIsNotMixed ==
    \A s, u \in Streams : given[s] # 0 /\ synced[u] # 0 => given[s] = synced[u]

=============================================================================
