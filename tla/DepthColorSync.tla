--------------------------- MODULE DepthColorSync ---------------------------
(***************************************************************************)
(* Which frame holder each stream of a device uses while depth/color sync  *)
(* is switched on and off, and streams are created, started, stopped and   *)
(* destroyed: Device (OniDevice.cpp), VideoStream::start, stop and         *)
(* destructor (OniStream.cpp), and Context::enableFrameSyncEx,             *)
(* disableFrameSync and streamDestroy (OniContext.cpp).                    *)
(*                                                                         *)
(* The calls come from one control thread, so each is one step. What the   *)
(* driver and the readers do in a holder meanwhile is in SyncedFrames and  *)
(* StreamRead. The names are apart from those of SyncedFrames:             *)
(* SyncedHoldersProofs extends both.                                       *)
(***************************************************************************)
EXTENDS Naturals, FiniteSets

CONSTANTS
    VideoStreams,   \* VideoStreams of the device
    Sensors,        \* its sensors
    SensorOf,       \* the sensor of a stream
    DepthColor,     \* the streams of type depth or color
    Groups,         \* addresses of SyncedStreamsFrameHolder objects
    Own,            \* a StreamFrameHolder that belongs to one stream
    NoGroup,        \* m_depthColorSyncHandle while it is NULL
    MaxRefusals     \* bound: how many groups the driver refuses

ASSUME SensorAssumption == SensorOf \in [VideoStreams -> Sensors]
ASSUME TypeAssumption   == DepthColor \subseteq VideoStreams
ASSUME NamesAssumption  == Own \notin Groups /\ NoGroup \notin Groups
ASSUME BoundAssumption  == MaxRefusals \in Nat

VARIABLES
    streams,        \* Device::m_streams
    started,        \* the streams with VideoStream::m_started
    sync            \* the state of the synchronization, see SyncStates

syncVars == <<streams, started, sync>>

SyncStates == [
    enabled  : BOOLEAN,                             \* Device::m_syncEnabled
    context  : BOOLEAN,                             \* is Device::m_pContext set?
    handle   : Groups \cup {NoGroup},               \* Device::m_depthColorSyncHandle
    holder   : [VideoStreams -> Groups \cup {Own}], \* VideoStream::m_pFrameHolder
    members  : [Groups -> SUBSET VideoStreams],     \* m_FrameSyncedStreams
    live     : SUBSET Groups,                       \* synced holders not deleted
    leaked   : SUBSET Groups,                       \* history: made for a refused group
    inDriver : SUBSET Groups,                       \* groups enabled in the driver
    refused  : BOOLEAN,                             \* history: the driver refused the last
    wanted   : BOOLEAN]                             \* history: the application's last request

SyncTypeOK == streams \subseteq VideoStreams /\ started \subseteq streams /\ sync \in SyncStates

SyncInit ==
    /\ streams = {} /\ started = {}
    /\ sync = [enabled |-> FALSE, context |-> FALSE, handle |-> NoGroup,
               holder |-> [s \in VideoStreams |-> Own], members |-> [g \in Groups |-> {}],
               live |-> {}, leaked |-> {}, inDriver |-> {},
               refused |-> FALSE, wanted |-> FALSE]

-----------------------------------------------------------------------------
(* What the calls do to the state x of the synchronization. *)

\* Context::enableFrameSyncEx: a new holder g takes the place of the holders of
\* the streams S, which are deleted.
Link(x, S, g) ==
    [x EXCEPT !.handle   = g,
              !.inDriver = @ \cup {g},
              !.live     = (@ \ {x.holder[s] : s \in S}) \cup {g},
              !.members  = [@ EXCEPT ![g] = S],
              !.holder   = [s \in VideoStreams |-> IF s \in S THEN g ELSE x.holder[s]]]

\* Mutant: the holder is deleted and the streams keep it.
UnlinkHolderOnly(x, g) == [x EXCEPT !.live = @ \ {g}]

\* Streams that shared holder g get one of their own, and g is deleted.
Unlink(x, g) ==
    [x EXCEPT !.live   = @ \ {g},
              !.holder = [s \in VideoStreams |-> IF s \in x.members[g] THEN Own ELSE x.holder[s]]]

\* Context::enableFrameSyncEx when the driver refuses: the new holder g was made
\* before the driver was asked, and the return forgets it. No stream and no handle
\* refers to it, so that its members matter to nobody.
Refuse(x, g) ==
    [x EXCEPT !.live = @ \cup {g}, !.leaked = @ \cup {g}, !.refused = TRUE]

\* Device::enableDepthColorSync with the started streams `run`; `accepts` is the
\* driver's answer.
Enable(x, run, g, accepts) ==
    LET on == [x EXCEPT !.context = TRUE, !.enabled = TRUE, !.refused = FALSE]
        S  == run \cap DepthColor
    IN  IF S = {} THEN on
        ELSE IF accepts THEN Link(on, S, g) ELSE Refuse(on, g)

\* Device::disableDepthColorSync and Context::disableFrameSync
Disable(x) ==
    IF ~x.context \/ x.handle = NoGroup \/ ~x.enabled THEN x
    ELSE [Unlink(x, x.handle) EXCEPT !.inDriver = @ \ {x.handle}, !.handle = NoGroup,
                                     !.context = FALSE, !.enabled = FALSE]

\* Device::refreshDepthColorSyncState
Refresh(x, run, g, accepts) ==
    IF x.enabled THEN Enable(Disable(x), run, g, accepts) ELSE x

\* Device::createStream and clearStream refresh for a depth or color stream.
RefreshFor(s, x, run, g, accepts) ==
    IF s \in DepthColor /\ x.handle # NoGroup /\ x.context
      THEN Refresh(x, run, g, accepts) ELSE x

-----------------------------------------------------------------------------
(* The calls. *)

\* The application does not switch the sync on again while a group exists: the
\* code would delete the shared holder once for every stream of it.
EnableDepthColorSync(g, accepts) ==
    /\ sync.handle = NoGroup
    /\ sync' = [Enable(sync, started, g, accepts) EXCEPT !.wanted = TRUE]
    /\ UNCHANGED <<streams, started>>

DisableDepthColorSync ==
    /\ sync' = [Disable(sync) EXCEPT !.wanted = FALSE]
    /\ UNCHANGED <<streams, started>>

CreateStream(s, g, accepts) ==
    /\ s \notin streams
    /\ streams' = streams \cup {s}
    /\ sync' = RefreshFor(s, sync, started, g, accepts)
    /\ UNCHANGED started

Sharing(s) == {u \in started : SensorOf[u] = SensorOf[s]}

\* VideoStream::start: the first stream of the sensor starts the driver (if that
\* fails, start returns with nothing changed here) and refreshes the sync; only
\* then is m_started set.
StartStream(s, g, accepts) ==
    /\ s \in streams \ started
    /\ sync' = IF Sharing(s) = {} THEN Refresh(sync, started, g, accepts) ELSE sync
    /\ started' = started \cup {s}
    /\ UNCHANGED streams

\* Mutant: the sync is refreshed before m_started is reset.
StopStreamAfterRefresh(s, g, accepts) ==
    /\ s \in started
    /\ sync' = Refresh(sync, started, g, accepts)
    /\ started' = started \ {s}
    /\ UNCHANGED streams

StopStream(s, g, accepts) ==
    /\ s \in started
    /\ started' = started \ {s}
    /\ sync' = Refresh(sync, started', g, accepts)
    /\ UNCHANGED streams

\* Context::streamDestroy: stop; give the streams that share the holder their own;
\* delete the stream, which leaves the device; delete the holder. Both refreshes ask the
\* driver; the second one may get the address of the holder that it has just deleted.
DestroyStream(s, g, accepts, again) ==
    LET run     == started \ {s}
        stopped == IF s \in started THEN Refresh(sync, run, g, accepts) ELSE sync
        alone   == IF stopped.holder[s] = Own THEN stopped
                                              ELSE Unlink(stopped, stopped.holder[s])
    IN  /\ s \in streams
        /\ streams' = streams \ {s}
        /\ started' = run
        /\ sync' = RefreshFor(s, alone, run, g, again)

\* What the driver may answer.
Answers == IF Cardinality(sync.leaked) < MaxRefusals THEN BOOLEAN ELSE {TRUE}

SyncNext ==
    \/ \E g \in Groups \ sync.live, accepts \in Answers :
         \/ EnableDepthColorSync(g, accepts)
         \/ \E s \in VideoStreams : \/ CreateStream(s, g, accepts)
                                    \/ StartStream(s, g, accepts)
                                    \/ StopStream(s, g, accepts)
                                    \/ \E again \in Answers :
                                         DestroyStream(s, g, accepts, again)
    \/ DisableDepthColorSync

SyncSpec == SyncInit /\ [][SyncNext]_syncVars

-----------------------------------------------------------------------------
(* Properties *)

\* Whatever the order of the calls, a stream never keeps a pointer to a deleted
\* holder, and the shared holder it points to has an entry for it: processNewFrame
\* and readFrame search for that entry.
HoldersAreLive ==
    \A s \in streams : sync.holder[s] # Own =>
        /\ sync.holder[s] \in sync.live
        /\ s \in sync.members[sync.holder[s]]

\* A group waits for started streams only. It would latch nothing while it waited
\* for a stopped one, and raise the events of a stream that no longer exists.
GroupIsStarted == \A g \in sync.live \ sync.leaked : sync.members[g] \subseteq started

\* Only a refusal of the driver leaks a holder (enableFrameSyncEx returns without
\* deleting it), and no stream uses that one. Whatever else regroups, stops or destroys
\* streams leaks nothing: every other holder that exists is the one of the device's
\* handle, which is also the one group the driver keeps.
OnlyRefusalsLeak ==
    LET group == {sync.handle} \ {NoGroup}
    IN  /\ sync.live = sync.leaked \cup group
        /\ sync.inDriver = group
        /\ sync.handle \notin sync.leaked
        /\ \A s \in VideoStreams : sync.holder[s] \notin sync.leaked

\* refreshDepthColorSyncState switches the sync on again with the context it had:
\* it is set whenever the sync is enabled.
RefreshHasContext == sync.enabled => sync.context

\* "If frame synchronization has been enabled for a device ... frame numbers for
\* corresponding frames of depth and color are guaranteed to match" (OpenNI.h,
\* getFrameIndex), which only a shared holder ensures: while the sync is enabled
\* and the driver accepts it, started streams of depth and of color share one.
EnabledStreamsAreGrouped ==
    sync.enabled /\ ~sync.refused =>
        \A s, u \in started \cap DepthColor :
            SensorOf[s] # SensorOf[u] =>
                sync.holder[s] # Own /\ sync.holder[s] = sync.holder[u]

\* "Set to TRUE to enable synchronization, FALSE to disable it" (OpenNI.h,
\* setDepthColorSyncEnabled): getDepthColorSyncEnabled answers the last request.
DisableDisables == ~sync.wanted => ~sync.enabled

=============================================================================
