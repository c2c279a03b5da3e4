----------------------------- MODULE StreamRead -----------------------------
(***************************************************************************)
(* Reading frames: Context::waitForStreams and readFrame (OniContext.cpp), *)
(* VideoStream::start, stop and the new-frame thread (OniStream.cpp), and  *)
(* StreamFrameHolder (OniStreamFrameHolder.cpp), the one-frame mailbox of  *)
(* a stream that is in no frame-sync group.                                *)
(*                                                                         *)
(* Four kinds of threads meet here. A sensor's driver thread stores a frame *)
(* in the holder and only after unlocking it raises three events; reader   *)
(* threads wait on an event of their own, then on the stream's event, and  *)
(* only then take the frame; the stream's own thread calls the             *)
(* application's new-frame listener; a control thread starts and stops     *)
(* streams. All events are auto-reset: waiting consumes the signal. Each   *)
(* critical section of the holder's lock, of Context::m_cs and of the      *)
(* sensor's m_refCountCS is one step.                                      *)
(*                                                                         *)
(* Frames are numbered by their timestamp; 0 stands for NULL.              *)
(***************************************************************************)
EXTENDS Naturals, Sequences

CONSTANTS
    Streams,        \* VideoStream objects
    Sensors,        \* Sensor objects, each with its driver thread
    SensorOf,       \* the sensor of a stream
    Readers,        \* application threads that wait for and read frames
    MaxFrame,       \* bound: frames made in a run
    None

ASSUME SensorAssumption == SensorOf \in [Streams -> Sensors]
ASSUME BoundAssumption  == MaxFrame \in Nat
ASSUME NoneAssumption   == None \notin Streams /\ None \notin Sensors

VARIABLES
    clock,          \* the last frame made
    driver,         \* where the driver thread of each sensor is
    lastFrame,      \* StreamFrameHolder::m_pLastFrame
    started,        \* VideoStream::m_started
    counted,        \* the streams counted in Sensor::m_startedStreamCount
    control,        \* where the control thread is in start() or stop()
    listenerEvent,  \* VideoStream::m_newFrameInternalEvent
    holderEvent,    \* VideoStream::m_newFrameInternalEventForFrameHolder
    threadEvent,    \* the events of Context::m_waitingThreads
    registered,     \* the threads that have an entry in m_waitingThreads
    reader,         \* where each reader is
    delivered,      \* history: the frames taken from a stream's holder, in order
    unseen,         \* history: stored since the listener was last called
    disturbed       \* history: the frame a reader has seen was removed by another

vars == <<clock, driver, lastFrame, started, counted, control, listenerEvent,
          holderEvent, threadEvent, registered, reader, delivered, unseen, disturbed>>

StreamsOf(d) == {s \in Streams : SensorOf[s] = d}

\* A driver thread: delivering `frame` to the streams of `todo`, now at `step`
\* for `stream`.
DriverIdle == [step |-> "idle", frame |-> 0, stream |-> None, todo |-> {}]
DriverStates == {DriverIdle} \cup
    [step : {"next", "store", "toListener", "toHolder", "toThreads"},
     frame : 1..MaxFrame, stream : Streams \cup {None}, todo : SUBSET Streams]

\* A reader: `call` is the API function, `wants` the streams it waits for, `todo`
\* those not yet peeked in this round, `stream` and `frame` the oldest seen.
\* When idle, `call` = "ok" and `frame` are the outcome of a readFrame.
ReaderIdle == [step |-> "idle", call |-> "none", wants |-> {}, todo |-> {},
               stream |-> None, frame |-> 0]
ReaderStates ==
    [step : {"idle", "event", "scan", "block", "enter", "take"},
     call : {"none", "wait", "read", "ok"},
     wants : SUBSET Streams, todo : SUBSET Streams,
     stream : Streams \cup {None}, frame : 0..MaxFrame]

ControlIdle == [step |-> "idle", stream |-> None]
ControlStates == {ControlIdle} \cup
    [step : {"startDriver", "stopClear", "stopDriver", "stopClearAgain"},
     stream : Streams]

TypeOK ==
    /\ clock \in 0..MaxFrame
    /\ driver \in [Sensors -> DriverStates]
    /\ lastFrame \in [Streams -> 0..MaxFrame]
    /\ started \in [Streams -> BOOLEAN]
    /\ counted \subseteq Streams
    /\ control \in ControlStates
    /\ listenerEvent \in [Streams -> BOOLEAN]
    /\ holderEvent \in [Streams -> BOOLEAN]
    /\ threadEvent \in [Readers -> BOOLEAN]
    /\ registered \subseteq Readers
    /\ reader \in [Readers -> ReaderStates]
    /\ delivered \in [Streams -> Seq(1..MaxFrame)]
    /\ unseen \in [Streams -> BOOLEAN]
    /\ disturbed \in [Readers -> BOOLEAN]

Init ==
    /\ clock = 0
    /\ driver = [d \in Sensors |-> DriverIdle]
    /\ lastFrame = [s \in Streams |-> 0]
    /\ started = [s \in Streams |-> FALSE]
    /\ counted = {}
    /\ control = ControlIdle
    /\ listenerEvent = [s \in Streams |-> FALSE]
    /\ holderEvent = [s \in Streams |-> FALSE]
    /\ threadEvent = [t \in Readers |-> FALSE]
    /\ registered = {}
    /\ reader = [t \in Readers |-> ReaderIdle]
    /\ delivered = [s \in Streams |-> <<>>]
    /\ unseen = [s \in Streams |-> FALSE]
    /\ disturbed = [t \in Readers |-> FALSE]

-----------------------------------------------------------------------------
(* The driver thread of sensor d. *)

readerVars  == <<threadEvent, registered, reader, delivered>>
controlVars == <<started, counted, control>>

\* The driver raises the sensor's newFrameEvent: every stream of it will be called.
MakeFrame(d) ==
    /\ driver[d].step = "idle" /\ clock < MaxFrame
    /\ StreamsOf(d) \cap counted # {}
    /\ clock' = clock + 1
    /\ driver' = [driver EXCEPT ![d] = [step |-> "next", frame |-> clock + 1,
                                        stream |-> None, todo |-> StreamsOf(d)]]
    /\ UNCHANGED <<lastFrame, controlVars, listenerEvent, holderEvent, readerVars,
                   unseen, disturbed>>

\* stream_NewFrame: a stream that is not started ignores the frame.
NextStream(d, s) ==
    /\ driver[d].step = "next" /\ s \in driver[d].todo
    /\ driver' = [driver EXCEPT ![d] = [driver[d] EXCEPT
         !.todo   = driver[d].todo \ {s},
         !.stream = IF started[s] THEN s ELSE None,
         !.step   = IF started[s] THEN "store" ELSE "next"]]
    /\ UNCHANGED <<clock, lastFrame, controlVars, listenerEvent, holderEvent,
                   readerVars, unseen, disturbed>>

FrameDone(d) ==
    /\ driver[d].step = "next" /\ driver[d].todo = {}
    /\ driver' = [driver EXCEPT ![d] = DriverIdle]
    /\ UNCHANGED <<clock, lastFrame, controlVars, listenerEvent, holderEvent,
                   readerVars, unseen, disturbed>>

\* StreamFrameHolder::processNewFrame, under the holder's lock.
StoreFrame(d) ==
    LET s == driver[d].stream IN
    /\ driver[d].step = "store"
    /\ lastFrame' = [lastFrame EXCEPT ![s] = driver[d].frame]
    /\ unseen' = [unseen EXCEPT ![s] = TRUE]
    /\ driver' = [driver EXCEPT ![d].step = "toListener"]
    /\ UNCHANGED <<clock, controlVars, listenerEvent, holderEvent, readerVars, disturbed>>

\* Mutant: threads that wait get their own event, so the listener is left out.
SignalListenerIfNobodyWaits(d) ==
    /\ driver[d].step = "toListener"
    /\ listenerEvent' = [listenerEvent EXCEPT
                           ![driver[d].stream] = @ \/ registered = {}]
    /\ driver' = [driver EXCEPT ![d].step = "toHolder"]
    /\ UNCHANGED <<clock, lastFrame, controlVars, holderEvent, readerVars, unseen,
                   disturbed>>

\* VideoStream::raiseNewFrameEvent: two events of the stream, then
\* Context::onNewFrame, which sets the event of every registered thread.
SignalListener(d) ==
    /\ driver[d].step = "toListener"
    /\ listenerEvent' = [listenerEvent EXCEPT ![driver[d].stream] = TRUE]
    /\ driver' = [driver EXCEPT ![d].step = "toHolder"]
    /\ UNCHANGED <<clock, lastFrame, controlVars, holderEvent, readerVars, unseen,
                   disturbed>>

SignalHolder(d) ==
    /\ driver[d].step = "toHolder"
    /\ holderEvent' = [holderEvent EXCEPT ![driver[d].stream] = TRUE]
    /\ driver' = [driver EXCEPT ![d].step = "toThreads"]
    /\ UNCHANGED <<clock, lastFrame, controlVars, listenerEvent, readerVars, unseen,
                   disturbed>>

\* Mutant: the threads' events are pulsed, for the blocked threads only.
PulseThreads(d) ==
    /\ driver[d].step = "toThreads"
    /\ threadEvent' = [t \in Readers |-> threadEvent[t] \/ reader[t].step = "block"]
    /\ driver' = [driver EXCEPT ![d] = [driver[d] EXCEPT !.step = "next", !.stream = None]]
    /\ UNCHANGED <<clock, lastFrame, controlVars, listenerEvent, holderEvent,
                   registered, reader, delivered, unseen, disturbed>>

SignalThreads(d) ==
    /\ driver[d].step = "toThreads"
    /\ threadEvent' = [t \in Readers |-> threadEvent[t] \/ t \in registered]
    /\ driver' = [driver EXCEPT ![d] = [driver[d] EXCEPT !.step = "next", !.stream = None]]
    /\ UNCHANGED <<clock, lastFrame, controlVars, listenerEvent, holderEvent,
                   registered, reader, delivered, unseen, disturbed>>

DriverStep(d) ==
    \/ \E s \in Streams : NextStream(d, s)
    \/ FrameDone(d) \/ StoreFrame(d)
    \/ SignalListener(d) \/ SignalHolder(d) \/ SignalThreads(d)

-----------------------------------------------------------------------------
(* The stream's own thread, newFrameThreadMainloop: consume, call the listener. *)

CallListener(s) ==
    /\ listenerEvent[s]
    /\ listenerEvent' = [listenerEvent EXCEPT ![s] = FALSE]
    /\ unseen' = [unseen EXCEPT ![s] = FALSE]
    /\ UNCHANGED <<clock, driver, lastFrame, controlVars, holderEvent, readerVars,
                   disturbed>>

-----------------------------------------------------------------------------
(* A reader thread t. *)

driverVars == <<clock, driver, listenerEvent, unseen>>

\* waitForStreams(wants), or readFrame of one stream: getThreadEvent creates and
\* registers the thread's event at its first call.
Call(t, call, wants) ==
    /\ reader[t].step = "idle"
    /\ registered' = registered \cup {t}
    /\ reader' = [reader EXCEPT ![t] = [step |-> "scan", call |-> call, wants |-> wants,
                                        todo |-> wants, stream |-> None, frame |-> 0]]
    /\ disturbed' = [disturbed EXCEPT ![t] = FALSE]
    /\ UNCHANGED <<driverVars, lastFrame, controlVars, holderEvent, threadEvent, delivered>>

\* One turn of the loop over the streams: peek under the holder's lock and keep
\* the oldest frame.
Peek(t, s) ==
    LET r     == reader[t]
        seen  == lastFrame[s]
        older == seen # 0 /\ (r.frame = 0 \/ seen < r.frame)
    IN  /\ r.step = "scan" /\ s \in r.todo
        /\ reader' = [reader EXCEPT ![t] = [r EXCEPT
             !.todo   = r.todo \ {s},
             !.stream = IF older THEN s ELSE r.stream,
             !.frame  = IF older THEN seen ELSE r.frame]]
        /\ UNCHANGED <<driverVars, lastFrame, controlVars, holderEvent, threadEvent,
                       registered, delivered, disturbed>>

\* After the loop: waitForStreams returns the stream, readFrame goes on to the
\* holder; with nothing seen the thread triggers the driver and blocks.
ScanDone(t) ==
    LET r == reader[t]
        found == r.frame # 0
    IN  /\ r.step = "scan" /\ r.todo = {}
        /\ reader' = [reader EXCEPT ![t] =
             CASE found /\ r.call = "wait" -> ReaderIdle
               [] found /\ r.call = "read" -> [r EXCEPT !.step = "enter"]
               [] ~found                   -> [r EXCEPT !.step = "block"]]
        /\ UNCHANGED <<driverVars, lastFrame, controlVars, holderEvent, threadEvent,
                       registered, delivered, disturbed>>

\* xnOSWaitEvent on the thread's event; the loop starts again.
Wake(t) ==
    /\ reader[t].step = "block" /\ threadEvent[t]
    /\ threadEvent' = [threadEvent EXCEPT ![t] = FALSE]
    /\ reader' = [reader EXCEPT ![t] = [reader[t] EXCEPT !.step = "scan",
                                                        !.todo = reader[t].wants]]
    /\ UNCHANGED <<driverVars, lastFrame, controlVars, holderEvent, registered,
                   delivered, disturbed>>

\* Only waitForStreams takes a timeout; readFrame waits forever.
TimeOut(t) ==
    /\ reader[t].step = "block" /\ reader[t].call = "wait"
    /\ reader' = [reader EXCEPT ![t] = ReaderIdle]
    /\ UNCHANGED <<driverVars, lastFrame, controlVars, holderEvent, threadEvent,
                   registered, delivered, disturbed>>

\* StreamFrameHolder::readFrame: waitForNewFrameEvent, without a timeout ...
WaitHolderEvent(t) ==
    LET s == reader[t].stream IN
    /\ reader[t].step = "enter" /\ holderEvent[s]
    /\ holderEvent' = [holderEvent EXCEPT ![s] = FALSE]
    /\ reader' = [reader EXCEPT ![t].step = "take"]
    /\ UNCHANGED <<driverVars, lastFrame, controlVars, threadEvent, registered,
                   delivered, disturbed>>

\* Other readers that have seen a frame of s and still want it.
Expecting(s) == {t \in Readers : reader[t].stream = s /\ reader[t].call = "read"}

\* Mutant: the holder keeps the frame it hands out.
CopyFrame(t) ==
    LET s == reader[t].stream
        f == lastFrame[s]
    IN  /\ reader[t].step = "take"
        /\ delivered' = [delivered EXCEPT ![s] = IF f # 0 THEN Append(@, f) ELSE @]
        /\ reader' = [reader EXCEPT ![t] = [ReaderIdle EXCEPT !.call = "ok", !.frame = f]]
        /\ UNCHANGED <<driverVars, controlVars, lastFrame, holderEvent, threadEvent,
                       registered, disturbed>>

\* Mutant: the holder is cleared before its frame is read.
ClearThenTake(t) ==
    LET s == reader[t].stream IN
    /\ reader[t].step = "take"
    /\ lastFrame' = [lastFrame EXCEPT ![s] = 0]
    /\ reader' = [reader EXCEPT ![t] = [ReaderIdle EXCEPT !.call = "ok",
                                                          !.frame = lastFrame'[s]]]
    /\ disturbed' = [u \in Readers |-> disturbed[u] \/ (u # t /\ u \in Expecting(s))]
    /\ UNCHANGED <<driverVars, controlVars, holderEvent, threadEvent, registered,
                   delivered>>

\* ... then take what is in the holder and return ONI_STATUS_OK with it.
TakeFrame(t) ==
    LET s == reader[t].stream
        f == lastFrame[s]
    IN  /\ reader[t].step = "take"
        /\ lastFrame' = [lastFrame EXCEPT ![s] = 0]
        /\ delivered' = [delivered EXCEPT ![s] = IF f # 0 THEN Append(@, f) ELSE @]
        /\ reader' = [reader EXCEPT ![t] = [ReaderIdle EXCEPT !.call = "ok", !.frame = f]]
        /\ disturbed' = [u \in Readers |->
                           disturbed[u] \/ (u # t /\ u \in Expecting(s))]
        /\ UNCHANGED <<driverVars, controlVars, holderEvent, threadEvent, registered>>

ReaderStep(t) ==
    \/ \E s \in Streams : Peek(t, s)
    \/ ScanDone(t) \/ Wake(t) \/ WaitHolderEvent(t) \/ TakeFrame(t)

-----------------------------------------------------------------------------
(* The control thread. *)

\* FrameHolder::clear drops the frame; it resets no event.
Clear(s) ==
    /\ lastFrame' = [lastFrame EXCEPT ![s] = 0]
    /\ disturbed' = [t \in Readers |-> disturbed[t] \/ t \in Expecting(s)]

\* VideoStream::start begins by clearing the holder ...
BeginStart(s) ==
    /\ control = ControlIdle /\ ~started[s]
    /\ Clear(s)
    /\ control' = [step |-> "startDriver", stream |-> s]
    /\ UNCHANGED <<driverVars, started, counted, holderEvent, readerVars>>

\* ... then, under m_refCountCS, starts the driver for the first stream of the
\* sensor, which may fail, clears again and opens the stream for frames.
EndStart ==
    LET s == control.stream IN
    /\ control.step = "startDriver"
    /\ control' = ControlIdle
    /\ \/ /\ counted' = counted \cup {s}
          /\ Clear(s)
          /\ started' = [started EXCEPT ![s] = TRUE]
       \/ /\ StreamsOf(SensorOf[s]) \cap counted = {}
          /\ UNCHANGED <<started, counted, lastFrame, disturbed>>
    /\ UNCHANGED <<driverVars, holderEvent, readerVars>>

\* VideoStream::stop: m_started = FALSE; setStreamEnabled(FALSE); streamStop when
\* the last stream of the sensor stops; clear.
BeginStop(s) ==
    /\ control = ControlIdle /\ started[s]
    /\ started' = [started EXCEPT ![s] = FALSE]
    /\ control' = [step |-> "stopClear", stream |-> s]
    /\ UNCHANGED <<driverVars, lastFrame, counted, holderEvent, readerVars, disturbed>>

StopClear ==
    /\ control.step \in {"stopClear", "stopClearAgain"}
    /\ Clear(control.stream)
    /\ control' = IF control.step = "stopClear" THEN [control EXCEPT !.step = "stopDriver"]
                                                 ELSE ControlIdle
    /\ UNCHANGED <<driverVars, started, counted, holderEvent, readerVars>>

StopDriver ==
    /\ control.step = "stopDriver"
    /\ counted' = counted \ {control.stream}
    /\ control' = [control EXCEPT !.step = "stopClearAgain"]
    /\ UNCHANGED <<driverVars, lastFrame, started, holderEvent, readerVars, disturbed>>

Next ==
    \/ \E d \in Sensors : MakeFrame(d) \/ DriverStep(d)
    \/ \E s \in Streams : CallListener(s)
    \/ \E t \in Readers :
         \/ ReaderStep(t) \/ TimeOut(t)
         \/ \E s \in Streams : Call(t, "read", {s})
         \/ \E wants \in SUBSET Streams \ {{}} : Call(t, "wait", wants)
    \/ \E s \in Streams : BeginStart(s) \/ BeginStop(s)
    \/ EndStart \/ StopClear \/ StopDriver

Spec == Init /\ [][Next]_vars

\* The operating system runs every thread that can run: a delivery under way goes
\* on, a thread whose event is set wakes up and finishes its call. Nothing is
\* assumed about how often frames come, calls are made or streams start and stop.
Fairness ==
    /\ \A d \in Sensors : WF_vars(DriverStep(d))
    /\ \A s \in Streams : WF_vars(CallListener(s))
    /\ \A t \in Readers : WF_vars(ReaderStep(t))

FairSpec == Spec /\ Fairness

-----------------------------------------------------------------------------
(* Properties *)

\* The holder hands every frame to at most one reader and never goes back in time,
\* with any number of readers of the same stream: StreamRead implements FrameFeed.
Feed == INSTANCE FrameFeed WITH made <- clock
ImplementsFrameFeed == Feed!Spec

\* A driver that has stored a frame for s and not yet reached the given step.
Signalling(s, steps) == \E d \in Sensors : driver[d].stream = s /\ driver[d].step \in steps

\* waitForStreams: a reader that sleeps while one of its streams has a frame has
\* its event set, or the driver is about to set it.
NoLostWakeup ==
    \A t \in Readers, s \in Streams :
        reader[t].step = "block" /\ s \in reader[t].wants /\ lastFrame[s] # 0 =>
            threadEvent[t] \/ Signalling(s, {"toListener", "toHolder", "toThreads"})

\* StreamFrameHolder::readFrame: "If frame already exists, wait() will return
\* immidiately". A frame in the holder has its event, is about to get it, or some
\* reader already past the wait will take it: no reader can hang on a frame.
StoredFrameIsSignalled ==
    \A s \in Streams : lastFrame[s] # 0 =>
        \/ holderEvent[s]
        \/ Signalling(s, {"toListener", "toHolder"})
        \/ \E t \in Readers : reader[t].stream = s /\ reader[t].step = "take"

\* A read that returns OK with no frame was overtaken: after it saw a frame,
\* another reader of the stream, or a start or stop, took it away.
EmptyReadWasOvertaken ==
    \A t \in Readers : reader[t].call = "ok" /\ reader[t].frame = 0 => disturbed[t]

\* A reader does not sleep on while one of its streams keeps a frame.
BlockedReaderWakes ==
    \A t \in Readers :
        LET sleepsOnFrame == /\ reader[t].step = "block"
                             /\ \E s \in reader[t].wants : lastFrame[s] # 0
        IN  sleepsOnFrame ~> ~sleepsOnFrame

\* The application's listener is called after every stored frame, although several
\* frames may share a call.
ListenerHearsOfFrames == \A s \in Streams : unseen[s] ~> ~unseen[s]

\* "If no new frame is available, the call will block until one is available"
\* (OpenNI.h, VideoStream::readFrame): OK comes with a frame.
ReadReturnsAFrame == \A t \in Readers : reader[t].call = "ok" => reader[t].frame # 0

=============================================================================
