------------------------------ MODULE Recorder ------------------------------
(***************************************************************************)
(* Recorder (OniRecorder.cpp): the application attaches streams, starts,    *)
(* stops and closes the recorder; driver threads hand it frames and property *)
(* changes; its own thread takes messages from a queue with priorities and *)
(* writes the records of the ONI file.                                     *)
(*                                                                         *)
(* Two kinds of locks are taken in both orders: the recorder's m_streams   *)
(* and each stream's m_recorders. A driver thread holds the m_recorders of *)
(* its stream while it waits for m_streams; the application and, in ATTACH, *)
(* the recorder's thread hold m_streams while they wait for m_recorders.    *)
(*                                                                         *)
(* One recorder, one application thread, and a driver thread for each      *)
(* stream. A position in the file is the number of a record; 0 is none.    *)
(* Of the writes only those of a frame and of a seek table may fail. The   *)
(* timestamps of the frames are left out.                                  *)
(***************************************************************************)
EXTENDS Naturals, Sequences, FiniteSets

CONSTANTS
    Streams,        \* VideoStreams, each of a sensor of its own
    TableRoom,      \* entries of a seek table that RecordAssembler's buffer can hold
    MaxNodes,       \* bound: attachStream calls
    MaxFrames,      \* bound: frames given to record()
    MaxProperties,  \* bound: property changes
    MaxStarts,      \* bound: start() calls
    None

ASSUME StreamsAssumption == IsFiniteSet(Streams)
ASSUME NumbersAssumption ==
    {TableRoom, MaxNodes, MaxFrames, MaxProperties, MaxStarts} \subseteq Nat

VARIABLES
    live,           \* the streams that have not been destroyed
    attached,       \* the streams whose m_recorders has this recorder
    infos,          \* m_streams: the AttachedStreamInfo of a stream, or None
    high, normal,   \* m_queue, by priority
    started,        \* m_started
    wasStarted,     \* m_wasStarted
    maxId,          \* m_maxId
    configurationId, \* m_configurationId
    file,           \* the records before the file's write position
    refs,           \* frame references the recorder owns
    app,            \* where the application is in a call
    driver,         \* what the driver thread of a stream waits to hand over
    pump,           \* where the recorder's thread is
    counts,         \* frames, properties and starts so far, for the bounds
    skipped         \* history: the ways in which a frame was not written

vars == <<live, attached, infos, high, normal, started, wasStarted, maxId,
          configurationId, file, refs, app, driver, pump, counts, skipped>>

Message(type, s) == [type |-> type, stream |-> s]
Messages ==
    [type : {"attach", "detach", "record", "property"}, stream : Streams]
    \cup [type : {"start", "terminate"}, stream : {None}]

\* A record of the file. `frame` is the frame id of a data record and the number of
\* frames of a node; `back` is the undo position or, in "added", the position of
\* the seek table; `index` is the contents of a seek table.
Record(type, node) ==
    [type |-> type, node |-> node, frame |-> 0, back |-> 0, index |-> <<>>]
Records == [type : {"added", "property", "begin", "data", "removed", "table", "end"},
            node : 0..MaxNodes, frame : Nat, back : Nat,
            index : Seq([pos : Nat, configuration : Nat])]

Infos == [node : 1..MaxNodes, frameId : Nat, added : Nat, lastData : Nat,
          lastProperty : Nat, index : Seq([pos : Nat, configuration : Nat])]

ASSUME NoneAssumption == None \notin Streams \cup Infos

AppIdle  == [call |-> "none", step |-> "idle", todo |-> {}]
PumpIdle == [step |-> "idle", msg |-> None]
AppStates ==
    {AppIdle} \cup [call : {"attach", "destroyStream", "close", "destroy"},
                    step : {"lock", "locked", "join", "closed"}, todo : SUBSET Streams]
PumpStates == {PumpIdle} \cup [step : {"handle", "notify", "exited"}, msg : Messages]

TypeOK ==
    /\ live \subseteq Streams
    /\ attached \subseteq Streams
    /\ infos \in [Streams -> Infos \cup {None}]
    /\ high \in Seq(Messages) /\ normal \in Seq(Messages)
    /\ started \in BOOLEAN /\ wasStarted \in BOOLEAN
    /\ maxId \in 0..MaxNodes
    /\ configurationId \in Nat
    /\ file \in Seq(Records)
    /\ refs \in Nat
    /\ app \in AppStates
    /\ driver \in [Streams -> {"idle", "frame", "property"}]
    /\ pump \in PumpStates
    /\ counts \in [frames : 0..MaxFrames, properties : 0..MaxProperties,
                   starts : 0..MaxStarts]
    /\ skipped \subseteq {"emit", "compress"}

Init ==
    /\ live = Streams
    /\ attached = {}
    /\ infos = [s \in Streams |-> None]
    /\ high = <<>> /\ normal = <<>>
    /\ started = FALSE /\ wasStarted = FALSE
    /\ maxId = 0 /\ configurationId = 0
    /\ file = <<>>
    /\ refs = 0
    /\ app = AppIdle
    /\ driver = [s \in Streams |-> "idle"]
    /\ pump = PumpIdle
    /\ counts = [frames |-> 0, properties |-> 0, starts |-> 0]
    /\ skipped = {}

Found(s) == infos[s] # None

\* Who holds m_streams between two steps; the others wait.
AppHasStreams  == app.step = "locked"
PumpHasStreams == pump.step = "notify"

\* m_recorders of s is held between two steps by the driver thread of s, which then
\* waits for m_streams, or by the application while it destroys s.
DestroyerHasRecorders(s) == app.call = "destroyStream" /\ s \in app.todo

Send(type, s) == normal' = Append(normal, Message(type, s))

-----------------------------------------------------------------------------
(* The application. *)

fileVars == <<configurationId, file, refs, skipped>>

\* attachStream is refused once start() has been called. It begins by locking
\* m_streams, as the detachAllStreams of Context::recorderClose does.
AttachStream(s) ==
    /\ app = AppIdle /\ ~wasStarted /\ maxId < MaxNodes /\ s \in live
    /\ app' = [call |-> "attach", step |-> "lock", todo |-> {s}]
    /\ UNCHANGED <<live, attached, infos, high, normal, started, wasStarted, maxId,
                   fileVars, driver, pump, counts>>

\* ~VideoStream: the stream is stopped, so no frame is under way, and detaches its
\* recorders with its m_recorders locked. The recorder's thread is assumed to have
\* handled the ATTACH of the stream, which has a pointer to it.
DestroyStream(s) ==
    /\ app = AppIdle /\ s \in live
    /\ driver[s] = "idle"
    /\ Message("attach", s) \notin {normal[i] : i \in DOMAIN normal} \cup {pump.msg}
    /\ live' = live \ {s}
    /\ app' = IF s \in attached
                THEN [call |-> "destroyStream", step |-> "lock", todo |-> {s}]
                ELSE AppIdle
    /\ UNCHANGED <<attached, infos, high, normal, started, wasStarted, maxId, fileVars,
                   driver, pump, counts>>

Close ==
    /\ app = AppIdle
    /\ started' = FALSE
    /\ app' = [call |-> "close", step |-> "lock", todo |-> Streams]
    /\ UNCHANGED <<live, attached, infos, high, normal, wasStarted, maxId, fileVars, driver,
                   pump, counts>>

Start ==
    /\ app = AppIdle /\ counts.starts < MaxStarts
    /\ wasStarted' = TRUE
    /\ Send("start", None)
    /\ counts' = [counts EXCEPT !.starts = @ + 1]
    /\ UNCHANGED <<live, attached, infos, high, started, maxId, fileVars, app, driver,
                   pump>>

Stop ==
    /\ app = AppIdle
    /\ started' = FALSE
    /\ UNCHANGED <<live, attached, infos, high, normal, wasStarted, maxId, fileVars, app,
                   driver, pump, counts>>

\* With the lock: attachStream goes on for a stream that is not in m_streams, the
\* others for those that are.
LockStreams ==
    LET todo == {s \in app.todo : Found(s) <=> app.call # "attach"} IN
    /\ app.step = "lock" /\ ~PumpHasStreams
    /\ app' = [app EXCEPT !.step = "locked", !.todo = todo]
    /\ UNCHANGED <<live, attached, infos, high, normal, started, wasStarted, maxId,
                   fileVars, driver, pump, counts>>

\* VideoStream::addRecorder, under the stream's m_recorders, then the entry and the
\* message.
AddRecorder(s) ==
    /\ app.step = "locked" /\ app.call = "attach" /\ s \in app.todo
    /\ driver[s] = "idle"
    /\ attached' = attached \cup {s}
    /\ maxId' = maxId + 1
    /\ infos' = [infos EXCEPT ![s] = [node |-> maxId + 1, frameId |-> 0, added |-> 0,
                                      lastData |-> 0, lastProperty |-> 0, index |-> <<>>]]
    /\ Send("attach", s)
    /\ app' = [app EXCEPT !.todo = {}]
    /\ UNCHANGED <<live, high, started, wasStarted, fileVars, driver, pump, counts>>

\* Mutant: the stream's recorders are changed without their lock.
RemoveRecorderUnlocked(s) ==
    /\ app.step = "locked" /\ app.call # "attach" /\ s \in app.todo
    /\ attached' = attached \ {s}
    /\ Send("detach", s)
    /\ app' = [app EXCEPT !.todo = @ \ {s}]
    /\ UNCHANGED <<live, infos, high, started, wasStarted, maxId, fileVars, driver, pump,
                   counts>>

\* VideoStream::removeRecorder, likewise. The entry stays until the message is
\* handled, also when the stream is destroyed meanwhile: the loop over the entries then
\* follows a pointer to freed memory. The step goes as if the memory were still there,
\* which decides nothing but that a second DETACH, without effect, is sent.
RemoveRecorder(s) ==
    /\ app.step = "locked" /\ app.call # "attach" /\ s \in app.todo
    /\ driver[s] = "idle"
    /\ attached' = attached \ {s}
    /\ Send("detach", s)
    /\ app' = [app EXCEPT !.todo = @ \ {s}]
    /\ UNCHANGED <<live, infos, high, started, wasStarted, maxId, fileVars, driver, pump,
                   counts>>

\* The lock is released. recorderClose goes on to ~Recorder, which stops and detaches
\* once more, sends TERMINATE and waits for the thread.
UnlockStreams ==
    /\ app.step = "locked" /\ app.todo = {}
    /\ CASE app.call \in {"attach", "destroyStream"} ->
              app' = AppIdle /\ UNCHANGED <<started, normal>>
         [] app.call = "close" ->
              /\ started' = FALSE
              /\ app' = [call |-> "destroy", step |-> "lock", todo |-> Streams]
              /\ UNCHANGED normal
         [] app.call = "destroy" ->
              /\ Send("terminate", None)
              /\ app' = [app EXCEPT !.step = "join"]
              /\ UNCHANGED started
    /\ UNCHANGED <<live, attached, infos, high, wasStarted, maxId, fileVars, driver, pump,
                   counts>>

WaitForThreadExit ==
    /\ app.step = "join" /\ pump.step = "exited"
    /\ app' = [app EXCEPT !.step = "closed"]
    /\ UNCHANGED <<live, attached, infos, high, normal, started, wasStarted, maxId,
                   fileVars, driver, pump, counts>>

AppStep ==
    \/ LockStreams \/ UnlockStreams \/ WaitForThreadExit
    \/ \E s \in Streams : AddRecorder(s) \/ RemoveRecorder(s)

-----------------------------------------------------------------------------
(* The driver thread of stream s. *)

callerVars == <<live, attached, started, wasStarted, maxId, app>>

\* stream_NewFrame locks m_recorders and calls record(), which looks at m_started
\* before it locks m_streams.
StreamNewFrame(s) ==
    /\ driver[s] = "idle" /\ s \in live \cap attached /\ started
    /\ counts.frames < MaxFrames
    /\ driver' = [driver EXCEPT ![s] = "frame"]
    /\ counts' = [counts EXCEPT !.frames = @ + 1]
    /\ UNCHANGED <<callerVars, infos, high, normal, fileVars, pump>>

RecordFrame(s) ==
    /\ driver[s] = "frame" /\ ~AppHasStreams /\ ~PumpHasStreams
    /\ IF Found(s) THEN refs' = refs + 1 /\ Send("record", s)
                   ELSE UNCHANGED <<refs, normal>>
    /\ driver' = [driver EXCEPT ![s] = "idle"]
    /\ UNCHANGED <<callerVars, infos, high, configurationId, file, skipped, pump, counts>>

\* stream_PropertyChanged locks m_recorders and calls recordStreamProperty, which
\* locks m_streams.
StreamPropertyChanged(s) ==
    /\ driver[s] = "idle" /\ s \in live \cap attached
    /\ counts.properties < MaxProperties
    /\ driver' = [driver EXCEPT ![s] = "property"]
    /\ counts' = [counts EXCEPT !.properties = @ + 1]
    /\ UNCHANGED <<callerVars, infos, high, normal, fileVars, pump>>

\* Mutant: the property goes ahead of the messages that are queued.
RecordStreamPropertyFirst(s) ==
    /\ driver[s] = "property" /\ ~AppHasStreams /\ ~PumpHasStreams
    /\ high' = IF Found(s) THEN Append(high, Message("property", s)) ELSE high
    /\ driver' = [driver EXCEPT ![s] = "idle"]
    /\ UNCHANGED <<callerVars, infos, normal, fileVars, pump, counts>>

\* m_propertyPriority is normal whenever another thread than the recorder's reads it.
RecordStreamProperty(s) ==
    /\ driver[s] = "property" /\ ~AppHasStreams /\ ~PumpHasStreams
    /\ IF Found(s) THEN Send("property", s) ELSE UNCHANGED normal
    /\ driver' = [driver EXCEPT ![s] = "idle"]
    /\ UNCHANGED <<callerVars, infos, high, fileVars, pump, counts>>

DriverStep(s) == RecordFrame(s) \/ RecordStreamProperty(s)

-----------------------------------------------------------------------------
(* The recorder's thread. messagePump pops a message and, with m_streams locked,  *)
(* handles it; a message of a stream that is not found is dropped.               *)

senderVars == <<live, attached, wasStarted, maxId, app, driver>>

Pop ==
    /\ pump = PumpIdle
    /\ \/ /\ high # <<>>
          /\ pump' = [step |-> "handle", msg |-> Head(high)]
          /\ high' = Tail(high) /\ UNCHANGED normal
       \/ /\ high = <<>> /\ normal # <<>>
          /\ pump' = [step |-> "handle", msg |-> Head(normal)]
          /\ normal' = Tail(normal) /\ UNCHANGED high
    /\ UNCHANGED <<senderVars, started, infos, fileVars, counts>>

Handling(type) == pump.step = "handle" /\ pump.msg.type = type /\ ~AppHasStreams

\* A message about stream s is handled, or dropped when s is not found.
About(type, s) == Handling(type) /\ pump.msg.stream = s /\ Found(s)

Drop ==
    /\ \E type \in {"attach", "detach", "record", "property"} : Handling(type)
    /\ ~Found(pump.msg.stream)
    /\ pump' = PumpIdle
    /\ UNCHANGED <<senderVars, high, normal, started, infos, fileVars, counts>>

\* onAttach: NODE_ADDED, the properties written directly, here one, ...
OnAttach(s) ==
    LET node == infos[s].node IN
    /\ About("attach", s)
    /\ file' = file \o <<Record("added", node), Record("property", node)>>
    /\ infos' = [infos EXCEPT ![s] = [infos[s] EXCEPT !.added = Len(file) + 1,
                                                     !.lastProperty = Len(file) + 2]]
    /\ pump' = [pump EXCEPT !.step = "notify"]
    /\ UNCHANGED <<senderVars, high, normal, started, configurationId, refs, skipped,
                   counts>>

\* ... and notifyAllProperties: the driver calls stream_PropertyChanged on this
\* thread, which needs m_recorders, for each property it has, here at most one; the
\* messages have high priority.
NotifyAllProperties ==
    LET s == pump.msg.stream IN
    /\ pump.step = "notify" /\ driver[s] = "idle" /\ ~DestroyerHasRecorders(s)
    /\ \/ /\ s \in attached /\ counts.properties < MaxProperties
          /\ high' = Append(high, Message("property", s))
          /\ counts' = [counts EXCEPT !.properties = @ + 1]
       \/ UNCHANGED <<high, counts>>
    /\ pump' = PumpIdle
    /\ UNCHANGED <<senderVars, normal, started, infos, fileVars>>

\* Mutant: the position is taken before NODE_REMOVED is written.
SeekTableTooEarly == Len(file) + 1

\* nSeekTablePos, taken after NODE_REMOVED.
SeekTablePos == Len(file) + 2

\* onDetach: NODE_REMOVED, the seek table and, over the old NODE_ADDED, one with the
\* number of frames and the table's position. A table that does not fit in the
\* assembler's buffer ends it after NODE_REMOVED. The entry is removed.
OnDetach(s) ==
    LET info    == infos[s]
        removed == Record("removed", info.node)
        table   == [Record("table", info.node) EXCEPT !.index = info.index]
        patched == [file[info.added] EXCEPT !.frame = info.frameId, !.back = SeekTablePos]
        fits    == info.frameId + 1 <= TableRoom
    IN  /\ About("detach", s)
        /\ file' = IF fits
                     THEN [file EXCEPT ![info.added] = patched] \o <<removed, table>>
                     ELSE Append(file, removed)
        /\ infos' = [infos EXCEPT ![s] = None]
        /\ pump' = PumpIdle
        /\ UNCHANGED <<senderVars, high, normal, started, configurationId, refs, skipped,
                       counts>>

Orders(S) == {q \in [1..Cardinality(S) -> S] : \A s \in S : \E i \in DOMAIN q : q[i] = s}

\* onStart for every stream found, in the order of the hash table:
\* NODE_STATE_READY and NODE_DATA_BEGIN, here one record.
OnStart ==
    /\ Handling("start")
    /\ \E q \in Orders({s \in Streams : Found(s)}) :
         file' = file \o [i \in DOMAIN q |-> Record("begin", infos[q[i]].node)]
    /\ started' = TRUE
    /\ pump' = PumpIdle
    /\ UNCHANGED <<senderVars, high, normal, infos, configurationId, refs, skipped, counts>>

Entry == [pos |-> Len(file) + 1, configuration |-> configurationId]

\* Mutant: the position of the last data record is not kept.
IndexedOnly(info) ==
    [info EXCEPT !.frameId = info.frameId + 1, !.index = Append(info.index, Entry)]

\* The end of onRecord: the record's position, as the last one and in the seek table.
Indexed(info) ==
    [info EXCEPT !.frameId = info.frameId + 1, !.index = Append(info.index, Entry),
                 !.lastData = Len(file) + 1]

\* RECORD and onRecord. When the codec fails there is no record, but its position and
\* entry are kept all the same; when the record cannot be emitted only the frame id is.
OnRecord(s) ==
    LET info == infos[s]
        data == [Record("data", info.node) EXCEPT !.frame = info.frameId + 1,
                                                  !.back = info.lastData]
    IN  /\ About("record", s)
        /\ \/ /\ file' = Append(file, data)
              /\ infos' = [infos EXCEPT ![s] = Indexed(info)]
              /\ UNCHANGED skipped
           \/ /\ infos' = [infos EXCEPT ![s] = Indexed(info)]
              /\ skipped' = skipped \cup {"compress"}
              /\ UNCHANGED file
           \/ /\ infos' = [infos EXCEPT ![s] = [info EXCEPT !.frameId = info.frameId + 1]]
              /\ skipped' = skipped \cup {"emit"}
              /\ UNCHANGED file
        /\ refs' = refs - 1
        /\ pump' = PumpIdle
        /\ UNCHANGED <<senderVars, high, normal, started, configurationId, counts>>

\* Mutant: the configuration is taken for the same.
SameConfigurationId == configurationId

\* "increased any time when a property changes in ANY attached stream"
NextConfigurationId == configurationId + 1

\* onRecordProperty. All properties of a stream count as one here.
OnRecordProperty(s) ==
    LET info     == infos[s]
        property == [Record("property", info.node) EXCEPT !.back = info.lastProperty]
    IN  /\ About("property", s)
        /\ file' = Append(file, property)
        /\ infos' = [infos EXCEPT ![s] = [info EXCEPT !.lastProperty = Len(file) + 1]]
        /\ configurationId' = NextConfigurationId
        /\ pump' = PumpIdle
        /\ UNCHANGED <<senderVars, high, normal, started, refs, skipped, counts>>

\* RECORD_END closes the file.
OnTerminate ==
    /\ pump.step = "handle" /\ pump.msg.type = "terminate"
    /\ file' = Append(file, Record("end", 0))
    /\ pump' = [pump EXCEPT !.step = "exited"]
    /\ UNCHANGED <<senderVars, high, normal, started, infos, configurationId, refs,
                   skipped, counts>>

PumpStep ==
    \/ Pop \/ Drop \/ NotifyAllProperties \/ OnStart \/ OnTerminate
    \/ \E s \in Streams : OnAttach(s) \/ OnDetach(s) \/ OnRecord(s) \/ OnRecordProperty(s)

Next ==
    \/ Close \/ Start \/ Stop \/ AppStep
    \/ \E s \in Streams : \/ AttachStream(s) \/ DestroyStream(s)
                          \/ StreamNewFrame(s) \/ StreamPropertyChanged(s)
                          \/ DriverStep(s)
    \/ PumpStep

Spec == Init /\ [][Next]_vars

\* Threads go on: none rests between two steps of a call. Locks are not assumed fair,
\* and nothing is assumed about when calls are made, frames come or properties change.
FairSpec ==
    /\ Spec /\ WF_vars(AppStep) /\ WF_vars(PumpStep)
    /\ \A s \in Streams : WF_vars(DriverStep(s))

-----------------------------------------------------------------------------
(* Properties *)

Positions(type, node) ==
    {p \in DOMAIN file : file[p].type = type /\ file[p].node = node}

Last(S) == IF S = {} THEN 0 ELSE CHOOSE p \in S : \A q \in S : q <= p

\* A player reads the records of a node only between its NODE_ADDED and
\* NODE_REMOVED, and frames only after NODE_DATA_BEGIN. The queue's priorities, the
\* pending entries and the calls of three threads never put a record elsewhere.
RecordsInsideNode ==
    \A p \in DOMAIN file :
        /\ file[p].type \in {"property", "begin", "data", "removed"} =>
             /\ \E a \in Positions("added", file[p].node) : a < p
             /\ \A r \in Positions("removed", file[p].node) : p <= r
        /\ file[p].type = "data" => \E b \in Positions("begin", file[p].node) : b < p

\* m_frameManager.addRef in record() against release in messagePump, which skips the
\* frames of a stream it does not find: every reference belongs to a message on its
\* way, and the recorder leaves none behind, whatever is detached or closed when.
NoFrameLeaks ==
    /\ refs = Cardinality({i \in DOMAIN normal : normal[i].type = "record"})
              + (IF pump.step = "handle" /\ pump.msg.type = "record" THEN 1 ELSE 0)
    /\ pump.step = "exited" => high = <<>> /\ normal = <<>>

\* undoRecordPos: a player that goes back follows each frame to the frame before it
\* and each property to its last value, as long as no codec has failed.
UndoLeadsBack ==
    "compress" \notin skipped =>
        \A p \in DOMAIN file : file[p].type \in {"data", "property"} =>
            file[p].back = Last({q \in Positions(file[p].type, file[p].node) : q < p})

\* The tables of the streams, written or being made, with their nodes.
Tables ==
    {<<file[p].node, file[p].index>> : p \in {q \in DOMAIN file : file[q].type = "table"}}
    \cup {<<infos[s].node, infos[s].index>> : s \in {t \in Streams : Found(t)}}

\* A patched NODE_ADDED points to the node's seek table; while every frame was
\* written, entry n of a table is the position of frame n, and all frames have one.
SeekTableIsExact ==
    /\ \A p \in DOMAIN file : file[p].type = "added" /\ file[p].back # 0 =>
         LET table == file[p].back IN
         /\ table \in Positions("table", file[p].node)
         /\ skipped = {} => file[p].frame = Len(file[table].index)
    /\ skipped = {} =>
         \A t \in Tables :
            /\ {t[2][i].pos : i \in DOMAIN t[2]} = Positions("data", t[1])
            /\ \A i \in DOMAIN t[2] : file[t[2][i].pos].frame = i

\* A player may seek from frame to frame through the table when their configuration
\* ids are equal: then no property of any stream was recorded between them.
ConfigurationCoversProperties ==
    skipped = {} =>
        \A t, u \in Tables : \A i \in DOMAIN t[2], j \in DOMAIN u[2] :
            t[2][i].configuration = u[2][j].configuration =>
                \A p \in DOMAIN file :
                    t[2][i].pos < p /\ p < u[2][j].pos => file[p].type # "property"

\* "Destroys a recorder. This will also stop recording." (OpenNI.h, ~Recorder): a
\* recorder that is being closed gets closed.
CloseCompletes == app.call \in {"close", "destroy"} ~> app.step = "closed"

=============================================================================
