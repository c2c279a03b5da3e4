------------------------------ MODULE PlayerNode ------------------------------
(***************************************************************************)
(* PlayerNode (PlayerNode.cpp of the OniFile driver): the player's thread  *)
(* reads the records of a recording, notifies the device of nodes,         *)
(* properties and frames, starts again at the end, and seeks: with the     *)
(* seek tables when it can, else by undoing or skipping records.           *)
(*                                                                         *)
(* A recording is what Recorder (OniRecorder.cpp) writes. A position is    *)
(* the number of a record; 0 is the file's header, and none. Each node has *)
(* one property, whose value is the position of the record it came from.   *)
(* One thread runs this code, so a step is a record that is handled, or    *)
(* what a seek does between two of them. The first call that fails is the  *)
(* last of a behaviour: a stream that lost its place does not find it again. *)
(***************************************************************************)
EXTENDS Naturals, FiniteSets, SequencesExt

CONSTANTS
    NodeCount,      \* nodes of the recording, 1 .. NodeCount
    Sessions,       \* what was recorded, see IsSession
    MaxFrame,       \* bound: the frames that are sought
    StackDepth,     \* bound: how deep HandleNodeAddedImpl may be nested
    Unknown,        \* XN_MAX_UINT32, the number of frames of a node without a table
    Dangling, None

Nodes == 1..NodeCount

\* A session: the events between start and close, the nodes detached before start,
\* the nodes whose property onAttach wrote, the nodes whose seek table fits
\* the assembler's buffer, and whether the recorder was closed.
IsSession(s) ==
    /\ s.events \in Seq([type : {"data", "property", "removed"}, node : Nodes, time : Nat])
    /\ s.early \subseteq Nodes /\ s.initial \subseteq Nodes /\ s.tables \subseteq Nodes
    /\ s.finished \in BOOLEAN

ASSUME SessionsAssumption == \A s \in Sessions : IsSession(s)
ASSUME NumbersAssumption ==
    {NodeCount, MaxFrame, StackDepth} \subseteq Nat /\ MaxFrame < Unknown

VARIABLES
    session, file,  \* what was recorded, and its records
    pos,            \* TellStream
    open,           \* m_bOpen
    begun,          \* m_bDataBegun
    nodes,          \* m_pNodeInfoMap
    loading,        \* the nodes HandleNodeAddedImpl waits for, the innermost last
    seek,           \* the seek under way
    temp,           \* m_aSeekTempArray: a frame number, Dangling or None
    shown,          \* the frame of the last OnNodeNewData of a node
    applied,        \* the record of the last property notified of a node
    status,         \* "ok", or why the last call failed
    exact           \* history: the seeks so far could be exact

vars == <<session, file, pos, open, begun, nodes, loading, seek, temp, shown,
          applied, status, exact>>

-----------------------------------------------------------------------------
(* The recording. *)

Raw(type, n) == [type |-> type, node |-> n, time |-> 0]

\* onAttach, then onDetach for a stream that is detached before start().
Attached(s, n) ==
    <<Raw("added", n)>>
    \o (IF n \in s.initial THEN <<Raw("property", n)>> ELSE <<>>)
Removed(s, n) ==
    <<Raw("removed", n)>> \o (IF n \in s.tables THEN <<Raw("table", n)>> ELSE <<>>)
OfEach(S, records) == FlattenSeq([i \in 1..NodeCount |-> IF i \in S THEN records[i] ELSE <<>>])

Detached(s) ==
    {s.events[i].node : i \in {j \in DOMAIN s.events : s.events[j].type = "removed"}}

Written(s) ==
    OfEach(Nodes, [n \in Nodes |-> Attached(s, n)])
    \o OfEach(s.early, [n \in Nodes |-> Removed(s, n)])
    \o OfEach(Nodes \ s.early, [n \in Nodes |-> <<Raw("ready", n), Raw("begin", n)>>])
    \o FlattenSeq([i \in DOMAIN s.events |->
                     IF s.events[i].type = "removed" THEN Removed(s, s.events[i].node)
                                                     ELSE <<s.events[i]>>])
    \o IF s.finished
         THEN OfEach(Nodes \ (s.early \cup Detached(s)), [n \in Nodes |-> Removed(s, n)])
              \o <<Raw("end", 1)>>
         ELSE <<>>

\* With the undo position of each record (the last one of its kind and node), the
\* number of each frame, and the configuration id of the moment.
Recorded(s) ==
    LET raw == Written(s)
        Same(p) == {q \in 1..p-1 : raw[q].type = raw[p].type /\ raw[q].node = raw[p].node}
        start == IF s.early = Nodes THEN Len(raw)
                 ELSE Min({q \in DOMAIN raw : raw[q].type = "ready"})
    IN  [p \in DOMAIN raw |->
           [type |-> raw[p].type, node |-> raw[p].node, time |-> raw[p].time,
            undo |-> IF Same(p) = {} THEN 0 ELSE Max(Same(p)),
            frame |-> Cardinality(Same(p)) + 1,
            configuration |-> Cardinality({q \in start..p : raw[q].type = "property"})]]

Positions(type, n) == {p \in DOMAIN file : file[p].type = type /\ file[p].node = n}
LastBefore(type, n, p) == Max({0} \cup {q \in Positions(type, n) : q < p})
FrameAt(p) == IF p = 0 THEN 0 ELSE file[p].frame
FrameCount(n) == Cardinality(Positions("data", n))

\* The detaching of a node goes back to its NODE_ADDED to write the number of frames
\* and the position of the table, unless the table was too large.
HasTable(n) == Positions("table", n) # {}
FramesOf(n) == IF HasTable(n) THEN FrameCount(n) ELSE Unknown

\* The seek table of a node: an empty entry for frame 0, then one for each frame.
Entry(n, k) ==
    IF k = 0 THEN [pos |-> 0, time |-> 0, configuration |-> 0]
    ELSE LET p == CHOOSE q \in Positions("data", n) : file[q].frame = k
         IN  [pos |-> p, time |-> file[p].time, configuration |-> file[p].configuration]

-----------------------------------------------------------------------------
(* State *)

\* PlayerNodeInfo. newDataUndoInfo is `last` and that record's undo position; the
\* entry of recordUndoInfoMap is `property` and that record's undo position.
ResetNode == [valid |-> FALSE, ready |-> FALSE, frames |-> 0, indexed |-> FALSE,
              cur |-> 0, last |-> 0, property |-> 0]

NoSeek == [step |-> "none", node |-> 0, dest |-> 0, target |-> 0, start |-> 0,
           todo |-> <<>>]

TypeOK ==
    /\ pos \in 0..Len(file) + 1
    /\ {open, begun, exact} \subseteq BOOLEAN
    /\ nodes \in [Nodes -> [valid : BOOLEAN, ready : BOOLEAN, frames : 0..Unknown,
                            indexed : BOOLEAN, cur : 0..Len(file), last : 0..Len(file),
                            property : 0..Len(file)]]
    /\ loading \in Seq(Nodes) /\ Len(loading) <= StackDepth
    /\ seek \in [step : {"none", "same", "locate", "fast", "back", "undo", "forward",
                         "each"},
                 node : 0..NodeCount, dest : 0..MaxFrame, target : 0..Len(file) + 1,
                 start : 0..Len(file) + 1, todo : Seq(Nodes)]
    /\ temp \in [Nodes -> 0..Len(file) \cup {Dangling, None}]
    /\ shown \in [Nodes -> 0..Len(file)]
    /\ applied \in [Nodes -> 0..Len(file)]
    /\ status \in {"ok", "corrupt", "no undo", "closed", "overflow", "use after free"}

\* SetInputStream has opened the file; OpenStream is in ProcessUntilFirstData.
Init ==
    /\ session \in Sessions
    /\ file = Recorded(session)
    /\ pos = 1 /\ open = TRUE /\ begun = FALSE
    /\ nodes = [n \in Nodes |-> ResetNode]
    /\ loading = <<>>
    /\ seek = NoSeek
    /\ temp = [n \in Nodes |-> None]
    /\ shown = [n \in Nodes |-> 0] /\ applied = [n \in Nodes |-> 0]
    /\ status = "ok"
    /\ exact = TRUE

fileVars == <<session, file>>
streamVars == <<pos, open, begun, nodes, loading>>
outVars == <<shown, applied>>

\* The thread is in ProcessUntilFirstData or in HandleNodeAddedImpl.
Loading == loading # <<>> \/ ~begun
Idle == status = "ok" /\ seek = NoSeek /\ ~Loading

-----------------------------------------------------------------------------
(* Handlers of the record at position p; the stream is after it when they return. *)

Fail(why) == status' = why /\ UNCHANGED <<streamVars, outVars, temp>>

HandleNodeAdded(p) ==
    LET n == file[p].node IN
    IF Len(loading) = StackDepth THEN Fail("overflow")
    ELSE /\ nodes' = [nodes EXCEPT ![n] = [@ EXCEPT !.valid = TRUE, !.frames = FramesOf(n)]]
         /\ loading' = Append(loading, n)
         /\ pos' = p + 1
         /\ UNCHANGED <<open, begun, outVars, temp, status>>

HandleProperty(p) ==
    LET n == file[p].node IN
    IF ~nodes[n].valid THEN Fail("corrupt")
    ELSE /\ nodes' = [nodes EXCEPT ![n] = [@ EXCEPT !.property = p]]
         /\ applied' = [applied EXCEPT ![n] = p]
         /\ pos' = p + 1
         /\ UNCHANGED <<open, begun, loading, shown, temp, status>>

\* Mutant: a node that gets ready after the data of another began is missed.
HandleNodeStateReadyFirst(p) ==
    LET n == file[p].node IN
    IF ~nodes[n].valid THEN Fail("corrupt")
    ELSE /\ nodes' = [nodes EXCEPT ![n] = [@ EXCEPT !.ready = ~begun]]
         /\ pos' = p + 1
         /\ UNCHANGED <<open, begun, loading, outVars, temp, status>>

HandleNodeStateReady(p) ==
    LET n == file[p].node IN
    IF ~nodes[n].valid THEN Fail("corrupt")
    ELSE /\ nodes' = [nodes EXCEPT ![n] = [@ EXCEPT !.ready = TRUE]]
         /\ pos' = p + 1
         /\ UNCHANGED <<open, begun, loading, outVars, temp, status>>

HandleNodeDataBegin(p) ==
    IF ~nodes[file[p].node].valid THEN Fail("corrupt")
    ELSE /\ begun' = TRUE
         /\ pos' = p + 1
         /\ UNCHANGED <<open, nodes, loading, outVars, temp, status>>

At(info, p) == [info EXCEPT !.cur = file[p].frame, !.last = p]

\* Mutant: a frame that is skipped is not counted.
HandleNewDataPayload(p, payload) ==
    LET n == file[p].node IN
    IF ~nodes[n].valid THEN Fail("corrupt")
    ELSE /\ nodes' = IF payload THEN [nodes EXCEPT ![n] = At(@, p)] ELSE nodes
         /\ shown' = IF payload THEN [shown EXCEPT ![n] = file[p].frame] ELSE shown
         /\ pos' = p + 1
         /\ UNCHANGED <<open, begun, loading, applied, temp, status>>

HandleNewData(p, payload) ==
    LET n == file[p].node IN
    IF ~nodes[n].valid THEN Fail("corrupt")
    ELSE /\ nodes' = [nodes EXCEPT ![n] = At(@, p)]
         /\ shown' = IF payload THEN [shown EXCEPT ![n] = file[p].frame] ELSE shown
         /\ pos' = p + 1
         /\ UNCHANGED <<open, begun, loading, applied, temp, status>>

\* Reset frees the seek table; m_aSeekTempArray may still point into it.
Freed(S) == [n \in Nodes |-> IF n \in S /\ temp[n] # None THEN Dangling ELSE temp[n]]

HandleNodeRemoved(p) ==
    LET n == file[p].node IN
    IF ~nodes[n].valid THEN Fail("corrupt")
    ELSE /\ nodes' = [nodes EXCEPT ![n] = ResetNode]
         /\ temp' = Freed({n})
         /\ pos' = p + 1
         /\ UNCHANGED <<open, begun, loading, outVars, status>>

HandleDataIndex(p) ==
    /\ pos' = p + 1
    /\ UNCHANGED <<open, begun, nodes, loading, outVars, temp, status>>

\* Rewind starts again with ProcessUntilFirstData, inside the call that read END.
Rewind ==
    /\ pos' = 1 /\ begun' = FALSE
    /\ nodes' = [n \in Nodes |-> ResetNode]
    /\ temp' = Freed(Nodes)
    /\ UNCHANGED <<open, loading, outVars, status>>

\* m_bRepeat is TRUE until OpenStream has returned; afterwards the application sets it
\* at any time, and it is read here only.
HandleEnd ==
    IF ~begun THEN Fail("corrupt")
    ELSE \/ Rewind
         \/ /\ loading = <<>>
            /\ open' = FALSE
            /\ UNCHANGED <<pos, begun, nodes, loading, outVars, temp, status>>

Handle(p, payload) ==
    IF ~open THEN Fail("closed")
    ELSE IF p \notin DOMAIN file THEN Fail("corrupt")
    ELSE \/ file[p].type = "added"    /\ HandleNodeAdded(p)
         \/ file[p].type = "property" /\ HandleProperty(p)
         \/ file[p].type = "ready"    /\ HandleNodeStateReady(p)
         \/ file[p].type = "begin"    /\ HandleNodeDataBegin(p)
         \/ file[p].type = "data"     /\ HandleNewData(p, payload)
         \/ file[p].type = "removed"  /\ HandleNodeRemoved(p)
         \/ file[p].type = "table"    /\ HandleDataIndex(p)
         \/ file[p].type = "end"      /\ HandleEnd

-----------------------------------------------------------------------------
(* Reading. *)

\* One turn of the loops of ProcessUntilFirstData and of the innermost
\* HandleNodeAddedImpl.
LoadRecord ==
    /\ status = "ok" /\ Loading
    /\ loading # <<>> => ~nodes[Last(loading)].ready
    /\ Handle(pos, TRUE)
    /\ UNCHANGED <<fileVars, seek, exact>>

\* HandleNodeAddedImpl sees that its node is ready; HandleNodeAddedRecord reads the
\* seek table and goes back.
NodeIsReady ==
    LET n == Last(loading) IN
    /\ status = "ok" /\ loading # <<>> /\ nodes[n].ready
    /\ loading' = Front(loading)
    /\ nodes' = [nodes EXCEPT ![n] =
                   [@ EXCEPT !.indexed = HasTable(n) /\ FrameCount(n) > 0]]
    /\ UNCHANGED <<fileVars, pos, open, begun, seek, temp, outVars, status, exact>>

\* PlayerDevice::MainLoop reads the next record.
ReadNext ==
    /\ Idle /\ open
    /\ Handle(pos, TRUE)
    /\ UNCHANGED <<fileVars, seek, exact>>

-----------------------------------------------------------------------------
(* Seeking. *)

Seeking(step) == status = "ok" /\ seek.step = step /\ ~Loading

\* SeekToFrame, from the beginning of the file, and the first test of
\* SeekToFrameAbsolute. A node that was removed has no name: the call is refused.
SeekToFrame(n, f) ==
    LET dest == Min({Max({1, f}), nodes[n].frames}) IN
    /\ Idle /\ open /\ nodes[n].valid
    /\ seek' = [NoSeek EXCEPT !.step = IF dest = nodes[n].cur THEN "same" ELSE "locate",
                              !.node = n, !.dest = dest]
    /\ UNCHANGED <<fileVars, streamVars, temp, outVars, status, exact>>

\* The same frame is read once more. What was read after it is not undone.
SeekSameFrame ==
    LET last == nodes[seek.node].last IN
    /\ Seeking("same")
    /\ Handle(last, TRUE)
    /\ exact' = (exact /\ \A q \in last + 1..pos - 1 :
                            file[q].type \notin {"data", "property"})
    /\ seek' = IF status' = "ok" THEN NoSeek ELSE seek
    /\ UNCHANGED <<fileVars>>

\* The binary search: the entry before the interval that is left, which on equality
\* is left as it is.
FindTimestampInDataIndex(n, t) ==
    LET search[first \in 1..FrameCount(n) + 1, last \in 0..FrameCount(n)] ==
          LET mid == (first + last) \div 2 IN
          IF first > last \/ Entry(n, mid).time = t THEN first - 1
          ELSE IF Entry(n, mid).time > t THEN search[first, mid - 1]
          ELSE search[mid + 1, last]
    IN  search[1, FrameCount(n)]

\* The frames to which a fast seek would move the nodes. A node without a table has
\* the number of frames -1 for the search, which returns NULL.
SeekLocations ==
    [i \in Nodes |->
       IF i = seek.node THEN seek.dest
       ELSE IF ~nodes[i].valid THEN temp[i]
       ELSE IF ~nodes[i].indexed THEN None
       ELSE FindTimestampInDataIndex(i, Entry(seek.node, seek.dest).time)]

\* Mutant: the configurations of the two frames are not compared.
SameConfigurationOfOthers(at) ==
    \A i \in {j \in Nodes \ {seek.node} : nodes[j].indexed} :
      Entry(i, at[i]).configuration = Entry(seek.node, nodes[seek.node].cur).configuration

\* All nodes have, at these frames, the configuration of the current frame of the
\* sought node.
SameConfiguration(at) ==
    \A i \in {j \in Nodes : nodes[j].indexed} :
      Entry(i, at[i]).configuration = Entry(seek.node, nodes[seek.node].cur).configuration

ConfigurationAt(p) == IF p = 1 THEN 0 ELSE file[p-1].configuration

\* When a fast seek comes to the right place: no property was read after the current
\* frame, every node has a table, and the other nodes' frames are before the sought
\* one in the file and in time, or after it in both.
CanBeExact ==
    LET n == seek.node
        to == Entry(n, seek.dest)
    IN  /\ ConfigurationAt(pos) = Entry(n, nodes[n].cur).configuration
        /\ \A i \in Nodes \ {n} : FrameCount(i) > 0 => nodes[i].indexed
        /\ \A i \in Nodes \ {n} : \A q \in Positions("data", i) :
             file[q].time # to.time /\ (q < to.pos <=> file[q].time < to.time)

Slow == [seek EXCEPT !.step = IF seek.dest <= nodes[seek.node].cur THEN "back"
                                                                   ELSE "forward",
                     !.start = pos]

\* GetSeekLocationsFromDataIndex. It may return before it has written all of
\* m_aSeekTempArray, whose entries of live nodes are written again before any use.
GetSeekLocations ==
    LET at == SeekLocations IN
    /\ Seeking("locate")
    /\ IF nodes[seek.node].indexed /\ SameConfiguration(at)
         THEN /\ seek' = [seek EXCEPT !.step = "fast",
                                      !.todo = SetToSortSeq({i \in Nodes : at[i] # None}, <)]
              /\ temp' = at
              /\ exact' = (exact /\ CanBeExact)
         ELSE seek' = Slow /\ UNCHANGED <<temp, exact>>
    /\ UNCHANGED <<fileVars, streamVars, outVars, status>>

\* One turn of the loop over m_aSeekTempArray.
FastSeekNode ==
    LET i == Head(seek.todo) IN
    /\ Seeking("fast") /\ seek.todo # <<>>
    /\ IF temp[i] = Dangling
         THEN Fail("use after free") /\ UNCHANGED seek
         ELSE LET p == Entry(i, temp[i]).pos IN
              /\ Handle(p, TRUE)
              /\ seek' = IF status' = "ok" THEN [seek EXCEPT !.todo = Tail(@),
                                                             !.target = Max({@, p + 1})]
                                           ELSE seek
    /\ UNCHANGED <<fileVars, exact>>

FastSeekDone ==
    /\ Seeking("fast") /\ seek.todo = <<>>
    /\ pos' = seek.target
    /\ seek' = NoSeek
    /\ UNCHANGED <<fileVars, open, begun, nodes, loading, temp, outVars, status,
                   exact>>

\* Back along the undo positions to a frame that is not after the sought one, which is
\* handled without its payload.
SeekBack ==
    LET n == seek.node
        last == nodes[n].last
        undo == IF last = 0 THEN 0 ELSE file[last].undo
        p == Max({q \in Positions("data", n) : q <= undo /\ file[q].frame <= seek.dest})
    IN  /\ Seeking("back")
        /\ IF undo = 0
             THEN Fail("no undo") /\ UNCHANGED seek
             ELSE HandleNewData(p, FALSE)
                  /\ seek' = [seek EXCEPT !.step = "undo", !.target = p]
        /\ UNCHANGED <<fileVars, exact>>

\* ProcessEachNodeLastData takes the sought node last: it changes places with the last.
ProcessOrder(n) ==
    [i \in Nodes |-> IF i = n THEN NodeCount ELSE IF i = NodeCount THEN n ELSE i]

\* The record read last is to be undone. Back along its undo positions there is one
\* that is not after the sought frame, or none.
MustUndo(p) == seek.target < p /\ p < seek.start
UndoneTo(type, n, p) == IF MustUndo(p) THEN LastBefore(type, n, seek.target + 1) ELSE p

\* UndoRecord for the property and, but for the sought node, the data of each node.
\* A property that cannot be undone stays; data that cannot is forgotten.
UndoRecords ==
    LET back(n) == UndoneTo("property", n, nodes[n].property)
        data(n) == UndoneTo("data", n, nodes[n].last)
        frame(n) == IF data(n) = 0 \/ data(n) = nodes[n].last THEN nodes[n].cur
                                                              ELSE file[data(n)].frame
    IN  /\ Seeking("undo")
        /\ applied' = [n \in Nodes |-> IF MustUndo(nodes[n].property) /\ back(n) # 0
                                         THEN back(n) ELSE applied[n]]
        /\ nodes' = [n \in Nodes |->
             [nodes[n] EXCEPT
                !.property = IF back(n) = 0 THEN Min({@} \cup Positions("property", n))
                                            ELSE back(n),
                !.last = data(n), !.cur = frame(n)]]
        /\ seek' = [seek EXCEPT !.step = "each", !.todo = ProcessOrder(seek.node)]
        /\ UNCHANGED <<fileVars, pos, open, begun, loading, temp, shown, status,
                       exact>>

\* Skip to the sought frame, handling the properties on the way. The end of the file
\* may be on the way too.
SkipRecord ==
    /\ Seeking("forward") /\ nodes[seek.node].cur < seek.dest
    /\ Handle(pos, FALSE)
    /\ UNCHANGED <<fileVars, seek, exact>>

\* Mutant: one frame too early.
SkipDoneEarly ==
    /\ Seeking("forward") /\ nodes[seek.node].cur + 1 >= seek.dest
    /\ seek' = [seek EXCEPT !.step = "each", !.todo = ProcessOrder(seek.node)]
    /\ UNCHANGED <<fileVars, streamVars, temp, outVars, status, exact>>

SkipDone ==
    /\ Seeking("forward") /\ nodes[seek.node].cur >= seek.dest
    /\ seek' = [seek EXCEPT !.step = "each", !.todo = ProcessOrder(seek.node)]
    /\ UNCHANGED <<fileVars, streamVars, temp, outVars, status, exact>>

\* One turn of ProcessEachNodeLastData: the last frame of the node is read again, now
\* with its payload. A node without one gets frame 0.
ProcessLastData ==
    LET i == Head(seek.todo) IN
    /\ Seeking("each")
    /\ IF ~nodes[i].valid
         THEN UNCHANGED <<streamVars, outVars, temp, status>>
         ELSE IF nodes[i].last = 0
         THEN /\ shown' = [shown EXCEPT ![i] = 0]
              /\ UNCHANGED <<streamVars, applied, temp, status>>
         ELSE Handle(nodes[i].last, TRUE)
    /\ seek' = IF status' # "ok" THEN seek
               ELSE IF Len(seek.todo) = 1 THEN NoSeek
               ELSE [seek EXCEPT !.todo = Tail(@)]
    /\ UNCHANGED <<fileVars, exact>>

-----------------------------------------------------------------------------
SeekStep ==
    \/ SeekSameFrame \/ GetSeekLocations
    \/ FastSeekNode \/ FastSeekDone
    \/ SeekBack \/ UndoRecords
    \/ SkipRecord \/ SkipDone \/ ProcessLastData

Next ==
    \/ LoadRecord \/ NodeIsReady \/ ReadNext \/ SeekStep
    \/ \E n \in Nodes, f \in 1..MaxFrame : SeekToFrame(n, f)

Spec == Init /\ [][Next]_vars

\* The thread finishes what it began; nothing is assumed about when it is asked.
FairSpec == Spec /\ WF_vars(LoadRecord \/ NodeIsReady \/ SeekStep)

-----------------------------------------------------------------------------
(* Properties *)

\* Between two calls the last frame of every node is the one before the position of
\* the stream, it is the frame the node shows, and the node has its last property
\* before that position, as long as every seek so far could be exact: slow seeks
\* always are, the others under the conditions of CanBeExact and SeekSameFrame. A
\* property without an earlier record cannot be undone and keeps a later value.
StateMatchesPosition ==
    Idle /\ exact =>
      \A n \in {m \in Nodes : nodes[m].valid} :
        /\ nodes[n].last = LastBefore("data", n, pos)
        /\ nodes[n].last # 0 => shown[n] = FrameAt(nodes[n].last)
        /\ LastBefore("property", n, pos) # 0 =>
             applied[n] = LastBefore("property", n, pos)

\* A seek that succeeds shows the frame it was asked for. (After a fast seek that was
\* not exact, a slow one may find that its frame is behind the stream already.)
SeekShowsItsFrame ==
    [][exact /\ seek # NoSeek /\ seek' = NoSeek =>
         shown'[seek.node] = seek.dest /\ nodes'[seek.node].cur = seek.dest]_vars

\* The ways in which reading and seeking fail, none of them the file's fault but the
\* first: the end of a recording that was not closed; a stream detached before start(),
\* for which HandleNodeAddedImpl waits beyond the end; a record, or a seek table, of a
\* node whose NODE_REMOVED was read before a seek back; an end of file after which the
\* seek goes on; the current frame of a node, which a seek back of another node has
\* undone; and a fast seek to a time when another node had no frame, whose empty entry
\* sends the stream to the file's header.
FailuresAreKnown ==
    \/ status = "ok"
    \/ ~session.finished /\ pos = Len(file) + 1
    \/ session.early # {} /\ (status = "overflow" \/ session.early = Nodes)
    \/ pos \in DOMAIN file /\ ~nodes[file[pos].node].valid /\ status = "corrupt"
    \/ seek.step = "fast" /\ ~nodes[Head(seek.todo)].valid
    \/ status = "closed" /\ seek.step = "forward" /\ ~open
    \/ seek.step \in {"same", "back"} /\ nodes[seek.node].last = 0
    \/ seek.step = "fast" /\ temp[Head(seek.todo)] = 0

\* A seek ends, with its frame or with an error, when it asks for a frame that exists.
SeekEnds ==
    (seek # NoSeek /\ seek.dest <= FrameCount(seek.node))
      ~> (seek = NoSeek \/ status # "ok")

\* OpenNI.h:1766-1769 says of a seek that "all other streams will also be changed to the
\* corresponding place in the recording" and that "the recording will set all streams to
\* the same moment in time": whatever was done before, after a seek every node has the
\* frame and the property that are the last ones before the place where it goes on.
SeekSetsOneMoment ==
    [][session.finished /\ session.initial = Nodes /\ seek # NoSeek /\ seek' = NoSeek =>
         \A n \in {m \in Nodes : nodes[m].valid} :
           /\ nodes'[n].last = LastBefore("data", n, pos')
           /\ applied'[n] \in {0, LastBefore("property", n, pos')}]_vars
=============================================================================
