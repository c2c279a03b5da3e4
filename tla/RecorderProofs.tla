--------------------------- MODULE RecorderProofs ---------------------------
(***************************************************************************)
(* Proofs about Recorder for any streams and bounds. What the records of   *)
(* the file are worth depends on the order of the messages, so the         *)
(* invariant speaks of the messages on their way (QueueInv, MessageInv),   *)
(* of the streams and calls that send them (StreamInv, AppInv), of what    *)
(* the entries of m_streams know about the file (FileInv, UndoInv,         *)
(* PatchInv, IndexInv), and of configuration ids (ConfigurationInv).       *)
(***************************************************************************)
EXTENDS Recorder, FiniteSetTheorems, TLAPS

Queued(m)  == \E i \in DOMAIN normal : normal[i] = m
Urgent(m)  == \E i \in DOMAIN high : high[i] = m
Handled(m) == pump.step # "idle" /\ pump.msg = m
Pending(m) == Queued(m) \/ Urgent(m) \/ Handled(m)

\* Message n may be sent after m: ATTACH comes first of the messages of its stream
\* and before START, only DETACH follows a DETACH, and nothing TERMINATE.
MayFollow(n, m) ==
    /\ m.type # "terminate"
    /\ n.type = "attach" => m.stream # n.stream /\ m.type # "start"
    /\ m.type = "detach" /\ m.stream = n.stream => n.type = "detach"

QueueInv ==
    /\ \A i, j \in DOMAIN normal : i < j => MayFollow(normal[j], normal[i])
    /\ pump.step # "idle" => \A j \in DOMAIN normal : MayFollow(normal[j], pump.msg)
    /\ pump.step # "idle" /\ pump.msg.type # "property" => high = <<>>
    /\ pump.step = "notify" => pump.msg.type = "attach"
    /\ pump.step = "exited" => pump.msg.type = "terminate"

Closing == app.call \in {"close", "destroy"}

Begun(s) ==
    \E p \in DOMAIN file : file[p].type = "begin" /\ file[p].node = infos[s].node

Notifying(s) == pump.step = "notify" /\ pump.msg.stream = s

\* What is true while message m is on its way.
Due(m) ==
    /\ m.type \in {"attach", "record", "property"} => Found(m.stream)
    /\ m.type = "attach" => infos[m.stream].added = 0 \/ Notifying(m.stream)
    /\ m.type = "record" => Begun(m.stream)
    /\ m.type = "detach" => m.stream \notin attached /\ (m.stream \notin live \/ Closing)
    /\ m.type = "start" => wasStarted
    /\ m.type = "terminate" => app.step \in {"join", "closed"}
    /\ Urgent(m) => m.type = "property" /\ infos[m.stream].added # 0

MessageInv == \A m \in Messages : Pending(m) => Due(m)

StreamInv ==
    \A s \in Streams :
        /\ s \in attached => Found(s)
        /\ driver[s] # "idle" => s \in attached
        /\ driver[s] = "frame" => Begun(s)
        /\ Notifying(s) => infos[s].added # 0
        /\ Found(s) /\ started => Begun(s)
        /\ Found(s) /\ infos[s].added = 0 => Pending(Message("attach", s))

AppInv ==
    /\ started => wasStarted
    /\ app.call = "attach" => /\ ~wasStarted /\ app.todo \subseteq live
                              /\ app.todo # {} => maxId < MaxNodes
                              /\ app.step = "locked" => \A s \in app.todo : ~Found(s)
    /\ app.call = "destroyStream" => app.todo \cap live = {}
    /\ Closing /\ app.step \in {"lock", "locked"} => attached \subseteq app.todo
    /\ app.step \in {"join", "closed"} => app.call = "destroy" /\ attached = {}

FileInv ==
    /\ \A p \in DOMAIN file : file[p].node <= maxId /\ (file[p].type # "end" => file[p].node # 0)
    /\ \A s \in Streams : Found(s) =>
         /\ infos[s].node <= maxId
         /\ \A t \in Streams : Found(t) /\ infos[t].node = infos[s].node => t = s
         /\ infos[s].added # 0 => infos[s].added \in Positions("added", infos[s].node)
         /\ \A p \in DOMAIN file : file[p].node = infos[s].node =>
              infos[s].added # 0 /\ file[p].type \notin {"removed", "table"}

\* Once NODE_DATA_BEGIN is written no stream is to be attached any more.
BeginInv ==
    \A p \in DOMAIN file : file[p].type = "begin" =>
         wasStarted /\ \A s \in Streams : ~Pending(Message("attach", s))

\* The rest of the invariant is about what the file says: f is the file, in this state
\* or the next.
At(f, type, node) == {p \in DOMAIN f : f[p].type = type /\ f[p].node = node}

\* n is the last of the numbers S, or 0 when there is none.
IsLast(n, S) == (n = 0 /\ S = {}) \/ (n \in S /\ \A q \in S : q <= n)

UndoInv ==
    \A s \in Streams : Found(s) =>
        /\ IsLast(infos[s].lastProperty, At(file, "property", infos[s].node))
        /\ "compress" \notin skipped =>
             IsLast(infos[s].lastData, At(file, "data", infos[s].node))

IsIndex(f, index, node) ==
    /\ {index[i].pos : i \in DOMAIN index} = At(f, "data", node)
    /\ \A i \in DOMAIN index : f[index[i].pos].frame = i

IndexInv ==
    skipped = {} =>
        /\ \A s \in Streams : Found(s) =>
             /\ infos[s].frameId = Len(infos[s].index)
             /\ IsIndex(file, infos[s].index, infos[s].node)
        /\ \A p \in DOMAIN file : file[p].type = "table" =>
             IsIndex(file, file[p].index, file[p].node)

\* What the NODE_ADDED say of the seek tables.
Patched(f, exact) ==
    \A p \in DOMAIN f : f[p].type = "added" /\ f[p].back # 0 =>
        /\ f[p].back \in At(f, "table", f[p].node)
        /\ exact => f[p].frame = Len(f[f[p].back].index)

PatchInv == Patched(file, skipped = {})

\* The entries of all seek tables, written or being made.
Entries(f, I) ==
    UNION ({{f[p].index[i] : i \in DOMAIN f[p].index} : p \in {q \in DOMAIN f : f[q].type = "table"}}
           \cup {{I[s].index[i] : i \in DOMAIN I[s].index} : s \in {t \in Streams : I[t] # None}})

Covers(f, E, c) ==
    \A e \in E :
        /\ e.configuration <= c
        /\ e.configuration = c => \A p \in DOMAIN f : e.pos < p => f[p].type # "property"
        /\ \A d \in E, p \in DOMAIN f :
             e.configuration = d.configuration /\ e.pos < p /\ p < d.pos =>
                 f[p].type # "property"

ConfigurationInv == skipped = {} => Covers(file, Entries(file, infos), configurationId)

Recorded ==
    /\ FileInv /\ RecordsInsideNode /\ UndoInv /\ UndoLeadsBack /\ PatchInv /\ IndexInv
    /\ ConfigurationInv

TalkInv == QueueInv /\ MessageInv /\ StreamInv /\ AppInv /\ BeginInv

IInv == TypeOK /\ TalkInv /\ NoFrameLeaks /\ Recorded

-----------------------------------------------------------------------------
(* Types, and what the operators of the model yield. *)

LEMMA MessageTypes ==
    /\ \A m \in Messages :
         /\ m.type \in {"attach", "detach", "record", "property", "start", "terminate"}
         /\ m.type \in {"attach", "detach", "record", "property"} => m.stream \in Streams
         /\ m.type \in {"start", "terminate"} => m.stream = None
         /\ m = Message(m.type, m.stream)
    /\ \A s \in Streams, type \in {"attach", "detach", "record", "property"} :
         /\ Message(type, s) \in Messages
         /\ Message(type, s).type = type /\ Message(type, s).stream = s
    /\ \A type \in {"start", "terminate"} :
         Message(type, None) \in Messages /\ Message(type, None).type = type
BY DEF Messages, Message

LEMMA PumpTypes ==
    ASSUME TypeOK
    PROVE  /\ pump.step \in {"idle", "handle", "notify", "exited"}
           /\ pump.step = "idle" <=> pump = PumpIdle
           /\ pump.step # "idle" => pump.msg \in Messages
BY DEF TypeOK, PumpStates, PumpIdle

LEMMA InfoTypes ==
    ASSUME TypeOK, NEW s \in Streams, Found(s)
    PROVE  infos[s] \in Infos
BY DEF TypeOK, Found

LEMMA RecordTypes ==
    ASSUME NEW type \in {"added", "property", "begin", "data", "removed", "table", "end"},
           NEW node \in 0..MaxNodes
    PROVE  /\ Record(type, node) \in Records
           /\ Record(type, node).type = type /\ Record(type, node).node = node
           /\ Record(type, node).frame = 0 /\ Record(type, node).back = 0
           /\ Record(type, node).index = <<>>
BY DEF Record, Records

\* The records that follow one another in a concatenation.
LEMMA Followed ==
    ASSUME NEW S, NEW q \in Seq(S), NEW r \in Seq(S)
    PROVE  /\ q \o r \in Seq(S) /\ Len(q \o r) = Len(q) + Len(r)
           /\ \A i \in DOMAIN q : (q \o r)[i] = q[i]
           /\ \A i \in DOMAIN r : (q \o r)[Len(q) + i] = r[i]
OBVIOUS

LEMMA Twice ==
    ASSUME NEW S, NEW q \in Seq(S), NEW a \in S, NEW b \in S
    PROVE  /\ q \o <<a, b>> \in Seq(S) /\ Len(q \o <<a, b>>) = Len(q) + 2
           /\ \A i \in DOMAIN q : (q \o <<a, b>>)[i] = q[i]
           /\ (q \o <<a, b>>)[Len(q) + 1] = a /\ (q \o <<a, b>>)[Len(q) + 2] = b
OBVIOUS

\* What onStart writes: a record for each of the streams S.
LEMMA OrderTypes ==
    ASSUME NEW S \in SUBSET Streams, NEW q \in Orders(S)
    PROVE  /\ Cardinality(S) \in Nat /\ DOMAIN q = 1..Cardinality(S)
           /\ \A i \in DOMAIN q : q[i] \in S
           /\ \A s \in S : \E i \in DOMAIN q : q[i] = s
<1>1. IsFiniteSet(S) BY FS_Subset, StreamsAssumption
<1>2. Cardinality(S) \in Nat BY <1>1, FS_CardinalityType
<1> QED BY <1>2 DEF Orders

LEMMA Written ==
    ASSUME NEW n \in Nat, NEW S, NEW q \in [1..n -> S]
    PROVE  q \in Seq(S) /\ Len(q) = n
OBVIOUS

LEMMA Bounds ==
    /\ TableRoom \in Nat /\ MaxNodes \in Nat /\ MaxFrames \in Nat
    /\ MaxProperties \in Nat /\ MaxStarts \in Nat
BY NumbersAssumption

Calls == [call : {"attach", "destroyStream", "close", "destroy"},
          step : {"lock", "locked", "join", "closed"}, todo : SUBSET Streams]

LEMMA AppTypes ==
    ASSUME app \in AppStates
    PROVE  /\ app.call \in {"none", "attach", "destroyStream", "close", "destroy"}
           /\ app.step \in {"idle", "lock", "locked", "join", "closed"}
           /\ app.todo \in SUBSET Streams
           /\ app.step = "idle" <=> app = AppIdle
           /\ app.step # "idle" => app.call # "none"
           /\ app.step # "idle" => app \in Calls
<1>1. CASE app = AppIdle
  BY <1>1 DEF AppIdle
<1>2. CASE app # AppIdle
  <2>1. app \in Calls BY <1>2 DEF AppStates, Calls
  <2> QED BY <1>2, <2>1 DEF Calls
<1> QED BY <1>1, <1>2

\* A call of the application goes on.
LEMMA CallChanges ==
    ASSUME NEW c \in Calls, NEW p \in {"lock", "locked", "join", "closed"},
           NEW S \in SUBSET Streams
    PROVE  /\ [c EXCEPT !.step = p] \in Calls
           /\ [c EXCEPT !.step = p].call = c.call /\ [c EXCEPT !.step = p].step = p
           /\ [c EXCEPT !.step = p].todo = c.todo
           /\ [c EXCEPT !.todo = S] \in Calls
           /\ [c EXCEPT !.todo = S].call = c.call /\ [c EXCEPT !.todo = S].step = c.step
           /\ [c EXCEPT !.todo = S].todo = S
           /\ [c EXCEPT !.step = p, !.todo = S] \in Calls
           /\ [c EXCEPT !.step = p, !.todo = S].call = c.call
           /\ [c EXCEPT !.step = p, !.todo = S].step = p
           /\ [c EXCEPT !.step = p, !.todo = S].todo = S
<1> DEFINE T == SUBSET Streams
<1>1. c \in [call : {"attach", "destroyStream", "close", "destroy"},
            step : {"lock", "locked", "join", "closed"}, todo : T] /\ S \in T
  BY DEF Calls
<1> HIDE DEF T
<1>2. /\ [c EXCEPT !.step = p] \in [call : {"attach", "destroyStream", "close", "destroy"},
                                  step : {"lock", "locked", "join", "closed"}, todo : T]
      /\ [c EXCEPT !.step = p].call = c.call /\ [c EXCEPT !.step = p].step = p
      /\ [c EXCEPT !.step = p].todo = c.todo
  BY <1>1
<1>3. /\ [c EXCEPT !.todo = S] \in [call : {"attach", "destroyStream", "close", "destroy"},
                                  step : {"lock", "locked", "join", "closed"}, todo : T]
      /\ [c EXCEPT !.todo = S].call = c.call /\ [c EXCEPT !.todo = S].step = c.step
      /\ [c EXCEPT !.todo = S].todo = S
  BY <1>1
<1>4. /\ [c EXCEPT !.step = p, !.todo = S]
            \in [call : {"attach", "destroyStream", "close", "destroy"},
                 step : {"lock", "locked", "join", "closed"}, todo : T]
      /\ [c EXCEPT !.step = p, !.todo = S].call = c.call
      /\ [c EXCEPT !.step = p, !.todo = S].step = p
      /\ [c EXCEPT !.step = p, !.todo = S].todo = S
  BY <1>1
<1> QED BY <1>2, <1>3, <1>4 DEF Calls, T

LEMMA CallTypes ==
    /\ Calls \subseteq AppStates /\ AppIdle \in AppStates
    /\ \A call \in {"attach", "destroyStream", "close", "destroy"},
          step \in {"lock", "locked", "join", "closed"}, S \in SUBSET Streams :
            [call |-> call, step |-> step, todo |-> S] \in AppStates
BY DEF AppStates, Calls

Counts == [frames : 0..MaxFrames, properties : 0..MaxProperties, starts : 0..MaxStarts]

LEMMA CountTypes ==
    ASSUME NEW c \in Counts
    PROVE  /\ c.frames < MaxFrames => [c EXCEPT !.frames = @ + 1] \in Counts
           /\ c.properties < MaxProperties => [c EXCEPT !.properties = @ + 1] \in Counts
           /\ c.starts < MaxStarts => [c EXCEPT !.starts = @ + 1] \in Counts
<1>1. /\ c.frames \in 0..MaxFrames /\ c.properties \in 0..MaxProperties
      /\ c.starts \in 0..MaxStarts
  BY DEF Counts
<1>2. /\ c.frames < MaxFrames => c.frames + 1 \in 0..MaxFrames
      /\ c.properties < MaxProperties => c.properties + 1 \in 0..MaxProperties
      /\ c.starts < MaxStarts => c.starts + 1 \in 0..MaxStarts
  BY <1>1, Bounds
<1> QED BY <1>1, <1>2 DEF Counts

LEMMA InitTypes == Init => TypeOK
<1> SUFFICES ASSUME Init PROVE TypeOK OBVIOUS
<1>1. counts \in [frames : 0..MaxFrames, properties : 0..MaxProperties,
                  starts : 0..MaxStarts]
  BY Bounds DEF Init
<1>2. app \in AppStates /\ pump \in PumpStates
  BY DEF Init, AppStates, PumpStates
<1>3. maxId \in 0..MaxNodes /\ 0 \in Nat
  BY Bounds DEF Init
<1>4. <<>> \in Seq(Messages) /\ <<>> \in Seq(Records)
  OBVIOUS
<1> QED BY <1>1, <1>2, <1>3, <1>4, Zenon DEF TypeOK, Init

LEMMA SendTypes ==
    ASSUME normal \in Seq(Messages), NEW m \in Messages, normal' = Append(normal, m)
    PROVE  normal' \in Seq(Messages)
OBVIOUS

\* The steps of the application and of the drivers.
LEMMA CallerTypes ==
    ASSUME TypeOK, AppInv,
           Close \/ Start \/ Stop \/ AppStep
           \/ \E s \in Streams : \/ AttachStream(s) \/ DestroyStream(s)
                                 \/ StreamNewFrame(s) \/ StreamPropertyChanged(s)
                                 \/ DriverStep(s)
    PROVE  TypeOK'
<1>0. app \in AppStates /\ normal \in Seq(Messages)
  BY DEF TypeOK
<1>1. CASE Close
  <2>1. started' \in BOOLEAN /\ app' \in AppStates BY <1>1, CallTypes DEF Close
  <2> QED BY <1>1, <2>1, Zenon DEF TypeOK, Close, fileVars
<1>2. CASE Start
  <2>1. counts' \in Counts
    <3>1. counts \in Counts BY DEF TypeOK, Counts
    <3> QED BY <1>2, <3>1, CountTypes DEF Start
  <2>2. wasStarted' \in BOOLEAN /\ normal' \in Seq(Messages)
    BY <1>0, <1>2, MessageTypes DEF Start, Send
  <2> QED BY <1>2, <2>1, <2>2, Zenon DEF TypeOK, Start, fileVars, Counts
<1>3. CASE Stop
  <2>1. started' \in BOOLEAN BY <1>3 DEF Stop
  <2> QED BY <1>3, <2>1, Zenon DEF TypeOK, Stop, fileVars
<1>4. CASE LockStreams
  <2>1. app' \in AppStates
    <3> DEFINE S == {s \in app.todo : Found(s) <=> app.call # "attach"}
    <3>1. S \in SUBSET Streams BY <1>0, AppTypes
    <3>2. app.step # "idle" /\ app' = [app EXCEPT !.step = "locked", !.todo = S]
      BY <1>4 DEF LockStreams
    <3> QED BY <1>0, <3>1, <3>2, AppTypes, CallTypes, CallChanges
  <2> QED BY <1>4, <2>1, Zenon DEF TypeOK, LockStreams, fileVars
<1>5. CASE UnlockStreams
  <2>1. app' \in AppStates /\ started' \in BOOLEAN /\ normal' \in Seq(Messages)
    <3>1. app.step # "idle" BY <1>5 DEF UnlockStreams
    <3>2. CASE app.call \in {"attach", "destroyStream"}
      BY <1>0, <1>5, <3>2 DEF TypeOK, UnlockStreams, AppStates
    <3>3. CASE app.call = "close"
      BY <1>0, <1>5, <3>3, CallTypes DEF TypeOK, UnlockStreams
    <3>4. CASE app.call = "destroy"
      <4>1. normal' \in Seq(Messages)
        BY <1>0, <1>5, <3>4, MessageTypes DEF UnlockStreams, Send
      <4>2. app' \in AppStates /\ started' = started
        <5>1. app' = [app EXCEPT !.step = "join"] /\ started' = started
          BY <1>5, <3>4 DEF UnlockStreams
        <5>2. app \in Calls BY <1>0, <3>1, AppTypes
        <5> QED BY <5>1, <5>2, CallTypes, CallChanges
      <4> QED BY <4>1, <4>2 DEF TypeOK
    <3> QED BY <1>0, <3>1, <3>2, <3>3, <3>4, AppTypes
  <2> QED BY <1>5, <2>1, Zenon DEF TypeOK, UnlockStreams, fileVars
<1>6. CASE WaitForThreadExit
  <2>1. app' \in AppStates BY <1>0, <1>6, AppTypes, CallTypes, CallChanges DEF WaitForThreadExit
  <2> QED BY <1>6, <2>1, Zenon DEF TypeOK, WaitForThreadExit, fileVars
<1>7. ASSUME NEW s \in Streams, AddRecorder(s) PROVE TypeOK'
  <2>1. maxId < MaxNodes /\ maxId + 1 \in 0..MaxNodes /\ maxId + 1 \in 1..MaxNodes
    BY <1>7, Bounds, SMTT(30) DEF TypeOK, AddRecorder, AppInv
  <2>2. [node |-> maxId + 1, frameId |-> 0, added |-> 0, lastData |-> 0,
         lastProperty |-> 0, index |-> <<>>] \in Infos
    BY <2>1 DEF Infos
  <2>3. infos' \in [Streams -> Infos \cup {None}]
    BY <1>7, <2>2 DEF TypeOK, AddRecorder
  <2>4. normal' \in Seq(Messages) /\ attached' \subseteq Streams /\ maxId' \in 0..MaxNodes
    BY <1>7, <2>1, MessageTypes DEF TypeOK, AddRecorder, Send
  <2>5. app' \in AppStates
    BY <1>0, <1>7, AppTypes, CallTypes, CallChanges DEF AddRecorder
  <2> QED BY <1>7, <2>3, <2>4, <2>5, Zenon DEF TypeOK, AddRecorder, fileVars
<1>8. ASSUME NEW s \in Streams, RemoveRecorder(s) PROVE TypeOK'
  <2>1. normal' \in Seq(Messages) /\ attached' \subseteq Streams
    BY <1>8, MessageTypes DEF TypeOK, RemoveRecorder, Send
  <2>2. app' \in AppStates
    BY <1>0, <1>8, AppTypes, CallTypes, CallChanges DEF RemoveRecorder
  <2> QED BY <1>8, <2>1, <2>2, Zenon DEF TypeOK, RemoveRecorder, fileVars
<1>9. ASSUME NEW s \in Streams, AttachStream(s) PROVE TypeOK'
  <2>1. app' \in AppStates BY <1>9, CallTypes DEF AttachStream
  <2> QED BY <1>9, <2>1, Zenon DEF TypeOK, AttachStream, fileVars
<1>10. ASSUME NEW s \in Streams, DestroyStream(s) PROVE TypeOK'
  <2>1. app' \in AppStates /\ live' \subseteq Streams
    BY <1>0, <1>10, CallTypes DEF TypeOK, DestroyStream, AppStates
  <2> QED BY <1>10, <2>1, Zenon DEF TypeOK, DestroyStream, fileVars
<1>11. ASSUME NEW s \in Streams, StreamNewFrame(s) \/ StreamPropertyChanged(s) PROVE TypeOK'
  <2>1. driver' \in [Streams -> {"idle", "frame", "property"}]
    BY <1>11 DEF TypeOK, StreamNewFrame, StreamPropertyChanged
  <2>2. counts' \in Counts
    <3>1. counts \in Counts BY DEF TypeOK, Counts
    <3> QED BY <1>11, <3>1, CountTypes DEF StreamNewFrame, StreamPropertyChanged
  <2> QED
    BY <1>11, <2>1, <2>2, Zenon
    DEF TypeOK, StreamNewFrame, StreamPropertyChanged, fileVars, callerVars, Counts
<1>12. ASSUME NEW s \in Streams, RecordFrame(s) PROVE TypeOK'
  <2>1. driver' \in [Streams -> {"idle", "frame", "property"}] /\ refs' \in Nat
    BY <1>12 DEF TypeOK, RecordFrame
  <2>2. normal' \in Seq(Messages)
    BY <1>0, <1>12, MessageTypes DEF RecordFrame, Send
  <2> QED BY <1>12, <2>1, <2>2, Zenon DEF TypeOK, RecordFrame, callerVars
<1>13. ASSUME NEW s \in Streams, RecordStreamProperty(s) PROVE TypeOK'
  <2>1. driver' \in [Streams -> {"idle", "frame", "property"}]
    BY <1>13 DEF TypeOK, RecordStreamProperty
  <2>2. normal' \in Seq(Messages)
    BY <1>0, <1>13, MessageTypes, SMTT(30) DEF RecordStreamProperty, Send
  <2> QED BY <1>13, <2>1, <2>2, Zenon DEF TypeOK, RecordStreamProperty, fileVars, callerVars
<1> QED
  BY <1>1, <1>2, <1>3, <1>4, <1>5, <1>6, <1>7, <1>8, <1>9, <1>10, <1>11, <1>12, <1>13
  DEF AppStep, DriverStep

-----------------------------------------------------------------------------
(* What the recorder's thread knows when it handles a message, and what it     *)
(* writes.                                                                    *)

\* The contents of seek tables.
Tabled == Seq([pos : Nat, configuration : Nat])

\* A message of a stream that is found comes after its ATTACH, and so does START.
LEMMA AttachedBefore ==
    ASSUME TypeOK, QueueInv, MessageInv, StreamInv, pump.step = "handle",
           NEW s \in Streams, Found(s), infos[s].added = 0
    PROVE  pump.msg.type # "start" /\ (pump.msg.stream = s => pump.msg.type = "attach")
<1> DEFINE m == Message("attach", s)
<1>1. Pending(m) /\ m \in Messages /\ m.type = "attach" /\ m.stream = s
  BY MessageTypes DEF StreamInv
<1>2. ~Urgent(m)
  BY <1>1 DEF MessageInv, Due, Pending
<1>3. CASE Handled(m)
  BY <1>1, <1>3 DEF Handled
<1>4. CASE Queued(m)
  <2>1. PICK j \in DOMAIN normal : normal[j] = m BY <1>4 DEF Queued
  <2>2. MayFollow(m, pump.msg) BY <2>1 DEF QueueInv
  <2> QED BY <1>1, <2>2 DEF MayFollow
<1> QED BY <1>1, <1>2, <1>3, <1>4 DEF Pending

\* ... so that its NODE_ADDED has been written.
LEMMA Known ==
    ASSUME TypeOK, QueueInv, MessageInv, StreamInv, FileInv, NEW s \in Streams,
           About("detach", s) \/ About("record", s) \/ About("property", s)
    PROVE  /\ Found(s) /\ infos[s] \in Infos /\ infos[s].node \in 0..MaxNodes
           /\ infos[s].added \in DOMAIN file /\ file[infos[s].added].type = "added"
           /\ file[infos[s].added].node = infos[s].node
<1>1. /\ Found(s) /\ pump.step = "handle" /\ pump.msg.stream = s
      /\ pump.msg.type # "attach"
  BY DEF About, Handling
<1>2. infos[s].added # 0 BY <1>1, AttachedBefore
<1>3. infos[s].added \in Positions("added", infos[s].node) BY <1>1, <1>2 DEF FileInv
<1>4. infos[s] \in Infos BY <1>1, InfoTypes
<1>5. infos[s].node \in 0..MaxNodes BY <1>4 DEF Infos
<1> QED BY <1>1, <1>3, <1>4, <1>5 DEF Positions

LEMMA AttachWrites ==
    ASSUME TypeOK, NEW s \in Streams, OnAttach(s)
    PROVE  /\ Found(s) /\ infos[s] \in Infos
           /\ file' \in Seq(Records) /\ Len(file') = Len(file) + 2
           /\ \A p \in DOMAIN file : file'[p] = file[p]
           /\ file'[Len(file) + 1] = Record("added", infos[s].node)
           /\ file'[Len(file) + 2] = Record("property", infos[s].node)
           /\ infos'[s] \in Infos /\ infos'[s].node = infos[s].node
           /\ infos'[s].added = Len(file) + 1 /\ infos'[s].lastProperty = Len(file) + 2
           /\ infos'[s].frameId = infos[s].frameId /\ infos'[s].index = infos[s].index
           /\ infos'[s].lastData = infos[s].lastData
           /\ infos' \in [Streams -> Infos \cup {None}]
           /\ \A t \in Streams \ {s} : infos'[t] = infos[t]
<1>1. Found(s) /\ infos[s] \in Infos
  BY InfoTypes DEF OnAttach, About
<1>2. infos[s].node \in 0..MaxNodes
  BY <1>1 DEF Infos
<1>3. Record("added", infos[s].node) \in Records /\ Record("property", infos[s].node) \in Records
  BY <1>2, RecordTypes
<1>4. file \in Seq(Records) /\ Len(file) \in Nat
  BY DEF TypeOK
<1>5. /\ file' \in Seq(Records) /\ Len(file') = Len(file) + 2
      /\ \A p \in DOMAIN file : file'[p] = file[p]
      /\ file'[Len(file) + 1] = Record("added", infos[s].node)
      /\ file'[Len(file) + 2] = Record("property", infos[s].node)
  BY <1>3, <1>4, Twice DEF OnAttach
<1> DEFINE info == [infos[s] EXCEPT !.added = Len(file) + 1, !.lastProperty = Len(file) + 2]
<1>6. /\ info \in Infos /\ info.node = infos[s].node
      /\ info.added = Len(file) + 1 /\ info.lastProperty = Len(file) + 2
      /\ info.frameId = infos[s].frameId /\ info.index = infos[s].index
      /\ info.lastData = infos[s].lastData
  <2> DEFINE nodes == 1..MaxNodes
             a == Len(file) + 1
             b == Len(file) + 2
  <2>1. infos[s] \in [node : nodes, frameId : Nat, added : Nat, lastData : Nat,
                      lastProperty : Nat, index : Tabled]
    BY <1>1 DEF Infos, Tabled
  <2>2. a \in Nat /\ b \in Nat BY <1>4
  <2>3. info = [infos[s] EXCEPT !.added = a, !.lastProperty = b] OBVIOUS
  <2> HIDE DEF nodes, a, b, info
  <2>4. info \in [node : nodes, frameId : Nat, added : Nat, lastData : Nat,
                 lastProperty : Nat, index : Tabled]
    BY <2>1, <2>2, <2>3
  <2>5. /\ info.node = infos[s].node /\ info.added = a /\ info.lastProperty = b
        /\ info.frameId = infos[s].frameId /\ info.index = infos[s].index
        /\ info.lastData = infos[s].lastData
    BY <2>1, <2>3
  <2> QED BY <2>4, <2>5 DEF Infos, Tabled, nodes, a, b
<1>7. infos' = [infos EXCEPT ![s] = info] /\ infos \in [Streams -> Infos \cup {None}]
  BY DEF OnAttach, TypeOK
<1> HIDE DEF info
<1>8. /\ infos'[s] = info /\ infos' \in [Streams -> Infos \cup {None}]
      /\ \A t \in Streams \ {s} : infos'[t] = infos[t]
  BY <1>6, <1>7
<1> QED BY <1>1, <1>5, <1>6, <1>8

LEMMA DetachWrites ==
    ASSUME TypeOK, NEW s \in Streams, OnDetach(s), infos[s] \in Infos,
           infos[s].added \in DOMAIN file
    PROVE  /\ file' \in Seq(Records)
           /\ \A p \in DOMAIN file :
                /\ file'[p].type = file[p].type /\ file'[p].node = file[p].node
                /\ file'[p].index = file[p].index
                /\ p # infos[s].added => file'[p] = file[p]
           /\ file'[Len(file) + 1] = Record("removed", infos[s].node)
           /\ \/ Len(file') = Len(file) + 1 /\ file'[infos[s].added] = file[infos[s].added]
              \/ /\ Len(file') = Len(file) + 2
                 /\ file'[infos[s].added].frame = infos[s].frameId
                 /\ file'[infos[s].added].back = Len(file) + 2
                 /\ file'[Len(file) + 2].type = "table"
                 /\ file'[Len(file) + 2].node = infos[s].node
                 /\ file'[Len(file) + 2].index = infos[s].index
           /\ infos'[s] = None /\ infos' \in [Streams -> Infos \cup {None}]
           /\ \A t \in Streams \ {s} : infos'[t] = infos[t]
<1> DEFINE info    == infos[s]
           removed == Record("removed", info.node)
           table   == [Record("table", info.node) EXCEPT !.index = info.index]
           patched == [file[info.added] EXCEPT !.frame = info.frameId, !.back = SeekTablePos]
           old     == [file EXCEPT ![info.added] = patched]
<1>1. /\ info.node \in 0..MaxNodes /\ info.frameId \in Nat
      /\ info.index \in Seq([pos : Nat, configuration : Nat])
  BY DEF Infos
<1>2. file \in Seq(Records) /\ Len(file) \in Nat /\ file[info.added] \in Records
  BY DEF TypeOK
<1>3. removed \in Records
  BY <1>1, RecordTypes
<1>4. /\ table \in Records /\ table.type = "table" /\ table.node = info.node
      /\ table.index = info.index
  <2>1. Record("table", info.node) \in Records BY <1>1, RecordTypes
  <2> QED BY <1>1, <2>1, RecordTypes DEF Records
<1>5. /\ patched \in Records /\ patched.type = file[info.added].type
      /\ patched.node = file[info.added].node /\ patched.index = file[info.added].index
      /\ patched.frame = info.frameId /\ patched.back = Len(file) + 2
  <2> DEFINE T == {"added", "property", "begin", "data", "removed", "table", "end"}
  <2>1. file[info.added] \in [type : T, node : 0..MaxNodes, frame : Nat, back : Nat,
                             index : Tabled]
    BY <1>2 DEF Records, Tabled
  <2>2. SeekTablePos = Len(file) + 2 /\ SeekTablePos \in Nat
    BY <1>2 DEF SeekTablePos
  <2> HIDE DEF T
  <2>3. /\ patched \in [type : T, node : 0..MaxNodes, frame : Nat, back : Nat,
                       index : Tabled]
        /\ patched.type = file[info.added].type
        /\ patched.node = file[info.added].node /\ patched.index = file[info.added].index
        /\ patched.frame = info.frameId /\ patched.back = Len(file) + 2
    BY <1>1, <2>1, <2>2
  <2> HIDE DEF patched
  <2> QED BY <2>3 DEF Records, Tabled, T
<1> HIDE DEF removed, table, patched
<1>6. /\ old \in Seq(Records) /\ Len(old) = Len(file) /\ old[info.added] = patched
      /\ \A p \in DOMAIN file : p # info.added => old[p] = file[p]
  BY <1>2, <1>5
<1>7. /\ infos'[s] = None /\ infos' \in [Streams -> Infos \cup {None}]
      /\ \A t \in Streams \ {s} : infos'[t] = infos[t]
  BY DEF OnDetach, TypeOK
<1>8. CASE file' = Append(file, removed)
  BY <1>2, <1>3, <1>7, <1>8 DEF removed
<1>9. CASE file' = old \o <<removed, table>>
  <2> HIDE DEF old
  <2>1. /\ file' \in Seq(Records) /\ Len(file') = Len(file) + 2
        /\ \A p \in DOMAIN file : file'[p] = old[p]
        /\ file'[Len(file) + 1] = removed /\ file'[Len(file) + 2] = table
    <3>1. old \in Seq(Records) /\ removed \in Records /\ table \in Records
      BY <1>3, <1>4, <1>6
    <3>2. DOMAIN old = DOMAIN file
      BY <1>2, <1>6
    <3> HIDE DEF old
    <3>3. /\ old \o <<removed, table>> \in Seq(Records)
          /\ Len(old \o <<removed, table>>) = Len(old) + 2
          /\ \A i \in DOMAIN old : (old \o <<removed, table>>)[i] = old[i]
          /\ (old \o <<removed, table>>)[Len(old) + 1] = removed
          /\ (old \o <<removed, table>>)[Len(old) + 2] = table
      BY <3>1
    <3> QED BY <1>6, <1>9, <3>2, <3>3, Zenon
  <2>2. \A p \in DOMAIN file :
          /\ file'[p].type = file[p].type /\ file'[p].node = file[p].node
          /\ file'[p].index = file[p].index
          /\ p # infos[s].added => file'[p] = file[p]
    BY <1>5, <1>6, <2>1
  <2>3. file'[info.added] = patched
    BY <1>6, <2>1
  <2> QED BY <1>4, <1>5, <1>7, <2>1, <2>2, <2>3 DEF removed
<1> QED
  BY <1>8, <1>9 DEF OnDetach, removed, table, patched

LEMMA AppendWrites ==
    ASSUME TypeOK, NEW r \in Records, file' = Append(file, r)
    PROVE  /\ file' \in Seq(Records) /\ Len(file') = Len(file) + 1
           /\ \A p \in DOMAIN file : file'[p] = file[p]
           /\ file'[Len(file) + 1] = r
BY DEF TypeOK

LEMMA StartWrites ==
    ASSUME TypeOK, OnStart
    PROVE  /\ file' \in Seq(Records) /\ Len(file) <= Len(file')
           /\ \A p \in DOMAIN file : file'[p] = file[p]
           /\ \A p \in DOMAIN file' : p \notin DOMAIN file =>
                \E s \in Streams : Found(s) /\ file'[p] = Record("begin", infos[s].node)
           /\ \A s \in Streams : Found(s) =>
                \E p \in DOMAIN file' : file'[p] = Record("begin", infos[s].node)
<1> DEFINE S == {s \in Streams : Found(s)}
<1>1. PICK q \in Orders(S) :
        file' = file \o [i \in DOMAIN q |-> Record("begin", infos[q[i]].node)]
  BY DEF OnStart
<1> DEFINE n == Cardinality(S)
           r == [i \in DOMAIN q |-> Record("begin", infos[q[i]].node)]
<1>2. /\ n \in Nat /\ DOMAIN q = 1..n /\ \A i \in DOMAIN q : q[i] \in S
      /\ \A s \in S : \E i \in DOMAIN q : q[i] = s
  BY OrderTypes
<1>3. ASSUME NEW i \in 1..n PROVE r[i] \in Records /\ r[i] = Record("begin", infos[q[i]].node)
  <2>1. infos[q[i]] \in Infos BY <1>2, InfoTypes
  <2>2. infos[q[i]].node \in 0..MaxNodes BY <2>1 DEF Infos
  <2> QED BY <1>2, <2>2, RecordTypes
<1>4. r \in [1..n -> Records]
  BY <1>2, <1>3
<1> HIDE DEF r, n
<1>5. r \in Seq(Records) /\ Len(r) = n /\ DOMAIN r = 1..n
  BY <1>2, <1>4, Written
<1>6. file \in Seq(Records) /\ Len(file) \in Nat /\ DOMAIN file = 1..Len(file)
  BY DEF TypeOK
<1>7. /\ file' \in Seq(Records) /\ Len(file') = Len(file) + n
      /\ \A p \in DOMAIN file : file'[p] = file[p]
      /\ \A i \in 1..n : file'[Len(file) + i] = r[i]
  BY <1>1, <1>5, <1>6, Followed DEF r
<1>8. ASSUME NEW p \in DOMAIN file', p \notin DOMAIN file
      PROVE  \E s \in Streams : Found(s) /\ file'[p] = Record("begin", infos[s].node)
  <2>1. p - Len(file) \in 1..n /\ p = Len(file) + (p - Len(file))
    BY <1>2, <1>6, <1>7, <1>8
  <2>2. file'[p] = r[p - Len(file)] BY <1>7, <2>1
  <2> QED BY <1>2, <1>3, <2>1, <2>2
<1>9. ASSUME NEW s \in Streams, Found(s)
      PROVE  \E p \in DOMAIN file' : file'[p] = Record("begin", infos[s].node)
  <2>1. PICK i \in 1..n : q[i] = s BY <1>2, <1>9
  <2>2. Len(file) + i \in DOMAIN file' BY <1>2, <1>6, <1>7
  <2> QED BY <1>3, <1>7, <2>1, <2>2
<1>10. Len(file) <= Len(file')
  BY <1>2, <1>6, <1>7
<1> QED BY <1>7, <1>8, <1>9, <1>10

LEMMA PropertyWrites ==
    ASSUME TypeOK, NEW s \in Streams, OnRecordProperty(s), infos[s] \in Infos
    PROVE  /\ file' \in Seq(Records) /\ Len(file') = Len(file) + 1
           /\ \A p \in DOMAIN file : file'[p] = file[p]
           /\ file'[Len(file) + 1].type = "property"
           /\ file'[Len(file) + 1].node = infos[s].node
           /\ file'[Len(file) + 1].back = infos[s].lastProperty
           /\ infos' \in [Streams -> Infos \cup {None}] /\ infos'[s] \in Infos
           /\ infos'[s].node = infos[s].node /\ infos'[s].added = infos[s].added
           /\ infos'[s].lastProperty = Len(file) + 1
           /\ infos'[s].frameId = infos[s].frameId /\ infos'[s].index = infos[s].index
           /\ infos'[s].lastData = infos[s].lastData
           /\ \A t \in Streams \ {s} : infos'[t] = infos[t]
<1> DEFINE I == Tabled
           L == Len(file) + 1
           info == [infos[s] EXCEPT !.lastProperty = L]
           property == [Record("property", infos[s].node) EXCEPT !.back = infos[s].lastProperty]
<1>1. /\ infos[s].node \in 0..MaxNodes /\ infos[s].lastProperty \in Nat
      /\ L \in Nat
  BY DEF Infos, TypeOK
<1>2. /\ infos' = [infos EXCEPT ![s] = info] /\ infos \in [Streams -> Infos \cup {None}]
      /\ file' = Append(file, property)
  BY DEF OnRecordProperty, TypeOK
<1>3. /\ property \in Records /\ property.type = "property" /\ property.node = infos[s].node
      /\ property.back = infos[s].lastProperty
  <2>1. Record("property", infos[s].node) \in Records BY <1>1, RecordTypes
  <2> QED BY <1>1, <2>1, RecordTypes DEF Records
<1> HIDE DEF L, property
<1>4. /\ info \in Infos /\ info.node = infos[s].node /\ info.added = infos[s].added
      /\ info.lastProperty = L /\ info.frameId = infos[s].frameId
      /\ info.index = infos[s].index /\ info.lastData = infos[s].lastData
  BY <1>1 DEF Infos
<1> HIDE DEF info
<1>5. /\ infos' \in [Streams -> Infos \cup {None}] /\ infos'[s] = info
      /\ \A t \in Streams \ {s} : infos'[t] = infos[t]
  BY <1>2, <1>4
<1>6. /\ file' \in Seq(Records) /\ Len(file') = Len(file) + 1
      /\ \A p \in DOMAIN file : file'[p] = file[p]
      /\ file'[Len(file) + 1] = property
  BY <1>2, <1>3, AppendWrites
<1> QED BY <1>3, <1>4, <1>5, <1>6 DEF L

\* The three ways in which onRecord ends.
LEMMA RecordWrites ==
    ASSUME TypeOK, NEW s \in Streams, OnRecord(s), infos[s] \in Infos
    PROVE  /\ infos' \in [Streams -> Infos \cup {None}] /\ infos'[s] \in Infos
           /\ infos'[s].node = infos[s].node /\ infos'[s].added = infos[s].added
           /\ infos'[s].lastProperty = infos[s].lastProperty
           /\ infos'[s].frameId = infos[s].frameId + 1
           /\ \A t \in Streams \ {s} : infos'[t] = infos[t]
           /\ file' \in Seq(Records) /\ skipped \subseteq skipped'
           /\ \A p \in DOMAIN file : p \in DOMAIN file' /\ file'[p] = file[p]
           /\ \/ /\ Len(file') = Len(file) + 1 /\ skipped' = skipped
                 /\ file'[Len(file) + 1].type = "data"
                 /\ file'[Len(file) + 1].node = infos[s].node
                 /\ file'[Len(file) + 1].frame = infos[s].frameId + 1
                 /\ file'[Len(file) + 1].back = infos[s].lastData
                 /\ infos'[s].lastData = Len(file) + 1
                 /\ infos'[s].index = Append(infos[s].index, Entry)
              \/ file' = file /\ "compress" \in skipped'
              \/ /\ file' = file /\ "emit" \in skipped'
                 /\ infos'[s].lastData = infos[s].lastData
<1> DEFINE L == Len(file) + 1
           n == infos[s].frameId + 1
           index == Append(infos[s].index, Entry)
           nodes == 1..MaxNodes
           full == [infos[s] EXCEPT !.frameId = n, !.index = index, !.lastData = L]
           only == [infos[s] EXCEPT !.frameId = n]
           data == [Record("data", infos[s].node) EXCEPT !.frame = n, !.back = infos[s].lastData]
<1>1. /\ infos[s].node \in 0..MaxNodes /\ infos[s].lastData \in Nat
      /\ infos[s].frameId \in Nat /\ n \in Nat /\ L \in Nat /\ Len(file) \in Nat
  BY SMTT(30) DEF Infos, TypeOK
<1>2. index \in Tabled
  <2>1. Entry \in [pos : Nat, configuration : Nat] BY DEF Entry, TypeOK
  <2> QED BY <2>1 DEF Infos, Tabled
<1>3. infos[s] \in [node : nodes, frameId : Nat, added : Nat, lastData : Nat,
                    lastProperty : Nat, index : Tabled]
  BY DEF Infos, Tabled
<1>4. \/ file' = Append(file, data) /\ infos' = [infos EXCEPT ![s] = full] /\ skipped' = skipped
      \/ /\ file' = file /\ infos' = [infos EXCEPT ![s] = full]
         /\ skipped' = skipped \cup {"compress"}
      \/ file' = file /\ infos' = [infos EXCEPT ![s] = only] /\ skipped' = skipped \cup {"emit"}
  BY DEF OnRecord, Indexed
<1>5. /\ data \in Records /\ data.type = "data" /\ data.node = infos[s].node
      /\ data.frame = n /\ data.back = infos[s].lastData
  <2> DEFINE r == Record("data", infos[s].node)
             T == {"added", "property", "begin", "data", "removed", "table", "end"}
             N == 0..MaxNodes
  <2>1. r \in Records /\ r.type = "data" /\ r.node = infos[s].node
    BY <1>1, RecordTypes
  <2>2. r \in [type : T, node : N, frame : Nat, back : Nat, index : Tabled]
    BY <2>1 DEF Records, Tabled
  <2> HIDE DEF r, T, n, N
  <2>3. data = [r EXCEPT !.frame = n, !.back = infos[s].lastData] BY DEF r
  <2> HIDE DEF data
  <2>4. data \in [type : T, node : N, frame : Nat, back : Nat, index : Tabled]
    BY <1>1, <2>2, <2>3
  <2>5. data.type = r.type /\ data.node = r.node /\ data.frame = n /\ data.back = infos[s].lastData
    BY <1>1, <2>2, <2>3
  <2> QED BY <2>1, <2>4, <2>5 DEF Records, Tabled, T, N
<1> HIDE DEF L, n, index, nodes, data
<1>6. /\ full \in [node : nodes, frameId : Nat, added : Nat, lastData : Nat,
                   lastProperty : Nat, index : Tabled]
      /\ full.node = infos[s].node /\ full.added = infos[s].added /\ full.lastData = L
      /\ full.lastProperty = infos[s].lastProperty /\ full.frameId = n /\ full.index = index
  BY <1>1, <1>2, <1>3
<1>7. /\ only \in [node : nodes, frameId : Nat, added : Nat, lastData : Nat,
                   lastProperty : Nat, index : Tabled]
      /\ only.node = infos[s].node /\ only.added = infos[s].added
      /\ only.lastData = infos[s].lastData
      /\ only.lastProperty = infos[s].lastProperty /\ only.frameId = n
  BY <1>1, <1>3
<1> HIDE DEF full, only
<1>8. full \in Infos /\ only \in Infos
  BY <1>6, <1>7 DEF Infos, Tabled, nodes
<1>9. ASSUME NEW x \in {full, only}, infos' = [infos EXCEPT ![s] = x]
      PROVE  /\ infos' \in [Streams -> Infos \cup {None}] /\ infos'[s] = x
             /\ \A t \in Streams \ {s} : infos'[t] = infos[t]
  BY <1>8, <1>9 DEF TypeOK
<1>10. CASE file' = Append(file, data) /\ infos' = [infos EXCEPT ![s] = full] /\ skipped' = skipped
  <2>1. /\ file' \in Seq(Records) /\ Len(file') = Len(file) + 1
        /\ \A p \in DOMAIN file : file'[p] = file[p]
        /\ file'[Len(file) + 1] = data
    BY <1>5, <1>10, AppendWrites
  <2>2. \A p \in DOMAIN file : p \in DOMAIN file'
    BY <2>1, <1>1 DEF TypeOK
  <2> QED BY <1>5, <1>6, <1>8, <1>9, <1>10, <2>1, <2>2 DEF L, n, index
<1>11. CASE /\ file' = file /\ infos' = [infos EXCEPT ![s] = full]
            /\ skipped' = skipped \cup {"compress"}
  BY <1>6, <1>8, <1>9, <1>11 DEF n, TypeOK
<1>12. CASE file' = file /\ infos' = [infos EXCEPT ![s] = only] /\ skipped' = skipped \cup {"emit"}
  BY <1>7, <1>8, <1>9, <1>12 DEF n, TypeOK
<1> QED BY <1>4, <1>10, <1>11, <1>12

-----------------------------------------------------------------------------
(* Counting the frames on their way. *)

RecordsIn(q) == {i \in DOMAIN q : q[i].type = "record"}
One(m) == IF m.type = "record" THEN 1 ELSE 0

LEMMA CountType ==
    ASSUME NEW q \in Seq(Messages)
    PROVE  IsFiniteSet(RecordsIn(q)) /\ Cardinality(RecordsIn(q)) \in Nat
<1>1. Len(q) \in Nat /\ DOMAIN q = 1..Len(q)
  OBVIOUS
<1>2. IsFiniteSet(1..Len(q))
  BY <1>1, FS_Interval
<1>3. RecordsIn(q) \in SUBSET (1..Len(q))
  BY <1>1 DEF RecordsIn
<1> QED BY <1>2, <1>3, FS_Subset, FS_CardinalityType

LEMMA AppendCount ==
    ASSUME NEW q \in Seq(Messages), NEW m \in Messages
    PROVE  Cardinality(RecordsIn(Append(q, m))) = Cardinality(RecordsIn(q)) + One(m)
<1> DEFINE n == Len(q) + 1
           r == Append(q, m)
<1>1. /\ n \in Nat /\ DOMAIN q = 1..Len(q) /\ DOMAIN r = 1..n /\ n \notin DOMAIN q
      /\ n \in DOMAIN r /\ r[n] = m
      /\ \A i \in DOMAIN q : r[i] = q[i] /\ i \in DOMAIN r
      /\ \A i \in DOMAIN r : i = n \/ i \in DOMAIN q
  OBVIOUS
<1> HIDE DEF n, r
<1>2. CASE m.type = "record"
  <2>1. RecordsIn(r) = RecordsIn(q) \cup {n} /\ n \notin RecordsIn(q)
    BY <1>1, <1>2 DEF RecordsIn
  <2>2. Cardinality(RecordsIn(q) \cup {n}) = Cardinality(RecordsIn(q)) + 1
    BY <2>1, CountType, FS_AddElement
  <2> QED BY <1>2, <2>1, <2>2 DEF One, r
<1>3. CASE m.type # "record"
  <2>1. RecordsIn(r) = RecordsIn(q)
    BY <1>1, <1>3 DEF RecordsIn
  <2> QED BY <1>3, <2>1, CountType DEF One, r
<1> QED BY <1>2, <1>3

LEMMA TailFacts ==
    ASSUME NEW S, NEW q \in Seq(S), q # <<>>
    PROVE  /\ Head(q) = q[1] /\ Head(q) \in S /\ 1 \in DOMAIN q
           /\ Tail(q) \in Seq(S) /\ Len(q) \in Nat /\ Len(Tail(q)) \in Nat
           /\ Len(q) = Len(Tail(q)) + 1
           /\ \A i \in DOMAIN Tail(q) : i + 1 \in DOMAIN q /\ Tail(q)[i] = q[i + 1]
           /\ \A i \in DOMAIN q : i # 1 => i - 1 \in DOMAIN Tail(q) /\ Tail(q)[i - 1] = q[i]
OBVIOUS

LEMMA TailCount ==
    ASSUME NEW q \in Seq(Messages), q # <<>>
    PROVE  Cardinality(RecordsIn(q)) = Cardinality(RecordsIn(Tail(q))) + One(Head(q))
<1> DEFINE r == Tail(q)
           S == RecordsIn(r)
           T == RecordsIn(q) \ {1}
           f == [i \in S |-> i + 1]
<1>1. /\ Head(q) = q[1] /\ 1 \in DOMAIN q /\ r \in Seq(Messages)
      /\ DOMAIN r = 1..Len(r) /\ Len(r) \in Nat /\ DOMAIN q \subseteq Nat \ {0}
      /\ \A i \in DOMAIN r : i + 1 \in DOMAIN q /\ r[i] = q[i + 1]
      /\ \A i \in DOMAIN q : i # 1 => i - 1 \in DOMAIN r /\ r[i - 1] = q[i]
  BY TailFacts
<1> HIDE DEF r
<1>2. \A i \in S : i \in Nat \ {0} /\ f[i] = i + 1 /\ f[i] \in T
  BY <1>1 DEF RecordsIn
<1>3. \A j \in T : j - 1 \in S /\ f[j - 1] = j
  BY <1>1, SMTT(30) DEF RecordsIn
<1> HIDE DEF S, T
<1>4. f \in Bijection(S, T)
  <2>1. f \in [S -> T] BY <1>2
  <2>2. \A i, j \in S : f[i] = f[j] => i = j
    BY <1>2
  <2>3. \A j \in T : \E i \in S : f[i] = j
    BY <1>3
  <2> HIDE DEF f
  <2> QED BY <2>1, <2>2, <2>3 DEF Bijection, Injection, Surjection, IsInjective
<1>5. IsFiniteSet(S) /\ Cardinality(S) \in Nat
  BY <1>1, CountType DEF S
<1>6. Cardinality(T) = Cardinality(S)
  BY <1>4, <1>5, FS_Bijection DEF ExistsBijection
<1>7. Cardinality(T) = Cardinality(RecordsIn(q)) - One(Head(q))
  <2>1. 1 \in RecordsIn(q) <=> Head(q).type = "record"
    BY <1>1 DEF RecordsIn
  <2>2. IsFiniteSet(RecordsIn(q)) /\ Cardinality(RecordsIn(q)) \in Nat
    BY CountType
  <2>3. Cardinality(T) = IF 1 \in RecordsIn(q) THEN Cardinality(RecordsIn(q)) - 1
                                               ELSE Cardinality(RecordsIn(q))
    BY <2>2, FS_RemoveElement DEF T
  <2> QED BY <2>1, <2>2, <2>3 DEF One
<1>8. Cardinality(RecordsIn(q)) \in Nat /\ One(Head(q)) \in {0, 1}
  BY CountType DEF One
<1> QED BY <1>5, <1>6, <1>7, <1>8 DEF S, r

\* The references owned, by the messages that carry them.
Held == IF pump.step = "handle" THEN One(pump.msg) ELSE 0

LEMMA RefsAre ==
    NoFrameLeaks <=> /\ refs = Cardinality(RecordsIn(normal)) + Held
                     /\ pump.step = "exited" => high = <<>> /\ normal = <<>>
BY DEF NoFrameLeaks, RecordsIn, Held, One

-----------------------------------------------------------------------------
(* The recorder's thread keeps the types. *)

LEMMA PumpTypesKept ==
    ASSUME TypeOK, QueueInv, MessageInv, StreamInv, FileInv, NoFrameLeaks, PumpStep
    PROVE  TypeOK'
<1>0. /\ PumpIdle \in PumpStates /\ normal \in Seq(Messages) /\ high \in Seq(Messages)
      /\ Len(file) \in Nat
  BY DEF TypeOK, PumpStates
<1>1. CASE Pop
  <2>1. CASE high # <<>>
    <3>1. /\ Head(high) \in Messages /\ Tail(high) \in Seq(Messages)
          /\ pump' = [step |-> "handle", msg |-> Head(high)]
          /\ high' = Tail(high) /\ normal' = normal
      BY <1>0, <1>1, <2>1, TailFacts DEF Pop
    <3>2. pump' \in PumpStates BY <3>1 DEF PumpStates
    <3> QED BY <1>0, <1>1, <3>1, <3>2, Zenon DEF TypeOK, Pop, senderVars, fileVars
  <2>2. CASE high = <<>>
    <3>1. /\ Head(normal) \in Messages /\ Tail(normal) \in Seq(Messages)
          /\ pump' = [step |-> "handle", msg |-> Head(normal)]
          /\ normal' = Tail(normal) /\ high' = high
      BY <1>0, <1>1, <2>2, TailFacts DEF Pop
    <3>2. pump' \in PumpStates BY <3>1 DEF PumpStates
    <3> QED BY <1>0, <1>1, <3>1, <3>2, Zenon DEF TypeOK, Pop, senderVars, fileVars
  <2> QED BY <2>1, <2>2
<1>2. CASE Drop
  BY <1>0, <1>2, Zenon DEF TypeOK, Drop, senderVars, fileVars
<1>3. CASE NotifyAllProperties
  <2> DEFINE s == pump.msg.stream
  <2>1. s \in Streams
    BY <1>3, PumpTypes, MessageTypes DEF NotifyAllProperties, QueueInv
  <2>2. high' \in Seq(Messages)
    BY <1>0, <1>3, <2>1, MessageTypes, SMTT(30) DEF NotifyAllProperties
  <2>3. counts' \in Counts
    <3>1. counts \in Counts BY DEF TypeOK, Counts
    <3> QED BY <1>3, <3>1, CountTypes DEF NotifyAllProperties
  <2> QED
    BY <1>0, <1>3, <2>2, <2>3, Zenon
    DEF TypeOK, NotifyAllProperties, senderVars, fileVars, Counts
<1>4. CASE OnStart
  <2>1. file' \in Seq(Records) /\ started' \in BOOLEAN
    BY <1>4, StartWrites DEF OnStart
  <2> QED BY <1>0, <1>4, <2>1, Zenon DEF TypeOK, OnStart, senderVars
<1>5. CASE OnTerminate
  <2>1. Record("end", 0) \in Records BY Bounds, RecordTypes
  <2>2. file' \in Seq(Records)
    BY <1>5, <2>1, AppendWrites DEF OnTerminate
  <2>3. pump' \in PumpStates
    <3>1. pump \in [step : {"handle", "notify", "exited"}, msg : Messages]
      BY <1>5 DEF OnTerminate, TypeOK, PumpStates, PumpIdle
    <3> QED BY <1>5, <3>1 DEF OnTerminate, PumpStates
  <2> QED BY <1>5, <2>2, <2>3, Zenon DEF TypeOK, OnTerminate, senderVars
<1>6. ASSUME NEW s \in Streams, OnAttach(s) PROVE TypeOK'
  <2>1. pump' \in PumpStates
    <3>1. pump \in [step : {"handle", "notify", "exited"}, msg : Messages]
      BY <1>6 DEF OnAttach, About, Handling, TypeOK, PumpStates, PumpIdle
    <3> QED BY <1>6, <3>1 DEF OnAttach, PumpStates
  <2>2. file' \in Seq(Records) /\ infos' \in [Streams -> Infos \cup {None}]
    BY <1>6, AttachWrites
  <2> QED BY <1>6, <2>1, <2>2, Zenon DEF TypeOK, OnAttach, senderVars
<1>7. ASSUME NEW s \in Streams, OnDetach(s) PROVE TypeOK'
  <2>1. infos[s] \in Infos /\ infos[s].added \in DOMAIN file
    BY <1>7, Known DEF OnDetach
  <2>2. file' \in Seq(Records) /\ infos' \in [Streams -> Infos \cup {None}]
    BY <1>7, <2>1, DetachWrites
  <2> QED BY <1>0, <1>7, <2>2, Zenon DEF TypeOK, OnDetach, senderVars
<1>8. ASSUME NEW s \in Streams, OnRecord(s) PROVE TypeOK'
  <2>1. infos[s] \in Infos
    BY <1>8, Known DEF OnRecord
  <2>2. file' \in Seq(Records) /\ infos' \in [Streams -> Infos \cup {None}]
    BY <1>8, <2>1, RecordWrites
  <2>3. refs' \in Nat
    <3>1. refs = Cardinality(RecordsIn(normal)) + 1
      BY <1>8, RefsAre DEF OnRecord, About, Handling, Held, One
    <3> QED BY <1>0, <1>8, <3>1, CountType DEF OnRecord
  <2>4. skipped' \subseteq {"emit", "compress"}
    BY <1>8 DEF OnRecord, TypeOK
  <2> QED BY <1>0, <1>8, <2>2, <2>3, <2>4, Zenon DEF TypeOK, OnRecord, senderVars
<1>9. ASSUME NEW s \in Streams, OnRecordProperty(s) PROVE TypeOK'
  <2>1. infos[s] \in Infos
    BY <1>9, Known DEF OnRecordProperty
  <2>2. file' \in Seq(Records) /\ infos' \in [Streams -> Infos \cup {None}]
    BY <1>9, <2>1, PropertyWrites
  <2>3. configurationId' \in Nat
    BY <1>9 DEF OnRecordProperty, NextConfigurationId, TypeOK
  <2> QED BY <1>0, <1>9, <2>2, <2>3, Zenon DEF TypeOK, OnRecordProperty, senderVars
<1> QED
  BY <1>1, <1>2, <1>3, <1>4, <1>5, <1>6, <1>7, <1>8, <1>9 DEF PumpStep

-----------------------------------------------------------------------------
(* What is written stays, and entries keep their nodes. *)

LEMMA NothingAdded ==
    ASSUME TypeOK, MessageInv, NEW s \in Streams, OnAttach(s)
    PROVE  infos[s].added = 0
<1>1. Handled(pump.msg) /\ pump.msg.type = "attach" /\ pump.msg.stream = s
  BY DEF OnAttach, About, Handling, Handled
<1>2. pump.msg \in Messages /\ pump.step = "handle"
  BY PumpTypes DEF OnAttach, About, Handling
<1> QED BY <1>1, <1>2 DEF MessageInv, Due, Pending, Notifying

LEMMA RecordsStay ==
    ASSUME TypeOK, QueueInv, MessageInv, StreamInv, AppInv, FileInv, [Next]_vars
    PROVE  /\ \A p \in DOMAIN file :
                /\ p \in DOMAIN file'
                /\ file'[p].type = file[p].type /\ file'[p].node = file[p].node
                /\ file'[p].index = file[p].index
                /\ file[p].type # "added" => file'[p] = file[p]
           /\ \A s \in Streams : Found(s) /\ infos'[s] # None =>
                /\ infos'[s].node = infos[s].node
                /\ infos[s].added # 0 => infos'[s].added = infos[s].added
<1>0. DOMAIN file = 1..Len(file) /\ Len(file) \in Nat
  BY DEF TypeOK
<1>1. CASE UNCHANGED <<file, infos>>
  BY <1>1 DEF Found
<1> DEFINE Goal ==
             /\ \A p \in DOMAIN file :
                  /\ p \in DOMAIN file'
                  /\ file'[p].type = file[p].type /\ file'[p].node = file[p].node
                  /\ file'[p].index = file[p].index
                  /\ file[p].type # "added" => file'[p] = file[p]
             /\ \A s \in Streams : Found(s) /\ infos'[s] # None =>
                  /\ infos'[s].node = infos[s].node
                  /\ infos[s].added # 0 => infos'[s].added = infos[s].added
<1>2. ASSUME NEW s \in Streams, AddRecorder(s) PROVE Goal
  <2>1. file' = file /\ \A t \in Streams \ {s} : infos'[t] = infos[t]
    BY <1>2 DEF AddRecorder, fileVars, TypeOK
  <2>2. ~Found(s)
    BY <1>2 DEF AddRecorder, AppInv
  <2> QED BY <2>1, <2>2
<1>3. CASE OnStart
  <2>1. /\ file' \in Seq(Records) /\ Len(file) <= Len(file') /\ UNCHANGED infos
        /\ \A p \in DOMAIN file : file'[p] = file[p]
    BY <1>3, StartWrites DEF OnStart
  <2>2. \A p \in DOMAIN file : p \in DOMAIN file' BY <1>0, <2>1
  <2> QED BY <2>1, <2>2
<1>4. CASE OnTerminate
  <2>1. Record("end", 0) \in Records BY Bounds, RecordTypes
  <2>2. /\ file' \in Seq(Records) /\ Len(file') = Len(file) + 1 /\ UNCHANGED infos
        /\ \A p \in DOMAIN file : file'[p] = file[p]
    BY <1>4, <2>1, AppendWrites DEF OnTerminate
  <2>3. \A p \in DOMAIN file : p \in DOMAIN file' BY <1>0, <2>2
  <2> QED BY <2>2, <2>3
<1>5. ASSUME NEW s \in Streams, OnAttach(s) PROVE Goal
  <2>1. /\ file' \in Seq(Records) /\ Len(file') = Len(file) + 2
        /\ \A p \in DOMAIN file : file'[p] = file[p]
        /\ infos'[s].node = infos[s].node
        /\ \A t \in Streams \ {s} : infos'[t] = infos[t]
    BY <1>5, AttachWrites
  <2>2. \A p \in DOMAIN file : p \in DOMAIN file' BY <1>0, <2>1
  <2>3. infos[s].added = 0
    BY <1>5, NothingAdded
  <2> QED BY <2>1, <2>2, <2>3
<1>6. ASSUME NEW s \in Streams, OnDetach(s) PROVE Goal
  <2>1. infos[s] \in Infos /\ infos[s].added \in DOMAIN file /\ file[infos[s].added].type = "added"
    BY <1>6, Known DEF OnDetach
  <2>2. /\ file' \in Seq(Records) /\ Len(file) <= Len(file')
        /\ \A p \in DOMAIN file :
             /\ file'[p].type = file[p].type /\ file'[p].node = file[p].node
             /\ file'[p].index = file[p].index
             /\ p # infos[s].added => file'[p] = file[p]
        /\ infos'[s] = None /\ \A t \in Streams \ {s} : infos'[t] = infos[t]
    BY <1>0, <1>6, <2>1, DetachWrites
  <2>3. \A p \in DOMAIN file : p \in DOMAIN file' BY <1>0, <2>2
  <2> QED BY <2>1, <2>2, <2>3
<1>7. ASSUME NEW s \in Streams, OnRecord(s) PROVE Goal
  <2>1. infos[s] \in Infos BY <1>7, Known DEF OnRecord
  <2>2. /\ \A p \in DOMAIN file : p \in DOMAIN file' /\ file'[p] = file[p]
        /\ infos'[s].node = infos[s].node /\ infos'[s].added = infos[s].added
        /\ \A t \in Streams \ {s} : infos'[t] = infos[t]
    BY <1>7, <2>1, RecordWrites
  <2> QED BY <2>2
<1>8. ASSUME NEW s \in Streams, OnRecordProperty(s) PROVE Goal
  <2>1. infos[s] \in Infos BY <1>8, Known DEF OnRecordProperty
  <2>2. /\ file' \in Seq(Records) /\ Len(file') = Len(file) + 1
        /\ \A p \in DOMAIN file : file'[p] = file[p]
        /\ infos'[s].node = infos[s].node /\ infos'[s].added = infos[s].added
        /\ \A t \in Streams \ {s} : infos'[t] = infos[t]
    BY <1>8, <2>1, PropertyWrites
  <2>3. \A p \in DOMAIN file : p \in DOMAIN file' BY <1>0, <2>2
  <2> QED BY <2>2, <2>3
<1>9. CASE Close \/ Start \/ Stop \/ LockStreams \/ UnlockStreams \/ WaitForThreadExit
           \/ Pop \/ Drop \/ NotifyAllProperties \/ UNCHANGED vars
  BY <1>1, <1>9
  DEF Close, Start, Stop, LockStreams, UnlockStreams, WaitForThreadExit, Pop, Drop,
      NotifyAllProperties, fileVars, vars
<1>10. ASSUME NEW s \in Streams,
              RemoveRecorder(s) \/ AttachStream(s) \/ DestroyStream(s) \/ StreamNewFrame(s)
              \/ StreamPropertyChanged(s) \/ DriverStep(s)
       PROVE  Goal
  BY <1>1, <1>10
  DEF RemoveRecorder, AttachStream, DestroyStream, StreamNewFrame, StreamPropertyChanged,
      DriverStep, RecordFrame, RecordStreamProperty, fileVars
<1> QED
  BY <1>2, <1>3, <1>4, <1>5, <1>6, <1>7, <1>8, <1>9, <1>10 DEF Next, AppStep, PumpStep

-----------------------------------------------------------------------------
(* How the messages on their way change. *)

\* A message may be sent after those that are on their way.
LEMMA Sent ==
    ASSUME TypeOK, QueueInv, NEW n \in Messages, normal' = Append(normal, n),
           UNCHANGED <<high, pump>>,
           \A m \in Messages : Pending(m) => MayFollow(n, m)
    PROVE  /\ QueueInv' /\ pump.step # "exited" /\ Queued(n)'
           /\ \A m \in Messages : /\ Urgent(m)' <=> Urgent(m)
                                  /\ Pending(m)' <=> Pending(m) \/ m = n
<1> DEFINE k == Len(normal) + 1
<1>1. /\ normal \in Seq(Messages) /\ k \in DOMAIN normal' /\ normal'[k] = n
      /\ \A i \in DOMAIN normal : i \in DOMAIN normal' /\ normal'[i] = normal[i] /\ i < k
      /\ \A i \in DOMAIN normal' : i = k \/ i \in DOMAIN normal
      /\ DOMAIN normal' \subseteq Nat /\ k \in Nat
      /\ \A i \in DOMAIN normal : normal[i] \in Messages
  BY DEF TypeOK
<1> HIDE DEF k
<1>2. \A i \in DOMAIN normal : MayFollow(n, normal[i])
  BY <1>1 DEF Pending, Queued
<1>3. pump.step # "idle" => pump.msg \in Messages /\ MayFollow(n, pump.msg)
  BY PumpTypes DEF Pending, Handled
<1>4. \A i, j \in DOMAIN normal' : i < j => MayFollow(normal'[j], normal'[i])
  <2> SUFFICES ASSUME NEW i \in DOMAIN normal', NEW j \in DOMAIN normal', i < j
               PROVE  MayFollow(normal'[j], normal'[i])
    OBVIOUS
  <2>1. i \in DOMAIN normal BY <1>1
  <2> QED BY <1>1, <1>2, <2>1 DEF QueueInv
<1>5. pump'.step # "idle" => \A j \in DOMAIN normal' : MayFollow(normal'[j], pump'.msg)
  BY <1>1, <1>3 DEF QueueInv
<1>6. QueueInv'
  BY <1>4, <1>5 DEF QueueInv
<1>7. pump.step # "exited"
  BY <1>3 DEF QueueInv, MayFollow
<1>8. \A m \in Messages : (Queued(m)' <=> Queued(m) \/ m = n) /\ (Urgent(m)' <=> Urgent(m))
  BY <1>1 DEF Queued, Urgent
<1>9. \A m \in Messages : Handled(m)' <=> Handled(m)
  BY DEF Handled
<1> QED BY <1>6, <1>7, <1>8, <1>9 DEF Pending

LEMMA Popped ==
    ASSUME TypeOK, QueueInv, MessageInv, Pop
    PROVE  /\ QueueInv' /\ \A m \in Messages : /\ Urgent(m)' => Urgent(m)
                                               /\ Pending(m)' <=> Pending(m)
<1>0. pump = PumpIdle /\ pump.step = "idle"
  BY DEF Pop, PumpIdle
<1>1. CASE high # <<>>
  <2> DEFINE h == Head(high)
  <2>1. /\ pump' = [step |-> "handle", msg |-> h] /\ high' = Tail(high) /\ normal' = normal
    BY <1>1 DEF Pop
  <2>2. /\ h = high[1] /\ h \in Messages /\ 1 \in DOMAIN high /\ DOMAIN high \subseteq Nat
        /\ \A i \in DOMAIN high' : i + 1 \in DOMAIN high /\ high'[i] = high[i + 1]
        /\ \A i \in DOMAIN high : i # 1 => i - 1 \in DOMAIN high' /\ high'[i - 1] = high[i]
    BY <1>1, <2>1, TailFacts DEF TypeOK
  <2> HIDE DEF h
  <2>3. pump'.step = "handle" /\ pump'.msg = h
    BY <2>1
  <2>4. \A m \in Messages : /\ Urgent(m)' => Urgent(m)
                            /\ Urgent(m) => Urgent(m)' \/ m = h
    BY <2>2 DEF Urgent
  <2>5. Urgent(h) /\ Pending(h) /\ Due(h)
    BY <2>2 DEF Urgent, Pending, MessageInv
  <2>6. \A m \in Messages : Pending(m)' <=> Pending(m)
    <3>1. \A m \in Messages : Handled(m)' <=> m = h
      BY <2>3 DEF Handled
    <3>2. \A m \in Messages : ~Handled(m) /\ (Queued(m)' <=> Queued(m))
      BY <1>0, <2>1 DEF Handled, Queued
    <3> QED BY <2>4, <2>5, <3>1, <3>2 DEF Pending
  <2>7. ASSUME NEW j \in DOMAIN normal PROVE MayFollow(normal[j], h)
    <3>1. normal[j] \in Messages /\ Pending(normal[j]) /\ Due(normal[j])
      BY DEF TypeOK, Pending, Queued, MessageInv
    <3>2. h.type = "property" /\ infos[h.stream].added # 0
      BY <2>5 DEF Due
    <3>3. normal[j].type = "attach" => normal[j].stream # h.stream
      BY <1>0, <3>1, <3>2 DEF Due, Notifying
    <3> QED BY <3>2, <3>3 DEF MayFollow
  <2>8. h.type = "property"
    BY <2>5 DEF Due
  <2>9. QueueInv'
    BY <2>1, <2>3, <2>7, <2>8 DEF QueueInv
  <2> QED BY <2>4, <2>6, <2>9
<1>2. CASE high = <<>>
  <2> DEFINE h == Head(normal)
  <2>1. /\ pump' = [step |-> "handle", msg |-> h] /\ normal' = Tail(normal) /\ high' = high
        /\ normal # <<>>
    BY <1>2 DEF Pop
  <2>2. /\ h = normal[1] /\ h \in Messages /\ 1 \in DOMAIN normal
        /\ DOMAIN normal \subseteq Nat \ {0} /\ DOMAIN normal' \subseteq Nat \ {0}
        /\ \A i \in DOMAIN normal' : i + 1 \in DOMAIN normal /\ normal'[i] = normal[i + 1]
        /\ \A i \in DOMAIN normal :
             i # 1 => i - 1 \in DOMAIN normal' /\ normal'[i - 1] = normal[i]
    BY <2>1, TailFacts DEF TypeOK
  <2> HIDE DEF h
  <2>3. pump'.step = "handle" /\ pump'.msg = h
    BY <2>1
  <2>4. \A m \in Messages : /\ Queued(m)' => Queued(m)
                            /\ Queued(m) => Queued(m)' \/ m = h
    BY <2>2 DEF Queued
  <2>5. Queued(h)
    BY <2>2 DEF Queued
  <2>6. \A m \in Messages : (Pending(m)' <=> Pending(m)) /\ (Urgent(m)' => Urgent(m))
    <3>1. \A m \in Messages : Handled(m)' <=> m = h
      BY <2>3 DEF Handled
    <3>2. \A m \in Messages : ~Handled(m) /\ (Urgent(m)' <=> Urgent(m))
      BY <1>0, <2>1 DEF Handled, Urgent
    <3> QED BY <2>4, <2>5, <3>1, <3>2 DEF Pending
  <2>7. \A j \in DOMAIN normal' : MayFollow(normal'[j], h)
    BY <2>2 DEF QueueInv
  <2>8. \A i, j \in DOMAIN normal' : i < j => MayFollow(normal'[j], normal'[i])
    <3> SUFFICES ASSUME NEW i \in DOMAIN normal', NEW j \in DOMAIN normal', i < j
                 PROVE  MayFollow(normal'[j], normal'[i])
      OBVIOUS
    <3>1. i + 1 \in DOMAIN normal /\ j + 1 \in DOMAIN normal /\ i + 1 < j + 1
      BY <2>2
    <3>2. MayFollow(normal[j + 1], normal[i + 1]) BY <3>1 DEF QueueInv
    <3> QED BY <2>2, <3>2
  <2>9. high' = <<>> BY <1>2, <2>1
  <2>10. QueueInv'
    BY <2>3, <2>7, <2>8, <2>9 DEF QueueInv
  <2> QED BY <2>6, <2>10
<1> QED BY <1>1, <1>2

\* The message that was handled is gone.
LEMMA Done ==
    ASSUME TypeOK, QueueInv, pump' = PumpIdle, UNCHANGED <<high, normal>>
    PROVE  /\ QueueInv' /\ \A m \in Messages : /\ Urgent(m)' <=> Urgent(m)
                                               /\ Pending(m)' => Pending(m)
                                               /\ Pending(m) => Pending(m)' \/ Handled(m)
                                               /\ Pending(m)' => Queued(m) \/ Urgent(m)
<1>1. pump'.step = "idle"
  BY DEF PumpIdle
<1>2. QueueInv'
  BY <1>1 DEF QueueInv
<1>3. \A m \in Messages : ~Handled(m)'
  BY <1>1 DEF Handled
<1>4. \A m \in Messages : (Urgent(m)' <=> Urgent(m)) /\ (Queued(m)' <=> Queued(m))
  BY DEF Urgent, Queued
<1> QED BY <1>2, <1>3, <1>4 DEF Pending

\* A message that was on its way and still is, when the streams found stay so.
LEMMA StillDue ==
    ASSUME TypeOK, NEW m \in Messages, Due(m), Urgent(m)' => Urgent(m),
           m.type # "detach" => (Found(m.stream) => Found(m.stream)'),
           Found(m.stream) /\ Found(m.stream)' => infos'[m.stream].added = infos[m.stream].added,
           Begun(m.stream) /\ Found(m.stream)' => Begun(m.stream)',
           m.type = "attach" => (Notifying(m.stream) => Notifying(m.stream)'),
           m.type = "detach" => m.stream \notin attached', live' \subseteq live,
           Closing => Closing', wasStarted => wasStarted',
           app.step \in {"join", "closed"} => app'.step \in {"join", "closed"}
    PROVE  Due(m)'
<1>1. m.type \in {"attach", "record", "property"} => Found(m.stream) /\ Found(m.stream)'
  BY DEF Due
<1>2. m.type = "attach" => infos'[m.stream].added = 0 \/ Notifying(m.stream)'
  BY <1>1 DEF Due
<1>3. Urgent(m)' => m.type = "property" /\ infos'[m.stream].added # 0
  BY <1>1 DEF Due
<1>4. m.type = "record" => Begun(m.stream)'
  BY <1>1 DEF Due
<1>5. m.type = "detach" => m.stream \notin attached' /\ (m.stream \notin live' \/ Closing')
  BY DEF Due
<1> QED BY <1>1, <1>2, <1>3, <1>4, <1>5 DEF Due

-----------------------------------------------------------------------------
(* The messages, the streams and the calls stay in step. *)

LEMMA BegunStays ==
    ASSUME TypeOK, TalkInv, FileInv, [Next]_vars,
           NEW s \in Streams, Found(s), Found(s)', Begun(s)
    PROVE  Begun(s)'
<1>1. PICK p \in DOMAIN file : file[p].type = "begin" /\ file[p].node = infos[s].node
  BY DEF Begun
<1>2. /\ p \in DOMAIN file' /\ file'[p].type = "begin" /\ file'[p].node = infos[s].node
      /\ infos'[s].node = infos[s].node
  BY <1>1, RecordsStay DEF TalkInv, Found
<1> QED BY <1>2 DEF Begun

\* Steps that change no message and nothing in the recorder.
LEMMA QuietStep ==
    ASSUME TypeOK, TalkInv, UNCHANGED <<attached, infos, high, normal, file, pump, wasStarted>>,
           live' \subseteq live, Closing => Closing', started' => started,
           app.step \in {"join", "closed"} => app'.step \in {"join", "closed"},
           \A s \in Streams : driver'[s] # "idle" => s \in attached,
           \A s \in Streams : driver'[s] = "frame" => Begun(s), AppInv'
    PROVE  TalkInv'
<1>1. \A m \in Messages : /\ Urgent(m)' <=> Urgent(m)
                          /\ Pending(m)' <=> Pending(m)
  BY DEF Urgent, Pending, Queued, Handled
<1>2. \A s : /\ Found(s)' <=> Found(s)
             /\ Begun(s)' <=> Begun(s)
             /\ Notifying(s)' <=> Notifying(s)
  BY DEF Found, Begun, Notifying
<1>3. QueueInv' BY DEF QueueInv, TalkInv
<1>4. MessageInv'
  <2> SUFFICES ASSUME NEW m \in Messages, Pending(m)' PROVE Due(m)'
    BY DEF MessageInv
  <2>1. Due(m) BY <1>1 DEF TalkInv, MessageInv
  <2>2. m.type = "detach" => m.stream \notin attached' BY <2>1 DEF Due
  <2> QED BY <1>1, <1>2, <2>1, <2>2, StillDue
<1>5. StreamInv'
  <2> SUFFICES ASSUME NEW s \in Streams
               PROVE  /\ s \in attached' => Found(s)'
                      /\ driver'[s] # "idle" => s \in attached'
                      /\ driver'[s] = "frame" => Begun(s)'
                      /\ Notifying(s)' => infos'[s].added # 0
                      /\ Found(s)' /\ started' => Begun(s)'
                      /\ Found(s)' /\ infos'[s].added = 0 => Pending(Message("attach", s))'
    BY DEF StreamInv
  <2>1. Message("attach", s) \in Messages BY MessageTypes
  <2> QED BY <1>1, <1>2, <2>1 DEF TalkInv, StreamInv
<1>6. BeginInv'
  <2>1. \A s \in Streams : Message("attach", s) \in Messages BY MessageTypes
  <2> QED BY <1>1, <2>1 DEF BeginInv, TalkInv
<1> QED BY <1>3, <1>4, <1>5, <1>6 DEF TalkInv

LEMMA CallSteps ==
    ASSUME TypeOK, TalkInv,
           Close \/ Stop \/ LockStreams \/ WaitForThreadExit
           \/ \E s \in Streams : AttachStream(s) \/ DestroyStream(s)
    PROVE  TalkInv'
<1>0. app \in AppStates /\ attached \subseteq Streams /\ live \subseteq Streams
  BY DEF TypeOK
<1>i. AppIdle.call = "none" /\ AppIdle.step = "idle" /\ AppIdle.todo = {}
  BY DEF AppIdle
<1>s. \A s \in Streams : /\ driver[s] # "idle" => s \in attached
                         /\ driver[s] = "frame" => Begun(s)
  BY DEF TalkInv, StreamInv
<1>1. CASE Close
  <2>1. AppInv'
    BY <1>0, <1>1 DEF Close, AppInv, Closing
  <2> QED BY <1>1, <1>i, <1>s, <2>1, QuietStep DEF Close, Closing, fileVars
<1>2. CASE Stop
  <2>1. AppInv'
    BY <1>2 DEF Stop, AppInv, Closing, TalkInv, Found
  <2> QED BY <1>2, <1>i, <1>s, <2>1, QuietStep DEF Stop, Closing, fileVars
<1>3. CASE LockStreams
  <2> DEFINE todo == {s \in app.todo : Found(s) <=> app.call # "attach"}
  <2>1. /\ app' = [app EXCEPT !.step = "locked", !.todo = todo] /\ app.step = "lock"
        /\ UNCHANGED <<live, attached, infos, high, normal, started, wasStarted, maxId,
                       file, driver, pump>>
    BY <1>3 DEF LockStreams, fileVars
  <2>2. app'.call = app.call /\ app'.step = "locked" /\ app'.todo = todo
    <3> DEFINE T == SUBSET Streams
    <3>1. app \in [call : {"attach", "destroyStream", "close", "destroy"},
                  step : {"lock", "locked", "join", "closed"}, todo : T]
      BY <1>0, <2>1, AppTypes DEF Calls
    <3> HIDE DEF todo, T
    <3> QED BY <2>1, <3>1
  <2>3. \A s \in attached : s \in Streams /\ Found(s)
    BY <1>0 DEF TalkInv, StreamInv
  <2>4. app.call # "attach" /\ attached \subseteq app.todo => attached \subseteq todo
    BY <2>3
  <2>5. app.call = "attach" => \A s \in todo : ~Found(s)
    OBVIOUS
  <2>6. todo \subseteq app.todo
    OBVIOUS
  <2> HIDE DEF todo
  <2>7. AppInv'
    <3>1. app.call = "attach" => /\ ~wasStarted' /\ app'.todo \subseteq live'
                                 /\ app'.todo # {} => maxId' < MaxNodes
                                 /\ \A s \in app'.todo : ~Found(s)'
      BY <2>1, <2>2, <2>5, <2>6 DEF AppInv, TalkInv, Found
    <3>2. app.call = "destroyStream" => app'.todo \cap live' = {}
      BY <2>1, <2>2, <2>6 DEF AppInv, TalkInv
    <3>3. Closing => attached' \subseteq app'.todo
      BY <2>1, <2>2, <2>4 DEF AppInv, TalkInv, Closing
    <3> QED BY <2>1, <2>2, <3>1, <3>2, <3>3 DEF AppInv, TalkInv, Closing
  <2> QED BY <1>s, <2>1, <2>2, <2>7, QuietStep DEF Closing
<1>4. CASE WaitForThreadExit
  <2>1. /\ app' = [app EXCEPT !.step = "closed"] /\ app.step = "join"
        /\ UNCHANGED <<live, attached, infos, high, normal, started, wasStarted, maxId,
                       file, driver, pump>>
    BY <1>4 DEF WaitForThreadExit, fileVars
  <2>2. app'.call = app.call /\ app'.step = "closed"
    BY <1>0, <2>1, AppTypes, CallChanges
  <2>3. app.call = "destroy" /\ attached = {}
    BY <2>1 DEF AppInv, TalkInv
  <2>4. AppInv'
    BY <2>1, <2>2, <2>3 DEF AppInv, TalkInv, Closing
  <2> QED BY <1>s, <2>1, <2>2, <2>4, QuietStep DEF Closing
<1>5. ASSUME NEW s \in Streams, AttachStream(s) PROVE TalkInv'
  <2>1. AppInv'
    BY <1>5, <1>i DEF AttachStream, AppInv, TalkInv, Closing
  <2> QED BY <1>5, <1>i, <1>s, <2>1, QuietStep DEF AttachStream, Closing, fileVars
<1>6. ASSUME NEW s \in Streams, DestroyStream(s) PROVE TalkInv'
  <2>1. /\ app = AppIdle /\ live' = live \ {s}
        /\ app' = [call |-> "destroyStream", step |-> "lock", todo |-> {s}] \/ app' = AppIdle
        /\ UNCHANGED <<attached, infos, high, normal, started, wasStarted, maxId,
                       file, driver, pump>>
    BY <1>6 DEF DestroyStream, fileVars
  <2>2. AppInv'
    BY <2>1, <1>i DEF AppInv, TalkInv, Closing
  <2> QED BY <1>i, <1>s, <2>1, <2>2, QuietStep DEF Closing
<1> QED BY <1>1, <1>2, <1>3, <1>4, <1>5, <1>6

LEMMA DriverCalls ==
    ASSUME TypeOK, TalkInv, NEW s \in Streams, StreamNewFrame(s) \/ StreamPropertyChanged(s)
    PROVE  TalkInv'
<1>1. /\ s \in attached
      /\ \/ driver' = [driver EXCEPT ![s] = "frame"] /\ started
         \/ driver' = [driver EXCEPT ![s] = "property"]
      /\ UNCHANGED <<attached, infos, high, normal, file, pump, wasStarted, started, live, app,
                     maxId>>
  BY DEF StreamNewFrame, StreamPropertyChanged, callerVars, fileVars
<1>2. Found(s) BY <1>1 DEF TalkInv, StreamInv
<1>3. driver'[s] \in {"frame", "property"} /\ (driver'[s] = "frame" => started)
      /\ \A t \in Streams \ {s} : driver'[t] = driver[t]
  BY <1>1 DEF TypeOK
<1>4. \A t \in Streams : /\ driver'[t] # "idle" => t \in attached
                         /\ driver'[t] = "frame" => Begun(t)
  BY <1>1, <1>2, <1>3 DEF TalkInv, StreamInv
<1>5. AppInv'
  BY <1>1 DEF AppInv, TalkInv, Closing, Found
<1> QED BY <1>1, <1>4, <1>5, QuietStep DEF Closing

\* A step that sends message n, which is no ATTACH.
LEMMA SendStep ==
    ASSUME TypeOK, TalkInv, NEW n \in Messages, normal' = Append(normal, n),
           UNCHANGED <<high, pump, infos, file>>, n.type # "attach",
           \A m \in Messages : Pending(m) => MayFollow(n, m),
           Due(n)', attached' \subseteq attached, live' \subseteq live,
           Closing => Closing', wasStarted => wasStarted', started' => started,
           app.step \in {"join", "closed"} => app'.step \in {"join", "closed"},
           \A s \in Streams : driver'[s] # "idle" => s \in attached' /\ driver'[s] = driver[s],
           AppInv'
    PROVE  TalkInv' /\ pump.step # "exited"
<1>1. /\ QueueInv' /\ pump.step # "exited" /\ Queued(n)'
      /\ \A m \in Messages : /\ Urgent(m)' <=> Urgent(m)
                             /\ Pending(m)' <=> Pending(m) \/ m = n
  BY Sent DEF TalkInv
<1>2. \A s : /\ Found(s)' <=> Found(s)
             /\ Begun(s)' <=> Begun(s)
             /\ Notifying(s)' <=> Notifying(s)
  BY DEF Found, Begun, Notifying
<1>3. MessageInv'
  <2> SUFFICES ASSUME NEW m \in Messages, Pending(m)' PROVE Due(m)'
    BY DEF MessageInv
  <2>1. CASE m = n BY <2>1
  <2>2. CASE m # n
    <3>1. Due(m) BY <1>1, <2>2 DEF TalkInv, MessageInv
    <3>2. m.type = "detach" => m.stream \notin attached' BY <3>1 DEF Due
    <3> QED BY <1>1, <1>2, <3>1, <3>2, StillDue
  <2> QED BY <2>1, <2>2
<1>4. StreamInv'
  <2> SUFFICES ASSUME NEW s \in Streams
               PROVE  /\ s \in attached' => Found(s)'
                      /\ driver'[s] # "idle" => s \in attached'
                      /\ driver'[s] = "frame" => Begun(s)'
                      /\ Notifying(s)' => infos'[s].added # 0
                      /\ Found(s)' /\ started' => Begun(s)'
                      /\ Found(s)' /\ infos'[s].added = 0 => Pending(Message("attach", s))'
    BY DEF StreamInv
  <2>1. Message("attach", s) \in Messages BY MessageTypes
  <2> QED BY <1>1, <1>2, <2>1 DEF TalkInv, StreamInv
<1>5. BeginInv'
  <2>1. \A s \in Streams : /\ Message("attach", s) \in Messages
                           /\ Message("attach", s).type = "attach"
    BY MessageTypes
  <2> QED BY <1>1, <2>1 DEF BeginInv, TalkInv
<1> QED BY <1>1, <1>3, <1>4, <1>5 DEF TalkInv

\* After TERMINATE nobody sends.
LEMMA NothingAfter ==
    ASSUME TypeOK, TalkInv, NEW m \in Messages, Pending(m),
           app.step \notin {"join", "closed"} \/ attached # {}
    PROVE  m.type # "terminate" /\ Due(m)
BY DEF TalkInv, MessageInv, Due, AppInv

LEMMA SenderSteps ==
    ASSUME TypeOK, TalkInv,
           Start \/ \E s \in Streams : RemoveRecorder(s) \/ DriverStep(s)
    PROVE  TalkInv' /\ (normal' # normal => pump.step # "exited")
<1>0. app \in AppStates
  BY DEF TypeOK
<1>i. AppIdle.call = "none" /\ AppIdle.step = "idle" /\ AppIdle.todo = {}
  BY DEF AppIdle
<1>m. \A m \in Messages : m.type = "detach" => m.stream \in Streams
  BY MessageTypes
<1>1. CASE Start
  <2> DEFINE n == Message("start", None)
  <2>1. /\ n \in Messages /\ n.type = "start" /\ n.stream = None
    BY MessageTypes
  <2>2. /\ app = AppIdle /\ wasStarted' = TRUE /\ normal' = Append(normal, n)
        /\ UNCHANGED <<live, attached, infos, high, started, maxId, file, app, driver, pump>>
    BY <1>1 DEF Start, Send, fileVars
  <2>3. \A m \in Messages : Pending(m) => MayFollow(n, m)
    BY <1>i, <1>m, <2>1, <2>2, NothingAfter, NoneAssumption DEF MayFollow
  <2>4. Due(n)'
    <3>1. ~Urgent(n)'
      BY <2>1, <2>2 DEF Urgent, Due, Pending, MessageInv, TalkInv
    <3> QED BY <2>1, <2>2, <3>1 DEF Due
  <2>5. AppInv'
    BY <1>i, <2>2 DEF AppInv, TalkInv, Closing
  <2>6. \A s \in Streams : driver'[s] # "idle" => s \in attached' /\ driver'[s] = driver[s]
    BY <2>2 DEF TalkInv, StreamInv
  <2> HIDE DEF n
  <2> QED BY <2>1, <2>2, <2>3, <2>4, <2>5, <2>6, SendStep DEF Closing
<1>2. ASSUME NEW s \in Streams, RemoveRecorder(s)
      PROVE  TalkInv' /\ (normal' # normal => pump.step # "exited")
  <2> DEFINE n == Message("detach", s)
             T == SUBSET Streams
  <2>1. /\ n \in Messages /\ n.type = "detach" /\ n.stream = s
    BY MessageTypes
  <2>2. /\ app.step = "locked" /\ app.call # "attach" /\ s \in app.todo /\ driver[s] = "idle"
        /\ attached' = attached \ {s} /\ app' = [app EXCEPT !.todo = app.todo \ {s}]
        /\ normal' = Append(normal, n)
        /\ UNCHANGED <<live, infos, high, started, wasStarted, maxId, file, driver, pump>>
    BY <1>2 DEF RemoveRecorder, Send, fileVars
  <2>3. app'.call = app.call /\ app'.step = "locked" /\ app'.todo = app.todo \ {s}
    <3>1. app \in Calls BY <1>0, <2>2, AppTypes
    <3>2. app \in [call : {"attach", "destroyStream", "close", "destroy"},
                  step : {"lock", "locked", "join", "closed"}, todo : T]
      BY <3>1 DEF Calls
    <3> HIDE DEF T
    <3> QED BY <2>2, <3>2
  <2>4. app.call \in {"destroyStream", "close", "destroy"}
    BY <1>0, <2>2, AppTypes
  <2>5. \A m \in Messages : Pending(m) => MayFollow(n, m)
    BY <2>1, <2>2, NothingAfter DEF MayFollow
  <2>6. Due(n)'
    <3>1. ~Urgent(n)'
      BY <2>1, <2>2 DEF Urgent, Due, Pending, MessageInv, TalkInv
    <3>2. s \notin live' \/ Closing'
      BY <2>2, <2>3, <2>4 DEF AppInv, TalkInv, Closing
    <3> QED BY <2>1, <2>2, <3>1, <3>2 DEF Due
  <2>7. AppInv'
    BY <2>2, <2>3 DEF AppInv, TalkInv, Closing
  <2>8. \A t \in Streams : driver'[t] # "idle" => t \in attached' /\ driver'[t] = driver[t]
    BY <2>2 DEF TalkInv, StreamInv
  <2> HIDE DEF n
  <2> QED BY <2>1, <2>2, <2>3, <2>5, <2>6, <2>7, <2>8, SendStep DEF Closing
<1>3. ASSUME NEW s \in Streams, RecordFrame(s) \/ RecordStreamProperty(s)
      PROVE  TalkInv' /\ (normal' # normal => pump.step # "exited")
  <2>1. /\ driver[s] # "idle" /\ s \in attached /\ Found(s)
        /\ driver[s] = "frame" => Begun(s)
    BY <1>3 DEF RecordFrame, RecordStreamProperty, TalkInv, StreamInv
  <2>2. PICK type \in {"record", "property"} :
          /\ driver[s] = IF type = "record" THEN "frame" ELSE "property"
          /\ normal' = Append(normal, Message(type, s))
    BY <1>3, <2>1 DEF RecordFrame, RecordStreamProperty, Send
  <2> DEFINE n == Message(type, s)
  <2>3. n \in Messages /\ n.type = type /\ n.stream = s /\ n.type \in {"record", "property"}
    BY MessageTypes
  <2>4. /\ driver' = [driver EXCEPT ![s] = "idle"]
        /\ UNCHANGED <<live, attached, infos, high, started, wasStarted, maxId, file, app, pump>>
    BY <1>3 DEF RecordFrame, RecordStreamProperty, callerVars, fileVars
  <2>5. \A m \in Messages : Pending(m) => MayFollow(n, m)
    <3> SUFFICES ASSUME NEW m \in Messages, Pending(m) PROVE MayFollow(n, m) OBVIOUS
    <3>1. m.type # "terminate" /\ Due(m) BY <2>1, NothingAfter
    <3> QED BY <2>1, <2>3, <3>1 DEF MayFollow, Due
  <2>6. Due(n)'
    <3>1. Urgent(n)' => infos'[s].added # 0
      BY <2>3, <2>4 DEF Urgent, Due, Pending, MessageInv, TalkInv
    <3>2. Urgent(n)' => n.type = "property"
      BY <2>3, <2>4 DEF Urgent, Due, Pending, MessageInv, TalkInv
    <3>3. Found(s)' /\ (n.type = "record" => Begun(s)')
      BY <2>1, <2>2, <2>3, <2>4 DEF Found, Begun
    <3> QED BY <2>3, <3>1, <3>2, <3>3 DEF Due
  <2>7. AppInv'
    BY <2>4 DEF AppInv, TalkInv, Closing, Found
  <2>8. \A t \in Streams : driver'[t] # "idle" => t \in attached' /\ driver'[t] = driver[t]
    BY <2>4 DEF TalkInv, StreamInv, TypeOK
  <2> HIDE DEF n
  <2> QED BY <2>2, <2>3, <2>4, <2>5, <2>6, <2>7, <2>8, SendStep DEF Closing, n
<1> QED BY <1>1, <1>2, <1>3 DEF DriverStep

LEMMA UnlockStep ==
    ASSUME TypeOK, TalkInv, UnlockStreams
    PROVE  TalkInv' /\ (normal' # normal => pump.step # "exited")
<1>0. app \in AppStates /\ app.step = "locked" /\ app.todo = {}
  BY DEF TypeOK, UnlockStreams
<1>i. AppIdle.call = "none" /\ AppIdle.step = "idle" /\ AppIdle.todo = {}
  BY DEF AppIdle
<1>u. UNCHANGED <<live, attached, infos, high, wasStarted, maxId, file, driver, pump>>
  BY DEF UnlockStreams, fileVars
<1>s. \A s \in Streams : /\ driver[s] # "idle" => s \in attached
                         /\ driver[s] = "frame" => Begun(s)
  BY DEF TalkInv, StreamInv
<1>1. CASE app.call \in {"attach", "destroyStream"}
  <2>1. app' = AppIdle /\ UNCHANGED <<started, normal>>
    BY <1>1 DEF UnlockStreams
  <2>2. AppInv'
    BY <1>u, <1>i, <2>1 DEF AppInv, TalkInv, Closing
  <2> QED BY <1>0, <1>1, <1>i, <1>u, <1>s, <2>1, <2>2, QuietStep DEF Closing
<1>2. CASE app.call = "close"
  <2>1. /\ app' = [call |-> "destroy", step |-> "lock", todo |-> Streams] /\ ~started'
        /\ UNCHANGED normal
    BY <1>2 DEF UnlockStreams
  <2>2. AppInv'
    BY <1>u, <2>1 DEF AppInv, TalkInv, Closing, TypeOK
  <2> QED BY <1>0, <1>2, <1>u, <1>s, <2>1, <2>2, QuietStep DEF Closing
<1>3. CASE app.call = "destroy"
  <2> DEFINE n == Message("terminate", None)
  <2>1. n \in Messages /\ n.type = "terminate" /\ n.stream = None
    BY MessageTypes
  <2>2. app' = [app EXCEPT !.step = "join"] /\ started' = started /\ normal' = Append(normal, n)
    BY <1>3 DEF UnlockStreams, Send
  <2>3. app'.call = "destroy" /\ app'.step = "join"
    <3>1. app \in Calls BY <1>0, AppTypes
    <3> QED BY <1>3, <2>2, <3>1, CallChanges
  <2>4. attached = {}
    BY <1>0, <1>3 DEF TalkInv, AppInv, Closing
  <2>5. \A m \in Messages : Pending(m) => MayFollow(n, m)
    <3>1. \A m \in Messages : m.type = "detach" => m.stream \in Streams
      BY MessageTypes
    <3> QED BY <1>0, <2>1, <3>1, NothingAfter, NoneAssumption DEF MayFollow
  <2>6. Due(n)'
    <3>1. ~Urgent(n)'
      BY <1>u, <2>1, <2>2 DEF Urgent, Due, Pending, MessageInv, TalkInv
    <3> QED BY <2>1, <2>3, <3>1 DEF Due
  <2>7. AppInv'
    BY <1>u, <2>2, <2>3, <2>4 DEF AppInv, TalkInv, Closing
  <2>8. \A t \in Streams : driver'[t] # "idle" => t \in attached' /\ driver'[t] = driver[t]
    BY <1>u, <1>s
  <2> HIDE DEF n
  <2> QED BY <1>0, <1>u, <2>1, <2>2, <2>3, <2>4, <2>5, <2>6, <2>7, <2>8, SendStep DEF Closing
<1> QED BY <1>0, <1>1, <1>2, <1>3, AppTypes

\* attachStream: the stream was never attached before, so no message speaks of it.
LEMMA AddStep ==
    ASSUME TypeOK, TalkInv, NEW s \in Streams, AddRecorder(s)
    PROVE  TalkInv' /\ pump.step # "exited"
<1> DEFINE n == Message("attach", s)
<1>1. n \in Messages /\ n.type = "attach" /\ n.stream = s
  BY MessageTypes
<1>2. /\ app.step = "locked" /\ app.call = "attach" /\ s \in app.todo /\ driver[s] = "idle"
      /\ attached' = attached \cup {s} /\ app' = [app EXCEPT !.todo = {}]
      /\ normal' = Append(normal, n)
      /\ infos' = [infos EXCEPT ![s] = [node |-> maxId + 1, frameId |-> 0, added |-> 0,
                                        lastData |-> 0, lastProperty |-> 0, index |-> <<>>]]
      /\ UNCHANGED <<live, high, started, wasStarted, file, driver, pump>>
  BY DEF AddRecorder, Send, fileVars
<1>3. app'.call = "attach" /\ app'.step = "locked" /\ app'.todo = {}
  <2> DEFINE T == SUBSET Streams
  <2>1. app \in [call : {"attach", "destroyStream", "close", "destroy"},
                step : {"lock", "locked", "join", "closed"}, todo : T]
    BY <1>2, AppTypes DEF Calls, TypeOK
  <2> HIDE DEF T
  <2> QED BY <1>2, <2>1
<1>4. ~wasStarted /\ ~started /\ s \in live /\ ~Found(s) /\ ~Closing
  BY <1>2 DEF TalkInv, AppInv, Closing
<1>5. /\ infos'[s].added = 0 /\ infos'[s] # None
      /\ \A t \in Streams \ {s} : infos'[t] = infos[t]
  <2>1. infos'[s] = [node |-> maxId + 1, frameId |-> 0, added |-> 0,
                     lastData |-> 0, lastProperty |-> 0, index |-> <<>>]
    BY <1>2 DEF TypeOK
  <2>2. infos'[s] \in Infos
    <3>1. maxId + 1 \in 1..MaxNodes
      BY <1>2, Bounds, SMTT(30) DEF TypeOK, TalkInv, AppInv
    <3> QED BY <2>1, <3>1 DEF Infos
  <2>3. None \notin Infos
    BY NoneAssumption
  <2> QED BY <1>2, <2>1, <2>2, <2>3 DEF TypeOK
<1>6. ASSUME NEW m \in Messages, Pending(m)
      PROVE  /\ MayFollow(n, m) /\ Due(m) /\ m.stream # s
             /\ m.type \notin {"start", "terminate"}
  <2>1. m.type # "terminate" /\ Due(m)
    BY <1>2, <1>6, NothingAfter
  <2>2. m.type # "start" BY <1>4, <2>1 DEF Due
  <2>3. m.stream # s
    <3>1. m.type \in {"attach", "record", "property"} => m.stream # s
      BY <1>4, <2>1 DEF Due
    <3>2. m.type = "detach" => m.stream # s
      BY <1>4, <2>1 DEF Due
    <3> QED BY <2>1, <2>2, <3>1, <3>2, MessageTypes
  <2> QED BY <1>1, <2>1, <2>2, <2>3 DEF MayFollow
<1>7. /\ QueueInv' /\ pump.step # "exited" /\ Queued(n)'
      /\ \A m \in Messages : /\ Urgent(m)' <=> Urgent(m)
                             /\ Pending(m)' <=> Pending(m) \/ m = n
  BY <1>1, <1>2, <1>6, Sent DEF TalkInv
<1>8. ASSUME NEW t \in Streams, t # s
      PROVE  /\ Found(t)' <=> Found(t)
             /\ Begun(t)' <=> Begun(t)
             /\ Notifying(t)' <=> Notifying(t)
             /\ t \in attached' <=> t \in attached
             /\ infos'[t] = infos[t]
  <2>1. infos'[t] = infos[t] /\ file' = file /\ pump' = pump /\ attached' = attached \cup {s}
    BY <1>2, <1>5, <1>8
  <2> QED BY <1>8, <2>1 DEF Found, Begun, Notifying
<1>9. Found(s)' /\ ~Notifying(s)'
  <2>1. ~Notifying(s)
    <3>1. pump.step = "notify" => pump.msg \in Messages /\ Handled(pump.msg)
      BY PumpTypes DEF Handled
    <3> QED BY <3>1, <1>6 DEF Notifying, Pending
  <2> QED BY <1>2, <1>5, <2>1 DEF Found, Notifying
<1>10. MessageInv'
  <2> SUFFICES ASSUME NEW m \in Messages, Pending(m)' PROVE Due(m)'
    BY DEF MessageInv
  <2>1. CASE m = n
    <3>1. ~Urgent(n)'
      BY <1>1, <1>6, <1>7 DEF Pending
    <3> QED BY <1>1, <1>5, <1>9, <2>1, <3>1 DEF Due
  <2>2. CASE m # n
    <3>1. Pending(m) /\ Due(m) /\ m.stream # s /\ m.type # "start"
      BY <1>6, <1>7, <2>2
    <3>2. m.stream \in Streams \ {s}
      BY <1>6, <3>1, MessageTypes
    <3>3. m.type = "detach" => m.stream \notin attached'
      BY <1>8, <3>1, <3>2 DEF Due
    <3>4. ~Closing /\ app.step \notin {"join", "closed"} /\ live' = live
          /\ wasStarted' = wasStarted /\ (Urgent(m)' => Urgent(m))
      BY <1>2, <1>4, <1>7
    <3>5. /\ Found(m.stream)' <=> Found(m.stream)
          /\ Begun(m.stream)' <=> Begun(m.stream)
          /\ Notifying(m.stream)' <=> Notifying(m.stream)
          /\ infos'[m.stream].added = infos[m.stream].added
      BY <1>8, <3>2
    <3> QED
      BY <3>1, <3>3, <3>4, <3>5, StillDue
  <2> QED BY <2>1, <2>2
<1>11. StreamInv'
  <2> SUFFICES ASSUME NEW t \in Streams
               PROVE  /\ t \in attached' => Found(t)'
                      /\ driver'[t] # "idle" => t \in attached'
                      /\ driver'[t] = "frame" => Begun(t)'
                      /\ Notifying(t)' => infos'[t].added # 0
                      /\ Found(t)' /\ started' => Begun(t)'
                      /\ Found(t)' /\ infos'[t].added = 0 => Pending(Message("attach", t))'
    BY DEF StreamInv
  <2>1. Message("attach", t) \in Messages BY MessageTypes
  <2>2. CASE t = s
    BY <1>2, <1>4, <1>7, <1>9, <2>1, <2>2 DEF Pending
  <2>3. CASE t # s
    <3>1. driver' = driver /\ started' = started
      BY <1>2
    <3>2. Pending(Message("attach", t)) => Pending(Message("attach", t))'
      BY <1>7, <2>1
    <3> QED BY <1>8, <2>3, <3>1, <3>2 DEF TalkInv, StreamInv
  <2> QED BY <2>2, <2>3
<1>12. AppInv'
  BY <1>2, <1>3, <1>4 DEF AppInv, TalkInv, Closing
<1>13. BeginInv'
  BY <1>2, <1>4 DEF BeginInv, TalkInv
<1> QED BY <1>7, <1>10, <1>11, <1>12, <1>13 DEF TalkInv

LEMMA CallsKept ==
    ASSUME AppInv, UNCHANGED senderVars, started' => wasStarted,
           \A s \in Streams : Found(s)' => Found(s), app \in AppStates
    PROVE  AppInv'
<1>1. app.call = "attach" /\ app.step = "locked" =>
        \A s \in app'.todo : ~Found(s)'
  BY AppTypes DEF senderVars, AppInv
<1> QED BY <1>1 DEF AppInv, senderVars, Closing

\* The message is handled, and with it nothing is attached, begun or started.
LEMMA HandledStep ==
    ASSUME TypeOK, TalkInv, FileInv, [Next]_vars, pump.step = "handle", pump' = PumpIdle,
           UNCHANGED senderVars, UNCHANGED <<high, normal, started>>,
           \A m \in Messages :
             Pending(m)' /\ m.type \in {"attach", "record", "property"} => Found(m.stream)',
           \A s \in Streams : /\ Found(s)' => Found(s)
                              /\ Found(s)' => infos'[s].added = infos[s].added
                              /\ s \in attached => Found(s)'
                              /\ Found(s)' /\ infos[s].added = 0 => pump.msg # Message("attach", s),
           \A p \in DOMAIN file' : file'[p].type = "begin" =>
             p \in DOMAIN file /\ file[p].type = "begin"
    PROVE  TalkInv'
<1>0. UNCHANGED <<live, attached, wasStarted, maxId, app, driver>>
  BY DEF senderVars
<1>1. QueueInv' /\ \A m \in Messages : /\ Urgent(m)' <=> Urgent(m)
                                       /\ Pending(m)' => Pending(m)
                                       /\ Pending(m) => Pending(m)' \/ Handled(m)
  BY Done DEF TalkInv
<1>2. \A s \in Streams : ~Notifying(s) /\ ~Notifying(s)'
  BY DEF Notifying, PumpIdle
<1>3. ASSUME NEW s \in Streams, Found(s)', Begun(s) PROVE Begun(s)'
  BY <1>3, BegunStays
<1>4. MessageInv'
  <2> SUFFICES ASSUME NEW m \in Messages, Pending(m)' PROVE Due(m)'
    BY DEF MessageInv
  <2>1. Due(m) BY <1>1 DEF TalkInv, MessageInv
  <2>2. m.type = "detach" => m.stream \notin attached' BY <1>0, <2>1 DEF Due
  <2>3. m.type \in {"start", "terminate"} => Due(m)'
    BY <1>0, <1>1, <2>1 DEF Due
  <2>4. CASE m.stream \in Streams /\ m.type \notin {"start", "terminate"}
    <3>1. /\ m.type # "detach" => (Found(m.stream) => Found(m.stream)')
          /\ Found(m.stream) /\ Found(m.stream)' =>
               infos'[m.stream].added = infos[m.stream].added
          /\ Begun(m.stream) /\ Found(m.stream)' => Begun(m.stream)'
          /\ ~Notifying(m.stream)
      BY <1>2, <1>3, <2>4, MessageTypes
    <3>2. Closing => Closing' BY <1>0 DEF Closing
    <3> QED BY <1>0, <1>1, <2>1, <2>2, <3>1, <3>2, StillDue
  <2> QED BY <2>3, <2>4, MessageTypes
<1>5. StreamInv'
  <2> SUFFICES ASSUME NEW s \in Streams
               PROVE  /\ s \in attached' => Found(s)'
                      /\ driver'[s] # "idle" => s \in attached'
                      /\ driver'[s] = "frame" => Begun(s)'
                      /\ Notifying(s)' => infos'[s].added # 0
                      /\ Found(s)' /\ started' => Begun(s)'
                      /\ Found(s)' /\ infos'[s].added = 0 => Pending(Message("attach", s))'
    BY DEF StreamInv
  <2>1. /\ s \in attached => Found(s) /\ Found(s)'
        /\ driver[s] # "idle" => s \in attached
        /\ driver[s] = "frame" => Begun(s)
        /\ Found(s) /\ started => Begun(s)
        /\ Found(s) /\ infos[s].added = 0 => Pending(Message("attach", s))
    BY DEF TalkInv, StreamInv
  <2>2. Begun(s) /\ Found(s)' => Begun(s)'
    BY <1>3
  <2>3. Found(s)' /\ infos'[s].added = 0 => Pending(Message("attach", s))'
    <3>1. Message("attach", s) \in Messages BY MessageTypes
    <3>2. Handled(Message("attach", s)) => pump.msg = Message("attach", s) BY DEF Handled
    <3>3. Found(s)' => Found(s) /\ infos'[s].added = infos[s].added
                       /\ (infos[s].added = 0 => pump.msg # Message("attach", s))
      OBVIOUS
    <3> QED BY <1>1, <2>1, <3>1, <3>2, <3>3
  <2>4. driver' = driver /\ attached' = attached /\ started' = started /\ ~Notifying(s)'
    BY <1>0, <1>2
  <2> QED BY <2>1, <2>2, <2>3, <2>4
<1>6. BeginInv'
  <2>1. \A s \in Streams : Message("attach", s) \in Messages BY MessageTypes
  <2> QED BY <1>0, <1>1, <2>1 DEF BeginInv, TalkInv
<1>7. AppInv'
  <2>1. started' => wasStarted BY DEF TalkInv, AppInv
  <2> QED BY <2>1, CallsKept DEF TalkInv, TypeOK
<1> QED BY <1>1, <1>4, <1>5, <1>6, <1>7 DEF TalkInv

LEMMA MessageSteps ==
    ASSUME TypeOK, TalkInv, FileInv, [Next]_vars,
           Drop \/ \E s \in Streams : OnDetach(s) \/ OnRecord(s) \/ OnRecordProperty(s)
    PROVE  TalkInv'
<1>t. \A s \in Streams : Message("attach", s).type = "attach" /\ Message("attach", s).stream = s
  BY MessageTypes
<1>d. ASSUME NEW m \in Messages, Pending(m), m.type \in {"attach", "record", "property"}
      PROVE  Found(m.stream) /\ m.stream \in Streams
  BY <1>d, MessageTypes DEF TalkInv, MessageInv, Due
<1>s. \A s \in Streams : s \in attached => Found(s)
  BY DEF TalkInv, StreamInv
<1>p. \A m \in Messages : pump' = PumpIdle /\ UNCHANGED <<high, normal>> /\ Pending(m)' =>
        Pending(m) /\ (Queued(m) \/ Urgent(m))
  BY Done DEF TalkInv
<1>n. DOMAIN file = 1..Len(file) /\ Len(file) \in Nat
  BY DEF TypeOK
<1>1. CASE Drop
  <2>1. /\ pump.step = "handle" /\ pump' = PumpIdle /\ UNCHANGED senderVars
        /\ UNCHANGED <<high, normal, started, infos, file>>
        /\ ~Found(pump.msg.stream)
    BY <1>1 DEF Drop, Handling, fileVars
  <2>2. \A s : Found(s)' <=> Found(s) BY <2>1 DEF Found
  <2>3. \A m \in Messages :
          Pending(m)' /\ m.type \in {"attach", "record", "property"} => Found(m.stream)'
    BY <1>d, <1>p, <2>1, <2>2
  <2>4. \A s \in Streams : /\ Found(s)' => Found(s)
                           /\ Found(s)' => infos'[s].added = infos[s].added
                           /\ s \in attached => Found(s)'
                           /\ Found(s)' /\ infos[s].added = 0 => pump.msg # Message("attach", s)
    BY <1>s, <1>t, <2>1, <2>2
  <2> QED BY <2>1, <2>3, <2>4, HandledStep
<1>2. ASSUME NEW s \in Streams, OnDetach(s) PROVE TalkInv'
  <2>1. /\ pump.step = "handle" /\ pump.msg.type = "detach" /\ pump.msg.stream = s
        /\ pump' = PumpIdle /\ UNCHANGED senderVars /\ UNCHANGED <<high, normal, started>>
    BY <1>2 DEF OnDetach, About, Handling
  <2>2. infos[s] \in Infos /\ infos[s].added \in DOMAIN file
    BY <1>2, Known DEF OnDetach, TalkInv
  <2>3. /\ infos'[s] = None /\ \A t \in Streams \ {s} : infos'[t] = infos[t]
        /\ file' \in Seq(Records)
        /\ \A p \in DOMAIN file : file'[p].type = file[p].type
        /\ file'[Len(file) + 1] = Record("removed", infos[s].node)
        /\ \/ Len(file') = Len(file) + 1
           \/ Len(file') = Len(file) + 2 /\ file'[Len(file) + 2].type = "table"
    BY <1>2, <2>2, DetachWrites
  <2>4. ~Found(s)' /\ \A t \in Streams : t # s => (Found(t)' <=> Found(t))
    BY <2>3 DEF Found
  <2>5. ASSUME NEW m \in Messages, Pending(m)', m.type \in {"attach", "record", "property"}
        PROVE  Found(m.stream)'
    <3>1. Pending(m) /\ (Queued(m) \/ Urgent(m)) BY <1>p, <2>1, <2>5
    <3>2. high = <<>> BY <2>1 DEF TalkInv, QueueInv
    <3>3. ~Urgent(m) BY <3>2 DEF Urgent
    <3>4. MayFollow(m, pump.msg) BY <2>1, <3>1, <3>3 DEF Queued, TalkInv, QueueInv
    <3>5. m.stream # s BY <2>1, <2>5, <3>4 DEF MayFollow
    <3> QED BY <1>d, <2>4, <2>5, <3>1, <3>5
  <2>6. s \notin attached
    <3>1. pump.msg \in Messages /\ Pending(pump.msg)
      BY <2>1, PumpTypes DEF Pending, Handled
    <3> QED BY <2>1, <3>1 DEF TalkInv, MessageInv, Due
  <2>7. ASSUME NEW p \in DOMAIN file', file'[p].type = "begin"
        PROVE  p \in DOMAIN file /\ file[p].type = "begin"
    <3>1. Record("removed", infos[s].node).type = "removed" BY DEF Record
    <3>2. p \in DOMAIN file \/ p = Len(file) + 1 \/ p = Len(file) + 2
      BY <1>n, <2>3
    <3>3. p = Len(file) + 2 => Len(file') = Len(file) + 2 BY <1>n, <2>3, <2>7
    <3>4. p = Len(file) + 2 => file'[p].type = "table"
      BY <1>n, <2>3, <3>3
    <3> QED BY <2>3, <2>7, <3>1, <3>2, <3>4
  <2>8. \A t \in Streams : /\ Found(t)' => Found(t)
                           /\ Found(t)' => infos'[t].added = infos[t].added
                           /\ t \in attached => Found(t)'
                           /\ Found(t)' /\ infos[t].added = 0 => pump.msg # Message("attach", t)
    BY <1>s, <1>t, <2>1, <2>3, <2>4, <2>6
  <2> QED BY <2>1, <2>5, <2>7, <2>8, HandledStep
<1>3. ASSUME NEW s \in Streams, OnRecord(s) \/ OnRecordProperty(s) PROVE TalkInv'
  <2>1. /\ pump.step = "handle" /\ pump.msg.type \in {"record", "property"}
        /\ pump' = PumpIdle /\ UNCHANGED senderVars /\ UNCHANGED <<high, normal, started>>
        /\ Found(s)
    BY <1>3 DEF OnRecord, OnRecordProperty, About, Handling
  <2>2. infos[s] \in Infos
    BY <1>3, Known DEF OnRecord, OnRecordProperty, TalkInv
  <2>3. /\ infos'[s] \in Infos /\ \A t \in Streams \ {s} : infos'[t] = infos[t]
        /\ infos'[s].added = infos[s].added
        /\ file' \in Seq(Records)
        /\ \A p \in DOMAIN file : file'[p] = file[p]
        /\ file' = file \/ (Len(file') = Len(file) + 1
                            /\ file'[Len(file) + 1].type \in {"data", "property"})
    BY <1>3, <2>2, RecordWrites, PropertyWrites
  <2>4. \A t \in Streams : Found(t)' <=> Found(t)
    BY <2>1, <2>3, NoneAssumption DEF Found
  <2>5. \A m \in Messages :
          Pending(m)' /\ m.type \in {"attach", "record", "property"} => Found(m.stream)'
    BY <1>d, <1>p, <2>1, <2>4
  <2>6. \A t \in Streams : /\ Found(t)' => Found(t)
                           /\ Found(t)' => infos'[t].added = infos[t].added
                           /\ t \in attached => Found(t)'
                           /\ Found(t)' /\ infos[t].added = 0 => pump.msg # Message("attach", t)
    BY <1>s, <1>t, <2>1, <2>3, <2>4
  <2>7. ASSUME NEW p \in DOMAIN file', file'[p].type = "begin"
        PROVE  p \in DOMAIN file /\ file[p].type = "begin"
    <3>1. p \in DOMAIN file \/ (file' # file /\ p = Len(file) + 1)
      BY <1>n, <2>3
    <3> QED BY <2>3, <2>7, <3>1
  <2> QED BY <2>1, <2>5, <2>6, <2>7, HandledStep
<1> QED BY <1>1, <1>2, <1>3

LEMMA PopStep ==
    ASSUME TypeOK, TalkInv, Pop
    PROVE  TalkInv'
<1>0. /\ pump.step = "idle" /\ pump'.step = "handle"
      /\ UNCHANGED <<live, attached, wasStarted, maxId, app, driver, started, infos, file>>
  BY DEF Pop, PumpIdle, senderVars, fileVars
<1>1. QueueInv' /\ \A m \in Messages : /\ Urgent(m)' => Urgent(m)
                                       /\ Pending(m)' <=> Pending(m)
  BY Popped DEF TalkInv
<1>2. \A s : /\ Found(s)' <=> Found(s)
             /\ Begun(s)' <=> Begun(s)
             /\ ~Notifying(s) /\ ~Notifying(s)'
  BY <1>0 DEF Found, Begun, Notifying
<1>3. MessageInv'
  <2> SUFFICES ASSUME NEW m \in Messages, Pending(m)' PROVE Due(m)'
    BY DEF MessageInv
  <2>1. Due(m) BY <1>1 DEF TalkInv, MessageInv
  <2>2. m.type = "detach" => m.stream \notin attached' BY <1>0, <2>1 DEF Due
  <2>3. Closing => Closing' BY <1>0 DEF Closing
  <2> QED BY <1>0, <1>1, <1>2, <2>1, <2>2, <2>3, StillDue
<1>4. StreamInv'
  <2> SUFFICES ASSUME NEW s \in Streams
               PROVE  /\ s \in attached' => Found(s)'
                      /\ driver'[s] # "idle" => s \in attached'
                      /\ driver'[s] = "frame" => Begun(s)'
                      /\ Notifying(s)' => infos'[s].added # 0
                      /\ Found(s)' /\ started' => Begun(s)'
                      /\ Found(s)' /\ infos'[s].added = 0 => Pending(Message("attach", s))'
    BY DEF StreamInv
  <2>1. Message("attach", s) \in Messages BY MessageTypes
  <2> QED BY <1>0, <1>1, <1>2, <2>1 DEF TalkInv, StreamInv
<1>5. BeginInv'
  <2>1. \A s \in Streams : Message("attach", s) \in Messages BY MessageTypes
  <2> QED BY <1>0, <1>1, <2>1 DEF BeginInv, TalkInv
<1>6. AppInv'
  <2>1. UNCHANGED senderVars BY DEF Pop
  <2>2. \A s \in Streams : Found(s)' => Found(s) BY <1>2
  <2>3. started' => wasStarted BY <1>0 DEF TalkInv, AppInv
  <2> QED BY <2>1, <2>2, <2>3, CallsKept DEF TalkInv, TypeOK
<1> QED BY <1>1, <1>3, <1>4, <1>5, <1>6 DEF TalkInv

\* When START is handled the NODE_ADDED of all streams are written, and no ATTACH comes.
LEMMA StartStep ==
    ASSUME TypeOK, TalkInv, FileInv, [Next]_vars, OnStart
    PROVE  TalkInv'
<1>0. /\ pump.step = "handle" /\ pump.msg.type = "start" /\ pump' = PumpIdle /\ started' = TRUE
      /\ UNCHANGED <<live, attached, wasStarted, maxId, app, driver, infos, high, normal>>
  BY DEF OnStart, Handling, senderVars
<1>1. QueueInv' /\ \A m \in Messages : /\ Urgent(m)' <=> Urgent(m)
                                       /\ Pending(m)' => Pending(m)
                                       /\ Pending(m) => Pending(m)' \/ Handled(m)
                                       /\ Pending(m)' => Queued(m) \/ Urgent(m)
  BY <1>0, Done DEF TalkInv
<1>2. wasStarted
  <2>1. pump.msg \in Messages /\ Pending(pump.msg)
    BY <1>0, PumpTypes DEF Pending, Handled
  <2> QED BY <1>0, <2>1 DEF TalkInv, MessageInv, Due
<1>3. \A s \in Streams : ~Notifying(s) /\ ~Notifying(s)' /\ (Found(s)' <=> Found(s))
  BY <1>0 DEF Notifying, PumpIdle, Found
<1>4. \A s \in Streams : Found(s) => Begun(s)' /\ infos[s].added # 0
  <2> SUFFICES ASSUME NEW s \in Streams, Found(s) PROVE Begun(s)' /\ infos[s].added # 0
    OBVIOUS
  <2>1. PICK p \in DOMAIN file' : file'[p] = Record("begin", infos[s].node)
    BY StartWrites
  <2>2. file'[p].type = "begin" /\ file'[p].node = infos'[s].node
    BY <1>0, <2>1 DEF Record
  <2>3. infos[s].added # 0
    BY <1>0, AttachedBefore DEF TalkInv
  <2> QED BY <2>2, <2>3 DEF Begun
<1>5. \A m \in Messages : Pending(m)' => m.type # "attach"
  <2> SUFFICES ASSUME NEW m \in Messages, Pending(m)' PROVE m.type # "attach"
    OBVIOUS
  <2>1. high = <<>> BY <1>0 DEF TalkInv, QueueInv
  <2>2. Queued(m) BY <1>1, <2>1 DEF Urgent
  <2>3. MayFollow(m, pump.msg) BY <1>0, <2>2 DEF Queued, TalkInv, QueueInv
  <2> QED BY <1>0, <2>3 DEF MayFollow
<1>6. MessageInv'
  <2> SUFFICES ASSUME NEW m \in Messages, Pending(m)' PROVE Due(m)'
    BY DEF MessageInv
  <2>1. Due(m) /\ m.type # "attach" BY <1>1, <1>5 DEF TalkInv, MessageInv
  <2>2. m.type = "detach" => m.stream \notin attached' BY <1>0, <2>1 DEF Due
  <2>3. Closing => Closing' BY <1>0 DEF Closing
  <2>4. Found(m.stream)' <=> Found(m.stream) BY <1>0 DEF Found
  <2>5. m.type = "record" => Begun(m.stream)' /\ m.stream \in Streams
    BY <1>4, <2>1, MessageTypes DEF Due
  <2>6. m.type \in {"record", "property"} => Found(m.stream)'
    BY <2>1, <2>4 DEF Due
  <2>7. Urgent(m)' => m.type = "property" /\ infos'[m.stream].added # 0
    BY <1>0, <1>1, <2>1 DEF Due
  <2> QED BY <1>0, <2>1, <2>2, <2>3, <2>5, <2>6, <2>7 DEF Due, Closing
<1>7. StreamInv'
  <2> SUFFICES ASSUME NEW s \in Streams
               PROVE  /\ s \in attached' => Found(s)'
                      /\ driver'[s] # "idle" => s \in attached'
                      /\ driver'[s] = "frame" => Begun(s)'
                      /\ Notifying(s)' => infos'[s].added # 0
                      /\ Found(s)' /\ started' => Begun(s)'
                      /\ Found(s)' /\ infos'[s].added = 0 => Pending(Message("attach", s))'
    BY DEF StreamInv
  <2>1. /\ s \in attached => Found(s)
        /\ driver[s] # "idle" => s \in attached
    BY DEF TalkInv, StreamInv
  <2>2. Found(s)' <=> Found(s) BY <1>3
  <2>3. Found(s) => Begun(s)' /\ infos'[s].added # 0 BY <1>0, <1>4
  <2>4. ~Notifying(s)' BY <1>3
  <2>5. driver' = driver /\ attached' = attached BY <1>0
  <2> QED BY <2>1, <2>2, <2>3, <2>4, <2>5
<1>8. BeginInv'
  <2>1. \A s \in Streams : Message("attach", s) \in Messages /\ Message("attach", s).type = "attach"
    BY MessageTypes
  <2> QED BY <1>0, <1>2, <1>5, <2>1 DEF BeginInv
<1>9. AppInv'
  <2>1. UNCHANGED senderVars BY DEF OnStart
  <2> QED BY <1>2, <1>3, <2>1, CallsKept DEF TalkInv, TypeOK
<1> QED BY <1>1, <1>6, <1>7, <1>8, <1>9 DEF TalkInv

\* The thread goes on with its message: ATTACH, until the properties are notified, or
\* TERMINATE.
LEMMA MovesOn ==
    ASSUME TypeOK, QueueInv, pump.step = "handle", NEW p \in {"notify", "exited"},
           pump' = [pump EXCEPT !.step = p], UNCHANGED <<high, normal>>,
           p = "notify" => pump.msg.type = "attach",
           p = "exited" => pump.msg.type = "terminate"
    PROVE  /\ QueueInv' /\ pump'.step = p /\ pump'.msg = pump.msg
           /\ \A m \in Messages : /\ Urgent(m)' <=> Urgent(m)
                                  /\ Pending(m)' <=> Pending(m)
<1>1. pump \in [step : {"handle", "notify", "exited"}, msg : Messages]
  BY DEF TypeOK, PumpStates, PumpIdle
<1>2. pump'.step = p /\ pump'.msg = pump.msg
  BY <1>1
<1>3. QueueInv'
  BY <1>2 DEF QueueInv
<1>4. \A m \in Messages : /\ Urgent(m)' <=> Urgent(m)
                          /\ Queued(m)' <=> Queued(m)
                          /\ Handled(m)' <=> Handled(m)
  BY <1>2 DEF Urgent, Queued, Handled
<1> QED BY <1>2, <1>3, <1>4 DEF Pending

LEMMA TerminateStep ==
    ASSUME TypeOK, TalkInv, FileInv, [Next]_vars, OnTerminate
    PROVE  TalkInv' /\ high' = <<>> /\ normal' = <<>>
<1>0. /\ pump.step = "handle" /\ pump.msg.type = "terminate"
      /\ pump' = [pump EXCEPT !.step = "exited"]
      /\ file' = Append(file, Record("end", 0))
      /\ UNCHANGED <<live, attached, wasStarted, maxId, app, driver, infos, started, high, normal>>
  BY DEF OnTerminate, senderVars
<1>1. /\ QueueInv' /\ pump'.step = "exited"
      /\ \A m \in Messages : /\ Urgent(m)' <=> Urgent(m)
                             /\ Pending(m)' <=> Pending(m)
  BY <1>0, MovesOn DEF TalkInv
<1>2. \A s : ~Notifying(s) /\ ~Notifying(s)' /\ (Found(s)' <=> Found(s))
  BY <1>0, <1>1 DEF Notifying, Found
<1>3. \A s \in Streams : Found(s) /\ Begun(s) => Begun(s)'
  BY <1>2, BegunStays
<1>4. MessageInv'
  <2> SUFFICES ASSUME NEW m \in Messages, Pending(m)' PROVE Due(m)'
    BY DEF MessageInv
  <2>1. Due(m) BY <1>1 DEF TalkInv, MessageInv
  <2>2. m.type = "detach" => m.stream \notin attached' BY <1>0, <2>1 DEF Due
  <2>3. Closing => Closing' BY <1>0 DEF Closing
  <2>4. m.type = "record" => Begun(m.stream)'
    BY <1>3, <2>1, MessageTypes DEF Due
  <2>5. m.type \in {"attach", "record", "property"} => Found(m.stream)'
    BY <1>2, <2>1 DEF Due
  <2>6. Urgent(m)' => m.type = "property" /\ infos'[m.stream].added # 0
    BY <1>0, <1>1, <2>1 DEF Due
  <2>7. m.type = "attach" => infos'[m.stream].added = 0
    BY <1>0, <1>2, <2>1 DEF Due
  <2> QED BY <1>0, <2>1, <2>2, <2>3, <2>4, <2>5, <2>6, <2>7 DEF Due, Closing
<1>5. StreamInv'
  <2> SUFFICES ASSUME NEW s \in Streams
               PROVE  /\ s \in attached' => Found(s)'
                      /\ driver'[s] # "idle" => s \in attached'
                      /\ driver'[s] = "frame" => Begun(s)'
                      /\ Notifying(s)' => infos'[s].added # 0
                      /\ Found(s)' /\ started' => Begun(s)'
                      /\ Found(s)' /\ infos'[s].added = 0 => Pending(Message("attach", s))'
    BY DEF StreamInv
  <2>1. Message("attach", s) \in Messages BY MessageTypes
  <2> QED BY <1>0, <1>1, <1>2, <1>3, <2>1 DEF TalkInv, StreamInv
<1>6. BeginInv'
  <2>1. Record("end", 0).type = "end" /\ file \in Seq(Records) BY DEF Record, TypeOK
  <2>2. \A p \in DOMAIN file' : file'[p].type = "begin" => p \in DOMAIN file /\ file[p].type = "begin"
    BY <1>0, <2>1
  <2>3. \A s \in Streams : Message("attach", s) \in Messages BY MessageTypes
  <2> QED BY <1>0, <1>1, <2>2, <2>3 DEF BeginInv, TalkInv
<1>7. AppInv'
  <2>1. UNCHANGED senderVars BY DEF OnTerminate
  <2>2. \A s \in Streams : Found(s)' => Found(s) BY <1>2
  <2>3. started' => wasStarted BY <1>0 DEF TalkInv, AppInv
  <2> QED BY <2>1, <2>2, <2>3, CallsKept DEF TalkInv, TypeOK
<1>8. high = <<>> /\ normal = <<>>
  <2>1. high = <<>> BY <1>0 DEF TalkInv, QueueInv
  <2>2. \A j \in DOMAIN normal : FALSE BY <1>0 DEF TalkInv, QueueInv, MayFollow
  <2>3. normal = <<>>
    <3>1. normal \in Seq(Messages) BY DEF TypeOK
    <3> QED BY <2>2, <3>1, TailFacts
  <2> QED BY <2>1, <2>3
<1> QED BY <1>0, <1>1, <1>4, <1>5, <1>6, <1>7, <1>8 DEF TalkInv

\* The NODE_ADDED is written; the ATTACH is kept until the properties are notified.
LEMMA AttachStep ==
    ASSUME TypeOK, TalkInv, FileInv, [Next]_vars, NEW s \in Streams, OnAttach(s)
    PROVE  TalkInv'
<1>0. /\ pump.step = "handle" /\ pump.msg.type = "attach" /\ pump.msg.stream = s /\ Found(s)
      /\ pump' = [pump EXCEPT !.step = "notify"]
      /\ UNCHANGED <<live, attached, wasStarted, maxId, app, driver, started, high, normal>>
  BY DEF OnAttach, About, Handling, senderVars
<1>1. /\ QueueInv' /\ pump'.step = "notify" /\ pump'.msg = pump.msg
      /\ \A m \in Messages : /\ Urgent(m)' <=> Urgent(m)
                             /\ Pending(m)' <=> Pending(m)
  BY <1>0, MovesOn DEF TalkInv
<1>2. /\ infos'[s] \in Infos /\ infos'[s].added # 0
      /\ \A t \in Streams \ {s} : infos'[t] = infos[t]
  <2>1. Len(file) + 1 # 0 BY DEF TypeOK
  <2> QED BY <2>1, AttachWrites
<1>3. \A t \in Streams : /\ Found(t)' <=> Found(t)
                         /\ ~Notifying(t) /\ (Notifying(t)' <=> t = s)
                         /\ t # s => infos'[t].added = infos[t].added
  BY <1>0, <1>1, <1>2, NoneAssumption DEF Notifying, Found
<1>4. \A t \in Streams : Found(t) /\ Begun(t) => Begun(t)'
  BY <1>3, BegunStays
<1>5. \A m \in Messages : ~Urgent(m)
  BY <1>0 DEF TalkInv, QueueInv, Urgent
<1>6. MessageInv'
  <2> SUFFICES ASSUME NEW m \in Messages, Pending(m)' PROVE Due(m)'
    BY DEF MessageInv
  <2>1. Due(m) BY <1>1 DEF TalkInv, MessageInv
  <2>2. m.type \in {"attach", "record", "property"} => Found(m.stream)' /\ m.stream \in Streams
    BY <1>3, <2>1, MessageTypes DEF Due
  <2>3. m.type = "record" => Begun(m.stream)'
    BY <1>4, <2>1, <2>2 DEF Due
  <2>4. m.type = "attach" => infos'[m.stream].added = 0 \/ Notifying(m.stream)'
    BY <1>3, <2>1, <2>2 DEF Due
  <2>5. ~Urgent(m)' BY <1>1, <1>5
  <2> QED BY <1>0, <2>1, <2>2, <2>3, <2>4, <2>5 DEF Due, Closing
<1>7. StreamInv'
  <2> SUFFICES ASSUME NEW t \in Streams
               PROVE  /\ t \in attached' => Found(t)'
                      /\ driver'[t] # "idle" => t \in attached'
                      /\ driver'[t] = "frame" => Begun(t)'
                      /\ Notifying(t)' => infos'[t].added # 0
                      /\ Found(t)' /\ started' => Begun(t)'
                      /\ Found(t)' /\ infos'[t].added = 0 => Pending(Message("attach", t))'
    BY DEF StreamInv
  <2>1. Message("attach", t) \in Messages BY MessageTypes
  <2>2. /\ t \in attached => Found(t)
        /\ driver[t] # "idle" => t \in attached
        /\ driver[t] = "frame" => Begun(t)
        /\ Found(t) /\ started => Begun(t)
        /\ Found(t) /\ infos[t].added = 0 => Pending(Message("attach", t))
    BY DEF TalkInv, StreamInv
  <2>3. Found(t) /\ Begun(t) => Begun(t)' BY <1>4
  <2>4. /\ Found(t)' <=> Found(t)
        /\ Notifying(t)' => t = s
        /\ t # s => infos'[t].added = infos[t].added
    BY <1>3
  <2>5. Pending(Message("attach", t))' <=> Pending(Message("attach", t)) BY <1>1, <2>1
  <2>6. driver' = driver /\ attached' = attached /\ started' = started BY <1>0
  <2> QED BY <1>2, <2>2, <2>3, <2>4, <2>5, <2>6
<1>8. BeginInv'
  <2>1. Pending(Message("attach", s))
    <3>1. pump.msg \in Messages /\ Pending(pump.msg)
      BY <1>0, PumpTypes DEF Pending, Handled
    <3>2. pump.msg = Message("attach", s)
      BY <1>0, <3>1, MessageTypes
    <3> QED BY <3>1, <3>2
  <2>2. \A p \in DOMAIN file : file[p].type # "begin"
    BY <2>1 DEF TalkInv, BeginInv
  <2>3. \A p \in DOMAIN file' : file'[p].type # "begin"
    <3>1. Record("added", infos[s].node).type = "added"
          /\ Record("property", infos[s].node).type = "property"
      BY DEF Record
    <3>2. /\ file' \in Seq(Records) /\ Len(file') = Len(file) + 2
          /\ \A p \in DOMAIN file : file'[p] = file[p]
          /\ file'[Len(file) + 1].type = "added" /\ file'[Len(file) + 2].type = "property"
      BY <3>1, AttachWrites
    <3>3. DOMAIN file = 1..Len(file) /\ Len(file) \in Nat BY DEF TypeOK
    <3>4. \A p \in DOMAIN file' : p \in DOMAIN file \/ p = Len(file) + 1 \/ p = Len(file) + 2
      BY <3>2, <3>3
    <3> QED BY <2>2, <3>2, <3>4
  <2> QED BY <2>3 DEF BeginInv
<1>9. AppInv'
  <2>1. UNCHANGED senderVars BY DEF OnAttach
  <2>2. \A t \in Streams : Found(t)' => Found(t) BY <1>3
  <2>3. started' => wasStarted BY <1>0 DEF TalkInv, AppInv
  <2> QED BY <2>1, <2>2, <2>3, CallsKept DEF TalkInv, TypeOK
<1> QED BY <1>1, <1>6, <1>7, <1>8, <1>9 DEF TalkInv

\* A property that the driver reports meanwhile is urgent: nothing else of the kind is.
LEMMA NotifyStep ==
    ASSUME TypeOK, TalkInv, FileInv, [Next]_vars, NotifyAllProperties
    PROVE  TalkInv'
<1> DEFINE s == pump.msg.stream
           n == Message("property", s)
<1>0. /\ pump.step = "notify" /\ pump.msg.type = "attach" /\ pump' = PumpIdle
      /\ UNCHANGED <<live, attached, wasStarted, maxId, app, driver, started, normal, infos,
                     file>>
      /\ high = <<>>
  BY DEF NotifyAllProperties, senderVars, fileVars, TalkInv, QueueInv
<1>1. pump.msg \in Messages /\ s \in Streams /\ Notifying(s) /\ infos[s].added # 0
  BY <1>0, PumpTypes, MessageTypes DEF Notifying, TalkInv, StreamInv
<1>2. n \in Messages /\ n.type = "property" /\ n.stream = s
  BY <1>1, MessageTypes
<1>3. high' = <<>> \/ (s \in attached /\ high' = <<n>>)
  BY <1>0 DEF NotifyAllProperties
<1> HIDE DEF n
<1>4. \A m : Urgent(m)' => m = n /\ s \in attached
  BY <1>3 DEF Urgent
<1>5. \A m \in Messages : /\ Pending(m)' => Queued(m) \/ (m = n /\ s \in attached)
                          /\ Pending(m) => Pending(m)' \/ m = pump.msg
  <2> SUFFICES ASSUME NEW m \in Messages
               PROVE  /\ Pending(m)' => Queued(m) \/ (m = n /\ s \in attached)
                      /\ Pending(m) => Pending(m)' \/ m = pump.msg
    OBVIOUS
  <2>1. ~Handled(m)' BY <1>0 DEF Handled, PumpIdle
  <2>2. ~Urgent(m) BY <1>0 DEF Urgent
  <2>3. Queued(m)' <=> Queued(m) BY <1>0 DEF Queued
  <2> QED BY <1>4, <2>1, <2>2, <2>3 DEF Pending, Handled
<1>6. \A t : /\ Found(t)' <=> Found(t)
             /\ Begun(t)' <=> Begun(t)
             /\ ~Notifying(t)'
  BY <1>0 DEF Found, Begun, Notifying, PumpIdle
<1>7. QueueInv'
  BY <1>0 DEF TalkInv, QueueInv, PumpIdle
<1>8. MessageInv'
  <2> SUFFICES ASSUME NEW m \in Messages, Pending(m)' PROVE Due(m)'
    BY DEF MessageInv
  <2>1. CASE m = n
    <3>0. m.type = "property" /\ m.stream = s BY <1>2, <2>1
    <3>1. Found(m.stream)
      <4>1. Pending(n) \/ s \in attached BY <1>2, <1>5, <2>1 DEF Pending
      <4>2. Pending(n) => Found(s) BY <1>2 DEF TalkInv, MessageInv, Due
      <4>3. s \in attached => Found(s) BY <1>1 DEF TalkInv, StreamInv
      <4> QED BY <3>0, <4>1, <4>2, <4>3
    <3>2. Found(m.stream)' BY <1>6, <3>1
    <3>3. infos'[m.stream].added # 0 BY <1>0, <1>1, <3>0
    <3> QED BY <3>0, <3>2, <3>3 DEF Due
  <2>2. CASE m # n
    <3>1. Queued(m) /\ Due(m) BY <1>5, <2>2 DEF TalkInv, MessageInv, Pending
    <3>2. MayFollow(m, pump.msg) BY <1>0, <3>1 DEF Queued, TalkInv, QueueInv
    <3>3. m.type = "attach" => m.stream # s BY <1>0, <3>2 DEF MayFollow
    <3>4. m.type = "attach" => ~Notifying(m.stream) BY <3>3 DEF Notifying
    <3>5. ~Urgent(m)' BY <1>4, <2>2
    <3>6. m.type = "detach" => m.stream \notin attached' BY <1>0, <3>1 DEF Due
    <3>7. Closing => Closing' BY <1>0 DEF Closing
    <3> QED BY <1>0, <1>6, <3>1, <3>4, <3>5, <3>6, <3>7, StillDue
  <2> QED BY <2>1, <2>2
<1>9. StreamInv'
  <2> SUFFICES ASSUME NEW t \in Streams
               PROVE  /\ t \in attached' => Found(t)'
                      /\ driver'[t] # "idle" => t \in attached'
                      /\ driver'[t] = "frame" => Begun(t)'
                      /\ Notifying(t)' => infos'[t].added # 0
                      /\ Found(t)' /\ started' => Begun(t)'
                      /\ Found(t)' /\ infos'[t].added = 0 => Pending(Message("attach", t))'
    BY DEF StreamInv
  <2>1. Message("attach", t) \in Messages /\ Message("attach", t).stream = t
    BY MessageTypes
  <2>2. infos[t].added = 0 => Message("attach", t) # pump.msg
    BY <1>1, <2>1
  <2> QED BY <1>0, <1>5, <1>6, <2>1, <2>2 DEF TalkInv, StreamInv
<1>10. BeginInv'
  <2>1. \A t \in Streams : Message("attach", t) \in Messages /\ Message("attach", t).type = "attach"
    BY MessageTypes
  <2>2. \A t \in Streams : Pending(Message("attach", t))' => Pending(Message("attach", t))
    BY <1>2, <1>5, <2>1 DEF Pending
  <2> QED BY <1>0, <2>2 DEF BeginInv, TalkInv
<1>11. AppInv'
  <2>1. UNCHANGED senderVars BY DEF NotifyAllProperties
  <2>2. \A t \in Streams : Found(t)' => Found(t) BY <1>6
  <2>3. started' => wasStarted BY <1>0 DEF TalkInv, AppInv
  <2> QED BY <2>1, <2>2, <2>3, CallsKept DEF TalkInv, TypeOK
<1> QED BY <1>7, <1>8, <1>9, <1>10, <1>11 DEF TalkInv

LEMMA TalkKept ==
    ASSUME TypeOK, TalkInv, FileInv, [Next]_vars
    PROVE  TalkInv'
<1>1. CASE UNCHANGED vars
  <2>1. AppInv' /\ \A s \in Streams : /\ driver'[s] # "idle" => s \in attached
                                      /\ driver'[s] = "frame" => Begun(s)
    BY <1>1 DEF vars, TalkInv, StreamInv, AppInv, Closing, Found
  <2>2. /\ UNCHANGED <<attached, infos, high, normal, file, pump, wasStarted>>
        /\ live' = live /\ app' = app /\ started' = started
    BY <1>1 DEF vars
  <2> QED BY <2>1, <2>2, QuietStep DEF Closing
<1>2. CASE Close \/ Stop \/ LockStreams \/ WaitForThreadExit
           \/ \E s \in Streams : AttachStream(s) \/ DestroyStream(s)
  BY <1>2, CallSteps
<1>3. CASE \E s \in Streams : StreamNewFrame(s) \/ StreamPropertyChanged(s)
  BY <1>3, DriverCalls
<1>4. CASE Start \/ \E s \in Streams : RemoveRecorder(s) \/ DriverStep(s)
  BY <1>4, SenderSteps
<1>5. CASE UnlockStreams \/ \E s \in Streams : AddRecorder(s)
  BY <1>5, UnlockStep, AddStep
<1>6. CASE Pop \/ OnStart \/ OnTerminate \/ NotifyAllProperties
           \/ \E s \in Streams : OnAttach(s)
  BY <1>6, PopStep, StartStep, TerminateStep, NotifyStep, AttachStep
<1>7. CASE Drop \/ \E s \in Streams : OnDetach(s) \/ OnRecord(s) \/ OnRecordProperty(s)
  BY <1>7, MessageSteps
<1> QED BY <1>1, <1>2, <1>3, <1>4, <1>5, <1>6, <1>7 DEF Next, AppStep, PumpStep

-----------------------------------------------------------------------------
(* The frame references. *)

LEMMA FramesKept ==
    ASSUME TypeOK, TalkInv, FileInv, NoFrameLeaks, [Next]_vars
    PROVE  NoFrameLeaks'
<1> SUFFICES /\ refs' = Cardinality(RecordsIn(normal')) + Held'
             /\ pump'.step = "exited" => high' = <<>> /\ normal' = <<>>
  BY DEF NoFrameLeaks, RecordsIn, Held, One
<1> DEFINE Goal == /\ refs' = Cardinality(RecordsIn(normal')) + Held'
                   /\ pump'.step = "exited" => high' = <<>> /\ normal' = <<>>
           n == Cardinality(RecordsIn(normal))
<1>0. /\ refs = n + Held /\ n \in Nat /\ Held \in {0, 1}
      /\ pump.step = "exited" => high = <<>> /\ normal = <<>>
      /\ normal \in Seq(Messages) /\ high \in Seq(Messages)
  BY RefsAre, CountType DEF TypeOK, Held, One
<1>i. PumpIdle.step = "idle"
  BY DEF PumpIdle
<1>1. CASE UNCHANGED <<refs, high, normal, pump>>
  <2>1. Held' = Held BY <1>1 DEF Held, One
  <2> QED BY <1>0, <1>1, <2>1
<1>2. ASSUME NEW m \in Messages, normal' = Append(normal, m), refs' = refs + One(m),
             UNCHANGED <<high, pump>>, normal' # normal => pump.step # "exited"
      PROVE  Goal
  <2>1. Held' = Held BY <1>2 DEF Held, One
  <2>2. normal' # normal BY <1>0, <1>2
  <2>3. Cardinality(RecordsIn(normal')) = n + One(m) BY <1>0, <1>2, AppendCount
  <2>4. One(m) \in {0, 1} BY DEF One
  <2> QED BY <1>0, <1>2, <2>1, <2>2, <2>3, <2>4
<1>3. CASE Close \/ Stop \/ LockStreams \/ WaitForThreadExit \/ UNCHANGED vars
           \/ \E s \in Streams : AttachStream(s) \/ DestroyStream(s) \/ StreamNewFrame(s)
                                 \/ StreamPropertyChanged(s)
  BY <1>1, <1>3
  DEF Close, Stop, LockStreams, WaitForThreadExit, AttachStream, DestroyStream,
      StreamNewFrame, StreamPropertyChanged, fileVars, vars
<1>4. CASE Start
  <2>1. normal' # normal => pump.step # "exited" BY <1>4, SenderSteps
  <2>2. Message("start", None) \in Messages /\ One(Message("start", None)) = 0
    BY MessageTypes DEF One
  <2>3. /\ normal' = Append(normal, Message("start", None)) /\ refs' = refs
        /\ UNCHANGED <<high, pump>>
    BY <1>4 DEF Start, Send, fileVars
  <2> QED BY <1>0, <1>2, <2>1, <2>2, <2>3
<1>5. CASE UnlockStreams
  <2>1. normal' # normal => pump.step # "exited" BY <1>5, UnlockStep
  <2>2. Message("terminate", None) \in Messages /\ One(Message("terminate", None)) = 0
    BY MessageTypes DEF One
  <2>3. refs' = refs /\ UNCHANGED <<high, pump>>
    BY <1>5 DEF UnlockStreams, fileVars
  <2>4. normal' = normal \/ normal' = Append(normal, Message("terminate", None))
    <3>1. app \in AppStates /\ app.step = "locked" BY <1>5 DEF UnlockStreams, TypeOK
    <3>2. app.call \in {"attach", "destroyStream", "close", "destroy"}
      BY <3>1, AppTypes
    <3>3. CASE app.call \in {"attach", "destroyStream"} BY <1>5, <3>3 DEF UnlockStreams
    <3>4. CASE app.call = "close" BY <1>5, <3>4 DEF UnlockStreams
    <3>5. CASE app.call = "destroy" BY <1>5, <3>5 DEF UnlockStreams, Send
    <3> QED BY <3>2, <3>3, <3>4, <3>5
  <2> QED BY <1>0, <1>1, <1>2, <2>1, <2>2, <2>3, <2>4
<1>6. ASSUME NEW s \in Streams, AddRecorder(s) \/ RemoveRecorder(s) \/ DriverStep(s)
      PROVE  Goal
  <2>1. normal' # normal => pump.step # "exited" BY <1>6, AddStep, SenderSteps
  <2>2. \A type \in {"attach", "detach", "record", "property"} :
          /\ Message(type, s) \in Messages
          /\ One(Message(type, s)) = IF type = "record" THEN 1 ELSE 0
    BY MessageTypes DEF One
  <2>3. \/ normal' = Append(normal, Message("attach", s)) /\ refs' = refs
        \/ normal' = Append(normal, Message("detach", s)) /\ refs' = refs
        \/ normal' = Append(normal, Message("property", s)) /\ refs' = refs
        \/ normal' = Append(normal, Message("record", s)) /\ refs' = refs + 1
        \/ normal' = normal /\ refs' = refs
    BY <1>6 DEF AddRecorder, RemoveRecorder, DriverStep, RecordFrame, RecordStreamProperty,
                Send, fileVars
  <2>4. UNCHANGED <<high, pump>>
    BY <1>6 DEF AddRecorder, RemoveRecorder, DriverStep, RecordFrame, RecordStreamProperty
  <2> QED BY <1>0, <1>1, <1>2, <2>1, <2>2, <2>3, <2>4
<1>7. CASE Pop
  <2>0. pump.step = "idle" /\ Held = 0 /\ refs' = refs
    BY <1>7 DEF Pop, PumpIdle, Held, fileVars
  <2>1. CASE high # <<>>
    <3>1. /\ pump' = [step |-> "handle", msg |-> Head(high)] /\ normal' = normal
      BY <1>7, <2>1 DEF Pop
    <3>2. Head(high) \in Messages /\ Urgent(Head(high))
      BY <1>0, <2>1, TailFacts DEF Urgent
    <3>3. Head(high).type = "property"
      BY <3>2 DEF TalkInv, MessageInv, Due, Pending
    <3>4. pump'.step = "handle" /\ Held' = 0
      BY <3>1, <3>3 DEF Held, One
    <3> QED BY <1>0, <2>0, <3>1, <3>4
  <2>2. CASE high = <<>>
    <3>1. /\ pump' = [step |-> "handle", msg |-> Head(normal)] /\ normal' = Tail(normal)
          /\ normal # <<>>
      BY <1>7, <2>2 DEF Pop
    <3>2. pump'.step = "handle" /\ Held' = One(Head(normal))
      BY <3>1 DEF Held, One
    <3>3. n = Cardinality(RecordsIn(normal')) + One(Head(normal))
      BY <1>0, <3>1, TailCount
    <3> QED BY <1>0, <2>0, <3>2, <3>3
  <2> QED BY <2>1, <2>2
<1>8. CASE Drop
  <2>1. /\ pump.step = "handle" /\ ~Found(pump.msg.stream) /\ pump' = PumpIdle
        /\ UNCHANGED <<refs, high, normal>>
    BY <1>8 DEF Drop, Handling, fileVars
  <2>2. pump.msg \in Messages /\ Pending(pump.msg)
    BY <2>1, PumpTypes DEF Pending, Handled
  <2>3. pump.msg.type # "record"
    BY <2>1, <2>2 DEF TalkInv, MessageInv, Due
  <2>4. Held = 0 /\ Held' = 0
    BY <1>i, <2>1, <2>3 DEF Held, One
  <2> QED BY <1>0, <1>i, <2>1, <2>4
<1>9. CASE NotifyAllProperties
  <2>1. pump.step = "notify" /\ pump' = PumpIdle /\ UNCHANGED <<refs, normal>>
    BY <1>9 DEF NotifyAllProperties, fileVars
  <2>2. Held = 0 /\ Held' = 0
    BY <1>i, <2>1 DEF Held
  <2> QED BY <1>0, <1>i, <2>1, <2>2
<1>10. CASE OnStart \/ \E s \in Streams : OnDetach(s) \/ OnRecordProperty(s)
  <2>1. /\ pump.step = "handle" /\ pump.msg.type # "record" /\ pump' = PumpIdle
        /\ UNCHANGED <<refs, high, normal>>
    BY <1>10 DEF OnStart, OnDetach, OnRecordProperty, About, Handling
  <2>2. Held = 0 /\ Held' = 0
    BY <1>i, <2>1 DEF Held, One
  <2> QED BY <1>0, <1>i, <2>1, <2>2
<1>11. ASSUME NEW s \in Streams, OnAttach(s) PROVE Goal
  <2>1. /\ pump.step = "handle" /\ pump.msg.type = "attach"
        /\ pump' = [pump EXCEPT !.step = "notify"] /\ UNCHANGED <<refs, high, normal>>
    BY <1>11 DEF OnAttach, About, Handling
  <2>2. pump'.step = "notify"
    BY <2>1, MovesOn DEF TalkInv
  <2>3. Held = 0 /\ Held' = 0
    BY <2>1, <2>2 DEF Held, One
  <2> QED BY <1>0, <2>1, <2>2, <2>3
<1>12. ASSUME NEW s \in Streams, OnRecord(s) PROVE Goal
  <2>1. /\ pump.step = "handle" /\ pump.msg.type = "record" /\ pump' = PumpIdle
        /\ refs' = refs - 1 /\ UNCHANGED <<high, normal>>
    BY <1>12 DEF OnRecord, About, Handling
  <2>2. Held = 1 /\ Held' = 0
    BY <1>i, <2>1 DEF Held, One
  <2> QED BY <1>0, <1>i, <2>1, <2>2
<1>13. CASE OnTerminate
  <2>1. /\ pump.step = "handle" /\ pump.msg.type = "terminate"
        /\ pump' = [pump EXCEPT !.step = "exited"] /\ UNCHANGED <<refs, high, normal>>
    BY <1>13 DEF OnTerminate
  <2>2. pump'.step = "exited"
    BY <2>1, MovesOn DEF TalkInv
  <2>3. Held = 0 /\ Held' = 0
    BY <2>1, <2>2 DEF Held, One
  <2>4. high' = <<>> /\ normal' = <<>>
    BY <1>13, TerminateStep
  <2> QED BY <1>0, <2>1, <2>3, <2>4
<1> QED
  BY <1>3, <1>4, <1>5, <1>6, <1>7, <1>8, <1>9, <1>10, <1>11, <1>12, <1>13
  DEF Next, AppStep, PumpStep

-----------------------------------------------------------------------------
(* What a file says, and still says when it has grown.                       *)

\* File g is f with further records; only NODE_ADDED records are patched.
Grown(f, g) ==
    /\ f \in Seq(Records) /\ g \in Seq(Records) /\ Len(f) <= Len(g)
    /\ \A p \in DOMAIN f : /\ g[p].type = f[p].type /\ g[p].node = f[p].node
                           /\ g[p].index = f[p].index
                           /\ f[p].type # "added" => g[p] = f[p]

LEMMA GrownFacts ==
    ASSUME NEW f, NEW g, Grown(f, g)
    PROVE  /\ DOMAIN f \subseteq DOMAIN g /\ DOMAIN f \subseteq Nat /\ DOMAIN g \subseteq Nat
           /\ Len(f) \in Nat /\ DOMAIN f = 1..Len(f) /\ DOMAIN g = 1..Len(g)
           /\ \A p \in DOMAIN f, q \in DOMAIN g : q \notin DOMAIN f => p < q
           /\ \A p \in DOMAIN f, q \in DOMAIN g : q < p => q \in DOMAIN f
           /\ \A type, node : At(f, type, node) \subseteq At(g, type, node)
           /\ \A type, node : At(g, type, node) \cap DOMAIN f = At(f, type, node)
BY DEF Grown, At

LEMMA AtKept ==
    ASSUME NEW f, NEW g, Grown(f, g), NEW type, NEW node,
           \A p \in DOMAIN g : p \notin DOMAIN f => g[p].type # type \/ g[p].node # node
    PROVE  At(g, type, node) = At(f, type, node)
BY GrownFacts DEF At

LEMMA AtGrown ==
    ASSUME NEW f, NEW g, Grown(f, g), NEW type, NEW node, NEW n \in DOMAIN g,
           n \notin DOMAIN f, g[n].type = type, g[n].node = node,
           \A p \in DOMAIN g : p \notin DOMAIN f /\ p # n =>
               g[p].type # type \/ g[p].node # node
    PROVE  At(g, type, node) = At(f, type, node) \cup {n} /\ IsLast(n, At(g, type, node))
<1>1. At(g, type, node) = At(f, type, node) \cup {n}
  BY GrownFacts DEF At
<1>2. \A q \in At(f, type, node) : q \in DOMAIN f /\ q < n
  BY GrownFacts DEF At
<1>3. n \in Nat /\ DOMAIN f \subseteq Nat BY GrownFacts
<1> QED BY <1>1, <1>2, <1>3 DEF IsLast

\* Last is defined by IsLast.
LEMMA LastIs ==
    ASSUME NEW S \in SUBSET (Nat \ {0}), NEW n, IsLast(n, S)
    PROVE  Last(S) = n
<1>1. CASE S = {}
  BY <1>1 DEF Last, IsLast
<1>2. CASE S # {}
  <2>1. n \in S /\ \A q \in S : q <= n
    BY <1>2 DEF IsLast
  <2>2. Last(S) = CHOOSE p \in S : \A q \in S : q <= p
    BY <1>2 DEF Last
  <2>3. Last(S) \in S /\ \A q \in S : q <= Last(S)
    BY <2>1, <2>2
  <2>4. n <= Last(S) /\ Last(S) <= n /\ n \in Nat /\ Last(S) \in Nat
    BY <2>1, <2>3
  <2> QED BY <2>4
<1> QED BY <1>1, <1>2

Inside(f) ==
    \A p \in DOMAIN f :
        /\ f[p].type \in {"property", "begin", "data", "removed"} =>
             /\ \E a \in At(f, "added", f[p].node) : a < p
             /\ \A r \in At(f, "removed", f[p].node) : p <= r
        /\ f[p].type = "data" => \E b \in At(f, "begin", f[p].node) : b < p

LEMMA InsideKept ==
    ASSUME NEW f, NEW g, Grown(f, g), Inside(f),
           \A p \in DOMAIN g : p \notin DOMAIN f =>
               /\ g[p].type \in {"property", "begin", "data", "removed"} =>
                    /\ \E a \in At(g, "added", g[p].node) : a < p
                    /\ \A r \in At(g, "removed", g[p].node) : p <= r
               /\ g[p].type = "data" => \E b \in At(g, "begin", g[p].node) : b < p
    PROVE  Inside(g)
<1> SUFFICES ASSUME NEW p \in DOMAIN g
             PROVE  /\ g[p].type \in {"property", "begin", "data", "removed"} =>
                         /\ \E a \in At(g, "added", g[p].node) : a < p
                         /\ \A r \in At(g, "removed", g[p].node) : p <= r
                    /\ g[p].type = "data" => \E b \in At(g, "begin", g[p].node) : b < p
  BY DEF Inside
<1>1. CASE p \notin DOMAIN f
  BY <1>1
<1>2. CASE p \in DOMAIN f
  <2>1. g[p].type = f[p].type /\ g[p].node = f[p].node
    BY <1>2 DEF Grown
  <2>2. f[p].type \in {"property", "begin", "data", "removed"} =>
          \A r \in At(g, "removed", g[p].node) : p <= r
    <3> SUFFICES ASSUME f[p].type \in {"property", "begin", "data", "removed"},
                        NEW r \in At(g, "removed", g[p].node)
                 PROVE  p <= r
      OBVIOUS
    <3>1. CASE r \in DOMAIN f
      <4>1. r \in At(f, "removed", f[p].node) BY <2>1, <3>1, GrownFacts
      <4> QED BY <1>2, <4>1 DEF Inside
    <3>2. CASE r \notin DOMAIN f
      <4>1. r \in DOMAIN g BY DEF At
      <4>2. p < r BY <1>2, <3>2, <4>1, GrownFacts
      <4>3. p \in Nat /\ r \in Nat BY <4>1, GrownFacts
      <4> QED BY <4>2, <4>3
    <3> QED BY <3>1, <3>2
  <2>3. f[p].type \in {"property", "begin", "data", "removed"} =>
          \E a \in At(g, "added", g[p].node) : a < p
    BY <1>2, <2>1, GrownFacts DEF Inside
  <2>4. f[p].type = "data" => \E b \in At(g, "begin", g[p].node) : b < p
    BY <1>2, <2>1, GrownFacts DEF Inside
  <2> QED BY <2>1, <2>2, <2>3, <2>4
<1> QED BY <1>1, <1>2

Undone(f) ==
    \A p \in DOMAIN f : f[p].type \in {"data", "property"} =>
        f[p].back = Last({q \in At(f, f[p].type, f[p].node) : q < p})

LEMMA UndoneKept ==
    ASSUME NEW f, NEW g, Grown(f, g), Undone(f),
           \A p \in DOMAIN g : p \notin DOMAIN f /\ g[p].type \in {"data", "property"} =>
               IsLast(g[p].back, {q \in At(g, g[p].type, g[p].node) : q < p})
    PROVE  Undone(g)
<1> SUFFICES ASSUME NEW p \in DOMAIN g, g[p].type \in {"data", "property"}
             PROVE  g[p].back = Last({q \in At(g, g[p].type, g[p].node) : q < p})
  BY DEF Undone
<1>1. CASE p \notin DOMAIN f
  <2>1. {q \in At(g, g[p].type, g[p].node) : q < p} \in SUBSET (Nat \ {0})
    BY GrownFacts DEF At
  <2> QED BY <1>1, <2>1, LastIs
<1>2. CASE p \in DOMAIN f
  <2>1. g[p] = f[p]
    BY <1>2 DEF Grown
  <2>2. {q \in At(g, g[p].type, g[p].node) : q < p} = {q \in At(f, f[p].type, f[p].node) : q < p}
    <3>1. \A q \in At(g, g[p].type, g[p].node) : q < p => q \in At(f, f[p].type, f[p].node)
      <4> SUFFICES ASSUME NEW q \in At(g, g[p].type, g[p].node), q < p
                   PROVE  q \in At(f, f[p].type, f[p].node)
        OBVIOUS
      <4>1. q \in DOMAIN f BY <1>2, GrownFacts DEF At
      <4> QED BY <2>1, <4>1, GrownFacts
    <3>2. At(f, f[p].type, f[p].node) \subseteq At(g, g[p].type, g[p].node)
      BY <2>1, GrownFacts
    <3> QED BY <3>1, <3>2
  <2> QED BY <1>2, <2>1, <2>2 DEF Undone
<1> QED BY <1>1, <1>2

LEMMA IndexKept ==
    ASSUME NEW f, NEW g, Grown(f, g), NEW index, NEW node, IsIndex(f, index, node),
           At(g, "data", node) = At(f, "data", node)
    PROVE  IsIndex(g, index, node)
<1>1. \A i \in DOMAIN index : index[i].pos \in At(f, "data", node)
  BY DEF IsIndex
<1>2. \A i \in DOMAIN index : g[index[i].pos] = f[index[i].pos]
  BY <1>1 DEF At, Grown
<1> QED BY <1>2 DEF IsIndex

\* A frame is written and its entry made.
LEMMA IndexGrown ==
    ASSUME NEW f, NEW g, Grown(f, g), NEW index \in Tabled, NEW node, IsIndex(f, index, node),
           NEW n \in Nat, n = Len(f) + 1, NEW e \in [pos : Nat, configuration : Nat], e.pos = n,
           At(g, "data", node) = At(f, "data", node) \cup {n},
           g[n].frame = Len(index) + 1
    PROVE  IsIndex(g, Append(index, e), node)
<1> DEFINE new == Append(index, e)
           k == Len(index) + 1
<1>1. /\ k \in DOMAIN new /\ new[k] = e /\ DOMAIN index \subseteq DOMAIN new
      /\ \A i \in DOMAIN index : new[i] = index[i]
      /\ \A i \in DOMAIN new : i \in DOMAIN index \/ i = k
  BY DEF Tabled
<1> HIDE DEF new, k
<1>2. \A i \in DOMAIN index : index[i].pos \in At(f, "data", node)
  BY DEF IsIndex
<1>3. \A i \in DOMAIN index : g[index[i].pos] = f[index[i].pos]
  BY <1>2 DEF At, Grown
<1>4. {new[i].pos : i \in DOMAIN new} = At(f, "data", node) \cup {n}
  <2>1. {new[i].pos : i \in DOMAIN new} = {index[i].pos : i \in DOMAIN index} \cup {e.pos}
    BY <1>1
  <2> QED BY <2>1 DEF IsIndex
<1>5. \A i \in DOMAIN new : g[new[i].pos].frame = i
  BY <1>1, <1>3 DEF IsIndex, k
<1> QED BY <1>4, <1>5 DEF IsIndex, new

LEMMA PatchedKept ==
    ASSUME NEW f, NEW g, Grown(f, g), NEW exact, NEW later, Patched(f, exact), later => exact,
           \A p \in DOMAIN g : g[p].type = "added" =>
               \/ p \in DOMAIN f /\ g[p] = f[p]
               \/ g[p].back = 0
               \/ /\ g[p].back \in At(g, "table", g[p].node)
                  /\ later => g[p].frame = Len(g[g[p].back].index)
    PROVE  Patched(g, later)
<1> SUFFICES ASSUME NEW p \in DOMAIN g, g[p].type = "added", g[p].back # 0
             PROVE  /\ g[p].back \in At(g, "table", g[p].node)
                    /\ later => g[p].frame = Len(g[g[p].back].index)
  BY DEF Patched
<1>1. CASE p \in DOMAIN f /\ g[p] = f[p]
  <2>1. f[p].back \in At(f, "table", f[p].node) /\ (exact => f[p].frame = Len(f[f[p].back].index))
    BY <1>1 DEF Patched
  <2>2. g[f[p].back] = f[f[p].back]
    BY <2>1 DEF At, Grown
  <2> QED BY <1>1, <2>1, <2>2, GrownFacts
<1>2. CASE ~(p \in DOMAIN f /\ g[p] = f[p])
  BY <1>2
<1> QED BY <1>1, <1>2

LEMMA EntryIs ==
    ASSUME NEW f, NEW I, NEW e
    PROVE  e \in Entries(f, I) <=>
             \/ \E p \in DOMAIN f : f[p].type = "table" /\
                  \E i \in DOMAIN f[p].index : e = f[p].index[i]
             \/ \E s \in Streams : I[s] # None /\ \E i \in DOMAIN I[s].index : e = I[s].index[i]
<1> DEFINE Closed == {{f[p].index[i] : i \in DOMAIN f[p].index} :
                      p \in {q \in DOMAIN f : f[q].type = "table"}}
           Made == {{I[s].index[i] : i \in DOMAIN I[s].index} :
                   s \in {t \in Streams : I[t] # None}}
<1>1. e \in Entries(f, I) <=> (\E X \in Closed : e \in X) \/ (\E X \in Made : e \in X)
  BY DEF Entries
<1>2. ASSUME NEW X \in Closed, e \in X
      PROVE  \E p \in DOMAIN f : f[p].type = "table" /\ \E i \in DOMAIN f[p].index : e = f[p].index[i]
  <2>1. PICK p \in {q \in DOMAIN f : f[q].type = "table"} :
          X = {f[p].index[i] : i \in DOMAIN f[p].index}
    OBVIOUS
  <2> QED BY <1>2, <2>1
<1>3. ASSUME NEW p \in DOMAIN f, f[p].type = "table", NEW i \in DOMAIN f[p].index, e = f[p].index[i]
      PROVE  \E X \in Closed : e \in X
  <2>1. e \in {f[p].index[k] : k \in DOMAIN f[p].index} BY <1>3
  <2>2. {f[p].index[k] : k \in DOMAIN f[p].index} \in Closed BY <1>3
  <2> QED BY <2>1, <2>2
<1>4. ASSUME NEW X \in Made, e \in X
      PROVE  \E s \in Streams : I[s] # None /\ \E i \in DOMAIN I[s].index : e = I[s].index[i]
  <2>1. PICK s \in {t \in Streams : I[t] # None} : X = {I[s].index[i] : i \in DOMAIN I[s].index}
    OBVIOUS
  <2> QED BY <1>4, <2>1
<1>5. ASSUME NEW s \in Streams, I[s] # None, NEW i \in DOMAIN I[s].index, e = I[s].index[i]
      PROVE  \E X \in Made : e \in X
  <2>1. e \in {I[s].index[k] : k \in DOMAIN I[s].index} BY <1>5
  <2>2. {I[s].index[k] : k \in DOMAIN I[s].index} \in Made BY <1>5
  <2> QED BY <2>1, <2>2
<1> HIDE DEF Closed, Made
<1> QED BY <1>1, <1>2, <1>3, <1>4, <1>5

LEMMA CoversKept ==
    ASSUME NEW f, NEW g, Grown(f, g), NEW E, NEW F \in SUBSET E, NEW c \in Nat, NEW d \in Nat,
           \A e \in E : e.configuration \in Nat /\ e.pos \in DOMAIN f, Covers(f, E, c),
           \/ c <= d /\ \A p \in DOMAIN g : p \notin DOMAIN f => g[p].type # "property"
           \/ c < d
           \/ F = {}
    PROVE  Covers(g, F, d)
<1> SUFFICES ASSUME NEW e \in F
             PROVE  /\ e.configuration <= d
                    /\ e.configuration = d => \A p \in DOMAIN g : e.pos < p => g[p].type # "property"
                    /\ \A h \in F, p \in DOMAIN g :
                         e.configuration = h.configuration /\ e.pos < p /\ p < h.pos =>
                             g[p].type # "property"
  BY DEF Covers
<1>1. /\ e.configuration \in Nat /\ e.configuration <= c /\ c <= d
      /\ e.configuration = c => \A p \in DOMAIN f : e.pos < p => f[p].type # "property"
      /\ \A h \in F, p \in DOMAIN f :
           e.configuration = h.configuration /\ e.pos < p /\ p < h.pos => f[p].type # "property"
  BY DEF Covers
<1>2. \A p \in DOMAIN f : g[p].type = f[p].type
  BY DEF Grown
<1>3. ASSUME e.configuration = d, NEW p \in DOMAIN g, e.pos < p
      PROVE  g[p].type # "property"
  BY <1>1, <1>2, <1>3
<1>4. ASSUME NEW h \in F, NEW p \in DOMAIN g,
             e.configuration = h.configuration, e.pos < p, p < h.pos
      PROVE  g[p].type # "property"
  <2>1. h.pos \in DOMAIN f OBVIOUS
  <2>2. p \in DOMAIN f BY <1>4, <2>1, GrownFacts
  <2> QED BY <1>1, <1>2, <1>4, <2>2
<1>5. e.configuration <= d BY <1>1
<1> QED BY <1>3, <1>4, <1>5

LEMMA CoversGrown ==
    ASSUME NEW f, NEW g, Grown(f, g), NEW E, NEW c \in Nat, NEW e,
           NEW F \in SUBSET (E \cup {e}), e.configuration = c, e.pos = Len(f) + 1,
           \A d \in E : d.configuration \in Nat /\ d.pos \in DOMAIN f, Covers(f, E, c),
           Len(g) = Len(f) + 1, g[Len(f) + 1].type # "property"
    PROVE  Covers(g, F, c)
<1> SUFFICES ASSUME NEW a \in F
             PROVE  /\ a.configuration <= c
                    /\ a.configuration = c => \A p \in DOMAIN g : a.pos < p => g[p].type # "property"
                    /\ \A b \in F, p \in DOMAIN g :
                         a.configuration = b.configuration /\ a.pos < p /\ p < b.pos =>
                             g[p].type # "property"
  BY DEF Covers
<1>1. \A p \in DOMAIN f : g[p].type = f[p].type
  BY DEF Grown
<1>2. \A p \in DOMAIN g : p \in DOMAIN f \/ p = Len(f) + 1
  BY GrownFacts
<1>3. CASE a = e
  <2>1. ASSUME NEW p \in DOMAIN g, e.pos < p PROVE FALSE
    BY <1>2, <2>1, GrownFacts
  <2> QED BY <1>3, <2>1
<1>4. CASE a \in E
  <2>1. /\ a.configuration <= c
        /\ a.configuration = c => \A p \in DOMAIN f : a.pos < p => f[p].type # "property"
        /\ \A b \in E, p \in DOMAIN f :
             a.configuration = b.configuration /\ a.pos < p /\ p < b.pos => f[p].type # "property"
    BY <1>4 DEF Covers
  <2>2. a.configuration = c => \A p \in DOMAIN g : a.pos < p => g[p].type # "property"
    BY <1>1, <1>2, <2>1
  <2>3. ASSUME NEW b \in F, NEW p \in DOMAIN g,
               a.configuration = b.configuration, a.pos < p, p < b.pos
        PROVE  g[p].type # "property"
    <3>1. CASE b = e
      BY <2>2, <2>3, <3>1
    <3>2. CASE b \in E
      <4>1. p \in DOMAIN f BY <2>3, <3>2, GrownFacts
      <4> QED BY <1>1, <2>1, <2>3, <3>2, <4>1
    <3> QED BY <3>1, <3>2
  <2> QED BY <2>1, <2>2, <2>3
<1> QED BY <1>3, <1>4

LEMMA EntriesKept ==
    ASSUME NEW f, NEW g, Grown(f, g), NEW I, NEW J,
           \A p \in DOMAIN g : p \notin DOMAIN f /\ g[p].type = "table" =>
               \E s \in Streams : I[s] # None /\ g[p].index = I[s].index,
           \A s \in Streams : J[s] # None =>
               (I[s] # None /\ J[s].index = I[s].index) \/ J[s].index = <<>>
    PROVE  Entries(g, J) \subseteq Entries(f, I)
<1> SUFFICES ASSUME NEW e \in Entries(g, J) PROVE e \in Entries(f, I)
  OBVIOUS
<1>1. CASE \E p \in DOMAIN g : g[p].type = "table" /\ \E i \in DOMAIN g[p].index : e = g[p].index[i]
  <2>1. PICK p \in DOMAIN g : g[p].type = "table" /\ \E i \in DOMAIN g[p].index : e = g[p].index[i]
    BY <1>1
  <2>2. CASE p \in DOMAIN f
    <3>1. f[p].type = "table" /\ f[p].index = g[p].index BY <2>1, <2>2 DEF Grown
    <3> QED BY <2>1, <2>2, <3>1, EntryIs
  <2>3. CASE p \notin DOMAIN f
    <3>1. PICK s \in Streams : I[s] # None /\ g[p].index = I[s].index BY <2>1, <2>3
    <3> QED BY <2>1, <3>1, EntryIs
  <2> QED BY <2>2, <2>3
<1>2. CASE \E s \in Streams : J[s] # None /\ \E i \in DOMAIN J[s].index : e = J[s].index[i]
  <2>1. PICK s \in Streams : J[s] # None /\ \E i \in DOMAIN J[s].index : e = J[s].index[i]
    BY <1>2
  <2>2. J[s].index # <<>> BY <2>1
  <2>3. I[s] # None /\ J[s].index = I[s].index BY <2>1, <2>2
  <2> QED BY <2>1, <2>3, EntryIs
<1> QED BY <1>1, <1>2, EntryIs

LEMMA EntriesGrown ==
    ASSUME NEW f, NEW g, Grown(f, g), NEW I, NEW J, NEW s \in Streams, NEW e,
           \A p \in DOMAIN g : p \notin DOMAIN f => g[p].type # "table",
           I[s] # None, I[s].index \in Tabled, J[s].index = Append(I[s].index, e),
           \A t \in Streams \ {s} : J[t] = I[t]
    PROVE  Entries(g, J) \subseteq Entries(f, I) \cup {e}
<1> SUFFICES ASSUME NEW d \in Entries(g, J), d # e PROVE d \in Entries(f, I)
  OBVIOUS
<1>1. CASE \E p \in DOMAIN g : g[p].type = "table" /\ \E i \in DOMAIN g[p].index : d = g[p].index[i]
  <2>1. PICK p \in DOMAIN g : g[p].type = "table" /\ \E i \in DOMAIN g[p].index : d = g[p].index[i]
    BY <1>1
  <2>2. p \in DOMAIN f BY <2>1
  <2>3. f[p].type = "table" /\ f[p].index = g[p].index BY <2>1, <2>2 DEF Grown
  <2> QED BY <2>1, <2>2, <2>3, EntryIs
<1>2. CASE \E t \in Streams : J[t] # None /\ \E i \in DOMAIN J[t].index : d = J[t].index[i]
  <2>1. PICK t \in Streams : J[t] # None /\ \E i \in DOMAIN J[t].index : d = J[t].index[i]
    BY <1>2
  <2>2. PICK i \in DOMAIN J[t].index : d = J[t].index[i] BY <2>1
  <2>3. CASE t = s
    <3>1. i \in DOMAIN I[s].index /\ d = I[s].index[i]
      <4> DEFINE q == I[s].index
      <4>1. q \in Seq([pos : Nat, configuration : Nat]) BY DEF Tabled
      <4>2. J[t].index = Append(q, e) BY <2>3
      <4> HIDE DEF q
      <4>3. i \in 1..(Len(q) + 1) /\ (i = Len(q) + 1 => Append(q, e)[i] = e)
            /\ (i \in 1..Len(q) => Append(q, e)[i] = q[i]) /\ Len(q) \in Nat
        BY <2>2, <4>1, <4>2
      <4>4. i \in 1..Len(q) BY <2>2, <4>2, <4>3
      <4> QED BY <2>2, <4>1, <4>2, <4>3, <4>4 DEF q
    <3> QED BY <3>1, EntryIs
  <2>4. CASE t # s
    BY <2>1, <2>4, EntryIs
  <2> QED BY <2>3, <2>4
<1> QED BY <1>1, <1>2, EntryIs

\* Entries are of frames that are in the file.
LEMMA EntryPlaces ==
    ASSUME TypeOK, IndexInv, skipped = {}
    PROVE  \A e \in Entries(file, infos) :
             /\ e.configuration \in Nat /\ e.pos \in DOMAIN file
             /\ file[e.pos].type = "data"
<1> SUFFICES ASSUME NEW e \in Entries(file, infos)
             PROVE  e.configuration \in Nat /\ e.pos \in DOMAIN file /\ file[e.pos].type = "data"
  OBVIOUS
<1>1. \E index \in Tabled : \E node :
        IsIndex(file, index, node) /\ \E i \in DOMAIN index : e = index[i]
  <2>1. ASSUME NEW p \in DOMAIN file, file[p].type = "table",
               \E i \in DOMAIN file[p].index : e = file[p].index[i]
        PROVE  \E index \in Tabled : \E node :
                 IsIndex(file, index, node) /\ \E i \in DOMAIN index : e = index[i]
    <3>0. file[p] \in Records BY DEF TypeOK
    <3>1. file[p].index \in Tabled BY <3>0 DEF Records, Tabled
    <3>2. IsIndex(file, file[p].index, file[p].node) BY <2>1 DEF IndexInv
    <3> QED BY <2>1, <3>1, <3>2
  <2>2. ASSUME NEW s \in Streams, infos[s] # None,
               \E i \in DOMAIN infos[s].index : e = infos[s].index[i]
        PROVE  \E index \in Tabled : \E node :
                 IsIndex(file, index, node) /\ \E i \in DOMAIN index : e = index[i]
    <3>1. infos[s].index \in Tabled BY <2>2, InfoTypes DEF Found, Infos, Tabled
    <3>2. IsIndex(file, infos[s].index, infos[s].node) BY <2>2 DEF IndexInv, Found
    <3> QED BY <2>2, <3>1, <3>2
  <2> QED BY <2>1, <2>2, EntryIs
<1>i. PICK index \in Tabled :
        \E node : IsIndex(file, index, node) /\ \E i \in DOMAIN index : e = index[i]
  BY <1>1
<1>2. PICK node : IsIndex(file, index, node) /\ \E i \in DOMAIN index : e = index[i]
  BY <1>i
<1>3. e \in [pos : Nat, configuration : Nat]
  <2> DEFINE S == [pos : Nat, configuration : Nat]
  <2>1. PICK i \in DOMAIN index : e = index[i] BY <1>2
  <2>2. index \in Seq(S) BY DEF Tabled
  <2> HIDE DEF S
  <2>3. index[i] \in S BY <2>1, <2>2
  <2> QED BY <2>1, <2>3 DEF S
<1>4. e.pos \in At(file, "data", node) BY <1>2 DEF IsIndex
<1> QED BY <1>3, <1>4 DEF At

\* The records of a stream that is found.
LEMMA OwnRecords ==
    ASSUME TypeOK, FileInv, NEW s \in Streams, Found(s)
    PROVE  /\ infos[s] \in Infos /\ infos[s].node \in 1..maxId
           /\ At(file, "removed", infos[s].node) = {} /\ At(file, "table", infos[s].node) = {}
           /\ infos[s].added # 0 => infos[s].added \in At(file, "added", infos[s].node)
           /\ infos[s].added = 0 => \A type : At(file, type, infos[s].node) = {}
           /\ \A t \in Streams : Found(t) /\ t # s => infos[t].node # infos[s].node
<1>1. infos[s] \in Infos BY InfoTypes
<1>2. infos[s].node \in 1..maxId
  <2>1. infos[s].node \in 1..MaxNodes BY <1>1 DEF Infos
  <2>2. infos[s].node <= maxId /\ maxId \in Nat BY Bounds DEF FileInv, TypeOK
  <2> QED BY <2>1, <2>2, Bounds
<1>3. infos[s].added # 0 => infos[s].added \in At(file, "added", infos[s].node)
  BY DEF FileInv, Positions, At
<1>4. \A p \in DOMAIN file : file[p].node = infos[s].node =>
        infos[s].added # 0 /\ file[p].type \notin {"removed", "table"}
  BY DEF FileInv
<1>5. \A t \in Streams : Found(t) /\ t # s => infos[t].node # infos[s].node
  BY DEF FileInv
<1> QED BY <1>1, <1>2, <1>3, <1>4, <1>5 DEF At

LEMMA FileKept ==
    ASSUME FileInv, Grown(file, file'), maxId' = maxId,
           \A s \in Streams : Found(s)' =>
             /\ Found(s) /\ infos'[s].node = infos[s].node
             /\ \/ infos'[s].added = infos[s].added
                \/ infos[s].added = 0 /\ infos'[s].added \in At(file', "added", infos[s].node),
           \A p \in DOMAIN file' : p \notin DOMAIN file =>
             \/ file'[p].type = "end" /\ file'[p].node = 0
             \/ \E s \in Streams :
                  /\ Found(s) /\ file'[p].node = infos[s].node
                  /\ Found(s)' => infos'[s].added # 0 /\ file'[p].type \notin {"removed", "table"},
           \A s \in Streams : Found(s) => infos[s].node # 0 /\ infos[s].node \in Nat,
           maxId \in Nat
    PROVE  FileInv'
<1>1. \A p \in DOMAIN file' : file'[p].node <= maxId' /\ (file'[p].type # "end" => file'[p].node # 0)
  <2> SUFFICES ASSUME NEW p \in DOMAIN file'
               PROVE  file'[p].node <= maxId /\ (file'[p].type # "end" => file'[p].node # 0)
    OBVIOUS
  <2>1. CASE p \in DOMAIN file
    BY <2>1 DEF FileInv, Grown
  <2>2. CASE p \notin DOMAIN file
    BY <2>2 DEF FileInv
  <2> QED BY <2>1, <2>2
<1>2. ASSUME NEW s \in Streams, Found(s)'
      PROVE  /\ infos'[s].node <= maxId'
             /\ \A t \in Streams : Found(t)' /\ infos'[t].node = infos'[s].node => t = s
             /\ infos'[s].added # 0 => infos'[s].added \in At(file', "added", infos'[s].node)
             /\ \A p \in DOMAIN file' : file'[p].node = infos'[s].node =>
                  infos'[s].added # 0 /\ file'[p].type \notin {"removed", "table"}
  <2>1. Found(s) /\ infos'[s].node = infos[s].node
    BY <1>2
  <2>2. infos'[s].node <= maxId'
    BY <2>1 DEF FileInv
  <2>3. \A t \in Streams : Found(t)' /\ infos'[t].node = infos'[s].node => t = s
    BY <2>1 DEF FileInv
  <2>4. infos'[s].added # 0 => infos'[s].added \in At(file', "added", infos'[s].node)
    <3>1. infos[s].added # 0 => infos[s].added \in At(file, "added", infos[s].node)
      BY <2>1 DEF FileInv, Positions, At
    <3>2. At(file, "added", infos[s].node) \subseteq At(file', "added", infos[s].node)
      BY GrownFacts
    <3> QED BY <1>2, <2>1, <3>1, <3>2
  <2>5. ASSUME NEW p \in DOMAIN file', file'[p].node = infos'[s].node
        PROVE  infos'[s].added # 0 /\ file'[p].type \notin {"removed", "table"}
    <3>1. CASE p \in DOMAIN file
      <4>1. file[p].node = infos[s].node /\ file'[p].type = file[p].type
        BY <2>1, <2>5, <3>1 DEF Grown
      <4>2. infos[s].added # 0 /\ file[p].type \notin {"removed", "table"}
        BY <2>1, <3>1, <4>1 DEF FileInv
      <4>3. infos'[s].added = infos[s].added
        BY <1>2, <4>2
      <4> QED BY <4>1, <4>2, <4>3
    <3>2. CASE p \notin DOMAIN file
      <4>1. file'[p].node # 0 BY <2>1, <2>5
      <4>2. PICK t \in Streams :
              /\ Found(t) /\ file'[p].node = infos[t].node
              /\ Found(t)' => infos'[t].added # 0 /\ file'[p].type \notin {"removed", "table"}
        BY <3>2, <4>1
      <4>3. t = s BY <2>1, <2>5, <4>2 DEF FileInv
      <4> QED BY <1>2, <4>2, <4>3
    <3> QED BY <3>1, <3>2
  <2> QED BY <2>2, <2>3, <2>4, <2>5
<1> QED BY <1>1, <1>2 DEF FileInv, Positions, At

-----------------------------------------------------------------------------
(* What the file says is kept by each step. *)

\* A step that writes nothing, a NODE_DATA_BEGIN for streams that are found, or the end.
LEMMA PlainStep ==
    ASSUME TypeOK, Recorded, Grown(file, file'),
           UNCHANGED <<infos, maxId, skipped, configurationId>>,
           \A p \in DOMAIN file : file'[p] = file[p],
           \A p \in DOMAIN file' : p \notin DOMAIN file =>
             \/ file'[p].type = "end" /\ file'[p].node = 0
             \/ file'[p].type = "begin" /\ \E s \in Streams :
                  Found(s) /\ infos[s].added # 0 /\ file'[p].node = infos[s].node
    PROVE  Recorded'
<1>0. /\ maxId \in Nat /\ configurationId \in Nat
      /\ \A s \in Streams : /\ Found(s)' <=> Found(s)
                            /\ Found(s) => infos[s].node # 0 /\ infos[s].node \in Nat
  <2>1. maxId \in Nat /\ configurationId \in Nat BY Bounds DEF TypeOK
  <2>2. \A s \in Streams : Found(s) => infos[s].node \in 1..maxId BY OwnRecords DEF Recorded
  <2> QED BY <2>1, <2>2 DEF Found
<1>1. FileInv'
  BY <1>0, FileKept DEF Recorded
<1>2. \A type, node : type \notin {"begin", "end"} => At(file', type, node) = At(file, type, node)
  BY AtKept
<1>3. Inside(file')
  <2>1. Inside(file) BY DEF Recorded, RecordsInsideNode, Inside, Positions, At
  <2>2. ASSUME NEW p \in DOMAIN file', p \notin DOMAIN file,
               file'[p].type \in {"property", "begin", "data", "removed"}
        PROVE  /\ \E a \in At(file', "added", file'[p].node) : a < p
               /\ \A r \in At(file', "removed", file'[p].node) : p <= r
               /\ file'[p].type # "data"
    <3>1. PICK s \in Streams : Found(s) /\ infos[s].added # 0 /\ file'[p].node = infos[s].node
      BY <2>2
    <3>2. /\ infos[s].added \in At(file, "added", infos[s].node)
          /\ At(file, "removed", infos[s].node) = {}
      BY <3>1, OwnRecords DEF Recorded
    <3>3. /\ infos[s].added \in At(file', "added", file'[p].node)
          /\ At(file', "removed", file'[p].node) = {}
      BY <1>2, <3>1, <3>2
    <3>4. infos[s].added < p
      BY <2>2, <3>2, GrownFacts DEF At
    <3> QED BY <2>2, <3>3, <3>4
  <2> QED BY <2>1, <2>2, InsideKept
<1>4. "compress" \notin skipped => Undone(file')
  <2>1. "compress" \notin skipped => Undone(file)
    BY DEF Recorded, UndoLeadsBack, Undone, Positions, At
  <2> QED BY <2>1, UndoneKept
<1>5. UndoInv'
  <2>1. UndoInv BY DEF Recorded
  <2> QED BY <1>2, <2>1 DEF UndoInv, Found
<1>6. Patched(file', skipped = {})
  <2>1. Patched(file, skipped = {}) BY DEF Recorded, PatchInv
  <2>2. \A p \in DOMAIN file' : file'[p].type = "added" => p \in DOMAIN file /\ file'[p] = file[p]
    OBVIOUS
  <2> DEFINE exact == skipped = {}
  <2> HIDE DEF exact
  <2>3. Patched(file, exact) => Patched(file', exact) BY <2>2, PatchedKept
  <2> QED BY <2>1, <2>3 DEF exact
<1>7. IndexInv'
  <2> SUFFICES ASSUME skipped = {} PROVE IndexInv'
    BY DEF IndexInv
  <2>1. /\ \A s \in Streams : Found(s) => /\ infos[s].frameId = Len(infos[s].index)
                                          /\ IsIndex(file, infos[s].index, infos[s].node)
        /\ \A p \in DOMAIN file : file[p].type = "table" =>
             IsIndex(file, file[p].index, file[p].node)
    BY DEF Recorded, IndexInv
  <2>2. \A index, node : IsIndex(file, index, node) => IsIndex(file', index, node)
    BY <1>2, IndexKept
  <2>3. \A p \in DOMAIN file' :
          file'[p].type = "table" => IsIndex(file', file'[p].index, file'[p].node)
    <3> SUFFICES ASSUME NEW p \in DOMAIN file', file'[p].type = "table"
                 PROVE  IsIndex(file', file'[p].index, file'[p].node)
      OBVIOUS
    <3>1. p \in DOMAIN file /\ file'[p] = file[p] OBVIOUS
    <3> QED BY <2>1, <2>2, <3>1
  <2> QED BY <2>1, <2>2, <2>3 DEF IndexInv, Found
<1>8. ConfigurationInv'
  <2> SUFFICES ASSUME skipped = {}
               PROVE  Covers(file', Entries(file', infos'), configurationId')
    BY DEF ConfigurationInv
  <2>1. Covers(file, Entries(file, infos), configurationId)
    BY DEF Recorded, ConfigurationInv
  <2>2. Entries(file', infos') \subseteq Entries(file, infos)
    BY EntriesKept
  <2>3. \A e \in Entries(file, infos) : e.configuration \in Nat /\ e.pos \in DOMAIN file
    BY EntryPlaces DEF Recorded
  <2>4. \A p \in DOMAIN file' : p \notin DOMAIN file => file'[p].type # "property"
    OBVIOUS
  <2>5. Covers(file', Entries(file', infos'), configurationId)
    BY <1>0, <2>1, <2>2, <2>3, <2>4, CoversKept
  <2> QED BY <2>5
<1>9. RecordsInsideNode'
  BY <1>3 DEF RecordsInsideNode, Inside, Positions, At
<1>10. UndoLeadsBack'
  BY <1>4 DEF UndoLeadsBack, Undone, Positions, At
<1>11. PatchInv'
  BY <1>6 DEF PatchInv
<1> QED BY <1>1, <1>5, <1>7, <1>8, <1>9, <1>10, <1>11 DEF Recorded

\* A stream is attached, with a node that no record has yet.
LEMMA AddFile ==
    ASSUME TypeOK, TalkInv, Recorded, NEW s \in Streams, AddRecorder(s)
    PROVE  Recorded'
<1> DEFINE n == maxId + 1
<1>1. /\ maxId \in Nat /\ configurationId \in Nat /\ n \in Nat /\ file \in Seq(Records)
      /\ \A p \in DOMAIN file : file[p].node \in Nat
  <2>1. \A p \in DOMAIN file : file[p] \in Records BY DEF TypeOK
  <2> QED BY <2>1, Bounds DEF TypeOK, Records
<1>2. /\ UNCHANGED <<file, skipped, configurationId>> /\ maxId' = n
      /\ infos'[s] = [node |-> n, frameId |-> 0, added |-> 0, lastData |-> 0,
                      lastProperty |-> 0, index |-> <<>>]
      /\ \A t \in Streams \ {s} : infos'[t] = infos[t]
  BY DEF AddRecorder, fileVars, TypeOK
<1> HIDE DEF n
<1>3. /\ infos'[s].node = n /\ infos'[s].added = 0 /\ infos'[s].index = <<>>
      /\ infos'[s].lastData = 0 /\ infos'[s].lastProperty = 0 /\ infos'[s].frameId = 0
  BY <1>2
<1>4. \A t \in Streams \ {s} : Found(t)' <=> Found(t)
  BY <1>2 DEF Found
<1>5. /\ \A p \in DOMAIN file : file[p].node <= maxId /\ file[p].node # n
      /\ \A t \in Streams : Found(t) => infos[t].node <= maxId /\ infos[t].node # n
  <2>1. \A p \in DOMAIN file : file[p].node <= maxId BY DEF Recorded, FileInv
  <2>2. \A t \in Streams : Found(t) => infos[t].node \in 1..maxId BY OwnRecords DEF Recorded
  <2> QED BY <1>1, <2>1, <2>2 DEF n
<1>6. \A type : At(file, type, n) = {}
  BY <1>5 DEF At
<1>7. FileInv'
  <2>1. \A p \in DOMAIN file' : file'[p].node <= maxId' /\ (file'[p].type # "end" => file'[p].node # 0)
    BY <1>1, <1>2, <1>5 DEF Recorded, FileInv, n
  <2>2. ASSUME NEW t \in Streams, Found(t)'
        PROVE  /\ infos'[t].node <= maxId'
               /\ \A u \in Streams : Found(u)' /\ infos'[u].node = infos'[t].node => u = t
               /\ infos'[t].added # 0 => infos'[t].added \in At(file', "added", infos'[t].node)
               /\ \A p \in DOMAIN file' : file'[p].node = infos'[t].node =>
                    infos'[t].added # 0 /\ file'[p].type \notin {"removed", "table"}
    <3>1. CASE t = s
      <4>1. \A u \in Streams : Found(u)' /\ infos'[u].node = n => u = s
        BY <1>2, <1>4, <1>5
      <4> QED BY <1>1, <1>2, <1>3, <1>5, <3>1, <4>1
    <3>2. CASE t # s
      <4>1. Found(t) /\ infos'[t] = infos[t] BY <1>2, <1>4, <2>2, <3>2
      <4>2. infos[t].node <= maxId' BY <1>1, <1>2, <1>5, <4>1, OwnRecords DEF n, Recorded
      <4>3. \A u \in Streams : Found(u)' /\ infos'[u].node = infos[t].node => u = t
        <5> SUFFICES ASSUME NEW u \in Streams, Found(u)', infos'[u].node = infos[t].node
                     PROVE  u = t
          OBVIOUS
        <5>1. u # s BY <1>3, <1>5, <4>1
        <5>2. Found(u) /\ infos'[u] = infos[u] BY <1>2, <1>4, <5>1
        <5> QED BY <4>1, <5>2 DEF Recorded, FileInv
      <4>4. /\ infos[t].added # 0 => infos[t].added \in At(file, "added", infos[t].node)
            /\ \A p \in DOMAIN file : file[p].node = infos[t].node =>
                 infos[t].added # 0 /\ file[p].type \notin {"removed", "table"}
        BY <4>1 DEF Recorded, FileInv, Positions, At
      <4> QED BY <1>2, <4>1, <4>2, <4>3, <4>4
    <3> QED BY <3>1, <3>2
  <2> QED BY <2>1, <2>2 DEF FileInv, Positions, At
<1>8. UndoInv'
  <2> SUFFICES ASSUME NEW t \in Streams, Found(t)'
               PROVE  /\ IsLast(infos'[t].lastProperty, At(file', "property", infos'[t].node))
                      /\ "compress" \notin skipped' =>
                           IsLast(infos'[t].lastData, At(file', "data", infos'[t].node))
    BY DEF UndoInv
  <2>1. CASE t = s BY <1>2, <1>3, <1>6, <2>1 DEF IsLast
  <2>2. CASE t # s
    <3>1. Found(t) /\ infos'[t] = infos[t] BY <1>2, <1>4, <2>2
    <3> QED BY <1>2, <3>1 DEF Recorded, UndoInv
  <2> QED BY <2>1, <2>2
<1>9. IndexInv'
  <2> SUFFICES ASSUME skipped = {} PROVE IndexInv'
    BY <1>2 DEF IndexInv
  <2>1. ASSUME NEW t \in Streams, Found(t)'
        PROVE  /\ infos'[t].frameId = Len(infos'[t].index)
               /\ IsIndex(file', infos'[t].index, infos'[t].node)
    <3>1. CASE t = s
      <4>1. IsIndex(file, <<>>, n) BY <1>6 DEF IsIndex
      <4> QED BY <1>2, <1>3, <3>1, <4>1
    <3>2. CASE t # s
      <4>1. Found(t) /\ infos'[t] = infos[t] BY <1>2, <1>4, <2>1, <3>2
      <4> QED BY <1>2, <4>1 DEF Recorded, IndexInv
    <3> QED BY <3>1, <3>2
  <2> QED BY <1>2, <2>1 DEF Recorded, IndexInv
<1>10. ConfigurationInv'
  <2> SUFFICES ASSUME skipped = {}
               PROVE  Covers(file', Entries(file', infos'), configurationId')
    BY <1>2 DEF ConfigurationInv
  <2>1. Covers(file, Entries(file, infos), configurationId)
    BY DEF Recorded, ConfigurationInv
  <2>2. Grown(file, file)
    BY <1>1 DEF Grown
  <2>3. \A t \in Streams : infos'[t] # None =>
          (infos[t] # None /\ infos'[t].index = infos[t].index) \/ infos'[t].index = <<>>
    BY <1>2, <1>3
  <2>4. Entries(file, infos') \subseteq Entries(file, infos)
    BY <2>2, <2>3, EntriesKept
  <2>5. Covers(file, Entries(file, infos'), configurationId)
    BY <2>1, <2>4 DEF Covers
  <2> QED BY <1>2, <2>5
<1>11. RecordsInsideNode' /\ UndoLeadsBack' /\ PatchInv'
  BY <1>2 DEF Recorded, RecordsInsideNode, UndoLeadsBack, PatchInv, Positions
<1> QED BY <1>7, <1>8, <1>9, <1>10, <1>11 DEF Recorded

\* The stream's NODE_ADDED and its first property. No frame is in the file yet.
LEMMA AttachFile ==
    ASSUME TypeOK, TalkInv, Recorded, NEW s \in Streams, OnAttach(s)
    PROVE  Recorded'
<1> DEFINE n == infos[s].node
           a == Len(file) + 1
           b == Len(file) + 2
<1>1. /\ maxId \in Nat /\ configurationId \in Nat /\ a \in Nat /\ b \in Nat /\ file \in Seq(Records)
      /\ DOMAIN file = 1..Len(file)
  BY Bounds DEF TypeOK
<1>2. /\ Found(s) /\ infos[s].added = 0
      /\ UNCHANGED <<maxId, skipped, configurationId>>
  BY NothingAdded DEF OnAttach, About, senderVars, TalkInv
<1>3. /\ n # 0 /\ n \in Nat /\ n \in 0..MaxNodes /\ \A type : At(file, type, n) = {}
      /\ \A t \in Streams : Found(t) /\ t # s => infos[t].node # n
  <2>1. infos[s] \in Infos BY <1>2, InfoTypes
  <2>2. n \in 1..MaxNodes BY <2>1 DEF Infos
  <2> QED BY <1>2, <2>2, Bounds, OwnRecords DEF Recorded
<1>4. /\ file' \in Seq(Records) /\ Len(file') = Len(file) + 2
      /\ \A p \in DOMAIN file : file'[p] = file[p]
      /\ file'[a].type = "added" /\ file'[a].node = n /\ file'[a].back = 0
      /\ file'[b].type = "property" /\ file'[b].node = n /\ file'[b].back = 0
      /\ infos'[s] \in Infos /\ infos'[s].node = n
      /\ infos'[s].added = a /\ infos'[s].lastProperty = b
      /\ infos'[s].frameId = infos[s].frameId /\ infos'[s].index = infos[s].index
      /\ infos'[s].lastData = infos[s].lastData
      /\ \A t \in Streams \ {s} : infos'[t] = infos[t]
  <2>1. /\ file'[a] = Record("added", n) /\ file'[b] = Record("property", n)
    BY AttachWrites
  <2>2. /\ file'[a].type = "added" /\ file'[a].node = n /\ file'[a].back = 0
        /\ file'[b].type = "property" /\ file'[b].node = n /\ file'[b].back = 0
    BY <1>3, <2>1, RecordTypes
  <2> QED BY <2>2, AttachWrites
<1>5. /\ Grown(file, file') /\ a \in DOMAIN file' /\ b \in DOMAIN file' /\ a < b
      /\ a \notin DOMAIN file /\ b \notin DOMAIN file
      /\ \A p \in DOMAIN file' : p \in DOMAIN file \/ p = a \/ p = b
  BY <1>1, <1>4 DEF Grown
<1> HIDE DEF a, b
<1>6. \A t \in Streams : Found(t)' <=> Found(t)
  BY <1>2, <1>4, NoneAssumption DEF Found
<1>7. \A type, node : node # n \/ type \notin {"added", "property"} =>
        At(file', type, node) = At(file, type, node)
  BY <1>4, <1>5, AtKept
<1>8. At(file', "added", n) = {a} /\ At(file', "property", n) = {b}
  BY <1>3, <1>4, <1>5 DEF At
<1>9. FileInv'
  <2>1. \A t \in Streams : Found(t)' =>
          /\ Found(t) /\ infos'[t].node = infos[t].node
          /\ \/ infos'[t].added = infos[t].added
             \/ infos[t].added = 0 /\ infos'[t].added \in At(file', "added", infos[t].node)
    BY <1>2, <1>4, <1>6, <1>8
  <2>2. \A p \in DOMAIN file' : p \notin DOMAIN file =>
          \E t \in Streams :
            /\ Found(t) /\ file'[p].node = infos[t].node
            /\ Found(t)' => infos'[t].added # 0 /\ file'[p].type \notin {"removed", "table"}
    BY <1>1, <1>2, <1>4, <1>5 DEF a
  <2>3. \A t \in Streams : Found(t) => infos[t].node # 0 /\ infos[t].node \in Nat
    <3>1. \A t \in Streams : Found(t) => infos[t].node \in 1..maxId BY OwnRecords DEF Recorded
    <3> QED BY <1>1, <3>1
  <2> QED BY <1>1, <1>2, <1>5, <2>1, <2>2, <2>3, FileKept DEF Recorded
<1>10. Inside(file')
  <2>1. Inside(file) BY DEF Recorded, RecordsInsideNode, Inside, Positions, At
  <2>2. At(file', "removed", n) = {} BY <1>3, <1>7
  <2>3. \A p \in DOMAIN file' : p \notin DOMAIN file =>
               /\ file'[p].type \in {"property", "begin", "data", "removed"} =>
                    /\ \E c \in At(file', "added", file'[p].node) : c < p
                    /\ \A r \in At(file', "removed", file'[p].node) : p <= r
               /\ file'[p].type # "data"
    BY <1>4, <1>5, <1>8, <2>2
  <2> QED BY <1>5, <2>1, <2>3, InsideKept
<1>11. "compress" \notin skipped => Undone(file')
  <2>1. "compress" \notin skipped => Undone(file)
    BY DEF Recorded, UndoLeadsBack, Undone, Positions, At
  <2>2. {q \in At(file', "property", n) : q < b} = {}
    BY <1>1, <1>8
  <2>3. \A p \in DOMAIN file' : p \notin DOMAIN file /\ file'[p].type \in {"data", "property"} =>
               IsLast(file'[p].back, {q \in At(file', file'[p].type, file'[p].node) : q < p})
    BY <1>4, <1>5, <2>2 DEF IsLast
  <2> QED BY <1>5, <2>1, <2>3, UndoneKept
<1>12. UndoInv'
  <2> SUFFICES ASSUME NEW t \in Streams, Found(t)'
               PROVE  /\ IsLast(infos'[t].lastProperty, At(file', "property", infos'[t].node))
                      /\ "compress" \notin skipped' =>
                           IsLast(infos'[t].lastData, At(file', "data", infos'[t].node))
    BY DEF UndoInv
  <2>0. /\ IsLast(infos[t].lastProperty, At(file, "property", infos[t].node))
        /\ "compress" \notin skipped => IsLast(infos[t].lastData, At(file, "data", infos[t].node))
    BY <1>6 DEF Recorded, UndoInv
  <2>1. CASE t = s
    <3>1. IsLast(b, {b}) BY <1>1 DEF IsLast
    <3>2. At(file', "data", n) = At(file, "data", n) BY <1>7
    <3> QED BY <1>2, <1>4, <1>8, <2>0, <2>1, <3>1, <3>2
  <2>2. CASE t # s
    <3>1. infos'[t] = infos[t] /\ infos[t].node # n BY <1>3, <1>4, <1>6, <2>2
    <3> QED BY <1>2, <1>7, <2>0, <3>1
  <2> QED BY <2>1, <2>2
<1>13. PatchInv'
  <2>1. Patched(file, skipped = {}) BY DEF Recorded, PatchInv
  <2>2. \A p \in DOMAIN file' : file'[p].type = "added" =>
          (p \in DOMAIN file /\ file'[p] = file[p]) \/ file'[p].back = 0
    BY <1>4, <1>5
  <2> DEFINE exact == skipped = {}
  <2> HIDE DEF exact
  <2>3. Patched(file, exact) => Patched(file', exact) BY <1>5, <2>2, PatchedKept
  <2> QED BY <1>2, <2>1, <2>3 DEF exact, PatchInv
<1>14. IndexInv'
  <2> SUFFICES ASSUME skipped = {} PROVE IndexInv'
    BY <1>2 DEF IndexInv
  <2>1. /\ \A t \in Streams : Found(t) => /\ infos[t].frameId = Len(infos[t].index)
                                          /\ IsIndex(file, infos[t].index, infos[t].node)
        /\ \A p \in DOMAIN file : file[p].type = "table" =>
             IsIndex(file, file[p].index, file[p].node)
    BY DEF Recorded, IndexInv
  <2>2. \A index, node : IsIndex(file, index, node) => IsIndex(file', index, node)
    BY <1>5, <1>7, IndexKept
  <2>3. \A p \in DOMAIN file' :
          file'[p].type = "table" => IsIndex(file', file'[p].index, file'[p].node)
    <3> SUFFICES ASSUME NEW p \in DOMAIN file', file'[p].type = "table"
                 PROVE  IsIndex(file', file'[p].index, file'[p].node)
      OBVIOUS
    <3>1. p \in DOMAIN file /\ file'[p] = file[p] BY <1>4, <1>5
    <3> QED BY <2>1, <2>2, <3>1
  <2>4. \A t \in Streams : Found(t)' => /\ infos'[t].frameId = Len(infos'[t].index)
                                        /\ IsIndex(file', infos'[t].index, infos'[t].node)
    <3> SUFFICES ASSUME NEW t \in Streams, Found(t)'
                 PROVE  /\ infos'[t].frameId = Len(infos'[t].index)
                        /\ IsIndex(file', infos'[t].index, infos'[t].node)
      OBVIOUS
    <3>1. /\ infos'[t].frameId = infos[t].frameId /\ infos'[t].index = infos[t].index
          /\ infos'[t].node = infos[t].node
      BY <1>4
    <3> QED BY <1>6, <2>1, <2>2, <3>1
  <2> QED BY <2>3, <2>4 DEF IndexInv
<1>15. ConfigurationInv'
  <2> SUFFICES ASSUME skipped = {}
               PROVE  Covers(file', Entries(file', infos'), configurationId')
    BY <1>2 DEF ConfigurationInv
  <2>1. \A p \in DOMAIN file : file[p].type # "data"
    <3>1. Pending(Message("attach", s))
      <4>1. /\ pump.msg \in Messages /\ Pending(pump.msg)
            /\ pump.msg.type = "attach" /\ pump.msg.stream = s
        BY PumpTypes DEF Pending, Handled, OnAttach, About, Handling
      <4>2. pump.msg = Message("attach", s) BY <4>1, MessageTypes
      <4> QED BY <4>1, <4>2
    <3>2. \A p \in DOMAIN file : file[p].type # "begin" BY <3>1 DEF TalkInv, BeginInv
    <3> QED BY <3>2 DEF Recorded, RecordsInsideNode, Positions
  <2>2. Entries(file, infos) = {}
    BY <2>1, EntryPlaces DEF Recorded
  <2>3. \A t \in Streams : infos'[t] # None => infos[t] # None /\ infos'[t].index = infos[t].index
    BY <1>2, <1>4 DEF Found
  <2>4. \A p \in DOMAIN file' : p \notin DOMAIN file => file'[p].type # "table"
    BY <1>4, <1>5
  <2>5. Entries(file', infos') = {}
    BY <1>5, <2>2, <2>3, <2>4, EntriesKept
  <2> QED BY <2>5 DEF Covers
<1>16. RecordsInsideNode'
  BY <1>10 DEF RecordsInsideNode, Inside, Positions, At
<1>17. UndoLeadsBack'
  BY <1>2, <1>11 DEF UndoLeadsBack, Undone, Positions, At
<1> QED BY <1>9, <1>12, <1>13, <1>14, <1>15, <1>16, <1>17 DEF Recorded

\* NODE_REMOVED, and a seek table to which the NODE_ADDED then points.
LEMMA DetachFile ==
    ASSUME TypeOK, TalkInv, Recorded, NEW s \in Streams, OnDetach(s)
    PROVE  Recorded'
<1> DEFINE n == infos[s].node
           c == infos[s].added
           r == Len(file) + 1
           b == Len(file) + 2
           two == Len(file') = Len(file) + 2
<1>1. /\ maxId \in Nat /\ configurationId \in Nat /\ r \in Nat /\ b \in Nat /\ file \in Seq(Records)
      /\ DOMAIN file = 1..Len(file) /\ Len(file) \in Nat
  BY Bounds DEF TypeOK
<1>2. /\ Found(s) /\ infos[s] \in Infos /\ n \in 0..MaxNodes /\ c \in DOMAIN file
      /\ file[c].type = "added" /\ file[c].node = n
      /\ UNCHANGED <<maxId, skipped, configurationId>>
  BY Known DEF OnDetach, senderVars, TalkInv, Recorded
<1>3. /\ \A t \in Streams : Found(t) /\ t # s => infos[t].node # n
      /\ At(file, "removed", n) = {} /\ At(file, "table", n) = {}
      /\ \A t \in Streams : Found(t) => infos[t].node # 0 /\ infos[t].node \in Nat
  <2>1. \A t \in Streams : Found(t) => infos[t].node \in 1..maxId BY OwnRecords DEF Recorded
  <2>2. \A t \in Streams : Found(t) => infos[t].node # 0 /\ infos[t].node \in Nat
    BY <1>1, <2>1
  <2>3. /\ \A t \in Streams : Found(t) /\ t # s => infos[t].node # n
        /\ At(file, "removed", n) = {} /\ At(file, "table", n) = {}
    BY <1>2, OwnRecords DEF Recorded
  <2> QED BY <2>2, <2>3
<1>4. /\ file' \in Seq(Records)
      /\ \A p \in DOMAIN file :
           /\ file'[p].type = file[p].type /\ file'[p].node = file[p].node
           /\ file'[p].index = file[p].index
           /\ p # c => file'[p] = file[p]
      /\ file'[r].type = "removed" /\ file'[r].node = n
      /\ \/ Len(file') = Len(file) + 1 /\ file'[c] = file[c]
         \/ /\ two /\ file'[c].frame = infos[s].frameId /\ file'[c].back = b
            /\ file'[b].type = "table" /\ file'[b].node = n
            /\ file'[b].index = infos[s].index
      /\ infos'[s] = None
      /\ \A t \in Streams \ {s} : infos'[t] = infos[t]
  <2>1. file'[r] = Record("removed", n) BY <1>2, DetachWrites
  <2>2. file'[r].type = "removed" /\ file'[r].node = n BY <1>2, <2>1, RecordTypes
  <2> QED BY <1>2, <2>2, DetachWrites
<1>5. /\ Grown(file, file') /\ r \in DOMAIN file' /\ r \notin DOMAIN file /\ b \notin DOMAIN file
      /\ c < r /\ r < b /\ (two => b \in DOMAIN file')
      /\ \A p \in DOMAIN file' : p \in DOMAIN file \/ p = r \/ (p = b /\ two)
  <2>1. Len(file) <= Len(file') BY <1>1, <1>4
  <2>2. \A p \in DOMAIN file : file[p].type # "added" => file'[p] = file[p]
    BY <1>2, <1>4
  <2>3. Grown(file, file') BY <1>1, <1>4, <2>1, <2>2 DEF Grown
  <2>4. DOMAIN file' = 1..Len(file') /\ Len(file') \in {r, b} BY <1>4
  <2>5. c < r /\ r < b /\ r \notin DOMAIN file /\ b \notin DOMAIN file BY <1>1, <1>2
  <2>6. /\ r \in DOMAIN file' /\ (two => b \in DOMAIN file')
        /\ \A p \in DOMAIN file' : p \in DOMAIN file \/ p = r \/ (p = b /\ two)
    <3>1. CASE Len(file') = r BY <1>1, <2>4, <3>1
    <3>2. CASE Len(file') = b BY <1>1, <2>4, <3>2
    <3> QED BY <2>4, <3>1, <3>2
  <2> QED BY <2>3, <2>5, <2>6
<1>6. \A p \in DOMAIN file' : p \notin DOMAIN file =>
        /\ file'[p].type \in {"removed", "table"} /\ file'[p].node = n
        /\ file'[p].type = "removed" => p = r
        /\ file'[p].type = "table" => file'[p].index = infos[s].index
  <2>1. two => file'[b].type = "table" /\ file'[b].node = n /\ file'[b].index = infos[s].index
    BY <1>1, <1>4
  <2> QED BY <1>4, <1>5, <2>1
<1>7. two => file'[c].frame = infos[s].frameId /\ file'[c].back = b /\ file'[b].type = "table"
             /\ file'[b].node = n /\ file'[b].index = infos[s].index
  BY <1>1, <1>4
<1>8. file'[c] = file[c] \/ two
  BY <1>4
<1> HIDE DEF r, b, two
<1>9. ~Found(s)' /\ \A t \in Streams : t # s => (Found(t)' <=> Found(t)) /\ infos'[t] = infos[t]
  BY <1>4 DEF Found
<1>10. \A type, node : type \notin {"removed", "table"} => At(file', type, node) = At(file, type, node)
  BY <1>5, <1>6, AtKept
<1>11. FileInv'
  <2>1. \A t \in Streams : Found(t)' =>
          Found(t) /\ infos'[t].node = infos[t].node /\ infos'[t].added = infos[t].added
    BY <1>9
  <2>2. \A p \in DOMAIN file' : p \notin DOMAIN file =>
          \E t \in Streams : Found(t) /\ file'[p].node = infos[t].node /\ ~Found(t)'
    BY <1>2, <1>6, <1>9
  <2> QED BY <1>1, <1>2, <1>3, <1>5, <2>1, <2>2, FileKept DEF Recorded
<1>12. Inside(file')
  <2>1. Inside(file) BY DEF Recorded, RecordsInsideNode, Inside, Positions, At
  <2>2. At(file', "removed", n) = {r}
    <3>1. \A p \in DOMAIN file' : p \notin DOMAIN file /\ p # r =>
            file'[p].type # "removed" \/ file'[p].node # n
      BY <1>6
    <3>2. /\ r \in DOMAIN file' /\ r \notin DOMAIN file /\ Grown(file, file')
          /\ file'[r].type = "removed" /\ file'[r].node = n
      BY <1>4, <1>5
    <3>3. At(file', "removed", n) = At(file, "removed", n) \cup {r}
      BY <3>1, <3>2, AtGrown
    <3> QED BY <1>3, <3>3
  <2>3. c \in At(file', "added", n) /\ r <= r
    <3>1. c \in At(file, "added", n) BY <1>2 DEF At
    <3> QED BY <1>1, <1>10, <3>1
  <2>4. \A p \in DOMAIN file' : p \notin DOMAIN file =>
               /\ file'[p].type \in {"property", "begin", "data", "removed"} =>
                    /\ \E a \in At(file', "added", file'[p].node) : a < p
                    /\ \A q \in At(file', "removed", file'[p].node) : p <= q
               /\ file'[p].type # "data"
    <3> SUFFICES ASSUME NEW p \in DOMAIN file', p \notin DOMAIN file
                 PROVE  /\ file'[p].type = "removed" =>
                             /\ \E a \in At(file', "added", file'[p].node) : a < p
                             /\ \A q \in At(file', "removed", file'[p].node) : p <= q
                        /\ file'[p].type \in {"removed", "table"}
      OBVIOUS
    <3>1. file'[p].type = "removed" => p = r /\ file'[p].node = n BY <1>6
    <3>2. file'[p].type \in {"removed", "table"} BY <1>6
    <3> QED BY <1>5, <2>2, <2>3, <3>1, <3>2
  <2> QED BY <1>5, <2>1, <2>4, InsideKept
<1>13. "compress" \notin skipped => Undone(file')
  <2>1. "compress" \notin skipped => Undone(file)
    BY DEF Recorded, UndoLeadsBack, Undone, Positions, At
  <2>2. \A p \in DOMAIN file' : p \notin DOMAIN file => file'[p].type \notin {"data", "property"}
    BY <1>6
  <2> QED BY <1>5, <2>1, <2>2, UndoneKept
<1>14. UndoInv'
  <2> SUFFICES ASSUME NEW t \in Streams, Found(t)'
               PROVE  /\ IsLast(infos'[t].lastProperty, At(file', "property", infos'[t].node))
                      /\ "compress" \notin skipped' =>
                           IsLast(infos'[t].lastData, At(file', "data", infos'[t].node))
    BY DEF UndoInv
  <2>1. Found(t) /\ infos'[t] = infos[t] BY <1>9
  <2>2. /\ IsLast(infos[t].lastProperty, At(file, "property", infos[t].node))
        /\ "compress" \notin skipped => IsLast(infos[t].lastData, At(file, "data", infos[t].node))
    BY <2>1 DEF Recorded, UndoInv
  <2> QED BY <1>2, <1>10, <2>1, <2>2
<1>15. PatchInv'
  <2> DEFINE exact == skipped = {}
  <2>1. Patched(file, exact) BY DEF Recorded, PatchInv
  <2>2. ASSUME NEW p \in DOMAIN file', file'[p].type = "added"
        PROVE  \/ p \in DOMAIN file /\ file'[p] = file[p]
               \/ /\ file'[p].back \in At(file', "table", file'[p].node)
                  /\ exact => file'[p].frame = Len(file'[file'[p].back].index)
    <3>1. p \in DOMAIN file BY <1>6, <2>2
    <3>2. CASE p # c BY <1>4, <3>1, <3>2
    <3>3. CASE p = c /\ two
      <4>1. file'[p].back = b /\ b \in At(file', "table", n) /\ file'[p].node = n
        BY <1>2, <1>4, <1>5, <1>7, <3>3 DEF At
      <4>2. exact => infos[s].frameId = Len(infos[s].index)
        BY <1>2 DEF Recorded, IndexInv
      <4> QED BY <1>7, <3>3, <4>1, <4>2
    <3> QED BY <1>8, <3>1, <3>2, <3>3
  <2> HIDE DEF exact
  <2>3. Patched(file', exact) BY <1>5, <2>1, <2>2, PatchedKept
  <2> QED BY <1>2, <2>3 DEF exact, PatchInv
<1>16. IndexInv'
  <2> SUFFICES ASSUME skipped = {} PROVE IndexInv'
    BY <1>2 DEF IndexInv
  <2>1. /\ \A t \in Streams : Found(t) => /\ infos[t].frameId = Len(infos[t].index)
                                          /\ IsIndex(file, infos[t].index, infos[t].node)
        /\ \A p \in DOMAIN file : file[p].type = "table" =>
             IsIndex(file, file[p].index, file[p].node)
    BY DEF Recorded, IndexInv
  <2>2. \A index, node : IsIndex(file, index, node) => IsIndex(file', index, node)
    BY <1>5, <1>10, IndexKept
  <2>3. \A p \in DOMAIN file' :
          file'[p].type = "table" => IsIndex(file', file'[p].index, file'[p].node)
    <3> SUFFICES ASSUME NEW p \in DOMAIN file', file'[p].type = "table"
                 PROVE  IsIndex(file', file'[p].index, file'[p].node)
      OBVIOUS
    <3>1. CASE p \in DOMAIN file BY <1>4, <2>1, <2>2, <3>1
    <3>2. CASE p \notin DOMAIN file BY <1>2, <1>6, <2>1, <2>2, <3>2
    <3> QED BY <3>1, <3>2
  <2>4. \A t \in Streams : Found(t)' => /\ infos'[t].frameId = Len(infos'[t].index)
                                        /\ IsIndex(file', infos'[t].index, infos'[t].node)
    BY <1>9, <2>1, <2>2
  <2> QED BY <2>3, <2>4 DEF IndexInv
<1>17. ConfigurationInv'
  <2> SUFFICES ASSUME skipped = {}
               PROVE  Covers(file', Entries(file', infos'), configurationId')
    BY <1>2 DEF ConfigurationInv
  <2>1. Covers(file, Entries(file, infos), configurationId)
    BY DEF Recorded, ConfigurationInv
  <2>2. \A t \in Streams : infos'[t] # None => infos[t] # None /\ infos'[t].index = infos[t].index
    BY <1>9 DEF Found
  <2>3. \A p \in DOMAIN file' : p \notin DOMAIN file /\ file'[p].type = "table" =>
          \E t \in Streams : infos[t] # None /\ file'[p].index = infos[t].index
    BY <1>2, <1>6 DEF Found
  <2>4. Entries(file', infos') \subseteq Entries(file, infos)
    BY <1>5, <2>2, <2>3, EntriesKept
  <2>5. \A e \in Entries(file, infos) : e.configuration \in Nat /\ e.pos \in DOMAIN file
    BY EntryPlaces DEF Recorded
  <2>6. \A p \in DOMAIN file' : p \notin DOMAIN file => file'[p].type # "property"
    BY <1>6
  <2>7. Covers(file', Entries(file', infos'), configurationId)
    BY <1>1, <1>5, <2>1, <2>4, <2>5, <2>6, CoversKept
  <2> QED BY <1>2, <2>7
<1>18. RecordsInsideNode'
  BY <1>12 DEF RecordsInsideNode, Inside, Positions, At
<1>19. UndoLeadsBack'
  BY <1>2, <1>13 DEF UndoLeadsBack, Undone, Positions, At
<1> QED BY <1>11, <1>14, <1>15, <1>16, <1>17, <1>18, <1>19 DEF Recorded

\* A property, with which the configuration changes.
LEMMA PropertyFile ==
    ASSUME TypeOK, TalkInv, Recorded, NEW s \in Streams, OnRecordProperty(s)
    PROVE  Recorded'
<1> DEFINE n == infos[s].node
           a == Len(file) + 1
<1>1. /\ maxId \in Nat /\ configurationId \in Nat /\ a \in Nat /\ file \in Seq(Records)
      /\ DOMAIN file = 1..Len(file) /\ Len(file) \in Nat
  BY Bounds DEF TypeOK
<1>2. /\ Found(s) /\ infos[s] \in Infos /\ infos[s].added \in DOMAIN file
      /\ file[infos[s].added].type = "added" /\ file[infos[s].added].node = n
      /\ UNCHANGED <<maxId, skipped>> /\ configurationId' = configurationId + 1
  BY Known DEF OnRecordProperty, senderVars, TalkInv, Recorded, NextConfigurationId
<1>3. /\ \A t \in Streams : Found(t) /\ t # s => infos[t].node # n
      /\ At(file, "removed", n) = {} /\ At(file, "table", n) = {}
  BY <1>2, OwnRecords DEF Recorded
<1>4. \A t \in Streams : Found(t) => infos[t].node # 0 /\ infos[t].node \in Nat
  <2>1. \A t \in Streams : Found(t) => infos[t].node \in 1..maxId BY OwnRecords DEF Recorded
  <2> QED BY <1>1, <2>1
<1>5. /\ file' \in Seq(Records) /\ Len(file') = Len(file) + 1
      /\ \A p \in DOMAIN file : file'[p] = file[p]
      /\ file'[a].type = "property" /\ file'[a].node = n
      /\ file'[a].back = infos[s].lastProperty
      /\ infos'[s] \in Infos /\ infos'[s].node = n /\ infos'[s].added = infos[s].added
      /\ infos'[s].lastProperty = a
      /\ infos'[s].frameId = infos[s].frameId /\ infos'[s].index = infos[s].index
      /\ infos'[s].lastData = infos[s].lastData
      /\ \A t \in Streams \ {s} : infos'[t] = infos[t]
  BY <1>2, PropertyWrites
<1>6. /\ Grown(file, file') /\ a \in DOMAIN file' /\ a \notin DOMAIN file /\ infos[s].added < a
      /\ \A p \in DOMAIN file' : p \in DOMAIN file \/ p = a
  BY <1>1, <1>2, <1>5 DEF Grown
<1> HIDE DEF a
<1>7. \A t \in Streams : /\ Found(t)' <=> Found(t)
                         /\ Found(t) => /\ infos'[t].node = infos[t].node
                                        /\ infos'[t].added = infos[t].added
                                        /\ infos'[t].index = infos[t].index
                                        /\ infos'[t].frameId = infos[t].frameId
                                        /\ infos'[t].lastData = infos[t].lastData
  BY <1>2, <1>5, NoneAssumption DEF Found
<1>8. \A type, node : type # "property" \/ node # n => At(file', type, node) = At(file, type, node)
  BY <1>5, <1>6, AtKept
<1>9. FileInv'
  <2>1. \A t \in Streams : Found(t)' =>
          Found(t) /\ infos'[t].node = infos[t].node /\ infos'[t].added = infos[t].added
    BY <1>7
  <2>2. infos'[s].added # 0
    BY <1>1, <1>2, <1>5
  <2>3. \A p \in DOMAIN file' : p \notin DOMAIN file =>
          \E t \in Streams :
            /\ Found(t) /\ file'[p].node = infos[t].node
            /\ infos'[t].added # 0 /\ file'[p].type \notin {"removed", "table"}
    BY <1>2, <1>5, <1>6, <2>2
  <2> QED BY <1>1, <1>2, <1>4, <1>6, <2>1, <2>3, FileKept DEF Recorded
<1>10. Inside(file')
  <2>1. Inside(file) BY DEF Recorded, RecordsInsideNode, Inside, Positions, At
  <2>2. infos[s].added \in At(file', "added", n) /\ At(file', "removed", n) = {}
    <3>1. infos[s].added \in At(file, "added", n) BY <1>2 DEF At
    <3> QED BY <1>3, <1>8, <3>1
  <2>3. \A p \in DOMAIN file' : p \notin DOMAIN file =>
               /\ \E c \in At(file', "added", file'[p].node) : c < p
               /\ \A q \in At(file', "removed", file'[p].node) : p <= q
               /\ file'[p].type # "data"
    BY <1>5, <1>6, <2>2
  <2> QED BY <1>6, <2>1, <2>3, InsideKept
<1>11. /\ At(file', "property", n) = At(file, "property", n) \cup {a}
       /\ IsLast(a, At(file', "property", n))
  <2>1. file'[a].type = "property" /\ file'[a].node = n BY <1>5
  <2>2. \A p \in DOMAIN file' : p \notin DOMAIN file /\ p # a =>
          file'[p].type # "property" \/ file'[p].node # n
    BY <1>6
  <2> QED BY <1>6, <2>1, <2>2, AtGrown
<1>12. UndoInv'
  <2> SUFFICES ASSUME NEW t \in Streams, Found(t)'
               PROVE  /\ IsLast(infos'[t].lastProperty, At(file', "property", infos'[t].node))
                      /\ "compress" \notin skipped' =>
                           IsLast(infos'[t].lastData, At(file', "data", infos'[t].node))
    BY DEF UndoInv
  <2>1. Found(t) /\ infos'[t].node = infos[t].node /\ infos'[t].lastData = infos[t].lastData
    BY <1>7
  <2>2. /\ IsLast(infos[t].lastProperty, At(file, "property", infos[t].node))
        /\ "compress" \notin skipped => IsLast(infos[t].lastData, At(file, "data", infos[t].node))
    BY <2>1 DEF Recorded, UndoInv
  <2>3. IsLast(infos'[t].lastProperty, At(file', "property", infos'[t].node))
    <3>1. CASE t = s BY <1>5, <1>11, <3>1
    <3>2. CASE t # s BY <1>3, <1>5, <1>8, <2>1, <2>2, <3>2
    <3> QED BY <3>1, <3>2
  <2>4. At(file', "data", infos[t].node) = At(file, "data", infos[t].node) BY <1>8
  <2> QED BY <1>2, <2>1, <2>2, <2>3, <2>4
<1>13. "compress" \notin skipped => Undone(file')
  <2> SUFFICES ASSUME "compress" \notin skipped PROVE Undone(file')
    OBVIOUS
  <2>1. Undone(file)
    BY DEF Recorded, UndoLeadsBack, Undone, Positions, At
  <2>2. {q \in At(file', "property", n) : q < a} = At(file, "property", n)
    <3>1. \A q \in At(file, "property", n) : q < a BY <1>6, GrownFacts DEF At
    <3>2. ~(a < a) BY <1>1
    <3> QED BY <1>11, <3>1, <3>2
  <2>3. IsLast(infos[s].lastProperty, At(file, "property", n))
    BY <1>2 DEF Recorded, UndoInv
  <2>4. IsLast(file'[a].back, {q \in At(file', file'[a].type, file'[a].node) : q < a})
    BY <1>5, <2>2, <2>3
  <2>5. \A p \in DOMAIN file' : p \notin DOMAIN file =>
               IsLast(file'[p].back, {q \in At(file', file'[p].type, file'[p].node) : q < p})
    BY <1>6, <2>4
  <2> QED BY <1>6, <2>1, <2>5, UndoneKept
<1>14. PatchInv'
  <2> DEFINE exact == skipped = {}
  <2>1. Patched(file, exact) BY DEF Recorded, PatchInv
  <2>2. \A p \in DOMAIN file' : file'[p].type = "added" => p \in DOMAIN file /\ file'[p] = file[p]
    BY <1>5, <1>6
  <2> HIDE DEF exact
  <2>3. Patched(file', exact) BY <1>6, <2>1, <2>2, PatchedKept
  <2> QED BY <1>2, <2>3 DEF exact, PatchInv
<1>15. IndexInv'
  <2> SUFFICES ASSUME skipped = {} PROVE IndexInv'
    BY <1>2 DEF IndexInv
  <2>1. /\ \A t \in Streams : Found(t) => /\ infos[t].frameId = Len(infos[t].index)
                                          /\ IsIndex(file, infos[t].index, infos[t].node)
        /\ \A p \in DOMAIN file : file[p].type = "table" =>
             IsIndex(file, file[p].index, file[p].node)
    BY DEF Recorded, IndexInv
  <2>2. \A index, node : IsIndex(file, index, node) => IsIndex(file', index, node)
    BY <1>6, <1>8, IndexKept
  <2>3. \A p \in DOMAIN file' :
          file'[p].type = "table" => IsIndex(file', file'[p].index, file'[p].node)
    <3> SUFFICES ASSUME NEW p \in DOMAIN file', file'[p].type = "table"
                 PROVE  IsIndex(file', file'[p].index, file'[p].node)
      OBVIOUS
    <3>1. p \in DOMAIN file /\ file'[p] = file[p] BY <1>5, <1>6
    <3> QED BY <2>1, <2>2, <3>1
  <2>4. \A t \in Streams : Found(t)' => /\ infos'[t].frameId = Len(infos'[t].index)
                                        /\ IsIndex(file', infos'[t].index, infos'[t].node)
    <3> SUFFICES ASSUME NEW t \in Streams, Found(t)'
                 PROVE  /\ infos'[t].frameId = Len(infos'[t].index)
                        /\ IsIndex(file', infos'[t].index, infos'[t].node)
      OBVIOUS
    <3>1. /\ Found(t) /\ infos'[t].frameId = infos[t].frameId /\ infos'[t].index = infos[t].index
          /\ infos'[t].node = infos[t].node
      BY <1>7
    <3> QED BY <2>1, <2>2, <3>1
  <2> QED BY <2>3, <2>4 DEF IndexInv
<1>16. ConfigurationInv'
  <2> SUFFICES ASSUME skipped = {}
               PROVE  Covers(file', Entries(file', infos'), configurationId')
    BY <1>2 DEF ConfigurationInv
  <2>1. Covers(file, Entries(file, infos), configurationId)
    BY DEF Recorded, ConfigurationInv
  <2>2. \A t \in Streams : infos'[t] # None => infos[t] # None /\ infos'[t].index = infos[t].index
    BY <1>7 DEF Found
  <2>3. \A p \in DOMAIN file' : p \notin DOMAIN file => file'[p].type # "table"
    BY <1>5, <1>6
  <2>4. Entries(file', infos') \subseteq Entries(file, infos)
    BY <1>6, <2>2, <2>3, EntriesKept
  <2>5. \A e \in Entries(file, infos) : e.configuration \in Nat /\ e.pos \in DOMAIN file
    BY EntryPlaces DEF Recorded
  <2>6. configurationId' \in Nat /\ configurationId < configurationId'
    BY <1>1, <1>2
  <2> QED BY <1>1, <1>6, <2>1, <2>4, <2>5, <2>6, CoversKept
<1>17. RecordsInsideNode'
  BY <1>10 DEF RecordsInsideNode, Inside, Positions, At
<1>18. UndoLeadsBack'
  BY <1>2, <1>13 DEF UndoLeadsBack, Undone, Positions, At
<1> QED BY <1>9, <1>12, <1>14, <1>15, <1>16, <1>17, <1>18 DEF Recorded

\* A frame that is not written: its history says so.
LEMMA SkippedFile ==
    ASSUME TypeOK, TalkInv, Recorded, NEW s \in Streams, OnRecord(s), file' = file,
           "compress" \in skipped' \/ ("emit" \in skipped' /\ infos'[s].lastData = infos[s].lastData)
    PROVE  Recorded'
<1>1. /\ Found(s) /\ infos[s] \in Infos /\ maxId' = maxId /\ maxId \in Nat
      /\ file \in Seq(Records)
  BY Bounds, Known DEF OnRecord, senderVars, TalkInv, Recorded, TypeOK
<1>2. /\ infos'[s] \in Infos /\ infos'[s].node = infos[s].node
      /\ infos'[s].added = infos[s].added /\ infos'[s].lastProperty = infos[s].lastProperty
      /\ \A t \in Streams \ {s} : infos'[t] = infos[t]
      /\ skipped \subseteq skipped' /\ skipped' # {}
  BY <1>1, RecordWrites
<1>3. \A t \in Streams : /\ Found(t)' <=> Found(t)
                         /\ Found(t) => /\ infos'[t].node = infos[t].node
                                        /\ infos'[t].added = infos[t].added
                                        /\ infos'[t].lastProperty = infos[t].lastProperty
                                        /\ "compress" \notin skipped' =>
                                             infos'[t].lastData = infos[t].lastData
  BY <1>1, <1>2, NoneAssumption DEF Found
<1>4. FileInv'
  <2>1. Grown(file, file') BY <1>1 DEF Grown
  <2>2. \A t \in Streams : Found(t) => infos[t].node \in 1..maxId BY OwnRecords DEF Recorded
  <2>3. \A t \in Streams : Found(t) => infos[t].node # 0 /\ infos[t].node \in Nat BY <1>1, <2>2
  <2> QED BY <1>1, <1>3, <2>1, <2>3, FileKept DEF Recorded
<1>5. UndoInv'
  <2> SUFFICES ASSUME NEW t \in Streams, Found(t)'
               PROVE  /\ IsLast(infos'[t].lastProperty, At(file', "property", infos'[t].node))
                      /\ "compress" \notin skipped' =>
                           IsLast(infos'[t].lastData, At(file', "data", infos'[t].node))
    BY DEF UndoInv
  <2>1. Found(t) BY <1>3
  <2>2. "compress" \notin skipped' => "compress" \notin skipped BY <1>2
  <2> QED BY <1>3, <2>1, <2>2 DEF Recorded, UndoInv
<1>6. PatchInv'
  <2>1. ~(skipped' = {}) BY <1>2
  <2> QED BY <2>1 DEF Recorded, PatchInv, Patched
<1>7. IndexInv' /\ ConfigurationInv'
  BY <1>2 DEF IndexInv, ConfigurationInv
<1>8. RecordsInsideNode'
  BY DEF Recorded, RecordsInsideNode, Positions
<1>9. UndoLeadsBack'
  BY <1>2 DEF Recorded, UndoLeadsBack, Positions
<1> QED BY <1>4, <1>5, <1>6, <1>7, <1>8, <1>9 DEF Recorded

\* A frame, with its entry, or one that is not written.
LEMMA RecordFile ==
    ASSUME TypeOK, TalkInv, Recorded, NEW s \in Streams, OnRecord(s)
    PROVE  Recorded'
<1> DEFINE n == infos[s].node
           a == Len(file) + 1
<1>1. /\ maxId \in Nat /\ configurationId \in Nat /\ a \in Nat /\ file \in Seq(Records)
      /\ DOMAIN file = 1..Len(file) /\ Len(file) \in Nat
  BY Bounds DEF TypeOK
<1>2. /\ Found(s) /\ infos[s] \in Infos /\ infos[s].added \in DOMAIN file
      /\ file[infos[s].added].type = "added" /\ file[infos[s].added].node = n
      /\ UNCHANGED <<maxId, configurationId>>
  BY Known DEF OnRecord, senderVars, TalkInv, Recorded
<1>3. /\ \A t \in Streams : Found(t) /\ t # s => infos[t].node # n
      /\ At(file, "removed", n) = {} /\ At(file, "table", n) = {}
  BY <1>2, OwnRecords DEF Recorded
<1>4. \A t \in Streams : Found(t) => infos[t].node # 0 /\ infos[t].node \in Nat
  <2>1. \A t \in Streams : Found(t) => infos[t].node \in 1..maxId BY OwnRecords DEF Recorded
  <2> QED BY <1>1, <2>1
<1>f. CASE file' = file
  <2>1. "compress" \in skipped' \/ ("emit" \in skipped' /\ infos'[s].lastData = infos[s].lastData)
    <3>1. \/ Len(file') = Len(file) + 1
          \/ "compress" \in skipped'
          \/ "emit" \in skipped' /\ infos'[s].lastData = infos[s].lastData
      BY <1>2, RecordWrites
    <3>2. Len(file') # Len(file) + 1
      <4>1. Len(file') = Len(file) BY <1>f
      <4>2. \A k \in Nat : k # k + 1 OBVIOUS
      <4>3. Len(file) \in Nat BY <1>1
      <4> QED BY <4>1, <4>2, <4>3
    <3> QED BY <3>1, <3>2
  <2> QED BY <1>f, <2>1, SkippedFile
<1> SUFFICES ASSUME file' # file PROVE Recorded'
  BY <1>f
<1>5. /\ file' \in Seq(Records) /\ Len(file') = Len(file) + 1
      /\ \A p \in DOMAIN file : file'[p] = file[p]
      /\ skipped' = skipped
      /\ file'[a].type = "data" /\ file'[a].node = n
      /\ file'[a].frame = infos[s].frameId + 1 /\ file'[a].back = infos[s].lastData
      /\ infos'[s] \in Infos /\ infos'[s].node = n /\ infos'[s].added = infos[s].added
      /\ infos'[s].lastProperty = infos[s].lastProperty /\ infos'[s].lastData = a
      /\ infos'[s].frameId = infos[s].frameId + 1
      /\ infos'[s].index = Append(infos[s].index, Entry)
      /\ \A t \in Streams \ {s} : infos'[t] = infos[t]
  BY <1>2, RecordWrites
<1>6. /\ Grown(file, file') /\ a \in DOMAIN file' /\ a \notin DOMAIN file /\ infos[s].added < a
      /\ \A p \in DOMAIN file' : p \in DOMAIN file \/ p = a
  BY <1>1, <1>2, <1>5 DEF Grown
<1>e. Entry \in [pos : Nat, configuration : Nat] /\ Entry.pos = a
      /\ Entry.configuration = configurationId
  BY <1>1 DEF Entry
<1>i. infos[s].index \in Tabled /\ infos[s].frameId \in Nat
  BY <1>2 DEF Infos, Tabled
<1> HIDE DEF a
<1>7. \A t \in Streams : /\ Found(t)' <=> Found(t)
                         /\ Found(t) => /\ infos'[t].node = infos[t].node
                                        /\ infos'[t].added = infos[t].added
                                        /\ infos'[t].lastProperty = infos[t].lastProperty
  BY <1>2, <1>5, NoneAssumption DEF Found
<1>8. \A type, node : type # "data" \/ node # n => At(file', type, node) = At(file, type, node)
  BY <1>5, <1>6, AtKept
<1>9. FileInv'
  <2>1. \A t \in Streams : Found(t)' =>
          Found(t) /\ infos'[t].node = infos[t].node /\ infos'[t].added = infos[t].added
    BY <1>7
  <2>2. infos'[s].added # 0
    BY <1>1, <1>2, <1>5
  <2>3. \A p \in DOMAIN file' : p \notin DOMAIN file =>
          \E t \in Streams :
            /\ Found(t) /\ file'[p].node = infos[t].node
            /\ infos'[t].added # 0 /\ file'[p].type \notin {"removed", "table"}
    BY <1>2, <1>5, <1>6, <2>2
  <2> QED BY <1>1, <1>2, <1>4, <1>6, <2>1, <2>3, FileKept DEF Recorded
<1>10. Inside(file')
  <2>1. Inside(file) BY DEF Recorded, RecordsInsideNode, Inside, Positions, At
  <2>2. infos[s].added \in At(file', "added", n) /\ At(file', "removed", n) = {}
    <3>1. infos[s].added \in At(file, "added", n) BY <1>2 DEF At
    <3> QED BY <1>3, <1>8, <3>1
  <2>3. \E b \in At(file', "begin", n) : b < a
    <3>1. Begun(s)
      <4>1. /\ pump.msg \in Messages /\ Pending(pump.msg)
            /\ pump.msg.type = "record" /\ pump.msg.stream = s
        BY PumpTypes DEF Pending, Handled, OnRecord, About, Handling
      <4> QED BY <4>1 DEF TalkInv, MessageInv, Due
    <3>2. PICK b \in At(file, "begin", n) : TRUE BY <3>1 DEF Begun, At
    <3>3. b < a BY <1>6, GrownFacts DEF At
    <3> QED BY <1>8, <3>2, <3>3
  <2>4. \A p \in DOMAIN file' : p \notin DOMAIN file =>
               /\ \E c \in At(file', "added", file'[p].node) : c < p
               /\ \A q \in At(file', "removed", file'[p].node) : p <= q
               /\ \E b \in At(file', "begin", file'[p].node) : b < p
    BY <1>5, <1>6, <2>2, <2>3
  <2> QED BY <1>6, <2>1, <2>4, InsideKept
<1>11. /\ At(file', "data", n) = At(file, "data", n) \cup {a}
       /\ IsLast(a, At(file', "data", n))
  <2>1. file'[a].type = "data" /\ file'[a].node = n BY <1>5
  <2>2. \A p \in DOMAIN file' : p \notin DOMAIN file /\ p # a =>
          file'[p].type # "data" \/ file'[p].node # n
    BY <1>6
  <2> QED BY <1>6, <2>1, <2>2, AtGrown
<1>12. UndoInv'
  <2> SUFFICES ASSUME NEW t \in Streams, Found(t)'
               PROVE  /\ IsLast(infos'[t].lastProperty, At(file', "property", infos'[t].node))
                      /\ "compress" \notin skipped' =>
                           IsLast(infos'[t].lastData, At(file', "data", infos'[t].node))
    BY DEF UndoInv
  <2>1. /\ Found(t) /\ infos'[t].node = infos[t].node
        /\ infos'[t].lastProperty = infos[t].lastProperty
    BY <1>7
  <2>2. /\ IsLast(infos[t].lastProperty, At(file, "property", infos[t].node))
        /\ "compress" \notin skipped => IsLast(infos[t].lastData, At(file, "data", infos[t].node))
    BY <2>1 DEF Recorded, UndoInv
  <2>3. "compress" \notin skipped' => IsLast(infos'[t].lastData, At(file', "data", infos'[t].node))
    <3>1. CASE t = s BY <1>5, <1>11, <3>1
    <3>2. CASE t # s BY <1>3, <1>5, <1>8, <2>1, <2>2, <3>2
    <3> QED BY <3>1, <3>2
  <2>4. At(file', "property", infos[t].node) = At(file, "property", infos[t].node) BY <1>8
  <2> QED BY <2>1, <2>2, <2>3, <2>4
<1>13. "compress" \notin skipped => Undone(file')
  <2> SUFFICES ASSUME "compress" \notin skipped PROVE Undone(file')
    OBVIOUS
  <2>1. Undone(file)
    BY DEF Recorded, UndoLeadsBack, Undone, Positions, At
  <2>2. {q \in At(file', "data", n) : q < a} = At(file, "data", n)
    <3>1. \A q \in At(file, "data", n) : q < a BY <1>6, GrownFacts DEF At
    <3>2. ~(a < a) BY <1>1
    <3> QED BY <1>11, <3>1, <3>2
  <2>3. IsLast(infos[s].lastData, At(file, "data", n))
    BY <1>2 DEF Recorded, UndoInv
  <2>4. IsLast(file'[a].back, {q \in At(file', file'[a].type, file'[a].node) : q < a})
    BY <1>5, <2>2, <2>3
  <2>5. \A p \in DOMAIN file' : p \notin DOMAIN file =>
               IsLast(file'[p].back, {q \in At(file', file'[p].type, file'[p].node) : q < p})
    BY <1>6, <2>4
  <2> QED BY <1>6, <2>1, <2>5, UndoneKept
<1>14. PatchInv'
  <2> DEFINE exact == skipped = {}
  <2>1. Patched(file, exact) BY DEF Recorded, PatchInv
  <2>2. \A p \in DOMAIN file' : file'[p].type = "added" => p \in DOMAIN file /\ file'[p] = file[p]
    BY <1>5, <1>6
  <2> HIDE DEF exact
  <2>3. Patched(file', exact) BY <1>6, <2>1, <2>2, PatchedKept
  <2> QED BY <1>5, <2>3 DEF exact, PatchInv
<1>15. IndexInv'
  <2> SUFFICES ASSUME skipped = {} PROVE IndexInv'
    BY <1>5 DEF IndexInv
  <2>1. /\ \A t \in Streams : Found(t) => /\ infos[t].frameId = Len(infos[t].index)
                                          /\ IsIndex(file, infos[t].index, infos[t].node)
        /\ \A p \in DOMAIN file : file[p].type = "table" =>
             IsIndex(file, file[p].index, file[p].node)
    BY DEF Recorded, IndexInv
  <2>2. \A index, node : node # n /\ IsIndex(file, index, node) => IsIndex(file', index, node)
    BY <1>6, <1>8, IndexKept
  <2>3. \A p \in DOMAIN file' :
          file'[p].type = "table" => IsIndex(file', file'[p].index, file'[p].node)
    <3> SUFFICES ASSUME NEW p \in DOMAIN file', file'[p].type = "table"
                 PROVE  IsIndex(file', file'[p].index, file'[p].node)
      OBVIOUS
    <3>1. p \in DOMAIN file /\ file'[p] = file[p] BY <1>5, <1>6
    <3>2. file[p].node # n BY <1>3, <3>1 DEF At
    <3> QED BY <2>1, <2>2, <3>1, <3>2
  <2>4. infos'[s].frameId = Len(infos'[s].index) /\ IsIndex(file', infos'[s].index, n)
    <3>1. infos[s].frameId = Len(infos[s].index) /\ IsIndex(file, infos[s].index, n)
      BY <1>2, <2>1
    <3>2. Len(Append(infos[s].index, Entry)) = Len(infos[s].index) + 1
      BY <1>i DEF Tabled
    <3>3. file'[a].frame = Len(infos[s].index) + 1 /\ a = Len(file) + 1
      BY <1>5, <3>1 DEF a
    <3>4. IsIndex(file', Append(infos[s].index, Entry), n)
      BY <1>1, <1>6, <1>11, <1>e, <1>i, <3>1, <3>3, IndexGrown
    <3> QED BY <1>5, <3>1, <3>2, <3>4
  <2>5. \A t \in Streams : Found(t)' => /\ infos'[t].frameId = Len(infos'[t].index)
                                        /\ IsIndex(file', infos'[t].index, infos'[t].node)
    <3> SUFFICES ASSUME NEW t \in Streams, Found(t)'
                 PROVE  /\ infos'[t].frameId = Len(infos'[t].index)
                        /\ IsIndex(file', infos'[t].index, infos'[t].node)
      OBVIOUS
    <3>1. CASE t = s BY <1>5, <2>4, <3>1
    <3>2. CASE t # s
      <4>1. Found(t) /\ infos'[t] = infos[t] /\ infos[t].node # n BY <1>3, <1>5, <1>7, <3>2
      <4> QED BY <2>1, <2>2, <4>1
    <3> QED BY <3>1, <3>2
  <2> QED BY <2>3, <2>5 DEF IndexInv
<1>16. ConfigurationInv'
  <2> SUFFICES ASSUME skipped = {}
               PROVE  Covers(file', Entries(file', infos'), configurationId')
    BY <1>5 DEF ConfigurationInv
  <2>1. Covers(file, Entries(file, infos), configurationId)
    BY DEF Recorded, ConfigurationInv
  <2>2. \A p \in DOMAIN file' : p \notin DOMAIN file => file'[p].type # "table"
    BY <1>5, <1>6
  <2>3. Entries(file', infos') \subseteq Entries(file, infos) \cup {Entry}
    <3>1. infos[s] # None BY <1>2 DEF Found
    <3> QED BY <1>5, <1>6, <1>i, <2>2, <3>1, EntriesGrown
  <2>4. \A e \in Entries(file, infos) : e.configuration \in Nat /\ e.pos \in DOMAIN file
    BY EntryPlaces DEF Recorded
  <2>5. /\ Len(file') = Len(file) + 1 /\ file'[Len(file) + 1].type # "property"
        /\ Entry.pos = Len(file) + 1
    BY <1>5, <1>e DEF a
  <2>6. Covers(file', Entries(file', infos'), configurationId)
    BY <1>1, <1>6, <1>e, <2>1, <2>3, <2>4, <2>5, CoversGrown
  <2> QED BY <1>2, <2>6
<1>17. RecordsInsideNode'
  BY <1>10 DEF RecordsInsideNode, Inside, Positions, At
<1>18. UndoLeadsBack'
  BY <1>5, <1>13 DEF UndoLeadsBack, Undone, Positions, At
<1> QED BY <1>9, <1>12, <1>14, <1>15, <1>16, <1>17, <1>18 DEF Recorded

LEMMA RecordedKept ==
    ASSUME TypeOK, TalkInv, Recorded, [Next]_vars
    PROVE  Recorded'
<1>0. file \in Seq(Records) /\ DOMAIN file = 1..Len(file) /\ Len(file) \in Nat
  BY DEF TypeOK
<1>1. CASE UNCHANGED <<file, infos, maxId, skipped, configurationId>>
  <2>1. Grown(file, file') BY <1>0, <1>1 DEF Grown
  <2> QED BY <1>1, <2>1, PlainStep
<1>2. CASE OnStart
  <2>1. /\ file' \in Seq(Records) /\ Len(file) <= Len(file')
        /\ \A p \in DOMAIN file : file'[p] = file[p]
        /\ \A p \in DOMAIN file' : p \notin DOMAIN file =>
             \E s \in Streams : Found(s) /\ file'[p] = Record("begin", infos[s].node)
    BY <1>2, StartWrites
  <2>2. Grown(file, file') BY <1>0, <2>1 DEF Grown
  <2>3. \A s \in Streams : Found(s) => infos[s].added # 0
    BY <1>2, AttachedBefore DEF OnStart, Handling, TalkInv
  <2>4. \A p \in DOMAIN file' : p \notin DOMAIN file =>
          file'[p].type = "begin" /\ \E s \in Streams :
            Found(s) /\ infos[s].added # 0 /\ file'[p].node = infos[s].node
    BY <2>1, <2>3 DEF Record
  <2>5. UNCHANGED <<infos, maxId, skipped, configurationId>>
    BY <1>2 DEF OnStart, senderVars
  <2> QED BY <2>1, <2>2, <2>4, <2>5, PlainStep
<1>3. CASE OnTerminate
  <2>1. Record("end", 0) \in Records /\ Record("end", 0).type = "end" /\ Record("end", 0).node = 0
    BY Bounds, RecordTypes
  <2>2. /\ file' \in Seq(Records) /\ Len(file') = Len(file) + 1
        /\ \A p \in DOMAIN file : file'[p] = file[p]
        /\ file'[Len(file) + 1] = Record("end", 0)
    BY <1>3, <2>1, AppendWrites DEF OnTerminate
  <2>3. Grown(file, file') BY <1>0, <2>2 DEF Grown
  <2>4. \A p \in DOMAIN file' : p \notin DOMAIN file => file'[p].type = "end" /\ file'[p].node = 0
    <3>1. \A p \in DOMAIN file' : p \in DOMAIN file \/ p = Len(file) + 1 BY <1>0, <2>2
    <3> QED BY <2>1, <2>2, <3>1
  <2>5. UNCHANGED <<infos, maxId, skipped, configurationId>>
    BY <1>3 DEF OnTerminate, senderVars
  <2> QED BY <2>2, <2>3, <2>4, <2>5, PlainStep
<1>4. CASE Close \/ Start \/ Stop \/ LockStreams \/ UnlockStreams \/ WaitForThreadExit
           \/ Pop \/ Drop \/ NotifyAllProperties \/ UNCHANGED vars
  BY <1>1, <1>4
  DEF Close, Start, Stop, LockStreams, UnlockStreams, WaitForThreadExit, Pop, Drop,
      NotifyAllProperties, fileVars, senderVars, vars
<1>5. CASE \E s \in Streams :
             RemoveRecorder(s) \/ AttachStream(s) \/ DestroyStream(s) \/ StreamNewFrame(s)
             \/ StreamPropertyChanged(s) \/ DriverStep(s)
  BY <1>1, <1>5
  DEF RemoveRecorder, AttachStream, DestroyStream, StreamNewFrame, StreamPropertyChanged,
      DriverStep, RecordFrame, RecordStreamProperty, fileVars, callerVars
<1> QED
  BY <1>2, <1>3, <1>4, <1>5, AddFile, AttachFile, DetachFile, RecordFile, PropertyFile
  DEF Next, AppStep, PumpStep

-----------------------------------------------------------------------------

LEMMA InitIInv == Init => IInv
<1> SUFFICES ASSUME Init PROVE IInv
  OBVIOUS
<1>1. TypeOK
  BY InitTypes
<1>2. /\ DOMAIN normal = {} /\ DOMAIN high = {} /\ DOMAIN file = {} /\ pump.step = "idle"
      /\ app = AppIdle /\ AppIdle.call = "none" /\ AppIdle.step = "idle"
      /\ \A s \in Streams : ~Found(s) /\ driver[s] = "idle"
  BY DEF Init, PumpIdle, AppIdle, Found
<1>3. \A m : ~Pending(m)
  BY <1>2 DEF Pending, Queued, Urgent, Handled
<1>4. QueueInv /\ MessageInv
  BY <1>2, <1>3 DEF QueueInv, MessageInv
<1>5. StreamInv
  BY <1>2 DEF StreamInv, Notifying, Init
<1>6. AppInv /\ BeginInv
  BY <1>2 DEF AppInv, Closing, BeginInv, Init
<1>7. NoFrameLeaks
  <2>1. RecordsIn(normal) = {} BY <1>2 DEF RecordsIn
  <2>2. Held = 0 BY <1>2 DEF Held
  <2>3. refs = 0 BY DEF Init
  <2> QED BY <1>2, <2>1, <2>2, <2>3, RefsAre, FS_EmptySet
<1>8. FileInv /\ RecordsInsideNode /\ UndoInv /\ UndoLeadsBack /\ PatchInv /\ IndexInv
  BY <1>2 DEF FileInv, RecordsInsideNode, UndoInv, UndoLeadsBack, PatchInv, Patched, IndexInv
<1>9. ConfigurationInv
  <2>1. Entries(file, infos) = {}
    BY <1>2, EntryIs DEF Found
  <2> QED BY <2>1 DEF ConfigurationInv, Covers
<1> QED BY <1>1, <1>4, <1>5, <1>6, <1>7, <1>8, <1>9 DEF IInv, TalkInv, Recorded

LEMMA NextIInv == IInv /\ [Next]_vars => IInv'
<1> SUFFICES ASSUME IInv, [Next]_vars PROVE IInv'
  OBVIOUS
<1>1. TypeOK'
  <2>1. CASE UNCHANGED vars
    BY <2>1 DEF IInv, TypeOK, vars
  <2>2. CASE PumpStep
    BY <2>2, PumpTypesKept DEF IInv, TalkInv, Recorded
  <2>3. CASE Next /\ ~PumpStep
    BY <2>3, CallerTypes DEF IInv, TalkInv, Next
  <2> QED BY <2>1, <2>2, <2>3
<1>2. TalkInv'
  BY TalkKept DEF IInv, Recorded
<1>3. NoFrameLeaks'
  BY FramesKept DEF IInv, Recorded
<1>4. Recorded'
  BY RecordedKept DEF IInv
<1> QED BY <1>1, <1>2, <1>3, <1>4 DEF IInv

\* The messages on their way, the streams and calls that send them, and the file fit
\* together in every state that is reached.
THEOREM RecorderInvariance == Spec => []IInv
BY InitIInv, NextIInv, PTL DEF Spec

\* Every variable keeps its type: no more nodes are added than there are attachments, and
\* messagePump never gives back a frame reference that record() did not take.
THEOREM TypeCorrect == Spec => []TypeOK
<1>1. IInv => TypeOK BY DEF IInv
<1> QED BY <1>1, RecorderInvariance, PTL

\* Whatever is attached, recorded and closed when, the records of a node are between its
\* NODE_ADDED and its NODE_REMOVED, and its frames after its NODE_DATA_BEGIN.
THEOREM RecordsStayInside == Spec => []RecordsInsideNode
<1>1. IInv => RecordsInsideNode BY DEF IInv, Recorded
<1> QED BY <1>1, RecorderInvariance, PTL

\* Each frame reference that record() takes is given back by messagePump, and the
\* thread exits with an empty queue.
THEOREM FramesAreReleased == Spec => []NoFrameLeaks
<1>1. IInv => NoFrameLeaks BY DEF IInv
<1> QED BY <1>1, RecorderInvariance, PTL

\* The undo positions lead from each frame to the frame before it and from each property
\* to its last value.
THEOREM UndoIsExact == Spec => []UndoLeadsBack
<1>1. IInv => UndoLeadsBack BY DEF IInv, Recorded
<1> QED BY <1>1, RecorderInvariance, PTL

\* Seek tables list the positions of the frames of their nodes, in order, and a NODE_ADDED
\* points to the table of its node.
THEOREM SeekTablesAreExact == Spec => []SeekTableIsExact
<1>1. ASSUME IInv PROVE SeekTableIsExact
  <2>1. \A p \in DOMAIN file : file[p].type = "added" /\ file[p].back # 0 =>
          /\ file[p].back \in Positions("table", file[p].node)
          /\ skipped = {} => file[p].frame = Len(file[file[p].back].index)
    BY <1>1 DEF IInv, Recorded, PatchInv, Patched, At, Positions
  <2>2. ASSUME skipped = {}, NEW t \in Tables PROVE IsIndex(file, t[2], t[1])
    <3>1. CASE \E p \in {q \in DOMAIN file : file[q].type = "table"} :
                 t = <<file[p].node, file[p].index>>
      BY <1>1, <2>2, <3>1 DEF IInv, Recorded, IndexInv
    <3>2. CASE \E s \in {u \in Streams : Found(u)} : t = <<infos[s].node, infos[s].index>>
      BY <1>1, <2>2, <3>2 DEF IInv, Recorded, IndexInv
    <3> QED BY <3>1, <3>2 DEF Tables
  <2>3. skipped = {} =>
          \A t \in Tables :
            /\ {t[2][i].pos : i \in DOMAIN t[2]} = Positions("data", t[1])
            /\ \A i \in DOMAIN t[2] : file[t[2][i].pos].frame = i
    BY <2>2 DEF IsIndex, At, Positions
  <2> QED BY <2>1, <2>3 DEF SeekTableIsExact
<1> QED BY <1>1, RecorderInvariance, PTL

\* Between two frames with the same configuration id no property was recorded.
THEOREM ConfigurationsAreTrue == Spec => []ConfigurationCoversProperties
<1>1. ASSUME IInv PROVE ConfigurationCoversProperties
  <2>1. ASSUME NEW t \in Tables, NEW i \in DOMAIN t[2] PROVE t[2][i] \in Entries(file, infos)
    <3>1. CASE \E p \in {q \in DOMAIN file : file[q].type = "table"} :
                 t = <<file[p].node, file[p].index>>
      BY <3>1, EntryIs
    <3>2. CASE \E s \in {u \in Streams : Found(u)} : t = <<infos[s].node, infos[s].index>>
      BY <3>2, EntryIs DEF Found
    <3> QED BY <3>1, <3>2 DEF Tables
  <2> QED
    BY <1>1, <2>1 DEF IInv, Recorded, ConfigurationInv, Covers, ConfigurationCoversProperties
<1> QED BY <1>1, RecorderInvariance, PTL
=============================================================================
