------------------------------ MODULE DepthStream ------------------------------
(***************************************************************************)
(* The life of a depth stream of the PS1080 driver: XnSensorStreamHelper   *)
(* claims the stream, makes its processor and switches the firmware; a     *)
(* thread reads the USB endpoint, finds the packets in its bytes and gives *)
(* their data to the processor, which fills the working buffer and hands   *)
(* on the frames that are whole.                                           *)
(*                                                                         *)
(* Calls of the application (start, stop, setProperty) hold the open lock  *)
(* of the stream, so at most one is in progress. Each of its steps is an   *)
(* action when it waits for something of the reading thread or that thread *)
(* can tell it from the next. The firmware, which is not in this           *)
(* repository, sends each frame in three packets with consecutive ids. The *)
(* data of a packet comes in two chunks, and any of it may be lost.        *)
(***************************************************************************)
EXTENDS Integers, Sequences

CONSTANTS
    PacketIds,      \* packet ids are counted modulo this
    MaxUnits,       \* bound: frames that the firmware sends
    MaxLoss,        \* bound: losses of data
    MaxFails,       \* bound: commands that fail
    MaxNulls,       \* bound: frames that the core does not have
    MaxCalls,       \* bound: calls of the application
    None

ASSUME BoundsAssumption ==
    /\ PacketIds \in Nat \ {0, 1} /\ PacketIds > MaxLoss /\ MaxUnits \in Nat
    /\ {MaxLoss, MaxFails, MaxNulls, MaxCalls} \subseteq Nat

VARIABLES
    call,           \* [at, op]: where the call in progress is, and which it is
    started,        \* XnOniStream::m_started
    refCount,       \* m_nOpenRefCount
    isOpen,         \* m_IsOpen
    claimed,        \* m_FirmwareStreams: the stream owns its entry
    actualRead,     \* m_ActualRead
    mode,           \* m_Stream1Mode is on
    next,           \* the next packet the firmware sends
    parser,         \* CurrState: the packet whose second chunk is missing, or None
    usb,            \* [at, chunk] of the reading thread
    processor,      \* m_DepthProcessor's processor, or None
    lock,           \* who has the lock of m_DepthProcessor
    hLock,          \* who has XnFrameBufferManager::m_hLock
    buffer,         \* the data in m_writeBuffer
    held,           \* references of the driver to frames
    working,        \* m_pWorkingBuffer # NULL
    handed,         \* history: the frame handed on since the last SOF packet
    budget,         \* [calls, losses, fails, nulls] so far
    smooth          \* history: [opens: none failed, buffers: none was replaced unreturned]

vars == <<call, started, refCount, isOpen, claimed, actualRead, mode, next, parser, usb,
          processor, lock, hLock, buffer, held, working, handed, budget, smooth>>

wire == <<mode, next, parser>>
data == <<buffer, held, working, handed>>
status == <<started, refCount, isOpen, claimed, actualRead>>

\* A frame: the two chunks of its SOF packet, of its packet of data, of its EOF packet.
SOF == 1
EOF == 3
FrameSize == 6
Half(i) == IF i % 2 = 1 THEN "first" ELSE "rest"
Part(i) == (i + 1) \div 2

Gone == [at |-> "none", chunk |-> None]
Waiting == [Gone EXCEPT !.at = "wait"]
Idle == [at |-> "idle", op |-> None]

Init ==
    /\ call = Idle /\ started = FALSE /\ refCount = 0 /\ isOpen = FALSE
    /\ claimed = FALSE /\ actualRead = FALSE
    /\ mode = FALSE /\ next = [unit |-> 1, part |-> SOF, id |-> 1] /\ parser = None
    /\ usb = Gone /\ processor = None /\ lock = "free" /\ hLock = "free"
    /\ buffer = <<>> /\ held = 0 /\ working = FALSE
    /\ handed = <<>>
    /\ budget = [calls |-> 0, losses |-> 0, fails |-> 0, nulls |-> 0]
    /\ smooth = [opens |-> TRUE, buffers |-> TRUE]

-----------------------------------------------------------------------------
(* The bytes of the endpoint. *)

Following(p) ==
    [unit |-> IF p.part = EOF THEN p.unit + 1 ELSE p.unit,
     part |-> IF p.part = EOF THEN SOF ELSE p.part + 1,
     id |-> (p.id + 1) % PacketIds]

\* Bytes that follow those the parser has are not the rest of its packet any more.
Cut == IF parser = None THEN None ELSE [parser EXCEPT !.cut = TRUE]

Chunk(packet, half, good) ==
    [unit |-> packet.unit, part |-> packet.part, id |-> packet.id, half |-> half, good |-> good]

\* The header and the first chunk of a packet were found.
BeginPacket ==
    /\ usb.at = "wait" /\ mode /\ parser = None /\ next.unit <= MaxUnits
    /\ usb' = [at |-> "test", chunk |-> Chunk(next, "first", TRUE)]
    /\ parser' = [packet |-> next, cut |-> FALSE]
    /\ next' = Following(next)
    /\ UNCHANGED <<call, status, mode, processor, lock, hLock, data, budget, smooth>>

\* The second chunk. After a loss it is made of the bytes of the next packet, whose
\* header is not seen.
EndPacket ==
    /\ usb.at = "wait" /\ mode /\ parser # None
    /\ parser.cut => next.unit <= MaxUnits
    /\ usb' = [at |-> "test", chunk |-> Chunk(parser.packet, "rest", ~parser.cut)]
    /\ next' = IF parser.cut THEN Following(next) ELSE next
    /\ parser' = None
    /\ UNCHANGED <<call, status, mode, processor, lock, hLock, data, budget, smooth>>

\* The rest of a packet, or a packet after it, is lost.
LoseData ==
    /\ mode /\ next.unit <= MaxUnits
    /\ budget.losses < MaxLoss /\ budget' = [budget EXCEPT !.losses = @ + 1]
    /\ IF parser # None /\ ~parser.cut
       THEN parser' = Cut /\ UNCHANGED next
       ELSE next' = Following(next) /\ UNCHANGED parser
    /\ UNCHANGED <<call, status, mode, usb, processor, lock, hLock, data, smooth>>

-----------------------------------------------------------------------------
(* The reading thread gives a chunk to the processor. *)

\* ProcessData looks for the processor without the lock, and again with it.
TestProcessor ==
    /\ usb.at = "test"
    /\ usb' = IF processor = None THEN Waiting ELSE [usb EXCEPT !.at = "lock"]
    /\ UNCHANGED <<call, status, wire, processor, lock, hLock, data, budget, smooth>>

\* m_nLastPacketID, m_bFrameCorrupted, m_nExpectedFrameSize, and as history the chunks
\* the processor was given since the last SOF packet.
NewProcessor == [last |-> 0, corrupted |-> FALSE, expected |-> 0, seen |-> <<>>]

\* The ids tell of a lost packet.
IdsIgnored(last, id) == FALSE           \* mutant: they are not compared
IdsTell(last, id) == id # last + 1 /\ id # 0

\* ProcessPacketChunk: first the id, then the reset by a SOF packet, then the data, and
\* at last the size of the frame. The buffer has room for one frame.
ProcessChunk ==
    LET c == usb.chunk
        first == c.half = "first"
        sof == first /\ c.part = SOF
        eof == ~first /\ c.part = EOF
        corrupted == ~sof /\ (processor.corrupted \/ (first /\ IdsTell(processor.last, c.id)))
        start == IF sof THEN <<>> ELSE buffer
        fits == ~corrupted /\ Len(start) < FrameSize
        filled == IF fits THEN Append(start, c) ELSE start
        expected == IF sof THEN FrameSize ELSE processor.expected
        bad == ~fits \/ (eof /\ Len(filled) # expected)
    IN
    /\ usb.at = "lock" /\ lock = "free"
    /\ IF processor = None
       THEN usb' = Waiting /\ UNCHANGED <<processor, lock, buffer, handed>>
       ELSE /\ processor' = [last |-> c.id, corrupted |-> bad, expected |-> expected,
                             seen |-> IF sof THEN <<c>> ELSE Append(processor.seen, c)]
            /\ buffer' = IF eof /\ bad THEN <<>> ELSE filled
            /\ handed' = IF sof THEN <<>> ELSE handed
            /\ IF eof /\ ~bad
               THEN usb' = [usb EXCEPT !.at = "mark"] /\ lock' = "usb"
               ELSE usb' = Waiting /\ UNCHANGED lock
    /\ UNCHANGED <<call, status, wire, hLock, held, working, budget, smooth>>

\* MarkWriteBufferAsStable, still under the lock of the processor: the buffer is handed
\* on, as the event of new data (of which XnOniStream passes to the core what comes while
\* it is started), and a new one taken. Without a new one the old one stays, and m_hLock is kept.
MarkWriteBufferAsStable ==
    /\ usb.at = "mark" /\ hLock # "dead"
    /\ \/ /\ handed' = buffer /\ buffer' = <<>>
          /\ UNCHANGED <<hLock, budget>>
       \/ /\ budget.nulls < MaxNulls /\ budget' = [budget EXCEPT !.nulls = @ + 1]
          /\ hLock' = "usb"
          /\ UNCHANGED <<buffer, handed>>
    /\ usb' = Waiting /\ lock' = "free"
    /\ UNCHANGED <<call, status, wire, processor, held, working, smooth>>

\* xnUSBShutdownReadThread waits until the thread has left the processor, and kills it
\* after a timeout, which only passes when the thread waits for a lock nobody leaves.
Stuck ==
    \/ usb.at = "lock" /\ lock \in {"kept", "dead"}
    \/ usb.at = "mark" /\ hLock = "dead"
JoinAnywhere == TRUE                    \* mutant: it is killed wherever it is
CanJoin == usb.at \in {"none", "wait"} \/ Stuck

\* Locks of a thread that is gone stay locked, and the bytes it had not read are lost.
ShutdownReadThread ==
    /\ CanJoin
    /\ parser' = Cut
    /\ lock' = IF lock = "usb" THEN "dead" ELSE lock
    /\ hLock' = IF hLock = "usb" THEN "dead" ELSE hLock

-----------------------------------------------------------------------------
(* Opening the stream. *)

Go(at) == call' = [call EXCEPT !.at = at]
Return == call' = Idle
Fails == budget.fails < MaxFails /\ budget' = [budget EXCEPT !.fails = @ + 1]
FailsOpen == Fails /\ smooth' = [smooth EXCEPT !.opens = FALSE]
Goes(at) == Go(at) /\ UNCHANGED <<budget, smooth>>

\* XnOniStream::start.
Start ==
    /\ call = Idle /\ ~started /\ budget.calls < MaxCalls
    /\ budget' = [budget EXCEPT !.calls = @ + 1]
    /\ IF isOpen
       THEN /\ refCount' = refCount + 1 /\ started' = TRUE
            /\ UNCHANGED call
       ELSE /\ call' = [at |-> "claim", op |-> "start"]
            /\ UNCHANGED <<refCount, started>>
    /\ UNCHANGED <<isOpen, claimed, actualRead, wire, usb, processor, lock, hLock, data, smooth>>

\* Configure: the stream is claimed, and ConfigureStreamImpl shuts the reading thread
\* down; SetActualRead only makes one when m_ActualRead is FALSE. Then it sends commands.
NewThreadFirst == Gone                  \* mutant: it is made before the old one is shut down
NewThread == IF actualRead THEN Gone ELSE Waiting
Configure ==
    /\ call.at = "claim"
    /\ claimed' = TRUE /\ actualRead' = TRUE
    /\ ShutdownReadThread /\ usb' = NewThread
    /\ Goes("create") \/ (FailsOpen /\ Go("release"))
    /\ UNCHANGED <<started, refCount, isOpen, mode, next, processor, data>>

\* CreateDataProcessor takes a working buffer; one that is there is not given back.
AcquireWorking ==
    /\ working' = TRUE /\ held' = held + 1 /\ buffer' = <<>>
    /\ smooth' = [smooth EXCEPT !.buffers = @ /\ ~working]
    /\ UNCHANGED budget
AcquireNothing ==
    /\ budget.nulls < MaxNulls /\ budget' = [budget EXCEPT !.nulls = @ + 1]
    /\ working' = FALSE
    /\ smooth' = [opens |-> call.at # "create" /\ smooth.opens, buffers |-> ~working /\ smooth.buffers]
    /\ UNCHANGED <<held, buffer>>

Create ==
    /\ call.at = "create"
    /\ (AcquireWorking /\ Go("register")) \/ (AcquireNothing /\ Go("release"))
    /\ UNCHANGED <<status, wire, usb, processor, lock, hLock, handed>>

CanLock == lock \in {"free", "kept"}
Register ==
    /\ call.at = "register" /\ CanLock
    /\ processor' = NewProcessor
    /\ Go("frequency")
    /\ UNCHANGED <<status, wire, usb, lock, hLock, data, budget, smooth>>

\* A command that asks for the frequency; when it fails, Open returns at once.
ReadFrequency ==
    /\ call.at = "frequency"
    /\ Goes("mode") \/ (FailsOpen /\ Return)
    /\ UNCHANGED <<status, wire, usb, processor, lock, hLock, data>>

\* OpenStreamImpl switches the mode on, sends more commands, and opens the stream.
SwitchOn ==
    /\ call.at = "mode"
    /\ \/ mode' = TRUE /\ Goes("open")
       \/ FailsOpen /\ Go("release") /\ UNCHANGED mode
    /\ UNCHANGED <<status, next, parser, usb, processor, lock, hLock, data>>
Open ==
    /\ call.at = "open"
    /\ \/ /\ isOpen' = TRUE /\ refCount' = 1
          /\ started' = (started \/ call.op = "start")
          /\ Return /\ UNCHANGED <<budget, smooth>>
       \/ FailsOpen /\ Go("release") /\ UNCHANGED <<isOpen, refCount, started>>
    /\ UNCHANGED <<claimed, actualRead, wire, usb, processor, lock, hLock, data>>

\* ReleaseStream, after a failure or at the end of Close.
ReleaseStream ==
    /\ call.at \in {"release", "closed"} /\ CanLock
    /\ claimed' = FALSE /\ processor' = None
    /\ IF call.at = "closed" /\ call.op = "reopen" THEN Go("claim") ELSE Return
    /\ UNCHANGED <<started, refCount, isOpen, actualRead, wire, usb, lock, hLock, data, budget, smooth>>

-----------------------------------------------------------------------------
(* Closing it, and changing it while it is open. *)

\* XnOniStream::stop.
Stop ==
    /\ call = Idle /\ started
    /\ started' = FALSE /\ refCount' = refCount - 1
    /\ IF refCount = 1 /\ claimed THEN call' = [at |-> "off", op |-> "stop"] ELSE UNCHANGED call
    /\ UNCHANGED <<isOpen, claimed, actualRead, wire, usb, processor, lock, hLock, data, budget, smooth>>

\* setProperty with another frame rate or resolution closes the stream and opens it.
Allowed == refCount <= IF started THEN 1 ELSE 0
SetFPS ==
    /\ call = Idle /\ isOpen /\ Allowed /\ budget.calls < MaxCalls
    /\ budget' = [budget EXCEPT !.calls = @ + 1]
    /\ call' = [at |-> "off", op |-> "reopen"]
    /\ UNCHANGED <<status, wire, usb, processor, lock, hLock, data, smooth>>

\* CloseStreamImpl: without the mode switched off the stream stays open.
SwitchOff ==
    /\ call.at = "off"
    /\ \/ mode' = FALSE /\ parser' = Cut /\ Go("join") /\ UNCHANGED budget
       \/ Fails /\ Return /\ UNCHANGED <<mode, parser>>
    /\ UNCHANGED <<status, next, usb, processor, lock, hLock, data, smooth>>
JoinThread ==
    /\ call.at = "join"
    /\ IF actualRead THEN ShutdownReadThread /\ usb' = Gone ELSE UNCHANGED <<parser, lock, hLock, usb>>
    /\ actualRead' = FALSE
    /\ Go("stop")
    /\ UNCHANGED <<started, refCount, isOpen, claimed, mode, next, processor, data, budget, smooth>>
KeepWorking == 0                        \* mutant: the buffer is only forgotten
ReleaseWorking == IF working THEN 1 ELSE 0
StopBuffers ==
    /\ call.at = "stop"
    /\ held' = held - ReleaseWorking /\ working' = FALSE
    /\ isOpen' = FALSE
    /\ Go("closed")
    /\ UNCHANGED <<started, refCount, claimed, actualRead, wire, usb, processor, lock, hLock,
                   buffer, handed, budget, smooth>>

\* SetOutputFormat while the stream is open waits for the lock of the processor and makes
\* a new one under it. Without a frame for it the call returns and keeps the lock.
SetOutputFormat ==
    /\ call = Idle /\ isOpen /\ Allowed /\ budget.calls < MaxCalls
    /\ budget' = [budget EXCEPT !.calls = @ + 1]
    /\ call' = [at |-> "lock", op |-> "format"]
    /\ UNCHANGED <<status, wire, usb, processor, lock, hLock, data, smooth>>
LockStreamProcessor ==
    /\ call.at = "lock" /\ CanLock
    /\ lock' = IF lock = "free" THEN "app" ELSE lock
    /\ Go("format")
    /\ UNCHANGED <<status, wire, usb, processor, hLock, data, budget, smooth>>
ReplaceProcessor ==
    /\ call.at = "format"
    /\ \/ AcquireWorking /\ processor' = NewProcessor
          /\ lock' = IF lock = "app" THEN "free" ELSE lock
       \/ AcquireNothing /\ lock' = "kept" /\ UNCHANGED processor
    /\ Return
    /\ UNCHANGED <<status, wire, usb, hLock, handed>>

-----------------------------------------------------------------------------
ReadThread == BeginPacket \/ EndPacket \/ TestProcessor \/ ProcessChunk \/ MarkWriteBufferAsStable

OpenStep == Configure \/ Create \/ Register \/ ReadFrequency \/ SwitchOn \/ Open \/ ReleaseStream
CloseStep ==
    SwitchOff \/ JoinThread \/ StopBuffers \/ LockStreamProcessor \/ ReplaceProcessor

Next == ReadThread \/ LoseData \/ Start \/ Stop \/ SetFPS \/ SetOutputFormat \/ OpenStep \/ CloseStep

\* The reading thread and a call that has begun go on as long as they can.
Spec == Init /\ [][Next]_vars
FairSpec ==
    /\ Spec
    /\ WF_vars(OpenStep) /\ WF_vars(CloseStep)
    /\ WF_vars(TestProcessor \/ ProcessChunk \/ MarkWriteBufferAsStable)

-----------------------------------------------------------------------------
(* Types. *)

Packets == [unit : Nat, part : SOF..EOF, id : 0..(PacketIds - 1)]
Parsers == [packet : Packets, cut : BOOLEAN]
Chunks == [unit : Nat, part : SOF..EOF, id : 0..(PacketIds - 1), half : {"first", "rest"},
           good : BOOLEAN]
Threads == [at : {"none", "wait"}, chunk : {None}] \cup [at : {"test", "lock", "mark"}, chunk : Chunks]
Processors == [last : 0..(PacketIds - 1), corrupted : BOOLEAN, expected : {0, FrameSize},
               seen : Seq(Chunks)]

ASSUME NoneAssumption == None \notin Parsers \cup Processors

Calls ==
    [at : {"idle", "claim", "create", "register", "frequency", "mode", "open", "release", "off",
           "join", "stop", "closed", "lock", "format"},
     op : {None, "start", "stop", "reopen", "format"}]
Budgets == [calls : Nat, losses : 0..MaxLoss, fails : Nat, nulls : Nat]
Histories == [opens : BOOLEAN, buffers : BOOLEAN]

TypeOK ==
    /\ call \in Calls
    /\ {started, isOpen, claimed, actualRead, mode, working} \subseteq BOOLEAN
    /\ {refCount, held} \subseteq Int
    /\ next \in Packets /\ parser \in Parsers \cup {None} /\ usb \in Threads
    /\ processor \in Processors \cup {None}
    /\ lock \in {"free", "usb", "app", "kept", "dead"} /\ hLock \in {"free", "usb", "dead"}
    /\ buffer \in Seq(Chunks) /\ handed \in Seq(Chunks)
    /\ budget \in Budgets /\ smooth \in Histories

-----------------------------------------------------------------------------
(* Properties. *)

InOrder(f) == Len(f) = FrameSize /\ \A i \in DOMAIN f : f[i].part = Part(i) /\ f[i].half = Half(i)
Joined(f, i) == f[i].unit = f[i + 1].unit

\* A frame that is handed on is one frame of the firmware, whole and in order, except
\* that the second half of the EOF packet may be made of other bytes, and that data may
\* be missing before a packet with id 0, which is taken after any id.
FrameIsWhole ==
    handed # <<>> =>
        /\ InOrder(handed)
        /\ \A i \in 1..(FrameSize - 1) :
            \/ handed[i].good /\ Joined(handed, i)
            \/ handed[i + 1].half = "first" /\ handed[i + 1].id = 0

\* A frame whose data all came, after whatever loss, is handed on, unless the core had
\* no buffer.
WholeFrameIsHanded ==
    LET f == processor.seen IN
    processor # None /\ usb.at # "mark" /\ budget.nulls = 0 /\ InOrder(f)
        /\ (\A i \in DOMAIN f : f[i].good) /\ (\A i \in 1..(FrameSize - 1) : Joined(f, i))
            => handed = f

\* The two together: exactly the frames that came whole are handed on.
FramesAreExact == FrameIsWhole /\ WholeFrameIsHanded

\* While no call is in progress a stream that is started is open and on, and has what
\* it needs to make frames: a reading thread, a processor and a buffer, unless an open failed
\* or the core had no buffer.
HasReader == usb.at # "none" /\ processor # None /\ working
StartedStreamReads ==
    started /\ call = Idle /\ smooth.opens /\ budget.nulls = 0 => isOpen /\ mode /\ HasReader

\* After a stream was closed the driver keeps no frame of the core, unless a buffer was
\* replaced while it was there; and the thread only hands on a buffer that is there.
BuffersAreReturned ==
    /\ usb.at = "mark" => working
    /\ ~isOpen /\ call = Idle /\ smooth.opens /\ smooth.buffers => held = 0

\* Every call returns, though it waits for the reading thread and for the lock that the
\* thread holds while it hands on a frame. Not so after the core had no buffer.
CallsReturn == call # Idle ~> (call = Idle \/ budget.nulls > 0)

\* "Starts data generation from this video stream": what start promises when it succeeds.
StartedStreamHasReader == started /\ call = Idle => HasReader
=============================================================================
