---------------------------- MODULE DepthStreamProofs ----------------------------
(***************************************************************************)
(* Proofs about DepthStream for any number of packet ids, of losses and of *)
(* failures that the assumptions allow: types, that a stream that is       *)
(* started reads, that the driver's buffers are returned, and that exactly *)
(* the frames that came whole are handed on.                               *)
(***************************************************************************)
EXTENDS DepthStream, TLAPS

\* What a call is for tells where it can be.
CallInv ==
    /\ call.at = "idle" => call.op = None
    /\ call.at \in {"off", "join", "stop", "closed"} => call.op \in {"stop", "reopen"}
    /\ call.at # "idle" /\ call.op \in {"start", "stop"} => ~started
    /\ isOpen => call.at \in {"idle", "lock", "format", "off", "join", "stop"}
    /\ call.at = "lock" => isOpen
    /\ call.at = "format" => isOpen /\ lock \in {"app", "kept"}
    /\ lock = "app" => call.at = "format"

\* While no opening has failed, the steps of opening and closing lead from one state of
\* the stream to the other.
Opening == {"create", "register", "frequency", "mode", "open"}
OpenInv ==
    smooth.opens =>
        /\ call.at # "release"
        /\ started /\ ~isOpen => call.at # "idle" /\ call.op = "reopen"
        /\ call.at \in {"off", "join", "stop"} => isOpen
        /\ actualRead <=> (call.at \in Opening \/ (isOpen /\ call.at # "stop"))
        /\ isOpen /\ call.at \notin {"join", "stop"} => mode
        /\ working => isOpen \/ call.at \in Opening \ {"create"}

\* Then everything that frames are made with is there, if the core had buffers.
ReadsInv ==
    smooth.opens /\ actualRead =>
        /\ usb.at # "none"
        /\ isOpen \/ call.at \in {"frequency", "mode", "open"} => processor # None
        /\ call.at = "open" => mode
        /\ budget.nulls = 0 /\ call.at # "create" => working

\* A thread that reads finds a buffer behind its processor, and has the processor's lock
\* while it hands a frame on.
BufferInv ==
    /\ call.at \in Opening \/ (isOpen /\ call.at # "stop") => actualRead
    /\ ~actualRead => usb.at = "none"
    /\ ~actualRead /\ call.at \notin {"stop", "closed"} => processor = None
    /\ call.at \in {"stop", "closed"} => ~actualRead
    /\ call.at = "create" => usb.at = "none" \/ processor = None
    /\ call.at = "register" => working
    /\ lock = "usb" <=> usb.at = "mark"
    /\ usb.at = "mark" => processor # None
    /\ usb.at # "none" /\ processor # None /\ lock \in {"free", "usb", "app"} => working

\* The driver has a reference to the working buffer, and to no other.
HeldInv == smooth.buffers => held = IF working THEN 1 ELSE 0

LifeInv == CallInv /\ OpenInv /\ ReadsInv /\ BufferInv /\ HeldInv

-----------------------------------------------------------------------------
(* The types. *)

LEMMA Constants ==
    /\ PacketIds \in Nat /\ PacketIds > 1 /\ MaxLoss \in Nat /\ MaxNulls \in Nat
    /\ None \notin Parsers /\ None \notin Processors
BY BoundsAssumption, NoneAssumption

LEMMA Types ==
    ASSUME TypeOK
    PROVE  /\ next \in Packets /\ parser \in Parsers \cup {None} /\ usb \in Threads
           /\ processor \in Processors \cup {None} /\ buffer \in Seq(Chunks)
           /\ usb.at \in {"none", "wait"} => usb.chunk = None
           /\ usb.at \in {"test", "lock", "mark"} => usb.chunk \in Chunks
BY DEF TypeOK, Threads

LEMMA FollowingPacket == \A p \in Packets : Following(p) \in Packets
BY Constants DEF Following, Packets, SOF, EOF

LEMMA CutParser == TypeOK => Cut \in Parsers \cup {None}
BY DEF TypeOK, Cut, Parsers

LEMMA EmptySeq == <<>> \in Seq(Chunks)
OBVIOUS

LEMMA NewProcessorType == NewProcessor \in Processors
BY Constants DEF NewProcessor, Processors

\* Taking a buffer, or not getting one, keeps the types.
LEMMA AcquireTypes ==
    TypeOK /\ (AcquireWorking \/ AcquireNothing) =>
        /\ budget' \in Budgets /\ smooth' \in Histories /\ buffer' \in Seq(Chunks)
        /\ working' \in BOOLEAN /\ held' \in Int
<1> SUFFICES ASSUME TypeOK, AcquireWorking \/ AcquireNothing
             PROVE  /\ budget' \in Budgets /\ smooth' \in Histories /\ buffer' \in Seq(Chunks)
                    /\ working' \in BOOLEAN /\ held' \in Int
  OBVIOUS
<1>1. /\ budget \in Budgets /\ smooth \in Histories /\ buffer \in Seq(Chunks)
      /\ working \in BOOLEAN /\ held \in Int
  BY DEF TypeOK
<1>2. budget' \in Budgets
  BY <1>1 DEF AcquireWorking, AcquireNothing, Budgets
<1>3. smooth' \in Histories
  <2>1. smooth.opens \in BOOLEAN /\ smooth.buffers \in BOOLEAN
    BY <1>1 DEF Histories
  <2>2. PICK opens \in BOOLEAN, buffers \in BOOLEAN : smooth' = [opens |-> opens, buffers |-> buffers]
    <3>1. CASE AcquireWorking
      <4>1. smooth' = [smooth EXCEPT !.buffers = smooth.buffers /\ ~working]
        BY <3>1 DEF AcquireWorking
      <4>2. smooth' = [opens |-> smooth.opens, buffers |-> smooth.buffers /\ ~working]
        BY <1>1, <4>1 DEF Histories
      <4> QED BY <2>1, <4>2
    <3>2. CASE AcquireNothing
      BY <2>1, <3>2 DEF AcquireNothing
    <3> QED BY <3>1, <3>2
  <2> QED BY <2>2 DEF Histories
<1>4. buffer' \in Seq(Chunks)
  <2>1. buffer' = buffer \/ buffer' = <<>>
    BY DEF AcquireWorking, AcquireNothing
  <2> QED BY <1>1, <2>1, EmptySeq
<1>5. working' \in BOOLEAN /\ held' \in Int
  <2>1. working' = TRUE \/ working' = FALSE
    BY DEF AcquireWorking, AcquireNothing
  <2>2. held' = held + 1 \/ held' = held
    BY DEF AcquireWorking, AcquireNothing
  <2>3. held \in Int
    BY <1>1
  <2>4. working' \in BOOLEAN
    BY <2>1
  <2>5. held' \in Int
    BY <2>2, <2>3
  <2> QED BY <2>4, <2>5
<1> QED BY <1>2, <1>3, <1>4, <1>5

LEMMA InitIInv == Init => TypeOK /\ LifeInv
<1> SUFFICES ASSUME Init PROVE TypeOK /\ LifeInv
  OBVIOUS
<1>1. next \in Packets
  BY Constants DEF Init, Packets, SOF, EOF
<1>2. call \in Calls
  BY DEF Init, Idle, Calls
<1>3. usb \in Threads /\ buffer \in Seq(Chunks) /\ handed \in Seq(Chunks)
  BY DEF Init, Gone, Threads
<1>4. budget \in Budgets /\ smooth \in Histories
  BY Constants DEF Init, Budgets, Histories
<1>5. TypeOK
  <2>1. {started, isOpen, claimed, actualRead, mode, working} \subseteq BOOLEAN
    BY DEF Init
  <2>2. {refCount, held} \subseteq Int
    BY DEF Init
  <2>3. parser = None /\ processor = None /\ lock = "free" /\ hLock = "free"
    BY DEF Init
  <2> QED BY <1>1, <1>2, <1>3, <1>4, <2>1, <2>2, <2>3 DEF TypeOK
<1>6. LifeInv
  BY DEF Init, Idle, Gone, LifeInv, CallInv, OpenInv, ReadsInv, BufferInv, HeldInv, Opening
<1> QED BY <1>5, <1>6

LEMMA ChunkTypes ==
    TypeOK /\ ProcessChunk /\ processor # None =>
        /\ processor' \in Processors /\ buffer' \in Seq(Chunks) /\ handed' \in Seq(Chunks)
        /\ usb' \in Threads /\ usb' \in {Waiting, [usb EXCEPT !.at = "mark"]} /\ lock' \in {"usb", lock}
<1> SUFFICES ASSUME TypeOK, ProcessChunk, processor # None
             PROVE  /\ processor' \in Processors /\ buffer' \in Seq(Chunks) /\ handed' \in Seq(Chunks)
                    /\ usb' \in Threads /\ usb' \in {Waiting, [usb EXCEPT !.at = "mark"]}
                    /\ lock' \in {"usb", lock}
  OBVIOUS
<1>p. ProcessChunk /\ processor # None
  OBVIOUS
<1>t. /\ processor \in Processors \cup {None} /\ buffer \in Seq(Chunks) /\ handed \in Seq(Chunks)
      /\ usb \in Threads /\ (usb.at \in {"test", "lock", "mark"} => usb.chunk \in Chunks)
  BY Types DEF TypeOK
<1>c. usb.at = "lock" /\ usb.chunk \in Chunks /\ usb.chunk.id \in 0..(PacketIds - 1)
  BY <1>p, <1>t DEF ProcessChunk, Chunks
<1>1. processor \in Processors
  BY <1>t, <1>p
<1>2. processor.corrupted \in BOOLEAN /\ processor.expected \in {0, FrameSize} /\ processor.seen \in Seq(Chunks)
  BY <1>1 DEF Processors
<1> DEFINE c == usb.chunk
           first == c.half = "first"
           sof == first /\ c.part = SOF
           eof == ~first /\ c.part = EOF
           corrupted == ~sof /\ (processor.corrupted \/ (first /\ IdsTell(processor.last, c.id)))
           start == IF sof THEN <<>> ELSE buffer
           fits == ~corrupted /\ Len(start) < FrameSize
           filled == IF fits THEN Append(start, c) ELSE start
           expected == IF sof THEN FrameSize ELSE processor.expected
           bad == ~fits \/ (eof /\ Len(filled) # expected)
           seen == IF sof THEN <<c>> ELSE Append(processor.seen, c)
<1>3. /\ processor' = [last |-> c.id, corrupted |-> bad, expected |-> expected, seen |-> seen]
      /\ buffer' = IF eof /\ bad THEN <<>> ELSE filled
      /\ handed' = IF sof THEN <<>> ELSE handed
      /\ IF eof /\ ~bad
         THEN usb' = [usb EXCEPT !.at = "mark"] /\ lock' = "usb"
         ELSE usb' = Waiting /\ UNCHANGED lock
  BY <1>p DEF ProcessChunk
<1>4. processor' \in Processors
  <2>1. bad \in BOOLEAN
    OBVIOUS
  <2>2. expected \in {0, FrameSize}
    BY <1>2
  <2>3. seen \in Seq(Chunks)
    <3>1. <<c>> \in Seq(Chunks)
      BY <1>c
    <3>2. Append(processor.seen, c) \in Seq(Chunks)
      BY <1>c, <1>2
    <3> QED BY <3>1, <3>2
  <2> HIDE DEF bad, expected, seen, FrameSize
  <2> QED BY <1>c, <1>3, <2>1, <2>2, <2>3 DEF Processors
<1>5. buffer' \in Seq(Chunks)
  <2>1. start \in Seq(Chunks)
    BY <1>t
  <2> HIDE DEF start, fits, bad, eof
  <2>2. filled \in Seq(Chunks)
    BY <1>c, <2>1
  <2> HIDE DEF filled
  <2> QED BY <1>3, <2>2
<1>6. handed' \in Seq(Chunks)
  <2>1. handed' = handed \/ handed' = <<>>
    BY <1>3
  <2> QED BY <2>1, <1>t, EmptySeq
<1>7. usb' \in {Waiting, [usb EXCEPT !.at = "mark"]} /\ lock' \in {"usb", lock}
  <2> HIDE DEF eof, bad
  <2> QED BY <1>3
<1>8. usb' \in Threads
  BY <1>c, <1>7, <1>t DEF Threads, Waiting, Gone
<1> QED BY <1>4, <1>5, <1>6, <1>7, <1>8

LEMMA TypeStep == TypeOK /\ [Next]_vars => TypeOK'
<1> SUFFICES ASSUME TypeOK, [Next]_vars PROVE TypeOK'
  OBVIOUS
<1> USE DEF status, data, wire
<1>call. call \in Calls
  BY DEF TypeOK
<1>budget. budget \in Budgets
  BY DEF TypeOK
<1>smooth. smooth \in Histories
  BY DEF TypeOK
<1>flags. {started, isOpen, claimed, actualRead, mode, working} \subseteq BOOLEAN
  BY DEF TypeOK
<1>ints. {refCount, held} \subseteq Int
  BY DEF TypeOK
<1>usb. usb \in Threads /\ (usb.at \in {"test", "lock", "mark"} => usb.chunk \in Chunks)
  BY CutParser, Types DEF TypeOK
<1>wire. next \in Packets /\ parser \in Parsers \cup {None} /\ Cut \in Parsers \cup {None}
  BY CutParser, Types DEF TypeOK
<1>locks. lock \in {"free", "usb", "app", "kept", "dead"} /\ hLock \in {"free", "usb", "dead"}
  BY DEF TypeOK
<1>processor. processor \in Processors \cup {None}
  BY DEF TypeOK
<1>data. buffer \in Seq(Chunks) /\ handed \in Seq(Chunks)
  BY DEF TypeOK
<1>1. CASE BeginPacket
  <2>1. next' \in Packets /\ parser' \in Parsers \cup {None}
    BY <1>1, <1>wire, <1>usb, FollowingPacket DEF BeginPacket, Parsers
  <2>2. usb' \in Threads
    BY <1>1, <1>usb, <1>wire DEF BeginPacket, Threads, Chunk, Chunks, Packets
  <2> QED BY <1>1, <2>1, <2>2, <1>call, <1>budget, <1>smooth, <1>flags, <1>ints, <1>usb,
             <1>wire, <1>locks, <1>processor, <1>data DEF BeginPacket, TypeOK
<1>2. CASE EndPacket
  <2>1. next' \in Packets /\ parser' \in Parsers \cup {None}
    BY <1>2, <1>wire, <1>usb, FollowingPacket DEF EndPacket, Parsers
  <2>2. usb' \in Threads
    BY <1>2, <1>usb, <1>wire DEF EndPacket, Threads, Chunk, Chunks, Parsers, Packets
  <2> QED BY <1>2, <2>1, <2>2, <1>call, <1>budget, <1>smooth, <1>flags, <1>ints, <1>usb,
             <1>wire, <1>locks, <1>processor, <1>data DEF EndPacket, TypeOK
<1>3. CASE LoseData
  <2>1. next' \in Packets /\ parser' \in Parsers \cup {None}
    BY <1>3, <1>wire, <1>usb, FollowingPacket DEF LoseData
  <2>2. budget' \in Budgets
    BY <1>3, <1>budget, Constants DEF LoseData, Budgets
  <2> QED BY <1>3, <2>1, <2>2, <1>call, <1>budget, <1>smooth, <1>flags, <1>ints, <1>usb,
             <1>wire, <1>locks, <1>processor, <1>data DEF LoseData, TypeOK
<1>4. CASE TestProcessor
  <2>1. usb' \in Threads
    BY <1>4, <1>usb, <1>wire DEF TestProcessor, Threads, Waiting, Gone
  <2> QED BY <1>4, <2>1, <1>call, <1>budget, <1>smooth, <1>flags, <1>ints, <1>usb, <1>wire,
             <1>locks, <1>processor, <1>data DEF TestProcessor, TypeOK
<1>5. CASE ProcessChunk
  <2>1. CASE processor = None
    BY <1>5, <2>1, <1>call, <1>budget, <1>smooth, <1>flags, <1>ints, <1>usb, <1>wire,
       <1>locks, <1>processor, <1>data DEF ProcessChunk, TypeOK, Threads, Waiting, Gone
  <2>2. CASE processor # None
    BY <1>5, <2>2, <1>call, <1>budget, <1>smooth, <1>flags, <1>ints, <1>usb, <1>wire,
       <1>locks, <1>processor, <1>data, ChunkTypes DEF ProcessChunk, TypeOK
  <2> QED BY <2>1, <2>2
<1>6. CASE MarkWriteBufferAsStable
  <2>1. usb' \in Threads
    BY <1>6, <1>usb, <1>wire DEF MarkWriteBufferAsStable, Threads, Waiting, Gone
  <2>2. budget' \in Budgets
    BY <1>6, <1>budget DEF MarkWriteBufferAsStable, Budgets
  <2>3. lock' \in {"free", "usb", "app", "kept", "dead"} /\ hLock' \in {"free", "usb", "dead"}
    BY <1>6, <1>locks DEF MarkWriteBufferAsStable
  <2>4. /\ handed' \in {handed, buffer} /\ (buffer' = buffer \/ buffer' = <<>>)
        /\ handed' \in Seq(Chunks) /\ buffer' \in Seq(Chunks)
    <3>1. handed' \in {handed, buffer} /\ (buffer' = buffer \/ buffer' = <<>>)
      BY <1>6 DEF MarkWriteBufferAsStable
    <3> QED BY <3>1, <1>data, EmptySeq
  <2> QED BY <1>6, <2>1, <2>2, <2>3, <2>4, <1>call, <1>budget, <1>smooth, <1>flags, <1>ints,
             <1>usb, <1>wire, <1>locks, <1>processor, <1>data DEF MarkWriteBufferAsStable,
             TypeOK
<1>7. CASE Start
  <2>1. call' \in Calls
    BY <1>7, <1>call DEF Start, Calls
  <2>2. budget' \in Budgets
    BY <1>7, <1>budget DEF Start, Budgets
  <2>3. {refCount, held}' \subseteq Int
    BY <1>7, <1>ints, <1>flags DEF Start, Idle
  <2>4. {started, isOpen, claimed, actualRead, mode, working}' \subseteq BOOLEAN
    BY <1>7, <1>flags, <1>call DEF Start
  <2> QED BY <1>7, <2>1, <2>2, <2>3, <2>4, <1>call, <1>budget, <1>smooth, <1>flags, <1>ints,
             <1>usb, <1>wire, <1>locks, <1>processor, <1>data DEF Start, TypeOK
<1>8. CASE Stop
  <2>1. call' \in Calls
    BY <1>8, <1>call DEF Stop, Calls
  <2>2. {refCount, held}' \subseteq Int
    BY <1>8, <1>ints, <1>flags DEF Stop, Idle
  <2>3. {started, isOpen, claimed, actualRead, mode, working}' \subseteq BOOLEAN
    BY <1>8, <1>flags, <1>call DEF Stop
  <2> QED BY <1>8, <2>1, <2>2, <2>3, <1>call, <1>budget, <1>smooth, <1>flags, <1>ints, <1>usb,
             <1>wire, <1>locks, <1>processor, <1>data DEF Stop, TypeOK
<1>9. CASE SetFPS
  <2>1. call' \in Calls
    BY <1>9, <1>call DEF SetFPS, Calls
  <2>2. budget' \in Budgets
    BY <1>9, <1>budget DEF SetFPS, Budgets
  <2> QED BY <1>9, <2>1, <2>2, <1>call, <1>budget, <1>smooth, <1>flags, <1>ints, <1>usb,
             <1>wire, <1>locks, <1>processor, <1>data DEF SetFPS, TypeOK
<1>10. CASE SetOutputFormat
  <2>1. call' \in Calls
    BY <1>10, <1>call DEF SetOutputFormat, Calls
  <2>2. budget' \in Budgets
    BY <1>10, <1>budget DEF SetOutputFormat, Budgets
  <2> QED BY <1>10, <2>1, <2>2, <1>call, <1>budget, <1>smooth, <1>flags, <1>ints, <1>usb,
             <1>wire, <1>locks, <1>processor, <1>data DEF SetOutputFormat, TypeOK
<1>11. CASE Configure
  <2>1. call' \in Calls
    BY <1>11, <1>call DEF Configure, Calls, Go, Goes, Fails, FailsOpen
  <2>2. usb' \in Threads
    BY <1>11, <1>usb, <1>wire DEF Configure, NewThread, Threads, Waiting, Gone
  <2>3. parser' \in Parsers \cup {None} /\ lock' \in {"free", "usb", "app", "kept", "dead"} /\ hLock' \in {"free", "usb", "dead"}
    BY <1>11, <1>wire, <1>locks, CutParser DEF Configure, ShutdownReadThread
  <2>4. budget' \in Budgets
    BY <1>11, <1>budget DEF Configure, Budgets, Go, Goes, Fails, FailsOpen
  <2>5. smooth' \in Histories
    BY <1>11, <1>smooth, <1>flags, <1>call DEF Configure, Histories, Go, Goes, Fails, FailsOpen
  <2> QED BY <1>11, <2>1, <2>2, <2>3, <2>4, <2>5, <1>call, <1>budget, <1>smooth, <1>flags,
             <1>ints, <1>usb, <1>wire, <1>locks, <1>processor, <1>data DEF Configure, TypeOK,
             Go, Goes
<1>12. CASE Create
  <2>1. call' \in Calls
    BY <1>12, <1>call DEF Create, Calls, Go
  <2>2. budget' \in Budgets /\ smooth' \in Histories /\ buffer' \in Seq(Chunks)
    BY <1>12, AcquireTypes DEF Create
  <2>3. {refCount, held}' \subseteq Int
    BY <1>12, <1>ints, <1>flags, AcquireTypes DEF Create
  <2>4. {started, isOpen, claimed, actualRead, mode, working}' \subseteq BOOLEAN
    BY <1>12, <1>flags, <1>call, AcquireTypes DEF Create
  <2> QED BY <1>12, <2>1, <2>2, <2>3, <2>4, <1>call, <1>budget, <1>smooth, <1>flags, <1>ints,
             <1>usb, <1>wire, <1>locks, <1>processor, <1>data DEF Create, TypeOK
<1>13. CASE Register
  <2>1. call' \in Calls
    BY <1>13, <1>call DEF Register, Calls, Go
  <2>2. processor' \in Processors \cup {None}
    BY <1>13, <1>processor, NewProcessorType DEF Register
  <2> QED BY <1>13, <2>1, <2>2, <1>call, <1>budget, <1>smooth, <1>flags, <1>ints, <1>usb,
             <1>wire, <1>locks, <1>processor, <1>data DEF Register, TypeOK, Go
<1>14. CASE ReadFrequency
  <2>1. call' \in Calls
    BY <1>14, <1>call DEF ReadFrequency, Calls, Go, Goes, Return, Idle
  <2>2. budget' \in Budgets
    BY <1>14, <1>budget DEF ReadFrequency, Budgets, Go, Goes, Fails, FailsOpen
  <2>3. smooth' \in Histories
    BY <1>14, <1>smooth, <1>flags, <1>call DEF ReadFrequency, Histories, Go, Goes, Fails,
       FailsOpen
  <2> QED BY <1>14, <2>1, <2>2, <2>3, <1>call, <1>budget, <1>smooth, <1>flags, <1>ints,
             <1>usb, <1>wire, <1>locks, <1>processor, <1>data DEF ReadFrequency, TypeOK
<1>15. CASE SwitchOn
  <2>1. call' \in Calls
    BY <1>15, <1>call DEF SwitchOn, Calls, Go, Goes
  <2>2. budget' \in Budgets
    BY <1>15, <1>budget DEF SwitchOn, Budgets, Go, Goes, Fails, FailsOpen
  <2>3. smooth' \in Histories
    BY <1>15, <1>smooth, <1>flags, <1>call DEF SwitchOn, Histories, Go, Goes, Fails, FailsOpen
  <2>4. {started, isOpen, claimed, actualRead, mode, working}' \subseteq BOOLEAN
    BY <1>15, <1>flags, <1>call DEF SwitchOn
  <2> QED BY <1>15, <2>1, <2>2, <2>3, <2>4, <1>call, <1>budget, <1>smooth, <1>flags, <1>ints,
             <1>usb, <1>wire, <1>locks, <1>processor, <1>data DEF SwitchOn, TypeOK
<1>16. CASE Open
  <2>1. call' \in Calls
    BY <1>16, <1>call DEF Open, Calls, Go, Return, Idle
  <2>2. budget' \in Budgets
    BY <1>16, <1>budget DEF Open, Budgets, Fails, FailsOpen
  <2>3. smooth' \in Histories
    BY <1>16, <1>smooth, <1>flags, <1>call DEF Open, Histories, Fails, FailsOpen
  <2>4. {started, isOpen, claimed, actualRead, mode, working}' \subseteq BOOLEAN
    BY <1>16, <1>flags, <1>call DEF Open
  <2>5. {refCount, held}' \subseteq Int
    BY <1>16, <1>ints, <1>flags DEF Open
  <2> QED BY <1>16, <2>1, <2>2, <2>3, <2>4, <2>5, <1>call, <1>budget, <1>smooth, <1>flags,
             <1>ints, <1>usb, <1>wire, <1>locks, <1>processor, <1>data DEF Open, TypeOK
<1>17. CASE ReleaseStream
  <2>1. call' \in Calls
    BY <1>17, <1>call DEF ReleaseStream, Calls, Go, Return, Idle
  <2>2. {started, isOpen, claimed, actualRead, mode, working}' \subseteq BOOLEAN
    BY <1>17, <1>flags, <1>call DEF ReleaseStream
  <2> QED BY <1>17, <2>1, <2>2, <1>call, <1>budget, <1>smooth, <1>flags, <1>ints, <1>usb,
             <1>wire, <1>locks, <1>processor, <1>data DEF ReleaseStream, TypeOK
<1>18. CASE SwitchOff
  <2>1. call' \in Calls
    BY <1>18, <1>call DEF SwitchOff, Calls, Go, Return, Idle
  <2>2. budget' \in Budgets
    BY <1>18, <1>budget DEF SwitchOff, Budgets, Fails
  <2>3. {started, isOpen, claimed, actualRead, mode, working}' \subseteq BOOLEAN
    BY <1>18, <1>flags, <1>call DEF SwitchOff
  <2>4. parser' \in Parsers \cup {None}
    BY <1>18, <1>wire, CutParser DEF SwitchOff
  <2> QED BY <1>18, <2>1, <2>2, <2>3, <2>4, <1>call, <1>budget, <1>smooth, <1>flags, <1>ints,
             <1>usb, <1>wire, <1>locks, <1>processor, <1>data DEF SwitchOff, TypeOK
<1>19. CASE JoinThread
  <2>1. call' \in Calls
    BY <1>19, <1>call DEF JoinThread, Calls, Go
  <2>2. usb' \in Threads
    BY <1>19, <1>usb, <1>wire DEF JoinThread, Threads, Waiting, Gone
  <2>3. parser' \in Parsers \cup {None} /\ lock' \in {"free", "usb", "app", "kept", "dead"} /\ hLock' \in {"free", "usb", "dead"}
    BY <1>19, <1>wire, <1>locks, CutParser DEF JoinThread, ShutdownReadThread
  <2>4. {started, isOpen, claimed, actualRead, mode, working}' \subseteq BOOLEAN
    BY <1>19, <1>flags, <1>call DEF JoinThread
  <2> QED BY <1>19, <2>1, <2>2, <2>3, <2>4, <1>call, <1>budget, <1>smooth, <1>flags, <1>ints,
             <1>usb, <1>wire, <1>locks, <1>processor, <1>data DEF JoinThread, TypeOK
<1>20. CASE StopBuffers
  <2>1. call' \in Calls
    BY <1>20, <1>call DEF StopBuffers, Calls, Go
  <2>2. {refCount, held}' \subseteq Int
    BY <1>20, <1>ints, <1>flags DEF StopBuffers, ReleaseWorking
  <2>3. {started, isOpen, claimed, actualRead, mode, working}' \subseteq BOOLEAN
    BY <1>20, <1>flags, <1>call DEF StopBuffers
  <2> QED BY <1>20, <2>1, <2>2, <2>3, <1>call, <1>budget, <1>smooth, <1>flags, <1>ints,
             <1>usb, <1>wire, <1>locks, <1>processor, <1>data DEF StopBuffers, TypeOK
<1>20a. CASE LockStreamProcessor
  <2>1. call' \in Calls /\ lock' \in {"free", "usb", "app", "kept", "dead"}
    BY <1>20a, <1>call, <1>locks DEF LockStreamProcessor, Calls, Go
  <2> QED BY <1>20a, <2>1, <1>call, <1>budget, <1>smooth, <1>flags, <1>ints, <1>usb,
             <1>wire, <1>locks, <1>processor, <1>data DEF LockStreamProcessor, TypeOK
<1>21. CASE ReplaceProcessor
  <2>1. call' \in Calls
    BY <1>21, <1>call DEF ReplaceProcessor, Calls, Return, Idle
  <2>2. budget' \in Budgets /\ smooth' \in Histories /\ buffer' \in Seq(Chunks)
    BY <1>21, AcquireTypes DEF ReplaceProcessor
  <2>3. {refCount, held}' \subseteq Int
    BY <1>21, <1>ints, <1>flags, AcquireTypes DEF ReplaceProcessor
  <2>4. {started, isOpen, claimed, actualRead, mode, working}' \subseteq BOOLEAN
    BY <1>21, <1>flags, <1>call, AcquireTypes DEF ReplaceProcessor
  <2>5. processor' \in Processors \cup {None}
    BY <1>21, <1>processor, NewProcessorType DEF ReplaceProcessor
  <2>6. lock' \in {"free", "usb", "app", "kept", "dead"}
    BY <1>21, <1>locks DEF ReplaceProcessor
  <2> QED BY <1>21, <2>1, <2>2, <2>3, <2>4, <2>5, <2>6, <1>call, <1>budget, <1>smooth,
             <1>flags, <1>ints, <1>usb, <1>wire, <1>locks, <1>processor, <1>data
             DEF ReplaceProcessor, TypeOK
<1>22. CASE UNCHANGED vars
  BY <1>22 DEF vars, TypeOK
<1> QED
  BY <1>1, <1>2, <1>3, <1>4, <1>5, <1>6, <1>7, <1>8, <1>9, <1>10, <1>11, <1>12, <1>13,
     <1>14, <1>15, <1>16, <1>17, <1>18, <1>19, <1>20, <1>20a, <1>21, <1>22
  DEF Next, ReadThread, OpenStep, CloseStep

-----------------------------------------------------------------------------
(* The life of the stream. *)

\* What the steps that an action is made of do to the parts of the state.
LEMMA Acquired ==
    TypeOK =>
        /\ AcquireWorking =>
            /\ working' = TRUE /\ held' = held + 1 /\ UNCHANGED budget
            /\ smooth'.opens = smooth.opens /\ smooth'.buffers = (smooth.buffers /\ ~working)
        /\ AcquireNothing =>
            /\ working' = FALSE /\ held' = held /\ budget'.nulls # 0
            /\ smooth'.opens = (call.at # "create" /\ smooth.opens)
            /\ smooth'.buffers = (~working /\ smooth.buffers)
<1> SUFFICES ASSUME TypeOK
             PROVE  /\ AcquireWorking =>
                        /\ working' = TRUE /\ held' = held + 1 /\ UNCHANGED budget
                        /\ smooth'.opens = smooth.opens /\ smooth'.buffers = (smooth.buffers /\ ~working)
                    /\ AcquireNothing =>
                        /\ working' = FALSE /\ held' = held /\ budget'.nulls # 0
                        /\ smooth'.opens = (call.at # "create" /\ smooth.opens)
                        /\ smooth'.buffers = (~working /\ smooth.buffers)
  OBVIOUS
<1>1. smooth \in [opens : BOOLEAN, buffers : BOOLEAN]
  BY DEF TypeOK, Histories
<1>2. budget \in [calls : Nat, losses : 0..MaxLoss, fails : Nat, nulls : Nat]
  BY DEF TypeOK, Budgets
<1>3. ASSUME AcquireWorking
      PROVE  /\ working' = TRUE /\ held' = held + 1 /\ UNCHANGED budget
             /\ smooth'.opens = smooth.opens /\ smooth'.buffers = (smooth.buffers /\ ~working)
  BY <1>1, <1>3 DEF AcquireWorking
<1>4. ASSUME AcquireNothing
      PROVE  /\ working' = FALSE /\ held' = held /\ budget'.nulls # 0
             /\ smooth'.opens = (call.at # "create" /\ smooth.opens)
             /\ smooth'.buffers = (~working /\ smooth.buffers)
  <2>1. budget' = [budget EXCEPT !.nulls = budget.nulls + 1]
    BY <1>4 DEF AcquireNothing
  <2>2. budget'.nulls # 0
    BY <1>2, <2>1
  <2> QED BY <1>4, <2>2 DEF AcquireNothing
<1> QED BY <1>3, <1>4

LEMMA Failed ==
    TypeOK /\ FailsOpen => smooth'.opens = FALSE /\ smooth'.buffers = smooth.buffers
                           /\ budget'.nulls = budget.nulls
BY DEF TypeOK, FailsOpen, Fails, Budgets, Histories

LEMMA Processed ==
    TypeOK /\ ProcessChunk =>
        /\ usb.at = "lock" /\ lock = "free"
        /\ (processor' = None) = (processor = None)
        /\ \/ usb'.at = "wait" /\ lock' = "free"
           \/ usb'.at = "mark" /\ lock' = "usb" /\ processor # None
        /\ UNCHANGED <<call, status, wire, hLock, held, working, budget, smooth>>
<1> SUFFICES ASSUME TypeOK, ProcessChunk
             PROVE  /\ usb.at = "lock" /\ lock = "free"
                    /\ (processor' = None) = (processor = None)
                    /\ \/ usb'.at = "wait" /\ lock' = "free"
                       \/ usb'.at = "mark" /\ lock' = "usb" /\ processor # None
                    /\ UNCHANGED <<call, status, wire, hLock, held, working, budget, smooth>>
  OBVIOUS
<1>1. usb \in Threads
  BY DEF TypeOK
<1>2. /\ usb.at = "lock" /\ lock = "free"
      /\ UNCHANGED <<call, status, wire, hLock, held, working, budget, smooth>>
  BY DEF ProcessChunk
<1>3. CASE processor = None
  <2>1. processor' = processor /\ lock' = lock /\ usb' = Waiting
    BY <1>3 DEF ProcessChunk
  <2> QED BY <1>2, <1>3, <2>1 DEF Waiting, Gone
<1>4. CASE processor # None
  <2>1. processor' # None
    BY <1>4, ChunkTypes, Constants
  <2>2. \/ usb' = Waiting /\ lock' = lock
        \/ usb' = [usb EXCEPT !.at = "mark"] /\ lock' = "usb"
    BY <1>4 DEF ProcessChunk
  <2>3. usb' = [usb EXCEPT !.at = "mark"] => usb'.at = "mark"
    BY <1>1 DEF Threads
  <2> QED BY <1>2, <1>4, <2>1, <2>2, <2>3 DEF Waiting, Gone
<1> QED BY <1>3, <1>4

LEMMA CallStep == TypeOK /\ LifeInv /\ [Next]_vars => CallInv'
<1> SUFFICES ASSUME TypeOK, LifeInv, [Next]_vars PROVE CallInv'
  OBVIOUS
<1> USE DEF status, data, wire
<1>0. /\ CallInv
      /\ DOMAIN call = {"at", "op"} /\ call = [at |-> call.at, op |-> call.op]
      /\ {started, isOpen, actualRead, mode, working, smooth.opens, smooth.buffers} \subseteq BOOLEAN
      /\ budget.nulls \in Nat /\ smooth \in [opens : BOOLEAN, buffers : BOOLEAN]
      /\ held \in Int /\ budget \in [calls : Nat, losses : 0..MaxLoss, fails : Nat, nulls : Nat]
      /\ usb.at \in {"none", "wait", "test", "lock", "mark"}
  BY DEF LifeInv, TypeOK, Threads, Calls, Budgets, Histories
<1>1. CASE BeginPacket
  BY <1>1, <1>0 DEF BeginPacket, CallInv, Opening
<1>2. CASE EndPacket
  BY <1>2, <1>0 DEF EndPacket, CallInv, Opening
<1>3. CASE LoseData
  BY <1>3, <1>0 DEF LoseData, CallInv, Opening
<1>4. CASE TestProcessor
  BY <1>4, <1>0 DEF TestProcessor, CallInv, Opening, Waiting, Gone
<1>5. CASE ProcessChunk
  BY <1>5, <1>0 DEF ProcessChunk, CallInv, Opening, Waiting, Gone
<1>6. CASE MarkWriteBufferAsStable
  <2>1. lock = "usb" /\ lock' = "free"
    BY <1>6 DEF MarkWriteBufferAsStable, LifeInv, BufferInv
  <2> QED BY <1>6, <1>0, <2>1 DEF MarkWriteBufferAsStable, CallInv
<1>7. CASE Start
  BY <1>7, <1>0 DEF Start, CallInv, Opening, Idle
<1>8. CASE Stop
  BY <1>8, <1>0 DEF Stop, CallInv, Opening, Idle
<1>9. CASE SetFPS
  BY <1>9, <1>0 DEF SetFPS, CallInv, Opening, Idle
<1>10. CASE SetOutputFormat
  BY <1>10, <1>0 DEF SetOutputFormat, CallInv, Opening, Idle
<1>11. CASE Configure
  BY <1>11, <1>0 DEF Configure, CallInv, Opening, NewThread, Waiting, Gone, Goes, Go,
     FailsOpen, Fails, ShutdownReadThread, CanJoin, Stuck
<1>12. CASE Create
  BY <1>12, <1>0 DEF Create, CallInv, Opening, AcquireWorking, AcquireNothing, Go
<1>13. CASE Register
  BY <1>13, <1>0 DEF Register, CallInv, Opening, Go, CanLock
<1>14. CASE ReadFrequency
  BY <1>14, <1>0 DEF ReadFrequency, CallInv, Opening, Goes, Go, FailsOpen, Fails, Return, Idle
<1>15. CASE SwitchOn
  BY <1>15, <1>0 DEF SwitchOn, CallInv, Opening, Goes, Go, FailsOpen, Fails
<1>16. CASE Open
  BY <1>16, <1>0 DEF Open, CallInv, Opening, Go, FailsOpen, Fails, Return, Idle
<1>17. CASE ReleaseStream
  BY <1>17, <1>0 DEF ReleaseStream, CallInv, Opening, Go, Return, Idle, CanLock
<1>18. CASE SwitchOff
  BY <1>18, <1>0 DEF SwitchOff, CallInv, Opening, Go, Fails, Return, Idle
<1>19. CASE JoinThread
  BY <1>19, <1>0 DEF JoinThread, CallInv, Opening, ShutdownReadThread, CanJoin, Stuck, Gone, Go
<1>20. CASE StopBuffers
  BY <1>20, <1>0 DEF StopBuffers, CallInv, Opening, Go, ReleaseWorking
<1>20a. CASE LockStreamProcessor
  BY <1>20a, <1>0 DEF LockStreamProcessor, CallInv, Opening, CanLock, Go
<1>21. CASE ReplaceProcessor
  BY <1>21, <1>0 DEF ReplaceProcessor, CallInv, Opening, AcquireWorking, AcquireNothing,
     Return, Idle
<1>22. CASE UNCHANGED vars
  BY <1>22, <1>0 DEF vars, CallInv, Opening
<1> QED
  BY <1>1, <1>2, <1>3, <1>4, <1>5, <1>6, <1>7, <1>8, <1>9, <1>10, <1>11, <1>12, <1>13,
     <1>14, <1>15, <1>16, <1>17, <1>18, <1>19, <1>20, <1>20a, <1>21, <1>22
  DEF Next, ReadThread, OpenStep, CloseStep

LEMMA OpeningStep == TypeOK /\ LifeInv /\ [Next]_vars => OpenInv'
<1> SUFFICES ASSUME TypeOK, LifeInv, [Next]_vars PROVE OpenInv'
  OBVIOUS
<1> USE DEF status, data, wire
<1>0. /\ CallInv /\ OpenInv /\ ReadsInv
      /\ DOMAIN call = {"at", "op"} /\ call = [at |-> call.at, op |-> call.op]
      /\ {started, isOpen, actualRead, mode, working, smooth.opens, smooth.buffers} \subseteq BOOLEAN
      /\ budget.nulls \in Nat /\ smooth \in [opens : BOOLEAN, buffers : BOOLEAN]
      /\ held \in Int /\ budget \in [calls : Nat, losses : 0..MaxLoss, fails : Nat, nulls : Nat]
      /\ usb.at \in {"none", "wait", "test", "lock", "mark"}
  BY DEF LifeInv, TypeOK, Threads, Calls, Budgets, Histories
<1>1. CASE BeginPacket
  BY <1>1, <1>0 DEF BeginPacket, CallInv, OpenInv, ReadsInv, Opening
<1>2. CASE EndPacket
  BY <1>2, <1>0 DEF EndPacket, CallInv, OpenInv, ReadsInv, Opening
<1>3. CASE LoseData
  BY <1>3, <1>0 DEF LoseData, CallInv, OpenInv, ReadsInv, Opening
<1>4. CASE TestProcessor
  BY <1>4, <1>0 DEF TestProcessor, CallInv, OpenInv, ReadsInv, Opening, Waiting, Gone
<1>5. CASE ProcessChunk
  BY <1>5, <1>0 DEF ProcessChunk, CallInv, OpenInv, ReadsInv, Opening, Waiting, Gone
<1>6. CASE MarkWriteBufferAsStable
  BY <1>6, <1>0 DEF MarkWriteBufferAsStable, CallInv, OpenInv, ReadsInv, Opening, Waiting, Gone
<1>7. CASE Start
  BY <1>7, <1>0 DEF Start, CallInv, OpenInv, ReadsInv, Opening, Idle
<1>8. CASE Stop
  BY <1>8, <1>0 DEF Stop, CallInv, OpenInv, ReadsInv, Opening, Idle
<1>9. CASE SetFPS
  BY <1>9, <1>0 DEF SetFPS, CallInv, OpenInv, ReadsInv, Opening, Idle
<1>10. CASE SetOutputFormat
  BY <1>10, <1>0 DEF SetOutputFormat, CallInv, OpenInv, ReadsInv, Opening, Idle
<1>11. CASE Configure
  BY <1>11, <1>0 DEF Configure, CallInv, OpenInv, ReadsInv, Opening, NewThread, Waiting, Gone,
     Goes, Go, FailsOpen, Fails, ShutdownReadThread, CanJoin, Stuck
<1>12. CASE Create
  BY <1>12, <1>0 DEF Create, CallInv, OpenInv, ReadsInv, Opening, AcquireWorking,
     AcquireNothing, Go
<1>13. CASE Register
  BY <1>13, <1>0 DEF Register, CallInv, OpenInv, ReadsInv, Opening, Go, CanLock
<1>14. CASE ReadFrequency
  BY <1>14, <1>0 DEF ReadFrequency, CallInv, OpenInv, ReadsInv, Opening, Goes, Go, FailsOpen,
     Fails, Return, Idle
<1>15. CASE SwitchOn
  BY <1>15, <1>0 DEF SwitchOn, CallInv, OpenInv, ReadsInv, Opening, Goes, Go, FailsOpen, Fails
<1>16. CASE Open
  <2>1. CASE FailsOpen /\ Go("release") /\ UNCHANGED <<isOpen, refCount, started>>
    BY <1>16, <1>0, <2>1, Failed DEF Open, Go, CallInv, OpenInv, ReadsInv, Opening
  <2>2. CASE isOpen' = TRUE /\ started' = (started \/ call.op = "start") /\ Return /\ UNCHANGED <<budget, smooth>>
    BY <1>16, <1>0, <2>2 DEF Open, Return, Idle, CallInv, OpenInv, ReadsInv, Opening
  <2> QED BY <1>16, <2>1, <2>2 DEF Open
<1>17. CASE ReleaseStream
  BY <1>17, <1>0 DEF ReleaseStream, CallInv, OpenInv, ReadsInv, Opening, Go, Return, Idle,
     CanLock
<1>18. CASE SwitchOff
  <2>1. CASE mode' = FALSE /\ Go("join") /\ UNCHANGED budget
    BY <1>18, <1>0, <2>1 DEF SwitchOff, Go, CallInv, OpenInv, ReadsInv, Opening
  <2>2. CASE Fails /\ Return /\ UNCHANGED mode
    <3>1. budget'.nulls = budget.nulls
      BY <1>0, <2>2 DEF Fails
    <3> QED BY <1>18, <1>0, <2>2, <3>1 DEF SwitchOff, Return, Idle, CallInv, OpenInv,
               ReadsInv, Opening
  <2> QED BY <1>18, <2>1, <2>2 DEF SwitchOff
<1>19. CASE JoinThread
  BY <1>19, <1>0 DEF JoinThread, CallInv, OpenInv, ReadsInv, Opening, ShutdownReadThread,
     CanJoin, Stuck, Gone, Go
<1>20. CASE StopBuffers
  BY <1>20, <1>0 DEF StopBuffers, CallInv, OpenInv, ReadsInv, Opening, Go, ReleaseWorking
<1>20a. CASE LockStreamProcessor
  BY <1>20a, <1>0 DEF LockStreamProcessor, CallInv, OpenInv, ReadsInv, Opening, CanLock, Go
<1>21. CASE ReplaceProcessor
  <2>1. call' = Idle /\ call.at = "format"
    BY <1>21 DEF ReplaceProcessor, Return
  <2>2. CASE AcquireWorking /\ processor' = NewProcessor /\ lock' = IF lock = "app" THEN "free" ELSE lock
    <3>1. processor' # None
      BY <2>2, NewProcessorType, Constants
    <3> QED BY <1>21, <1>0, <2>1, <2>2, <3>1, Acquired DEF ReplaceProcessor, Idle, CallInv,
               OpenInv, ReadsInv, Opening
  <2>3. CASE AcquireNothing /\ lock' = "kept" /\ UNCHANGED processor
    BY <1>21, <1>0, <2>1, <2>3, Acquired DEF ReplaceProcessor, Idle, CallInv, OpenInv,
       ReadsInv, Opening
  <2> QED BY <1>21, <2>2, <2>3 DEF ReplaceProcessor
<1>22. CASE UNCHANGED vars
  BY <1>22, <1>0 DEF vars, CallInv, OpenInv, ReadsInv, Opening
<1> QED
  BY <1>1, <1>2, <1>3, <1>4, <1>5, <1>6, <1>7, <1>8, <1>9, <1>10, <1>11, <1>12, <1>13,
     <1>14, <1>15, <1>16, <1>17, <1>18, <1>19, <1>20, <1>20a, <1>21, <1>22
  DEF Next, ReadThread, OpenStep, CloseStep

LEMMA ReadsStep == TypeOK /\ LifeInv /\ [Next]_vars => ReadsInv'
<1> SUFFICES ASSUME TypeOK, LifeInv, [Next]_vars PROVE ReadsInv'
  OBVIOUS
<1> USE DEF status, data, wire
<1>0. /\ CallInv /\ OpenInv /\ ReadsInv /\ BufferInv
      /\ DOMAIN call = {"at", "op"} /\ call = [at |-> call.at, op |-> call.op]
      /\ {started, isOpen, actualRead, mode, working, smooth.opens, smooth.buffers} \subseteq BOOLEAN
      /\ budget.nulls \in Nat /\ smooth \in [opens : BOOLEAN, buffers : BOOLEAN]
      /\ held \in Int /\ budget \in [calls : Nat, losses : 0..MaxLoss, fails : Nat, nulls : Nat]
      /\ usb.at \in {"none", "wait", "test", "lock", "mark"}
  BY DEF LifeInv, TypeOK, Threads, Calls, Budgets, Histories
<1>1. CASE BeginPacket
  BY <1>1, <1>0 DEF BeginPacket, CallInv, OpenInv, ReadsInv, BufferInv, Opening
<1>2. CASE EndPacket
  BY <1>2, <1>0 DEF EndPacket, CallInv, OpenInv, ReadsInv, BufferInv, Opening
<1>3. CASE LoseData
  BY <1>3, <1>0 DEF LoseData, CallInv, OpenInv, ReadsInv, BufferInv, Opening
<1>4. CASE TestProcessor
  BY <1>4, <1>0 DEF TestProcessor, CallInv, OpenInv, ReadsInv, BufferInv, Opening, Waiting, Gone
<1>5. CASE ProcessChunk
  BY <1>5, <1>0, Processed DEF CallInv, OpenInv, ReadsInv, BufferInv, Opening
<1>6. CASE MarkWriteBufferAsStable
  BY <1>6, <1>0 DEF MarkWriteBufferAsStable, CallInv, OpenInv, ReadsInv, BufferInv, Opening,
     Waiting, Gone
<1>7. CASE Start
  BY <1>7, <1>0 DEF Start, CallInv, OpenInv, ReadsInv, BufferInv, Opening, Idle
<1>8. CASE Stop
  BY <1>8, <1>0 DEF Stop, CallInv, OpenInv, ReadsInv, BufferInv, Opening, Idle
<1>9. CASE SetFPS
  BY <1>9, <1>0 DEF SetFPS, CallInv, OpenInv, ReadsInv, BufferInv, Opening, Idle
<1>10. CASE SetOutputFormat
  BY <1>10, <1>0 DEF SetOutputFormat, CallInv, OpenInv, ReadsInv, BufferInv, Opening, Idle
<1>11. CASE Configure
  BY <1>11, <1>0 DEF Configure, CallInv, OpenInv, ReadsInv, BufferInv, Opening, NewThread,
     Waiting, Gone, Goes, Go, FailsOpen, Fails, ShutdownReadThread, CanJoin, Stuck
<1>12. CASE Create
  BY <1>12, <1>0 DEF Create, CallInv, OpenInv, ReadsInv, BufferInv, Opening, AcquireWorking,
     AcquireNothing, Go
<1>13. CASE Register
  <2>1. processor' # None
    BY <1>13, NewProcessorType, Constants DEF Register
  <2> HIDE DEF NewProcessor
  <2> QED BY <1>13, <1>0, <2>1 DEF Register, Go, CanLock, CallInv, OpenInv, ReadsInv,
             BufferInv, Opening
<1>14. CASE ReadFrequency
  BY <1>14, <1>0 DEF ReadFrequency, CallInv, OpenInv, ReadsInv, BufferInv, Opening, Goes, Go,
     FailsOpen, Fails, Return, Idle
<1>15. CASE SwitchOn
  BY <1>15, <1>0 DEF SwitchOn, CallInv, OpenInv, ReadsInv, BufferInv, Opening, Goes, Go,
     FailsOpen, Fails
<1>16. CASE Open
  BY <1>16, <1>0 DEF Open, CallInv, OpenInv, ReadsInv, BufferInv, Opening, Go, FailsOpen,
     Fails, Return, Idle
<1>17. CASE ReleaseStream
  BY <1>17, <1>0 DEF ReleaseStream, CallInv, OpenInv, ReadsInv, BufferInv, Opening, Go,
     Return, Idle, CanLock
<1>18. CASE SwitchOff
  BY <1>18, <1>0 DEF SwitchOff, CallInv, OpenInv, ReadsInv, BufferInv, Opening, Go, Fails,
     Return, Idle
<1>19. CASE JoinThread
  BY <1>19, <1>0 DEF JoinThread, CallInv, OpenInv, ReadsInv, BufferInv, Opening,
     ShutdownReadThread, CanJoin, Stuck, Gone, Go
<1>20. CASE StopBuffers
  BY <1>20, <1>0 DEF StopBuffers, CallInv, OpenInv, ReadsInv, BufferInv, Opening, Go,
     ReleaseWorking
<1>20a. CASE LockStreamProcessor
  BY <1>20a, <1>0 DEF LockStreamProcessor, CallInv, OpenInv, ReadsInv, BufferInv,
     Opening, CanLock, Go
<1>21. CASE ReplaceProcessor
  <2>1. call' = Idle /\ call.at = "format"
    BY <1>21 DEF ReplaceProcessor, Return
  <2>2. CASE AcquireWorking /\ processor' = NewProcessor /\ lock' = IF lock = "app" THEN "free" ELSE lock
    <3>1. processor' # None
      BY <2>2, NewProcessorType, Constants
    <3> QED BY <1>21, <1>0, <2>1, <2>2, <3>1, Acquired DEF ReplaceProcessor, Idle, CallInv,
               OpenInv, ReadsInv, BufferInv, Opening
  <2>3. CASE AcquireNothing /\ lock' = "kept" /\ UNCHANGED processor
    BY <1>21, <1>0, <2>1, <2>3, Acquired DEF ReplaceProcessor, Idle, CallInv, OpenInv,
       ReadsInv, BufferInv, Opening
  <2> QED BY <1>21, <2>2, <2>3 DEF ReplaceProcessor
<1>22. CASE UNCHANGED vars
  BY <1>22, <1>0 DEF vars, CallInv, OpenInv, ReadsInv, BufferInv, Opening
<1> QED
  BY <1>1, <1>2, <1>3, <1>4, <1>5, <1>6, <1>7, <1>8, <1>9, <1>10, <1>11, <1>12, <1>13,
     <1>14, <1>15, <1>16, <1>17, <1>18, <1>19, <1>20, <1>20a, <1>21, <1>22
  DEF Next, ReadThread, OpenStep, CloseStep

LEMMA BufferStep == TypeOK /\ LifeInv /\ [Next]_vars => BufferInv'
<1> SUFFICES ASSUME TypeOK, LifeInv, [Next]_vars PROVE BufferInv'
  OBVIOUS
<1> USE DEF status, data, wire
<1>0. /\ CallInv /\ BufferInv
      /\ DOMAIN call = {"at", "op"} /\ call = [at |-> call.at, op |-> call.op]
      /\ {started, isOpen, actualRead, mode, working, smooth.opens, smooth.buffers} \subseteq BOOLEAN
      /\ budget.nulls \in Nat /\ smooth \in [opens : BOOLEAN, buffers : BOOLEAN]
      /\ held \in Int /\ budget \in [calls : Nat, losses : 0..MaxLoss, fails : Nat, nulls : Nat]
      /\ usb.at \in {"none", "wait", "test", "lock", "mark"}
  BY DEF LifeInv, TypeOK, Threads, Calls, Budgets, Histories
<1>1. CASE BeginPacket
  BY <1>1, <1>0 DEF BeginPacket, CallInv, BufferInv, Opening
<1>2. CASE EndPacket
  BY <1>2, <1>0 DEF EndPacket, CallInv, BufferInv, Opening
<1>3. CASE LoseData
  BY <1>3, <1>0 DEF LoseData, CallInv, BufferInv, Opening
<1>4. CASE TestProcessor
  BY <1>4, <1>0 DEF TestProcessor, CallInv, BufferInv, Opening, Waiting, Gone
<1>5. CASE ProcessChunk
  BY <1>5, <1>0, Processed DEF CallInv, BufferInv, Opening
<1>6. CASE MarkWriteBufferAsStable
  BY <1>6, <1>0 DEF MarkWriteBufferAsStable, CallInv, BufferInv, Opening, Waiting, Gone
<1>7. CASE Start
  BY <1>7, <1>0 DEF Start, CallInv, BufferInv, Opening, Idle
<1>8. CASE Stop
  BY <1>8, <1>0 DEF Stop, CallInv, BufferInv, Opening, Idle
<1>9. CASE SetFPS
  BY <1>9, <1>0 DEF SetFPS, CallInv, BufferInv, Opening, Idle
<1>10. CASE SetOutputFormat
  BY <1>10, <1>0 DEF SetOutputFormat, CallInv, BufferInv, Opening, Idle
<1>11. CASE Configure
  BY <1>11, <1>0 DEF Configure, CallInv, BufferInv, Opening, NewThread, Waiting, Gone, Goes,
     Go, FailsOpen, Fails, ShutdownReadThread, CanJoin, Stuck
<1>12. CASE Create
  BY <1>12, <1>0 DEF Create, CallInv, BufferInv, Opening, AcquireWorking, AcquireNothing, Go
<1>13. CASE Register
  <2>1. processor' # None
    BY <1>13, NewProcessorType, Constants DEF Register
  <2> HIDE DEF NewProcessor
  <2> QED BY <1>13, <1>0, <2>1 DEF Register, Go, CanLock, CallInv, BufferInv, Opening
<1>14. CASE ReadFrequency
  BY <1>14, <1>0 DEF ReadFrequency, CallInv, BufferInv, Opening, Goes, Go, FailsOpen, Fails,
     Return, Idle
<1>15. CASE SwitchOn
  BY <1>15, <1>0 DEF SwitchOn, CallInv, BufferInv, Opening, Goes, Go, FailsOpen, Fails
<1>16. CASE Open
  BY <1>16, <1>0 DEF Open, CallInv, BufferInv, Opening, Go, FailsOpen, Fails, Return, Idle
<1>17. CASE ReleaseStream
  BY <1>17, <1>0 DEF ReleaseStream, CallInv, BufferInv, Opening, Go, Return, Idle, CanLock
<1>18. CASE SwitchOff
  BY <1>18, <1>0 DEF SwitchOff, CallInv, BufferInv, Opening, Go, Fails, Return, Idle
<1>19. CASE JoinThread
  BY <1>19, <1>0 DEF JoinThread, CallInv, BufferInv, Opening, ShutdownReadThread, CanJoin,
     Stuck, Gone, Go
<1>20. CASE StopBuffers
  BY <1>20, <1>0 DEF StopBuffers, CallInv, BufferInv, Opening, Go, ReleaseWorking
<1>20a. CASE LockStreamProcessor
  BY <1>20a, <1>0 DEF LockStreamProcessor, CallInv, BufferInv, Opening, CanLock, Go
<1>21. CASE ReplaceProcessor
  <2>1. call' = Idle /\ call.at = "format"
    BY <1>21 DEF ReplaceProcessor, Return
  <2>2. CASE AcquireWorking /\ processor' = NewProcessor /\ lock' = IF lock = "app" THEN "free" ELSE lock
    <3>1. processor' # None
      BY <2>2, NewProcessorType, Constants
    <3> QED BY <1>21, <1>0, <2>1, <2>2, <3>1, Acquired DEF ReplaceProcessor, Idle, CallInv,
               BufferInv, Opening
  <2>3. CASE AcquireNothing /\ lock' = "kept" /\ UNCHANGED processor
    BY <1>21, <1>0, <2>1, <2>3, Acquired DEF ReplaceProcessor, Idle, CallInv, BufferInv, Opening
  <2> QED BY <1>21, <2>2, <2>3 DEF ReplaceProcessor
<1>22. CASE UNCHANGED vars
  BY <1>22, <1>0 DEF vars, CallInv, BufferInv, Opening
<1> QED
  BY <1>1, <1>2, <1>3, <1>4, <1>5, <1>6, <1>7, <1>8, <1>9, <1>10, <1>11, <1>12, <1>13,
     <1>14, <1>15, <1>16, <1>17, <1>18, <1>19, <1>20, <1>20a, <1>21, <1>22
  DEF Next, ReadThread, OpenStep, CloseStep

LEMMA HeldStep == TypeOK /\ LifeInv /\ [Next]_vars => HeldInv'
<1> SUFFICES ASSUME TypeOK, LifeInv, [Next]_vars PROVE HeldInv'
  OBVIOUS
<1> USE DEF status, data, wire
<1>0. /\ HeldInv
      /\ DOMAIN call = {"at", "op"} /\ call = [at |-> call.at, op |-> call.op]
      /\ {started, isOpen, actualRead, mode, working, smooth.opens, smooth.buffers} \subseteq BOOLEAN
      /\ budget.nulls \in Nat /\ smooth \in [opens : BOOLEAN, buffers : BOOLEAN]
      /\ held \in Int /\ budget \in [calls : Nat, losses : 0..MaxLoss, fails : Nat, nulls : Nat]
      /\ usb.at \in {"none", "wait", "test", "lock", "mark"}
  BY DEF LifeInv, TypeOK, Threads, Calls, Budgets, Histories
<1>1. CASE BeginPacket
  BY <1>1, <1>0 DEF BeginPacket, HeldInv, Opening
<1>2. CASE EndPacket
  BY <1>2, <1>0 DEF EndPacket, HeldInv, Opening
<1>3. CASE LoseData
  BY <1>3, <1>0 DEF LoseData, HeldInv, Opening
<1>4. CASE TestProcessor
  BY <1>4, <1>0 DEF TestProcessor, HeldInv, Opening, Waiting, Gone
<1>5. CASE ProcessChunk
  BY <1>5, <1>0 DEF ProcessChunk, HeldInv, Opening, Waiting, Gone
<1>6. CASE MarkWriteBufferAsStable
  BY <1>6, <1>0 DEF MarkWriteBufferAsStable, HeldInv, Opening, Waiting, Gone
<1>7. CASE Start
  BY <1>7, <1>0 DEF Start, HeldInv, Opening, Idle
<1>8. CASE Stop
  BY <1>8, <1>0 DEF Stop, HeldInv, Opening, Idle
<1>9. CASE SetFPS
  BY <1>9, <1>0 DEF SetFPS, HeldInv, Opening, Idle
<1>10. CASE SetOutputFormat
  BY <1>10, <1>0 DEF SetOutputFormat, HeldInv, Opening, Idle
<1>11. CASE Configure
  BY <1>11, <1>0 DEF Configure, HeldInv, Opening, NewThread, Waiting, Gone, Goes, Go,
     FailsOpen, Fails, ShutdownReadThread, CanJoin, Stuck
<1>12. CASE Create
  <2>1. CASE AcquireWorking
    <3>1. held' = held + 1 /\ working' = TRUE /\ smooth'.buffers = (smooth.buffers /\ ~working)
      BY <2>1, Acquired
    <3>2. ASSUME smooth'.buffers PROVE held' = 1
      <4>1. smooth.buffers /\ ~working
        BY <3>1, <3>2
      <4>2. held = 0
        BY <1>0, <4>1 DEF HeldInv
      <4> QED BY <3>1, <4>2
    <3> QED BY <3>1, <3>2 DEF HeldInv
  <2>2. CASE AcquireNothing
    <3>1. held' = held /\ working' = FALSE /\ smooth'.buffers = (~working /\ smooth.buffers)
      BY <2>2, Acquired
    <3> QED BY <1>0, <3>1 DEF HeldInv
  <2> QED BY <1>12, <2>1, <2>2 DEF Create
<1>13. CASE Register
  BY <1>13, <1>0 DEF Register, HeldInv, Opening, Go, CanLock
<1>14. CASE ReadFrequency
  BY <1>14, <1>0 DEF ReadFrequency, HeldInv, Opening, Goes, Go, FailsOpen, Fails, Return, Idle
<1>15. CASE SwitchOn
  BY <1>15, <1>0 DEF SwitchOn, HeldInv, Opening, Goes, Go, FailsOpen, Fails
<1>16. CASE Open
  BY <1>16, <1>0 DEF Open, HeldInv, Opening, Go, FailsOpen, Fails, Return, Idle
<1>17. CASE ReleaseStream
  BY <1>17, <1>0 DEF ReleaseStream, HeldInv, Opening, Go, Return, Idle, CanLock
<1>18. CASE SwitchOff
  BY <1>18, <1>0 DEF SwitchOff, HeldInv, Opening, Go, Fails, Return, Idle
<1>19. CASE JoinThread
  BY <1>19, <1>0 DEF JoinThread, HeldInv, Opening, ShutdownReadThread, CanJoin, Stuck, Gone, Go
<1>20. CASE StopBuffers
  BY <1>20, <1>0 DEF StopBuffers, HeldInv, Opening, Go, ReleaseWorking
<1>20a. CASE LockStreamProcessor
  BY <1>20a, <1>0 DEF LockStreamProcessor, HeldInv, Opening, CanLock, Go
<1>21. CASE ReplaceProcessor
  <2>1. CASE AcquireWorking
    <3>1. held' = held + 1 /\ working' = TRUE /\ smooth'.buffers = (smooth.buffers /\ ~working)
      BY <2>1, Acquired
    <3>2. ASSUME smooth'.buffers PROVE held' = 1
      <4>1. smooth.buffers /\ ~working
        BY <3>1, <3>2
      <4>2. held = 0
        BY <1>0, <4>1 DEF HeldInv
      <4> QED BY <3>1, <4>2
    <3> QED BY <3>1, <3>2 DEF HeldInv
  <2>2. CASE AcquireNothing
    <3>1. held' = held /\ working' = FALSE /\ smooth'.buffers = (~working /\ smooth.buffers)
      BY <2>2, Acquired
    <3> QED BY <1>0, <3>1 DEF HeldInv
  <2> QED BY <1>21, <2>1, <2>2 DEF ReplaceProcessor
<1>22. CASE UNCHANGED vars
  BY <1>22, <1>0 DEF vars, HeldInv, Opening
<1> QED
  BY <1>1, <1>2, <1>3, <1>4, <1>5, <1>6, <1>7, <1>8, <1>9, <1>10, <1>11, <1>12, <1>13,
     <1>14, <1>15, <1>16, <1>17, <1>18, <1>19, <1>20, <1>20a, <1>21, <1>22
  DEF Next, ReadThread, OpenStep, CloseStep

-----------------------------------------------------------------------------
(* Which frames are handed on. *)

\* The place of a packet, or of the packet of a chunk, in all that the firmware sends.
Place(c) == 3 * (c.unit - 1) + c.part
\* Its id counts with its place.
Numbered(c) == \E k \in Nat : Place(c) = k * PacketIds + c.id
SamePacket(c, p) == c.unit = p.unit /\ c.part = p.part /\ c.id = p.id

Last == processor.seen[Len(processor.seen)]
Handling == usb.at \in {"test", "lock"}
Begins == usb.chunk.half = "first"
\* The processor was given a SOF packet.
Sized == processor # None /\ processor.expected = FrameSize
\* The place of the next packet whose header will be seen.
Ahead == IF parser # None /\ parser.cut THEN Place(next) + 1 ELSE Place(next)

NumberInv ==
    /\ Numbered(next)
    /\ parser # None => Numbered(parser.packet) /\ Place(parser.packet) < Place(next)
    /\ Handling => Numbered(usb.chunk)
    /\ processor # None => \A i \in DOMAIN processor.seen : Numbered(processor.seen[i])

SeenInv ==
    /\ processor # None =>
         /\ processor.expected = FrameSize => processor.seen # <<>>
         /\ processor.seen # <<>> => processor.last = Last.id
    /\ hLock # "free" => budget.nulls > 0

\* The firmware sends nothing to a processor that was left behind by an opening.
QuietInv ==
    /\ mode => actualRead /\ call.at # "join"
    /\ call.at = "register" => usb.at = "none" \/ processor = None
    /\ ~mode /\ call.at \in {"create", "register", "frequency", "mode"} =>
         /\ usb.at \in {"none", "wait"}
         /\ Sized => usb.at = "none"

\* The chunk that is handled comes after the last one, and no more packets are missing
\* between them than were lost.
PendingInv ==
    Handling =>
        /\ Begins => usb.chunk.good
        /\ Sized /\ ~Begins =>
             Last.half = "first" /\ Last.good /\ SamePacket(Last, usb.chunk)
        /\ Sized /\ Begins =>
             /\ Last.half = "rest"
             /\ Place(usb.chunk) > Place(Last)
             /\ ~Last.good => Place(usb.chunk) > Place(Last) + 1
             /\ Place(usb.chunk) - Place(Last) - 1 <= budget.losses

\* So will the chunks that are to come.
ComingInv ==
    mode =>
        /\ Handling /\ Begins =>
             /\ parser # None /\ SamePacket(usb.chunk, parser.packet)
             /\ Place(usb.chunk) < Ahead /\ Ahead - Place(usb.chunk) - 1 <= budget.losses
             /\ Sized => Ahead - Place(Last) - 2 <= budget.losses
        /\ Handling /\ ~Begins =>
             /\ parser = None
             /\ Place(usb.chunk) < Ahead
             /\ ~usb.chunk.good => Place(usb.chunk) + 1 < Ahead
             /\ Sized => Ahead - Place(Last) - 1 <= budget.losses
        /\ Sized /\ usb.at \in {"wait", "mark"} =>
             /\ parser = None <=> Last.half = "rest"
             /\ parser # None => SamePacket(Last, parser.packet) /\ Last.good
             /\ Place(Last) < Ahead /\ (~Last.good => Place(Last) + 1 < Ahead)
             /\ Ahead - Place(Last) - 1 <= budget.losses

Linked(f, i) == (f[i].good /\ Joined(f, i)) \/ (f[i + 1].half = "first" /\ f[i + 1].id = 0)

\* The beginning of a frame, of at most one packet of data, or too many packets.
Began(f) ==
    /\ \A i \in DOMAIN f : f[i].half = Half(i)
    /\ f[1].part = SOF
    /\ Len(f) >= 2 => f[2].part = SOF
    /\ Len(f) >= 3 => f[3].part # SOF
    /\ Len(f) >= 4 => f[3].part = 2 /\ f[4].part = 2
    /\ Len(f) >= 5 => f[5].part # SOF
    /\ \A i \in 1..(Len(f) - 1) : Linked(f, i)

\* What follows a frame when the next SOF packet was lost: it does not get the size of
\* a frame, since only one packet with id 0 comes before the losses are used up.
Headless(f) ==
    \/ Len(f) = 1 /\ f[1].half = "first" /\ f[1].part = EOF
    \/ Len(f) = 1 /\ f[1].half = "first" /\ f[1].part = 2 /\ f[1].id = 0
    \/ Len(f) = 2 /\ f[2].half = "rest" /\ f[2].part = 2 /\ f[2].id = 0
    \/ Len(f) = 3 /\ f[3].half = "first" /\ f[3].part = EOF
HeadlessLoss ==
    /\ Handling /\ Begins => Place(usb.chunk) - Place(Last) <= budget.losses
    /\ mode /\ ~(Handling /\ Begins) => Ahead - Place(Last) <= budget.losses

FrameLike(f) == InOrder(f) /\ \A i \in 1..(FrameSize - 1) : Linked(f, i)

FillInv ==
    /\ usb.at = "mark" =>
         /\ Sized /\ ~processor.corrupted /\ Last.part = EOF /\ Last.half = "rest"
         /\ FrameLike(buffer)
    /\ Sized /\ ~processor.corrupted /\ usb.at \in {"test", "lock", "wait"} =>
        /\ buffer = <<>> => Last.part = EOF /\ Last.half = "rest"
        /\ Len(buffer) \in 1..(FrameSize - 1) =>
             /\ Last = buffer[Len(buffer)]
             /\ \/ Began(buffer)
                \/ Headless(buffer) /\ (Last.part = 2 => HeadlessLoss)

Faultless(f) ==
    /\ Len(f) \in 1..FrameSize
    /\ \A i \in DOMAIN f : f[i].part = Part(i) /\ f[i].half = Half(i) /\ f[i].good
    /\ \A i \in 1..(Len(f) - 1) : Joined(f, i)

HandInv ==
    processor # None /\ Faultless(processor.seen) =>
        /\ Sized /\ ~processor.corrupted
        /\ Len(processor.seen) < FrameSize /\ usb.at # "none" => buffer = processor.seen
        /\ Len(processor.seen) = FrameSize =>
             IF usb.at = "mark" THEN buffer = processor.seen
             ELSE budget.nulls = 0 => handed = processor.seen

Framed ==
    NumberInv /\ SeenInv /\ PendingInv /\ ComingInv /\ FillInv /\ HandInv /\ FrameIsWhole

FramesInv == QuietInv /\ Framed

-----------------------------------------------------------------------------
(* Places and ids. *)

LEMMA Places ==
    ASSUME NEW a \in Packets \cup Chunks, NEW b \in Packets \cup Chunks
    PROVE  /\ Place(a) \in Int /\ Place(b) \in Int
           /\ Place(b) = Place(a) + 1 /\ a.part # EOF => b.unit = a.unit /\ b.part = a.part + 1
           /\ Place(b) = Place(a) + 1 /\ a.part = EOF => b.part = SOF
           /\ b.unit = a.unit /\ b.part = a.part + 1 => Place(b) = Place(a) + 1
           /\ b.unit = a.unit /\ b.part = a.part => Place(b) = Place(a)
<1>1. /\ a.unit \in Nat /\ b.unit \in Nat /\ a.part \in 1..3 /\ b.part \in 1..3
  BY DEF Packets, Chunks, SOF, EOF
<1> QED BY <1>1 DEF Place, SOF, EOF

\* The firmware counts its ids.
LEMMA FollowingNumber ==
    ASSUME NEW p \in Packets
    PROVE  /\ Place(Following(p)) = Place(p) + 1
           /\ Numbered(p) => Numbered(Following(p))
<1>1. /\ p.unit \in Nat /\ p.part \in 1..3 /\ p.id \in 0..(PacketIds - 1)
      /\ PacketIds \in Nat /\ PacketIds > 1
  BY Constants DEF Packets, SOF, EOF
<1>2. Place(Following(p)) = Place(p) + 1
  BY <1>1 DEF Place, Following, SOF, EOF
<1>3. Following(p).id = IF p.id + 1 = PacketIds THEN 0 ELSE p.id + 1
  <2>1. Following(p).id = (p.id + 1) % PacketIds BY DEF Following
  <2>2. p.id + 1 = PacketIds => (p.id + 1) % PacketIds = 0 BY <1>1
  <2>3. p.id + 1 < PacketIds => (p.id + 1) % PacketIds = p.id + 1 BY <1>1
  <2> QED BY <1>1, <2>1, <2>2, <2>3
<1>4. ASSUME Numbered(p) PROVE Numbered(Following(p))
  <2> HIDE DEF Place, Following
  <2>1. PICK k \in Nat : Place(p) = k * PacketIds + p.id BY <1>4 DEF Numbered
  <2>2. CASE p.id + 1 = PacketIds
    <3>1. k + 1 \in Nat /\ (k + 1) * PacketIds = k * PacketIds + PacketIds BY <1>1
    <3>2. Place(Following(p)) = (k + 1) * PacketIds + Following(p).id
      BY <1>1, <1>2, <1>3, <2>1, <2>2, <3>1
    <3> QED BY <3>1, <3>2 DEF Numbered
  <2>3. CASE p.id + 1 # PacketIds
    <3>1. Place(Following(p)) = k * PacketIds + Following(p).id
      BY <1>1, <1>2, <1>3, <2>1, <2>3
    <3> QED BY <3>1 DEF Numbered
  <2> QED BY <2>2, <2>3
<1> QED BY <1>2, <1>4

\* How far two packets are apart, in ids.
LEMMA Apart ==
    ASSUME NEW a \in Packets \cup Chunks, NEW b \in Packets \cup Chunks, Numbered(a), Numbered(b)
    PROVE  \E j \in Int : /\ Place(b) - Place(a) = j * PacketIds + b.id - a.id
                          /\ j >= 1 => j * PacketIds >= PacketIds
                          /\ j <= -1 => j * PacketIds <= -PacketIds
                          /\ j = 0 => j * PacketIds = 0
                          /\ j >= 2 => j * PacketIds >= 2 * PacketIds
                          /\ j * PacketIds \in Int
<1>1. /\ a.id \in Int /\ b.id \in Int /\ PacketIds \in Nat /\ PacketIds > 1
  BY Constants DEF Packets, Chunks
<1>2. PICK k \in Nat : Place(a) = k * PacketIds + a.id BY DEF Numbered
<1>3. PICK l \in Nat : Place(b) = l * PacketIds + b.id BY DEF Numbered
<1>4. (l - k) * PacketIds = l * PacketIds - k * PacketIds BY <1>1
<1>5. Place(b) - Place(a) = (l - k) * PacketIds + b.id - a.id
  BY <1>1, <1>2, <1>3, <1>4
<1>6. \A j \in Int : /\ j >= 1 => j * PacketIds >= PacketIds
                     /\ j <= -1 => j * PacketIds <= -PacketIds
                     /\ j = 0 => j * PacketIds = 0
                     /\ j >= 2 => j * PacketIds >= 2 * PacketIds
                     /\ j * PacketIds \in Int
  BY <1>1
<1>7. l - k \in Int OBVIOUS
<1> QED BY <1>5, <1>6, <1>7

\* The packet after another has the next id.
LEMMA NextId ==
    ASSUME NEW a \in Packets \cup Chunks, NEW b \in Packets \cup Chunks, Numbered(a), Numbered(b),
           Place(b) = Place(a) + 1
    PROVE  ~IdsTell(a.id, b.id)
<1>1. /\ a.id \in 0..(PacketIds - 1) /\ b.id \in 0..(PacketIds - 1)
      /\ PacketIds \in Nat /\ PacketIds > 1 /\ Place(b) \in Int /\ Place(a) \in Int
  BY Constants, Places DEF Packets, Chunks
<1>2. PICK j \in Int : /\ Place(b) - Place(a) = j * PacketIds + b.id - a.id
                       /\ j >= 1 => j * PacketIds >= PacketIds
                       /\ j <= -1 => j * PacketIds <= -PacketIds
                       /\ j = 0 => j * PacketIds = 0
                       /\ j >= 2 => j * PacketIds >= 2 * PacketIds
                       /\ j * PacketIds \in Int
  BY Apart
<1> DEFINE m == j * PacketIds
<1>3. m \in Int /\ m + b.id - a.id = 1 BY <1>1, <1>2
<1>4. m >= PacketIds \/ m <= -PacketIds \/ m = 0 BY <1>2
<1> HIDE DEF m
<1>5. b.id = a.id + 1 \/ b.id = 0 BY <1>1, <1>3, <1>4
<1> QED BY <1>5 DEF IdsTell

\* With fewer losses than ids the next id is that of the next packet, and an id does not
\* come again.
LEMMA IdTells ==
    ASSUME NEW a \in Packets \cup Chunks, NEW b \in Packets \cup Chunks, Numbered(a), Numbered(b),
           Place(b) > Place(a)
    PROVE  /\ Place(b) - Place(a) - 1 <= MaxLoss /\ b.id = a.id + 1 => Place(b) = Place(a) + 1
           /\ b.id = a.id => Place(b) - Place(a) > MaxLoss
<1>1. /\ a.id \in 0..(PacketIds - 1) /\ b.id \in 0..(PacketIds - 1)
      /\ PacketIds \in Nat /\ PacketIds > 1 /\ Place(b) \in Int /\ Place(a) \in Int
      /\ MaxLoss \in Nat /\ PacketIds > MaxLoss
  BY BoundsAssumption, Places DEF Packets, Chunks
<1>2. PICK j \in Int : /\ Place(b) - Place(a) = j * PacketIds + b.id - a.id
                       /\ j >= 1 => j * PacketIds >= PacketIds
                       /\ j <= -1 => j * PacketIds <= -PacketIds
                       /\ j = 0 => j * PacketIds = 0
                       /\ j >= 2 => j * PacketIds >= 2 * PacketIds
                       /\ j * PacketIds \in Int
  BY Apart
<1> DEFINE m == j * PacketIds
<1>3. m \in Int /\ Place(b) - Place(a) = m + b.id - a.id BY <1>1, <1>2
<1>4. m >= PacketIds \/ m <= -PacketIds \/ m = 0 BY <1>2
<1> HIDE DEF m, Place
<1>5. Place(b) - Place(a) - 1 <= MaxLoss /\ b.id = a.id + 1 => Place(b) = Place(a) + 1
  BY <1>1, <1>3, <1>4
<1>6. b.id = a.id => Place(b) - Place(a) > MaxLoss
  BY <1>1, <1>3, <1>4
<1> QED BY <1>5, <1>6

-----------------------------------------------------------------------------
(* Steps of a call: they hand on nothing. *)

Aside ==
    /\ next' = next /\ handed' = handed /\ budget'.losses = budget.losses
    /\ budget.nulls > 0 => budget'.nulls > 0
    /\ hLock' # "free" => hLock # "free"
    /\ processor' \in {processor, None, NewProcessor}
    /\ parser' = parser \/ parser' = Cut
    /\ usb' = usb \/ usb'.at = "none" \/ (usb'.at = "wait" /\ processor' = None)
    /\ mode' => mode \/ (~Handling /\ usb.at # "mark" /\ (Sized => usb.at = "none") /\ usb' = usb
                         /\ processor' = processor)
    /\ mode' /\ usb'.at # "none" => parser' = parser
    /\ processor' = processor /\ Sized /\ usb'.at # "none" => buffer' = buffer
    /\ usb.at = "mark" => \/ usb' = usb /\ processor' = processor /\ buffer' = buffer
                          \/ usb'.at = "none" /\ budget.nulls > 0

LEMMA AsideStep ==
    ASSUME TypeOK, FramesInv, Aside
    PROVE  Framed'
<1>1. /\ parser' # None => parser # None /\ parser'.packet = parser.packet
      /\ next' = next /\ budget'.losses = budget.losses /\ handed' = handed
  <2>1. parser \in Parsers \cup {None} BY DEF TypeOK
  <2>2. Cut # None => parser # None /\ Cut.packet = parser.packet
    BY <2>1 DEF Cut, Parsers
  <2> QED BY <2>2 DEF Aside
<1>2. /\ NewProcessor.expected = 0 /\ NewProcessor.seen = <<>> /\ NewProcessor.corrupted = FALSE
      /\ FrameSize = 6
  BY DEF NewProcessor, FrameSize
<1>3. processor' # None => \/ processor' = processor
                           \/ processor'.expected # FrameSize /\ processor'.seen = <<>>
  BY <1>2 DEF Aside
<1>4. Handling' => Handling /\ usb' = usb
  BY DEF Aside, Handling
<1>5. Sized' => Sized /\ processor' = processor
  BY <1>3 DEF Sized
<1>6. Sized' /\ usb'.at # "none" => usb' = usb /\ buffer' = buffer /\ (mode' => mode)
  BY <1>5 DEF Sized, Aside
<1>7. mode' /\ usb'.at # "none" => Ahead' = Ahead /\ parser' = parser
  BY <1>1 DEF Aside, Ahead
<1>8. NumberInv'
  <2>1. Handling' => Numbered(usb.chunk) /\ usb'.chunk = usb.chunk
    BY <1>4 DEF FramesInv, Framed, NumberInv
  <2>2. processor' # None => \A i \in DOMAIN processor'.seen : Numbered(processor'.seen[i])
    <3>1. CASE processor' = processor
      BY <3>1 DEF FramesInv, Framed, NumberInv
    <3>2. CASE processor' # processor
      BY <1>3, <3>2
    <3> QED BY <3>1, <3>2
  <2> QED BY <1>1, <2>1, <2>2 DEF FramesInv, Framed, NumberInv
<1>9. SeenInv'
  BY <1>3 DEF FramesInv, Framed, SeenInv, Last, Aside
<1>10. PendingInv'
  <2>1. Handling' /\ Sized' => Last' = Last BY <1>5 DEF Last
  <2> HIDE DEF Last
  <2>2. ASSUME Handling' PROVE usb' = usb /\ Handling BY <1>4, <2>2
  <2> QED BY <1>1, <1>5, <2>1, <2>2 DEF FramesInv, Framed, PendingInv, Begins
<1>11. ComingInv'
  <2> SUFFICES ASSUME mode', usb'.at # "none" PROVE ComingInv'
    BY DEF ComingInv, Handling
  <2>1. parser' = parser /\ Ahead' = Ahead BY <1>7
  <2>2. Sized' => Sized /\ usb' = usb /\ mode /\ Last' = Last BY <1>5, <1>6 DEF Last
  <2>3. Handling' => Handling /\ usb' = usb /\ mode
    BY <1>4 DEF Aside
  <2> HIDE DEF Last, Ahead, Sized
  <2>4. Handling' => Begins' = Begins /\ usb'.chunk = usb.chunk BY <2>3 DEF Begins
  <2> QED BY <1>1, <2>1, <2>2, <2>3, <2>4 DEF FramesInv, Framed, ComingInv
<1>12. FillInv'
  <2>1. ASSUME usb'.at = "mark"
        PROVE  usb.at = "mark" /\ processor' = processor /\ buffer' = buffer
    BY <2>1 DEF Aside
  <2>2. usb'.at = "mark" => /\ Sized' /\ ~processor'.corrupted /\ Last'.part = EOF /\ Last'.half = "rest"
                            /\ FrameLike(buffer')
    BY <2>1 DEF FramesInv, Framed, FillInv, Sized, Last
  <2>3. ASSUME Sized', ~processor'.corrupted, usb'.at \in {"test", "lock", "wait"}
        PROVE  /\ buffer' = <<>> => Last'.part = EOF /\ Last'.half = "rest"
               /\ Len(buffer') \in 1..(FrameSize - 1) =>
                    /\ Last' = buffer'[Len(buffer')]
                    /\ \/ Began(buffer')
                       \/ Headless(buffer') /\ (Last'.part = 2 => HeadlessLoss')
    <3>1. Sized /\ processor' = processor /\ usb' = usb /\ buffer' = buffer /\ (mode' => mode)
      BY <1>5, <1>6, <2>3
    <3>2. Last' = Last BY <3>1 DEF Last
    <3>3. HeadlessLoss => HeadlessLoss'
      <4>1. mode' => Ahead' = Ahead BY <1>7, <2>3
      <4>2. Handling' = Handling /\ Begins' = Begins BY <3>1 DEF Handling, Begins
      <4> QED BY <1>1, <3>1, <3>2, <4>1, <4>2 DEF HeadlessLoss
    <3> HIDE DEF Last, HeadlessLoss
    <3> QED BY <2>3, <3>1, <3>2, <3>3 DEF FramesInv, Framed, FillInv
  <2> QED BY <2>2, <2>3 DEF FillInv
<1>13. HandInv'
  <2> SUFFICES ASSUME processor' # None, Faultless(processor'.seen)
               PROVE  /\ Sized' /\ ~processor'.corrupted
                      /\ Len(processor'.seen) < FrameSize /\ usb'.at # "none" => buffer' = processor'.seen
                      /\ Len(processor'.seen) = FrameSize =>
                           IF usb'.at = "mark" THEN buffer' = processor'.seen
                           ELSE budget'.nulls = 0 => handed' = processor'.seen
    BY DEF HandInv
  <2>1. processor' = processor
    <3>1. ~Faultless(<<>>) BY DEF Faultless, FrameSize
    <3> QED BY <1>3, <3>1
  <2>2. /\ Sized /\ ~processor.corrupted
        /\ Len(processor.seen) < FrameSize /\ usb.at # "none" => buffer = processor.seen
        /\ Len(processor.seen) = FrameSize =>
             IF usb.at = "mark" THEN buffer = processor.seen
             ELSE budget.nulls = 0 => handed = processor.seen
    BY <2>1 DEF FramesInv, Framed, HandInv
  <2>3. Sized' BY <2>1, <2>2 DEF Sized
  <2>4. budget'.nulls = 0 => budget.nulls = 0
    <3>1. budget.nulls \in Nat BY DEF TypeOK, Budgets
    <3> QED BY <3>1 DEF Aside
  <2>5. CASE usb'.at = "none"
    <3>1. usb.at = "mark" => budget.nulls > 0 BY <2>5 DEF Aside
    <3> QED BY <2>1, <2>2, <2>3, <2>4, <2>5, <3>1, <1>1
  <2>6. CASE usb'.at # "none"
    <3>1. usb' = usb /\ buffer' = buffer BY <2>1, <2>2, <2>6 DEF Aside
    <3> QED BY <2>1, <2>2, <2>3, <2>4, <3>1, <1>1
  <2> QED BY <2>5, <2>6
<1>14. FrameIsWhole'
  BY <1>1 DEF FramesInv, Framed, FrameIsWhole
<1> QED BY <1>8, <1>9, <1>10, <1>11, <1>12, <1>13, <1>14 DEF Framed

CallStepOf ==
    Start \/ Stop \/ SetFPS \/ SetOutputFormat \/ OpenStep \/ CloseStep \/ UNCHANGED vars

LEMMA CallsAreAside ==
    ASSUME TypeOK, LifeInv, FramesInv, CallStepOf
    PROVE  Aside
<1> USE DEF status, data, wire
<1>0. /\ CallInv /\ BufferInv /\ QuietInv /\ SeenInv
      /\ budget \in [calls : Nat, losses : 0..MaxLoss, fails : Nat, nulls : Nat]
      /\ budget.nulls \in Nat
      /\ usb.at \in {"none", "wait", "test", "lock", "mark"}
  BY DEF LifeInv, FramesInv, Framed, TypeOK, Threads, Budgets
<1>1. CASE Start
  BY <1>1, <1>0 DEF Start, Aside
<1>2. CASE Stop
  BY <1>2, <1>0 DEF Stop, Aside
<1>3. CASE SetFPS
  BY <1>3, <1>0 DEF SetFPS, Aside
<1>4. CASE SetOutputFormat
  BY <1>4, <1>0 DEF SetOutputFormat, Aside
<1>5. CASE Configure
  <2>1. /\ next' = next /\ handed' = handed /\ processor' = processor /\ buffer' = buffer
        /\ mode' = mode /\ parser' = Cut
        /\ budget'.losses = budget.losses /\ budget'.nulls = budget.nulls
        /\ CanJoin /\ usb' = NewThread /\ call.at = "claim"
        /\ hLock' # "free" => hLock # "free"
    BY <1>5, <1>0 DEF Configure, ShutdownReadThread, Goes, FailsOpen, Fails
  <2>2. usb'.at = "none" \/ (usb'.at = "wait" /\ ~actualRead)
    BY <2>1 DEF NewThread, Gone, Waiting
  <2>3. ~actualRead => processor = None /\ ~mode
    BY <1>0, <2>1 DEF BufferInv, QuietInv
  <2>4. usb.at = "mark" => budget.nulls > 0
    BY <1>0, <2>1 DEF CanJoin, Stuck, SeenInv
  <2>5. usb.at = "mark" => actualRead
    BY <1>0 DEF BufferInv
  <2> HIDE DEF Cut
  <2> QED BY <2>1, <2>2, <2>3, <2>4, <2>5, <1>0 DEF Aside
<1>6. CASE Create
  <2>1. /\ UNCHANGED <<next, handed, processor, mode, parser, usb, hLock>>
        /\ budget'.losses = budget.losses /\ (budget.nulls > 0 => budget'.nulls > 0)
    BY <1>6, <1>0 DEF Create, AcquireWorking, AcquireNothing
  <2>2. usb.at = "none" \/ processor = None
    BY <1>6, <1>0 DEF Create, BufferInv
  <2>3. usb.at # "mark"
    BY <1>0, <2>2 DEF BufferInv
  <2> QED BY <2>1, <2>2, <2>3 DEF Aside, Sized
<1>7. CASE Register
  <2>1. usb.at # "mark" BY <1>7, <1>0 DEF Register, CanLock, BufferInv
  <2>2. Sized => processor' # processor
    <3>1. NewProcessor.expected # FrameSize BY DEF NewProcessor, FrameSize
    <3> QED BY <1>7, <3>1 DEF Register, Sized
  <2> HIDE DEF NewProcessor
  <2> QED BY <1>7, <1>0, <2>1, <2>2 DEF Register, Aside
<1>8. CASE ReadFrequency
  BY <1>8, <1>0 DEF ReadFrequency, Goes, FailsOpen, Fails, Aside
<1>9. CASE SwitchOn
  <2>1. /\ UNCHANGED <<next, handed, processor, parser, usb, hLock, buffer>>
        /\ budget'.losses = budget.losses /\ budget'.nulls = budget.nulls
    BY <1>9, <1>0 DEF SwitchOn, Goes, FailsOpen, Fails
  <2>2. ~mode => usb.at \in {"none", "wait"} /\ (Sized => usb.at = "none")
    BY <1>9, <1>0 DEF SwitchOn, QuietInv
  <2> QED BY <2>1, <2>2 DEF Aside, Handling
<1>10. CASE Open
  BY <1>10, <1>0 DEF Open, FailsOpen, Fails, Aside
<1>11. CASE ReleaseStream
  <2>1. usb.at # "mark" BY <1>11, <1>0 DEF ReleaseStream, CanLock, BufferInv
  <2> QED BY <1>11, <1>0, <2>1 DEF ReleaseStream, Aside
<1>12. CASE SwitchOff
  <2> HIDE DEF Cut
  <2> QED BY <1>12, <1>0 DEF SwitchOff, Fails, Aside
<1>13. CASE JoinThread
  <2>1. usb.at = "mark" /\ CanJoin => budget.nulls > 0
    BY <1>0 DEF CanJoin, Stuck, SeenInv
  <2>2. ~actualRead => UNCHANGED <<parser, lock, hLock, usb>>
    BY <1>13 DEF JoinThread
  <2>3. actualRead => CanJoin /\ parser' = Cut /\ usb'.at = "none" /\ (hLock' # "free" => hLock # "free")
    BY <1>13 DEF JoinThread, ShutdownReadThread, Gone
  <2>4. UNCHANGED <<next, handed, processor, mode, buffer, budget>>
    BY <1>13 DEF JoinThread
  <2> HIDE DEF Cut
  <2> QED BY <2>1, <2>2, <2>3, <2>4 DEF Aside
<1>14. CASE StopBuffers
  BY <1>14, <1>0 DEF StopBuffers, Aside
<1>14a. CASE LockStreamProcessor
  BY <1>14a, <1>0 DEF LockStreamProcessor, Go, Aside
<1>15. CASE ReplaceProcessor
  <2>1. usb.at # "mark" BY <1>15, <1>0 DEF ReplaceProcessor, CallInv, BufferInv
  <2>2. /\ UNCHANGED <<next, handed, mode, parser, usb, hLock>>
        /\ budget'.losses = budget.losses /\ (budget.nulls > 0 => budget'.nulls > 0)
        /\ processor' = NewProcessor \/ (processor' = processor /\ buffer' = buffer)
    BY <1>15, <1>0 DEF ReplaceProcessor, AcquireWorking, AcquireNothing
  <2>3. processor' = processor /\ Sized => buffer' = buffer
    <3>1. NewProcessor.expected # FrameSize BY DEF NewProcessor, FrameSize
    <3> QED BY <2>2, <3>1 DEF Sized
  <2> QED BY <2>1, <2>2, <2>3 DEF Aside
<1>16. CASE UNCHANGED vars
  BY <1>16 DEF vars, Aside
<1> QED
  BY <1>1, <1>2, <1>3, <1>4, <1>5, <1>6, <1>7, <1>8, <1>9, <1>10, <1>11, <1>12, <1>13,
     <1>14, <1>14a, <1>15, <1>16 DEF CallStepOf, OpenStep, CloseStep

LEMMA QuietStep ==
    ASSUME TypeOK, LifeInv, FramesInv, [Next]_vars
    PROVE  QuietInv'
<1> USE DEF status, data, wire
<1>0. /\ CallInv /\ BufferInv /\ QuietInv /\ SeenInv
      /\ DOMAIN call = {"at", "op"} /\ call = [at |-> call.at, op |-> call.op]
      /\ {actualRead, mode} \subseteq BOOLEAN
      /\ usb.at \in {"none", "wait", "test", "lock", "mark"}
  BY DEF LifeInv, FramesInv, Framed, TypeOK, Threads, Calls
<1>1. CASE BeginPacket
  BY <1>1, <1>0 DEF BeginPacket, QuietInv, Sized
<1>2. CASE EndPacket
  BY <1>2, <1>0 DEF EndPacket, QuietInv, Sized
<1>3. CASE LoseData
  BY <1>3, <1>0 DEF LoseData, QuietInv, Sized
<1>4. CASE TestProcessor
  BY <1>4, <1>0 DEF TestProcessor, QuietInv, Sized, Waiting, Gone
<1>5. CASE ProcessChunk
  BY <1>5, <1>0, Processed DEF QuietInv, Sized
<1>6. CASE MarkWriteBufferAsStable
  <2>1. /\ UNCHANGED <<call, mode, actualRead, processor>> /\ usb.at = "mark" /\ usb'.at = "wait"
    BY <1>6 DEF MarkWriteBufferAsStable, Waiting, Gone
  <2> QED BY <2>1, <1>0 DEF QuietInv, Sized
<1>7. CASE Start
  BY <1>7, <1>0 DEF Start, QuietInv, Sized, Idle
<1>8. CASE Stop
  BY <1>8, <1>0 DEF Stop, QuietInv, Sized, Idle
<1>9. CASE SetFPS
  BY <1>9, <1>0 DEF SetFPS, QuietInv, Sized, Idle
<1>10. CASE SetOutputFormat
  BY <1>10, <1>0 DEF SetOutputFormat, QuietInv, Sized, Idle
<1>11. CASE Configure
  <2>1. usb'.at = "none" \/ (usb'.at = "wait" /\ ~actualRead)
    BY <1>11 DEF Configure, NewThread, Gone, Waiting
  <2>2. ~actualRead => processor = None
    BY <1>11, <1>0 DEF BufferInv, Configure
  <2>3. call'.at \in {"create", "release"} /\ actualRead' /\ mode' = mode /\ processor' = processor
    BY <1>11, <1>0 DEF Configure, Goes, Go, FailsOpen
  <2> QED BY <2>1, <2>2, <2>3 DEF QuietInv, Sized
<1>12. CASE Create
  BY <1>12, <1>0 DEF Create, AcquireWorking, AcquireNothing, Go, QuietInv, BufferInv, Sized
<1>13. CASE Register
  <2>1. NewProcessor.expected # FrameSize BY DEF NewProcessor, FrameSize
  <2>2. call'.at = "frequency" BY <1>13, <1>0 DEF Register, Go
  <2>3. processor' = NewProcessor /\ UNCHANGED <<mode, actualRead, usb>> /\ call.at = "register"
    BY <1>13 DEF Register
  <2> HIDE DEF NewProcessor
  <2> QED BY <1>0, <2>1, <2>2, <2>3 DEF QuietInv, Sized
<1>14. CASE ReadFrequency
  BY <1>14, <1>0 DEF ReadFrequency, Goes, Go, FailsOpen, Fails, Return, Idle, QuietInv, Sized
<1>15. CASE SwitchOn
  <2>1. actualRead BY <1>15, <1>0 DEF SwitchOn, BufferInv, Opening
  <2> QED BY <1>15, <1>0, <2>1 DEF SwitchOn, Goes, Go, FailsOpen, Fails, QuietInv, Sized
<1>16. CASE Open
  BY <1>16, <1>0 DEF Open, Go, FailsOpen, Fails, Return, Idle, QuietInv, Sized
<1>17. CASE ReleaseStream
  BY <1>17, <1>0 DEF ReleaseStream, Go, Return, Idle, QuietInv, Sized
<1>18. CASE SwitchOff
  BY <1>18, <1>0 DEF SwitchOff, Go, Fails, Return, Idle, QuietInv, Sized
<1>19. CASE JoinThread
  BY <1>19, <1>0 DEF JoinThread, Go, QuietInv, Sized
<1>20. CASE StopBuffers
  BY <1>20, <1>0 DEF StopBuffers, Go, QuietInv, Sized
<1>20a. CASE LockStreamProcessor
  BY <1>20a, <1>0 DEF LockStreamProcessor, QuietInv, Sized, CanLock, Go
<1>21. CASE ReplaceProcessor
  BY <1>21, <1>0 DEF ReplaceProcessor, Return, Idle, QuietInv
<1>22. CASE UNCHANGED vars
  BY <1>22, <1>0 DEF vars, QuietInv, Sized
<1> QED
  BY <1>1, <1>2, <1>3, <1>4, <1>5, <1>6, <1>7, <1>8, <1>9, <1>10, <1>11, <1>12, <1>13,
     <1>14, <1>15, <1>16, <1>17, <1>18, <1>19, <1>20, <1>20a, <1>21, <1>22
  DEF Next, ReadThread, OpenStep, CloseStep

-----------------------------------------------------------------------------
(* Steps of the firmware and of the reading thread. *)

LEMMA BudgetTypes ==
    TypeOK => /\ budget.losses \in Nat /\ budget.losses <= MaxLoss /\ budget.nulls \in Nat
              /\ Place(next) \in Int /\ Ahead \in Int
<1> SUFFICES ASSUME TypeOK
             PROVE  /\ budget.losses \in Nat /\ budget.losses <= MaxLoss /\ budget.nulls \in Nat
                    /\ Place(next) \in Int /\ Ahead \in Int
  OBVIOUS
<1>1. budget.losses \in Nat /\ budget.losses <= MaxLoss /\ budget.nulls \in Nat
  BY Constants DEF TypeOK, Budgets
<1>2. Place(next) \in Int
  BY Places DEF TypeOK
<1> HIDE DEF Place
<1> QED BY <1>1, <1>2 DEF Ahead

LEMMA LastType ==
    ASSUME TypeOK, SeenInv, Sized
    PROVE  Last \in Chunks /\ Place(Last) \in Int /\ processor \in Processors
           /\ Len(processor.seen) \in DOMAIN processor.seen
<1>1. processor \in Processors /\ processor.seen \in Seq(Chunks) /\ processor.seen # <<>>
  BY DEF TypeOK, Sized, SeenInv, Processors
<1>2. Last \in Chunks /\ Len(processor.seen) \in DOMAIN processor.seen
  BY <1>1 DEF Last
<1>3. Place(Last) \in Int
  <2> HIDE DEF Last
  <2> QED BY <1>2, Places
<1> QED BY <1>1, <1>2, <1>3

\* A chunk that is begun, ended or missing changes nothing of the processor.
Active == {"test", "lock", "wait"}
LEMMA FillKept ==
    ASSUME FillInv, HandInv, UNCHANGED <<processor, buffer, handed, budget.nulls>>,
           (usb.at \in Active /\ usb'.at \in Active) \/ usb'.at = usb.at,
           Sized /\ HeadlessLoss => HeadlessLoss'
    PROVE  FillInv' /\ HandInv'
<1>1. Last' = Last /\ Sized' = Sized BY DEF Last, Sized
<1>2. FillInv'
  <2> HIDE DEF Last, HeadlessLoss, Sized
  <2>1. usb'.at = "mark" => usb.at = "mark" BY DEF Active
  <2>2. usb'.at \in {"test", "lock", "wait"} => usb.at \in {"test", "lock", "wait"} BY DEF Active
  <2>3. ASSUME Sized, ~processor.corrupted, usb.at \in {"test", "lock", "wait"}
        PROVE  /\ buffer = <<>> => Last.part = EOF /\ Last.half = "rest"
               /\ Len(buffer) \in 1..(FrameSize - 1) =>
                    /\ Last = buffer[Len(buffer)]
                    /\ \/ Began(buffer)
                       \/ Headless(buffer) /\ (Last.part = 2 => HeadlessLoss')
    BY <2>3 DEF FillInv
  <2> QED BY <1>1, <2>1, <2>2, <2>3 DEF FillInv
<1>3. HandInv'
  BY <1>1 DEF HandInv, Active
<1> QED BY <1>2, <1>3

LEMMA BeginStep ==
    ASSUME TypeOK, Framed, BeginPacket
    PROVE  Framed'
<1> USE DEF status, data
<1>1. /\ usb.at = "wait" /\ mode /\ parser = None /\ usb'.at = "test"
      /\ usb'.chunk = Chunk(next, "first", TRUE) /\ parser' = [packet |-> next, cut |-> FALSE]
      /\ next' = Following(next)
      /\ UNCHANGED <<mode, processor, hLock, buffer, handed, budget>>
  BY DEF BeginPacket
<1>2. /\ next \in Packets /\ usb'.chunk \in Chunks
      /\ SamePacket(usb'.chunk, next) /\ usb'.chunk.half = "first" /\ usb'.chunk.good
      /\ Place(usb'.chunk) = Place(next)
      /\ Numbered(next) => Numbered(usb'.chunk)
  <2>1. next \in Packets BY DEF TypeOK
  <2>2. usb'.chunk \in Chunks BY <1>1, <2>1 DEF Chunk, Chunks, Packets
  <2>3. /\ SamePacket(usb'.chunk, next) /\ usb'.chunk.half = "first" /\ usb'.chunk.good
    BY <1>1 DEF Chunk, SamePacket
  <2>4. Place(usb'.chunk) = Place(next) BY <2>3 DEF Place, SamePacket
  <2>5. Numbered(next) => Numbered(usb'.chunk) BY <2>3, <2>4 DEF Numbered, SamePacket
  <2> QED BY <2>1, <2>2, <2>3, <2>4, <2>5
<1>3. Place(next') = Place(next) + 1 /\ (Numbered(next) => Numbered(next'))
  BY <1>1, <1>2, FollowingNumber
<1>4. Last' = Last /\ Sized' = Sized /\ Handling' /\ ~Handling /\ Begins'
  BY <1>1, <1>2 DEF Last, Sized, Handling, Begins
<1>5. parser' # None /\ parser'.packet = next /\ ~parser'.cut
  <2>1. parser' \in Parsers BY <1>1, <1>2 DEF Parsers
  <2> QED BY <1>1, <2>1, Constants
<1>6. Ahead = Place(next) /\ Ahead' = Place(next) + 1
  BY <1>1, <1>3, <1>5 DEF Ahead
<1>7. /\ budget.losses \in Nat /\ Place(next) \in Int
      /\ Sized => Place(Last) \in Int
  BY BudgetTypes, LastType DEF Framed
<1>8. Sized => /\ Last.half = "rest"
               /\ Place(Last) < Place(next) /\ (~Last.good => Place(Last) + 1 < Place(next))
               /\ Place(next) - Place(Last) - 1 <= budget.losses
  BY <1>1, <1>6 DEF Framed, ComingInv
<1> HIDE DEF Last, Sized, Ahead, Place, Handling, Begins, Numbered
<1>9. NumberInv'
  <2>1. Numbered(next) BY DEF Framed, NumberInv
  <2>2. processor' # None => \A i \in DOMAIN processor'.seen : Numbered(processor'.seen[i])
    BY <1>1 DEF Framed, NumberInv
  <2>3. Place(parser'.packet) < Place(next') /\ Numbered(parser'.packet)
    BY <1>3, <1>5, <1>7, <2>1
  <2> QED BY <1>2, <1>3, <2>1, <2>2, <2>3 DEF NumberInv
<1>10. SeenInv'
  BY <1>1, <1>4 DEF Framed, SeenInv
<1>11. PendingInv'
  BY <1>1, <1>2, <1>4, <1>7, <1>8 DEF PendingInv
<1>12. ComingInv'
  <2>1. SamePacket(usb'.chunk, parser'.packet) BY <1>2, <1>5
  <2>2. Place(usb'.chunk) < Ahead' /\ Ahead' - Place(usb'.chunk) - 1 <= budget'.losses
    <3>1. \A n \in Int : n < n + 1 /\ (n + 1) - n - 1 = 0 OBVIOUS
    <3>2. Ahead' = Place(usb'.chunk) + 1 /\ Place(usb'.chunk) \in Int BY <1>2, <1>6, <1>7
    <3>3. 0 <= budget'.losses BY <1>1, <1>7
    <3> QED BY <3>1, <3>2, <3>3
  <2>3. Sized' => Ahead' - Place(Last') - 2 <= budget'.losses
    BY <1>1, <1>4, <1>6, <1>7, <1>8
  <2> QED BY <1>1, <1>4, <1>5, <2>1, <2>2, <2>3 DEF ComingInv
<1>13. FillInv' /\ HandInv'
  <2>1. usb.at \in Active /\ usb'.at \in Active BY <1>1 DEF Active
  <2>2. Sized /\ HeadlessLoss => HeadlessLoss'
    BY <1>1, <1>2, <1>4, <1>6 DEF HeadlessLoss
  <2>3. UNCHANGED <<processor, buffer, handed, budget.nulls>> BY <1>1
  <2> QED BY <2>1, <2>2, <2>3, FillKept DEF Framed
<1>14. FrameIsWhole'
  BY <1>1 DEF Framed, FrameIsWhole
<1> QED BY <1>9, <1>10, <1>11, <1>12, <1>13, <1>14 DEF Framed

LEMMA EndStep ==
    ASSUME TypeOK, Framed, EndPacket
    PROVE  Framed'
<1> USE DEF status, data
<1> DEFINE p == parser.packet
<1>1. /\ usb.at = "wait" /\ mode /\ parser # None /\ usb'.at = "test"
      /\ usb'.chunk = Chunk(p, "rest", ~parser.cut) /\ parser' = None
      /\ next' = (IF parser.cut THEN Following(next) ELSE next)
      /\ UNCHANGED <<mode, processor, hLock, buffer, handed, budget>>
  BY DEF EndPacket
<1>2. /\ next \in Packets /\ p \in Packets /\ parser.cut \in BOOLEAN /\ usb'.chunk \in Chunks
      /\ SamePacket(usb'.chunk, p) /\ usb'.chunk.half = "rest" /\ usb'.chunk.good = ~parser.cut
      /\ Place(usb'.chunk) = Place(p) /\ Place(p) \in Int
      /\ Numbered(usb'.chunk)
  <2>1. next \in Packets /\ p \in Packets /\ parser.cut \in BOOLEAN
    BY <1>1 DEF TypeOK, Parsers
  <2>2. usb'.chunk \in Chunks BY <1>1, <2>1 DEF Chunk, Chunks, Packets
  <2>3. /\ SamePacket(usb'.chunk, p) /\ usb'.chunk.half = "rest" /\ usb'.chunk.good = ~parser.cut
    BY <1>1 DEF Chunk, SamePacket
  <2>4. Place(usb'.chunk) = Place(p) BY <2>3 DEF Place, SamePacket
  <2>5. Numbered(p) BY <1>1 DEF Framed, NumberInv
  <2>6. Numbered(usb'.chunk) BY <2>3, <2>4, <2>5 DEF Numbered, SamePacket
  <2>7. Place(p) \in Int BY <2>1, Places
  <2> QED BY <2>1, <2>2, <2>3, <2>4, <2>6, <2>7
<1> HIDE DEF p
<1>3. /\ Place(next') = (IF parser.cut THEN Place(next) + 1 ELSE Place(next))
      /\ Numbered(next')
  <2>1. Numbered(next) BY DEF Framed, NumberInv
  <2> QED BY <1>1, <1>2, <2>1, FollowingNumber
<1>4. Last' = Last /\ Sized' = Sized /\ Handling' /\ ~Handling /\ ~Begins'
  BY <1>1, <1>2 DEF Last, Sized, Handling, Begins
<1>5. Ahead' = Ahead
  BY <1>1, <1>3 DEF Ahead
<1>6. /\ budget.losses \in Nat /\ Place(next) \in Int /\ Ahead \in Int
      /\ Sized => Place(Last) \in Int /\ Last \in Chunks
  BY BudgetTypes, LastType DEF Framed
<1>7. Sized => /\ Last.half = "first" /\ Last.good /\ SamePacket(Last, p)
               /\ Place(Last) < Ahead
               /\ Ahead - Place(Last) - 1 <= budget.losses
  <2>1. ASSUME Sized PROVE Last.half # "rest" /\ Last.good /\ SamePacket(Last, p)
                           /\ Place(Last) < Ahead /\ Ahead - Place(Last) - 1 <= budget.losses
    BY <1>1, <2>1 DEF Framed, ComingInv, p
  <2>2. Sized => Last.half \in {"first", "rest"} BY <1>6 DEF Chunks
  <2> QED BY <2>1, <2>2
<1>8. Place(p) < Place(next) BY <1>1 DEF Framed, NumberInv, p
<1> HIDE DEF Last, Sized, Ahead, Place, Handling, Begins, Numbered
<1>10. NumberInv'
  <2>2. processor' # None => \A i \in DOMAIN processor'.seen : Numbered(processor'.seen[i])
    BY <1>1 DEF Framed, NumberInv
  <2> QED BY <1>1, <1>2, <1>3, <2>2 DEF NumberInv
<1>11. SeenInv'
  BY <1>1, <1>4 DEF Framed, SeenInv
<1>12. PendingInv'
  BY <1>1, <1>2, <1>4, <1>6, <1>7 DEF PendingInv, SamePacket
<1>13. ComingInv'
  <2>1. Place(usb'.chunk) < Ahead' /\ (~usb'.chunk.good => Place(usb'.chunk) + 1 < Ahead')
    <3>1. CASE parser.cut
      <4>1. Ahead = Place(next) + 1 BY <1>1, <3>1 DEF Ahead
      <4> QED BY <1>2, <1>5, <1>6, <1>8, <4>1
    <3>2. CASE ~parser.cut
      <4>1. Ahead = Place(next) BY <1>1, <3>2 DEF Ahead
      <4> QED BY <1>2, <1>5, <1>6, <1>8, <3>2, <4>1
    <3> QED BY <3>1, <3>2
  <2> QED BY <1>1, <1>4, <1>5, <1>7, <2>1 DEF ComingInv
<1>14. FillInv' /\ HandInv'
  <2>1. usb.at \in Active /\ usb'.at \in Active BY <1>1 DEF Active
  <2>2. Sized /\ HeadlessLoss => HeadlessLoss'
    BY <1>1, <1>2, <1>4, <1>5 DEF HeadlessLoss
  <2>3. UNCHANGED <<processor, buffer, handed, budget.nulls>> BY <1>1
  <2> QED BY <2>1, <2>2, <2>3, FillKept DEF Framed
<1>15. FrameIsWhole'
  BY <1>1 DEF Framed, FrameIsWhole
<1> QED BY <1>10, <1>11, <1>12, <1>13, <1>14, <1>15 DEF Framed

LEMMA LoseStep ==
    ASSUME TypeOK, Framed, LoseData
    PROVE  Framed'
<1> USE DEF status, data
<1>1. /\ mode /\ budget' = [budget EXCEPT !.losses = budget.losses + 1]
      /\ IF parser # None /\ ~parser.cut
         THEN parser' = Cut /\ UNCHANGED next
         ELSE next' = Following(next) /\ UNCHANGED parser
      /\ UNCHANGED <<mode, usb, processor, hLock, buffer, handed>>
  BY DEF LoseData
<1>2. /\ budget'.losses = budget.losses + 1 /\ budget'.nulls = budget.nulls
      /\ next \in Packets /\ parser \in Parsers \cup {None}
  BY <1>1 DEF TypeOK, Budgets
<1>3. /\ Place(next') >= Place(next) /\ Numbered(next') /\ Ahead' = Ahead + 1
      /\ (parser' = None) = (parser = None)
      /\ parser # None => parser'.packet = parser.packet
  <2>1. Numbered(next) /\ Place(next) \in Int BY BudgetTypes DEF Framed, NumberInv
  <2>2. Place(Following(next)) = Place(next) + 1 /\ Numbered(Following(next))
    BY <1>2, <2>1, FollowingNumber
  <2>3. CASE parser # None /\ ~parser.cut
    <3>1. parser \in Parsers BY <1>2, <2>3
    <3>2. Cut \in Parsers /\ Cut.cut /\ Cut.packet = parser.packet
      BY <2>3, <3>1 DEF Cut, Parsers
    <3>3. Cut # None BY <3>2, Constants
    <3>4. parser' = Cut /\ next' = next BY <1>1, <2>3
    <3>5. Ahead = Place(next) BY <2>3 DEF Ahead
    <3> HIDE DEF Cut, Place, Numbered
    <3>6. Ahead' = Place(next) + 1 BY <3>2, <3>3, <3>4 DEF Ahead
    <3> QED BY <2>1, <2>3, <3>2, <3>3, <3>4, <3>5, <3>6
  <2>4. CASE ~(parser # None /\ ~parser.cut)
    <3>1. next' = Following(next) /\ parser' = parser BY <1>1, <2>4
    <3> HIDE DEF Place, Numbered, Following
    <3>2. Ahead' = Ahead + 1 BY <2>1, <2>2, <3>1 DEF Ahead
    <3> QED BY <2>1, <2>2, <3>1, <3>2
  <2> QED BY <2>3, <2>4
<1>4. Last' = Last /\ Sized' = Sized /\ Handling' = Handling /\ Begins' = Begins
  BY <1>1 DEF Last, Sized, Handling, Begins
<1>5. /\ budget.losses \in Nat /\ Place(next) \in Int /\ Ahead \in Int /\ Place(next') \in Int
      /\ Sized => Place(Last) \in Int
      /\ parser # None => Place(parser.packet) \in Int
      /\ Handling => Place(usb.chunk) \in Int
  <2>1. next' \in Packets BY <1>1, <1>2, FollowingPacket
  <2>2. parser # None => parser.packet \in Packets BY <1>2 DEF Parsers
  <2>3. Handling => usb.chunk \in Chunks BY Types DEF Handling
  <2> HIDE DEF Last
  <2> QED BY <2>1, <2>2, <2>3, Places, BudgetTypes, LastType DEF Framed
<1> HIDE DEF Last, Sized, Ahead, Place, Handling, Begins, Numbered
<1>6. NumberInv'
  <2>1. parser' # None => Numbered(parser'.packet) /\ Place(parser'.packet) < Place(next')
    BY <1>3, <1>5 DEF Framed, NumberInv
  <2> QED BY <1>1, <1>3, <1>4, <2>1 DEF Framed, NumberInv
<1>7. SeenInv'
  BY <1>1, <1>2, <1>4 DEF Framed, SeenInv
<1>8. PendingInv'
  BY <1>1, <1>2, <1>4, <1>5 DEF Framed, PendingInv
<1>9. ComingInv'
  <2>1. ASSUME Handling, Begins
        PROVE  /\ parser' # None /\ SamePacket(usb.chunk, parser'.packet)
               /\ Place(usb.chunk) < Ahead' /\ Ahead' - Place(usb.chunk) - 1 <= budget'.losses
               /\ Sized => Ahead' - Place(Last) - 2 <= budget'.losses
    BY <1>1, <1>2, <1>3, <1>5, <2>1 DEF Framed, ComingInv
  <2>2. ASSUME Handling, ~Begins
        PROVE  /\ parser' = None /\ Place(usb.chunk) < Ahead'
               /\ ~usb.chunk.good => Place(usb.chunk) + 1 < Ahead'
               /\ Sized => Ahead' - Place(Last) - 1 <= budget'.losses
    BY <1>1, <1>2, <1>3, <1>5, <2>2 DEF Framed, ComingInv
  <2>3. ASSUME Sized, usb.at \in {"wait", "mark"}
        PROVE  /\ parser' = None <=> Last.half = "rest"
               /\ parser' # None => SamePacket(Last, parser'.packet) /\ Last.good
               /\ Place(Last) < Ahead' /\ (~Last.good => Place(Last) + 1 < Ahead')
               /\ Ahead' - Place(Last) - 1 <= budget'.losses
    BY <1>1, <1>2, <1>3, <1>5, <2>3 DEF Framed, ComingInv
  <2> QED BY <1>1, <1>4, <2>1, <2>2, <2>3 DEF ComingInv
<1>10. FillInv' /\ HandInv'
  <2>1. usb'.at = usb.at BY <1>1
  <2>2. Sized /\ HeadlessLoss => HeadlessLoss'
    BY <1>1, <1>2, <1>3, <1>4, <1>5 DEF HeadlessLoss
  <2>3. UNCHANGED <<processor, buffer, handed, budget.nulls>> BY <1>1, <1>2
  <2> QED BY <2>1, <2>2, <2>3, FillKept DEF Framed
<1>11. FrameIsWhole'
  BY <1>1 DEF Framed, FrameIsWhole
<1> QED BY <1>6, <1>7, <1>8, <1>9, <1>10, <1>11 DEF Framed

LEMMA TestStep ==
    ASSUME TypeOK, Framed, TestProcessor
    PROVE  Framed'
<1> USE DEF status, data, wire
<1>1. /\ usb.at = "test" /\ UNCHANGED <<mode, next, parser, processor, hLock, buffer, handed, budget>>
      /\ \/ processor = None /\ usb'.at = "wait"
         \/ usb'.at = "lock" /\ usb'.chunk = usb.chunk
  BY DEF TestProcessor, Waiting, Gone, TypeOK, Threads
<1>2. Last' = Last /\ Sized' = Sized /\ Ahead' = Ahead BY <1>1 DEF Last, Sized, Ahead
<1>3. Handling' => Handling /\ usb'.chunk = usb.chunk /\ Begins' = Begins
  BY <1>1 DEF Handling, Begins
<1>4. ~Handling' => ~Sized
  BY <1>1 DEF Handling, Sized
<1>5. Handling
  BY <1>1 DEF Handling
<1> HIDE DEF Last, Sized, Ahead, Handling, Begins
<1>6. NumberInv' BY <1>1, <1>3 DEF Framed, NumberInv
<1>7. SeenInv' BY <1>1, <1>2 DEF Framed, SeenInv
<1>8. PendingInv' BY <1>1, <1>2, <1>3 DEF Framed, PendingInv
<1>9. ComingInv' BY <1>1, <1>2, <1>3, <1>4 DEF Framed, ComingInv, Handling, Sized
<1>10. FillInv' /\ HandInv'
  <2>1. usb.at \in Active /\ usb'.at \in Active BY <1>1 DEF Active
  <2>2. Sized /\ HeadlessLoss => HeadlessLoss'
    BY <1>1, <1>2, <1>3, <1>4, <1>5 DEF HeadlessLoss
  <2>3. UNCHANGED <<processor, buffer, handed, budget.nulls>> BY <1>1
  <2> QED BY <2>1, <2>2, <2>3, FillKept DEF Framed
<1>11. FrameIsWhole' BY <1>1 DEF Framed, FrameIsWhole
<1> QED BY <1>6, <1>7, <1>8, <1>9, <1>10, <1>11 DEF Framed

LEMMA MarkStep ==
    ASSUME TypeOK, Framed, MarkWriteBufferAsStable
    PROVE  Framed'
<1> USE DEF status, data, wire
<1>1. /\ usb.at = "mark" /\ usb'.at = "wait"
      /\ UNCHANGED <<mode, next, parser, processor>>
      /\ budget'.losses = budget.losses
      /\ \/ handed' = buffer /\ buffer' = <<>> /\ hLock' = hLock /\ budget' = budget
         \/ UNCHANGED <<handed, buffer>> /\ budget'.nulls > 0
  BY DEF MarkWriteBufferAsStable, Waiting, Gone, TypeOK, Budgets
<1>2. Last' = Last /\ Sized' = Sized /\ Ahead' = Ahead /\ ~Handling'
  BY <1>1 DEF Last, Sized, Ahead, Handling
<1>3. /\ Sized /\ ~processor.corrupted /\ Last.part = EOF /\ Last.half = "rest"
      /\ FrameLike(buffer)
  BY <1>1 DEF Framed, FillInv
<1>4. Len(buffer) = FrameSize
  BY <1>3 DEF FrameLike, InOrder
<1> HIDE DEF Last, Sized, Ahead, Handling
<1>5. NumberInv' BY <1>1, <1>2 DEF Framed, NumberInv
<1>6. SeenInv'
  <2>1. hLock' # "free" => budget'.nulls > 0 BY <1>1 DEF Framed, SeenInv
  <2> QED BY <1>1, <1>2, <2>1 DEF Framed, SeenInv
<1>7. PendingInv' BY <1>2 DEF PendingInv
<1>8. ComingInv' BY <1>1, <1>2 DEF Framed, ComingInv
<1>9. FillInv'
  <2>1. CASE buffer' = <<>>
    <3>1. Len(buffer') = 0 BY <2>1
    <3> QED BY <1>1, <1>2, <1>3, <3>1 DEF FillInv
  <2>2. CASE buffer' = buffer
    <3>1. Len(buffer') = 6 BY <1>4, <2>2 DEF FrameSize
    <3>2. Len(buffer') \notin 1..(FrameSize - 1) BY <3>1 DEF FrameSize
    <3>3. buffer' # <<>> BY <3>1
    <3> QED BY <1>1, <1>2, <3>2, <3>3 DEF FillInv
  <2> QED BY <1>1, <2>1, <2>2
<1>10. HandInv'
  <2> SUFFICES ASSUME Faultless(processor.seen)
               PROVE  /\ Sized /\ ~processor.corrupted
                      /\ Len(processor.seen) < FrameSize => buffer' = processor.seen
                      /\ Len(processor.seen) = FrameSize =>
                           (budget'.nulls = 0 => handed' = processor.seen)
    BY <1>1, <1>2 DEF HandInv
  <2>1. processor # None BY <1>3 DEF Sized
  <2>2. /\ Len(processor.seen) < FrameSize => buffer = processor.seen
        /\ Len(processor.seen) = FrameSize => buffer = processor.seen
    BY <1>1, <2>1 DEF Framed, HandInv
  <2>3. ~(Len(processor.seen) < FrameSize)
    BY <1>4, <2>2 DEF FrameSize
  <2>4. budget'.nulls = 0 => handed' = buffer BY <1>1
  <2> QED BY <1>3, <2>2, <2>3, <2>4
<1>11. FrameIsWhole'
  <2>1. CASE handed' = buffer
    BY <1>3, <2>1 DEF FrameIsWhole, FrameLike, Linked
  <2>2. CASE handed' = handed
    BY <2>2 DEF Framed, FrameIsWhole
  <2> QED BY <1>1, <2>1, <2>2
<1> QED BY <1>5, <1>6, <1>7, <1>8, <1>9, <1>10, <1>11 DEF Framed

\* How a chunk follows the last one when the ids tell of no loss.
Follows(l, c) ==
    /\ c.half = "rest" => l.half = "first" /\ l.good /\ SamePacket(l, c)
    /\ c.half = "first" =>
         /\ l.half = "rest" /\ c.part # SOF
         /\ \/ c.id = 0
            \/ l.good /\ l.part # EOF /\ c.unit = l.unit /\ c.part = l.part + 1

LEMMA Extended ==
    ASSUME NEW f \in Seq(Chunks), NEW c \in Chunks
    PROVE  /\ Append(f, c) \in Seq(Chunks) /\ Len(Append(f, c)) = Len(f) + 1
           /\ Len(f) \in Nat /\ DOMAIN f = 1..Len(f)
           /\ DOMAIN Append(f, c) = 1..(Len(f) + 1)
           /\ \A i \in 1..Len(f) : Append(f, c)[i] = f[i]
           /\ Append(f, c)[Len(f) + 1] = c
OBVIOUS

LEMMA LinkedOn ==
    ASSUME NEW f \in Seq(Chunks), NEW c \in Chunks, Len(f) >= 1, Follows(f[Len(f)], c),
           \A i \in 1..(Len(f) - 1) : Linked(f, i)
    PROVE  \A i \in 1..Len(f) : Linked(Append(f, c), i)
<1> DEFINE g == Append(f, c)
<1>0. Len(f) \in Nat /\ Len(f) \in 1..Len(f)
  BY Extended
<1>1. /\ Len(f) \in Nat /\ \A i \in 1..Len(f) : g[i] = f[i]
      /\ g[Len(f) + 1] = c /\ Len(f) \in 1..Len(f)
  BY <1>0, Extended
<1>2. c.half \in {"first", "rest"} BY DEF Chunks
<1> HIDE DEF g
<1>3. ASSUME NEW i \in 1..(Len(f) - 1) PROVE Linked(g, i)
  <2>1. i \in 1..Len(f) /\ i + 1 \in 1..Len(f) BY <1>1
  <2>2. g[i] = f[i] /\ g[i + 1] = f[i + 1] BY <1>1, <2>1
  <2> QED BY <2>2 DEF Linked, Joined
<1>4. Linked(g, Len(f))
  <2>1. g[Len(f)] = f[Len(f)] BY <1>1
  <2> QED BY <1>1, <1>2, <2>1 DEF Linked, Joined, Follows, SamePacket
<1>5. \A i \in 1..Len(f) : i \in 1..(Len(f) - 1) \/ i = Len(f) BY <1>1
<1> QED BY <1>3, <1>4, <1>5 DEF g

\* What began as a frame goes on as one, and is one when an EOF packet gives it its size.
LEMMA BeganOn ==
    ASSUME NEW f \in Seq(Chunks), NEW c \in Chunks, Len(f) \in 1..5, Began(f),
           Follows(f[Len(f)], c), c.half = "rest" /\ c.part = EOF => Len(f) = 5
    PROVE  /\ Len(f) < 5 => Began(Append(f, c))
           /\ Len(f) = 5 /\ c.part = EOF => FrameLike(Append(f, c))
<1> DEFINE g == Append(f, c)
<1>1. /\ Len(f) \in Nat /\ DOMAIN f = 1..Len(f) /\ \A i \in 1..Len(f) : g[i] = f[i]
      /\ g[Len(f) + 1] = c /\ Len(f) \in 1..Len(f)
      /\ Len(g) = Len(f) + 1 /\ DOMAIN g = 1..(Len(f) + 1)
  <2>1. Len(f) \in 1..Len(f) OBVIOUS
  <2> QED BY <2>1, Extended
<1>2. \A i \in 1..Len(f) : Linked(g, i)
  BY LinkedOn DEF Began
<1>3. /\ c.half \in {"first", "rest"} /\ c.part \in 1..3
      /\ \A i \in 1..Len(f) : f[i].half \in {"first", "rest"} /\ f[i].part \in 1..3
  <2>1. \A i \in 1..Len(f) : f[i] \in Chunks BY <1>1
  <2> QED BY <2>1 DEF Chunks, SOF, EOF
<1>4. /\ Half(1) = "first" /\ Half(2) = "rest" /\ Half(3) = "first" /\ Half(4) = "rest"
      /\ Half(5) = "first" /\ Half(6) = "rest"
      /\ Part(1) = 1 /\ Part(2) = 1 /\ Part(3) = 2 /\ Part(4) = 2 /\ Part(5) = 3 /\ Part(6) = 3
  BY DEF Half, Part
<1>5. /\ \A i \in 1..Len(f) : f[i].half = Half(i)
      /\ f[1].part = 1
      /\ Len(f) >= 2 => f[2].part = 1
      /\ Len(f) >= 3 => f[3].part # 1
      /\ Len(f) >= 4 => f[3].part = 2 /\ f[4].part = 2
      /\ Len(f) >= 5 => f[5].part # 1
  BY <1>1 DEF Began, SOF
<1> HIDE DEF g
<1>11. \A i \in 1..(Len(g) - 1) : Linked(g, i)
  <2>1. Len(g) - 1 = Len(f) BY <1>1
  <2> QED BY <1>2, <2>1
<1>6. CASE Len(f) = 1
  <2>1. f[1].half = "first" /\ f[1].part = 1 BY <1>1, <1>4, <1>5, <1>6
  <2>2. c.half = "rest" /\ c.part = 1 BY <1>3, <1>6, <2>1 DEF Follows, SamePacket
  <2>3. g[1] = f[1] /\ g[2] = c /\ Len(g) = 2 /\ DOMAIN g = 1..2 BY <1>1, <1>6
  <2>11. Began(g) BY <1>11, <1>4, <1>6, <2>1, <2>2, <2>3 DEF Began, SOF
  <2> QED BY <1>6, <2>11 DEF g
<1>7. CASE Len(f) = 2
  <2>1. f[2].half = "rest" BY <1>1, <1>4, <1>5, <1>7
  <2>2. c.half = "first" /\ c.part # 1 BY <1>3, <1>7, <2>1 DEF Follows, SOF
  <2>3. g[1] = f[1] /\ g[2] = f[2] /\ g[3] = c /\ Len(g) = 3 /\ DOMAIN g = 1..3 BY <1>1, <1>7
  <2>4. \A i \in 1..3 : g[i].half = Half(i)
    BY <1>1, <1>4, <1>5, <1>7, <2>2, <2>3
  <2>11. Began(g) BY <1>11, <1>5, <1>7, <2>2, <2>3, <2>4 DEF Began, SOF
  <2> QED BY <1>7, <2>11 DEF g
<1>8. CASE Len(f) = 3
  <2>1. f[3].half = "first" /\ f[3].part # 1 BY <1>1, <1>4, <1>5, <1>8
  <2>2. c.half = "rest" /\ c.part = f[3].part BY <1>3, <1>8, <2>1 DEF Follows, SamePacket
  <2>3. c.part = 2 BY <1>3, <1>8, <2>1, <2>2 DEF EOF
  <2>4. g[1] = f[1] /\ g[2] = f[2] /\ g[3] = f[3] /\ g[4] = c /\ Len(g) = 4 /\ DOMAIN g = 1..4
    BY <1>1, <1>8
  <2>5. \A i \in 1..4 : g[i].half = Half(i)
    BY <1>1, <1>4, <1>5, <1>8, <2>2, <2>4
  <2>6. g[1].part = 1 /\ g[2].part = 1 /\ g[3].part = 2 /\ g[4].part = 2
    <3>1. f[1].part = 1 /\ f[2].part = 1 BY <1>5, <1>8
    <3>2. f[3].part = 2 BY <2>2, <2>3
    <3> QED BY <2>3, <2>4, <3>1, <3>2
  <2>7. \A i \in DOMAIN g : g[i].half = Half(i) BY <2>4, <2>5
  <2>8. Len(g) = 4 BY <2>4
  <2>11. Began(g) BY <1>11, <2>6, <2>7, <2>8 DEF Began, SOF
  <2> QED BY <1>8, <2>11 DEF g
<1>9. CASE Len(f) = 4
  <2>1. f[4].half = "rest" BY <1>1, <1>4, <1>5, <1>9
  <2>2. c.half = "first" /\ c.part # 1 BY <1>3, <1>9, <2>1 DEF Follows, SOF
  <2>3. /\ g[1] = f[1] /\ g[2] = f[2] /\ g[3] = f[3] /\ g[4] = f[4] /\ g[5] = c
        /\ Len(g) = 5 /\ DOMAIN g = 1..5
    BY <1>1, <1>9
  <2>4. \A i \in 1..5 : g[i].half = Half(i)
    BY <1>1, <1>4, <1>5, <1>9, <2>2, <2>3
  <2>11. Began(g) BY <1>11, <1>5, <1>9, <2>2, <2>3, <2>4 DEF Began, SOF
  <2> QED BY <1>9, <2>11 DEF g
<1>10. CASE Len(f) = 5
  <2> SUFFICES ASSUME c.part = EOF PROVE FrameLike(g)
    BY <1>10 DEF g
  <2>1. f[5].half = "first" BY <1>1, <1>4, <1>5, <1>10
  <2>2. c.half = "rest" /\ c.part = f[5].part BY <1>3, <1>10, <2>1 DEF Follows, SamePacket
  <2>3. /\ g[1] = f[1] /\ g[2] = f[2] /\ g[3] = f[3] /\ g[4] = f[4] /\ g[5] = f[5] /\ g[6] = c
        /\ Len(g) = 6 /\ DOMAIN g = 1..6
    BY <1>1, <1>10
  <2>4. \A i \in 1..6 : g[i].half = Half(i)
    BY <1>1, <1>4, <1>5, <1>10, <2>2, <2>3
  <2>5. \A i \in 1..6 : g[i].part = Part(i)
    BY <1>4, <1>5, <1>10, <2>2, <2>3 DEF EOF
  <2> QED BY <1>2, <1>10, <2>3, <2>4, <2>5 DEF FrameLike, InOrder, FrameSize
<1> QED BY <1>6, <1>7, <1>8, <1>9, <1>10

\* So does a frame all of whose chunks came.
LEMMA FaultlessOn ==
    ASSUME NEW f \in Seq(Chunks), NEW c \in Chunks, Faultless(Append(f, c))
    PROVE  /\ Len(f) \in 0..5
           /\ Len(f) = 0 => c.half = "first" /\ c.part = SOF
           /\ Len(f) >= 1 =>
                /\ Faultless(f)
                /\ ~(c.half = "first" /\ c.part = SOF)
                /\ c.half = "first" => c.unit = f[Len(f)].unit /\ c.part = f[Len(f)].part + 1
                /\ (c.half # "first" /\ c.part = EOF) <=> Len(f) = 5
<1> DEFINE g == Append(f, c)
<1>1. /\ Len(f) \in Nat /\ DOMAIN f = 1..Len(f) /\ \A i \in 1..Len(f) : g[i] = f[i]
      /\ g[Len(f) + 1] = c /\ Len(g) = Len(f) + 1 /\ DOMAIN g = 1..(Len(f) + 1)
  BY Extended
<1>2. /\ Len(g) \in 1..6 /\ \A i \in DOMAIN g : g[i].part = Part(i) /\ g[i].half = Half(i) /\ g[i].good
      /\ \A i \in 1..(Len(g) - 1) : Joined(g, i)
  BY DEF Faultless, FrameSize
<1> HIDE DEF g
<1>3. Len(f) \in 0..5
  <2>1. \A k \in Nat : k + 1 \in 1..6 => k \in 0..5 OBVIOUS
  <2>2. Len(f) \in Nat /\ Len(f) + 1 \in 1..6 BY <1>1, <1>2
  <2> QED BY <2>1, <2>2
<1>4. /\ Half(1) = "first" /\ Half(2) = "rest" /\ Half(3) = "first" /\ Half(4) = "rest"
      /\ Half(5) = "first" /\ Half(6) = "rest"
      /\ Part(1) = 1 /\ Part(2) = 1 /\ Part(3) = 2 /\ Part(4) = 2 /\ Part(5) = 3 /\ Part(6) = 3
  BY DEF Half, Part
<1>5. c.part = Part(Len(f) + 1) /\ c.half = Half(Len(f) + 1)
  <2>1. Len(f) + 1 \in DOMAIN g BY <1>1
  <2> QED BY <1>1, <1>2, <2>1
<1>6. CASE Len(f) = 0
  BY <1>4, <1>5, <1>6 DEF SOF
<1>7. CASE Len(f) # 0
  <2>1. Len(f) \in {1, 2, 3, 4, 5} BY <1>3, <1>7
  <2>2. \A i \in 1..Len(f) : f[i].part = Part(i) /\ f[i].half = Half(i) /\ f[i].good
    <3>1. \A i \in 1..Len(f) : i \in DOMAIN g /\ g[i] = f[i] BY <1>1
    <3> QED BY <1>2, <3>1
  <2>3. \A i \in 1..(Len(f) - 1) : Joined(f, i)
    <3> SUFFICES ASSUME NEW i \in 1..(Len(f) - 1) PROVE Joined(f, i)
      OBVIOUS
    <3>1. i \in 1..Len(f) /\ i + 1 \in 1..Len(f) /\ i \in 1..(Len(g) - 1) BY <1>1
    <3>2. g[i] = f[i] /\ g[i + 1] = f[i + 1] BY <1>1, <3>1
    <3>3. Joined(g, i) BY <1>2, <3>1
    <3> QED BY <3>2, <3>3 DEF Joined
  <2>4. Faultless(f)
    <3>1. Len(f) \in 1..FrameSize BY <2>1 DEF FrameSize
    <3> QED BY <1>1, <2>2, <2>3, <3>1 DEF Faultless
  <2>5. c.unit = f[Len(f)].unit
    <3>1. Len(f) \in 1..(Len(g) - 1) /\ Len(f) \in 1..Len(f) BY <1>1, <2>1
    <3>2. Joined(g, Len(f)) BY <1>2, <3>1
    <3>3. g[Len(f)] = f[Len(f)] BY <1>1, <3>1
    <3> QED BY <1>1, <3>2, <3>3 DEF Joined
  <2>6. f[Len(f)].part = Part(Len(f))
    <3>1. \A k \in {1, 2, 3, 4, 5} : k \in 1..k OBVIOUS
    <3>2. Len(f) \in 1..Len(f) BY <2>1, <3>1
    <3> QED BY <2>2, <3>2
  <2>7. /\ ~(c.half = "first" /\ c.part = 1)
        /\ c.half = "first" => c.part = Part(Len(f)) + 1
        /\ (c.half # "first" /\ c.part = 3) <=> Len(f) = 5
    <3>1. CASE Len(f) = 1 BY <1>4, <1>5, <3>1
    <3>2. CASE Len(f) = 2 BY <1>4, <1>5, <3>2
    <3>3. CASE Len(f) = 3 BY <1>4, <1>5, <3>3
    <3>4. CASE Len(f) = 4 BY <1>4, <1>5, <3>4
    <3>5. CASE Len(f) = 5 BY <1>4, <1>5, <3>5
    <3> QED BY <2>1, <3>1, <3>2, <3>3, <3>4, <3>5
  <2> QED BY <1>3, <1>7, <2>4, <2>5, <2>6, <2>7 DEF SOF, EOF
<1> QED BY <1>3, <1>6, <1>7

\* A chunk whose id tells of no loss follows the last one.
LEMMA ChunkFollows ==
    ASSUME TypeOK, Framed, usb.at = "lock", Sized, ~(Begins /\ usb.chunk.part = SOF),
           Begins => ~IdsTell(processor.last, usb.chunk.id)
    PROVE  Follows(Last, usb.chunk)
<1> DEFINE c == usb.chunk
<1>1. Handling /\ c \in Chunks /\ c.half \in {"first", "rest"} /\ c.part \in 1..3
  <2>1. c \in Chunks BY Types
  <2> QED BY <2>1 DEF Handling, Chunks, SOF, EOF
<1>2. /\ Last \in Chunks /\ Place(Last) \in Int /\ Last.part \in 1..3
      /\ Len(processor.seen) \in DOMAIN processor.seen
  <2>1. Last \in Chunks /\ Place(Last) \in Int /\ Len(processor.seen) \in DOMAIN processor.seen
    BY LastType DEF Framed
  <2> HIDE DEF Last
  <2> QED BY <2>1 DEF Chunks, SOF, EOF
<1>3. processor.last = Last.id /\ processor # None
  BY DEF Framed, SeenInv, Sized
<1>4. Numbered(Last) /\ Numbered(c)
  BY <1>1, <1>2, <1>3 DEF Framed, NumberInv, Last
<1>5. /\ ~Begins => Last.half = "first" /\ Last.good /\ SamePacket(Last, c)
      /\ Begins => /\ Last.half = "rest"
                   /\ Place(c) > Place(Last)
                   /\ ~Last.good => Place(c) > Place(Last) + 1
                   /\ Place(c) - Place(Last) - 1 <= budget.losses
  BY <1>1 DEF Framed, PendingInv
<1>6. budget.losses \in Nat /\ budget.losses <= MaxLoss /\ MaxLoss \in Nat /\ Place(c) \in Int
  BY <1>1, BudgetTypes, BoundsAssumption, Places
<1>7. Begins <=> c.half = "first" BY DEF Begins
<1>8. CASE Begins
  <2>1. c.id = 0 \/ c.id = Last.id + 1 BY <1>3, <1>8 DEF IdsTell
  <2>2. CASE c.id = 0
    BY <1>5, <1>7, <1>8, <2>2 DEF Follows
  <2>3. CASE c.id = Last.id + 1
    <3>1. Place(c) > Place(Last) BY <1>5, <1>8
    <3> HIDE DEF Last, c, Place, Begins
    <3>2. Place(c) - Place(Last) - 1 <= MaxLoss BY <1>2, <1>5, <1>6, <1>8
    <3>3. Place(c) = Place(Last) + 1 BY <1>1, <1>2, <1>4, <2>3, <3>1, <3>2, IdTells
    <3>4. Last.good BY <1>2, <1>5, <1>6, <1>8, <3>3
    <3>5. Last.part # EOF /\ c.unit = Last.unit /\ c.part = Last.part + 1
      <4>1. c.part # SOF BY <1>8 DEF c
      <4> QED BY <1>1, <1>2, <3>3, <4>1, Places
    <3> QED BY <1>5, <1>7, <1>8, <3>4, <3>5 DEF Follows, SOF, c
  <2> QED BY <2>1, <2>2, <2>3
<1>9. CASE ~Begins
  BY <1>1, <1>5, <1>7, <1>9 DEF Follows
<1> QED BY <1>8, <1>9

\* The buffer after a chunk that follows: no frame without its SOF packet gets the size of one.
LEMMA FillOn ==
    ASSUME TypeOK, Framed, usb.at = "lock", Sized, ~processor.corrupted,
           Follows(Last, usb.chunk), Len(buffer) < FrameSize,
           ~Begins /\ usb.chunk.part = EOF => Len(buffer) = 5
    PROVE  LET g == Append(buffer, usb.chunk) IN
           /\ ~Begins /\ usb.chunk.part = EOF => FrameLike(g)
           /\ Len(g) \in 1..5 =>
                \/ Began(g)
                \/ /\ Headless(g)
                   /\ usb.chunk.part = 2 /\ mode => Ahead - Place(usb.chunk) <= budget.losses
<1> DEFINE c == usb.chunk
           g == Append(buffer, c)
           n == Len(buffer)
<1>1. /\ Handling /\ c \in Chunks /\ c.half \in {"first", "rest"} /\ c.part \in 1..3
      /\ c.id \in 0..(PacketIds - 1)
  <2>1. c \in Chunks BY Types
  <2> QED BY <2>1 DEF Handling, Chunks, SOF, EOF
<1>2. /\ Last \in Chunks /\ Place(Last) \in Int /\ Last.part \in 1..3
      /\ Len(processor.seen) \in DOMAIN processor.seen
  <2>1. Last \in Chunks /\ Place(Last) \in Int /\ Len(processor.seen) \in DOMAIN processor.seen
    BY LastType DEF Framed
  <2> HIDE DEF Last
  <2> QED BY <2>1 DEF Chunks, SOF, EOF
<1>3. Numbered(Last) /\ Numbered(c)
  <2>1. processor # None BY DEF Sized
  <2> QED BY <1>1, <1>2, <2>1 DEF Framed, NumberInv, Last
<1>4. /\ budget.losses \in Nat /\ budget.losses <= MaxLoss /\ MaxLoss \in Nat /\ Place(c) \in Int
      /\ Ahead \in Int
  BY <1>1, BudgetTypes, BoundsAssumption, Places
<1>5. Begins <=> c.half = "first" BY DEF Begins
<1>6. buffer \in Seq(Chunks) /\ n \in 0..5 /\ FrameSize = 6
  <2>1. buffer \in Seq(Chunks) BY DEF TypeOK
  <2>2. FrameSize = 6 BY DEF FrameSize
  <2>3. Len(buffer) \in Nat BY <2>1
  <2>4. Len(buffer) < 6 BY <2>2
  <2>5. \A k \in Nat : k < 6 => k \in 0..5 OBVIOUS
  <2>6. n \in 0..5 BY <2>3, <2>4, <2>5
  <2> QED BY <2>1, <2>2, <2>6
<1>7. /\ Len(g) = n + 1 /\ g[n + 1] = c
  BY <1>1, <1>6, Extended
<1>8. /\ buffer = <<>> => Last.part = EOF /\ Last.half = "rest"
      /\ n \in 1..5 => /\ Last = buffer[n]
                       /\ \/ Began(buffer)
                          \/ Headless(buffer) /\ (Last.part = 2 => HeadlessLoss)
  BY <1>6 DEF Framed, FillInv
<1>9. Begins => Place(c) > Place(Last) /\ Last.half = "rest"
  BY <1>1 DEF Framed, PendingInv
<1> HIDE DEF Last, Place, Ahead, Handling, Sized, Numbered, c, g, n
<1>10. CASE n = 0
  <2>1. buffer = <<>> BY <1>6, <1>10 DEF n
  <2>2. Last.part = EOF /\ Last.half = "rest" BY <1>8, <2>1
  <2>3. c.half = "first" /\ c.part # SOF /\ c.id = 0 BY <1>1, <2>2 DEF Follows, c
  <2>4. Headless(g)
    BY <1>1, <1>7, <1>10, <2>3 DEF Headless, SOF, EOF
  <2>5. mode => Ahead - Place(Last) - 2 <= budget.losses
    BY <1>1, <1>5, <2>3 DEF Framed, ComingInv, c
  <2>6. Place(c) # Place(Last) + 1
    BY <1>1, <1>2, <2>2, <2>3, Places
  <2>7. mode => Ahead - Place(c) <= budget.losses
    BY <1>2, <1>4, <1>5, <1>9, <2>3, <2>5, <2>6
  <2> QED BY <1>5, <2>3, <2>4, <2>7 DEF c, g
<1>11. CASE n \in 1..5 /\ Began(buffer)
  <2>1. Follows(buffer[n], c) BY <1>8, <1>11 DEF c
  <2>2. c.half = "rest" /\ c.part = EOF => n = 5 BY <1>5 DEF c, n
  <2>3. /\ n < 5 => Began(g)
        /\ n = 5 /\ c.part = EOF => FrameLike(g)
    BY <1>1, <1>6, <1>11, <2>1, <2>2, BeganOn DEF g, n
  <2>4. c.half # "first" /\ c.part = EOF => n = 5 /\ FrameLike(g)
    BY <1>1, <2>2, <2>3
  <2>5. Len(g) \in 1..5 => Began(g)
    BY <1>7, <1>11, <2>3
  <2> QED BY <1>5, <2>4, <2>5 DEF c, g
<1>12. CASE n \in 1..5 /\ Headless(buffer) /\ (Last.part = 2 => HeadlessLoss)
  <2>1. /\ Last = buffer[n] /\ n \in {1, 2, 3}
    BY <1>8, <1>12 DEF Headless, n
  <2>2. Last.half = "first" =>
          c.half = "rest" /\ c.part = Last.part /\ c.id = Last.id /\ Place(c) = Place(Last)
    <3>1. Last.half = "first" => c.half = "rest" /\ SamePacket(Last, c)
      BY <1>1 DEF Follows, c
    <3> QED BY <3>1 DEF SamePacket, Place
  <2>3. ~(c.half = "rest" /\ c.part = EOF)
    <3>1. ~Begins /\ c.part = EOF => n = 5 BY DEF c, n
    <3>2. n # 5 BY <2>1
    <3>3. c.half = "rest" => ~Begins BY <1>5
    <3> QED BY <3>1, <3>2, <3>3
  <2>4. CASE Last.half = "first"
    <3>1. c.half = "rest" /\ c.part # EOF BY <2>2, <2>3, <2>4
    <3>2. n = 1 /\ Last.part = 2 /\ Last.id = 0
      BY <1>12, <2>1, <2>2, <2>3, <2>4 DEF Headless, n
    <3>3. Headless(g) BY <1>7, <2>2, <2>4, <3>2 DEF Headless
    <3>4. ~(Handling /\ Begins) BY <1>5, <3>1
    <3>5. mode => Ahead - Place(c) <= budget.losses
      BY <1>12, <2>2, <2>4, <3>2, <3>4 DEF HeadlessLoss
    <3> QED BY <1>5, <3>1, <3>3, <3>5 DEF c, g
  <2>5. CASE Last.half # "first"
    <3>1. n = 2 /\ Last.part = 2 /\ Last.id = 0
      BY <1>12, <2>1, <2>5 DEF Headless, n
    <3>2. c.half = "first" /\ c.part # SOF
      BY <1>1, <2>5 DEF Follows, c
    <3>3. c.part # 2
      <4> SUFFICES ASSUME c.part = 2 PROVE FALSE
        OBVIOUS
      <4>1. c.id = 0 BY <3>1, <3>2 DEF Follows, c
      <4>2. Place(c) - Place(Last) > MaxLoss
        BY <1>1, <1>2, <1>3, <1>5, <1>9, <3>1, <3>2, <4>1, IdTells
      <4>3. Place(c) - Place(Last) <= budget.losses
        BY <1>1, <1>5, <1>12, <3>1, <3>2 DEF HeadlessLoss, c
      <4> QED BY <1>2, <1>4, <4>2, <4>3
    <3>4. c.part = EOF BY <1>1, <3>2, <3>3 DEF SOF, EOF
    <3>5. Headless(g) BY <1>7, <3>1, <3>2, <3>4 DEF Headless
    <3> QED BY <1>5, <3>2, <3>3, <3>5 DEF c, g
  <2> QED BY <2>4, <2>5
<1>13. n = 0 \/ n \in 1..5 BY <1>6
<1> QED BY <1>8, <1>10, <1>11, <1>12, <1>13

LEMMA ProcessStep ==
    ASSUME TypeOK, Framed, ProcessChunk
    PROVE  Framed'
<1> USE DEF status, data, wire
<1>0. /\ usb.at = "lock" /\ Handling
      /\ UNCHANGED <<mode, next, parser, hLock, budget>>
  BY DEF ProcessChunk, Handling
<1>1. CASE processor = None
  <2>1. usb'.at = "wait" /\ UNCHANGED <<processor, buffer, handed>>
    BY <1>1 DEF ProcessChunk, Waiting, Gone
  <2>2. Last' = Last /\ ~Sized' /\ ~Sized /\ ~Handling' BY <1>1, <2>1 DEF Last, Sized, Handling
  <2> HIDE DEF Last, Sized, Handling
  <2>3. NumberInv' BY <1>0, <1>1, <2>1, <2>2 DEF Framed, NumberInv
  <2>4. SeenInv' BY <1>0, <2>1, <2>2 DEF Framed, SeenInv
  <2>5. PendingInv' BY <2>2 DEF PendingInv
  <2>6. ComingInv' BY <2>2 DEF ComingInv
  <2>7. FillInv' /\ HandInv' BY <1>1, <2>1, <2>2 DEF FillInv, HandInv
  <2>8. FrameIsWhole' BY <2>1 DEF Framed, FrameIsWhole
  <2> QED BY <2>3, <2>4, <2>5, <2>6, <2>7, <2>8 DEF Framed
<1>2. CASE processor # None
  <2> DEFINE c == usb.chunk
             first == c.half = "first"
             sof == first /\ c.part = SOF
             eof == ~first /\ c.part = EOF
             corrupted == ~sof /\ (processor.corrupted \/ (first /\ IdsTell(processor.last, c.id)))
             start == IF sof THEN <<>> ELSE buffer
             fits == ~corrupted /\ Len(start) < FrameSize
             filled == IF fits THEN Append(start, c) ELSE start
             expected == IF sof THEN FrameSize ELSE processor.expected
             bad == ~fits \/ (eof /\ Len(filled) # expected)
             seen == IF sof THEN <<c>> ELSE Append(processor.seen, c)
  <2>1. /\ processor' = [last |-> c.id, corrupted |-> bad, expected |-> expected, seen |-> seen]
        /\ buffer' = IF eof /\ bad THEN <<>> ELSE filled
        /\ handed' = IF sof THEN <<>> ELSE handed
        /\ usb' = IF eof /\ ~bad THEN [usb EXCEPT !.at = "mark"] ELSE Waiting
    BY <1>2 DEF ProcessChunk
  <2>2. usb'.at = IF eof /\ ~bad THEN "mark" ELSE "wait"
    <3>1. usb \in Threads BY DEF TypeOK
    <3> HIDE DEF eof, bad
    <3> QED BY <2>1, <3>1 DEF Threads, Waiting, Gone
  <2>3. /\ processor \in Processors /\ processor.seen \in Seq(Chunks) /\ processor' # None
        /\ processor.expected \in {0, 6} /\ buffer \in Seq(Chunks) /\ FrameSize = 6
    BY <1>2, ChunkTypes, Constants DEF TypeOK, Processors, FrameSize
  <2>4. c \in Chunks /\ c.half \in {"first", "rest"} /\ c.part \in 1..3 /\ Place(c) \in Int
    <3>1. c \in Chunks BY <1>0, Types
    <3> HIDE DEF c
    <3> QED BY <3>1, Places DEF Chunks, SOF, EOF
  <2>5. /\ processor'.last = c.id /\ processor'.corrupted = bad /\ processor'.expected = expected
        /\ processor'.seen = seen
    BY <2>1
  <2>6. seen # <<>> /\ seen[Len(seen)] = c
    <3>1. CASE sof BY <3>1
    <3>2. CASE ~sof
      <4>1. seen = Append(processor.seen, c) BY <3>2
      <4> HIDE DEF seen, sof, c
      <4> QED BY <2>3, <2>4, <4>1
    <3> QED BY <3>1, <3>2
  <2>7. Last' = c BY <2>5, <2>6 DEF Last
  <2>8. Sized' <=> sof \/ Sized BY <1>2, <2>3, <2>5 DEF Sized
  <2>9. ~Handling' /\ Ahead' = Ahead BY <1>0, <2>2 DEF Handling, Ahead
  <2>10. /\ ~Begins /\ Sized => Last.half = "first" /\ Last.good /\ SamePacket(Last, c)
         /\ first <=> Begins
         /\ Begins => c.good
    BY <1>0 DEF Framed, PendingInv, Begins
  <2>11. Numbered(c) /\ \A i \in DOMAIN processor.seen : Numbered(processor.seen[i])
    BY <1>0, <1>2 DEF Framed, NumberInv
  <2>12. Sized => Last \in Chunks /\ Place(Last) \in Int /\ processor.last = Last.id
    BY <1>2, LastType DEF Framed, SeenInv, Sized
  <2>13. ASSUME Sized, ~sof, ~(first /\ IdsTell(processor.last, c.id))
         PROVE  Follows(Last, c)
    <3>1. ~(Begins /\ usb.chunk.part = SOF) /\ (Begins => ~IdsTell(processor.last, usb.chunk.id))
      BY <2>10, <2>13
    <3> HIDE DEF c
    <3>2. Follows(Last, usb.chunk) BY <1>0, <2>13, <3>1, ChunkFollows
    <3> QED BY <3>2 DEF c
  <2>14. NumberInv'
    <3>1. \A i \in DOMAIN seen : Numbered(seen[i])
      <4>1. CASE sof BY <2>11, <4>1
      <4>2. CASE ~sof
        <5>1. seen = Append(processor.seen, c) BY <4>2
        <5> HIDE DEF seen, sof, c, Numbered
        <5> QED BY <2>3, <2>4, <2>11, <5>1, Extended
      <4> QED BY <4>1, <4>2
    <3> HIDE DEF seen, c, Numbered, Place, Handling
    <3> QED BY <1>0, <2>5, <2>9, <3>1 DEF Framed, NumberInv
  <2>15. SeenInv'
    <3> HIDE DEF seen, c, bad, expected, Last, Handling, Sized
    <3> QED BY <1>0, <2>5, <2>6, <2>7 DEF Framed, SeenInv
  <2>16. PendingInv' BY <2>9 DEF PendingInv
  <2>17. ComingInv'
    <3> SUFFICES ASSUME mode, Sized'
                 PROVE  /\ parser = None <=> c.half = "rest"
                        /\ parser # None => SamePacket(c, parser.packet) /\ c.good
                        /\ Place(c) < Ahead /\ (~c.good => Place(c) + 1 < Ahead)
                        /\ Ahead - Place(c) - 1 <= budget.losses
      BY <1>0, <2>7, <2>9 DEF ComingInv
    <3>1. CASE Begins
      <4>1. /\ parser # None /\ SamePacket(c, parser.packet)
            /\ Place(c) < Ahead /\ Ahead - Place(c) - 1 <= budget.losses
        BY <1>0, <3>1 DEF Framed, ComingInv
      <4> HIDE DEF c
      <4> QED BY <2>4, <2>10, <3>1, <4>1 DEF c
    <3>2. CASE ~Begins
      <4>1. Sized BY <2>8, <2>10, <3>2
      <4>2. SamePacket(Last, c) /\ c.half = "rest" BY <2>4, <2>10, <3>2, <4>1
      <4>3. Place(c) = Place(Last) BY <4>2 DEF SamePacket, Place
      <4>4. /\ parser = None
            /\ Place(c) < Ahead
            /\ ~c.good => Place(c) + 1 < Ahead
            /\ Ahead - Place(Last) - 1 <= budget.losses
        BY <1>0, <3>2, <4>1 DEF Framed, ComingInv
      <4> HIDE DEF c, Place, Last, Ahead
      <4> QED BY <4>2, <4>3, <4>4
    <3> QED BY <3>1, <3>2
  <2>18. FillInv'
    <3>1. ASSUME ~bad, ~sof
          PROVE  /\ ~processor.corrupted /\ ~(first /\ IdsTell(processor.last, c.id))
                 /\ Len(buffer) < FrameSize /\ filled = Append(buffer, c)
                 /\ eof => Len(buffer) = 5 /\ Sized
      <4>1. fits /\ start = buffer /\ (eof => Len(filled) = expected) BY <3>1
      <4>2. filled = Append(buffer, c) BY <4>1
      <4>3. Len(filled) = Len(buffer) + 1 /\ Len(buffer) \in Nat BY <2>3, <2>4, <4>2, Extended
      <4>4. expected = processor.expected BY <3>1
      <4>5. eof => Len(buffer) + 1 = processor.expected
        <5> HIDE DEF eof, expected, filled
        <5> QED BY <4>1, <4>3, <4>4
      <4>6. eof => Len(buffer) = 5 /\ processor.expected = 6
        <5>1. \A k \in Nat, e \in {0, 6} : k + 1 = e => k = 5 /\ e = 6 OBVIOUS
        <5> HIDE DEF eof
        <5> QED BY <2>3, <4>3, <4>5, <5>1
      <4>7. eof => Len(buffer) = 5 /\ Sized
        <5> HIDE DEF eof
        <5> QED BY <1>2, <2>3, <4>6 DEF Sized
      <4>8. ~corrupted /\ Len(buffer) < FrameSize
        <5>1. ~corrupted /\ Len(start) < FrameSize BY <4>1
        <5> QED BY <4>1, <5>1
      <4>9. ~processor.corrupted /\ ~(first /\ IdsTell(processor.last, c.id)) BY <3>1, <4>8
      <4> QED BY <4>2, <4>7, <4>8, <4>9
    <3>2. ASSUME ~bad, ~sof, Sized
          PROVE  /\ eof => FrameLike(filled)
                 /\ Len(filled) \in 1..5 =>
                      \/ Began(filled)
                      \/ /\ Headless(filled)
                         /\ c.part = 2 /\ mode => Ahead - Place(c) <= budget.losses
      <4>1. Follows(Last, c) /\ ~processor.corrupted /\ Len(buffer) < FrameSize /\ filled = Append(buffer, c)
        BY <2>13, <3>1, <3>2
      <4>2. eof <=> ~Begins /\ c.part = EOF BY <2>10
      <4>3. eof => Len(buffer) = 5 BY <3>1, <3>2
      <4> DEFINE g == Append(buffer, usb.chunk)
      <4>4. /\ ~Begins /\ usb.chunk.part = EOF => FrameLike(g)
            /\ Len(g) \in 1..5 =>
                 \/ Began(g)
                 \/ /\ Headless(g)
                    /\ usb.chunk.part = 2 /\ mode => Ahead - Place(usb.chunk) <= budget.losses
        BY <1>0, <3>2, <4>1, <4>2, <4>3, FillOn
      <4>5. filled = g BY <4>1
      <4> HIDE DEF g, filled, eof
      <4> QED BY <4>2, <4>4, <4>5
    <3>3. ASSUME usb'.at = "mark"
          PROVE  /\ Sized' /\ ~processor'.corrupted /\ Last'.part = EOF /\ Last'.half = "rest"
                 /\ FrameLike(buffer')
      <4>1. eof /\ ~bad
        <5> HIDE DEF eof, bad
        <5> QED BY <2>2, <3>3
      <4>2. ~sof BY <4>1
      <4>3. Sized BY <3>1, <4>1, <4>2
      <4>4. FrameLike(filled) BY <3>2, <4>1, <4>2, <4>3
      <4>5. buffer' = filled
        <5> HIDE DEF filled, eof, bad
        <5> QED BY <2>1, <4>1
      <4>6. c.part = EOF /\ c.half = "rest" BY <2>4, <4>1
      <4>7. ~processor'.corrupted BY <2>5, <4>1
      <4>8. Last'.part = EOF /\ Last'.half = "rest" BY <2>7, <4>6
      <4> HIDE DEF filled, eof, bad, Last, c, sof
      <4> QED BY <2>8, <4>3, <4>4, <4>5, <4>7, <4>8
    <3>4. ASSUME Sized', ~processor'.corrupted, usb'.at = "wait"
          PROVE  /\ buffer' # <<>>
                 /\ Len(buffer') \in 1..(FrameSize - 1) =>
                      /\ Last' = buffer'[Len(buffer')]
                      /\ \/ Began(buffer')
                         \/ Headless(buffer') /\ (Last'.part = 2 => HeadlessLoss')
      <4>1. ~bad /\ ~eof
        <5>1. ~bad BY <2>5, <3>4
        <5> HIDE DEF bad, eof
        <5> QED BY <2>2, <3>4, <5>1
      <4>2. buffer' = filled
        <5> HIDE DEF bad, eof, filled
        <5> QED BY <2>1, <4>1
      <4>3. CASE sof
        <5>1. start = <<>> /\ fits BY <4>1, <4>3
        <5>2. filled = <<c>>
          <6>1. filled = Append(<<>>, c) BY <5>1
          <6> HIDE DEF filled, c
          <6> QED BY <6>1
        <5>3. c.half = "first" /\ c.part = SOF BY <4>3
        <5>4. /\ Len(<<c>>) = 1 /\ DOMAIN <<c>> = 1..1 /\ <<c>>[1] = c /\ <<c>> # <<>>
          OBVIOUS
        <5>5. Half(1) = "first" BY DEF Half
        <5>6. Began(<<c>>)
          <6>1. \A i \in DOMAIN <<c>> : <<c>>[i].half = Half(i)
            BY <5>3, <5>4, <5>5
          <6>2. \A i \in 1..(Len(<<c>>) - 1) : FALSE
            BY <5>4
          <6> HIDE DEF c
          <6> QED BY <5>3, <5>4, <6>1, <6>2 DEF Began
        <5>7. filled # <<>> /\ c = filled[Len(filled)] /\ Began(filled)
          <6> HIDE DEF filled, c
          <6> QED BY <5>2, <5>4, <5>6
        <5> HIDE DEF filled, c
        <5> QED BY <2>7, <4>2, <5>7
      <4>4. CASE ~sof
        <5>1. Sized BY <2>8, <3>4, <4>4
        <5>2. filled = Append(buffer, c) BY <3>1, <4>1, <4>4
        <5>3. filled # <<>> /\ c = filled[Len(filled)]
          <6> HIDE DEF filled, c
          <6> QED BY <2>3, <2>4, <5>2, Extended
        <5>4. Len(filled) \in 1..5 =>
                \/ Began(filled)
                \/ /\ Headless(filled)
                   /\ c.part = 2 /\ mode => Ahead - Place(c) <= budget.losses
          BY <3>2, <4>1, <4>4, <5>1
        <5>5. (mode => Ahead - Place(c) <= budget.losses) => HeadlessLoss'
          <6> HIDE DEF c, Place, Ahead
          <6> QED BY <1>0, <2>7, <2>9 DEF HeadlessLoss
        <5>6. FrameSize - 1 = 5 BY <2>3
        <5> HIDE DEF filled, c, Last, Ahead, HeadlessLoss, Place
        <5> QED BY <2>7, <4>2, <5>3, <5>4, <5>5, <5>6
      <4> QED BY <4>3, <4>4
    <3>5. usb'.at \in {"mark", "wait"} /\ (buffer' = <<>> => Len(buffer') = 0)
      <4> HIDE DEF bad, eof
      <4> QED BY <2>2
    <3> QED BY <3>3, <3>4, <3>5 DEF FillInv
  <2>19. HandInv'
    <3> SUFFICES ASSUME Faultless(seen)
                 PROVE  /\ Sized' /\ ~bad
                        /\ Len(seen) < FrameSize => buffer' = seen
                        /\ Len(seen) = FrameSize => usb'.at = "mark" /\ buffer' = seen
      <4> HIDE DEF bad, seen
      <4> QED BY <2>5 DEF HandInv
    <3>1. CASE sof
      <4>1. fits /\ ~eof /\ filled = <<c>> /\ seen = <<c>>
        BY <2>3, <3>1
      <4>2. buffer' = filled /\ ~bad
        <5>1. ~bad BY <4>1
        <5> HIDE DEF bad, filled, eof
        <5> QED BY <2>1, <4>1, <5>1
      <4>3. Len(seen) = 1 BY <4>1
      <4>4. Sized' BY <2>8, <3>1
      <4> HIDE DEF seen, filled, bad
      <4> QED BY <2>3, <4>1, <4>2, <4>3, <4>4
    <3>2. CASE ~sof
      <4> DEFINE s == processor.seen
      <4>1. seen = Append(s, c) BY <3>2
      <4>2. s \in Seq(Chunks) /\ Len(s) \in Nat /\ c \in Chunks BY <2>3, <2>4
      <4>3. /\ Len(s) \in 0..5
            /\ Len(s) = 0 => c.half = "first" /\ c.part = SOF
            /\ Len(s) >= 1 =>
                /\ Faultless(s)
                /\ ~(c.half = "first" /\ c.part = SOF)
                /\ c.half = "first" => c.unit = s[Len(s)].unit /\ c.part = s[Len(s)].part + 1
                /\ (c.half # "first" /\ c.part = EOF) <=> Len(s) = 5
        <5> HIDE DEF c, s, seen
        <5> QED BY <4>1, <4>2, FaultlessOn
      <4>4. Len(s) # 0 BY <3>2, <4>3
      <4>5. Len(s) >= 1 /\ Faultless(s) /\ (eof <=> Len(s) = 5) /\ Len(s) <= 5
        <5>1. \A k \in 0..5 : k # 0 => k >= 1 /\ k <= 5 OBVIOUS
        <5>2. Len(s) >= 1 /\ Len(s) <= 5 BY <4>3, <4>4, <5>1
        <5> QED BY <4>3, <5>2
      <4>6. /\ Sized /\ ~processor.corrupted /\ buffer = s
        <5>1. Sized /\ ~processor.corrupted /\ (Len(s) < FrameSize /\ usb.at # "none" => buffer = s)
          BY <1>2, <4>5 DEF Framed, HandInv
        <5>2. Len(s) < FrameSize BY <2>3, <4>2, <4>5
        <5> QED BY <1>0, <5>1, <5>2
      <4>7. ~(first /\ IdsTell(processor.last, c.id))
        <5> SUFFICES ASSUME first PROVE ~IdsTell(processor.last, c.id)
          OBVIOUS
        <5>1. c.unit = Last.unit /\ c.part = Last.part + 1 BY <4>3, <4>5 DEF Last
        <5>2. Len(s) \in DOMAIN s BY <4>2, <4>5
        <5>3. Numbered(Last) /\ Last \in Chunks /\ processor.last = Last.id
          BY <2>11, <2>12, <4>6, <5>2 DEF Last
        <5> HIDE DEF c, Last, Place, Numbered
        <5>4. Place(c) = Place(Last) + 1 BY <2>4, <5>1, <5>3, Places
        <5>5. Numbered(c) BY <2>11
        <5>6. ~IdsTell(Last.id, c.id) BY <2>4, <5>3, <5>4, <5>5, NextId
        <5> QED BY <5>3, <5>6
      <4>8. ~corrupted /\ start = s BY <3>2, <4>6, <4>7
      <4>9. fits /\ filled = seen
        <5>1. Len(s) < FrameSize BY <2>3, <4>2, <4>5
        <5>2. fits BY <4>8, <5>1
        <5> QED BY <4>1, <4>8, <5>2
      <4>10. Len(seen) = Len(s) + 1
        <5> HIDE DEF seen, s, c
        <5> QED BY <4>1, <4>2, Extended
      <4>11. expected = FrameSize BY <3>2, <4>6 DEF Sized
      <4>12. ~bad
        <5>1. eof => Len(filled) = expected
          <6>1. Len(s) = 5 => Len(s) + 1 = 6 OBVIOUS
          <6>2. eof => Len(s) = 5 BY <4>5
          <6> HIDE DEF eof, filled, expected, seen, s
          <6> QED BY <2>3, <4>9, <4>10, <4>11, <6>1, <6>2
        <5> QED BY <4>9, <5>1
      <4>13. buffer' = seen /\ (eof => usb'.at = "mark")
        <5> HIDE DEF eof, bad, filled, seen
        <5> QED BY <2>1, <2>2, <4>9, <4>12
      <4>14. Len(seen) = FrameSize => eof
        <5>1. \A k \in Nat : k + 1 = 6 => k = 5 OBVIOUS
        <5>2. Len(s) = 5 => eof BY <4>5
        <5> HIDE DEF eof, seen, s
        <5> QED BY <2>3, <4>2, <4>10, <5>1, <5>2
      <4> HIDE DEF seen, bad, eof
      <4> QED BY <2>8, <4>6, <4>12, <4>13, <4>14
    <3> QED BY <3>1, <3>2
  <2>20. FrameIsWhole'
    <3>1. handed' = handed \/ handed' = <<>> BY <2>1
    <3> HIDE DEF sof
    <3> QED BY <3>1 DEF Framed, FrameIsWhole
  <2> QED BY <2>14, <2>15, <2>16, <2>17, <2>18, <2>19, <2>20 DEF Framed
<1> QED BY <1>1, <1>2

LEMMA InitFrames == Init => FramesInv
<1> SUFFICES ASSUME Init PROVE FramesInv
  OBVIOUS
<1>1. /\ ~mode /\ call.at = "idle" /\ usb.at = "none" /\ processor = None /\ parser = None
      /\ hLock = "free" /\ handed = <<>>
      /\ next = [unit |-> 1, part |-> 1, id |-> 1]
  BY DEF Init, Idle, Gone, SOF
<1>2. Numbered(next)
  <2>1. Place(next) = 1 BY <1>1 DEF Place
  <2>2. 1 = 0 * PacketIds + 1 BY Constants
  <2>3. next.id = 1 BY <1>1
  <2> HIDE DEF Place
  <2> QED BY <2>1, <2>2, <2>3 DEF Numbered
<1>3. ~Handling /\ ~Sized BY <1>1 DEF Handling, Sized
<1>4. QuietInv BY <1>1 DEF QuietInv
<1>5. NumberInv /\ SeenInv /\ PendingInv
  <2> HIDE DEF Numbered
  <2> QED BY <1>1, <1>2, <1>3 DEF NumberInv, SeenInv, PendingInv
<1>6. ComingInv /\ HandInv BY <1>1 DEF ComingInv, HandInv
<1>7. FillInv /\ FrameIsWhole BY <1>1 DEF FillInv, FrameIsWhole
<1> QED BY <1>4, <1>5, <1>6, <1>7 DEF FramesInv, Framed

LEMMA FramesStep == TypeOK /\ LifeInv /\ FramesInv /\ [Next]_vars => FramesInv'
<1> SUFFICES ASSUME TypeOK, LifeInv, FramesInv, [Next]_vars PROVE FramesInv'
  OBVIOUS
<1>1. QuietInv' BY QuietStep
<1>2. Framed BY DEF FramesInv
<1>3. ASSUME BeginPacket PROVE Framed'
  BY <1>2, <1>3, BeginStep
<1>4. ASSUME EndPacket PROVE Framed'
  BY <1>2, <1>4, EndStep
<1>5. ASSUME TestProcessor PROVE Framed'
  BY <1>2, <1>5, TestStep
<1>6. ASSUME ProcessChunk PROVE Framed'
  BY <1>2, <1>6, ProcessStep
<1>7. ASSUME MarkWriteBufferAsStable PROVE Framed'
  BY <1>2, <1>7, MarkStep
<1>8. ASSUME LoseData PROVE Framed'
  BY <1>2, <1>8, LoseStep
<1>9. ASSUME CallStepOf PROVE Framed'
  BY <1>9, CallsAreAside, AsideStep
<1>10. Framed'
  BY <1>3, <1>4, <1>5, <1>6, <1>7, <1>8, <1>9 DEF Next, ReadThread, CallStepOf
<1> QED BY <1>1, <1>10 DEF FramesInv

LEMMA FramesExact == TypeOK /\ FramesInv => FramesAreExact
<1> SUFFICES ASSUME TypeOK, FramesInv PROVE FramesAreExact
  OBVIOUS
<1>1. FrameIsWhole BY DEF FramesInv, Framed
<1>2. WholeFrameIsHanded
  <2> DEFINE f == processor.seen
  <2> SUFFICES ASSUME processor # None, usb.at # "mark", budget.nulls = 0, InOrder(f),
                      \A i \in DOMAIN f : f[i].good,
                      \A i \in 1..(FrameSize - 1) : Joined(f, i)
               PROVE  handed = f
    BY DEF WholeFrameIsHanded
  <2>1. Len(f) = FrameSize /\ FrameSize \in 1..FrameSize
    BY DEF InOrder, FrameSize
  <2>2. Faultless(f)
    BY <2>1 DEF Faultless, InOrder
  <2> HIDE DEF f
  <2> QED BY <2>1, <2>2 DEF FramesInv, Framed, HandInv, f
<1> QED BY <1>1, <1>2 DEF FramesAreExact

-----------------------------------------------------------------------------
(* The theorems. *)

\* In every state that the stream and its thread reach, whatever fails: the variables
\* have their types, and where a call is goes with what it has done so far.
THEOREM LifeInvariance == Spec => [](TypeOK /\ LifeInv)
<1>1. Init => TypeOK /\ LifeInv
  BY InitIInv
<1>2. TypeOK /\ LifeInv /\ [Next]_vars => (TypeOK /\ LifeInv)'
  <2> SUFFICES ASSUME TypeOK, LifeInv, [Next]_vars PROVE (TypeOK /\ LifeInv)'
    OBVIOUS
  <2>1. TypeOK'
    BY TypeStep
  <2>2. CallInv' /\ OpenInv' /\ ReadsInv' /\ BufferInv' /\ HeldInv'
    BY CallStep, OpeningStep, ReadsStep, BufferStep, HeldStep
  <2> QED BY <2>1, <2>2 DEF LifeInv
<1> QED BY <1>1, <1>2, PTL DEF Spec

\* Every variable of the stream, of its thread and of its processor has its type.
THEOREM TypeCorrect == Spec => []TypeOK
BY LifeInvariance, PTL

\* XnSensorStreamHelper: a started stream that no call is changing is open, its firmware
\* mode is on, and it has a reading thread, a processor and a buffer, unless an opening
\* failed or the core had no buffer.
THEOREM StartedStreamsRead == Spec => []StartedStreamReads
<1>1. TypeOK /\ LifeInv => StartedStreamReads
  <2> SUFFICES ASSUME TypeOK, LifeInv, started, call = Idle, smooth.opens, budget.nulls = 0
               PROVE  isOpen /\ mode /\ HasReader
    BY DEF StartedStreamReads
  <2>1. call.at = "idle"
    BY DEF Idle
  <2>2. isOpen /\ mode /\ actualRead
    BY <2>1 DEF LifeInv, OpenInv
  <2>3. usb.at # "none" /\ processor # None /\ working
    BY <2>1, <2>2 DEF LifeInv, ReadsInv
  <2> QED BY <2>2, <2>3 DEF HasReader
<1> QED BY <1>1, LifeInvariance, PTL

\* XnFrameBufferManager: the buffer that the thread hands on is there, and a stream that
\* was closed keeps none, unless an opening failed or a buffer was replaced unreturned.
THEOREM BuffersComeBack == Spec => []BuffersAreReturned
<1>1. TypeOK /\ LifeInv => BuffersAreReturned
  <2> SUFFICES ASSUME TypeOK, LifeInv PROVE BuffersAreReturned
    OBVIOUS
  <2>1. usb.at = "mark" => working
    BY DEF LifeInv, BufferInv
  <2>2. ~isOpen /\ call = Idle /\ smooth.opens /\ smooth.buffers => held = 0
    BY DEF LifeInv, OpenInv, HeldInv, Idle, Opening
  <2> QED BY <2>1, <2>2 DEF BuffersAreReturned
<1> QED BY <1>1, LifeInvariance, PTL

\* XnFrameStreamProcessor, XnFirmwareStreams::ProcessData: whatever is lost on the way, a
\* frame that is handed on is one frame of the firmware, whole and in order but for the
\* known exceptions, and a frame whose data all came is handed on if the core has buffers.
THEOREM FramesComeWhole == Spec => []FramesAreExact
<1>1. Spec => [](TypeOK /\ LifeInv)
  BY LifeInvariance
<1>2. TypeOK /\ LifeInv /\ TypeOK' /\ LifeInv' /\ FramesInv /\ [Next]_vars => FramesInv'
  BY FramesStep
<1> QED BY <1>1, <1>2, InitFrames, FramesExact, PTL DEF Spec
=============================================================================
