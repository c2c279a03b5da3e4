----------------------------- MODULE LinkStream -----------------------------
(***************************************************************************)
(* A video stream of the PSLink driver, over its USB endpoints: a thread   *)
(* reads packets of frames and puts the frames together                    *)
(* (LinkInputStreamsMgr, LinkFrameInputStream, LinkMsgParser), while the   *)
(* application starts, stops, crops and destroys the stream (LinkOniStream *)
(* and LinkFrameInputStream), each by a command whose answer is awaited on *)
(* the control endpoint (LinkControlEndpoint).                             *)
(*                                                                         *)
(* The firmware is external: it executes the commands in their order, as   *)
(* late as it likes, answers each, and cuts frames into packets. Packets   *)
(* are lost on the way, and whenever the data endpoint is not connected.   *)
(* A packet's payload is a number of units of its frame; the time stamp in *)
(* front of it, the dump files, the message type of the data packets and   *)
(* the unpacking of the pixels are left out. Commands and their answers    *)
(* are one packet each, as those of these four commands are.               *)
(***************************************************************************)
EXTENDS Integers, Sequences, FiniteSets

CONSTANTS
    PacketIds,          \* the number of packet ids, 2^16 in the code
    FullSize,           \* units of a frame, and of a frame's buffer
    CroppedSize,        \* units of a cropped frame
    MaxFrames,          \* bound: frames the device begins
    MaxLink,            \* bound: packets on their way
    MaxLoss,            \* bound: packets lost in a row while connected
    MaxCalls,           \* bound: calls of the application
    Full, Cropped,      \* the two values of the cropping
    Start, Stop, Crop, Destroy,     \* the commands, and the calls
    None

ASSUME IdsAssumption == PacketIds \in Nat /\ PacketIds > 2
ASSUME SizesAssumption ==
    FullSize \in Nat /\ CroppedSize \in 1..(FullSize - 1) /\ Full # Cropped
ASSUME BoundsAssumption ==
    MaxFrames \in Nat /\ MaxLink \in Nat /\ MaxLoss \in 0..(PacketIds - 1) /\ MaxCalls \in Nat

Commands == {Start, Stop, Crop, Destroy}

ASSUME NamesAssumption ==
    /\ Start \notin {Stop, Crop, Destroy} /\ Stop \notin {Crop, Destroy} /\ Crop # Destroy
    /\ None \notin Commands \cup {"reader", "user"} /\ {"connect", "acquire"} \cap Commands = {}

VARIABLES
    device,         \* [on, cropping, frame, left, id]: external, the frame being sent
    link, lost,     \* the packets on their way, and the packets lost in a row
    requests,       \* commands the device has not executed yet
    answers,        \* answers the host has not received yet
    mgr,            \* StreamInfo: [next, prevEnds, loss]
    input,          \* LinkFrameInputStream: see InputType
    reader,         \* [at, packet]: the thread that reads the data endpoint
    connected,      \* the data endpoint is connected and the thread runs
    user,           \* [at, call, command, cropping]: the thread of the application
    lock,           \* who holds m_hCriticalSection: None, "reader" or "user"
    started,        \* LinkOniStream::m_started
    nextId,         \* LinkControlEndpoint::m_nPacketID
    gone,           \* the stream was destroyed
    calls,          \* calls so far
    sent,           \* history: commands sent so far
    failed,         \* history: what has failed: commands, "connect", "acquire"
    delivered       \* history: the frames handed on, 0 for one that is none of the device's

vars == <<device, link, lost, requests, answers, mgr, input, reader, connected, user, lock,
          started, nextId, gone, calls, sent, failed, delivered>>

wire == <<link, lost>>
control == <<requests, answers, nextId, sent>>
app == <<user, started, gone, calls>>

SizeOf(cropping) == IF cropping = Cropped THEN CroppedSize ELSE FullSize
NextId(id) == (id + 1) % PacketIds

Init ==
    /\ device = [on |-> FALSE, cropping |-> Full, frame |-> 0, left |-> 0, id |-> 1]
    /\ link = <<>> /\ lost = 0
    /\ requests = <<>> /\ answers = <<>>
    /\ mgr = [next |-> 1, prevEnds |-> TRUE, loss |-> FALSE]
    /\ input = [refs |-> 0, streaming |-> FALSE, parser |-> FALSE, room |-> 0, data |-> <<>>,
                frame |-> FALSE, corrupt |-> FALSE, cropping |-> Full]
    /\ reader = [at |-> "wait", packet |-> None]
    /\ connected = FALSE
    /\ user = [at |-> "idle", call |-> None, command |-> None, cropping |-> Full]
    /\ lock = None /\ started = FALSE /\ nextId = 0 /\ gone = FALSE
    /\ calls = 0 /\ sent = 0 /\ failed = {} /\ delivered = <<>>

-----------------------------------------------------------------------------
(* The device, external. *)

\* It executes a command, or refuses it. Packet ids go on after a start, as the host, which
\* never sets the id it expects anew, relies on.
Execute(c, ok) ==
    device' =
        IF ~ok THEN device
        ELSE CASE c.command = Start -> [device EXCEPT !.on = TRUE]
               [] c.command = Crop -> [device EXCEPT !.cropping = c.cropping]
               [] OTHER -> [device EXCEPT !.on = FALSE, !.left = 0]

DeviceAnswers ==
    /\ requests # <<>>
    /\ \E ok \in BOOLEAN :
        LET c == Head(requests) IN
        /\ Execute(c, ok)
        /\ answers' = Append(answers,
                             [command |-> c.command, serial |-> c.serial, id |-> c.id, ok |-> ok])
    /\ requests' = Tail(requests)
    /\ UNCHANGED <<wire, mgr, input, reader, connected, app, lock, nextId, sent, failed, delivered>>

\* A packet with n of the units left, the first of a frame when the last one is complete.
Packet(n) ==
    LET begin == device.left = 0
        total == IF begin THEN SizeOf(device.cropping) ELSE device.left
    IN  [id |-> device.id, begin |-> begin, units |-> n, left |-> total - n,
         frame |-> IF begin THEN device.frame + 1 ELSE device.frame]

DeviceSends(arrives) ==
    /\ device.on
    /\ \E n \in 1..FullSize :
        LET p == Packet(n) IN
        /\ p.units = 1 \/ p.left = 0
        /\ p.left >= 0 /\ p.frame <= MaxFrames
        /\ device' = [device EXCEPT !.frame = p.frame, !.left = p.left, !.id = NextId(@)]
        /\ IF arrives
           THEN connected /\ Len(link) < MaxLink /\ link' = Append(link, p) /\ lost' = 0
           ELSE /\ connected => lost < MaxLoss
                /\ lost' = IF connected THEN lost + 1 ELSE lost
                /\ UNCHANGED link
    /\ UNCHANGED <<control, mgr, input, reader, connected, app, lock, failed, delivered>>

-----------------------------------------------------------------------------
(* The thread that reads packets. *)

\* LinkInputStreamsMgr::HandlePacket up to its call of the stream: a wrong id, or a flag
\* that cannot follow the one before, is a loss, which only a BEGIN packet forgets.
LossyFlags(p) == mgr.prevEnds # p.begin     \* mutant: the id is not looked at
Lossy(p) == p.id # mgr.next \/ mgr.prevEnds # p.begin

NextPacket ==
    /\ connected /\ reader.at = "wait" /\ link # <<>>
    /\ LET p == Head(link) IN
        /\ mgr' = [next |-> NextId(p.id), prevEnds |-> p.left = 0, loss |-> mgr.loss \/ Lossy(p)]
        /\ reader' = IF input.streaming THEN [at |-> "handle", packet |-> p] ELSE reader
    /\ link' = Tail(link)
    /\ UNCHANGED <<device, lost, control, input, connected, app, lock, failed, delivered>>

\* The unit of frame f before which there are some, and after which there are left.
Units(p) == [i \in 1..p.units |-> [frame |-> p.frame, left |-> p.left + p.units - i]]

\* A BEGIN packet when no buffer can be had: the parser keeps the buffer of the last frame.
AcquireFails ==
    /\ reader.at = "handle" /\ lock = None
    /\ reader.packet.begin /\ ~input.frame
    /\ mgr' = [mgr EXCEPT !.loss = FALSE]
    /\ input' = [input EXCEPT !.corrupt = FALSE]
    /\ reader' = [at |-> "wait", packet |-> None]
    /\ failed' = failed \cup {"acquire"}
    /\ UNCHANGED <<device, wire, control, connected, app, lock, delivered>>

\* LinkMsgParser::ParsePacketImpl: a parser that has no buffer yet has no room.
Fits(data, p, room) == Len(data) + p.units <= room

\* LinkFrameInputStream::HandlePacket, up to the event of a complete frame: a BEGIN packet
\* starts the buffer of the frame it holds, or of a new one; a loss spoils the frame, and
\* so does a packet that does not fit or an END packet before the frame has its size.
Parse ==
    /\ reader.at = "handle" /\ lock = None
    /\ LET p == reader.packet
           room == IF p.begin THEN FullSize ELSE input.room
           old == IF p.begin THEN <<>> ELSE input.data
           spoilt == ~p.begin /\ (input.corrupt \/ mgr.loss)
           fits == Fits(old, p, room)
           data == IF ~spoilt /\ fits THEN old \o Units(p) ELSE old
           short == p.left = 0 /\ Len(data) # SizeOf(input.cropping)
           complete == p.left = 0 /\ ~spoilt /\ fits /\ ~short
       IN
        /\ mgr' = IF p.begin THEN [mgr EXCEPT !.loss = FALSE] ELSE mgr
        /\ input' = [input EXCEPT !.room = room, !.data = data, !.frame = p.begin \/ @,
                                  !.corrupt = spoilt \/ ~fits \/ short]
        /\ reader' = IF complete THEN [reader EXCEPT !.at = "raise"]
                                 ELSE [at |-> "wait", packet |-> None]
        /\ lock' = IF complete THEN "reader" ELSE None
    /\ UNCHANGED <<device, wire, control, connected, app, failed, delivered>>

\* The event of the frame, which LinkOniStream passes on while it is started. Without a
\* frame the program ends here, at the null m_pCurrFrame.
FrameIn(data) ==
    LET f == data[1].frame IN
    IF data = [i \in DOMAIN data |-> [frame |-> f, left |-> Len(data) - i]] THEN f ELSE 0

RaiseFrame ==
    /\ reader.at = "raise" /\ input.frame
    /\ delivered' = IF started THEN Append(delivered, FrameIn(input.data)) ELSE delivered
    /\ input' = [input EXCEPT !.frame = FALSE]
    /\ reader' = [at |-> "wait", packet |-> None] /\ lock' = None
    /\ UNCHANGED <<device, wire, control, mgr, connected, app, failed>>

-----------------------------------------------------------------------------
(* The application: the calls, and the commands they execute. *)

Idle == [at |-> "idle", call |-> None, command |-> None, cropping |-> Full]
NewCall == user.at = "idle" /\ ~gone /\ calls < MaxCalls /\ calls' = calls + 1
ToCommand(call, c, cropping) ==
    user' = [at |-> "send", call |-> call, command |-> c, cropping |-> cropping]

\* LinkOniStream::start: only the first start of the input stream does anything.
StartCall ==
    /\ NewCall /\ ~started
    /\ IF input.refs = 0
       THEN /\ input' = [input EXCEPT !.refs = 1, !.streaming = TRUE, !.parser = TRUE,
                                      !.room = 0, !.data = <<>>]
            /\ user' = [Idle EXCEPT !.at = "connect", !.call = Start] /\ UNCHANGED started
       ELSE input' = [input EXCEPT !.refs = @ + 1] /\ started' = TRUE /\ UNCHANGED user
    /\ UNCHANGED <<device, wire, control, mgr, reader, connected, lock, gone, failed, delivered>>

Connect ==
    /\ user.at = "connect"
    /\ connected' = TRUE /\ ToCommand(Start, Start, Full)
    /\ UNCHANGED <<device, wire, control, mgr, input, reader, lock, started, gone, calls, failed,
                   delivered>>
ConnectFails ==
    /\ user.at = "connect"
    /\ input' = [input EXCEPT !.streaming = FALSE]
    /\ user' = Idle /\ failed' = failed \cup {"connect"}
    /\ UNCHANGED <<device, wire, control, mgr, reader, connected, lock, started, gone, calls,
                   delivered>>

\* LinkInputStream::Stop: the last stop is StopImpl.
LastStop == input.refs = 1 /\ input.streaming
StopKeepsReference ==           \* mutant: the count of starts never goes down
    /\ NewCall /\ started /\ started' = FALSE
    /\ UNCHANGED user
    /\ UNCHANGED <<device, wire, control, mgr, input, reader, connected, lock, gone, failed,
                   delivered>>
StopCall ==
    /\ NewCall /\ started /\ started' = FALSE
    /\ input' = [input EXCEPT !.refs = @ - 1]
    /\ IF LastStop THEN ToCommand(Stop, Stop, Full) ELSE UNCHANGED user
    /\ UNCHANGED <<device, wire, control, mgr, reader, connected, lock, gone, failed, delivered>>

\* LinkFrameInputStream::SetCropping, in any state of the stream.
SetCropping(cropping) ==
    /\ NewCall /\ ToCommand(Crop, Crop, cropping)
    /\ UNCHANGED <<device, wire, control, mgr, input, reader, connected, lock, started, gone, failed,
                   delivered>>

\* PrimeClient::DestroyInputStream. The stream was stopped before.
DestroyCall ==
    /\ NewCall /\ ~started /\ ToCommand(Destroy, Destroy, Full)
    /\ UNCHANGED <<device, wire, control, mgr, input, reader, connected, lock, started, gone, failed,
                   delivered>>

\* ExecuteImpl: the command goes out with the id of the last one that was not answered well.
Send ==
    /\ user.at = "send"
    /\ requests' = Append(requests, [command |-> user.command, serial |-> sent + 1, id |-> nextId,
                                     cropping |-> user.cropping])
    /\ sent' = sent + 1
    /\ user' = [user EXCEPT !.at = "receive"]
    /\ UNCHANGED <<device, wire, answers, nextId, mgr, input, reader, connected, lock, started, gone,
                   calls, failed, delivered>>

\* What a call does with the outcome of its command.
Finish(ok) ==
    CASE user.command = Start ->
            started' = ok /\ user' = Idle /\ UNCHANGED <<input, gone>>
      [] user.command = Stop ->
            user' = [user EXCEPT !.at = "disconnect"] /\ UNCHANGED <<input, started, gone>>
      [] user.command = Crop ->
            /\ input' = IF ok THEN [input EXCEPT !.cropping = user.cropping] ELSE input
            /\ user' = Idle /\ UNCHANGED <<started, gone>>
      [] user.command = Destroy ->
            /\ user' = IF ok THEN [user EXCEPT !.at = "shutdown"] ELSE Idle
            /\ gone' = ~ok /\ UNCHANGED <<input, started>>

\* ValidateResponsePacket: the command and the id must be those of the command sent.
ValidId(a) == a.id = nextId                 \* mutant: an answer to any command will do
Valid(a) == a.command = user.command /\ a.id = nextId
\* Receive: the oldest answer is taken, whatever command it answers.
Receive ==
    /\ user.at = "receive" /\ answers # <<>>
    /\ LET ok == Valid(Head(answers)) /\ Head(answers).ok IN
        /\ Finish(ok)
        /\ nextId' = IF ok THEN nextId + 1 ELSE nextId
        /\ failed' = IF ok THEN failed ELSE failed \cup {user.command}
    /\ answers' = Tail(answers)
    /\ UNCHANGED <<device, wire, requests, mgr, reader, connected, lock, calls, sent, delivered>>

\* A command that cannot be sent, or has no answer in time.
CommandFails ==
    /\ user.at = "send" \/ (user.at = "receive" /\ answers = <<>>)
    /\ Finish(FALSE)
    /\ failed' = failed \cup {user.command}
    /\ UNCHANGED <<device, wire, control, mgr, reader, connected, lock, calls, delivered>>

\* LinkFrameInputStream::Shutdown stops the stream with its lock held.
Shutdown ==
    /\ user.at = "shutdown" /\ lock = None
    /\ input' = [input EXCEPT !.refs = @ - 1, !.frame = @ /\ LastStop]
    /\ IF LastStop THEN lock' = "user" /\ ToCommand(Destroy, Stop, Full) /\ UNCHANGED gone
                   ELSE user' = Idle /\ gone' = TRUE /\ UNCHANGED lock
    /\ UNCHANGED <<device, wire, control, mgr, reader, connected, started, calls, failed, delivered>>

Unlink ==
    /\ connected' = FALSE /\ link' = <<>> /\ lost' = 0
    /\ user' = Idle /\ lock' = None
    /\ gone' = (user.call = Destroy)
Stopped == [input EXCEPT !.streaming = FALSE, !.parser = FALSE, !.room = 0, !.data = <<>>]

\* The reading thread is joined between two packets, or terminated when it waits for the
\* lock that Shutdown holds. Then StopImpl frees the parser and the frame. The endpoint
\* counts connections and joins the thread at the last one: here it has one stream.
DisconnectAtOnce ==             \* mutant: the thread is not waited for
    /\ user.at = "disconnect"
    /\ Unlink /\ input' = [Stopped EXCEPT !.frame = FALSE]
    /\ UNCHANGED <<device, control, mgr, reader, started, calls, failed, delivered>>
Disconnect ==
    /\ user.at = "disconnect"
    /\ reader.at = "wait" \/ (reader.at = "handle" /\ lock = "user")
    /\ reader' = [at |-> "wait", packet |-> None]
    /\ Unlink /\ input' = [Stopped EXCEPT !.frame = FALSE]
    /\ UNCHANGED <<device, control, mgr, started, calls, failed, delivered>>

-----------------------------------------------------------------------------
ReaderStep == NextPacket \/ AcquireFails \/ Parse \/ RaiseFrame
CallStep == Connect \/ ConnectFails \/ Send \/ Receive \/ CommandFails \/ Shutdown \/ Disconnect
NewCalls ==
    StartCall \/ StopCall \/ DestroyCall \/ \E c \in {Full, Cropped} : SetCropping(c)
Device == DeviceAnswers \/ \E arrives \in BOOLEAN : DeviceSends(arrives)

Next == ReaderStep \/ CallStep \/ NewCalls \/ Device

Spec == Init /\ [][Next]_vars

-----------------------------------------------------------------------------
(* Types *)

Unit == [frame : 1..MaxFrames, left : 0..(FullSize - 1)]
PacketType ==
    {p \in [id : 0..(PacketIds - 1), begin : BOOLEAN, units : 1..FullSize,
            left : 0..(FullSize - 1), frame : 1..MaxFrames] : p.left + p.units <= FullSize}
InputType ==
    [refs : Int,            \* m_streamingRefcount
     streaming : BOOLEAN,   \* m_bStreaming
     parser : BOOLEAN,      \* m_pLinkMsgParser # NULL
     room : {0, FullSize},  \* of the parser's buffer, 0 before it has one
     data : Seq(Unit),      \* what the parser has written to it
     frame : BOOLEAN,       \* m_pCurrFrame # NULL
     corrupt : BOOLEAN,     \* m_currentFrameCorrupt
     cropping : {Full, Cropped}]
Request == [command : Commands, serial : Nat, id : Nat, cropping : {Full, Cropped}]
Answer == [command : Commands, serial : Nat, id : Nat, ok : BOOLEAN]
Caller == [at : {"idle", "connect", "send", "receive", "shutdown", "disconnect"},
           call : Commands \cup {None}, command : Commands \cup {None}, cropping : {Full, Cropped}]

\* Every variable has its type.
TypeOK ==
    /\ device \in [on : BOOLEAN, cropping : {Full, Cropped}, frame : 0..MaxFrames,
                   left : 0..(FullSize - 1), id : 0..(PacketIds - 1)]
    /\ link \in Seq(PacketType) /\ Len(link) <= MaxLink /\ lost \in 0..MaxLoss
    /\ requests \in Seq(Request) /\ answers \in Seq(Answer)
    /\ mgr \in [next : 0..(PacketIds - 1), prevEnds : BOOLEAN, loss : BOOLEAN]
    /\ input \in InputType
    /\ reader \in [at : {"wait"}, packet : {None}] \cup [at : {"handle", "raise"}, packet : PacketType]
    /\ user \in Caller
    /\ lock \in {None, "reader", "user"}
    /\ {connected, started, gone} \subseteq BOOLEAN
    /\ nextId \in Nat /\ calls \in 0..MaxCalls /\ sent \in Nat
    /\ failed \subseteq Commands \cup {"connect", "acquire"}
    /\ delivered \in Seq(0..MaxFrames)

-----------------------------------------------------------------------------
(* Properties *)

\* Whatever packets are lost, whatever the device was doing when the stream was started or
\* stopped, and whatever the cropping, a frame handed to the application is one whole frame
\* of the device, and frames come in their order and once: a stream of this driver
\* implements FrameFeed.
Feed == INSTANCE FrameFeed WITH
            Streams <- {None}, made <- device.frame, delivered <- [s \in {None} |-> delivered]
ImplementsFrameFeed == Feed!Spec

\* The answer that ValidateResponsePacket lets through is the one to the command just sent,
\* not a late one to an earlier command, unless the same command failed before: its id is
\* then used again.
AnswerIsForItsCommand ==
    (user.at = "receive" /\ answers # <<>> /\ Valid(Head(answers))) =>
        Head(answers).serial = sent \/ user.command \in failed

\* Between calls the application and the device agree whether the stream runs, unless a
\* start or a stop failed: the reference that a failed start keeps is never given back.
\* They agree on the cropping unless setting it failed.
RunningAgrees ==
    (user.at = "idle" /\ ~gone) =>
        /\ (failed \cap {Start, Stop, "connect"} = {}) =>
                {device.on, connected, input.streaming, input.parser} = {started}
        /\ Crop \notin failed => input.cropping = device.cropping

\* A stream that is destroyed leaves nothing behind: no thread, no parser, no frame and no
\* packets, unless its command failed or the device did not stop.
DestroyedStreamIsSilent ==
    (gone /\ Destroy \notin failed) =>
        /\ ~connected /\ ~input.frame /\ lock = None
        /\ "connect" \notin failed => ~input.parser
        /\ (failed \cap {Start, Stop} = {}) => ~device.on

\* Both: the device does what the application was told, from the first start to the end.
HostAndDeviceAgree == RunningAgrees /\ DestroyedStreamIsSilent

\* A packet that writes nothing, or takes a frame first.
Harmless(p) ==
    p.begin \/ input.corrupt \/ mgr.loss \/ ~Fits(input.data, p, input.room)

\* What the parser writes is within its buffer. The thread that handles a packet finds the
\* stream streaming, a parser, and the frame that it writes to and hands on, unless there
\* was no buffer for a new frame. The stream is not destroyed, unless both its start and
\* its destruction had failed, and nobody joins the thread while keeping it waiting for the
\* stream's lock, unless a start failed: Shutdown then does what the missing stop should
\* have done.
HandlerIsSafe ==
    /\ Len(input.data) <= input.room
    /\ (reader.at # "wait") =>
        /\ connected /\ input.streaming /\ input.parser
        /\ gone => {Start, Destroy} \subseteq failed
        /\ \/ input.frame \/ "acquire" \in failed
           \/ reader.at = "handle" /\ Harmless(reader.packet)
        /\ (user.at = "disconnect" /\ lock = "user") => Start \in failed
=============================================================================
