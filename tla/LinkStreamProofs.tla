----------------------------- MODULE LinkStreamProofs -----------------------------
(***************************************************************************)
(* Proofs about LinkStream for any number of packet ids above two, any     *)
(* sizes of frames, and any number of packets lost in a row below that of  *)
(* the packet ids.                                                         *)
(***************************************************************************)
EXTENDS LinkStream, TLAPS

\* Where the call is, and what it has done to the stream so far. Only a start that failed
\* leaves a reference that no stop gives back.
Awaiting == user.at \in {"send", "receive"}
Starting == user.at = "connect" \/ (Awaiting /\ user.command = Start)
Stopping == (Awaiting /\ user.command = Stop) \/ user.at = "disconnect"

CallInv ==
    /\ user.at = "idle" => user.command = None
    /\ Awaiting => user.command \in Commands
    /\ user.at = "disconnect" => user.command = Stop
    /\ user.at = "shutdown" => user.command = Destroy
    /\ Starting \/ Stopping \/ gone \/ user.at = "shutdown" => ~started
    /\ Awaiting /\ user.command = Destroy => ~started
    /\ user.call = Destroy /\ Stopping => lock = "user"
    /\ lock = "user" => Stopping /\ user.call = Destroy /\ Start \in failed
    /\ gone => user.at = "idle"
    /\ Destroy \in failed => gone

StreamInv ==
    /\ input.streaming => input.parser
    /\ connected => input.streaming
    /\ input.streaming /\ user.at # "connect" => connected
    /\ user.at = "connect" => ~connected /\ input.room = 0 /\ ~input.frame
    /\ ~input.streaming => input.room = 0 /\ ~input.frame
    /\ Starting => input.streaming /\ input.refs = 1
    /\ Stopping => input.streaming /\ input.refs = 0
    /\ input.streaming /\ ~Stopping => input.refs > 0
    /\ started => input.refs > 0
    /\ input.refs >= 0 \/ gone
    /\ input.refs <= IF started THEN 2 ELSE 1
    /\ input.streaming /\ ~Starting /\ input.refs > (IF started THEN 1 ELSE 0) => Start \in failed
    /\ input.refs > 0 /\ ~input.streaming => "connect" \in failed
    /\ input.parser /\ ~input.streaming => "connect" \in failed
    /\ gone /\ connected => Destroy \in failed

\* The thread and its lock; what the parser has written; and that a packet handled with no
\* frame to write it to is known to be lossy.
ReaderInv ==
    /\ reader.at # "wait" => connected
    /\ lock = "reader" <=> reader.at = "raise"
    /\ reader.at = "raise" => input.data # <<>> /\ reader.packet.left = 0
    /\ Len(input.data) <= input.room
    /\ link # <<>> => connected
    /\ device.left # 0 => device.frame # 0
    /\ reader.at # "wait" =>
        mgr.prevEnds = (reader.packet.left = 0) /\ mgr.next = NextId(reader.packet.id)

LostInv ==
    input.frame \/ "acquire" \in failed \/
        CASE reader.at = "wait" -> input.room = 0 \/ mgr.prevEnds \/ mgr.loss \/ input.corrupt
          [] reader.at = "handle" -> Harmless(reader.packet)
          [] reader.at = "raise" -> FALSE

\* Commands and answers on their way are of commands that failed, except those of the
\* command whose answer is awaited; there is one of these.
Current(m) == user.at = "receive" /\ m.serial = sent /\ m.command = user.command
PendingInv ==
    /\ \A i \in DOMAIN requests : Current(requests[i]) \/ requests[i].command \in failed
    /\ \A i \in DOMAIN answers : Current(answers[i]) \/ answers[i].command \in failed

\* Commands are answered in their order.
SerialInv ==
    /\ \A i \in DOMAIN requests : requests[i].serial <= sent
    /\ \A i \in DOMAIN answers : answers[i].serial <= sent
    /\ \A i, j \in DOMAIN requests : i < j => requests[i].serial < requests[j].serial
    /\ \A i, j \in DOMAIN answers : i < j => answers[i].serial < answers[j].serial
    /\ \A i \in DOMAIN answers, j \in DOMAIN requests : answers[i].serial < requests[j].serial

LinkInv == CallInv /\ StreamInv /\ ReaderInv /\ LostInv /\ PendingInv /\ SerialInv

\* The device did what it answered, and has not done what it has not answered yet.
RunInv ==
    {Start, Stop, Destroy} \cap failed = {} =>
        /\ user.at = "idle" \/ (Awaiting /\ user.command = Crop) => device.on = input.streaming
        /\ user.at \in {"connect", "shutdown", "disconnect"} => ~device.on
        /\ Awaiting /\ user.command = Destroy => ~device.on
        /\ user.at = "send" /\ user.command = Start => ~device.on
        /\ user.at = "receive" /\ user.command \in {Start, Stop} =>
            \A i \in DOMAIN answers :
                Current(answers[i]) /\ answers[i].ok => device.on = (user.command = Start)

CropInv ==
    Crop \notin failed =>
        IF user.at = "receive" /\ user.command = Crop
        THEN /\ \A i \in DOMAIN requests : Current(requests[i]) => requests[i].cropping = user.cropping
             /\ \A i \in DOMAIN answers :
                    Current(answers[i]) /\ answers[i].ok => device.cropping = user.cropping
        ELSE input.cropping = device.cropping
AgreeInv == RunInv /\ CropInv

\* A frame that was handed on, written or is being written is not newer than the frames of
\* the packets to come, and older than those that a packet to come begins.
Handed == {delivered[i] : i \in DOMAIN delivered}
Written == {input.data[i].frame : i \in DOMAIN input.data}
Handling == IF reader.at = "wait" THEN {} ELSE {reader.packet.frame}
After(f, p) == f <= p.frame /\ (p.begin => f < p.frame)
OrderInv ==
    /\ \A f \in Handed \cup Written \cup Handling :
        f <= device.frame /\ \A i \in DOMAIN link : After(f, link[i])
    /\ reader.at = "handle" => \A f \in Handed \cup Written : After(f, reader.packet)
    /\ \A i, j \in DOMAIN link : i < j => After(link[i].frame, link[j])
    /\ \A i \in DOMAIN link : link[i].frame <= device.frame

\* What comes after a packet or a unit u with the id n is the next part of the same frame,
\* begins a frame, or has another id than n.
Continues(n, u, p) == ~p.begin /\ p.id = n => p.frame = u.frame /\ p.left + p.units = u.left
DeviceContinues(n, u) ==
    /\ device.id = (n + lost) % PacketIds
    /\ lost = 0 => device.frame = u.frame /\ device.left \in {u.left, 0}
Ahead(n, u) == IF link # <<>> THEN Continues(n, u, link[1]) ELSE DeviceContinues(n, u)
ChainInv ==
    /\ \A i \in DOMAIN link :
        i + 1 \in DOMAIN link => Continues(NextId(link[i].id), link[i], link[i + 1])
    /\ link # <<>> => DeviceContinues(NextId(link[Len(link)].id), link[Len(link)])
    /\ reader.at # "wait" => Ahead(mgr.next, reader.packet)

\* A frame that is not spoilt is a part of one of the device, newer than all handed on, and
\* what comes next is the rest of it, or is known to be lossy.
Run(d) == \A i \in DOMAIN d : d[i] = [frame |-> d[1].frame, left |-> d[1].left + 1 - i]
Last == input.data[Len(input.data)]
FrameInv ==
    input.frame =>
        /\ input.data # <<>>
        /\ \A f \in Handed, i \in DOMAIN input.data : f < input.data[i].frame
        /\ (~input.corrupt /\ ~mgr.loss) \/ reader.at = "raise" =>
            /\ Run(input.data)
            /\ reader.at = "wait" => Ahead(mgr.next, Last)
            /\ reader.at = "handle" =>
                LET p == reader.packet IN
                p.begin \/ (p.frame = Last.frame /\ p.left + p.units = Last.left)
            /\ reader.at = "raise" => Last.left = 0
FeedInv == OrderInv /\ ChainInv /\ FrameInv

IInv == TypeOK /\ LinkInv /\ AgreeInv /\ FeedInv

-----------------------------------------------------------------------------
(* Constants, and counting modulo the number of packet ids. *)

LEMMA Constants ==
    /\ PacketIds \in Nat /\ PacketIds > 2 /\ FullSize \in Nat /\ FullSize > 1
    /\ CroppedSize \in Nat /\ CroppedSize > 0 /\ CroppedSize < FullSize /\ Full # Cropped
    /\ MaxFrames \in Nat /\ MaxLink \in Nat /\ MaxLoss \in Nat /\ MaxLoss < PacketIds /\
           MaxCalls \in Nat
BY IdsAssumption, SizesAssumption, BoundsAssumption

LEMMA Names ==
    /\ Start # Stop /\ Start # Crop /\ Start # Destroy /\ Stop # Crop /\ Stop # Destroy
    /\ Crop # Destroy /\ None # Start /\ None # Stop /\ None # Crop /\ None # Destroy
    /\ "connect" \notin Commands /\ "acquire" \notin Commands
    /\ None # "reader" /\ None # "user"
BY NamesAssumption DEF Commands

LEMMA Modulo ==
    \A a, k \in 0..(PacketIds - 1) :
        (a + k) % PacketIds = IF a + k < PacketIds THEN a + k ELSE a + k - PacketIds
BY Constants

LEMMA NextIdIs ==
    \A a \in 0..(PacketIds - 1) :
        NextId(a) = (IF a = PacketIds - 1 THEN 0 ELSE a + 1) /\ NextId(a) \in 0..(PacketIds - 1)
<1> SUFFICES ASSUME NEW a \in 0..(PacketIds - 1)
             PROVE  /\ NextId(a) = IF a = PacketIds - 1 THEN 0 ELSE a + 1
                    /\ NextId(a) \in 0..(PacketIds - 1)
  OBVIOUS
<1>1. 1 \in 0..(PacketIds - 1)
  BY Constants
<1>2. (a + 1) % PacketIds = IF a + 1 < PacketIds THEN a + 1 ELSE a + 1 - PacketIds
  BY <1>1, Modulo
<1> QED BY <1>2, Constants DEF NextId

LEMMA Losses ==
    ASSUME NEW a \in 0..(PacketIds - 1), NEW k \in 0..(PacketIds - 1)
    PROVE  /\ (a + k) % PacketIds = a <=> k = 0
           /\ (a + k) % PacketIds \in 0..(PacketIds - 1)
           /\ k + 1 < PacketIds => NextId((a + k) % PacketIds) = (a + (k + 1)) % PacketIds
<1>1. (a + k) % PacketIds = IF a + k < PacketIds THEN a + k ELSE a + k - PacketIds
  BY Modulo
<1>2. k + 1 < PacketIds =>
        (a + (k + 1)) % PacketIds = IF a + (k + 1) < PacketIds THEN a + (k + 1) ELSE a + (k + 1) - PacketIds
  <2> SUFFICES ASSUME k + 1 < PacketIds
               PROVE  (a + (k + 1)) % PacketIds =
                        IF a + (k + 1) < PacketIds THEN a + (k + 1) ELSE a + (k + 1) - PacketIds
    OBVIOUS
  <2>1. k + 1 \in 0..(PacketIds - 1)
    BY Constants
  <2> QED BY <2>1, Modulo
<1> DEFINE b == (a + k) % PacketIds
<1>3. b \in 0..(PacketIds - 1) /\ (b = a <=> k = 0)
  BY <1>1, Constants
<1>4. NextId(b) = IF b = PacketIds - 1 THEN 0 ELSE b + 1
  BY <1>3, NextIdIs
<1> QED BY <1>1, <1>2, <1>3, <1>4, Constants

-----------------------------------------------------------------------------
(* The types. *)

LEMMA UnitsType ==
    ASSUME NEW p \in PacketType
    PROVE  Units(p) \in Seq(Unit) /\ Len(Units(p)) = p.units /\ p.units \in 1..FullSize
<1>1. p.units \in 1..FullSize /\ p.left \in Nat /\ p.frame \in 1..MaxFrames /\
          p.left + p.units <= FullSize
  BY Constants DEF PacketType
<1>2. \A i \in 1..p.units : [frame |-> p.frame, left |-> p.left + p.units - i] \in Unit
  BY <1>1, Constants DEF Unit
<1>3. Units(p) \in [1..p.units -> Unit]
  BY <1>2 DEF Units
<1> QED BY <1>1, <1>3

LEMMA Appended == ASSUME NEW S, NEW q \in Seq(S), NEW x \in S PROVE Append(q, x) \in Seq(S)
OBVIOUS

LEMMA Elements == ASSUME NEW S, NEW q \in Seq(S) PROVE \A i \in DOMAIN q : i \in Nat /\ q[i] \in S
OBVIOUS

LEMMA ConcatIndex ==
    ASSUME NEW S, NEW q \in Seq(S), NEW r \in Seq(S)
    PROVE  \A i \in DOMAIN (q \o r) :
            \/ i \in DOMAIN q /\ (q \o r)[i] = q[i]
            \/ \E j \in DOMAIN r : (q \o r)[i] = r[j]
<1> SUFFICES ASSUME NEW i \in DOMAIN (q \o r)
             PROVE  \/ i \in DOMAIN q /\ (q \o r)[i] = q[i]
                    \/ \E j \in DOMAIN r : (q \o r)[i] = r[j]
  OBVIOUS
<1>1. i \in 1..(Len(q) + Len(r)) /\ Len(q) \in Nat /\ Len(r) \in Nat
  OBVIOUS
<1>2. CASE i <= Len(q)
  BY <1>1, <1>2
<1>3. CASE i > Len(q)
  <2>1. i - Len(q) \in DOMAIN r /\ (q \o r)[i] = r[i - Len(q)]
    BY <1>1, <1>3
  <2> QED BY <2>1
<1> QED BY <1>1, <1>2, <1>3

LEMMA AppendIndex ==
    ASSUME NEW S, NEW q \in Seq(S), NEW x \in S
    PROVE  \A i \in DOMAIN Append(q, x) :
            /\ i \in Nat
            /\ \/ i \in DOMAIN q /\ i <= Len(q) /\ Append(q, x)[i] = q[i]
               \/ i = Len(q) + 1 /\ Append(q, x)[i] = x
OBVIOUS

LEMMA TailIndex ==
    ASSUME NEW S, NEW q \in Seq(S), q # <<>>
    PROVE  /\ 1 \in DOMAIN q /\ Head(q) = q[1]
           /\ \A i \in DOMAIN Tail(q) : i \in Nat /\ i + 1 \in DOMAIN q /\ 1 < i + 1 /\
                  Tail(q)[i] = q[i + 1]
OBVIOUS

LEMMA InitTypes == Init => TypeOK
<1> SUFFICES ASSUME Init PROVE TypeOK
  OBVIOUS
<1>1. device \in [on : BOOLEAN, cropping : {Full, Cropped}, frame : 0..MaxFrames,
                  left : 0..(FullSize - 1), id : 0..(PacketIds - 1)]
  BY Constants DEF Init
<1>2. mgr \in [next : 0..(PacketIds - 1), prevEnds : BOOLEAN, loss : BOOLEAN]
  BY Constants DEF Init
<1>3. input \in InputType
  BY DEF Init, InputType
<1>4. user \in Caller
  BY DEF Init, Caller
<1>5. link \in Seq(PacketType) /\ Len(link) <= MaxLink /\ lost \in 0..MaxLoss
  BY Constants DEF Init
<1>6. requests \in Seq(Request) /\ answers \in Seq(Answer) /\ delivered \in Seq(0..MaxFrames)
  BY DEF Init
<1>7. {connected, started, gone} \subseteq BOOLEAN
  BY DEF Init
<1>8. /\ reader \in [at : {"wait"}, packet : {None}]
      /\ lock = None /\ nextId = 0 /\ calls = 0 /\ sent = 0 /\ failed = {}
  BY DEF Init
<1> HIDE DEF Init
<1> QED BY <1>1, <1>2, <1>3, <1>4, <1>5, <1>6, <1>7, <1>8, Constants DEF TypeOK

\* The packet that the device sends.
LEMMA SentPacket ==
    ASSUME TypeOK, ReaderInv, NEW arrives \in BOOLEAN, DeviceSends(arrives)
    PROVE  \E p \in PacketType :
            /\ p.id = device.id /\ p.begin = (device.left = 0)
            /\ p.frame = IF p.begin THEN device.frame + 1 ELSE device.frame
            /\ p.begin \/ p.left + p.units = device.left
            /\ device' = [device EXCEPT !.frame = p.frame, !.left = p.left,
                   !.id = NextId(device.id)]
            /\ IF arrives
               THEN connected /\ Len(link) < MaxLink /\ link' = Append(link, p) /\ lost' = 0
               ELSE /\ connected => lost < MaxLoss
                    /\ lost' = IF connected THEN lost + 1 ELSE lost
                    /\ link' = link
            /\ device' \in [on : BOOLEAN, cropping : {Full, Cropped}, frame : 0..MaxFrames,
                            left : 0..(FullSize - 1), id : 0..(PacketIds - 1)]
            /\ link' \in Seq(PacketType) /\ Len(link') <= MaxLink /\ lost' \in 0..MaxLoss
<1>1. /\ device \in [on : BOOLEAN, cropping : {Full, Cropped}, frame : 0..MaxFrames,
                     left : 0..(FullSize - 1), id : 0..(PacketIds - 1)]
      /\ link \in Seq(PacketType) /\ Len(link) <= MaxLink /\ lost \in 0..MaxLoss
  BY DEF TypeOK
<1>2. PICK n \in 1..FullSize :
        LET p == Packet(n) IN
        /\ p.left >= 0 /\ p.frame <= MaxFrames
        /\ device' = [device EXCEPT !.frame = p.frame, !.left = p.left, !.id = NextId(device.id)]
        /\ IF arrives
           THEN connected /\ Len(link) < MaxLink /\ link' = Append(link, p) /\ lost' = 0
           ELSE /\ connected => lost < MaxLoss
                /\ lost' = IF connected THEN lost + 1 ELSE lost
                /\ link' = link
  BY DEF DeviceSends
<1> DEFINE p == Packet(n)
           total == IF device.left = 0 THEN SizeOf(device.cropping) ELSE device.left
<1>3. total \in 1..FullSize /\ (device.left # 0 => total = device.left)
  BY <1>1, Constants DEF SizeOf
<1>4. p = [id |-> device.id, begin |-> (device.left = 0), units |-> n, left |-> total - n,
           frame |-> IF device.left = 0 THEN device.frame + 1 ELSE device.frame]
  BY DEF Packet
<1>5. p.left >= 0 /\ p.frame <= MaxFrames
  BY <1>2
<1>d. device' = [device EXCEPT !.frame = p.frame, !.left = p.left, !.id = NextId(device.id)]
  BY <1>2
<1>w. IF arrives
      THEN connected /\ Len(link) < MaxLink /\ link' = Append(link, p) /\ lost' = 0
      ELSE /\ connected => lost < MaxLoss
           /\ lost' = IF connected THEN lost + 1 ELSE lost
           /\ link' = link
  BY <1>2
<1> HIDE DEF total, p
<1>6. /\ p.id = device.id /\ p.begin = (device.left = 0) /\ p.units = n /\ p.left = total - n
      /\ p.frame = IF device.left = 0 THEN device.frame + 1 ELSE device.frame
  BY <1>4
<1>n. /\ device.left \in 0..(FullSize - 1) /\ device.id \in 0..(PacketIds - 1) /\
             device.frame \in Nat
      /\ total \in Nat /\ total <= FullSize
  BY <1>1, <1>3, Constants
<1>7. p \in PacketType
  <2>1. /\ p.id \in 0..(PacketIds - 1) /\ p.begin \in BOOLEAN /\ p.units \in 1..FullSize
        /\ p.left \in 0..(FullSize - 1) /\ p.left + p.units <= FullSize
    BY <1>n, <1>5, <1>6, Constants
  <2>2. p.frame \in 1..MaxFrames
    BY SMTT(30), <1>n, <1>5, <1>6, Constants DEF ReaderInv
  <2> QED BY <1>4, <2>1, <2>2 DEF PacketType
<1>8. device' \in [on : BOOLEAN, cropping : {Full, Cropped}, frame : 0..MaxFrames,
                   left : 0..(FullSize - 1), id : 0..(PacketIds - 1)]
  <2>1. p.frame \in 0..MaxFrames /\ p.left \in 0..(FullSize - 1) /\
            NextId(device.id) \in 0..(PacketIds - 1)
    BY SMTT(30), <1>1, <1>7, NextIdIs, Constants DEF PacketType
  <2> QED BY <1>1, <1>d, <2>1
<1>9. link' \in Seq(PacketType) /\ Len(link') <= MaxLink /\ lost' \in 0..MaxLoss
  <2>1. CASE arrives
    BY SMTT(30), <1>1, <1>w, <1>7, <2>1, Constants
  <2>2. CASE ~arrives
    BY <1>1, <1>w, <2>2, Constants
  <2> QED BY <2>1, <2>2
<1>10. p.begin \/ p.left + p.units = device.left
  <2>1. CASE device.left = 0
    BY <1>6, <2>1
  <2>2. CASE device.left # 0
    <3>1. total = device.left /\ p.left = total - n /\ p.units = n /\ n \in Nat
      BY <1>3, <1>6, <2>2
    <3> QED BY <1>n, <3>1
  <2> QED BY <2>1, <2>2
<1>11. /\ p.id = device.id /\ p.begin = (device.left = 0)
       /\ p.frame = IF p.begin THEN device.frame + 1 ELSE device.frame
  BY <1>6
<1> QED BY <1>7, <1>8, <1>9, <1>10, <1>11, <1>d, <1>w

\* What the outcome of a command changes.
LEMMA Finishes ==
    ASSUME NEW ok \in BOOLEAN, user.command \in Commands, Finish(ok)
    PROVE  \/ user.command = Start /\ started' = ok /\ user' = Idle /\ UNCHANGED <<input, gone>>
           \/ /\ user.command = Stop
              /\ user' = [user EXCEPT !.at = "disconnect"] /\ UNCHANGED <<input, started, gone>>
           \/ /\ user.command = Crop
              /\ input' = IF ok THEN [input EXCEPT !.cropping = user.cropping] ELSE input
              /\ user' = Idle /\ UNCHANGED <<started, gone>>
           \/ /\ user.command = Destroy
              /\ user' = IF ok THEN [user EXCEPT !.at = "shutdown"] ELSE Idle
              /\ gone' = ~ok /\ UNCHANGED <<input, started>>
<1>1. user.command = Start \/ user.command = Stop \/ user.command = Crop \/ user.command = Destroy
  BY DEF Commands
<1>2. CASE user.command = Start
  BY <1>2, Names DEF Finish
<1>3. CASE user.command = Stop
  BY <1>3, Names DEF Finish
<1>4. CASE user.command = Crop
  BY <1>4, Names DEF Finish
<1>5. CASE user.command = Destroy
  BY <1>5, Names DEF Finish
<1> QED BY <1>1, <1>2, <1>3, <1>4, <1>5

LEMMA FinishTypes ==
    ASSUME TypeOK, NEW ok \in BOOLEAN, user.command \in Commands, Finish(ok)
    PROVE  /\ user' \in Caller /\ input' \in InputType /\ {started, gone}' \subseteq BOOLEAN
<1>1. user \in Caller /\ input \in InputType /\ {started, gone} \subseteq BOOLEAN
  BY DEF TypeOK
<1>2. user' \in {Idle, [user EXCEPT !.at = "disconnect"], [user EXCEPT !.at = "shutdown"]}
  BY Finishes
<1>3. input' \in {input, [input EXCEPT !.cropping = user.cropping]}
  BY Finishes
<1>4. started' \in {started, ok} /\ gone' \in {gone, ~ok}
  BY Finishes
<1>5. user' \in Caller
  BY <1>1, <1>2 DEF Caller, Idle
<1>6. input' \in InputType
  BY <1>1, <1>3 DEF InputType, Caller
<1> QED BY <1>1, <1>4, <1>5, <1>6

LEMMA TypeStep == TypeOK /\ CallInv /\ ReaderInv /\ [Next]_vars => TypeOK'
<1> SUFFICES ASSUME TypeOK, CallInv, ReaderInv, [Next]_vars PROVE TypeOK'
  OBVIOUS
<1>device. device \in [on : BOOLEAN, cropping : {Full, Cropped}, frame : 0..MaxFrames,
                   left : 0..(FullSize - 1), id : 0..(PacketIds - 1)]
  BY DEF TypeOK
<1>wire. link \in Seq(PacketType) /\ Len(link) <= MaxLink /\ lost \in 0..MaxLoss
  BY DEF TypeOK
<1>requests. requests \in Seq(Request)
  BY DEF TypeOK
<1>answers. answers \in Seq(Answer)
  BY DEF TypeOK
<1>mgr. mgr \in [next : 0..(PacketIds - 1), prevEnds : BOOLEAN, loss : BOOLEAN]
  BY DEF TypeOK
<1>input. input \in InputType
  BY DEF TypeOK
<1>reader. reader \in [at : {"wait"}, packet : {None}] \cup [at : {"handle", "raise"},
               packet : PacketType]
  BY DEF TypeOK
<1>user. user \in Caller
  BY DEF TypeOK
<1>lock. lock \in {None, "reader", "user"}
  BY DEF TypeOK
<1>flags. {connected, started, gone} \subseteq BOOLEAN
  BY DEF TypeOK
<1>ids. nextId \in Nat /\ sent \in Nat
  BY DEF TypeOK
<1>calls. calls \in 0..MaxCalls
  BY DEF TypeOK
<1>failed. failed \subseteq Commands \cup {"connect", "acquire"}
  BY DEF TypeOK
<1>delivered. delivered \in Seq(0..MaxFrames)
  BY DEF TypeOK
<1>1. CASE NextPacket
  <2>1. link' \in Seq(PacketType) /\ Len(link') <= MaxLink /\ lost' \in 0..MaxLoss
    <3>1. link # <<>> /\ Head(link) \in PacketType /\ Tail(link) \in Seq(PacketType) /\
              Len(Tail(link)) = Len(link) - 1
      BY <1>1, <1>wire DEF NextPacket
    <3> QED BY <1>1, <1>wire, <3>1, Constants DEF NextPacket
  <2>2. mgr' \in [next : 0..(PacketIds - 1), prevEnds : BOOLEAN, loss : BOOLEAN]
    <3>1. link # <<>> /\ Head(link) \in PacketType /\ Tail(link) \in Seq(PacketType) /\
              Len(Tail(link)) = Len(link) - 1
      BY <1>1, <1>wire DEF NextPacket
    <3>2. NextId(Head(link).id) \in 0..(PacketIds - 1)
      BY <3>1, NextIdIs DEF PacketType
    <3>3. mgr' = [next |-> NextId(Head(link).id), prevEnds |-> Head(link).left = 0,
              loss |-> mgr.loss \/ Lossy(Head(link))]
      BY <1>1 DEF NextPacket
    <3>4. (Head(link).left = 0) \in BOOLEAN /\ (mgr.loss \/ Lossy(Head(link))) \in BOOLEAN
      OBVIOUS
    <3> QED BY <3>2, <3>3, <3>4
  <2>3. reader' \in [at : {"wait"}, packet : {None}] \cup [at : {"handle", "raise"},
            packet : PacketType]
    <3>1. link # <<>> /\ Head(link) \in PacketType /\ Tail(link) \in Seq(PacketType) /\
              Len(Tail(link)) = Len(link) - 1
      BY <1>1, <1>wire DEF NextPacket
    <3> QED BY <1>1, <1>reader, <3>1 DEF NextPacket
  <2> QED BY <1>1, <2>1, <2>2, <2>3, <1>device, <1>wire, <1>requests, <1>answers, <1>mgr,
     <1>input, <1>reader, <1>user, <1>lock, <1>flags, <1>ids, <1>calls, <1>failed, <1>delivered
     DEF NextPacket, TypeOK, wire, control, app
<1>2. CASE AcquireFails
  <2>1. mgr' \in [next : 0..(PacketIds - 1), prevEnds : BOOLEAN, loss : BOOLEAN]
    BY <1>2, <1>mgr DEF AcquireFails
  <2>2. input' \in InputType
    BY <1>2, <1>input DEF AcquireFails, InputType
  <2>3. reader' \in [at : {"wait"}, packet : {None}] \cup [at : {"handle", "raise"},
            packet : PacketType]
    BY <1>2, <1>reader DEF AcquireFails
  <2>4. failed' \subseteq Commands \cup {"connect", "acquire"}
    BY <1>2, <1>failed DEF AcquireFails
  <2> QED BY <1>2, <2>1, <2>2, <2>3, <2>4, <1>device, <1>wire, <1>requests, <1>answers, <1>mgr,
     <1>input, <1>reader, <1>user, <1>lock, <1>flags, <1>ids, <1>calls, <1>failed, <1>delivered
     DEF AcquireFails, TypeOK, wire, control, app
<1>3. CASE Parse
  <2>1. mgr' \in [next : 0..(PacketIds - 1), prevEnds : BOOLEAN, loss : BOOLEAN]
    BY <1>3, <1>mgr DEF Parse
  <2>2. input' \in InputType
    <3>1. reader.packet \in PacketType /\ input.data \in Seq(Unit) /\ input.room \in {0, FullSize}
      BY <1>3, <1>reader, <1>input DEF Parse, InputType
    <3>2. Units(reader.packet) \in Seq(Unit)
      BY <3>1, UnitsType
    <3> DEFINE p == reader.packet
               old == IF p.begin THEN <<>> ELSE input.data
               spoilt == ~p.begin /\ (input.corrupt \/ mgr.loss)
               room == IF p.begin THEN FullSize ELSE input.room
               fits == Fits(old, p, room)
               data == IF ~spoilt /\ fits THEN old \o Units(p) ELSE old
               short == p.left = 0 /\ Len(data) # SizeOf(input.cropping)
    <3>3. input' = [input EXCEPT !.room = room, !.data = data, !.frame = p.begin \/ input.frame,
                                 !.corrupt = spoilt \/ ~fits \/ short]
      BY <1>3 DEF Parse
    <3>4. room \in {0, FullSize}
      BY <3>1
    <3>5. data \in Seq(Unit)
      <4>1. old \in Seq(Unit)
        BY <3>1
      <4>2. old \o Units(p) \in Seq(Unit)
        BY <3>2, <4>1
      <4> HIDE DEF old
      <4> QED BY <4>1, <4>2
    <3>6. (p.begin \/ input.frame) \in BOOLEAN /\ (spoilt \/ ~fits \/ short) \in BOOLEAN
      OBVIOUS
    <3> HIDE DEF room, data, spoilt, fits, short
    <3> QED BY <1>input, <3>3, <3>4, <3>5, <3>6 DEF InputType
  <2>3. reader' \in [at : {"wait"}, packet : {None}] \cup [at : {"handle", "raise"},
            packet : PacketType]
    BY <1>3, <1>reader DEF Parse
  <2>4. lock' \in {None, "reader", "user"}
    BY <1>3, <1>lock DEF Parse
  <2> QED BY <1>3, <2>1, <2>2, <2>3, <2>4, <1>device, <1>wire, <1>requests, <1>answers, <1>mgr,
     <1>input, <1>reader, <1>user, <1>lock, <1>flags, <1>ids, <1>calls, <1>failed, <1>delivered
     DEF Parse, TypeOK, wire, control, app
<1>4. CASE RaiseFrame
  <2>1. input' \in InputType
    BY <1>4, <1>input DEF RaiseFrame, InputType
  <2>2. reader' \in [at : {"wait"}, packet : {None}] \cup [at : {"handle", "raise"},
            packet : PacketType]
    BY <1>4, <1>reader DEF RaiseFrame
  <2>3. lock' \in {None, "reader", "user"}
    BY <1>4, <1>lock DEF RaiseFrame
  <2>4. delivered' \in Seq(0..MaxFrames)
    <3>1. input.data \in Seq(Unit) /\ input.data # <<>>
      BY <1>4, <1>input DEF RaiseFrame, InputType, ReaderInv
    <3>2. input.data[1] \in Unit
      BY <3>1
    <3>3. FrameIn(input.data) \in 0..MaxFrames
      BY <3>2, Constants DEF FrameIn, Unit
    <3>4. delivered' = delivered \/ delivered' = Append(delivered, FrameIn(input.data))
      BY <1>4 DEF RaiseFrame
    <3> QED BY <1>delivered, <3>3, <3>4, Appended
  <2> QED BY <1>4, <2>1, <2>2, <2>3, <2>4, <1>device, <1>wire, <1>requests, <1>answers, <1>mgr,
     <1>input, <1>reader, <1>user, <1>lock, <1>flags, <1>ids, <1>calls, <1>failed, <1>delivered
     DEF RaiseFrame, TypeOK, wire, control, app
<1>5. CASE Connect
  <2>1. user' \in Caller
    BY <1>5, <1>user DEF Connect, Caller, ToCommand, Commands
  <2>2. {connected', started', gone'} \subseteq BOOLEAN
    BY <1>5, <1>flags DEF Connect
  <2> QED BY <1>5, <2>1, <2>2, <1>device, <1>wire, <1>requests, <1>answers, <1>mgr, <1>input,
     <1>reader, <1>user, <1>lock, <1>flags, <1>ids, <1>calls, <1>failed, <1>delivered DEF
     Connect, TypeOK, wire, control, app
<1>6. CASE ConnectFails
  <2>1. user' \in Caller
    BY <1>6, <1>user DEF ConnectFails, Caller, Idle
  <2>2. input' \in InputType
    BY <1>6, <1>input DEF ConnectFails, InputType
  <2>3. failed' \subseteq Commands \cup {"connect", "acquire"}
    BY <1>6, <1>failed DEF ConnectFails
  <2> QED BY <1>6, <2>1, <2>2, <2>3, <1>device, <1>wire, <1>requests, <1>answers, <1>mgr,
     <1>input, <1>reader, <1>user, <1>lock, <1>flags, <1>ids, <1>calls, <1>failed, <1>delivered
     DEF ConnectFails, TypeOK, wire, control, app
<1>7. CASE Send
  <2>1. user' \in Caller
    BY <1>7, <1>user DEF Send, Caller
  <2>2. nextId' \in Nat /\ sent' \in Nat
    BY <1>7, <1>ids DEF Send
  <2>3. requests' \in Seq(Request)
    BY <1>7, <1>requests, <1>user, <1>ids DEF Send, Caller, Request, CallInv, Awaiting
  <2> QED BY <1>7, <2>1, <2>2, <2>3, <1>device, <1>wire, <1>requests, <1>answers, <1>mgr,
     <1>input, <1>reader, <1>user, <1>lock, <1>flags, <1>ids, <1>calls, <1>failed, <1>delivered
     DEF Send, TypeOK, wire, control, app
<1>8. CASE Receive
  <2>1. answers' \in Seq(Answer)
    BY <1>8, <1>answers DEF Receive
  <2>2. nextId' \in Nat /\ sent' \in Nat
    BY <1>8, <1>ids DEF Receive
  <2>3. failed' \subseteq Commands \cup {"connect", "acquire"}
    BY <1>8, <1>failed, <1>user DEF Receive, CallInv, Awaiting
  <2>4. user' \in Caller
    <3>1. PICK ok \in BOOLEAN : Finish(ok) /\ user.command \in Commands /\ connected' = connected
      BY <1>8 DEF Receive, CallInv, Awaiting
    <3> QED BY <3>1, <1>flags, FinishTypes
  <2>5. input' \in InputType
    <3>1. PICK ok \in BOOLEAN : Finish(ok) /\ user.command \in Commands /\ connected' = connected
      BY <1>8 DEF Receive, CallInv, Awaiting
    <3> QED BY <3>1, <1>flags, FinishTypes
  <2>6. {connected', started', gone'} \subseteq BOOLEAN
    <3>1. PICK ok \in BOOLEAN : Finish(ok) /\ user.command \in Commands /\ connected' = connected
      BY <1>8 DEF Receive, CallInv, Awaiting
    <3> QED BY <3>1, <1>flags, FinishTypes
  <2> QED BY <1>8, <2>1, <2>2, <2>3, <2>4, <2>5, <2>6, <1>device, <1>wire, <1>requests,
     <1>answers, <1>mgr, <1>input, <1>reader, <1>user, <1>lock, <1>flags, <1>ids, <1>calls,
     <1>failed, <1>delivered DEF Receive, TypeOK, wire, control, app
<1>9. CASE CommandFails
  <2>1. failed' \subseteq Commands \cup {"connect", "acquire"}
    BY <1>9, <1>failed, <1>user DEF CommandFails, CallInv, Awaiting
  <2>2. user' \in Caller
    <3>1. PICK ok \in BOOLEAN : Finish(ok) /\ user.command \in Commands /\ connected' = connected
      BY <1>9 DEF CommandFails, CallInv, Awaiting
    <3> QED BY <3>1, <1>flags, FinishTypes
  <2>3. input' \in InputType
    <3>1. PICK ok \in BOOLEAN : Finish(ok) /\ user.command \in Commands /\ connected' = connected
      BY <1>9 DEF CommandFails, CallInv, Awaiting
    <3> QED BY <3>1, <1>flags, FinishTypes
  <2>4. {connected', started', gone'} \subseteq BOOLEAN
    <3>1. PICK ok \in BOOLEAN : Finish(ok) /\ user.command \in Commands /\ connected' = connected
      BY <1>9 DEF CommandFails, CallInv, Awaiting
    <3> QED BY <3>1, <1>flags, FinishTypes
  <2> QED BY <1>9, <2>1, <2>2, <2>3, <2>4, <1>device, <1>wire, <1>requests, <1>answers, <1>mgr,
     <1>input, <1>reader, <1>user, <1>lock, <1>flags, <1>ids, <1>calls, <1>failed, <1>delivered
     DEF CommandFails, TypeOK, wire, control, app
<1>10. CASE Shutdown
  <2>1. input' \in InputType
    <3>1. input' = [input EXCEPT !.refs = input.refs - 1, !.frame = input.frame /\ LastStop]
      BY <1>10 DEF Shutdown
    <3>2. input.refs - 1 \in Int /\ (input.frame /\ LastStop) \in BOOLEAN
      BY <1>input DEF InputType
    <3> HIDE DEF LastStop
    <3> QED BY <1>input, <3>1, <3>2 DEF InputType
  <2>2. user' \in Caller
    BY <1>10, <1>user DEF Shutdown, ToCommand, Caller, Idle, Commands
  <2>3. lock' \in {None, "reader", "user"}
    BY <1>10, <1>lock DEF Shutdown
  <2>4. {connected', started', gone'} \subseteq BOOLEAN
    BY <1>10, <1>flags DEF Shutdown
  <2> QED BY <1>10, <2>1, <2>2, <2>3, <2>4, <1>device, <1>wire, <1>requests, <1>answers, <1>mgr,
     <1>input, <1>reader, <1>user, <1>lock, <1>flags, <1>ids, <1>calls, <1>failed, <1>delivered
     DEF Shutdown, TypeOK, wire, control, app
<1>11. CASE Disconnect
  <2>1. link' \in Seq(PacketType) /\ Len(link') <= MaxLink /\ lost' \in 0..MaxLoss
    BY <1>11, <1>wire, Constants DEF Disconnect, Unlink
  <2>2. input' \in InputType
    <3>1. <<>> \in Seq(Unit)
      OBVIOUS
    <3>2. Stopped \in InputType
      BY <1>input, <3>1 DEF Stopped, InputType
    <3> HIDE DEF Stopped
    <3>3. input' = [Stopped EXCEPT !.frame = FALSE]
      BY <1>11 DEF Disconnect
    <3> QED BY <3>2, <3>3 DEF InputType
  <2>3. reader' \in [at : {"wait"}, packet : {None}] \cup [at : {"handle", "raise"},
            packet : PacketType]
    BY <1>11, <1>reader DEF Disconnect
  <2>4. user' \in Caller
    BY <1>11, <1>user DEF Disconnect, Unlink, Caller, Idle
  <2>5. lock' \in {None, "reader", "user"}
    BY <1>11, <1>lock DEF Disconnect, Unlink
  <2>6. {connected', started', gone'} \subseteq BOOLEAN
    BY <1>11, <1>flags DEF Disconnect, Unlink
  <2> QED BY <1>11, <2>1, <2>2, <2>3, <2>4, <2>5, <2>6, <1>device, <1>wire, <1>requests,
     <1>answers, <1>mgr, <1>input, <1>reader, <1>user, <1>lock, <1>flags, <1>ids, <1>calls,
     <1>failed, <1>delivered DEF Disconnect, TypeOK, wire, control, app
<1>12. CASE StartCall
  <2>1. input' \in InputType
    <3>1. <<>> \in Seq(Unit) /\ input.refs + 1 \in Int
      BY <1>input DEF InputType
    <3>2. CASE input.refs = 0
      <4>1. input' = [input EXCEPT !.refs = 1, !.streaming = TRUE, !.parser = TRUE, !.room = 0,
                !.data = <<>>]
        BY <1>12, <3>2 DEF StartCall
      <4>2. input' = [refs |-> 1, streaming |-> TRUE, parser |-> TRUE, room |-> 0, data |-> <<>>,
                      frame |-> input.frame, corrupt |-> input.corrupt, cropping |-> input.cropping]
        BY <1>input, <4>1 DEF InputType
      <4>3. /\ input.frame \in BOOLEAN /\ input.corrupt \in BOOLEAN
            /\ input.cropping \in {Full, Cropped}
        BY <1>input DEF InputType
      <4> QED BY <3>1, <4>2, <4>3 DEF InputType
    <3>3. CASE input.refs # 0
      <4>1. input' = [input EXCEPT !.refs = input.refs + 1]
        BY <1>12, <3>3 DEF StartCall
      <4> QED BY <1>input, <3>1, <4>1 DEF InputType
    <3> QED BY <3>2, <3>3
  <2>2. user' \in Caller
    BY <1>12, <1>user DEF StartCall, Caller, Idle, Commands
  <2>3. {connected', started', gone'} \subseteq BOOLEAN
    BY <1>12, <1>flags DEF StartCall
  <2>4. calls' \in 0..MaxCalls
    BY <1>12, <1>calls, Constants DEF StartCall, NewCall
  <2> QED BY <1>12, <2>1, <2>2, <2>3, <2>4, <1>device, <1>wire, <1>requests, <1>answers, <1>mgr,
     <1>input, <1>reader, <1>user, <1>lock, <1>flags, <1>ids, <1>calls, <1>failed, <1>delivered
     DEF StartCall, TypeOK, wire, control, app
<1>13. CASE StopCall
  <2>1. input' \in InputType
    BY <1>13, <1>input DEF StopCall, InputType
  <2>2. user' \in Caller
    BY <1>13, <1>user DEF StopCall, Caller, ToCommand, Commands
  <2>3. {connected', started', gone'} \subseteq BOOLEAN
    BY <1>13, <1>flags DEF StopCall
  <2>4. calls' \in 0..MaxCalls
    BY <1>13, <1>calls, Constants DEF StopCall, NewCall
  <2> QED BY <1>13, <2>1, <2>2, <2>3, <2>4, <1>device, <1>wire, <1>requests, <1>answers, <1>mgr,
     <1>input, <1>reader, <1>user, <1>lock, <1>flags, <1>ids, <1>calls, <1>failed, <1>delivered
     DEF StopCall, TypeOK, wire, control, app
<1>14. CASE DestroyCall
  <2>1. user' \in Caller
    BY <1>14, <1>user DEF DestroyCall, Caller, ToCommand, Commands
  <2>2. calls' \in 0..MaxCalls
    BY <1>14, <1>calls, Constants DEF DestroyCall, NewCall
  <2> QED BY <1>14, <2>1, <2>2, <1>device, <1>wire, <1>requests, <1>answers, <1>mgr, <1>input,
     <1>reader, <1>user, <1>lock, <1>flags, <1>ids, <1>calls, <1>failed, <1>delivered DEF
     DestroyCall, TypeOK, wire, control, app
<1>15. ASSUME NEW c \in {Full, Cropped}, SetCropping(c) PROVE TypeOK'
  <2>1. user' \in Caller
    BY <1>15, <1>user DEF SetCropping, Caller, ToCommand, Commands
  <2>2. calls' \in 0..MaxCalls
    BY <1>15, <1>calls, Constants DEF SetCropping, NewCall
  <2> QED BY <1>15, <2>1, <2>2, <1>device, <1>wire, <1>requests, <1>answers, <1>mgr, <1>input,
     <1>reader, <1>user, <1>lock, <1>flags, <1>ids, <1>calls, <1>failed, <1>delivered DEF
     SetCropping, TypeOK, wire, control, app
<1>16. CASE DeviceAnswers
  <2>1. device' \in [on : BOOLEAN, cropping : {Full, Cropped}, frame : 0..MaxFrames,
                        left : 0..(FullSize - 1), id : 0..(PacketIds - 1)]
    <3>1. Head(requests) \in Request
      BY <1>16, <1>requests DEF DeviceAnswers
    <3>2. PICK ok \in BOOLEAN : Execute(Head(requests), ok)
      BY <1>16 DEF DeviceAnswers
    <3>3. \/ device' = device
          \/ device' = [device EXCEPT !.on = TRUE]
          \/ device' = [device EXCEPT !.on = FALSE, !.left = 0]
          \/ device' = [device EXCEPT !.cropping = Head(requests).cropping]
      BY <3>2 DEF Execute
    <3>4. Head(requests).cropping \in {Full, Cropped} /\ 0 \in 0..(FullSize - 1)
      BY <3>1, Constants DEF Request
    <3> QED BY <1>device, <3>3, <3>4
  <2>2. requests' \in Seq(Request)
    BY <1>16, <1>requests DEF DeviceAnswers
  <2>3. answers' \in Seq(Answer)
    <3>1. Head(requests) \in Request
      BY <1>16, <1>requests DEF DeviceAnswers
    <3>2. PICK a \in Answer : answers' = Append(answers, a)
      BY <1>16, <3>1 DEF DeviceAnswers, Request, Answer
    <3> QED BY <1>answers, <3>2
  <2> QED BY <1>16, <2>1, <2>2, <2>3, <1>device, <1>wire, <1>requests, <1>answers, <1>mgr,
     <1>input, <1>reader, <1>user, <1>lock, <1>flags, <1>ids, <1>calls, <1>failed, <1>delivered
     DEF DeviceAnswers, TypeOK, wire, control, app
<1>17. ASSUME NEW arrives \in BOOLEAN, DeviceSends(arrives) PROVE TypeOK'
  <2>1. device' \in [on : BOOLEAN, cropping : {Full, Cropped}, frame : 0..MaxFrames,
                        left : 0..(FullSize - 1), id : 0..(PacketIds - 1)]
    <3> QED BY <1>17, SentPacket
  <2>2. link' \in Seq(PacketType) /\ Len(link') <= MaxLink /\ lost' \in 0..MaxLoss
    <3> QED BY <1>17, SentPacket
  <2> QED BY <1>17, <2>1, <2>2, <1>device, <1>wire, <1>requests, <1>answers, <1>mgr, <1>input,
     <1>reader, <1>user, <1>lock, <1>flags, <1>ids, <1>calls, <1>failed, <1>delivered DEF
     DeviceSends, TypeOK, wire, control, app
<1>18. CASE UNCHANGED vars
  BY <1>18, <1>device, <1>wire, <1>requests, <1>answers, <1>mgr, <1>input, <1>reader, <1>user,
     <1>lock, <1>flags, <1>ids, <1>calls, <1>failed, <1>delivered DEF vars, TypeOK
<1> QED
  BY <1>1, <1>2, <1>3, <1>4, <1>5, <1>6, <1>7, <1>8, <1>9, <1>10, <1>11, <1>12, <1>13,
     <1>14, <1>15, <1>16, <1>17, <1>18
  DEF Next, ReaderStep, CallStep, NewCalls, Device

-----------------------------------------------------------------------------
(* The calls and the reading thread. *)

\* The end of a command, whether its answer came or not.
LEMMA Ended ==
    ASSUME TypeOK, CallInv, PendingInv, Receive \/ CommandFails
    PROVE  \E ok \in BOOLEAN :
            /\ Awaiting /\ user.command \in Commands /\ Finish(ok)
            /\ failed' = IF ok THEN failed ELSE failed \cup {user.command}
            /\ ok => user.command \in failed \/ (Current(answers[1]) /\ answers[1].ok /\
                   1 \in DOMAIN answers)
            /\ UNCHANGED <<device, wire, requests, mgr, reader, connected, lock, sent, delivered>>
<1>1. Awaiting /\ user.command \in Commands
  BY DEF Receive, CommandFails, Awaiting, CallInv
<1>2. CASE Receive
  <2>1. PICK ok \in BOOLEAN :
          /\ Finish(ok) /\ answers # <<>>
          /\ failed' = IF ok THEN failed ELSE failed \cup {user.command}
          /\ ok => Valid(Head(answers)) /\ Head(answers).ok
    BY <1>2 DEF Receive
  <2>2. 1 \in DOMAIN answers /\ Head(answers) = answers[1]
    BY <2>1 DEF TypeOK
  <2>3. ok => user.command \in failed \/ (Current(answers[1]) /\ answers[1].ok)
    BY <2>1, <2>2 DEF PendingInv, Current, Valid
  <2>4. UNCHANGED <<device, wire, requests, mgr, reader, connected, lock, sent, delivered>>
    BY <1>2 DEF Receive
  <2> QED BY <1>1, <2>1, <2>2, <2>3, <2>4
<1>3. CASE CommandFails
  BY <1>1, <1>3 DEF CommandFails, control
<1> QED BY <1>2, <1>3

LEMMA Serials ==
    TypeOK =>
        /\ \A i \in DOMAIN requests : i \in Nat /\ requests[i].serial \in Nat
        /\ \A i \in DOMAIN answers : i \in Nat /\ answers[i].serial \in Nat
<1> SUFFICES ASSUME TypeOK
             PROVE  /\ \A i \in DOMAIN requests : i \in Nat /\ requests[i].serial \in Nat
                    /\ \A i \in DOMAIN answers : i \in Nat /\ answers[i].serial \in Nat
  OBVIOUS
<1>1. requests \in Seq(Request) /\ answers \in Seq(Answer)
  BY DEF TypeOK
<1>2. \A i \in DOMAIN requests : i \in Nat /\ requests[i] \in Request
  BY <1>1
<1>3. \A i \in DOMAIN answers : i \in Nat /\ answers[i] \in Answer
  BY <1>1
<1> QED BY <1>2, <1>3 DEF Request, Answer

LEMMA CallInvStep == TypeOK /\ LinkInv /\ [Next]_vars => CallInv'
<1> SUFFICES ASSUME TypeOK, LinkInv, [Next]_vars PROVE CallInv'
  OBVIOUS
<1>0. /\ TypeOK /\ PendingInv /\ CallInv /\ StreamInv /\ ReaderInv
      /\ user \in Caller /\ input \in InputType /\ lock \in {None, "reader", "user"}
      /\ {connected, started, gone} \subseteq BOOLEAN
  BY DEF LinkInv, TypeOK
<1>1. CASE NextPacket
  BY <1>1, <1>0, Names DEF NextPacket, control, app, CallInv, StreamInv, Awaiting, Starting,
     Stopping, Caller, InputType, Commands
<1>2. CASE AcquireFails
  BY <1>2, <1>0, Names DEF AcquireFails, wire, control, app, CallInv, StreamInv, Awaiting,
     Starting, Stopping, Caller, InputType, Commands
<1>3. CASE Parse
  BY <1>3, <1>0, Names DEF Parse, wire, control, app, CallInv, StreamInv, Awaiting, Starting,
     Stopping, Caller, InputType, Commands
<1>4. CASE RaiseFrame
  BY <1>4, <1>0, Names DEF RaiseFrame, wire, control, app, ReaderInv, CallInv, Awaiting,
     Starting, Stopping
<1>5. CASE Connect
  BY <1>5, <1>0, Names DEF Connect, wire, control, ToCommand, CallInv, StreamInv, Awaiting,
     Starting, Stopping, Caller, InputType, Commands
<1>6. CASE ConnectFails
  BY <1>6, <1>0, Names DEF ConnectFails, wire, control, Idle, CallInv, StreamInv, Awaiting,
     Starting, Stopping, Caller, InputType, Commands
<1>7. CASE Send
  BY <1>7, <1>0, Names DEF Send, wire, CallInv, StreamInv, Awaiting, Starting, Stopping, Caller,
     InputType, Commands
<1>8. CASE Receive
  <2>1. PICK ok \in BOOLEAN :
          /\ Awaiting /\ user.command \in Commands /\ Finish(ok)
          /\ failed' = IF ok THEN failed ELSE failed \cup {user.command}
          /\ ok => user.command \in failed \/ (Current(answers[1]) /\ answers[1].ok /\
                 1 \in DOMAIN answers)
          /\ UNCHANGED <<device, wire, requests, mgr, reader, connected, lock, sent, delivered>>
    BY <1>8, <1>0, Ended
  <2>2. CASE user.command = Start /\ started' = ok /\ user' = Idle /\ UNCHANGED <<input, gone>>
    BY <2>1, <2>2, <1>0, Names DEF CallInv, StreamInv, Awaiting, Starting, Stopping, Caller,
       InputType, Commands, wire, Idle, Caller
  <2>3. CASE user.command = Stop /\ user' = [user EXCEPT !.at = "disconnect"] /\
                 UNCHANGED <<input, started, gone>>
    BY <2>1, <2>3, <1>0, Names DEF CallInv, StreamInv, Awaiting, Starting, Stopping, Caller,
       InputType, Commands, wire, Idle, Caller
  <2>4. CASE user.command = Crop /\ user' = Idle /\ UNCHANGED <<started, gone>>
              /\ input' = IF ok THEN [input EXCEPT !.cropping = user.cropping] ELSE input
    BY <2>1, <2>4, <1>0, Names DEF CallInv, StreamInv, Awaiting, Starting, Stopping, Caller,
       InputType, Commands, wire, Idle, Caller
  <2>5. CASE user.command = Destroy /\
                 user' = (IF ok THEN [user EXCEPT !.at = "shutdown"] ELSE Idle)
              /\ gone' = ~ok /\ UNCHANGED <<input, started>>
    BY <2>1, <2>5, <1>0, Names DEF CallInv, StreamInv, Awaiting, Starting, Stopping, Caller,
       InputType, Commands, wire, Idle, Caller
  <2> QED BY <2>1, <2>2, <2>3, <2>4, <2>5, Finishes
<1>9. CASE CommandFails
  <2>1. PICK ok \in BOOLEAN :
          /\ Awaiting /\ user.command \in Commands /\ Finish(ok)
          /\ failed' = IF ok THEN failed ELSE failed \cup {user.command}
          /\ ok => user.command \in failed \/ (Current(answers[1]) /\ answers[1].ok /\
                 1 \in DOMAIN answers)
          /\ UNCHANGED <<device, wire, requests, mgr, reader, connected, lock, sent, delivered>>
    BY <1>9, <1>0, Ended
  <2>2. CASE user.command = Start /\ started' = ok /\ user' = Idle /\ UNCHANGED <<input, gone>>
    BY <2>1, <2>2, <1>0, Names DEF CallInv, StreamInv, Awaiting, Starting, Stopping, Caller,
       InputType, Commands, wire, Idle, Caller
  <2>3. CASE user.command = Stop /\ user' = [user EXCEPT !.at = "disconnect"] /\
                 UNCHANGED <<input, started, gone>>
    BY <2>1, <2>3, <1>0, Names DEF CallInv, StreamInv, Awaiting, Starting, Stopping, Caller,
       InputType, Commands, wire, Idle, Caller
  <2>4. CASE user.command = Crop /\ user' = Idle /\ UNCHANGED <<started, gone>>
              /\ input' = IF ok THEN [input EXCEPT !.cropping = user.cropping] ELSE input
    BY <2>1, <2>4, <1>0, Names DEF CallInv, StreamInv, Awaiting, Starting, Stopping, Caller,
       InputType, Commands, wire, Idle, Caller
  <2>5. CASE user.command = Destroy /\
                 user' = (IF ok THEN [user EXCEPT !.at = "shutdown"] ELSE Idle)
              /\ gone' = ~ok /\ UNCHANGED <<input, started>>
    BY <2>1, <2>5, <1>0, Names DEF CallInv, StreamInv, Awaiting, Starting, Stopping, Caller,
       InputType, Commands, wire, Idle, Caller
  <2> QED BY <2>1, <2>2, <2>3, <2>4, <2>5, Finishes
<1>10. CASE Shutdown
  BY <1>10, <1>0, Names DEF Shutdown, wire, control, LastStop, ToCommand, Idle, CallInv,
     StreamInv, Awaiting, Starting, Stopping, Caller, InputType, Commands
<1>11. CASE Disconnect
  BY <1>11, <1>0, Names DEF Disconnect, control, Unlink, Stopped, Idle, CallInv, StreamInv,
     Awaiting, Starting, Stopping, Caller, InputType, Commands
<1>12. CASE StartCall
  BY <1>12, <1>0, Names DEF StartCall, NewCall, wire, control, Idle, CallInv, StreamInv,
     Awaiting, Starting, Stopping, Caller, InputType, Commands
<1>13. CASE StopCall
  BY <1>13, <1>0, Names DEF StopCall, NewCall, wire, control, LastStop, ToCommand, CallInv,
     StreamInv, Awaiting, Starting, Stopping, Caller, InputType, Commands
<1>14. CASE DestroyCall
  BY <1>14, <1>0, Names DEF DestroyCall, NewCall, wire, control, ToCommand, CallInv, StreamInv,
     Awaiting, Starting, Stopping, Caller, InputType, Commands
<1>15. ASSUME NEW c \in {Full, Cropped}, SetCropping(c) PROVE CallInv'
  BY <1>15, <1>0, Names DEF SetCropping, NewCall, wire, control, ToCommand, CallInv, StreamInv,
     Awaiting, Starting, Stopping, Caller, InputType, Commands
<1>16. CASE DeviceAnswers
  BY <1>16, <1>0, Names DEF DeviceAnswers, wire, app, CallInv, StreamInv, Awaiting, Starting,
     Stopping, Caller, InputType, Commands
<1>17. ASSUME NEW arrives \in BOOLEAN, DeviceSends(arrives) PROVE CallInv'
  BY <1>17, <1>0, Names DEF DeviceSends, control, app, CallInv, StreamInv, Awaiting, Starting,
     Stopping, Caller, InputType, Commands
<1>18. CASE UNCHANGED vars
  BY <1>18, <1>0, Names DEF vars, wire, control, app, CallInv, StreamInv, Awaiting, Starting,
     Stopping, Caller, InputType, Commands
<1> QED
  BY <1>1, <1>2, <1>3, <1>4, <1>5, <1>6, <1>7, <1>8, <1>9, <1>10, <1>11, <1>12, <1>13,
     <1>14, <1>15, <1>16, <1>17, <1>18
  DEF Next, ReaderStep, CallStep, NewCalls, Device

LEMMA StreamInvStep == TypeOK /\ LinkInv /\ [Next]_vars => StreamInv'
<1> SUFFICES ASSUME TypeOK, LinkInv, [Next]_vars PROVE StreamInv'
  OBVIOUS
<1>0. /\ TypeOK /\ PendingInv /\ CallInv /\ StreamInv /\ ReaderInv
      /\ user \in Caller /\ input \in InputType /\ lock \in {None, "reader", "user"}
      /\ {connected, started, gone} \subseteq BOOLEAN
  BY DEF LinkInv, TypeOK
<1>1. CASE NextPacket
  BY <1>1, <1>0, Names DEF NextPacket, control, app, CallInv, StreamInv, Awaiting, Starting,
     Stopping, Caller, InputType, Commands
<1>2. CASE AcquireFails
  BY <1>2, <1>0, Names DEF AcquireFails, wire, control, app, CallInv, StreamInv, Awaiting,
     Starting, Stopping, Caller, InputType, Commands
<1>3. CASE Parse
  <2>1. /\ input'.refs = input.refs /\ input'.streaming = input.streaming /\
               input'.parser = input.parser
        /\ UNCHANGED <<connected, user, started, gone, failed>> /\ reader.at = "handle"
    BY <1>3, <1>0 DEF Parse, InputType, app
  <2>2. connected /\ input.streaming
    BY <1>0, <2>1 DEF ReaderInv, StreamInv
  <2> QED BY <1>0, <2>1, <2>2 DEF StreamInv, Awaiting, Starting, Stopping
<1>4. CASE RaiseFrame
  BY <1>4, <1>0, Names DEF RaiseFrame, wire, control, app, CallInv, StreamInv, Awaiting,
     Starting, Stopping, Caller, InputType, Commands
<1>5. CASE Connect
  BY <1>5, <1>0, Names DEF Connect, wire, control, ToCommand, CallInv, StreamInv, Awaiting,
     Starting, Stopping, Caller, InputType, Commands
<1>6. CASE ConnectFails
  BY <1>6, <1>0, Names DEF ConnectFails, wire, control, Idle, CallInv, StreamInv, Awaiting,
     Starting, Stopping, Caller, InputType, Commands
<1>7. CASE Send
  BY <1>7, <1>0, Names DEF Send, wire, CallInv, StreamInv, Awaiting, Starting, Stopping, Caller,
     InputType, Commands
<1>8. CASE Receive
  <2>1. PICK ok \in BOOLEAN :
          /\ Awaiting /\ user.command \in Commands /\ Finish(ok)
          /\ failed' = IF ok THEN failed ELSE failed \cup {user.command}
          /\ ok => user.command \in failed \/ (Current(answers[1]) /\ answers[1].ok /\
                 1 \in DOMAIN answers)
          /\ UNCHANGED <<device, wire, requests, mgr, reader, connected, lock, sent, delivered>>
    BY <1>8, <1>0, Ended
  <2>2. CASE user.command = Start /\ started' = ok /\ user' = Idle /\ UNCHANGED <<input, gone>>
    BY <2>1, <2>2, <1>0, Names DEF CallInv, StreamInv, Awaiting, Starting, Stopping, Caller,
       InputType, Commands, wire, Idle, Caller
  <2>3. CASE user.command = Stop /\ user' = [user EXCEPT !.at = "disconnect"] /\
                 UNCHANGED <<input, started, gone>>
    BY <2>1, <2>3, <1>0, Names DEF CallInv, StreamInv, Awaiting, Starting, Stopping, Caller,
       InputType, Commands, wire, Idle, Caller
  <2>4. CASE user.command = Crop /\ user' = Idle /\ UNCHANGED <<started, gone>>
              /\ input' = IF ok THEN [input EXCEPT !.cropping = user.cropping] ELSE input
    BY <2>1, <2>4, <1>0, Names DEF CallInv, StreamInv, Awaiting, Starting, Stopping, Caller,
       InputType, Commands, wire, Idle, Caller
  <2>5. CASE user.command = Destroy /\
                 user' = (IF ok THEN [user EXCEPT !.at = "shutdown"] ELSE Idle)
              /\ gone' = ~ok /\ UNCHANGED <<input, started>>
    BY <2>1, <2>5, <1>0, Names DEF CallInv, StreamInv, Awaiting, Starting, Stopping, Caller,
       InputType, Commands, wire, Idle, Caller
  <2> QED BY <2>1, <2>2, <2>3, <2>4, <2>5, Finishes
<1>9. CASE CommandFails
  <2>1. PICK ok \in BOOLEAN :
          /\ Awaiting /\ user.command \in Commands /\ Finish(ok)
          /\ failed' = IF ok THEN failed ELSE failed \cup {user.command}
          /\ ok => user.command \in failed \/ (Current(answers[1]) /\ answers[1].ok /\
                 1 \in DOMAIN answers)
          /\ UNCHANGED <<device, wire, requests, mgr, reader, connected, lock, sent, delivered>>
    BY <1>9, <1>0, Ended
  <2>2. CASE user.command = Start /\ started' = ok /\ user' = Idle /\ UNCHANGED <<input, gone>>
    BY <2>1, <2>2, <1>0, Names DEF CallInv, StreamInv, Awaiting, Starting, Stopping, Caller,
       InputType, Commands, wire, Idle, Caller
  <2>3. CASE user.command = Stop /\ user' = [user EXCEPT !.at = "disconnect"] /\
                 UNCHANGED <<input, started, gone>>
    BY <2>1, <2>3, <1>0, Names DEF CallInv, StreamInv, Awaiting, Starting, Stopping, Caller,
       InputType, Commands, wire, Idle, Caller
  <2>4. CASE user.command = Crop /\ user' = Idle /\ UNCHANGED <<started, gone>>
              /\ input' = IF ok THEN [input EXCEPT !.cropping = user.cropping] ELSE input
    BY <2>1, <2>4, <1>0, Names DEF CallInv, StreamInv, Awaiting, Starting, Stopping, Caller,
       InputType, Commands, wire, Idle, Caller
  <2>5. CASE user.command = Destroy /\
                 user' = (IF ok THEN [user EXCEPT !.at = "shutdown"] ELSE Idle)
              /\ gone' = ~ok /\ UNCHANGED <<input, started>>
    BY <2>1, <2>5, <1>0, Names DEF CallInv, StreamInv, Awaiting, Starting, Stopping, Caller,
       InputType, Commands, wire, Idle, Caller
  <2> QED BY <2>1, <2>2, <2>3, <2>4, <2>5, Finishes
<1>10. CASE Shutdown
  BY <1>10, <1>0, Names DEF Shutdown, wire, control, LastStop, ToCommand, Idle, CallInv,
     StreamInv, Awaiting, Starting, Stopping, Caller, InputType, Commands
<1>11. CASE Disconnect
  BY <1>11, <1>0, Names DEF Disconnect, control, Unlink, Stopped, Idle, CallInv, StreamInv,
     Awaiting, Starting, Stopping, Caller, InputType, Commands
<1>12. CASE StartCall
  <2>1. CASE input.refs = 0
    <3>1. /\ input'.refs = 1 /\ input'.streaming /\ input'.parser /\ input'.room = 0
          /\ input'.frame = input.frame
          /\ user'.at = "connect" /\ UNCHANGED <<connected, started, gone, failed>>
          /\ user.at = "idle" /\ ~gone /\ ~started
      BY ZenonT(40), <1>12, <1>0, <2>1 DEF StartCall, NewCall, InputType, Idle
    <3> QED BY <1>0, <2>1, <3>1 DEF StreamInv, Awaiting, Starting, Stopping
  <2>2. CASE input.refs # 0
    <3>1. /\ input' = [input EXCEPT !.refs = input.refs + 1] /\ started' = TRUE
          /\ UNCHANGED <<user, connected, gone, failed>> /\ user.at = "idle" /\ ~started /\ ~gone
      BY <1>12, <2>2 DEF StartCall, NewCall
    <3>2. /\ input'.refs = input.refs + 1 /\ input'.streaming = input.streaming
          /\ input'.parser = input.parser /\ input'.room = input.room /\ input'.frame = input.frame
          /\ input.refs \in Int
      BY <1>0, <3>1 DEF InputType
    <3>3. ~Starting /\ ~Stopping /\ ~Starting' /\ ~Stopping' /\ user'.at = "idle"
      BY <3>1 DEF Awaiting, Starting, Stopping
    <3>4. input.refs > 0 /\ input.refs <= 1
      BY <1>0, <2>2, <3>1, <3>2 DEF StreamInv
    <3> QED BY <1>0, <3>1, <3>2, <3>3, <3>4 DEF StreamInv
  <2> QED BY <2>1, <2>2
<1>13. CASE StopCall
  BY <1>13, <1>0, Names DEF StopCall, NewCall, wire, control, LastStop, ToCommand, CallInv,
     StreamInv, Awaiting, Starting, Stopping, Caller, InputType, Commands
<1>14. CASE DestroyCall
  BY <1>14, <1>0, Names DEF DestroyCall, NewCall, wire, control, ToCommand, CallInv, StreamInv,
     Awaiting, Starting, Stopping, Caller, InputType, Commands
<1>15. ASSUME NEW c \in {Full, Cropped}, SetCropping(c) PROVE StreamInv'
  BY <1>15, <1>0, Names DEF SetCropping, NewCall, wire, control, ToCommand, CallInv, StreamInv,
     Awaiting, Starting, Stopping, Caller, InputType, Commands
<1>16. CASE DeviceAnswers
  BY <1>16, <1>0, Names DEF DeviceAnswers, wire, app, CallInv, StreamInv, Awaiting, Starting,
     Stopping, Caller, InputType, Commands
<1>17. ASSUME NEW arrives \in BOOLEAN, DeviceSends(arrives) PROVE StreamInv'
  BY <1>17, <1>0, Names DEF DeviceSends, control, app, CallInv, StreamInv, Awaiting, Starting,
     Stopping, Caller, InputType, Commands
<1>18. CASE UNCHANGED vars
  BY <1>18, <1>0, Names DEF vars, wire, control, app, CallInv, StreamInv, Awaiting, Starting,
     Stopping, Caller, InputType, Commands
<1> QED
  BY <1>1, <1>2, <1>3, <1>4, <1>5, <1>6, <1>7, <1>8, <1>9, <1>10, <1>11, <1>12, <1>13,
     <1>14, <1>15, <1>16, <1>17, <1>18
  DEF Next, ReaderStep, CallStep, NewCalls, Device

\* What Parse writes.
LEMMA Parsed ==
    ASSUME TypeOK, Parse
    PROVE  LET p == reader.packet
               old == IF p.begin THEN <<>> ELSE input.data
               room == IF p.begin THEN FullSize ELSE input.room
               spoilt == ~p.begin /\ (input.corrupt \/ mgr.loss)
               fits == Fits(old, p, room)
               appended == ~spoilt /\ fits
           IN
            /\ p \in PacketType /\ reader.at = "handle" /\ lock = None
            /\ Units(p) \in Seq(Unit) /\ Len(Units(p)) = p.units /\ old \in Seq(Unit)
            /\ input'.data = IF appended THEN old \o Units(p) ELSE old
            /\ Len(input'.data) = IF appended THEN Len(old) + p.units ELSE Len(old)
            /\ input'.room = room /\ input'.frame = (p.begin \/ input.frame)
            /\ (~input'.corrupt) => appended
            /\ \/ reader' = [at |-> "wait", packet |-> None] /\ lock' = None
               \/ /\ reader' = [reader EXCEPT !.at = "raise"] /\ lock' = "reader"
                  /\ p.left = 0 /\ appended
            /\ mgr'.next = mgr.next /\ mgr'.prevEnds = mgr.prevEnds
            /\ mgr'.loss = (~p.begin /\ mgr.loss)
            /\ UNCHANGED <<device, wire, control, connected, app, failed, delivered>>
<1> DEFINE p == reader.packet
           old == IF p.begin THEN <<>> ELSE input.data
           room == IF p.begin THEN FullSize ELSE input.room
           spoilt == ~p.begin /\ (input.corrupt \/ mgr.loss)
           fits == Fits(old, p, room)
           data == IF ~spoilt /\ fits THEN old \o Units(p) ELSE old
           short == p.left = 0 /\ Len(data) # SizeOf(input.cropping)
           complete == p.left = 0 /\ ~spoilt /\ fits /\ ~short
<1>1. /\ p \in PacketType /\ reader.at = "handle" /\ lock = None /\ input \in InputType
      /\ mgr \in [next : 0..(PacketIds - 1), prevEnds : BOOLEAN, loss : BOOLEAN]
  BY DEF Parse, TypeOK
<1>2. Units(p) \in Seq(Unit) /\ Len(Units(p)) = p.units
  BY <1>1, UnitsType
<1>3. old \in Seq(Unit)
  BY <1>1 DEF InputType
<1>4. /\ mgr' = IF p.begin THEN [mgr EXCEPT !.loss = FALSE] ELSE mgr
      /\ input' = [input EXCEPT !.room = room, !.data = data, !.frame = p.begin \/ input.frame,
                                !.corrupt = spoilt \/ ~fits \/ short]
      /\ reader' = IF complete THEN [reader EXCEPT !.at = "raise"] ELSE [at |-> "wait",
             packet |-> None]
      /\ lock' = IF complete THEN "reader" ELSE None
      /\ UNCHANGED <<device, wire, control, connected, app, failed, delivered>>
  BY DEF Parse
<1> HIDE DEF old, room, fits, short, spoilt
<1>5. Len(data) = IF ~spoilt /\ fits THEN Len(old) + p.units ELSE Len(old)
  BY <1>2, <1>3
<1>6. /\ mgr'.next = mgr.next /\ mgr'.prevEnds = mgr.prevEnds /\ mgr'.loss = (~p.begin /\ mgr.loss)
  BY <1>1, <1>4 DEF PacketType
<1> HIDE DEF data
<1>7. /\ input'.data = data /\ input'.room = room /\ input'.frame = (p.begin \/ input.frame)
      /\ input'.corrupt = (spoilt \/ ~fits \/ short)
  BY <1>1, <1>4 DEF InputType
<1> HIDE DEF p
<1>8. \/ reader' = [at |-> "wait", packet |-> None] /\ lock' = None
      \/ /\ reader' = [reader EXCEPT !.at = "raise"] /\ lock' = "reader"
         /\ p.left = 0 /\ ~spoilt /\ fits
  BY <1>4
<1>9. input'.data = IF ~spoilt /\ fits THEN old \o Units(p) ELSE old
  BY <1>7 DEF data
<1> QED BY <1>1, <1>2, <1>3, <1>4, <1>5, <1>6, <1>7, <1>8, <1>9 DEF old, room, fits, spoilt, p

LEMMA ReaderInvStep == TypeOK /\ LinkInv /\ [Next]_vars => ReaderInv'
<1> SUFFICES ASSUME TypeOK, LinkInv, [Next]_vars PROVE ReaderInv'
  OBVIOUS
<1>0. /\ TypeOK /\ PendingInv /\ CallInv /\ StreamInv /\ ReaderInv
      /\ user \in Caller /\ input \in InputType /\ lock \in {None, "reader", "user"}
      /\ {connected, started, gone} \subseteq BOOLEAN
      /\ reader \in [at : {"wait"}, packet : {None}] \cup [at : {"handle", "raise"},
             packet : PacketType]
      /\ mgr \in [next : 0..(PacketIds - 1), prevEnds : BOOLEAN, loss : BOOLEAN] /\
             link \in Seq(PacketType)
  BY DEF LinkInv, TypeOK
<1>1. CASE NextPacket
  <2>1. /\ reader.at = "wait" /\ connected /\ Head(link) \in PacketType
        /\ mgr' = [next |-> NextId(Head(link).id), prevEnds |-> Head(link).left = 0,
                   loss |-> mgr.loss \/ Lossy(Head(link))]
        /\ reader' = [at |-> "handle", packet |-> Head(link)]
        /\ UNCHANGED <<connected, lock, input, device>>
    BY <1>1, <1>0 DEF NextPacket, StreamInv
  <2> QED BY <1>0, <2>1 DEF ReaderInv
<1>2. CASE AcquireFails
  BY <1>2, <1>0, Names DEF AcquireFails, wire, control, app, CallInv, StreamInv, ReaderInv,
     Awaiting, Starting, Stopping, Caller, InputType, Commands
<1>3. CASE Parse
  <2>1. connected /\ Len(input.data) <= input.room /\ input.room \in Nat /\ lock # "reader"
    BY <1>3, <1>0, Constants DEF Parse, ReaderInv, InputType
  <2> DEFINE p == reader.packet
             old == IF p.begin THEN <<>> ELSE input.data
             room == IF p.begin THEN FullSize ELSE input.room
             spoilt == ~p.begin /\ (input.corrupt \/ mgr.loss)
             fits == Fits(old, p, room)
             appended == ~spoilt /\ fits
  <2>2. /\ p \in PacketType /\ reader.at = "handle" /\ Len(Units(p)) = p.units
        /\ Units(p) \in Seq(Unit) /\ old \in Seq(Unit)
        /\ input'.data = (IF appended THEN old \o Units(p) ELSE old)
        /\ Len(input'.data) = (IF appended THEN Len(old) + p.units ELSE Len(old))
        /\ input'.room = room
        /\ \/ reader' = [at |-> "wait", packet |-> None] /\ lock' = None
           \/ /\ reader' = [reader EXCEPT !.at = "raise"] /\ lock' = "reader"
              /\ p.left = 0 /\ appended
        /\ mgr'.next = mgr.next /\ mgr'.prevEnds = mgr.prevEnds
        /\ UNCHANGED <<device, link, connected>>
    BY <1>3, <1>0, Parsed DEF wire
  <2>3. Len(input'.data) <= input'.room
    <3>1. Len(old) <= room
      BY <2>1, Constants
    <3>2. fits => Len(old) + p.units <= room
      BY DEF Fits
    <3> HIDE DEF p, old, room, spoilt, fits
    <3> QED BY <2>2, <3>1, <3>2
  <2>4. reader'.at = "raise" => input'.data # <<>> /\ reader'.packet = p /\ p.left = 0
    <3>1. p.units \in Nat /\ p.units > 0
      BY SMTT(30), <2>2, Constants DEF PacketType
    <3>2. reader'.at = "raise" => Len(input'.data) = Len(old) + p.units /\ Len(old) \in Nat
      <4> HIDE DEF old, spoilt, fits
      <4> QED BY <1>0, <2>2
    <3> HIDE DEF p, old
    <3>3. reader'.at = "raise" => input'.data # <<>>
      BY <3>1, <3>2
    <3>4. reader'.at = "raise" => reader'.packet = reader.packet /\ reader.packet.left = 0
      BY <1>0, <2>2 DEF p
    <3> QED BY <3>3, <3>4 DEF p
  <2>5. lock' = "reader" <=> reader'.at = "raise"
    <3> HIDE DEF p, spoilt, fits
    <3> QED BY <1>0, <2>2, Names
  <2> HIDE DEF appended
  <2>6. reader'.at # "wait" => reader'.at = "raise"
    BY <1>0, <2>2
  <2> QED BY <1>0, <2>1, <2>2, <2>3, <2>4, <2>5, <2>6 DEF ReaderInv
<1>4. CASE RaiseFrame
  BY <1>4, <1>0, Names DEF RaiseFrame, wire, control, app, CallInv, StreamInv, ReaderInv,
     Awaiting, Starting, Stopping, Caller, InputType, Commands
<1>5. CASE Connect
  BY <1>5, <1>0, Names DEF Connect, wire, control, ToCommand, CallInv, StreamInv, ReaderInv,
     Awaiting, Starting, Stopping, Caller, InputType, Commands
<1>6. CASE ConnectFails
  BY <1>6, <1>0, Names DEF ConnectFails, wire, control, Idle, CallInv, StreamInv, ReaderInv,
     Awaiting, Starting, Stopping, Caller, InputType, Commands
<1>7. CASE Send
  BY <1>7, <1>0, Names DEF Send, wire, CallInv, StreamInv, ReaderInv, Awaiting, Starting,
     Stopping, Caller, InputType, Commands
<1>8. CASE Receive
  <2>1. PICK ok \in BOOLEAN :
          /\ Awaiting /\ user.command \in Commands /\ Finish(ok)
          /\ failed' = IF ok THEN failed ELSE failed \cup {user.command}
          /\ ok => user.command \in failed \/ (Current(answers[1]) /\ answers[1].ok /\
                 1 \in DOMAIN answers)
          /\ UNCHANGED <<device, wire, requests, mgr, reader, connected, lock, sent, delivered>>
    BY <1>8, <1>0, Ended
  <2>2. CASE user.command = Start /\ started' = ok /\ user' = Idle /\ UNCHANGED <<input, gone>>
    BY <2>1, <2>2, <1>0, Names DEF CallInv, StreamInv, ReaderInv, Awaiting, Starting, Stopping,
       Caller, InputType, Commands, wire, Idle, Caller
  <2>3. CASE user.command = Stop /\ user' = [user EXCEPT !.at = "disconnect"] /\
                 UNCHANGED <<input, started, gone>>
    BY <2>1, <2>3, <1>0, Names DEF CallInv, StreamInv, ReaderInv, Awaiting, Starting, Stopping,
       Caller, InputType, Commands, wire, Idle, Caller
  <2>4. CASE user.command = Crop /\ user' = Idle /\ UNCHANGED <<started, gone>>
              /\ input' = IF ok THEN [input EXCEPT !.cropping = user.cropping] ELSE input
    BY <2>1, <2>4, <1>0, Names DEF CallInv, StreamInv, ReaderInv, Awaiting, Starting, Stopping,
       Caller, InputType, Commands, wire, Idle, Caller
  <2>5. CASE user.command = Destroy /\
                 user' = (IF ok THEN [user EXCEPT !.at = "shutdown"] ELSE Idle)
              /\ gone' = ~ok /\ UNCHANGED <<input, started>>
    BY <2>1, <2>5, <1>0, Names DEF CallInv, StreamInv, ReaderInv, Awaiting, Starting, Stopping,
       Caller, InputType, Commands, wire, Idle, Caller
  <2> QED BY <2>1, <2>2, <2>3, <2>4, <2>5, Finishes
<1>9. CASE CommandFails
  <2>1. PICK ok \in BOOLEAN :
          /\ Awaiting /\ user.command \in Commands /\ Finish(ok)
          /\ failed' = IF ok THEN failed ELSE failed \cup {user.command}
          /\ ok => user.command \in failed \/ (Current(answers[1]) /\ answers[1].ok /\
                 1 \in DOMAIN answers)
          /\ UNCHANGED <<device, wire, requests, mgr, reader, connected, lock, sent, delivered>>
    BY <1>9, <1>0, Ended
  <2>2. CASE user.command = Start /\ started' = ok /\ user' = Idle /\ UNCHANGED <<input, gone>>
    BY <2>1, <2>2, <1>0, Names DEF CallInv, StreamInv, ReaderInv, Awaiting, Starting, Stopping,
       Caller, InputType, Commands, wire, Idle, Caller
  <2>3. CASE user.command = Stop /\ user' = [user EXCEPT !.at = "disconnect"] /\
                 UNCHANGED <<input, started, gone>>
    BY <2>1, <2>3, <1>0, Names DEF CallInv, StreamInv, ReaderInv, Awaiting, Starting, Stopping,
       Caller, InputType, Commands, wire, Idle, Caller
  <2>4. CASE user.command = Crop /\ user' = Idle /\ UNCHANGED <<started, gone>>
              /\ input' = IF ok THEN [input EXCEPT !.cropping = user.cropping] ELSE input
    BY <2>1, <2>4, <1>0, Names DEF CallInv, StreamInv, ReaderInv, Awaiting, Starting, Stopping,
       Caller, InputType, Commands, wire, Idle, Caller
  <2>5. CASE user.command = Destroy /\
                 user' = (IF ok THEN [user EXCEPT !.at = "shutdown"] ELSE Idle)
              /\ gone' = ~ok /\ UNCHANGED <<input, started>>
    BY <2>1, <2>5, <1>0, Names DEF CallInv, StreamInv, ReaderInv, Awaiting, Starting, Stopping,
       Caller, InputType, Commands, wire, Idle, Caller
  <2> QED BY <2>1, <2>2, <2>3, <2>4, <2>5, Finishes
<1>10. CASE Shutdown
  BY <1>10, <1>0, Names DEF Shutdown, wire, control, LastStop, ToCommand, Idle, CallInv,
     StreamInv, ReaderInv, Awaiting, Starting, Stopping, Caller, InputType, Commands
<1>11. CASE Disconnect
  BY <1>11, <1>0, Names DEF Disconnect, control, Unlink, Stopped, Idle, CallInv, StreamInv,
     ReaderInv, Awaiting, Starting, Stopping, Caller, InputType, Commands
<1>12. CASE StartCall
  <2>1. /\ \/ input'.data = <<>> /\ input'.room = 0
           \/ input'.data = input.data /\ input'.room = input.room
        /\ UNCHANGED <<connected, mgr, reader, lock, link, device>>
    <3>1. CASE input.refs = 0
      BY <1>12, <1>0, <3>1 DEF StartCall, wire, InputType
    <3>2. CASE input.refs # 0
      BY <1>12, <1>0, <3>2 DEF StartCall, wire, InputType
    <3> QED BY <3>1, <3>2
  <2>2. Len(input'.data) <= input'.room
    BY <1>0, <2>1 DEF ReaderInv
  <2>3. reader.at = "raise" => input'.data # <<>>
    <3>1. CASE reader.at = "raise"
      <4>1. input.streaming /\ user.at = "idle" /\ ~gone
        BY <1>12, <1>0, <3>1 DEF ReaderInv, StreamInv, StartCall, NewCall
      <4>2. input.refs # 0
        BY <1>0, <4>1 DEF StreamInv, Stopping, Awaiting
      <4> QED BY <1>12, <1>0, <3>1, <4>2 DEF StartCall, InputType, ReaderInv
    <3> QED BY <3>1
  <2> QED BY <1>0, <2>1, <2>2, <2>3 DEF ReaderInv
<1>13. CASE StopCall
  BY <1>13, <1>0, Names DEF StopCall, NewCall, wire, control, LastStop, ToCommand, CallInv,
     StreamInv, ReaderInv, Awaiting, Starting, Stopping, Caller, InputType, Commands
<1>14. CASE DestroyCall
  BY <1>14, <1>0, Names DEF DestroyCall, NewCall, wire, control, ToCommand, CallInv, StreamInv,
     ReaderInv, Awaiting, Starting, Stopping, Caller, InputType, Commands
<1>15. ASSUME NEW c \in {Full, Cropped}, SetCropping(c) PROVE ReaderInv'
  BY <1>15, <1>0, Names DEF SetCropping, NewCall, wire, control, ToCommand, CallInv, StreamInv,
     ReaderInv, Awaiting, Starting, Stopping, Caller, InputType, Commands
<1>16. CASE DeviceAnswers
  <2>1. device'.left # 0 => device'.frame = device.frame /\ device'.left = device.left
    <3>1. PICK ok \in BOOLEAN : Execute(Head(requests), ok)
      BY <1>16 DEF DeviceAnswers
    <3> QED BY <1>0, <3>1 DEF Execute, TypeOK
  <2> QED BY <1>16, <1>0, <2>1 DEF DeviceAnswers, ReaderInv, wire, app
<1>17. ASSUME NEW arrives \in BOOLEAN, DeviceSends(arrives) PROVE ReaderInv'
  <2>1. /\ device'.frame # 0 /\ (link' # <<>> => connected)
        /\ UNCHANGED <<connected, mgr, reader, lock, input>>
    <3>1. PICK p \in PacketType :
            /\ device' = [device EXCEPT !.frame = p.frame, !.left = p.left,
                   !.id = NextId(device.id)]
            /\ connected \/ link' = link
      BY <1>17, <1>0, SentPacket
    <3>2. device'.frame = p.frame /\ p.frame \in 1..MaxFrames
      BY <1>0, <3>1 DEF TypeOK, PacketType
    <3> QED BY <1>17, <1>0, <3>1, <3>2 DEF DeviceSends, ReaderInv
  <2> QED BY <1>0, <2>1 DEF ReaderInv
<1>18. CASE UNCHANGED vars
  BY <1>18, <1>0, Names DEF vars, wire, control, app, CallInv, StreamInv, ReaderInv, Awaiting,
     Starting, Stopping, Caller, InputType, Commands
<1> QED
  BY <1>1, <1>2, <1>3, <1>4, <1>5, <1>6, <1>7, <1>8, <1>9, <1>10, <1>11, <1>12, <1>13,
     <1>14, <1>15, <1>16, <1>17, <1>18
  DEF Next, ReaderStep, CallStep, NewCalls, Device

LEMMA LostInvStep == TypeOK /\ LinkInv /\ [Next]_vars => LostInv'
<1> SUFFICES ASSUME TypeOK, LinkInv, [Next]_vars PROVE LostInv'
  OBVIOUS
<1>0. /\ TypeOK /\ PendingInv /\ CallInv /\ StreamInv /\ ReaderInv /\ LostInv
      /\ user \in Caller /\ input \in InputType /\ lock \in {None, "reader", "user"}
      /\ {connected, started, gone} \subseteq BOOLEAN
      /\ reader \in [at : {"wait"}, packet : {None}] \cup [at : {"handle", "raise"},
             packet : PacketType]
      /\ mgr \in [next : 0..(PacketIds - 1), prevEnds : BOOLEAN, loss : BOOLEAN] /\
             link \in Seq(PacketType)
  BY DEF LinkInv, TypeOK
<1>1. CASE NextPacket
  <2> DEFINE p == Head(link)
  <2>1. /\ reader.at = "wait" /\ p \in PacketType
        /\ mgr' = [next |-> NextId(p.id), prevEnds |-> p.left = 0, loss |-> mgr.loss \/ Lossy(p)]
        /\ reader' = [at |-> "handle", packet |-> p]
        /\ UNCHANGED <<input, failed>>
    BY <1>1, <1>0 DEF NextPacket, StreamInv, ReaderInv
  <2>2. p.units \in Nat /\ p.units > 0 /\ p.begin \in BOOLEAN
    BY <2>1, Constants DEF PacketType
  <2> HIDE DEF p
  <2>3. mgr'.loss = (mgr.loss \/ Lossy(p)) /\ reader'.at = "handle" /\ reader'.packet = p
    BY <2>1
  <2>4. mgr.prevEnds => p.begin \/ Lossy(p)
    BY <1>0, <2>2 DEF Lossy
  <2>5. input.room = 0 => ~Fits(input.data, p, input.room)
    BY <1>0, <2>2 DEF Fits, InputType
  <2> QED BY <1>0, <2>1, <2>3, <2>4, <2>5 DEF LostInv, Harmless
<1>2. CASE AcquireFails
  BY <1>2, <1>0, Names DEF AcquireFails, wire, control, app, LostInv, Harmless, Fits, StreamInv,
     ReaderInv, Awaiting, Starting, Stopping, Caller, InputType, Commands
<1>3. CASE Parse
  <2> DEFINE p == reader.packet
  <2>1. /\ p \in PacketType /\ reader.at = "handle" /\ input'.frame = (p.begin \/ input.frame)
        /\ failed' = failed
        /\ ~p.begin => mgr'.loss = mgr.loss /\ input'.room = input.room
        /\ p.begin \/ input'.corrupt \/ (~input.corrupt /\ ~mgr.loss /\ Fits(input.data, p,
               input.room))
        /\ \/ reader'.at = "wait"
           \/ reader'.at = "raise" /\ (p.begin \/ (~input.corrupt /\ ~mgr.loss /\ Fits(input.data,
                  p, input.room)))
    BY <1>3, <1>0, Parsed
  <2> QED BY <1>0, <2>1 DEF LostInv, Harmless
<1>4. CASE RaiseFrame
  <2>1. reader.at = "raise" /\ mgr.prevEnds /\ UNCHANGED <<mgr, failed>> /\ reader'.at = "wait"
    BY <1>4, <1>0 DEF RaiseFrame, ReaderInv
  <2> QED BY <2>1 DEF LostInv
<1>5. CASE Connect
  BY <1>5, <1>0, Names DEF Connect, wire, control, ToCommand, LostInv, Harmless, Fits,
     StreamInv, ReaderInv, Awaiting, Starting, Stopping, Caller, InputType, Commands
<1>6. CASE ConnectFails
  BY <1>6, <1>0, Names DEF ConnectFails, wire, control, Idle, LostInv, Harmless, Fits,
     StreamInv, ReaderInv, Awaiting, Starting, Stopping, Caller, InputType, Commands
<1>7. CASE Send
  BY <1>7, <1>0, Names DEF Send, wire, LostInv, Harmless, Fits, StreamInv, ReaderInv, Awaiting,
     Starting, Stopping, Caller, InputType, Commands
<1>8. CASE Receive
  <2>1. PICK ok \in BOOLEAN :
          /\ Awaiting /\ user.command \in Commands /\ Finish(ok)
          /\ failed' = IF ok THEN failed ELSE failed \cup {user.command}
          /\ ok => user.command \in failed \/ (Current(answers[1]) /\ answers[1].ok /\
                 1 \in DOMAIN answers)
          /\ UNCHANGED <<device, wire, requests, mgr, reader, connected, lock, sent, delivered>>
    BY <1>8, <1>0, Ended
  <2>2. CASE user.command = Start /\ started' = ok /\ user' = Idle /\ UNCHANGED <<input, gone>>
    BY <2>1, <2>2, <1>0, Names DEF LostInv, Harmless, Fits, StreamInv, ReaderInv, Awaiting,
       Starting, Stopping, Caller, InputType, Commands, wire, Idle, Caller
  <2>3. CASE user.command = Stop /\ user' = [user EXCEPT !.at = "disconnect"] /\
                 UNCHANGED <<input, started, gone>>
    BY <2>1, <2>3, <1>0, Names DEF LostInv, Harmless, Fits, StreamInv, ReaderInv, Awaiting,
       Starting, Stopping, Caller, InputType, Commands, wire, Idle, Caller
  <2>4. CASE user.command = Crop /\ user' = Idle /\ UNCHANGED <<started, gone>>
              /\ input' = IF ok THEN [input EXCEPT !.cropping = user.cropping] ELSE input
    BY <2>1, <2>4, <1>0, Names DEF LostInv, Harmless, Fits, StreamInv, ReaderInv, Awaiting,
       Starting, Stopping, Caller, InputType, Commands, wire, Idle, Caller
  <2>5. CASE user.command = Destroy /\
                 user' = (IF ok THEN [user EXCEPT !.at = "shutdown"] ELSE Idle)
              /\ gone' = ~ok /\ UNCHANGED <<input, started>>
    BY <2>1, <2>5, <1>0, Names DEF LostInv, Harmless, Fits, StreamInv, ReaderInv, Awaiting,
       Starting, Stopping, Caller, InputType, Commands, wire, Idle, Caller
  <2> QED BY <2>1, <2>2, <2>3, <2>4, <2>5, Finishes
<1>9. CASE CommandFails
  <2>1. PICK ok \in BOOLEAN :
          /\ Awaiting /\ user.command \in Commands /\ Finish(ok)
          /\ failed' = IF ok THEN failed ELSE failed \cup {user.command}
          /\ ok => user.command \in failed \/ (Current(answers[1]) /\ answers[1].ok /\
                 1 \in DOMAIN answers)
          /\ UNCHANGED <<device, wire, requests, mgr, reader, connected, lock, sent, delivered>>
    BY <1>9, <1>0, Ended
  <2>2. CASE user.command = Start /\ started' = ok /\ user' = Idle /\ UNCHANGED <<input, gone>>
    BY <2>1, <2>2, <1>0, Names DEF LostInv, Harmless, Fits, StreamInv, ReaderInv, Awaiting,
       Starting, Stopping, Caller, InputType, Commands, wire, Idle, Caller
  <2>3. CASE user.command = Stop /\ user' = [user EXCEPT !.at = "disconnect"] /\
                 UNCHANGED <<input, started, gone>>
    BY <2>1, <2>3, <1>0, Names DEF LostInv, Harmless, Fits, StreamInv, ReaderInv, Awaiting,
       Starting, Stopping, Caller, InputType, Commands, wire, Idle, Caller
  <2>4. CASE user.command = Crop /\ user' = Idle /\ UNCHANGED <<started, gone>>
              /\ input' = IF ok THEN [input EXCEPT !.cropping = user.cropping] ELSE input
    BY <2>1, <2>4, <1>0, Names DEF LostInv, Harmless, Fits, StreamInv, ReaderInv, Awaiting,
       Starting, Stopping, Caller, InputType, Commands, wire, Idle, Caller
  <2>5. CASE user.command = Destroy /\
                 user' = (IF ok THEN [user EXCEPT !.at = "shutdown"] ELSE Idle)
              /\ gone' = ~ok /\ UNCHANGED <<input, started>>
    BY <2>1, <2>5, <1>0, Names DEF LostInv, Harmless, Fits, StreamInv, ReaderInv, Awaiting,
       Starting, Stopping, Caller, InputType, Commands, wire, Idle, Caller
  <2> QED BY <2>1, <2>2, <2>3, <2>4, <2>5, Finishes
<1>10. CASE Shutdown
  <2>1. UNCHANGED <<reader, mgr, failed>> /\ user.at = "shutdown" /\ ~started
        /\ input' = [input EXCEPT !.refs = input.refs - 1, !.frame = input.frame /\ LastStop]
    BY <1>10, <1>0 DEF Shutdown, CallInv
  <2>2. /\ input'.frame = (input.frame /\ LastStop)
        /\ UNCHANGED <<input.streaming, input.room, input.data, input.corrupt>>
    BY <1>0, <2>1 DEF InputType
  <2>3. CASE input.streaming
    <3>1. LastStop
      BY <1>0, <2>1, <2>3 DEF LastStop, StreamInv, Stopping, Awaiting, InputType
    <3>2. input'.frame = input.frame
      BY <1>0, <2>2, <3>1 DEF InputType
    <3> QED BY <1>0, <2>1, <2>2, <3>2 DEF LostInv, Harmless
  <2>4. CASE ~input.streaming
    BY <1>0, <2>1, <2>2, <2>4 DEF LostInv, StreamInv, ReaderInv
  <2> QED BY <2>3, <2>4
<1>11. CASE Disconnect
  BY <1>11, <1>0, Names DEF Disconnect, control, Unlink, Stopped, Idle, LostInv, Harmless, Fits,
     StreamInv, ReaderInv, Awaiting, Starting, Stopping, Caller, InputType, Commands
<1>12. CASE StartCall
  <2>1. UNCHANGED <<reader, mgr, failed>>
    BY <1>12 DEF StartCall
  <2>2. CASE input.refs = 0
    <3>1. input'.room = 0
      BY <1>12, <1>0, <2>2 DEF StartCall, InputType
    <3>2. ~input.streaming
      BY <1>12, <1>0, <2>2 DEF StreamInv, StartCall, NewCall, Stopping, Awaiting
    <3>3. reader.at = "wait"
      BY <1>0, <3>2 DEF StreamInv, ReaderInv
    <3> QED BY <2>1, <3>1, <3>3 DEF LostInv
  <2>3. CASE input.refs # 0
    <3>1. UNCHANGED <<input.frame, input.room, input.data, input.corrupt>>
      BY <1>12, <1>0, <2>3 DEF StartCall, InputType
    <3> QED BY <1>0, <2>1, <3>1 DEF LostInv, Harmless
  <2> QED BY <2>2, <2>3
<1>13. CASE StopCall
  BY <1>13, <1>0, Names DEF StopCall, NewCall, wire, control, LastStop, ToCommand, LostInv,
     Harmless, Fits, StreamInv, ReaderInv, Awaiting, Starting, Stopping, Caller, InputType,
     Commands
<1>14. CASE DestroyCall
  BY <1>14, <1>0, Names DEF DestroyCall, NewCall, wire, control, ToCommand, LostInv, Harmless,
     Fits, StreamInv, ReaderInv, Awaiting, Starting, Stopping, Caller, InputType, Commands
<1>15. ASSUME NEW c \in {Full, Cropped}, SetCropping(c) PROVE LostInv'
  BY <1>15, <1>0, Names DEF SetCropping, NewCall, wire, control, ToCommand, LostInv, Harmless,
     Fits, StreamInv, ReaderInv, Awaiting, Starting, Stopping, Caller, InputType, Commands
<1>16. CASE DeviceAnswers
  BY <1>16, <1>0, Names DEF DeviceAnswers, wire, app, LostInv, Harmless, Fits, StreamInv,
     ReaderInv, Awaiting, Starting, Stopping, Caller, InputType, Commands
<1>17. ASSUME NEW arrives \in BOOLEAN, DeviceSends(arrives) PROVE LostInv'
  BY <1>17, <1>0, Names DEF DeviceSends, control, app, LostInv, Harmless, Fits, StreamInv,
     ReaderInv, Awaiting, Starting, Stopping, Caller, InputType, Commands
<1>18. CASE UNCHANGED vars
  BY <1>18, <1>0, Names DEF vars, wire, control, app, LostInv, Harmless, Fits, StreamInv,
     ReaderInv, Awaiting, Starting, Stopping, Caller, InputType, Commands
<1> QED
  BY <1>1, <1>2, <1>3, <1>4, <1>5, <1>6, <1>7, <1>8, <1>9, <1>10, <1>11, <1>12, <1>13,
     <1>14, <1>15, <1>16, <1>17, <1>18
  DEF Next, ReaderStep, CallStep, NewCalls, Device

LEMMA SerialInvStep == TypeOK /\ LinkInv /\ [Next]_vars => SerialInv'
<1> SUFFICES ASSUME TypeOK, LinkInv, [Next]_vars PROVE SerialInv'
  OBVIOUS
<1>0. /\ TypeOK /\ PendingInv /\ CallInv /\ SerialInv
      /\ user \in Caller /\ input \in InputType /\ lock \in {None, "reader", "user"}
      /\ {connected, started, gone} \subseteq BOOLEAN
      /\ \A i \in DOMAIN requests : i \in Nat /\ requests[i].serial \in Nat
      /\ \A i \in DOMAIN answers : i \in Nat /\ answers[i].serial \in Nat
      /\ requests \in Seq(Request) /\ answers \in Seq(Answer) /\ sent \in Nat
  BY Serials DEF LinkInv, TypeOK
<1>1. CASE NextPacket
  BY <1>1, <1>0, Names DEF NextPacket, control, app, SerialInv, CallInv, Awaiting, Starting,
     Stopping, Caller, InputType, Commands
<1>2. CASE AcquireFails
  BY <1>2, <1>0, Names DEF AcquireFails, wire, control, app, SerialInv, CallInv, Awaiting,
     Starting, Stopping, Caller, InputType, Commands
<1>3. CASE Parse
  BY <1>3, <1>0, Names DEF Parse, wire, control, app, SerialInv, CallInv, Awaiting, Starting,
     Stopping, Caller, InputType, Commands
<1>4. CASE RaiseFrame
  BY <1>4, <1>0, Names DEF RaiseFrame, wire, control, app, SerialInv, CallInv, Awaiting,
     Starting, Stopping, Caller, InputType, Commands
<1>5. CASE Connect
  BY <1>5, <1>0, Names DEF Connect, wire, control, ToCommand, SerialInv, CallInv, Awaiting,
     Starting, Stopping, Caller, InputType, Commands
<1>6. CASE ConnectFails
  BY <1>6, <1>0, Names DEF ConnectFails, wire, control, Idle, SerialInv, CallInv, Awaiting,
     Starting, Stopping, Caller, InputType, Commands
<1>7. CASE Send
  <2> DEFINE r == [command |-> user.command, serial |-> sent + 1, id |-> nextId,
      cropping |-> user.cropping]
  <2>0. /\ user.command \in Commands /\ nextId \in Nat /\ sent + 1 \in Nat
        /\ user.cropping \in {Full, Cropped}
    BY <1>7, <1>0 DEF Send, CallInv, Awaiting, TypeOK, Caller
  <2>1. r \in Request /\ r.serial = sent + 1 /\ requests' = Append(requests, r)
    BY <1>7, <2>0 DEF Send, Request
  <2> HIDE DEF r
  <2>2. \A i \in DOMAIN requests' :
          /\ i \in Nat
          /\ \/ i \in DOMAIN requests /\ i <= Len(requests) /\ requests'[i] = requests[i]
             \/ i = Len(requests) + 1 /\ requests'[i] = r
    BY <1>0, <2>1, AppendIndex
  <2>3. sent' = sent + 1 /\ answers' = answers
    BY <1>7 DEF Send
  <2>4. Len(requests) \in Nat
    BY <1>0
  <2> QED BY <1>0, <2>1, <2>2, <2>3, <2>4 DEF SerialInv
<1>8. CASE Receive
  <2>1. requests' = requests /\ sent' = sent /\ answers # <<>> /\ answers' = Tail(answers)
    BY <1>8 DEF Receive
  <2>2. \A i \in DOMAIN answers' : i \in Nat /\ i + 1 \in DOMAIN answers /\ 1 < i + 1 /\
            answers'[i] = answers[i + 1]
    BY <1>0, <2>1, TailIndex
  <2> QED BY <1>0, <2>1, <2>2 DEF SerialInv
<1>9. CASE CommandFails
  BY <1>9, <1>0 DEF CommandFails, control, SerialInv
<1>10. CASE Shutdown
  BY <1>10, <1>0, Names DEF Shutdown, wire, control, LastStop, ToCommand, Idle, SerialInv,
     CallInv, Awaiting, Starting, Stopping, Caller, InputType, Commands
<1>11. CASE Disconnect
  BY <1>11, <1>0, Names DEF Disconnect, control, Unlink, Stopped, Idle, SerialInv, CallInv,
     Awaiting, Starting, Stopping, Caller, InputType, Commands
<1>12. CASE StartCall
  BY <1>12, <1>0, Names DEF StartCall, NewCall, wire, control, Idle, SerialInv, CallInv,
     Awaiting, Starting, Stopping, Caller, InputType, Commands
<1>13. CASE StopCall
  BY <1>13, <1>0, Names DEF StopCall, NewCall, wire, control, LastStop, ToCommand, SerialInv,
     CallInv, Awaiting, Starting, Stopping, Caller, InputType, Commands
<1>14. CASE DestroyCall
  BY <1>14, <1>0, Names DEF DestroyCall, NewCall, wire, control, ToCommand, SerialInv, CallInv,
     Awaiting, Starting, Stopping, Caller, InputType, Commands
<1>15. ASSUME NEW c \in {Full, Cropped}, SetCropping(c) PROVE SerialInv'
  BY <1>15, <1>0, Names DEF SetCropping, NewCall, wire, control, ToCommand, SerialInv, CallInv,
     Awaiting, Starting, Stopping, Caller, InputType, Commands
<1>16. CASE DeviceAnswers
  <2>1. requests # <<>> /\ requests' = Tail(requests) /\ sent' = sent
    BY <1>16 DEF DeviceAnswers
  <2>2. Head(requests) \in Request
    BY <1>0, <2>1
  <2>3. PICK a \in Answer : a.serial = Head(requests).serial /\ answers' = Append(answers, a)
    BY <1>16, <2>2 DEF DeviceAnswers, Request, Answer
  <2>4. /\ 1 \in DOMAIN requests /\ Head(requests) = requests[1]
        /\ \A i \in DOMAIN requests' :
            i \in Nat /\ i + 1 \in DOMAIN requests /\ 1 < i + 1 /\ requests'[i] = requests[i + 1]
    BY <1>0, <2>1, TailIndex
  <2>5. \A i \in DOMAIN answers' :
          /\ i \in Nat
          /\ \/ i \in DOMAIN answers /\ i <= Len(answers) /\ answers'[i] = answers[i]
             \/ i = Len(answers) + 1 /\ answers'[i] = a
    BY <1>0, <2>3, AppendIndex
  <2>6. Len(answers) \in Nat
    BY <1>0
  <2>7. \A i \in DOMAIN requests' : requests'[i].serial <= sent' /\
            requests[1].serial < requests'[i].serial
    BY <1>0, <2>1, <2>4 DEF SerialInv
  <2>8. \A i, j \in DOMAIN requests' : i < j => requests'[i].serial < requests'[j].serial
    BY <1>0, <2>4 DEF SerialInv
  <2>9. \A i \in DOMAIN answers' : answers'[i].serial <= sent' /\
            answers'[i].serial <= requests[1].serial
    BY <1>0, <2>1, <2>3, <2>4, <2>5 DEF SerialInv
  <2>10. \A i, j \in DOMAIN answers' : i < j => answers'[i].serial < answers'[j].serial
    BY <1>0, <2>3, <2>4, <2>5, <2>6 DEF SerialInv
  <2>11. \A i \in DOMAIN answers', j \in DOMAIN requests' : answers'[i].serial < requests'[j].serial
    <3> SUFFICES ASSUME NEW i \in DOMAIN answers', NEW j \in DOMAIN requests'
                 PROVE  answers'[i].serial < requests'[j].serial
      OBVIOUS
    <3>1. answers'[i].serial \in Nat /\ requests'[j].serial \in Nat /\ requests[1].serial \in Nat
      BY <1>0, <2>3, <2>4, <2>5 DEF Answer
    <3> QED BY <2>7, <2>9, <3>1
  <2> QED BY <2>7, <2>8, <2>9, <2>10, <2>11 DEF SerialInv
<1>17. ASSUME NEW arrives \in BOOLEAN, DeviceSends(arrives) PROVE SerialInv'
  BY <1>17, <1>0, Names DEF DeviceSends, control, app, SerialInv, CallInv, Awaiting, Starting,
     Stopping, Caller, InputType, Commands
<1>18. CASE UNCHANGED vars
  BY <1>18, <1>0, Names DEF vars, wire, control, app, SerialInv, CallInv, Awaiting, Starting,
     Stopping, Caller, InputType, Commands
<1> QED
  BY <1>1, <1>2, <1>3, <1>4, <1>5, <1>6, <1>7, <1>8, <1>9, <1>10, <1>11, <1>12, <1>13,
     <1>14, <1>15, <1>16, <1>17, <1>18
  DEF Next, ReaderStep, CallStep, NewCalls, Device

LEMMA PendingInvStep == TypeOK /\ LinkInv /\ [Next]_vars => PendingInv'
<1> SUFFICES ASSUME TypeOK, LinkInv, [Next]_vars PROVE PendingInv'
  OBVIOUS
<1>0. /\ TypeOK /\ PendingInv /\ CallInv /\ PendingInv /\ SerialInv
      /\ user \in Caller /\ input \in InputType /\ lock \in {None, "reader", "user"}
      /\ {connected, started, gone} \subseteq BOOLEAN
      /\ \A i \in DOMAIN requests : i \in Nat /\ requests[i].serial \in Nat
      /\ \A i \in DOMAIN answers : i \in Nat /\ answers[i].serial \in Nat
      /\ requests \in Seq(Request) /\ answers \in Seq(Answer) /\ sent \in Nat
  BY Serials DEF LinkInv, TypeOK
<1>1. CASE NextPacket
  BY <1>1, <1>0, Names DEF NextPacket, control, app, PendingInv, Current, CallInv, Awaiting,
     Starting, Stopping, Caller, InputType, Commands
<1>2. CASE AcquireFails
  BY <1>2, <1>0, Names DEF AcquireFails, wire, control, app, PendingInv, Current, CallInv,
     Awaiting, Starting, Stopping, Caller, InputType, Commands
<1>3. CASE Parse
  BY <1>3, <1>0, Names DEF Parse, wire, control, app, PendingInv, Current, CallInv, Awaiting,
     Starting, Stopping, Caller, InputType, Commands
<1>4. CASE RaiseFrame
  BY <1>4, <1>0, Names DEF RaiseFrame, wire, control, app, PendingInv, Current, CallInv,
     Awaiting, Starting, Stopping, Caller, InputType, Commands
<1>5. CASE Connect
  BY <1>5, <1>0, Names DEF Connect, wire, control, ToCommand, PendingInv, Current, CallInv,
     Awaiting, Starting, Stopping, Caller, InputType, Commands
<1>6. CASE ConnectFails
  BY <1>6, <1>0, Names DEF ConnectFails, wire, control, Idle, PendingInv, Current, CallInv,
     Awaiting, Starting, Stopping, Caller, InputType, Commands
<1>7. CASE Send
  BY <1>7, <1>0, Names DEF Send, wire, PendingInv, Current, CallInv, Awaiting, Starting,
     Stopping, Caller, InputType, Commands
<1>8. CASE Receive
  <2>1. PICK ok \in BOOLEAN :
          /\ user.at = "receive" /\ answers # <<>> /\ answers' = Tail(answers)
          /\ ok => Valid(Head(answers))
          /\ failed' = IF ok THEN failed ELSE failed \cup {user.command}
          /\ requests' = requests
    BY <1>8 DEF Receive
  <2>2. \A i \in DOMAIN answers' : i \in Nat /\ i + 1 \in DOMAIN answers /\ 1 < i + 1 /\
            answers'[i] = answers[i + 1]
    BY <1>0, <2>1, TailIndex
  <2>3. CASE ~ok \/ user.command \in failed
    <3>1. user.command \in failed' /\ failed \subseteq failed'
      BY <2>1, <2>3
    <3> QED BY <1>0, <2>1, <2>2, <3>1 DEF PendingInv, Current
  <2>4. CASE ok /\ user.command \notin failed
    <3>1. 1 \in DOMAIN answers /\ answers[1].serial = sent
      BY <1>0, <2>1, <2>4 DEF PendingInv, Current, Valid
    <3>2. \A i \in DOMAIN answers : ~(1 < i)
      BY <1>0, <3>1 DEF SerialInv
    <3>3. \A i \in DOMAIN requests : FALSE
      BY <1>0, <3>1 DEF SerialInv
    <3>4. \A i \in DOMAIN answers' : FALSE
      BY <2>2, <3>2
    <3> QED BY <2>1, <3>3, <3>4 DEF PendingInv
  <2> QED BY <2>3, <2>4
<1>9. CASE CommandFails
  <2>1. /\ failed' = failed \cup {user.command} /\ UNCHANGED <<requests, answers>>
    BY <1>9 DEF CommandFails, control
  <2> QED BY <1>0, <2>1 DEF PendingInv, Current
<1>10. CASE Shutdown
  BY <1>10, <1>0, Names DEF Shutdown, wire, control, LastStop, ToCommand, Idle, PendingInv,
     Current, CallInv, Awaiting, Starting, Stopping, Caller, InputType, Commands
<1>11. CASE Disconnect
  BY <1>11, <1>0, Names DEF Disconnect, control, Unlink, Stopped, Idle, PendingInv, Current,
     CallInv, Awaiting, Starting, Stopping, Caller, InputType, Commands
<1>12. CASE StartCall
  BY <1>12, <1>0, Names DEF StartCall, NewCall, wire, control, Idle, PendingInv, Current,
     CallInv, Awaiting, Starting, Stopping, Caller, InputType, Commands
<1>13. CASE StopCall
  BY <1>13, <1>0, Names DEF StopCall, NewCall, wire, control, LastStop, ToCommand, PendingInv,
     Current, CallInv, Awaiting, Starting, Stopping, Caller, InputType, Commands
<1>14. CASE DestroyCall
  BY <1>14, <1>0, Names DEF DestroyCall, NewCall, wire, control, ToCommand, PendingInv, Current,
     CallInv, Awaiting, Starting, Stopping, Caller, InputType, Commands
<1>15. ASSUME NEW c \in {Full, Cropped}, SetCropping(c) PROVE PendingInv'
  BY <1>15, <1>0, Names DEF SetCropping, NewCall, wire, control, ToCommand, PendingInv, Current,
     CallInv, Awaiting, Starting, Stopping, Caller, InputType, Commands
<1>16. CASE DeviceAnswers
  BY SMTT(30), <1>16, <1>0, Names DEF DeviceAnswers, wire, app, PendingInv, Current, CallInv,
     Awaiting,
     Starting, Stopping, Caller, InputType, Commands
<1>17. ASSUME NEW arrives \in BOOLEAN, DeviceSends(arrives) PROVE PendingInv'
  BY <1>17, <1>0, Names DEF DeviceSends, control, app, PendingInv, Current, CallInv, Awaiting,
     Starting, Stopping, Caller, InputType, Commands
<1>18. CASE UNCHANGED vars
  BY <1>18, <1>0, Names DEF vars, wire, control, app, PendingInv, Current, CallInv, Awaiting,
     Starting, Stopping, Caller, InputType, Commands
<1> QED
  BY <1>1, <1>2, <1>3, <1>4, <1>5, <1>6, <1>7, <1>8, <1>9, <1>10, <1>11, <1>12, <1>13,
     <1>14, <1>15, <1>16, <1>17, <1>18
  DEF Next, ReaderStep, CallStep, NewCalls, Device

-----------------------------------------------------------------------------
(* The application and the device. *)

\* The device executes the oldest command, and answers it.
LEMMA Answered ==
    ASSUME TypeOK, LinkInv, DeviceAnswers
    PROVE  \E c \in Request, a \in Answer :
            /\ 1 \in DOMAIN requests /\ c = requests[1]
            /\ a.command = c.command /\ a.serial = c.serial
            /\ IF ~a.ok THEN device' = device ELSE
               \/ c.command = Start /\ device' = [device EXCEPT !.on = TRUE]
               \/ c.command = Crop /\ device' = [device EXCEPT !.cropping = c.cropping]
               \/ c.command \in {Stop, Destroy} /\ device' = [device EXCEPT !.on = FALSE,
                      !.left = 0]
            /\ \A i \in DOMAIN requests' : i + 1 \in DOMAIN requests /\
                   requests'[i] = requests[i + 1]
            /\ \A i \in DOMAIN answers' :
                \/ i \in DOMAIN answers /\ answers'[i] = answers[i]
                \/ answers'[i] = a
            /\ UNCHANGED <<wire, mgr, input, reader, connected, app, lock, nextId, sent, failed,
                   delivered>>
<1>1. requests # <<>> /\ requests' = Tail(requests) /\ requests \in Seq(Request) /\
          answers \in Seq(Answer)
  BY DEF DeviceAnswers, TypeOK
<1>2. 1 \in DOMAIN requests /\ Head(requests) = requests[1] /\ requests[1] \in Request
  BY <1>1
<1> DEFINE c == requests[1]
<1>3. PICK ok \in BOOLEAN : /\ Execute(c, ok)
                            /\ answers' = Append(answers, [command |-> c.command,
                                   serial |-> c.serial,
                                                           id |-> c.id, ok |-> ok])
  BY <1>1, <1>2 DEF DeviceAnswers
<1> DEFINE a == [command |-> c.command, serial |-> c.serial, id |-> c.id, ok |-> ok]
<1>4. a \in Answer /\ c \in Request
  BY <1>2 DEF Request, Answer
<1>5. \A i \in DOMAIN requests' : i + 1 \in DOMAIN requests /\ requests'[i] = requests[i + 1]
  BY <1>1, TailIndex
<1>6. \A i \in DOMAIN answers' : \/ i \in DOMAIN answers /\ answers'[i] = answers[i]
                                 \/ answers'[i] = a
  <2> HIDE DEF a
  <2>1. answers' = Append(answers, a)
    BY <1>3 DEF a
  <2> QED BY <1>1, <1>4, <2>1, AppendIndex
<1>7. c.command = Start \/ c.command = Crop \/ c.command \in {Stop, Destroy}
  BY <1>4 DEF Request, Commands
<1>8. IF ~ok THEN device' = device ELSE
        \/ c.command = Start /\ device' = [device EXCEPT !.on = TRUE]
        \/ c.command = Crop /\ device' = [device EXCEPT !.cropping = c.cropping]
        \/ c.command \in {Stop, Destroy} /\ device' = [device EXCEPT !.on = FALSE, !.left = 0]
  <2> HIDE DEF c
  <2>1. CASE c.command = Start
    BY <1>3, <2>1, Names DEF Execute
  <2>2. CASE c.command = Crop
    BY <1>3, <2>2, Names DEF Execute
  <2>3. CASE c.command \in {Stop, Destroy}
    BY <1>3, <2>3, Names DEF Execute
  <2> QED BY <1>7, <2>1, <2>2, <2>3
<1>9. UNCHANGED <<wire, mgr, input, reader, connected, app, lock, nextId, sent, failed, delivered>>
  BY DEF DeviceAnswers
<1>10. a.command = c.command /\ a.serial = c.serial /\ a.ok = ok
  OBVIOUS
<1> HIDE DEF a, c
<1> QED
  <2>1. 1 \in DOMAIN requests /\ c = requests[1]
    BY <1>2 DEF c
  <2> QED BY <1>4, <1>5, <1>6, <1>8, <1>9, <1>10, <2>1

LEMMA RunInvStep == TypeOK /\ LinkInv /\ RunInv /\ [Next]_vars => RunInv'
<1> SUFFICES ASSUME TypeOK, LinkInv, RunInv, [Next]_vars PROVE RunInv'
  OBVIOUS
<1>0. /\ TypeOK /\ PendingInv /\ LinkInv /\ CallInv /\ StreamInv /\ ReaderInv /\ SerialInv /\ RunInv
      /\ user \in Caller /\ input \in InputType /\ lock \in {None, "reader", "user"}
      /\ {connected, started, gone} \subseteq BOOLEAN
      /\ device \in [on : BOOLEAN, cropping : {Full, Cropped}, frame : 0..MaxFrames,
                     left : 0..(FullSize - 1), id : 0..(PacketIds - 1)]
  BY DEF LinkInv, TypeOK
<1>1. CASE NextPacket
  BY <1>1, <1>0, Names DEF NextPacket, control, app, RunInv, Current, CallInv, StreamInv,
     Awaiting, Starting, Stopping, Caller, InputType, Commands
<1>2. CASE AcquireFails
  BY <1>2, <1>0, Names DEF AcquireFails, wire, control, app, RunInv, Current, CallInv,
     StreamInv, Awaiting, Starting, Stopping, Caller, InputType, Commands
<1>3. CASE Parse
  BY <1>3, <1>0, Names DEF Parse, wire, control, app, RunInv, Current, CallInv, StreamInv,
     Awaiting, Starting, Stopping, Caller, InputType, Commands
<1>4. CASE RaiseFrame
  BY <1>4, <1>0, Names DEF RaiseFrame, wire, control, app, RunInv, Current, CallInv, StreamInv,
     Awaiting, Starting, Stopping, Caller, InputType, Commands
<1>5. CASE Connect
  BY <1>5, <1>0, Names DEF Connect, wire, control, ToCommand, RunInv, Current, CallInv,
     StreamInv, Awaiting, Starting, Stopping, Caller, InputType, Commands
<1>6. CASE ConnectFails
  BY <1>6, <1>0, Names DEF ConnectFails, wire, control, Idle, RunInv, Current, CallInv,
     StreamInv, Awaiting, Starting, Stopping, Caller, InputType, Commands
<1>7. CASE Send
  <2>1. /\ user.at = "send" /\ user' = [user EXCEPT !.at = "receive"] /\ sent' = sent + 1
        /\ \E id : requests' = Append(requests, [command |-> user.command, serial |-> sent + 1,
               id |-> id,
                                                 cropping |-> user.cropping])
        /\ UNCHANGED <<device, input, answers, failed>>
    BY <1>7 DEF Send
  <2>2. user'.at = "receive" /\ UNCHANGED <<user.command, user.cropping, user.call>> /\
            user.command \in Commands
    BY <1>0, <2>1 DEF Caller, CallInv, Awaiting
  <2>3. \A i \in DOMAIN answers' : ~Current(answers[i])'
    <3> SUFFICES ASSUME NEW i \in DOMAIN answers, answers[i].serial = sent + 1 PROVE FALSE
      BY <2>1 DEF Current
    <3> QED BY <1>0, Serials DEF SerialInv, TypeOK
  <2> QED BY <1>0, <2>1, <2>2, <2>3, Names DEF RunInv, Awaiting
<1>8. CASE Receive
  <2>1. PICK ok \in BOOLEAN :
          /\ Awaiting /\ user.command \in Commands /\ Finish(ok)
          /\ failed' = IF ok THEN failed ELSE failed \cup {user.command}
          /\ ok => user.command \in failed \/ (Current(answers[1]) /\ answers[1].ok /\
                 1 \in DOMAIN answers)
          /\ UNCHANGED <<device, wire, requests, mgr, reader, connected, lock, sent, delivered>>
    BY <1>8, <1>0, Ended
  <2>2. CASE user.command = Start /\ started' = ok /\ user' = Idle /\ UNCHANGED <<input, gone>>
    BY <2>1, <2>2, <1>0, Names DEF RunInv, Current, CallInv, StreamInv, Awaiting, Starting,
       Stopping, Caller, InputType, Commands, wire, Idle, Caller
  <2>3. CASE user.command = Stop /\ user' = [user EXCEPT !.at = "disconnect"] /\
                 UNCHANGED <<input, started, gone>>
    BY <2>1, <2>3, <1>0, Names DEF RunInv, Current, CallInv, StreamInv, Awaiting, Starting,
       Stopping, Caller, InputType, Commands, wire, Idle, Caller
  <2>4. CASE user.command = Crop /\ user' = Idle /\ UNCHANGED <<started, gone>>
              /\ input' = IF ok THEN [input EXCEPT !.cropping = user.cropping] ELSE input
    BY <2>1, <2>4, <1>0, Names DEF RunInv, Current, CallInv, StreamInv, Awaiting, Starting,
       Stopping, Caller, InputType, Commands, wire, Idle, Caller
  <2>5. CASE user.command = Destroy /\
                 user' = (IF ok THEN [user EXCEPT !.at = "shutdown"] ELSE Idle)
              /\ gone' = ~ok /\ UNCHANGED <<input, started>>
    BY <2>1, <2>5, <1>0, Names DEF RunInv, Current, CallInv, StreamInv, Awaiting, Starting,
       Stopping, Caller, InputType, Commands, wire, Idle, Caller
  <2> QED BY <2>1, <2>2, <2>3, <2>4, <2>5, Finishes
<1>9. CASE CommandFails
  <2>1. PICK ok \in BOOLEAN :
          /\ Awaiting /\ user.command \in Commands /\ Finish(ok)
          /\ failed' = IF ok THEN failed ELSE failed \cup {user.command}
          /\ ok => user.command \in failed \/ (Current(answers[1]) /\ answers[1].ok /\
                 1 \in DOMAIN answers)
          /\ UNCHANGED <<device, wire, requests, mgr, reader, connected, lock, sent, delivered>>
    BY <1>9, <1>0, Ended
  <2>2. CASE user.command = Start /\ started' = ok /\ user' = Idle /\ UNCHANGED <<input, gone>>
    BY <2>1, <2>2, <1>0, Names DEF RunInv, Current, CallInv, StreamInv, Awaiting, Starting,
       Stopping, Caller, InputType, Commands, wire, Idle, Caller
  <2>3. CASE user.command = Stop /\ user' = [user EXCEPT !.at = "disconnect"] /\
                 UNCHANGED <<input, started, gone>>
    BY <2>1, <2>3, <1>0, Names DEF RunInv, Current, CallInv, StreamInv, Awaiting, Starting,
       Stopping, Caller, InputType, Commands, wire, Idle, Caller
  <2>4. CASE user.command = Crop /\ user' = Idle /\ UNCHANGED <<started, gone>>
              /\ input' = IF ok THEN [input EXCEPT !.cropping = user.cropping] ELSE input
    BY <2>1, <2>4, <1>0, Names DEF RunInv, Current, CallInv, StreamInv, Awaiting, Starting,
       Stopping, Caller, InputType, Commands, wire, Idle, Caller
  <2>5. CASE user.command = Destroy /\
                 user' = (IF ok THEN [user EXCEPT !.at = "shutdown"] ELSE Idle)
              /\ gone' = ~ok /\ UNCHANGED <<input, started>>
    BY <2>1, <2>5, <1>0, Names DEF RunInv, Current, CallInv, StreamInv, Awaiting, Starting,
       Stopping, Caller, InputType, Commands, wire, Idle, Caller
  <2> QED BY <2>1, <2>2, <2>3, <2>4, <2>5, Finishes
<1>10. CASE Shutdown
  BY <1>10, <1>0, Names DEF Shutdown, wire, control, LastStop, ToCommand, Idle, RunInv, Current,
     CallInv, StreamInv, Awaiting, Starting, Stopping, Caller, InputType, Commands
<1>11. CASE Disconnect
  BY <1>11, <1>0, Names DEF Disconnect, control, Unlink, Stopped, Idle, RunInv, Current,
     CallInv,
     StreamInv, Awaiting, Starting, Stopping, Caller, InputType, Commands
<1>12. CASE StartCall
  <2>1. /\ user.at = "idle" /\ UNCHANGED <<device, answers, sent, failed>>
        /\ \/ user' = user /\ input' = [input EXCEPT !.refs = input.refs + 1]
           \/ user'.at = "connect" /\ input.refs = 0
    BY <1>12 DEF StartCall, NewCall, control, Idle
  <2>2. CASE user' = user /\ input' = [input EXCEPT !.refs = input.refs + 1]
    <3>1. input'.streaming = input.streaming
      BY <1>0, <2>2 DEF InputType
    <3> QED BY <1>0, <2>1, <2>2, <3>1 DEF RunInv, Awaiting
  <2>3. CASE user'.at = "connect" /\ input.refs = 0
    <3>1. ~input.streaming
      BY <1>0, <2>1, <2>3 DEF StreamInv, Stopping, Awaiting
    <3> QED BY <1>0, <2>1, <2>3, <3>1 DEF RunInv, Awaiting
  <2> QED BY <2>1, <2>2, <2>3
<1>13. CASE StopCall
  BY <1>13, <1>0, Names DEF StopCall, NewCall, wire, control, LastStop, ToCommand, RunInv,
     Current, CallInv, StreamInv, Awaiting, Starting, Stopping, Caller, InputType, Commands
<1>14. CASE DestroyCall
  BY <1>14, <1>0, Names DEF DestroyCall, NewCall, wire, control, ToCommand, RunInv, Current,
     CallInv, StreamInv, Awaiting, Starting, Stopping, Caller, InputType, Commands
<1>15. ASSUME NEW c \in {Full, Cropped}, SetCropping(c) PROVE RunInv'
  BY <1>15, <1>0, Names DEF SetCropping, NewCall, wire, control, ToCommand, RunInv, Current,
     CallInv, StreamInv, Awaiting, Starting, Stopping, Caller, InputType, Commands
<1>16. CASE DeviceAnswers
  <2>1. PICK c \in Request, a \in Answer :
            /\ 1 \in DOMAIN requests /\ c = requests[1]
            /\ a.command = c.command /\ a.serial = c.serial
            /\ IF ~a.ok THEN device' = device ELSE
               \/ c.command = Start /\ device' = [device EXCEPT !.on = TRUE]
               \/ c.command = Crop /\ device' = [device EXCEPT !.cropping = c.cropping]
               \/ c.command \in {Stop, Destroy} /\ device' = [device EXCEPT !.on = FALSE,
                      !.left = 0]
            /\ \A i \in DOMAIN answers' : (i \in DOMAIN answers /\
                   answers'[i] = answers[i]) \/ answers'[i] = a
            /\ UNCHANGED <<input, user, sent, failed>>
    BY <1>16, <1>0, Answered DEF app
  <2> SUFFICES ASSUME {Start, Stop, Destroy} \cap failed = {} PROVE RunInv'
    BY <2>1 DEF RunInv
  <2>2. Current(c) \/ c.command = Crop
    BY <1>0, <2>1 DEF PendingInv, Request, Commands
  <2>3. \/ device'.on = device.on /\ (~a.ok \/ c.command = Crop)
        \/ a.ok /\ c.command # Crop /\ Current(c) /\ device'.on = (c.command = Start)
    BY <1>0, <2>1, <2>2, Names DEF Request, Commands
  <2>4. Current(c) => \A i \in DOMAIN answers : ~Current(answers[i])
    BY <1>0, <2>1, Serials DEF SerialInv, Current
  <2>5. /\ \A m : Current(m)' = Current(m)
        /\ UNCHANGED <<input.streaming, user.at, user.command, failed, Awaiting>>
    BY <2>1 DEF Current, Awaiting
  <2>6. CASE device'.on = device.on /\ (~a.ok \/ c.command = Crop)
    <3>1. \A i \in DOMAIN answers' : Current(answers[i])' /\ answers'[i].ok /\
              user.command \in {Start, Stop}
            => i \in DOMAIN answers /\ answers'[i] = answers[i]
      BY <2>1, <2>5, <2>6, Names DEF Current
    <3> QED BY <1>0, <2>5, <2>6, <3>1 DEF RunInv
  <2>7. CASE a.ok /\ c.command # Crop /\ Current(c) /\ device'.on = (c.command = Start)
    <3>1. user.at = "receive" /\ user.command = c.command /\ c.command \in {Start, Stop, Destroy}
      BY <2>1, <2>7 DEF Current, Request, Commands
    <3> QED BY <1>0, <2>5, <2>7, <3>1, Names DEF RunInv, Awaiting
  <2> QED BY <2>3, <2>6, <2>7
<1>17. ASSUME NEW arrives \in BOOLEAN, DeviceSends(arrives) PROVE RunInv'
  BY <1>17, <1>0, Names DEF DeviceSends, control, app, RunInv, Current, CallInv, StreamInv,
     Awaiting, Starting, Stopping, Caller, InputType, Commands
<1>18. CASE UNCHANGED vars
  BY <1>18, <1>0, Names DEF vars, wire, control, app, RunInv, Current, CallInv, StreamInv,
     Awaiting, Starting, Stopping, Caller, InputType, Commands
<1> QED
  BY <1>1, <1>2, <1>3, <1>4, <1>5, <1>6, <1>7, <1>8, <1>9, <1>10, <1>11, <1>12, <1>13,
     <1>14, <1>15, <1>16, <1>17, <1>18
  DEF Next, ReaderStep, CallStep, NewCalls, Device

LEMMA CropInvStep == TypeOK /\ LinkInv /\ CropInv /\ [Next]_vars => CropInv'
<1> SUFFICES ASSUME TypeOK, LinkInv, CropInv, [Next]_vars PROVE CropInv'
  OBVIOUS
<1>0. /\ TypeOK /\ PendingInv /\ LinkInv /\ CallInv /\ SerialInv /\ CropInv
      /\ user \in Caller /\ input \in InputType /\ lock \in {None, "reader", "user"}
      /\ {connected, started, gone} \subseteq BOOLEAN
      /\ device \in [on : BOOLEAN, cropping : {Full, Cropped}, frame : 0..MaxFrames,
                     left : 0..(FullSize - 1), id : 0..(PacketIds - 1)]
  BY DEF LinkInv, TypeOK
<1>1. CASE NextPacket
  BY <1>1, <1>0, Names DEF NextPacket, control, app, CropInv, Current, CallInv, Awaiting,
     Starting, Stopping, Caller, InputType, Commands
<1>2. CASE AcquireFails
  BY <1>2, <1>0, Names DEF AcquireFails, wire, control, app, CropInv, Current, CallInv,
     Awaiting, Starting, Stopping, Caller, InputType, Commands
<1>3. CASE Parse
  BY <1>3, <1>0, Names DEF Parse, wire, control, app, CropInv, Current, CallInv, Awaiting,
     Starting, Stopping, Caller, InputType, Commands
<1>4. CASE RaiseFrame
  BY <1>4, <1>0, Names DEF RaiseFrame, wire, control, app, CropInv, Current, CallInv, Awaiting,
     Starting, Stopping, Caller, InputType, Commands
<1>5. CASE Connect
  BY <1>5, <1>0, Names DEF Connect, wire, control, ToCommand, CropInv, Current, CallInv,
     Awaiting, Starting, Stopping, Caller, InputType, Commands
<1>6. CASE ConnectFails
  BY <1>6, <1>0, Names DEF ConnectFails, wire, control, Idle, CropInv, Current, CallInv,
     Awaiting, Starting, Stopping, Caller, InputType, Commands
<1>7. CASE Send
  <2>1. /\ user.at = "send" /\ user' = [user EXCEPT !.at = "receive"] /\ sent' = sent + 1
        /\ \E id : requests' = Append(requests, [command |-> user.command, serial |-> sent + 1,
               id |-> id,
                                                 cropping |-> user.cropping])
        /\ UNCHANGED <<device, input, answers, failed>>
    BY <1>7 DEF Send
  <2>2. user'.at = "receive" /\ UNCHANGED <<user.command, user.cropping, user.call>> /\
            user.command \in Commands
    BY <1>0, <2>1 DEF Caller, CallInv, Awaiting
  <2>3. \A i \in DOMAIN answers' : ~Current(answers[i])'
    <3> SUFFICES ASSUME NEW i \in DOMAIN answers, answers[i].serial = sent + 1 PROVE FALSE
      BY <2>1 DEF Current
    <3> QED BY <1>0, Serials DEF SerialInv, TypeOK
  <2>4. CASE user.command = Crop
    <3>1. PICK id : requests' = Append(requests, [command |-> user.command, serial |-> sent + 1,
              id |-> id,
                                                  cropping |-> user.cropping])
      BY <2>1
    <3> DEFINE r == [command |-> user.command, serial |-> sent + 1, id |-> id,
        cropping |-> user.cropping]
    <3>2. \A i \in DOMAIN requests' : (i \in DOMAIN requests /\
              requests'[i] = requests[i]) \/ requests'[i] = r
      <4> HIDE DEF r
      <4>1. requests' = Append(requests, r) /\ requests \in Seq(Request \cup {r})
        <5>1. requests \in Seq(Request) /\ requests' = Append(requests, r)
          BY <1>0, <3>1 DEF TypeOK, r
        <5> QED BY <5>1
      <4> QED BY <4>1, AppendIndex
    <3>3. \A i \in DOMAIN requests : ~(requests[i].serial = sent + 1)
      BY <1>0, Serials DEF SerialInv, TypeOK
    <3>4. \A i \in DOMAIN requests' : Current(requests[i])' => requests'[i].cropping = user.cropping
      BY <2>1, <3>2, <3>3 DEF Current
    <3> QED BY <1>0, <2>1, <2>2, <2>3, <2>4, <3>4 DEF CropInv
  <2>5. CASE user.command # Crop
    BY <1>0, <2>1, <2>2, <2>5 DEF CropInv
  <2> QED BY <2>4, <2>5
<1>8. CASE Receive
  <2>1. PICK ok \in BOOLEAN :
          /\ Awaiting /\ user.command \in Commands /\ Finish(ok)
          /\ failed' = IF ok THEN failed ELSE failed \cup {user.command}
          /\ ok => user.command \in failed \/ (Current(answers[1]) /\ answers[1].ok /\
                 1 \in DOMAIN answers)
          /\ UNCHANGED <<device, wire, requests, mgr, reader, connected, lock, sent, delivered>>
    BY <1>8, <1>0, Ended
  <2>2. CASE user.command = Start /\ started' = ok /\ user' = Idle /\ UNCHANGED <<input, gone>>
    BY <2>1, <2>2, <1>0, Names DEF CropInv, Current, CallInv, Awaiting, Starting, Stopping,
       Caller, InputType, Commands, wire, Idle, Caller
  <2>3. CASE user.command = Stop /\ user' = [user EXCEPT !.at = "disconnect"] /\
                 UNCHANGED <<input, started, gone>>
    BY <2>1, <2>3, <1>0, Names DEF CropInv, Current, CallInv, Awaiting, Starting, Stopping,
       Caller, InputType, Commands, wire, Idle, Caller
  <2>4. CASE user.command = Crop /\ user' = Idle /\ UNCHANGED <<started, gone>>
              /\ input' = IF ok THEN [input EXCEPT !.cropping = user.cropping] ELSE input
    BY <2>1, <2>4, <1>0, Names DEF CropInv, Current, CallInv, Awaiting, Starting, Stopping,
       Caller, InputType, Commands, wire, Idle, Caller
  <2>5. CASE user.command = Destroy /\
                 user' = (IF ok THEN [user EXCEPT !.at = "shutdown"] ELSE Idle)
              /\ gone' = ~ok /\ UNCHANGED <<input, started>>
    BY <2>1, <2>5, <1>0, Names DEF CropInv, Current, CallInv, Awaiting, Starting, Stopping,
       Caller, InputType, Commands, wire, Idle, Caller
  <2> QED BY <2>1, <2>2, <2>3, <2>4, <2>5, Finishes
<1>9. CASE CommandFails
  <2>1. PICK ok \in BOOLEAN :
          /\ Awaiting /\ user.command \in Commands /\ Finish(ok)
          /\ failed' = IF ok THEN failed ELSE failed \cup {user.command}
          /\ ok => user.command \in failed \/ (Current(answers[1]) /\ answers[1].ok /\
                 1 \in DOMAIN answers)
          /\ UNCHANGED <<device, wire, requests, mgr, reader, connected, lock, sent, delivered>>
    BY <1>9, <1>0, Ended
  <2>2. CASE user.command = Start /\ started' = ok /\ user' = Idle /\ UNCHANGED <<input, gone>>
    BY <2>1, <2>2, <1>0, Names DEF CropInv, Current, CallInv, Awaiting, Starting, Stopping,
       Caller, InputType, Commands, wire, Idle, Caller
  <2>3. CASE user.command = Stop /\ user' = [user EXCEPT !.at = "disconnect"] /\
                 UNCHANGED <<input, started, gone>>
    BY <2>1, <2>3, <1>0, Names DEF CropInv, Current, CallInv, Awaiting, Starting, Stopping,
       Caller, InputType, Commands, wire, Idle, Caller
  <2>4. CASE user.command = Crop /\ user' = Idle /\ UNCHANGED <<started, gone>>
              /\ input' = IF ok THEN [input EXCEPT !.cropping = user.cropping] ELSE input
    BY <2>1, <2>4, <1>0, Names DEF CropInv, Current, CallInv, Awaiting, Starting, Stopping,
       Caller, InputType, Commands, wire, Idle, Caller
  <2>5. CASE user.command = Destroy /\
                 user' = (IF ok THEN [user EXCEPT !.at = "shutdown"] ELSE Idle)
              /\ gone' = ~ok /\ UNCHANGED <<input, started>>
    BY <2>1, <2>5, <1>0, Names DEF CropInv, Current, CallInv, Awaiting, Starting, Stopping,
       Caller, InputType, Commands, wire, Idle, Caller
  <2> QED BY <2>1, <2>2, <2>3, <2>4, <2>5, Finishes
<1>10. CASE Shutdown
  BY <1>10, <1>0, Names DEF Shutdown, wire, control, LastStop, ToCommand, Idle, CropInv,
     Current,
     CallInv, Awaiting, Starting, Stopping, Caller, InputType, Commands
<1>11. CASE Disconnect
  BY <1>11, <1>0, Names DEF Disconnect, control, Unlink, Stopped, Idle, CropInv, Current,
     CallInv, Awaiting, Starting, Stopping, Caller, InputType, Commands
<1>12. CASE StartCall
  <2>1. /\ user.at = "idle" /\ user'.at # "receive" /\ UNCHANGED <<device, failed>>
    BY <1>12 DEF StartCall, NewCall, Idle
  <2>2. input'.cropping = input.cropping
    BY <1>12, <1>0 DEF StartCall, InputType
  <2> QED BY <1>0, <2>1, <2>2 DEF CropInv
<1>13. CASE StopCall
  BY <1>13, <1>0, Names DEF StopCall, NewCall, wire, control, LastStop, ToCommand, CropInv,
     Current, CallInv, Awaiting, Starting, Stopping, Caller, InputType, Commands
<1>14. CASE DestroyCall
  BY <1>14, <1>0, Names DEF DestroyCall, NewCall, wire, control, ToCommand, CropInv, Current,
     CallInv, Awaiting, Starting, Stopping, Caller, InputType, Commands
<1>15. ASSUME NEW c \in {Full, Cropped}, SetCropping(c) PROVE CropInv'
  BY <1>15, <1>0, Names DEF SetCropping, NewCall, wire, control, ToCommand, CropInv, Current,
     CallInv, Awaiting, Starting, Stopping, Caller, InputType, Commands
<1>16. CASE DeviceAnswers
  <2>1. PICK c \in Request, a \in Answer :
            /\ 1 \in DOMAIN requests /\ c = requests[1]
            /\ a.command = c.command /\ a.serial = c.serial
            /\ IF ~a.ok THEN device' = device ELSE
               \/ c.command = Start /\ device' = [device EXCEPT !.on = TRUE]
               \/ c.command = Crop /\ device' = [device EXCEPT !.cropping = c.cropping]
               \/ c.command \in {Stop, Destroy} /\ device' = [device EXCEPT !.on = FALSE,
                      !.left = 0]
            /\ \A i \in DOMAIN requests' : i + 1 \in DOMAIN requests /\
                   requests'[i] = requests[i + 1]
            /\ \A i \in DOMAIN answers' : (i \in DOMAIN answers /\
                   answers'[i] = answers[i]) \/ answers'[i] = a
            /\ UNCHANGED <<input, user, sent, failed>>
    BY <1>16, <1>0, Answered DEF app
  <2> SUFFICES ASSUME Crop \notin failed PROVE CropInv'
    BY <2>1 DEF CropInv
  <2>2. \A m : Current(m)' = Current(m)
    BY <2>1 DEF Current
  <2>3. CASE c.command = Crop
    <3>1. Current(c)
      BY <1>0, <2>1, <2>3 DEF PendingInv
    <3>2. user.at = "receive" /\ user.command = Crop
      BY <2>3, <3>1 DEF Current
    <3>3. c.cropping = user.cropping
      BY <1>0, <2>1, <3>1, <3>2 DEF CropInv
    <3>4. \A i \in DOMAIN answers : ~Current(answers[i])
      BY <1>0, <2>1, <3>1, Serials DEF SerialInv, Current
    <3>5. a.ok => device'.cropping = user.cropping
      BY <1>0, <2>1, <2>3, <3>3, Names
    <3>6. \A i \in DOMAIN answers' : Current(answers[i])' /\ answers'[i].ok => answers'[i] = a
      BY <2>1, <2>2, <3>4
    <3>7. \A i \in DOMAIN requests' : Current(requests[i])' => requests'[i].cropping = user.cropping
      BY <1>0, <2>1, <2>2, <3>2 DEF CropInv
    <3>8. \A i \in DOMAIN answers' : Current(answers[i])' /\
              answers'[i].ok => device'.cropping = user.cropping
      BY <3>5, <3>6
    <3> QED BY <2>1, <3>2, <3>7, <3>8 DEF CropInv
  <2>4. CASE c.command # Crop
    <3>1. device'.cropping = device.cropping
      BY <1>0, <2>1, <2>4
    <3>2. \A i \in DOMAIN answers' : Current(answers[i])' /\ user.command = Crop
            => i \in DOMAIN answers /\ answers'[i] = answers[i]
      BY <2>1, <2>2, <2>4 DEF Current
    <3>3. \A i \in DOMAIN requests' : i + 1 \in DOMAIN requests /\ requests'[i] = requests[i + 1]
      BY <2>1
    <3> QED BY <1>0, <2>1, <2>2, <3>1, <3>2, <3>3 DEF CropInv
  <2> QED BY <2>3, <2>4
<1>17. ASSUME NEW arrives \in BOOLEAN, DeviceSends(arrives) PROVE CropInv'
  BY <1>17, <1>0, Names DEF DeviceSends, control, app, CropInv, Current, CallInv, Awaiting,
     Starting, Stopping, Caller, InputType, Commands
<1>18. CASE UNCHANGED vars
  BY <1>18, <1>0, Names DEF vars, wire, control, app, CropInv, Current, CallInv, Awaiting,
     Starting, Stopping, Caller, InputType, Commands
<1> QED
  BY <1>1, <1>2, <1>3, <1>4, <1>5, <1>6, <1>7, <1>8, <1>9, <1>10, <1>11, <1>12, <1>13,
     <1>14, <1>15, <1>16, <1>17, <1>18
  DEF Next, ReaderStep, CallStep, NewCalls, Device

LEMMA InitLink == Init => LinkInv /\ AgreeInv
<1> SUFFICES ASSUME Init PROVE LinkInv /\ AgreeInv
  OBVIOUS
<1>1. CallInv
  BY Names DEF Init, CallInv, Awaiting, Starting, Stopping
<1>2. StreamInv
  BY Names DEF Init, StreamInv, Awaiting, Starting, Stopping
<1>3. ReaderInv /\ LostInv
  BY Names DEF Init, ReaderInv, LostInv
<1>4. PendingInv /\ SerialInv
  BY DEF Init, PendingInv, SerialInv
<1>5. RunInv /\ CropInv
  BY DEF Init, RunInv, CropInv
<1> QED BY <1>1, <1>2, <1>3, <1>4, <1>5 DEF LinkInv, AgreeInv

LEMMA LinkStep == TypeOK /\ LinkInv /\ AgreeInv /\ [Next]_vars => (TypeOK /\ LinkInv /\ AgreeInv)'
<1> SUFFICES ASSUME TypeOK, LinkInv, AgreeInv, [Next]_vars PROVE (TypeOK /\ LinkInv /\ AgreeInv)'
  OBVIOUS
<1>1. TypeOK'
  BY TypeStep DEF LinkInv
<1>2. CallInv' /\ StreamInv' /\ ReaderInv' /\ LostInv' /\ SerialInv' /\ PendingInv'
  BY CallInvStep, StreamInvStep, ReaderInvStep, LostInvStep, SerialInvStep, PendingInvStep
<1>3. RunInv' /\ CropInv'
  BY RunInvStep, CropInvStep DEF AgreeInv
<1> QED BY <1>1, <1>2, <1>3 DEF LinkInv, AgreeInv

-----------------------------------------------------------------------------
(* The frames. *)

LEMMA InitFeedInv == Init => FeedInv
<1> SUFFICES ASSUME Init PROVE FeedInv
  OBVIOUS
<1>1. /\ link = <<>> /\ delivered = <<>> /\ reader.at = "wait" /\ input.data = <<>> /\ ~input.frame
  BY DEF Init
<1>2. DOMAIN link = {} /\ DOMAIN delivered = {} /\ DOMAIN input.data = {}
  BY <1>1
<1>3. Handed = {} /\ Written = {} /\ Handling = {}
  BY <1>1, <1>2 DEF Handed, Written, Handling
<1>4. OrderInv
  BY <1>1, <1>2, <1>3 DEF OrderInv
<1>5. ChainInv
  BY <1>1, <1>2 DEF ChainInv
<1>6. FrameInv
  BY <1>1 DEF FrameInv
<1> QED BY <1>4, <1>5, <1>6 DEF FeedInv

LEMMA Frames ==
    TypeOK =>
        /\ \A f \in Handed \cup Written \cup Handling : f \in Nat
        /\ \A i \in DOMAIN link : i \in Nat /\ link[i] \in PacketType
        /\ \A p \in PacketType : /\ p.frame \in Nat /\ p.frame > 0 /\ p.begin \in BOOLEAN
                                 /\ p.units \in Nat /\ p.units > 0 /\ p.left \in Nat
                                 /\ p.id \in 0..(PacketIds - 1)
        /\ reader.at # "wait" => reader.packet \in PacketType
        /\ device.frame \in Nat
<1> SUFFICES ASSUME TypeOK
             PROVE  /\ \A f \in Handed \cup Written \cup Handling : f \in Nat
                    /\ \A i \in DOMAIN link : i \in Nat /\ link[i] \in PacketType
                    /\ \A p \in PacketType : /\ p.frame \in Nat /\ p.frame > 0 /\ p.begin \in BOOLEAN
                                             /\ p.units \in Nat /\ p.units > 0 /\ p.left \in Nat
                                             /\ p.id \in 0..(PacketIds - 1)
                    /\ reader.at # "wait" => reader.packet \in PacketType
                    /\ device.frame \in Nat
  OBVIOUS
<1>1. /\ link \in Seq(PacketType) /\ delivered \in Seq(0..MaxFrames) /\ input.data \in Seq(Unit)
      /\ reader.at # "wait" => reader.packet \in PacketType
      /\ device.frame \in 0..MaxFrames
  BY DEF TypeOK, InputType
<1>2. \A p \in PacketType : /\ p.frame \in Nat /\ p.frame > 0 /\ p.begin \in BOOLEAN
                            /\ p.units \in Nat /\ p.units > 0 /\ p.left \in Nat
                            /\ p.id \in 0..(PacketIds - 1)
  BY Constants DEF PacketType
<1>3. \A i \in DOMAIN link : i \in Nat /\ link[i] \in PacketType
  BY <1>1, Elements
<1>4. \A f \in Handed : f \in Nat
  <2>0. delivered \in Seq(0..MaxFrames)
    BY <1>1
  <2>1. \A i \in DOMAIN delivered : delivered[i] \in 0..MaxFrames
    BY <2>0, Elements
  <2> QED BY <2>1, Constants DEF Handed
<1>5. \A f \in Written : f \in Nat
  <2>1. \A i \in DOMAIN input.data : input.data[i] \in Unit
    BY <1>1
  <2> QED BY <2>1, Constants DEF Written, Unit
<1>6. \A f \in Handling : f \in Nat
  BY <1>1, <1>2 DEF Handling
<1> QED BY <1>1, <1>2, <1>3, <1>4, <1>5, <1>6, Constants

LEMMA OrderKept ==
    ASSUME TypeOK, OrderInv, device'.frame = device.frame, link' = link \/ link' = <<>>,
           (Handed \cup Written \cup Handling)' \subseteq Handed \cup Written \cup Handling \cup {0},
           reader'.at = "handle" =>
                reader' = reader /\ (Handed \cup Written)' \subseteq Handed \cup Written
    PROVE  OrderInv'
<1>1. \A i \in DOMAIN link' : link' = link /\ i \in DOMAIN link /\ link'[i] = link[i]
  <2>1. link' = <<>> => DOMAIN link' = {}
    OBVIOUS
  <2> QED BY <2>1
<1>2. \A i \in DOMAIN link : After(0, link[i])
  BY Frames DEF After
<1>3. device.frame \in Nat
  BY Frames
<1> DEFINE Past == Handed \cup Written \cup Handling
<1>4. ASSUME NEW f \in Past' PROVE f <= device'.frame /\ \A i \in DOMAIN link' : After(f, link'[i])
  BY <1>1, <1>2, <1>3, <1>4 DEF OrderInv
<1>5. reader'.at = "handle" => \A f \in (Handed \cup Written)' : After(f, reader'.packet)
  BY DEF OrderInv
<1>6. /\ \A i, j \in DOMAIN link' : i < j => After(link'[i].frame, link'[j])
      /\ \A i \in DOMAIN link' : link'[i].frame <= device'.frame
  BY <1>1 DEF OrderInv
<1> QED BY <1>4, <1>5, <1>6 DEF OrderInv, After

\* Nothing that concerns the frames but a packet of the device that will not come.
LEMMA FeedSame ==
    ASSUME TypeOK, FeedInv,
           device'.frame = device.frame, device'.id = device.id, device'.left \in {device.left, 0},
           UNCHANGED <<link, lost, mgr, reader, delivered, input.data, input.corrupt>>,
           input'.frame => input.frame
    PROVE  FeedInv'
<1>1. OrderInv /\ ChainInv /\ FrameInv
  BY DEF FeedInv
<1>2. Handed' = Handed /\ Written' = Written /\ Handling' = Handling
  BY DEF Handed, Written, Handling
<1>3. OrderInv'
  <2>1. reader' = reader /\ link' = link
    OBVIOUS
  <2> QED BY <1>1, <1>2, <2>1, OrderKept
<1>4. \A n, u : Ahead(n, u) => Ahead(n, u)'
  BY DEF Ahead, Continues, DeviceContinues
<1>5. ChainInv'
  BY <1>1, <1>4 DEF ChainInv, Ahead, Continues, DeviceContinues
<1>6. FrameInv'
  <2> SUFFICES ASSUME input'.frame PROVE FrameInv'
    BY DEF FrameInv
  <2>1. Ahead(mgr.next, Last) => Ahead(mgr.next, Last)'
    BY <1>4 DEF Last, Ahead, Continues, DeviceContinues
  <2> QED BY <1>1, <1>2, <2>1 DEF FrameInv, Run, Last
<1> QED BY <1>3, <1>5, <1>6 DEF FeedInv

\* The device's next packet follows what it sent before, or is lost.
LEMMA DeviceMoves ==
    ASSUME TypeOK, ReaderInv, NEW arrives \in BOOLEAN, DeviceSends(arrives), connected,
           NEW p \in PacketType, p.id = device.id, p.begin = (device.left = 0),
           p.frame = IF p.begin THEN device.frame + 1 ELSE device.frame,
           p.begin \/ p.left + p.units = device.left,
           device' = [device EXCEPT !.frame = p.frame, !.left = p.left, !.id = NextId(device.id)],
           IF arrives
           THEN connected /\ Len(link) < MaxLink /\ link' = Append(link, p) /\ lost' = 0
           ELSE (connected => lost < MaxLoss) /\ lost' = lost + 1 /\ link' = link
    PROVE  /\ arrives => DeviceContinues(NextId(p.id), p)'
           /\ \A n \in 0..(PacketIds - 1) : \A u : DeviceContinues(n, u) =>
                IF arrives THEN Continues(n, u, p) ELSE DeviceContinues(n, u)'
<1>1. /\ device.id \in 0..(PacketIds - 1) /\ lost \in 0..MaxLoss /\ lost \in 0..(PacketIds - 1)
      /\ lost' \in 0..MaxLoss
  <2>1. device.id \in 0..(PacketIds - 1) /\ lost \in 0..MaxLoss
    BY DEF TypeOK
  <2>2. lost' = 0 \/ (lost' = lost + 1 /\ lost < MaxLoss)
    OBVIOUS
  <2> QED BY <2>1, <2>2, Constants
<1>2. /\ device'.frame = p.frame /\ device'.left = p.left /\ device'.id = NextId(device.id)
  BY DEF TypeOK
<1>3. ASSUME arrives
      PROVE  device'.id = (NextId(p.id) + lost') % PacketIds
  <2>1. NextId(p.id) \in 0..(PacketIds - 1) /\ 0 \in 0..(PacketIds - 1)
    BY <1>1, NextIdIs, Constants
  <2>2. (NextId(p.id) + 0) % PacketIds = NextId(p.id)
    BY <2>1, Losses
  <2> QED BY <1>2, <1>3, <2>2
<1>4. arrives => DeviceContinues(NextId(p.id), p)'
  BY <1>2, <1>3 DEF DeviceContinues
<1>5. ASSUME NEW n \in 0..(PacketIds - 1), NEW u, DeviceContinues(n, u)
      PROVE  IF arrives THEN Continues(n, u, p) ELSE DeviceContinues(n, u)'
  <2>1. device.id = (n + lost) % PacketIds
    BY <1>5 DEF DeviceContinues
  <2>2. CASE arrives
    <3> SUFFICES ASSUME ~p.begin, p.id = n PROVE p.frame = u.frame /\ p.left + p.units = u.left
      BY <2>2 DEF Continues
    <3>1. lost = 0
      BY ZenonT(40), <1>1, <2>1, Losses
    <3>2. device.left # 0 /\ device.left = u.left /\ device.frame = u.frame
      BY <1>5, <3>1 DEF DeviceContinues
    <3> QED BY <3>2
  <2>3. CASE ~arrives
    <3>1. lost' = lost + 1 /\ lost + 1 < PacketIds /\ lost' # 0
      BY <1>1, <2>3, Constants
    <3>2. NextId((n + lost) % PacketIds) = (n + (lost + 1)) % PacketIds
      BY <1>1, <3>1, Losses
    <3>3. device'.id = (n + lost') % PacketIds
      BY <1>2, <2>1, <3>1, <3>2
    <3> QED BY <2>3, <3>1, <3>3 DEF DeviceContinues
  <2> QED BY <2>2, <2>3
<1> QED BY <1>4, <1>5

LEMMA DeviceSendsFeed ==
    ASSUME TypeOK, LinkInv, FeedInv, NEW arrives \in BOOLEAN, DeviceSends(arrives)
    PROVE  FeedInv'
<1>0. /\ CallInv /\ StreamInv /\ ReaderInv /\ OrderInv /\ ChainInv /\ FrameInv
  BY DEF LinkInv, FeedInv
<1>1. PICK p \in PacketType :
        /\ p.id = device.id /\ p.begin = (device.left = 0)
        /\ p.frame = IF p.begin THEN device.frame + 1 ELSE device.frame
        /\ p.begin \/ p.left + p.units = device.left
        /\ device' = [device EXCEPT !.frame = p.frame, !.left = p.left, !.id = NextId(device.id)]
        /\ IF arrives
           THEN connected /\ Len(link) < MaxLink /\ link' = Append(link, p) /\ lost' = 0
           ELSE /\ connected => lost < MaxLoss
                /\ lost' = IF connected THEN lost + 1 ELSE lost
                /\ link' = link
        /\ link' \in Seq(PacketType)
  BY <1>0, SentPacket
<1>2. UNCHANGED <<mgr, input, reader, connected, delivered>>
  BY DEF DeviceSends, control, app
<1>3. /\ device'.frame = p.frame /\ p.frame \in Nat /\ device.frame \in Nat /\ p.begin \in BOOLEAN
      /\ device.frame <= p.frame /\ (p.begin => device.frame < p.frame)
  <2>1. /\ p.frame \in Nat /\ device.frame \in Nat /\ p.begin \in BOOLEAN
        /\ p.frame = IF p.begin THEN device.frame + 1 ELSE device.frame
    BY <1>1, Frames
  <2>2. device'.frame = p.frame
    BY <1>1 DEF TypeOK
  <2> QED BY <2>1, <2>2
<1>4. link \in Seq(PacketType)
  BY DEF TypeOK
<1>5. \A i \in DOMAIN link' :
        /\ i \in Nat
        /\ \/ i \in DOMAIN link /\ i <= Len(link) /\ link'[i] = link[i]
           \/ i = Len(link) + 1 /\ link'[i] = p /\ link' = Append(link, p)
  BY <1>1, <1>4, AppendIndex
<1>6. Handed' = Handed /\ Written' = Written /\ Handling' = Handling
  BY <1>2 DEF Handed, Written, Handling
<1>7. OrderInv'
  <2>1. ASSUME NEW f \in Handed \cup Written \cup Handling
        PROVE  f <= device'.frame /\ \A i \in DOMAIN link' : After(f, link'[i])
    <3>1. f \in Nat /\ f <= device.frame /\ \A i \in DOMAIN link : After(f, link[i])
      BY <1>0, Frames DEF OrderInv
    <3>2. f <= device'.frame /\ After(f, p)
      BY <1>3, <3>1 DEF After
    <3> QED BY <1>5, <3>1, <3>2
  <2>2. ASSUME NEW i \in DOMAIN link', NEW j \in DOMAIN link', i < j
        PROVE  After(link'[i].frame, link'[j])
    <3>1. i \in DOMAIN link /\ link'[i] = link[i]
      <4>1. j \in DOMAIN link' /\ Len(link) \in Nat
        BY <1>4
      <4> QED BY <1>5, <2>2, <4>1
    <3>2. link[i].frame <= device.frame /\ link[i].frame \in Nat
      BY <1>0, <3>1, Frames DEF OrderInv
    <3>3. After(link[i].frame, p)
      BY <1>3, <3>2 DEF After
    <3> QED BY <1>0, <1>5, <2>2, <3>1, <3>3 DEF OrderInv
  <2>3. ASSUME NEW i \in DOMAIN link' PROVE link'[i].frame <= device'.frame
    <3>1. i \in DOMAIN link => link[i].frame <= device.frame /\ link[i].frame \in Nat
      BY <1>0, Frames DEF OrderInv
    <3> QED BY <1>3, <1>5, <3>1
  <2> QED BY <1>0, <1>2, <1>6, <2>1, <2>2, <2>3 DEF OrderInv, After
<1>8. CASE ~connected
  <2>1. link' = <<>> /\ reader'.at = "wait" /\ ~input'.frame
    BY <1>0, <1>1, <1>2, <1>8 DEF ReaderInv, StreamInv
  <2>2. DOMAIN link' = {}
    BY <2>1
  <2>3. ChainInv'
    BY <2>1, <2>2 DEF ChainInv
  <2>4. FrameInv'
    BY <2>1 DEF FrameInv
  <2> QED BY <1>7, <2>3, <2>4 DEF FeedInv
<1>9. CASE connected
  <2>1. /\ arrives => DeviceContinues(NextId(p.id), p)'
        /\ \A n \in 0..(PacketIds - 1) : \A u : DeviceContinues(n, u) =>
            IF arrives THEN Continues(n, u, p) ELSE DeviceContinues(n, u)'
    <3>1. IF arrives
          THEN connected /\ Len(link) < MaxLink /\ link' = Append(link, p) /\ lost' = 0
          ELSE (connected => lost < MaxLoss) /\ lost' = lost + 1 /\ link' = link
      BY <1>1, <1>9
    <3> QED BY <1>0, <1>1, <1>9, <3>1, DeviceMoves
  <2>2. /\ arrives => link' = Append(link, p)
        /\ ~arrives => link' = link
    BY <1>1
  <2>3. \A n \in 0..(PacketIds - 1) : \A u : Ahead(n, u) => Ahead(n, u)'
    <3> SUFFICES ASSUME NEW n \in 0..(PacketIds - 1), NEW u, Ahead(n, u) PROVE Ahead(n, u)'
      OBVIOUS
    <3>1. CASE link = <<>>
      <4>1. arrives => link' # <<>> /\ link'[1] = p
        BY <1>4, <2>2, <3>1
      <4>2. DeviceContinues(n, u)
        BY <3>1 DEF Ahead
      <4> QED BY <2>1, <2>2, <3>1, <4>1, <4>2 DEF Ahead, Continues
    <3>2. CASE link # <<>>
      <4>1. link' # <<>> /\ link'[1] = link[1]
        BY <1>4, <2>2, <3>2
      <4> QED BY <3>2, <4>1 DEF Ahead, Continues
    <3> QED BY <3>1, <3>2
  <2>4. mgr.next \in 0..(PacketIds - 1) /\
            \A i \in DOMAIN link : NextId(link[i].id) \in 0..(PacketIds - 1)
    BY Frames, NextIdIs DEF TypeOK
  <2>5. \A i \in DOMAIN link' :
            i + 1 \in DOMAIN link' => Continues(NextId(link'[i].id), link'[i], link'[i + 1])
    <3> SUFFICES ASSUME NEW i \in DOMAIN link', i + 1 \in DOMAIN link'
                 PROVE  Continues(NextId(link'[i].id), link'[i], link'[i + 1])
      OBVIOUS
    <3>1. i \in DOMAIN link /\ link'[i] = link[i] /\ i \in Nat
      <4>1. Len(link) \in Nat
        BY <1>4
      <4> QED BY <1>5, <4>1
    <3>2. CASE i + 1 \in DOMAIN link /\ link'[i + 1] = link[i + 1]
      BY <1>0, <3>1, <3>2 DEF ChainInv
    <3>3. CASE i + 1 = Len(link) + 1 /\ link'[i + 1] = p /\ link' = Append(link, p)
      <4>1. i = Len(link) /\ link # <<>>
        BY <1>4, <3>1, <3>3
      <4>2. DeviceContinues(NextId(link[i].id), link[i])
        BY <1>0, <4>1 DEF ChainInv
      <4>3. arrives
        <5>1. Len(link') = Len(link) + 1
          BY <1>4, <3>3
        <5> QED BY <1>4, <2>2, <5>1
      <4> QED BY <2>1, <2>4, <3>1, <3>3, <4>2, <4>3
    <3> QED BY <1>5, <3>2, <3>3
  <2>6. link' # <<>> => DeviceContinues(NextId(link[Len(link)].id), link[Len(link)])'
    <3>1. CASE arrives
      <4>1. link'[Len(link')] = p
        BY <1>4, <2>2, <3>1
      <4> QED BY <2>1, <3>1, <4>1 DEF DeviceContinues, NextId
    <3>2. CASE ~arrives
      <4> SUFFICES ASSUME link # <<>>
                   PROVE  DeviceContinues(NextId(link[Len(link)].id), link[Len(link)])'
        BY <2>2, <3>2
      <4> DEFINE u == link[Len(link)]
                 n == NextId(u.id)
      <4>1. Len(link) \in DOMAIN link
        BY <1>4
      <4>2. DeviceContinues(n, u) /\ n \in 0..(PacketIds - 1)
        BY <1>0, <2>4, <4>1 DEF ChainInv
      <4>3. UNCHANGED link
        BY <2>2, <3>2
      <4> QED BY <2>1, <3>2, <4>2, <4>3 DEF DeviceContinues, NextId
    <3> QED BY <3>1, <3>2
  <2>7. reader'.at # "wait" => Ahead(mgr.next, reader.packet)'
    BY <1>0, <1>2, <2>3, <2>4 DEF ChainInv, Ahead, Continues, DeviceContinues
  <2>8. ChainInv'
    BY <2>5, <2>6, <2>7 DEF ChainInv, Continues
  <2>9. FrameInv'
    <3>1. Ahead(mgr.next, Last) => Ahead(mgr.next, Last)'
      BY <1>2, <2>3, <2>4 DEF Last, Ahead, Continues, DeviceContinues
    <3> QED BY <1>0, <1>2, <1>6, <3>1 DEF FrameInv, Run, Last
  <2> QED BY <1>7, <2>8, <2>9 DEF FeedInv
<1> QED BY <1>8, <1>9

\* A packet is taken off the link.
LEMMA NextPacketFeed == ASSUME TypeOK, LinkInv, FeedInv, NextPacket PROVE FeedInv'
<1> DEFINE p == Head(link)
<1>0. CallInv /\ StreamInv /\ ReaderInv /\ OrderInv /\ ChainInv /\ FrameInv
  BY DEF LinkInv, FeedInv
<1>1. /\ reader.at = "wait" /\ connected /\ link # <<>> /\ link' = Tail(link)
      /\ reader' = [at |-> "handle", packet |-> p]
      /\ mgr' = [next |-> NextId(p.id), prevEnds |-> p.left = 0, loss |-> mgr.loss \/ Lossy(p)]
      /\ UNCHANGED <<device, lost, input, delivered>>
  BY <1>0 DEF NextPacket, StreamInv
<1>2. link \in Seq(PacketType)
  BY DEF TypeOK
<1>3. /\ 1 \in DOMAIN link /\ p = link[1] /\ p \in PacketType
      /\ \A i \in DOMAIN link' : i \in Nat /\ i + 1 \in DOMAIN link /\ 1 < i + 1 /\
             link'[i] = link[i + 1]
  BY <1>1, <1>2, TailIndex, Frames
<1> HIDE DEF p
<1>4. /\ reader'.at = "handle" /\ reader'.packet = p /\ mgr'.next = NextId(p.id)
      /\ mgr'.loss = (mgr.loss \/ Lossy(p))
      /\ Handed' = Handed /\ Written' = Written /\ Handling' = {p.frame} /\ Handling = {}
  BY <1>1 DEF Handed, Written, Handling
<1>5. OrderInv'
  <2>1. ASSUME NEW f \in Handed \cup Written \cup {p.frame}
        PROVE  f <= device.frame /\ \A i \in DOMAIN link' : After(f, link'[i])
    <3>1. CASE f = p.frame
      <4>1. \A i \in DOMAIN link : 1 < i => After(p.frame, link[i])
        BY <1>0, <1>3 DEF OrderInv
      <4> QED BY <1>0, <1>3, <3>1, <4>1 DEF OrderInv
    <3>2. CASE f \in Handed \cup Written
      BY <1>0, <1>3, <3>2 DEF OrderInv
    <3> QED BY <3>1, <3>2
  <2>2. \A f \in Handed \cup Written : After(f, p)
    BY <1>0, <1>3 DEF OrderInv
  <2>3. \A i, j \in DOMAIN link' : i < j => After(link'[i].frame, link'[j])
    BY <1>0, <1>3 DEF OrderInv
  <2>4. \A i \in DOMAIN link' : link'[i].frame <= device.frame
    BY <1>0, <1>3 DEF OrderInv
  <2> QED BY <1>1, <1>4, <2>1, <2>2, <2>3, <2>4 DEF OrderInv, After
<1>6. ChainInv'
  <2>1. \A i \in DOMAIN link' :
            i + 1 \in DOMAIN link' => Continues(NextId(link'[i].id), link'[i], link'[i + 1])
    BY <1>0, <1>3 DEF ChainInv
  <2>2. link' # <<>> => link'[Len(link')] = link[Len(link)]
    BY <1>1, <1>2
  <2>3. link' # <<>> => DeviceContinues(NextId(link[Len(link)].id), link[Len(link)])
    BY <1>0, <1>1 DEF ChainInv
  <2>4. IF link' # <<>> THEN Continues(NextId(p.id), p,
            link'[1]) ELSE DeviceContinues(NextId(p.id), p)
    <3>1. CASE link' # <<>>
      <4>1. 1 \in DOMAIN link'
        BY <1>1, <1>2, <3>1
      <4>2. 1 + 1 \in DOMAIN link /\ link'[1] = link[1 + 1]
        BY <1>3, <4>1
      <4>3. Continues(NextId(link[1].id), link[1], link[1 + 1])
        BY <1>0, <1>3, <4>2 DEF ChainInv
      <4> QED BY <1>3, <3>1, <4>2, <4>3
    <3>2. CASE link' = <<>>
      <4>1. Len(link) = 1
        <5>1. Len(Tail(link)) = Len(link) - 1 /\ Len(link) \in Nat
          BY <1>1, <1>2
        <5>2. Len(<<>>) = 0
          OBVIOUS
        <5>3. Len(Tail(link)) = 0
          BY <1>1, <3>2, <5>2
        <5> QED BY <5>1, <5>3
      <4> QED BY <1>0, <1>1, <1>3, <3>2, <4>1 DEF ChainInv
    <3> QED BY <3>1, <3>2
  <2>5. \A n, u : DeviceContinues(n, u)' <=> DeviceContinues(n, u)
    BY <1>1 DEF DeviceContinues
  <2>6. link' # <<>> => DeviceContinues(NextId(link[Len(link)].id), link[Len(link)])'
    BY <1>1, <2>2, <2>3 DEF DeviceContinues, NextId
  <2>7. Ahead(mgr.next, reader.packet)'
    BY <1>1, <1>4, <2>4 DEF Ahead, Continues, DeviceContinues
  <2> QED BY <2>1, <2>6, <2>7 DEF ChainInv, Continues, NextId
<1>7. FrameInv'
  <2> SUFFICES ASSUME input'.frame PROVE FrameInv'
    BY DEF FrameInv
  <2>1. input.frame /\ input' = input
    BY <1>1
  <2>2. ASSUME ~input.corrupt, ~mgr'.loss
        PROVE  Run(input.data) /\ (p.begin \/ (p.frame = Last.frame /\
            p.left + p.units = Last.left))
    <3>1. ~mgr.loss /\ p.id = mgr.next
      BY <1>4, <2>2 DEF Lossy
    <3>2. Run(input.data) /\ Ahead(mgr.next, Last)
      BY <1>0, <1>1, <2>1, <2>2, <3>1 DEF FrameInv
    <3> QED BY <1>1, <1>3, <3>1, <3>2 DEF Ahead, Continues
  <2> QED BY <1>0, <1>4, <2>1, <2>2 DEF FrameInv, Run, Last
<1> QED BY <1>5, <1>6, <1>7 DEF FeedInv

\* A packet that is the first of a frame, or the next of the frame that is written, makes
\* the frame one run of its units, up to those that are left after the packet.
LEMMA RunGrows ==
    ASSUME NEW p \in PacketType, NEW old \in Seq(Unit),
           old = <<>> \/ (/\ Run(old) /\ p.frame = old[Len(old)].frame
                          /\ p.left + p.units = old[Len(old)].left)
    PROVE  LET d == old \o Units(p) IN
           /\ d # <<>> /\ Run(d) /\ d[Len(d)].frame = p.frame /\ d[Len(d)].left = p.left
           /\ \A i \in DOMAIN d : d[i].frame = p.frame
<1> DEFINE d == old \o Units(p)
           n == Len(old)
<1>1. p.frame \in Nat /\ p.left \in Nat /\ p.units \in Nat /\ p.units > 0
  BY Constants DEF PacketType
<1>u. \A i \in 1..p.units : Units(p)[i] = [frame |-> p.frame, left |-> p.left + p.units - i]
  BY DEF Units
<1>s. Units(p) \in Seq(Unit) /\ Len(Units(p)) = p.units
  BY UnitsType
<1>2. n \in Nat /\ Len(d) = n + p.units /\ DOMAIN d = 1..(n + p.units) /\ d \in Seq(Unit)
  BY <1>s
<1>3. \A i \in 1..n : d[i] = old[i]
  BY <1>s
<1>4. \A i \in 1..p.units : d[n + i] = Units(p)[i]
  BY <1>s
<1>5. \A i \in DOMAIN d : i \in Nat /\ (i \in 1..n \/ (i - n \in 1..p.units /\ n + (i - n) = i))
  BY <1>1, <1>2
<1> HIDE DEF d
<1>6. PICK m \in Nat : \A i \in DOMAIN d : d[i] = [frame |-> p.frame, left |-> m + 1 - i]
                       /\ m + 1 - (n + p.units) = p.left
  <2>1. CASE old = <<>>
    <3>1. n = 0
      BY <2>1
    <3>2. p.left + p.units - 1 \in Nat
      BY <1>1
    <3>3. \A i \in DOMAIN d : d[i] = [frame |-> p.frame, left |-> (p.left + p.units - 1) + 1 - i]
                              /\ (p.left + p.units - 1) + 1 - (n + p.units) = p.left
      <4> HIDE DEF n
      <4> SUFFICES ASSUME NEW i \in DOMAIN d
                   PROVE  d[i] = [frame |-> p.frame, left |-> (p.left + p.units - 1) + 1 - i]
        BY <1>1, <3>1
      <4>1. i \in 1..p.units /\ i \in Nat
        BY <1>2, <3>1, <1>1
      <4>2. d[i] = Units(p)[i]
        BY <1>4, <3>1, <4>1
      <4>3. \A l, u, k \in Int : (l + u - 1) + 1 - k = l + u - k
        OBVIOUS
      <4>4. (p.left + p.units - 1) + 1 - i = p.left + p.units - i
        BY <1>1, <4>1, <4>3
      <4> QED BY <1>u, <4>1, <4>2, <4>4
    <3> QED BY <3>2, <3>3
  <2>2. CASE old # <<>>
    <3>1. n \in DOMAIN old /\ 1 \in DOMAIN old /\ n > 0 /\ DOMAIN old = 1..n /\ old[1] \in Unit
      BY <2>2
    <3>2. \A i \in 1..n : old[i] = [frame |-> old[1].frame, left |-> old[1].left + 1 - i]
      BY <2>2, <3>1 DEF Run
    <3>3. old[1].left \in Nat
      BY <3>1, Constants DEF Unit
    <3>4. /\ old[1].frame = p.frame /\ old[1].left + 1 - n = p.left + p.units
      BY <2>2, <3>1, <3>2
    <3> HIDE DEF n
    <3>5. \A i \in DOMAIN d : d[i] = [frame |-> p.frame, left |-> old[1].left + 1 - i]
      <4> SUFFICES ASSUME NEW i \in DOMAIN d
                   PROVE  d[i] = [frame |-> p.frame, left |-> old[1].left + 1 - i]
        OBVIOUS
      <4>1. CASE i \in 1..n
        BY <1>3, <3>2, <3>4, <4>1
      <4>2. CASE i - n \in 1..p.units /\ n + (i - n) = i
        <5>1. d[i] = [frame |-> p.frame, left |-> p.left + p.units - (i - n)]
          BY <1>u, <1>4, <4>2
        <5>2. p.left \in Int /\ p.units \in Int /\ old[1].left \in Int /\ n \in Int /\ i \in Int
          BY <1>1, <1>2, <1>5, <3>3
        <5>3. p.left + p.units - (i - n) = old[1].left + 1 - i
          BY SMTT(30), <3>4, <5>2
        <5> QED BY <5>1, <5>3
      <4> QED BY <1>5, <4>1, <4>2
    <3>6. old[1].left + 1 - (n + p.units) = p.left
      <4>1. p.left \in Int /\ p.units \in Int /\ old[1].left \in Int /\ n \in Int
        BY <1>1, <1>2, <3>3
      <4> QED BY SMTT(30), <3>4, <4>1
    <3> QED BY <3>3, <3>5, <3>6
  <2> QED BY <2>1, <2>2
<1> HIDE DEF n
<1>7. Len(d) \in DOMAIN d /\ 1 \in DOMAIN d /\ d # <<>>
  BY <1>1, <1>2
<1>8. d[1].frame = p.frame /\ d[1].left = m
  <2>1. m + 1 - 1 = m
    OBVIOUS
  <2> QED BY SMTT(30), <1>6, <1>7, <2>1
<1>9. Run(d)
  BY <1>6, <1>8 DEF Run
<1>10. d[Len(d)].frame = p.frame /\ d[Len(d)].left = p.left /\
           \A i \in DOMAIN d : d[i].frame = p.frame
  <2>1. Len(d) = n + p.units /\ \A i \in DOMAIN d : d[i].frame = p.frame /\ d[i].left = m + 1 - i
    <3>1. \A i \in DOMAIN d : d[i] = [frame |-> p.frame, left |-> m + 1 - i]
      BY <1>6
    <3>2. \A i \in DOMAIN d : d[i].frame = p.frame /\ d[i].left = m + 1 - i
      BY <3>1
    <3> QED BY <1>2, <3>2
  <2>2. m + 1 - Len(d) = p.left
    BY <1>6, <1>7, <2>1
  <2> QED BY <1>7, <2>1, <2>2
<1> QED BY <1>7, <1>9, <1>10 DEF d

\* A packet is written.
LEMMA ParseFeed == ASSUME TypeOK, LinkInv, FeedInv, Parse PROVE FeedInv'
<1> DEFINE p == reader.packet
           old == IF p.begin THEN <<>> ELSE input.data
           room == IF p.begin THEN FullSize ELSE input.room
           spoilt == ~p.begin /\ (input.corrupt \/ mgr.loss)
           fits == Fits(old, p, room)
           appended == ~spoilt /\ fits
<1>0. CallInv /\ StreamInv /\ ReaderInv /\ OrderInv /\ ChainInv /\ FrameInv
  BY DEF LinkInv, FeedInv
<1>1. /\ p \in PacketType /\ reader.at = "handle"
      /\ old \in Seq(Unit)
      /\ input'.data = IF appended THEN old \o Units(p) ELSE old
      /\ input'.frame = (p.begin \/ input.frame)
      /\ (~input'.corrupt) => appended
      /\ reader'.at = "wait" \/ (reader' = [reader EXCEPT !.at = "raise"] /\ p.left = 0 /\ appended)
      /\ mgr'.next = mgr.next
      /\ UNCHANGED <<device, link, lost, delivered>>
  BY Parsed DEF wire
<1>r. /\ reader'.at = "wait" \/ reader'.at = "raise"
      /\ reader'.at # "wait" => reader'.packet = p
  <2>1. \/ reader \in [at : {"wait"}, packet : {None}]
        \/ reader \in [at : {"handle", "raise"}, packet : PacketType]
    BY DEF TypeOK
  <2>2. reader'.at = "wait" \/ reader' = [reader EXCEPT !.at = "raise"]
    BY <1>1
  <2> QED BY <2>1, <2>2
<1>2. p.begin => appended
  <2>1. p.units <= FullSize /\ p.units \in Nat /\ FullSize \in Nat
    BY SMTT(30), <1>1, Constants DEF PacketType
  <2> QED BY <2>1 DEF Fits
<1>3. p.begin => old = <<>>
  OBVIOUS
<1>4. ~p.begin => old = input.data /\ (appended => ~input.corrupt /\ ~mgr.loss)
  OBVIOUS
<1> HIDE DEF old, appended
<1>5. appended /\ input'.frame =>
        old = <<>> \/ (/\ Run(old) /\ p.frame = old[Len(old)].frame
                       /\ p.left + p.units = old[Len(old)].left)
  BY <1>0, <1>1, <1>3, <1>4 DEF FrameInv, Last
<1>6. appended /\ input'.frame =>
        /\ input'.data # <<>> /\ Run(input'.data)
        /\ input'.data[Len(input'.data)].frame = p.frame /\
               input'.data[Len(input'.data)].left = p.left
        /\ \A i \in DOMAIN input'.data : input'.data[i].frame = p.frame
  BY <1>1, <1>5, RunGrows
<1> HIDE DEF p
<1>7. Handling = {p.frame} /\ Handed' = Handed
  BY <1>1 DEF Handling, Handed, p
<1>8. OrderInv'
  <2>1. Written' \subseteq Written \cup {p.frame}
    <3>1. CASE appended
      <4>1. \A i \in DOMAIN input'.data :
                \/ input'.data[i].frame = p.frame
                \/ i \in DOMAIN old /\ input'.data[i] = old[i]
        <5>1. Units(p) \in Seq(Unit) /\ \A j \in DOMAIN Units(p) : Units(p)[j].frame = p.frame
          BY <1>1, UnitsType DEF Units
        <5>2. input'.data = old \o Units(p)
          BY <1>1, <3>1
        <5>3. \A i \in DOMAIN (old \o Units(p)) :
                \/ i \in DOMAIN old /\ (old \o Units(p))[i] = old[i]
                \/ \E j \in DOMAIN Units(p) : (old \o Units(p))[i] = Units(p)[j]
          BY <1>1, <5>1, ConcatIndex
        <5> QED BY <5>1, <5>2, <5>3
      <4>2. old = <<>> => DOMAIN old = {}
        OBVIOUS
      <4> QED BY <1>1, <1>3, <1>4, <4>1, <4>2, Frames DEF Written
    <3>2. CASE ~appended
      BY <1>1, <1>2, <1>4, <3>2 DEF Written
    <3> QED BY <3>1, <3>2
  <2>2. Handling' \subseteq {p.frame}
    BY <1>r DEF Handling
  <2>3. reader'.at # "handle"
    BY <1>r
  <2>4. device'.frame = device.frame /\ link' = link
    BY <1>1
  <2> QED BY <1>0, <1>7, <2>1, <2>2, <2>3, <2>4, OrderKept
<1>9. /\ \A n, u : Ahead(n, u)' <=> Ahead(n, u)
      /\ \A n, u, w : u.frame = w.frame /\ u.left = w.left => (Ahead(n, u) <=> Ahead(n, w))
  BY <1>1 DEF Ahead, Continues, DeviceContinues
<1>10. Ahead(mgr.next, p)
  BY <1>0, <1>1 DEF ChainInv, p
<1>11. ChainInv'
  <2>1. reader'.at # "wait" => reader'.packet = p
    BY <1>r
  <2>2. reader'.at # "wait" => Ahead(mgr.next, reader.packet)'
    BY <1>1, <1>10, <2>1 DEF Ahead, Continues, DeviceContinues
  <2>3. /\ \A i \in DOMAIN link' :
            i + 1 \in DOMAIN link' => Continues(NextId(link'[i].id), link'[i], link'[i + 1])
        /\ link' # <<>> => DeviceContinues(NextId(link[Len(link)].id), link[Len(link)])'
    BY <1>0, <1>1 DEF ChainInv, DeviceContinues
  <2> QED BY <2>2, <2>3 DEF ChainInv, Continues
<1>12. FrameInv'
  <2> SUFFICES ASSUME input'.frame PROVE FrameInv'
    BY DEF FrameInv
  <2>1. /\ input'.data # <<>>
        /\ \A f \in Handed, i \in DOMAIN input'.data : f < input'.data[i].frame
    <3>1. CASE appended
      <4>1. ASSUME NEW f \in Handed PROVE f < p.frame
        <5>1. CASE p.begin
          BY <1>0, <1>1, <5>1 DEF OrderInv, After, p
        <5>2. CASE ~p.begin
          <6>1. input.frame /\ ~input.corrupt /\ ~mgr.loss /\ input.data # <<>>
            BY <1>0, <1>1, <1>4, <3>1, <5>2 DEF FrameInv
          <6>2. p.frame = Last.frame
            BY <1>0, <1>1, <5>2, <6>1 DEF FrameInv, p
          <6>3. Len(input.data) \in DOMAIN input.data
            <7>1. input.data \in Seq(Unit)
              BY DEF TypeOK, InputType
            <7> QED BY <6>1, <7>1
          <6> QED BY <1>0, <6>1, <6>2, <6>3 DEF FrameInv, Last
        <5> QED BY <5>1, <5>2
      <4> QED BY <1>6, <3>1, <4>1
    <3>2. CASE ~appended
      BY <1>0, <1>1, <1>2, <1>4, <3>2 DEF FrameInv
    <3> QED BY <3>1, <3>2
  <2>2. ASSUME (~input'.corrupt /\ ~mgr'.loss) \/ reader'.at = "raise"
        PROVE  /\ Run(input'.data)
               /\ reader'.at = "wait" => Ahead(mgr.next, Last)'
               /\ reader'.at = "raise" => Last'.left = 0
    <3>1. appended
      BY <1>1, <2>2
    <3>2. Last'.frame = p.frame /\ Last'.left = p.left /\ Run(input'.data)
      BY <1>6, <3>1 DEF Last
    <3>3. Ahead(mgr.next, Last)'
      <4>1. Ahead(mgr.next, Last')
        BY <1>9, <1>10, <3>2
      <4> HIDE DEF p
      <4> QED BY <1>1, <4>1 DEF Ahead, Continues, DeviceContinues
    <3> QED BY <1>1, <3>2, <3>3
  <2>3. reader'.at # "handle"
    BY <1>r
  <2> QED BY <1>7, <2>1, <2>2, <2>3 DEF FrameInv, Run
<1> QED BY <1>8, <1>11, <1>12 DEF FeedInv

LEMMA FeedStep == TypeOK /\ LinkInv /\ FeedInv /\ [Next]_vars => FeedInv'
<1> SUFFICES ASSUME TypeOK, LinkInv, FeedInv, [Next]_vars PROVE FeedInv'
  OBVIOUS
<1>0. /\ CallInv /\ StreamInv /\ ReaderInv /\ OrderInv /\ ChainInv /\ FrameInv /\ PendingInv
      /\ user \in Caller /\ input \in InputType
  BY DEF LinkInv, FeedInv, TypeOK
<1>same. ASSUME device' = device, UNCHANGED <<link, lost, mgr, reader, delivered>>,
                UNCHANGED <<input.data, input.corrupt>>, input'.frame => input.frame
         PROVE  FeedInv'
  BY <1>same, FeedSame
<1>1. CASE NextPacket
  BY <1>1, NextPacketFeed
<1>2. CASE AcquireFails
  <2>1. reader'.at = "wait" /\ ~input'.frame /\ device' = device
        /\ UNCHANGED <<link, lost, delivered, input.data>>
    BY <1>2, <1>0 DEF AcquireFails, wire, InputType
  <2>2. (Handed \cup Written \cup Handling)' \subseteq Handed \cup Written \cup Handling \cup {0}
    BY <2>1 DEF Handed, Written, Handling
  <2>3. OrderInv'
    BY <1>0, <2>1, <2>2, OrderKept
  <2>4. ChainInv'
    BY <1>0, <2>1 DEF ChainInv, Continues, DeviceContinues
  <2>5. FrameInv'
    BY <2>1 DEF FrameInv
  <2> QED BY <2>3, <2>4, <2>5 DEF FeedInv
<1>3. CASE Parse
  BY <1>3, ParseFeed
<1>4. CASE RaiseFrame
  <2>1. /\ reader'.at = "wait" /\ ~input'.frame /\ UNCHANGED <<device, link, lost>>
        /\ input'.data = input.data /\ input.data # <<>>
        /\ delivered' = delivered \/ delivered' = Append(delivered, FrameIn(input.data))
    BY <1>4, <1>0 DEF RaiseFrame, wire, InputType, ReaderInv
  <2>2. (Handed \cup Written \cup Handling)' \subseteq Handed \cup Written \cup Handling \cup {0}
    <3>1. input.data \in Seq(Unit) /\ delivered \in Seq(0..MaxFrames)
      BY DEF TypeOK, InputType
    <3>2. 1 \in DOMAIN input.data
      BY <2>1, <3>1
    <3>3. FrameIn(input.data) \in Written \cup {0}
      BY <3>2 DEF FrameIn, Written
    <3>4. FrameIn(input.data) \in 0..MaxFrames
      <4>1. input.data[1] \in Unit
        BY <3>1, <3>2
      <4> QED BY <4>1, Constants DEF FrameIn, Unit
    <3>5. Handed' \subseteq Handed \cup {FrameIn(input.data)}
      <4>1. CASE delivered' = delivered
        BY <4>1 DEF Handed
      <4>2. CASE delivered' = Append(delivered, FrameIn(input.data))
        <5>1. \A i \in DOMAIN delivered' : \/ i \in DOMAIN delivered /\ delivered'[i] = delivered[i]
                                           \/ delivered'[i] = FrameIn(input.data)
          BY <3>1, <3>4, <4>2, AppendIndex
        <5> QED BY <5>1 DEF Handed
      <4> QED BY <2>1, <4>1, <4>2
    <3>6. Written' = Written /\ Handling' = {}
      BY <2>1 DEF Written, Handling
    <3> QED BY <3>3, <3>5, <3>6
  <2>3. OrderInv'
    BY <1>0, <2>1, <2>2, OrderKept
  <2>4. ChainInv'
    BY <1>0, <2>1 DEF ChainInv, Continues, DeviceContinues
  <2>5. FrameInv'
    BY <2>1 DEF FrameInv
  <2> QED BY <2>3, <2>4, <2>5 DEF FeedInv
<1>5. CASE Connect
  <2>1. /\ device' = device /\ UNCHANGED <<link, lost, mgr, reader, delivered>>
        /\ UNCHANGED <<input.data, input.corrupt>> /\ (input'.frame => input.frame)
    BY <1>5, <1>0 DEF Connect, wire, InputType
  <2> QED BY <1>same, <2>1
<1>6. CASE ConnectFails
  <2>1. /\ device' = device /\ UNCHANGED <<link, lost, mgr, reader, delivered>>
        /\ UNCHANGED <<input.data, input.corrupt>> /\ (input'.frame => input.frame)
    BY <1>6, <1>0 DEF ConnectFails, wire, InputType
  <2> QED BY <1>same, <2>1
<1>7. CASE Send
  <2>1. /\ device' = device /\ UNCHANGED <<link, lost, mgr, reader, delivered>>
        /\ UNCHANGED <<input.data, input.corrupt>> /\ (input'.frame => input.frame)
    BY <1>7, <1>0 DEF Send, wire, InputType
  <2> QED BY <1>same, <2>1
<1>8. CASE Receive
  <2>1. PICK ok \in BOOLEAN : user.command \in Commands /\ Finish(ok)
    BY <1>8, <1>0, Ended
  <2>2. input' = input \/ input' = [input EXCEPT !.cropping = user.cropping]
    BY <2>1, Finishes
  <2>3. UNCHANGED <<input.data, input.corrupt, input.frame>>
    BY <1>0, <2>2 DEF InputType
  <2>4. device' = device /\ UNCHANGED <<link, lost, mgr, reader, delivered>>
    BY <1>8 DEF Receive, wire
  <2> QED BY <1>same, <2>3, <2>4
<1>9. CASE CommandFails
  <2>1. PICK ok \in BOOLEAN : user.command \in Commands /\ Finish(ok)
    BY <1>9, <1>0, Ended
  <2>2. input' = input \/ input' = [input EXCEPT !.cropping = user.cropping]
    BY <2>1, Finishes
  <2>3. UNCHANGED <<input.data, input.corrupt, input.frame>>
    BY <1>0, <2>2 DEF InputType
  <2>4. device' = device /\ UNCHANGED <<link, lost, mgr, reader, delivered>>
    BY <1>9 DEF CommandFails, wire
  <2> QED BY <1>same, <2>3, <2>4
<1>10. CASE Shutdown
  <2>1. /\ device' = device /\ UNCHANGED <<link, lost, mgr, reader, delivered>>
        /\ UNCHANGED <<input.data, input.corrupt>> /\ (input'.frame => input.frame)
    BY <1>10, <1>0 DEF Shutdown, wire, InputType
  <2> QED BY <1>same, <2>1
<1>11. CASE Disconnect
  <2>1. reader'.at = "wait" /\ ~input'.frame /\ device' = device
        /\ link' = <<>> /\ input'.data = <<>> /\ delivered' = delivered
    BY <1>11, <1>0 DEF Disconnect, Unlink, Stopped, InputType
  <2>2. (Handed \cup Written \cup Handling)' \subseteq Handed \cup Written \cup Handling \cup {0}
    <3>1. Written' = {}
      <4>1. DOMAIN input'.data = {}
        BY <2>1
      <4> QED BY <4>1 DEF Written
    <3> QED BY <2>1, <3>1 DEF Handed, Handling
  <2>3. OrderInv'
    BY <1>0, <2>1, <2>2, OrderKept
  <2>4. ChainInv'
    BY <1>0, <2>1 DEF ChainInv, Continues, DeviceContinues
  <2>5. FrameInv'
    BY <2>1 DEF FrameInv
  <2> QED BY <2>3, <2>4, <2>5 DEF FeedInv
<1>12. CASE StartCall
  <2>1. CASE input.refs # 0
    <3>1. /\ device' = device /\ UNCHANGED <<link, lost, mgr, reader, delivered>>
          /\ UNCHANGED <<input.data, input.corrupt>> /\ (input'.frame => input.frame)
      BY <1>12, <1>0, <2>1 DEF StartCall, wire, InputType
    <3> QED BY <1>same, <3>1
  <2>2. CASE input.refs = 0
    <3>1. /\ UNCHANGED <<device, link, lost, mgr, reader, delivered>>
          /\ input'.data = <<>> /\ input'.frame = input.frame /\ user.at = "idle"
      BY <1>12, <1>0, <2>2 DEF StartCall, NewCall, wire, InputType
    <3>2. ~input.streaming /\ ~input.frame /\ reader.at = "wait"
      BY <1>0, <2>2, <3>1 DEF StreamInv, ReaderInv, Stopping, Awaiting
    <3>3. Written' = {} /\ Handed' = Handed /\ Handling' = Handling
      <4>1. DOMAIN input'.data = {}
        BY <3>1
      <4> QED BY <3>1, <4>1 DEF Written, Handed, Handling
    <3>4. OrderInv'
      BY <1>0, <3>1, <3>3, OrderKept
    <3>5. ChainInv'
      BY <1>0, <3>1, <3>2 DEF ChainInv, Continues, DeviceContinues
    <3>6. FrameInv'
      BY <3>1, <3>2 DEF FrameInv
    <3> QED BY <3>4, <3>5, <3>6 DEF FeedInv
  <2> QED BY <2>1, <2>2
<1>13. CASE StopCall
  <2>1. /\ device' = device /\ UNCHANGED <<link, lost, mgr, reader, delivered>>
        /\ UNCHANGED <<input.data, input.corrupt>> /\ (input'.frame => input.frame)
    BY <1>13, <1>0 DEF StopCall, wire, InputType
  <2> QED BY <1>same, <2>1
<1>14. CASE DestroyCall
  <2>1. /\ device' = device /\ UNCHANGED <<link, lost, mgr, reader, delivered>>
        /\ UNCHANGED <<input.data, input.corrupt>> /\ (input'.frame => input.frame)
    BY <1>14, <1>0 DEF DestroyCall, wire, InputType
  <2> QED BY <1>same, <2>1
<1>15. ASSUME NEW c \in {Full, Cropped}, SetCropping(c) PROVE FeedInv'
  <2>1. /\ device' = device /\ UNCHANGED <<link, lost, mgr, reader, delivered>>
        /\ UNCHANGED <<input.data, input.corrupt>> /\ (input'.frame => input.frame)
    BY <1>15, <1>0 DEF SetCropping, wire, InputType
  <2> QED BY <1>same, <2>1
<1>16. CASE DeviceAnswers
  <2>1. UNCHANGED <<link, lost, mgr, input, reader, delivered>>
    BY <1>16 DEF DeviceAnswers, wire
  <2>2. device'.frame = device.frame /\ device'.id = device.id /\ device'.left \in {device.left, 0}
    <3>1. PICK ok \in BOOLEAN : Execute(Head(requests), ok)
      BY <1>16 DEF DeviceAnswers
    <3> QED BY <3>1 DEF Execute, TypeOK
  <2> QED BY <2>1, <2>2, FeedSame
<1>17. ASSUME NEW arrives \in BOOLEAN, DeviceSends(arrives) PROVE FeedInv'
  BY <1>17, DeviceSendsFeed
<1>18. CASE UNCHANGED vars
  <2>1. device' = device /\ UNCHANGED <<link, lost, mgr, reader, delivered, input>>
    BY <1>18 DEF vars
  <2> QED BY <1>same, <2>1
<1> QED
  BY <1>1, <1>2, <1>3, <1>4, <1>5, <1>6, <1>7, <1>8, <1>9, <1>10, <1>11, <1>12, <1>13,
     <1>14, <1>15, <1>16, <1>17, <1>18
  DEF Next, ReaderStep, CallStep, NewCalls, Device

\* The inductive invariant.
THEOREM Invariance == Spec => []IInv
<1>1. Init => IInv
  BY InitTypes, InitLink, InitFeedInv DEF IInv
<1>2. IInv /\ [Next]_vars => IInv'
  BY LinkStep, FeedStep DEF IInv
<1> QED BY <1>1, <1>2, PTL DEF Spec

-----------------------------------------------------------------------------
(* What follows from the invariant. *)

\* Every variable keeps its type: ids stay below PacketIds, and the buffer holds units of
\* frames of the device.
THEOREM TypeCorrect == Spec => []TypeOK
BY Invariance, PTL DEF IInv

\* ValidateResponsePacket never takes an answer to an earlier command for the one that is
\* awaited, unless that command failed before.
THEOREM AnswersAreForTheirCommands == Spec => []AnswerIsForItsCommand
<1>1. IInv => AnswerIsForItsCommand
  <2> SUFFICES ASSUME IInv, user.at = "receive", answers # <<>>, Valid(Head(answers))
               PROVE  Head(answers).serial = sent \/ user.command \in failed
    BY DEF AnswerIsForItsCommand
  <2>1. 1 \in DOMAIN answers /\ Head(answers) = answers[1]
    BY DEF IInv, TypeOK
  <2> QED BY <2>1 DEF IInv, LinkInv, PendingInv, Current, Valid
<1> QED BY <1>1, Invariance, PTL

\* LinkInputStreamsMgr::HandlePacket and LinkFrameInputStream::HandlePacket always find the
\* stream, the parser and the frame they use, and a buffer with the room they write to.
THEOREM HandlersAreSafe == Spec => []HandlerIsSafe
<1>1. IInv => HandlerIsSafe
  <2> SUFFICES ASSUME IInv PROVE HandlerIsSafe
    OBVIOUS
  <2>1. CallInv /\ StreamInv /\ ReaderInv /\ LostInv /\ TypeOK
    BY DEF IInv, LinkInv
  <2>2. ASSUME reader.at # "wait"
        PROVE  /\ connected /\ input.streaming /\ input.parser
               /\ gone => {Start, Destroy} \subseteq failed
    <3>1. connected /\ input.streaming /\ input.parser
      BY <2>1, <2>2 DEF ReaderInv, StreamInv
    <3>2. ASSUME gone PROVE Start \in failed /\ Destroy \in failed
      <4>1. user.at = "idle" /\ ~started /\ ~Starting /\ ~Stopping
        BY <2>1, <3>2 DEF CallInv, Starting, Stopping, Awaiting
      <4> QED BY <2>1, <3>1, <3>2, <4>1 DEF StreamInv
    <3> QED BY <3>1, <3>2
  <2>3. ASSUME reader.at # "wait"
        PROVE  \/ input.frame \/ "acquire" \in failed
               \/ reader.at = "handle" /\ Harmless(reader.packet)
    <3>1. reader.at = "handle" \/ reader.at = "raise"
      BY <2>1, <2>3 DEF TypeOK
    <3> QED BY <2>1, <3>1 DEF LostInv
  <2>4. lock = "user" => Start \in failed
    BY <2>1 DEF CallInv
  <2>5. Len(input.data) <= input.room
    BY <2>1 DEF ReaderInv
  <2> QED BY <2>2, <2>3, <2>4, <2>5 DEF HandlerIsSafe
<1> QED BY <1>1, Invariance, PTL

\* The device runs and crops as the application was told, from the first start of the
\* stream to its destruction.
THEOREM HostAndDeviceAgrees == Spec => []HostAndDeviceAgree
<1>1. IInv => HostAndDeviceAgree
  <2> SUFFICES ASSUME IInv PROVE HostAndDeviceAgree
    OBVIOUS
  <2>1. CallInv /\ StreamInv /\ ReaderInv /\ RunInv /\ CropInv
    BY DEF IInv, LinkInv, AgreeInv
  <2>2. /\ device.on \in BOOLEAN /\ input.streaming \in BOOLEAN /\ input.parser \in BOOLEAN
        /\ {connected, started, gone} \subseteq BOOLEAN /\ lock \in {None, "reader", "user"}
    BY DEF IInv, TypeOK, InputType
  <2>3. user.at = "idle" => ~Starting /\ ~Stopping
    BY DEF Starting, Stopping, Awaiting
  <2>4. ASSUME user.at = "idle", ~gone, failed \cap {Start, Stop, "connect"} = {}
        PROVE  {device.on, connected, input.streaming, input.parser} = {started}
    <3>1. device.on = input.streaming
      BY <2>1, <2>4 DEF RunInv, CallInv
    <3>2. connected = input.streaming /\ input.parser = input.streaming
      BY <2>1, <2>2, <2>4 DEF StreamInv
    <3>3. input.streaming = started
      BY <2>1, <2>2, <2>3, <2>4 DEF StreamInv
    <3> QED BY <3>1, <3>2, <3>3
  <2>5. user.at = "idle" /\ Crop \notin failed => input.cropping = device.cropping
    BY <2>1 DEF CropInv
  <2>6. ASSUME gone, Destroy \notin failed
        PROVE  /\ ~connected /\ ~input.frame /\ lock = None
               /\ "connect" \notin failed => ~input.parser
               /\ failed \cap {Start, Stop} = {} => ~device.on
    <3>1. user.at = "idle" /\ ~connected /\ ~input.streaming
      BY <2>1, <2>6 DEF CallInv, StreamInv
    <3>2. ~input.frame /\ ("connect" \notin failed => ~input.parser)
      BY <2>1, <3>1 DEF StreamInv
    <3>3. lock = None
      BY <2>1, <2>2, <2>3, <3>1 DEF CallInv, ReaderInv
    <3>4. failed \cap {Start, Stop} = {} => ~device.on
      BY <2>1, <2>2, <2>6, <3>1 DEF RunInv
    <3> QED BY <3>1, <3>2, <3>3, <3>4
  <2> QED BY <2>4, <2>5, <2>6 DEF HostAndDeviceAgree, RunningAgrees, DestroyedStreamIsSilent
<1> QED BY <1>1, Invariance, PTL

-----------------------------------------------------------------------------
(* Refinement: a packet that begins a frame is a Make, a frame handed to the *)
(* application is a Deliver, and nothing else changes what FrameFeed sees.   *)

\* A run of units whose last one is the last of its frame is the whole of what RaiseFrame
\* takes for a frame.
LEMMA WholeFrame ==
    ASSUME NEW d \in Seq(Unit), d # <<>>, Run(d), d[Len(d)].left = 0
    PROVE  FrameIn(d) = d[1].frame
<1>1. /\ DOMAIN d = 1..Len(d) /\ Len(d) \in Nat /\ Len(d) \in DOMAIN d /\ 1 \in DOMAIN d
      /\ d = [i \in DOMAIN d |-> d[i]]
  OBVIOUS
<1>2. d[1].left \in Nat
  <2>1. d[1] \in Unit
    BY <1>1
  <2> QED BY <2>1, Constants DEF Unit
<1>3. d[1].left + 1 - Len(d) = 0
  BY <1>1 DEF Run
<1>4. \A i \in DOMAIN d : d[i] = [frame |-> d[1].frame, left |-> Len(d) - i]
  <2> SUFFICES ASSUME NEW i \in DOMAIN d PROVE d[i] = [frame |-> d[1].frame, left |-> Len(d) - i]
    OBVIOUS
  <2>1. d[i] = [frame |-> d[1].frame, left |-> d[1].left + 1 - i]
    BY DEF Run
  <2>2. d[1].left + 1 - i = Len(d) - i
    BY <1>1, <1>2, <1>3
  <2> QED BY <2>1, <2>2
<1>5. d = [i \in DOMAIN d |-> [frame |-> d[1].frame, left |-> Len(d) - i]]
  BY <1>1, <1>4
<1> QED BY <1>5 DEF FrameIn

LEMMA InitFeed == Init => Feed!Init
BY DEF Init, Feed!Init

LEMMA StepFeed == IInv /\ [Next]_vars => [Feed!Next]_<<device.frame, [s \in {None} |-> delivered]>>
<1> SUFFICES ASSUME IInv, [Next]_vars
             PROVE  [Feed!Next]_<<device.frame, [s \in {None} |-> delivered]>>
  OBVIOUS
<1>1. CASE NextPacket
  <2>1. UNCHANGED <<device, delivered>>
    BY <1>1 DEF NextPacket
  <2> QED BY <2>1
<1>2. CASE AcquireFails
  <2>1. UNCHANGED <<device, delivered>>
    BY <1>2 DEF AcquireFails
  <2> QED BY <2>1
<1>3. CASE Parse
  <2>1. UNCHANGED <<device, delivered>>
    BY <1>3 DEF Parse
  <2> QED BY <2>1
<1>4. CASE RaiseFrame
  <2> DEFINE f == FrameIn(input.data)
  <2>1. /\ device' = device /\ reader.at = "raise" /\ input.frame
        /\ delivered' = IF started THEN Append(delivered, f) ELSE delivered
    BY <1>4 DEF RaiseFrame
  <2>2. CASE ~started
    BY <2>1, <2>2
  <2>3. CASE started
    <3>1. /\ OrderInv /\ FrameInv
          /\ input.data \in Seq(Unit) /\ input.data # <<>>
      BY <2>1 DEF IInv, FeedInv, FrameInv, TypeOK, InputType
    <3>2. f = input.data[1].frame
      BY <2>1, <3>1, WholeFrame DEF FrameInv, Last
    <3>3. 1 \in DOMAIN input.data /\ input.data[1] \in Unit
      BY <3>1
    <3>4. f \in 1..device.frame
      <4>1. f \in Written /\ f \in Nat /\ f >= 1
        BY <3>2, <3>3, Constants DEF Written, Unit
      <4>2. f <= device.frame /\ device.frame \in Nat
        BY <3>1, <4>1, Frames DEF OrderInv, IInv
      <4> QED BY <4>1, <4>2
    <3>5. \A i \in DOMAIN delivered : delivered[i] < f
      BY <2>1, <3>1, <3>2, <3>3 DEF FrameInv, Handed
    <3>6. Feed!Deliver(None, f)
      BY <2>1, <2>3, <3>5 DEF Feed!Deliver
    <3> QED BY <3>4, <3>6 DEF Feed!Next
  <2> QED BY <2>2, <2>3
<1>5. CASE Connect
  <2>1. UNCHANGED <<device, delivered>>
    BY <1>5 DEF Connect
  <2> QED BY <2>1
<1>6. CASE ConnectFails
  <2>1. UNCHANGED <<device, delivered>>
    BY <1>6 DEF ConnectFails
  <2> QED BY <2>1
<1>7. CASE Send
  <2>1. UNCHANGED <<device, delivered>>
    BY <1>7 DEF Send
  <2> QED BY <2>1
<1>8. CASE Receive
  <2>1. UNCHANGED <<device, delivered>>
    BY <1>8 DEF Receive
  <2> QED BY <2>1
<1>9. CASE CommandFails
  <2>1. UNCHANGED <<device, delivered>>
    BY <1>9 DEF CommandFails
  <2> QED BY <2>1
<1>10. CASE Shutdown
  <2>1. UNCHANGED <<device, delivered>>
    BY <1>10 DEF Shutdown
  <2> QED BY <2>1
<1>11. CASE Disconnect
  <2>1. UNCHANGED <<device, delivered>>
    BY <1>11 DEF Disconnect
  <2> QED BY <2>1
<1>12. CASE StartCall
  <2>1. UNCHANGED <<device, delivered>>
    BY <1>12 DEF StartCall
  <2> QED BY <2>1
<1>13. CASE StopCall
  <2>1. UNCHANGED <<device, delivered>>
    BY <1>13 DEF StopCall
  <2> QED BY <2>1
<1>14. CASE DestroyCall
  <2>1. UNCHANGED <<device, delivered>>
    BY <1>14 DEF DestroyCall
  <2> QED BY <2>1
<1>15. ASSUME NEW c \in {Full, Cropped}, SetCropping(c)
      PROVE  [Feed!Next]_<<device.frame, [s \in {None} |-> delivered]>>
  <2>1. UNCHANGED <<device, delivered>>
    BY <1>15 DEF SetCropping
  <2> QED BY <2>1
<1>16. CASE DeviceAnswers
  <2>1. delivered' = delivered /\ \E ok \in BOOLEAN : Execute(Head(requests), ok)
    BY <1>16 DEF DeviceAnswers
  <2>2. device'.frame = device.frame
    BY <2>1 DEF Execute, IInv, TypeOK
  <2> QED BY <2>1, <2>2
<1>17. ASSUME NEW arrives \in BOOLEAN, DeviceSends(arrives)
      PROVE  [Feed!Next]_<<device.frame, [s \in {None} |-> delivered]>>
  <2>1. delivered' = delivered
    BY <1>17 DEF DeviceSends
  <2>2. device'.frame = device.frame \/ device'.frame = device.frame + 1
    <3>1. PICK p \in PacketType :
            /\ p.frame = IF p.begin THEN device.frame + 1 ELSE device.frame
            /\ device' = [device EXCEPT !.frame = p.frame, !.left = p.left,
                   !.id = NextId(device.id)]
      BY <1>17, SentPacket DEF IInv, LinkInv
    <3>2. device'.frame = p.frame
      BY <3>1 DEF IInv, TypeOK
    <3> QED BY <3>1, <3>2
  <2> QED BY <2>1, <2>2 DEF Feed!Next, Feed!Make
<1>18. CASE UNCHANGED vars
  <2>1. UNCHANGED <<device, delivered>>
    BY <1>18 DEF vars
  <2> QED BY <2>1
<1> QED
  BY <1>1, <1>2, <1>3, <1>4, <1>5, <1>6, <1>7, <1>8, <1>9, <1>10, <1>11, <1>12, <1>13,
     <1>14, <1>15, <1>16, <1>17, <1>18
  DEF Next, ReaderStep, CallStep, NewCalls, Device

\* Whatever is lost on the way and whatever fails, the frames of this driver are whole
\* frames of the device, each handed on at most once and in their order.
THEOREM FeedIsImplemented == Spec => ImplementsFrameFeed
BY InitFeed, StepFeed, Invariance, PTL DEF Spec, ImplementsFrameFeed, Feed!Spec
=============================================================================
