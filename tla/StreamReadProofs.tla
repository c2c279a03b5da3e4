-------------------------- MODULE StreamReadProofs --------------------------
(***************************************************************************)
(* Proofs about StreamRead for any number of streams, sensors and readers  *)
(* and any bound on the frames: types, no lost wake-up, no frame without   *)
(* its event, the cause of every empty read, and the refinement of         *)
(* FrameFeed.                                                              *)
(***************************************************************************)
EXTENDS StreamRead, TLAPS

\* A driver thread delivers to streams of its own sensor, one at a time.
DriverInv == \A d \in Sensors :
    /\ driver[d].frame <= clock
    /\ driver[d].todo \subseteq StreamsOf(d)
    /\ driver[d].step \in {"store", "toListener", "toHolder", "toThreads"}
         <=> driver[d].stream # None
    /\ driver[d].stream # None => /\ SensorOf[driver[d].stream] = d
                                  /\ driver[d].stream \notin driver[d].todo

\* A call in progress has registered its thread; the stream it has chosen is the
\* one whose frame it has seen.
ReaderInv == \A t \in Readers :
    LET r == reader[t] IN
    /\ r.step # "idle" => t \in registered /\ r.call \in {"wait", "read"}
    /\ r.step = "idle" => r.call \in {"none", "ok"} /\ r.stream = None
    /\ r.step # "idle" => (r.stream = None <=> r.frame = 0)
    /\ r.step \in {"enter", "take"} => r.stream # None /\ r.call = "read"
    /\ r.step = "block" => r.todo = {} /\ r.frame = 0

\* What lies ahead of stream s is newer than what it holds, and that is newer than
\* what was taken from it.
Ahead(s) == LET d == SensorOf[s] IN
    s \in driver[d].todo \/ (driver[d].stream = s /\ driver[d].step = "store")
Older(s, n) == \A i \in DOMAIN delivered[s] : delivered[s][i] < n
FrameInv == \A s \in Streams :
    /\ lastFrame[s] <= clock /\ Older(s, clock + 1)
    /\ lastFrame[s] # 0 => Older(s, lastFrame[s])
    /\ Ahead(s) => /\ Older(s, driver[SensorOf[s]].frame)
                   /\ lastFrame[s] < driver[SensorOf[s]].frame

\* A stream that a reader has already passed over in this round, and that has a
\* frame now, will make the reader look again.
PassedOverInv == \A t \in Readers, s \in Streams :
    /\ reader[t].step \in {"scan", "block"} /\ reader[t].frame = 0
    /\ s \in reader[t].wants \ reader[t].todo /\ lastFrame[s] # 0
    => threadEvent[t] \/ Signalling(s, {"toListener", "toHolder", "toThreads"})

\* A readFrame that has seen a frame will find one, unless it was overtaken.
SeenInv == \A t \in Readers :
    reader[t].call = "read" /\ reader[t].stream # None =>
        lastFrame[reader[t].stream] # 0 \/ disturbed[t]

\* The states of the threads as records, with the program counters they can have.
DriverRecords ==
    [step : {"idle", "next", "store", "toListener", "toHolder", "toThreads"},
     frame : 0..MaxFrame, stream : Streams \cup {None}, todo : SUBSET Streams]
ControlRecords ==
    [step : {"idle", "startDriver", "stopClear", "stopDriver", "stopClearAgain"},
     stream : Streams \cup {None}]

Delivering ==
    [step : {"next", "store", "toListener", "toHolder", "toThreads"},
     frame : 1..MaxFrame, stream : Streams \cup {None}, todo : SUBSET Streams]

IInv ==
    /\ TypeOK /\ DriverInv /\ ReaderInv /\ FrameInv
    /\ PassedOverInv /\ SeenInv /\ StoredFrameIsSignalled /\ EmptyReadWasOvertaken

LEMMA Records ==
    ASSUME TypeOK
    PROVE  /\ driver \in [Sensors -> DriverRecords]
           /\ \A d \in Sensors : driver[d].step # "idle" => driver[d].frame \in 1..MaxFrame
           /\ control \in ControlRecords
           /\ control.step # "idle" => control.stream \in Streams
           /\ clock \in 0..MaxFrame
           /\ lastFrame \in [Streams -> 0..MaxFrame]
           /\ holderEvent \in [Streams -> BOOLEAN]
           /\ threadEvent \in [Readers -> BOOLEAN]
           /\ registered \subseteq Readers
           /\ reader \in [Readers -> ReaderStates]
           /\ disturbed \in [Readers -> BOOLEAN]
<1>1. DriverStates \subseteq DriverRecords
  BY BoundAssumption DEF DriverStates, DriverRecords, DriverIdle
<1>2. \A r \in DriverStates : r.step # "idle" => r.frame \in 1..MaxFrame
  BY DEF DriverStates, DriverIdle
<1>3. control \in ControlRecords /\ (control.step # "idle" => control.stream \in Streams)
  BY DEF TypeOK, ControlStates, ControlRecords, ControlIdle
<1> QED BY <1>1, <1>2, <1>3 DEF TypeOK

LEMMA IdleType == ReaderIdle \in ReaderStates
BY BoundAssumption DEF ReaderIdle, ReaderStates

LEMMA InitIInv == Init => IInv
<1> SUFFICES ASSUME Init PROVE IInv OBVIOUS
<1>1. TypeOK
  BY BoundAssumption, IdleType
  DEF Init, TypeOK, DriverStates, ControlStates
<1>2. DriverInv /\ FrameInv
  BY SensorAssumption, NoneAssumption
  DEF Init, DriverInv, FrameInv, DriverIdle, Ahead, Older
<1>3. ReaderInv /\ PassedOverInv /\ SeenInv /\ EmptyReadWasOvertaken
  BY DEF Init, ReaderInv, PassedOverInv, SeenInv, EmptyReadWasOvertaken, ReaderIdle
<1>4. StoredFrameIsSignalled
  BY DEF Init, StoredFrameIsSignalled
<1> QED BY <1>1, <1>2, <1>3, <1>4 DEF IInv

-----------------------------------------------------------------------------
(* One lemma for each action: the conjuncts of the invariant that it can       *)
(* disturb, and the others, whose variables it leaves alone.                  *)

LEMMA MakeFrameInv ==
    ASSUME IInv, NEW d \in Sensors, MakeFrame(d)
    PROVE  IInv'
<1>0. /\ TypeOK /\ DriverInv /\ ReaderInv /\ FrameInv /\ PassedOverInv /\ SeenInv
      /\ StoredFrameIsSignalled /\ EmptyReadWasOvertaken
  BY DEF IInv
<1>1. TypeOK'
  <2>1. clock \in 0..MaxFrame /\ clock + 1 \in 1..MaxFrame
    BY <1>0, BoundAssumption DEF MakeFrame, TypeOK
  <2>2. driver'[d] \in DriverStates /\ clock' \in 0..MaxFrame
    BY <1>0, BoundAssumption DEF MakeFrame, DriverStates, StreamsOf, TypeOK
  <2> QED BY <1>0, <2>2 DEF MakeFrame, readerVars, controlVars, TypeOK
<1>2. DriverInv'
  BY <1>0, Records DEF MakeFrame, DriverRecords, DriverInv
<1>4. FrameInv'
  <2>1. /\ clock' = clock + 1 /\ clock \in Nat
        /\ UNCHANGED <<lastFrame, delivered>>
        /\ driver'[d].frame = clock + 1
        /\ \A e \in Sensors \ {d} : driver'[e] = driver[e]
    BY <1>0, Records, BoundAssumption DEF MakeFrame, readerVars
  <2>2. \A u \in Streams : Older(u, clock + 1) => Older(u, clock + 2) /\ Older(u, clock + 1)
    BY <1>0, <2>1, BoundAssumption DEF Older, TypeOK
  <2>3. ASSUME NEW u \in Streams
        PROVE  /\ lastFrame'[u] <= clock' /\ Older(u, clock + 1)'
               /\ lastFrame'[u] # 0 => Older(u, lastFrame[u])'
               /\ Ahead(u)' => /\ Older(u, driver[SensorOf[u]].frame)'
                               /\ lastFrame'[u] < driver'[SensorOf[u]].frame
    <3>1. lastFrame[u] \in Nat
      BY <1>0, Records, BoundAssumption
    <3>2. /\ lastFrame[u] <= clock /\ Older(u, clock + 1)
          /\ lastFrame[u] # 0 => Older(u, lastFrame[u])
          /\ Ahead(u) => /\ Older(u, driver[SensorOf[u]].frame)
                         /\ lastFrame[u] < driver[SensorOf[u]].frame
      BY <1>0 DEF FrameInv
    <3>3. lastFrame'[u] <= clock' /\ Older(u, clock + 1)'
      BY <2>1, <2>2, <3>1, <3>2 DEF Older
    <3>4. lastFrame'[u] # 0 => Older(u, lastFrame[u])'
      BY <2>1, <3>2 DEF Older
    <3>5. CASE SensorOf[u] = d
      <4>1. Older(u, driver[SensorOf[u]].frame)' BY <2>1, <3>2, <3>5 DEF Older
      <4>2. lastFrame'[u] < driver'[SensorOf[u]].frame BY <2>1, <3>1, <3>2, <3>5
      <4> QED BY <3>3, <3>4, <4>1, <4>2
    <3>6. CASE SensorOf[u] # d
      <4>1. driver'[SensorOf[u]] = driver[SensorOf[u]] BY <2>1, <3>6, SensorAssumption
      <4>2. Ahead(u)' => Ahead(u) BY <4>1 DEF Ahead
      <4> QED BY <2>1, <3>2, <3>3, <4>1, <4>2 DEF Older
    <3> QED BY <3>5, <3>6
  <2> QED BY <2>3 DEF FrameInv
<1>5. PassedOverInv'
  BY <1>0 DEF MakeFrame, readerVars, PassedOverInv, Signalling
<1>7. StoredFrameIsSignalled'
  BY <1>0 DEF MakeFrame, readerVars, Signalling, StoredFrameIsSignalled
<1>9. (ReaderInv /\ SeenInv /\ EmptyReadWasOvertaken)'
  BY <1>0 DEF MakeFrame, readerVars, ReaderInv, SeenInv, EmptyReadWasOvertaken
<1> QED BY <1>1, <1>2, <1>4, <1>5, <1>7, <1>9 DEF IInv

LEMMA NextStreamInv ==
    ASSUME IInv, NEW d \in Sensors, NEW s \in Streams, NextStream(d, s)
    PROVE  IInv'
<1>0. /\ TypeOK /\ DriverInv /\ ReaderInv /\ FrameInv /\ PassedOverInv /\ SeenInv
      /\ StoredFrameIsSignalled /\ EmptyReadWasOvertaken
  BY DEF IInv
<1>1. TypeOK'
  <2>1. driver[d] \in Delivering
    BY <1>0 DEF NextStream, DriverStates, Delivering, DriverIdle, TypeOK
  <2>2. driver'[d] \in Delivering
    BY <1>0, <2>1 DEF NextStream, TypeOK, Delivering
  <2>3. driver'[d] \in DriverStates
    BY <2>2 DEF DriverStates, Delivering
  <2> QED BY <1>0, <2>3 DEF NextStream, readerVars, controlVars, TypeOK
<1>2. DriverInv'
  BY <1>0, NoneAssumption DEF NextStream, StreamsOf, DriverInv
<1>4. FrameInv'
  BY <1>0, Records, SensorAssumption
  DEF NextStream, readerVars, Ahead, Older, FrameInv
<1>5. PassedOverInv'
  <2>1. \A e \in Sensors \ {d} : driver'[e] = driver[e]
    BY <1>0, Records DEF NextStream
  <2>2. driver[d].step = "next"
    BY DEF NextStream
  <2>3. UNCHANGED <<lastFrame, threadEvent, reader>>
    BY DEF NextStream, readerVars
  <2>4. \A u \in Streams : Signalling(u, {"toListener", "toHolder", "toThreads"}) =>
          Signalling(u, {"toListener", "toHolder", "toThreads"})'
    BY <2>1, <2>2 DEF Signalling
  <2> QED BY <1>0, <2>3, <2>4 DEF PassedOverInv
<1>7. StoredFrameIsSignalled'
  <2>1. \A e \in Sensors \ {d} : driver'[e] = driver[e]
    BY <1>0, Records DEF NextStream
  <2>2. driver[d].step = "next"
    BY DEF NextStream
  <2>3. UNCHANGED <<lastFrame, holderEvent, reader>>
    BY DEF NextStream, readerVars
  <2>4. \A u \in Streams : Signalling(u, {"toListener", "toHolder"}) =>
          Signalling(u, {"toListener", "toHolder"})'
    BY <2>1, <2>2 DEF Signalling
  <2> QED BY <1>0, <2>3, <2>4 DEF StoredFrameIsSignalled
<1>9. (ReaderInv /\ SeenInv /\ EmptyReadWasOvertaken)'
  BY <1>0 DEF NextStream, readerVars, ReaderInv, SeenInv, EmptyReadWasOvertaken
<1> QED BY <1>1, <1>2, <1>4, <1>5, <1>7, <1>9 DEF IInv

LEMMA FrameDoneInv ==
    ASSUME IInv, NEW d \in Sensors, FrameDone(d)
    PROVE  IInv'
<1>0. /\ TypeOK /\ DriverInv /\ ReaderInv /\ FrameInv /\ PassedOverInv /\ SeenInv
      /\ StoredFrameIsSignalled /\ EmptyReadWasOvertaken
  BY DEF IInv
<1>1. TypeOK'
  BY <1>0 DEF FrameDone, readerVars, controlVars, DriverStates, TypeOK
<1>2. DriverInv'
  BY <1>0, Records DEF FrameDone, DriverIdle, DriverInv
<1>4. FrameInv'
  <2>1. driver'[d] = DriverIdle /\ \A e \in Sensors \ {d} : driver'[e] = driver[e]
    BY <1>0, Records DEF FrameDone
  <2>2. \A s \in Streams : Ahead(s)' => Ahead(s) /\ SensorOf[s] # d
    BY <2>1, SensorAssumption DEF Ahead, DriverIdle
  <2> QED BY <1>0, <2>2 DEF FrameDone, readerVars, Older, FrameInv
<1>5. PassedOverInv'
  BY <1>0 DEF FrameDone, readerVars, Signalling, PassedOverInv
<1>7. StoredFrameIsSignalled'
  BY <1>0 DEF FrameDone, readerVars, Signalling, StoredFrameIsSignalled
<1>9. (ReaderInv /\ SeenInv /\ EmptyReadWasOvertaken)'
  BY <1>0 DEF FrameDone, readerVars, ReaderInv, SeenInv, EmptyReadWasOvertaken
<1> QED BY <1>1, <1>2, <1>4, <1>5, <1>7, <1>9 DEF IInv

LEMMA StoreFrameInv ==
    ASSUME IInv, NEW d \in Sensors, StoreFrame(d)
    PROVE  IInv'
<1>0. /\ TypeOK /\ DriverInv /\ ReaderInv /\ FrameInv /\ PassedOverInv /\ SeenInv
      /\ StoredFrameIsSignalled /\ EmptyReadWasOvertaken
  BY DEF IInv
<1>1. TypeOK'
  <2>1. driver[d] \in Delivering
    BY <1>0 DEF StoreFrame, DriverStates, Delivering, DriverIdle, TypeOK
  <2>2. driver'[d] \in Delivering
    BY <1>0, <2>1 DEF StoreFrame, TypeOK, Delivering
  <2>3. driver'[d] \in DriverStates
    BY <2>2 DEF DriverStates, Delivering
  <2>4. driver[d].frame \in 0..MaxFrame
    BY <2>1, BoundAssumption DEF Delivering
  <2>5. lastFrame' \in [Streams -> 0..MaxFrame] /\ unseen' \in [Streams -> BOOLEAN]
    BY <1>0, <2>4 DEF StoreFrame, TypeOK
  <2> QED BY <1>0, <2>3, <2>5 DEF StoreFrame, readerVars, controlVars, TypeOK
<1>2. DriverInv'
  BY <1>0 DEF StoreFrame, DriverInv
<1>4. FrameInv'
  BY <1>0, Records DEF StoreFrame, readerVars, FrameInv, Ahead, Older, DriverInv
<1>5. PassedOverInv'
  BY <1>0, Records DEF StoreFrame, readerVars, Signalling, PassedOverInv
<1>6. SeenInv'
  <2>1. driver[d].frame # 0 BY <1>0, Records DEF StoreFrame
  <2>2. UNCHANGED <<reader, disturbed>> BY DEF StoreFrame, readerVars
  <2>3. \A u \in Streams : lastFrame[u] # 0 => lastFrame'[u] # 0
    BY <1>0, Records, <2>1 DEF StoreFrame
  <2> QED BY <1>0, Records, <2>2, <2>3 DEF ReaderStates, SeenInv
<1>7. StoredFrameIsSignalled'
  BY <1>0, Records DEF StoreFrame, readerVars, Signalling, StoredFrameIsSignalled
<1>9. (ReaderInv /\ EmptyReadWasOvertaken)'
  BY <1>0 DEF StoreFrame, readerVars, ReaderInv, EmptyReadWasOvertaken
<1> QED BY <1>1, <1>2, <1>4, <1>5, <1>6, <1>7, <1>9 DEF IInv

LEMMA SignalListenerInv ==
    ASSUME IInv, NEW d \in Sensors, SignalListener(d)
    PROVE  IInv'
<1>0. /\ TypeOK /\ DriverInv /\ ReaderInv /\ FrameInv /\ PassedOverInv /\ SeenInv
      /\ StoredFrameIsSignalled /\ EmptyReadWasOvertaken
  BY DEF IInv
<1>1. TypeOK'
  <2>1. driver[d] \in Delivering
    BY <1>0 DEF SignalListener, DriverStates, Delivering, DriverIdle, TypeOK
  <2>2. driver'[d] \in Delivering
    BY <1>0, <2>1 DEF SignalListener, TypeOK, Delivering
  <2>3. driver'[d] \in DriverStates
    BY <2>2 DEF DriverStates, Delivering
  <2> QED BY <1>0, <2>3 DEF SignalListener, readerVars, controlVars, TypeOK
<1>2. DriverInv'
  BY <1>0 DEF SignalListener, DriverInv
<1>4. FrameInv'
  BY <1>0 DEF SignalListener, readerVars, Ahead, Older, FrameInv
<1>5. PassedOverInv'
  BY <1>0 DEF SignalListener, readerVars, Signalling, PassedOverInv
<1>7. StoredFrameIsSignalled'
  BY <1>0 DEF SignalListener, readerVars, Signalling, StoredFrameIsSignalled
<1>9. (ReaderInv /\ SeenInv /\ EmptyReadWasOvertaken)'
  BY <1>0 DEF SignalListener, readerVars, ReaderInv, SeenInv, EmptyReadWasOvertaken
<1> QED BY <1>1, <1>2, <1>4, <1>5, <1>7, <1>9 DEF IInv

LEMMA SignalHolderInv ==
    ASSUME IInv, NEW d \in Sensors, SignalHolder(d)
    PROVE  IInv'
<1>0. /\ TypeOK /\ DriverInv /\ ReaderInv /\ FrameInv /\ PassedOverInv /\ SeenInv
      /\ StoredFrameIsSignalled /\ EmptyReadWasOvertaken
  BY DEF IInv
<1>1. TypeOK'
  <2>1. driver[d] \in Delivering
    BY <1>0 DEF SignalHolder, DriverStates, Delivering, DriverIdle, TypeOK
  <2>2. driver'[d] \in Delivering
    BY <1>0, <2>1 DEF SignalHolder, TypeOK, Delivering
  <2>3. driver'[d] \in DriverStates
    BY <2>2 DEF DriverStates, Delivering
  <2> QED BY <1>0, <2>3 DEF SignalHolder, readerVars, controlVars, TypeOK
<1>2. DriverInv'
  BY <1>0 DEF SignalHolder, DriverInv
<1>4. FrameInv'
  BY <1>0 DEF SignalHolder, readerVars, Ahead, Older, FrameInv
<1>5. PassedOverInv'
  BY <1>0 DEF SignalHolder, readerVars, Signalling, PassedOverInv
<1>7. StoredFrameIsSignalled'
  BY <1>0, Records DEF SignalHolder, readerVars, Signalling, StoredFrameIsSignalled
<1>9. (ReaderInv /\ SeenInv /\ EmptyReadWasOvertaken)'
  BY <1>0 DEF SignalHolder, readerVars, ReaderInv, SeenInv, EmptyReadWasOvertaken
<1> QED BY <1>1, <1>2, <1>4, <1>5, <1>7, <1>9 DEF IInv

LEMMA SignalThreadsInv ==
    ASSUME IInv, NEW d \in Sensors, SignalThreads(d)
    PROVE  IInv'
<1>0. /\ TypeOK /\ DriverInv /\ ReaderInv /\ FrameInv /\ PassedOverInv /\ SeenInv
      /\ StoredFrameIsSignalled /\ EmptyReadWasOvertaken
  BY DEF IInv
<1>1. TypeOK'
  <2>1. driver[d] \in Delivering
    BY <1>0 DEF SignalThreads, DriverStates, Delivering, DriverIdle, TypeOK
  <2>2. driver'[d] \in Delivering
    BY <1>0, <2>1 DEF SignalThreads, TypeOK, Delivering
  <2>3. driver'[d] \in DriverStates
    BY <2>2 DEF DriverStates, Delivering
  <2> QED BY <1>0, <2>3 DEF SignalThreads, TypeOK, controlVars
<1>2. DriverInv'
  BY <1>0, Records DEF SignalThreads, DriverInv
<1>4. FrameInv'
  BY <1>0, Records, SensorAssumption DEF SignalThreads, Ahead, Older, FrameInv
<1>5. PassedOverInv'
  BY <1>0 DEF SignalThreads, PassedOverInv, ReaderInv
<1>7. StoredFrameIsSignalled'
  BY <1>0 DEF SignalThreads, Signalling, StoredFrameIsSignalled
<1>9. (ReaderInv /\ SeenInv /\ EmptyReadWasOvertaken)'
  BY <1>0 DEF SignalThreads, ReaderInv, SeenInv, EmptyReadWasOvertaken
<1> QED BY <1>1, <1>2, <1>4, <1>5, <1>7, <1>9 DEF IInv

LEMMA CallListenerInv ==
    ASSUME IInv, NEW s \in Streams, CallListener(s)
    PROVE  IInv'
<1>0. /\ TypeOK /\ DriverInv /\ ReaderInv /\ FrameInv /\ PassedOverInv /\ SeenInv
      /\ StoredFrameIsSignalled /\ EmptyReadWasOvertaken
  BY DEF IInv
<1>1. TypeOK'
  BY <1>0 DEF CallListener, readerVars, controlVars, TypeOK
<1>9. (/\ DriverInv /\ ReaderInv /\ FrameInv /\ PassedOverInv
       /\ SeenInv /\ StoredFrameIsSignalled /\ EmptyReadWasOvertaken)'
  BY <1>0
  DEF CallListener, readerVars, DriverInv, ReaderInv, FrameInv, PassedOverInv,
     SeenInv, StoredFrameIsSignalled, EmptyReadWasOvertaken, Ahead, Older,
     Signalling
<1> QED BY <1>1, <1>9 DEF IInv

LEMMA PeekInv ==
    ASSUME IInv, NEW t \in Readers, NEW s \in Streams, Peek(t, s)
    PROVE  IInv'
<1>0. /\ TypeOK /\ DriverInv /\ ReaderInv /\ FrameInv /\ PassedOverInv /\ SeenInv
      /\ StoredFrameIsSignalled /\ EmptyReadWasOvertaken
  BY DEF IInv
<1>1. TypeOK'
  <2>1. reader'[t] \in ReaderStates
    BY <1>0, IdleType DEF Peek, TypeOK, ReaderStates
  <2> QED BY <1>0, <2>1 DEF Peek, driverVars, controlVars, TypeOK
<1>3. ReaderInv'
  BY <1>0, NoneAssumption DEF Peek, ReaderInv
<1>5. PassedOverInv'
  BY <1>0, Records DEF Peek, driverVars, Signalling, PassedOverInv
<1>6. SeenInv'
  BY <1>0 DEF Peek, SeenInv
<1>7. StoredFrameIsSignalled'
  BY <1>0 DEF Peek, driverVars, Signalling, StoredFrameIsSignalled
<1>8. EmptyReadWasOvertaken'
  BY <1>0 DEF Peek, EmptyReadWasOvertaken
<1>9. (DriverInv /\ FrameInv)'
  BY <1>0 DEF Peek, driverVars, DriverInv, FrameInv, Ahead, Older
<1> QED BY <1>1, <1>3, <1>5, <1>6, <1>7, <1>8, <1>9 DEF IInv

LEMMA ScanDoneInv ==
    ASSUME IInv, NEW t \in Readers, ScanDone(t)
    PROVE  IInv'
<1>0. /\ TypeOK /\ DriverInv /\ ReaderInv /\ FrameInv /\ PassedOverInv /\ SeenInv
      /\ StoredFrameIsSignalled /\ EmptyReadWasOvertaken
  BY DEF IInv
<1>1. TypeOK'
  <2>1. reader[t] \in ReaderStates /\ reader[t].call \in {"wait", "read"}
    BY <1>0 DEF ScanDone, TypeOK, ReaderInv
  <2>2. \/ reader'[t] = ReaderIdle
        \/ reader'[t] = [reader[t] EXCEPT !.step = "enter"]
        \/ reader'[t] = [reader[t] EXCEPT !.step = "block"]
    BY <1>0, <2>1 DEF ScanDone, TypeOK
  <2>3. reader'[t] \in ReaderStates
    BY <2>1, <2>2, IdleType DEF ReaderStates
  <2> QED BY <1>0, <2>3 DEF ScanDone, driverVars, controlVars, TypeOK
<1>3. ReaderInv'
  BY <1>0 DEF ScanDone, ReaderIdle, ReaderInv
<1>5. PassedOverInv'
  BY <1>0 DEF ScanDone, driverVars, PassedOverInv, Signalling, ReaderIdle, ReaderInv
<1>6. SeenInv'
  BY <1>0 DEF ScanDone, SeenInv, ReaderIdle, ReaderInv
<1>7. StoredFrameIsSignalled'
  <2>1. /\ UNCHANGED <<driver, holderEvent>>
        /\ \A u \in Streams : lastFrame'[u] # 0 => lastFrame'[u] = lastFrame[u]
    BY <1>0 DEF ScanDone, TypeOK, driverVars
  <2>2. \A u \in Streams, w \in Readers :
          lastFrame'[u] # 0 /\ reader[w].stream = u /\ reader[w].step = "take" =>
            reader'[w] = reader[w]
    BY <1>0, <2>1 DEF ScanDone, TypeOK
  <2> QED BY <1>0, <2>1, <2>2 DEF StoredFrameIsSignalled, Signalling
<1>8. EmptyReadWasOvertaken'
  BY <1>0 DEF ScanDone, EmptyReadWasOvertaken, ReaderIdle, ReaderInv
<1>9. (DriverInv /\ FrameInv)'
  BY <1>0 DEF ScanDone, driverVars, DriverInv, FrameInv, Ahead, Older
<1> QED BY <1>1, <1>3, <1>5, <1>6, <1>7, <1>8, <1>9 DEF IInv

LEMMA WakeInv ==
    ASSUME IInv, NEW t \in Readers, Wake(t)
    PROVE  IInv'
<1>0. /\ TypeOK /\ DriverInv /\ ReaderInv /\ FrameInv /\ PassedOverInv /\ SeenInv
      /\ StoredFrameIsSignalled /\ EmptyReadWasOvertaken
  BY DEF IInv
<1>1. TypeOK'
  <2>1. reader'[t] \in ReaderStates
    BY <1>0, IdleType DEF Wake, TypeOK, ReaderStates
  <2> QED BY <1>0, <2>1 DEF Wake, driverVars, controlVars, TypeOK
<1>3. ReaderInv'
  BY <1>0 DEF Wake, ReaderInv
<1>5. PassedOverInv'
  BY <1>0, Records DEF Wake, driverVars, Signalling, PassedOverInv
<1>6. SeenInv'
  BY <1>0 DEF Wake, SeenInv
<1>7. StoredFrameIsSignalled'
  <2>1. /\ UNCHANGED <<driver, holderEvent>>
        /\ \A u \in Streams : lastFrame'[u] # 0 => lastFrame'[u] = lastFrame[u]
    BY <1>0 DEF Wake, TypeOK, driverVars
  <2>2. \A u \in Streams, w \in Readers :
          lastFrame'[u] # 0 /\ reader[w].stream = u /\ reader[w].step = "take" =>
            reader'[w] = reader[w]
    BY <1>0, <2>1 DEF Wake, TypeOK
  <2> QED BY <1>0, <2>1, <2>2 DEF StoredFrameIsSignalled, Signalling
<1>8. EmptyReadWasOvertaken'
  BY <1>0 DEF Wake, EmptyReadWasOvertaken
<1>9. (DriverInv /\ FrameInv)'
  BY <1>0 DEF Wake, driverVars, DriverInv, FrameInv, Ahead, Older
<1> QED BY <1>1, <1>3, <1>5, <1>6, <1>7, <1>8, <1>9 DEF IInv

LEMMA WaitHolderEventInv ==
    ASSUME IInv, NEW t \in Readers, WaitHolderEvent(t)
    PROVE  IInv'
<1>0. /\ TypeOK /\ DriverInv /\ ReaderInv /\ FrameInv /\ PassedOverInv /\ SeenInv
      /\ StoredFrameIsSignalled /\ EmptyReadWasOvertaken
  BY DEF IInv
<1>1. TypeOK'
  <2>1. reader'[t] \in ReaderStates
    BY ZenonT(40), <1>0, IdleType DEF WaitHolderEvent, TypeOK, ReaderStates
  <2> QED BY <1>0, <2>1 DEF WaitHolderEvent, driverVars, controlVars, TypeOK
<1>3. ReaderInv'
  BY <1>0 DEF WaitHolderEvent, ReaderInv
<1>5. PassedOverInv'
  BY <1>0 DEF WaitHolderEvent, driverVars, Signalling, PassedOverInv
<1>6. SeenInv'
  BY <1>0 DEF WaitHolderEvent, SeenInv
<1>7. StoredFrameIsSignalled'
  BY <1>0, Records DEF WaitHolderEvent, driverVars, Signalling,
     StoredFrameIsSignalled
<1>8. EmptyReadWasOvertaken'
  BY <1>0 DEF WaitHolderEvent, EmptyReadWasOvertaken
<1>9. (DriverInv /\ FrameInv)'
  BY <1>0 DEF WaitHolderEvent, driverVars, DriverInv, FrameInv, Ahead, Older
<1> QED BY <1>1, <1>3, <1>5, <1>6, <1>7, <1>8, <1>9 DEF IInv

LEMMA TakeFrameInv ==
    ASSUME IInv, NEW t \in Readers, TakeFrame(t)
    PROVE  IInv'
<1>0. /\ TypeOK /\ DriverInv /\ ReaderInv /\ FrameInv /\ PassedOverInv /\ SeenInv
      /\ StoredFrameIsSignalled /\ EmptyReadWasOvertaken
  BY DEF IInv
<1>1. TypeOK'
  <2>1. reader[t].stream \in Streams
    BY <1>0 DEF TakeFrame, TypeOK, ReaderInv, ReaderStates
  <2>2. lastFrame[reader[t].stream] \in 0..MaxFrame /\ 0 \in 0..MaxFrame
    BY <1>0, <2>1, BoundAssumption DEF TypeOK
  <2>3. reader'[t] = [ReaderIdle EXCEPT !.call = "ok",
                                        !.frame = lastFrame[reader[t].stream]]
    BY <1>0 DEF TakeFrame, TypeOK
  <2>4. reader'[t] \in ReaderStates
    BY <2>2, <2>3 DEF ReaderIdle, ReaderStates
  <2>5. lastFrame' \in [Streams -> 0..MaxFrame]
    BY <1>0, <2>2 DEF TakeFrame, TypeOK
  <2>6. delivered' \in [Streams -> Seq(1..MaxFrame)]
    <3>1. CASE lastFrame[reader[t].stream] = 0
      BY <1>0, <2>1, <3>1 DEF TakeFrame, TypeOK
    <3>2. CASE lastFrame[reader[t].stream] # 0
      <4>1. /\ lastFrame[reader[t].stream] \in 1..MaxFrame
            /\ delivered[reader[t].stream] \in Seq(1..MaxFrame)
        BY <1>0, <2>1, <3>2 DEF TypeOK
      <4>2. Append(delivered[reader[t].stream], lastFrame[reader[t].stream])
              \in Seq(1..MaxFrame)
        BY <4>1
      <4> QED BY <1>0, <4>2 DEF TakeFrame, TypeOK
    <3> QED BY <3>1, <3>2
  <2> QED BY <1>0, <2>4, <2>5, <2>6 DEF TakeFrame, driverVars, controlVars, TypeOK
<1>3. ReaderInv'
  BY <1>0 DEF TakeFrame, ReaderIdle, ReaderInv
<1>4. FrameInv'
  <2>1. PICK s \in Streams : s = reader[t].stream
    BY <1>0 DEF TakeFrame, TypeOK, ReaderInv, ReaderStates
  <2>2. PICK f \in 0..MaxFrame : f = lastFrame[s]
    BY <1>0, Records
  <2>3. /\ UNCHANGED <<clock, driver>>
        /\ \A u \in Streams \ {s} : lastFrame'[u] = lastFrame[u] /\ delivered'[u] = delivered[u]
        /\ lastFrame'[s] = 0
        /\ delivered'[s] = IF f # 0 THEN Append(delivered[s], f) ELSE delivered[s]
    BY <1>0, <2>1, <2>2 DEF TakeFrame, driverVars, TypeOK
  <2>4. ASSUME NEW n \in Nat, f < n, Older(s, n) PROVE Older(s, n)'
    <3>1. delivered[s] \in Seq(1..MaxFrame) /\ f \in Nat
      BY <1>0, <2>2, BoundAssumption DEF TypeOK
    <3>2. CASE f = 0
      BY <2>3, <2>4, <3>2 DEF Older
    <3>3. CASE f # 0
      <4>1. delivered'[s] = Append(delivered[s], f) BY <2>3, <3>3
      <4>2. /\ DOMAIN Append(delivered[s], f) = 1..Len(delivered[s]) + 1
            /\ Append(delivered[s], f)[Len(delivered[s]) + 1] = f
            /\ \A i \in 1..Len(delivered[s]) : Append(delivered[s], f)[i] = delivered[s][i]
            /\ Len(delivered[s]) \in Nat /\ DOMAIN delivered[s] = 1..Len(delivered[s])
        BY <3>1
      <4>3. \A i \in 1..Len(delivered[s]) : delivered[s][i] < n
        BY <2>4, <4>2 DEF Older
      <4> QED BY <2>4, <4>1, <4>2, <4>3 DEF Older
    <3> QED BY <3>2, <3>3
  <2>5. \A u \in Streams : Ahead(u)' <=> Ahead(u)
    BY <2>3 DEF Ahead
  <2>6. clock \in Nat /\ \A u \in Streams : driver[SensorOf[u]].frame \in Nat
    BY <1>0, Records, SensorAssumption, BoundAssumption DEF DriverRecords
  <2>7. /\ lastFrame'[s] <= clock' /\ Older(s, clock + 1)'
        /\ lastFrame'[s] # 0 => Older(s, lastFrame[s])'
        /\ Ahead(s)' => /\ Older(s, driver[SensorOf[s]].frame)'
                        /\ lastFrame'[s] < driver'[SensorOf[s]].frame
    <3>1. f <= clock /\ Older(s, clock + 1) /\ f \in Nat
      BY <1>0, <2>2, BoundAssumption DEF FrameInv
    <3>2. Older(s, clock + 1)'
      BY <2>3, <2>4, <2>6, <3>1
    <3>3. ASSUME Ahead(s) PROVE /\ Older(s, driver[SensorOf[s]].frame)'
                               /\ 0 < driver'[SensorOf[s]].frame
      <4>1. /\ Older(s, driver[SensorOf[s]].frame)
            /\ f < driver[SensorOf[s]].frame
        BY <1>0, <2>2, <3>3 DEF FrameInv
      <4>2. driver' = driver BY <2>3
      <4> QED BY <2>4, <2>6, <3>1, <4>1, <4>2
    <3> QED BY <2>3, <2>5, <2>6, <3>2, <3>3
  <2>8. ASSUME NEW u \in Streams \ {s}
        PROVE  /\ lastFrame'[u] <= clock' /\ Older(u, clock + 1)'
               /\ lastFrame'[u] # 0 => Older(u, lastFrame[u])'
               /\ Ahead(u)' => /\ Older(u, driver[SensorOf[u]].frame)'
                               /\ lastFrame'[u] < driver'[SensorOf[u]].frame
    BY <1>0, <2>3, <2>5 DEF FrameInv, Older
  <2> QED BY <2>7, <2>8 DEF FrameInv
<1>5. PassedOverInv'
  BY <1>0 DEF TakeFrame, driverVars, Signalling, ReaderIdle, PassedOverInv
<1>6. SeenInv'
  BY <1>0, Records DEF TakeFrame, Expecting, ReaderIdle, ReaderStates, SeenInv
<1>7. StoredFrameIsSignalled'
  <2>1. /\ UNCHANGED <<driver, holderEvent>>
        /\ \A u \in Streams : lastFrame'[u] # 0 => lastFrame'[u] = lastFrame[u] /\ u # reader[t].stream
    BY <1>0 DEF TakeFrame, TypeOK, driverVars
  <2>2. \A u \in Streams, w \in Readers :
          lastFrame'[u] # 0 /\ reader[w].stream = u /\ reader[w].step = "take" =>
            reader'[w] = reader[w]
    BY <1>0, <2>1 DEF TakeFrame, TypeOK
  <2> QED BY <1>0, <2>1, <2>2 DEF StoredFrameIsSignalled, Signalling
<1>8. EmptyReadWasOvertaken'
  BY <1>0, Records DEF TakeFrame, EmptyReadWasOvertaken, SeenInv, ReaderInv
<1>9. (DriverInv)'
  BY <1>0 DEF TakeFrame, driverVars, DriverInv
<1> QED BY <1>1, <1>3, <1>4, <1>5, <1>6, <1>7, <1>8, <1>9 DEF IInv

LEMMA TimeOutInv ==
    ASSUME IInv, NEW t \in Readers, TimeOut(t)
    PROVE  IInv'
<1>0. /\ TypeOK /\ DriverInv /\ ReaderInv /\ FrameInv /\ PassedOverInv /\ SeenInv
      /\ StoredFrameIsSignalled /\ EmptyReadWasOvertaken
  BY DEF IInv
<1>1. TypeOK'
  BY <1>0, IdleType DEF TimeOut, controlVars, driverVars, TypeOK
<1>3. ReaderInv'
  BY <1>0 DEF TimeOut, ReaderIdle, ReaderInv
<1>5. PassedOverInv'
  BY <1>0 DEF TimeOut, driverVars, Signalling, ReaderIdle, PassedOverInv
<1>6. SeenInv'
  BY <1>0 DEF TimeOut, ReaderIdle, SeenInv
<1>7. StoredFrameIsSignalled'
  BY <1>0 DEF TimeOut, driverVars, Signalling, StoredFrameIsSignalled
<1>8. EmptyReadWasOvertaken'
  BY <1>0 DEF TimeOut, ReaderIdle, EmptyReadWasOvertaken
<1>9. (DriverInv /\ FrameInv)'
  BY <1>0 DEF TimeOut, driverVars, DriverInv, FrameInv, Ahead, Older
<1> QED BY <1>1, <1>3, <1>5, <1>6, <1>7, <1>8, <1>9 DEF IInv

LEMMA CallInv ==
    ASSUME IInv, NEW t \in Readers, NEW call \in {"read", "wait"},
             NEW wants \in SUBSET Streams, Call(t, call, wants)
    PROVE  IInv'
<1>0. /\ TypeOK /\ DriverInv /\ ReaderInv /\ FrameInv /\ PassedOverInv /\ SeenInv
      /\ StoredFrameIsSignalled /\ EmptyReadWasOvertaken
  BY DEF IInv
<1>1. TypeOK'
  BY <1>0, BoundAssumption DEF Call, controlVars, driverVars, ReaderStates, TypeOK
<1>3. ReaderInv'
  BY <1>0 DEF Call, ReaderInv
<1>5. PassedOverInv'
  BY <1>0 DEF Call, driverVars, Signalling, PassedOverInv
<1>6. SeenInv'
  BY <1>0, Records DEF Call, SeenInv
<1>7. StoredFrameIsSignalled'
  BY <1>0 DEF Call, driverVars, Signalling, StoredFrameIsSignalled
<1>8. EmptyReadWasOvertaken'
  BY <1>0, Records DEF Call, EmptyReadWasOvertaken
<1>9. (DriverInv /\ FrameInv)'
  BY <1>0 DEF Call, driverVars, DriverInv, FrameInv, Ahead, Older
<1> QED BY <1>1, <1>3, <1>5, <1>6, <1>7, <1>8, <1>9 DEF IInv

LEMMA BeginStartInv ==
    ASSUME IInv, NEW s \in Streams, BeginStart(s)
    PROVE  IInv'
<1>0. /\ TypeOK /\ DriverInv /\ ReaderInv /\ FrameInv /\ PassedOverInv /\ SeenInv
      /\ StoredFrameIsSignalled /\ EmptyReadWasOvertaken
  BY DEF IInv
<1>1. TypeOK'
  BY <1>0, BoundAssumption
  DEF BeginStart, readerVars, driverVars, Clear, ControlStates, TypeOK
<1>4. FrameInv'
  BY <1>0, Records, SensorAssumption
  DEF BeginStart, readerVars, driverVars, Clear, Ahead, Older, DriverRecords,
     FrameInv
<1>5. PassedOverInv'
  BY <1>0 DEF BeginStart, readerVars, driverVars, Clear, Signalling, PassedOverInv
<1>6. SeenInv'
  BY <1>0, Records DEF BeginStart, readerVars, Clear, Expecting, ReaderStates,
     SeenInv
<1>7. StoredFrameIsSignalled'
  <2>1. /\ UNCHANGED <<driver, holderEvent>>
        /\ \A u \in Streams : lastFrame'[u] # 0 => lastFrame'[u] = lastFrame[u]
    BY <1>0 DEF BeginStart, TypeOK, driverVars, Clear
  <2>2. \A u \in Streams, w \in Readers :
          lastFrame'[u] # 0 /\ reader[w].stream = u /\ reader[w].step = "take" =>
            reader'[w] = reader[w]
    BY <1>0, <2>1 DEF BeginStart, TypeOK, readerVars
  <2> QED BY <1>0, <2>1, <2>2 DEF StoredFrameIsSignalled, Signalling
<1>8. EmptyReadWasOvertaken'
  BY <1>0 DEF BeginStart, readerVars, Clear, EmptyReadWasOvertaken
<1>9. (DriverInv /\ ReaderInv)'
  BY <1>0 DEF BeginStart, readerVars, driverVars, DriverInv, ReaderInv
<1> QED BY <1>1, <1>4, <1>5, <1>6, <1>7, <1>8, <1>9 DEF IInv

LEMMA EndStartInv ==
    ASSUME IInv, EndStart
    PROVE  IInv'
<1>0. /\ TypeOK /\ DriverInv /\ ReaderInv /\ FrameInv /\ PassedOverInv /\ SeenInv
      /\ StoredFrameIsSignalled /\ EmptyReadWasOvertaken
  BY DEF IInv
<1>a. control.stream \in Streams
  BY <1>0, Records DEF EndStart
<1>b. \/ Clear(control.stream)
      \/ UNCHANGED <<lastFrame, disturbed>>
  BY DEF EndStart
<1>c. UNCHANGED <<clock, driver, holderEvent, threadEvent, registered, reader, delivered>>
  BY DEF EndStart, driverVars, readerVars
<1>d. \A s \in Streams : lastFrame'[s] = lastFrame[s] \/ lastFrame'[s] = 0
  BY <1>0, <1>b DEF Clear, TypeOK
<1>1. TypeOK'
  <2>0. 0 \in 0..MaxFrame
    BY BoundAssumption
  <2>1. lastFrame' \in [Streams -> 0..MaxFrame]
    BY <1>0, <1>b, <2>0 DEF Clear, TypeOK
  <2>5. disturbed' \in [Readers -> BOOLEAN]
    BY <1>0, <1>b, Zenon DEF Clear, TypeOK
  <2>2. counted' \subseteq Streams /\ started' \in [Streams -> BOOLEAN]
    BY <1>0, <1>a DEF EndStart, TypeOK
  <2>3. control' \in ControlStates BY DEF EndStart, ControlStates
  <2> QED BY <1>0, <2>1, <2>5, <2>2, <2>3 DEF EndStart, driverVars, readerVars,
       TypeOK
<1>4. FrameInv'
  BY <1>0, <1>c, <1>d, Records, SensorAssumption
  DEF Ahead, Older, DriverRecords, FrameInv
<1>5. PassedOverInv'
  BY <1>0, <1>c, <1>d DEF PassedOverInv, Signalling
<1>6. SeenInv'
  <2>1. CASE Clear(control.stream)
    BY <1>0, <1>c, <2>1 DEF Clear, Expecting, ReaderStates, TypeOK, SeenInv
  <2>2. CASE UNCHANGED <<lastFrame, disturbed>>
    BY <1>0, <1>c, <2>2 DEF SeenInv
  <2> QED BY <1>b, <2>1, <2>2
<1>7. StoredFrameIsSignalled'
  BY <1>0, <1>c, <1>d DEF StoredFrameIsSignalled, Signalling
<1>8. EmptyReadWasOvertaken'
  BY <1>0 DEF EndStart, readerVars, Clear, EmptyReadWasOvertaken
<1>9. (DriverInv /\ ReaderInv)'
  BY <1>0 DEF EndStart, readerVars, driverVars, DriverInv, ReaderInv
<1> QED BY <1>1, <1>4, <1>5, <1>6, <1>7, <1>8, <1>9 DEF IInv

LEMMA BeginStopInv ==
    ASSUME IInv, NEW s \in Streams, BeginStop(s)
    PROVE  IInv'
<1>0. /\ TypeOK /\ DriverInv /\ ReaderInv /\ FrameInv /\ PassedOverInv /\ SeenInv
      /\ StoredFrameIsSignalled /\ EmptyReadWasOvertaken
  BY DEF IInv
<1>1. TypeOK'
  BY <1>0 DEF BeginStop, readerVars, driverVars, ControlStates, TypeOK
<1>9. (/\ DriverInv /\ ReaderInv /\ FrameInv /\ PassedOverInv
       /\ SeenInv /\ StoredFrameIsSignalled /\ EmptyReadWasOvertaken)'
  BY <1>0
  DEF BeginStop, readerVars, driverVars, DriverInv, ReaderInv, FrameInv,
     PassedOverInv, SeenInv, StoredFrameIsSignalled, EmptyReadWasOvertaken, Ahead,
     Older, Signalling
<1> QED BY <1>1, <1>9 DEF IInv

LEMMA StopClearInv ==
    ASSUME IInv, StopClear
    PROVE  IInv'
<1>0. /\ TypeOK /\ DriverInv /\ ReaderInv /\ FrameInv /\ PassedOverInv /\ SeenInv
      /\ StoredFrameIsSignalled /\ EmptyReadWasOvertaken
  BY DEF IInv
<1>1. TypeOK'
  <2>0. 0 \in 0..MaxFrame
    BY BoundAssumption
  <2>1. lastFrame' \in [Streams -> 0..MaxFrame]
    BY <1>0, <2>0 DEF StopClear, Clear, TypeOK
  <2>5. disturbed' \in [Readers -> BOOLEAN]
    BY <1>0, Zenon DEF StopClear, Clear, TypeOK
  <2>2. control' \in ControlStates
    <3>1. control.stream \in Streams BY <1>0, Records DEF StopClear
    <3>2. control' = [step |-> "stopDriver", stream |-> control.stream] \/ control' = ControlIdle
      BY <1>0, Records DEF StopClear, ControlRecords
    <3> QED BY <3>1, <3>2 DEF ControlStates
  <2> QED BY <1>0, <2>1, <2>5, <2>2 DEF StopClear, driverVars, readerVars, TypeOK
<1>4. FrameInv'
  BY <1>0, Records, SensorAssumption
  DEF StopClear, readerVars, driverVars, Clear, Ahead, Older, DriverRecords,
     FrameInv
<1>5. PassedOverInv'
  BY <1>0 DEF StopClear, readerVars, driverVars, Clear, Signalling, PassedOverInv
<1>6. SeenInv'
  BY <1>0, Records DEF StopClear, readerVars, Clear, Expecting, ReaderStates,
     SeenInv
<1>7. StoredFrameIsSignalled'
  <2>1. /\ UNCHANGED <<driver, holderEvent>>
        /\ \A u \in Streams : lastFrame'[u] # 0 => lastFrame'[u] = lastFrame[u]
    BY <1>0 DEF StopClear, TypeOK, driverVars, Clear
  <2>2. \A u \in Streams, w \in Readers :
          lastFrame'[u] # 0 /\ reader[w].stream = u /\ reader[w].step = "take" =>
            reader'[w] = reader[w]
    BY <1>0, <2>1 DEF StopClear, TypeOK, readerVars
  <2> QED BY <1>0, <2>1, <2>2 DEF StoredFrameIsSignalled, Signalling
<1>8. EmptyReadWasOvertaken'
  BY <1>0 DEF StopClear, readerVars, Clear, EmptyReadWasOvertaken
<1>9. (DriverInv /\ ReaderInv)'
  BY <1>0 DEF StopClear, readerVars, driverVars, DriverInv, ReaderInv
<1> QED BY <1>1, <1>4, <1>5, <1>6, <1>7, <1>8, <1>9 DEF IInv

LEMMA StopDriverInv ==
    ASSUME IInv, StopDriver
    PROVE  IInv'
<1>0. /\ TypeOK /\ DriverInv /\ ReaderInv /\ FrameInv /\ PassedOverInv /\ SeenInv
      /\ StoredFrameIsSignalled /\ EmptyReadWasOvertaken
  BY DEF IInv
<1>1. TypeOK'
  <2>1. control' \in ControlStates
    <3>1. control.stream \in Streams BY <1>0, Records DEF StopDriver
    <3>2. control' = [step |-> "stopClearAgain", stream |-> control.stream]
      BY <1>0, Records DEF StopDriver, ControlRecords
    <3> QED BY <3>1, <3>2 DEF ControlStates
  <2> QED BY <1>0, <2>1 DEF StopDriver, driverVars, readerVars, TypeOK
<1>9. (/\ DriverInv /\ ReaderInv /\ FrameInv /\ PassedOverInv
       /\ SeenInv /\ StoredFrameIsSignalled /\ EmptyReadWasOvertaken)'
  BY <1>0
  DEF StopDriver, readerVars, driverVars, DriverInv, ReaderInv, FrameInv,
     PassedOverInv, SeenInv, StoredFrameIsSignalled, EmptyReadWasOvertaken, Ahead,
     Older, Signalling
<1> QED BY <1>1, <1>9 DEF IInv

-----------------------------------------------------------------------------

LEMMA NextIInv == IInv /\ [Next]_vars => IInv'
<1> SUFFICES ASSUME IInv, [Next]_vars PROVE IInv' OBVIOUS
<1>1. ASSUME NEW d \in Sensors, MakeFrame(d) \/ DriverStep(d) PROVE IInv'
  BY <1>1, MakeFrameInv, NextStreamInv, FrameDoneInv, StoreFrameInv, SignalListenerInv,
     SignalHolderInv, SignalThreadsInv
  DEF DriverStep
<1>2. ASSUME NEW s \in Streams, CallListener(s) \/ BeginStart(s) \/ BeginStop(s) PROVE IInv'
  BY <1>2, CallListenerInv, BeginStartInv, BeginStopInv
<1>3. ASSUME NEW t \in Readers, ReaderStep(t) \/ TimeOut(t) PROVE IInv'
  BY <1>3, PeekInv, ScanDoneInv, WakeInv, WaitHolderEventInv, TakeFrameInv, TimeOutInv
  DEF ReaderStep
<1>4. ASSUME NEW t \in Readers,
             \/ \E s \in Streams : Call(t, "read", {s})
             \/ \E wants \in SUBSET Streams \ {{}} : Call(t, "wait", wants)
      PROVE  IInv'
  BY <1>4, CallInv
<1>5. CASE EndStart \/ StopClear \/ StopDriver
  BY <1>5, EndStartInv, StopClearInv, StopDriverInv
<1>6. CASE UNCHANGED vars
  BY <1>6 DEF vars, IInv, TypeOK, DriverInv, StreamsOf, ReaderInv, FrameInv, Ahead, Older,
              PassedOverInv, SeenInv, StoredFrameIsSignalled, Signalling,
              EmptyReadWasOvertaken
<1> QED BY <1>1, <1>2, <1>3, <1>4, <1>5, <1>6 DEF Next

\* IInv holds in every reachable state of a stream, its readers and the threads of its driver.
THEOREM IndInv == Spec => []IInv
BY InitIInv, NextIInv, PTL DEF Spec

-----------------------------------------------------------------------------
(* What follows from the invariant *)

\* Every variable keeps its type: no thread leaves its protocol.
THEOREM TypeCorrect == Spec => []TypeOK
BY IndInv, PTL DEF IInv

\* waitForStreams and readFrame: no thread sleeps through a frame it waits for.
THEOREM NoWakeupIsLost == Spec => []NoLostWakeup
<1>1. IInv => NoLostWakeup
  BY DEF IInv, TypeOK, ReaderInv, PassedOverInv, NoLostWakeup, ReaderStates
<1> QED BY <1>1, IndInv, PTL

\* StreamFrameHolder::readFrame never hangs on a frame that is there.
THEOREM StoredFramesAreSignalled == Spec => []StoredFrameIsSignalled
BY IndInv, PTL DEF IInv

\* An OK without a frame has one cause: the frame was taken away in between.
THEOREM EmptyReadsWereOvertaken == Spec => []EmptyReadWasOvertaken
BY IndInv, PTL DEF IInv

-----------------------------------------------------------------------------
(* Refinement: a frame made is a Make, a frame taken is a Deliver, and nothing *)
(* else changes what FrameFeed sees.                                          *)

LEMMA InitFeed == Init => Feed!Init
BY DEF Init, Feed!Init

LEMMA StepFeed == IInv /\ [Next]_vars => [Feed!Next]_<<clock, delivered>>
<1> SUFFICES ASSUME IInv, [Next]_vars PROVE [Feed!Next]_<<clock, delivered>>
  OBVIOUS
<1>1. ASSUME NEW d \in Sensors, MakeFrame(d) PROVE Feed!Next
  BY <1>1 DEF MakeFrame, readerVars, Feed!Next, Feed!Make
<1>2. ASSUME NEW t \in Readers, TakeFrame(t) PROVE [Feed!Next]_<<clock, delivered>>
  <2> DEFINE s == reader[t].stream
             f == lastFrame[s]
  <2>1. s \in Streams
    BY <1>2 DEF TakeFrame, IInv, TypeOK, ReaderInv, ReaderStates
  <2>2. UNCHANGED clock
    BY <1>2 DEF TakeFrame, driverVars
  <2>3. CASE f = 0
    <3>1. delivered' = [delivered EXCEPT ![s] = delivered[s]]
      BY <1>2, <2>3 DEF TakeFrame
    <3> QED BY <2>1, <2>2, <3>1 DEF IInv, TypeOK
  <2>4. CASE f # 0
    <3>1. f \in 1..clock /\ \A i \in DOMAIN delivered[s] : delivered[s][i] < f
      BY <2>1, <2>4, BoundAssumption DEF IInv, TypeOK, FrameInv, Older
    <3>2. delivered' = [delivered EXCEPT ![s] = Append(@, f)]
      BY <1>2, <2>4 DEF TakeFrame
    <3>3. Feed!Deliver(s, f)
      BY <2>2, <3>1, <3>2 DEF Feed!Deliver
    <3> QED BY <2>1, <3>1, <3>3 DEF Feed!Next
  <2> QED BY <2>3, <2>4
<1>3. ASSUME NEW d \in Sensors, DriverStep(d) PROVE UNCHANGED <<clock, delivered>>
  BY <1>3 DEF DriverStep, NextStream, FrameDone, StoreFrame, SignalListener,
              SignalHolder, SignalThreads, readerVars
<1>4. ASSUME NEW t \in Readers, ReaderStep(t) \/ TimeOut(t), ~TakeFrame(t)
      PROVE  UNCHANGED <<clock, delivered>>
  BY <1>4 DEF ReaderStep, Peek, ScanDone, Wake, WaitHolderEvent, TimeOut, driverVars
<1>5. ASSUME NEW t \in Readers, NEW call, NEW wants, Call(t, call, wants)
      PROVE  UNCHANGED <<clock, delivered>>
  BY <1>5 DEF Call, driverVars
<1>6. ASSUME NEW s \in Streams, CallListener(s) \/ BeginStart(s) \/ BeginStop(s)
      PROVE  UNCHANGED <<clock, delivered>>
  BY <1>6 DEF CallListener, BeginStart, BeginStop, driverVars, readerVars
<1>7. CASE EndStart \/ StopClear \/ StopDriver
  BY <1>7 DEF EndStart, StopClear, StopDriver, driverVars, readerVars
<1>8. CASE UNCHANGED vars
  BY <1>8 DEF vars
<1> QED BY <1>1, <1>2, <1>3, <1>4, <1>5, <1>6, <1>7, <1>8 DEF Next

\* Any number of readers, drivers, starts and stops: a stream hands out frames that
\* were made, each at most once and in the order they were made.
THEOREM FeedIsImplemented == Spec => ImplementsFrameFeed
BY InitFeed, StepFeed, IndInv, PTL DEF Spec, ImplementsFrameFeed, Feed!Spec
=============================================================================
