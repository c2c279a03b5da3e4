------------------------ MODULE SyncedHoldersProofs ------------------------
(***************************************************************************)
(* Proofs about the frame holders of synchronized streams. SyncedFrames,   *)
(* for a group of any streams, read by any number of threads: the          *)
(* properties are inductive together, once it is known that a thread in a  *)
(* call is registered. DepthColorSync, for any streams, sensors and        *)
(* holders: the calls are built from a few operators on the state of the   *)
(* synchronization, and Sound(x, run) is what they all keep, for the       *)
(* streams `run` that are started when they return.                        *)
(***************************************************************************)
EXTENDS SyncedFrames, DepthColorSync, TLAPS

-----------------------------------------------------------------------------
(* The holder and its readers (SyncedFrames). *)


CallerRegistered == \A t \in Readers : reader[t] # Idle => t \in registered

\* The parts that speak of the stored frames, and those that speak of the readers.
FramesInv == SyncedFramesMatch /\ HeldExact /\ MatchingSetIsOffered
ReadersInv == CallerRegistered /\ NoLostWakeup /\ WaitingReaderIsSignalled

IInv == TypeOK /\ FramesInv /\ ReadersInv

LEMMA OneType == ASSUME NEW c PROVE One(c) \in {0, 1}
BY DEF One

LEMMA EmptyFrames == \A s \in Streams : Empty[s] = 0
BY DEF Empty

LEMMA CallerStream ==
    ASSUME TypeOK, NEW t \in Readers, reader[t].step # "idle"
    PROVE  reader[t].stream \in Streams /\ reader[t] # Idle
BY DEF TypeOK, Idle

LEMMA FrameIdShape == \A p \in FrameIds : \E s \in Streams, i \in Indexes : p = <<s, i>>
BY DEF FrameIds

LEMMA InitIInv == Init => IInv
<1> SUFFICES ASSUME Init PROVE IInv OBVIOUS
<1>1. TypeOK BY DEF Init, TypeOK, Empty
<1>2. SyncedFramesMatch BY DEF Init, SyncedFramesMatch, Empty
<1>3. HeldExact
  BY IndexesAssumption DEF Init, HeldExact, Empty, FrameIds, One
<1>4. MatchingSetIsOffered
  BY StreamsAssumption DEF Init, MatchingSetIsOffered, Empty
<1>5. ReadersInv
  BY DEF Init, ReadersInv, CallerRegistered, NoLostWakeup, WaitingReaderIsSignalled, Idle
<1> QED BY <1>1, <1>2, <1>3, <1>4, <1>5 DEF IInv, FramesInv

-----------------------------------------------------------------------------
(* processNewFrame *)

LEMMA ProcessNewFrameInv ==
    ASSUME IInv, NEW s \in Streams, NEW i \in Indexes, ProcessNewFrame(s, i)
    PROVE  IInv'
<1> DEFINE stored == [last EXCEPT ![s] = i]
           unread == {u \in Streams : synced[u] # 0}
           latch  == unread \in {{}, Streams} /\ \A u \in Streams : stored[u] = i
<1>0. TypeOK /\ SyncedFramesMatch /\ HeldExact /\ ReadersInv /\ i # 0
  BY IndexesAssumption DEF IInv, FramesInv
<1>1. /\ stored \in [Streams -> Indexes \cup {0}] /\ stored[s] = i
      /\ \A u \in Streams \ {s} : stored[u] = last[u]
  BY <1>0 DEF TypeOK
<1>2. latch => /\ synced' = stored /\ last' = Empty /\ given' = Empty
               /\ RaiseNewFrameEvents
  BY DEF ProcessNewFrame, Replaceable, Matches
<1>3. ~latch => last' = stored /\ UNCHANGED <<synced, given, holderEvent, threadEvent>>
  BY DEF ProcessNewFrame, Replaceable, Matches
<1>4. /\ UNCHANGED readerVars
      /\ held' = [p \in FrameIds |-> held[p] + One(p = <<s, i>>)
                   - One(p = <<s, last[s]>>) - One(latch /\ synced[p[1]] = p[2])]
  BY DEF ProcessNewFrame, Replaceable, Matches
<1> HIDE DEF stored, latch
<1>5. HeldExact'
  <2>1. ASSUME NEW u \in Streams, NEW j \in Indexes
        PROVE  held[<<u, j>>]' = One(last'[u] = j) + One(synced'[u] = j)
    <3>1. j # 0 BY IndexesAssumption
    <3>2. held[<<u, j>>] = One(last[u] = j) + One(synced[u] = j)
      BY <1>0 DEF HeldExact
    <3>3. held'[<<u, j>>] = held[<<u, j>>] + One(<<u, j>> = <<s, i>>)
            - One(<<u, j>> = <<s, last[s]>>) - One(latch /\ synced[u] = j)
      BY <1>4 DEF FrameIds
    <3>4. CASE latch
      <4>1. last'[u] = 0 /\ synced'[u] = stored[u]
        BY <1>2, <3>4, EmptyFrames
      <4>2. CASE u = s
        BY <3>1, <3>2, <3>3, <3>4, <4>1, <4>2, <1>1 DEF One
      <4>3. CASE u # s
        BY <3>1, <3>2, <3>3, <3>4, <4>1, <4>3, <1>1 DEF One
      <4> QED BY <4>2, <4>3
    <3>5. CASE ~latch
      <4>1. last'[u] = stored[u] /\ synced'[u] = synced[u]
        BY <1>3, <3>5
      <4>2. CASE u = s
        BY <3>1, <3>2, <3>3, <3>5, <4>1, <4>2, <1>1 DEF One
      <4>3. CASE u # s
        BY <3>1, <3>2, <3>3, <3>5, <4>1, <4>3, <1>1 DEF One
      <4> QED BY <4>2, <4>3
    <3> QED BY <3>4, <3>5
  <2> QED BY <2>1 DEF HeldExact
<1>6. SyncedFramesMatch'
  BY <1>0, <1>1, <1>2, <1>3 DEF SyncedFramesMatch, latch
<1>7. MatchingSetIsOffered'
  <2>1. CASE latch BY <1>2, <2>1, EmptyFrames, StreamsAssumption DEF MatchingSetIsOffered
  <2>2. CASE ~latch
    <3> SUFFICES ASSUME \A u \in Streams : stored[u] = stored[First]
                 PROVE  \E u \in Streams : synced[u] # 0
      BY <1>3, <2>2 DEF MatchingSetIsOffered
    <3>1. \A u \in Streams : stored[u] = i BY <1>1
    <3> QED BY <2>2, <3>1 DEF latch
  <2> QED BY <2>1, <2>2
<1>8. ReadersInv'
  <2>1. CASE latch
    <3>1. /\ holderEvent' = [u \in Streams |-> TRUE]
          /\ threadEvent' = [t \in Readers |-> threadEvent[t] \/ t \in registered]
          /\ reader' = reader /\ registered' = registered
      BY <1>2, <1>4, <2>1 DEF RaiseNewFrameEvents, readerVars
    <3>2. \A t \in Readers : reader[t].step \in {"block", "wait"} =>
            t \in registered /\ reader[t].stream \in Streams
      BY <1>0, CallerStream DEF ReadersInv, CallerRegistered
    <3>3. CallerRegistered' BY <3>1, <1>0 DEF ReadersInv, CallerRegistered
    <3>4. NoLostWakeup' BY <3>1, <3>2 DEF NoLostWakeup
    <3>5. WaitingReaderIsSignalled' BY <3>1, <3>2 DEF WaitingReaderIsSignalled
    <3> QED BY <3>3, <3>4, <3>5 DEF ReadersInv
  <2>2. CASE ~latch
    BY <1>0, <1>3, <1>4, <2>2
    DEF ReadersInv, CallerRegistered, NoLostWakeup, WaitingReaderIsSignalled, readerVars
  <2> QED BY <2>1, <2>2
<1>9. TypeOK'
  <2>1. held' \in [FrameIds -> Nat]
    <3>1. ASSUME NEW p \in FrameIds PROVE held'[p] \in Nat
      BY <1>5, FrameIdShape DEF HeldExact, One
    <3>2. held' = [p \in FrameIds |-> held'[p]] BY <1>4
    <3> QED BY <3>1, <3>2
  <2>2. Empty \in [Streams -> Indexes \cup {0}] BY DEF Empty
  <2>3. /\ last' \in [Streams -> Indexes \cup {0}]
        /\ synced' \in [Streams -> Indexes \cup {0}]
        /\ given' \in [Streams -> Indexes \cup {0}]
    BY <1>0, <1>1, <1>2, <1>3, <2>2 DEF TypeOK
  <2>4. holderEvent' \in [Streams -> BOOLEAN] /\ threadEvent' \in [Readers -> BOOLEAN]
    BY <1>0, <1>2, <1>3 DEF TypeOK, RaiseNewFrameEvents
  <2> QED BY <1>0, <1>4, <2>1, <2>3, <2>4 DEF TypeOK, readerVars
<1> QED BY <1>5, <1>6, <1>7, <1>8, <1>9 DEF IInv, FramesInv

-----------------------------------------------------------------------------
(* readFrame *)

LEMMA ReadFrameInv ==
    ASSUME IInv, NEW t \in Readers, ReadFrame(t)
    PROVE  IInv'
<1> DEFINE s          == reader[t].stream
           fromSynced == synced[s] # 0
           frame      == IF fromSynced THEN synced[s] ELSE last[s]
           remaining  == IF fromSynced THEN last ELSE [last EXCEPT ![s] = 0]
           others     == {synced[u] : u \in Streams \ {s}} \ {0}
           invalidate == others # {} /\ frame # Newest(others)
           valid      == {u \in Streams : remaining[u] # 0 /\ remaining[u] = last[First]}
                         \cup IF fromSynced THEN {} ELSE {s}
           left       == IF invalidate THEN Empty ELSE [synced EXCEPT ![s] = 0]
           latch      == left = Empty /\ valid = Streams
<1>0. TypeOK /\ SyncedFramesMatch /\ HeldExact /\ MatchingSetIsOffered /\ ReadersInv
  BY DEF IInv, FramesInv
<1>1. s \in Streams /\ frame # 0 /\ reader[t] # Idle
  BY <1>0, CallerStream DEF ReadFrame
<1>2. latch => /\ synced' = remaining /\ last' = Empty
               /\ given' = [Empty EXCEPT ![s] = IF fromSynced THEN 0 ELSE frame]
               /\ RaiseNewFrameEvents
  BY DEF ReadFrame
<1>3. ~latch => /\ synced' = left /\ last' = remaining
                /\ given' = IF left = Empty THEN Empty ELSE [given EXCEPT ![s] = frame]
                /\ UNCHANGED <<holderEvent, threadEvent>>
  BY DEF ReadFrame
<1>4. /\ reader' = [reader EXCEPT ![t] = Idle]
      /\ registered' = registered
      /\ held' = [p \in FrameIds |-> held[p] - One(p = <<s, frame>>)
                   - One(invalidate /\ p[1] # s /\ synced[p[1]] = p[2])]
  BY DEF ReadFrame
<1>5. /\ remaining \in [Streams -> Indexes \cup {0}]
      /\ \A u \in Streams : remaining[u] = IF u = s /\ ~fromSynced THEN 0 ELSE last[u]
  BY <1>0, <1>1 DEF TypeOK
<1>6. /\ left \in [Streams -> Indexes \cup {0}]
      /\ \A u \in Streams : left[u] = IF u = s \/ invalidate THEN 0 ELSE synced[u]
  BY <1>0, <1>1, EmptyFrames DEF TypeOK, Empty
<1>7. frame \in Indexes /\ (fromSynced => frame = synced[s]) /\ (~fromSynced => frame = last[s])
  BY <1>0, <1>1 DEF TypeOK
<1>8. latch => \A u \in Streams : left[u] = 0
  BY EmptyFrames
<1>9. latch => \A u \in Streams : remaining[u] # 0 => remaining[u] = last[First]
  BY <1>5
<1>10. ~latch /\ left = Empty => valid # Streams
  OBVIOUS
<1>11. (\A u \in Streams : remaining[u] # 0 /\ remaining[u] = remaining[First])
         => valid = Streams /\ fromSynced
  BY <1>1, <1>5, StreamsAssumption
<1>12. (\A u \in Streams : left[u] = 0) => left = Empty
  BY <1>6 DEF Empty
<1> HIDE DEF frame, remaining, others, invalidate, valid, left, latch
<1>13. HeldExact'
  <2>1. ASSUME NEW u \in Streams, NEW j \in Indexes
        PROVE  held[<<u, j>>]' = One(last'[u] = j) + One(synced'[u] = j)
    <3>1. j # 0 BY IndexesAssumption
    <3>2. held[<<u, j>>] = One(last[u] = j) + One(synced[u] = j)
      BY <1>0 DEF HeldExact
    <3>3. held'[<<u, j>>] = held[<<u, j>>] - One(<<u, j>> = <<s, frame>>)
            - One(invalidate /\ u # s /\ synced[u] = j)
      BY <1>4 DEF FrameIds
    <3>4. CASE latch
      <4>1. last'[u] = 0 /\ synced'[u] = remaining[u] /\ left[u] = 0
        BY <1>2, <1>8, <3>4, EmptyFrames
      <4>2. CASE u = s
        BY <3>1, <3>2, <3>3, <4>1, <4>2, <1>1, <1>5, <1>7 DEF One
      <4>3. CASE u # s
        BY <3>1, <3>2, <3>3, <4>1, <4>3, <1>1, <1>5, <1>6 DEF One
      <4> QED BY <4>2, <4>3
    <3>5. CASE ~latch
      <4>1. last'[u] = remaining[u] /\ synced'[u] = left[u]
        BY <1>3, <3>5
      <4>2. CASE u = s
        BY <3>1, <3>2, <3>3, <4>1, <4>2, <1>1, <1>5, <1>6, <1>7 DEF One
      <4>3. CASE u # s
        BY <3>1, <3>2, <3>3, <4>1, <4>3, <1>1, <1>5, <1>6 DEF One
      <4> QED BY <4>2, <4>3
    <3> QED BY <3>4, <3>5
  <2> QED BY <2>1 DEF HeldExact
<1>14. SyncedFramesMatch'
  <2>1. CASE latch BY <1>2, <1>9, <2>1 DEF SyncedFramesMatch
  <2>2. CASE ~latch BY <1>0, <1>3, <1>6, <2>2 DEF SyncedFramesMatch
  <2> QED BY <2>1, <2>2
<1>15. MatchingSetIsOffered'
  <2>1. CASE latch BY <1>2, <2>1, EmptyFrames, StreamsAssumption DEF MatchingSetIsOffered
  <2>2. CASE ~latch
    <3> SUFFICES ASSUME \A u \in Streams : remaining[u] # 0 /\ remaining[u] = remaining[First]
                 PROVE  \E u \in Streams : left[u] # 0
      BY <1>3, <2>2 DEF MatchingSetIsOffered
    <3>1. valid = Streams BY <1>11
    <3>2. left # Empty BY <1>10, <2>2, <3>1
    <3> QED BY <3>2, <1>12
  <2> QED BY <2>1, <2>2
<1>16. ReadersInv'
  <2>1. CallerRegistered'
    BY <1>0, <1>4 DEF ReadersInv, CallerRegistered, TypeOK
  <2>2. \A u \in Readers : reader'[u].step \in {"block", "wait"} =>
          /\ reader'[u] = reader[u] /\ u # t
          /\ u \in registered /\ reader[u].stream \in Streams
    BY <1>0, <1>4, CallerStream DEF ReadersInv, CallerRegistered, TypeOK, Idle
  <2>3. CASE latch
    <3>1. /\ holderEvent' = [u \in Streams |-> TRUE]
          /\ threadEvent' = [u \in Readers |-> threadEvent[u] \/ u \in registered]
      BY <1>2, <2>3 DEF RaiseNewFrameEvents
    <3>2. NoLostWakeup' BY <2>2, <3>1 DEF NoLostWakeup
    <3>3. WaitingReaderIsSignalled' BY <2>2, <3>1 DEF WaitingReaderIsSignalled
    <3> QED BY <2>1, <3>2, <3>3 DEF ReadersInv
  <2>4. CASE ~latch
    <3>1. synced' = left /\ UNCHANGED <<holderEvent, threadEvent>> BY <1>3, <2>4
    <3>2. NoLostWakeup'
      BY <1>0, <1>6, <2>2, <3>1 DEF ReadersInv, NoLostWakeup
    <3>3. ASSUME NEW u \in Readers, reader'[u].step = "wait",
                 synced'[reader'[u].stream] # 0, ~holderEvent'[reader'[u].stream]
          PROVE  \E w \in Readers : /\ reader'[w].stream = reader'[u].stream
                                    /\ reader'[w].step = "read"
      <4>1. /\ reader'[u] = reader[u] /\ reader[u].stream \in Streams
            /\ reader[u].stream # s /\ synced[reader[u].stream] # 0
            /\ ~holderEvent[reader[u].stream]
        BY <1>6, <2>2, <3>1, <3>3
      <4>2. PICK w \in Readers : reader[w].stream = reader[u].stream /\ reader[w].step = "read"
        BY <1>0, <3>3, <4>1 DEF ReadersInv, WaitingReaderIsSignalled
      <4>3. w # t BY <4>1, <4>2
      <4> QED BY <1>0, <1>4, <4>1, <4>2, <4>3 DEF TypeOK
    <3>4. WaitingReaderIsSignalled' BY <3>3 DEF WaitingReaderIsSignalled
    <3> QED BY <2>1, <3>2, <3>4 DEF ReadersInv
  <2> QED BY <2>3, <2>4
<1>17. TypeOK'
  <2>1. held' \in [FrameIds -> Nat]
    <3>1. ASSUME NEW p \in FrameIds PROVE held'[p] \in Nat
      BY <1>13, FrameIdShape DEF HeldExact, One
    <3>2. held' = [p \in FrameIds |-> held'[p]] BY <1>4
    <3> QED BY <3>1, <3>2
  <2>2. Empty \in [Streams -> Indexes \cup {0}] BY DEF Empty
  <2>3. /\ last' \in [Streams -> Indexes \cup {0}]
        /\ synced' \in [Streams -> Indexes \cup {0}]
        /\ given' \in [Streams -> Indexes \cup {0}]
    BY <1>0, <1>2, <1>3, <1>5, <1>6, <1>7, <2>2 DEF TypeOK
  <2>4. holderEvent' \in [Streams -> BOOLEAN] /\ threadEvent' \in [Readers -> BOOLEAN]
    BY <1>0, <1>2, <1>3 DEF TypeOK, RaiseNewFrameEvents
  <2> QED BY <1>0, <1>4, <2>1, <2>3, <2>4 DEF TypeOK
<1> QED BY <1>13, <1>14, <1>15, <1>16, <1>17 DEF IInv, FramesInv

-----------------------------------------------------------------------------
(* The other steps. *)

\* A step that leaves the frames alone has only the readers to care for.
LEMMA FramesUnchanged ==
    ASSUME FramesInv, UNCHANGED <<last, synced, held>>
    PROVE  FramesInv'
BY DEF FramesInv, SyncedFramesMatch, HeldExact, MatchingSetIsOffered

LEMMA RegroupInv == ASSUME IInv, Regroup PROVE IInv'
<1>0. TypeOK /\ HeldExact /\ ReadersInv
  BY DEF IInv, FramesInv
<1>1. /\ \A s \in Streams : last'[s] = 0 /\ synced'[s] = 0
      /\ last' = Empty /\ synced' = Empty /\ given' = Empty
  BY EmptyFrames DEF Regroup
<1>2. ASSUME NEW s \in Streams, NEW i \in Indexes
      PROVE  held'[<<s, i>>] = 0
  <2>1. held[<<s, i>>] = One(last[s] = i) + One(synced[s] = i)
    BY <1>0 DEF HeldExact
  <2>2. held'[<<s, i>>] = held[<<s, i>>] - One(last[s] = i) - One(synced[s] = i)
    BY DEF Regroup, FrameIds
  <2> QED BY <2>1, <2>2 DEF One
<1>3. FramesInv'
  BY <1>1, <1>2, IndexesAssumption, StreamsAssumption
  DEF FramesInv, SyncedFramesMatch, HeldExact, MatchingSetIsOffered, One
<1>4. ReadersInv'
  <2>1. \A t \in Readers : reader[t].step \in {"block", "wait"} => reader[t].stream \in Streams
    BY <1>0, CallerStream
  <2> QED BY <1>0, <1>1, <2>1
          DEF Regroup, ReadersInv, CallerRegistered, NoLostWakeup,
              WaitingReaderIsSignalled, readerVars
<1>5. TypeOK'
  <2>1. held' \in [FrameIds -> Nat]
    <3>1. ASSUME NEW p \in FrameIds PROVE held'[p] \in Nat BY <1>2, FrameIdShape
    <3>2. held' = [p \in FrameIds |-> held'[p]] BY DEF Regroup
    <3> QED BY <3>1, <3>2
  <2> QED BY <1>0, <1>1, <2>1 DEF Regroup, TypeOK, Empty, readerVars
<1> QED BY <1>3, <1>4, <1>5 DEF IInv

LEMMA NextIInv == IInv /\ [Next]_vars => IInv'
<1> SUFFICES ASSUME IInv, [Next]_vars PROVE IInv' OBVIOUS
<1>0. TypeOK /\ FramesInv /\ CallerRegistered /\ NoLostWakeup /\ WaitingReaderIsSignalled
  BY DEF IInv, ReadersInv
<1>1. ASSUME NEW s \in Streams, NEW i \in Indexes, ProcessNewFrame(s, i) PROVE IInv'
  BY <1>1, ProcessNewFrameInv
<1>2. ASSUME NEW t \in Readers, ReadFrame(t) PROVE IInv'
  BY <1>2, ReadFrameInv
<1>3. CASE Regroup
  BY <1>3, RegroupInv
<1>4. ASSUME NEW t \in Readers, NEW s \in Streams, Call(t, s) PROVE IInv'
  <2>1. FramesInv' BY <1>0, <1>4, FramesUnchanged DEF Call
  <2>2. TypeOK' BY <1>0, <1>4 DEF Call, TypeOK
  <2>3. ReadersInv'
    BY <1>0, <1>4
    DEF Call, ReadersInv, CallerRegistered, NoLostWakeup, WaitingReaderIsSignalled,
        TypeOK, Idle
  <2> QED BY <2>1, <2>2, <2>3 DEF IInv
<1>5. ASSUME NEW t \in Readers, Peek(t) PROVE IInv'
  <2>0. reader[t].stream \in Streams /\ reader[t] # Idle BY <1>0, <1>5, CallerStream DEF Peek
  <2>1. FramesInv' BY <1>0, <1>5, FramesUnchanged DEF Peek
  <2>2. TypeOK' BY <1>0, <1>5, <2>0 DEF Peek, Step, TypeOK, Idle
  <2>3. ReadersInv'
    BY <1>0, <1>5, <2>0
    DEF Peek, Step, ReadersInv, CallerRegistered, NoLostWakeup, WaitingReaderIsSignalled,
        TypeOK, Idle
  <2> QED BY <2>1, <2>2, <2>3 DEF IInv
<1>6. ASSUME NEW t \in Readers, Wake(t) PROVE IInv'
  <2>0. reader[t].stream \in Streams /\ reader[t] # Idle BY <1>0, <1>6, CallerStream DEF Wake
  <2>1. FramesInv' BY <1>0, <1>6, FramesUnchanged DEF Wake
  <2>2. TypeOK' BY <1>0, <1>6, <2>0 DEF Wake, Step, TypeOK, Idle
  <2>3. ReadersInv'
    BY <1>0, <1>6, <2>0
    DEF Wake, Step, ReadersInv, CallerRegistered, NoLostWakeup, WaitingReaderIsSignalled,
        TypeOK, Idle
  <2> QED BY <2>1, <2>2, <2>3 DEF IInv
<1>7. ASSUME NEW t \in Readers, Return(t) PROVE IInv'
  <2>1. FramesInv' BY <1>0, <1>7, FramesUnchanged DEF Return
  <2>2. TypeOK' BY <1>0, <1>7 DEF Return, TypeOK
  <2>3. ReadersInv'
    BY <1>0, <1>7
    DEF Return, ReadersInv, CallerRegistered, NoLostWakeup, WaitingReaderIsSignalled,
        TypeOK, Idle
  <2> QED BY <2>1, <2>2, <2>3 DEF IInv
<1>8. ASSUME NEW t \in Readers, FindNothing(t) PROVE IInv'
  <2>0. reader[t].stream \in Streams /\ reader[t] # Idle
    BY <1>0, <1>8, CallerStream DEF FindNothing
  <2>1. FramesInv' BY <1>0, <1>8, FramesUnchanged DEF FindNothing
  <2>2. TypeOK' BY <1>0, <1>8, <2>0 DEF FindNothing, Step, TypeOK, Idle
  <2>3. ReadersInv'
    BY <1>0, <1>8, <2>0
    DEF FindNothing, Step, ReadersInv, CallerRegistered, NoLostWakeup,
        WaitingReaderIsSignalled, TypeOK, Idle
  <2> QED BY <2>1, <2>2, <2>3 DEF IInv
<1>9. ASSUME NEW t \in Readers, WaitNewFrameEvent(t) PROVE IInv'
  <2>0. reader[t].stream \in Streams /\ reader[t] # Idle
    BY <1>0, <1>9, CallerStream DEF WaitNewFrameEvent
  <2>1. FramesInv' BY <1>0, <1>9, FramesUnchanged DEF WaitNewFrameEvent
  <2>2. TypeOK' BY <1>0, <1>9, <2>0 DEF WaitNewFrameEvent, Step, TypeOK, Idle
  <2>3. ReadersInv'
    BY <1>0, <1>9, <2>0
    DEF WaitNewFrameEvent, Step, ReadersInv, CallerRegistered, NoLostWakeup,
        WaitingReaderIsSignalled, TypeOK, Idle
  <2> QED BY <2>1, <2>2, <2>3 DEF IInv
<1>10. CASE UNCHANGED vars
  BY <1>0, <1>10
  DEF vars, IInv, FramesInv, SyncedFramesMatch, HeldExact, MatchingSetIsOffered,
      ReadersInv, CallerRegistered, NoLostWakeup, WaitingReaderIsSignalled, TypeOK
<1> QED
  BY <1>1, <1>2, <1>3, <1>4, <1>5, <1>6, <1>7, <1>8, <1>9, <1>10 DEF Next, ReaderStep

\* IInv holds in every reachable state of SyncedStreamsFrameHolder and its readers.
THEOREM IndInv == Spec => []IInv
BY InitIInv, NextIInv, PTL DEF Spec

-----------------------------------------------------------------------------
(* Results *)

\* Types, for any group.
THEOREM TypeCorrect == Spec => []TypeOK
<1>1. IInv => TypeOK BY DEF IInv
<1> QED BY <1>1, IndInv, PTL

\* The frames on offer always belong together.
THEOREM SyncedSetsMatch == Spec => []SyncedFramesMatch
<1>1. IInv => SyncedFramesMatch BY DEF IInv, FramesInv
<1> QED BY <1>1, IndInv, PTL

\* The holder owns exactly the references of the frames it keeps.
THEOREM ReferencesExact == Spec => []HeldExact
<1>1. IInv => HeldExact BY DEF IInv, FramesInv
<1> QED BY <1>1, IndInv, PTL

\* A matching set is never left behind.
THEOREM MatchingSetsAreOffered == Spec => []MatchingSetIsOffered
<1>1. IInv => MatchingSetIsOffered BY DEF IInv, FramesInv
<1> QED BY <1>1, IndInv, PTL

\* No reader misses the news of a synced frame, in waitForStreams ...
THEOREM NoWakeupIsLost == Spec => []NoLostWakeup
<1>1. IInv => NoLostWakeup BY DEF IInv, ReadersInv
<1> QED BY <1>1, IndInv, PTL

\* ... and in readFrame.
THEOREM WaitingReadersAreSignalled == Spec => []WaitingReaderIsSignalled
<1>1. IInv => WaitingReaderIsSignalled BY DEF IInv, ReadersInv
<1> QED BY <1>1, IndInv, PTL

-----------------------------------------------------------------------------
(* Which holder a stream has (DepthColorSync). *)

\* The holders that exist are the one of the device's handle, which is the only one a
\* stream can have, and those that refused groups left behind.
Sound(x, run) ==
    /\ x \in SyncStates
    /\ x.live = x.leaked \cup ({x.handle} \ {NoGroup}) /\ x.handle \notin x.leaked
    /\ x.inDriver = {x.handle} \ {NoGroup}
    /\ x.handle # NoGroup => x.enabled /\ x.context
    /\ x.enabled => x.context
    /\ x.handle # NoGroup => x.members[x.handle] \subseteq run
    /\ \A s \in VideoStreams : x.holder[s] # Own =>
         x.holder[s] = x.handle /\ s \in x.members[x.handle]

SyncInv == SyncTypeOK /\ Sound(sync, started)

\* A stream that shares a holder shares the one of the device's handle, which exists.
LEMMA SharedHolder ==
    ASSUME NEW x, NEW run, Sound(x, run), NEW s \in VideoStreams, x.holder[s] # Own
    PROVE  /\ x.handle # NoGroup /\ x.holder[s] = x.handle /\ x.handle \in x.live
           /\ s \in x.members[x.handle] /\ s \in run
<1>1. x.holder[s] \in Groups
  BY DEF Sound, SyncStates
<1>2. x.holder[s] = x.handle /\ s \in x.members[x.handle] /\ x.handle # NoGroup
  BY <1>1, NamesAssumption DEF Sound
<1> QED BY <1>2 DEF Sound

\* More started streams do no harm.
LEMMA SoundGrows ==
    ASSUME NEW x, NEW run, NEW more, Sound(x, run), run \subseteq more
    PROVE  Sound(x, more)
BY DEF Sound

\* disableDepthColorSync leaves no group, so that any streams may be started, and
\* forgets no holder that is still there.
LEMMA DisableSound ==
    ASSUME NEW x, NEW run, NEW any, Sound(x, run)
    PROVE  /\ Sound(Disable(x), any) /\ Disable(x).handle = NoGroup
           /\ Disable(x).leaked = x.leaked
<1>1. CASE x.handle = NoGroup
  BY <1>1 DEF Sound, Disable
<1>2. CASE x.handle # NoGroup
  <2> DEFINE y == [x EXCEPT
         !.live = @ \ {x.handle},
         !.holder = [s \in VideoStreams |-> IF s \in x.members[x.handle] THEN Own
                                                                       ELSE x.holder[s]],
         !.inDriver = @ \ {x.handle}, !.handle = NoGroup, !.context = FALSE,
         !.enabled = FALSE]
  <2>1. Disable(x) = y
    BY <1>2 DEF Sound, Disable, Unlink, SyncStates
  <2>2. y \in SyncStates
    BY <1>2 DEF Sound, SyncStates
  <2>3. /\ y.live = x.live \ {x.handle} /\ y.inDriver = x.inDriver \ {x.handle}
        /\ y.leaked = x.leaked /\ y.handle = NoGroup
        /\ y.enabled = FALSE /\ y.context = FALSE
    BY <1>2 DEF Sound, SyncStates
  <2>4. y.live = y.leaked /\ y.inDriver = {} /\ NoGroup \notin y.leaked
    BY <1>2, <2>3, NamesAssumption DEF Sound, SyncStates
  <2>5. \A s \in VideoStreams : y.holder[s] = Own
    BY <1>2, NamesAssumption DEF Sound, SyncStates
  <2> HIDE DEF y
  <2> QED BY <2>1, <2>2, <2>3, <2>4, <2>5 DEF Sound
<1> QED BY <1>1, <1>2

\* enableDepthColorSync, called when there is no group, with the address g of a holder
\* that is not in use nor leaked. The new holder becomes the group or is leaked.
LEMMA EnableSound ==
    ASSUME NEW x, NEW before, NEW run \in SUBSET VideoStreams, NEW g \in Groups,
           NEW accepts \in BOOLEAN, Sound(x, before), x.handle = NoGroup, g \notin x.leaked
    PROVE  /\ Sound(Enable(x, run, g, accepts), run)
           /\ Enable(x, run, g, accepts).handle # NoGroup =>
                g \notin Enable(x, run, g, accepts).leaked
<1> DEFINE on == [x EXCEPT !.context = TRUE, !.enabled = TRUE, !.refused = FALSE]
           S  == run \cap DepthColor
<1>1. /\ on \in SyncStates /\ on.handle = NoGroup /\ on.inDriver = {}
      /\ on.live = on.leaked /\ on.leaked = x.leaked
      /\ on.enabled /\ on.context /\ \A s \in VideoStreams : on.holder[s] = Own
  BY NamesAssumption DEF Sound, SyncStates
<1>2. CASE S = {}
  BY <1>1, <1>2, NamesAssumption DEF Enable, Sound, SyncStates
<1>3. CASE S # {} /\ ~accepts
  <2> DEFINE y == Refuse(on, g)
  <2> HIDE DEF on
  <2>1. /\ y \in SyncStates /\ y.handle = NoGroup /\ y.inDriver = {}
        /\ y.live = on.live \cup {g} /\ y.leaked = on.leaked \cup {g}
        /\ y.enabled /\ y.context /\ \A s \in VideoStreams : y.holder[s] = Own
    BY <1>1 DEF Refuse, SyncStates
  <2>2. Enable(x, run, g, accepts) = y
    BY <1>3 DEF Enable, on
  <2> HIDE DEF y
  <2>3. y.live = y.leaked /\ NoGroup \notin y.leaked
    BY <1>1, <2>1, NamesAssumption DEF SyncStates
  <2>4. Sound(y, run)
    BY <2>1, <2>3 DEF Sound
  <2> QED BY <2>1, <2>2, <2>4
<1>4. CASE S # {} /\ accepts
  <2> DEFINE y == Link(on, S, g)
  <2> HIDE DEF on
  <2>1. /\ y.handle = g /\ y.inDriver = {g} /\ y.leaked = on.leaked
        /\ y.enabled /\ y.context
    BY <1>1 DEF Link, SyncStates
  <2>2. y.live = on.leaked \cup {g}
    <3>1. y.live = (on.live \ {on.holder[s] : s \in S}) \cup {g}
      BY <1>1 DEF Link, SyncStates
    <3>2. \A s \in S : on.holder[s] \notin Groups
      BY <1>1, NamesAssumption
    <3>3. on.live \subseteq Groups
      BY <1>1 DEF SyncStates
    <3> QED BY <1>1, <3>1, <3>2, <3>3
  <2>3. y.members = [on.members EXCEPT ![g] = S] /\ y.members[g] = S
    BY <1>1 DEF Link, SyncStates
  <2>4. y.holder = [s \in VideoStreams |-> IF s \in S THEN g ELSE on.holder[s]]
    BY <1>1 DEF Link, SyncStates
  <2>5. \A s \in VideoStreams : y.holder[s] # Own => y.holder[s] = g /\ s \in S
    BY <2>4, <1>1
  <2>6. y.members \in [Groups -> SUBSET VideoStreams]
    <3>1. on.members \in [Groups -> SUBSET VideoStreams] /\ S \in SUBSET VideoStreams
      BY <1>1 DEF SyncStates
    <3> HIDE DEF y, S
    <3> QED BY <2>3, <3>1
  <2>7. y.holder \in [VideoStreams -> Groups \cup {Own}]
    <3>1. on.holder \in [VideoStreams -> Groups \cup {Own}]
      BY <1>1 DEF SyncStates
    <3> HIDE DEF y, S
    <3> QED BY <2>4, <3>1
  <2>8. y.live \subseteq Groups
    BY <2>2, <1>1 DEF SyncStates
  <2>9. y \in SyncStates
    BY <2>1, <2>6, <2>7, <2>8, <1>1 DEF Link, SyncStates
  <2>10. Enable(x, run, g, accepts) = y
    BY <1>4 DEF Enable, on
  <2> HIDE DEF y
  <2>11. g # NoGroup /\ y.live = y.leaked \cup {g} /\ g \notin y.leaked
    BY <1>1, <2>1, <2>2, NamesAssumption
  <2>12. Sound(y, run)
    BY <2>1, <2>3, <2>5, <2>9, <2>11 DEF Sound
  <2> QED BY <2>1, <2>10, <2>11, <2>12
<1> QED BY <1>2, <1>3, <1>4

\* Each refresh that makes a holder is given an address that no leaked one has.
LEMMA RefreshSound ==
    ASSUME NEW x, NEW before, NEW run \in SUBSET VideoStreams, NEW g \in Groups,
           NEW accepts \in BOOLEAN, Sound(x, before), g \notin x.leaked
    PROVE  /\ Sound(Refresh(x, run, g, accepts), run)
           /\ Refresh(x, run, g, accepts).handle # NoGroup =>
                g \notin Refresh(x, run, g, accepts).leaked
<1>1. CASE x.enabled
  <2>1. /\ Sound(Disable(x), run) /\ Disable(x).handle = NoGroup
        /\ g \notin Disable(x).leaked
    BY DisableSound
  <2> QED BY <1>1, <2>1, EnableSound DEF Refresh
<1>2. CASE ~x.enabled
  <2>1. x.handle = NoGroup
    BY <1>2 DEF Sound
  <2> QED BY <1>2, <2>1 DEF Refresh, Sound
<1> QED BY <1>1, <1>2

LEMMA RefreshForSound ==
    ASSUME NEW x, NEW s, NEW run \in SUBSET VideoStreams, NEW g \in Groups,
           NEW accepts \in BOOLEAN, Sound(x, run), x.handle # NoGroup => g \notin x.leaked
    PROVE  Sound(RefreshFor(s, x, run, g, accepts), run)
<1>1. CASE s \in DepthColor /\ x.handle # NoGroup /\ x.context
  BY <1>1, RefreshSound DEF RefreshFor
<1>2. CASE ~(s \in DepthColor /\ x.handle # NoGroup /\ x.context)
  BY <1>2 DEF RefreshFor
<1> QED BY <1>1, <1>2

\* The history of the application's requests is no part of Sound.
LEMMA WantedSound ==
    ASSUME NEW x, NEW run, NEW on \in BOOLEAN, Sound(x, run)
    PROVE  Sound([x EXCEPT !.wanted = on], run)
<1> DEFINE y == [x EXCEPT !.wanted = on]
<1>1. /\ y \in SyncStates /\ y.live = x.live /\ y.leaked = x.leaked
      /\ y.inDriver = x.inDriver /\ y.handle = x.handle /\ y.enabled = x.enabled /\ y.context = x.context
      /\ y.members = x.members /\ y.holder = x.holder
  BY DEF Sound, SyncStates
<1> HIDE DEF y
<1>2. Sound(y, run) BY <1>1 DEF Sound
<1> QED BY <1>2 DEF y

LEMMA InitSyncInv == SyncInit => SyncInv
<1> SUFFICES ASSUME SyncInit PROVE SyncInv OBVIOUS
<1>1. sync \in SyncStates
  BY DEF SyncInit, SyncStates
<1> QED BY <1>1 DEF SyncInit, SyncInv, SyncTypeOK, Sound

LEMMA NextSyncInv == SyncInv /\ [SyncNext]_syncVars => SyncInv'
<1> SUFFICES ASSUME SyncInv, [SyncNext]_syncVars PROVE SyncInv' OBVIOUS
<1>0. /\ streams \subseteq VideoStreams /\ started \subseteq streams
      /\ started \in SUBSET VideoStreams /\ Sound(sync, started)
  BY DEF SyncInv, SyncTypeOK
<1>a. \A g \in Groups \ sync.live : g \in Groups /\ g \notin sync.leaked
  BY <1>0 DEF Sound
<1>b. Answers \subseteq BOOLEAN
  BY DEF Answers
<1> SUFFICES /\ streams' \subseteq VideoStreams /\ started' \subseteq streams'
             /\ Sound(sync', started')
  BY DEF SyncInv, SyncTypeOK, Sound
<1>1. ASSUME NEW g \in Groups \ sync.live, NEW accepts \in Answers,
             EnableDepthColorSync(g, accepts)
      PROVE  Sound(sync', started') /\ UNCHANGED <<streams, started>>
  <2>1. Sound(Enable(sync, started, g, accepts), started)
    BY <1>0, <1>a, <1>b, <1>1, EnableSound DEF EnableDepthColorSync
  <2> QED BY <1>1, <2>1, WantedSound DEF EnableDepthColorSync
<1>2. CASE DisableDepthColorSync
  <2>1. Sound(Disable(sync), started)
    BY <1>0, DisableSound
  <2> QED BY <1>0, <1>2, <2>1, WantedSound DEF DisableDepthColorSync
<1>3. ASSUME NEW g \in Groups \ sync.live, NEW accepts \in Answers, NEW s \in VideoStreams,
             CreateStream(s, g, accepts)
      PROVE  /\ streams' \subseteq VideoStreams /\ started' \subseteq streams'
             /\ Sound(sync', started')
  BY <1>0, <1>a, <1>b, <1>3, RefreshForSound DEF CreateStream
<1>4. ASSUME NEW g \in Groups \ sync.live, NEW accepts \in Answers, NEW s \in VideoStreams,
             StartStream(s, g, accepts)
      PROVE  /\ streams' \subseteq VideoStreams /\ started' \subseteq streams'
             /\ Sound(sync', started')
  <2>1. Sound(sync', started)
    BY <1>0, <1>a, <1>b, <1>4, RefreshSound DEF StartStream
  <2> QED BY <1>0, <1>4, <2>1, SoundGrows DEF StartStream
<1>5. ASSUME NEW g \in Groups \ sync.live, NEW accepts \in Answers, NEW s \in VideoStreams,
             StopStream(s, g, accepts)
      PROVE  /\ streams' \subseteq VideoStreams /\ started' \subseteq streams'
             /\ Sound(sync', started')
  <2>1. started' \in SUBSET VideoStreams BY <1>0, <1>5 DEF StopStream
  <2> QED BY <1>0, <1>a, <1>b, <1>5, <2>1, RefreshSound DEF StopStream
<1>6. ASSUME NEW g \in Groups \ sync.live, NEW accepts \in Answers, NEW s \in VideoStreams,
             NEW again \in Answers, DestroyStream(s, g, accepts, again)
      PROVE  /\ streams' \subseteq VideoStreams /\ started' \subseteq streams'
             /\ Sound(sync', started')
  <2> DEFINE run     == started \ {s}
             stopped == IF s \in started THEN Refresh(sync, run, g, accepts) ELSE sync
  <2>0. g \in Groups /\ g \notin sync.leaked /\ accepts \in BOOLEAN /\ again \in BOOLEAN
    BY <1>a, <1>b
  <2>1. run \in SUBSET VideoStreams BY <1>0
  <2>2. Sound(stopped, run) /\ (stopped.handle # NoGroup => g \notin stopped.leaked)
    <3>1. CASE s \in started BY <1>0, <2>0, <2>1, <3>1, RefreshSound
    <3>2. CASE s \notin started
      <4>1. run = started BY <3>2
      <4> QED BY <1>0, <2>0, <3>2, <4>1
    <3> QED BY <3>1, <3>2
  <2> HIDE DEF stopped
  <2>3. stopped.holder[s] = Own
    BY <2>2, SharedHolder
  <2>4. sync' = RefreshFor(s, stopped, run, g, again)
    BY <1>6, <2>3 DEF DestroyStream, stopped
  <2>5. Sound(sync', run)
    BY <2>0, <2>1, <2>2, <2>4, RefreshForSound
  <2> QED BY <1>0, <1>6, <2>5 DEF DestroyStream
<1>7. CASE UNCHANGED syncVars
  BY <1>0, <1>7 DEF syncVars
<1> QED BY <1>0, <1>1, <1>2, <1>3, <1>4, <1>5, <1>6, <1>7 DEF SyncNext

\* SyncInv holds in every reachable state of a Device and of the Context that keeps its group.
THEOREM SyncInvariance == SyncSpec => []SyncInv
BY InitSyncInv, NextSyncInv, PTL DEF SyncSpec

\* Types, for any device.
THEOREM SyncTypeCorrect == SyncSpec => []SyncTypeOK
<1>1. SyncInv => SyncTypeOK BY DEF SyncInv
<1> QED BY <1>1, SyncInvariance, PTL

\* No stream of any device ever points to a deleted holder.
THEOREM StreamsHaveHolders == SyncSpec => []HoldersAreLive
<1>1. SyncInv => HoldersAreLive BY SharedHolder DEF SyncInv, SyncTypeOK, HoldersAreLive
<1> QED BY <1>1, SyncInvariance, PTL

\* No group waits for a stream that is stopped or destroyed.
THEOREM GroupsAreStarted == SyncSpec => []GroupIsStarted
<1>1. SyncInv => GroupIsStarted BY DEF SyncInv, Sound, GroupIsStarted
<1> QED BY <1>1, SyncInvariance, PTL

\* However often streams are regrouped, a holder that no stream uses is left behind only
\* by a group that the driver refused, and the driver keeps no group but the device's.
THEOREM LeaksAreRefusals == SyncSpec => []OnlyRefusalsLeak
<1>1. SyncInv => OnlyRefusalsLeak
  <2> SUFFICES ASSUME SyncInv PROVE OnlyRefusalsLeak OBVIOUS
  <2>1. Sound(sync, started) BY DEF SyncInv
  <2>2. Own \notin sync.leaked BY <2>1, NamesAssumption DEF Sound, SyncStates
  <2> QED BY <2>1, <2>2 DEF Sound, OnlyRefusalsLeak
<1> QED BY <1>1, SyncInvariance, PTL

\* A refresh never switches the sync on with a NULL context.
THEOREM ContextIsKept == SyncSpec => []RefreshHasContext
<1>1. SyncInv => RefreshHasContext BY DEF SyncInv, Sound, RefreshHasContext
<1> QED BY <1>1, SyncInvariance, PTL
=============================================================================
