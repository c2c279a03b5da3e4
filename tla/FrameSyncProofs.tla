----------------------------- MODULE FrameSyncProofs -----------------------------
(***************************************************************************)
(* Proofs about FrameSync for any bounds, any groups of the two streams and *)
(* any number of threads of the application: types, exact references, sets *)
(* of one moment, no complete set that waits, and the sync of the driver.  *)
(***************************************************************************)
EXTENDS FrameSync, FiniteSetTheorems, TLAPS

\* A USB thread has the last frame it made, which is in no list yet; the frames of the
\* list are of their streams.
FrameInv ==
    /\ \A s \in Streams :
        /\ usb[s].frame = None <=> usb[s].at \in {"off", "wait"}
        /\ usb[s].frame # None => usb[s].frame.stream = s /\ usb[s].frame.id = stable[s].id
    /\ \A i \in DOMAIN synced : synced[i].frame # None =>
        LET s == synced[i].stream IN
        /\ synced[i].frame.stream = s
        /\ synced[i].frame.id <= stable[s].id
        /\ usb[s].frame # None => synced[i].frame.id < stable[s].id

\* Only streams of the group were handed a set.
SetInv ==
    \A s \in Streams : handed[s].kind = "set" => \E i \in DOMAIN synced : synced[i].stream = s

\* Unless something disturbed it, a decision that is not in force yet agrees with the
\* properties, and there is one when the flag does not.
Deciding(a) == app[a].at \in {"decide", "flag", "groupDecide", "groupFlag"}
DecisionInv ==
    undisturbed =>
        /\ \A a \in Apps : app[a].at \in {"flag", "groupFlag"} => app[a].value = Both
        /\ enabled = Both \/ \E a \in Apps : Deciding(a)

IInv ==
    /\ TypeOK /\ FrameInv /\ SetInv /\ DecisionInv
    /\ ReferencesExact /\ SetIsOfOneMoment /\ NoCompleteSetWaits

-----------------------------------------------------------------------------
(* What the loop of OnNewStreamData finds. *)

LEMMA Minimum ==
    ASSUME NEW S \in SUBSET Nat, S # {}
    PROVE  \E m \in S : \A n \in S : m <= n
<1> DEFINE R == OpToRel(<, Nat)
<1>1. IsWellFoundedOn(R, Nat)
  BY NatLessThanWellFounded
<1>2. \A m, n \in Nat : n < m => <<n, m>> \in R
  BY DEF OpToRel
<1> HIDE DEF R
<1>3. PICK m \in S : \A n \in S : <<n, m>> \notin R
  BY <1>1, WFMin
<1>4. ASSUME NEW n \in S PROVE m <= n
  <2>1. m \in Nat /\ n \in Nat /\ ~(n < m)
    BY <1>2, <1>3
  <2> QED BY <2>1
<1> QED BY <1>4

LEMMA Maximum ==
    ASSUME NEW k \in Nat, NEW S \in SUBSET (0..k), S # {}
    PROVE  \E m \in S : \A n \in S : n <= m
<1> DEFINE T == {k - n : n \in S}
<1>0. \A n \in S : n \in 0..k /\ k - n \in Nat
  OBVIOUS
<1>1. T # {} /\ T \in SUBSET Nat
  BY <1>0
<1>2. PICK t \in T : \A n \in T : t <= n
  BY <1>1, Minimum
<1>3. PICK m \in S : t = k - m
  BY <1>2
<1>4. \A n \in S : k - m <= k - n
  BY <1>2, <1>3
<1> QED BY <1>4

LEMMA Entry ==
    ASSUME TypeOK
    PROVE  /\ Len(synced) \in Nat /\ DOMAIN synced = 1..Len(synced)
           /\ \A i \in DOMAIN synced : synced[i] \in Entries
BY DEF TypeOK

LEMMA EndOfLoop ==
    ASSUME TypeOK, NEW f \in TimedFrames
    PROVE  /\ End(f) \in 1..(Len(synced) + 1)
           /\ End(f) <= Len(synced) => enabled /\ IsFar(f, synced[End(f)])
           /\ \A i \in DOMAIN synced : enabled /\ i < End(f) => ~IsFar(f, synced[i])
<1> DEFINE far == {i \in DOMAIN synced : enabled /\ IsFar(f, synced[i])}
<1> HIDE DEF far
<1>0. far = {i \in DOMAIN synced : enabled /\ IsFar(f, synced[i])}
  BY DEF far
<1>1. far \in SUBSET (1..Len(synced))
  BY <1>0, Entry
<1>2. End(f) = IF far = {} THEN Len(synced) + 1
                           ELSE CHOOSE i \in far : \A j \in far : i <= j
  BY DEF End, far
<1>3. CASE far = {}
  BY <1>0, <1>2, <1>3, Entry
<1>4. CASE far # {}
  <2>1. \E i \in far : \A j \in far : i <= j
    BY <1>1, <1>4, Minimum, far \in SUBSET Nat
  <2>2. End(f) \in far /\ \A j \in far : End(f) <= j
    BY <1>2, <1>4, <2>1
  <2>3. End(f) \in 1..Len(synced) /\ enabled /\ IsFar(f, synced[End(f)])
    BY <1>0, <1>1, <2>2
  <2>4. ASSUME NEW i \in DOMAIN synced, enabled, i < End(f) PROVE ~IsFar(f, synced[i])
    BY <1>0, <2>2, <2>3, <2>4, Entry
  <2> QED BY <2>3, <2>4, Entry
<1> QED BY <1>3, <1>4

\* The set is complete when the loop came to the end and there is a frame in each entry.
LEMMA CompleteSet ==
    ASSUME TypeOK, NEW f \in TimedFrames
    PROVE  IsComplete(f) <=> Counted(f) = DOMAIN synced
<1>1. IsFiniteSet(1..Len(synced)) /\ Cardinality(1..Len(synced)) = Len(synced)
  BY FS_Interval, Entry
<1>2. Counted(f) \in SUBSET (1..Len(synced))
  BY Entry DEF Counted
<1> QED BY <1>1, <1>2, FS_Subset, Entry DEF IsComplete

LEMMA CompleteFrames ==
    ASSUME TypeOK, NEW f \in TimedFrames, Own(f) # {}, IsComplete(f)
    PROVE  /\ enabled /\ Outdated(f) = {}
           /\ \A i \in DOMAIN synced :
                /\ ~IsFar(f, synced[i])
                /\ i \in Own(f) <=> synced[i].stream = f.stream
                /\ i \in Own(f) \/ synced[i].frame # None
<1>1. enabled /\ synced # <<>> /\ Len(synced) \in DOMAIN synced
  BY Entry DEF Own
<1>2. Counted(f) = DOMAIN synced
  BY CompleteSet
<1>3. Len(synced) < End(f)
  BY <1>1, <1>2 DEF Counted
<1>4. \A i \in DOMAIN synced : i < End(f)
  BY <1>3, Entry, EndOfLoop
<1> QED BY <1>1, <1>2, <1>3, <1>4, Entry, EndOfLoop DEF Outdated, Own, Counted

\* Otherwise an entry stays, or becomes, empty.
LEMMA IncompleteFrames ==
    ASSUME TypeOK, NEW f \in TimedFrames, Own(f) # {}, ~IsComplete(f)
    PROVE  \E i \in DOMAIN synced : Stored(f)[i].frame = None
<1>1. CASE End(f) > Len(synced)
  <2>1. PICK i \in DOMAIN synced : i \notin Counted(f)
    BY CompleteSet DEF Counted
  <2>2. Outdated(f) = {} /\ i < End(f)
    BY <1>1, Entry, EndOfLoop DEF Outdated
  <2>3. i \notin Own(f) /\ synced[i].frame = None
    BY <2>1, <2>2 DEF Counted, Own
  <2> QED BY <2>2, <2>3 DEF Stored
<1>2. CASE End(f) <= Len(synced)
  <2>1. Own(f) \in SUBSET (0..Len(synced)) /\ Own(f) \subseteq DOMAIN synced
    BY Entry DEF Own
  <2>2. \E m \in Own(f) : \A n \in Own(f) : n <= m
    BY <2>1, Maximum, Entry
  <2>3. Last(Own(f)) # {} /\ Last(Own(f)) \subseteq DOMAIN synced
    BY <2>1, <2>2 DEF Last
  <2>4. \E i \in DOMAIN synced : i \in Outdated(f)
    BY <1>2, <2>3, EndOfLoop, Entry DEF Outdated
  <2>5. PICK i \in DOMAIN synced : i \in Outdated(f)
    BY <2>4
  <2>6. Stored(f)[i] = [synced[i] EXCEPT !.frame = None] /\ synced[i] \in Entries
    BY <2>5, Entry DEF Stored
  <2> QED BY <2>6 DEF Entries
<1> QED BY <1>1, <1>2, EndOfLoop, Entry

-----------------------------------------------------------------------------
(* What the list is after a frame was stored in it. *)

LEMMA StoredEntries ==
    ASSUME TypeOK, NEW f \in TimedFrames
    PROVE  /\ Stored(f) \in Seq(Entries) /\ DOMAIN Stored(f) = DOMAIN synced
           /\ \A i \in DOMAIN synced :
                /\ Stored(f)[i].stream = synced[i].stream
                /\ Stored(f)[i].frame = IF i \in Outdated(f) THEN None
                                        ELSE IF i \in Own(f) THEN f ELSE synced[i].frame
<1>1. ASSUME NEW i \in DOMAIN synced
      PROVE  /\ Stored(f)[i] \in Entries /\ Stored(f)[i].stream = synced[i].stream
             /\ Stored(f)[i].frame = IF i \in Outdated(f) THEN None
                                     ELSE IF i \in Own(f) THEN f ELSE synced[i].frame
  <2>1. synced[i] \in [stream : Streams, frame : TimedFrames \cup {None}]
    BY Entry DEF Entries
  <2> QED BY <2>1 DEF Stored, Entries
<1>2. Stored(f) \in [1..Len(synced) -> Entries]
  BY <1>1, Entry DEF Stored
<1> QED BY <1>1, <1>2, Entry DEF Stored

\* The entries of list q that have frame g, and the threads of u that do.
Holding(q, g) == {i \in DOMAIN q : q[i].frame # None /\ FrameOf(q[i].frame) = g}
Using(u, g) == {s \in Streams : u[s].frame # None /\ FrameOf(u[s].frame) = g}

LEMMA HoldingIsFinite ==
    ASSUME NEW q \in Seq(Entries), NEW g, NEW S, S \subseteq DOMAIN q
    PROVE  IsFiniteSet(S) /\ Cardinality(S) \in Nat
<1>1. IsFiniteSet(1..Len(q)) /\ DOMAIN q = 1..Len(q)
  BY FS_Interval
<1> QED BY <1>1, FS_Subset, FS_CardinalityType

LEMMA UsingCount ==
    ASSUME NEW u, \A s \in Streams : u[s].frame # None => u[s].frame.stream = s,
           NEW g \in Frames
    PROVE  Cardinality(Using(u, g)) =
             IF u[g.stream].frame # None /\ FrameOf(u[g.stream].frame) = g THEN 1 ELSE 0
<1>1. g.stream \in Streams
  BY DEF Frames
<1>2. Using(u, g) = IF u[g.stream].frame # None /\ FrameOf(u[g.stream].frame) = g
                    THEN {g.stream} ELSE {}
  BY <1>1 DEF Using, FrameOf
<1> QED BY <1>2, FS_EmptySet, FS_Singleton

\* A frame that the loop stores is in no entry before.
LEMMA NewFrame ==
    ASSUME TypeOK, FrameInv, NEW s \in Streams, usb[s].at = "new"
    PROVE  /\ usb[s].frame \in TimedFrames /\ usb[s].frame.stream = s
           /\ FrameOf(usb[s].frame) \in Frames
           /\ Holding(synced, FrameOf(usb[s].frame)) = {}
<1>1. usb[s] \in UsbStates
  BY DEF TypeOK
<1>2. usb[s].frame \in TimedFrames /\ usb[s].frame.stream = s
      /\ usb[s].frame.id = stable[s].id
  BY <1>1, NoneAssumption DEF FrameInv, UsbStates
<1>3. ASSUME NEW i \in Holding(synced, FrameOf(usb[s].frame)) PROVE FALSE
  <2>1. /\ i \in DOMAIN synced /\ synced[i].frame # None
        /\ synced[i].frame.stream = s /\ synced[i].frame.id = stable[s].id
    BY <1>2, <1>3 DEF Holding, FrameOf
  <2>2. synced[i].stream = s /\ synced[i].frame.id < stable[s].id
    BY <1>2, <2>1, NoneAssumption DEF FrameInv, TimedFrames
  <2>3. stable[s].id \in Int
    BY BoundsAssumption DEF TypeOK
  <2> QED BY <2>1, <2>2, <2>3
<1> QED BY <1>2, <1>3 DEF FrameOf, Frames, TimedFrames

\* The references that KeptRefs adds and drops are the entries that change.
LEMMA KeptCount ==
    ASSUME TypeOK, FrameInv, NEW s \in Streams, usb[s].at = "new", NEW g \in Frames
    PROVE  KeptRefs(usb[s].frame)[g] =
             refs[g] + Cardinality(Holding(Stored(usb[s].frame), g))
                     - Cardinality(Holding(synced, g))
<1> DEFINE f == usb[s].frame
           O == Own(f)
           X == Outdated(f)
           A == Holding(synced, g)
           B == Holding(Stored(f), g)
           D == {i \in X : IF i \in O THEN g = FrameOf(f) ELSE i \in A}
<1>0. f \in TimedFrames /\ Holding(synced, FrameOf(f)) = {} /\ f # None
  BY NewFrame, NoneAssumption DEF TimedFrames
<1>1. O \subseteq DOMAIN synced /\ X \subseteq DOMAIN synced /\ A \subseteq DOMAIN synced
  <2>1. Last(O) \subseteq DOMAIN synced
    BY DEF Last, Own
  <2>2. End(f) <= Len(synced) => End(f) \in DOMAIN synced
    BY <1>0, EndOfLoop, Entry
  <2> QED BY <2>1, <2>2, EndOfLoop, Entry, <1>0 DEF Own, Outdated, Holding
<1>2. synced \in Seq(Entries) /\ refs \in [Frames -> Int]
  BY DEF TypeOK
<1>3. /\ KeptRefs(f)[g] = refs[g] + (IF g = FrameOf(f) THEN Cardinality(O) ELSE 0)
                                 - Cardinality(O \cap A) - Cardinality(D)
  <2>1. {i \in Own(f) : synced[i].frame # None /\ FrameOf(synced[i].frame) = g} = O \cap A
    BY <1>1 DEF Holding
  <2>2. {i \in Outdated(f) : IF i \in Own(f) THEN g = FrameOf(f)
                             ELSE synced[i].frame # None /\ FrameOf(synced[i].frame) = g} = D
    BY <1>1 DEF Holding
  <2> QED BY <2>1, <2>2 DEF KeptRefs
<1>4. B = {i \in DOMAIN synced : i \notin X /\ (IF i \in O THEN g = FrameOf(f) ELSE i \in A)}
  BY <1>0, StoredEntries DEF Holding
<1> HIDE DEF f, O, X, A, B, D
<1>5. /\ IsFiniteSet(O) /\ IsFiniteSet(X) /\ IsFiniteSet(A)
      /\ \A S : S \subseteq DOMAIN synced => Cardinality(S) \in Nat /\ IsFiniteSet(S)
  BY <1>1, <1>2, HoldingIsFinite
<1>6. CASE g = FrameOf(f)
  <2>1. A = {}
    BY <1>0, <1>6 DEF A
  <2>2. B = O \ X /\ D = O \cap X /\ O \cap A = {}
    BY <1>1, <1>4, <1>6, <2>1 DEF D
  <2>3. Cardinality(O \ X) = Cardinality(O) - Cardinality(O \cap X)
    BY <1>5, FS_Difference
  <2>4. Cardinality(A) = 0 /\ Cardinality(O \cap A) = 0
    BY <2>1, <2>2, FS_EmptySet
  <2>5. Cardinality(O) \in Nat /\ Cardinality(O \cap X) \in Nat /\ refs[g] \in Int
    BY <1>1, <1>2, <1>5
  <2> QED BY <1>3, <1>6, <2>2, <2>3, <2>4, <2>5 DEF f, A, B
<1>7. CASE g # FrameOf(f)
  <2>1. B = A \ (O \cup X) /\ D = (A \cap X) \ O
    BY <1>1, <1>4, <1>7 DEF D
  <2>2. A \cap (O \cup X) = (O \cap A) \cup D /\ (O \cap A) \cap D = {}
    BY <2>1
  <2>3. Cardinality(B) = Cardinality(A) - Cardinality((O \cap A) \cup D)
    BY <1>5, <2>1, <2>2, FS_Difference
  <2>4. /\ IsFiniteSet(O \cap A) /\ IsFiniteSet(D)
        /\ Cardinality(O \cap A) \in Nat /\ Cardinality(D) \in Nat /\ Cardinality(A) \in Nat
    BY <1>1, <1>5, <2>1
  <2>5. Cardinality((O \cap A) \cup D) = Cardinality(O \cap A) + Cardinality(D)
    <3> DEFINE C == O \cap A
    <3>1. C \cap D = {}
      BY <2>2
    <3>2. IsFiniteSet(C) /\ Cardinality(C) \in Nat
      BY <2>4
    <3> HIDE DEF C
    <3>3. Cardinality(C \cup D) = Cardinality(C) + Cardinality(D) - Cardinality(C \cap D)
      BY <2>4, <3>2, FS_Union
    <3>4. Cardinality(C \cap D) = 0
      BY <3>1, FS_EmptySet, Zenon
    <3>5. Cardinality(C \cup D) = Cardinality(C) + Cardinality(D)
      BY <2>4, <3>2, <3>3, <3>4
    <3> QED BY <3>5 DEF C
  <2> QED BY <1>2, <1>3, <1>7, <2>3, <2>4, <2>5 DEF f, A, B
<1> QED BY <1>6, <1>7

-----------------------------------------------------------------------------
(* The critical section of OnNewStreamData ends in one of three ways. *)

Sends(s) ==
    LET f == usb[s].frame IN
    /\ usb[s].at = "new" /\ Own(f) # {} /\ IsComplete(f)
    /\ SendSet(f) /\ usb' = [usb EXCEPT ![s] = Waiting]
    /\ UNCHANGED <<properties, enabled, cs, stable, app, calls, undisturbed>>
Stores(s) ==
    LET f == usb[s].frame IN
    /\ usb[s].at = "new" /\ Own(f) # {} /\ ~IsComplete(f)
    /\ synced' = Stored(f) /\ usb' = [usb EXCEPT ![s] = Waiting]
    /\ refs' = [KeptRefs(f) EXCEPT ![FrameOf(f)] = @ - 1]
    /\ UNCHANGED <<properties, enabled, cs, stable, app, calls, undisturbed, lastFrameID, handed>>
Passes(s) ==
    LET f == usb[s].frame IN
    /\ usb[s].at = "new" /\ Own(f) = {}
    /\ synced' = Stored(f) /\ refs' = KeptRefs(f)
    /\ \E at \in {"drop", "pass"}, kind \in {"alone", "free"} :
        usb' = [usb EXCEPT ![s] = [usb[s] EXCEPT !.at = at, !.kind = kind]]
    /\ UNCHANGED <<properties, enabled, cs, stable, app, calls, undisturbed, lastFrameID, handed>>

LEMMA Cases ==
    \A s \in Streams : OnNewStreamData(s) => Sends(s) \/ Stores(s) \/ Passes(s)
BY DEF OnNewStreamData, Sends, Stores, Passes

-----------------------------------------------------------------------------
(* The invariant holds at first, and each of its parts after each action. *)

\* ReferencesExact in terms of Holding and Using.
Exact == \A g \in Frames : refs[g] = Cardinality(Holding(synced, g)) + Cardinality(Using(usb, g))
LEMMA References == ReferencesExact <=> Exact
BY DEF ReferencesExact, Exact, Holding, Using

\* A thread that is done with a frame uses it no more.
LEMMA ThreadDone ==
    ASSUME FrameInv, usb \in [Streams -> UsbStates], NEW s \in Streams, usb[s].frame # None,
           usb' = [usb EXCEPT ![s] = Waiting], NEW g \in Frames
    PROVE  Cardinality(Using(usb', g)) =
             Cardinality(Using(usb, g)) - (IF g = FrameOf(usb[s].frame) THEN 1 ELSE 0)
<1>1. /\ \A x \in Streams : usb[x].frame # None => usb[x].frame.stream = x
      /\ \A x \in Streams : usb'[x].frame # None => usb'[x].frame.stream = x
      /\ usb'[s].frame = None /\ \A x \in Streams : x # s => usb'[x] = usb[x]
  BY DEF FrameInv, Waiting
<1>m. /\ \A x \in Streams : usb[x].frame # None => usb[x].frame.stream = x
      /\ \A x \in Streams : usb'[x].frame # None => usb'[x].frame.stream = x
  BY <1>1
<1>2. Cardinality(Using(usb, g)) =
        IF usb[g.stream].frame # None /\ FrameOf(usb[g.stream].frame) = g THEN 1 ELSE 0
  BY ONLY <1>m, UsingCount, g \in Frames
<1>3. Cardinality(Using(usb', g)) =
        IF usb'[g.stream].frame # None /\ FrameOf(usb'[g.stream].frame) = g THEN 1 ELSE 0
  BY ONLY <1>m, UsingCount, g \in Frames
<1>4. CASE g.stream = s
  BY <1>1, <1>2, <1>3, <1>4
<1>5. CASE g.stream # s
  <2>1. g.stream \in Streams /\ g # FrameOf(usb[s].frame)
    BY <1>1, <1>5 DEF Frames, FrameOf
  <2>2. Cardinality(Using(usb', g)) = Cardinality(Using(usb, g))
    BY <1>1, <1>2, <1>3, <1>5, <2>1
  <2>3. Cardinality(Using(usb, g)) \in Int
    BY <1>2
  <2> QED BY <2>1, <2>2, <2>3
<1> QED BY <1>4, <1>5

LEMMA SameThreads ==
    ASSUME \A x \in Streams : usb'[x].frame = usb[x].frame
    PROVE  \A g : Using(usb', g) = Using(usb, g)
BY DEF Using

\* The frame a thread just made is newer than all of its stream.
LEMMA ReadyFrame ==
    ASSUME TypeOK, NEW s \in Streams, FrameReady(s)
    PROVE  \E t \in 0..MaxTime :
             LET f == [stream |-> s, id |-> stable[s].id + 1, time |-> t] IN
             /\ f \in TimedFrames /\ f # None /\ FrameOf(f) \in Frames
             /\ stable' = [stable EXCEPT ![s] = [id |-> f.id, time |-> t]]
             /\ usb' = [usb EXCEPT ![s] = [Waiting EXCEPT !.at = "new", !.frame = f]]
             /\ refs' = [refs EXCEPT ![FrameOf(f)] = 1]
<1>1. stable \in [Streams -> [id : 0..MaxFrames, time : 0..MaxTime]]
  BY DEF TypeOK
<1>2. stable[s].id \in 0..MaxFrames /\ stable[s].time \in 0..MaxTime
  BY <1>1
<1>3. PICK t \in (stable[s].time + Period)..MaxTime :
        LET f == [stream |-> s, id |-> stable[s].id + 1, time |-> t] IN
        /\ stable' = [stable EXCEPT ![s] = [id |-> f.id, time |-> t]]
        /\ usb' = [usb EXCEPT ![s] = [Waiting EXCEPT !.at = "new", !.frame = f]]
        /\ refs' = [refs EXCEPT ![FrameOf(f)] = 1]
  BY DEF FrameReady
<1>4. t \in 0..MaxTime /\ stable[s].id + 1 \in 1..MaxFrames
  BY <1>2, TimesAssumption, BoundsAssumption DEF FrameReady
<1>5. LET f == [stream |-> s, id |-> stable[s].id + 1, time |-> t] IN
      f \in TimedFrames /\ f # None /\ FrameOf(f) \in Frames
  BY <1>4, NoneAssumption DEF TimedFrames, FrameOf, Frames
<1> QED BY <1>3, <1>4, <1>5

LEMMA InitIInv == Init => IInv
<1> SUFFICES ASSUME Init PROVE IInv
  OBVIOUS
<1> USE TimesAssumption, BoundsAssumption DEF Init
<1>1. TypeOK
  <2>1. usb \in [Streams -> UsbStates]
    BY DEF UsbStates, Waiting
  <2>2. app \in [Apps -> AppStates]
    <3>1. Idle \in AppStates
      BY DEF AppStates, Idle
    <3> QED BY <3>1
  <2>3. handed \in [Streams -> [index : Nat, time : 0..MaxTime, kind : {"free", "alone", "set"}]]
    BY DEF Nothing
  <2>4. synced \in Seq(Entries) /\ refs \in [Frames -> Int]
    OBVIOUS
  <2>5. stable \in [Streams -> [id : 0..MaxFrames, time : 0..MaxTime]]
    OBVIOUS
  <2>6. on \subseteq Streams /\ started \subseteq Streams /\ {requested, enabled, undisturbed} \subseteq BOOLEAN
    OBVIOUS
  <2>7. lastFrameID \in Nat /\ cs \in Apps \cup {None} /\ calls \in 0..MaxCalls
    OBVIOUS
  <2> HIDE DEF Init
  <2> QED BY <2>1, <2>2, <2>3, <2>4, <2>5, <2>6, <2>7 DEF TypeOK
<1>2. FrameInv /\ SetInv /\ SetIsOfOneMoment /\ NoCompleteSetWaits
  BY DEF FrameInv, SetInv, SetIsOfOneMoment, NoCompleteSetWaits, Waiting, Nothing
<1>3. DecisionInv
  BY DEF DecisionInv, Both, Idle
<1>4. ReferencesExact
  <2>1. Cardinality({}) = 0
    BY FS_EmptySet
  <2>2. ASSUME NEW f \in Frames
        PROVE  Holding(synced, f) = {} /\ Using(usb, f) = {} /\ refs[f] = 0
    BY DEF Holding, Using, Waiting
  <2> HIDE DEF Init
  <2> QED BY <2>1, <2>2, References DEF Exact
<1> QED BY <1>1, <1>2, <1>3, <1>4 DEF IInv

LEMMA CallStates ==
    /\ \A s \in Streams : [Idle EXCEPT !.at = "decide", !.stream = s] \in AppStates
    /\ \A g \in Seq(Streams), at \in {"replace", "groupDecide"} :
            [Idle EXCEPT !.at = at, !.group = g] \in AppStates
<1>1. Idle \in AppStates
  BY DEF AppStates, Idle
<1> QED BY <1>1 DEF AppStates

LEMMA TypeStep == IInv /\ [Next]_vars => TypeOK'
<1> SUFFICES ASSUME IInv, [Next]_vars PROVE TypeOK'
  OBVIOUS
<1>0. TypeOK /\ FrameInv BY DEF IInv
<1>a. app \in [Apps -> AppStates] /\ {requested, enabled, undisturbed, Both} \subseteq BOOLEAN
  BY <1>0 DEF TypeOK, Both
<1>u. usb \in [Streams -> UsbStates] /\ lastFrameID \in Nat
  BY <1>0 DEF TypeOK
<1> USE TimesAssumption, BoundsAssumption, NoneAssumption, GroupsAssumption
    DEF properties, threads, Idle, Waiting
<1>1. ASSUME NEW s \in Streams, FrameReady(s) PROVE TypeOK'
  <2>1. PICK t \in 0..MaxTime :
          LET f == [stream |-> s, id |-> stable[s].id + 1, time |-> t] IN
          /\ f \in TimedFrames /\ FrameOf(f) \in Frames
          /\ stable' = [stable EXCEPT ![s] = [id |-> f.id, time |-> t]]
          /\ usb' = [usb EXCEPT ![s] = [Waiting EXCEPT !.at = "new", !.frame = f]]
          /\ refs' = [refs EXCEPT ![FrameOf(f)] = 1]
    BY <1>1, <1>0, ReadyFrame
  <2>2. stable' \in [Streams -> [id : 0..MaxFrames, time : 0..MaxTime]]
    BY <1>0, <2>1 DEF TypeOK, TimedFrames
  <2>3. usb' \in [Streams -> UsbStates]
    BY <1>u, <2>1 DEF UsbStates
  <2>4. refs' \in [Frames -> Int]
    BY <1>0, <2>1 DEF TypeOK
  <2> QED BY <1>1, <1>0, <1>a, <2>2, <2>3, <2>4 DEF FrameReady, TypeOK
<1>2. ASSUME NEW s \in Streams, Sends(s) PROVE TypeOK'
  <2> DEFINE f == usb[s].frame
  <2>1. f \in TimedFrames /\ synced \in Seq(Entries) /\ refs \in [Frames -> Int]
    BY <1>2, <1>0, NewFrame DEF Sends, TypeOK
  <2>2. usb' \in [Streams -> UsbStates]
    BY <1>2, <1>u DEF Sends, UsbStates
  <2>3. synced' \in Seq(Entries) /\ lastFrameID' \in Nat
    <3>1. synced' \in [1..Len(synced) -> Entries] /\ Len(synced) \in Nat
      BY <1>2, <1>0, Entry DEF Sends, SendSet, Entries
    <3>2. lastFrameID' = lastFrameID + 1
      BY <1>2 DEF Sends, SendSet
    <3> QED BY <1>u, <3>1, <3>2
  <2>4. refs' \in [Frames -> Int]
    <3> DEFINE of(g) == {i \in DOMAIN synced : FrameOf(Stored(f)[i].frame) = g}
    <3>1. \A g \in Frames : KeptRefs(f)[g] \in Int /\ Cardinality(of(g)) \in Nat
      <4>1. \A g : of(g) \subseteq DOMAIN synced /\ Holding(synced, g) \subseteq DOMAIN synced
                   /\ Holding(Stored(f), g) \subseteq DOMAIN Stored(f)
        BY DEF Holding
      <4>2. Stored(f) \in Seq(Entries)
        BY <1>0, <2>1, StoredEntries
      <4>3. \A g \in Frames : /\ Cardinality(of(g)) \in Nat /\ Cardinality(Holding(synced, g)) \in Nat
                              /\ Cardinality(Holding(Stored(f), g)) \in Nat
        BY <2>1, <4>1, <4>2, HoldingIsFinite
      <4>4. \A g \in Frames : KeptRefs(f)[g] = refs[g] + Cardinality(Holding(Stored(f), g))
                                                - Cardinality(Holding(synced, g))
        BY <1>0, <1>2, KeptCount DEF Sends
      <4> HIDE DEF of, f
      <4> QED BY <2>1, <4>3, <4>4
    <3>2. refs' = [g \in Frames |-> KeptRefs(f)[g] - Cardinality(of(g))
                                    - (IF g = FrameOf(f) THEN 1 ELSE 0)]
      BY <1>2 DEF Sends, SendSet
    <3> HIDE DEF of, f
    <3> QED BY <3>1, <3>2
  <2>5. handed' \in [Streams -> [index : Nat, time : 0..MaxTime, kind : {"free", "alone", "set"}]]
    <3> DEFINE time(x) == (CHOOSE e \in {Stored(f)[i] : i \in DOMAIN synced} :
                              e.stream = x).frame.time
    <3>1. ASSUME NEW x \in Streams, NEW j \in DOMAIN synced, synced[j].stream = x
          PROVE  time(x) \in 0..MaxTime
      <4> DEFINE e == CHOOSE e \in {Stored(f)[i] : i \in DOMAIN synced} : e.stream = x
      <4>1. e \in {Stored(f)[i] : i \in DOMAIN synced}
        BY <1>0, <2>1, <3>1, StoredEntries
      <4>2. PICK i \in DOMAIN synced : e = Stored(f)[i]
        BY <4>1
      <4>3. e.frame \in TimedFrames
        <5>1. f # None /\ Outdated(f) = {} /\ (i \in Own(f) \/ synced[i].frame # None)
          BY <1>0, <1>2, <2>1, CompleteFrames DEF Sends, TimedFrames
        <5> HIDE DEF f, e
        <5>2. Stored(f)[i].frame \in TimedFrames
          BY <1>0, <2>1, <5>1, StoredEntries, Entry DEF Entries
        <5> QED BY <4>2, <5>2
      <4> QED BY <4>3 DEF TimedFrames
    <3>2. handed' = [x \in Streams |->
                       IF \E i \in DOMAIN synced : synced[i].stream = x
                       THEN [index |-> lastFrameID + 1, kind |-> "set", time |-> time(x)]
                       ELSE handed[x]]
      BY <1>2 DEF Sends, SendSet
    <3>3. handed \in [Streams -> [index : Nat, time : 0..MaxTime, kind : {"free", "alone", "set"}]]
      BY <1>0 DEF TypeOK
    <3> HIDE DEF time, f
    <3> QED BY <1>u, <3>1, <3>2, <3>3
  <2> QED BY <1>2, <1>0, <2>2, <2>3, <2>4, <2>5 DEF Sends, TypeOK
<1>3. ASSUME NEW s \in Streams, Stores(s) PROVE TypeOK'
  <2> DEFINE f == usb[s].frame
  <2>1. f \in TimedFrames /\ Stored(f) \in Seq(Entries) /\ refs \in [Frames -> Int]
    BY <1>3, <1>0, NewFrame, StoredEntries DEF Stores, TypeOK
  <2>2. usb' \in [Streams -> UsbStates]
    BY <1>3, <1>u DEF Stores, UsbStates
  <2>3. KeptRefs(f) \in [Frames -> Int]
    <3>1. \A g \in Frames : KeptRefs(f)[g] \in Int
      <4>1. synced \in Seq(Entries) /\ \A g : /\ Holding(synced, g) \subseteq DOMAIN synced
                                              /\ Holding(Stored(f), g) \subseteq DOMAIN Stored(f)
        BY <1>0 DEF Holding, TypeOK
      <4>2. \A g \in Frames : /\ Cardinality(Holding(synced, g)) \in Nat
                              /\ Cardinality(Holding(Stored(f), g)) \in Nat
        BY <2>1, <4>1, HoldingIsFinite
      <4>3. \A g \in Frames : KeptRefs(f)[g] = refs[g] + Cardinality(Holding(Stored(f), g))
                                                - Cardinality(Holding(synced, g))
        BY <1>0, <1>3, KeptCount DEF Stores
      <4> HIDE DEF f
      <4> QED BY <2>1, <4>2, <4>3
    <3> QED BY <3>1 DEF KeptRefs
  <2>4. refs' \in [Frames -> Int]
    <3>1. refs' = [KeptRefs(f) EXCEPT ![FrameOf(f)] = @ - 1]
      BY <1>3 DEF Stores
    <3>2. FrameOf(f) \in Frames
      BY <1>0, <1>3, NewFrame DEF Stores
    <3> HIDE DEF f
    <3> QED BY <2>3, <3>1, <3>2
  <2> QED BY <1>3, <1>0, <2>1, <2>2, <2>4 DEF Stores, TypeOK
<1>4. ASSUME NEW s \in Streams, Passes(s) PROVE TypeOK'
  <2> DEFINE f == usb[s].frame
  <2>1. f \in TimedFrames /\ Stored(f) \in Seq(Entries) /\ refs \in [Frames -> Int]
    BY <1>4, <1>0, NewFrame, StoredEntries DEF Passes, TypeOK
  <2>2. usb' \in [Streams -> UsbStates]
    BY ZenonT(40), <1>4, <1>u DEF Passes, UsbStates
  <2>3. KeptRefs(f) \in [Frames -> Int]
    <3>1. \A g \in Frames : KeptRefs(f)[g] \in Int
      <4>1. synced \in Seq(Entries) /\ \A g : /\ Holding(synced, g) \subseteq DOMAIN synced
                                              /\ Holding(Stored(f), g) \subseteq DOMAIN Stored(f)
        BY <1>0 DEF Holding, TypeOK
      <4>2. \A g \in Frames : /\ Cardinality(Holding(synced, g)) \in Nat
                              /\ Cardinality(Holding(Stored(f), g)) \in Nat
        BY <2>1, <4>1, HoldingIsFinite
      <4>3. \A g \in Frames : KeptRefs(f)[g] = refs[g] + Cardinality(Holding(Stored(f), g))
                                                - Cardinality(Holding(synced, g))
        BY <1>0, <1>4, KeptCount DEF Passes
      <4> HIDE DEF f
      <4> QED BY <2>1, <4>2, <4>3
    <3> QED BY <3>1 DEF KeptRefs
  <2> QED BY <1>4, <1>0, <2>1, <2>2, <2>3 DEF Passes, TypeOK
<1>5. ASSUME NEW s \in Streams, ReadLastID(s) PROVE TypeOK'
  <2>1. usb[s] \in UsbStates /\ usb[s].frame # None
    BY <1>5, <1>0, <1>u DEF ReadLastID, FrameInv
  <2>2. usb[s].frame.id \in Nat
    BY <2>1 DEF UsbStates, TimedFrames
  <2>3. usb' \in [Streams -> UsbStates]
    BY <1>5, <1>u, <2>1, <2>2 DEF ReadLastID, UsbStates
  <2> QED BY <1>5, <1>0, <2>3 DEF ReadLastID, TypeOK
<1>6. ASSUME NEW s \in Streams, PassFrame(s) PROVE TypeOK'
  <2>1. /\ usb' \in [Streams -> UsbStates] /\ lastFrameID' \in Nat
        /\ usb[s].frame \in TimedFrames /\ usb[s].kind \in {"free", "alone"}
    BY <1>6, <1>0, <1>u DEF PassFrame, UsbStates, FrameInv
  <2>2. handed' \in [Streams -> [index : Nat, time : 0..MaxTime, kind : {"free", "alone", "set"}]]
    <3>1. handed \in [Streams -> [index : Nat, time : 0..MaxTime, kind : {"free", "alone", "set"}]]
      BY <1>0 DEF TypeOK
    <3>2. [index |-> usb[s].frame.id, kind |-> usb[s].kind, time |-> usb[s].frame.time]
            \in [index : Nat, time : 0..MaxTime, kind : {"free", "alone", "set"}]
      BY <2>1 DEF TimedFrames
    <3>3. \/ handed' = handed
          \/ handed' = [handed EXCEPT ![s] = [index |-> usb[s].frame.id, kind |-> usb[s].kind,
                                              time |-> usb[s].frame.time]]
      BY <1>6 DEF PassFrame
    <3> QED BY SMTT(30), <3>1, <3>2, <3>3
  <2>3. refs' \in [Frames -> Int]
    <3>1. refs' = [refs EXCEPT ![FrameOf(usb[s].frame)] = @ - 1] /\ refs \in [Frames -> Int]
      BY <1>6, <1>0 DEF PassFrame, TypeOK
    <3>2. FrameOf(usb[s].frame) \in Frames
      BY <2>1 DEF TimedFrames, Frames, FrameOf
    <3> QED BY <3>1, <3>2
  <2> QED BY <1>6, <1>0, <2>1, <2>2, <2>3 DEF PassFrame, TypeOK
<1>7. ASSUME NEW a \in Apps, NEW s \in Streams, StartStream(a, s) PROVE TypeOK'
  <2>1. [Idle EXCEPT !.at = "decide", !.stream = s] \in AppStates
    BY CallStates
  <2>2. app' \in [Apps -> AppStates]
    BY <1>7, <1>a, <2>1 DEF StartStream
  <2>3. usb' \in [Streams -> UsbStates]
    BY <1>7, <1>u DEF StartStream, UsbStates
  <2>4. on' \subseteq Streams /\ {requested, enabled, undisturbed}' \subseteq BOOLEAN /\ calls' \in 0..MaxCalls
    BY <1>7, <1>0 DEF StartStream, TypeOK, Undecided
  <2> QED BY <1>7, <1>0, <2>2, <2>3, <2>4 DEF StartStream, TypeOK
<1>8. ASSUME NEW a \in Apps, NEW s \in Streams, StopStream(a, s) PROVE TypeOK'
  <2>1. [Idle EXCEPT !.at = "decide", !.stream = s] \in AppStates
    BY CallStates
  <2>2. app' \in [Apps -> AppStates]
    BY <1>8, <1>a, <2>1 DEF StopStream
  <2>3. /\ {requested, enabled, undisturbed}' \subseteq BOOLEAN /\ calls' \in 0..MaxCalls
        /\ on' \subseteq Streams /\ started' \subseteq Streams
    BY <1>8, <1>0 DEF StopStream, TypeOK, Undecided
  <2> QED BY <1>8, <1>0, <2>2, <2>3 DEF StopStream, TypeOK
<1>9. ASSUME NEW a \in Apps, Decide(a) PROVE TypeOK'
  <2>1. app' \in [Apps -> AppStates]
    BY <1>9, <1>a DEF Decide, AppStates
  <2> QED BY <1>9, <1>0, <1>a, <2>1 DEF Decide, TypeOK
<1>10. ASSUME NEW a \in Apps, DecideFails(a) PROVE TypeOK'
  <2>1. app' \in [Apps -> AppStates]
    BY <1>10, <1>a DEF DecideFails, AppStates
  <2> QED BY <1>10, <1>0, <1>a, <2>1 DEF DecideFails, TypeOK
<1>11. ASSUME NEW a \in Apps, SetEnabled(a) PROVE TypeOK'
  <2>1. app[a] \in AppStates /\ Idle \in AppStates
    BY <1>a DEF AppStates
  <2>2. app' \in [Apps -> AppStates]
    <3>1. [app[a] EXCEPT !.at = "join"] \in AppStates
      BY <2>1 DEF AppStates
    <3>2. app' = [app EXCEPT ![a] = Idle] \/ app' = [app EXCEPT ![a] = [app[a] EXCEPT !.at = "join"]]
      BY <1>11 DEF SetEnabled
    <3> QED BY <1>a, <2>1, <3>1, <3>2
  <2>3. enabled' \in BOOLEAN
    BY <1>11, <2>1 DEF SetEnabled, AppStates
  <2>4. started' \subseteq Streams
    BY <1>11, <1>0 DEF SetEnabled, TypeOK
  <2> QED BY <1>11, <1>0, <1>a, <2>2, <2>3, <2>4 DEF SetEnabled, TypeOK
<1>12. ASSUME NEW a \in Apps, JoinThread(a) PROVE TypeOK'
  <2>1. app' \in [Apps -> AppStates]
    BY <1>12, <1>a DEF JoinThread, AppStates
  <2>2. usb' \in [Streams -> UsbStates]
    BY ZenonT(40), <1>12, <1>u DEF JoinThread, UsbStates
  <2> QED BY <1>12, <1>0, <1>a, <2>1, <2>2 DEF JoinThread, TypeOK
<1>13. ASSUME NEW a \in Apps, NEW g \in Groups \cup {<<>>}, BeginGroup(a, g) PROVE TypeOK'
  <2>1. g \in Seq(Streams)
    <3>1. CASE g = <<>>
      BY <3>1
    <3>2. CASE g \in Groups
      BY <3>2
    <3> QED BY <3>1, <3>2
  <2>2. \A at \in {"replace", "groupDecide"} : [Idle EXCEPT !.at = at, !.group = g] \in AppStates
    BY <2>1, CallStates
  <2>3. app' \in [Apps -> AppStates]
    BY <1>13, <1>a, <2>2 DEF BeginGroup
  <2>4. {requested, enabled, undisturbed}' \subseteq BOOLEAN /\ calls' \in 0..MaxCalls
    BY <1>13, <1>0 DEF BeginGroup, TypeOK, Undecided
  <2> QED BY <1>13, <1>0, <2>3, <2>4 DEF BeginGroup, TypeOK
<1>14. ASSUME NEW a \in Apps, GroupDecide(a) PROVE TypeOK'
  <2>1. app' \in [Apps -> AppStates]
    BY <1>14, <1>a DEF GroupDecide, AppStates
  <2> QED BY <1>14, <1>0, <1>a, <2>1 DEF GroupDecide, TypeOK
<1>15. ASSUME NEW a \in Apps, GroupFails(a) PROVE TypeOK'
  <2>1. app' \in [Apps -> AppStates]
    BY <1>15, <1>a DEF GroupFails, AppStates
  <2> QED BY <1>15, <1>0, <1>a, <2>1 DEF GroupFails, TypeOK
<1>16. ASSUME NEW a \in Apps, GroupSetEnabled(a) PROVE TypeOK'
  <2>1. app' \in [Apps -> AppStates] /\ enabled' \in BOOLEAN
    BY <1>16, <1>a DEF GroupSetEnabled, AppStates
  <2> QED BY <1>16, <1>0, <1>a, <2>1 DEF GroupSetEnabled, TypeOK
<1>17. ASSUME NEW a \in Apps, ReplaceGroup(a) PROVE TypeOK'
  <2>1. usb' \in [Streams -> UsbStates]
    BY <1>17, <1>u DEF ReplaceGroup, UsbStates
  <2>2. app' \in [Apps -> AppStates] /\ app[a].group \in Seq(Streams)
    BY <1>17, <1>a DEF ReplaceGroup, AppStates
  <2>3. synced' \in Seq(Entries)
    <3>1. synced' \in [1..Len(app[a].group) -> Entries] /\ Len(app[a].group) \in Nat
      BY <1>17, <2>2 DEF ReplaceGroup, Entries
    <3> QED BY <3>1
  <2>4. refs' \in [Frames -> Int]
    <3> DEFINE held(g) == {i \in DOMAIN synced :
                             synced[i].frame # None /\ FrameOf(synced[i].frame) = g}
    <3>1. synced \in Seq(Entries) /\ refs \in [Frames -> Int]
      BY <1>0 DEF TypeOK
    <3>2. \A g \in Frames : Cardinality(held(g)) \in Nat
      BY <3>1, HoldingIsFinite
    <3>3. refs' = [g \in Frames |-> refs[g] - Cardinality(held(g))]
      BY <1>17 DEF ReplaceGroup
    <3> HIDE DEF held
    <3> QED BY <3>1, <3>2, <3>3
  <2>5. handed' \in [Streams -> [index : Nat, time : 0..MaxTime, kind : {"free", "alone", "set"}]]
    BY <1>17 DEF ReplaceGroup, Nothing
  <2> QED BY <1>17, <1>0, <2>1, <2>2, <2>3, <2>4, <2>5 DEF ReplaceGroup, TypeOK
<1>18. CASE UNCHANGED vars
  BY <1>18, <1>0 DEF vars, TypeOK
<1> QED
  BY Cases, <1>1, <1>2, <1>3, <1>4, <1>5, <1>6, <1>7, <1>8, <1>9, <1>10, <1>11, <1>12,
     <1>13, <1>14, <1>15, <1>16, <1>17, <1>18
  DEF Next, UsbThread, Application

LEMMA DecisionStep == IInv /\ [Next]_vars => DecisionInv'
<1> SUFFICES ASSUME IInv, [Next]_vars PROVE DecisionInv'
  OBVIOUS
<1>0. TypeOK /\ DecisionInv BY DEF IInv
<1> USE <1>0
    DEF TypeOK, AppStates, DecisionInv, Deciding, Both, Undecided, properties, threads, Idle
<1>1. ASSUME NEW s \in Streams, FrameReady(s) PROVE DecisionInv'
  BY <1>1 DEF FrameReady
<1>2. ASSUME NEW s \in Streams, Sends(s) PROVE DecisionInv'
  BY <1>2 DEF Sends, SendSet
<1>3. ASSUME NEW s \in Streams, Stores(s) PROVE DecisionInv'
  BY <1>3 DEF Stores
<1>4. ASSUME NEW s \in Streams, Passes(s) PROVE DecisionInv'
  BY <1>4 DEF Passes
<1>5. ASSUME NEW s \in Streams, ReadLastID(s) PROVE DecisionInv'
  BY <1>5 DEF ReadLastID
<1>6. ASSUME NEW s \in Streams, PassFrame(s) PROVE DecisionInv'
  BY <1>6 DEF PassFrame
<1>7. ASSUME NEW a \in Apps, NEW s \in Streams, StartStream(a, s) PROVE DecisionInv'
  BY <1>7 DEF StartStream
<1>8. ASSUME NEW a \in Apps, NEW s \in Streams, StopStream(a, s) PROVE DecisionInv'
  BY <1>8 DEF StopStream
<1>9. ASSUME NEW a \in Apps, Decide(a) PROVE DecisionInv'
  BY <1>9 DEF Decide
<1>10. ASSUME NEW a \in Apps, DecideFails(a) PROVE DecisionInv'
  BY <1>10 DEF DecideFails
<1>11. ASSUME NEW a \in Apps, SetEnabled(a) PROVE DecisionInv'
  <2>1. undisturbed' = undisturbed /\ Both' = Both
    BY <1>11 DEF SetEnabled
  <2>2. ASSUME undisturbed PROVE enabled' = Both'
    BY <1>11, <2>1, <2>2 DEF SetEnabled
  <2>3. ASSUME NEW b \in Apps, app'[b].at \in {"flag", "groupFlag"} PROVE app'[b] = app[b]
    BY <1>11, <2>3 DEF SetEnabled
  <2> HIDE DEF TypeOK, AppStates, Both
  <2> QED BY <2>1, <2>2, <2>3
<1>12. ASSUME NEW a \in Apps, JoinThread(a) PROVE DecisionInv'
  BY <1>12 DEF JoinThread
<1>13. ASSUME NEW a \in Apps, NEW g \in Groups \cup {<<>>}, BeginGroup(a, g) PROVE DecisionInv'
  BY <1>13 DEF BeginGroup
<1>14. ASSUME NEW a \in Apps, GroupDecide(a) PROVE DecisionInv'
  BY <1>14 DEF GroupDecide
<1>15. ASSUME NEW a \in Apps, GroupFails(a) PROVE DecisionInv'
  BY <1>15 DEF GroupFails
<1>16. ASSUME NEW a \in Apps, GroupSetEnabled(a) PROVE DecisionInv'
  BY <1>16 DEF GroupSetEnabled
<1>17. ASSUME NEW a \in Apps, ReplaceGroup(a) PROVE DecisionInv'
  BY <1>17 DEF ReplaceGroup
<1>18. CASE UNCHANGED vars
  BY <1>18 DEF vars
<1> QED
  BY Cases, <1>1, <1>2, <1>3, <1>4, <1>5, <1>6, <1>7, <1>8, <1>9, <1>10, <1>11, <1>12,
     <1>13, <1>14, <1>15, <1>16, <1>17, <1>18
  DEF Next, UsbThread, Application

LEMMA FrameStep == IInv /\ [Next]_vars => FrameInv'
<1> SUFFICES ASSUME IInv, [Next]_vars PROVE FrameInv'
  OBVIOUS
<1>0. TypeOK /\ FrameInv BY DEF IInv
<1>a. /\ \A x \in Streams : stable[x].id \in Nat /\ usb[x] \in UsbStates
      /\ \A i \in DOMAIN synced : /\ synced[i] \in Entries /\ synced[i].stream \in Streams
                                  /\ synced[i].frame # None => synced[i].frame.id \in Nat
  <2>1. \A x \in Streams : stable[x].id \in Nat /\ usb[x] \in UsbStates
    BY <1>0, BoundsAssumption DEF TypeOK
  <2>2. \A i \in DOMAIN synced : synced[i] \in Entries
    BY <1>0, Entry
  <2>3. \A e \in Entries : e.stream \in Streams /\ (e.frame # None => e.frame.id \in Nat)
    BY BoundsAssumption DEF Entries, TimedFrames
  <2> QED BY <2>1, <2>2, <2>3
<1> USE <1>0, NoneAssumption, BoundsAssumption
    DEF TypeOK, UsbStates, FrameInv, properties, threads, Waiting
<1>1. ASSUME NEW s \in Streams, FrameReady(s) PROVE FrameInv'
  <2>1. PICK t \in 0..MaxTime :
          LET f == [stream |-> s, id |-> stable[s].id + 1, time |-> t] IN
          /\ f \in TimedFrames /\ f # None /\ FrameOf(f) \in Frames
          /\ stable' = [stable EXCEPT ![s] = [id |-> f.id, time |-> t]]
          /\ usb' = [usb EXCEPT ![s] = [Waiting EXCEPT !.at = "new", !.frame = f]]
          /\ refs' = [refs EXCEPT ![FrameOf(f)] = 1]
    BY <1>1, <1>0, ReadyFrame
  <2>2. /\ usb'[s].at = "new" /\ usb'[s].frame # None /\ usb'[s].frame.stream = s
        /\ usb'[s].frame.id = stable[s].id + 1 /\ stable'[s].id = stable[s].id + 1
        /\ \A x \in Streams : x # s => usb'[x] = usb[x] /\ stable'[x] = stable[x]
    BY <2>1
  <2>3. synced' = synced
    BY <1>1 DEF FrameReady
  <2>4. \A x \in Streams : stable[x].id <= stable'[x].id /\ (x = s => stable[x].id < stable'[x].id)
    BY <1>a, <2>2
  <2> HIDE DEF TypeOK, UsbStates, Waiting
  <2>5. ASSUME NEW x \in Streams
        PROVE  /\ usb'[x].frame = None <=> usb'[x].at \in {"off", "wait"}
               /\ usb'[x].frame # None => usb'[x].frame.stream = x /\ usb'[x].frame.id = stable'[x].id
    BY <2>2
  <2>6. ASSUME NEW i \in DOMAIN synced, synced[i].frame # None, NEW x, x = synced[i].stream
        PROVE  /\ synced[i].frame.stream = x /\ synced[i].frame.id <= stable'[x].id
               /\ usb'[x].frame # None => synced[i].frame.id < stable'[x].id
    <3>1. /\ x \in Streams /\ synced[i].frame.stream = x /\ synced[i].frame.id <= stable[x].id
          /\ usb[x].frame # None => synced[i].frame.id < stable[x].id
      BY <1>a, <2>6
    <3>2. synced[i].frame.id \in Nat /\ stable[x].id \in Nat
      BY <1>a, <2>6, <3>1
    <3> QED BY <2>2, <3>1, <3>2
  <2> QED BY <2>3, <2>5, <2>6
<1>2. ASSUME NEW s \in Streams, Sends(s) PROVE FrameInv'
  <2>1. \A i \in DOMAIN synced' : synced'[i].frame = None
    BY <1>2, <1>a DEF Sends, SendSet, Entries
  <2>2. \A x \in Streams : stable'[x] = stable[x] /\ (x # s => usb'[x] = usb[x])
    BY <1>2 DEF Sends
  <2>3. usb'[s].at = "wait" /\ usb'[s].frame = None
    BY <1>2 DEF Sends
  <2> HIDE DEF TypeOK, UsbStates, Waiting
  <2> QED BY <2>1, <2>2, <2>3
<1>3. ASSUME NEW s \in Streams, Stores(s) PROVE FrameInv'
  <2> DEFINE f == usb[s].frame
  <2>1. f \in TimedFrames /\ f.stream = s /\ f # None /\ f.id = stable[s].id
    BY <1>3, NewFrame DEF Stores
  <2>2. /\ DOMAIN synced' = DOMAIN synced
        /\ \A i \in DOMAIN synced :
             /\ synced'[i].stream = synced[i].stream
             /\ synced'[i].frame \in {None, synced[i].frame, f}
             /\ synced'[i].frame = f => i \in Own(f) \/ synced[i].frame = f
    BY <1>3, <2>1, StoredEntries DEF Stores
  <2>3. \A i \in Own(f) : i \in DOMAIN synced /\ synced[i].stream = s
    BY <2>1 DEF Own
  <2>4. \A x \in Streams : stable'[x] = stable[x] /\ (x # s => usb'[x] = usb[x])
    BY <1>3 DEF Stores
  <2>5. usb'[s].at = "wait" /\ usb'[s].frame = None
    BY <1>3 DEF Stores
  <2> HIDE DEF TypeOK, UsbStates, Waiting
  <2>6. ASSUME NEW i \in DOMAIN synced', synced'[i].frame # None, NEW x, x = synced'[i].stream
        PROVE  /\ synced'[i].frame.stream = x /\ synced'[i].frame.id <= stable'[x].id
               /\ usb'[x].frame # None => synced'[i].frame.id < stable'[x].id
    <3>1. i \in DOMAIN synced /\ x = synced[i].stream /\ x \in Streams
      BY <1>a, <2>2, <2>6
    <3>2. CASE synced'[i].frame = synced[i].frame
      BY <1>a, <2>4, <2>5, <2>6, <3>1, <3>2
    <3>3. CASE synced'[i].frame = f /\ i \in Own(f)
      BY <1>a, <2>1, <2>3, <2>4, <2>5, <3>1, <3>3
    <3> QED BY <2>2, <2>6, <3>1, <3>2, <3>3
  <2> QED BY <2>4, <2>5, <2>6
<1>4. ASSUME NEW s \in Streams, Passes(s) PROVE FrameInv'
  <2> DEFINE f == usb[s].frame
  <2>1. f \in TimedFrames /\ f.stream = s /\ f # None /\ f.id = stable[s].id
    BY <1>4, NewFrame DEF Passes
  <2>2. /\ DOMAIN synced' = DOMAIN synced
        /\ \A i \in DOMAIN synced :
             /\ synced'[i].stream = synced[i].stream
             /\ synced'[i].frame \in {None, synced[i].frame, f}
             /\ synced'[i].frame = f => i \in Own(f) \/ synced[i].frame = f
    BY SMTT(30), <1>4, <2>1, StoredEntries DEF Passes
  <2>3. \A i \in Own(f) : i \in DOMAIN synced /\ synced[i].stream = s
    BY <2>1 DEF Own
  <2>4. \A x \in Streams : /\ stable'[x] = stable[x] /\ usb'[x].frame = usb[x].frame
                           /\ usb'[x].at \in {"off", "wait"} <=> usb[x].at \in {"off", "wait"}
    BY SMTT(30), <1>4, <1>a DEF Passes
  <2> HIDE DEF TypeOK, UsbStates, Waiting
  <2>5. ASSUME NEW i \in DOMAIN synced', synced'[i].frame # None
        PROVE  i \in DOMAIN synced /\ synced'[i].frame = synced[i].frame
    BY <1>4, <2>2, <2>5 DEF Passes
  <2> QED BY <1>a, <2>2, <2>4, <2>5
<1>5. ASSUME NEW s \in Streams, ReadLastID(s) PROVE FrameInv'
  BY SMTT(30), <1>5 DEF ReadLastID
<1>6. ASSUME NEW s \in Streams, PassFrame(s) PROVE FrameInv'
  BY <1>6 DEF PassFrame
<1>7. ASSUME NEW a \in Apps, NEW s \in Streams, StartStream(a, s) PROVE FrameInv'
  BY SMTT(30), <1>7 DEF StartStream
<1>8. ASSUME NEW a \in Apps, NEW s \in Streams, StopStream(a, s) PROVE FrameInv'
  BY <1>8 DEF StopStream
<1>9. ASSUME NEW a \in Apps, Decide(a) PROVE FrameInv'
  BY <1>9 DEF Decide
<1>10. ASSUME NEW a \in Apps, DecideFails(a) PROVE FrameInv'
  BY <1>10 DEF DecideFails
<1>11. ASSUME NEW a \in Apps, SetEnabled(a) PROVE FrameInv'
  BY <1>11 DEF SetEnabled
<1>12. ASSUME NEW a \in Apps, JoinThread(a) PROVE FrameInv'
  BY SMTT(30), <1>12 DEF JoinThread
<1>13. ASSUME NEW a \in Apps, NEW g \in Groups \cup {<<>>}, BeginGroup(a, g) PROVE FrameInv'
  BY <1>13 DEF BeginGroup
<1>14. ASSUME NEW a \in Apps, GroupDecide(a) PROVE FrameInv'
  BY <1>14 DEF GroupDecide
<1>15. ASSUME NEW a \in Apps, GroupFails(a) PROVE FrameInv'
  BY <1>15 DEF GroupFails
<1>16. ASSUME NEW a \in Apps, GroupSetEnabled(a) PROVE FrameInv'
  BY <1>16 DEF GroupSetEnabled
<1>17. ASSUME NEW a \in Apps, ReplaceGroup(a) PROVE FrameInv'
  <2>1. \A i \in DOMAIN synced' : synced'[i].frame = None
    BY <1>17 DEF ReplaceGroup
  <2>2. \A x \in Streams : stable'[x] = stable[x] /\ usb'[x].frame = usb[x].frame /\ usb'[x].at = usb[x].at
    BY <1>17, <1>a DEF ReplaceGroup
  <2> HIDE DEF TypeOK, UsbStates, Waiting
  <2> QED BY <2>1, <2>2
<1>18. CASE UNCHANGED vars
  BY <1>18 DEF vars
<1> QED
  BY Cases, <1>1, <1>2, <1>3, <1>4, <1>5, <1>6, <1>7, <1>8, <1>9, <1>10, <1>11, <1>12,
     <1>13, <1>14, <1>15, <1>16, <1>17, <1>18
  DEF Next, UsbThread, Application

LEMMA SetStep == IInv /\ [Next]_vars => SetInv' /\ SetIsOfOneMoment'
<1> SUFFICES ASSUME IInv, [Next]_vars PROVE SetInv' /\ SetIsOfOneMoment'
  OBVIOUS
<1>0. TypeOK /\ FrameInv /\ SetInv /\ SetIsOfOneMoment BY DEF IInv
<1>a. /\ handed \in [Streams -> [index : Nat, time : 0..MaxTime, kind : {"free", "alone", "set"}]]
      /\ \A x \in Streams : usb[x].kind # "set"
  BY <1>0 DEF TypeOK, UsbStates
<1> USE <1>0 DEF SetInv, SetIsOfOneMoment, properties, threads, Nothing
<1>1. ASSUME NEW s \in Streams, FrameReady(s) PROVE (SetInv /\ SetIsOfOneMoment)'
  BY <1>1 DEF FrameReady
<1>2. ASSUME NEW s \in Streams, Sends(s) PROVE (SetInv /\ SetIsOfOneMoment)'
  <2> DEFINE f == usb[s].frame
           group == {synced[i].stream : i \in DOMAIN synced}
           frame(x) == (CHOOSE e \in {Stored(f)[i] : i \in DOMAIN synced} : e.stream = x).frame
  <2>1. f \in TimedFrames /\ f.stream = s /\ f # None
    BY <1>2, NewFrame, NoneAssumption DEF Sends, TimedFrames
  <2>2. /\ Outdated(f) = {}
        /\ \A i \in DOMAIN synced : /\ ~IsFar(f, synced[i]) /\ (i \in Own(f) <=> synced[i].stream = s)
                                    /\ i \in Own(f) \/ synced[i].frame # None
    BY <1>2, <2>1, CompleteFrames DEF Sends
  <2>3. \A i \in DOMAIN synced :
          /\ Stored(f)[i].stream = synced[i].stream
          /\ Stored(f)[i].frame = IF synced[i].stream = s THEN f ELSE synced[i].frame
    BY <2>1, <2>2, StoredEntries
  <2>4. /\ \A x \in Streams : handed'[x] = IF x \in group
             THEN [index |-> lastFrameID + 1, kind |-> "set", time |-> frame(x).time]
             ELSE handed[x]
        /\ {synced'[i].stream : i \in DOMAIN synced'} = group
    BY <1>2, Entry DEF Sends, SendSet, Entries
  <2>5. ASSUME NEW x \in group
        PROVE  \E i \in DOMAIN synced : synced[i].stream = x /\ frame(x) = Stored(f)[i].frame
    <3> DEFINE set == {Stored(f)[i] : i \in DOMAIN synced}
               c == CHOOSE e \in set : e.stream = x
    <3>1. \E e \in set : e.stream = x
      BY <2>3
    <3>2. \A e \in set : \E i \in DOMAIN synced : e = Stored(f)[i]
      OBVIOUS
    <3> HIDE DEF f
    <3>3. c \in set /\ c.stream = x
      <4> HIDE DEF set
      <4> QED BY <3>1
    <3>4. frame(x) = c.frame
      OBVIOUS
    <3> HIDE DEF c, set, frame
    <3> QED BY <2>3, <3>2, <3>3, <3>4
  <2>6. /\ \A x \in group : frame(x).time \in Int /\ (x = s => frame(x) = f)
        /\ \A x \in group : x # s => Distance(f, frame(x)) <= MaxDiff
    <3>1. f.time \in Int /\ \A i \in DOMAIN synced : synced[i].frame # None => synced[i].frame.time \in Int
      BY <2>1, Entry DEF Entries, TimedFrames
    <3>2. \A i \in DOMAIN synced : synced[i].stream # s =>
            Distance(f, synced[i].frame) <= MaxDiff /\ synced[i].frame.time \in Int
      <4>1. ASSUME NEW i \in DOMAIN synced, synced[i].stream # s
            PROVE  /\ ~(Distance(f, synced[i].frame) > MaxDiff)
                   /\ f.time \in Int /\ synced[i].frame.time \in Int
        BY <2>1, <2>2, <3>1, <4>1 DEF IsFar
      <4> HIDE DEF f
      <4> QED BY <4>1, TimesAssumption DEF Distance
    <3> HIDE DEF f, frame
    <3> QED BY <2>3, <2>5, <3>1, <3>2
  <2>7. \A x \in Streams \ group : handed'[x].kind # "set"
    <3>1. \A x \in Streams : handed[x].kind = "set" => x \in group
      OBVIOUS
    <3> HIDE DEF group
    <3> QED BY <2>4, <3>1
  <2>8. ASSUME NEW x \in group, NEW y \in group PROVE frame(x).time - frame(y).time <= MaxDiff
    <3>1. x \in Streams /\ y \in Streams /\ f.time \in Int
      BY <2>1, Entry DEF Entries, TimedFrames
    <3>2. x = y \/ x = s \/ y = s
      BY <3>1, StreamsAssumption
    <3> HIDE DEF f, frame, group
    <3>3. CASE x = y
      BY <2>6, <3>3, TimesAssumption
    <3>4. CASE x = s /\ y # s
      <4>1. frame(x) = f /\ Distance(f, frame(y)) <= MaxDiff /\ frame(y).time \in Int
        BY <2>6, <2>8, <3>4
      <4> QED BY <3>1, <4>1, TimesAssumption DEF Distance
    <3>5. CASE y = s /\ x # s
      <4>1. frame(y) = f /\ Distance(f, frame(x)) <= MaxDiff /\ frame(x).time \in Int
        BY <2>6, <2>8, <3>5
      <4> QED BY <3>1, <4>1, TimesAssumption DEF Distance
    <3> QED BY <3>2, <3>3, <3>4, <3>5
  <2>9. SetInv'
    BY <2>4, <2>7
  <2>10. SetIsOfOneMoment'
    <3> HIDE DEF f, frame, group, SetInv
    <3>1. SUFFICES ASSUME NEW x \in Streams, NEW y \in Streams,
                          handed'[x].kind = "set", handed'[y].kind = "set"
                   PROVE  /\ handed'[x].index = handed'[y].index
                          /\ handed'[x].time - handed'[y].time <= MaxDiff
      OBVIOUS
    <3>2. x \in group /\ y \in group
      BY <2>7, <3>1
    <3>3. /\ handed'[x] = [index |-> lastFrameID + 1, kind |-> "set", time |-> frame(x).time]
          /\ handed'[y] = [index |-> lastFrameID + 1, kind |-> "set", time |-> frame(y).time]
      BY <2>4, <3>2
    <3> QED BY <2>8, <3>2, <3>3
  <2> QED BY <2>9, <2>10
<1>3. ASSUME NEW s \in Streams, Stores(s) PROVE (SetInv /\ SetIsOfOneMoment)'
  <2>1. /\ handed' = handed /\ DOMAIN synced' = DOMAIN synced
        /\ \A i \in DOMAIN synced : synced'[i].stream = synced[i].stream
    BY <1>3, NewFrame, StoredEntries DEF Stores
  <2> QED BY <2>1
<1>4. ASSUME NEW s \in Streams, Passes(s) PROVE (SetInv /\ SetIsOfOneMoment)'
  <2>1. /\ handed' = handed /\ DOMAIN synced' = DOMAIN synced
        /\ \A i \in DOMAIN synced : synced'[i].stream = synced[i].stream
    BY <1>4, NewFrame, StoredEntries DEF Passes
  <2> QED BY <2>1
<1>5. ASSUME NEW s \in Streams, ReadLastID(s) PROVE (SetInv /\ SetIsOfOneMoment)'
  BY <1>5 DEF ReadLastID
<1>6. ASSUME NEW s \in Streams, PassFrame(s) PROVE (SetInv /\ SetIsOfOneMoment)'
  <2>1. /\ synced' = synced
        /\ \A x \in Streams : handed'[x] = handed[x] \/ handed'[x].kind # "set"
    BY <1>6, <1>a DEF PassFrame
  <2> QED BY <2>1
<1>7. ASSUME NEW a \in Apps, NEW s \in Streams, StartStream(a, s) PROVE (SetInv /\ SetIsOfOneMoment)'
  BY <1>7 DEF StartStream
<1>8. ASSUME NEW a \in Apps, NEW s \in Streams, StopStream(a, s) PROVE (SetInv /\ SetIsOfOneMoment)'
  BY <1>8 DEF StopStream
<1>9. ASSUME NEW a \in Apps, Decide(a) PROVE (SetInv /\ SetIsOfOneMoment)'
  BY <1>9 DEF Decide
<1>10. ASSUME NEW a \in Apps, DecideFails(a) PROVE (SetInv /\ SetIsOfOneMoment)'
  BY <1>10 DEF DecideFails
<1>11. ASSUME NEW a \in Apps, SetEnabled(a) PROVE (SetInv /\ SetIsOfOneMoment)'
  BY <1>11 DEF SetEnabled
<1>12. ASSUME NEW a \in Apps, JoinThread(a) PROVE (SetInv /\ SetIsOfOneMoment)'
  BY <1>12 DEF JoinThread
<1>13. ASSUME NEW a \in Apps, NEW g \in Groups \cup {<<>>}, BeginGroup(a, g) PROVE (SetInv /\ SetIsOfOneMoment)'
  BY <1>13 DEF BeginGroup
<1>14. ASSUME NEW a \in Apps, GroupDecide(a) PROVE (SetInv /\ SetIsOfOneMoment)'
  BY <1>14 DEF GroupDecide
<1>15. ASSUME NEW a \in Apps, GroupFails(a) PROVE (SetInv /\ SetIsOfOneMoment)'
  BY <1>15 DEF GroupFails
<1>16. ASSUME NEW a \in Apps, GroupSetEnabled(a) PROVE (SetInv /\ SetIsOfOneMoment)'
  BY <1>16 DEF GroupSetEnabled
<1>17. ASSUME NEW a \in Apps, ReplaceGroup(a) PROVE (SetInv /\ SetIsOfOneMoment)'
  BY <1>17 DEF ReplaceGroup
<1>18. CASE UNCHANGED vars
  BY <1>18 DEF vars
<1> QED
  BY Cases, <1>1, <1>2, <1>3, <1>4, <1>5, <1>6, <1>7, <1>8, <1>9, <1>10, <1>11, <1>12,
     <1>13, <1>14, <1>15, <1>16, <1>17, <1>18
  DEF Next, UsbThread, Application

LEMMA WaitStep == IInv /\ [Next]_vars => NoCompleteSetWaits'
<1> SUFFICES ASSUME IInv, [Next]_vars PROVE NoCompleteSetWaits'
  OBVIOUS
<1>0. TypeOK /\ FrameInv /\ NoCompleteSetWaits BY DEF IInv
<1> USE <1>0 DEF NoCompleteSetWaits, properties, threads
<1>1. ASSUME NEW s \in Streams, FrameReady(s) PROVE NoCompleteSetWaits'
  BY <1>1 DEF FrameReady
<1>2. ASSUME NEW s \in Streams, Sends(s) PROVE NoCompleteSetWaits'
  <2>1. DOMAIN synced # {} /\ DOMAIN synced' = DOMAIN synced
    BY <1>2 DEF Sends, SendSet, Own
  <2>2. \A i \in DOMAIN synced : synced'[i].frame = None
    BY <1>2, Entry DEF Sends, SendSet, Entries
  <2> QED BY <2>1, <2>2
<1>3. ASSUME NEW s \in Streams, Stores(s) PROVE NoCompleteSetWaits'
  <2>1. \E i \in DOMAIN synced : synced'[i].frame = None
    BY <1>3, NewFrame, IncompleteFrames DEF Stores
  <2>2. DOMAIN synced' = DOMAIN synced
    BY <1>3, NewFrame, StoredEntries DEF Stores
  <2> QED BY <2>1, <2>2
<1>4. ASSUME NEW s \in Streams, Passes(s) PROVE NoCompleteSetWaits'
  <2>1. /\ DOMAIN synced' = DOMAIN synced
        /\ \A i \in DOMAIN synced : synced'[i].frame \in {None, synced[i].frame}
    BY <1>4, NewFrame, StoredEntries DEF Passes
  <2>2. ASSUME synced' # <<>> PROVE synced # <<>>
    <3>1. Stored(usb[s].frame) \in Seq(Entries) /\ synced \in Seq(Entries)
      BY <1>4, NewFrame, StoredEntries DEF Passes, TypeOK
    <3> QED BY <1>4, <2>1, <2>2, <3>1 DEF Passes
  <2> QED BY <2>1, <2>2
<1>5. ASSUME NEW s \in Streams, ReadLastID(s) PROVE NoCompleteSetWaits'
  BY <1>5 DEF ReadLastID
<1>6. ASSUME NEW s \in Streams, PassFrame(s) PROVE NoCompleteSetWaits'
  BY <1>6 DEF PassFrame
<1>7. ASSUME NEW a \in Apps, NEW s \in Streams, StartStream(a, s) PROVE NoCompleteSetWaits'
  BY <1>7 DEF StartStream
<1>8. ASSUME NEW a \in Apps, NEW s \in Streams, StopStream(a, s) PROVE NoCompleteSetWaits'
  BY <1>8 DEF StopStream
<1>9. ASSUME NEW a \in Apps, Decide(a) PROVE NoCompleteSetWaits'
  BY <1>9 DEF Decide
<1>10. ASSUME NEW a \in Apps, DecideFails(a) PROVE NoCompleteSetWaits'
  BY <1>10 DEF DecideFails
<1>11. ASSUME NEW a \in Apps, SetEnabled(a) PROVE NoCompleteSetWaits'
  BY <1>11 DEF SetEnabled
<1>12. ASSUME NEW a \in Apps, JoinThread(a) PROVE NoCompleteSetWaits'
  BY <1>12 DEF JoinThread
<1>13. ASSUME NEW a \in Apps, NEW g \in Groups \cup {<<>>}, BeginGroup(a, g) PROVE NoCompleteSetWaits'
  BY <1>13 DEF BeginGroup
<1>14. ASSUME NEW a \in Apps, GroupDecide(a) PROVE NoCompleteSetWaits'
  BY <1>14 DEF GroupDecide
<1>15. ASSUME NEW a \in Apps, GroupFails(a) PROVE NoCompleteSetWaits'
  BY <1>15 DEF GroupFails
<1>16. ASSUME NEW a \in Apps, GroupSetEnabled(a) PROVE NoCompleteSetWaits'
  BY <1>16 DEF GroupSetEnabled
<1>17. ASSUME NEW a \in Apps, ReplaceGroup(a) PROVE NoCompleteSetWaits'
  BY <1>17 DEF ReplaceGroup
<1>18. CASE UNCHANGED vars
  BY <1>18 DEF vars
<1> QED
  BY Cases, <1>1, <1>2, <1>3, <1>4, <1>5, <1>6, <1>7, <1>8, <1>9, <1>10, <1>11, <1>12,
     <1>13, <1>14, <1>15, <1>16, <1>17, <1>18
  DEF Next, UsbThread, Application

LEMMA ReferencesStep == IInv /\ [Next]_vars => ReferencesExact'
<1> SUFFICES ASSUME IInv, [Next]_vars PROVE Exact'
  BY DEF ReferencesExact, Exact, Holding, Using
<1>0. TypeOK /\ FrameInv /\ Exact BY References DEF IInv
<1>a. /\ usb \in [Streams -> UsbStates] /\ synced \in Seq(Entries) /\ refs \in [Frames -> Int]
      /\ Cardinality({}) = 0
      /\ \A g \in Frames : Cardinality(Holding(synced, g)) \in Nat /\ Cardinality(Using(usb, g)) \in Nat
  <2>1. usb \in [Streams -> UsbStates] /\ synced \in Seq(Entries) /\ refs \in [Frames -> Int]
    BY <1>0 DEF TypeOK
  <2>2. \A g : Holding(synced, g) \subseteq DOMAIN synced
    BY DEF Holding
  <2>3. \A g \in Frames : Cardinality(Holding(synced, g)) \in Nat
    BY <2>1, <2>2, HoldingIsFinite
  <2>4. \A g \in Frames : Cardinality(Using(usb, g)) \in Nat
    BY <1>0, UsingCount DEF FrameInv
  <2> QED BY <2>1, <2>3, <2>4, FS_EmptySet
<1>b. ASSUME synced' = synced, refs' = refs, \A x \in Streams : usb'[x].frame = usb[x].frame
      PROVE  Exact'
  BY <1>0, <1>b, SameThreads DEF Exact
<1> USE DEF properties, threads
<1>1. ASSUME NEW s \in Streams, FrameReady(s) PROVE Exact'
  <2>1. PICK t \in 0..MaxTime :
          LET f == [stream |-> s, id |-> stable[s].id + 1, time |-> t] IN
          /\ f \in TimedFrames /\ f # None /\ FrameOf(f) \in Frames
          /\ stable' = [stable EXCEPT ![s] = [id |-> f.id, time |-> t]]
          /\ usb' = [usb EXCEPT ![s] = [Waiting EXCEPT !.at = "new", !.frame = f]]
          /\ refs' = [refs EXCEPT ![FrameOf(f)] = 1]
    BY <1>1, <1>0, ReadyFrame
  <2> DEFINE f == [stream |-> s, id |-> stable[s].id + 1, time |-> t]
  <2>2. synced' = synced /\ usb[s].frame = None
    BY <1>1, <1>0 DEF FrameReady, FrameInv
  <2>3. Holding(synced, FrameOf(f)) = {}
    <3>1. ASSUME NEW i \in DOMAIN synced, synced[i].frame # None, FrameOf(synced[i].frame) = FrameOf(f)
          PROVE  FALSE
      <4>1. /\ synced[i].frame.stream = s /\ synced[i].frame.id = stable[s].id + 1
            /\ stable[s].id \in Int
        BY <1>0, <3>1, BoundsAssumption DEF FrameOf, TypeOK
      <4>2. synced[i].frame.id <= stable[s].id
        BY <1>0, <3>1, <4>1 DEF FrameInv
      <4> QED BY <4>1, <4>2
    <3> QED BY <3>1 DEF Holding
  <2>4. /\ \A x \in Streams : usb[x].frame # None => usb[x].frame.stream = x
        /\ \A x \in Streams : usb'[x].frame = IF x = s THEN f ELSE usb[x].frame
        /\ f # None /\ f.stream = s
    BY <1>0, <1>a, <2>1 DEF FrameInv, Waiting
  <2> HIDE DEF f
  <2>5. ASSUME NEW g \in Frames
        PROVE  refs'[g] = Cardinality(Holding(synced, g)) + Cardinality(Using(usb', g))
    <3>1. Cardinality(Using(usb, g)) =
            IF usb[g.stream].frame # None /\ FrameOf(usb[g.stream].frame) = g THEN 1 ELSE 0
      BY <2>4, UsingCount
    <3>2. Cardinality(Using(usb', g)) =
            IF usb'[g.stream].frame # None /\ FrameOf(usb'[g.stream].frame) = g THEN 1 ELSE 0
      BY <2>4, UsingCount
    <3>3. CASE g = FrameOf(f)
      <4>1. refs'[g] = 1 /\ g.stream = s /\ Cardinality(Holding(synced, g)) = 0
        BY <1>a, <2>1, <2>3, <2>4, <3>3 DEF f, FrameOf
      <4>2. Cardinality(Using(usb', g)) = 1
        BY <2>4, <3>2, <3>3, <4>1
      <4> QED BY <4>1, <4>2
    <3>4. CASE g # FrameOf(f)
      <4>1. refs'[g] = refs[g] /\ g.stream \in Streams
        BY <1>a, <2>1, <3>4 DEF f, Frames
      <4>2. Cardinality(Using(usb', g)) = Cardinality(Using(usb, g))
        BY <2>2, <2>4, <3>1, <3>2, <3>4, <4>1
      <4> QED BY <1>0, <4>1, <4>2 DEF Exact
    <3> QED BY <3>3, <3>4
  <2> QED BY <2>2, <2>5 DEF Exact
<1>2. ASSUME NEW s \in Streams, Sends(s) PROVE Exact'
  <2> DEFINE f == usb[s].frame
  <2>1. f \in TimedFrames /\ f # None /\ FrameOf(f) \in Frames
    BY <1>2, <1>0, NewFrame, NoneAssumption DEF Sends, TimedFrames
  <2>2. \A g \in Frames : /\ Cardinality(Holding(Stored(f), g)) \in Nat
                          /\ KeptRefs(f)[g] = refs[g] + Cardinality(Holding(Stored(f), g))
                                                      - Cardinality(Holding(synced, g))
    <3>1. Stored(f) \in Seq(Entries) /\ \A g : Holding(Stored(f), g) \subseteq DOMAIN Stored(f)
      BY <1>0, <2>1, StoredEntries DEF Holding
    <3>2. \A g \in Frames : Cardinality(Holding(Stored(f), g)) \in Nat
      BY <3>1, HoldingIsFinite
    <3> QED BY <1>2, <1>0, <3>2, KeptCount DEF Sends
  <2>3. \A g \in Frames : Cardinality(Using(usb', g)) =
          Cardinality(Using(usb, g)) - (IF g = FrameOf(f) THEN 1 ELSE 0)
    BY <1>2, <1>0, <1>a, <2>1, ThreadDone DEF Sends
  <2>4. \A g \in Frames : refs'[g] = KeptRefs(f)[g] - Cardinality(Holding(Stored(f), g))
                                     - (IF g = FrameOf(f) THEN 1 ELSE 0)
    <3>1. \A i \in DOMAIN synced : Stored(f)[i].frame # None
      BY <1>2, <1>0, <2>1, CompleteFrames, StoredEntries DEF Sends
    <3>2. \A g : {i \in DOMAIN synced : FrameOf(Stored(f)[i].frame) = g} = Holding(Stored(f), g)
      BY <1>0, <2>1, <3>1, StoredEntries DEF Holding
    <3>3. refs' = [g \in Frames |-> KeptRefs(f)[g]
                     - Cardinality({i \in DOMAIN synced : FrameOf(Stored(f)[i].frame) = g})
                     - (IF g = FrameOf(f) THEN 1 ELSE 0)]
      BY <1>2 DEF Sends, SendSet
    <3> HIDE DEF f
    <3> QED BY <3>2, <3>3
  <2>5. \A g \in Frames : Holding(synced', g) = {}
    BY <1>2, <1>0, Entry DEF Sends, SendSet, Entries, Holding
  <2> HIDE DEF f
  <2>6. \A g \in Frames : Cardinality(Holding(synced', g)) = 0
    BY <1>a, <2>5, Zenon
  <2>7. ASSUME NEW g \in Frames
        PROVE  refs'[g] = Cardinality(Holding(synced', g)) + Cardinality(Using(usb', g))
    <3>1. /\ refs[g] = Cardinality(Holding(synced, g)) + Cardinality(Using(usb, g))
          /\ Cardinality(Holding(synced, g)) \in Nat /\ Cardinality(Using(usb, g)) \in Nat
          /\ Cardinality(Holding(Stored(f), g)) \in Nat
      BY <1>0, <1>a, <2>2 DEF Exact
    <3> QED BY <2>2, <2>3, <2>4, <2>6, <3>1
  <2> QED BY <2>7 DEF Exact
<1>3. ASSUME NEW s \in Streams, Stores(s) PROVE Exact'
  <2> DEFINE f == usb[s].frame
  <2>1. f \in TimedFrames /\ f # None /\ FrameOf(f) \in Frames
    BY <1>3, <1>0, NewFrame, NoneAssumption DEF Stores, TimedFrames
  <2>2. \A g \in Frames : /\ Cardinality(Holding(Stored(f), g)) \in Nat
                          /\ KeptRefs(f)[g] = refs[g] + Cardinality(Holding(Stored(f), g))
                                                      - Cardinality(Holding(synced, g))
    <3>1. Stored(f) \in Seq(Entries) /\ \A g : Holding(Stored(f), g) \subseteq DOMAIN Stored(f)
      BY <1>0, <2>1, StoredEntries DEF Holding
    <3>2. \A g \in Frames : Cardinality(Holding(Stored(f), g)) \in Nat
      BY <3>1, HoldingIsFinite
    <3> QED BY <1>3, <1>0, <3>2, KeptCount DEF Stores
  <2>3. \A g \in Frames : Cardinality(Using(usb', g)) =
          Cardinality(Using(usb, g)) - (IF g = FrameOf(f) THEN 1 ELSE 0)
    BY <1>3, <1>0, <1>a, <2>1, ThreadDone DEF Stores
  <2>4. /\ synced' = Stored(f)
        /\ \A g \in Frames : refs'[g] = KeptRefs(f)[g] - (IF g = FrameOf(f) THEN 1 ELSE 0)
    <3>1. synced' = Stored(f) /\ refs' = [KeptRefs(f) EXCEPT ![FrameOf(f)] = @ - 1]
      BY <1>3 DEF Stores
    <3>2. DOMAIN KeptRefs(f) = Frames /\ \A g \in Frames : KeptRefs(f)[g] \in Int
      <4>1. DOMAIN KeptRefs(f) = Frames
        BY DEF KeptRefs
      <4> HIDE DEF f
      <4> QED BY <1>a, <2>2, <4>1
    <3> HIDE DEF f
    <3> QED BY <2>1, <3>1, <3>2
  <2> HIDE DEF f
  <2>5. \A g \in Frames : Cardinality(Holding(synced', g)) = Cardinality(Holding(Stored(f), g))
    BY <2>4
  <2>7. ASSUME NEW g \in Frames
        PROVE  refs'[g] = Cardinality(Holding(synced', g)) + Cardinality(Using(usb', g))
    <3>1. /\ refs[g] = Cardinality(Holding(synced, g)) + Cardinality(Using(usb, g))
          /\ Cardinality(Holding(synced, g)) \in Nat /\ Cardinality(Using(usb, g)) \in Nat
          /\ Cardinality(Holding(Stored(f), g)) \in Nat
      BY <1>0, <1>a, <2>2 DEF Exact
    <3> QED BY <2>2, <2>3, <2>4, <2>5, <3>1
  <2> QED BY <2>7 DEF Exact
<1>4. ASSUME NEW s \in Streams, Passes(s) PROVE Exact'
  <2> DEFINE f == usb[s].frame
  <2>1. f \in TimedFrames /\ f # None /\ FrameOf(f) \in Frames
    BY <1>4, <1>0, NewFrame, NoneAssumption DEF Passes, TimedFrames
  <2>2. \A g \in Frames : /\ Cardinality(Holding(Stored(f), g)) \in Nat
                          /\ KeptRefs(f)[g] = refs[g] + Cardinality(Holding(Stored(f), g))
                                                      - Cardinality(Holding(synced, g))
    <3>1. Stored(f) \in Seq(Entries) /\ \A g : Holding(Stored(f), g) \subseteq DOMAIN Stored(f)
      BY <1>0, <2>1, StoredEntries DEF Holding
    <3>2. \A g \in Frames : Cardinality(Holding(Stored(f), g)) \in Nat
      BY <3>1, HoldingIsFinite
    <3> QED BY <1>4, <1>0, <3>2, KeptCount DEF Passes
  <2>3. synced' = Stored(f) /\ refs' = KeptRefs(f)
    BY <1>4 DEF Passes
  <2>4. \A g : Using(usb', g) = Using(usb, g)
    <3>1. \A x \in Streams : usb'[x].frame = usb[x].frame
      BY <1>4, <1>a DEF Passes, UsbStates
    <3> QED BY <3>1, SameThreads
  <2> HIDE DEF f
  <2> QED BY <1>0, <1>a, <2>2, <2>3, <2>4 DEF Exact
<1>5. ASSUME NEW s \in Streams, ReadLastID(s) PROVE Exact'
  <2>1. \A x \in Streams : usb'[x].frame = usb[x].frame
    BY <1>5, <1>a DEF ReadLastID, UsbStates, Waiting
  <2> QED BY <1>5, <1>b, <2>1 DEF ReadLastID
<1>6. ASSUME NEW s \in Streams, PassFrame(s) PROVE Exact'
  <2> DEFINE f == usb[s].frame
  <2>1. f # None /\ f \in TimedFrames
    BY <1>6, <1>0, <1>a DEF PassFrame, FrameInv, UsbStates
  <2>2. \A g \in Frames : Cardinality(Using(usb', g)) =
          Cardinality(Using(usb, g)) - (IF g = FrameOf(f) THEN 1 ELSE 0)
    BY <1>6, <1>0, <1>a, <2>1, ThreadDone DEF PassFrame
  <2>3. synced' = synced /\ refs' = [refs EXCEPT ![FrameOf(f)] = @ - 1] /\ FrameOf(f) \in Frames
    BY <1>6, <2>1 DEF PassFrame, FrameOf, Frames, TimedFrames
  <2> HIDE DEF f
  <2>4. \A g \in Frames : refs'[g] = refs[g] - (IF g = FrameOf(f) THEN 1 ELSE 0)
    BY <1>a, <2>3
  <2> QED BY <1>0, <1>a, <2>2, <2>3, <2>4 DEF Exact
<1>7. ASSUME NEW a \in Apps, NEW s \in Streams, StartStream(a, s) PROVE Exact'
  <2>1. \A x \in Streams : usb'[x].frame = usb[x].frame
    BY <1>7, <1>a DEF StartStream, UsbStates, Waiting
  <2> QED BY <1>7, <1>b, <2>1 DEF StartStream
<1>8. ASSUME NEW a \in Apps, NEW s \in Streams, StopStream(a, s) PROVE Exact'
  BY <1>8, <1>b DEF StopStream
<1>9. ASSUME NEW a \in Apps, Decide(a) PROVE Exact'
  BY <1>9, <1>b DEF Decide
<1>10. ASSUME NEW a \in Apps, DecideFails(a) PROVE Exact'
  BY <1>10, <1>b DEF DecideFails
<1>11. ASSUME NEW a \in Apps, SetEnabled(a) PROVE Exact'
  BY <1>11, <1>b DEF SetEnabled
<1>12. ASSUME NEW a \in Apps, JoinThread(a) PROVE Exact'
  <2>1. \A x \in Streams : usb'[x].frame = usb[x].frame
    BY <1>12, <1>a DEF JoinThread, UsbStates, Waiting
  <2> QED BY <1>12, <1>b, <2>1 DEF JoinThread
<1>13. ASSUME NEW a \in Apps, NEW g \in Groups \cup {<<>>}, BeginGroup(a, g) PROVE Exact'
  BY <1>13, <1>b DEF BeginGroup
<1>14. ASSUME NEW a \in Apps, GroupDecide(a) PROVE Exact'
  BY <1>14, <1>b DEF GroupDecide
<1>15. ASSUME NEW a \in Apps, GroupFails(a) PROVE Exact'
  BY <1>15, <1>b DEF GroupFails
<1>16. ASSUME NEW a \in Apps, GroupSetEnabled(a) PROVE Exact'
  BY <1>16, <1>b DEF GroupSetEnabled
<1>17. ASSUME NEW a \in Apps, ReplaceGroup(a) PROVE Exact'
  <2>1. \A g \in Frames : Holding(synced', g) = {}
    BY <1>17 DEF ReplaceGroup, Holding
  <2>2. \A g : Using(usb', g) = Using(usb, g)
    <3>1. \A x \in Streams : usb'[x].frame = usb[x].frame
      BY <1>17, <1>a DEF ReplaceGroup, UsbStates
    <3> QED BY <3>1, SameThreads
  <2>3. \A g \in Frames : refs'[g] = refs[g] - Cardinality(Holding(synced, g))
    BY <1>17 DEF ReplaceGroup, Holding
  <2>4. \A g \in Frames : Cardinality(Holding(synced', g)) = 0
    BY <1>a, <2>1, Zenon
  <2> QED BY <1>0, <1>a, <2>2, <2>3, <2>4 DEF Exact
<1>18. CASE UNCHANGED vars
  BY <1>18, <1>b DEF vars
<1> QED
  BY Cases, <1>1, <1>2, <1>3, <1>4, <1>5, <1>6, <1>7, <1>8, <1>9, <1>10, <1>11, <1>12,
     <1>13, <1>14, <1>15, <1>16, <1>17, <1>18
  DEF Next, UsbThread, Application

-----------------------------------------------------------------------------
(* The theorems. *)

\* IInv holds in every reachable state of the USB thread, the frame group and the application.
THEOREM Invariance == Spec => []IInv
<1>1. IInv /\ [Next]_vars => IInv'
  BY TypeStep, DecisionStep, FrameStep, SetStep, WaitStep, ReferencesStep DEF IInv
<1> QED BY InitIInv, <1>1, PTL DEF Spec

\* Every variable keeps its type: the list only has streams of the sensor and frames
\* they made, and the index of the sets stays a number.
THEOREM TypeCorrect == Spec => []TypeOK
<1>1. IInv => TypeOK BY DEF IInv
<1> QED BY <1>1, Invariance, PTL

\* OnNewStreamData and SetFrameSyncStreamGroup add and release exactly one reference for
\* each entry of m_FrameSyncedStreams that a frame enters and leaves, whatever the order
\* of the two streams' frames, also when a stream is in the group more than once.
THEOREM ReferencesAreExact == Spec => []ReferencesExact
<1>1. IInv => ReferencesExact BY DEF IInv
<1> QED BY <1>1, Invariance, PTL

\* A set OnNewStreamData hands on has one index and frames of one moment: it compared
\* the last frame with each stored frame of the other stream, so this is about two.
THEOREM SetsAreOfOneMoment == Spec => []SetIsOfOneMoment
<1>1. IInv => SetIsOfOneMoment BY DEF IInv
<1> QED BY <1>1, Invariance, PTL

\* The frame that completes a set hands it on in the same critical section: no frame is
\* left in a complete list, where nothing would take it.
THEOREM NoSetIsForgotten == Spec => []NoCompleteSetWaits
<1>1. IInv => NoCompleteSetWaits BY DEF IInv
<1> QED BY <1>1, Invariance, PTL

\* m_nFrameSyncEnabled, decided without m_frameSyncCs and set under it later, is what is asked
\* for when every call is done, if no command failed and no decision was overtaken.
THEOREM SyncIsCurrent == Spec => []EnabledIsCurrent
<1>1. IInv => EnabledIsCurrent
  BY DEF IInv, DecisionInv, EnabledIsCurrent, Deciding, Both
<1> QED BY <1>1, Invariance, PTL

=============================================================================
