------------------------- MODULE FrameBuffersProofs -------------------------
(***************************************************************************)
(* Proofs about FrameBuffers for any number of frames, buffers, threads,   *)
(* streams, sizes and application allocators.                              *)
(*                                                                         *)
(* The argument has two tiers. CountInv, the reference counting, is        *)
(* inductive by itself and gives types and exact counts. BufferInv, which  *)
(* says where the buffer and the sensor's entry of every frame are at each *)
(* step of a release, is inductive relative to it.                         *)
(***************************************************************************)
EXTENDS FrameBuffers, FiniteSetTheorems, TLAPS

\* Tier 1. The driver owns the frame it is acquiring; a release that is about to
\* give a buffer back has one.
CountInv ==
    /\ TypeOK
    /\ RefCountExact
    /\ acquiring # None => acquiring \in holds[Driver]
    /\ release.step = "free" => data[release.frame] # None

\* Tier 2. The frame of a release is counted out and not the one being acquired;
\* its buffer is its own until it is given back.
ReleaseInv ==
    release # NoRelease =>
        /\ refCount[release.frame] = 0 /\ release.frame # acquiring
        /\ ~release.cookie => release.frame \notin currentFrames
        /\ release.step = "detach" <=> data[release.frame] = None
        /\ release.step = "free" /\ release.func = Pool => alive

\* A frame being acquired has no buffer yet and is unknown to the sensor.
AcquiringInv ==
    acquiring # None =>
        /\ refCount[acquiring] = 1
        /\ data[acquiring] = None /\ ~attached[acquiring]
        /\ acquiring \notin currentFrames /\ started # {}

\* Frames in the manager's pool keep nothing; frames in use have a buffer.
IdleInv == \A f \in Frames :
    /\ refCount[f] = 0 /\ f # release.frame => data[f] = None /\ f \notin currentFrames
    /\ refCount[f] > 0 /\ f # acquiring => data[f] # None

\* The sensor's list of current frames against the cookies of the frames, and
\* a frame that still holds a pool buffer is in that list.
CurrentInv ==
    /\ started # {} => alive
    /\ \A f \in Frames :
        /\ f \in currentFrames => attached[f]
        /\ attached[f] /\ refCount[f] > 0 => f \in currentFrames
        /\ data[f] # None /\ freeFunc[f] = Pool => f \in currentFrames

\* Buffers of the pool, wherever they are, have the size required now or were
\* overtaken by a change of size.
PoolInv ==
    LET Fits(b) == b \in overtaken \/ bufferSize[b] = requiredSize
    IN  /\ \A b \in available : bufferFrom[b] = Pool /\ Fits(b)
        /\ \A f \in currentFrames : data[f] # None /\ freeFunc[f] = Pool => Fits(data[f])
        /\ release.step = "free" /\ release.func = Pool => Fits(data[release.frame])

BufferInv ==
    /\ ReleaseInv /\ AcquiringInv /\ IdleInv /\ CurrentInv /\ PoolInv
    /\ OneOwnerPerBuffer /\ BufferReturnsToItsMaker /\ DeadSensorIsForgotten

-----------------------------------------------------------------------------
(* Lemmas about the owners of a frame. *)

\* The owners of a frame are finitely many threads.
LEMMA OwnersFinite ==
    ASSUME NEW f PROVE IsFiniteSet(Owners(f)) /\ Cardinality(Owners(f)) \in Nat
<1>1. IsFiniteSet(Threads) /\ Owners(f) \subseteq Threads
  BY FiniteAssumption DEF Owners
<1> QED BY <1>1, FS_Subset, FS_CardinalityType

\* An owned frame has a positive count, and a positive count an owner.
LEMMA OwnedIffCounted ==
    ASSUME RefCountExact, NEW f \in Frames
    PROVE  /\ refCount[f] \in Nat
           /\ Owners(f) # {} <=> refCount[f] > 0
<1>1. refCount[f] = Cardinality(Owners(f)) BY DEF RefCountExact
<1>2. IsFiniteSet(Owners(f)) /\ Cardinality(Owners(f)) \in Nat BY OwnersFinite
<1>3. Cardinality(Owners(f)) = 0 <=> Owners(f) = {} BY <1>2, FS_EmptySet
<1> QED BY <1>1, <1>2, <1>3

\* A reference more: the count grows with the owners.
LEMMA OneMore ==
    ASSUME TypeOK, RefCountExact, NEW t \in Threads, NEW f \in Frames,
           f \notin holds[t],
           holds' = [holds EXCEPT ![t] = @ \cup {f}],
           refCount' = [refCount EXCEPT ![f] = @ + 1]
    PROVE  RefCountExact'
<1> SUFFICES ASSUME NEW g \in Frames
             PROVE  refCount'[g] = Cardinality(Owners(g)')
  BY DEF RefCountExact
<1>1. IsFiniteSet(Owners(g)) /\ refCount[g] = Cardinality(Owners(g))
  BY OwnersFinite DEF RefCountExact
<1>2. CASE g = f
  <2>1. Owners(g)' = Owners(g) \cup {t} /\ t \notin Owners(g)
    BY <1>2 DEF Owners, TypeOK
  <2>2. Cardinality(Owners(g)') = Cardinality(Owners(g)) + 1
    BY <2>1, <1>1, FS_AddElement
  <2> QED BY <2>2, <1>1, <1>2 DEF TypeOK
<1>3. CASE g # f
  <2>1. Owners(g)' = Owners(g) BY <1>3 DEF Owners, TypeOK
  <2> QED BY <2>1, <1>1, <1>3 DEF TypeOK
<1> QED BY <1>2, <1>3

\* A reference less: the count shrinks with the owners.
LEMMA OneLess ==
    ASSUME TypeOK, RefCountExact, NEW t \in Threads, NEW f \in Frames,
           f \in holds[t],
           holds' = [holds EXCEPT ![t] = @ \ {f}],
           refCount' = [refCount EXCEPT ![f] = @ - 1]
    PROVE  RefCountExact' /\ refCount'[f] \in Nat
<1>1. refCount[f] \in Nat /\ refCount[f] > 0
  BY OwnedIffCounted DEF Owners
<1>2. ASSUME NEW g \in Frames PROVE refCount'[g] = Cardinality(Owners(g)')
  <2>1. IsFiniteSet(Owners(g)) /\ refCount[g] = Cardinality(Owners(g))
    BY OwnersFinite DEF RefCountExact
  <2>2. CASE g = f
    <3>1. Owners(g)' = Owners(g) \ {t} /\ t \in Owners(g)
      BY <2>2 DEF Owners, TypeOK
    <3>2. Cardinality(Owners(g)') = Cardinality(Owners(g)) - 1
      BY <3>1, <2>1, FS_RemoveElement
    <3> QED BY <3>2, <2>1, <2>2 DEF TypeOK
  <2>3. CASE g # f
    <3>1. Owners(g)' = Owners(g) BY <2>3 DEF Owners, TypeOK
    <3> QED BY <3>1, <2>1, <2>3 DEF TypeOK
  <2> QED BY <2>2, <2>3
<1> QED BY <1>1, <1>2 DEF RefCountExact, TypeOK

\* Steps that touch neither the counts nor the references.
LEMMA SameCounts ==
    ASSUME RefCountExact, UNCHANGED <<refCount, holds>> PROVE RefCountExact'
BY DEF RefCountExact, Owners

-----------------------------------------------------------------------------
(* Tier 1: types and counts. *)

LEMMA InitCountInv == Init => CountInv
<1> SUFFICES ASSUME Init PROVE CountInv OBVIOUS
<1>1. TypeOK
  BY NamesAssumption DEF Init, TypeOK, Releases, NoRelease, Allocators
<1>2. RefCountExact
  <2> SUFFICES ASSUME NEW f \in Frames PROVE refCount[f] = Cardinality(Owners(f))
    BY DEF RefCountExact
  <2>1. Owners(f) = {} BY DEF Init, Owners
  <2> QED BY <2>1, FS_EmptySet DEF Init
<1> QED BY <1>1, <1>2 DEF CountInv, Init, NoRelease

\* Sensor::releaseAllFrames keeps the types of what it rewrites.
LEMMA ReleaseAllTypes ==
    ASSUME CountInv, ReleaseAllFrames
    PROVE  /\ freeFunc' \in [Frames -> Allocators \cup {Memory, None}]
           /\ attached' \in [Frames -> BOOLEAN]
           /\ currentFrames' \subseteq Frames /\ available' \subseteq Buffers
           /\ bufferSize' \in [Buffers -> Sizes \cup {0}]
           /\ bufferFrom' \in [Buffers -> Allocators \cup {None}]
           /\ overtaken' \subseteq Buffers
<1>1. release.step = "free" => data[release.frame] \in Buffers
  BY DEF CountInv, TypeOK, Releases, NoRelease
<1> QED BY <1>1 DEF CountInv, TypeOK, ReleaseAllFrames

LEMMA NextCountInv == CountInv /\ [Next]_vars => CountInv'
<1> SUFFICES ASSUME CountInv, [Next]_vars PROVE CountInv' OBVIOUS
<1> USE DEF CountInv
<1> USE NamesAssumption, FiniteAssumption
<1>1. ASSUME NEW f \in Frames, AcquireFrame(f) PROVE CountInv'
  <2>1. f \notin holds[Driver]
    <3>1. Owners(f) = {} BY <1>1, OwnedIffCounted DEF AcquireFrame
    <3> QED BY <3>1 DEF Owners
  <2>2. refCount' = [refCount EXCEPT ![f] = @ + 1]
    BY <1>1 DEF AcquireFrame, TypeOK
  <2>3. RefCountExact' BY <1>1, <2>1, <2>2, OneMore DEF AcquireFrame
  <2>4. TypeOK'
    BY <1>1 DEF AcquireFrame, TypeOK, bufferVars, sensorVars
  <2> QED BY <1>1, <2>3, <2>4 DEF AcquireFrame, TypeOK, NoRelease
<1>2. ASSUME NEW b \in Buffers, GiveBuffer(b) PROVE CountInv'
  <2>1. TypeOK' BY <1>2 DEF GiveBuffer, TypeOK, Allocators
  <2> QED BY <1>2, <2>1, SameCounts DEF GiveBuffer
<1>3. CASE AllocationFails
  <2>1. acquiring \in Frames BY <1>3 DEF AllocationFails, TypeOK
  <2>2. RefCountExact' /\ refCount'[acquiring] \in Nat
    BY <1>3, <2>1, OneLess DEF AllocationFails
  <2>3. TypeOK'
    BY <1>3, <2>1, <2>2
    DEF AllocationFails, TypeOK, bufferVars, sensorVars
  <2> QED BY <1>3, <2>2, <2>3 DEF AllocationFails
<1>4. ASSUME NEW t \in Threads, NEW u \in Threads, NEW f \in Frames, AddRef(t, u, f)
      PROVE  CountInv'
  <2>1. RefCountExact' BY <1>4, OneMore DEF AddRef
  <2>2. TypeOK'
    BY <1>4 DEF AddRef, TypeOK, bufferVars, sensorVars
  <2> QED BY <1>4, <2>1, <2>2 DEF AddRef, TypeOK
<1>5. ASSUME NEW t \in Threads, NEW f \in Frames, Release(t, f) PROVE CountInv'
  <2>1. RefCountExact' /\ refCount'[f] \in Nat BY <1>5, OneLess DEF Release
  <2>2. release' \in Releases
    BY <1>5 DEF Release, TypeOK, Releases, NoRelease
  <2>3. TypeOK'
    BY <1>5, <2>1, <2>2 DEF Release, TypeOK, bufferVars, sensorVars
  <2> QED BY <1>5, <2>1, <2>3 DEF Release, TypeOK
<1>6. CASE ReadFreeFunc
  <2>1. release \in [frame : Frames, cookie : BOOLEAN,
                    func : Allocators \cup {Memory, None},
                    step : {"callback", "free", "detach"}]
    BY <1>6 DEF ReadFreeFunc, TypeOK, Releases, NoRelease
  <2>2. freeFunc[release.frame] \in Allocators \cup {Memory, None}
    BY <2>1 DEF TypeOK
  <2>3. release' \in Releases /\ (release'.step = "free" => data[release'.frame] # None)
    BY <1>6, <2>1, <2>2 DEF ReadFreeFunc, Releases
  <2>4. TypeOK'
    BY <1>6, <2>3 DEF ReadFreeFunc, TypeOK, frameVars, bufferVars, sensorVars
  <2> QED BY <1>6, <2>3, <2>4, SameCounts DEF ReadFreeFunc, frameVars
<1>7. CASE CallFreeFunc
  <2>1. /\ release' \in Releases /\ release'.step # "free"
        /\ release.frame \in Frames
    BY <1>7 DEF CallFreeFunc, TypeOK, Releases, NoRelease
  <2>2. data[release.frame] \in Buffers BY <1>7, <2>1 DEF CallFreeFunc, TypeOK
  <2>3. TypeOK'
    BY <1>7, <2>1, <2>2 DEF CallFreeFunc, TypeOK, sensorVars
  <2> QED BY <1>7, <2>1, <2>3, SameCounts DEF CallFreeFunc
<1>8. CASE Detach
  <2>1. release' \in Releases /\ release'.step # "free"
    BY <1>8 DEF Detach, Releases, NoRelease
  <2>2. TypeOK'
    BY <1>8, <2>1 DEF Detach, TypeOK, frameVars, bufferVars
  <2> QED BY <1>8, <2>1, <2>2, SameCounts DEF Detach, frameVars
<1>9. ASSUME NEW size \in Sizes, ChangeVideoMode(size) PROVE CountInv'
  <2>1. TypeOK' BY <1>9 DEF ChangeVideoMode, TypeOK, frameVars, bufferVars
  <2> QED BY <1>9, <2>1, SameCounts DEF ChangeVideoMode, frameVars
<1>10. ASSUME NEW a \in Allocators, SetFrameBufferAllocator(a) PROVE CountInv'
  <2>1. TypeOK' BY <1>10 DEF SetFrameBufferAllocator, TypeOK, frameVars, bufferVars
  <2> QED BY <1>10, <2>1, SameCounts DEF SetFrameBufferAllocator, frameVars
<1>11. ASSUME NEW s \in Streams, StartStream(s) PROVE CountInv'
  <2>1. \/ UNCHANGED <<freeFunc, attached, currentFrames, bufferVars, overtaken>>
        \/ ReleaseAllFrames
    BY <1>11 DEF StartStream, SetRequiredFrameSize
  <2>2. /\ freeFunc' \in [Frames -> Allocators \cup {Memory, None}]
        /\ attached' \in [Frames -> BOOLEAN]
        /\ currentFrames' \subseteq Frames /\ available' \subseteq Buffers
        /\ bufferSize' \in [Buffers -> Sizes \cup {0}]
        /\ bufferFrom' \in [Buffers -> Allocators \cup {None}]
        /\ overtaken' \subseteq Buffers
    BY <2>1, ReleaseAllTypes DEF TypeOK, bufferVars
  <2>3. requiredSize' \in Sizes \cup {0} /\ started' \subseteq Streams
    BY <1>11 DEF StartStream, SetRequiredFrameSize, TypeOK
  <2>4. TypeOK' BY <1>11, <2>2, <2>3 DEF StartStream, TypeOK
  <2> QED BY <1>11, <2>4, SameCounts DEF StartStream
<1>12. ASSUME NEW s \in Streams, StopStream(s) PROVE CountInv'
  <2>1. TypeOK' BY <1>12 DEF StopStream, TypeOK, frameVars, bufferVars
  <2> QED BY <1>12, <2>1, SameCounts DEF StopStream, frameVars
<1>13. CASE DestroySensor
  <2>1. TypeOK' BY <1>13, ReleaseAllTypes DEF DestroySensor, TypeOK
  <2> QED BY <1>13, <2>1, SameCounts DEF DestroySensor
<1>14. CASE UNCHANGED vars
  <2>1. TypeOK' BY <1>14 DEF TypeOK, vars, frameVars, bufferVars, sensorVars
  <2> QED BY <1>14, <2>1, SameCounts DEF vars, frameVars
<1> QED
  BY <1>1, <1>2, <1>3, <1>4, <1>5, <1>6, <1>7, <1>8, <1>9, <1>10, <1>11, <1>12,
     <1>13, <1>14 DEF Next

\* TypeOK is a type invariant of the reference counting and of the buffers.
THEOREM TypeCorrect == Spec => []TypeOK
<1>1. CountInv => TypeOK BY DEF CountInv
<1> QED BY <1>1, InitCountInv, NextCountInv, PTL DEF Spec

\* RefCountExact: FrameManager's count of every frame is the number of references
\* its users own.
THEOREM CountsAreExact == Spec => []RefCountExact
<1>1. CountInv => RefCountExact BY DEF CountInv
<1> QED BY <1>1, InitCountInv, NextCountInv, PTL DEF Spec

-----------------------------------------------------------------------------
(* Tier 2: where the buffers are. *)

LEMMA InitBufferInv == Init => BufferInv
BY NamesAssumption
DEF Init, BufferInv, ReleaseInv, AcquiringInv, IdleInv, CurrentInv, PoolInv,
    OneOwnerPerBuffer, BufferReturnsToItsMaker, DeadSensorIsForgotten, NoRelease

\* Shape of the release in progress.
LEMMA ReleaseShape ==
    ASSUME TypeOK
    PROVE  /\ release # NoRelease => /\ release.frame \in Frames
                                     /\ release.step \in {"callback", "free", "detach"}
                                     /\ release.cookie \in BOOLEAN
           /\ release = NoRelease => release.frame = None /\ release.step = "none"
BY DEF TypeOK, Releases, NoRelease

LEMMA NextBufferInv == CountInv /\ BufferInv /\ [Next]_vars => BufferInv'
<1> SUFFICES ASSUME CountInv, BufferInv, [Next]_vars PROVE BufferInv' OBVIOUS
<1> USE NamesAssumption
<1>0. /\ TypeOK /\ RefCountExact
      /\ ReleaseInv /\ AcquiringInv /\ IdleInv /\ CurrentInv /\ PoolInv
      /\ OneOwnerPerBuffer /\ BufferReturnsToItsMaker /\ DeadSensorIsForgotten
  BY DEF CountInv, BufferInv
<1>1. ASSUME NEW f \in Frames, AcquireFrame(f)
      PROVE  BufferInv'
  <2>release. ReleaseInv'
    BY <1>1 DEF AcquireFrame, ReleaseInv
  <2>acquiring. AcquiringInv'
    BY <1>1, <1>0, ReleaseShape
    DEF AcquireFrame, AcquiringInv, sensorVars, TypeOK, IdleInv
  <2>idle. IdleInv'
    BY <1>1, <1>0 DEF AcquireFrame, IdleInv, sensorVars
  <2>current. CurrentInv'
    BY <1>1, <1>0, ReleaseShape
    DEF AcquireFrame, CurrentInv, sensorVars, TypeOK, IdleInv
  <2>pool. PoolInv'
    BY <1>1, <1>0, ReleaseShape DEF AcquireFrame, PoolInv, bufferVars, sensorVars
  <2>owner. OneOwnerPerBuffer'
    BY <1>1, <1>0, ReleaseShape
    DEF AcquireFrame, OneOwnerPerBuffer, bufferVars, IdleInv
  <2>returns. BufferReturnsToItsMaker'
    BY <1>1, <1>0, ReleaseShape
    DEF AcquireFrame, BufferReturnsToItsMaker, bufferVars, TypeOK
  <2>dead. DeadSensorIsForgotten'
    BY <1>1, <1>0
    DEF AcquireFrame, DeadSensorIsForgotten, bufferVars, sensorVars, TypeOK
  <2> QED BY <2>release, <2>acquiring, <2>idle, <2>current, <2>pool, <2>owner,
             <2>returns, <2>dead DEF BufferInv
<1>2. ASSUME NEW b \in Buffers, GiveBuffer(b)
      PROVE  BufferInv'
  <2>release. ReleaseInv'
    BY <1>2, <1>0, ReleaseShape DEF GiveBuffer, ReleaseInv
  <2>acquiring. AcquiringInv'
    BY <1>2 DEF GiveBuffer, AcquiringInv
  <2>idle. IdleInv'
    BY <1>2, <1>0 DEF GiveBuffer, IdleInv, TypeOK, AcquiringInv
  <2>current. CurrentInv'
    BY <1>2, <1>0 DEF GiveBuffer, CurrentInv, TypeOK
  <2>pool. PoolInv'
    BY <1>2, <1>0, ReleaseShape
    DEF GiveBuffer, PoolInv, AllocatedBuffers, TypeOK, ReleaseInv
  <2>owner. OneOwnerPerBuffer'
    BY <1>2, <1>0
    DEF GiveBuffer, OneOwnerPerBuffer, AllocatedBuffers, Allocators, TypeOK,
       AcquiringInv
  <2>returns. BufferReturnsToItsMaker'
    BY <1>2, <1>0, ReleaseShape
    DEF GiveBuffer, BufferReturnsToItsMaker, ReleaseInv, PoolInv, OneOwnerPerBuffer,
       TypeOK, AllocatedBuffers
  <2>dead. DeadSensorIsForgotten'
    BY <1>2, <1>0 DEF GiveBuffer, DeadSensorIsForgotten, AcquiringInv, CurrentInv
  <2> QED BY <2>release, <2>acquiring, <2>idle, <2>current, <2>pool, <2>owner,
             <2>returns, <2>dead DEF BufferInv
<1>3. CASE AllocationFails
  <2>release. ReleaseInv'
    BY <1>3 DEF AllocationFails, ReleaseInv
  <2>acquiring. AcquiringInv'
    BY <1>3 DEF AllocationFails, AcquiringInv
  <2>idle. IdleInv'
    BY <1>3, <1>0 DEF AllocationFails, IdleInv, sensorVars, TypeOK, AcquiringInv
  <2>current. CurrentInv'
    BY <1>3, <1>0 DEF AllocationFails, CurrentInv, sensorVars, TypeOK
  <2>pool. PoolInv'
    BY <1>3, <1>0 DEF AllocationFails, PoolInv, bufferVars, sensorVars
  <2>owner. OneOwnerPerBuffer'
    BY <1>3, <1>0 DEF AllocationFails, OneOwnerPerBuffer, bufferVars
  <2>returns. BufferReturnsToItsMaker'
    BY <1>3, <1>0 DEF AllocationFails, BufferReturnsToItsMaker, bufferVars
  <2>dead. DeadSensorIsForgotten'
    BY <1>3, <1>0
    DEF AllocationFails, DeadSensorIsForgotten, bufferVars, sensorVars, TypeOK
  <2> QED BY <2>release, <2>acquiring, <2>idle, <2>current, <2>pool, <2>owner,
             <2>returns, <2>dead DEF BufferInv
<1>4. ASSUME NEW t \in Threads, NEW u \in Threads, NEW f \in Frames, AddRef(t, u, f)
      PROVE  BufferInv'
  <2>1. refCount[f] \in Nat /\ refCount[f] > 0
    BY <1>4, <1>0, OwnedIffCounted DEF AddRef, Owners
  <2>release. ReleaseInv'
    BY <1>4 DEF AddRef, ReleaseInv
  <2>acquiring. AcquiringInv'
    BY <1>4, <1>0 DEF AddRef, AcquiringInv, sensorVars
  <2>idle. IdleInv'
    BY <1>4, <1>0, <2>1 DEF AddRef, IdleInv, sensorVars
  <2>current. CurrentInv'
    BY <1>4, <1>0, <2>1 DEF AddRef, CurrentInv, sensorVars
  <2>pool. PoolInv'
    BY <1>4, <1>0 DEF AddRef, PoolInv, bufferVars, sensorVars
  <2>owner. OneOwnerPerBuffer'
    BY <1>4, <1>0 DEF AddRef, OneOwnerPerBuffer, bufferVars
  <2>returns. BufferReturnsToItsMaker'
    BY <1>4, <1>0 DEF AddRef, BufferReturnsToItsMaker, bufferVars
  <2>dead. DeadSensorIsForgotten'
    BY <1>4, <1>0, <2>1 DEF AddRef, DeadSensorIsForgotten, bufferVars, sensorVars
  <2> QED BY <2>release, <2>acquiring, <2>idle, <2>current, <2>pool, <2>owner,
             <2>returns, <2>dead DEF BufferInv
<1>5. ASSUME NEW t \in Threads, NEW f \in Frames, Release(t, f)
      PROVE  BufferInv'
  <2>1. refCount[f] \in Nat /\ refCount[f] > 0
    BY <1>5, <1>0, OwnedIffCounted DEF Release, Owners
  <2>release. ReleaseInv'
    BY <1>5, <1>0 DEF Release, ReleaseInv, IdleInv, CurrentInv, TypeOK, sensorVars
  <2>acquiring. AcquiringInv'
    BY <1>5, <1>0 DEF Release, AcquiringInv, sensorVars
  <2>idle. IdleInv'
    BY <1>5, <1>0, ReleaseShape, <2>1 DEF Release, IdleInv, sensorVars
  <2>current. CurrentInv'
    BY <1>5, <1>0, <2>1 DEF Release, CurrentInv, sensorVars
  <2>pool. PoolInv'
    BY <1>5, <1>0 DEF Release, PoolInv, bufferVars, sensorVars
  <2>owner. OneOwnerPerBuffer'
    BY <1>5, <1>0 DEF Release, OneOwnerPerBuffer, bufferVars
  <2>returns. BufferReturnsToItsMaker'
    BY <1>5, <1>0 DEF Release, BufferReturnsToItsMaker, bufferVars
  <2>dead. DeadSensorIsForgotten'
    BY <1>5, <1>0, <2>1 DEF Release, DeadSensorIsForgotten, bufferVars, sensorVars
  <2> QED BY <2>release, <2>acquiring, <2>idle, <2>current, <2>pool, <2>owner,
             <2>returns, <2>dead DEF BufferInv
<1>6. CASE ReadFreeFunc
  <2>release. ReleaseInv'
    BY <1>6, <1>0, ReleaseShape
    DEF ReadFreeFunc, ReleaseInv, CurrentInv, DeadSensorIsForgotten, frameVars,
       sensorVars
  <2>acquiring. AcquiringInv'
    BY <1>6, <1>0 DEF ReadFreeFunc, AcquiringInv, frameVars, sensorVars
  <2>idle. IdleInv'
    BY <1>6, <1>0 DEF ReadFreeFunc, IdleInv, frameVars, sensorVars
  <2>current. CurrentInv'
    BY <1>6, <1>0 DEF ReadFreeFunc, CurrentInv, frameVars, sensorVars
  <2>pool. PoolInv'
    BY <1>6, <1>0, ReleaseShape
    DEF ReadFreeFunc, PoolInv, frameVars, bufferVars, sensorVars, CurrentInv
  <2>owner. OneOwnerPerBuffer'
    BY <1>6, <1>0 DEF ReadFreeFunc, OneOwnerPerBuffer, frameVars, bufferVars
  <2>returns. BufferReturnsToItsMaker'
    BY <1>6, <1>0, ReleaseShape
    DEF ReadFreeFunc, BufferReturnsToItsMaker, frameVars, bufferVars
  <2>dead. DeadSensorIsForgotten'
    BY <1>6, <1>0
    DEF ReadFreeFunc, DeadSensorIsForgotten, frameVars, bufferVars, sensorVars
  <2> QED BY <2>release, <2>acquiring, <2>idle, <2>current, <2>pool, <2>owner,
             <2>returns, <2>dead DEF BufferInv
<1>7. CASE CallFreeFunc
  <2>release. ReleaseInv'
    BY <1>7, <1>0, ReleaseShape DEF CallFreeFunc, ReleaseInv, sensorVars, TypeOK
  <2>acquiring. AcquiringInv'
    BY <1>7, <1>0 DEF CallFreeFunc, AcquiringInv, sensorVars
  <2>idle. IdleInv'
    BY <1>7, <1>0, ReleaseShape DEF CallFreeFunc, IdleInv, sensorVars, ReleaseInv
  <2>current. CurrentInv'
    BY <1>7, <1>0 DEF CallFreeFunc, CurrentInv, sensorVars
  <2>pool. PoolInv'
    BY <1>7, <1>0, ReleaseShape
    DEF CallFreeFunc, PoolInv, OneOwnerPerBuffer, BufferReturnsToItsMaker, TypeOK,
       sensorVars
  <2>owner. OneOwnerPerBuffer'
    BY <1>7, <1>0, ReleaseShape
    DEF CallFreeFunc, OneOwnerPerBuffer, TypeOK, ReleaseInv
  <2>returns. BufferReturnsToItsMaker'
    BY <1>7, <1>0, ReleaseShape
    DEF CallFreeFunc, BufferReturnsToItsMaker, TypeOK, OneOwnerPerBuffer
  <2>dead. DeadSensorIsForgotten'
    BY <1>7, <1>0, ReleaseShape
    DEF CallFreeFunc, DeadSensorIsForgotten, sensorVars, ReleaseInv
  <2> QED BY <2>release, <2>acquiring, <2>idle, <2>current, <2>pool, <2>owner,
             <2>returns, <2>dead DEF BufferInv
<1>8. CASE Detach
  <2>release. ReleaseInv'
    BY <1>8 DEF Detach, ReleaseInv
  <2>acquiring. AcquiringInv'
    BY <1>8, <1>0 DEF Detach, AcquiringInv, frameVars
  <2>idle. IdleInv'
    BY <1>8, <1>0 DEF Detach, IdleInv, frameVars, ReleaseInv
  <2>current. CurrentInv'
    BY <1>8, <1>0, ReleaseShape DEF Detach, CurrentInv, frameVars, ReleaseInv
  <2>pool. PoolInv'
    BY <1>8, <1>0 DEF Detach, PoolInv, NoRelease, frameVars, bufferVars
  <2>owner. OneOwnerPerBuffer'
    BY <1>8, <1>0 DEF Detach, OneOwnerPerBuffer, frameVars, bufferVars
  <2>returns. BufferReturnsToItsMaker'
    BY <1>8, <1>0
    DEF Detach, BufferReturnsToItsMaker, NoRelease, frameVars, bufferVars
  <2>dead. DeadSensorIsForgotten'
    BY <1>8, <1>0 DEF Detach, DeadSensorIsForgotten, frameVars, bufferVars
  <2> QED BY <2>release, <2>acquiring, <2>idle, <2>current, <2>pool, <2>owner,
             <2>returns, <2>dead DEF BufferInv
<1>9. ASSUME NEW size \in Sizes, ChangeVideoMode(size) PROVE BufferInv'
  BY <1>9
  DEF ChangeVideoMode, frameVars, bufferVars, BufferInv, ReleaseInv, AcquiringInv,
     IdleInv, CurrentInv, PoolInv, OneOwnerPerBuffer, BufferReturnsToItsMaker,
     DeadSensorIsForgotten
<1>10. ASSUME NEW a \in Allocators, SetFrameBufferAllocator(a) PROVE BufferInv'
  BY <1>10
  DEF SetFrameBufferAllocator, frameVars, bufferVars, BufferInv, ReleaseInv,
     AcquiringInv, IdleInv, CurrentInv, PoolInv, OneOwnerPerBuffer,
     BufferReturnsToItsMaker, DeadSensorIsForgotten
<1>11. ASSUME NEW s \in Streams, StartStream(s)
      PROVE  BufferInv'
  <2>1. \/ UNCHANGED <<freeFunc, attached, currentFrames, bufferVars, overtaken>>
        \/ ReleaseAllFrames
    BY <1>11 DEF StartStream, SetRequiredFrameSize
  <2>2. alive' /\ UNCHANGED <<refCount, data>> BY <1>11 DEF StartStream
  <2>release. ReleaseInv'
    BY <1>11, <1>0 DEF StartStream, ReleaseInv, SetRequiredFrameSize,
       ReleaseAllFrames
  <2>acquiring. AcquiringInv'
    BY <1>11, <1>0 DEF StartStream, AcquiringInv
  <2>idle. IdleInv'
    BY <1>11, <1>0 DEF StartStream, IdleInv, SetRequiredFrameSize, ReleaseAllFrames
  <2>3. ASSUME ReleaseAllFrames PROVE CurrentInv'
    <3>1. ASSUME NEW f \in Frames
          PROVE  /\ ~(attached[f] /\ refCount[f] > 0)'
                 /\ ~(data[f] # None /\ freeFunc[f] = Pool)'
      BY <2>2, <2>3, <1>0 DEF ReleaseAllFrames, CurrentInv
    <3>2. currentFrames' = {} BY <2>3 DEF ReleaseAllFrames
    <3> QED BY <3>1, <3>2, <2>2 DEF CurrentInv
  <2>4. ASSUME UNCHANGED <<freeFunc, attached, currentFrames, bufferVars, overtaken>>
        PROVE  CurrentInv'
    BY <2>4, <2>2, <1>0 DEF CurrentInv
  <2>current. CurrentInv' BY <2>1, <2>3, <2>4
  <2>pool. PoolInv'
    BY <1>11, <1>0
    DEF StartStream, PoolInv, SetRequiredFrameSize, ReleaseAllFrames, bufferVars
  <2>owner. OneOwnerPerBuffer'
    BY <1>11, <1>0
    DEF StartStream, OneOwnerPerBuffer, SetRequiredFrameSize, ReleaseAllFrames,
       bufferVars
  <2>returns. BufferReturnsToItsMaker'
    BY <1>11, <1>0, ReleaseShape
    DEF StartStream, BufferReturnsToItsMaker, ReleaseInv, OneOwnerPerBuffer, TypeOK,
       SetRequiredFrameSize, ReleaseAllFrames, bufferVars
  <2>dead. DeadSensorIsForgotten'
    BY <1>11 DEF StartStream, DeadSensorIsForgotten
  <2> QED BY <2>release, <2>acquiring, <2>idle, <2>current, <2>pool, <2>owner,
             <2>returns, <2>dead DEF BufferInv
<1>12. ASSUME NEW s \in Streams, StopStream(s) PROVE BufferInv'
  BY <1>12
  DEF StopStream, frameVars, bufferVars, BufferInv, ReleaseInv, AcquiringInv,
     IdleInv, CurrentInv, PoolInv, OneOwnerPerBuffer, BufferReturnsToItsMaker,
     DeadSensorIsForgotten
<1>13. CASE DestroySensor
  <2>release. ReleaseInv'
    BY <1>13 DEF DestroySensor, ReleaseInv
  <2>acquiring. AcquiringInv'
    BY <1>13, <1>0 DEF DestroySensor, AcquiringInv
  <2>idle. IdleInv'
    BY <1>13, <1>0 DEF DestroySensor, IdleInv, ReleaseAllFrames
  <2>current. CurrentInv'
    BY <1>13, <1>0 DEF DestroySensor, CurrentInv, ReleaseAllFrames
  <2>pool. PoolInv'
    BY <1>13 DEF DestroySensor, PoolInv, ReleaseAllFrames
  <2>owner. OneOwnerPerBuffer'
    BY <1>13, <1>0 DEF DestroySensor, OneOwnerPerBuffer, ReleaseAllFrames
  <2>returns. BufferReturnsToItsMaker'
    BY <1>13, <1>0, ReleaseShape
    DEF DestroySensor, BufferReturnsToItsMaker, ReleaseAllFrames, TypeOK,
       OneOwnerPerBuffer
  <2>dead. DeadSensorIsForgotten'
    BY <1>13, <1>0
    DEF DestroySensor, DeadSensorIsForgotten, ReleaseAllFrames, CurrentInv
  <2> QED BY <2>release, <2>acquiring, <2>idle, <2>current, <2>pool, <2>owner,
             <2>returns, <2>dead DEF BufferInv
<1>14. CASE UNCHANGED vars
  BY <1>14
  DEF vars, frameVars, bufferVars, sensorVars, BufferInv, ReleaseInv, AcquiringInv,
     IdleInv, CurrentInv, PoolInv, OneOwnerPerBuffer, BufferReturnsToItsMaker,
     DeadSensorIsForgotten
<1> QED
  BY <1>1, <1>2, <1>3, <1>4, <1>5, <1>6, <1>7, <1>8, <1>9, <1>10, <1>11, <1>12,
     <1>13, <1>14 DEF Next

\* Everything the two tiers say, in every reachable state.
LEMMA BuffersCorrect == Spec => [](CountInv /\ BufferInv)
<1> QED
  BY InitCountInv, NextCountInv, InitBufferInv, NextBufferInv, PTL DEF Spec

-----------------------------------------------------------------------------
(* The properties of FrameBuffers. *)

\* OneOwnerPerBuffer: no buffer is leaked, freed twice or shared by two frames,
\* whatever falls between the steps of a release.
THEOREM BuffersHaveOneOwner == Spec => []OneOwnerPerBuffer
<1>1. BufferInv => OneOwnerPerBuffer BY DEF BufferInv
<1> QED BY <1>1, BuffersCorrect, PTL

\* OwnedFrameHasBuffer: a frame the application still owns has its data, also
\* after the stream was restarted in another size or the device was closed.
THEOREM OwnedFramesAreReadable == Spec => []OwnedFrameHasBuffer
<1>1. CountInv /\ BufferInv => OwnedFrameHasBuffer
  <2> SUFFICES ASSUME CountInv, BufferInv, NEW f \in Frames,
                      Owners(f) # {}, f # acquiring
               PROVE  data[f] # None
    BY DEF OwnedFrameHasBuffer
  <2>1. refCount[f] > 0 BY OwnedIffCounted DEF CountInv
  <2> QED BY <2>1 DEF BufferInv, IdleInv
<1> QED BY <1>1, BuffersCorrect, PTL

\* OwnedDataStays: an owner's data neither moves nor changes its size.
THEOREM OwnedDataIsStable == Spec => OwnedDataStays
<1>1. ASSUME CountInv, BufferInv, [Next]_vars, NEW f \in Frames,
             Owners(f) # {}, Owners(f)' # {}, data[f] # None
      PROVE  data'[f] = data[f] /\ bufferSize'[data[f]] = bufferSize[data[f]]
  <2> USE NamesAssumption
  <2>1. refCount[f] \in Nat /\ refCount[f] > 0
    BY <1>1, OwnedIffCounted DEF CountInv
  <2>2. /\ TypeOK /\ ReleaseInv /\ AcquiringInv /\ OneOwnerPerBuffer /\ PoolInv
        /\ release.step = "free" => release # NoRelease
    BY <1>1 DEF CountInv, BufferInv, NoRelease
  <2>3. data[f] \in Buffers /\ data[f] \notin available /\ bufferFrom[data[f]] # None
    BY <1>1, <2>2 DEF TypeOK, OneOwnerPerBuffer
  <2>4. release # NoRelease => release.frame # f BY <2>1, <2>2 DEF ReleaseInv
  <2>5. ASSUME NEW b \in Buffers, GiveBuffer(b)
        PROVE  data'[f] = data[f] /\ bufferSize'[data[f]] = bufferSize[data[f]]
    <3>1. f # acquiring BY <1>1, <2>2, <2>5 DEF GiveBuffer, AcquiringInv
    <3> QED
      BY <2>2, <2>3, <2>5, <3>1 DEF GiveBuffer, AllocatedBuffers, TypeOK
  <2>6. CASE CallFreeFunc
    <3>1. release.frame # f /\ release.frame \in Frames
      BY <2>2, <2>4, <2>6, ReleaseShape DEF CallFreeFunc
    <3>2. data[release.frame] # data[f]
      BY <1>1, <2>2, <3>1 DEF OneOwnerPerBuffer
    <3> QED BY <2>2, <2>3, <2>6, <3>1, <3>2 DEF CallFreeFunc, TypeOK
  <2>7. ASSUME NEW s \in Streams, StartStream(s)
        PROVE  data'[f] = data[f] /\ bufferSize'[data[f]] = bufferSize[data[f]]
    BY <2>3, <2>7
    DEF StartStream, SetRequiredFrameSize, ReleaseAllFrames, bufferVars
  <2>8. CASE DestroySensor
    BY <2>3, <2>8 DEF DestroySensor, ReleaseAllFrames
  <2>9. ASSUME NEW g \in Frames, AcquireFrame(g)
        PROVE  data'[f] = data[f] /\ bufferSize'[data[f]] = bufferSize[data[f]]
    BY <2>1, <2>2, <2>9 DEF AcquireFrame, TypeOK, bufferVars
  <2>10. CASE UNCHANGED <<data, bufferSize>>
    BY <2>10
  <2> QED
    BY <1>1, <2>5, <2>6, <2>7, <2>8, <2>9, <2>10
    DEF Next, vars, frameVars, bufferVars, AllocationFails, AddRef, Release,
        ReadFreeFunc, Detach, ChangeVideoMode, SetFrameBufferAllocator, StopStream
<1>2. CountInv /\ BufferInv /\ [Next]_vars =>
        [\A f \in Frames : Owners(f) # {} /\ Owners(f)' # {} /\ data[f] # None =>
           data'[f] = data[f] /\ bufferSize'[data[f]] = bufferSize[data[f]]]_vars
  BY <1>1
<1> QED BY <1>2, BuffersCorrect, PTL DEF Spec, OwnedDataStays

\* BufferReturnsToItsMaker: every buffer is given back to the allocator it came from.
THEOREM BuffersReturn == Spec => []BufferReturnsToItsMaker
<1>1. BufferInv => BufferReturnsToItsMaker BY DEF BufferInv
<1> QED BY <1>1, BuffersCorrect, PTL

\* PoolHasRequiredSize: only a release overtaken by a size change can leave a
\* buffer of another size in the pool.
THEOREM PoolSizes == Spec => []PoolHasRequiredSize
<1>1. BufferInv => PoolHasRequiredSize
  BY DEF BufferInv, PoolInv, PoolHasRequiredSize
<1> QED BY <1>1, BuffersCorrect, PTL

\* DeadSensorIsForgotten: frames outlive their sensor without a pointer to it.
THEOREM FramesOutliveSensor == Spec => []DeadSensorIsForgotten
<1>1. BufferInv => DeadSensorIsForgotten BY DEF BufferInv
<1> QED BY <1>1, BuffersCorrect, PTL
=============================================================================
