---------------------------- MODULE FrameBuffers ----------------------------
(***************************************************************************)
(* The life of a frame and of its data buffer in the OpenNI2 core:         *)
(* FrameManager (OniFrameManager.cpp), which counts the references of a    *)
(* frame, and Sensor (OniSensor.cpp), which gives each frame a buffer and  *)
(* takes it back through the function pointers stored in the frame.        *)
(*                                                                         *)
(* Any thread that owns a reference may copy it to another thread or drop  *)
(* it; the driver thread acquires frames while a stream of the sensor is   *)
(* started; a control thread changes the video mode, the allocator, starts *)
(* and stops streams and finally closes the device.                        *)
(*                                                                         *)
(* FrameManager::release runs its callback under the lock of the frame     *)
(* pool, so one release is in progress at a time; Sensor::releaseAllFrames *)
(* takes only m_framesCS, so it can fall between the steps of a release.   *)
(* Each critical section of m_framesCS is one step here.                   *)
(***************************************************************************)
EXTENDS Naturals, FiniteSets

CONSTANTS
    Frames,         \* OniFrameInternal objects of the manager's XnPool
    Buffers,        \* addresses of data buffers
    Sizes,          \* frame sizes a video mode can need, positive numbers
    Threads,        \* owners of frame references
    Driver,         \* the thread of Threads that acquires frames
    Streams,        \* VideoStreams that share the sensor
    Pool,           \* allocFrameBufferFromPool / releaseFrameBufferToPool
    Memory,         \* freeFrameBufferMemoryCallback
    Custom,         \* allocator pairs an application can install
    None            \* NULL

ASSUME FiniteAssumption  == IsFiniteSet(Threads) /\ Driver \in Threads
ASSUME SizesAssumption   == Sizes \subseteq Nat \ {0} /\ Sizes # {}
ASSUME NamesAssumption   ==
    /\ Pool # Memory /\ Pool # None /\ Memory # None
    /\ Custom \cap {Pool, Memory, None} = {}
    /\ None \notin Frames /\ None \notin Buffers

VARIABLES
    refCount,       \* OniFrameInternal::refCount; 0 when the frame is in the pool
    data,           \* OniFrameInternal::data
    dataSize,       \* OniFrameInternal::dataSize
    freeFunc,       \* OniFrameInternal::freeBufferFunc and its cookie
    attached,       \* is backToPoolFuncCookie the sensor (and not NULL)?
    bufferSize,     \* bytes the buffer was allocated with, 0 when it is not allocated
    bufferFrom,     \* the allocator that made the buffer, None when not allocated
    available,      \* Sensor::m_availableFrameBuffers
    currentFrames,  \* Sensor::m_currentStreamFrames
    requiredSize,   \* Sensor::m_requiredFrameSize
    allocator,      \* Sensor::m_allocFrameBufferCallback, m_freeFrameBufferCallback
    started,        \* the streams counted by Sensor::m_startedStreamCount
    alive,          \* the Sensor object exists
    modeSize,       \* the size the driver answers for its current video mode
    holds,          \* the references each thread owns
    acquiring,      \* the frame the driver has taken and not yet given a buffer
    release,        \* the FrameManager::release that is running its callback
    overtaken       \* history: buffers whose release read "to pool" before the
                    \* size changed and acted on it afterwards

frameVars  == <<refCount, data, dataSize, freeFunc, attached>>
bufferVars == <<bufferSize, bufferFrom, available>>
sensorVars == <<currentFrames, requiredSize, allocator, started, alive, modeSize>>
vars == <<frameVars, bufferVars, sensorVars, holds, acquiring, release, overtaken>>

Allocators == Custom \cup {Pool}
NoRelease  == [frame |-> None, cookie |-> FALSE, func |-> None, step |-> "none"]
Releases   == {NoRelease} \cup
    [frame : Frames, cookie : BOOLEAN, func : Allocators \cup {Memory, None},
     step : {"callback", "free", "detach"}]

\* The owners of references to frame f.
Owners(f) == {t \in Threads : f \in holds[t]}

TypeOK ==
    /\ refCount \in [Frames -> Nat]
    /\ data \in [Frames -> Buffers \cup {None}]
    /\ dataSize \in [Frames -> Sizes \cup {0}]
    /\ freeFunc \in [Frames -> Allocators \cup {Memory, None}]
    /\ attached \in [Frames -> BOOLEAN]
    /\ bufferSize \in [Buffers -> Sizes \cup {0}]
    /\ bufferFrom \in [Buffers -> Allocators \cup {None}]
    /\ available \subseteq Buffers
    /\ currentFrames \subseteq Frames
    /\ requiredSize \in Sizes \cup {0}
    /\ allocator \in Allocators
    /\ started \subseteq Streams
    /\ alive \in BOOLEAN
    /\ modeSize \in Sizes
    /\ holds \in [Threads -> SUBSET Frames]
    /\ acquiring \in Frames \cup {None}
    /\ release \in Releases
    /\ overtaken \subseteq Buffers

Init ==
    /\ refCount = [f \in Frames |-> 0]
    /\ data = [f \in Frames |-> None]
    /\ dataSize = [f \in Frames |-> 0]
    /\ freeFunc = [f \in Frames |-> None]
    /\ attached = [f \in Frames |-> FALSE]
    /\ bufferSize = [b \in Buffers |-> 0]
    /\ bufferFrom = [b \in Buffers |-> None]
    /\ available = {}
    /\ currentFrames = {}
    /\ requiredSize = 0
    /\ allocator = Pool
    /\ started = {}
    /\ alive = TRUE
    /\ modeSize \in Sizes
    /\ holds = [t \in Threads |-> {}]
    /\ acquiring = None
    /\ release = NoRelease
    /\ overtaken = {}

-----------------------------------------------------------------------------
(* Sensor::acquireFrame, called by the driver: take a frame from the       *)
(* manager (its pool lock must be free), then a buffer from the allocator. *)

AcquireFrame(f) ==
    /\ started # {} /\ acquiring = None /\ release = NoRelease
    /\ refCount[f] = 0
    /\ refCount' = [refCount EXCEPT ![f] = 1]
    /\ data' = [data EXCEPT ![f] = None]
    /\ dataSize' = [dataSize EXCEPT ![f] = 0]
    /\ freeFunc' = [freeFunc EXCEPT ![f] = None]
    /\ attached' = [attached EXCEPT ![f] = FALSE]
    /\ holds' = [holds EXCEPT ![Driver] = @ \cup {f}]
    /\ acquiring' = f
    /\ UNCHANGED <<bufferVars, sensorVars, release, overtaken>>

\* A buffer the allocator returns: the pool reuses an available one before it
\* allocates (the first of the list; which one is left open here); an
\* application's allocator always makes one.
AllocatedBuffers ==
    IF allocator = Pool /\ available # {}
      THEN available
      ELSE {b \in Buffers : bufferFrom[b] = None}

GiveBuffer(b) ==
    /\ acquiring # None /\ b \in AllocatedBuffers
    /\ IF bufferFrom[b] = None
         THEN /\ bufferSize' = [bufferSize EXCEPT ![b] = requiredSize]
              /\ bufferFrom' = [bufferFrom EXCEPT ![b] = allocator]
         ELSE UNCHANGED <<bufferSize, bufferFrom>>
    /\ available' = available \ {b}
    /\ data' = [data EXCEPT ![acquiring] = b]
    /\ dataSize' = [dataSize EXCEPT ![acquiring] = requiredSize]
    /\ freeFunc' = [freeFunc EXCEPT ![acquiring] = allocator]
    /\ attached' = [attached EXCEPT ![acquiring] = TRUE]
    /\ currentFrames' = currentFrames \cup {acquiring}
    /\ acquiring' = None
    /\ UNCHANGED <<refCount, requiredSize, allocator, started, alive, modeSize,
                   holds, release, overtaken>>

\* The allocator returns NULL: the frame, which has no callback yet, goes back.
AllocationFails ==
    /\ acquiring # None /\ release = NoRelease
    /\ refCount' = [refCount EXCEPT ![acquiring] = @ - 1]
    /\ holds' = [holds EXCEPT ![Driver] = @ \ {acquiring}]
    /\ acquiring' = None
    /\ UNCHANGED <<data, dataSize, freeFunc, attached, bufferVars, sensorVars,
                   release, overtaken>>

-----------------------------------------------------------------------------
(* FrameManager::addRef and release. *)

\* Mutant: the new owner is not counted.
AddRefUncounted(t, u, f) ==
    /\ release = NoRelease /\ f # acquiring /\ f \in holds[t] /\ f \notin holds[u]
    /\ holds' = [holds EXCEPT ![u] = @ \cup {f}]
    /\ UNCHANGED <<frameVars, bufferVars, sensorVars, acquiring, release, overtaken>>

\* t, which owns a reference, makes one for u: processNewFrame, Recorder::record,
\* VideoFrameRef copies.
AddRef(t, u, f) ==
    /\ release = NoRelease /\ f # acquiring
    /\ f \in holds[t] /\ f \notin holds[u]
    /\ refCount' = [refCount EXCEPT ![f] = @ + 1]
    /\ holds' = [holds EXCEPT ![u] = @ \cup {f}]
    /\ UNCHANGED <<data, dataSize, freeFunc, attached, bufferVars, sensorVars,
                   acquiring, release, overtaken>>

\* --refCount; the last one passes the frame's cookie to frameBackToPoolCallback.
Release(t, f) ==
    /\ release = NoRelease /\ f # acquiring /\ f \in holds[t]
    /\ refCount' = [refCount EXCEPT ![f] = @ - 1]
    /\ holds' = [holds EXCEPT ![t] = @ \ {f}]
    /\ release' = IF refCount[f] = 1
                    THEN [frame |-> f, cookie |-> attached[f], func |-> None,
                          step |-> "callback"]
                    ELSE NoRelease
    /\ UNCHANGED <<data, dataSize, freeFunc, attached, bufferVars, sensorVars,
                   acquiring, overtaken>>

\* Mutant: the buffer goes to the sensor's present allocator.
ReadSensorFreeFunc ==
    LET f == release.frame IN
    /\ release.step = "callback"
    /\ release' = IF data[f] # None
                    THEN [release EXCEPT !.func = allocator, !.step = "free"]
                    ELSE [release EXCEPT !.step = "detach"]
    /\ UNCHANGED <<frameVars, bufferVars, sensorVars, holds, acquiring, overtaken>>

\* frameBackToPoolCallback reads data and freeBufferFunc without m_framesCS ...
ReadFreeFunc ==
    LET f == release.frame IN
    /\ release.step = "callback"
    /\ release' = IF data[f] # None
                    THEN [release EXCEPT !.func = freeFunc[f], !.step = "free"]
                    ELSE [release EXCEPT !.step = "detach"]
    /\ UNCHANGED <<frameVars, bufferVars, sensorVars, holds, acquiring, overtaken>>

\* ... and calls it: back to the sensor's list, or free.
CallFreeFunc ==
    LET f == release.frame
        b == data[f]
    IN  /\ release.step = "free"
        /\ IF release.func = Pool
             THEN /\ available' = available \cup {b}
                  /\ UNCHANGED <<bufferSize, bufferFrom, overtaken>>
             ELSE /\ bufferSize' = [bufferSize EXCEPT ![b] = 0]
                  /\ bufferFrom' = [bufferFrom EXCEPT ![b] = None]
                  /\ overtaken' = overtaken \ {b}
                  /\ UNCHANGED available
        /\ data' = [data EXCEPT ![f] = None]
        /\ release' = [release EXCEPT !.step = "detach"]
        /\ UNCHANGED <<refCount, dataSize, freeFunc, attached, sensorVars, holds,
                       acquiring>>

\* Remove the frame from the sensor's current frames, return it to the pool
\* (LIFO list; refCount is 0 already) and unlock the pool.
Detach ==
    /\ release.step = "detach"
    /\ currentFrames' = IF release.cookie THEN currentFrames \ {release.frame}
                                          ELSE currentFrames
    /\ release' = NoRelease
    /\ UNCHANGED <<frameVars, bufferVars, requiredSize, allocator, started, alive,
                   modeSize, holds, acquiring, overtaken>>

-----------------------------------------------------------------------------
(* The control thread. *)

\* Mutant: the buffers of the frames that are out are freed with the others.
ReleaseAllFramesNow ==
    LET freed == available \cup {data[f] : f \in currentFrames} IN
    /\ attached' = [f \in Frames |-> attached[f] /\ f \notin currentFrames]
    /\ currentFrames' = {}
    /\ bufferSize' = [b \in Buffers |-> IF b \in freed THEN 0 ELSE bufferSize[b]]
    /\ bufferFrom' = [b \in Buffers |-> IF b \in freed THEN None ELSE bufferFrom[b]]
    /\ available' = {}
    /\ UNCHANGED <<freeFunc, overtaken>>

\* Sensor::releaseAllFrames: frames that are out free their buffer themselves,
\* the available buffers are freed now.
ReleaseAllFrames ==
    /\ freeFunc' = [f \in Frames |-> IF f \in currentFrames /\ freeFunc[f] = Pool
                                       THEN Memory ELSE freeFunc[f]]
    /\ attached' = [f \in Frames |-> attached[f] /\ f \notin currentFrames]
    /\ currentFrames' = {}
    /\ bufferSize' = [b \in Buffers |-> IF b \in available THEN 0 ELSE bufferSize[b]]
    /\ bufferFrom' = [b \in Buffers |-> IF b \in available THEN None ELSE bufferFrom[b]]
    /\ available' = {}
    /\ overtaken' = (overtaken \ available) \cup
         (IF release.step = "free" /\ release.func = Pool
            THEN {data[release.frame]} ELSE {})

\* VideoStream::setProperty(VIDEO_MODE): refused while another stream of the sensor
\* is started.
ChangeVideoMode(size) ==
    /\ alive /\ \E s \in Streams : started \subseteq {s}
    /\ modeSize' = size
    /\ UNCHANGED <<frameVars, bufferVars, currentFrames, requiredSize, allocator,
                   started, alive, holds, acquiring, release, overtaken>>

\* Sensor::setFrameBufferAllocator: refused while a stream is started.
SetFrameBufferAllocator(a) ==
    /\ alive /\ started = {}
    /\ allocator' = a
    /\ UNCHANGED <<frameVars, bufferVars, currentFrames, requiredSize, started,
                   alive, modeSize, holds, acquiring, release, overtaken>>

\* Mutant: larger buffers are kept for smaller frames.
GrowRequiredFrameSize ==
    /\ requiredSize' = modeSize
    /\ IF requiredSize < modeSize
         THEN ReleaseAllFrames
         ELSE UNCHANGED <<freeFunc, attached, currentFrames, bufferVars, overtaken>>

\* Sensor::setRequiredFrameSize
SetRequiredFrameSize ==
    /\ requiredSize' = modeSize
    /\ IF requiredSize # modeSize
         THEN ReleaseAllFrames
         ELSE UNCHANGED <<freeFunc, attached, currentFrames, bufferVars, overtaken>>

\* VideoStream::start: the first started stream sets the size and starts the
\* driver, which may refuse.
StartStream(s) ==
    /\ alive /\ s \notin started
    /\ IF started = {} THEN SetRequiredFrameSize
       ELSE UNCHANGED <<freeFunc, attached, currentFrames, bufferVars, overtaken,
                        requiredSize>>
    /\ \/ started' = started \cup {s}
       \/ started = {} /\ started' = {}
    /\ UNCHANGED <<refCount, data, dataSize, allocator, alive, modeSize, holds,
                   acquiring, release>>

\* VideoStream::stop: the last one stops the driver, which acquires no frame
\* after streamStop has returned.
StopStream(s) ==
    /\ s \in started
    /\ started = {s} => acquiring = None
    /\ started' = started \ {s}
    /\ UNCHANGED <<frameVars, bufferVars, currentFrames, requiredSize, allocator,
                   alive, modeSize, holds, acquiring, release, overtaken>>

\* Mutant: the frames that are out keep their cookie.
DestroySensorOnly ==
    /\ alive /\ started = {} /\ release = NoRelease
    /\ alive' = FALSE
    /\ UNCHANGED <<frameVars, bufferVars, currentFrames, requiredSize, allocator,
                   started, modeSize, holds, acquiring, release, overtaken>>

\* Device::close deletes the sensor. The application is assumed not to be inside
\* oniFrameRelease at that moment; frames it still owns outlive the sensor.
DestroySensor ==
    /\ alive /\ started = {} /\ release = NoRelease
    /\ ReleaseAllFrames
    /\ alive' = FALSE
    /\ UNCHANGED <<refCount, data, dataSize, requiredSize, allocator, started,
                   modeSize, holds, acquiring, release>>

Next ==
    \/ \E f \in Frames : AcquireFrame(f)
    \/ \E b \in Buffers : GiveBuffer(b)
    \/ AllocationFails
    \/ \E t, u \in Threads, f \in Frames : AddRef(t, u, f)
    \/ \E t \in Threads, f \in Frames : Release(t, f)
    \/ ReadFreeFunc \/ CallFreeFunc \/ Detach
    \/ \E size \in Sizes : ChangeVideoMode(size)
    \/ \E a \in Allocators : SetFrameBufferAllocator(a)
    \/ \E s \in Streams : StartStream(s) \/ StopStream(s)
    \/ DestroySensor

Spec == Init /\ [][Next]_vars

-----------------------------------------------------------------------------
(* Properties *)

\* FrameManager: the count of a frame is the number of references its users own,
\* whatever interleaving of addRef and release produced it.
RefCountExact == \A f \in Frames : refCount[f] = Cardinality(Owners(f))

\* Sensor: every allocated buffer has one owner, a single frame or the list of
\* available buffers, so none is lost, none is freed twice and none is handed
\* out while a frame still uses it, even when the size changes or the sensor is
\* deleted in the middle of a release.
OneOwnerPerBuffer ==
    /\ \A b \in Buffers : bufferFrom[b] # None <=>
                            b \in available \/ \E f \in Frames : data[f] = b
    /\ \A f, g \in Frames : data[f] = data[g] /\ data[f] # None => f = g
    /\ \A f \in Frames : data[f] \notin available

\* A frame somebody owns has its buffer: releaseAllFrames and the deletion of the
\* sensor leave the frames the application holds readable.
OwnedFrameHasBuffer ==
    \A f \in Frames : Owners(f) # {} /\ f # acquiring => data[f] # None

\* The data an owner sees stays where it is, at its size, while the owner keeps the
\* frame: no restart, mode change, allocator change or close moves it.
OwnedDataStays ==
    [][\A f \in Frames : Owners(f) # {} /\ Owners(f)' # {} /\ data[f] # None =>
          data'[f] = data[f] /\ bufferSize'[data[f]] = bufferSize[data[f]]]_vars

\* freeBufferFunc against releaseAllFrames and setFrameBufferAllocator: a buffer
\* is given back to the allocator that made it, although the sensor's allocator
\* may have changed since; a pool buffer may instead be freed directly.
BufferReturnsToItsMaker ==
    LET MayFree(func, b) == \/ func = bufferFrom[b]
                            \/ func = Memory /\ bufferFrom[b] = Pool
    IN  /\ \A f \in Frames : data[f] # None => MayFree(freeFunc[f], data[f])
        /\ release.step = "free" => MayFree(release.func, data[release.frame])

\* "release all previous frames. They can't be used anymore" (setRequiredFrameSize):
\* the pool holds buffers of the current size only, except those that a release
\* already on its way put back after the size had changed.
PoolHasRequiredSize ==
    \A b \in available \ overtaken : bufferSize[b] = requiredSize

\* After the sensor is gone nothing is kept for it: no buffer waits in its lists
\* and no frame that is still out will call back into it.
DeadSensorIsForgotten ==
    ~alive => /\ available = {} /\ currentFrames = {}
              /\ \A f \in Frames : refCount[f] > 0 => ~attached[f]

\* XN_ASSERT(size == m_requiredFrameSize) in allocFrameBufferFromPool, read as
\* what it is there for: a frame's buffer has the size the frame declares.
FrameFitsItsBuffer ==
    \A f \in Frames : data[f] # None => bufferSize[data[f]] = dataSize[f]

=============================================================================
