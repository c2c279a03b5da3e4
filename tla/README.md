# OpenNI2 in TLA+

TLA+ specifications of the core and the drivers of OpenNI2, kept beside the code: what each
component does, as state and actions, what makes it correct, what TLC checks on
small instances and what TLAPS proves for all of them. Paths are those of the
repository, `src/` being its root; `Core/` stands for `src/Source/Core/`.

`PROJECT.json` is the index: components, the TLC runs, the source lines of each
definition, the hazards of the code and which property watches each of them, the
disagreements found between code and documentation, the theorems.

## 1. The system

OpenNI2 gives applications the depth, color and infrared streams of sensors. An
application calls a C API (wrapped in C++ and Java); the core (`Core/`) keeps
devices, streams, frames and recordings; drivers (`src/Source/Drivers/`), loaded
at run time, make frames and call back into the core.

```
 application threads      listener threads      recorder's thread
   | waitForStreams          ^ one per stream       ^ messages
   | readFrame, release      |                      |
 Context -- Device -- VideoStream -- FrameHolder   Recorder -> ONI file
              |         |   (own | synced)             ^
              |       Sensor ---- FrameManager          |
              |         ^ acquireFrame, addRef, release |
            driver threads: newFrame ------------------+
```

### Components, their state and what makes them correct

| Component | State | Operations | Hard behaviour | Correct when | Module |
|---|---|---|---|---|---|
| `FrameManager` | a pool of frames, reference counts | `acquireFrame`, `addRef`, `release` | references are made and dropped by any thread; `release` calls back into `Sensor` under the pool's lock | a count is the number of owners; a frame goes back once | FrameBuffers |
| `Sensor` | available buffers, frames that are out, required size, allocator, counts of open and started streams | `acquireFrame`, `setRequiredFrameSize`, `setFrameBufferAllocator`, `releaseAllFrames`, destructor | `frameBackToPoolCallback` reads `freeBufferFunc` without `m_framesCS`; frames outlive the sensor | each buffer has one owner and returns to its allocator; data of an owned frame does not move | FrameBuffers, StreamRead |
| `VideoStream` | `m_started`, frame holder, three auto-reset events, listener thread, recorders | `start`, `stop`, `stream_NewFrame`, `raiseNewFrameEvent`, `addRecorder`, `removeRecorder`, destructor | the frame is stored under a lock and signalled after it | no wake-up lost; the listener hears of frames | StreamRead, DepthColorSync, Recorder |
| `StreamFrameHolder` | the last frame | `processNewFrame`, `peekFrame`, `readFrame`, `clear` | several readers, a driver and `start`/`stop` at once | each frame to one reader, in order | StreamRead (implements FrameFeed) |
| `SyncedStreamsFrameHolder` | last and synced frame of each stream | same | sets latched, replaced and invalidated while they are read in part | what is offered has one index; no reference leaks | SyncedFrames |
| `Device` | streams, sensors, `m_syncEnabled`, `m_pContext`, the sync handle | create, remove and group streams, enable and disable the sync | regrouping at each start and stop; drivers that refuse | no stream keeps a deleted holder; only a refused group leaks | DepthColorSync |
| `Context` | devices, streams, recorders, events of waiting threads | `waitForStreams`, `readFrame`, `onNewFrame`, `enableFrameSyncEx`, `disableFrameSync`, `streamDestroy`, `recorderClose` | peeks, then blocks, then takes, in separate critical sections | a blocked thread wakes for a frame | StreamRead, SyncedFrames, DepthColorSync, Recorder |
| `Recorder`, `RecordAssembler` | attached streams with undo positions and seek tables, a queue with priorities, `m_started`, ids, the file | `attachStream`, `start`, `stop`, `record`, `recordStreamProperty`, `detachAllStreams`, message handlers | three kinds of threads, two locks taken in both orders, partial failures | records are inside their node; undo positions and tables lead to the right records; no frame leaks; it can be closed | Recorder |
| Driver interface | - | function tables of a driver and of the core | - | - | as the environment of DepthColorSync and StreamRead |
| OniFile player driver: `PlayerNode` | a file position, seek tables, undo positions and the current frame of each node | `ReadNext`, `SeekToFrame` with its fast, slow, backward and forward ways | tables that are missing or do not cover a property; undo across nodes; END inside a read | after reads and exact seeks nodes and properties are those of the stream's position; a seek ends at its frame | PlayerNode |
| OniFile player driver: `PlayerDevice`, `PlayerStream` | `m_running`, the speed, the seek under way, three events, the streams | `MainLoop`, `invoke(seek)`, `setProperty`, `tryManualTrigger`, streams, `close` | the player's thread against the application's; waits without a timeout | no seek is lost, a call returns, the thread ends | PlayerDevice |
| PSLink protocol and streams | packet ids, a frame in pieces, pending commands, `m_streamingRefcount`, the data endpoint | `HandlePacket`, `Start`, `Stop`, `SetCropping`, `Shutdown`, `ExecuteImpl` | lost packets, late answers, joins under a lock | frames arrive whole and in order; an answer is for its command; host and device agree | LinkStream (implements FrameFeed) |
| PS1080 driver: frame sync | `m_FrameSyncedStreams`, `m_nFrameSyncEnabled`, `m_nFrameSyncLastFrameID` | `OnNewStreamData`, `SetFrameSyncStreamGroup`, `OnFrameSyncPropertyChanged` | frames of two USB threads, at any distance in time, against regrouping and start and stop | a set is of one moment and one index; references are exact; no complete set waits | FrameSync |
| PS1080 driver: depth stream | the claim of the firmware's stream, `m_ActualRead`, processor, working buffer, the packet being read | `start`, `stop`, `setProperty`, the reading thread | lost data; failures half-way through opening; a join with a timeout while locks are held | the frames that came whole, and no others, are handed on; a started stream is read; buffers go back; calls return | DepthStream |
| PS1080: other streams, host protocol, formats | properties, compressed pixels | adaptation of devices | firmware that is not in the repository | - | not modelled |
| Kinect, DummyDevice, TestDevice | - | wrapper of a vendor library; examples | - | - | not modelled |
| C, C++ and Java API, NiViewer, samples | - | forwarding, applications | - | what `OpenNI.h` promises is stated as properties | not modelled |
| Depth utilities | tables | floating-point geometry | - | - | out of TLC's reach |
| XnLib | pools, queues, locks, events | containers, wrappers of the OS | - | - | as the core sees them |

## 2. The modules

Each module says at its top which threads meet in it and what one step is: a
critical section of the lock that protects the state, unless several steps can be
seen by nobody else. An action is named for its function where the function is one
step; a function that is interrupted is several actions, in the order of its code.
`PROJECT.json` ("map") gives the lines of each definition.

**FrameBuffers** (`OniFrameManager.cpp`, `OniSensor.cpp`). `refCount`, `data`,
`dataSize`, `freeFunc` and `attached` are fields of `OniFrameInternal`; `available`
and `currentFrames` the two lists of `Sensor`. `FrameManager::release` runs its
callback under the pool's lock, so there is one `release` record at a time, with three
steps: `ReadFreeFunc`, `CallFreeFunc`, `Detach`. `Sensor::releaseAllFrames` takes
another lock and may fall between them. `holds` says who owns references: the
driver, the application and the recorder are interchangeable owners, and `AddRef`
and `Release` stand for every call the holders, the recorder and the API make.
`bufferSize` and `bufferFrom` are the memory itself: with how many bytes and by which
allocator a buffer was made.

**StreamRead** (`OniContext.cpp`, `OniStream.cpp`, `OniStreamFrameHolder.cpp`). A
driver thread per sensor (`driver[d].step`): a frame is stored, then three events are
raised one by one. Readers (`reader[t].step`) follow `waitForStreams` and
`readFrame`: scan the holders one lock at a time, block on an event of their own,
wait for the stream's event, take what is there. The control thread steps through
`start` and `stop` (`control`). Frames are numbers, in the order of their timestamps.

**FrameFeed** is the abstract specification of reading a stream: frames are made;
each is delivered at most once and never after a newer one. StreamRead implements it
with `INSTANCE FrameFeed WITH made <- clock`; `delivered` is a history variable.

**SyncedFrames** (`OniSyncedStreamsFrameHolder.cpp`) follows one group through its
life. Every operation is one step, since the holder raises its events with the lock
held. `held` counts the references the holder owns and `given` remembers what was
handed out of the current set. A frame is its stream and its index; indexes come in
any order, with losses and repetitions.

**DepthColorSync** (`OniDevice.cpp`, `OniStream.cpp`, `OniContext.cpp`). The calls of
the control thread, one step each. `sync` holds the fields of `Device` and the
holders; the operators `Enable`, `Disable` and `Refresh` on it are composed as the
calls compose the functions of these names, with the driver's answer as a parameter; a call
that refreshes twice gets two. `enableFrameSyncEx` makes the holder before it asks the driver
and does not delete it after a refusal: `Refuse` keeps such holders in `live` and `leaked`.

**Recorder** (`OniRecorder.cpp`, `OniDataRecords.cpp`, `OniStream.cpp`). The
application (`app`), a driver thread for each stream (`driver`) and the recorder's
thread (`pump`), with the lock of `m_streams` and those of each stream's
`m_recorders`; recursive locks let their owner pass. `high` and `normal` are the
message queue, `infos` the entries of `m_streams`. A file is a sequence of records,
a position the number of a record; NODE_STATE_READY and NODE_DATA_BEGIN are one.

**PlayerNode** (`PlayerNode.cpp`). One thread runs this code, so a step is a record
that is handled, or what a seek does between two of them. A recording is computed from a
*session* (frames, properties and removals of nodes, what was detached early, which seek
tables fit) by the operators `Written` and `Recorded`, which follow the recorder; a
position is the number of a record. `nodes` holds the fields of `PlayerNodeInfo`,
`temp` the array of table entries that a seek leaves behind, `loading` the nested calls
of `HandleNodeAddedImpl`. `SeekStep` is one stage of `SeekToFrameAbsolute`.

**PlayerDevice** (`PlayerDevice.cpp`, `PlayerStream.cpp`). The player's thread (`thread.at`
says where in `MainLoop` or `OnNodeNewData` it is) and threads of the application
(`users`). What a record does is in PlayerNode: here a read gives a frame of some source,
something else, or the end. The three events, `m_isSeeking` and the two fields of `m_seek`
are variables of their own because the code writes them one by one without a lock. For the
same reason reading the speed that a seek restores and overwriting it are two steps
(`SaveSpeed`, `BeginSeek`).

**LinkStream** (`XnLinkInputStreamsMgr.cpp`, `XnLinkFrameInputStream.cpp`,
`XnLinkMsgParser.cpp`, `XnLinkControlEndpoint.cpp`, `LinkOniStream.cpp`). The reading
thread (`reader`), a thread of the application (`user`), and the firmware (`device`,
external), with the packets (`link`), commands (`requests`) and answers under way. A
packet carries a number of units of its frame, so that a buffer can be compared with the
frame it should hold. LinkStream implements FrameFeed: whatever is lost, the frames
handed on are whole, in order and at most once.

**FrameSync** (`XnSensor.cpp`). The USB thread of each stream (`usb`), threads of the
application (`app`). `synced` is `m_FrameSyncedStreams`, in its order, since the loop of
`OnNewStreamData` ends at the first far frame: `End`, `Own`, `Counted`, `Outdated` and
`Dropped` say what the loop has met when it ends. The critical section is one action; the
index that is read and written outside it is two. `handed` is the core's view: index,
time and kind of the last frame of each stream.

**DepthStream** (`XnSensorDepthStream.cpp`, `XnSensorStreamHelper.cpp`,
`XnFirmwareStreams.cpp`, `XnDataProcessorHolder.cpp`, `XnFrameStreamProcessor.cpp`,
`XnFrameBufferManager.cpp`, `XnLinuxUSB.cpp`). A call (`call`) goes through the steps of
opening and closing, each of which may fail; the reading thread (`usb`) finds packets
(`parser`), takes the processor's lock, fills `buffer` and hands frames on. `lock` and
`hLock` also say when a lock was kept by a function that returned ("kept") or by a thread
that was killed ("dead"). A chunk remembers the frame and packet it came from. A frame is handed on when the event of
new data is raised; `XnOniStream` passes it to the core if the stream is still started.

What the driver and the readers do inside a holder is in StreamRead and SyncedFrames,
which holder a stream has is in DepthColorSync, and the references all of them make
are those of FrameBuffers; FrameSync and DepthStream are on the driver's side of the same
interface. PlayerNode reads what Recorder writes, and PlayerDevice runs PlayerNode's
reads and seeks. The modules meet in these interfaces and are otherwise checked apart.
The `MC*` modules give the constants of the instances.

### Assumptions

Where the code relies on something it does not ensure, the model says so at the action:

- A driver acquires no frame after its `streamStop` has returned (`StopStream` of
  FrameBuffers). Drivers end their threads there, but `PlayerStream::stop`, for one,
  does not wait for a frame that is under way.
- The application is not inside `oniFrameRelease` while it closes the device
  (`DestroySensor`), and no thread is inside a holder that is being deleted (`Regroup`).
- The sync is not switched on while a group exists (`EnableDepthColorSync`): the code
  would delete the shared holder once for each stream.
- ATTACH of a stream is handled before the stream is destroyed (`DestroyStream` of
  Recorder): the message's handler follows a pointer to it. While its DETACH is queued the
  entry of a destroyed stream is still in `m_streams`, and closing or detaching walks over it
  (`OniRecorder.cpp:264-287`). The code follows a pointer to freed memory there, which
  `RemoveRecorder` takes to be unchanged; no property depends on it.
- Each recorded stream has a sensor of its own; streams of one sensor share its
  property callback, whose cookie is the stream created last.
- The recorder is open: the INITIALIZE message and the opening of the file are left out.
- The first call of PlayerNode that fails is the last of a behaviour: a stream that lost
  its place does not find it again.
- The application sets the speeds Manual and Normal only, does not destroy a stream it
  names in a seek under way, and closes the device when no call is in progress
  (PlayerDevice). Time is left out: a wait with a timeout may end at any moment.
- The firmware of PSLink goes on with its packet ids after a start, fewer packets are lost
  in a row than there are ids, command ids do not wrap, and commands and answers are one
  packet each. A stream is destroyed after it was stopped, and is the only one of its data
  endpoint, so that `Disconnect` joins the reading thread (LinkStream).
- In FrameSync `m_ReadData` is on, and a start that failed is not repeated. The core ends a
  group before it stops one of its streams, and that succeeds: the guard of `StopStream`.
- In DepthStream the calls hold the open lock, so one is in progress at a time, and one
  `XnOniStream` uses the device's stream. The callback of a frame takes less than the time
  the join waits for the thread. `xnUSBInitReadThread` fails only where configuring fails
  anyway. A frame is three packets of two chunks and exactly fills its buffer; after a loss
  inside a packet the parser takes one following packet for its rest. Losses are counted
  over the whole run and are fewer than the packet ids (65536 in the code): with as many,
  what follows a hole can have the id that is expected.

## 3. What TLC checks

| Run | Instance | Shows |
|---|---|---|
| `frame_buffers` | 2 frames, 3 buffers, 2 sizes, 3 owners, 2 streams, 1 application allocator; 248,576 states | counts are exact, a buffer returns to its allocator, the list has the required size, owned data stays, a deleted sensor is forgotten |
| `stream_read` | 1 stream, 2 readers, 3 frames; 1,437,852 states | no lost wake-up, FrameFeed is implemented, an empty read was overtaken |
| `stream_wait` | 2 streams of one sensor, 1 reader, 1 frame; 368,608 states | liveness: a blocked reader wakes, the listener is called |
| `synced_frames` | 2 streams, 2 indexes, 2 readers; 23,781 states | sets match, references are exact, readers are signalled |
| `depth_color_sync` | 4 streams of 3 sensors, 3 addresses of holders, 1 refusal; 74,736 states | holders are live, groups have started streams |
| `recorder` | 2 streams, 2 attachments, 2 frames, 1 property change, 1 start; 864,320 states | records inside their node, undo positions, seek tables, configuration ids, no frame leaks |
| `recorder_close` | as `recorder` | a counterexample, see below |
| `player_node` | recordings of 2 nodes with 3 to 5 events, complete and incomplete; 205,799 states | frames and properties are those of the stream's position; a seek shows its frame, and ends; playback fails in the known ways only |
| `player_device` | 2 threads of the application, 1 source, 3 calls besides those on streams; 208,166 states | a seek is answered, once and for itself; frames need triggers at the manual speed; calls return; the thread ends |
| `link_stream` | 2 frames of 3 units (1 cropped), 4 packet ids, 3 losses in a row, 3 calls; 983,205 states | FrameFeed is implemented; an answer is for its command; host and device agree; the reading thread finds what it uses |
| `frame_sync` | 2 streams, 3 frames each, times 0 to 6, 2 threads of the application, 4 calls, groups of 1 to 3 entries; 1,475,530 states | a set is of one moment and one index; references are exact; no complete set waits; the flag is that of the streams that are on |
| `depth_stream` | 2 frames, 5 packet ids, 3 losses, 1 failed command, 1 missing buffer, 3 calls; 362,910 states | exactly the whole frames are handed on; a started stream has its thread; buffers go back; calls return |

The bounds, and why they are enough. For Recorder, PlayerNode, PlayerDevice, LinkStream,
FrameSync and DepthStream the same properties were also checked once with each bound
raised (up to 8.8 million states), to the same result:

- *Frames, buffers, sizes* (FrameBuffers): with two frames one can be out or in the
  middle of its release while another is acquired; the third buffer is the one that is
  available meanwhile; two sizes tell an old buffer from a new one.
- *MaxFrame* (StreamRead) ends the run after three frames: one that is read or
  replaced, one that overtakes it, one whose signal is left over. In `stream_wait` the
  two streams share the frame, one holder each, and the events left over by a stop
  and a start; one frame is what can be lost.
- *Indexes* (SyncedFrames): a stream's frame either matches the others or does not.
  Nothing else bounds that module: its states are finite.
- *MaxRefusals* (DepthColorSync): a holder that a refusal leaked stays, and two addresses are
  left for the one in use and the one that takes its place. Refused once, the driver accepts
  or ends groups in any order afterwards. Raised to two, with four addresses, the result was
  the same. Nothing else bounds that module.
- *MaxNodes, MaxFrames, MaxProperties, MaxStarts* (Recorder): both streams can be
  attached, or one of them twice; a node with two frames has an undo position that is
  not zero; with the property between the frames their configuration ids differ. With
  `TableRoom` = 2, a table fits with one entry and does not with two.
- *Sessions* (PlayerNode): with two nodes, two frames of each and a property, a seek can
  go back and forth across a frame of the other node and across the property; times 0 to 2
  put frames of the nodes before, at and after each other, which is all the binary search
  can tell; the shorter, incomplete sessions lack a table, a property, the end, or all of a
  node. Every sequence of events within these bounds is played.
- *Users, MaxCalls* (PlayerDevice): two seeks can overlap each other and a third call.
  Calls that create, start, stop and destroy streams are not counted; their states are
  finite.
- *PacketIds = 4, MaxLoss = 3* (LinkStream): the most that can be lost without the ids
  coming round to the one expected; three units make a BEGIN, a MIDDLE and an END packet
  that can be lost each; three calls are a start, a stop and one more, such as a second
  start or the destruction.
- *MaxDiff = 1, Period = 2, MaxTime = 6* (FrameSync): frames of two streams can be near,
  far and again near each other; the third frame meets a stored one that was stored over
  another. The entries of a group include one stream twice: the core registers a stream
  for each `VideoStream` that uses it. Four calls: two starts, a group, and one more.
- *PacketIds = 5* (DepthStream): the packet of data of the second frame has id 0, which is
  taken after any id. Two frames are what a wrong frame is put together from; three losses
  take the end of one frame and the beginning of the next. Three calls: a start, a change
  while open, and a start after a stop; one failure anywhere in between.

`CHECK_DEADLOCK FALSE` is set where the system, or its bounded instance, may stop:
FrameBuffers when the sensor is deleted and no frame is out; Recorder when it is closed
(or, as `recorder_close` shows, when its threads wait for each other); PlayerNode when a
read failed; PlayerDevice when the device is closed; LinkStream when the stream is
destroyed; FrameSync and DepthStream when the bounds on frames and calls are used up
(DepthStream also when the core had no buffer and a call waits for the lock that was
kept). Symmetry is used in runs without liveness properties, over constants the module
does not tell apart.

Definitions marked *mutant* in the modules are plausible mistakes in the definition that
follows them (a lock not taken, an event pulsed instead of set, a release forgotten).
`PROJECT.json` pairs each property of these runs with one: put in the place of the
definition, it makes TLC report that property as violated. No specification uses them.

### Disagreements found

- `recorder_close`: closing a recorder while a stream delivers can deadlock,
  `m_streams` then `m_recorders` against `m_recorders` then `m_streams`
  (`OniRecorder.cpp:279,308`, `OniStream.cpp:328`); `OpenNI.h:2503` says that destroying
  a recorder stops recording.

The following definitions state what a comment or an assertion says, or what a caller would
expect, and do not hold. No run claims them; listed as a property in the `MC*.cfg` of their
module, TLC shows how each fails.

- `FrameFitsItsBuffer` (FrameBuffers): a release that read `freeBufferFunc` before
  `releaseAllFrames` puts a buffer of the old size into the emptied list; the next
  frame, of another size, takes it (`OniSensor.cpp:111,184`).
- `ReadReturnsAFrame` (StreamRead): `readFrame` returns `ONI_STATUS_OK` with no frame when
  another reader, or a stop and start, took the frame it had seen; `OpenNI.h:805` says that
  it blocks until there is one.
- `SetIsNotMixed` (SyncedFrames): `readFrame` of a stream without a synced frame counts the
  frame it takes as valid for the set that the other streams then show, whatever its
  index (`OniSyncedStreamsFrameHolder.cpp:101`); `OpenNI.h:503` says that the frame numbers
  match.
- `EnabledStreamsAreGrouped` (DepthColorSync): `start` regroups before it sets `m_started`,
  so the stream that starts last stays outside the group (`OniStream.cpp:135,141`).
- `DisableDisables` (DepthColorSync): `disableDepthColorSync` does nothing while no group
  exists; the sync is still reported as enabled and comes back (`OniDevice.cpp:281`).
- `SeekSetsOneMoment` (PlayerNode): a seek to the frame the stream shows reads it again and
  undoes nothing, so the other streams and the properties stay at a later moment
  (`PlayerNode.cpp:351`); `OpenNI.h:1766-1769` says that all streams are set to one moment.
- `OnlyUnsyncedGoAlone` (FrameSync): when the loop meets a far, older frame of another
  stream before its own entry, it leaves the loop, and the frame is handed on alone with
  its own index though its stream is synced (`XnSensor.cpp:1525`, comment at 1565).
- `SameIndexSameMoment` (FrameSync): that index may be the one of the last set, and the core,
  which compares indexes only, then takes two frames of different moments for a set
  (`OniSyncedStreamsFrameHolder.cpp:173-206`). The counterexample needs `MaxTime` = 8 and
  25 steps; with 6 there is none.
- `StartedStreamHasReader` (DepthStream): an open that fails after `SetActualRead(TRUE)`
  leaves `m_ActualRead` set; the next one shuts the reading thread down, makes none, and
  reports success (`XnSensorDepthStream.cpp:324-326,371`); `OpenNI.h:777` says that `start`
  starts data generation.

The exceptions in the properties are further behaviours of this kind. The ones a
maintainer should know:

- DepthColorSync: a group that the driver refuses leaks its holder (`OniContext.cpp:819`).
- PlayerDevice: a seek that fails, or is overtaken by another, is not answered, and its
  caller waits for ever; a speed set during a seek, or while the seek begins
  (`PlayerDevice.cpp:553-554`), is lost; a frame that cannot be acquired
  leaves the stream's lock taken (`PlayerStream.cpp:189`); `MainLoop` sets `m_running`
  after a `close` may have cleared it, and the thread is then killed.
- LinkStream: a failed start keeps its reference, so the next start does nothing and
  succeeds; an answer that is late is taken by the next command with the same id; without
  a frame from the core the parser stays on the memory of the frame released last.
- FrameSync: a failed command leaves `m_FrameSync` set, so that asking again changes
  nothing and succeeds; overlapping starts and stops may leave `m_nFrameSyncEnabled` stale.
- DepthStream: data missing before a packet with id 0 is not noticed; a stop whose
  command fails leaves the stream open, and a change of its frame rate and another start
  then leave it with one reference too many; `MarkWriteBufferAsStable` keeps its lock when
  the core has no buffer, after which a restarted thread blocks with the processor's lock
  until `Close` kills it, and the release of the stream waits for ever; changing the
  format while open loses a buffer, and keeps the processor's lock when there is none.

### Fairness

`FairSpec` of StreamRead assumes weak fairness of each driver thread's delivery, of
each listener thread and of each reader: the operating system runs a thread that can
run, an event that is set wakes its thread, and the holder's lock is held for a few
assignments only. The guards of these actions are enabled until taken (only the
thread itself consumes its event, except for the stream's event, which two readers may
wait for), so nothing stronger is needed. `FairSpec` of Recorder assumes it of the
steps of a call under way, of the message pump and of the driver threads, and nothing
about which of several waiting threads gets a lock. `FairSpec` of PlayerNode assumes that a
call of the one thread goes on to its end, that of PlayerDevice that the player's thread,
the calls of the application and the second half of `close` do; no call needs more than to be
run when it can. `FairSpec` of DepthStream assumes it of the steps of a call and of the
reading thread once it has a chunk; that chunks come is not assumed. Nowhere is anything assumed about
how often frames come, when calls are made, or that a stream is ever started.

## 4. What is proved

The proofs hold for all values of the constants that satisfy the assumptions named
in the modules: any numbers of frames, buffers, streams, sensors, readers, packet ids,
losses and calls. FrameSync is the exception, its assumption being two streams, as the
frame sync of the driver is used for: with three, `SetIsOfOneMoment` does not follow from
what `OnNewStreamData` compares, the last frame with each stored one.

Each `*Proofs` module shows an invariant inductive, one lemma for each part of it with one
step for each action, and derives the properties of the run from it. The invariants were
model-checked before they were proved.

**FrameBuffersProofs.** Type correctness, the five properties of the run, and three that
are only proved: an allocated buffer has one owner (`OneOwnerPerBuffer`), a frame that is
owned has its buffer (`OwnedFrameHasBuffer`), and the types. No single one is inductive.
`CountInv` is, by itself: types, exact counts, the driver owns the frame it is
acquiring, and a release that is about to give a buffer back has one. `BufferInv` is
inductive relative to it. It says where a buffer is at every step of a release: the
frame of a release is counted out but still in the sensor's list until `Detach`, unless
`releaseAllFrames` cleared its cookie; a frame that holds a buffer of the pool is in
that list, so that `releaseAllFrames` finds every one; and the buffers that are excepted
from the required size are those in `overtaken`. Counts are cardinalities of sets of
threads, so the threads are assumed finite.

**StreamReadProofs.** The safety properties of the run, and that a stored frame has its event,
is about to get it, or will be taken (`StoredFrameIsSignalled`). `IInv` adds to them: what the
driver still has to deliver is newer than what a holder has, and that is newer than what was
taken (`FrameInv`); a stream that a reader passed over in its scan and that has a frame now
has the reader's event set or about to be set (`PassedOverInv`, of which `NoLostWakeup` is the
end of the scan); a reader that saw a frame will find one unless it was disturbed (`SeenInv`).
The refinement, that StreamRead implements FrameFeed, follows: `TakeFrame` is `Deliver`,
`MakeFrame` is `Make`, every other step stutters.

**SyncedHoldersProofs.** The holder of synced frames, and the device that makes and ends
it. Of SyncedFrames, the properties of the run, and that a matching set never waits
while nothing is latched (`MatchingSetIsOffered`) and a reader blocked in `waitForStreams`
is signalled (`NoLostWakeup`). They are inductive together, once it is known
that a thread in a call is registered. `readFrame` and `processNewFrame` are taken apart
by the three decisions they make: where the frame comes from, whether the rest is
dropped, whether a new set is latched. Of DepthColorSync, the properties of the run, and
that a holder which is neither deleted nor the one of the device's handle was left by a group
that the driver refused, and is used by no stream (`OnlyRefusalsLeak`). `Sound(x, run)` is what `Enable`, `Disable`, `Unlink` and `Refresh` keep
for a state x of the synchronization and started streams `run`. Each call is a composition
of them, so its proof is a composition of their lemmas. The strengthening over the
properties is that the device's handle, the one holder that is alive and not leaked, and the
one group of the driver are the same, and that a group exists only while enabled.

**RecorderProofs.** The five invariants of the run and types. They speak of the file only,
and are not inductive because what a handler writes is right only if the message that it
handles came in time. So the invariant is in two halves. `TalkInv` is about the threads and
the queue. `QueueInv` orders the messages of `m_queue`: ATTACH is the first of its stream and
before every START, nothing but another DETACH follows a DETACH of a stream, nothing at all
TERMINATE. `MessageInv` says what is true while a message is queued, in either priority, or
handled: a RECORD is of a stream that is in `m_streams` and whose NODE_DATA_BEGIN is
written; a DETACH is of a stream that no thread will record any more. `StreamInv`, `AppInv`
and `BeginInv` say the same of the driver threads that wait for `m_streams`, of the
application's call, and of START. `Recorded` is about the file: entries of `m_streams` have
nodes of their own that are not removed (`FileInv`); their positions are those of the last
frame and property (`UndoInv`) and their tables list the frames written (`IndexInv`); a
table that is written is the one its NODE_ADDED names (`PatchInv`); and no frame, in a
written table or one in the making, has a higher configuration id than the recorder, nor a
property between it and another of its id (`ConfigurationInv`). The file is a sequence that
grows at its end or has one record patched; `AtKept`, `FileKept` and their like say what
that leaves of positions and tables, so that each handler is left with the records it adds.
`NoFrameLeaks` counts: the cardinality of the positions of RECORD messages, shifted when
the queue is popped. Where a frame is not written because emitting or compressing it
failed (`skipped`), tables and ids are claimed no more, as in the run.

**PlayerDeviceProofs.** `SeekIsAnswered`, `FramesNeedTriggers` and types. What makes the
seek hard is that flag, request and events are set, read and reset without a lock.
`PlaceInv` says which steps of `MainLoop` go with the flag. `WaiterInv` counts: a seek that
is asked for and one that is done and not yet taken are two threads of the application, so
that neither a reset of an event nor a stale one can belong to a thread that is alone.
`CleanInv` follows the request of such a seek: it is in `m_seek`, in the player's thread,
and in what that completed, and nobody else's is. `CreditInv` ties the trigger event to the
triggers that were counted, and the speed in force to the one that a seek will restore.

**FrameSyncProofs.** The four properties of the run and types. `FrameInv`: a frame a USB
thread has made is in no list yet, and newer than the ones of its stream that are. `SetInv`:
only streams of the group were handed a set; `DecisionInv`: an undisturbed decision that is
not in force agrees with the properties. With these the properties are inductive. The loop
of `OnNewStreamData` is characterized first (`EndOfLoop`, `CompleteSet`): where it ends, and
that its count equals the size of the list only if each entry has a frame. References are
cardinalities of sets of entries, so the lemmas say which entries each way out of the
critical section fills and empties.

**DepthStreamProofs.** The three invariants of the run and types, whatever steps of opening
and closing fail and whatever data is lost. `OpenInv` follows the flags through the steps of
`start`, `setProperty` and `stop` while no opening has failed; `ReadsInv` says what is there
when `m_ActualRead` is set; `BufferInv`, which holds after failures too, that a thread with a
processor whose lock can be taken has a working buffer; `HeldInv` that it is the only one the
driver has. `FramesAreExact` needs `FramesInv`, which is about data. Its parts say that an id
counts the place of a packet in all that the firmware sends (`NumberInv`); that the chunk in
hand (`PendingInv`) and those to come (`ComingInv`) alternate between the two halves of a
packet, come after the last chunk the processor was given, and are no further from it than the
losses so far; that nothing is sent to a processor that was there before an opening
(`QuietInv`). The two that matter are `FillInv` and `HandInv`. `FillInv`: a buffer that is not
spoilt is the beginning of a frame, or what follows a frame when the next SOF packet was lost.
The latter does not get the size of a frame: it would need two packets of data with the id 0,
the only id that is taken after any other, and there are not that many losses (`PacketIds >
MaxLoss`). `HandInv`: if all chunks since the SOF packet are good and in order, they are in
the buffer, or were handed on. A step of a call is an `Aside`, which hands on nothing and
starts no data while a processor is filled; each step of the thread has a lemma of its own.

**LinkStreamProofs.** The three invariants of the run, types, and the refinement of FrameFeed.
`LinkInv` and `AgreeInv` are about the calls: what a call has done to the stream at each of
its steps (`CallInv`, `StreamInv`), what the reading thread may rely on (`ReaderInv`,
`LostInv`), that commands and answers under way are of commands that failed except those of
the one that is awaited, in the order of their serial numbers (`PendingInv`, `SerialInv`), and
that the device has done what it answered and nothing else (`RunInv`, `CropInv`). They say
more than the runs' properties: a stream's reference that no stop will return has a failed
start to blame. `FeedInv` is about frames. `OrderInv`: what was handed on, written or is
handled is not newer than the packets to come. `ChainInv`: a packet, or the device's next one,
that has the id after that of another is the next part of the same frame, or begins one. This
is where modular ids meet the bound on losses: with fewer packets lost than there are ids, no
packet has the expected id by chance. `FrameInv`: the units of a frame that is not spoilt are
one run of a frame of the device, newer than all handed on, and what comes next continues it.
So the frame that `RaiseFrame` hands on is whole and a `Deliver`; a packet that begins a frame
is a `Make`.

A note for whoever extends the proofs: tlapm 1.4.5 misreads two updates of one argument
in one EXCEPT (`[f EXCEPT ![x].a = u, ![x].b = v]`), from which it proves FALSE, and an
`@` inside the inner one of two EXCEPTs. The modules write
`[f EXCEPT ![x] = [f[x] EXCEPT !.a = u, !.b = v]]`. And Zenon was seen to prove FALSE from
consistent premises with a set difference of record fields; `Sound` of SyncedHoldersProofs
states its sets with unions. The proofs were tested for such
accidents: with its goal replaced by FALSE, no leaf is proved but those whose assumptions
are meant to contradict each other.

Only model-checked:

- the liveness properties, which are out of this prover's reach (`BlockedReaderWakes`,
  `ListenerHearsOfFrames`, `SeekEnds`, `CallsReturn`, `CloseEndsThread`), and
  `SeekShowsItsFrame`, an action property of PlayerNode;
- the invariants of PlayerNode (`StateMatchesPosition`, `FailuresAreKnown`), which relate the
  position in a recording to everything before it: a recording is flattened from the events
  of a session, and what flattening yields would need induction over sequences; where a fast
  seek leads is what a binary search finds in a seek table, a recursive function, of which
  not even the range can be proved without induction.

The counterexamples are TLC's.

## 5. Not modelled

- `Context::initialize` and `shutdown`, loading of drivers, lists of devices and their
  callbacks; properties and commands forwarded to a driver; cropping and coordinates.
- `Sensor::setDriverStream` and the computation of the default frame size, called once.
- `setStreamEnabled` of the synced holder: a stream is in a group while started only.
- The bytes of records, codecs, timestamps; failures of writes other than of frames
  and seek tables.
- PlayerNode and PlayerDevice: the times of playback, codecs, old file formats, seeks by
  timestamp, the conversion of recorded properties.
- PSLink: the parsers that unpack pixels, commands and answers of several packets, output
  streams, property tables, file transfer.
- PS1080: color, infrared and audio streams but for what FrameSync says of them, the
  commands of the host protocol, the pixel formats, registration, firmware files, the
  enumeration of devices.
- The Kinect driver wraps a vendor's library; DummyDevice and TestDevice are examples; the
  depth utilities are floating-point geometry; XnLib's containers and OS wrappers appear by
  what their users see; most of the repository's lines are third-party headers and
  libraries (OpenGL, libusb, libjpeg), applications and samples.

Known hazards that no property covers:

- `Device::close` may delete a Sensor while a thread is inside `oniFrameRelease`
  (`OniDevice.cpp:84`); regrouping deletes the holder a reader may be inside
  (`OniContext.cpp:841`).
- The synced holder raises events with its lock held (`OniSyncedStreamsFrameHolder.cpp:237`):
  a deadlock with `Context::shutdown`, which is not modelled, is possible.
- A reader of one stream waits for ever when nobody reads the other streams of the set
  (`OniSyncedStreamsFrameHolder.cpp:216`), by design.
- Recorder: a START that is queued undoes a later `stop` (`OniRecorder.cpp:411`); a file that
  cannot be opened leaves a recorder whose thread never ends (`OniContext.cpp:951`); without
  a codec the id of a frame is the driver's, which the player then rejects
  (`OniRecorder.cpp:1019-1029`, `PlayerNode.cpp:1410`); closing or detaching after a recorded
  stream was destroyed may follow a pointer to it (`OniRecorder.cpp:285`).
- Streams of one sensor share one property cookie (`OniStream.cpp:57`).
- PlayerDevice: the list of streams is read without a lock (`PlayerDevice.cpp:535`); a
  stream named by a seek may be destroyed before its turn (`PlayerDevice.cpp:557`).
- LinkStream: `SetCropping` writes `m_cropping` without the lock; `StartImpl` keeps its
  parser when connecting fails. The endpoint counts the connections of all its streams: while
  another one is connected, `Disconnect` joins nothing, and `StopImpl` frees parser and frame
  while the thread may be using them (`XnLinkInputDataEndpoint.cpp:110-128`).
- FrameSync: the driver ignores that disabling the group failed (`XnOniDriver.cpp:215`); the
  core then stops and destroys streams that the list still names.

## 6. Plan

1. A composed instance of Recorder and PlayerNode: a frame sought is the frame recorded,
   in the file that interleaved threads wrote rather than one computed from a session. What
   is proved of Recorder's seek tables and undo fields is then what PlayerNode assumes of a file.
2. `Context::shutdown` against `onNewFrame`, with the locks of Context and the holders.
3. The remaining streams of PS1080, whose open and close differ from the depth stream's in
   their commands, and the request and reply of its host protocol.
