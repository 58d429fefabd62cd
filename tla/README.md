# A TLA+ model of the LiMu 3D LiDAR driver

The LiMu driver (`driver/`) lets a program use one or more time-of-flight
cameras. Commands go to a camera over TCP and are answered one by one; frames
come back over UDP, cut into datagrams, and are assembled, coloured and turned
into a point cloud before the program's callback sees them. This directory
holds TLA+ modules for the parts of the driver whose correctness depends on
threads, sockets and the order of events, the TLC configurations that check
them, and theorems about them that TLAPS has checked. The repository has no
tests, so its code and its comments are what the modules are compared with.

Line numbers refer to the files under `driver/src` unless a path is given.

## 1. The system

### Threads

| thread | runs | made at |
|---|---|---|
| application | the calls of `ToF` (in the ROS 1 node: `main`, then the dynamic-reconfigure callback; in the ROS 2 node: the constructor and destructor) | - |
| UDP io thread | `UdpServerManager::handleReceive` and, inside it, the datagram callback of every camera object and the program's frame callback | `udp_server_manager.cpp:14`, once per process |
| TCP io thread | an `io_service` without work: `run` returns at once | `tof320.cpp:35`, per object |
| IMU reader, RGB reader | `IMU::start`, `start_RGB` | the ROS nodes |

### Components

| component | state | operations | who calls it |
|---|---|---|---|
| Command channel, `TcpConnection` | `state`, `previousState`, `socket` | `connect`, `sendCommand` (retry loop), `waitAck`, `close`, `isConnected` | camera object, on the application's thread |
| UDP server, `UdpServerManager` | `running`, `socket`, `cameraCallbacks`, `callbackMutex`, the pending receive | `getInstance`, `subscribe`, `unsubscribe`, `shutdown`, `startReceive`, `handleReceive` | camera objects (application threads) and the io thread |
| Frame assembly, the lambda of `ToF320::ToF320` and `Frame::sortData` | `data`, `currentFrame`, `currentFrame_id` | one call per datagram | io thread |
| Camera object, `ToF320` | `isStreaming`, `dataType`, lens settings, the two signals | stream and stop calls, setters, `shutdown` | application's thread; the signals fire on the io thread |
| Frame computation, `computeFrame`, `ImageColorizer`, `CartesianTransform` | lens tables, colour table | `computeFrame`, `getColor`, `initLensTransform`, `transformPixel` | io thread; `initLensTransform` also on the application's thread |
| IMU reader, `IMU` | `chrBuf`, `chrCnt`, `running`, the last values | `start`, `parseData`, `stop` | its own thread |
| ROS 1 node | globals for every setting, `cameraInfo` | `updateConfig`, `setParameters`, `updateFrame`, `initialise` | `main` and the io thread |
| ROS 2 node | `m_tof`, `m_videoCapture`, `rgb_image` | `start`, `setParameters`, `shutdown`, `updateFrame` | constructor, destructor and the io thread |
| OpenCV sample, `set_camera_ip` | - | one fixed sequence of calls | `main` |

### How they interact

* The application's thread calls `ToF320`, which calls `sendCommand` and blocks
  until the camera has answered.
* `ToF320` subscribes a callback under the camera's IP address; the io thread
  calls it under `callbackMutex`; it stores the datagram and, on the last one
  of a frame, runs `sortData`, `computeFrame` and the program's callback.
* `dataType`, the lens tables and `precompute` are written by the application's
  thread and read by the io thread, without a lock.
* `UdpServerManager`, its `io_service` and its thread are shared by all camera
  objects of the process, and `ToF320::shutdown` ends them.

### What is hard about it

Sockets fail in the middle of a command, and the command is then retried; a
lost TCP connection is replaced only on one of several paths; datagrams are
lost and overtake each other; one io thread runs the callbacks of all cameras
under one lock; objects come and go while it does; and settings are changed
while frames made under the old ones are still under way.
`PROJECT.json` lists these hazards one by one, at their lines, with the
properties that cover them.

### What makes each component correct

* Command channel: a command is executed once per connection, only during its
  call, and is known to be executed when the call returns after an answer;
  every call ends; the state machine never shows a state that the operation in
  progress does not justify.
* UDP server: a datagram goes to the subscribers of its sender, in order and at
  most once; no callback runs after its object has unsubscribed; the receive
  loop survives errors; a shutdown returns; one camera does not end another.
* Frame assembly: a frame that was handed on is not touched again, but once for
  each first datagram that is lost; without loss all frames arrive whole, once
  and in order; with loss, no delivered frame is anywhere older than one before
  it.
* Camera object: after an acknowledged call the camera does what the object
  believes; a frame carries the type it was taken with, or a newer one, unless
  its first datagram is missing: then it goes out as the frame before it.
* Frame computation: every index is in range for every frame that fits; a frame
  that is handed on is whole; the picture agrees with the cloud; every pixel is
  on the table of its lens.
* IMU reader: the parser finds the next whole message after any disturbance.
* Programs: the region of interest stays on the sensor; what is shown belongs to
  the frame it is shown with and was computed for it; objects are not used after
  their end; a program leaves its camera as it says, and ends when asked to, if
  its commands return.

## 2. The modules

| module | models | notes |
|---|---|---|
| `TcpConnection` | `tcp_connection.cpp` | the detailed command channel |
| `CommandRpc` | - | what a caller may rely on: an at-least-once call |
| `TcpConnectionProofs` | - | theorems about `TcpConnection` |
| `UdpServerManager` | `udp_server_manager.cpp`, the parts of `tof320.cpp` that use it | the shared server, its io thread and the objects' lives |
| `PacketRouter` | - | what a subscriber may rely on |
| `UdpServerManagerProofs` | - | theorems about `UdpServerManager` |
| `MCUdpServerManager` | - | names of objects and cameras for TLC |
| `FrameAssembly` | `tof320.cpp:50-76`, `frame.cpp:36-94` | datagrams to frames |
| `FrameDelivery` | - | what a subscriber of `frameReady` expects without loss |
| `FrameAssemblyProofs` | - | theorems about `FrameAssembly` |
| `MCFrameAssembly` | - | the root of the TLC run |
| `Tof320` | `tof320.cpp:84-369` | the object's calls over a `TcpConnection`, and the label of its frames |
| `Tof320Proofs` | - | theorems about `Tof320` |
| `FrameTypes` | `frame.hpp`, the branches by type of `frame.cpp:36-94` and `tof320.cpp:371-453` | what a frame of each type brings |
| `CartesianTransform` | `cartesian_transform.cpp` | the tables of the three lenses, and the look-up of a pixel in them |
| `ImageColorizer` | `color.cpp` | the colour map and the colour of a distance |
| `FrameComputation` | `frame.cpp:36-94`, `tof320.cpp:371-453` and what they call | the loops that fill the tables, sort the bytes and compute the points |
| `FrameComputationProofs` | - | theorems about `FrameComputation` |
| `MCFrameComputation` | - | frames and distances for TLC |
| `SamplePrograms` | `samples/opencv/src/main.cpp`, `samples/ros2/vsemi_limu/src/vsemi_limu_node.cpp`, `tools/set_camera_ip/src/set_camera_ip.cpp` | the programs that hold a camera through a `ToF*` |
| `SampleProgramsProofs` | - | theorems about `SamplePrograms` |
| `MCSamplePrograms` | - | image types for TLC |
| `RegionOfInterest` | `limu_camera_node.cpp:200-214`, `limu_tof_ros.cfg:61-63` | the arithmetic of the sliders |
| `LimuCameraNode` | `samples/ros/src/limu_tof_ros/src/limu_camera_node.cpp` and what it calls in `tof320.cpp` | the ROS 1 node: configuration on `main`, frames on the io thread |
| `LimuCameraNodeProofs` | - | theorems about both |
| `MCLimuCameraNode` | - | slider positions for TLC |
| `ImuMessage` | `wt901c_ttl.cpp:232-264` | what a message of the inertial sensor is |
| `ImuParser` | `wt901c_ttl.cpp:224-269` | the parser and the serial line |
| `ImuFraming` | - | what a reader of the sensor promises |
| `ImuParserProofs` | - | theorems about `ImuParser` |
| `MCImuParser` | - | two messages for TLC |

In the code-facing modules a definition named in a "Faulty variant" comment is
not part of the specification: it is the definition below it with a plausible
mistake, and the property named with it in `PROJECT.json` fails when TLC runs
with the mistake in place.

### TcpConnection

One thread calls the object, so its place in the code is a single variable,
`pc`: `write` (line 65), `ack` (line 166), `reconnect` (line 82), `connect`
(lines 111 and 133), `sleep` (line 85), `ctor` and `idle`. Every blocking
operation is a step of its own. Between two of them the camera may read and
execute a command (`DeviceServe`), answer (`DeviceAck`), or fail: an orderly
close, a reset, a loss of power, and the camera may be off at the start.

`sock` is what the code can observe of the socket: whether it is open,
connected, at end of file, in error, and whether the error was reported yet.
The steps give each call the result Linux and Boost.Asio give it there:

* `getpeername`, behind `isConnected`, succeeds while the socket is connected
  or half-closed by the peer, and fails once an error is pending;
* `non_blocking(true)` throws on an object that was never opened, which is what
  a failed resolve leaves (`threwBadDescriptor`);
* an end of file becomes a `std::runtime_error` that the retry loop does not
  catch (`threwClosed`);
* reset leads to `connect`, every other error only to a sleep;
* the receive timeout of lines 126-127 has no effect: the socket is not open
  when it is set, and Asio's `read_some` waits by `poll` on a blocking socket.

Answers are counted in pieces (`AckPieces`), because `waitAck` takes whatever
one `read_some` returns for the whole answer. The outcome of the last call is
kept in `outcome`; the camera's executions, with the connection each came over,
in `log`. A network that is cut while the camera stays up is not modelled: to
the host it differs from a loss of power only in what the camera remembers.

### UdpServerManager

Each camera object is used by a thread of its own and goes through
`GetInstance`, `Subscribe`, `Shutdown`, `Unsubscribe`, `TestRunning`,
`ClearRunning`, `CloseSocket`, `StopIoService`; the lock is taken where the code
takes it, and `running` is read and written without it, the test of line 45 and
the write of line 47 in a step each, as in line 61. A step that
holds the lock from beginning to end is one step; `handleReceive` is several
(`HandleReceive`, `LookUp`, one `Call` per slot, `Unlock`), since other threads
may run while callbacks do, and the lock is a variable for its sake. The kernel
queue has a capacity, and a receive may fail. A callback may throw (`Throws`):
the exception releases the lock, leaves `handleReceive` and ends `run`.
`Shutdown` begins after the `stopStream` of `tof320.cpp:124` has returned: one that
blocks or throws leaves a live object, which is a state the model has anyway, and
says nothing about the shutdown that never came to the server.

The `ToF` interface of this commit declares neither a virtual destructor nor
`shutdown`. A program that only has a `ToF*` can only `delete` it, and then
`~ToF320` does not run (`Delete`); `shutdown` is reached by a program that holds
a `ToF320`, and by the ROS 2 node, which calls it through `ToF*`.

### FrameAssembly

The payload of a datagram is represented by the number of its frame, so that
`data` tells for every cell which frame wrote it last, and a `Frame` object what
`sortData` copied into it. `heap` holds the objects, `currentFrame` points into
it, and `delivered` remembers each object passed to `frameReady` together with
its content at that time. A callback is one step, because all of it runs on the
one io thread. The camera sends frames of any number of datagrams in `Sizes`;
the network may lose the first, a middle or the last datagram of a frame, swap
neighbours inside a frame ("swap": at least one of them a middle datagram), or
swap any neighbours ("cross", which no run allows: it is there to say what the
theorems exclude), and the object may be made in the middle of a frame ("join").
`faults` counts all of these and `heads` the frames whose first datagram never
came, since that one alone makes a new object: every other loss leaves a hole
that shows the frame before, the loss of a first one lets the io thread fill an
object that a subscriber already holds. `OneTakenBackPerHead` counts the frames
to which that happens.

### Tof320

A composition: `Tof320` declares the variables of `TcpConnection`, takes its
actions by `INSTANCE`, and adds the calls of the application around them
(`Begin` ... `Finish`), the camera's reaction to a command that `TcpConnection`
delivers (`Serve`), and the io thread. Types are represented by the number of
the stream command that asked for them, so that "older" has a meaning.

Of each frame its first and its last datagram are under way, since they decide
about its label. `net` is a set: the callback takes any of its members next, and
one that it never takes is lost, so that every loss and every order is there. A
last datagram delivers whatever `currentFrame` is, as lines 66-74 do; if the first
one of its own frame has not been taken by then (`Headless`), it may go out under
an older label, which `LabelNeverOlder` names as the only case. A last datagram
that finds `currentFrame` null is `NoCurrentFrame`, where the model stops
(`crashed`). `sure` and `labels` are history variables.

### FrameComputation

The constructor's tables and the two loops of the io thread are gone through
index by index: `x`, `y` are the pixel of `initLensTransform` and of
`computeFrame`, `i`, `j` the indices of `sortData`, `l`, `i_out_index`,
`i_2d_color`, `i_point_3d` those of `computeFrame`, which the code increments
by hand, each by another step. The arrays themselves are left out but for what
the last iteration wrote (`angle`, `colours.last`, `point`), which is where the
properties look.

Floating point is replaced by exact integers: the tables give the distance from
the axis in whole micrometres, a pixel is 20 micrometres wide, so that radii are
compared by their squares, and an angle is the number of its table entry; the
range of the colours is fixed at 0..20000 by `tof320.cpp:32`, so that
`indexFactorColor` is 3/8 and all corners of the colour map are eighths. Where
a double is cut to an integer the model cuts as well. What the sine and cosine
of an angle are, and with them the coordinates, is left out: a point has depth
or has none.

`FramesFit` assumes what no line of the code tests: that a camera sends no frame
larger than the sensor, nor a header that puts the end of its pixels, two, four or
eight bytes each by its type, behind the buffer. A frame of every type that ends
with the last byte of the buffer is among those of the run.

### SamplePrograms

The three programs are scripts (`Script`) that one main thread works through:
`step` is its place, `command` the state of the command it waits for, which
behaves as in `CommandRpc`: pending, executed, acknowledged, given up or ended
by an exception that nothing catches. Beside it run the io thread (`BeginCallback`,
`EndCallback`, with the datagram in work at the head of `net`), the thread that
reads the RGB camera in the ROS 2 node, the camera, and the user who asks to
exit. Each datagram of a frame may be lost when it is sent; the ones that come keep
their order. `label` is the type of `currentFrame`, `"none"` while that is null.
`delete` goes through `ToF*`, which has no virtual destructor: the object
is gone and its subscription stays. From the first use of something deleted, or of
a null `currentFrame`, on the model stops (`end = "undefined"`) and says who did it
(`culprit`). `isConnected` of the ROS 2 node returns or throws
(`IsConnectedThrows`), and then ends the process, as an exception of a command does.

A pause of one or two seconds either is long enough for what is under way or is
not: then `slow` is set, and `NothingGoneIsUsed` says which accidents need that,
or a camera that streams without the driver's knowing (`doubt`), and that the
only one which needs neither is the ROS 2 node whose `start` failed. `failed`
is a second script of the node: from where `start` has given up, `shutdown` runs,
and the constructor goes on with the deleted camera.

The ROS 2 node calls `isConnected` and `shutdown` through `ToF*`, which the
`include/tof.hpp` of this commit does not declare; it is modelled as written,
against the `ToF320` of this commit. `exit_requested` is a plain `bool` that a
busy loop reads: the model reads it anew in every round, as an unoptimised build
does, which is what the `CMakeLists.txt` of the sample asks for.

### LimuCameraNode

`main` is one variable, `caller` (`main`, `setCallback`, `initialise`, `spin`,
`exit`, `deleting`, `ended`), and its place in `setParameters`, `step`, an index into
`Script`, the commands of lines 145-178 in their order. `UpdateConfig` sets all
the globals in one step, since the io thread reads only `imageType` among them;
every command after that is a step of its own, between which the io thread and
the camera go on. Configurations are numbered: `config` is the number of what
the globals hold, `registers` tells for every register of the camera which
configuration wrote it, `mode` which one started the stream, and a frame carries
the numbers of what it was taken with (`gen`), labelled with (`label`,
`ToF320::dataType` at its first datagram), computed with (`lens`) and published
with (`image`, `imageType` in `updateFrame`). The region of interest is kept in
numbers. Frames under way are their first and last datagrams in `net`, a set as in
`Tof320`: any of them may be late or lost, and a published frame may have come from
two (`frame.first` and `frame.last` tell what each datagram was taken with,
`headless` that the first one of the completing frame was missing). `halfway` marks
data that was taken with registers of several configurations and no fault to
explain it. `shown` is the frame just published, until the io thread goes on.

A command behaves as `CommandRpc` says: executed and acknowledged, given up
(`Exhausted`), ended by an exception (`ThrewClosed`), or `Refused` because the
connection is lost. An exception that leaves `updateConfig` is caught by the
dynamic-reconfigure server, in `setCallback` as well as in `ros::spin`, and `main`
goes on; one of `initialise` or of the last `stopStream` leaves `main` and ends the
process (`Throw`). After that stop and two seconds `main` deletes the `ToF320`
(`Delete`); the io thread makes no step after the process has ended. The history
variable `doubt` is true from any failed command, restart of the camera, or
stream of an earlier process on, until a stop is acknowledged again: the next
configuration then starts from a quiet camera and writes every register.

`setLensType` and `setLensCenter` are one step of the script; if a setting is
new, it rewrites the lens tables between `BeginLens` and `EndLens`, and a frame
that `computeFrame` works on meanwhile is `torn`.

### ImuParser

One call of `parseData` is one step, in one of its three ways: the window is not
full (`Collect`), it is full of something else and moves by one byte (`Reject`),
or it is a message (`Accept`). Bytes are numbers, since the checksum decides;
the floats of a reading are represented by the six bytes they are computed from.
The line may lose or change any byte. How `read` cuts the bytes into chunks does
not matter to the parser and is left out. `last`, `whole`, `fresh` and `cut` are
history variables.

## 3. Abstract specifications

* `CommandRpc`: one call at a time; the camera executes the command of the call
  in progress any number of times and no other; a call acknowledged was
  executed; a call refused was not; a call given up says nothing.
  `TcpConnection!RpcSpec` maps the call in progress from `pc` and `returnTo`,
  and drops the connection from the log.
* `PacketRouter`: a subscriber is handed datagrams of its own camera in order,
  each at most once, only while subscribed. `UdpServerManager!RouterSpec` maps
  `cameraCallbacks` to the set of subscribers.
* `FrameDelivery`: started, announced, delivered, in this order, whole.
  `FrameAssembly!DeliverySpec` maps a delivered frame to its number if all of
  its cells come from one frame, and to 0 if not.
* `ImuFraming`: remembers all bytes since the last message and takes a message as
  soon as the last eleven of them are one. `ImuParser!FramingSpec` maps its
  memory to the history variable `fresh`.

## 4. The runs

| run | what it asks | bounds |
|---|---|---|
| `TcpConnection_safety` | `TypeOK`, `StateFollowsOperation`, `AtMostOncePerConnection`, `RpcSpec`, `RefusedForGood`, `CallRunsDown`, `CallReturnsOrAckIsLost` | 4 calls, 3 attempts, 3 faults of all kinds |
| `TcpConnection_silent_camera` | violates `CallReturns` | 1 call, 1 loss of power |
| `TcpConnection_closed_by_peer` | violates `LostConnectionReconnects` | 1 call, 1 close |
| `Udp_shared` | `TypeOK`, `NoCallbackAfterUnsubscribe`, `RunningMeansReceiving`, `RouterSpec` | 3 objects of 2 cameras, 2 datagrams each, a queue of 2, 1 receive error |
| `Udp_liveness` | `QueuedIsDelivered`, `ShutdownReturns` | 2 objects of 2 cameras, 2 datagrams each, a queue of 2, 1 receive error, throwing callbacks, `delete` |
| `Udp_two_cameras` | violates `LiveMeansServed` | 2 objects, 1 shutdown |
| `Frame_assembly` | `TypeOK`, `OneTakenBackPerHead`, `NeverOlder`, `LastCellIsNewest`, `DeliverySpec`, `EveryFrameArrives` | 3 frames of 2, 3 or 4 datagrams, 3 losses or swaps, joining included |
| `Frame_computation` | `TypeOK`, `FramesAreWhole`, `ColourTellsDepth`, `IndicesInRange`, `NoSeams`, `OffTableOnlyWideCorners` | all pixels, lenses and colours; frames of 4 types and 5 shapes, one of them at the end of the buffer, 18 distances |
| `Tof320_streaming` | `TypeOK`, `CameraFollowsDriver`, `LabelNeverOlder` | 3 calls, 2 attempts, 2 faults, 2 frames, any datagram late or lost |
| `Ros1_node` | `TypeOK`, `RoiOnSensor`, `CameraFollowsNode`, `SettingsTogether`, `PublishedNotOlder` | 3 configurations, 2 frames, any datagram late or lost, 1 failed command or restart, 2 slider positions |
| `Sample_programs` | `NothingGoneIsUsed`, `ShowsWhatWasComputed`, `LeavesWhatItClaims`, `EndsAfterExit` | every program, 4 image types, 2 datagrams under way, any datagram lost |
| `Imu_parser` | `TypeOK`, `MessageGetsThrough`, `FramingSpec` | any rest of a message, then 2 messages; 2 bytes lost or changed |

Why the bounds are enough. A command can meet at most one fault per attempt,
and what one call leaves behind for the next is the state of the connection;
four calls and three faults let every kind of fault follow every other, in one
call and across two, with a call before and after. `COMMAND_MAX_ATTEMPTS` is 30
in the code; three attempts separate the first, a middle and the last one. For
the UDP server two objects of one camera and one of another are the smallest
set in which `unsubscribe` hits a bystander and `shutdown` a stranger; a queue
of two keeps one datagram waiting behind the one in work. Frames of two, three
and four datagrams have no, one and two middle datagrams; three frames give
every hole a frame before and one after it. The three configurations of the ROS
node are the one of `setCallback`, the one of `initialise` and one change by the
user. A published frame has at most two frames in it, the one that made
`currentFrame` and the one that completed it, so that two frames, taken at any
moments, show every label that a datagram can meet; one failure meets the camera
that streams for an earlier process, the lost and the broken connection that `Init`
may start with. For the parser, a rest of a message and two messages fill its window
three times, and the data of both messages looks like the start of one. The
slider positions are at the edges of the arithmetic. `Frame_computation` has no
bound on its tables: it visits all 76 800 pixels of each lens and all 7 500
colours; its frames are a pixel, a few, a few at the end of the buffer, and a whole row and
two whole columns of the sensor, the shapes at which an index that is off by one
leaves an array, and
its distances lie on both sides of each comparison of `getColor` and
`computeFrame`. In `Sample_programs` nothing but the network is bounded: two
datagrams let one be in work and one wait behind it, and the second may belong to
the next frame. The theorems of section 6 hold without bounds, and `RegionSafety`
for every slider position.

Deadlock is checked in `Frame_computation`, whose loops go on for ever, and off
in the others: the counters are bounded, so that every behaviour stops in the
end, and a program that has ended or makes no more calls stops.

### What the violations show

* `TcpConnection_silent_camera`: the "timeout for connection (optional)" of
  line 125 does not exist: with an unanswered command and a dead camera,
  `sendCommand` never returns. `CallReturnsOrAckIsLost` says that this is the
  only way in which it does not.
* `TcpConnection_closed_by_peer`: line 79 means to reconnect at end of file, but
  line 171 throws an exception of another type; the connection stays lost
  (`RefusedForGood`).
* `Udp_two_cameras`: `ToF320::shutdown` (line 128) ends the server that all
  objects of the process share.

More facts of the same kind are seen in the modules. Some are the exceptions
that a property names: without its first datagram, a frame overwrites the object
of the frame before, which the program may still use, and delivers it again
(`OneTakenBackPerHead`), the new data under the type of the old, also when that
was asked for before the camera was told otherwise (`LabelNeverOlder`,
`PublishedNotOlder`); the four corners of the wide lens lie 3.986 mm from the
axis, the table ends at 3.980, and their points are put on the axis
(`OffTableOnlyWideCorners`); the ROS 2 node goes on with a deleted camera after
a start that failed, the OpenCV sample and `set_camera_ip` delete an object that
is subscribed (`NothingGoneIsUsed`); `set_camera_ip` prints the new address
whether or not the camera took it (`LeavesWhatItClaims`); the OpenCV sample,
opened on a camera that streams, shows arrays that were not filled
(`ShowsWhatWasComputed`); after a failed resolve every `sendCommand` throws
until the object is closed, although line 22 of `tof320.cpp` calls this a warning
(`RefusedForGood`). Others have no property: "0 - grayscale, 1 -
distance, 2 - distance_amplitude", says line 59 of `vsemi_limu_node.cpp`, and
`startStreaming` (line 168) streams distance for 0, distance with amplitude for 1,
the default, and nothing for 2 (`Wanted`); the OpenCV sample with one argument
uses `argv[2]`, a null pointer (`culprit = "arguments"`); a stream that is joined
in the middle of a frame, or whose first datagram is lost, ends in the use of a null
`currentFrame` (`crashed` in `FrameAssembly`, `Tof320` and `LimuCameraNode`,
`culprit = "null"` in `SamplePrograms`); and a frame of a single datagram is never delivered (`Sizes`
with 1).

## 5. Fairness

* `TcpConnection`: weak fairness of the calling thread (`Driver`: it is never
  blocked except by the socket), of the camera's service and answers
  (`DeviceServe`, `DeviceAck`: a camera that is up executes what it was sent),
  and of TCP (`PeerRejects`, `PeerUnreachable`: written data is delivered,
  rejected or, in the end, reported as undeliverable). No fairness of faults,
  of `DeviceBoot` or of the application's calls.
* `UdpServerManager`: weak fairness of the io thread, and strong fairness of
  each thread inside a constructor or a shutdown. It is strong because of
  `callbackMutex`: the io thread releases it after every datagram, and a
  `std::mutex` waiter is assumed to get it if it is free again and again. No
  fairness of the network or of the application. `ShutdownReturns` begins at
  `unsubscribe`; a `stopStream` before it that blocks or throws is outside.
* `FrameAssembly`: weak fairness of the callback and of a camera that has
  started a frame.
* `SamplePrograms`: weak fairness of what the main thread does by itself (`OwnStep`)
  and of the io thread. Strong fairness of `Shutdown`, since `unsubscribe` waits for
  a mutex that the io thread takes for every datagram. Nothing is assumed of a
  command that was sent: `read_some` waits without a limit (section 4), and a
  program whose camera dies with the answer stays in its `sendCommand` for ever.
  `EndsAfterExit` therefore says that a program ends if its commands return; which
  ones do not is `CallReturnsOrAckIsLost`. No fairness of the RGB thread, the camera
  or the user.

## 6. Proofs

`tlapm` checks the eight proof modules to the last leaf. Nothing is assumed but the
named assumptions on the constants (bounds are natural numbers, fault kinds are
known ones, frames fit) and what a theorem states. The type invariants of all
modules that have one are theorems too (`TypeCorrect`; for the parser
`WindowInBounds`); the one of `SamplePrograms` is only proved, and no run repeats it.

### TcpConnectionProofs

`Safety`: `TypeOK`, `StateFollowsOperation` and `AtMostOncePerConnection` hold
for any number of attempts, calls, faults and answer pieces. None of the last
two is inductive; `IInv` adds

* `StateInv`: where the thread is determines `state` and restricts `sock`: a
  thread about to reconnect has a dead socket, one that is to write again over
  a connection is in CONNECTED, one in `waitAck` came from CONNECTED. It is what
  makes `revertState` right.
* `LineInv`: the camera holds its end of the connection only while the host has
  not seen an error, and owes answers only then.
* `OnceInv`: as long as that end exists, a thread about to write has its command
  neither under way nor executed over this connection. A retry is sent only
  after an error, and an error only comes after that end is gone: this is the
  reason why a connection never carries a command twice.

`Implementation`: with one piece per answer, `Spec => RpcSpec`. `AckInv` counts:
what is arrived, owed and under way belongs to the command of the call in
progress, so that bytes in `waitAck` mean that it was executed. The step
simulation takes each action to an action of `CommandRpc` or to a stutter. For
answers in several pieces the implementation fails, as the code accepts the rest
of one answer for the next.

`AnswersBelong` states `AckInv` by itself, since `Tof320Proofs` uses it.

`NoReconnection`: `RefusedForGood`, by `Lost`: a call is refused when the socket
is null or was never open, or the state is not CONNECTED, and nothing that happens
to an idle object makes up for any of them.

`CallsRunDown`: `CallRunsDown`, for any `COMMAND_MAX_ATTEMPTS`. `StepsLeft` is the
variant of the retry loop: five steps for every attempt that is left, less those
that the attempt in progress has behind it. Every step of the calling thread takes
at least one away, whatever the socket answered, and neither the camera nor the
network gives one back. It needs `AttemptsLeft`: a thread inside the loop has an
attempt left. With it, the only way in which a call does not return is a step that
never comes: `read_some` without an answer and without an error. That is the safety
half of `CallReturnsOrAckIsLost`; the other half is fairness.

### UdpServerManagerProofs

`IInv` is `TypeOK` with `LockInv` (the io thread owns the lock exactly while it
calls), `ConnectedInv` (only live or unsubscribing objects are connected),
`FreedInv` and `OrderInv` (datagrams in the queue, in the handler and handed on
are ordered by their numbers).

* `NoLateCallback`: if no object is deleted while subscribed, no callback after
  `unsubscribe`. The slots still to be called are connected objects as long as
  the lock is held, and `unsubscribe` needs the lock.
* `ReceiverSurvives`: if no callback throws, `RunningMeansReceiving`. `LoopInv`
  tells, for each place of the io thread, who starts the next receive.
* `Implementation`: `Spec => RouterSpec` without conditions. `OrderInv` gives
  that a datagram handed to a slot is newer than the last one of its object.

### LimuCameraNodeProofs

`RegionSafety`, `ConfigurationSafety`, `TakenTogether` and `PublishedSafety` state
the properties of `Ros1_node` for every set of slider positions and any numbers of
configurations, frames and faults. The lemmas `HeightFits`, `RightEdgeFits` and
`RegionFits` are the arithmetic: the correction of crossed sliders leaves the
right edge at most at column 319, because the left slider ends at 312, and the
rounding never takes the region below eight columns. `IInv` adds

* `ScriptInv`: which places of the script belong to which caller and command.
* `OrderInv`: every configuration number that is under way is at most the number
  it will meet: `gen` at most `dataType` and `lens`. For the label this needs the
  first datagram: a last one on the network either has its own first one there as
  well, and will be `headless` if it comes before it, or its first one was taken, and
  then `currentFrame` has its label or a later one, since labels only grow. It is
  what is left of the order of datagrams when any of them may be late or lost.
* `BeforeStream`: until the last command of `setParameters`, nothing that is
  under way or being computed comes from the configuration in progress. It is
  the reason why only earlier frames can be torn.
* `AgreeInv`: without doubt, the camera streams only if the driver believes so
  and no register is being written, and every register behind `step` holds the
  value of `config`. It is what makes the order of `Script`, stop first and
  stream last, sufficient for `SettingsTogether` and `CameraFollowsNode`.
* `CleanInv`: each datagram on the network and both of `frame` are as
  `SettingsTogether` says.

### ImuParserProofs

`WindowInv` says that the window is the end of `fresh`, with `chrCnt` the smaller
of its length and ten; it gives `Implementation` (`Spec => FramingSpec`) step by
step. `WholeInv` says that the part of an undamaged message that has come is the
end of `fresh`, so that its last byte completes a window that is this message;
it gives `Safety`, for any messages that have a header, a type and a checksum.
`MessageGetsThrough` excepts one case (`cut`): garbage and the first bytes of
the message that make up a message together; a checksum cannot exclude it.

### FrameAssemblyProofs

For any sizes, numbers of frames and faults. `NoTimeTravel`, `EndsWithItsNewest`
and `TakenBackIsPaidFor` exclude "cross", the swap of a last datagram with a first
one; they are `NeverOlder`, `LastCellIsNewest` and `OneTakenBackPerHead`. `IInv`
adds

* `OrderInv`: datagrams are under way in the order of their frames, and in a
  frame the last one is not before the first.
* `DataInv`, `DeliveredInv`: no cell is newer than what is still to come, and
  nothing delivered is newer than its cell. A callback therefore only makes cells
  newer (`CellsGrow`), and `sortData` copies cells.
* `ObjectInv`: a Frame object holds what it was last delivered with, so that what
  was taken back (`TakenBack`) was delivered again (`Again`).
* `CountInv`: the deliveries that were taken back, with the frames that will take
  one back, are no more than the lost first datagrams. A frame is `Served` if its
  last datagram, sent or not yet sent, will find an object of its own: the first
  one is still under way before it (`Coming`), or the frame is the one in
  `currentFrame`, of the right size, undelivered, with its first cell written
  (`Begun`). Only the loss of a first datagram makes a frame `Unserved`
  (`heads` and `Unserved` both grow by one), and the last datagram of an unserved
  frame may take one delivery back, by which it stops being unserved. The number
  could not be had from the deliveries alone: without `Unserved` the claim is not
  inductive, since the loss and the harm are far apart.

`Implementation` shows `Spec => DeliverySpec` if a frame has two datagrams at
least, with all kinds of faults allowed later on. `Flawless` says that, as long as
there was none, the datagrams under way follow each other up to the camera
(`LineInv`) and the driver has taken all that comes before the next one
(`Expects`): at the first datagram of frame n it has announced and delivered
n - 1 frames, in the middle it has an object of the right size and all earlier
cells, so that the last one delivers frame n, whole. A frame of one datagram is
never delivered, which is why the theorem leaves it out.

### Tof320Proofs

`LabelsAreNotOlder`: `dataType` is the number of the last stream command, and the
camera obeys an earlier one or that one (`ModeInv`, from `CommandInv`: only commands
that were sent reach it), so that no datagram under way is newer than `dataType`.
Nothing is assumed of the network. `NetInv` says of a last datagram under way that
its first one is under way too, or was taken: from then on `currentFrame` has its
type or a later one, since a first datagram gives it `dataType`, which only grows.
`LabelInv` adds that no delivered label is newer than `currentFrame`, by which the
labels never go back.

`AcknowledgedIsObeyed`: with answers of one piece, `CameraFollowsDriver`. The
`AckInv` of the command channel, stated for the composition, says that over a
connection which the camera holds a command is under way only while `waitAck`
waits for it, and that an answer is one of the call in progress. `CallInv` then
ties call and camera: once the call is answered, the camera obeys it, or nothing
if it has restarted.

`ChannelImplementation`: whatever the application calls and the camera does, the
object's connection behaves as the specification of `TcpConnection` says: each step
of the composition is one of the channel's, or leaves the channel alone
(`ChannelSimulation`). All that `TcpConnectionProofs` proves is then cited, not
proved again: `ChannelSafety` (`StateFollowsOperation`, `AtMostOncePerConnection`)
and `ChannelCalls` (`RefusedForGood`, `CallRunsDown`) for the object, `AckInv` for
`AcknowledgedIsObeyed`, and the types of the channel for `TypeCorrect`. The
assumptions of `TcpConnection` come from `ChannelConstants`.

### SampleProgramsProofs

For any image types and any number of datagrams under way, and for the three
programs at once; `Steps` and `ReturnsStep` say once what their scripts do at
each step.

* `NoUseAfterEnd` (`NothingGoneIsUsed`) rests on `ObjectInv`, which says at which
  steps a deleted object or a subscription is still there, and `SettledInv`:
  without `doubt` (a camera that streamed before, or a failed stop) and with a
  pause that was long enough, nothing is under way when an object goes.
* `LeavesNothingUnsaid` (`LeavesWhatItClaims`) rests on `QuietInv`: without doubt
  the camera streams only if the driver believes so, and `set_camera_ip` passes
  its command only with the address changed or a failure seen.
* `ShownIsComputed` (`ShowsWhatWasComputed`) rests on `DemoInv`: on a camera that
  was quiet before, the demo gets frames of one type only, so that `currentFrame` is
  null or of that type, whichever datagrams are lost.

### FrameComputationProofs

For all frames that fit and all 16-bit distances. `LoopInv` says where the loops
stand: `sortData` after k iterations at the k-th pair of bytes, `computeFrame` at
pixel (x, y) with every index a multiple of y * width + x. `IndicesStayInRange`
and `WholeFrames` follow by arithmetic. `PictureTellsDepth` goes through the
branches of `getColor`; the lemmas about `createColorMap` show that no colour of
the map is black, and `ColorIndexInRange` that every distance of the range has an
index in it. `OnlyWideCornersAreOff` needs the ends of the tables only.

`MapHasNoSeams` (`NoSeams`): the constructor makes the colours of the map one by one
(`ColourInv`: the last one made is the one of its index); each of them is a ramp in
every channel, which rises or falls by at most one from an index to the next
(`Ramp`, `ChannelMoves`), across the corners where the ramps meet as well
(`NeighboursAlike`). `SurfacesAreSmooth` carries this to `getColor`: the cut of 3/8
of a distance moves by at most one when the distance does (`IndexOfCut`), so that
neighbouring distances get the same colour or neighbouring ones.

### What is model-checked only

Every invariant and every action property of the passing runs, and each of the
four refinements, is a theorem, with these conditions: `RpcSpec` and
`CameraFollowsDriver` need answers of one piece, `NeverOlder`, `LastCellIsNewest`
and `OneTakenBackPerHead` exclude "cross", `DeliverySpec` frames of one datagram,
`NoCallbackAfterUnsubscribe` the deletion of subscribed objects, and
`RunningMeansReceiving` callbacks that throw. The runs check them under the same
conditions.

With TLC stay the liveness properties, `CallReturnsOrAckIsLost`,
`QueuedIsDelivered`, `ShutdownReturns`, `EveryFrameArrives` and `EndsAfterExit`:
fairness needs `ENABLED`, which this prover does not handle.

## 7. What is not modelled, and why

* The bytes of commands and answers: the code never looks at an answer, and
  the encoding of a command has no state.
* The TCP `io_service` thread: its `run` has no work and returns.
* Of the ROS 1 node: the RGB and IMU threads, which share with the rest only
  values nobody relies on, `updateCameraInfo`, and the names of parameters. Two of
  them never reach the node: `initialise` reads `lens_Type` and
  `frequency_modulation` (`limu_camera_node.cpp:324`, `:325`), while `camera.launch`
  sets `lens_type` and `frequence_modulation` (lines 29 and 30), so that lens and
  modulation keep what the sliders gave them.
* What the io thread of the ROS 1 node does between `delete tof`
  (`limu_camera_node.cpp:455`) and the end of the process: `delete` goes through
  `ToF*`, so that the subscription outlives the object, and a datagram that comes
  then is handed to what was freed. `Delete` is the last step of `LimuCameraNode`,
  in which the io thread rests afterwards; the same hazard is modelled for the
  OpenCV sample, which ends in the same way (`SamplePrograms`, `IoUsesLiveCamera`).
* The last three values of a point: `tof320.cpp:439-441` read a `float` from each of
  the bytes `r`, `g` and `b`, and with it three bytes beyond each. The model has
  neither these values nor these reads.
* Coordinates: the sine and cosine of an angle, `transformPixel`, and the values
  of `data_3d_xyz_rgb`; `getGrayscale`, which nothing calls, and the switch
  `setPrecompute`, which only chooses between a table and its formula.
* The order of bytes in `getCameraInfo`: the two `offset++` of each sum
  (`tof320.cpp:352`) are unsequenced, and a model of their result would be one of
  the compiler.
* The set-up of the serial port (which tests `isatty` of standard input,
  `wt901c_ttl.cpp:45`), the loop of `IMU::start`, and the angles it writes while
  other threads read them (`wt901c_ttl.cpp:256`).
* A subscriber that shuts its camera down from its own callback
  (`udp_server_manager.cpp:127`): it takes a mutex its thread holds, and waits for
  ever; no program of the repository does it.
* Pictures, windows and ROS messages of the programs.
* The setters of the camera object send one command each and are one action
  (`Set`).
* The undefined behaviour after a deleted object's callback was called or a
  null `currentFrame` was used: the model stops or records it there.
* Generated code (`samples/ros2/build`, `install`, `log`), the compiled
  libraries in `driver/lib`, and the launch and URDF files.

## 8. Plan

Done, in this order: `TcpConnection` with `CommandRpc`, `UdpServerManager` with
`PacketRouter`, `FrameAssembly` with `FrameDelivery`, `Tof320`, the ROS 1 node
with `RegionOfInterest`, `ImuParser` with `ImuFraming`, `FrameComputation` with
its tables, `SamplePrograms`, and the proofs.

What would come next:

1. The composition of `Tof320` with `UdpServerManager`: a shutdown that an
   exception ends early.
2. The loop of `IMU::start` with its time-outs, and the readers of its values.
