# Verification of libvhal-client and the host camera server

TLA+ models of the client library that connects a Linux host to the virtual
HALs (vHALs) of an Android guest, and of the programs built on it.  TLC checks
the models on small instances; TLAPS proves the most important invariants for
every value of the constants.

## 1. The system

| Component | State | Operations | Module |
|---|---|---|---|
| **VideoSink** (`source/video_sink_impl.h`) | `should_continue_`, `cmd_capability_`, one mutex and two condition variables, the talker's `fds[0].fd` | talker thread (connect, poll, receive, dispatch, callback), `GetCameraCapabilty`, `SetCameraCapabilty`, `ResetCameraCapabilty`, `SendDataPacket`, `~Impl` | `VideoSink` |
| **Stream socket clients** (`source/{vsock,unix,tcp}_stream_socket_client_impl.h`) | `fd_`, `connected_` | `Connect`, `Send`, `Recv`, `Close` | in `VideoSink` (vsock, Unix) and `Channel` (TCP) |
| **Camera server** (`host_camera_service/host_camera_server.cc`) | `stop`, `open_close_count`, `thread_lock`, `thread_running`, `stream_ctx`, buffers, `file_src_thread`, global `video_sink` | callback (open, close), streamer thread, `InitCamera` thread, `main` | `HostCameraServer` |
| **Sample camera client** (`camera_client.cc`) | `stop`, `file_src_thread`, `video_sink` and the streamer's copy of it | callback, streamer, `main` | `CameraClient` |
| **AudioSink, AudioSource, SensorInterface** (`source/audio_*_impl.h`, `sensor_interface_impl.h`) | socket client, `callback_`, `should_continue_` | talker thread, `RegisterCallback`, `SendDataPacket` / `ReadDataPacket`, `~Impl` | `Channel` |
| **Audio and sensor clients** (`audio_record_client.cc`, `audio_playback_client.cc`, `sensor_client.cc`) | `stop`, `file_src_thread`, `mSensorMap` | callback, sender thread, `main` | `ChannelClients` |
| **VirtualInputReceiver** (`source/virtual_input_receiver.cc`) | `mContacts[]`, `mEnabledSlots`, `mTrackingId`, the named pipe | touch, joystick and key commands, `SendEvent` | `VirtualInputReceiver` |
| **VirtualGpsReceiver** (`source/virtual_gps_receiver.cc`) | `mSockGps`, `mStop`, `mGpsCmdHandler` | worker thread (`Connect`, `Read`, dispatch), `Disconnect`, `Write`, `RegisterCallback`, destructor | `VirtualGpsReceiver` |
| **GPS sample** (`virtual_gps_receiver_sample.cc`) | `injection_thread_flag`, `loop_quit`, `gps_long`, `gps_lat`, `gps_alt` | `cmd_handler`, injection thread, `do_geo_fix`, `main` | `GpsSample` |

**Interaction.**  A channel (VideoSink and its siblings) owns one socket client
and one talker thread.  The talker reads packets of the vHAL and calls the
client's callback on its own thread.  The client calls back into the channel
from threads of its own, and all of them share `fd_` without a lock.  In the
camera server the callback starts and joins the streamer, which sends frames
through the same VideoSink, while `InitCamera` exchanges capabilities on a third
thread.  The sample clients follow the same pattern with less: a streamer that the
callback starts and joins, a sender that shares a map with it, or, for playback,
data that the callback itself reads from the talker's stream.  The GPS receiver
has a worker instead of a talker; its handler starts and joins an injection
thread that writes on the worker's socket.

**What is hard.**

* *Signals without state.*  All condition waits are without a predicate: a
  signal that comes before the wait is lost, one that nobody sent ends it.
* *An unlocked socket.*  The talker closes and reopens `fd_` while other
  threads send on it; packets are sent in several parts.
* *Descriptor numbers outlive descriptors* (`fds[0].fd`, `mSockGps`).
* *A peer that comes and goes*, in the middle of a packet, an exchange, a frame
  or a command; a send to a lost peer raises SIGPIPE, which nothing handles.
* *A byte stream that arrives in pieces*, with control messages and data on it.
* *Hand-over of the camera* through a flag, a counter's parity, a mutex held
  from open to close, and a join.
* *Threads started before what they use is there*: the callback that is
  registered after the talker runs, `video_sink` assigned after it runs.
* *A pipe that refuses single events* of a command when it is full.
* *Joins* of a thread that blocks in a system call, by a destructor or by the
  callback itself.
* *Arithmetic at the edges*: truncated limits and sexagesimal coordinates.

**What makes each component correct.**  VideoSink and channels: no descriptor
leaked or stolen, the connection regained after every loss and given up for no other
reason than a failed read, messages delivered in order and whole, every call and the
destructor returning, packets not mixed.  Camera server: no use of a freed
stream, one streamer at a time, the counter's parity true, every command
answered.  Sample clients: an orderly session runs to a clean exit, a close ends
the client, data flows while it is wanted.  Input: the reader's view is the
receiver's.  GPS: as the VideoSink, on one plain descriptor; one injection thread
between START and STOP, with fixes in range that go to the server.

## 2. The modules

### VideoSink

Four parties: talker (`tpc`), one control thread of the client (`cpc`), one data
thread (`dpc`) and the vHAL (external).  One action per stretch of the code
between two points where another party can interfere: each system call, each
wait, each handler.  `fdt` is the kernel's descriptor table (`free`, `sock`,
`file` for somebody else's); `socket()` and foreign opens take the lowest free
number.  `peer`, `inbox`, `owed` and `frame` are the connection: the vHAL's end
of it, the packets the talker has not read, the replies the vHAL owes, and what
the vHAL's parser expects next.  Four constants switch the environment: `SigPipe`
(the repository installs no handler), `ForeignFds`, `Spurious`, and `Fds`.

Every read may be short.  `RecvPacket` asks for MSG_WAITALL, which is 0x100, but the
flag of `IStreamSocketClient::Recv` is a `uint8_t`, so the vsock client gets 0, and the
Unix client ignores its flag.  What has arrived of a packet when the talker reads is up
to the network: `RecvHeader` and the handlers read the whole of it or, in `Short`, a
part, upon which the code closes the connection.  `torn` is a history variable: a
connection that was up was given up in this way.  Properties of one connection are
stated while it lasts, `Undisturbed`: no drop by the vHAL and no short read so far.

Abstractions: a `Send` (load of `fd_` and system call) is one step, and returns: the
vHAL reads what it is sent.  A packet that was cut by a drop is in `inbox` as such.
Not modelled: `poll()` failing with EINTR, event bits other
than POLLIN/POLLERR/POLLHUP/POLLNVAL.  The client makes one control call and one
data call at a time, and destroys the VideoSink when its calls have returned.
The contents of a capability and of a frame are left out.

### CommandLink

The abstract specification: what a callback may rely on.  Commands of one
connection reach it one at a time, whole, in order, none twice; a drop by the vHAL, a
connection that the client abandons on a short read (`Abandon`, recorded in `torn`) and
the end of the channel lose some, and what they lose is the end of the sequence.  The
link of the audio and sensor channels has `torn <- FALSE`: these never abandon a
connection.  Two modules implement it: `VideoSink!DeliversCommands`, where the whole
commands of `inbox` are the queue, and `ChannelClients!DeliversMessages`, where the
queue is the messages whose last byte has arrived.  Both queues are selections from
`inbox`; the module `Selection` defines what that is, by counting positions.

### HostCameraServer

EXTENDS `VideoSink` and fills in its client: every step of the callback is a step
of the talker in the callback or leaves the VideoSink alone, `InitCamera` drives
the control thread, the streamer the data thread, and `main` assigns
`video_sink` (`ready`).  `early` is a history variable: the callback's last wait
returned without a signal.

The I420 branch is dead because `v4l2_format` is `kMJPEG`.  A `CMD_CLOSE` with
the camera closed waits on a mutex the thread does not hold, formally undefined;
glibc waits, and so does the model.  An `open_camera` that fails dereferences a
null pointer, which is the crash in `CbStart`.  Commands outside the enumeration
behave as `CMD_NONE`.  The search for a device before the VideoSink exists is
left out.

### CameraClient

EXTENDS `VideoSink` with two programs (`kind`): `camera`, the sample
`camera_client.cc`, and `app`, an application that uses the VideoSink in every way
its specification allows, which the sample does not (it neither resets nor
destroys).  `sink` is the streamer's copy of `video_sink`, made when the callback
creates the thread; copying the pointer while `main` assigns it is a data race,
of which the model has the two outcomes null and not null.  The streamer ends the
process when it cannot open its file, at first or again at its end.  `status` says how
the process ended.  `orderly` is a session without failures of the host and with a
vHAL that opens and closes in order.

### Channel

The talker of `AudioSink`, `AudioSource` and `SensorInterface`, which differ only in
their socket and in what follows a control message, with `Connect`, `Recv`, `Send` and
`Close` of the TCP client one system call at a time.  `conn` is `fd_` together with
the state of the connection behind it; the talker never polls a stale number here
because it leaves the poll loop whenever it closes.  A control message is two
*units*, the smallest number that can arrive in part, and the PCM data it announces
is a unit per buffer; `buf` is what a `Recv` in progress has.  A sensor packet is
sent with one `send()` on a Unix socket and is assumed to arrive whole: `Recv` of the Unix
client has no loop, but with nothing to wait for the loop of `RecvTake` ends after one
round, so that the one action stands for both clients.  `rx` is the data
the vHAL has not read: `Send` blocks at `SendCap`, and fails or kills on a connection
that was reset.  `poll()` or `socket()` failing for want of resources (`Throws`)
ends the process.

Left out: the descriptor table (done in `VideoSink`), partial sends,
a `data_size` beyond the client's buffer, and data after `kData` on an AudioSink's
connection, which a vHAL does not send.

### ChannelClients

The three clients and `app`, an application of AudioSink with a destructor, on top
of `Channel`: `kind` is chosen in the initial state.  `RegisterCallback` comes at any
time after the talker has started.  The record client's callback assigns to, stops
and joins a streamer; the playback client reads the data on the talker's own
stream; the sensor client's callback inserts into `mSensorMap` under a mutex that
its sender does not take.  An insertion is two steps (`SensorLock`, `SensorInsert`)
and a look of the sender two (`SensorLook`, `SensorRead`): where they overlap the
code is undefined, and the sender may see the old map, the new one or neither, or
fault.

### VirtualInputReceiver

A message is a sequence of commands (`Begin`, commands, `Return`); a command
updates the receiver's state at once and leaves the events it sends in `todo`, from
which `SendEvent` writes them one by one to the pipe, each of which may be
refused.  The reader (external) keeps `rslot`, `rid`, `rbtn`, `rkeys` from what
it reads.  `past` is a history variable: events were lost, contacts forgotten
by a reset, or a key pressed by the client itself.

The five axis events of a contact are one event, the ranges of coordinates and
pressure are the flag `inRange`, and one thread calls the receiver.  The over-long
`substr` of a command does no harm as only its beginning is parsed.  A malformed
joystick command, which sends uninitialised values, is not modelled.  Tracking ids
are counted and never reach 65535.

### VirtualGpsReceiver

The worker (`wpc`) and the client with the destructor (`xpc`) share `mSockGps`.
Every step of `Disconnect` (test, `shutdown`, `close`, assignment) is an action
because both threads may be in it.  A thread that waits in `read()` keeps waiting
on its socket when the number is closed, which is why `reading` does not look at
`fdt`.  A read error is reported once: the next read of that socket gives 0.
Nobody calls `Connect` and `Disconnect` from outside, and the process is assumed to
have descriptor 0 open (`Connected()` takes 0 for none).

### GpsSample

EXTENDS `VirtualGpsReceiver` and fills in its handler, on the worker thread, the
injection thread (`ipc`) with `Write`, and `main`, which quits by destroying the
receiver.  Positions are integers, in the steps the sample moves and prints them:
0.00001 degree and a tenth of a metre.  `Limits` is the arithmetic of the three
maxima, truncation towards zero included: from -1.5 degrees the limit is 0.
`pthread_create` may fail, which `cmd_handler` does not look at: the thread is `unborn`,
and the STOP that joins it joins an old id or none, which returns or faults.  `Nmea` is the conversion of a
coordinate in `do_geo_fix`: it computes in doubles, whose error is much smaller
than a step and matters only where a truncation follows, so that the model lets
`60 * (val - deg)` be exact or one unit short.

Left out: a `write()` that blocks on a full buffer or returns 0 (which it does
not for a socket), the splitting of the text that `do_geo_fix` is given by its own
caller, and `do_geo_nmea`, which nothing calls.

## 3. What the runs check

| Run | Shows |
|---|---|
| `VideoSinkClients` | any application, and the sample client: types, a live connection is kept but for short reads, a waiter is woken by its own reply and served, the talker reconnects, the destructor returns, `CommandLink` is implemented; `CameraSessionClean`, `CameraCloseExits` of the sample |
| `HostSession` | a vHAL that opens after the exchange and does not drop: while no short read has ended the connection the capability handed out is the vHAL's and frames and camera info do not mix; always `video_sink` is assigned before it is used and a close that waits in time completes |
| `HostHazards` | all hazards on: `NoDescriptorLeak`, `CallbackPhases`, `NoUseAfterFree` |
| `Channels` | messages in pieces, drops, resets, four programs: messages are read where they begin and delivered as `CommandLink` says, the talker reconnects and can be joined; an orderly audio session ends with `exit(0)`, a close ends the record client, an enabled accelerometer keeps sending |
| `Input` | `CountCovers`, `DistinctIds` always; `ReaderAgrees`, `KeysReleased` while nothing was refused or forgotten |
| `GpsSample` | foreign descriptors, drops, commands in any order, a quit at any point: no socket lost, none of others closed or written to outside a few instructions, the worker keeps connecting and is woken by the destructor; one injection thread from START to STOP, positions in range and moving forward, sentences that decode to the position |

**Disagreements between code and documentation** (runs that end in a violation):

| Run | Shows |
|---|---|
| `HostFraming` | a reconnect between the two sends of `SendDataPacket` puts a payload without header on the new connection |
| `HostClose` | `CMD_CLOSE` with the camera closed prints "already closed" and then waits for ever, on the talker thread |
| `HostExchange` | the reply is handled between request and wait; `GetCameraCapabilty` never returns although the connection is healthy |
| `InputReset` | a reset forgets contacts, but the reader is not told and `mEnabledSlots` stays |
| `GpsReadError` | after a read error the worker says it will "connect and read again"; it reads the dead socket again, gets 0 and ends for ever |
| `SensorMap` | the sender iterates `mSensorMap` without the "lock to guard mSensorMap" while the callback inserts |

**Observed and not kept as runs.**

* Over a reconnect `GetCameraCapabilty`, once woken, can return the capability that
  the talker has just replaced by an empty one (`video_sink_impl.h:78`, `:218`).
  The programs here ignore the result, and `CapabilityFromVhal` is checked until
  the first connection is lost.
* With `ForeignFds` the talker can poll somebody else's file through the
  stale `fds[0].fd` (`:115` closes without leaving the poll loop), and then does
  not reconnect while that file is quiet.  `TalkerReconnects` therefore assumes a
  process that leaves the descriptors alone.
* A packet that arrives in two parts costs the connection, with the commands behind it,
  on vsock as on a Unix socket: the MSG_WAITALL of `video_sink_impl.h:338` does not fit
  the `uint8_t` flag of `Recv` (`istream_socket_client.h:107`), whose comment at `:98-100`
  promises the flags of `recv`.  `KeepsLiveConnection` and `CommandLink` therefore name the
  short read among the ends of a connection.
* The sample camera client exchanges capabilities once: after a reconnect the vHAL
  is not asked again.  One that opens before the exchange can give the streamer a
  null `video_sink`.
* A record client (audio or camera) whose connection is dropped while it streams
  sends on a closed socket and ends by SIGPIPE or `exit(1)` in the time the talker
  needs to reconnect; if it survives, the next open assigns to a thread that was
  not joined, which terminates the process.  Until then it streams on a connection
  nobody has opened.
* A vHAL that sends before `RegisterCallback` makes the talker of an audio or sensor
  channel call an empty `std::function`: the process terminates.
* A vHAL that stalls in the middle of a message blocks the talker in `Recv`, and
  with it `~Impl`.
* `mSensorMap.insert` keeps an existing entry: a disable after an enable is ignored.
  `event.fdata[2]` is never set (`sensor_client.cc:93` sets `[3]`) and is sent as it is.
* Input messages return success also when their commands were refused.
* The GPS destructor looks at `mSockGps` once.  A worker past its check of `mStop`
  connects after that, waits in `read()`, and `join()` does not return.  The
  worker and the destructor can also both close the number, and the second
  `close` may hit a file opened in between.  `QuitEndsReceiver` and
  `ClosesOwnOnly` state what holds outside these windows.
* An end of file, like the read error, ends the GPS worker for good.
* The injection thread ends on a write error without clearing its flag: further
  STARTs are ignored until a STOP.  A quit does not stop it at all: it may write
  through a receiver that is being destroyed.  A `pthread_create` that fails goes
  unnoticed, and the next STOP joins a stale id.
* `do_geo_fix` prints the altitude with `%.1g`, one significant digit, and the
  degrees of longitude with `%02d`.  A start position below the range stays below it:
  only the upper limits are clamped.

**Bounds.**  Two descriptors (`HostHazards`) are enough for a socket, a stale number
and a foreign file to compete, and for a full table.  `GpsSample` has one: what
depends on more, `NoSocketLost`, `ClosesOwnOnly` and `FixesStayHome`, is proved for
every table.  One drop and two to four commands make every pair of a loss and a
point of the code meet; four commands give open, close, open again and open while
open, three messages an open, data and a close.  `MaxPending` and `MaxAhead` bound
what is on its way: two messages behind each other are enough to misread
one for the other.  `SendCap = 1` makes every second send wait for the vHAL.
`Input` has two slots, so that a full set and the slot that only half the checks accept
occur, and a pipe of two events, which is shorter than every touch sequence, so that
each event of it can be the refused one.  `EdgeStart` has two starts: one a step from the
date line, the equator and the top, so that two fixes reach all three limits, and
one below zero with fractions, where truncation towards zero differs from rounding
down.  The runs reach from 39 thousand (`HostSession`) to 2.4 million states
(`HostHazards`).

`CHECK_DEADLOCK FALSE` in the runs of the camera server: its callback really may
wait for ever, as `HostClose` shows; in `Channels` and `GpsSample` the process ends,
and does nothing afterwards.

**Fairness.**  Weak fairness of each thread that has been started (the operating
system runs it, the callback returns because it is the client's own code, or is
spelled out in the program), of `main` registering its callback, of the answers of a
vHAL that is up, of the peer coming back up, and of a vHAL ending a message it has
begun and reading what it is sent: in `Channels` as fairness of its steps, in
`VideoSink` because a send is a step that returns.  Nothing is assumed of client
calls, commands, drops, foreign descriptors or spurious wakeups.

## 4. What is proved

Every invariant, every action property and every implementation of `CommandLink` that
a passing run checks is also a theorem, for every value of the constants.

| Theorem | For every value of the constants |
|---|---|
| `VideoSinkProofs!TypeCorrect` | the state keeps its type |
| `VideoSinkProofs!DescriptorsKept` | `fd_` names exactly the process's socket |
| `VideoSinkProofs!LiveConnectionKept` | only the vHAL, the destructor or a short read of an arriving packet ends a connection |
| `VideoSinkProofs!OwnReplyWakes` | without spurious wakeups a call is woken by its own reply |
| `VideoSinkProofs!CapabilityIsVhals` | moreover, until a drop or a short read ends a connection, `GetCameraCapabilty` returns what the vHAL sent |
| `VideoSinkProofs!VideoSinkDelivers` | the VideoSink implements `CommandLink`, short reads and drops included |
| `HostProofs!HostDelivers`, `CameraProofs!CamDelivers` | so do the camera server and the sample client |
| `HostProofs!HostImplementsVideoSink` | the camera server is a VideoSink with a client: `HostSpec => Spec` |
| `HostProofs!HostDescriptorsKept`, `HostCapabilityIsVhals` | so it leaks no descriptor and gets the vHAL's capability |
| `HostProofs!PhasesHold` | `CallbackPhases`, spurious wakeups included |
| `HostProofs!NeverUsedAfterFree` | no use of a freed stream, except after a spurious wakeup |
| `HostProofs!SinkAssignedFirst` | when the vHAL opens after the ack, no frame goes through an unassigned `video_sink` |
| `HostProofs!SessionFramesIntact` | under that order, without spurious wakeups and until a drop or a short read ends a connection, no packet is mixed with another |
| `CameraProofs!CamImplementsVideoSink`, `CamTypeCorrect`, `CamDescriptorsKept`, `CamConnectionKept`, `CamOwnReplyWakes` | the sample client is a VideoSink with a client, and has its properties |
| `CameraProofs!CameraSessionsClean` | with at least one descriptor, and until a drop or a short read ends a connection, an orderly session of the sample client runs on or ends in `exit(0)` |
| `ChannelProofs!ChannelTypeCorrect` | the state keeps its type, `connected_` included |
| `ChannelProofs!StreamAlwaysAligned` | the callback is run on one whole message |
| `ChannelProofs!ChannelDelivers` | the audio and sensor channels implement `CommandLink`, without further conditions |
| `ChannelProofs!AudioSessionsClean` | an orderly session of an audio client runs on or ends in `exit(0)` |
| `VirtualInputProofs!CountAlwaysCovers`, `IdsAlwaysDistinct`, `InputTypeCorrect` | `mEnabledSlots` covers the contacts, no two contacts share a tracking id, the state keeps its type |
| `VirtualInputProofs!ReaderAlwaysAgrees`, `KeysAlwaysReleased` | when nothing was refused or forgotten, the reader of the pipe sees the receiver's contacts and no key down between messages |
| `GpsProofs!GpsTypeCorrect`, `SocketNeverLost`, `AlwaysClosesOwn` | the GPS receiver keeps its type and, until it is destroyed, loses no socket and closes nobody else's |
| `GpsSampleProofs!SampleLosesNoSocket`, `SampleClosesOwn` | so does the receiver with the sample's handler and injection thread |
| `GpsSampleProofs!SampleFixesStayHome` | a fix reaches somebody else's file only between a close and the assignment after it, or during the destructor |
| `GpsSampleProofs!SampleFlagMatches`, `SampleInjects` | one injection thread, or a failed attempt to start it, exactly while the flag is set or a STOP waits; it ends by itself only after a failed write |
| `GpsSampleProofs!SamplePositionsAdvance`, `SampleSentenceDecodes` | positions never go back and stay in range; the sentence decodes to the position |

**Assumptions.**  Those on every theorem of a module are its named ASSUMEs:
descriptors are natural numbers, switches Boolean, bounds natural, start positions in
range.  The others are conditions the code needs:

* `Spurious = FALSE`: the waits have no predicate, so a wakeup that nobody
  signalled looks like the reply.
* `OpenAfterAck = TRUE` (the vHAL's order): the server does not check it.
* `Undisturbed` stands in the conclusion, not among the assumptions: the statement is
  about every state of a behaviour up to the first loss of a connection, by a drop or by
  a short read.  After it a call may have a new, empty `cmd_capability_`, and a frame may
  go where an exchange begins.
* `Fds # {}`: `socket()` needs a descriptor.

**Arguments.**  Each inductive invariant was checked with TLC on the runs' instances
before it was proved.

*Things on their way* (`Runs`).  What a reader will make of a queue depends on where it
stands when it reads it, so the invariants about pipes, sockets and inboxes are not
about single elements.  `Leads(R, a, q, b)` says that reading `q` takes a
reader from `a` to `b` by steps of `R`, and an invariant says that what is on its
way leads from what the reader has seen to what the writer has done.  The lemmas
say what appending, reading, cutting and joining queues do to it.  They rest on
an explicit history of the reader's states instead of a recursive
definition, since induction over data is out of the provers' reach.

*VideoSink.*  `IInv` is `TypeOK`, `NoDescriptorLeak`, `LinkState` and `InboxState`.
`NoDescriptorLeak` alone is not inductive: that a connect does not overwrite an
open connection needs to know that the talker only connects while `connected_` is
false (`LinkState`), and that a failed read of a live connection is the short read of an
arriving packet needs to know that packets are cut only by a drop and that the talker
reads only when there is something to read (`InboxState`).  One lemma per group of actions shows that it is
preserved.  `Accounts` adds that a call in its wait is owed exactly its reply or has
exactly that one ahead of it, and that between calls there is no reply at all;
`Woken`, that nothing replaces `cmd_capability_` between the signal and the return.

*CommandLink.*  The queue of the abstract link is a selection from `inbox`.  In
`Selection` the place of an entry is the number of positions that count up to its own;
`Runs` shows that this numbering has no gaps, and from it what the selection becomes
when an entry is appended, the first is read or the end is lost.  The rest is a case
per action: it is `Up`, `Send`, `Deliver`, `Return`, `Drop`, `Down`, `Abandon` or `End`
of the link, or leaves it alone.  Where the VideoSink gives a connection up, `IInv` says
that the vHAL dropped it or that the read was short; where a channel does, `ConnState`
says that the vHAL dropped it.  For the channels `CtrlRead` and `DataRead` say which units
a read takes off the stream, so that a message leaves the queue exactly when its
second unit is read and PCM data never does; `LinkInv` adds that nothing is left
in `inbox` of a connection that is closed, and that a sensor packet arrives whole.

*Camera server and sample client.*  Each step of theirs is a VideoSink step or leaves
it alone, which carries the VideoSink's theorems over.  `HostInv` is `CallbackPhases`
with the types of `count` and `kpc`: it relates parity, lock, flag, stream and streamer
at each point of the callback, and `NoUseAfterFree` follows from it.  `Silent`
says that the vHAL has heard nothing before `video_sink` is assigned, hence that
there is no command.  `Session` describes the first connection: before the ack an
exchange and no command on its way, after it frames, while `InitCamera`
waits in its second `ResetCameraCapabilty` for a signal that only a new connection
gives; so the two never send at the same time.  For the sample client `CamClean`
says that the commands in the inbox lead from what its callback has seen to what
the vHAL has sent: an open first, then closes.

*Channels.*  `CInv` follows the stream.  Its alphabet are the units of messages; a
step of `Grammar` goes from one unit to the next of its message, or from the last to
the first of any other.  `Ahead` says that `inbox` followed by `sending` leads on from
the last unit the talker has read (`LastRead`), on every connection that still holds
data, and, while it is open, to the end of a message.  `Buffered` says what `buf`
holds at each point of the talker.  `ConnState`, `Connected` and `Programs` relate
the talker's point to the connection and to the program.  `StreamAligned`
alone is not inductive: a talker that starts a message in step only stays in step
because nothing is cut out of the stream behind it.  `TidyInv` is the same about a
session: the grammar then has the order of the vHAL in it, and what remains is that
nothing arrives before the callback is registered.

*Input.*  `CountInv` is `CountCovers` with the types it needs; the argument is on
the cardinality of the set of contacts.  For `DistinctIds` the ids in the pipe and in the
rest of the command grow up to `mTrackingId` (`IdsGrow`).  For the
reader, `WillMatch` says that the pipe and the rest of the command lead from what the
reader has to what the receiver has; `CountExact` is needed because
the button event is sent by the count.

*GPS.*  `GInv` is `TypeOK`, the fact that the destructor's steps are behind
`mStop`, and `InStep`: between a `close` and the assignment of -1 there is no
socket at all, at every other point of the worker `mSockGps` names the one there
is, or none.  `NoSocketLost` alone says nothing of the number between the two.

*GPS sample.*  A step of the sample is a step of the receiver, or one of the injection
thread, which changes nothing of the receiver but the state of the connection; `GInv`
survives both, and `FixesStayHome` is read off `InStep`.  The two properties of
the handler need `OneThread`: besides the two themselves, that a set flag excludes
`loop_quit` and a STOP being carried out, so that a thread that sees `loop_quit`
is one that a STOP waits for.  `OnCourse` keeps each coordinate at or below its limit and both
in range: a limit is never behind the position, although it is truncated, because it
is a whole unit or more ahead before.  That the sentence decodes is division with
remainder.

**Only model-checked**: liveness, because fairness and ENABLED are out of the provers'
reach.  The runs that expect a violation state what does not hold, so there is
nothing to prove.

## 5. Sensitivity

A definition whose name ends in `_Bug...` is the definition after it with a
plausible fault: a close or a reset forgotten, a signal not sent, a thread not
joined, a check dropped.  No specification uses one.  `PROJECT.json` names, for
every property of a passing run, a fault under which TLC finds it violated.

## 6. Not modelled

Left out: logging; `tests/` (manual drivers); `tmp/` (superseded
sockets and the vendored catch.hpp); `camera_client_app_template.cc` (does not
compile); `camera_socket_client.cc` (sequential, one connection, one command);
`virtual_input_receiver_sample.cc` (a sequential driver of messages that the model
of the receiver already gets in any order); `yuyv422_to_yuv420sp` (not reached
while `v4l2_format` is `kMJPEG`); terminal handling and command lines of the
samples; the contents of frames and sensor samples.

To run: `tlc -config X.cfg M` with the module that `PROJECT.json` names for the
configuration, `tlapm M.tla` for a module of proofs.
