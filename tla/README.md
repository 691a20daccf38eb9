# TetherDisplay: a verification project

TLA+ models of TetherDisplay, which streams a virtual Windows display to an
iPad over USB; TLC configurations that check them on small instances; and
TLAPS proofs of all the safety that the runs check, for every value of the
constants.  Paths are relative to `src/`; `core/`, `capture/`, `encode/`, `crypto/`,
`transport/`, `vdisplay/` and `ui/` are below `windows-host/`.

## The system

| part | state | operations | meets |
| --- | --- | --- | --- |
| streaming session (`core/src/streaming_session.cpp`, `control_plane.cpp`) | `running_`, `force_idr_`, `seq_`, `encoder_ready_`, `send_mutex_` | `Run`, `Stop`, `OnFrame`, `ControlLoop`, `Send` | capture and encoder (calls, callbacks on foreign threads), channel (blocking reads and writes) |
| capture source (`capture/src/wgc_capture.cpp`) | device, pool, delivery texture, `capturing_`, `frame_mutex_` | `Start`, `Stop`, `OnFrameArrived` | Windows calls it back on any thread; it calls the session under `frame_mutex_` |
| encoder (`encode/src/nvenc_encoder.cpp`) | NVENC session, input texture | `Initialize`, `EncodeFrame`, `Shutdown` | called by callbacks, shut down by `Run` |
| wire protocol (`transport/protocol/src/wire.cpp`, iPad `Transport/WireProtocol.swift`) | `FrameParser`: `buf_`, `read_pos_` | `encode`, `feed`, `next`, `decode_message` | the control thread, the iPad's session |
| pairing (`crypto/src/*.cpp`, iPad `Security/*.swift`, `Session/VideoSession.swift`) | identity and pin in each side's store | `Establish` / `establish`, `LoadOrCreateIdentity` | the tunnel; the stores outlive the processes |
| tray application (`ui/tray_app.cpp`) | `g_running`, `g_quit`, `g_session`, worker thread | Start, Stop, Quit; `StreamLoop` | creates everything above once per connection |
| usbmux client (`transport/usbmux/src`) | sockets, a packet half read | `WaitForDevice`, `Connect`, `Tunnel` | the worker; a service on the same machine that comes and goes, and relays to the app |
| virtual display (`vdisplay/src`) | driver handle, index, `alive_`, keep-alive thread | `Add`, `Remove` | the worker; a driver it shares with other clients, Windows' list of monitors |
| configuration, bitrate control (`core/src/config.cpp`, `bitrate_controller.hpp`, `encode/src/rate_control.cpp`) | numbers | `ParseConfig`, `Clamp`, `OnCongestion`, `OnHealthy`, `PlanRateControl` | read when the worker starts |
| iPad session, decoder, renderer (`ios-client/`) | parser, decoder session, last picture | `process`, `decode`, `draw` | the other end of the tunnel |
| tools (`tools/`) | | console front ends of the same parts | |

What is hard in it: four kinds of thread share a session that is torn down
while callbacks are inside it; blocking reads and writes end only when someone
closes a socket; a Stop may come at any moment, also before there is anything
to stop; both sides persist half of a relation between them and may crash
between the halves; bytes arrive in any chunks; the driver drops a display that
is not refreshed in time; the mode of the display may change between any two of
the places that have taken its size.  `PROJECT.json` lists the
hazards one by one, at the line where each bites, with the properties that
would catch it.

## Modules

* `HostStream` is the promise of a session as the iPad sees it: HELLO, WELCOME,
  frames numbered consecutively, and a PONG for every PING in order.  No
  threads, no locks.
* `StreamingSession` is the session in detail; `MCStreamingSession` gives it
  constants; `StreamingSessionProofs` proves its safety, and that it implements
  `HostStream` under a refinement mapping (`Promise`).
* `FrameParser` (`MCFrameParser`) is the framing of the wire protocol, byte by
  byte, between a sender and a caller of `feed` and `next`;
  `FrameParserProofs` proves its safety.
* `TrayApp` is the program around the session: UI thread and worker.
  `TrayAppProofs` proves its safety.
* `Pairing` is the handshake of host and iPads with their stores;
  `PairingProofs` proves its safety.
* `VirtualDisplay` (`MCVirtualDisplay`) is the virtual display, its keep-alive
  thread and the driver, in discrete time; `DisplayModes` is the choice of a
  mode, as loops and as what is promised of it.  `VirtualDisplayProofs` proves
  the safety of the first, and that the second keeps the promise.
* `Settings` (the configuration and the rate plan), `Messages` (the bodies of the
  wire messages on both sides) and `UsbmuxClient` (the client and the service)
  are composed by `Worker` (`MCWorker`): from the configuration file to what the
  iPad shows about the stream and what the encoder is set up with.
  `WorkerProofs` proves its safety.
* `VideoPath` follows a picture from the display to the glass of the iPad,
  through everything on the way that has a size or needs a reference;
  `VideoPathProofs` proves its safety.
* `SequenceLemmas` is what the proofs share: induction over numbers, functions
  defined by recursion, concatenation, `FlattenSeq`, `SelectSeq`, the digits of a
  number.

### StreamingSession

A step is what lies between two synchronisations of the code: an atomic
(`running_`, `force_idr_.exchange`, `seq_.fetch_add`), taking or releasing a
mutex, one call of the channel.  `pc` says where each thread is, `pending` what
it is in the course of sending, `frameMutex` and `sendMutex` who holds what.

| code | actions |
| --- | --- |
| `Run` | `RunBegin`, `Send("main")` for HELLO and WELCOME, `SpawnControl`, `StartCapture(Fails)`, `PollEnds`, `CaptureStop`, `CaptureDrain`, `EncoderShutdown`, `JoinControl` |
| `Stop` | `StopFlag`, `StopClose` |
| `OnFrameArrived`, `OnFrame` | `Arrive`, `Enter`, `Bail`, `OnFrameStopped`, `OnFrameRunning`, `InitEncoder(Fails)`, `ExchangeIdr`, `EncodePacket`, `EncodeNothing`, `Send(h)`, `HandlerReturns` |
| `ControlLoop` | `LoopTest`, `RecvData`, `RecvEnd`, `ParseEnds`, one action per message |
| `Send` | `SendLock`, `SendWrite`, `SendFail` |

A callback is dispatched by Windows (`Arrive`) before it reaches `frame_mutex_`
(`Enter`): `revoke()` prevents the first, not the second.  `CORRUPT` stands for
bytes on which the parser fails for good, `IGNORED` for what is rejected or has
no effect.  The iPad of this repository sends KEYFRAME_REQUEST, HELLO and PONG;
PING and DISCONNECT are what the host's code also handles.

Abstractions.  `SendAll` of one message is one step, although it is two writes:
they are under `send_mutex_`, and `OneWriter` is the fact that makes the two
writes inseparable.  A message that is cut short by the end of the connection
is a `SendFail`.  `RecvData` may yield any number of the messages that have
arrived; the code yields at most one record per call, and a record holds one
message, so the model allows more than the code.  Once the iPad is gone, writes
still succeed until the socket buffers are full, and nothing more is read.  The
model assumes of NVENC that the first picture of an encoding session is an IDR
and that with the infinite GOP of `Initialize` no other is unless asked.
`idrOwed` is a history variable.

### FrameParser

A byte is a digit in base 4 and the length prefix has two digits, so that the
tests of `next` (below 3, too large, incomplete, unknown channel) and the
compaction of `feed` (all consumed, or more than a threshold consumed) all
happen with a few bytes; the sender may also send byte sequences whose length
is too small, too large, or whose channel is unknown.  The caller drains `next`
before it feeds again, as both callers in the code do, and goes on after an
error, which they do not, so that "terminal" can be checked.

### TrayApp

The UI thread's commands and the worker's loop with one step per access to what
they share.  A session is what `StreamingSession` says of it: its `Run` may
return at any time and does return once its channel has ended.  `WaitForDevice`
and `Connect` return in bounded time; `Establish` and `Run` only when the iPad
answers or the tunnel ends.

### Pairing

An identity is a pair of the node and a number, the k-th one that node has
generated.  `store` survives crashes, everything else does not.  An end of a
tunnel has its own place in the handshake: the host has one tunnel, an iPad one
end for each connection in `Slots`, as `accept` takes every connection, also while
the handshake of an earlier one is under way, each with the pin that was stored
when it was taken (`pinned`).

| code | actions |
| --- | --- |
| `LoadOrCreateIdentity` | `LoadIdentity`, `CreateIdentity`, and on the iPad `SaveSecret`: its two keys are written one after the other |
| the tunnel | `Connect`, `Cut`, `Crash` |
| `Establish` | `ConsumeHello`, `HostRefuses`, `HostVerify`, `HostSaveFails`, `HostSendsHeader`, `HostReady`, `Abort` |
| `establish`, `accept` | `ConsumeHello`, `DeviceRefuses`, `DeviceVerify`, `DeviceReady`, `DeviceLearns`, `Abort` |

Any write to a store may fail (`Faults`): the host's pin, whose failure ends the
attempt, and the writes whose result the code ignores, the host's identity, each
of the iPad's keys and its pin.  Any read may fail (`Misreads`), and both sides
take a failed read for an absent entry: an identity is made anew and saved over
the one that could not be read, a pin is trusted on first use again and
overwritten.  The devices are honest: a message carries the identity it speaks
for (a hello the public key, a confirm the secret one), and what the signatures
and the AEAD channel protect against is taken as given.  The iPad announces its
header as soon as the host's confirm verifies, but pins the host only when the
host's header, which the host sends after it has saved its own pin, has arrived.

### VirtualDisplay and DisplayModes

| code | actions |
| --- | --- |
| `Remove` | `CallRemove`, `StopKeepAlive`, `JoinKeepAlive`, `RemoveDisplay`, `CloseDevice` |
| `Add` | `CallAdd`, the steps of `Remove`, `OpenVddDevice`, `OpenFails`, `VersionFails`, `TakeBefore`, `AddDisplay`, `AddFails`, `StartKeepAlive`, `WaitForNewDisplay`, `GiveUpWaiting`, `EnumModes`, `ApplyMode`, `ModeUnavailable` |
| the keep-alive thread | `KeeperChecks`, `KeeperUpdates`, `KeeperWakes` |

Around them are the driver (which drops what is stale, and serves other clients),
Windows (which attaches a monitor some time after `ADD` and detaches it some time
after `REMOVE`), the user's own screens, and a crash, which leaves the display to
the driver as an orphan.  An `UPDATE` may or may not keep orphans alive.

`Tick` advances time by one unit, and cannot pass when a thread that can go on
(`Urgent`) is `Lateness` late.  Time counts only where the driver waits for it:
between `ADD` and the first `UPDATE`, between two updates, and from the end of the
keep-alive thread to `REMOVE`.  The search for a monitor may take for ever; so
the owner is not urgent there.  `TimingAssumption` is what the code needs of the
scheduler: a sleep and two latenesses fit into the driver's timeout.  90 ms and
100 ms leave 5 ms for each thread.  That is an assumption, and not a weak one:
with the timer granularity Windows has by default (about 15.6 ms) a sleep of 90 ms
may alone last longer than 100 ms, and nothing in the code asks for a finer one.
`NeverDropped` says that the code's order of steps is right if threads are
on time, and how much time there is; it does not say that they are.

A monitor may be plugged in or out at any moment, also between the snapshot of
the display names and the new name.  The code cannot tell one that appears then
from its own: `display_hotplug` shows it taken for the virtual display.

A mode list is a sequence, and a loop of `PickBestMode` the function from how many
modes it has seen to the best of them (`Sized`, `Fitting`); `IsBest` states what
`virtual_display.hpp:24` promises, with sets.  Sides are below 2^31, which keeps
the product of two within the 64 bits the code multiplies in.

### UsbmuxClient, Messages, Settings and Worker

`RecvPacket` reads a header and then the rest of a packet, in pieces of any
length, from a byte stream that carries the app's bytes behind the service's
answer; half of a header, and one entry of a plist, stand for their bytes.  The
service, the devices and the apps on them come and go at any moment.  A fault is a
refused or broken socket, an answer that is late, or an odd one.  The
client's steps are those of `WaitForDevice` (`Listen`, `RecvExact`, `SkipPacket`,
`DeviceFound`, `WaitFails`, `WaitConnectFails`), `Connect` (`Connect`,
`Connected`, `ConnectRefused`, `ConnectGetsNothing`, `ConnectFails`), `Tunnel`
(`TunnelRecv`, `TunnelClose`) and the pause of `StreamLoop` (`Retry`).

A message is its type, its fields and what follows them.  A byte has `Base` values,
numbers are little endian and cut to the width of their field, and both sides have their
own list of fields, as the two codecs have in the code.  The client narrows a number of
the service to an `int` (`ToInt`), as the code does with what the plist gives it.  A
configuration file is a sequence of keys and values.  `Worker` builds HELLO and WELCOME
from the configuration and the display's mode, sends them and samples of every other
message in either direction, one at a time, also to an app of another protocol version,
and keeps what the iPad shows.  The first frame of a session (`FirstFrame`) sets up the
encoder: with the rates of the configuration, but with its own size, and the display's
mode may be another by then than the one the greeting was built from.

### VideoPath

A texture is a size and a picture.  A capture callback is one step
(`OnFrameArrived`, `OnFrameResized`), and so is a task of the iPad's main actor
(`Decode`, `setPixelBuffer`); `StreamingSession` has their threads.  The stream
is HEVC, which is what the host sends unless configured otherwise.  Copies
between textures of different sizes do nothing, as D3D11 has it.  The pool, the
delivery texture, the encoder's input, a keyframe's parameter sets and the
decompression session take the display's size at different moments; each of them
may fail to be made, an encode or the lock of its bitstream may fail, a picture
may fail to decode, and iOS may take the decoder.  Sessions follow each other,
the iPad's decoder and renderer outlive them.  `spoiled` is a history variable:
what the session's faults have cost it and no later step has made good.

The model assumes of Windows that a recreated pool is given the display's
present content again, and of Swift that the main actor runs its tasks in the
order they were made.  `StartCapture` waits for the tasks of the session before:
the handshake takes its turn on the main actor behind them.

## Runs

| run | what it checks | instance |
| --- | --- | --- |
| `session_safety` | types; no use after teardown; one writer; nothing left inside the session when `Run` has returned; refinement of `HostStream` | 2 callbacks, 2 tokens, 1 message in flight each way, `seq` modulo 3, every fault, no corrupt input; 2.1M states |
| `session_liveness` | no keyframe request lost; Stop ends `Run`; the end of the connection ends `Run` | 1 callback, start-up faults, corrupt input; 0.4M states |
| `session_error` (violated) | an error ends `Run` | the capture cannot start, the iPad stays silent |
| `session_handler` (violated) | no callback is on its way when `Run` has returned | 1 callback |
| `parser` | exactly the frames sent, in order, without delay, in a bounded buffer, nothing after an error | 3 frames, chunks of 1 to 5 bytes; 38K states |
| `tray` | no dangling session; `g_running` tells the truth; nothing left behind; Stop of a published session returns; unplugging always frees the UI | start-up may fail, the iPad may fall silent in the handshake |
| `tray_stop` (violated) | every Stop returns | an iPad that answers and streams |
| `pairing` | a host that goes on has a persisted pin of its peer; both pinned each other; an iPad learns only a host that pinned it; only a silent iPad on an open tunnel holds the host in a handshake; paired devices reconnect | 1 iPad, 2 connections at once, 2 identities for each side, failing reads and writes, an iPad that may fall silent; 0.3M states |
| `display` | the driver never finds the display stale; only the program's own is removed; its mode is the best | 2 indices, 3 names, sleep 2, timeout 4, lateness 1, five mode lists; 3.8M states |
| `display_hotplug` (violated) | the display reported is the one added | 1 index, 2 names |
| `worker` | the tunnel leads to the configured app and holds its bytes from the first on; both ends understand each message alike and the rates the iPad shows are the encoder's; a device that stays is reached again and again | 2 devices, 2 ports, 3 configuration files, 2 modes, 2 versions, 3 packets read, 1 fault; 0.7M states |
| `video` | a packet can always be decoded, unless a fault took its reference; the glass in the end shows what the display shows | 2 sizes, 3 pictures, 2 sessions, 1 packet in the buffers, 2 tasks, 1 fault; 0.3M states |

Every property of a passing run has a mutant in `PROJECT.json`: an operator next
to the definition it replaces, a plausible mistake at that place (a dropped
lock, a detached thread, an exchange split in two, a pin taken too early), with
which TLC finds the property violated.

Why the bounds are enough.  Two callbacks are the least that can compete for
`frame_mutex_`; with the control thread and `Run` up to three threads compete for
`send_mutex_` (the proofs cover any number of callbacks).  One message in flight makes
every write block; `seq` modulo 3 wraps after a few frames.  Three frames let compaction
happen in the middle of one with another before and after it.  Two connections are the
least that overlap at an iPad; two identities are one lost and the next, and an iPad
with another identity is to the host another iPad. Each side may lose its identity in
its own way, the host as a write fails, the iPad as a read does, and the pins of both in
either way; the iPad's writes of its keys are left to `Pairing_keys.cfg`, since they
make seven times as many states.  The proofs cover any number of iPads, connections and
identities.  Symmetry is used for the callbacks in `session_safety` only, which has no
liveness property.

Two indices let the driver give the one that was dropped to somebody else while
an orphan holds the other; three names are the program's monitor, another
client's and the user's.  A sleep of 2, a timeout of 4 and a lateness of 1 meet
`TimingAssumption` with equality, so any further delay in the model would show
(the proofs cover every value).  Three packets are the answer to `Listen`, one
to skip and the one wanted, and the limit is hit when a device comes and goes.
A byte with four values makes every field overflow with small numbers.  Two
sizes and three pictures let the mode change and come back, before and after the
encoder has taken its size; two sessions let the second meet what the first
left; one packet in the buffers makes `SendAll` block with two frames in the
pool behind it; one fault at a time, at any point, as the claims are about what
follows a fault.

Deadlock is checked in `display`, `worker` and `video`, whose systems go on for
ever.  Sessions, programs, inputs and handshakes really end, so it is not checked in the
other runs: what must not hang there is stated as liveness.

### Fairness

The threads of the host are scheduled: a thread that can take a step in the end takes
one.  Blocking calls are steps that are not enabled until they can return, so that is no
assumption on the iPad.  Nothing is assumed of the iPad reading, sending or answering,
of frames arriving (a still screen yields none), of the user or of the cable; in
`TrayApp`, `tray_stop` alone assumes that the iPad answers handshakes (`PeerAnswers`),
which makes its counterexample stronger.  Weak fairness of a thread is enough where it
waits for a mutex: its holder always gives it back, and nobody takes it again for ever
once `running_` is FALSE.

`Pairing`: the host's thread runs, and an iPad's connection that has ended calls back
(`FairSpec`).  An iPad may fall silent in any handshake; `Establish` reads without a
timeout, so that `HandshakeEnds` is about what the host may wait for: an open tunnel on
which there is nothing left to read, and nothing else.  `PairedReconnect` speaks of an
iPad that answers, and has that as its condition (`Answering`).  Neither
assumes anything of crashes, restarts, the cable or when a connection is tried.

`Worker`: the client's thread goes on, and the service answers within the timeouts
but for a bounded number of faults.  Nothing is assumed of devices, apps or the
service's own life; `Reaches` is about one that stays.  `VideoPath`: Windows
delivers what has changed, a callback that is called runs, bytes arrive, the main
actor's queue moves and the view redraws; nothing is assumed of the display or
of how long a session lasts.  `VirtualDisplay` has no liveness: that time passes
is not claimed, and Windows may never attach the monitor, which `GiveUpWaiting`
is for.

## Where the code and its documents disagree

* `session_error`: a failing `Start` or `Initialize` clears `running_`, and `Run`
  then joins a control thread that is blocked in `Recv`
  (`streaming_session.cpp:102`); `streaming_session.hpp:31` says an error ends it.
* `session_handler`: a callback between its dispatch and `frame_mutex_` is not
  waited for (`wgc_capture.cpp:181`); the comment above says none can start.
* `tray_stop`: a Stop between the test of `g_running` and the publication of
  the session (`tray_app.cpp:126`) finds no session to stop and joins a worker
  that goes on to stream.
* `display_hotplug`: a monitor that appears while `Add` searches is taken for its own
  (`parsec_vdd.cpp:215`); `parsec_vdd.cpp:14` says the user's screens are never
  touched, `virtual_display.hpp:47` that capture targets this display.

Ten more claims do not hold either.  Each has a configuration beside the runs, with the
few constants that its counterexample needs; `tlc -config <cfg> <module>` prints
it, within a minute (`Worker_size.cfg` goes with `MCWorker`, the others with the module
they are named after).  They are not in `PROJECT.json`'s list of runs.

* `Pairing_identity.cfg` (`HostRecognised`): the result of `SaveSelf` is dropped
  (`identity_store.cpp:59`), while `docs/SECURITY.md:16` says the identity is generated
  once and stored.
* `Pairing_keys.cfg` (`KeysBelongTogether`): the iPad writes its two keys separately and
  looks at neither result (`KeychainStore.swift:46`); two starts may each leave one,
  which do not belong together.  `docs/SECURITY.md:16` speaks of a keypair generated
  once.
* `Pairing_unpinned.cfg` (`BothPin`): the iPad streams whether or not its pin was saved
  (`VideoSession.swift:71`); `docs/SECURITY.md:25` says it pins the host.
* `Pairing_reread.cfg` (`PinIsForever`): a pin that could not be read is taken for none,
  and replaced (`secure_byte_channel.cpp:69`, `credential_store.cpp:20`); the comment at
  `secure_byte_channel.cpp:76` says this must not come about, `docs/SECURITY.md:25` that
  a changed identity is refused.
* `Pairing_replace.cfg` (`PinIsForever`): of two overlapping handshakes of an iPad
  without a pin, the later replaces the pin the earlier one saved
  (`VideoSession.swift:71`), against the same line of `docs/SECURITY.md`.
* `Worker_size.cfg` (`SizeIsEncoded`): the encoder takes the first frame's size
  (`streaming_session.cpp:32`), WELCOME the one of the configuration, built once per
  display (`tray_app.cpp:97`); `docs/PROTOCOL.md:65` calls it negotiated.
* `VideoPath_keyframe.cfg` (`RequestIsAnswered`): `force_idr_` is cleared before an
  encode whose result is ignored (`streaming_session.cpp:41`); `docs/RUNBOOK.md:284`
  says the host answers with an IDR.
* `VideoPath_loss.cfg` (`LossIsReported`): what the decoder reports is dropped
  (`HEVCDecoder.swift:67`) and no KEYFRAME_REQUEST follows, though `docs/PROTOCOL.md:86`
  has it for recovery.
* `VideoPath_pool.cfg` (`KeepsDelivering`): after a pool that could not be recreated
  every copy into the delivery texture is refused (`wgc_capture.cpp:220`); the comment
  there says it keeps delivering at the old size.
* `VideoPath_mode.cfg` (`ShowsTheDisplay`): a display that stays in another mode than
  its session began with is not shown (`streaming_session.cpp:31`);
  `docs/RUNBOOK.md:289` says it is.

## Proofs

Everything below holds for every value of the constants that meets the modules'
assumptions.  In each module one inductive invariant, the conjunction of named
parts, is kept by every action; the theorems follow from it.

`StreamingSessionProofs`, from `SessionAssumption` alone, for any number of
callbacks and tokens, every capacity and every width of `seq`:

* `TypeCorrect`: `Spec => []TypeOK`.
* `Invariance`: `Spec => []Inv`.  The properties are not inductive.  That no
  callback uses a freed device needs to know that a callback inside the handler
  holds `frame_mutex_` (`FrameMutexOK`: only one does) and that `Run` frees the
  device only where the mutex is free and `capturing_` is FALSE (`CaptureLife`);
  that the encoder exists while one is encoding needs `encoder_ready_` to imply
  the encoder until `Run` shuts it down, which is after the device is gone
  (`EncoderLife`); that one thread writes needs the holder of `send_mutex_` to
  be the thread at "write" (`SendMutexOK`); that nothing is left when `Run`
  returns needs the control thread's life to follow `Run`'s (`ControlLife`).
* `NeverUseAfterTeardown`, `AlwaysOneWriter`, `QuiescentWhenReturned` follow.
* `KeyframesAreKept`: `NoLostKeyframe`, from the assumption that encoding and
  locking the bitstream are not among the faults.  It needs `TypeOK` only: what
  is owed passes from `force_idr_` to the callback that takes it in one step.
* `StreamIsAsPromised`: `Spec => ImplementsHostStream`.  The mapping selects frames and
  PONGs from what was written, so lemmas about `SelectSeq` come first.  A step that
  does not write maps to a stutter, `SendWrite` to the step of `HostStream` that its
  message is, and the receipt of a PING to the one that owes a PONG.  The steps
  need `Inv` (of two callbacks only one has a frame's number) and `InTransit`: what a
  thread is in the course of sending is of its kind, and the number of a frame that
  is being sent is the one before `seq_`.  So the numbers that `seq_.fetch_add`
  gives out reach the channel in order.

`VirtualDisplayProofs`, from `TimingAssumption`, `DisplayAssumption` and, for
`ModeIsBest`, `ModesAssumption`:

* `DisplayIsKept` (`NeverDropped`).  That the age of the display stays within the
  timeout is not inductive.  `Timing` bounds it at each place of the keep-alive
  thread: at most `Lateness` so far before the first update, the rest of the sleep
  and how late the thread is while it sleeps, and after its end what the owner is
  late by.  It rests on who lives when (`Life`) and on the index naming the
  program's display and no other (`Own`).
* `RemoveIsSafe` (`RemovesItsOwn`) and `HandleIsOpen` (`UpdatesOpenHandle`, which
  no run checks) from `Own` and `Life`.
* `TypeCorrect`.
* `PickIsBest`: of any list of modes but the empty one `PickBestMode` takes one that
  `IsBest` accepts, in whatever order they are listed.  Both loops keep that no mode
  seen so far beats the best (`SizedIsBest`, `FittingIsBest`); what beats the best
  cannot be beaten by what the best was not beaten by, as three numbers are compared in
  turn (`FitIsOrder`).
* `ModeIsBest` (`BestMode`): the mode `Add` applies is the one for the list it was given.

`TrayAppProofs`: `StopIsSafe` (`NoDanglingStop`), `MenuIsRight` (`RunningTellsWorker`),
`QuitIsClean` (`NothingLeftBehind`) and `TypeCorrect`.  `Life` ties session, `g_session`
and display to the worker's place, `Held` says that `g_session` does not change under
the UI thread while it has the mutex, `Flags` what `g_running` and `g_quit` are at each
place of the UI thread.

`PairingProofs`, for any number of iPads, of connections to each at once and of
identities, and any failing reads and writes: `HostIsPinned` (`HostTrustsItsPin`),
`PinsAreMutual` (`MutualPins`), `PinnedFirstByHost` (`PinnedByItsHost`) and
`TypeCorrect`.  `Joined` says that while a tunnel is up its ends are those that
opened it, and that the host hears the identity of that iPad.  `Headers` is the heart
of `PinnedByItsHost`: as long as the host has not pinned an iPad, no header of the host
is on its way to it, on any of its connections; `Learning` carries this to the moment
the iPad writes, `Trusted` ties the host's store to the history variable.
`MutualPins` needs that whatever reaches an iPad is one of the host's identities
(`Named`), and that a connection that is through, or was accepted with a pin, has
left one in the store (`Learned`).

`FrameParserProofs`, for any base and width of the length prefix, any payloads, chunks
and threshold, and any ill-formed byte sequences: `FramesAreSent`
(`FramesAreThoseSent`), `NoFrameIsWithheld` (`NothingWithheld`), `BufferIsBounded`
(`BufferBounded`), `HardErrorsAreTerminal` (`HardErrorIsTerminal`) and `TypesAreRight`.
`Inv` adds to these properties the types of the bytes (`Types`) and that an error once
reported is what the unread bytes still say (`Reported`); no compaction changes either.
The proofs rest on the round trip of one frame: the prefix that `Encode` writes is read
as the length it stands for, and `FrameOf` cuts out what was put in, whatever follows.
`LengthAssumption` (the length of the largest frame fits the prefix: 16 MiB against 4
bytes) and `BadFramesAssumption` (an ill-formed sequence is one that `next` answers with
an error) are stated in the module and evaluated by the run.

`VideoPathProofs`, from `VideoAssumption`: `NothingIsBroken` (`NeverBroken`) and
`TypesAreRight`.  `Inv` says, besides the types, that unless a fault of this session took
a reference the path is `Sound`: the first packet that waits for the main actor can be
decoded (`FirstReady`), each that waits behind it is the next one
(`Consecutive`), what is on the wire goes on where the waiting ones end (`WireFollows`),
and no broken picture is on its way to the glass.  The types hold what the argument
needs of sizes: all packets of a session have the size the encoder took when it
began, whatever the display's mode did since.

`WorkerProofs`, from `SettingsAssumption`, `UsbmuxAssumption` and `WorkerAssumption` (a
mode's sides and a rate fit two bytes, a bitrate four, and the sampled messages are ones
that their senders can build):

* `TunnelIsClean` (`CleanTunnel`).  While the client waits for a device the socket holds
  whole events, of which at most the first is partly read (`Listening`); while it
  connects there is nothing, or a refusal, or the acceptance and behind it the app's
  bytes from the first on (`Connecting`).  So what `RecvPacket` leaves behind the
  acceptance is the tunnel's, from its first byte.  The port survives being swapped by
  the client and again by the service (`SwapBytes`).
* `TypesAreRight`, of which `Sockets` is part: the socket is open exactly while the
  client uses one.
* `EndsUnderstand` (`Understood`).  Each codec reads back what it wrote, whatever
  follows it (`RoundTrip`); the two decide alike on every message, also one that is cut
  short (`DecodeAlike`); and what is on its way is what was meant (`Meaning`).  The iPad
  shows the numbers of the host's WELCOME (`Negotiated`), the encoder is set up with the
  rates of the same configuration, whatever size the first frame has (`Encoding`), and
  `ParseConfig` and `PlanRateControl` keep those within the width of their fields. Of
  the size it says nothing: `Worker_size.cfg` shows that the two differ.

The prover has no induction over data: the library's induction theorems take a predicate,
which the provers cannot instantiate.  `SequenceLemmas` does without: `SetInduction` speaks
of a set of numbers in place of a predicate and follows from `Least`, that a set of
numbers has a least element; that a function defined by recursion exists is
`RecursionExists`.  With these two, what the models' recursive functions compute is
proved for inputs of any length.  `Place`, what a digit counts for, is such a function, as
the provers know nothing of powers.

Only model-checked: liveness (`StopEndsRun`, `PeerGoneEndsRun`, `EveryFrameReturned`,
`StopOfPublishedReturns`, `UnplugFreesUI`, `HandshakeEnds`, `PairedReconnect`, `Reaches`,
`CatchesUp`), which rests on fairness and `ENABLED` and is outside what the prover does.

## Not modelled

* The choice of adapter and monitor for the capture, and the cross-adapter copy,
  which only a sandbox uses.
* The AEAD records after the handshake and the cryptography: taken as given.
* `BitrateController`, `SerializeConfig` and `SaveConfig`, which the product
  does not call; `FileIdentityStore`, which is for development; the encoder's
  `Flush`, which only a sandbox calls.
* On the iPad: the splitting of a picture into NAL units, the H.264 path, the
  drawing itself.
* Console tools and bring-up gates.

No run says anything of: the priority of control over video that
`docs/PROTOCOL.md` asks for (a `std::mutex` keeps no order); how long anything
takes, except the keep-alive.

Some claims are conditional, and a configuration shows what happens without the
condition: `NoLostKeyframe` assumes that no encode fails (else
`VideoPath_keyframe.cfg`); `NeverBroken` and `CatchesUp` that no fault has taken a
picture others refer to (else `VideoPath_loss.cfg`), and `CatchesUp` that the display
has come back to the mode its session began with and that a texture could be made for it
(else `VideoPath_mode.cfg` and `VideoPath_pool.cfg`).

## What is left

1. The two threads of a tunnel in one model with the records of the AEAD
   channel, for what a partial write leaves behind.
2. The hazards of `PROJECT.json` that no property of a run covers: a callback blocked in
   `SendAll` when DISCONNECT ends the capture, what one connection leaves in the
   iPad's parser for the next, and those for which the code keeps no promise, whose
   configurations are listed above.
3. `HandleIsOpen` and `PickIsBest` say more than any run checks; the other way round, what
   `TrayApp` takes from a session, that its `Run` returns once the channel has ended,
   is liveness and so checked (`session_liveness`) but not proved.
