# A verification of the HarmonyOS sub-screen

The program turns a HarmonyOS tablet into a second screen of a Windows
computer.  The Windows sender (`src/pc/subscreen_sender.cpp`) captures a screen,
encodes it as H.264 and sends it through a TCP port that `hdc fport` forwards
over USB.  The tablet's application (`src/harmony/entry/src/main/cpp/`) listens,
takes the stream apart into access units, decodes and shows them.

This directory holds TLA+ modules translated from that code, the TLC
configurations that check them, and the proofs that TLAPS checks.

## 1. Inventory

### The parts

| part | state it keeps | operations | who calls it |
|---|---|---|---|
| `NetServer` (tablet) | sockets, `buf_`/`pos_`, the stop pipe, `running_` | `Start`, `Stop`, `Run`, `ClientLoop` | JS thread; its own thread calls `OnPacket`, `OnClientState` |
| `TcpClient` and framing (sender) | a socket | `Connect`, `SendAll`, `Close` | main thread and encoder thread of a session |
| `VideoDecoder` (tablet) | codec, `frames_`, `inIndex_`, `inBuffer_`, `running_`, the pump thread | `Start`, `Feed`, `Stop`, codec callbacks | server thread and JS thread under the pipeline's mutex; codec threads |
| pipeline (`subscreen_napi`) | window, decoder, hello, connection, counters | `OnPacket`, `OnClientState`, surface callbacks, `Start`, `Stop`, `StatsLoop` | server thread, JS thread, statistics thread |
| status and page (`StatsLoop`, `PushStatus`, `Index.ets`) | `lastOut`, a queue of two, the dot, the grace timer, the card | a round each second, the status callback, `aboutToAppear`, `aboutToDisappear` | statistics thread, ArkTS |
| `FrameQueue`, `H264Encoder` (sender) | queue of one, MFT, texture pool, `fed_`, `encoded_`, `running_`, `streamDead_` | `Push`, `Pop`, `EventLoop`, `FeedOne`, `PumpOutput`, `Destroy` | capture thread, encoder thread, session |
| `DupCapture` (sender) | duplication channel, base picture, NV12 picture, pointer, marks | `Init`, `Tick`, `RecreateDup`, `Shutdown` | capture thread |
| stream set-up (`DupCapture::Init`, `H264Encoder::Create`, `TrySetup`, `AuFixer`) | the output and its size, the MFT with its media types, the last SPS and PPS | choosing an output, choosing an encoder, completing a key frame | session |
| session (`StreamUntil`) | socket, encoder, feed target, stop flags | the two nested loops, the capture thread, `onAu` | the modes below |
| console (`GuiWorker`, `GuiRuntime`) | worker, `busy`, `running`, `stop`, `didExtend`; the panel of the notebook | `GuiStart`, `GuiStopAndRestore`, `GuiQuit`, the worker's steps, `RestartProcess` | user, window thread |
| hdc (`RunCapture`, `EnsureFport`, `HdcAppRunning`) | a process and a pipe | one call with a time limit | the worker, the monitor |
| virtual display (`VddDisplay`) | driver handle, `added_`, ping thread, `io_` | `Create`, `Cleanup` | `WatchSession` and `main` |
| plug-and-play (`WatchLoop`, `WatchSession`) | monitor thread, `deviceGone`, forwarding | the loop | `main` |
| display topology (`Ccd*`, `TopologyCommand`) | none of its own: Windows' paths | put a display on the desktop or off it, extend, turn | the user, the worker, `Create` |
| presets, saved size, `ApplyDisplay` | slots of the registry, a file | `list`, `add`, `set`, `del`, `clear`; choose a mode and a place; keep the size | the user, `Create`, `Cleanup` |
| pixels, logging, arguments, tools | see section 7 | | |

They interact by calls and callbacks within a process (server thread →
`OnPacket` → decoder; capture thread → global feed target → encoder queue →
`onAu` → socket), by shared atomics and mutexes, and across the cable by a byte
stream: a hello and then access units, each behind a length of four bytes.

### What is hard

* Ten threads in two processes.  Every stop joins a thread that may be inside a
  wait, a callback, a blocked send or a window call.
* The tablet may vanish, freeze or come back at any byte; the sender connects
  again with a new encoder, and the capture thread goes on meanwhile.
* The MFT answers asynchronously and may fail at any call; its inputs refer to
  textures that are reused by counting.
* The desktop duplication may be lost, its size may change, the pointer moves
  between two paths that make the picture.
* The virtual display lives as long as the driver is pinged, hdc fails now and
  then, and screens of other programs come and go.
* A display is reached over several paths, of different graphics cards or left
  over, which Windows lists in no fixed order; sizes go through the registry, the
  driver's list, Windows' memory and a file of the program.
* hdc writes into a pipe that is read only when it has ended, and leaves
  processes behind that hold the pipe.
* Counters start again with a new decoder while the statistics thread and the
  page, which is told through a queue that drops, go on.
* What the program has switched on (the panel, the display, the forwarding)
  must be switched off again, also after a restart, an exception or a crash.

### What makes each part correct

* Server: packets come out whole, once, in order; the buffer is bounded; it
  listens again after any end of a connection; stop returns and silences it.
* Decoder: only the newest unit waits, units keep their order, every input
  buffer is in one place, the codec outlives the pump, stop returns.
* Pipeline: the decoder runs on a surface that is alive and for the connection
  that is there; no call hangs.
* Encoder: one input per request, one output per announcement; no texture in use
  is written; a frame that waits is encoded or the stream is seen to be dead.
* Status: green means that frames were shown, silence comes to be seen.
* Set-up: the tablet is shown the screen made for it, an encoder is found if one
  can be, every key frame can be decoded.
* Session: the feed target is alive; every connection carries the hello and one
  encoder's units from the first on; every reason to end ends what it should.
* Capture: what is pushed shows the desktop and the pointer as they are, never
  an older picture; a stop ends it.
* Console: the panel is off after quitting, the icon tells the truth, quit ends.
* Virtual display and plug-and-play: one display at most, never an orphan,
  kept alive while used, gone when the tablet or the process is gone.
* Topology: a command changes the display it names, on all its paths, and no other.
* Sizes: what the user has chosen comes back, next to the other screens.

## 2. Plan

The order is that of the stream's way, the most intricate threads first.

1. *(done)* `NetServer` with `PacketChannel`; `VideoDecoder`; `TabletReceiver`.
2. *(done)* `H264Encoder`; `StreamSession`; `DupCapture`.
3. *(done)* `GuiControl`; `VddDisplay`; `WatchMode`.
4. *(done)* proofs: types of encoder, decoder and server, the pool, the framing,
   the decoder's queue, the quiet after a stop.
5. *(done)* `HdcCalls` (with `GuiControl`), `DisplayTopology` and `VirtualScreen`
   (composed in `DisplayConfig`), `AuFixer` (with `StreamSetup`), `ReceiverStatus`.
6. *(done)* proofs: `NetServer` implements `PacketChannel`, and `TabletReceiver` the
   decoder under any client; the order of the encoder's units, the decoder's
   buffers, surface and connection; the safety of `StreamSession`, `GuiControl`,
   `DupCapture` and `WatchMode`; the truth of the tablet's green dot.
7. Next compositions: `StreamSession`'s encoder and capture thread refined by
   `H264Encoder` and `DupCapture`; `TabletReceiver`'s server thread by
   `NetServer`; one abstract specification of the way from the desktop to the
   decoder.
8. *(done)* proofs: all safety properties of `DisplayConfig` and `StreamSetup`, and the
   types of every component.
9. Next proofs: those compositions, each step of the detailed module a step of the
   one it refines or a stutter.
10. Next hazards: the hand-over of the single-instance mutex to a restarted
   process (line 5334 of the sender), the decoder that fails to start and is tried
   again only with the next hello or surface (`subscreen_napi.cpp`, line 125).

No module uses RECURSIVE operators, so that each can be proved about; the one
recursion, the bytes of an access unit, is a recursive function.

## 3. Modules

Definitions keep the names of the code where there is one.  `PROJECT.json` maps
each definition to its lines.  A definition whose comment begins with *Slip* is
not part of a specification: it is the definition after it, or before it, with
a mistake a programmer could make, and shows that the property named with it in
`PROJECT.json` notices the mistake.

**`PacketChannel`** is the promise of a connection: what is delivered is a prefix
of what was sent.

**`NetServer`** is the server thread, `Stop` in its four steps, and the sender's
socket.  A connection is a sequence of bytes; each `recv` takes any piece up to
`Chunk`.  `ClientLoop`'s parse loop is `DeliverPacket`, `ProtocolError`,
`Incomplete` and `Trim`, over the same `buf` and `pos`.  The four bytes of the
length are real bytes.  `Channel == INSTANCE PacketChannel` maps one connection.

**`VideoDecoder`** has the client's calls, the codec's request for input and the
pump.  The pump's wait is modelled at the grain of the mutex: it evaluates the
predicate, then blocks and releases the mutex at once; a notification reaches
it only when it is blocked.  `Stop` clears `running_` without the mutex, as the
code does.  It has no run of its own: TabletReceiver's run checks its properties
with the callers the code has.  A codec that refuses a filled buffer
(`PushInputBuffer`'s result is ignored, line 175) is left out.

**`TabletReceiver`** EXTENDS `VideoDecoder` and adds the pipeline: the server
thread's callbacks, the surface callbacks, `Start`, `Stop` and the statistics
thread, each taking `mtx` where the code does.  The decoder's calls are those of
`VideoDecoder`, made while `mtx` is held.

**`ReceiverStatus`** is the statistics thread's round, the bounded queue of calls
to JavaScript and the page with its dot, timer and card.  Of the pipeline it keeps
what the thread reads, the decoder's counter.  `counted` and `swapped` are history:
the frames really shown since the last round, and whether a decoder was started
in it; a status carries both to the page, so that a property can compare the
dot with the truth.

**`H264Encoder`** has the queue, the encoder thread and the MFT.  `owed` and
`announced` count the requests and announcements taken and not answered yet;
`held` is what the MFT has, with its texture.  What `Create` has found is chosen
in `Init`: `async`, and `d3d` for texture input; all three kinds are one
specification.  `fails` counts the calls that have failed, `MaxFails` bounds them.
`g_exit` (`ExitRequest`) lets `Pop` return although the queue is open.

**`AuFixer`** has the scan for NAL units and `Process` as operators over bytes:
start codes of three and four bytes, the short one inside the long one.

**`StreamSetup`** EXTENDS `AuFixer`: how a session comes to a stream.  An output is
taken by the index `WatchSession` looked up, by name or as the primary one, and
its size decided (`CaptureInit`); the encoders of the system are listed and tried in
their order, each with a texture pool or through memory (`CreateEncoder`, `Try`); then
its units are completed (`Process`).  An encoder is a record of what its set-up
calls answer; the outputs may change between look-up and use (`Rearrange`).

**`StreamSession`** is one call of `StreamUntil`: main thread, capture thread and
encoder thread, the feed target with the pointer already read, the peer that
reads, is frozen or is gone.  A unit is its number since its encoder was
created, the hello is 0.  The capture thread tests for a stop, ticks, and with a
frame at hand takes `g_feedMtx`, in steps of their own.

**`DupCapture`** is the capture thread with `Tick` and `RecreateDup`.  A picture
is the number of the desktop's state and the place of the pointer in it;
`baseValid` and `gpuThisFrame` tell the two paths apart as in the code.  DXGI gives
the place of the pointer with a frame that carries a pointer update; `UpdateCursor`
copies the field of every frame (1519-1520), so that without an update (`moved` is
FALSE) the pointer kept may be any.  `told` remembers which it was.

**`HdcCalls`** is `RunCapture`: the process is waited for, with a time limit, and its
pipe read afterwards.  A child that writes more than the pipe holds is stuck; a
process that hdc leaves behind may hold the pipe.

**`GuiControl`** is the window thread and the worker.  `panel` is the notebook's
panel on the desktop; it outlives the process, as the topology does.  A window
call of the worker is answered only by a window thread that is not in a join.
Each of its calls of hdc is one of `HdcCalls`, step by step: those of the checks
and those `RunMirrorSession` makes to forward the port for each session.  `thrown`, `restarted`,
`missed` and `refused` remember that an exception, a restart, a panel that came
too late or a refusal of Windows has happened, so that the properties can say
what holds in spite of them and what does not.

**`VddDisplay`** is `Create` with its attempts, `Cleanup`, and the ping thread that
sleeps with `io_` in hand.  `displays` and `desktop` belong to the driver and to
Windows.

**`WatchMode`** EXTENDS `VddDisplay` with `WatchLoop`, `WatchSession` and its
monitor.  The streaming is one place; `StreamSession` is its inside.

**`DisplayTopology`** has the paths of Windows and the commands that submit a set
of them: `CcdSetTargetActive`, `CcdActivateParsecTarget`, the extension of the
desktop, `SetPanelOrientation`.  A key is the set of displays it matches; the order
of the list is a choice.  Windows accepts a submission or not, and refuses one
with two paths to a display.

**`VirtualScreen`** has the presets in their slots, the saved size, the driver's
list of modes, and `ApplyDisplay`'s choice of a mode and a place.

**`DisplayConfig`** EXTENDS both: `Create` and `Cleanup` as they meet topology and
sizes, with the user, Windows and other runs of the program changing both in
between.  `VddDisplay` has the threads of the same `Create`.  The code tells
outputs apart by their device names, `\\.\DISPLAYn`, which belong to the sources
of a graphics card: `before`, `taken` and the size `Cleanup` reads go by `name`, the name
each lit display has at the moment.  `Renumber`, which is Windows, may name a
display anew whenever displays come, go or change their card.  So Create may
miss its display, take another, or find that the name it took is another's by now.

The modules `MCNetServer`, `MCTabletReceiver`, `MCStreamSetup` and
`MCDisplayConfig` give the constants that are sets of sequences, records or model
values; the other modules take their numbers from the cfg.  **`MCStream`** puts
`StreamSetup` and `StreamSession` into one instance, as they are two parts of one
stream and have no variable in common: a behaviour is one of the set-up, with the
session over, or one of a session, with the set-up done.

## 4. Runs

Passing runs.  The type invariants the modules state are proved (section 6), so no
run checks them again.

| run | properties | what they say |
|---|---|---|
| NetServer | `ChannelPromise`, `PacketArrives`, `NoRunaway`, `NoCallbackAfterStop`, `BackToListening` | wherever TCP cuts the stream and wherever a connection or the server ends: what is delivered is what was framed, nothing complete is left waiting, the buffer stays small, the server listens again, and is silent once stopped |
| TabletReceiver | `BuffersInOnePlace`, `PushedInOrder`, `QueuedUnitIsTaken`, `CodecOutlivesPump`, `DecoderOnLiveSurface`, `DecoderOfThisConnection`, `CallsReturnUnlessHung` | no buffer or unit is lost or doubled between the three threads, the codec is not touched once destroyed, a decoder never outlives its surface or its connection, and no call hangs except as TabletReceiverListen shows |
| ReceiverStatus | `GreenMeansFrames`, `SilenceIsShown` | over disconnections, new decoders, dropped calls and pages that come and go: green tells of frames that were shown, and a sender that falls silent comes to be seen |
| Encoder | `UnitsInOrder`, `TextureNotInUse`, `NoSilentStallUnlessFailed`, `DestroyReturns` | until a call fails, no texture in use is written and no frame waits for ever; units keep their order and `Destroy` returns in any case |
| Stream | `FeedTargetAlive`, `StreamsStartFresh`, `StopReturnsUnlessBlocked`, `EndsAsItShould`; `ShowsVirtual`, `NoEncoderLeftOut`, `KeyFramesComplete` | connections one after another and what ends them (for a changed mode see StreamMode); the output streamed is the one made for the tablet, the fall-backs of the encoder leave none out, and a key frame has the parameter sets of its encoder before it |
| Capture | `PushedIsCurrent`, `NeverFlashesBack`, `StopEndsCapture` | the picture pushed is the desktop's, with the pointer, whichever path made it; a failed call may delay it but never brings an older one back |
| GuiControl | `GreenMeansStreaming`, `QuitLeavesPanelOff`, `JoinsReturnUnlessWindowCall` | what holds of the lamp, the panel and the joins in spite of exceptions and restarts |
| WatchMode | `NoOrphan`, `CaptureBeforeDisplay`, `GoneMeansUnplugged`, `DisplayGoes` | from plug to unplug, with failing creation, failing probes, other screens, Ctrl+C and a crash anywhere |
| DisplayConfig | `OthersUntouched`, `OffMeansDark`, `TakenIsOurs`, `SizeSurvives`, `PlacedApart` | over insertions, commands, presets and changes by Windows: only the display named changes, off is dark, the size chosen comes back, and the place is free |

Runs that are violated, each by what the code does against what a comment says
(quoted in `PROJECT.json` under `findings`):

| run | what happens |
|---|---|
| TabletReceiverListen | `Stop`'s only notification falls between the pump's test and its wait; the server thread joins for ever |
| CaptureChannel | after `RecreateDup` gave up the next tick uses a null channel |
| StreamMode | the resolution is changed; the inner loop ends, the outer one connects again with the old size, the flag is still set, and so on for ever: `ModeChangeEndsSession` says that the session ends, as the log line at 4519 does |

`CallsReturnUnlessHung` is the counterpart of the first: it says that the situation
found is the only one in which a call does not return.

### Bounds

* NetServer: 2 connections, 2 packets in all, reads of up to 5 bytes, a limit of
  2 bytes, payloads of 0, 2 and 3 bytes, that look like headers and one of them
  too long.  Header and payload are cut at every place, two packets share a read,
  a packet needs three reads, and the second connection meets what the first left.
* TabletReceiver: 2 input buffers and 3 units (one in the pump's hands, one
  waiting, one that replaces it), 2 connections, 2 surfaces.
* ReceiverStatus: the queue of the code (2), 4 frames over any number of
  decoders and rounds.  The grace timer may fire whenever it is set.
* Encoder: a pool of 3 textures (the least for which the guard works, see the
  assumption), an MFT that takes 4 inputs (more than the pool has, so that only
  the guard protects it), 5 frames (the ring wraps), 1 failed call.
* Stream, the session: any number of connections; 3 units on one.
* Capture: 2 states of the desktop, 1 failed call, 1 loss of the channel, 2
  attempts to get it back: enough for a frame made on the GPU between two frames
  read back, in all orders of the pointer, which moves without bound.
* Stream, the set-up: 5 desks of two to four outputs in several orders, with a turned, an odd
  and an unattached one; 1 or 2 encoders of every kind; units of up to 3 NAL
  units with both start codes, some with zeros inside, and two encoders' worth
  of parameter sets.  Units
  are followed for one size only, as nothing of them depends on it.
* GuiControl: 3 rounds of the healing loop; starts, stops and restarts without
  bound.
* WatchMode: 2 attempts of `Create`, 1 more plug-in, 2 failing probes (3 are what
  ends a session by design); sessions and other screens without bound.
* DisplayConfig: three displays, one of them with a stale path and one reachable
  from two graphics cards, two device names for each card (so that a name may go
  from one display to another), one renumbering of displays while the virtual one
  is there (`MaxRenumber`), 2 slots for presets, 1 preset command, insertions and
  commands without bound.  The names of a card are interchangeable and
  declared symmetric.  A behaviour exercises either the topology, with one
  size, or the sizes, with the paths in use (`focus`): the two meet in
  `ApplyDisplay`'s place alone, which is followed in both.  Sizes are small numbers in the
  proportions of real ones.

`CHECK_DEADLOCK FALSE` stands where the program ends (the console quits, the
capture thread returns, the encoder is destroyed, the plug-and-play loop is
done) or where the decoder's hang is real.  The largest runs, DisplayConfig, Encoder
and Capture, have more than half a million states; none takes more than three minutes
with two workers.

### What the conditions of properties leave out

Some properties hold only under a condition, and what they leave out is what the
code really does: TLC finds a violation as soon as the condition is dropped (for the
first one with `MaxFails = 2`).

* `TextureNotInUse`, `fails = 0`: a failed input uses a texture up without being
  counted in `fed_`, so after two of them in a pool of 3 the next texture is one
  that the MFT holds.  (An unusable output, which is never counted in `encoded_`,
  makes the guard stricter for good.)
* `NoSilentStallUnlessFailed`, `fails = 0`: a request answered without an input is
  lost, the MFT does not ask again, and nobody notices.
* `GreenMeansFrames`, `swapped`: the frame rate is an unsigned difference of
  counters.  A decoder started since the last round counts from zero; the
  difference wraps, its conversion to a double and then to an int is undefined,
  and the dot may take any colour until the next round.
* `GreenMeansStreaming`, `~thrown`: the trampoline's catch clause leaves
  `running` set, and the lamp green.
* `QuitLeavesPanelOff`: the process that replaces the old one has forgotten
  `didExtend`, and if its first checks fail, nothing detaches the panel again
  (`restarted`).  A stop that comes while the panel is being attached takes the early
  return (line 5011) before `didExtend` is set (`missed`).  Windows may refuse to take
  it off, and `didExtend` is cleared all the same (`refused`).
* `JoinsReturnUnlessWindowCall`: the worker shows and hides a window of the thread
  that joins it, and `ReadFile` goes on as long as a process hdc has started holds
  the pipe.
* `PushedIsCurrent`, `fails = 0`: after a failed read-back the marks are cleared
  all the same, and the picture stays behind until desktop or pointer change.
  `told`: the pointer is in the picture where the last frame said it is; that this is
  where it really is needs a frame with a pointer update, and after one without
  the code may draw it anywhere or not at all.
* `StopReturnsUnlessBlocked`, `Blocked`: the encoder thread is joined before the
  connection it may be blocked in is closed.
* `EndsAsItShould` is about a dead capture thread, a broken stream and a dead
  encoder.  A changed mode is the question of StreamMode.
* `ShowsVirtual`: the index of the output counts outputs that may have come and gone
  since (`moved`), and in plug-and-play mode `--source` is passed on and wins.
* `NoEncoderLeftOut`: a desktop of an odd size that is streamed as it is fits no encoder.
* `KeyFramesComplete`: a unit with an SPS counts as complete, also without a PPS.
* `GoneMeansUnplugged`: three failing probes do end a session.
* `TakenIsOurs`, `~disturbed`: `before` is noted before the first attempt only, and it
  holds device names.  Another screen that comes while `Create` waits, that the
  extension of the whole desktop lights, or that is moved to another card and so
  gets another name, is taken for the virtual display; and one that is renumbered
  later may get the very name that was taken.
* `SizeSurvives`, `~spoiled`: the size is lost after a crash (only `Cleanup` saves it),
  when the driver no longer has the mode, when Windows refuses the change, with
  `--vdd-fixed`, and when another screen had the display's device name as it was
  applied or saved.
* `PlacedApart`: the place is computed with the wanted width before the mode is
  picked; a wider fall-back mode may overlap.

More differences between what the code does and what its texts say, met while
modelling.  `set` and `clear` of the presets report failure when the registry
key does not exist (about line 2761), and `add` stores a size again that is there
already.  The comment at 3701-3703 says that the display is moved only when it
overlaps; it is moved whenever a size is applied.  `HdcAppRunning` asks for more output than a pipe
holds, so that on a tablet with many processes it always runs into its time
limit.  A status that arrives after `aboutToDisappear` may set the grace timer
of a page that is gone.

## 5. Fairness

A thread that can step steps (weak fairness): the operating system schedules
it.  Strong fairness stands in three places.  A thread that takes a mutex other
threads hold for a moment, or that polls a peer that comes and goes, gets its
turn in the end (`ServerThread`, `JsThread`, `StatsEnd`, `MainThread`, `EncSend`);
an MFT whose output is asked for again and again gives it at last
(`OutputTaken`); the owner of the virtual display gets `io_` (`WatchMode`).  The
last one is an assumption about scheduling that the code does not support, since
the ping thread sleeps with the mutex in hand and asks for it again at once:
without it `DisplayGoes` fails.

Nothing is assumed of the peer, the user, the desktop, the cable or Windows.
The MFT is assumed to ask for input and to announce outputs while it has room
and frames.  A session in `GuiControl` and `WatchMode` is assumed to answer a stop:
that is what `StreamSession` shows with its exception, and the two modules are
about what else may go wrong.  In `ReceiverStatus` the statistics thread, JavaScript
and the timer go on.  `StreamSetup` and `DisplayConfig` assume no fairness: their
properties are about safety.

## 6. Proofs

TLAPS checks every theorem below for all values of the constants that satisfy
the named assumptions (`NetAssumption`, `DecoderAssumption`, `ReceiverAssumption`, `EncoderAssumption`,
`CaptureAssumption`, `GuiAssumption`, `StatusAssumption`, `DisplayAssumption`,
`WatchAssumption`, `SetupAssumption`, `UnitAssumption`, `TopologyAssumption`, `ScreenAssumption`,
`ConfigAssumption`).  Every invariant the runs check is among them, and every
action property.  There are eight modules of proofs; two of them hold those of
two components: `TabletReceiverProofs` also has `ReceiverStatus`, which looks at the
same pipeline, and `StreamSessionProofs` also has `StreamSetup`, which says how a
session begins.

**`H264EncoderProofs`**: `TypeCorrect`; `PoolIsSafe`: until a call fails, no texture
in use is written, for every pool of at least 3 textures and every MFT.  The
invariant `TextureNotInUse` speaks of one place of the thread only.  The
inductive one is `fails = 0 => Ring`: the frames held by the MFT and the one in
hand lie in the textures just before `upNext`, one after the other, and
`fed - encoded` is the number of frames held and being sent.  The guard keeps
that number at half of the pool at most, so the next texture is none of theirs.
`UnitsNeverShuffle`, by `Order`: what was sent, what the MFT holds, what is in hand and
what waits are newer one than the other, whatever is replaced or lost.

**`TabletReceiverProofs`**, in three parts.  About `DSpec`, the decoder under any client:
`DTypeCorrect`, `CodecOutlives`, `NewestOnly` (the queue never holds anything but the
unit fed last), `UnitsPushedInOrder` and `BuffersAccounted`.  The order needs `Line`: what
was pushed, what the pump has in hand and what waits are one increasing sequence
below `fed`.  The buffers need `Placed`: those queued are different, none is in two
places and none is missing, said without counting.  About the receiver:
`ServesDecoder`, `Spec => DSpec`: every call the pipeline makes is a call of the
decoder, so that its theorems hold in the receiver (`DecoderInReceiver`);
`TypeCorrect`; `LiveSurface` and `ThisConnection`, by `Stages` (which thread is in which
step, with `mtx` in hand) and `Used` (a decoder that runs was started on the
surface and for the connection that are there).  About `StatusSpec`, what the page is told:
`StatusTypeCorrect`, and `GreenIsTrue`, by `CountedThisRound` (unless a decoder was
started in this round, its counter is `lastOut` and the frames shown since) and
`AllHonest` (every status on its way tells the truth).

**`NetServerProofs`**: `LengthRoundTrip` (the four bytes the sender writes are read
back as the number they were, for every length below 2^32), `QuietAfterStop`,
`TypeCorrect`, `BufferStaysSmall`, and `ImplementsChannel`: `Spec => ChannelPromise`, the
refinement of `PacketChannel` on every connection, for every set of payloads
below 4 GB, every limit and every way TCP cuts and loses bytes.  The invariant
behind it is `Framed`: the bytes under way on a connection (in the buffer of the
server, on the wire, in the sender's running `SendAll`) continue the framed
packets behind those handed on, and reach to the end of the last one as long as
the connection is open.  Where the frames end is a function that exists, not a
sum, so that no induction is needed.  `Shape` says which places of the server
thread go with which connection.  There is one lemma for every action that moves
bytes; the step that hands a packet on (`NextPacket`) shows that the length read
from the buffer is that of the next packet.

**`StreamSessionProofs`**: `TypeCorrect`; `FeedTargetAliveAlways`, by `Lifetime`: the
encoder exists just between `Create` and `DestroyEnd`, the target is set within, and
what the capture thread has read under `g_feedMtx` is still the target;
`FreshAlways`, by `Position`: on an open connection what was sent and the encoder's
last unit differ by the one in hand.

**`DupCaptureProofs`**: `TypeCorrect`; `NeverBackInTime`, by `Ages`: what is pushed is
no newer than the picture kept, the picture no newer than the desktop, and a base
that counts as valid no older than the picture; `PushedIsUpToDate`, by `Acquired`: what
was acquired is in the picture, or in the base with a redrawing due, and the pointer
kept is the true one if the frame acquired last carried a pointer update.

**`GuiControlProofs`**: `TypeCorrect`; `LampIsTrue`, by `Lamp`: `running` belongs to a
worker between its start and its end; `QuitIsClean`, by `Owed`: a panel the
program has put on is off again, or `didExtend` says that it must be taken off, or
the worker is between the two.

**`WatchModeProofs`**: about `VSpec`, the display under any owner (also `main` with `--vdd`),
`NoOrphanOfAnyOwner`, by `Kept`: between adding and removing there is one display, the
driver's handle is open and the ping thread runs.  About the mode: `ServesDisplay`, every step
is one of the display's, leaves it alone, or ends the process; `TypeCorrect`;
`NoOrphanEver`, from `Kept`, and `CaptureIsFirst`, from `Held` besides (the output is
captured within the streaming part of a session only); `GoneIsTrue`, by `Probes`: a
tablet that has not been unplugged is missed only by probes that fail, and with at
most two of them (`MaxGlitches =< 2`) it is not held to be gone.

**`DisplayConfigProofs`**: six theorems over any displays, paths, graphics cards, keys and
sizes.  `OnlyTheNamed` and `OffIsDark` follow from one fact about every step,
`Lawful`: a command that reports success has changed displays its key
matches only, and one that reports `off` leaves them dark.  There is a lemma
`...IsLawful` for each of the commands; the hard one is `SetTargetActive`, where a stale
path to the same display must not be submitted twice.  `TakesItsOwn`, by
`OnlyOursNew`: between `Insert` and the end of the wait, every other display that is lit
has a device name of before, unless one of them has come or got another name; two
lit displays never have the same.  `SizeComesBack`, by
`Remembered`: the size the user chose is the one in use or the one saved.
`PlaceComputedIsFree`: the place lies left or right of all screens that are lit,
whose outermost edges exist because there are finitely many.  `TypeCorrect`
rests on `TopologyOK` (a display is lit over a path that leads to it) and
`ScreenOK`.

**`StreamSessionProofs`**, second part, about `SetupSpec`: `SetupTypeCorrect`; `TabletIsShown`, by `Looked` (as long as
nothing has moved, the index is that of the display made, among the outputs the
program counts); `EveryEncoderTried`, by `SizeFits` (the size is even unless the
desktop itself is odd and streamed as it is) and `Tried` (every encoder listed is
among the tries, and no candidate before the one tried now takes frames from memory).  `KeyFramesAreComplete` is about bytes.  An access unit is any sequence of NAL
units of any length, with either start code.  `LaidOut` says where each of them
begins and ends in the bytes; `CodesAre`, that the start codes the scan finds are
those (a long one is found twice, as it holds a short one), which needs that none
lies inside a unit or across its end (`UnitAssumption`: H.264 breaks 00 00 00 and
00 00 01 within a unit by an extra byte, and a unit does not end with 0);
`NalEndAt`, that a unit ends where the next start code begins, be it long or
short; `NalsAre` puts them together.
`FixerHolds` is then the invariant: `sps_` and `pps_` are the bytes of what this encoder
made last, behind a start code of three bytes.

The bytes of a unit are a recursive function over its NAL units.  The library's
induction theorems take an operator and cannot be used here, but what they rest
on can: the order of the naturals is well-founded, so a set of naturals has a
least element (`LeastNat`), and a set that holds 0 and with each number the next is
`Nat` (`AllNat`).  `UpToExists` shows with it that the recursive function obeys its
equation.

Only model-checked: everything about liveness (`PacketArrives`, `BackToListening`,
`QueuedUnitIsTaken`, `CallsReturnUnlessHung`, `SilenceIsShown`, `NoSilentStallUnlessFailed`,
`DestroyReturns`, `StopReturnsUnlessBlocked`, `EndsAsItShould`, `StopEndsCapture`,
`JoinsReturnUnlessWindowCall`, `DisplayGoes`), which under fairness is beyond the prover used
here, and what the three runs that are violated show.

## 7. Not modelled

* Pixels: colour conversion, rotation, scaling, the shader, the drawing of the
  pointer.  A picture is a number.
* Time.  A timeout may happen at any moment at which its condition is pending.
* Memory: an allocation fails only where `GuiControl` and `StreamSession` say so.
* `--noNet` and `--noEncode`, the self-test modes of `StreamUntil`.
* Failures of the calls that put the panel on and off the desktop beyond those
  `GuiControl` and `DisplayTopology` name.
* The hand-over of the single-instance mutex; a decoder that fails to start.
* What Windows makes of a topology it accepts, beyond the paths submitted and
  their turning: the places of the other screens are constants.  `SDC_ALLOW_CHANGES`
  lets it change a set it is given; `Supply` takes the set as it is, and
  `OthersUntouched` is about what the program asks for.
* What `ApplyDisplay` does to another screen that was taken for the virtual one (its
  size and place, line 3618).
* A codec that refuses an input buffer (`video_decoder.cpp`, line 175).
* The arguments, logging and probes, the abilities of the tablet's application.
* The vendored driver interface and the test tools.

Two comments in the source are stale without consequence for the models: line
4745 of the sender says that closing the window stops the stream (it hides the
window, 5304-5308), and line 2318 that `fed_` counts the frames given to the MFT (the
synchronous path does not count them).
