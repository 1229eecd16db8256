# Remote-Android in TLA+

Specifications of the protocols and the shared state of this repository: what
the browser pages, the servers and the devices behind them tell each other,
in which order, and what survives when one of them fails. Every definition is
translated from the source; `PROJECT.json` ("map") names the lines of each one.

## The system

The repository holds three programs that show an Android (or iOS) screen in a
browser and send input back.

**js-scrcpy** (TypeScript, a ws-scrcpy) is by far the largest. A page opens one
WebSocket to the Node server and multiplexes channels over it; on the server a
middleware ("Mw") serves each channel. Services (control centers, HTTP and
WebSocket servers) live as long as the process; they talk to adb, to scrcpy on
the device, to WebDriverAgent and to ws-qvh.

**castX** (Go) receives the connections a scrcpy server on the device opens
through `adb reverse` and forwards them to WebRTC peers; a WebSocket server
takes logins, offers and input.

**go-scrcpy** (Go, one file with its page) does the same for one device with less.

### Components, their state and what makes them correct

| component | state | operations | hard | correct when |
|---|---|---|---|---|
| Multiplexer, client connections | channels Map, readyState of each channel and of the root, storage arrays, emptyTimerScheduled, nextId | createChannel, send, close, open/message/close events of the socket, deferred open, empty check | microtasks between calls and events; both ends closing; two levels of storage; a socket cut at any moment | data in order and never ahead of its CreateChannel; each close reaches the other end; the socket is never closed under a channel |
| File push | client: responseWaiter, channels by id, pushFile's position; server: state, ReadStream, PushTransfer, static fileId | NEW, START, APPEND, FINISH and their responses; adb's read, end, error | async handler overlapping itself; one response code for three meanings; several files share a waiter key | "success!" only for a file adb has written whole; errors have a cause; every push ends |
| WebSocket proxies | remoteSocket, storage, released | init, message, close on both sides, errors | the client leaves while adb forwards or the remote connects | nothing lost or reordered but an empty text that had to wait, neither end survives the other |
| Device tracking | deviceMap, descriptors, initialized, tracker, restart timer; throttle of each Device; tables of the page | init, change sets, restart, list, update, reconnection | init overlapping itself, adb dying, list then single updates, throttled updates | no change lost, the page agrees with adb in the end |
| Android device, scrcpy server | descriptor, spawnServer, retry timer and count | setState, fetchDeviceInfo, startServer, killServer, waitForServerPid | overlapping starts and kills, retries after a disconnection | one server per device; a kill lasts; retries end |
| iOS runners | instances by udid, holders, release timers, started/starting | getInstance, lock, unlock, start, exit | a timer that fires during a start; start overlapping itself; release twice | a process runs while it is held and not much longer |
| iOS clients | queue of commands, promises, reconnect timer; runner and requests of the middleware | runWebDriverAgent, click, scroll, reconnection, answers | a connection that closes with requests on it; a new middleware without a runner | every request settles |
| Remote shell | pty, buffer, 5 ms timer | start, output, exit, release | the exit while output waits for the timer | all output shown, then the channel closed |
| File listing | requestedPath, requireClean, channels, table, rows of uploads | STAT, LIST, RECV, links, updates of uploads | several channels sharing the two fields; answers in any order; a request that is rejected; updates of an upload after the page has moved | one directory in the table; rows of uploads in theirs; links work again |
| Stream client | queue before the socket opens, settings, screenInfo, fitToScreen | infos, settings, stop | several pages of one display, each answering infos with settings | the negotiation ends, in settings every page can have |
| Players | state, queue and blocks of the source buffer | push frame, updateend, stop | a removal of the buffer among frames, stops in between | frames shown in order, the video goes on |
| Input | pointer ids, stored messages, positions | mouse, touch and second-pointer events | buttons released elsewhere, Ctrl let go in between | what the device holds down is what the user holds down |
| castX receiver and session | Counter, AdbConnect, connections by name, controlConn | accept, header, start and end of a session, broadcast | goroutines without a lock over the same fields; sessions overlapping | each connection handled as what it is; pages know whether a session runs |
| castX control | page: pointers, `isPointerDown`; server: a goroutine per page, one `controlConn` | press, move, release, buttons, power of the screen | pages share one pointer and one connection; a message written in pieces; pointers released elsewhere | what goes down comes up |
| castX media helpers | buffer of a stream, fragments of a unit | write, search and cut; depacketize; parse an SPS | data in pieces; packets lost; codes without a length | NAL units come out whole; the size is that of the video |
| go-scrcpy | page: `ws` and `pc`; server: a client per socket, controlConn | Connect, offer, answer, candidates, touch, keys | handlers that read globals another Connect has replaced; two writers of a socket | signals go to the peer they are meant for; what goes down comes up |
| Server start and stop, multiplexed middleware, iOS tracking, devtools, castX web server, page elements, pages | little or none of their own | see "Not modelled" | | |

Interaction: `ManagerClient` pools one `Multiplexer` per url and gives each
client a channel; `WebsocketMultiplexer` hands the channel to the middleware its
code names. What runs over a channel (`FilePush`, `WebsocketProxy`,
`DeviceTracking`, `RemoteShell`, `FileListing`, `WdaProxyClient`) takes for
granted what `Channel` states and `Multiplexer` is shown to implement. The
middleware of an iOS device holds a runner: `WdaProxyClient` knows of the runner
only its state, which `WdaRunner` models. In castX the receiver's Counter is
reset by the start of a session, which `CastXAdb` models with what pages see of it.

## Modules

| module | models | extends / uses |
|---|---|---|
| `Channel` | the promise of one channel to its two ends (abstract) | - |
| `Multiplexer` | `packages/multiplexer`, with the part of `ManagerClient` that closes an unused socket | instance of `Channel` per channel |
| `FilePush` | `FilePushHandler`, `AdbkitFilePushStream`, `FilePushReader`, `ReadStream` | - |
| `WebsocketProxy` | `WebsocketProxy`, `WebsocketProxyOverAdb` | - |
| `WdaProxyClient` | `WdaProxyClient` of a page and the middleware `WebDriverAgentProxy` | - |
| `RemoteShell` | the middleware `RemoteShell` and the start of `ShellClient` | - |
| `MsePlayer` | `MsePlayer` and the converter it feeds | - |
| `DeviceTracking` | Android `ControlCenter`, its `DeviceTracker` middleware, the throttle of `Device`, `BaseDeviceTracker` in the page | - |
| `DeviceServer` | `Device` (fetch, retries, start, kill), `ScrcpyServer`, `runCommand` of the control center | - |
| `QvhackRunner` | `QvhackRunner`, `ProcessRunner`, `QVHStreamProxy` | - |
| `WdaRunner` | `WDARunner` with its holders: the middleware and `MjpegProxyFactory` | - |
| `StreamClient` | `StreamClientScrcpy`, `StreamReceiver`, the states of a player | - |
| `InteractionHandler` | touch and mouse events made into messages | - |
| `FeaturedInteractionHandler` | the handler of Android pages, and the device that follows it | `InteractionHandler` |
| `SimpleInteractionHandler` | the handler of iOS pages and the gestures it performs | `InteractionHandler` |
| `FileListing` | `FileListingClient`, the middleware `FileListing` | - |
| `ScrcpyReceiver` | castX: accept loop, names, headers, the connections of a session | - |
| `CastXAdb` | castX: start and end of a session, `AdbConnect`, infos to pages | - |
| `CastXControl` | castX: input of several pages through one control connection | - |
| `MemoryWriter` | castX: NAL units cut from a stream | - |
| `H264Depacketizer` | castX: NAL units from RTP packets | - |
| `H264Sps` | castX: the size of the video, `ParseSPS` with its bit reader | - |
| `GoScrcpy` | go-scrcpy: page, server, control connection | - |
| `Multiplexer_proofs`, `FilePush_proofs`, `DeviceTracking_proofs`, `DeviceServer_proofs` | theorems | the module named, TLAPS |
| `Clients_proofs`, `Runners_proofs`, `Page_proofs`, `CastX_proofs` | theorems about several parts | `MCClients`, `MCRunners`, `MCPage`, `MCCastX`, TLAPS |
| `MCMultiplexer`, `MCFilePush` | values for TLC | `Multiplexer`, `FilePush` |
| `MCClients`, `MCRunners`, `MCPage`, `MCCastX` | several parts in one run | see below |

JavaScript runs to completion, so an action is what one task or microtask does;
a handler that awaits is split at each await. In the Go modules an action is
what a goroutine does between two points at which another may see it.
Definitions that carry the remark `mutant` are deliberately wrong variants;
replacing the real definition with one must make a run fail, which shows that
the property depends on it.

**Multiplexer.** Two peers, each with the root object (id 0) and one object per
channel. `microtasks` is the queue of `Util.setImmediate`: an id stands for that
channel's deferred 'open', 0 for the 'empty' check. `opening` are the listeners
of the socket's own 'open' event that are still to run. API calls (`createChannel`,
`send`, `close`) may come between microtasks, socket events only when none is
left. `wire` is the WebSocket: ordered, cut at any moment by `SocketClosed`.

**FilePush.** The client is a program counter per file (`pc` is the command whose
answer `pushFile` awaits) and the three maps of the handler; the server is one
reader per channel, with `creating` and `finishing` for the two awaits at which
`onMessage` overlaps itself. adb takes chunks, confirms, fails or refuses whenever it
likes.

**WebsocketProxy.** Whole: both ways to create one, storage, every code it
closes with. Messages are numbered, so that sequences say what got where; one of them
(`blank`) may be an empty text, which `flush` drops.

**WdaProxyClient.** `commands` is the queue before the channel is open, `wait`
the promises, `serving` what the middleware awaits, answered in any order. A
connection that closes takes `wda` and all that is under way with it; `lost` and
`ignored` remember what will therefore never be answered.

**RemoteShell.** The timer is "none", "set" or "cleared" but still in its field,
since `release` clears the timer and not the field. `crashed` is the server
ended by a timer that throws.

**MsePlayer.** `checkForIFrame` is an operator on the fields it changes, used by
a push and by the `updateend` that drains the queue; the converter appends one
frame after the other, so an `updateend` is due while `pending` or `removing`. It goes
on after a stop, when the drain finds no converter. A removal that throws
(`RemovalFails`) has cleared what waited for it; `late` are replaced buffers that still
call `cleanSourceBuffer`, `stale` the blocks of an earlier source.

**DeviceTracking.** `pc` holds the callers of `ControlCenter.init()` (start, the
restart, one per connection) and where each awaits; `lists` are adb's change
sets still to be handled by each tracker; a descriptor is the state of the
device and a counter of what else was found out about it.

**DeviceServer.** `calls` holds the async calls under way, each with what it
awaits; a call made by `fetchDeviceInfo` also holds whether it waits for the
properties and interfaces (`info`). `getServerPid` takes two steps or more: `Lists`
the processes, and `Finds` what their command lines said when it is used: a server
of the list that runs then was found, one that has ended in between may have been.
A refused `ps` or `pidof` counts as an empty
list, as in the code; other refusals throw. The device is external: its
processes, one port, the PID file and a server of an older version.
`DeviceTracking` leaves these out, and `DeviceServer` leaves out who is told.

**QvhackRunner, WdaRunner.** `instance` is the runner the static map holds;
`runners` has the fields of each, with its timers and, for `WdaRunner`, the
calls of `start()` under way and what each awaits. `holds` is the runner each
channel or MJPEG request has locked; in `QvhackRunner` a channel also counts
how often it released its runner.

**StreamClient.** Two pages of one display; `device` is the settings in use, which
everyone is told of. **Input.** A press of the mouse or a touch is an action that
sends what the handler sends, and `held` is what the device makes of it; `fingers`
and `buttons` are what the user does. **FileListing.** `request`, `server` and
`closing` per channel; the two fields all channels share as they are. `table` holds the
entries shown, whichever listing they came from, and `rows` the uploads that have a row
among them: `onFilePushUpdate` puts it into whatever table is shown. The tree of the device
is `Dir`, `File`, `Link` with `Child` and `Parent`, and a link is shown alone, then listed.

**ScrcpyReceiver, CastXAdb.** Connections are named by session and kind; the
accept loop is a program counter. `job` and `caller` are the two goroutines of a
session. **CastXControl.** `todo` is what the goroutine of a page has still to write of
one message, `using` the connection it found, `writing` the goroutines in the middle of
a message of several writes; `down` is what the phone makes of it. **GoScrcpy.** A socket, the peer connection made in its open event and the
client of the server have the same number; `ws` and `pc` are numbers.
**H264Sps.** `Encode` writes a set as H.264 asks, with twelve scaling lists in 4:4:4;
`ParseSPS` refuses what is short or begins with another byte (`Refused`), or reads the bits
with the code's reader. **MemoryWriter, H264Depacketizer.** A byte is 0, 1 or
another, and a stream comes in chunks of every size; a unit comes in parts, any
of which may be lost.

### Composition

The parts of a page, and those of castX, that share nothing are checked side by
side: `MCClients`, `MCRunners`, `MCPage` and `MCCastX` have a variable `part`,
chosen at first, and a behaviour runs that part while the others do nothing.
The states are the disjoint union of those of the parts, and the properties and
fairness of each part are unchanged: a part that does not run stays where
nothing is due. (For two parts of `MCClients` something would be due in the
first state, so these are pinned to a state after their end.) A part other than
the first is an instance (`Video`, `Qvh`, `Touch`, `Gesture`, `Nal`, `Rtp`, ...); the proofs extend
the composing module and speak of the part's own specification, such as
`Video!Spec => []FramesInOrder`, so that what is proved is the formula the run
checks. `Multiplexer`
contains an instance of `Channel` for every channel as its refinement.

## What is checked

All properties hold in the runs below unless the run is listed as a
disagreement. Deadlock is not checked: every one of these systems may come to
rest (all files pushed, both sockets closed, bounds used up). A property says
in its comment what the code does not promise, with history variables that
name the case; that these cases do happen is said under "Observed".

| run | instance | shows |
|---|---|---|
| `mux` | 2 channels; 2 messages of the client on the second, 1 of the server on the first | `EmptyOnlyWithoutChannels`, `CloseReachesPeer`, and `ChannelsKeepPromise`: every channel implements `Channel` under the mapping `Phase`, `sent`, `got`; `ChannelSettles`, `CloseIsSeen`, `UnusedSocketCloses`, `SentIsDelivered` |
| `clients` | proxy: 3 messages there, any of them an empty text, 2 back; WDA: 2 gestures, 2 cuts; shell: 3 chunks; player: 10 frames, 2 stops | `NothingLost`, `Prefixes`, `NeitherOutlives`; `RequestsSettle`; `ShellEnds`; `FramesInOrder`, `VideoGoesOn` |
| `push` | 2 files of up to 2 chunks, ids that wrap | `SuccessMeansWritten`, `ErrorHasCause`, `Settled` |
| `tracking` | 1 device, 2 changes, 1 failure, 2 connections | `NoUpdateLost`, `Converges` |
| `server` | 2 servers, 2 calls at a time, 2 changes of the connection, 1 command, 1 failure, 2 of these together, 1 retry | `ServerKept`, `ShownServerRuns`, `KillLasts`, `RetriesEnd` |
| `runners` | WDA: 2 channels, with 1 runner, 2 requests and 2 calls of `start()`, or with 2 runners, 1 request and 1 call; ws-qvh: 4 channels | `HeldIsKept`, `StreamIsKept`, `Recovery`, `IdleEnds` |
| `page` | 2 pages with windows neither of which fits into the other; 2 fingers and a mouse; 3 presses; a listing of a directory with a file and a link, 3 channels, 1 upload | `SettingsSettle`, `FingersFollow`, `GesturesAreOwn`, `ListingIsOne`, `RowsAreHome`, `LinksComeBack` |
| `castx` | 2 sessions; 9 bytes in chunks of 2; 3 units of 3 fragments; parameter sets with and without each part; 2 presses of Connect; 2 pages with 2 presses or keys, 2 control connections | `AloneIsSorted`, `PageFollows`, `NalsAreExact`, `CompleteUnitsAreExact`, `SizeIsRead`, `SignalsFit`, `AllLifted` |

Disagreements between the code and what it says of itself:

| run | property | what the run shows |
|---|---|---|
| `mux_reopen` | `NoSendAfterClose` | a channel closed before its deferred 'open' runs is set to OPEN again and takes data, which the other end drops; `_send` says a closed socket refuses |
| `mux_stale` | `NoChannelOnClosingSocket` | `close()` of the root leaves its own readyState at OPEN until the socket's close event, so `createChannel` does not refuse and the new channel is lost |
| `push_ids` | `NewIsAnswered` | ids count up to 2^32 - 1 but a response carries 16 signed bits: the push after number 32767 is never answered |
| `sps` | `SizeIsExact` | the parser of parameter sets says it is exact and its height is that of the video, but the cropping is not read: 1080 lines become 1088 |

A type invariant is stated only where a proof needs one, and is proved rather
than checked. `InOrder` and `CreatePrecedesUse` of earlier versions are
consequences of `ChannelsKeepPromise`.

### Bounds, and why they are enough

* Channels interact only through the Map being empty or not, the order on the
  wire and the order of microtasks: two channels give every relative order of
  create, open, close and empty. Two messages of one channel tell a lost one
  from a reordered one; they are sent before or after the socket opens, and the
  other channel carries data the other way.
* Pushes meet only in the shared waiter list, the id counter and the socket: two
  files give every order. Two chunks are a first (which creates the stream) and
  a last (which may be buffered). `MaxId = 2` makes the counter wrap. `push_ids`
  starts at 32766, and bounds ids at 65536 since TLC computes in 32 bits.
* A proxy stores, flushes and forwards: three messages put one or more in each.
* Of a page for iOS, two gestures wait for each other's width or overtake; two
  cuts are a close before and one after the reconnection.
* Three chunks of output meet the timer before, while and after it is set.
* The player empties its buffer after `Limit = 3` blocks, and removes 2 (10 and
  5 in the code): ten frames, each a key frame or not, begin a removal, wait, and
  begin a second one; two stops leave something over for a third converter.
* Devices are independent of each other in every map of the control center; one
  device, gone, back and changed, with one death of a tracker or one rejected
  `init()`, covers the throttle and the restart. Two connections give a client
  that lost one and came back while the first one's `init()` is pending.
* A start races one other start, a kill or a fetch: two calls. Two servers are
  the least with which one can hold the port, or the page's attention, while the
  other runs; a push beyond them is refused. `MAX_UPDATES_COUNT = 1` (7 in the
  code) and `MaxTries = 1` (5) give a first attempt, a repeated one and giving
  up; two changes of the connection, a loss (or a reboot) and a return.
* A runner is held by one or several, so two channels; a second runner exists only
  while a first is shut down. Four channels of ws-qvh are one that holds twice, one
  whose hold it takes away, and two that come for a new runner.
* Two pages are the least that can disagree; two windows that do not fit into each
  other are the case in which each answer could call for another. Two fingers,
  a mouse and its second pointer are all the ids the handler gives out when a
  third finger would take the next one. Three channels are two listings and a STAT. The link
  is listed like a directory, so there are two tables that could be mixed, and one
  upload is begun in either, before or after the page moves.
* A third session meets the accept loop as the second does. Nine bytes hold two
  start codes of four with something between; chunks of two cut each in all ways.
  Three units are a damaged one, one that shares its timestamp and one after.
* Parameter sets have every optional part on and off, one at a time where parts do not
  meet in the reader, and widths of one and of 68 macroblocks, whose codes have one
  and several bits. Of the numbers only the shortest make a set of less than eight bytes.
* Pages meet in the one pointer and the one connection: two presses or keys are one of
  each of two pages, or two fingers of one. A second control connection is a restart of
  scrcpy while something is down or half written.
* A second Connect is the one that mixes two connections up; a third meets the
  globals as the second does. Candidates and input do not meet, so they are two parts.

### Fairness

`Multiplexer`: an event loop runs its queue, the network delivers what is in
flight and reports a closing to both ends, a connection attempt succeeds or
fails. `FilePush`: messages and responses are handled, `pushFile` goes on when it
is answered, adb in the end takes what is offered, confirms or fails.
`WebsocketProxy`: `adb forward` and a connection attempt end one way or the
other, a socket that is closing closes. `WdaProxyClient`: a connection attempt and
the timer of two seconds end, messages are handled, the driver answers or
refuses, a start of the runner ends. `RemoteShell`: its timer fires. `MsePlayer`: a
source buffer finishes what it does with `updateend`, one that was replaced need not. `DeviceTracking`: timers and
adb's answers that are due happen. `DeviceServer`: while a promise can be settled, a
timer is due or a server has to end, something of that happens; which one is left
open. Runners: timers fire and each await of `start()` ends in one way or the other.
`StreamClient`: messages arrive, the device answers and, while it is watched, sends
video. `FileListing`: each channel is answered (strong fairness: each has an adb
connection of its own, so other channels do not delay it for ever). `CastXAdb`: a
goroutine goes on, a message arrives. Nothing obliges a client to send or to
close, adb to change, a socket that works to be cut, or a call to fail.

## What is proved

TLAPS checks these for every value of the constants; the assumptions are that
bounds are natural numbers (`BoundsAssumption` and the like), those of channels of ws-qvh
and of sockets not 0 (`ChannelsAssumption`, `SocketsAssumption`), that the holders of
`WdaRunner` and the fingers of a user are finitely many (`FingerAssumption`), that the
numbers in a parameter set are at most 2^30 (`SpsAssumption`; the code's reader holds 32 bits), that
the device of a listing is as `FilesAssumption` says (paths of one kind each, a
file or link among the entries of its parent), and for
`FilePush` what `Bounds` says of files and ids: no id is given to two pushes. That is, the ids up to `MaxId` are not used up
(the code's maxId is 2^32 - 1), or they start anew while no id has been used
twice and every id fits into a response. `push` has the second, which TLC
evaluates as `PushBounds`. Without it a server that lives long enough gives two
files one id, and the NO_ERROR of one answers both.

* `Multiplexer_proofs`: `TypeCorrect` (`Spec => []TypeOK`) and `EmptyIsSafe`
  (`Spec => []EmptyOnlyWithoutChannels`). `TypeOK` alone is not inductive:
  `CHOOSE` in `getNextId` has a value only if some id is free, so the invariant
  adds `KeysAllocated`, that the keys of the Map are ids already handed out. With it
  `NextIdIsNext` shows that the loop of `getNextId` returns `nextId + 1`. One
  lemma per action follows; the shared operators (`RootSend`, `ForgetChannel`,
  `scheduleEmptyEvent`, ...) have lemmas of their own.
  `CloseArrives` (`Spec => []CloseReachesPeer`) and `ImplementsChannel` (`Spec =>
  ChannelsKeepPromise`, the implementation of `Channel`) rest on `OrderInv`, which
  looks at a connection as an `Outbox` per peer: the wire, and before the socket is open the
  storage of the root. `DataInOrder` says that what an end has got, followed by the data
  in the outbox up to a CloseChannel (`Numbers`, a row with 0 for other messages), counts
  1, 2, ... up to what the other end has `Written`; `StoredInOrder`, that
  the storage of a channel continues that row; `CreatesInOrder`, that the server hears
  of every channel in order and before any message of it; `CloseOnItsWay`, that an end
  given up at one peer has its CloseChannel in the outbox. `SocketStates`, `Unborn`, `Outgoing` and
  `QueuedAreCreated` say what is reachable at all. The lemmas `Counts...` state how a row behaves
  when it grows and when its first message is taken; none needs induction, since a row is
  described by what precedes each number. Each action has a lemma `...Order`.
* `Clients_proofs`: of `WebsocketProxy`, `TypeCorrect`, `NothingIsLost` and `PrefixesOnly`. The
  invariant adds to the three properties what each variable says of the others:
  `SocketSet` (nothing is written before the remote socket is set, which it is
  from its open event on), `ReleasedIsClosed` (a released proxy has an empty
  storage and no open remote) and `RepliesReturned` (an open client has been sent
  every reply; without this a reply could be appended behind a gap). `CountSeq`
  and `CountAppend` state that 1, ..., n is a sequence and what comes next, `RowSeq` and
  `RowAppend` the same when one number is left out, which `FlushSkips` shows of what
  `flush` writes; `OnceDropped`: nothing is dropped before the remote opens.
  Of `MsePlayer`, `FramesStayInOrder` (`Video!Spec => []FramesInOrder`). `Ordered` says that
  the numbers appended, followed by those in the queue, count upwards to at most the last
  frame pushed; a removal keeps that because `drain` gives the first part of the queue and keeps
  the rest (`DrainSplits`). `Held` says that frames are queued only while the player waits for a
  removal, until one fails or finds no converter. `drain` is a recursive function of the position in the queue, and
  the lemma rests on the least position (`Least`) at which that fails.
* `FilePush_proofs`: `SuccessIsWritten` (`Spec => []SuccessMeansWritten`) and
  `ErrorIsCaused` (`Spec => []ErrorHasCause`). Both follow from what the reader says of itself
  (`ReaderOK`: the stream is `Chunks(n)`, the first n chunks, read except for the last one;
  FINISH is only taken with all of them) and what the client reports (`ClientOK`). To keep
  them the invariant holds the conversation in step: `TurnOK` says of each file
  whether the reader is `Before` or `After` the command `pushFile` awaits;
  `ToServerOK` and `ToClientOK`, that a file has at most one command or one answer under way, which is
  the one awaited, so that the NO_ERROR of a chunk is never taken for that of FINISH.
  `IdsOK` keeps ids apart: it counts the readers that have `Started`, and so needs
  their finiteness. `WaitersOK` is the order of ids: resolvers of
  REQUEST_NEW_PUSH_ID stand in the order of the NEW commands and, ahead of these, of the
  answers, unless an id no longer fits into a response (`Overflown`), when the queue of resolvers
  is stuck. After `release` only `Silence` is left of all this. Steps on one file leave
  the `Others`, which `OthersKept` uses for every action; `Sends`, `Takes`, `Replies`,
  `Receives` and `Shifts...` say what each does to a queue.
* `DeviceTracking_proofs`: `NothingMissed` (`Spec => []NoUpdateLost`). It is not inductive
  alone. `Known` says that a device with a throttle under way is in the map, and `Numbered`
  that a connection still to be made neither listens nor awaits `init()`. `Tells` is what
  any step says of the client's part: which devices are told, and that one whose
  descriptor changes is told, waits for its timer or is not in the list; each action is shown to be such a step, and `ToldIsShown` draws the conclusion once.
* `DeviceServer_proofs`: `NoStartAfterKill` (`Spec => KillLasts`, an action property),
  `ShownRuns` (`Spec => []ShownServerRuns`) and `MissingIsStarted` (`Spec => []ServerKept`). A
  property of the state at rest says nothing of how it is reached, so the invariant speaks of
  the calls under way: `StaleIsRefreshed`, that while the PID shown names no server some call
  `Looks` again or is about to forget what it has killed; `ListsKnown`, that a list held by a call
  names servers that run or are remembered to have ended since; `MissingIsSought`, that while no
  server is shown a timer is pending or some call `Tries`, which ends with a server or
  with another attempt; `Spawns`, that a kill leaves `spawnServer` off. A call changes
  only its own record (`Only`), so that `OnlyInv` asks of each step just what became of that
  call (`StaleSeen`, `MissingSeen`).
* `Page_proofs`: of `FileListing`, `ListingSound` (the inductive invariant) and `TableIsOne`
  (`Spec => []ListingIsOne`). A table holds one directory as long as no listing
  overlapped another; that needs `Awaited` (which channels the page waits for),
  `ListingNamed` (the path asked is the one the open listing answers) and `AskedAlone`
  (while the page asks what a file or link is, no listing is open). `RowsStayHome`
  (`Spec => []RowsAreHome`) is about the rows of uploads, whatever loads do. Directories,
  files, links and uploads are constants, of any number.
  Of `FeaturedInteractionHandler`, `Fingers` (`Touch!Spec => []FingersFollow`), for any finite
  set of fingers. The property is about the device; the invariant ties it to the handler: `HeldIsStored`,
  that the device holds down exactly the pointers of which the handler stores a message, and
  `StoredIsDone`, that such a pointer is a finger on the tag, or the mouse over it with a button
  pressed. One event sends several messages, so the lemmas `...Fits` show that each of a row
  fits what the device holds when its turn comes.
  Of `SimpleInteractionHandler`, `Gestures` (`Gesture!Spec => GesturesAreOwn`, an
  action property): `Unmeddled` and `CleanIsHeld` say what is stored and where it started
  while no other press has come between, `Unseen` and `Performed` what has been performed for it.
* `Runners_proofs`: of `WdaRunner`, `TypeCorrect` and `UsedIsKept` (`Spec => []HeldIsKept`). The
  invariant counts: `Counted` says that a runner's `holders` is the number of
  channels and requests that hold it, which takes finiteness of these; `TimerIsCurrent`, that a
  shutdown timer is that of the runner in the map; `ProxyHolds`, that a stream
  comes from a proxy that holds its runner.
  Of `QvhackRunner`, `HeldStream` (`Qvh!Spec => []StreamIsKept`). While no channel has released
  twice the runners are `Balanced`: each counts the channels that hold it, only the timer of the
  one in the map is pending, and then nobody holds it.
* `CastX_proofs`: of `ScrcpyReceiver`, `Sorting` (`Spec => []AloneIsSorted`). The invariant says of
  the connections which are `Unstarted`, which one the loop reads (`OneAtATime`,
  `Accepted`), and that those read are `Sorted`.
  Of `MemoryWriter`, `PiecesAreSent` (`Nal!Spec => []NalsAreExact`). The buffer is the
  stream behind a `Cut` that no start code crosses (`Buffered`; `CodesApart`: codes do not
  overlap), the code found stays the first one while ffmpeg writes on (`FoundIs`), and what
  was sent are the pieces that end up to the cut (`SentIs`). A write changes none of these
  (`PieceStays`), a code that is skipped ends no piece (`NothingAtCut`), and a cut adds the
  next one (`MoreSent`).
  Of `H264Depacketizer`, `UnitsArrive` (`Rtp!Spec => []CompleteUnitsAreExact`). While a
  unit is being sent nothing of it was handed on (`AllEarlier`); its fragments so far are the
  buffer, if none was lost (`Gathers`); and what a loss left there is of no unit that is
  expected (`LeftOver`). So whatever is handed on next keeps the order (`MoreExact`).
  Of `H264Sps`, `SizesAreRead` (`Size!Spec => []SizeIsRead`), for every set of parameter sets. The reader undoes the encoder: `Span` says which
  bits stand between two places, `ReadsCode` that at a code of `UE` the reader finds its number
  and stops behind it, `HighSkips` and `OrderSkips` that it gets past what is optional,
  `SizeRead` that what it gives is the size, `SizeParsed` that such a set is not refused. The digits of a number are a recursive function of
  it (`DigitsSpell`), and so is the number the reader makes of them (`BitsAre`).
  Of `GoScrcpy`, `SignalsArrive` (`Signals!Spec => []SignalsFit`): unless a socket was
  overwritten, all that belongs to one stays with it (`Paired`).
  `Lifted` (`Inputs!Spec /\ Control!Spec => []AllLifted`) is about both servers: for what is
  down an UP is on its way, due from the page, or still to be written. It must come behind
  the last DOWN of each queue (`Answered`), which `UpsCome` and `PagesLift` keep.

Only model-checked: all liveness and the action properties whose comment names
a `~>` (TLAPS has no reasoning about fairness that would reach them). `ENABLED` is out of
the prover's reach. Where a proof needs an induction, over a sequence (`DrainSplits`, `Fingers`)
or the digits of a number (`DigitsSpell`, `BitsAre`), it takes the least number that fails.

## Observed

What the models show beside the properties. Most are exceptions a property
names; the rest were met while translating.

* Runners. A connection of `QVHStreamProxy` releases twice and takes away another
  one's hold. A 'started' that comes after the close leaks a proxy socket. The
  errors of `ProcessRunner` and `WdaRunner` have no listener and throw; after a
  `getServer` that fails `starting` stays TRUE; the MJPEG request that called a failing `start()` hangs
  and keeps its lock. A start that ends after the shutdown timer leaves a session
  nobody closes, and `close()` throws after its await when 'exit' removed the driver.
* WdaProxyClient. The promises of requests on a closed connection never settle. After a
  reconnection nobody sends RUN_WDA again, so the new middleware ignores every
  request. `stop()` while connecting, or in the two seconds of the timer, leaves a
  connection that opens. A width of 0 is taken for known. A gesture made once the
  width is known overtakes those that still wait for it.
* RemoteShell. Output after a release with no timer pending sets one that sends on a
  closed channel; the exception ends the server.
* MsePlayer. A key frame that arrives while the buffer is emptied overtakes the queue; a stop in that
  time leaves `waitUntilSegmentRemoved`, blocks and queue as they are, and the next
  converter may get nothing. A removal that throws leaves the queue, as does one after a stop,
  and later frames overtake it. `currentTimeNotChangedSince` is toggled by each frame, so never reaches its limit.
* Pages. A button released over another element leaves the pointer down until the
  mouse leaves; mouse and touch share ids. The iOS handler may begin a gesture at the stale
  start of another, or swallow a click. A listing mixes directories when loads
  overlap; a directory that cannot be read leaves the old listing; a rejected promise leaves its
  channel open, and links dead until another request ends. The row of an
  upload appears in the table of a directory its file does not go to, and may stay there. A page stopped while its
  socket connects joins all the same; the reconnection timer of `BaseDeviceTracker` ignores `destroy`.
* castX. `readHeader` ignores errors, so a dead or late connection becomes the control
  connection. `AdbConnect` set after its session ended stays TRUE; of two sessions the
  first to end clears the other's flag. `WriteJSON` is called by several goroutines at
  once; broadcasts overtake each other. `SendKeyCode` writes one message with five calls. Signed codes that are even, scaling lists, the
  twelve flags of 4:4:4 and emulation prevention are misread by the parser of parameter sets; a
  set with nal_ref_idc 2, or of less than eight bytes, makes pages be told of a size of 0. Pages are told of a
  new size only if the width changes. A pointer pressed elsewhere and let go over the
  video clicks there, and so does the second of two fingers; one let go outside the
  video leaves `isPointerDown`, since only the page with a canvas listens to the box
  around it. The UP of 'back' is that of HOME, so BACK stays down. A key, or the power of the
  screen, may be torn by another page's message.
* go-scrcpy. A second Connect leaks the first socket, whose late events clean up the new
  connection; answers go to the wrong peer. A candidate may overtake the answer
  and is lost. Two writers of a socket may stop the server. Video and control are
  accepted once in the life of the process. The UP of a click goes to whatever socket is current.

## Not modelled

Decoding, rendering, formatting and the wording of messages; codes and reasons of
closes where no decision depends on them; binary layouts where no property is about them.

* Vendored code: `vue.global.js` alone is half of the repository's lines. Tables
  (`MediaFormat.ts`, key codes, `Command.ts`) have no behaviour. `FilePushReader` handles
  a CANCEL that no client here sends.
* Multiplexed middleware, devtools, host tracking: one step or one answer without state.
* Server start and stop: services start in turn and are released in turn at a signal;
  no service depends on another's release.
* iOS device tracking: the shape of the Android one without throttle or restart.
* The dialog of settings and page elements: DOM and storage of a form.
* Players other than `MsePlayer`: a worker or a browser's decoder decides.
* castX: logins, WebRTC peers, ttl map, Ogg and Opus, the layout of pages, keys by number, the mobile bindings and
  what reaches the phone without scrcpy. go-scrcpy: the video.
* Lists of adb that overtake a tracker's change set: the list is taken to be the
  state at the moment it is handled. The doubling of the retry's delay: any order
  of timers is.

`Converges` names what the code does not promise: after a second death there is no
tracker (the restart timer is never cleared), a connection whose `init()` was rejected
shows nothing, and a device unplugged while no tracker ran is reported by nobody.
`ServerKept` and `ShownServerRuns` speak of a device to which nothing else happened: a
server that crashes later, or loses the port after a second call has found it, is
started again by nobody, one that ends between the list and its use (`outdated`) is
shown, an abandoned call may show an answer from before the reconnection (`erased`), and a kill during a start kills nothing that the start does
not undo. `PROJECT.json` lists each component with its state and each hazard with
the properties that cover it, and what they leave open.

## Plan

Modules: iOS tracking as an instance of what `DeviceTracking` states; start and stop of the
server; the decoders that wait for a worker; castX peers and logins.
