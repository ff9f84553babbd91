# canopen-tools: verification development

TLA+ models of the programs in this repository, TLC runs over small instances
of them, and TLAPS proofs of the properties that matter most. The sources are
the reference: each definition stands for the lines named in `PROJECT.json`
under `map`.

## Inventory

The repository is a set of independent CANopen tools. Two of them talk to each
other over TCP (the bridge server and the ESP32 client, or two bridge servers);
the others share nothing but the CAN bus.

| part | source | state | operations | what is hard about it |
|---|---|---|---|---|
| bridge server | `can-tcp-bridge-server/can_tcp_bridge.py` | `self.sock`, `sock_lock`, the framer's buffer, `stop_event` | CAN to TCP loop (main thread), TCP to CAN loop with accept / connect / reconnect (tcp-manager thread), `stop()` | chunks that cut records anywhere, a socket replaced while it is in use, `stop()` without the lock, peers that go silent |
| ESP32 client | `can-tcp-bridge-client/src/main.c` | message queue of 32 frames, socket, one record's buffers | receive callback (another thread), drain and send, poll and receive, start-up and shutdown | blocking reads in the middle of a record, short writes, a full queue, records that are too long |
| the two programs' records | `frame_from_can`, `can_from_frame`; `tcp_send_can_frame`, `can_from_tcp_parts` | none | translate a frame to a record and back | two languages, four kinds of frames, FD on one side only |
| connection manager | `connection_manager/*.c` | two semaphores, two statuses, event callbacks | connect, start DHCP, callbacks | an answer before, during or after the wait for it |
| firmware update | `firmware-update/co-firmware-update.py`, copied in `co.py` | where the script is; the device's program, memory and flash status | stop, clear, download, start, confirm | lost, refused and late SDO answers, updates that are cancelled, interrupted or repeated |
| interactive tool: dialogs | `canopen-interactive/co.py` | `nodes`, the values on the devices | add node, NMT, read, write, send PDO | several writes of which some fail, exceptions swallowed or not, a device that acts and does not answer |
| interactive tool: monitor | `canopen-interactive/co.py` | subscription dictionaries, `lock`, `force_refresh`, `in_main_menu` | subscribe, unsubscribe, add and flash a node, redraw | callbacks of a library thread, a redrawing thread, replaced node objects |
| CAN viewer | `oze-canopen-viewer/src/*.rs` | `State.data`, two watch channels, the window's list, filter and pins | driver loop, frame, stop, connect, filter, pin, Ctrl-C | channels that keep only the last value, sampling, cancellation |
| rates, rows and theme of the viewer | `chart.rs`, `message_row.rs`, `message_cached.rs`, `viewer.rs`, `theme.rs`, `bitrate.rs` | | | not modelled: formatting and drawing |
| installation | `scripts/`, `setup-*.sh` | files on disk | install | not modelled: sequential, no protocol |
| `connection_manager_zeth.c` | | | | empty at this commit |

Interactions: `frame_from_can` on either side builds a record
(length, header, payload), TCP cuts the stream into chunks, and
`TcpCanFramer` or `recv_all` puts records together again; `main()` of the ESP32
calls the connection manager, which waits for the network's callbacks; the CAN
library calls the interactive tool's callbacks; the viewer's driver and window
exchange `State` and `Control` through watch channels.

What makes each part correct:

- *link*: frames come out in order, once, unaltered; nothing complete is held
  back; nothing complete is lost at an orderly end; nothing is rejected;
- *records*: a data frame is the same frame on the last bus of any chain of
  bridges; with FD off everywhere nothing illegal is put on a bus;
- *ESP32*: never outside its arrays, never out of step with the stream, no frame
  lost between callback and socket except when the queue refuses it;
- *sharing of the socket*: no torn record is followed by another on the same
  connection, no frame is sent twice, every open socket has an owner who will
  close it (a client that tries again included), `stop()` always wakes the
  manager;
- *ESP32 life cycle*: everything acquired is given back, no answer of the
  network is missed;
- *update*: nothing erased under a running program, nothing written to memory
  that is not erased, nothing incomplete started, no false success, an end;
- *dialogs*: a value written without an error printed is on the device; no
  dialog touches what it is not about; the network is disconnected at the end,
  except by the three ways out that nothing catches;
- *monitor*: no lost redraw, subscriptions and what the user is told agree;
- *viewer*: every message once and in order, a pin that follows its messages,
  the last control wins, the end of the driver ends the window.

## Modules

| module | models | notes |
|---|---|---|
| `BridgeFraming` | record format, building, cutting out and parsing, of both programs | pure operators; `HdrLen` (6 bytes in the code: identifier, flags, data length) and `MaxFd` (64) are parameters; a header is a token |
| `TcpStream` | one direction of a connection | external: bytes written, bytes read, how it ended |
| `PyReceiver` | TCP to CAN loop with `TcpCanFramer` | one chunk, one record, or the end per step |
| `SenderHistory` | what a writer has put on a connection: frames and where their records start | history, shared by `RecordSender` and `EspUplink` |
| `RecordSender` | CAN to TCP loop, and what may tear its last record | |
| `PyLink` | `RecordSender` + `PyReceiver` over `TcpStream`, with reconnection | implements `FrameChannel` |
| `FrameChannel` | abstract: a lossy first-in first-out channel of frames | |
| `FrameCodec` | identifier, flags and length of one frame over a chain of bridges, either program at either end | payload bytes are counted, not looked at |
| `EspReceiver`, `EspLink` | the ESP32's receiving loop, fed by a Python sender | `databuf` and the dump buffer as lengths and contents; implements `FrameChannel` |
| `EspUplink` | callback, queue and three-part sending to a Python receiver | short writes included; implements `FrameChannel` as long as there are none |
| `Bridge` | the two threads of the Python bridge, the shared socket, both roles | framing abstracted to "good", "bad", "end" |
| `ConnMgr`, `EspMain` | connection manager; `main()`'s life cycle with it | |
| `FirmwareUpdate` | the update of both tools, SDO exchange, device and bus | the script is a sequence of steps; device and bus are external |
| `CoMenu` | `main()` of `co.py` with the dialogs of nodes, NMT, SDO and PDO | devices external |
| `EventMonitor` | event monitor, three threads, heartbeats and TPDOs | the code has the same functions for both; a key is a node and a feed |
| `Viewer` | driver task, channels, window, process | a filter is the set of kinds it hides |
| `MC...` | values of `Frames` for TLC | the other modules are checked directly |
| `FramingTheorems`, `PyLinkTheorems`, `BridgeTheorems`, `EspLinkTheorems`, `EspMainTheorems`, `FirmwareTheorems`, `CoTheorems`, `ViewerTheorems` | proofs | see "Proofs"; `BridgeTheorems` is also about `FrameCodec`, `PyLinkTheorems` also about `EspUplink`, `CoTheorems` about both modules of `co.py` |

An action is a handler, or the part of one between two points at which another
thread, task or message can intervene: a `with lock:` block is one step because
everything that touches the data holds the lock. Names follow the code.
Definitions marked `mutant` are faulty variants of a definition of the code,
listed in `PROJECT.json`: with one of them in its place the property named there
fails.

Some choices that need a word:

- `FrameCodec`: `Ends` are the Python program with and without `can.fd` and the
  ESP32. What python-can and the operating system make of a message (a remote
  frame has no data, an error frame has an identifier like others) is taken from
  how the code uses them.
- `FirmwareUpdate`: `Script` is the straight-line code of `flash_firmware`; an
  exception in a step ends it except where the code swallows it. An answer is
  identified by its object (`Object`), not by the command it answers, because
  that is all an SDO answer says; the library sends a request up to `Attempts`
  times (its `MAX_RETRIES` is 1). A further update from the menu begins with
  nothing in transit: the prompts take longer than any answer is on its way.
  Without that assumption a late acknowledgement of the first update would be
  taken for one of the second, and memory written that is not erased.
- `CoMenu`: the objects are a variable, an array and a record, each of numbers,
  Booleans or bytes; an access to the device may fail before or after the device
  has acted. The user may end the input or press Ctrl-C at any prompt.
  `renewed` are the nodes added a second time, perhaps with another EDS (or the
  same file, changed): for these `node.tpdo[pdo_num]` may raise in
  `unsubscribe_tpdo`, outside every `try` (`TpdoIsMissing`). Which subscriptions
  there are is in `EventMonitor`, which has the same exception as
  `UnsubscribeRaises`; `lacking` there says which TPDOs the EDS of a node's
  object does not have, chosen anew in each `add_node`.
- `EventMonitor`: `nodesObj` and `netObj` are the objects that stand for a node
  in `nodes` and in the network; `add_node` replaces both, `flash_firmware`
  only the network's. That the library delivers only to its own object is taken
  from its interface (external). A removal may fail for the feeds in `MayFail`,
  which is what a library without `remove_callback` on the map of a TPDO always
  does: the code swallows that, pops the entry and reports success, and the
  callback stays (history variable `left`). That a callback is not at this object
  is a failure too, of a removal that had nothing to remove.
- `Viewer`: `DropRuntime` is what tokio does when `block_on` returns; the
  driver's `ctrl_c()` is created anew in each `select!`, so it hears only a
  signal that comes while it waits there.
- `Bridge`: `peer = "vanished"` is a peer from which neither data nor an error
  comes; with keepalive the operating system turns it into an error. Setting the
  options of a new socket may fail. In the server the exception leaves
  `_accept_once` and the socket is dropped (`SetupFailsInServer`); the client
  catches it inside its loop, where the local `conn`, `sM` in the model, holds the
  open socket until the next connection is made or the function returns
  (`SetupFailsInClient`, `Connected`, `WaitCheck`).

## Runs

| run | question | bounds and why they are enough |
|---|---|---|
| `py_link` | one direction between Python bridges: order, completeness, rejection, refinement of `FrameChannel` | 3 records of two shapes, chunks up to 5 bytes: a chunk can end in the length, in the header, in the data, hold a record and a piece of the next, or several; proved for all values besides, but for the liveness |
| `esp_link` | the ESP32's receiver fed with classic and FD frames | 3 records, payloads of 0, the maximum (2) and more; the dump buffer (3) is smaller than what has to be thrown away, so full and partial dumps occur; safety is proved besides |
| `esp_uplink` | callback to decoded frame | queue of 2 and 3 frames heard: full queue, refusal, use of a place again; proved besides |
| `esp_uplink_short` | violation: "what was decoded was heard" after a `zsock_send` that fell short | as `esp_uplink` |
| `bridge` | two threads, one socket | 2 connections (one replaced by another), 3 frames (before, during and after the replacement), both roles, keepalive on and off, the options of the first or of both connections not set; safety is proved besides |
| `frame_codec` | one frame over a chain of bridges | all kinds of frames, the least and greatest identifiers of each format and one that only the longer has, payloads of 0, less than, equal to and more than the classic limit, 3 bridges: the first changes what the second hears, the third what the second changed; proved besides |
| `esp_main` | life cycle | 2 tries, 3 network events, queue of 2: every event before, between and after the waits; safety is proved besides |
| `firmware_update` | updates over an unreliable bus | 2 parts (first and last), 3 messages in transit each way, 3 updates from one menu (one after a success and after a failure), one attempt for a request; safety is proved besides |
| `event_monitor` | three threads, two feeds of a node | 3 events (before, during and after an unsubscription), 2 subscriptions of a key and 2 objects of the node, the second with or without the TPDO; removals of the TPDO's callback may fail, those of the heartbeat's not; the user does not subscribe to what is subscribed (that case is `subscribed_twice`); the late event is proved besides |
| `subscribed_twice` | violation: "Unsubscribed" means that nothing is called any more, after a repeated subscription | one key, 3 events; no removal fails, so that the repetition alone is to blame |
| `co_menu` | dialogs with refusing and silent devices | 2 nodes (one the dialog is about, one not), added any number of times, last subindex 1 in the EDS and 2 on the device (array values may go on past the EDS), 2 writing dialogs (one on top of another); proved besides |
| `viewer` | list, filter, pin, stop, connection, end of driver and window | 3 messages of 2 kinds, `MAX_MESSAGES_IN_STATE` 1 (so 2 are held) and a list of 2: messages leave both; 1 connection, since a choice of connection only travels along with the command; safety of list and pin is proved besides |

Those called a violation refute one statement of the repository each, quoted
under `findings` in `PROJECT.json`; the others pass. Each bound on a counter
(frames, connections, events, messages) is a named constant in the guard of the
action that counts.

Deadlock is checked in `py_link` and `esp_uplink`, where a reconnection is
always possible; in the others the program may end.

### Fairness

- `PyLink`, `EspLink`: the receiving loop runs while it has something to do; no
  frame, end or reconnection is owed.
- `Bridge`: manager and stopping main thread run (operating system threads that
  do not block are scheduled), and with keepalive configured a dead peer of
  `self.sock` is noticed in the end. Bus, peers and Ctrl-C owe nothing.
- `EspMain`: `main()` and the connection manager run; the network owes nothing.
  `EndIsNoticed` has the exception `DrainsForEver`: while the bus fills the queue
  as fast as `main()` empties it, `main()` never gets to `poll()`.
- `FirmwareUpdate`: each call of the tool returns after at most its timeout and
  time goes on; the device and the bus owe nothing.
- `EventMonitor`: the main loop outside `input()`, the library's callback and
  the redrawing thread run; user and bus owe nothing.
- `Viewer`: `select!` has a 100 ms branch, so the driver always goes on; the
  window requests its next repaint in each frame; start-up and the end of the
  runtime happen.
- `FrameCodec`, `EspUplink`, `CoMenu`: none; nothing is claimed about the future.

## Proofs

The theorems are of the form `Spec => []Inv`, `Spec => [][A]_vars` or `Spec =>
Channel!Spec`, for every value of the constants that meets the modules'
assumptions (`FramingAssumption`: a payload length fits one byte and a record's
length two; `ChunkAssumption`: `recv` may return at least one byte;
`FramesAssumption`: `Frames` are frames of at most `MaxFd` data bytes;
`CodecAssumption`: identifiers and lengths are in their ranges; the others say
that bounds and sizes are numbers, those of a queue, list or transfer not 0).
Each is proved from an inductive invariant, with a lemma for each action or group
of actions, because hardly any of the properties is inductive by itself.

**`FramingTheorems`** has what the links share: the value of a length field, the
size of a record, what is cut out of a concatenation, that the framer returns
exactly a record or waits, and what a stream looks like that is written record by
record (`StreamInv`, and `SenderInv` for a writer that writes whole records):

- `RecordsInPlace`: the stream holds, at the noted offsets, the records of the
  frames sent;
- `TornTail`: behind them there is nothing, or less than one record and the
  connection is at its end.

**`PyLinkTheorems`**: `TypeOK`, `DecodedInOrder`, `NeverRejects`,
`NothingHeldBack`, `OrderlyEndLosesNothing`, and that `PyLink` implements
`FrameChannel`. That decoded frames are a prefix of the sent ones says nothing
about the bytes still under way. `ReceiverInv` adds to `StreamInv`

- `DecodedSent`: as many frames were decoded as records taken, and they agree;
- `BufferInPlace`: the framer's buffer is the piece of the stream between the
  last record taken and what was read;
- `NothingHeldBack` and `EndsInOrder`: where the receiver may block or stop.

The refinement maps the channel's queue to the frames sent and not yet decoded; a
step of the receiver is a `Deliver`, a step of the sender a `Put`, a reconnection
a `Cut`, everything else a stutter.

The same module has the ESP32's sending direction: `NothingLostInside` and
`UplinkInOrder`. The reader is the same, so `ReceiverInv` is used again; the
writer is not, because it writes a record in three calls. `PartInPlace` says how
much of the current record the stream has (nothing, the length, or length and
header), and that it is the beginning of that record. All of this is claimed
until a `zsock_send` falls short (`UInv` is `~ short => ...`), as the properties
themselves are; afterwards it is false, which `esp_uplink_short` shows. For the same
reason the refinement has a hypothesis: `UplinkSpec /\ [](~ short)` implements
`FrameChannel`, a frame entering the channel with the last byte of its record.

**`EspLinkTheorems`**: `StaysInArray`, `PollsBetweenRecords`,
`ForwardsInTurn`, `ForwardsClassicFrames`, and that `EspLink` implements
`FrameChannel`. The ESP32 keeps no buffer, so the invariant has to say where in
the stream it stands: `Position` has a clause for each of its reads (how far into
the record the socket was read, and that what was received is what lies there),
on top of `RecordsInPlace` and `TornTail` as above. So the length field that is
read is that of a record, and what is read or thrown away after it ends where
that record does. The rest follows from one lemma, `OneRecordAtATime`: each step
finishes no record, or finishes the next one of the stream and transmits its
frame if and only if it is a classic one. For `ForwardsClassicFrames` the
correspondence between frames and records is extended step by step, and for the
refinement a classic frame is a `Deliver` and an FD frame a `Refuse`.

**`BridgeTheorems`**: `TypeOK`, `OpenSocketIsOwned`, `StreamsOfWholeRecords` and
`NothingSentTwice`. The invariant has two layers. `SocketInv` is about threads and
sockets:

- `IdleMeansNone`: while the manager looks for a connection `self.sock` is
  `None`, so that the `close()` before the assignment never meets a socket;
- `NewestIsStored`: what is stored in `self.sock` is newer than everything seen,
  a connection whose options could not be set included;
- `TakenIsOlder`: the socket the main thread took outside the lock is never newer
  than `self.sock`.

`StreamInv` is about what was written, and uses the first layer: only to
connections not newer than the one in hand (`WrittenIsOlder`), and a torn record
lies on a connection that no write will reach again (`TornIsDead`, with
`DeadStaysDead`). The latter is why `sendall()` outside the lock is harmless.

The second part of the module is about `FrameCodec`: `SameDataFrame`,
`RemoteStaysRemote` and `PlainBridgesAreSafe`. `CodecInv` says the same of the
frame on the bus (`OnBus`) and of its record (`OnWire`); that the mask of 29 bits
changes no identifier is a lemma of its own.

**`EspMainTheorems`**: `GivesBackInOrder`, `ResultIsTrue` and `NoMissedAnswer`.
The invariant says for each place of `main()` what is acquired there (`Holds`,
`Sockets`) and for each stage of `connection_manager_init` what the network has
done and what the semaphores and statuses know of it (`WifiKnows`, `DhcpKnows`).

**`FirmwareTheorems`**: `WritesOnlyErased`, `SuccessMeansConfirmed` and
`ErasesStoppedStartsComplete`, under `Attempts = 1`, the library's default. A
request that changes the device is the last one in transit, and so is its answer
(`ChangesLast`); so an acknowledgement that is taken belongs to the command it is
taken for (`OwnChange`), each step finds the device as the command before has
left it (`DeviceAtStep`), and a command still on its way when the tool has given
up finds it so too (`Prepared`). With more attempts `ChangesLast` fails, and with
it the properties: the mutant `AsksTwice` shows how.

**`CoTheorems`**: `AtMostOneLateEvent` and
`UnsubscribedMeansDetached`, under `Repeats = FALSE`. Apart from the callbacks
that a failed removal left (`Sound` are the others), there is at the object the
tool now uses for a node at most one callback of a key, the one noted
(`OneCallback`, `NotedCallback`), so removing that one detaches the key, and a
call under way has at most one callback of an unsubscribed key left to run,
unless a removal failed on its object (`LateOnce`); while it waits for the lock to
store its event nothing of the key is shown, so the key cannot be unsubscribed in
between (`LateUnseen`). This holds for every `MayFail`. The other half of the
finding `subscribed_twice` comes in two theorems: without a second subscription
whatever still calls the monitor for an unsubscribed key is a callback whose
removal failed (`ToldTheTruth`), and where no removal fails either what the tool
says is true (`TruthIfRemoved`, under `MayFail = {}`).

The second part is about `CoMenu`: `SilenceMeansWritten`, `EndsDisconnected` and
`OthersUntouched`. What is claimed at the end of a write dialog has to be known
in its middle: `WrittenSoFar` says it of the subindices already tried, among
those that were asked for (`AskedFor`), while the later ones are still to be
written; `InDialog` says what option and which node the place in the dialogs stands
for; and `ConnectedUntilEnd` leaves the ways out of `main()` as the only ones
that can lose the connection.

**`ViewerTheorems`**: `NewestFirst`, `NewOnesShown` and `PinFollows`. What is new
in a frame is decided by the index at the front of a list that was filtered,
and the newest message of all may not be in that list. `ViewerInv` carries an order
through the program: the front of the window's list is no newer than what a
frame has seen, that no newer than what was sent last, that no newer than what is
stored (`FrontBehindSource`). `SentAccounted` and `PinAccounted` say of a message
that was sent, or that a pin measures to, that the driver still has it or only
newer ones, so a message that leaves the window's reach is never taken for a new
one later. `Kept`, the filtering of a list, is a recursive function; its facts
are proved by induction over a set of numbers (`NatInductionOverSets`), because
the library's induction theorems have a parameter that is an operator, and for
the same reason nothing could be said of `SelectSeq`.

Every safety and action property that a run checks is stated by one of these
theorems. Only model-checked is liveness, which is out of the prover's reach:
`EveryRecordDecoded`, `EveryRecordHandled`, `StopEndsManager`,
`DeadPeerIsDropped`, `EndIsNoticed`, `ToolEnds`, `UpToDate`, `ObeysLastControl`
and `DriverEndCloses`. The refinements are those of safety: `FrameChannel` owes
nothing.

## What the models show besides the properties

Behaviour of the code that the models have as it is, that a reader may not
expect, and about which nothing in the repository says otherwise:

- a remote frame loses its data length in the Python program and asks for no
  bytes on the next bus;
- with `can.fd` set every frame that end sends is marked FD on the connection,
  and an end without FD refuses them all; `can.brs` is never read;
- error frames that a SocketCAN socket delivers are forwarded like data frames;
- writing "0" to a Boolean writes true, because the text goes through `bool()`;
- the choice of an EDS file never returns when there is none, and no choice
  returns once the input has ended;
- a typing error in the node id ends the tool without a disconnect, and so does
  unsubscribing a TPDO of a node that was added again with an EDS that lacks it;
- when the library cannot remove a callback (python-canopen's `PdoMap` may have
  no `remove_callback`), "Unsubscribed" is printed all the same, and the callback
  goes on storing events as long as the network keeps that object;
- a bridge client whose connection's options cannot be set keeps that connection
  open, and reads nothing from it, while it waits and tries again; the server
  drops it at once;
- a pinned filter whose messages the global filter hides is given the same
  message again in every frame, which makes its time zero;
- a subscription stays with the node object it was made on: after `flash_firmware`
  it goes silent until the node is added and subscribed again;
- `load_config` fills in `peer_port` from the defaults, so a client never falls
  back to `port`; `bring_up_interface` goes on when a command fails;
- when the signal ends `block_on` before the driver hears it, nobody tells the
  window.

## What is left out, and why

- `load_config` and `bring_up_interface` of the bridge server, and
  the arguments and configuration of the others: a file is read once into a
  record, or commands are run one after another, before anything else happens.
- The connection dialog before the menu, the layout of the listings and the type
  table of the object dictionary in `co.py`: text in, text out.
- Rates, rows, charts and theme of the viewer: formatting and drawing. `bitrate.rs`
  subtracts two readings of a counter that belongs to `oze_canopen`; whether it is
  ever reset on a reconnection is not in this repository, and a model could only
  assume the answer. Regular expressions and several pins are abstracted to one
  pin and sets of kinds.
- The inside of an SDO block transfer, of the CAN library and of Zephyr's network
  stack: external, modelled by what the code here expects of them.
- A device that restarts during an update: what it then reports is not in this
  repository.
- `connection_manager_zeth.c` (empty) and the installation (copies files).

The one hazard without a property (a choice that never returns) is listed in
`PROJECT.json` with the reason: the user is not fair, and no promise of the code
could be checked.

## What could follow

1. `BridgePair`: two `Bridge`s, or a `Bridge` and the ESP32, with reconnection of
   both ends and silent peers.
2. An abstract channel that refuses exactly what does not fit, so that the three
   refinements also say which frames are refused.
3. An abstract specification of an update (a device that has the old program, none,
   or the new one) implemented by `FirmwareUpdate`.
