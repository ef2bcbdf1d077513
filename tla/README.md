# pydobotlab in TLA+

pydobotlab drives Dobot Magician arms over a serial line: a script calls the
methods of a `Dobot` (alias `Magician`), which queues commands on the arm and
waits for them; a control panel shows and jogs the same arm at the same time. Two
programs cannot open one serial port, so the panel runs a TCP broker that opens
the ports and relays frames for everybody. These modules model the parts of the
code where threads, programs and failures meet, check them with TLC on small
instances, and prove the safety of all of them (the broker, the links to the arm, the
command queue and its callers, the port registry, the panel, the hub and the speed
settings) with TLAPS for instances of every size.
Source paths below are relative to `src/pydobotlab/`.

## The system

| Part | Source | State it keeps | Operations | Hard behaviour |
|---|---|---|---|---|
| Broker server | `broker.py` | port map, client counts, lazy marks, connections, lock | start, stop, attach, detach, a handler thread per client | release against attach, drop of a failed link, stop against handlers, failed replies |
| Serial transport, port registry | `transport.py` | `_OPEN_PORTS`, the device, the transport's lock | open, close, send_frame | claim before open, unconditional un-claim in close, late bytes |
| Broker transport | `transport.py` | socket | open, close, send_frame | answers that arrive after the timeout |
| Frame protocol | `protocol.py`, `broker_protocol.py` | none | pack, unpack, read_frame | junk before a header, length and checksum limits |
| Device API and batches | `device.py`, `queue.py` | last queued index, batch depth and lock, transport | execute, move_to, set_home, clear_alarm, wait_for, wait_idle, batch, connect, disconnect | indexes that restart, alarms between two reads, other clients of the same arm, lost replies |
| Simulator | `simulator.py` | command queue, indexes, alarm bits, jog, run flag | frame handlers, motion loop | alarms that stop the queue, homing during an alarm, force stop |
| Pose stream | `device.py` 947-1016 | thread, stop event | start, stop | join with a timeout, a stream beside an old one |
| Discovery | `discovery.py` | none (reads the registry) | list_ports, is_dobot, discover, find_free_port | registry read, port opened later |
| Configuration | `config.py` | active configuration, the user's file | load, save_arm_speed | read-modify-write by two programs |
| Control panel | `panel/panel.py` | connection state, jogging flag, workers, speed slider | connect, jog, home, move, watchdog, reconnect, close | stop of a jog that fails, workers that outlive the window, reports that arrive late |
| Hub | `panel/hub.py` | open windows, scan worker, names | refresh, open, close, quit | a scan while panels open and close |
| Widgets, app, shortcut | `panel/` | pressed segment, layout | painting, command line | a pad disabled while it is pressed |
| Alarms, errors, permissions | `alarms.py`, `errors.py`, `permissions.py` | none | decoding, texts | none |

How they interact: a script's `Dobot` calls a transport, either `SerialTransport`
(its own process opens the port) or `BrokerTransport` (a socket to the panel's
broker, whose handler thread calls a `SerialTransport`). The transport's lock makes
one request and its reply atomic, so the arm sees one frame at a time; nothing
makes a *sequence* of frames atomic, and the arm has one queue, one run flag and
one alarm state for all its clients. Discovery and every transport of a process
share the registry of claimed ports. The panel's slots run on the Qt thread, its
pose stream and its home and move workers on threads of their own, whose signals
the Qt thread takes later.

What makes each part correct:

- *Broker*: a port opened on demand is closed when nobody uses it and never
  forgotten; counts never exceed the clients there are; an open device is always
  somebody's to close; a registry entry never outlives its port; `stop` returns.
- *Device and simulator*: a call that returns `True` has been executed; a batch
  starts nothing before it ends and runs everything after; an alarm leaves nothing
  queued that would resume; every wait ends.
- *Links and frames*: a caller gets the arm's answer to its own request or an
  error; one fault on the line costs one call at most; every call ends.
- *Registry, discovery and routes*: no claim without a holder, one owner of a serial
  device, whatever fails on the way; a program that keeps trying reaches its arm. (A holder
  can lose its claim.)
- *Panel*: no jog is left without a stop; controls fit what the window shows; one stream;
  silence, answers and alarms are noticed; closing a window leaves no thread on the arm.
  (What the window *says* of a failed stop or of a closed connection is another matter.)
- *Speeds*: the slider, the arm and the jogs agree once everything has been taken
  in; saving one arm's speed changes that line only.
- *Hub*: one scan at a time, each refresh answered by a scan that began after it;
  names stay; no device is left open with nobody to close it; the scripts that the broker
  has counted are seen (those it has not are cut off without a question).

## Modules

| Module | Models | Notes |
|---|---|---|
| `Broker` | `broker.py` 64-331 over `transport.py` 36-247 | the complete server side of a port's life |
| `ArmQueue` | `simulator.py` 181-306, 420-606 | the arm; its frame handlers are functions on its state |
| `Driver` | `device.py` 271-414, 595-640, 810-944, `queue.py` | threads and `Dobot` objects over one arm |
| `Calls` | the promise of `send_frame` | abstract: requests, executed once, answered or failed |
| `Link` | `transport.py` 125-372, `broker.py` 264-298, `protocol.py` 161-208 | both routes over one line; implements `Calls` |
| `Panel` | `panel/panel.py` 74-158, 189-220, 383-740, `panel/widgets.py` 137-195, `device.py` 947-1016 | one control panel window |
| `Speeds` | `config.py` 107-209, `panel/panel.py` 117-127, 487-511, 763-791 | an arm's speed in its four places |
| `Hub` | `panel/hub.py` 38-76, 143-213, 308-359, `discovery.py` 252-305, the broker's counts | the panel program |
| `Route` | `device.py` 221-344, `transport.py` 43-48, 143-215, `discovery.py` 83-332, `broker.py` 373-417 | how a program gets to an arm |
| `MC...` | | constants, symmetry and users for TLC |
| `BrokerProofs`, `LinkProofs`, `DriverProofs`, `PanelProofs`, `HubProofs`, `RouteProofs`, `SpeedsProofs` | | the theorems about the module of that name |
| `FaultProofs` | | what a fault on the line of `Link` costs; extends `LinkProofs` |

`Driver` is composed with `ArmQueue`; `Link` has `SerialTransport`, the broker's relay
loop and `BrokerTransport` in one state; `Hub` and `Route` see the broker of module
`Broker` as one connection per client, or as the owner of a device.

### Broker

`transports`, `clientCounts`, `lazyAttached` and `connections` are the fields of
`DobotBroker`; a port without an entry has `None`, or 0. `pc`, `port` and `trans` are
each thread's place in `_handle_client` (or in a method the owner called), its
`port_name` and its local `transport`. A step is what another thread can see as
one: a block under `_transports_lock`; `close()` in its two parts, the device under
the transport's own lock and then the registry; one exchange with the arm. `attach`
holds `_transports_lock` while the device opens and `stop` holds it while it closes
every port, so `lockHolder` keeps it over several steps. `device` is the set of
transports whose serial device is open (a set, since a platform may let one process
open a device twice), `claimed` is `_OPEN_PORTS`. A client may leave at any moment
(`alive`), and a reply to a client that is gone may fail or not. `ownerOpened` is
history: which transports the owner's own `attach` opened.

Two threads may detach or drop at the same time, and a `SerialTransport` object that
nobody refers to may be reused as a new one (`Unreferenced`), so the number of
transports is a bound on those alive together, not on the length of a run.

### ArmQueue and Driver

`arm` is one record with the fields of `FakeDobot` that matter to the queue. A
command is a model value that is sent once; its class (a move, a move out of reach,
a setting, homing) decides how it leaves the queue. `Advance` is `advance_queue`
with its loop written as the set of commands that run at once. `outcome` is history:
what has become of each command. Positions, speeds and the geometry are left out.

In `Driver` a thread is in a call (`call`) at a place (`pc`) and has the locals of
`wait_for`. An action is one exchange, which the arm handles under its lock, or one
block under a lock of the `Dobot`; the reply of `queue_command` and the update of
`_last_queued_index`, or the two halves of `clear_queue`, are different steps. An
exchange may fail with its request executed or not (`ExchangeFails`, `SendFails`);
`MaxFailures` bounds how often, `MaxDepth` how deep batches nest.

`Spec` lets every thread call everything. Two narrower specifications say how the arm is
used where more can be promised, with the thread `s` that drives as their parameter.
In `DrivenSpec(s)` thread `s` still calls everything, raw queue control included, and its
exchanges fail; the others open windows, reconnect and jog, which is to start and stop the
queue, and their exchanges fail too (`StandBy`). In `DocumentedSpec(s)` thread `s` keeps to
`docs/api/queue.md` (`CallAsDocumented`: it leaves the queue to the batches, and waits for
nothing inside one), and the others jog. The runs and the theorems use the same ones.

### Calls and Link

`Calls` is what `Driver` and the panel rely on when they take an exchange for one
step: requests are numbered as they are asked, the arm executes each at most once,
and a caller gets the answer to its own request after that, or an error, and then the
request may be executed later or never.

`Link` is what stands behind it. `user` is a thread in `SerialTransport.send_frame` (a
thread of the program itself, or a handler of the broker) with `holder` as the
transport's lock; `inbox`, `wire` and `buffer` are the line to the arm, the line
back and the input buffer that `reset_input_buffer` empties; `socket`, `up` and
`down` are the broker's connections. A handler relays what a client asked even when
that client has left, and a client that gives up drops its socket and takes a fresh
connection (`Conns` must be more than one for that to matter). A request or its reply
may be lost or garbled, the arm may be late, noise may look like a header and mislead
the reader (`Misled`, `SwallowFrame`), the device or a connection may fail; `faults`
counts all of these. The refinement is the identity on the four variables of `Calls`:
`Link` carries them itself, changing them where the code hands a request over, executes
it, or returns.

### Panel

The Qt thread runs one slot after the other, and a slot waits for its exchanges: a
slot is one action, with the failures of its exchanges as choices. The pose stream and
the workers are threads and take steps between any two slots; `posted` holds the
`alarmsChanged` signals on their way, `home` and `move` the workers up to the slot that
ends them. `link` tells a connection that is closed (`bot.is_open` is false) from one
whose serial line is dead underneath, which only shows when the next exchange fails.
`stop_pose_stream` waits one second, so a stream may still be "leaving" while a new
one starts. `told` is history: what the status bar says at the end of the slot in which a
jog's stop failed. A released segment leaves "STOP FAILED" there; the two slots that disable
the pads (`arm_responds`, `start_homing`) go on to a message of their own. `JogHasButton`
speaks of windows on the screen: `closeEvent` stops no jog.

### Hub

A scan is a thread (`Workers`, two of them, so that one too many can be seen); a port is
claimed, probed and given back like any other user of the registry. `handler` is the
broker's handler of each client, a window's or a script's: the port, the place in
`_handle_client`, whether its client still listens, whether it has opened the port, and what
has become of its transport. `REPLY_OK` and the count are two steps; a reply that fails
releases a client that was never counted; `_drop_failed_transport` takes the transport out of
the map in one step and closes it in another, when its port may have been opened again, and
`Close` takes the claim away whoever has it. `tally` is `_client_counts`, kept as the set of
clients that are counted in: a release of an uncounted client takes some other one out.
`unasked` is history: the scripts, connected by the reply they have got, that were cut off
by quitting without a question. Closing a window is one slot with `remove_panel` and its
refresh. A client has one handler at a time: it connects again when the broker has released
its old connection (handlers of a client that has come back are in `Broker` and `Link`).

### Speeds

`ptp` and `jog` are the arm's two speeds, `slider` the window's, `file` and `active` the
saved ones. `save_arm_speed` is three steps (read, open, which empties the file, write)
for the GUI thread and for each script. `last` and `posted` are the stream's last sample
and its signals. Three variables are history: `wanted` (the speed last saved for each
arm), `overlapped` (two saves have met) and `unsent` (a speed did not get to the arm, and
none has since); the properties are conditional on the last two, which
is what the code can promise.

### Route

Each thread has a `Dobot` and is somewhere in `connect`, `disconnect` or a scan. `claimed`
is this program's registry and `device` who has the serial device open; the panel is
another program that starts, opens windows and ends. The answer of
`is_broker_reachable` is asked and stored in two steps, so it may be stale at once.
After the port is open, `connect` clears and starts the arm's queue, which may fail
(`Prepare`): then the device is closed, the claim given back (`GiveUp`) and the transport
forgotten, as after every other failure. `close()` takes a port out of the registry whoever
has put it in (`Discard`).

## Runs

| Run | Instance | Distinct states | Shows |
|---|---|---|---|
| `BrokerFull` | 2 clients, 1 port, 4 transports, owner does anything | 1,024,558 | types, no orphan port, no ghost client, no leaked device, no leaked registry entry |
| `BrokerLive` | 2 clients, 1 port, 2 transports | 146,120 | ports are released once clients are gone; `stop` returns |
| `DriverSolo` | 1 move, 1 refused move, 1 setting, 1 homing, batches nested twice, 1 failed exchange | 572,758 | what `True` means, batches, alarms |
| `DriverLive` | 3 commands, batches | 13,252 | every call but `set_home` ends |
| `DriverPanel` | script and panel, 1 move, 1 refused move, 1 homing, 1 failed exchange, all raw queue calls | 530,196 | `True` still means done, `wait_idle` and homing too, beside a window that opens, reconnects and jogs |
| `Link` | a local and a remote caller, 2 connections, 3 requests, 2 faults | 64,630 | one reader, clean line, own answers; the promise of `Calls`; calls and handlers end |
| `Panel` | 2 streams, watchdog after 2 failures, 1 fault, 1 signal on its way | 171,634 | jogs, controls, streams; silence, answers and alarms are noticed; a closed window is quiet |
| `Hub` | 2 ports with arms and windows, 3 refreshes | 92,328 | claims and devices, one scan, tags, names, refreshes |
| `HubScripts` | 1 arm with its window and 2 scripts, 2 refreshes | 677,509 | claims and devices, and the count of scripts, when replies and requests fail |
| `Speeds` | 2 arms, 2 scripts, speeds 40 and 150, 2 settings, 2 faults | 276,270 | the file keeps every arm's speed; slider, arm and jogs agree |
| `Route` | 2 threads, 2 ports, 1 arm, 1 start of the panel, 1 fault | 133,040 | no claim or device is left behind; programs that retry get to their arm |

Why these bounds are enough:

- The clients, ports and transports of `Broker` are interchangeable, and its races are
  between two threads over one port. The longest chain of transports needed is two
  failed ones still being closed, one in use and one being opened: four. `BrokerLive`,
  which has no symmetry to reduce it, has two: a failed one and the one that replaces it.
- In `Driver` there is a command of each class, each sent once: four in the queue let a
  wait look at the first, at the last, or at one that was refused. One failed exchange is
  enough for every place it can happen at, as a failure ends the call. `DriverPanel` has the
  second program, without batches. Larger instances were checked as well: a
  second move in `DriverSolo` (7,403,099 states), and batches in `DriverPanel` (3,757,885).
- In `Link` three requests are one that fails, one its reply could be taken for, and one
  to see that the line has recovered; two connections let a caller come back while the
  handler of its old connection still works.
- In `Panel` one fault, at any place, sends the window through loss and recovery.
  With two faults, so that silence and a broken line meet, the invariants were checked with
  two streams and two signals on their way (870,619 states, streams interchangeable), and
  `SilenceNoticed` with one stream.
- In `Hub` three refreshes let one be asked for during a scan that was itself asked for
  during a scan. Two ports show the numbering and tell a window's port from another. In
  `HubScripts` two scripts and a window are one client that leaves, one that finds the
  transport dropped and closes it late, and one that has opened the port again.
- In `Speeds` one speed lies within the slider's range and one above it; one script
  drives the window's arm and one another. The invariants were checked with three
  settings and three faults, too (6,845,092 states).
- In `Route` one thread names its port and one takes the first it finds, and one of the two
  ports has no arm. With one thread that requires the panel it was checked too (100,858
  states).

`CHECK_DEADLOCK FALSE` stands where a run really ends: the bounded requests of `Link`, the
refreshes of `Hub`, the settings of `Speeds` and the starts of `Route` are used up, and
windows and hubs are closed for good.

`DriverHome` is expected to fail: `set_home`, called during an alarm, waits forever behind
a queued move (`HomeReturns`; `simulator.py` 250, `device.py` 605). `PROJECT.json` quotes
the line of `device.py` that says otherwise.

### Statements the code does not keep

Besides `HomeReturns`, five statements of the repository are definitions of the modules
that TLC refutes. They stand beside the properties that do hold, and no passing run lists
them: name one in the run's configuration, instead of its properties, to see how it fails.

| Definition | Instance | What the repository says | What TLC finds |
|---|---|---|---|
| `StopFailureShown` | `Panel` | `CHANGELOG.md` 129: STOP FAILED is in the status bar "when stopping a jog fails" | 4 states: the slot that disables the pads, whose stop fails, writes over the message (`panel/panel.py` 661, 521) |
| `SilenceShown` | `Panel` | `docs/panel/overview.md` 25: "*Connected* only while the arm answers" | 7 states: another slot or the stream has closed the connection, `arm_responds` returns before it looks, and the window says Connected for ever (`panel/panel.py` 653) |
| `QuitAsks` | `HubScripts` | `docs/panel/running.md` 61: "The hub asks for confirmation while scripts are connected" | 4 states: a script that has its `REPLY_OK` and is not counted yet is cut off without a question (`broker.py` 246-254, `panel/hub.py` 338); so is one whose count the release of an uncounted client has taken away (`broker.py` 249) |
| `PortsClaimed` | `HubScripts` | `transport.py` 92: a port is claimed iff a `SerialTransport` holds it | 9 states: the late `close()` of a dropped transport takes the claim of the one that has replaced it (`broker.py` 307, `transport.py` 215) |
| `HeldIsClaimed` | `Route` | the same | 8 states: a `connect()` that is refused takes the claim of the thread that has the port (`device.py` 329, `transport.py` 215) |

Each has a companion that holds: a jog that goes on after its segment was let go has been
sent a stop (`JogHasButton`); silence on an open connection is noticed (`SilenceNoticed`);
counted scripts are seen (`ScriptsSeen`); and although a claim may be missing, none
outlives its device or its call, and no device is opened twice (`HubInvariant`,
`RouteInvariant`).

### Assumptions of single modules

They are constants or named operators, so that they can be switched:

- `Link`, `LateReplies = FALSE` (`Settled`): an answer that misses its own request arrives
  before the next one is written, or never. `send_frame` empties the input buffer before it
  writes; a reply that comes between that and the new one is taken for it, as a
  frame carries no number, and with `LateReplies = TRUE` `CallsImplemented` is violated.
- `Panel`, `Flaps = FALSE`: a cleared alarm is not back before the stream's next check. The
  stream reports changes only, and `clear_alarms` changes the banner behind its back.
- `Speeds`, `Hasty = FALSE`: a script sets a speed when the stream has seen the last one.
- `Panel`, `MaxPosted`: the GUI thread is not more than so many signals behind.

### Seen on the way

Places where the code and its documentation, or a reader's expectation, part. They were
met while modelling, and most can be read off the module named. Together with the
statements above:

- *Broker*
  - A release decides to detach under the lock and detaches after it (`broker.py` 331): a
    client that has attached in between loses its port (`docs/panel/broker.md` 65).
  - A handler that was about to attach opens a port after `stop()` has returned
    (`broker.py` 130; `docs/api/broker.md` 77).
  - A client whose `REPLY_OK` cannot be sent is released although it was never counted
    (`broker.py` 249): `client_count()` then reports one client too few, which is why
    `NoGhostClients` is a bound. `docs/api/broker.md` 131 promises the number of clients.
  - A mark in `_lazy_attached` left by a transport that is gone makes a client's release
    detach a port the owner attached later (`broker.py` 327; `docs/api/broker.md` 25).
  - A port is out of the map before `close()` has removed its registry entry
    (`broker.py` 305): a client that attaches in between is refused as busy
    (`docs/panel/broker.md` 67).
- *Driver*
  - A lost reply to `clear_queue` leaves an index in the `Dobot` that the arm never
    reaches: `wait_idle` waits forever (`device.py` 880 and 916; `docs/api/queue.md` 57).
  - An arm counts a refused move as executed, and the alarm is the only sign of it. When
    another program clears the alarm before `wait_for` has read it (`device.py` 911), the
    move returns `True`; and a program that connects restarts the indexes another one
    waits for (`device.py` 326). This is why `DriverPanel` leaves Clear Alarm and
    connecting to the script.
  - Opening a panel window starts the arm's queue, and with it the batch that a script is
    still filling (`panel/panel.py` 409; `docs/panel/running.md` 59 says that opening a
    window "does not affect a running script"). `BatchHeld` is about one program.
- *Link*
  - A late reply (above), and a request whose remote caller gave up: its handler still
    relays it, possibly after a newer request of the same caller on a new connection.
- *Panel*
  - An alarm that is cleared with the button and is back at once looks unchanged to the
    stream, and the banner says "No alarms" (`Flaps`).
  - Closing a window while a jog segment is held leaves the arm jogging
    (`panel/panel.py` 450).
- *Hub*
  - An arm whose window was just closed may be missing from the refreshed list, as the
    broker has not released its port yet (`panel/hub.py` 327, `discovery.py` 261).
  - Quitting closes the windows, and each of them starts a scan through `remove_panel`.
  - A window whose first connection failed closes itself before the hub listens, and is
    shown and kept all the same.
- *Speeds*
  - A speed that a script sets away and back between two samples goes unnoticed, and a
    report that was on its way moves the slider to a speed that is gone
    (`panel/panel.py` 125, against the comment at 117-119; `Hasty`).
  - A speed that was lost on its way to the arm is not sent to the jogs again while the
    slider already shows it (`panel/panel.py` 790).
  - `write_text` empties the file before it writes: a panel that reads it then falls back on
    its memory, and a write that fails in between leaves the file empty.
- *Route*
  - A `Dobot` keeps its route after `disconnect()`, so its next `connect()` fails once when
    the panel has come or gone since (`device.py` 242).
  - A probe that began before `start()` stores "no broker" after `start()` has cleared the
    cache (`broker.py` 389).

## Fairness

`Broker`: every handler thread that can take a step eventually does; all its waits
have timeouts in the code (the handshake, a frame under way, the serial reads), so an
exchange ends. Nothing is assumed of clients or of the owner's calls. `stop()` waits
for each transport's lock while handlers take it again and again; a handler waits
for its client's next frame between two exchanges with the lock free, and
`threading.Lock` is not held forever by a thread that releases it, so closing a port
in `stop` has strong fairness.

`Driver`: a thread in a call runs, and the motion loop ends a command that may run
(the simulator's thread ticks until the program ends). No fairness is assumed for
timeouts, failed exchanges or new calls.

`Link`: threads run, reads time out, the arm answers what it got and the line delivers.
`Send` has strong fairness, for the reason given for `stop()`: the transport's lock goes
to each thread that keeps asking. Nobody has to ask, give up, or connect.

`Panel`: the watchdog's timer ticks, workers and stream run, and the GUI thread takes what
is posted. The user need not do anything, faults need not happen, an alarm need not end.

`Hub`: the scan's thread runs and the GUI thread takes its results; scripts, users and
handlers need not.

`Speeds`: saves go on, the stream samples once a second, the GUI thread takes its reports
and ends its slot. Nobody has to let a slider go, and no arm has to come back.

`Route`: a call goes on until it has returned or failed, a cached answer expires
(`probe_cache_seconds`), and the broker releases a port nobody uses. `ConnectHeals` is about
programs that come back to `connect()` whatever else they ask in between, which is strong
fairness of `Connect`; its premises are that the other threads are away from the ports
for good (`Calm`) and that the panel either stays away or, for a program that wants any
arm, keeps some port open (`Served`): windows that keep opening and closing might
otherwise come in between each time.

Liveness properties are conditional where the code is: `PortsReleased` speaks of runs
in which all clients are gone for good, `CallsReturn` of programs that do not stop the
queue themselves and do not wait inside a batch, which the documentation says never
returns; `RefreshAnswered` ends with quitting, and the panel's properties with the window.

## Proofs

Each proof module holds the theorems of one component, for every value of its
constants. What they assume is the component's named assumption, which says what the
constants are (`BrokerAssumption`, `LinkAssumption`, `RouteAssumption`,
`SpeedsAssumption`, `DriverAssumption` with the classes of commands of
`CommandsAssumption`, `PanelAssumption`, `HubAssumption`), and what is written in the
theorem. Each inductive invariant was checked with TLC on an instance of the runs, or a
larger one, before it was proved.

| Theorem | Establishes |
|---|---|
| `BrokerProofs!TypeCorrect` | `Spec => []TypeOK` |
| `BrokerProofs!CountsBounded` | `Spec => []NoGhostClients` |
| `BrokerProofs!OnDemandPortsHeld` | `Spec => []NoOrphanPort` |
| `BrokerProofs!ClaimsSettled` | `Spec => []NoLeakedClaim` |
| `BrokerProofs!DevicesTracked` | `Spec => []NoLeakedDevice` |
| `LinkProofs!LinkSound` | `Spec => []LinkInvariant` |
| `LinkProofs!LinkImplementsCalls` | `~LateReplies /\ Spec => CallsImplemented` |
| `FaultProofs!FaultsCostOneCall` | `~LateReplies /\ Spec => []OneFaultOneFailure` |
| `DriverProofs!DriverTypes` | `Spec => []TypeOK` |
| `DriverProofs!QueueKeepsOrder` | `Spec => []Sound(arm)` |
| `DriverProofs!TrueMeansDone` | `DrivenSpec(s) => []OkMeansDone` |
| `DriverProofs!TrueMeansHome` | `DrivenSpec(s) => []HomeEndsAlarm` |
| `DriverProofs!OneIndexIsEnough` | `DrivenSpec(s) => []IdleMeansDone` |
| `DriverProofs!RaisedMeansDiscarded` | `DrivenSpec(s) => []AlarmDiscards` |
| `DriverProofs!NothingStartsInABatch` | `DocumentedSpec(s) => []BatchHeld` |
| `DriverProofs!BatchesRunWhole` | `DocumentedSpec(s) => []BatchRuns` |
| `PanelProofs!ControlsAndStream` | `Spec => []PanelInvariant` |
| `PanelProofs!JogsEnd` | `Spec => []JogHasButton` |
| `HubProofs!ScansAndClaims` | `Spec => []HubInvariant` |
| `HubProofs!RowsAreTrue` | `Spec => []TagTrue` |
| `HubProofs!HubSeesScripts` | `Spec => []ScriptsSeen` |
| `HubProofs!ArmsKeepTheirNames` | `Spec => NamesKept` |
| `RouteProofs!RouteConsistent` | `Spec => []RouteInvariant` |
| `SpeedsProofs!SpeedsKept` | `Spec => []SpeedsInvariant` |
| `SpeedsProofs!SpeedsAgree` | `~Hasty /\ Spec => []SettledAgree` |

*Broker.* Typing needs a little more than `TypeOK`: that a thread past its handshake has
a port, and past its attach a transport, is what makes `transports[port[c]]` meaningful.
The counts are kept by relating each change of `clientCounts[p]` to the thread that enters
or leaves `Serving`: only the release of a client that was never counted makes the
count smaller than the set, which is why it is a bound and not an equality. An
orphan port needs that a count above one implies another client that holds the port,
which is the same bound. The registry and device theorems need the lock invariant:
while a thread is opening a port nobody else changes the map, and a transport being
closed is the one its thread took out of the map.

*Link.* The invariant is `IInv`: types, with the three sequences of the line (`Typed`); who
reads has the lock, and what is on the line belongs to him (`Line`); every caller's request
is in one place (`Places`); nobody's request has a number not asked yet (`Numbered`); and a
request that is still waiting has not been executed (`Unsent`). The last two make "executed
once" inductive: a request is written once, by the thread that has it, and only a written
one is executed. The line stays clean because the next writer empties the buffer
(`Purged`) and, with punctual replies, finds nothing under way. The second theorem maps every
step of `Link` to a step of `Calls` or a stutter.

*Faults.* `OneFaultOneFailure` is not inductive: the fault comes first and its error later.
`Paid` counts all that is still to come: the errors told (`failures`), the calls that have
failed and not returned (`Owing`), the refusals on their way to a remote caller (`Refused`),
and the exchange under way, if something is wrong with it (`Spoiled`). Their sum never
exceeds `faults`. The sum stays when an error moves from one of these places to the next,
and an exchange that is spoiled twice still costs one call. That a spoiled exchange leaves
nothing to the next one is where `IInv` of *Link* comes in: the line is clean.

*Driver.* Three invariants, one for each specification. `IInv`: types; `Sound(arm)`, which
says that the queue holds what is queued, in the order of the indexes and ahead of the
executed one; `DepthsMatch`, the depth of a `Dobot` is the sum of its threads' blocks; and
`PlaceFits`, what is known of a call at each of its places. `DrivenInv(s)` adds what the
call of `s` holds about its command (`CallHolds`: it is behind its index, so that an executed
index at or past the target means that it has left the queue, and either it ran or an
alarm is still to be read) and that the others only control the queue. As long as no
exchange has failed it also holds `NothingBeyond`: nothing is queued past the index the
`Dobot` remembers. This is why `IdleMeansDone`, `AlarmDiscards` and `BatchRuns` have `failures = 0`: a lost reply to a queued
command leaves one queued that the `Dobot` does not know of, and a `clear_queue` that
fails after an alarm leaves what it should have discarded.
`DocumentedInv(s)` adds what the block `s` is in has queued (`BatchHolds`, `BatchEnds`). It
is not inductive with other threads that open windows, since that starts the queue, which
is the disagreement at `panel/panel.py` 409.

*Panel.* `IInv` adds to the properties what makes them inductive. `ControlsMatch`: a shown
window's controls are enabled *exactly* when it is connected and the arm is not homing.
`ControlsFit` has one direction only, but `finish_move` gives the pose values back by looking
at the connection and at homing, and not at the controls. `JogsFit`: a segment that is
held has set `_jogging`, so that its release does send the stop. `NotYet`: a window that
has not connected has no worker. Most slots begin with `arm_responds`, whose effect is one
lemma (`RespondsKeeps`), over one about `set_connection_state` (`SetStateKeeps`).

*Hub.* `IInv` adds to the properties that the one scan at work is the hub's current worker
(`OneWorker`, `ScansSound`); what is known of a handler at each of its places
(`HandlersSound`: only a counted client is in `tally`, only one that is not counted yet has
`opened`, and the port of a live transport is attached); that an open window's
connection is counted by the broker (`WindowsCounted`), without which `script_count` could
subtract a window that was never counted; and that no number is above the count of named
arms (`NumbersSound`), so that the next name is new. `BrokerSound` is the part about the
broker, which the steps of scans and rows leave alone. The step that needs most is
`ReleaseClient`: it takes out one count, perhaps another client's, and the port is detached
only when no count is left, by a handler that goes on to close it. `HubSeesScripts` is then
arithmetic over finite sets: counted clients less `tally` are the counts that were taken
away, and open windows are among the counted. `NamesKept` is an action property, from the
same invariant.

*Route.* The invariant is `Consistent`: types, with the record of each call (`Typed`), and
`NoOrphan` and `Owned`. What had to be added is `Located`: a call that is at a port, and a
`Dobot` that will use its old transport again, knows which port that is, and only the
direct route claims. Without it a call that gives up after its arm did not take the queue
could leave its claim behind, or a `Discard` take out one that belongs to no port of the
call. That a held port is claimed is not part of it: `HeldIsClaimed` does not hold. The
lemma `AwayKeeps` states once what a step away from the ports leaves alone.

*Speeds.* The invariant is `Steady`: types; while no two saves have met, at most one thread
works on the file, and it has its true contents (`Saving`); what the GUI thread is about
to send is on the slider, only a connected arm's slider is held, and a report on its way
is the last one of its stream (`WindowSound`); and `Following`: with the GUI thread free
and nothing unsent the jogs have the speed of the slider, and a difference to the arm's
own speed is still to be sampled or taken.

What stays with TLC: every liveness property and everything under fairness, which is
beyond this prover: `PortsReleased`, `StopReturns`, `CallsReturn`, `CallsEnd`,
`HandlersEnd`, `RefreshAnswered`, `SliderFollows`, `ConnectHeals`, and `SilenceNoticed`,
`AnswerShown`, `AlarmShown` and `ClosedIsQuiet` of the panel.
Every invariant and the action property of the passing runs are proved, those of `Driver` under
the specification named in the table. `Advance` of `ArmQueue` is proved
about as a set of commands that run at once, which is how the module defines it; that
this is what the loop of `advance_queue` computes is the reader's comparison.

## Plan

Done: `Broker`, `ArmQueue` and `Driver`, `Calls` and `Link` with the refinement, `Panel`, `Hub`,
`Speeds` and `Route`, all with their proofs.

Next:

1. *Driver*: what is left when exchanges fail (which calls may then lie, and which not),
   and the same theorems with two `Dobot` objects that both drive, as far as they hold.
2. *Broker*: an abstract registry of attached ports that `Broker` implements, step by step.
3. *Speeds* and *Route*: action properties (whose claim a step may discard, whose entry a
   save may change) from the invariants that are proved.

## Not modelled

Tables and texts (`alarms.py`, `panel/alarm_text.py`, `errors.py`), the checks of
`permissions.py`, painting, layout, the command line and the shortcuts keep no state
another part relies on. Loading and checking the configuration happens once, before
anything runs. The geometry of the simulated arm, poses, the values of settings other than
the speed and the formatting of frames are abstracted to the outcome of a command or to a
request's identity. Scripts, examples, documentation and tests are read for what they
promise. `broker.py` 262, a socket option that could fail between counting a client and the
block that uncounts it, is left out: it does not fail on a connected socket.
`close_open_transports` runs when the process ends, after everything modelled here.
Two threads of a script on one `Dobot` with a batch in one of them (`device.py` 412) are
a use the documentation promises nothing for.
