# A verification of RTS2

RTS2 runs robotic observatories. Every piece of equipment is a process, every
process keeps a TCP connection to a central server, `centrald`, and they agree by
exchanging *status words*. Nothing opens, closes or moves on the strength of one
process alone, so what is hard is not in any of them: it is in the order in which
words, lost connections, timers and commands cross.

This directory models the two processes that decide whether the building is open,
the central server and the dome; the way commands travel between processes and wait
for each other (the command queue of a connection, the link to the central server,
the rounds of status calls); and the camera skeleton. TLC checks all of them on small
instances, and TLAPS proves every safety property the runs check, and the refinement of
the command queue, for observatories of any size; two of the proofs rest on a hypothesis
that "The proofs" explains.
`PROJECT.json` lists the runs, theorems, hazards and findings, and maps every
definition to the source lines it models.

## Inventory

All processes are single threaded: `Block::oneRunLoop` polls the sockets, fires
due timers, and calls `idle`. One handler runs to its end before the next, so one
handler is one atomic step; interleaving happens between handlers and between
processes.

| component | state | operations | what must hold |
|---|---|---|---|
| centrald (`src/centrald`) | connections and last word of every device, `required_devices`, state word, bad weather lists, `open_sequence` and its progress, close timers, next sun event | register, status report, loss of a link, on/standby/off, forced periods, open/close by hand, configuration reload, sun event, close timeout | decisions are unanimous and explained; sequences are justified, wait for what was ordered, and end |
| dome skeleton (`lib/rts2/dome.cpp`) | status word, retry timer, `ignore_time`, `next_open`, `auto_close`, `weather_open`, links to and words of the central servers, master state | open, close, stop, close_for, reset_next, state change, retry, idle | opens only in weather all agree on, closes in bad weather, reports what it really does |
| device framework (`block.cpp`, `connection.cpp`, `daemon.cpp`, `device.cpp`) | connections, command queues, values waiting for a state, BOP word | connect, authorise, queue and send commands, set values, mask the state | commands run once and only when nothing blocks them; a handshake admits only whom centrald knows |
| cupola (`cupola.cpp`) | target, synchronisation | move, follow, stop | leaves slewing when it arrives or fails |
| camera skeleton (`camd.cpp`) | exposure, readout, queue length, shutter | expose, stop, read | never exposes while blocked; each exposure is read or cancelled once |
| telescope skeleton (`rts2tel/teld.cpp`) | target, corrections, move number | move, correct, park, stop | corrections of an old target are dropped; blocks are released |
| executor and scripts (`plan/executor.cpp`, `rts2script`) | current and next targets, queues, per-device scripts, waits | next, now, stop, script end | every observation ends; scripts do not wait for each other in a circle |
| selector (`plan/selectordev.cpp`) | queues, next id | select, queue | an interrupted selection leaves no target lost |
| child processes (`connfork.cpp`) | pid, pipes, timers | start, read, terminate | a child is reaped once and a hung one is killed |
| image processing, alerts, scheduler, web servers, database, FITS, monitor, drivers | various | input and output, numerical search | not protocols; not modelled |

How they interact:

- a device *registers* with centrald and then reports every change of its word;
- centrald *votes* on the words of all devices, *masks* its own state word with
  the result, and broadcasts it;
- every device follows the words of the central servers it is connected to
  (several observatories may share a dome; one server is the *state master*);
- centrald queues `open` and `close` commands for the devices of `open_sequence`,
  one at a time, and waits for their `DEVICE_BLOCK_OPEN` and `DEVICE_BLOCK_CLOSE`
  bits;
- the dome asks centrald for `standby` and `on`, and votes on the weather itself.

What is hard: a dead connection is known to one part of a process before another;
handlers mask the state word several times and each mask runs further handlers;
timers outlive what they were set for; words of several servers overtake each
other; drivers fail in the middle of a movement. The hazards in `PROJECT.json` name
the lines.

## The modules

### Centrald

`Centrald.tla` models `src/centrald/centrald.cpp`.

- `conns[d]` is the connection of device `d`: `none`, `connected`, or `delete` (marked
  by `connectionError` and still listed until `Block::pollSuccess` removes it), with
  the last status word. A word keeps what the votes and sequences read: readiness,
  weather, stop bit, block bits.
- `st` is the state word; `required`, `openSequence`, `badWeatherDevices` and
  `badWeatherDevice` are the published values.
- `oc` is the open/close bookkeeping: `openClose`, `openCloseLast`, `failedClose`, the
  pending `EVENT_CLOSE_TIMEOUT` timers oldest first, the last command queued for every
  device, and, as history, who started the sequence. It is one record because
  `stateChanged` may run twice in a handler (weather mask, then stop mask; in the
  morning on/off mask, then period mask), each time starting a sequence: the
  operators take it and return it, in the order of the code.
- `sun`, `due`, `nextType` are what `next_event` would compute, whether the event time
  has come, and `next_event_type`.
- `unvoted` and `overridden` are history variables: the devices required since the
  last vote, and a period forced by the operator.

One action per handler: `register`, `setState`, `connectionError`,
`connectionRemoved`, `clientRemoved`, `changeState`, `changeStatePeriod`, `clientOpen`,
`clientClose`, `setRequired`, `setOpenSequence`, `signaledHUP`, `idle`, `closeTimeout`;
`SunMoves` is the environment.

Left out: client logins, keys and `authorize`; BOP bits and `status_info` counting;
messages and the texts of reasons; `info` values such as sunrise; writes of the horizon
values (they only bring the next event forward, as a reload does).

### Dome

`Dome.tla` models `lib/rts2/dome.cpp` with the part of the framework that decides
whom it follows (`Block::setMasterState`, `DevConnectionMaster`).

- `dm` is the dome state, block bits, `BOP_EXPOSURE`, `DOME_STOPPED` and weather bit of
  its status word, whether `EVENT_DOMECLOSE_RETRY` is pending, and the motor of the
  driver. One record, because `domeCloseStart` may follow `checkOpening` in one `idle`.
- `shutter` and the motor are the external driver: a shutter with two end switches.
  `isOpened` and `isClosed` answer by the switches and may report an error, `startOpen`
  and `startClose` may fail, and `startClose` may ask to wait until the equipment is
  stowed; `Faults` says which of these happen.
- `link`, `word`, `master`: the connection to every central server (`broken`, `pending`
  registration, `told` its first status, `up`), its last word, and `masterState`.
- Times are kept as whether they have passed: `ignore` (`ignore_time`), `waiting`
  (`next_open`), `silent` (no contact with all servers for too long), `settled`.

Actions: `idle`, `closeRetry`, `masterStatus`, `connectionError`, `connConnected`,
`registered`, `commandOpen`, `commandClose`, `domeStop`, `closeFor`, `resetNext`,
`setWeatherTimeout`, `setValues`; `timesReached`, `settleTimeReached`,
`contactTimeReached` and `shutterMoves` are time and the driver.

Left out: `endOpen` and `endClose` (driver hooks without effect on the state),
`closeFailReported` (it only limits logging), polling intervals, BOP bits and
the stop bit of the master word (a change of that bit alone runs `changeMasterState` again,
which does no more than `commandOpen`), the rotation of a cupola.

### Connection, CommandQueue and CommandOrder

`Connection.tla` models the part of `lib/rts2/connection.cpp` and `command.cpp` that
both ends of every link share: `queCommand`, `queSend`, `queClear`, `queEmpty`,
`commandReturn`, `sendNextCommand` and `sendCommand` with the BOP precondition. It has
no variables; a connection is a record with its state, `commandQue`, `runningCommand`
(a command keeps its mask, whether it waits *while* a state, and how far its status
call has come), `runningCommandStatus`, the BOP state and what is written to the
socket. Each operator takes the record and returns it.

`CommandQueue.tla` puts a client's connection between that queue and a device that
executes, answers and tells its BOP state. The life of the connection is part of it:
authorisation by key, refusal, a broken link, destruction with the queue. Actions:
`QueCommand`, `ClearAll`, `Connected`, `SetKey`, `DeviceExecutes`, `DeviceBop`, `ReadBop`,
`ReadReturn`, `Break`, `RemoveConnection`.

`CommandOrder.tla` is what the queue promises to those who use it: commands are
carried out one at a time, in the order they were queued, none twice. (None of these is
urgent: only a status call goes to the head of the queue, and it has no name here.)
`CommandQueue` implements it (`KeepsOrder`). The mapping is not the identity: `todo` is the
names of `Unsent`, the running command if it has not been sent and then the queue, and
`live` is the running command once it has been sent. While a command waits behind its own
status call it stands in the queue and the status call is what runs; the abstract queue
knows neither status calls nor keys.

### MasterLink

`MasterLink.tla` models `DevConnectionMaster` of `lib/rts2/device.cpp` over the same
`Connection`: a link that is never deleted, is broken and made again, registers ahead
of everything queued, and may find its own name still taken at centrald by its
previous socket. `registered` and `taken` are centrald's side of it.

### StatusRound

`StatusRound.tla` composes clients, devices and centrald. Before a command with a BOP
mask is sent, the client asks the device (`device_status`), the device asks centrald
(`status_info`), and centrald asks every device that may block the first one, counts
their answers in `statusCommandRunning`, and answers with the BOP state made of their
words; a device that nobody listed blocks gets the plain return and no BOP state. `conn`, `master` and `peer` are the connections of the three kinds, all with the
queue of `Connection`; `word` and `waits` are what centrald keeps; `owner` is
`deviceStatusCommand`. Devices in `Mortal` may crash at any point; centrald notices
later (`CentraldRemoves`), and until then the device is listed and owes its answers.
`since` is history: the work that has gone on since a round began.

A device of `Cameras` queues value changes while it is at work or reads its chip (`held`,
`reading`). When they are made, at the end of the work (`Idles`), at the beginning of the
readout (`BeginsReading`) or at its end (`ReadingEnds`), `checkQueChanges` tells the clients
the camera's own word for a BOP state and ends a pending `device_status`; `overwritten` is
history and names the cameras that have done so since centrald last told them. Only
cameras queue changes in RTS2, one telescope value apart that clients cannot write.

Actions: `ClientQueues`, `ClientReads`; `DeviceReadsClient` (`AsksStatus`, `Runs`),
`QueuesValue`, `DeviceFinishes`, `ReadingEnds`, `DeviceReadsMaster` (`AnswersStatusInfo`,
`ReadsBop`, `ReadsReturn`), `Crash`; `CentraldReads` (`StatusInfo`, `StatusReport`,
`StatusReturn`), `CentraldRemoves`.

### Camera

`Camera.tla` models the state machine of `lib/rts2/camd.cpp` with the value queue of
`lib/rts2/device.cpp`. An exposure asked for may begin, be counted in `quedExpNumber`,
wait for `BOP_EXPOSURE` to clear or wait for queued value changes. The methods call
each other in a circle (`maskState`, `checkQueChanges`, `setFullBopState`,
`startExposure`, `maskState`). The circle is unrolled: an operator named `...With` takes
the `setFullBopState` it calls as a parameter, and a flag `cut` in the state says that
the unrolling was too short; `TypeOK` says that this never happens. Actions: `Expose`,
`SetValue`, `ExposureEnds`, `ExposureFails`, `ReadoutEnds`, `FilterMoveEnd`, `KillAll`,
`StopExposure`, `ScriptEnds`, `DeleteConnection`, `BlockersChange`, `CentraldTells`,
`CentraldAnswers`, `ReadBop`. `told` and `news` are the BOP bits of the last status word the
camera sent and whether centrald has read that they changed; if they did, it tells every
device its BOP state, the camera too (`CentraldTells`). A `status_info` is answered with
the BOP state, or, when centrald has no device to ask, by the plain return on which the
camera does nothing; `silent` is history and says that this was the last answer. The
external driver may refuse to start an exposure, and the connection for its data may be
missing when it is to be read.

Left out: shutter control, image data and its connections, a `readoutStart` that fails (it changes nothing), exposure timing, statistics,
temperature control, and cameras that take a new exposure while they read the last one
(see "Known disagreements").

Operators whose name starts with `Faulty` are plausible mistakes in the definition
they precede. The specifications never use them; each shows that a property would
notice the mistake.

## The runs

Passing runs:

| run | instance | shows |
|---|---|---|
| centrald_votes | 2 devices, `required` {d1} or {d1,d2}, all votes, empty sequence | `WeatherUnanimous`, `MoveUnanimous`, `WeatherExplained`; `DeadRequiredVoted` under fairness |
| centrald_sequence | 2 devices in sequence, every combination of block bits, on and off, at most 2 pending timers | `SequenceJustified`, `LastWasOrdered`, `GivenUpWhileClosing`; `CloseSequenceEnds` under fairness |
| centrald_day | 1 device, all six periods, all on/off states, forced periods | `TypeOK`, `PeriodFollowsSun`, `OffStaysOff` |
| dome | 1 server, on at night, weather good or bad, every driver fault | `TypeOK`, `StatusCoherent`, `MovementIsDriven`, `RetryWhileWaiting`; `BadWeatherCloses`, `OpeningEnds`, `ReluctanceVoted` under fairness |
| dome_masters | 2 servers with 3 words each, driver without faults | `OpensInGoodWeather`, `OthersOnlyRestrain` |
| command_queue | 4 commands: plain, two that wait for a bit to clear, one that waits while it is set | `TypeOK`, `ReturnsMatch`, `StatusTells`; the refinement `KeepsOrder`; `Served` under fairness |
| master_link | 2 queued commands, 1 urgent one, 3 losses of the link | `TypeOK`, `RegistersFirst`, `StrandedByBreak`; `BackUnlessStranded` under fairness |
| status_round | camera with value changes, blocked by mount and focuser; a client each for camera and mount; no crash | `TypeOK`, `QuietAgree`, `RoundIsFresh` |
| status_lost | mount and camera block each other, the camera may crash; no value changes | `AnsweredOnce`, `RoundIsOwed`; `CommandEnds` under fairness |
| camera | 1 client, 3 exposures, a filter wheel and a window, both BOP bits, every driver fault | `TypeOK`, `HoldsMount`, `NoneUnasked`, `NoneForgotten`, `WindowKept` |

Bounds. Two devices suffice for the votes, which treat every device alike: one can
object while the other changes. Two are needed in a sequence for "the next one" to
exist. `MaxTimers = 2` lets one stale timer be pending beside the current one; it is a
conjunct of the actions that arm a timer, so behaviours with more pending timers are
not explored by TLC (the proofs take any bound). Two servers give a state master and
another one. All periods occur in the day run; elsewhere only night matters, because
`stateChanged` distinguishes night from the rest.

Two commands that wait for a bit are needed in the queue for one to be overtaken while the
status call of the other runs; `MaxInput = 2` lets a BOP state and a return cross. Three
losses of the link let it break before, during and after a registration. Three devices are
the least in which a round waits for two debtors, and the mount's work is what the round and
the camera's own word may tell wrongly. Two devices that block each other are the circle
that could deadlock; both have rounds of their own, and one is lost with its debts. Value
changes and a crash together, with three devices or under fairness, exceed what TLC finishes
in minutes; the proofs of the safety properties have both. `CommandEnds` has also been checked,
outside the runs, with value changes, without a crash, and one client with two commands for
the camera (`MCTwoRuns`, `Clients = {"x2"}`). Three exposures put one on the chip, one into
the count and one into a wait; `MaxLine = 1` bounds only what `BlockersChange` adds, what
centrald answers or tells comes on top. One client may lose its connection and come back,
which is all that the properties of the camera run see of clients; who is answered takes two
(`OkIsOwed`).

Fairness. The main loop never ends, so `idle` and due timers run (weak fairness). A
link marked for deletion is removed by the next `pollSuccess`, which the keep-alive
traffic of the other connections brings about. Nothing is assumed of devices,
operators, the sun or centrald's words. For the dome, strong fairness on the driver
says that it is not dead: a close asked for again and again starts, a shutter driven
again and again moves. Without it no software closes a roof. For the command queue, the
link and the rounds, both main loops read what has arrived on each of their
connections and centrald notices a dead socket in the end; work of a device ends.
Nothing is assumed about a link's staying up, or about clients asking. The camera run
has only safety properties: `NoneForgotten` says as an invariant what liveness there
would rest on.

Runs that find a violation, each of one sentence of the repository:

| run | what happens |
|---|---|
| centrald_close_unwatched | opening waits for d1; the state changes; closing finds d1 already in `open_close_last` and arms no timeout |
| status_overwritten | two clients ask the mount for its `device_status` before centrald has answered; the second overwrites `deviceStatusCommand`, and the first is never answered, so its command waits forever |

### Known disagreements

The modules name further statements of the documentation or the comments that the code
does not satisfy. None has a run of its own; each is reproduced by adding the name as a
property to the configuration given.

| statement | add to | what happens |
|---|---|---|
| `VoteRefreshed` | `MCCentraldVotes.cfg` | `required_devices` is extended by a reload while the weather is good; no vote follows, though the comment of `weatherChanged` says it is called periodically |
| `OwnTimeout` | `MCCentraldSequence.cfg` | d2 closes in time, d1 is ordered next, the timeout of d2 fires and puts d1 into `close_failed` |
| `PeriodFromMaster` | `MCDomeMasters.cfg` | the second server's bad weather makes its day the dome's day, though the manual page says only the state master changes the period |
| `AllAtLeastStandby` | `MCDomeMasters.cfg` | the state master opens the dome while the other server is hard off, though the manual page asks for at least standby everywhere |
| `ClosedIsNotOpening` | `MCDome.cfg` | close comes while the opening shutter still touches the closed switch; `CLOSED` is reported and the motor opens |
| `ComesBack` | `MCMasterLink.cfg` | a command is under way when the link breaks; it stays `runningCommand` with status `SEND`, so the next `register` is only queued and never sent: the connection is broken "so we can wait for server reconnecting" (`device.cpp:252`) and then waits for good |
| `BlockIsKnown` | `MCStatusRound.cfg` | the camera makes value changes while the mount, which blocks it, moves; `checkQueChanges` tells the clients the camera's own word for the BOP state (`device.cpp:937`), and no BOP bit changes that would make centrald tell again, though `connection.h:190` says the state includes the connections of block_by |
| `ReadoutEndExposes` | `MCCamera.cfg` | an exposure that waited for value changes is counted and asks centrald for the BOP state (`camd.cpp:643`); no listed device blocks the camera, the answer is a plain return (`centrald.cpp:1079`), and the exposure is never begun, though the diagram at `camd.h:191` exposes when the readout ends |
| `OkIsOwed` | `MCCamera.cfg` with two clients and `MaxAsked = 2` | the exposure of a second client waits for value changes, so `exposureConn` is still the first client; when it begins the first client gets the `OK` of the second, which `camExpose` means to send "after we finish" (`camd.cpp:1796`) |

Met while modelling, and outside what the properties say:

- when `startClose` fails on a retry (`dome.cpp:168`) the timer has been deleted and no
  new one is armed, so the dome stays in `DOME_WAIT_CLOSING` until bad weather, a command
  or a state change tries again;
- a BOP message of centrald that was on its way before the round began ends a
  `device_status` early (`device.cpp:1088`), although `device.h:153` says that the call
  ensures that the proper state is retrieved; `RoundIsFresh` is therefore about the
  answer centrald gives, not about the one the client takes for it;
- an `expose` while an earlier one waits for `BOP_EXPOSURE` replaces it
  (`camd.cpp:1799`): `NoneUnasked` is an upper bound for this reason. A readout without
  a data connection ends a command nobody waits for (`camd.cpp:1896`), and after it, or after an
  exposure that did not start, nothing begins the next one counted: `failed` in
  `NoneForgotten`. If the client is lost while the filter turns, a start that fails ends the
  command of no connection (`camd.cpp:1810` does not test `exposureConn`);
- `Camera::killAll` makes queued value changes through `maskState` before
  `Device::killAll`, which is to "remove all queued changes - do not perform them"
  (`device.cpp:1043`), drops the rest;
- with `FrameTransfer = TRUE` (of the cameras in the repository only the dummy driver)
  `NoneUnasked`, `HoldsMount` and `WindowKept` fail.

## The proofs

A module `XProofs.tla` holds the theorems about `X.tla`: Centrald, Dome, MasterLink,
CommandQueue, Camera and StatusRound; `StatusFreshProofs.tla` continues
`StatusRoundProofs.tla`. They prove every invariant, every action property and the
refinement that the safety runs check, for every value of the constants that meets the
named assumptions. These say what the configuration is made of (types, distinct names).
Two theorems have a hypothesis of their own, see Centrald and Camera.

Centrald. The inductive invariant is `TypeOK`, `WeatherUnanimous`, `MoveUnanimous`,
`WeatherExplained` and `SequenceJustified` together. Types are needed by all the
others; `WeatherExplained` needs the weather vote it explains. The lemmas follow the
code: `DoOpen`, `DoClose` and `StateChanged` say what sequencing preserves,
`VoteIInv` what a vote establishes, `RemovedIInv` and `MaskIInv` lift them to handlers,
and `NextIInv` has one step per action. The unanimity proofs need that a vote not
taken is one whose words have not changed, which is how `setState` decides. The minimum
and maximum that `doOpen` and `doClose` choose exist by well-foundedness of the naturals.
`PeriodIsTheSuns` adds that `next_event_type` is one ahead of the sun once the last
event is handled; it is proved for `Polar = FALSE`, and false otherwise.
`OnlyTimeoutsGiveUp` and `OffIsKept` are action properties from the same invariant.
`LastIsOrdered` needs one fact more (`Ordered`): while a sequence opens or closes, there is
a device it waits for, and the last command queued for it has that direction. `doOpen` and
`doClose` establish it together, as either orders the device it then puts into
`open_close_last`. The hypothesis is that no configured `open_sequence` is empty. With an
empty one `doClose` returns before it resets `open_close` (`centrald.cpp:1153`, a listed
hazard): the sequence closes for ever and waits for no device.

Dome. The inductive invariant is `TypeOK`, `StatusCoherent`, `MovementIsDriven` and
`RetryWhileWaiting`. As a predicate on the record alone it is `Sound`, which
`domeOpenStart`, `domeCloseStart` and `checkOpening` are shown to preserve whatever the
driver answers; the actions only compose them. `MovementIsDriven` must say that the motor
is at rest, not merely that the end is reached, or a motor still running the other way
would break it in the next step. `OpensOnlyInGoodWeather` and `OthersCannotOpen` then
follow for any number of servers.

MasterLink. `RegistersFirst` alone is not inductive: it does not say why a command queued
on a fresh socket is not sent. `IInv` adds that, while the connection is pending, a
command always counts as sent, the register command or one stranded by the loss of an
earlier socket, in which case nothing is under way at all; that an open connection is
registered; and that centrald answers nothing with success before. As no command of a
device to centrald has a BOP mask, the lemmas `SendPlain` to `StatePlain` reduce the
operators of `Connection` to what they do with plain commands. The same step lemma gives
the action property `StrandedByBreak`. Any sets of commands and any number of losses are
covered.

CommandQueue. `ReturnsMatch` and `StatusTells` say how many returns are to come and what the
status means; neither says why. `IInv` is about the shape of the commands held: the
progress of a command (`cip`) tells whether it may stand in the queue (`Pending`) or run
(`Started`), no command is held twice (`Single`), the status agrees with the running command
(`Told`), an open connection is never idle before a non-empty queue (`Linked`), and the one
return among the lines is there exactly while something sent has left the socket
(`Matched`). All but the last are predicates of the connection alone, so one lemma for each
operator of `Connection` carries them; the chain `sendNextCommand`, `sendCommand`, status
call, is followed once. `HeldIn` keeps a name that is not yet queued apart from those held.
In the refinement `QueueKeepsOrder` a step of the queue is a step of `CommandOrder` or
leaves `todo` and `live` alone; each action that changes them has a lemma that computes both after the step.
Sending a status call is the case to look at: the command goes back to the head of the
queue, and `Unsent` stays what it was.

Camera. The theorems assume `FrameTransfer = FALSE`; with frame transfer three of the
properties fail, as TLC shows ("Known disagreements"). `Apart` is the fact that frame
transfer breaks: no image is read while the next is exposed. `IInv` adds to it that value
changes wait only for the chip (`Queued`), that an exposure waiting for them does not
outlast them (`Resumed`), and that a counted exposure in front of a free chip waits for the
BOP state or the filter (`Waiting`), and is told in the end: when every BOP state has been
read, something is still moving, asked or blocking (`Promised`, in `LineInv`), unless
centrald answered without a BOP state (`silent`): the exception `NoneForgotten` makes, and
`ReadoutEndExposes` shows that it is needed. Exposures
begun, counted and waiting never exceed those asked for. As the methods call each other in
a circle, no method can be shown to keep `IInv`, which does not hold between them. `Goes`
relates the camera before and after any of them, is reflexive and transitive, and is shown
for the methods from the innermost unrolling outwards; `Carries` adds what the camera
believes of the BOP state. That `cut` is never set, which `TypeOK` asserts, is part of
it: three calls deep is deep enough.

StatusRound. `AnsweredOnce` speaks of living devices and `RoundIsOwed` of listed ones, and
neither is inductive. `IInv` says that both ends of a listed link are plain connections
(`Linked`: commands without masks, and centrald never asks a device on its own behalf);
that what centrald has asked on behalf of a device is for a round it counts, and not twice
of the same device (`Asked`); that a counted round is owed (`Owed`); and, also for a device
that is dead but still listed, that at most one round is under way, counted or on its way
back (`Balanced`). The last is what a return that finishes a round needs: it can end no
other. The counts are cardinalities of sets of places in a line; `AmongAppend` and
`AmongTail` say what a line written or read does to them. Devices that crash take part
with what they have written before.

StatusFresh. Both theorems rest on the order of the lines of one socket. `Shows` says with
what a reader of the lines ends up, given what is known already. `Shown` is that centrald
would end up with whether each living device is at work, each living device with whether
whether something centrald knows of blocks it, and each client with what its device has told
it. What was told is what the device knows (`Fits`), but for value changes that wait, which
count as a block, and for its own word told since centrald's last message (`overwritten`). So
`WhenQuietAgreed`, which is `Shown` with all lines empty, is exact for devices that queue
nothing. For a camera it says that no block is claimed without one or a value change that
waits, and that one can be missed only after the camera has told its own word. For `RoundsAreFresh`, `KnownAt(s, w, t)`
says that by each line `t` of `s` the work of the writer has been told, and that no end of it
follows. `Fresh` says of each device `e` at work since the round of `d` began that it still
has to be asked, or is asked and will have told its work by its return, or that its work is
known (`Owes`); of `d` itself, that its work is told by the time its `status_info` is read;
and that the call centrald counts as running is on the line or its return is (`Served`).
`Keeps` is what reading a line or writing one while at work does to this.

The proof of `StatusRound` found a fault of the model that TLC had not: two arms of a `CASE`
in `ClientReads` overlapped, and TLA+ leaves open which of them is taken, while TLC takes the
first. It is one `IF` now.

Only model-checked: the liveness properties (`DeadRequiredVoted`, `CloseSequenceEnds`,
`BadWeatherCloses`, `OpeningEnds`, `ReluctanceVoted`, `Served`, `BackUnlessStranded`,
`CommandEnds`), which need fairness and ENABLED.

## Plan

In order of importance:

1. *Observatory*: Centrald and Dome joined by first-in first-out links with delay and
   loss, one dome in the opening sequence. Abstract specification: a building that is
   driven open only after the servers agreed and is closed after they stop agreeing; the
   composition is to refine it. This shows what the separate modules assume of each
   other: that a word is eventually delivered, and how old it may be.
2. *Auth*: the three-party handshake of device, client and centrald, with
   disconnections in between.
3. *Telescope* skeleton, over the command queue; *Cupola* as an extension of Dome; the
   shutter and data connections of the camera.
4. *ExecutorQueue*, *Executor*, *DevScript*: observations end, scripts wait for each
   other without a circle, the queue loses no target.
5. *ConnFork*: time-out and kill escalation against a child that ends late; *Selector*.

Theorems to come: an abstract specification of a round (asked, pending on a set of devices,
answered) and the refinement of `StatusRound` to it, for which `Asked`, `Owed` and `Balanced`
are the invariant; that the status call of a client is followed by its command unless a BOP
state forbids it; and the refinement of the observatory.

## Not modelled

Hardware drivers (represented by their contract), databases, FITS output, web and
XML-RPC servers, user interfaces, and numerical code (scheduler, sun positions,
astrometry): they are input and output or computation without a protocol of their own,
or depend on services outside the repository.
