# Verification of the C2000 inverter firmware

TLA+ models of the inverter firmware for the TI C2000 board
(`src/platform/c2000`, with the shared `src/libopeninv`) and of the operating
mode and torque path of the STM32 board (`src/platform/stm32f1`), checked with
TLC and proved, where this file says so, with TLAPS. Line numbers refer to
`src/`.

1. [The system](#1-the-system)
2. [Modules](#2-modules)
3. [From code to model](#3-from-code-to-model)
4. [Runs](#4-runs)
5. [Proofs](#5-proofs)
6. [Disagreements found](#6-disagreements-found)
7. [Not modelled, and the plan](#7-not-modelled-and-the-plan)

## 1. The system

### 1.1 What runs when

The firmware has no operating system. After start-up `main`
(`platform/c2000/inverter/inverter_main.cpp:376-543`) repeats one loop: count
down the print timeout, go on printing a requested document, answer a pending
SDO command, send the mapped CAN messages, pass two values to the PWM module,
wait 5 ms, and print a log dump if one is due. Everything else happens in
interrupts:

| interrupt | where | what it does |
|---|---|---|
| CAN receive | `inverter_drivers/c2000_can.cpp:207-266` | hands each frame to `CanHardware::HandleRx`, hence to the SDO server, the CAN map and the logger; sends SDO replies; prints the first bytes of a document |
| ADC | `inverter_drivers/pwmdriver.cpp:140` | the motor control loop |
| CPU timers | `inverter_drivers/scheduler.cpp:34-50` | oil pump every 10 ms, watchdog strobe every 100 ms |

Interrupts do not nest, so an interrupt handler is atomic towards the main loop
and the other handlers, while the main loop can be interrupted between any two
accesses to memory. No lock or critical section protects the variables the two
share, with two exceptions: SAVE and LOAD disable interrupts
(`sdocommands.cpp:81-99`), SAVE for more than a second. The models therefore split
every main-loop path into one action per access to shared state and keep a
handler in one action, unless the handler runs code of the main loop's own kind
(`PrintParamsJson`, `C2000Can::Send`) or something else, the CAN
controller or a device on the SPI, works beside it.

On the STM32 board the scheduler's interrupt runs `Ms10Task` and `Ms100Task`
(`platform/stm32f1/inverter/stm32_sine.cpp:51-229`), the PWM timer's break
interrupt comes at an over-current and precedes both, and `main` runs the
terminal, which can start and stop the inverter and be preempted by either.

### 1.2 Components

| component | state | operations | what makes it correct |
|---|---|---|---|
| SDO string transfer | ring `printBuffer` with two indices, `printTimeout`, `printOverflow`, `printRequest`; statics of `PrintParamsJson` | read of 0x5001, segment read, `PutChar`, `TriggerTimeout`, `PrintParamsJson` in two contexts | the ring is a FIFO; the client reads the document; the request ends |
| SDO mailbox and commands | one frame and its flag | store a request; compare, run and answer it; reset | each request runs once and gets its own answer |
| CAN map | two arrays of messages, one array of linked items | add, remove, clear, find | lists intact, messages found, a table per direction |
| CAN map transmission | cursor of `SendAll` | walk and pack | a frame sent is a message that was defined |
| SDO mapping dialog | `mapId`, `mapInfo` | three writes, delete | what is acknowledged is what was asked |
| SDO parameter access | – | read and write a parameter | range check (in the database) |
| CAN controller driver | interface register, transmit mailbox, their busy flags | `Send`, `ConfigureFilters` | frames whole, in order, not lost; `Send` returns |
| Registration and filters | list of ids, receive mailboxes, node id | register, clear, set node id | who registered is heard |
| CAN logger | four counters and flags, text buffer | `Tick`, control frame, `Printf` | goes on while clients ask, stops after, whole texts |
| Parameter database | values, settings in use | set, change, load defaults | values in range; settings follow them |
| Parameter storage | EEPROM block with CRC | save, load, power cut | a block is whole or rejected; a save lasts |
| PMIC watchdog | SPI registers, question and answer of the functional watchdog, device | set-up, strobe, status read | served in its window; accesses do not mix; errors are made up for |
| Oil pump and LIN | request schedule, receive buffer, timeout | 10 ms task | replies attributed to their request; silence noticed; hot oil pumped |
| Gate driver | six chips on a chain, shutdown line | set-up, read-back, status, enable | enabled only as configured; disturbed set-ups repeated |
| Resolver encoder | angle, turns, estimate | PWM cycle, end of window | every turn counted with its sign |
| STM32 operating mode | mode, outputs, contactors, wait | 10 ms task, break interrupt, terminal | off means off; contactor before outputs |
| STM32 torque path, throttle | ramp, direction, cruise speed | 10 ms and 100 ms task | torque only as asked, ramped, limited |
| Scheduler (C2000) | three slots | add, run | fixed at start-up |
| Error log | ring of errors | post, print | none lost below its size |
| PWM arithmetic, ADC, numerics, text | – | pure functions | results within range |
| OBD2, simulator, tests, board test programs, build | – | – | not part of the firmware images |

### 1.3 How they interact

The receive interrupt is the only way in. A frame passes
`CanHardware::HandleRx` to every registered callback: the SDO server
(`CanSdo`), the CAN map and the logger. The SDO server calls the CAN map
(mapping), the print function (documents), and `Send` (replies) directly, and
leaves commands in its mailbox for the main loop. The CAN map asks for receive
filters through `CanHardware`. A new node id clears every filter and asks each
callback to register again. All outgoing frames, from both contexts, pass
`C2000Can::Send` and its one transmit mailbox.

Beside the CAN, main loop and interrupts meet in the SPI of the power
management IC (status reads against strobes), in the parameters (SDO writes
against what the main loop derives from them) and in SAVE, which holds off the
watchdog's strobes, the oil pump's task and the motor control. Oil pump, gate
drivers and resolver share nothing else with one another; nor do, on the STM32
board, the operating mode and the torque path but the mode itself.

### 1.4 What is hard

Every hazard with its line is in `PROJECT.json`. In short:

- two contexts, no locks: the ring, the statics of the printer, the SDO frame,
  the lists of the CAN map, the interface register of the CAN controller and
  the logger's counters are each used by main loop and interrupt;
- stale state: a second request meets what the first left behind (print
  statics, mapping dialog, logger interval);
- boundaries: the ring's margin, the shared array of items, the arrays of
  messages that lie next to each other, the number of mailboxes;
- failure: lost replies and repeated requests, a bus on which nobody
  acknowledges, a restart in mid-command, clients that leave;
- more failure: a supply that goes during SAVE, garbled frames on SPI and LIN,
  a pump that answers late, a strobe that is late;
- several writers of one state: the operating mode is set by the task, the break
  interrupt and the terminal, and copied in three places;
- things that must eventually happen: a document ends, a request is answered,
  `Send` returns, the logger falls silent, the watchdog recovers.

## 2. Modules

| module | models | uses |
|---|---|---|
| `CanSdoStrings` | string transfer | – |
| `CanSdoMailbox` | mailbox and commands | refines `SdoServer` |
| `SdoServer` | *abstract:* take a request, run it once, answer it | – |
| `CanMap` | the map's lists | refines `CanMapTable` |
| `CanMapTable` | *abstract:* two tables of messages with their parameters | – |
| `CanMapSend` | `SendAll` against the interrupt | extends `CanMap` |
| `CanSdoMapping` | the dialog of three writes, with clients | extends `CanMap` |
| `CanSend` | driver, controller and bus | – |
| `CanFilters` | registration in all three users, filters | – |
| `CanLogger` | when the logger is on and dumps | – |
| `CanLoggerText` | texts cut into frames and read back | – |
| `CanMapCoding` | values packed into a frame and taken out again | – |
| `PmicWatchdog` | power management IC, its driver, the shared SPI | – |
| `ParamStorage` | parameters, EEPROM, settings in use | – |
| `OilPump` | oil pump on its LIN bus, and its controller | – |
| `GateDriver` | set-up of the gate drivers | – |
| `Encoder` | resolver turns, speed and direction | – |
| `OperatingMode` | off, running, charging on the STM32 board | – |
| `Driving` | from the driver's inputs to a torque on the STM32 board | – |
| `CanSdoStringsProofs`, `CanSdoMailboxProofs`, `CanMapProofs`, `PmicWatchdogProofs` | theorems of the module they are named after | the module |
| `CanMapUseProofs` | theorems of `CanMapSend` and `CanSdoMapping` | both, `CanMapProofs` |
| `BusProofs` | theorems of the five modules of `MCBus` and of the whole | `MCBus` |
| `BoardProofs` | theorems of `ParamStorage`, `OilPump`, `GateDriver` | the three |
| `DrivingProofs` | theorems of `Encoder`, `OperatingMode`, `Driving` and of `MCBoard` | `MCBoard`, `BoardProofs` |
| `MC*` | instances for TLC | the module |
| `MCBus`, `MCBoard` | composite instances | five and six modules |

The order of the list is the order of work: first the parts of the CAN side
where two contexts meet, then the map everything else is built on, then the
driver below and the logger beside; after them the devices of the C2000 board,
and the STM32 board.

`MCBus` and `MCBoard` each put the modules of parts that share no state into one
specification: a variable `part` says which of them is at work, for the whole
of a behaviour, and the others keep their initial state. So each behaviour is
one of a part alone; the composition only saves runs.

Two modules describe one piece of code at two levels: `CanMap` and
`CanSdoMailbox` each carry an `INSTANCE` of an abstract specification with a
refinement mapping (`ImplementsTable`, `ImplementsServer`). Two compose:
`CanMapSend` runs the main loop's walk beside the actions of `CanMap`, and
`CanSdoMapping` runs the dialog, its clients and the loss of replies on top of
them. The clients in `CanSdoStrings`, `CanSdoMailbox` and `CanLogger` are part
of those modules, since what a client may do decides what the server can promise.

Variables named "history" in a module record what happened and are read by
properties and by no action of the program.

## 3. From code to model

### 3.1 CanSdoStrings

A client reads index 0x5001; the interrupt resets the ring, opens the request
and prints the first bytes itself (`cansdo.cpp:435-463`,
`inverter_main.cpp:179-187`); the main loop prints the rest; segment requests
drain the ring. `pc` holds where each context is in `TriggerTimeout` and
`PrintParamsJson`. `At(c, place)` says that the main loop stands still while
the interrupt runs.

| code | action |
|---|---|
| `CanSdo::TriggerTimeout` | `TriggerTimeoutRead`, `TriggerTimeoutWrite` (an access each) |
| `GetPrintRequest() >= 0` in the loop | `PollPrintRequest` |
| `PrintParamsJson` | `Enter` … `ClearPrintRequest`, in both contexts |
| `PutChar`, `PrintBufEnqueue` | `PutChar`, `PutCharFull`, `EnqueueRead`, `EnqueuePublish`, `EnqueueStore` |
| `ProcessSDO`, read of 0x5001 | `StringsRequest` |
| `ProcessSDO`, segment request | `SegmentRequest` |

Data: a character is its place in the document, `<<chunk, offset>>`, so that a
property can tell lost, doubled and reordered characters. The pair
`stage`/`idx` of the printer is the number of the chunk it formats. `sprintf`
into the static `outBuf` takes a step of its own, and a buffer two contexts
wrote to holds `Garbled`. The ring's slot is `index % Capacity`: the code masks
the index, which is the same for its 64 slots. `IndexSpan` is the width of the
indices; a document is far shorter than it.

`raced` is set when an interrupt hits the main loop inside a push: a read
resets the ring while the old index is in a register, or a segment request
takes a byte that is published and not yet stored. The code does nothing about
either; the properties of the ring hold until then and say so.
How often that is: two accesses out of a loop of 5 ms.

### 3.2 CanSdoMailbox and SdoServer

`Ask` is `ProcessSDO` storing the frame (`cansdo.cpp:454`), in one interrupt.
The main loop's steps follow `ProcessStandardCommands`
(`sdocommands.cpp:50-125`) and `SendSdoReply` statement by statement, since the
interrupt may write the frame between any two of them. `Save` and `Load` run
with interrupts disabled and are one step; `SoftReset` starts the program over
and empties the mailbox. `ReqKind` lists what clients ask; the data word of a
request carries its number, so that an answer can be told from another.

`Pipelined` says whether a client asks before it has its answer. The SDO
protocol has one request outstanding at a time; with `Pipelined = FALSE` the
module has any number of clients that keep to it together, and the abstract
server is implemented. `SdoServer` has four actions: a request arrives, its
command runs, the reply leaves, and a reset, which does both at once.

### 3.3 CanMap and CanMapTable

`canSendMap` and `canRecvMap` are one function over `Slots`, because they lie
behind each other in the object and one boundary check is off by one.
`canPosMap` is `next` and `mapParam` over `0 .. End`, the last of them the
dummy that ends every list. `Walk(m, k)` is `forEachPosMap` up to the k-th
item; `Target` is `FindById` or the first free message; `LastUsed` is the
search of `Remove` for the message to move up. `Add` includes what it does when
no item is left: the id is in the message already. `Remove` unlinks an item in
the middle, at the head, or with its message.

Bit positions, lengths, gains and offsets are part of a member of `Params`.
`CanMapTable` has one variable, two sequences of messages with their
parameters; `TableOf` reads it off the lists.

### 3.4 CanMapSend

`SendAll` is one action per access: the test of the message, its first item,
the test of the item, the packing, the next item, the frame. Additions and
removals are the actions of `CanMap`. `defined` collects the messages the send
map has had since the walk came to its message: a frame sent half way through
a change may be the old or the new message, nothing else.
`RemovesDuring` says whether removals fall inside a walk.

### 3.5 CanSdoMapping

`WriteCobId`, `WriteItem` and `WriteGain` are the three branches of
`CanSdo::AddCanMap` (`cansdo.cpp:503-556`); `Accepted` is the answer the client
gets. A client has a wish, goes through the dialog, repeats a write whose reply
was lost, and may start over at any time. `mapInfo` is not initialised in the
constructor: `Init` leaves it open. `Unknown` stands for a parameter whose
unique id nobody knows, which the second write refuses but stores.
`GoesOn` is a client that does not stop at a refusal.

### 3.6 CanSend

Each context runs `Send` (`c2000_can.cpp:112-166`) with its driverlib calls:
wait for the interface register, wait for the transmit request to clear or
give up, `CAN_setupMessageObject`, `CAN_sendMessage` (which reads the control
word back). The controller carries out a command written to the interface
register some time later (`CopySetup`, `CopyData`, `CopyOther`), and puts the
mailbox on the bus while a node acknowledges (`Transmit`, `PeersChange`).
`ConfigureFilters` is the receive interrupt that uses the interface register
to set up a receive mailbox. The controller and the bus are external; they are
modelled from how the driver uses them.

The bounded wait ends (`GiveUp`) only when nobody acknowledges: its count is
longer than a frame that is acknowledged takes, with arbitration against the
other nodes left out. `Preemptive` says whether the interrupt may come while
the main loop is inside `Send`.

### 3.7 CanFilters

`AddRecv`, `RemoveMessage` and `SetNodeId` are interrupts and change the list
of ids (`RegisterUserMessage`, `canhardware.cpp:63-82`), the mailboxes
(`ConfigureFilters`) and the map's own list together. `HandleClear` is what the
three callbacks register after a clear, in the order of the callbacks. A
mailbox lets in the ids with or without 29 bits as its flag says; `ForMap`,
`ForSdo` and `ForLogger` say which frames the users recognise.

### 3.8 CanLogger and CanLoggerText

`Tick` (`canlogger.cpp:70-91`) is split at every access, with the choice of the
compiler to test a value in a register or to read it again; `HandleControlFrame`
(`canlogger.cpp:96-127`) is `Start` and `Stop`. Time passes in calls of `Tick`,
as it does in the code, which adds 5 ms per call. `Later` stops counting at
`Horizon`, beyond every time the properties compare with. `MidTick` says
whether a control frame may come inside a `Tick`.

`CanLoggerText` has `Printf`, which cuts a text to its buffer, `Print`, which
sends frames filled up with null bytes, and the client `tools/can_logger.py`,
which shows what it gathered at each null byte. A character is the number of
its message.

### 3.9 CanMapCoding

A frame of two words of `Width` bits carries two items, each with an offset, a
length, a byte order and a value. `Pack` is one item of `SendAll`
(`canmap.cpp:201-243`), `Unpack` one of `HandleRx` at a node with the same map
(`canmap.cpp:96-143`). A word is the set of its bits; the shifts of C move the
bits, and a shift by 32 or more, which C leaves undefined, is either no shift
or an empty word (`Rights`, `Masks`). `CharBits` is what a `uint8_t *` points
at: with 16 bits, as on the C28x, two of the four characters of the swap lie
behind the variable (`Behind`). Gain is one and offset none.

### 3.10 PmicWatchdog

Main loop and timer interrupt each have a list of register accesses to make
(`todo`) and a place in `TransferData` (`pmicspidriver.cpp:121-162`): `Load`,
`SeeFlag`, `Take`, `TimeOut`. Reset of the SPI module after a timeout is part of
`TimeOut`. `Complete` is what the caller does with an answer: go on, or give
the rest up (`CHECK`, `pmicdriver.h:103-107`). `Strobe` is the timer interrupt,
which answers the functional watchdog when it knows the question and asks for
it otherwise; `ReadStatusRegisters` is the log dump; `Save` masks interrupts
for `SaveUnits`. The device (TLF35584) and the SPI module are external: `Shift`
and `Disturb` carry a frame over, whole or garbled or lost; `Process` judges
window and answers, with one error counter for each watchdog that goes up by
two and down by one and takes the device out of NORMAL above a threshold.
`Tick` is 50 ms.

### 3.11 ParamStorage

`Start` is `main` up to its loop; `Set` an SDO write in the receive interrupt;
`Load`, `Defaults`, `Save`, `Reset` the commands; `Pass` what each round of the
loop derives; `Fetch` and `Derive` the two halves of a statement of
`Param::Change`, which the interrupt can come between. `WriteEntry` and
`WriteChecksum` are the words of `parm_save`. `PowerCut` may come at any of
them and leaves the word being programmed as `Junk`. `crc` is the block the
checksum was computed from: a checksum of 32 bits is taken to tell blocks apart.
The EEPROM starts empty, with a saved block, or with one of other firmware.
Unlike the others `Amp` has unique id 0, which is what a free entry of a block
has, and is never restored.

### 3.12 OilPump

`Tick` is the 10 ms task as a whole (`teslam3oilpump.cpp:94-216`), with the
controller at every tenth; `Pump` is what the pump puts on the bus before the
next tick: its answer, one that is late and comes after the next header,
something garbled, or nothing. `buffer` is the receive buffer with what was
sent, since the transceiver echoes; `ChecksumFits` is LIN's checksum over the
identifier and the data. `ComputePumpSpeed` keeps the integer arithmetic.

### 3.13 GateDriver

`frames` is what is left to send, and `SendData` sends one frame through the
chain, garbled for at most one of the chips. `Round` is the loop body of
`GateDriver::Init`: reset status, configuration mode, table, read-back, and out
of configuration mode. `RoundDone` and `StatusDone` are the decisions after
it; `Enable` is `main`'s. The chips (STGAP1AS) are external: they ignore a
garbled frame, take a register in configuration mode only, and latch faults.
`SoftReset` starts over with the chips as they are.

### 3.14 Encoder

The circle has `Turn` angles. `Cycle` is a PWM cycle: the rotor moves by less
than half a turn, and `DecodeAngle`, `UpdateTurns` and `UpdateRotorFrequency`
follow, with or without a signal. `EndOfWindow` makes speed and direction of
the turns added up. `Blind` is the time SAVE holds interrupts off, in
which the rotor may turn anywhere. The ratio of turns to hertz is one.

### 3.15 OperatingMode

`Ms10Task` is in six actions, one per part that reads the mode the others
write: `BeginRound`, `ProcessUdc`, `Decide`, `Accept`, `HeedBms`, `EndRound`
(`stm32_sine.cpp:111-229`). `Break` is the PWM timer's break interrupt and may
come between any two of them. `StartInverter` and `StopInverter` are the
terminal's commands; `SetOpmode` called from there is `StoreAsked` and
`SetOutputs`, since the task may preempt it. The mode exists three times:
`opmode` (the parameter), `pwmMode` (`PwmGenerationBase::opmode`) and
`localMode` (the task's copy). `seen` is what a round sees of voltage, motor,
BMS and buttons. `BOOST` and `BUCK` are one mode, `charge`.

### 3.16 Driving

A round of `Ms10Task` is `ReadInputs` and `ProcessThrottle`
(`vehiclecontrol.cpp:153-193`); `Ms100Task` runs `SelectDirection` and
`CruiseControl`. The functions of `throttle.cpp` are operators of their names
with the same branches and integer arithmetic in tenths of a percent. `potnom`
is the torque under given `Conditions`, a chain of five limits over
`throttleRamped`; since none of the limits keeps state, it is an operator and
its inputs are enumerated in the property instead of in the state.

## 4. Runs

A run is a module and `<run>.cfg`.

| run | question | answer |
|---|---|---|
| `strings` | a client that starts over whenever it likes and goes on after the last segment: is the ring a FIFO, does it overflow, is the first transfer the document, is its request closed? | yes (`DeliveredInOrder`, `NoOverflow` while no push is hit; `StreamFollowsDocument`, `RequestIsClosed`) |
| `mailbox` | does the mailbox implement the server, and is every request answered? | yes |
| `map` | do the lists and the arrays of messages survive every sequence of additions, removals and clears, and are they two tables? | yes, while removals name messages `0 .. MaxMessages - 1` |
| `map_boundary` | does a removal from one direction leave the other alone? | no: see 6.1 |
| `mapping` | is what a client is told about its mapping true, with lost replies and restarts? | yes, for a client that stops at a refusal |
| `sendall` | is each frame sent a message that was defined, and does the walk stay in its array? | yes, with removals between two walks |
| `bus` | one part at a time of the CAN side below the map: are frames whole, in order, not lost, and does `Send` return, when calls do not interrupt each other? is the inverter heard under its node id, and mapped messages while a mailbox is left? does logging last as long as clients ask, no longer, and are dumps paced? does the client show whole messages? does `HandleRx` get what `SendAll` packed, with characters of 8 bits? | yes |
| `send_preempted` | and frames when calls of `Send` interrupt each other? | no: see 6.2 |
| `watchdog` | strobes during status reads, one disturbed frame, a SAVE of 0.5 s: does the device stay in NORMAL, is no answer left behind, is it in NORMAL only as configured, and does an unfinished answer get in step again? | yes |
| `watchdog_shared` | does a device that works echo each write? | no: see 6.3 |
| `coding_bigendian` | does `HandleRx` get what `SendAll` packed, with characters of 16 bits? | no: see 6.4 |
| `board` | one part at a time of the rest: is a block restored whole, does a save last, do settings follow the parameters? are LIN replies attributed to their request, silence and heat noticed? are gate drivers enabled only as configured? are turns and speed the rotor's? does off mean off, is the contactor closed before and during a drive? is torque only as asked, ramped and limited, and brake and selector obeyed? | yes |

Some properties listed by the runs are conjunctions, defined beside their
parts: `MapIntact` (`ListsIntact`, `MessagesIntact`), `MappingSound`
(`MappingTypeOK`, `MappedOnce`, `OnlyKnownMapped`), `DefinedSent`
(`SendTypeOK`, `SentWasDefined`), `AnswersTrue` (`MappedAsAsked`,
`RefusedChangesNothing`), `SendReliable` (`FramesIntact`, `FramesInOrder`,
`NothingLost`), `Reachable` (`SdoReachable`, `MappedReachable`),
`ValuesCarried` (`LittleCarried`, `BigCarried`), `StorageSafe` (`SaveDurable`,
`InLimits`, `AmplitudeAsked`), `PumpWatched` (`SilenceNoticed`, `HotOilPumped`,
`NoFalseAlarm`), `DriversSafe` (`EnabledMeansConfigured`, `FaultsSeen`,
`GivesUpDisturbed`, `ConfiguredShut`), `ResolverTruthful` (`TurnsTracked`,
`SpeedShown`, `LowSignalReported`), `RunsSafely` (`RunningConnected`,
`RunsGuarded`), `ContactorLeads` (`OutputsWaited`, `OvervoltageOpens`),
`TorqueAsAsked` (`OnlyAskedDrives`, `RampHolds`, `LimitsHold`), `DriverObeyed`
(`BrakeEndsDrive`, `ReversesSlowly`). `BusTypeOK` and `BoardTypeOK` join the type
invariants of the parts. The invariants `TypeOK` of
`CanSdoStrings`, `CanSdoMailbox` and `CanMap` are theorems and in no run.

Deadlock is checked in `map`, `map_boundary`, `mapping`, `sendall`, `strings`
and `board`: something can always happen there. In `mailbox`, `bus`,
`send_preempted`, `watchdog`, `watchdog_shared` and `coding_bigendian` a bound
on requests, calls or items, or a device that has given up, ends the behaviour
and with it the check.

### Bounds

| constant | code | runs | why this is enough |
|---|---|---|---|
| `Capacity`, `LowWater` | 64, 16 | 4, 2 | the ring wraps, fills to its margin, and both contexts stand in a push; the proof covers all values with `LowWater >= 2` |
| `ChunkLen` | chunks of up to 512 bytes | 1, 3, 2 | longer than the ring together; chunks of one and of several characters |
| `SegBytes` | 7 | 2 | segments within, at and across the end of a chunk |
| `Timeout` | 100 calls | 2 | a character dropped and not dropped, a lost update of the count |
| `IndexSpan` | 2^32 | 32 | above every index reached |
| `MaxRequests` | – | 2 | a transfer that meets what the one before left |
| `MaxAsked` | – | 3 | each command before and after each other, and after a reset |
| `MaxMessages`, `MaxItems` (`map`) | 10, 50 | 2, 3 | full arrays, a message moved up, lists of up to three items, items short before messages and after |
| `MaxMessages`, `MaxItems` (`mapping`) | 10, 50 | 1, 2 | both limits are met by one client |
| `SlotIndex` | 0 .. 63 | `0, 1` or `0, 1, 2` | below `MAX_MESSAGES`, or with it |
| `Clients` | – | 1 | with two, the fields they share break the dialog (6.5) |
| `MaxSends`, `MaxFaults` | – | 4, 3 | a frame in the mailbox, one waiting, one given up on, and the bus back |
| `MaxFilters` | 30 | 2 | filters before and between sends |
| `MaxUsers`, `MaxMessages` (`bus`) | 30, 10 | 4, 2 | the list of ids fills up and stays full until a new node id |
| `Keepalive`, `Unit`, `Default`, `Step` | 30 000, 100, 2000, 5 ms | 7, 2, 3, 1 | intervals below and above each other and a keepalive time that is no multiple of them |
| `Horizon` | – | 14 | where the age of a dump stops being counted: beyond the keepalive time and beyond every interval, each with a step |
| `FrameSize`, `MaxLength`, `Messages` | 8, 127, – | 2, 5, 3 | messages that fill their last frame and that do not, one that is cut |
| `ByteBits`, `CharBits` | 8, 8 or 16 | 2, 2 or 4 | words of four bytes that keep their order of shifts and swaps; every offset |
| `Lengths`, `OtherLengths` | 1 .. 32 | 1, 3, 4, 7, 8; 2, 3 | parts of a byte, whole bytes, almost a word and a word, beside another item |
| `Values`, `OtherValues` | any word | all bits, the lowest, the highest; all bits | a bit put in the wrong place, or left out, shows in one of them; the proof covers all words |
| `ErrorThreshold` | 14 | 14 | that of the code |
| `Quests`, `StatusValues` | 0 .. 15, bytes | 0 and 3; one | two questions with different answers; no decision depends on a status |
| `MaxDisturbed`, `MaxSaves` (`watchdog`) | – | 1, 1 | one garbled or lost frame or overlapping transfer costs up to 8 of the 14 errors; two may cost the device |
| `SaveUnits` | 26 (1.28 s) | 10 (0.5 s) | the longest the device is sure to bear; see 6.5 |
| `StatusReads` | 5 | 2 | a strobe between two reads and inside one |
| `ParamCount`, `Words` | up to 127, 32 bits | 4, three | the amplitude, the slip, a setting derived at start and one that is not; a value out of range; no block before, or one with such a value and an unknown key |
| `MaxWrites`, `MaxSaves`, `MaxCuts` | – | 2, 2, 1 | a save over a save, cut off at any word, with writes around it |
| `MaxLoopTicks`, `StatusTimeout` | 10, 500 | 10, 11 | a timeout of more than one round that is no multiple of it |
| `Chips`, `Setup`, `StatusRegs` | 6, 8 entries, 3 | 2, 3, 2 | an entry for all chips and one for each |
| `Attempts`, `MaxGarbled`, `MaxFaults`, `MaxRestarts` | 3, – | 3, 4, 1, 1 | every round disturbed and a reset after it |
| `Turn`, `Fastest`, `Window`, `StartupDelay`, `TooFast` | 65 536, – | 6, 2, 2, 3, 4 | the wrap in both directions, plausible and implausible speeds |
| `MaxBlind` | – | 1 | a cycle lost in any window |
| `Wait`, `MaxStarts` | 50, – | 2, 1 | the wait begun, halved and over at each event; the proof covers all values |
| `Setups`, `Speeds`, `Digits` | – | 3, 3, 4 | each selection of direction, each kind of cruise and idle control; pots at rest, pressed, between and failed |
| `Conditions` | – | 4 | each limit on and off, several at a time |

### Fairness

- *The main loop comes round.* It has no blocking call but `Send`'s waits,
  and interrupts are short and periodic: weak fairness of its steps
  (`FairSpec` of `CanSdoStrings`, `CanSdoMailbox`; `Spec` of `CanLogger`).
- *An interrupt runs to its end:* weak fairness of its steps
  (`CanSdoStrings`, `CanSend`, `PmicWatchdog`).
- *The controller carries out commands*, a property of the hardware
  (`CanSend`). Nothing is assumed of the bus: `PeersChange` is not fair, and
  `Send` must return on a silent one.
- *The client goes on asking for segments while its transfer is open*
  (`CanSdoStrings` only). This one is an assumption about the tool and not the
  firmware: a client that stops in the middle leaves the request open until the
  next one, because `PrintParamsJson` returns at a full ring before it comes to
  `PutChar` and its timeout. `RequestIsClosed` says so by its assumption.
- *The SPI module finishes a transfer and the timer runs on* (`PmicWatchdog`);
  garbled answers, SAVEs and status reads are not fair.

`ParamStorage`, `OilPump`, `GateDriver`, `Encoder`, `OperatingMode`, `Driving`,
`CanFilters`, `CanLoggerText` and `CanMapCoding` state no fairness: nothing is
claimed of what they must do. Safety properties use no fairness.

## 5. Proofs

Each is for every value of the constants the module's `ASSUME` allows, and
under the further hypotheses of the last column. Between them they state every
safety property the passing runs check.

| theorem | says | under |
|---|---|---|
| `CanSdoStringsProofs!TypeCorrect` | `TypeOK` | – |
| `CanSdoStringsProofs!RingInvariant` | the ring's invariant | – |
| `CanSdoStringsProofs!RingDeliversInOrder` | `DeliveredInOrder` | (`~raced` is part of it) |
| `CanSdoStringsProofs!RingNeverOverflows` | `NoOverflow` | (`~raced` is part of it) |
| `CanSdoStringsProofs!StreamFollows` | `StreamFollowsDocument` | (the same, and the first request) |
| `CanSdoMailboxProofs!TypeCorrect` | `TypeOK` | – |
| `CanSdoMailboxProofs!SlotInvariant` | what the frame holds at each step | `~Pipelined` |
| `CanSdoMailboxProofs!MailboxImplementsServer` | `ImplementsServer` | `~Pipelined` |
| `CanMapProofs!MapStaysIntact` | `TypeOK`, `MapIntact` | `SlotIndex \subseteq 0 .. MaxMessages - 1` |
| `CanMapProofs!MapImplementsTable` | `ImplementsTable` | the same |
| `CanMapUseProofs!SendAllStaysInArray` | `CursorInArray` | the same, `~RemovesDuring` |
| `CanMapUseProofs!SendAllSendsDefined` | `DefinedSent` | the same |
| `CanMapUseProofs!MappingIsSound` | `MappingSound` | `SlotIndex` as above, `~GoesOn`, one client |
| `CanMapUseProofs!AnswersAreTrue` | `AnswersTrue` | the same |
| `BusProofs!SendIsReliable` | `SendReliable` | `~Preemptive` |
| `BusProofs!NodeIsReachable`, `FiltersTyped` | `Reachable`; types | – |
| `BusProofs!LoggingEndsOnTime` | `EndsOnTime` | – (any preemption) |
| `BusProofs!LoggingIsKeptAlive` | `KeptAlive` | `~MidTick` |
| `BusProofs!LoggerKeepsPace` | `DumpsPaced` | `~MidTick` |
| `BusProofs!TextsAreComplete`, `TextIsTyped` | `TextsComplete`; types | – |
| `BusProofs!ValuesAreCarried` | `ValuesCarried` | `CharBits = ByteBits` |
| `BusProofs!BusIsItsParts`, `BusIsTyped` | the composition runs each part by its own specification; `BusTypeOK` | – |
| `PmicWatchdogProofs!TransfersLeaveNothing` | `NothingLeftBehind` | – (`~torn` is part of it) |
| `PmicWatchdogProofs!WatchdogTyped` | `TypeOK` | – |
| `PmicWatchdogProofs!SetUpWhole` | `NormalMeansConfigured` | – |
| `PmicWatchdogProofs!DeviceStaysNormal` | `StaysNormal` | `Margin` (`~torn` is part of it) |
| `BoardProofs!StorageInvariant` | `StorageTypeOK`, `StorageSafe` | – |
| `BoardProofs!LoadsAreWhole` | `RestoredWhole` | – |
| `BoardProofs!SettingsFollowParameters` | `SettingsFollow` | – |
| `BoardProofs!PumpOwnAnswers`, `OilTyped` | `OwnAnswers`; types | – |
| `BoardProofs!PumpIsWatched` | `PumpWatched` | – |
| `BoardProofs!DriversAreSafe`, `GateIsTyped` | `DriversSafe`; types | – |
| `DrivingProofs!ResolverIsTruthful`, `EncoderTyped` | `ResolverTruthful`; types | – |
| `DrivingProofs!ModeInvariant` | `ModeTypeOK`, `StopsInARound`, `RunsSafely` | – |
| `DrivingProofs!ContactorFirst` | `ContactorLeads` | – |
| `DrivingProofs!TorqueIsAsAsked`, `DrivingTyped` | `TorqueAsAsked`; types | – |
| `DrivingProofs!DriverIsObeyed` | `DriverObeyed` | – |
| `DrivingProofs!BoardIsItsParts`, `BoardIsTyped` | as for the bus; `BoardTypeOK` | – |

The hypotheses are the ones the runs are under, too, and 6.5 says what happens
without them: `Preemptive`, `MidTick`, `RemovesDuring`, `Pipelined`, `GoesOn` and
a second client are each a way the code goes wrong. `CharBits = ByteBits` leaves
out the C28x (6.4).

`Margin` says of the constants that what `MaxDisturbed` disturbances and
`MaxSaves` SAVEs can cost fits the threshold:

    4 * MaxDisturbed + MaxSaves * WindowCost <= ErrorThreshold
    8 * MaxDisturbed + MaxSaves * QuestCost  <= ErrorThreshold

where a SAVE of n units of 50 ms costs `WindowCost`, 2 * (n \div 3) + 6 (or + 4,
if n leaves 4 when divided by 6), and `QuestCost`, 2 * (n \div 5) + 2. With the
numbers of the run, n = 10 and one disturbance, both sums are 14, the threshold;
with a threshold of 13, or with n = 11, the run finds `StaysNormal` violated, so
that no smaller margin would do there. A SAVE of 1.28 s (n = 26) would cost 22
and does not fit: it is one of the disagreements of 6.5. The theorem counts
the disturbances of a whole life, although the device forgives an error with
every good answer: it is for a few disturbances at any moments, as near to each other as the code lets them be.

### Assumptions on the constants

They are evaluated in a run. Most are sizes: not zero, in order, numbers. Those
that say more, and why the code meets them:

- `LowWater >= 2`, `Capacity > LowWater`, `IndexSpan > Capacity`
  (`CanSdoStrings`): 16, 64 and 2^32.
- `MaxMessages < MaxUsers` (`CanFilters`): 10 and 30, so that the ids registered
  by the SDO server and the logger fit beside the map's.
- `Horizon` (`CanLogger`) is a bound of the model: the history of a dump's age
  is not counted further, and must be counted as far as properties look.
- `MaxLoopTicks >= 10` (`OilPump`): a round is ten ticks, and the controller
  runs at every tenth (`teslam3oilpump.cpp:94-216`). With a shorter round
  the pump could be asked twice for one computed speed, and the time of
  `HotOilPumped` would be another. `NoPid` is no answer: a choice of the model.
- `GateAssumption` (`GateDriver`): no status register is in the table of
  set-up, and no register is there twice for a chip with different values. Both
  are so in the table (`gatedriver.cpp:36-115`); `Attempts > 0`: 3.
- `DrivingAssumption` (`Driving`): the ranges of the parameters in
  `param_prj.h`. `DrivingNumbers` says that the rest are numbers.
- `Fastest < Half` (`Encoder`): a rotor that turns by half a turn in a PWM cycle
  cannot be followed by any decoder; that is thousands of turns a second, and the
  code takes more than 500 for implausible.
- `StorageAssumption`: the values that stand for nothing written are no words
  and no blocks; defaults are within their limits.
- `None` is no frame (`NoneAssumption`, `PmicWatchdog`): a choice of the model.

### The inductive invariants

*Strings and mailbox*

- **`RingInv`** (`CanSdoStrings`). `DeliveredInOrder` compares what the client
  got with what was published, and says nothing of what is still in the ring;
  a step of the consumer would break it. `RingSound` adds that every unread
  slot holds its character or is the one a context is about to store, and that
  the bytes in the ring and the pushes in progress, at most one per context,
  fit above the margin: `depth + pushes <= Capacity - LowWater + 2`. This is
  where `LowWater >= 2` is used, and all that is needed of the margin of 16.
  The rest is arithmetic on slots: two indices less than a capacity apart use
  different ones (`SlotsDiffer`). `printTimeout` in `TypeCorrect` needs that
  the interrupt only ever raises it between the read and the write of
  `TriggerTimeout`.
- **`FollowInv`** (`CanSdoStrings`). During the first request at most one
  context is in `PrintParamsJson` (`Alone`), and the request is accepted, begun,
  being printed or over (`Stage`). While it is printed, the character that is
  due after the log is the one the statics and the place come to
  (`Due = Coming(place)`), unless the timeout has run out; and that stays run
  out (`StaysOut`), which is what ends the document early and never in between.
- **`MailboxInv`** (`CanSdoMailbox`). For each place of the main loop,
  `Progress` says what the frame holds in terms of the request being served:
  untouched before the decision, with its command byte rewritten during it,
  the answer after it. The refinement is then by cases: four deciding steps map to
  `Execute`, `Transmit` to `Reply`, `SoftReset` to `ExecuteAndReply`, the
  others stutter.

*CAN map*

- **`MapInv`** (`CanMap`) is `TypeOK /\ ListsIntact /\ MessagesIntact`, and is
  inductive as it stands. The arrays are rewritten in few ways: an item starts
  a list, is put behind its last, is taken out of the middle or off the head, or takes its
  message with it; there is a lemma for each. `NoCycle` is stated over sets of
  items (every non-empty set has an item whose successor is outside), so that
  no induction over paths is needed.
- **`MapImplementsTable`** needs it after all: the mapping reads a table off
  the lists by walking them. The lemmas say where each item of a list is after
  a step (`ItemAt`, `Length`), by induction over the places; a table then is
  the first message, its length, and the item at each place, and each operation
  of the map is shown to be that of the table by places.
- **`SendInv`** (`CanMapSend`) adds to `MapInv` that the cursor is on an item
  in use or at the tail, and that what is packed is what the list holds up to
  the cursor (`PackedUpTo`, `Reached`). An addition puts an item behind the last,
  takes none out of use, and so moves no place before the cursor; a frame sent at
  the tail is one the map had as a whole (`WasDefined`).
- **`MappingInv`** and **`AnswersInv`** (`CanSdoMapping`): what `mapId` and
  `mapInfo` hold at each step of the one client's dialog. Mapped once:
  after the last request is through, the length is "none", and a
  repetition finds it so. An accepted answer is true because the fields are
  those of the wish (`FieldsInv`), and `MapInv` says where `Add` puts an item.

*CAN driver, logger and coding*

- **`SendInv`** (`CanSend`): one context is inside `Send` at a time
  (`Exclusive`), the registers hold what it wrote (`Registers`), what is
  pending is the latest call (`Pending`), and what is on the bus is older
  (`Ordered`).
- **`FiltersInv`** (`CanFilters`): the i-th id has the i-th mailbox; the node's
  own id is registered; and as long as the list has room, so is every id of the
  receive map. Mailboxes that are left over from before a clear do no harm.
- **`EndInv`** (`CanLogger`) bounds the keepalive counter from below by the
  time since the last start, with one exception between the read and the write
  of `Tick`; it holds for every preemption, because a lost reset only makes the
  counter larger. `AheadInv` bounds it from above and needs that no control
  frame falls inside a `Tick`. **`PaceInv`** bounds what has accumulated by the
  time since the last dump, at each place of `Tick`, except while a first dump is
  owed. **`LoggerInv`** is for the types: no counter passes the horizon, since
  a period is added to one only while it is below what it is compared with.
- **`TextInv`** (`CanLoggerText`): what the client has gathered, together with
  what is still in the driver's buffer, consists of whole messages (`Whole`
  counts the characters of each).
- **`CarriedInv`** (`CanMapCoding`): the cells of the two items are
  disjoint (`Formed`), a cell that is set belongs to an item that is
  packed (`Filled`), and the cells of a packed item hold its value (`Held`). The
  swap of the byte order is a permutation of bits named by byte and place in it
  (`SwapBit`), found with lemmas on quotients and remainders, for every number
  of bits in a byte.

*Devices of the C2000 board*

- **`Untorn`** (`PmicWatchdog`): the frames in the SPI module never outnumber the
  transfers under way, and it is empty when none is. It is broken when an
  interrupt comes between the flag's test and the read, and only then.
- **`WatchdogInv`** (`PmicWatchdog`): either set-up is at its k-th access, has the
  frame of that access in the module, and the device counts k-1 protected
  writes or, once the frame is through, k (`SettingUp`); or set-up is over, and
  nothing but accesses that leave the configuration alone is asked
  (`Serving`). With k the proof goes through all 33 accesses at once.
- **`BInv`** (`PmicWatchdog`): set-up was given up (`Dead`), is at its k-th
  access with a device at rest and a first quest as far as the driver thinks
  (`Opening`), or is over (`Running`). Then the errors counted and those still
  due stay within a budget, for each of the two watchdogs (`WindowBounded`,
  `QuestBounded`). What is due is a table over a few states: whether a trigger is
  sure to come, may come or is not to be expected, the age of the window and the
  phase of the timer; and how far driver and device are from agreeing on the
  quest (seven levels of `Trouble`), the beat and the phase. For the time the
  interrupts are still off, two errors are added for every window, or beat, it
  spans. A step of the driver or of the clock moves errors from due to
  counted and adds none; a disturbance adds at most 4 and 8 to the budgets, a
  SAVE its cost. `Queued`, `Traffic` and `Synchronous` say which requests can be
  where meanwhile. It was model-checked before it was proved.
- **`StorageInv`** (`ParamStorage`) adds to `StorageSafe` what lies
  between them: the block a SAVE has written so far is the image up to `word`
  (`ImageWritten`), the block the checksum stands for is one that was saved
  (`CrcOfSaved`), so that a block that fits its checksum is whole; and the value
  main has fetched and not used yet was asked for (`FetchedAsked`). It holds for
  any number of parameters, saves and power cuts. `Following` adds
  that the settings are those of their parameters, or one is being derived, or
  was overtaken.
- **`Pumped`** (`OilPump`): what is on the bus is the header that is awaited, or
  answers behind it (`OnTheBus`); an answer in the buffer is no older than the
  header, and the ticks counted without one keep up with the silence
  (`SilenceCounted`) and do not run ahead of it (`QuietCounted`); hot oil goes
  from the buffer to the spot value, the speed and the next speed request
  (`HotFollowed`), each with the time it may take.
- **`GateInv`** (`GateDriver`): the frames left are the round's from its k-th
  (`From`), and what each chip's registers, mode and next answer are at k
  (`SettingUp`): written up to k, and read back up to k if all was fine; sound
  throughout if no frame of the round was disturbed. `Watching` is the same for
  the status. `Configured` is what remains of a round that was fine.

*Driving*

- **`Shown`** (`Encoder`): angle and turns are the rotor's while nothing was
  disturbed, and the sums grow no faster than a cycle allows (`SumsBounded`), so
  that neither the wrap of an angle nor the speed of a window is ambiguous.
- **`Whole`** (`OperatingMode`) relates the copies of the mode: `OutputsMatch`
  (outputs are those of `pwmMode`), `CopyFollows` (what the task's copy may
  differ in), `OffSeen`, `HeededWaits` (a mode that was heeded has reset the
  wait), `WaitFollows` and `Waited` (the contactor has been closed for what is
  gone of the wait), `Connected`, `Guarded` (the break interrupt), `OverOpen`
  and `TerminalByHand` (what the terminal is in the middle of). None of the
  properties is inductive without them: each is broken by a step from a state
  in which a copy lies.
- **`Driven`** (`Driving`): the types, the two parts of `TorqueAsAsked` that have
  a memory, and that cruise control stays off while the brake is on
  (`BrakeKept`). The limits need no invariant: each of the five is shown to bring
  the torque no further from zero, whatever it was given.

*Composition.* Every step of `MCBus` and `MCBoard` is a step of each part, or
leaves its variables alone (`StepOfEach`, `BoardStepOfEach`); a behaviour of the
whole is one of each part, and what is proved of a part holds of the whole.

### Induction over data

The installed provers cannot use the induction theorems of the library, which
take an operator. Two facts that do not are enough: less-than on the naturals is
well-founded (`NatLessThanWellFounded`), and a non-empty set has then a least
element (`WFMin`). `NatSetInduction` says so of a set that contains zero
and with each number the next. The operators that walk data (`ItemAt`, `Registered`,
`Received`) are recursive functions, which are shown to exist by the same
induction.

### Model-checked and not proved

Liveness (`RequestIsClosed`, `EveryRequestAnswered`, `EverySendReturns`,
`LoggingEnds`, `Recovers`), which the prover does not handle under fairness.

## 6. Disagreements found

### 6.1 A removal from one map changes the other

`CanMap::Remove` rejects `messageIdx > MAX_MESSAGES` (`canmap.cpp:363`). With
`messageIdx = MAX_MESSAGES` and the send map it works on `canRecvMap[0]`,
although the comment reads `\param rx bool true delete from RX map, false
otherwise` (`canmap.cpp:352`). Run `map_boundary`. The message index comes from
the SDO index (`0x3100 + n`), so a client that miscounts by one is enough.

### 6.2 `Send` interrupted by `Send`

The main loop sends mapped messages in `Send`; an SDO request arriving between
its `CAN_setupMessageObject` and its `CAN_sendMessage` is answered by the
interrupt through the same mailbox. The frame of the main loop then leaves with
the id of the reply and its own data, or the other way round. The comment at
`c2000_can.cpp:139-141` names the aim the waits have. Run `send_preempted`;
`NothingLost` and `FramesInOrder` fail in the same way.

### 6.3 The SPI of the power management IC is shared

`PmicSpiDriver::TransferData` writes the transmit buffer, waits for a flag and
reads the receive buffer (`pmicspidriver.cpp:130-161`). The log dump calls it
from the main loop, the strobe from the timer interrupt. A strobe after the main
loop's write and before its read gets the main loop's answer, or the main loop
that of the strobe; each takes it for a failed access, and the rest of the
strobe, or of the dump, is given up. "A working TLF35584 will echo back any
write commands so we can use this to verify communication somewhat"
(`pmicdriver.h:409`) does not hold then. Run `watchdog_shared`; run `watchdog`
shows that nothing is left behind and that the strobes after it make up for it.

### 6.4 Byte order on a machine without bytes

Big-endian items are swapped through a `uint8_t *`, under the comment "Swap byte
order" (`canmap.cpp:207`, `117`). The C28x has no type of 8 bits
(`canhardware.h:22`): the pointer walks over 16-bit characters, of which the
third and fourth are not the variable's. Run `coding_bigendian`; with characters
of 8 bits (`bus`) `ValuesCarried` holds.

### 6.5 Known departures

The modules state some further properties that the code does not keep, or keep
a constant with which a property of a run fails. They are in no run of their
own; each is seen by changing the named `.cfg` as said.

| what happens | where | how to see it |
|---|---|---|
| A second read of 0x5001 resets the ring, but not the document under way: the client reads the rest of the old one. | `json_print.cpp:91` | `strings`: drop `StartedOver` from `StreamFollowsDocument` |
| A reset of the ring between the read and the write of an index leaves `in - out` above the capacity; `cansdo.h:91-94` says that it is at most that. | `cansdo.cpp:444` | `strings`: add `DepthWithinCapacity` |
| A segment request that finds the ring empty is answered with an empty *last* segment, though the comment there says the client retries. | `cansdo.cpp:263-266` | `strings`: add `NoEmptyReplyWhileProducing` |
| Two clients that ask at a time: the second overwrites the frame the first is being served from; a command may run for a request that asked for another. | `cansdo.cpp:454` | `mailbox`: `Pipelined = TRUE`, `OnlyRequestedCommandsRun` |
| A client that goes on after "unknown parameter" maps it; the map then reads behind the parameters. | `cansdo.cpp:523` | `mapping`: `GoesOn = TRUE` |
| Two clients share `mapId` and `mapInfo`: each may be told that the wish of the other was mapped. | `cansdo.cpp:515` | `mapping`: `Clients = {c, d}` |
| A removal during `SendAll` takes the item under the cursor out of use: the walk goes to `canPosMap[ITEM_UNSET]`, or the frame mixes messages. | `canmap.cpp:187, 241, 246` | `sendall`: `RemovesDuring = TRUE` |
| With no mailbox left a message is mapped and acknowledged but never received. | `canmap.cpp:302`, `canhardware.cpp:58` | `bus`: add `AllMappedReachable` |
| A forced extended id is registered with a flag that neither the driver's frame nor the map's comparison carries in the same place: it is let in and not recognised. | `c2000_can.cpp:235`, `canmap.cpp:277` | `bus`: drop `recvMap[n][2]` from `AllMappedReachable` |
| `CanLogger` does not register again after a clear: a new node id cuts it off until a restart. | `canlogger.cpp:46` | `bus`: add `LoggerReachable` |
| A start command inside the keepalive step of a `Tick` is lost: logging ends early. | `canlogger.cpp:75-78` | `bus`: `MidTick = TRUE` (`KeptAlive`; `DumpsPaced` fails as well) |
| A message that fills its last frame is sent without a null byte; the client shows it with the next one. | `canlogger.cpp:173`, `canlogger.h:32-33` | `bus`: add `OneTextEach` |
| A start with a longer interval before the first `Tick` of a session: the accumulator keeps the shorter interval and the first dump waits for the difference; `canlogger.cpp:67` says it comes at once. | `canlogger.cpp:118` | by reading |
| SAVE holds interrupts off for 256 writes of up to 5 ms, 1.28 s: the device may count enough errors to leave NORMAL. How much it bears lies between 0.5 s and 0.7 s, by what its timer was at. | `sdocommands.cpp:83` | `watchdog`: `SaveUnits = 26` |
| An interrupt between the test of the flag and the read of the buffer shifts every later transfer by one. | `pmicspidriver.cpp:149-161` | `watchdog`: `MayTear = TRUE`, and drop `~torn` from `NothingLeftBehind` or `StaysNormal` |
| The answer to a transfer that timed out is 0xFFFF, whose parity `ReadRegister` accepts; the comment there says that callers see a failure. | `pmicspidriver.cpp:126` | `AllOnes`, `Accepted` |
| A loss of power during SAVE costs the last saved state as well: there is one copy. | `param_save.cpp:96` | `board`: add `saves > 0 /\ power # "saving" => Valid` |
| An SDO write between the two halves of a statement of `Param::Change` is overtaken by the old value. | `inverter_main.cpp:105` | `board`: drop `~overtaken` from `SettingsFollow` |
| `SetFixed` checks no range: a block of other firmware brings values out of range. | `param_save.cpp:140` | `board`: drop `~foreign` from `InLimits` |
| The settings `Param::Change` derives by default are not derived at a start, and a saved node id is loaded before `canSdo` exists. | `inverter_main.cpp:89, 272` | `board`: drop `derived \/` from `SettingsFollow` |
| Any of four replies resets the timeout: with a pump that answers one of them only, the oil's temperature goes stale unnoticed. | `teslam3oilpump.cpp:150-182` | by reading; `HotOilPumped` ends with it |
| A garbled `STOP_CONFIG` leaves a chip in configuration mode, which nobody reads back. A fault after the status was read is seen at the next dump. | `gatedriver.cpp:166` | `board`: add `enabled => \A c \in Chips : ~chip[c].config` |
| The peak amplitude of the resolver is kept for ever: a signal that is lost later is not reported. The first angle counts as a turn from zero, and cycles during SAVE are not counted. | `encoder.cpp:116-125` | `board`: drop `~disturbed` from `TurnsTracked` |
| The 10 ms task between the halves of a start from the terminal sets both to off; the terminal then switches the outputs on, and they stay on. | `pwmgenerationbase.h:54-95` | `board`: drop `~torn` from `StopsInARound` |
| A start accepted before the task acted on the off of a trip leaves the break interrupt unarmed, and the wait as it was. | `stm32_sine.cpp:183-216` | `board`: drop `~overruled` from `RunsGuarded` |
| An over-voltage while the motor turns sets the mode to off and leaves the contactor to the next round, and closed after a trip that is to keep it. | `vehiclecontrol.cpp:329` | `board`: drop `seen.standing` from `OvervoltageOpens` |
| Cruise control goes on when both pots fail or the direction goes to neutral, and a brake acts on it at the next 100 ms task only; told by CAN, it goes on again when the brake is released. | `vehiclecontrol.cpp:62, 566` | `board`: put `din.brake` for `braking` in `BrakeEndsDrive` |
| A big-endian item that does not end with a byte is not put where its bits are; one of 32 bits is shifted by 32; one that begins the second word is taken out at `> 31` and put in at `>= 31`. | `canmap.cpp:104, 205-215` | `bus`: drop `Placed`, `InOneWord` or `bits < Width` |

## 7. Not modelled, and the plan

Left out within modelled components:

- *CAN map*: `Save` and `Load` (flash pages of the STM32), `FindMap`,
  `IterateCanMap`, reading mapped items back over SDO, a receive index of
  `MAX_MESSAGES` in `Remove`; gain and offset.
- *SDO server*: indices 0x2000 and 0x21xx (a bounds check and `Param::Set`),
  which `ParamStorage` has as `Set`; `InitiateSDOTransfer` and `RemoteMap` have
  no caller on this platform.
- *Parameters*: attributes, categories, lookups by name.
- *PWM generation*: everything in the PWM interrupt but what `OperatingMode`
  needs. Its arithmetic, like `foc.cpp`, `my_fp.c`, `sine_core.cpp` and the
  filters, is over words of 32 bits or floats and has unit tests.
- *STM32 board*: its scheduler, CAN driver, flash and terminal.
- *Error log*: for display only.

Not part of the firmware: `CanObd2` (no instance on the C2000), simulator, unit
tests, board test programs.

Of the repository's lines some 85 000 are TI's driver library and register
headers, of which the firmware calls a few functions; those that matter
(`CAN_setupMessageObject`, `CAN_sendMessage`) are modelled in `CanSend`, the
rest as what they do to a register. The models therefore stand for a small
share of all lines, and for a large one of the lines in
`platform/c2000/inverter`, `inverter_drivers` and `libopeninv` that make
decisions.

The plan for what is left, in this order:

1. **STM32 scheduler**: the timer with its 16-bit wrap, the compare flags that
   `Run` clears together (`stm32scheduler.cpp:78`), and tasks that overrun.
2. **CAN map, the rest**: `Save` with ids written into the live lists
   (`canmap.cpp:426`) against `SendAll` from the scheduler; `Load`.
3. **Error log**: `Post` against an interrupt that posts
   (`errormessage.cpp:79`).
4. **Proofs**: `StaysNormal` for disturbances of which only a few fall into any
   second, with the errors the device forgives in between.
