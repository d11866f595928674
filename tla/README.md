# A TLA+ verification of the STCAS CPU firmware

STCAS is the stationary unit of Kavach, the Indian train collision avoidance
system.  The repository is the firmware of its CPU card: a TI TMS570 that talks
to some 27 other cards over two redundant CAN buses, to two GPS receivers over
serial lines, to a display over SPI and to a real-time clock over I2C.  There is no
operating system.  One main loop (`source/sys_main.c`) calls everything in
turn; interrupts only fill receive buffers, count milliseconds and set flags.

So there is little concurrency in the usual sense, and yet the code is hard to
test: most parts are small transmission protocols with acknowledgements over a
medium that loses, repeats and delays frames, driven by timers that wrap, and
the rest decides from stored data which may be old when it is used.

- [1 The system](#1-the-system): its parts, their state, what is hard
- [2 The modules](#2-the-modules): what models which code
- [3 The runs](#3-the-runs): what TLC checks, bounds and fairness
- [4 Disagreements](#4-disagreements-between-code-and-comments)
- [5 The proofs](#5-the-proofs)
- [6 What is not modelled](#6-what-is-not-modelled)
- [7 Plan](#7-plan)

To repeat everything, with TLC, the community modules and TLAPS installed:

    tlc -workers 2 -config EventLog.cfg MCEventLog      # likewise for each .cfg
    tlapm EventLogProofs.tla                            # likewise for each ...Proofs.tla

Every definition that models code is mapped to its lines in `PROJECT.json`,
which also lists the runs, the hazards, and for every property a small change
of the model that breaks it.

## 1 The system

### The frame: startup, main loop, interrupts

From the reset on (`sys_startup.c`) the device sets up its PLLs, tests its
memories and their detectors, clears the memories and calls `main`, where
`KavachInit` sets everything up, the clocks for a second time.  Then a pass of
the main loop (`sys_main.c:116-166`) is:

    can_if_process_rx_pending()      at most 8 received frames, each to its handler
    can_manager_poll_startup()       while it returns 0 the pass ends here
    gps_process()                    bytes of both receivers
    if 5 ms flag:    v_5msTasks()    event log, radio, SMOCIP, NMS: acks, then tx
    if 1 s flag:     v_1sTasks()     snapshot, fallback second, heartbeat, KMS

(the 1 ms and 100 ms tasks are empty, the call of the 10 ms tasks is commented out)

`rtiNotification` counts `system_ms` and `seconds_uptime` and sets the flags;
main clears a flag *after* the task has run, so a tick that comes while the
task runs is merged with the one being served.  Handlers called by
`can_if_process_rx_pending` write the state that the
tasks of the same pass read: that is the coupling between the components.
All of them log through the event log, and transmit with
`can_transmit_redundant`, which sends a frame on both buses and fails only when
both refuse it.  The answers come back on both buses too: every handler must
live with copies.

### Components

| component | state | operations | correct when |
|---|---|---|---|
| **Event log** `Drivers/datalogging.c` | ring of 16 records, one transaction (fragment index, retries, timer, id modulo 16) | push; process ACK timeouts; send a fragment; receive an ACK | no record is lost, reordered, confirmed without being stored, or retried early; a silent card does not block the log |
| **CAN reception** `Drivers/can_if.c`, `source/can.c` | ring of 64 frames, head (interrupt), tail (main); message boxes | interrupt reads a box and publishes; main copies and dispatches | what is published is dispatched once, whole and in order; what is lost is counted |
| **CAN transmission** `source/can.c`, `Drivers/can_if.c` | interface registers of both controllers, shared with the receive interrupt; boxes with a frame to send | set an identifier; transmit on both buses | what a box accepts is sent, as it was given |
| **CAN identifiers** `source/can.c`, `Drivers/can_if.c` | masks and identifiers of 50 boxes, laid out twice; identifiers by CPU | configure; route a frame to its handler | every frame of a card reaches its handler on both buses, and none meant for another CPU does |
| **Radio transmission** `Drivers/radio.c` | two rings of 8 packets with head, tail, count; shared id; timer | send, ACK, timeout, fragment | the ring holds the open packets in order; fragments are in order; every packet leaves |
| **GPS time** `Drivers/gps.c`, `sys_main.c` | last frame of each receiver, selection, faults, fallback, validity of the time | frame, second | a valid time has a source; only a usable GPS is selected; the fallback ends |
| **CAN manager** `Drivers/can_manager.c` | masks of startup and of the heartbeat rounds, fault flag, mask of what was logged, checksums of the cards | startup ACK, heartbeat ACK, poll, one-second tick | the flag follows the latest verdict; a working card is not accused, a dead one is |
| **Station configuration** `Drivers/station_config.c`, `station_config_test.c` | the active configuration | validate, activate, deactivate, getters | nothing is activated that is not consistent; a report names the first fault |
| **Field inputs** `Drivers/input_card.c`, `sys_main.c` | a value per configured input, the revision they belong to | take a record, synchronise, read, snapshot | a value is of the input it is read for, though configurations are replaced |
| Main loop `source/sys_main.c`, `rti.c` | tick flags, counters of the interrupt | timer interrupt, initialisation, a pass | no tick is lost for good, no task is starved |
| Startup and self tests `sys_startup.c`, `sys_selftest.c`, `system.c`, `errata_SSWF021_45.c`, `esm.c` | flags of the ESM, memories with defects, clocks | PLLs, tests, memory initialisation, systemInit twice | what is broken is told, nothing else is, and the program starts from clean flags and safe clocks |
| Interrupt vectors `sys_vim.c` | the table with its parity bits, pending requests | initialise, fetch, correct an entry | no handler runs that nobody has requested |
| SMOCIP `Drivers/SMOCIP.c` | queue of 8 outgoing transactions; last frame by bus; last id; SOS states | send, ACK, timeout; receive with duplicate filter; SOS edges | one button press is one event; the queue leaves in order |
| NMS `Drivers/NMS.c`, `nms_test.c` | queue of outgoing transactions; one latched ACK; the bench cycle | as above, the ACK through a latch; thirteen builders | no message is confirmed unheard; the lengths in a message fit |
| Radio reception `Drivers/radio.c` | one reassembly context for both radios; expected id | fragment | a packet is put together from its own fragments, as far as the code can tell; ids stay in step |
| KMS `Drivers/kms.c` | key query with retries, partial answer | query, answer fragments, timeouts | a key set is complete and of one answer |
| Input cards `Drivers/input_card.c` | last frame of each bus, expected id | record, copy | after a lost record reception recovers |
| RFID `Drivers/rfid_rx.c` | one context for both readers, the bytes of up to 2 fragments, tag database | fragment | a tag is put together from its own fragments, as far as the code can tell; the database keeps its last tags |
| GPS frames `Drivers/gps.c`, `source/sci.c` | two byte rings, shared `rx_byte`, two parsers | interrupt, byte | the bytes of a receiver stay its own and in order, but for a first one; a parser finds its way back after lost bytes |
| Packet contents `radio.c`, `NMS.c`, `datalogging.c`, `rfid_rx.c` | the buffers in which packets are built and put together | build, serialise, parse | a reader who knows the format reads what was written |
| Display, real-time clock `hcms3902.c`, `spi.c`, `i2c_UD.c` | registers of the clock, pins and words of the display | show, write and read the time | a time comes back as it was written; the text appears |
| Rest of the TI HAL | | setters of registers | generated |

### What is hard

`PROJECT.json` lists each hazard with its line.  They are of these kinds:

- *Acknowledgements that are late or repeated.*  ACKs come on both buses, may
  be of an earlier attempt or an earlier transaction, and each component
  matches them by something else: the event log by transaction id, the radio by
  packet type only, SMOCIP by nothing, the CAN manager by card but not by round.
- *Timers in wrapping arithmetic*, with 0 as "not running" in the radio, and
  `gpsX_last_ok_sec = 0` as "never" in the GPS.
- *Rings at their limits*: 15 of 16, 63 of 64, or all 8 slots usable.
- *Interrupts between two steps* of the main loop, the message boxes of the
  CAN controller changing between two steps of an interrupt, registers of the
  controller that interrupt and main loop share, a tick that comes while a flag
  is cleared, and vectors that are corrected while requests come.
- *Stored data used late*: the frame of the other receiver, faults written by
  two functions, a mask taken over although its events were not logged, values
  of inputs kept while the configuration that describes them is replaced.
- *Errors provoked on purpose*: the self tests share the channels of the ESM with
  each other and with real errors.
- *Silence*: a card that never answers, a GPS that never sends again.
- *Ids that fall out of step, or come round*: receivers that drop what is not the expected id; partial
  packets that nothing drops.
- *Interrupts during the startup*: a driver whose interrupt is enabled before it knows where to store.
- *Formats*: offsets of eight bits, fields across words, lengths that others count.

## 2 The modules

| module | models | state and actions |
|---|---|---|
| `OrderedService` | what the log and each queue of packets promise | accepted items in order, each closed in its turn |
| `EventLog` | `datalogging.c` | `QueuePush`, `ProcessAck`, `ProcessTx`, `AckReceived`, `Tick`; card and bus external |
| `EventLogProofs`, `CanRxProofs`, `PlatformProofs`, `TransmitterProofs`, `ReceiverProofs`, `GpsTimeProofs`, `CanManagerProofs`, `StationProofs` | | the theorems of section 5 |
| `CanRx` | receiving in `can_if.c` and `can.c` | `Interrupt`, `GetId`, `GetDataAndPublish`, `Discard`; `BeginCall` ... `AdvanceAndDispatch` of the main loop; controllers external |
| `CanBus` | sending in `can_if.c` and `can.c` | the writes of `canInit`, `canUpdateID` and `canTransmit`, `ReceiveInterrupt`; controllers external |
| `CanIds` | the boxes of `canInit`, `can_configure_device_ids`, `can_if_process_rx` | operators: boxes, masks and lines of both controllers, the handler of a frame |
| `SelfTests` | `sys_selftest.c` | operators on the state of `Startup`: one for each test; hardware external |
| `Clocks` | `system.c`, `errata_SSWF021_45.c`, `pinmux.c` | PLLs, flash, peripherals and sources, step by step |
| `Startup` | `sys_startup.c`, `esm.c` | the steps from reset to the second `systemInit`, on `SelfTests` and `Clocks` |
| `Interrupts` | `sys_vim.c` | table, requests, `Fetch`, `FetchFallback`, `vimParityErrorHandler`; controller external |
| `MainLoop` | `sys_main.c`, `rti.c`, `rtiNotification` | `Tick` of the interrupt; steps of `KavachInit` and of a pass |
| `TxQueue` | the queue of `radio.c`, `SMOCIP.c` and `NMS.c` | operators on a queue: push, pop, start, repeat |
| `RadioTx` | sending side of `radio.c`, on `TxQueue` | `Send`, `AckProcess`, `TxProcess`, `AckReceived`, `Tick`; radios external |
| `SmocipTx` | sending side of `SMOCIP.c`, on `TxQueue` | the same; the panel external |
| `NmsTx` | sending side of `NMS.c`, on `TxQueue` | `Send`, `HandleAck`, `AckProcess`, `TxProcess`, `Tick`; the gateway external |
| `Reassembly` | the reassembly context of `radio.c`, `kms.c`, `rfid_rx.c` | operators on a context: begin, store, complete |
| `RadioRx` | receiving side of `radio.c`, on `Reassembly` | `RxHandle`; radios external |
| `Kms` | `kms.c`, on `Reassembly` | `SendAuthKeyQuery`, `RxHandle`, `Process1s`, `Second`; the key system external |
| `RfidRx` | `rfid_rx.c`, on `Reassembly` | `RxHandle` with the tag database; readers external |
| `StatusRx` | `input_card.c` and the receiving side of `SMOCIP.c` | `RxHandler`; cards and buses external |
| `GpsBytes` | rings and parsers of `gps.c`, serial driver of `sci.c` | `SciInit`, the two stores of `StartReceiving`, the two interrupts with `StoreByte`, `SciNotification`, `DataAbort`; `RxPopLook`, `RxPopTake`; receivers external |
| `GpsTime` | `gps.c:600-1174`, fallback part of `v_1sTasks` | `GpsProcess`, `OneSecondTask`, `Second`; receivers external |
| `CanManager` | `can_manager.c` | `HandleAck`, `HandleHbAck`, `PollStartup`, `PollHeartbeat`, `Tasks`, `Second`, checksums; cards and buses external |
| `StationConfig` | `station_config.c` | `Activate`, `Deactivate`; validation and getters as operators |
| `Nawandgi` | `station_config_test.c` | the configuration of the bench build |
| `FieldInputs` | logical inputs of `input_card.c`, snapshot of `v_1sTasks` | `CardRecord`, `Read`, `Present`, `Withdraw` |
| `RadioPackets` | builders and parsers of `radio.c` | build and send, frame number; packets that come |
| `NmsMessages` | builders of `NMS.c`, `nms_test.c` | queue a message; the cycle of the bench build |
| `LogRecords` | `Log_Event_...` and `EventLog_Serialize` of `datalogging.c` | log, serialise, the clock |
| `RfidTags` | decoders of `rfid_rx.c` | decode a tag; tags external |
| `Rtc` | calendar and registers of `i2c_UD.c`, `v_10msTasks`, and the driver `i2c.c` | set, write a register, read a register, byte by byte; the clock and the I2C module external |
| `Display` | `hcms3902.c`, `spi.c`, the pins of `gio.c` | `HCMS_Init`, the text of `main`, word by word; the display external |
| `MCTransmitters` | | `RadioTx`, `SmocipTx` and `NmsTx` in one run, one of them at a time |
| `MCReceivers` | | likewise `RadioRx`, `Kms`, `RfidRx` and `StatusRx`, for a panel and for an input card |
| `MCPlatform` | | likewise `CanRx` (`rx`), `CanBus` (`bus`), `Startup` (`boot`), `Interrupts` (`vim`), `CanIds` (`routing`) |
| `MCContents` | | likewise `FieldInputs` (`inputs`), the formats, `Rtc`, `Display` and `GpsBytes` (`line`) |
| `MCGpsTime` | | likewise `GpsTime` and `MainLoop` |
| other `MC...` | | values for TLC |

Conventions.  Variables and constants have the names of the code.  Variables
under "History" record what has happened and are read by properties only (and by
the environment); those under "external" are other devices.  Each module has a
section of *slips*: mutated versions of some definitions, used by nothing,
which show that the properties can fail.

The transmitters share no state, nor do the receivers: each is called from the
main loop in turn and works on its own variables.  Their interleavings would
only multiply the states, so a behaviour of `MCTransmitters` or `MCReceivers`
runs one of them, chosen at the start.  The same holds for the parts of the other
modules that put several components into one run.

**EventLog.**  A record is its number in the order of acceptance, and
`Fragments[r]` says into how many CAN frames `EventLog_Serialize` would cut it.
`v_5msTasks` calls `EventLog_ProcessAck` and then `EventLog_ProcessTx(1)`; pushes
and received ACKs belong to other calls of the main loop and do not come
between the two (`mid_task`), while the clock may tick anywhere.  `ProcessTx`
may load the next record and send its first fragment in one step, as the code
does.  The card keeps the fragments of the record on the bus and answers OK or
NOK when the last fragment completes it; ACKs form a set, from which any may be taken, twice
too, or lost.  The model keeps the subtraction `system_ms - tx_start_time`
modulo the width of the clock, and beside it the true age of the wait, so that
`NoEarlyTimeout` says something about wrapping.  Two assumptions are in the
guards: an ACK is not so late that its transaction id has come round (16
records later), and the clock does not run round completely (49 days) while one
ACK is awaited.

**CanRx.**  The interrupt reads identifier and data in two transfers; a frame
may come into the box in between.  The main loop copies an entry field by
field, and may be interrupted after each.  `if2_msg_lst` is the MsgLst bit left
in the interface register by the last transfer: `canGetData` looks at it even if
it transferred nothing.  A frame is its number; an entry whose identifier and
data have different numbers is a mixture of two frames.

**CanBus, CanIds.**  A transfer between an interface register and a box takes
several writes: command, values, number of the box.  `CanBus` makes each
a step, lets the receive interrupt of that controller come in between, which
itself is one step as it is not interrupted, and keeps of the registers the
command, the identifier and the data.  `canUpdateID` is the loop over `Configured`, a
sample of the ten identifiers that `CanIds` lists.  `CanIds` has the fifty boxes with their masks
(as the number of low bits that a box ignores) and lines as `canInit` writes them down
for each controller, and `Reaches`, the whole way of a frame: the box that takes
it, the line on which it interrupts, `canMessageNotification`, and the order of the tests
in `can_if_process_rx`.  What the cards send is external, from the table `can_devices`
and the identifiers in the headers.

**Startup, SelfTests, Clocks.**  The state is the flags of the ESM (`SR1`, `SR4`, group 3), the
memories (initialised, with wrong parity, or used up by a test), the clocks,
and what was notified.  Defects (`broken`) are chosen at the start, external and for good.
`Steps` is the order of `_c_int00`; each step calls one test of `SelfTests`, which
provokes its error, looks, clears and restores as the code does.  Several tests share a
channel, and a flag that the reset left standing can make a test pass.  `Clocks`
goes through `systemInit` twice: the second time the CPU runs from the PLL that
it sets up.

**Interrupts.**  An entry of the table is a handler and whether its parity is
right; entries go wrong at any time (`MaxFlips`).  `vimParityErrorHandler` is
modelled from the address of the wrong entry to the refetch, with its branch for
a pending FIQ.

**MainLoop.**  Each access of the main loop to a flag is a step; the interrupt
comes between any two.  The periods are counted in the one before (`Ratios`), as
`rtiNotification` does.  The tasks are empty here.

**TxQueue, RadioTx.**  `TxQueue` has the operators of the queue that radio,
SMOCIP and NMS each implement with a head, a tail and a count.  `RadioTx` uses one for each radio.
The timer of the head packet is its true age.  The sentinel `start_time = 0` is
kept as what it does: a packet that is completed while `system_ms` is 0 does
not start its timer (`zero`, at most `MaxWraps` times).  No other part of the
repository calls the `radio_send_` functions yet; `Send` offers a packet of any
type to any radio at any time outside the tasks.

**SmocipTx, NmsTx.**  `SmocipTx` is like `RadioTx` with one queue.  What differs is
the ACK: `smocip_ack_received` looks only at the status, so any OK pops the
head, also one that is not waiting, and a NOK does nothing.  In NMS a received ACK is
stored (`HandleAck`) and acted on by `nms_ack_process` in the next run of the 5 ms
task; a second ACK in between overwrites the first.  A NOK makes the head go out again at
once, and the timeout that follows in the same call looks at the head as it is
then, which may be another message.  A message that wants no ACK leaves with its
last fragment (`nms_message_requires_ack`).  The Annexure-G ACK, which comes in
fragments, is one event: its last fragment.

**Reassembly, RadioRx, Kms, RfidRx.**  A packet is its number in the order in which
its sender sends them, and its transaction id is that number modulo `TidMod`.  The
context remembers for each place of which packet the fragment there is, which
the code cannot know: so a packet mixed from two can be seen.  Fragments arrive
in any order, twice, or `MaxLate` packets late.  The three handlers differ in what
opens a new context (the length of the packet or only its id), in the order in which they look
at a fragment, and in what they do with a complete packet:
`radio.c` and `kms.c` know repetitions of the last packet and expect one id,
`rfid_rx.c` takes everything and looks it up in `rfid_db`.  `radio.c` takes over
the ids before it parses the packet, `kms.c` only if the message could be applied.
`Kms` counts seconds: `kms_process_1s` drops an old partial message, and repeats or
gives up the query.  The functions that would drop an old partial packet or tag,
`radio_rx_poll_1s` and `rfid_rx_poll`, have no caller, so `RadioRx` and `RfidRx` drop none: it lies
in the context until fragment 0 of another id comes, and if none does for a whole turn of the
ids, the fragments of the packet that then has its id are added to it.
The seven bytes of a tag's second fragment lie at a fixed place that is never cleared (`second`): a tag
of one fragment, which the code accepts, is decoded with those of the last tag that had two.
A tag that claims more than two fragments is rejected.

**StatusRx.**  `input_card_rx_handler` and `smocip_rx_handle` are the same but for
the events they log; `Panel` chooses.  Each bus brings the records in order, from
`bus[b]` on, and may repeat or skip some.  A frame equal to the one last saved from
the other bus is dropped; any other is saved, and then acknowledged, counted as
a conflict, or taken over.

**GpsBytes.**  The two ports are the SCI and the LIN of `sci.c`.  An interrupt takes
two steps, the store to `rx_byte` and `sciNotification`, which stores into the ring and
arms the driver for the next byte; a byte for which the driver is not armed is dropped.
`KavachInit` arms each driver once, with its interrupt already enabled, in two stores: `rx_length`, then
`rx_data`, which is NULL before.  A byte that comes between them is stored through NULL: that does
nothing, and `sciNotification` pushes what `rx_byte` holds, a 0 or a byte of the other receiver (a *stray*); or it
is a data abort, whose handler does nothing and returns to the store that aborted, for ever
(`DataAbort`).
`isr` is a stack, though it never holds more than one, as IRQs
are masked while one is served.  A pop of the main loop may be interrupted
between reading the byte and moving the tail on.  The parsers are as in the code.  The bytes of a frame after its header are constants of the
model, any of them may be one that a header has; the buffer of a parser is kept as the frame
of which the bytes after its header are, if they are of one.

**GpsTime.**  A frame is its status (fix, PPS) and its time relative to the
present second; times sink by one each second.  `Selected` is the truth table,
`Faults` the bits of `gps_faults` by name, and `Decide` what `gps_process` does
with them, in the order of the code: the incremental test sets the fallback,
the truth table then has the last word.  `OneSecondTask` is the fallback part
and the CPU_TIME_INV part of `v_1sTasks`.  A second that passes before the task
has run merges with the next.  `rtc_abs_seconds` is only written by
`v_10msTasks`, whose call is commented out, so it is 0 in the model as in this
build, a time `LongAgo`.

**CanManager.**  Sets of devices stand for the bit masks.  A pass of the main
loop is two steps: reception and poll (`pc = "rx"`), then the tasks.  An ACK under way
is of the current heartbeat ("new"), its second copy, or of an earlier round
("late").  The event log accepts any first part of the events of one call:
`LogTransitions` keeps the order in which the code logs them.  `update_card_checksums`
runs in the pass that ends the startup: `card_checksums` are sums of what the parts of
a card (`PartsOf`) have reported, 0 unless all have.

**StationConfig, Nawandgi, FieldInputs.**  A blob is a record of its header fields and a
sequence of sections, with entries that are records; its CRC is a Boolean.  Names are
cut to three octets, enough for what is checked (not empty, and ended by a 0).
`Validate` goes through the checks in the order of the code (`FirstError` of
their reports) and returns the report of the first that fails; a failed `Activate` leaves no configuration, as in the
code.  `FieldInputs` adds the values: every function of `input_card.c` synchronises
them with the active configuration first, which it knows by station and
revision only.  `FieldInputsAssumption` says what that relies on, that different
configurations differ in these, and what every decoder gives (`IsDecoded`): numbers, as
many entries as a section counts, names of so many octets.  It says nothing of what
the numbers are, or of a section that is not in its place.

**RadioPackets, NmsMessages, LogRecords, RfidTags.**  A packet is a sequence of
fields with names and widths, in the order in which the code writes or reads
them; nothing is put together bit by bit.  All values of radio packets but those
of the header are the literal 0 in the code, so their layouts matter more than
their values.  A byte that is received is known by its packet, fragment and place, so
that what a parser reads can be told.  NMS messages are fields of so many octets; a
log record is the member of its union that was written, read by the format; a tag is the set
of its bits that are 1.

**Rtc, Display.**  Seconds are a day and a second of the day, since TLC's integers are of 32
bits.  The clock of `Rtc` stands still between writing and reading.  `Rtc` models what
`v_10msTasks` does when it is called, which in this build it is not, down to the calls of the I2C
driver: the loops that wait for a status bit are guards, and the module sets the
bits when it has moved a byte.  `Display` sets the pins of the GIO as the code does, selects the
display by one of them and sends word by word through `spiTransmitData`, which an
error of the SPI ends.

## 3 The runs

| run | module, cfg | states | shows |
|---|---|---|---|
| `event_log` | MCEventLog, EventLog.cfg | 109 k | all of the log: safety, every record closes, it implements `OrderedService` |
| `gps_time` | MCGpsTime, GpsTime.cfg | 54 k | selection, fallback, faults; the fallback expires; ticks of the main loop are served |
| `can_manager` | MCCanManager, CanManager.cfg | 853 k | verdicts, fault flag, events; a dead card is noticed |
| `transmitters` | MCTransmitters, Transmitters.cfg | 67 k | each queue implements `OrderedService`; fragments, retries, confirmations; every packet leaves |
| `receivers` | MCReceivers, Receivers.cfg | 35 k | which packets can be mixed, packets in order, ACKs for what was taken over, the tag database, key queries |
| `contents` | MCContents, Contents.cfg | 1.7 M | configurations, input values, formats, GPS bytes |
| `platform` | MCPlatform, Platform.cfg | 395 k | startup, vectors, CAN reception, sending and routing |
| `can_rx_publish` | MCPlatform, CanRxPublish.cfg | violation | an entry published without new data |
| `can_ids` | MCPlatform, CanIds.cfg | violation | a box that keeps the identifier of another CPU |
| `radio_tx_ack` | MCTransmitters, RadioTxAck.cfg | violation | an ACK that removes the wrong packet |
| `gps_time_timeout` | MCGpsTime, GpsTimeTimeout.cfg | violation | silence of both receivers is not reported |
| `card_checksums` | MCCanManager, CardChecksums.cfg | violation | checksums of the communication cards that are always 0 |

### The properties

Event log.
- `RingHoldsPending`: the ring holds exactly the accepted records not yet taken
  out, oldest at the tail, however the indices have wrapped.
- `ClosedOnce`, `AckedWasStored`: each record ends exactly once, as confirmed or
  as given up, and confirmed only if the card stored it.
- `NoEarlyTimeout`, `GivesUpAfterAllRetries`: no retry before the timeout has truly
  passed; no record given up before its last retry or sent more often.  (That a
  retry keeps its id and a new record gets another, `TidFollowsRecord`, is
  proved, in section 5.)
- `EveryRecordCloses`, `ImplementsOrderedService`: a bounded first-in first-out
  service that closes its records one by one, with a live card or a dead one.

CAN reception.
- `DispatchedAsPublished`: interrupt and copy do not get into each other's way.
- `NoFrameIsLostUnnoticed`: a frame in a box always has a request pending, although
  IntPnd is cleared before the box is read (`NoFrameForgotten`); and
  what is lost, mixed or repeated shows in a counter (`DamageIsCounted`).
- `EveryEntryDispatched`: with eight entries a pass nothing is left for ever.

The platform.
- `AcceptedIsSent`: what `canTransmit` accepts goes out on that bus, whole and in
  order, though the receive interrupt uses the same registers between any two writes;
  what both buses refuse is counted.
- `RoutedToItsHandler`: on both buses every frame of a card comes to its handler,
  through the masks of the boxes, their interrupt lines and the tests on identifiers; no frame meant for
  another CPU comes to any.
- `StartupIsSafe`: who reaches `KavachInit` was told of everything that is broken and
  of nothing else, although tests share channels of the ESM and one test destroys what
  the next relies on; a parity bit is wrong only where a test has failed; and at every
  step of both calls of `systemInit` the CPU runs from a valid clock, at a speed that the
  flash can serve.  Where it is weaker than that, the definitions say so: `Hidden` lists what can
  hide a silent detector, such as flags that a reset has left or a controller of the memory
  tests that is broken itself.
- `HandlersAreRequested`: although entries of the table go wrong at any time and one is
  corrected while requests come, no handler runs that nobody requested, and an error is told once.
- `TicksAreServed` (run `gps_time`): a period that ends while its task is not running
  has its flag until the task begins, the seconds counted are those that passed, and the
  task of the second, last in a pass, does begin.

Transmitters.
- `QueuesServeInOrder`: whatever pops the head (ACK, rejection, last retry, a last
  fragment that wants no ACK), the queue is the list of open packets, only its
  head is active, and a waiting packet would start again from fragment 0
  (`QueuesInOrder`); and each queue implements `OrderedService`: what is accepted is last in
  line, and what leaves is the first, one at a time and in one of its ways, although ACKs,
  rejections and timeouts may come together in one pass.
- `FragmentsInOrder`: on the buses there are only whole packets in order, also
  when frames are refused.
- `RetriesAreCounted`: no packet of radio or SMOCIP is sent too often, except once
  more for each completion at `system_ms = 0`; for NMS the same without exception, and no
  message is dropped before its last retry, though a NOK and a timeout may act in
  one call.
- `NmsConfirmedWasHeard`: an NMS message counts as confirmed only if the gateway
  answered it with OK, although ACKs overwrite each other in the latch.  (Of radio and
  SMOCIP this is not so: their ACKs name no packet, see section 4.)
- `EveryPacketLeaves`.

Receivers.
- `PacketsMixByRoundOnly`: if a radio packet, key message or tag is put together from
  fragments of several, then these have the same id and, of the packets sent between them, no first
  fragment with another id was heard (packets so near to one of the two that
  their fragments may have changed places with its left out).  The code gives no more: a partial packet is
  never dropped, so fragment 0 of one packet and fragment 1 of the packet a turn of the ids later
  make one, if everything between was lost; a run without this exception fails.
  A key message is never mixed, since its partial messages have a timeout.
- `TakenInOrder`: radio packets, key messages and status records are taken over in
  the order in which they were sent, each once, though ids repeat; and
  the radio packet or record that is due is never refused, whatever was refused before.
- `ToldIsTaken`: an ACK of a radio packet or a record confirms what was taken over, and
  the events logged are the changes between the records
  taken over, those that were refused in between leaving no trace.
- `TagsAreKept`: the tag database, while it overwrites its oldest entries, has each
  place once and always holds the last tag; a location is called checked only if two tags that
  match there were decoded, one with the duplicate bit and one without; and the second seven bytes
  are those of the second fragment as soon as it has come.  (For a tag of one fragment the
  duplicate bit, and part of a junction's second location, are what an earlier tag has left: such a tag,
  read twice, can set `location_check` by itself.  That the two tags are a main tag and its
  duplicate is therefore not claimed.)
- `QueryEnds`: a key query ends, by a message or after all its retries.

Contents.
- `ConfigIsJudged`: a blob is accepted exactly if it is consistent, by a definition
  that knows no order of checks, and the report names the first fault in the order of
  the code; what the active configuration refers to is found in it.
  The configuration of the bench build is consistent, and has the inputs that a
  snapshot needs (`BenchIsServed`, an assumption that TLC evaluates).
- `ValuesAreOfTheirInput`: a value that is read, by id or by place, is the bit of its
  channel in the last record of its card, whatever configurations came in between.
- `SnapshotTellsInputs`: in a snapshot that is logged the bit of each id is that of
  the channel of one input of that id.
- `FormatsReadBack`: what is written into a packet, a message or a log record is found by
  a reader who knows the format, each fragment says where it belongs, no message is queued
  that its arrays do not hold, a record has the time of its call and not of its
  sending; fields of a tag are put together from their own bits; a time comes back
  from the registers of the clock, each transaction on the I2C bus ended by the driver; the
  display shows " OK ", if the SPI had no error.
- `PacketsLandInPlace`: a packet of at most 43 fragments lies in its buffer as
  it was sent, and each field that it is long enough to hold is read from its own bytes.
- `GpsFramesAreRead`: while the main loop runs a driver always waits for the next byte (`DriversAreArmed`); a ring
  holds bytes of its receiver in order, after at most one stray, which came in the middle of
  `sciReceive` (`OwnBytesInOrder`); and of two frames that come whole in a row the second is
  read, if nothing in the first looks like a header or the beginning of one at its end (`SecondWholeFrameIsGood`).  If something does,
  as raw bytes of position and time may, a parser out of step can take it for a header and lose the
  next frame too, and if those bytes stay the same, every one that follows.

GPS time.
- `ValidTimeHasSource`: two functions write `fallback_active`, the seconds and the
  validity; a valid time is still one of a selected GPS or of a fallback that
  is not over.
- `FallbackExpires`: bad frames do not extend the fallback, and the equality test
  that ends it is never missed.
- `NmsFaultCoversFaults`: `current_nms_fault`, written with each frame, covers the bit
  `v_1sTasks` sets later.
- `SelectionIsUsable`: the selected GPS was usable when the last frame came, and
  NONE is selected only if no receiver is.

CAN manager.
- `FlagFollowsVerdict`: the fault flag, which both verdicts write, is what the
  latest one says.
- `EventsTellState`: the last logged event of a card is its state, as long as
  the log has refused none of its events.  (An event that was refused is lost
  for good: `last_logged_hb_miss_mask` is taken over all the same.)
- `AnswerCounts`: a card whose answer was handled is not accused.
- `DeadIsNoticed`: a late ACK can save a dead card for a round, not for good.

### Bounds

- Rings of 3 slots (2 usable) for the log, of 2 (1 usable) for reception, of 2 (all usable) for the
  transmitters: they fill, refuse, drain and wrap within the 3 or 4 records, frames or packets of a
  behaviour.  (In `can_rx_publish` the ring has 3 slots.)  The theorems below do not depend on them.
- Two transaction ids in the log: with records 1 to 3 the ids repeat, so an ACK
  two records old has the id of the current one; the guard of `AckReceived` is
  exactly what excludes it.
- `MaxRetries = 1`: a first attempt, a retry and the giving up.  Timeouts of one or two
  ticks on a clock of 2 or 4, which starts at any value, so that it wraps
  before, in, and after a wait.
- Records and packets of one and of two fragments: a first, a middle, a last and an only
  fragment occur.
- CAN reception: two boxes that share a controller and one of the other bus,
  as `if2_msg_lst` is per controller.
- Radio: one radio in `transmitters`, since the two only share the id, which ACKs
  do not use; two in `radio_tx_ack`.  Packet 3 has another type than the rest.
- NMS: message 2 wants no ACK.  Assumed: a short ACK is not so late that its
  id has come round (16 messages).
- Receivers: five ids and seven packets, so that two ids come round; radio packets and messages of
  one, two and three fragments, tags of one and two and one with three, which is rejected; packet 7 has id
  and content of packet 2.
  A fragment is at most one packet late (`MaxLate`); a turn of the ids is longer than that
  (`ReassemblyAssumption`).  In `Kms` a context lasts two seconds and at most one new message
  comes a second: together less than a turn of the ids
  (`ReceiversAssumption`), as in the code (3 s or less, of 16).  In `RadioRx` and `RfidRx` a context
  may be of any age.
- `RadioRx`, `RfidRx` assume that both radios, or readers, number alike, since one context serves both.
- RFID: a database of two entries and seven tags of four places.
- GPS bytes: rings of 3 slots, frames of four bytes; four frames of one receiver, one of which ends with the
  first byte of a header and one with the second, so that with the header that follows the parser meets
  a false start; and a byte of the other receiver, which
  is enough to come between any two steps.
- CAN sending: two of the ten identifiers, the first and the last; `MaxCalls = 3`
  transmissions, `MaxInterrupts = 2`, so that each of two pairs of writes may have one in between.  Routing needs no bounds: all frames of all cards, all four CPUs, in and after the startup.
- Startup: each part broken alone, and the pairs whose tests share a channel or rely on
  each other (`MCDefects`), among them a controller of the memory tests that is stuck and slow
  at once, which the proof for every set of defects had asked for; flags that a reset left (`MCInherited`); `PLL_RETRIES = 2`.
- Vectors: `MaxRequests = 4`, `MaxFlips = 2`: a second entry goes wrong while the first is
  corrected.  Three errors of the ESM, of both groups.
- Main loop: periods of 2, 3 and 2 of the one before, so that a "second" is 12 ticks;
  startup of one second, 40 ticks (`MaxMs`) in all.
- Configurations: a valid blob of four sections with any two of some 80
  deviations in header, sections and entries; the one of the bench build; and four
  that replace each other.  Records of three cards with two channels.
- Formats: times of day at the ends of their ranges; received packets of up to 43 fragments, one shorter
  than its predecessor; counts of NMS messages at their limits and above; each kind of log
  call; tags whose bits alternate in one field while the others are all 0 or all 1.
- Clock: three times (the first of January 2000, the end of a 29 February, the last day of 2099), two of them set; the calendar for leap and common
  years (`CalendarIsRight`).
- GPS: frame timeout 1 s, fallback 3 s, threshold 1 s, clocks right or two
  seconds ahead, frames of every status.  `Horizon` bounds how old a stored time
  gets: beyond it all comparisons that count have the same result.
- CAN manager: two cards, one of them mandatory.  `MaxStall`: not so many seconds pass
  between poll and tasks of one pass that a new round starts before the old one
  was closed; the values of the code (2 s of 5 s) leave three seconds for a pass
  of some milliseconds.

### Fairness

- Weak fairness of the main loop and of its tasks: the loop waits for nothing.
- Weak fairness of the clock: it is a timer interrupt.
- Strong fairness of a fragment that is accepted (event log, radio): the buses
  may refuse frames again and again, but not every time for ever.  Without it a
  record that never gets onto the bus would wait for ever, in the code too:
  only a completed transmission starts the timer.
- CAN reception: a pending interrupt is taken and finishes, and leaves the main
  loop time to run.
- Main loop (`TicksAreServed`): the timer goes on, and interrupts leave the loop time to run.
- KMS: seconds pass, and `kms_process_1s` runs after each.
- No fairness for cards, radios, receivers, ACKs or frames: they may fall silent.

## 4 Disagreements between code and comments

Each is a run whose only property says what a comment says, and which TLC finds
violated.

- `can_if.c:397` "Publish the entry only after all fields have been written."
  `canGetData` returns 3, "a message was lost", whenever MsgLst is set in the
  interface register, also if the box had no new data and the bit is that of an
  earlier box, and 3 counts as success.  An interrupt without data (its frame
  was read by the interrupt before) then publishes the old data of the slot.
- `radio.c:1040` "ACK must correspond to the packet currently at the head of the
  queue."  Only the type is compared, so the second copy of an ACK removes the
  next packet of the same type before its radio has heard it.
- `can.c:1355` "if a CAN interrupt occurs, the values of the IF registers are
  backup up and restored at the end of the ISR".  The interrupt restores IF1CMD only.  `canUpdateID`
  (`can.c:1642`) uses IF2: an interrupt before it writes the number of the box makes
  the transfer a read, and the box keeps its identifier, that of CPU 1.
- `can_manager.c:529` "Calculate combined Card checksums": once, at the end of the startup.  Those
  of the communication cards need the checksums of both GPS receivers, and
  `gps_process` has not run by then (`sys_main.c:128`), so they are 0 for ever.
- `gps.c:141` "GPS1 frame timeout (no valid frame for GPS_FRAME_TIMEOUT_SEC)".
  Timeouts are evaluated when a frame comes: if both receivers fall silent
  neither is reported, no fallback starts, and the time stays valid.

Met on the way and not given a run of its own:

- `SMOCIP.c:409` and `input_card.c:234` take a frame for a redundant copy if it
  equals the one last saved from the other bus, however old that is.
  If that bus has been silent for sixteen records, an unchanged record on this bus
  is dropped without ACK though it never was received; the next one then is not
  the expected one, and all that follow are refused until the status changes.
- The incremental test (`gps.c:675-701`) compares two readings of GPS time minus RTC time, which without
  the RTC differ with every frame, and its verdict is always overwritten by the
  truth table and the handling of the selection that follow in the same call.
- `sys_main.c:463` says "Advance CPU time only while still valid", but in fallback the CPU time is set to
  `rtc_abs_seconds`, which only `v_10msTasks` writes, whose call in `main` is commented
  out (`sys_main.c:147`): with the first second of a fallback the CPU time becomes
  0, and stays valid for a minute.
- `gps.c:942` says that the ring is drained, but one byte is taken per pass.
- The Annexure-G ACK is called "CRC-validated" at `NMS.c:819`, but no CRC is computed.
- `errata_SSWF021_45.c:121` overwrites the code of a PLL that did not lock, so
  `handlePLLLockFail` is not called and the startup waits in `mapClocks` without end.
- `selftestFailNotification` and `memoryPort0TestFailNotification` are empty: the startup
  goes on with what is broken.  The FIQ of the ESM is never enabled.
- `rfid_rx.c:716` reads bit 93 (Y29) for the duplicate flag of a junction tag, and calls
  it Y31 in its comment.
- `radio.c:1567` inserts PKT_LEN from the global `payload` and not from the packet
  built; an AEP is built with the type of an AAP; `radio.h:117-130` counts 104 bits of
  header, the builders write 101; the loop over the lines of a TLI includes its bound.
- `radio_rx_poll_1s` (`radio.c:1940`) and `rfid_rx_poll` (`rfid_rx.c:1042`) have no caller, so partial packets
  have no timeout, and two packets sixteen apart can become one.
- `rfid_ctx_reset` (`rfid_rx.c:249`) leaves `data` as it was, and a tag of one fragment is accepted: its duplicate
  bit is of the tag before.
- `KavachInit` calls `sciReceive` with the receive interrupts enabled (`sys_main.c:258-265`): a byte
  between its two stores goes through a NULL pointer.
- A received ORP or ARP of 18 bytes, the shortest accepted, is shorter than
  what the parser reads: the rest is of the packet before.
- `RADIO_MAX_FRAGMENTS` is 64, but the number of fragments is sent in six bits, and
  the eight-bit offset of a received fragment wraps from number 43 on.
- `EventLog_GetFormatForEvent` has no caller; an ACK to another CPU is taken for data at `can_if.c:265`.

## 5 The proofs

Eight modules prove with TLAPS, for every value of the constants that satisfies the
named assumptions, what TLC checks on small instances.  They share one pattern: an
inductive invariant, a lemma for each action that it keeps it, `Invariance`, and
from it the properties.

| module | assumptions | holds for every |
|---|---|---|
| `EventLogProofs` | `EventLogAssumption` | ring of at least two slots, range of ids, retry limit, timeout shorter than the clock, size and number of records |
| `CanRxProofs` | `CanRxAssumption` | ring of at least two slots, limit of a call, boxes and controllers, number of frames |
| `PlatformProofs` | `CanBusAssumption`, `InterruptsAssumption`, `GpsBytesAssumption` | choice of boxes, calls, interrupts; errors and entries that go wrong; rings of at least two slots, frames of every length and content, headers within them included |
| `TransmitterProofs` | `TxQueueAssumption`, `RadioTxAssumption`, `MCTransmittersAssumption` | queue of at least one slot, range of ids, retry limit, timeout, radios, sizes, types and numbers of packets |
| `ReceiverProofs` | `ReassemblyAssumption`, `ReceiversAssumption` | range of ids wide enough for the delays, sizes and contents of packets, timeouts, size of the tag database |
| `GpsTimeProofs` | `GpsTimeAssumption`, `MainLoopAssumption`, `StartupAssumption` | timeouts, threshold, statuses and errors of the receivers; periods, duration of the startup; sets of defects, flags that were left, tries of the PLLs |
| `CanManagerProofs` | `CanManagerAssumption`, `RadioPacketsAssumption` | sets of cards, mandatory cards and parts, periods; sequences of received packets |
| `StationProofs` | `FieldInputsAssumption` | sets of blobs, of any number and size of sections; records of cards; number of inputs |

The assumptions are types, and a few relations that the constants of the code satisfy: a
clock that is longer than the timeout (2^32 ms, 2 s); a pass that ends before the next
round (`CanManager`); ids that take longer to come round than a fragment may be late (`Reassembly`), and
in `Kms` than the context lasts; releases that tell configurations apart (`FieldInputs`); and tags of one kind with as many
locations, at least one, as `rfid_decode_...` make them.  TLC evaluates each of them in a run.

### Event log (`EventLogProofs`)

| theorem | states |
|---|---|
| `Invariance` | `IInv`, the inductive invariant |
| `TypeCorrect`, `RingCorrect`, `ClosedOnceCorrect`, `NoFalseConfirmation` | `TypeOK`, `RingHoldsPending`, `ClosedOnce`, `AckedWasStored` |
| `NoEarlyTimeoutCorrect`, `RetriesCorrect`, `TidCorrect` | `NoEarlyTimeout`, `GivesUpAfterAllRetries`, `TidFollowsRecord` |
| `ImplementsService` | `Service!Spec`: each step is a step of `OrderedService` or a stutter |

None of the properties is inductive.  `IInv` adds to them

- `TxInv`: waiting for an ACK implies an active transaction, and the number of complete
  transmissions is the retry count, plus one while waiting;
- `TimeInv`: while an ACK is awaited, the wrapped difference is its true age;
- `AckInv`: an ACK on the bus is as many ids behind the current transaction as
  its record is behind the current one, provided it is less than a full turn
  of the ids late, and an OK speaks of a record the card has stored.

`AckedWasStored` then follows by arithmetic: an ACK that matches the current id
and is not a full turn late is for the current record (`AnswerIsForRecord`), and
so the record is stored.  `SlotFacts`, `NextIndexFacts`, `PushKeepsRing` and
`PopKeepsRing` are the lemmas on the ring; each action has its own lemma, and
`StepInv` combines them.  Loading a record and sending its first fragment is
one step of the code, so `SendKeeps` is stated for "a record in hand", whether
it was in hand before or has just been loaded.

For the refinement, `ServiceView` shows that under `IInv` the mapped state is simple:
the records `1..Settled` are closed, and what is pending, in hand and in the ring, is the sequence from
`Settled + 1` to `pushed`.  `ServiceSteps` tells what a step does to the three
sets a caller sees, and `ServiceStep` maps it: a push appends, an ACK or the giving
up takes the first record, everything else is a stutter.  The fairness of the
service, the other half of `ImplementsOrderedService`, is left to TLC.

### CAN reception (`CanRxProofs`) and the platform (`PlatformProofs`)

| theorem | states |
|---|---|
| `EntriesArriveWhole` | `DispatchedAsPublished` |
| `LossIsNeverSilent` | `NoFrameIsLostUnnoticed` |
| `SentAsAccepted` | `AcceptedIsSent` |
| `NoHandlerUnasked` | `HandlersAreRequested` |
| `FramesAreRead` | `GpsFramesAreRead` |

In reception `RingInv` says that what is published and not dispatched lies between tail
and head, and that an interrupt which fills the slot of the head has a free one; `CopyInv`
that the fields the main loop has copied so far are of the oldest entry.
These two carry the first theorem.  For the second, `RequestInv`: a box
that is requested or in the hands of the interrupt without new data has lost a
frame, and `FrameInv`: the frames in boxes differ and have not been read.  The
counters are cardinalities of sets of damaged frames and entries, hence the lemmas on
finite sets.

In sending, `TransferInv` says that a transfer which has begun finds command and data
as it left them, whatever interrupts came in between: the receive interrupt
restores IF1CMD and does not touch IF1DATA.  `InOrder` is the property for each box,
`CountInv` where the counter of refused calls stands in the middle of a call.
For the vectors `TableInv` says that the handlers of the table never change: what goes
wrong is a parity, and the corrected entry is the initial one.

For the bytes of the GPS receivers, `ServedInv` says that the byte an interrupt
serves is the one in `rx_byte`, unless it was the first and came in the middle of `sciReceive` (`Silent`: then ring and
parser are still empty, so the stray is alone); `RingInv` that a ring holds the last bytes its receiver
sent, in order, after such a stray; and `ParserOf` what a parser has of the frame it is in.
The hard part is a parser that has lost its place: what it has gathered begins like a header
(`HeaderInv`); in a frame that holds no other (`HeaderFree`) that is the header of the frame
(`HeaderIsFirst`), or the parser has dropped it before the frame ends (`FrameEnds`); from
the next frame on the parser keeps step (`KeepsStep`), whatever that frame holds.

### Transmitters (`TransmitterProofs`)

| theorem | states |
|---|---|
| `QueuesKeepOrder` | `QueuesInOrder` |
| `SendersServeInOrder` | `QueuesServeInOrder`: each queue implements `OrderedService` |
| `PacketsGoWhole` | `FragmentsInOrder` |
| `RetriesAreBounded` | `RetriesAreCounted` |
| `ConfirmedMeansHeard` | `NmsConfirmedWasHeard` |

The first part is about the queue that the three components have in common: `WellFormed`
(the tail is behind the newest transaction, the head alone is active), and what
push, pop and a new head do to it (`PushFacts`, `PopFacts`, `SetHeadFacts`).  The
invariants of the three then say which packets are in the queue (`...Order`), and of the head
what has been sent of it and how often (`...Head`).  NMS needs more:
`NmsTids` and `NmsAcks` relate the ids in the queue to those of the answers
under way, and from them an OK with the id of the head is the gateway's answer to
the head (`NmsAnswerIsTrue`), as long as an ACK is not a full turn of the ids late.
For SMOCIP and the radios no such theorem holds: their ACKs name no packet (section 4).

For the refinement the queue is mapped to the sequence of its packets: a push appends to
it, a pop takes the first away, a new head that carries the same packet leaves it
as it is (`LineOfPush`, `LineOfPop`, `LineOfSetHead`).  `RadioServes`, `SmocipServes` and `NmsServes`
then tell what each action does to the line and to what has left (`Serves`), and the
`...Newest` lemmas that what comes is newer than both.  A step of `radio_ack_process` may take a packet
from several radios at once, hence the step is told for each radio; `radio1` is any of them.

### Receivers (`ReceiverProofs`)

| theorem | states |
|---|---|
| `PacketsMixSeldom` | `PacketsMixByRoundOnly` |
| `TagsStayKept` | `TagsAreKept` |
| `ReceivesInOrder` | `TakenInOrder` |
| `TellsWhatIsTaken` | `ToldIsTaken` |

The invariants say of a context that all its fragments have its id (`OneId`), and of which packets they can be.
In `Kms` they are of one (`WholeContext`): the id has not come round (`NotRoundBy`, which follows from the age
of the context, as at most one message comes in a second), two packets less than a turn
apart with the same id are the same (`TidIsUnique`), and so a fragment that fits is of the same packet
(`JoinFacts`).  In `RadioRx` and `RfidRx` nothing bounds the age.  There `HeardSince` says that since a
fragment in the context was sent every first fragment heard had its id, but for those that may
have been sent before it: any other would have opened a new context.  `JoinHears` keeps this, and
`ContextMixes` takes the property from it.  Order does not need more: `InStep` ties the expected id
to the last packet taken over, so what has the expected id, mixed or not, is newer (`AcceptFacts`), and the packet
that is due has it.

The second seven bytes of a tag (`second`) are the second fragment's as soon as that is in the context
(`SecondIsOwn`); before that nothing is known of them, and `TagFacts` about what is decoded holds for any.
In the tag database the search looks at the slots by their age, the properties at those that are not
empty; `TagDbPart` says that these are the same.  Matching asks for the same kind, the same id and the same
location at one place; the proof needs it to be reflexive and
symmetric (`MatchFacts`), which it is for entries that were decoded from tags and have a
location, and not for arbitrary records.  It is not transitive at junctions, and nothing relies on it.

### GPS time, main loop, startup (`GpsTimeProofs`); CAN manager, packets (`CanManagerProofs`)

| theorem | states |
|---|---|
| `TimeHasSource`, `FaultsReachNms`, `SelectionHolds` | `ValidTimeHasSource`, `NmsFaultCoversFaults`, `SelectionIsUsable` |
| `TicksStayKept` | `TicksAreKept` |
| `StartupStaysSafe` | `StartupIsSafe` |
| `FlagIsVerdict`, `EventsAreTrue`, `NoFalseAlarm` | `FlagFollowsVerdict`, `EventsTellState`, `AnswerCounts` |
| `PacketsArePlaced` | `PacketsLandInPlace` |

The three properties of the time become inductive with `FaultlessIsSelected`: without a fault no
fallback is active and the time is valid, so that the fault which `v_1sTasks` adds
at the end of a fallback is never the first.  `DecisionFacts` goes through the
truth table once for all.  The flags of the main loop are an invariant with the addition that a period
whose task is running is not owed (`LoopInv`): the flag may be cleared at the end of the task
only because of that.  That the startup lasts holds from the step
of the poll on, as the clock only grows.

That the seconds counted are those that have passed is a fact about digits: the counters of
`rtiNotification` are those of the time in a mixed radix whose places are the periods (`SecondsInv`), and a tick
that carries up to some period leaves zeros below it (`EndedIsFull`, `TickKeepsSeconds`).  `Length`, what a period
is long, is a recursive function; that it is defined, and the sums over the places, are shown
by induction over the periods.  The induction theorems of the library cannot be used here, so
`Induction` derives what is needed from the well-foundedness of the order, by the least counterexample
(`WFMin`).

The startup is one sequence, but with any set of parts broken, any errors of the eFuse controller and any flags
left by the reset.  `BootInv` says at each step which clocks are valid (`ClockInv`), which flags of the ESM
are up and why (`FlagInv`, `StatusInv`), where a parity bit is wrong (`WrongInv`), which tests have been
made (`TestedInv`), and of what was notified that it is true and of what is broken and tested that it was told
(`TrueInv`, `ToldInv`).  Tests share channels, so each `...Keeps` lemma has to say which flags a test finds and leaves.
The first attempt at this proof failed for a set of defects that no run had tried, a memory test that is stuck
and slow at once; it is now in `Hidden`, and in the run.

Those of the manager become inductive with
`LoggedIsVerdict` (the mask that was logged is the last one) and `AnswersAreKept`: an
answer that was handled since the heartbeat is in the mask when the round is closed.

A received packet is placed fragment by fragment, at an offset of eight bits, so that fragments
beyond the 43rd overwrite the first ones.  What lies in a byte is of the last
fragment that was stored there (`LastFragment`, `StoredFacts`), which is its own if there are at most 43
(`InPlace`).  A packet of 30 bytes has five fragments (`LongEnough`), and the fields that the
parsers read end before (`OrpStarts`, `ArpStarts`).

### Station configuration and inputs (`StationProofs`)

| theorem | states |
|---|---|
| `Invariance` | `StationInv`: what is active passed the validation; what is kept are values for a configuration of the release that was seen |
| `ConfigStaysJudged` | `ConfigIsJudged` |
| `ValuesStayWithInputs` | `ValuesAreOfTheirInput` |
| `SnapshotsAreTrue` | `SnapshotTellsInputs` |

The validation is one long sequence of checks, each of which may end it; `Consistent` is a
statement without any order.  `FirstErrorFacts` says what a sequence of checks reports, and
from there on each part of the validation is taken to its part of `Consistent`: `HeaderFacts`; the
sections, of which each is compared only with those before it (`CompareFacts`,
`SectionFacts`, `DirectoryFacts`, where the number of their types is compared with the number of sections,
`DistinctFacts`); the entries (`InputFacts`, `SignalFacts`, `PointFacts`, `TrackFacts`).
References are looked up in the first input of an id, which is the only one
once the inputs are good (`RefersFacts`); that is why the inputs have to be judged first, in the code and in the
proof (`EntriesFacts`).  `FaultFacts` puts them together: the report names the first bad entry.
`VerdictFacts` is the equivalence.

The values need more than that.  A release may be withdrawn, replaced, and presented again before
the values are synchronised, so `ValuesInv` is not about the active configuration but about
the one of the values (`IsKept`); `SyncFacts` shows that the comparison of releases is enough to tell
them apart.  For the snapshot, ids between 1 and the number of inputs that are all different are
all ids there are, by the theorem of the library on injections of finite sets.

### Only model-checked

- Liveness: `EveryRecordCloses`, `EveryPacketLeaves`, `QueryEnds`, `FallbackExpires`,
  `DeadIsNoticed`, `TicksAreServed`, `EveryEntryDispatched`, and the fairness in
  `ImplementsOrderedService`.  They need fairness and ENABLED, which TLAPS does not support here.
- `RoutedToItsHandler`, `FormatsReadBack`, `BenchIsServed`: statements about the
  tables of boxes, the layouts of the messages and the tables of one station, without a constant over
  which to generalise; TLC goes through all cases (for the formats, all those of section 3).

## 6 What is not modelled

- CRCs and checksums are perfect: frames and blobs that fail one are told from those that do not.
  Frames of the wrong length are dropped before they
  change any of the modelled state, as if they were lost.
- The encoding of positions for the radio (`gps.c`), which nothing uses; the contents
  of the CPU time frame (`send_cpu_time_can`); the keys of KMS.
- What the repository never calls: most of the setters of the HAL, the tests of the CPU, the flash and the
  lockstep comparator in `sys_selftest.c`, the DMA; and code that is commented out.
- The tests of two-bit errors in `checkRAMECC` cause data aborts, whose handler is assembly: external, but for what it
  does with the abort of `GpsBytes`.
- Assembly, and the linker's memory map.

What is in the models but idealised: two senders of radio packets or tags number
alike (section 3); the real-time clock stands still between writing and reading; a reset
is a new behaviour, as nothing but the ESM's flags and the cause of the reset outlives it.

## 7 Plan

In this order, most important first.

1. *Done:* `EventLog` with `OrderedService` and proofs; `CanRx`, `CanBus`, `CanIds`;
   `TxQueue` with `RadioTx`, `SmocipTx` and `NmsTx`; `Reassembly` with `RadioRx`, `Kms` and `RfidRx`;
   `StatusRx`, `GpsBytes`, `GpsTime`, `CanManager`, `MainLoop`; `Startup` with `SelfTests` and `Clocks`,
   `Interrupts`; `StationConfig`, `FieldInputs`, and the formats.
2. *Done:* proofs of the safety of `EventLog` and the transmitters (with the steps of `OrderedService`),
   `CanRx`, `CanBus`, `Interrupts`, `GpsBytes`, the receivers, `GpsTime`, `MainLoop`, `Startup`, `CanManager`,
   `StationConfig` and `FieldInputs`, and of the placing of packets in `RadioPackets`.
3. An abstract specification of the receivers, `OrderedReceiver`, for `RadioRx`, `Kms` and
   `StatusRx`; the theorem `ReceivesInOrder` holds what the mappings need.
4. Two senders in `RadioRx` and `RfidRx` that do not number alike.

Bounds of the runs to come are as in section 3: rings of two or three slots,
three or four messages, one retry; safety and liveness of a component share a
configuration where the state space allows.
