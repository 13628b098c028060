# Verification of swarm-ranging

TLA+ models of the firmware, of the host, of the simulation and of the libraries
of this repository, checked with TLC on small instances and, for the results
that matter most, proved with TLAPS for all of them. Paths are
relative to `src/` of the repository's root; `main.c` is `src/antenna/main.c`.

## 1. Inventory

A swarm of DWM1001 boards exchanges ultra-wideband messages. Every message
carries its transmission time and, for every other node, the time at which the
sender received that node's last message. From these a host computes distances
(active ranging) and differences of distances between two others (passive
ranging).

| component | state | operations | interacts with |
|---|---|---|---|
| antenna main loop, `main.c` | `self`, `received_messages`, `transmission_timer` | `main`, `check_received_messages`, `send_message` | the transceiver by polling registers; the host by UART lines |
| message codec, `messages.c` | none | `construct_message`, `analyse_message` | called by the main loop |
| transmission time ring, `storage.c` | `tx_timestamps` | `set_tx_timestamp`; `get_tx_timestamp` has no caller | called by `send_message` |
| transceiver timestamps, `timestamps.c` | none | `read_systemtime`, `read_rx_timestamp` | driver |
| host interface, `host_interface.c` | none | `process_out_message`, `process_in_message` | writes JSON lines to the UART |
| host main loop, `host/main.py` | connections, the file | `main` | serial ports, `Node` |
| ranging node, `host/node.py` class `Node` | `tx_ts`, `rx_ts`, `other_tx_ts`, `other_rx_ts`, the distances | `evaluate_tx`, `evaluate_rx`, `get_stored_rx_timestamp` | fed line by line |
| simulation, `host/simulate.py`, `SimulationNode` | clock, sequence number, `receive_timestamps`, the file | `simulate`, `tx`, `rx` | writes the file |
| evaluation, `host/evaluate.py` | errors | `evaluate_static` | reads the file, calls `Node` |
| experiments, `host/run_experiments.py` | none | parameter sweep | simulation, then evaluation |
| transceiver and driver, `lib/decadriver` (vendored) | registers of the DW1000; `dw1000local` | settings, transmission and reception, `dwt_isr`, clocks, sleep, calibration, OTP memory | SPI; callbacks of the application |
| platform port, `lib/platform` (vendored) | SPI buffers, settings of the bus | `writetospi`, `readfromspi`, `decamutexon`, `dwt_getrangebias` | driver, SPI bus, interrupt line |
| unit tests, `test/antenna`, `lib/unity` (vendored), the workflow | `Unity`, `pointer_store` | set-up, body and tear-down of a test; assertions | the shell that looks for "0 Failures" |
| boards, build, documentation, host tests | - | - | - |

What is hard in it:

* The transceiver runs beside the firmware. It is read register by register,
  and a frame may arrive between any two accesses: payload and timestamp of a
  reception are two accesses (`main.c:104`, `main.c:107`).
* One thread receives and transmits. It is in `send_message` for as long as the
  transmission takes, and enables the receiver only there.
* Frames are lost, damaged, or dropped unread; every node has a different gap.
* A delayed transmission must be commanded before its time has come.
* The host combines times of three messages reported in four lines, looks some
  of them up unguarded, and leaves its loop at the first one it lacks.
* Widths: 16-bit sequence numbers that index a ring and mean "unused" at 0,
  40-bit times, frames of at most 127 bytes.
* A restarted board counts from 1 again.
* A serial line may be cut by a timeout, boards are silent or log, and exceptions
  are swallowed.
* `dwt_isr` works through a status it has read once, while the transceiver goes on
  and callbacks call the driver.
* The driver changes one bit of a register by writing all of it, from a copy or
  from what it read before an interrupt.
* A sleeping transceiver keeps part of its state, a restarted processor none.
* A test that fails leaves by `longjmp` from any depth.

What makes each correct is the content of section 4; PROJECT.json lists each
hazard at its line with the properties that cover it, or why none does.

## 2. Modules

| module | contents |
|---|---|
| `LastHeard` | abstract: transmissions are numbered without a gap, and a node remembers the newest one it has heard of every other |
| `Antenna` | the firmware of all boards, their transceivers and the medium |
| `MCAntenna` | symmetry for TLC |
| `AntennaProofs` | theorems about `Antenna`: one node and its transceiver, then the swarm |
| `Messages`, `MessagesProofs` | the bytes of a frame, the table they are built from, the index of the ring, with their widths; theorems |
| `DeviceClock` | the counter of a transceiver and the times made of it |
| `Node` | class `Node`: the times it stores, the measurements it makes |
| `NodeProofs` | theorems about the two formulas, lemmas about the dictionaries |
| `Ranging` | boards, clocks and hosts together, with losses, restarts and wraps, over `Node` and `DeviceClock` |
| `RangingProofs` | theorems about `Ranging` |
| `Simulation` | `simulate()`, then `evaluate_static()`, over `Node` |
| `SimulationProofs` | theorems about `Simulation` |
| `MCSimulation` | three nodes in a triangle, their clocks |
| `MCExchange` | `Ranging` and `Messages`, and a second instance of `Ranging`, for TLC |
| `HostMain` | the serial loop of `main.py` and the lines it reads |
| `DwIsr` | events of a transceiver, the routine that reports them, an application |
| `EventsProofs` | theorems about `HostMain` and `DwIsr` |
| `MCEvents` | `HostMain` and `DwIsr`, and two more instances of `DwIsr`, for TLC |
| `DwConfig` | registers, the driver's copies of them, the calls that write them |
| `DwPmsc`, `DwPmscProofs` | forced clocks and the flags beside them, with callbacks in between; theorems |
| `DwSleep` | sleep, waking up, loss of the processor's memory |
| `DwCalibration` | the adjustments for temperature |
| `DwOtp` | programming a word of the one-time programmable memory |
| `DwRangeBias` | the correction of a range by tables |
| `DwSpi` | register accesses over SPI, header and buffers, and the mutex |
| `UnityFixture`, `UnityAsserts` | the life of a test and its count; the assertions |
| `LibraryProofs` | theorems about `DwConfig`, `DwSleep`, `DwCalibration`, `DwOtp`, `DwSpi` and `UnityFixture` |
| `MCLibrary` | these six and `DwPmsc`, which it extends, and instances of the other modules of `lib`, for TLC |

`MCExchange`, `MCEvents` and `MCLibrary` are suites: a behaviour is one of one
component, chosen in the initial state (`part`, `component`), and the variables of
the others keep their values. A property of a suite speaks of one component, so
that a run answers one question for each.

Definitions named "Fault" in a comment are plausible bugs: substituted for the
definition that follows they make a named property fail (PROJECT.json
"mutants"). Nothing else uses them.

### Antenna

One action of a node is what the firmware does between two accesses of the
transceiver whose order with the medium can matter. `pc[n]` names the next one:

| pc | action | code |
|---|---|---|
| status | `CheckStatus` | `main.c:96-97`, and the error branch `124-127` |
| data | `ReadFrame` | `dwt_readrxdata`, `main.c:104` |
| stamp | `TakeFrame` | `main.c:107-115` |
| ack | `AckFrame` | `main.c:119-123` |
| timer | `NothingDue`, `StartSend` | `main.c:158`; `58-71` |
| txwait | `FinishSend` | `main.c:73-87`, `160-164` |

Beside it `Expire` is the kernel timer and `OnAir` the medium: the pending
transmission of a node reaches any subset of the nodes that listen, and any
disjoint subset receives it damaged. `OnAir` is one step although a frame lasts
about 200 microseconds: what a firmware can see of a reception is the event
bits, set at its end.

`received_messages` is `table`, `self.sequence_number` is `seq`,
`tx_timestamps` is `tx_times`, the last line of each kind sent to the host is
`uart`. A timestamp is the frame of whose arrival it is the time: `Stamp` is
`[sender, seq, sound]`, and a property may ask whether it is that of the right
frame. `sound` is false if the receiver was not reset after an error.

Assumptions about the DW1000, which is not in the repository, read from how the
driver and the firmware use it:

* After a reception, good or bad, the receiver is off: the firmware never sets
  `SYS_CFG_RXAUTR` (no call of `dwt_setautorxreenable`), and
  `dwt_rxenable` is documented to listen "until it either receives a good
  frame, an error ... or it times out" (`deca_device.c:2987-2988`).
* `dwt_rxenable` starts a reception with no receive event pending. The hardware
  does this when the receiver is enabled; `dwt_rxenable` itself writes only
  `SYS_CTRL` and so relies on it.
* A transmission that has been commanded takes the receiver away; a frame that
  arrives then is missed.
* A late delayed transmission is reported by `SYS_STATUS_TXERR` and cancelled by
  `dwt_starttx`, and TXFRS is never set for it.
* Reading the error bits and clearing them is one step: with an error set the
  receiver is off, so that nothing can set them in between.

Assumptions about the firmware's surroundings: participants have different ids
(`get_id` gives 0 to every unknown board), and frames of other protocols are absent
or damaged. In `Antenna` sequence numbers stay below the wrap of `int16_t` and
boards do not restart; the wrap is the subject of `Messages`, restarts are that of
`Ranging`.

### Messages, DeviceClock and Ranging

In `Messages` a frame is the sequence of its bytes. `Radix` is 256 in the source;
with 6 a word has 36 values and wraps after as many transmissions, and nothing else
about the layout depends on it: the theorems hold for every `Radix`. `Construct` and `Analyse` are the two functions of
`messages.c`, `WriteTxData` the check and the copy of `dwt_writetxdata`, `BufferLen` the expression of `send_message`, `Fitting` the check of
`messages.c:104`. `Receive` is `check_received_messages` for a frame of a board that
runs the same code, `Send` is `send_message` with any buffer size of `Sizes` beside
its own. A byte that the code leaves unwritten has any value (`junk`).

`DeviceClock` has the counter, of `Low * High` values (`2^8 * 2^32`), and the
arithmetic of `send_message`. That the transceiver ignores the lowest bit of the
programmed time and adds the antenna delay is read from `main.c:61` and the
driver's `dwt_settxantennadelay`.

In `Ranging` one step, `Transmit`, is a transmission, its reception by any
subset of the others, and the lines at their hosts (`Line`, with the timestamps
`Echoes`). Its hosts are the records of `Node`. `Restart` is what a reset leaves: number
1, an empty table, a counter that starts again; hosts and other boards are not told. `born` and the epochs in `table`
are history: the life of a board and the turn of its counter that each stored
time is from, so that a property may ask whether times belong together (`Fit`).

### HostMain

A line is two pieces, of which the second has the newline, and `readline()` may
time out between them. `Process` is the body of the loop, with the exceptions:
`JSONDecodeError` and `KeyError` are caught, an `AssertionError` would end it. A line
decodes if it is one whole line; half a JSON object is not JSON. `Argument` is the
inner dictionary, as `main.py:36` and `:38` pass it.

### DwIsr

`Enter` reads the status and with it the set of stages that are to be worked on, of
which `Stage` is the first; `RxGood`, `TxSent` and `RxFailed` are the branches of
`dwt_isr`, `Leave` is the return of a callback, after which HRBT toggles the buffer.
Between any two of them the transceiver may receive, fail or finish a transmission
(`Receive`, `ReceiveFails`, `Transmitted`), and the application, from a callback or outside of the routine,
calls `dwt_rxenable`, `dwt_starttx` (with and without a response, in time and late)
or `dwt_forcetrxoff`, when it takes the transceiver to be idle by what callbacks told
it (`Expected`). With `Prompt` events are reported before the next one occurs,
which is what the acknowledgement's branch assumes: AAT is one bit for the frame and
the transmission that answers it.

### The driver's other modules

`DwConfig` has a call of the driver as an action that writes `chip`, the registers,
and `local`, the copies, and notes in `asked` what the caller asked for. A register
of flags is the set of its ones; so are the modes, directions and values of the pins, and
the interrupt mask. What `dwt_configure` writes to tune the receiver is one register
`radio`, but for the byte of DRX_TUNE2 that `dwt_configurefor64plen` also writes
(`deca_device.c:644`, `648`): `dwt_configure` writes all 32 bits (`752`), so that it replaces
the tuning of `dwt_configurefor64plen`, which is to be called after it. `asked` then has
the byte of the later call, and `TunedTogether`, which TLC violates, says that the two
registers of `dwt_configurefor64plen` may come apart. The two measurements of the pulse
generator (`MeasurePg`, `TryDelays`) leave in TC_PGDELAY what they have tried last. The
test modes and `dwt_loadopsettabfromotp`, after which the transceiver is tuned otherwise,
are not among the calls of `DwConfig`. `Spec` is the firmware's use; `SpecResume` and
`SpecReset` add wake-ups and resets between calls.

`DwPmsc` has calls as sequences of accesses, `PmscStep` is one access, and `Interrupt`
starts a call of the interrupt routine (`dwt_rxreset`) or of a callback between any two of
them. `Use` is whatever needs a clock; `UseAsWoken` is the reading of the OTP memory by a
`dwt_initialise` that wakes the transceiver, which does not force the clock
(`deca_device.c:210`-`213`): `Clocked` is not about it, `OtpReliable` is. `dwt_setleds(0)` leaves
on the clock that `dwt_setleds` switched on, so that its flag only ever goes with a reset. `dwt_rxreset` writes
the whole upper byte of PMSC_CTRL0 and with it the bit of the sniff mode: the flag of
`dwt_setsniffmode` lasts until then. `DwSleep`,
`DwCalibration` and `DwOtp` have one action per call or per turn of a loop. `DwSpi` has
the steps of a transfer (`DecaMutexOn`, `Fill`, `Lengths`, `Transceive`, `Copy`,
`DecaMutexOff`) for the main loop and the routine, and the transceiver's side, which decodes the
header (`Addressed`). `BufferSize` is 255 in the source. `DwRangeBias` holds the tables as they are in the source.

Assumed of the DW1000, beside the list above: a pulse generator that counts less
as its delay grows (`Curves`); a chip that on waking fetches what `AON_WCFG` says; an
OTP bit that is programmed stays so unless it was weak, which a low read margin
shows; and of the application, that it adds bits to a word of the OTP memory and
never tries to take one back, that it sets the sleep counter before
`dwt_configuresleep`, and that a callback and the main loop do not both make the
same call of `DwPmsc`, but for `dwt_rxreset` and `dwt_setlowpowerlistening`. The first of these three matters: without it TLC finds a weak
bit of an earlier value that does not show at the low margin, and a call that
reports success for a word that reads differently at the normal one.

### UnityFixture and UnityAsserts

`part` is where the test is: set-up, body, tear-down. A failing or ignoring
assertion and `TEST_PASS` end the part (`longjmp`). `UnityPointer_UndoAllSets` takes
one step per pointer (`UndoLastSet`). `Workflow` is
`make | grep "0 Failures"`. `UnityAsserts` has elements of `Short` bits read as
integers of `Wide` bits; `Evaluate` makes one assertion and `verdict` is the failure
it reports, with the values as they are printed.

### Node and Simulation

A `Node` is a record, a dictionary a function on its keys. `EvaluateRx` is the
whole method: store the times, go through the timestamps in order, store each,
measure, stop at a break or an exception. The lists of distances are sets of
measurements, each with the nodes and the message it is of. A measurement is the fraction the
code computes, without the division, so that "exact" means exact. The
timestamps of one message are of different nodes, as the dictionary of the
simulation and the table of the firmware have it.

`Simulation.Transmit` is one round of the inner loop of `simulate` with the
receptions of the message (`random() <= transmission_success_rate` is an
arbitrary subset, `heard`, whose lines come in the order of the list of nodes). `EvaluateLine` is one round of the loop of
`evaluate_static`, after all transmissions, as in `run_experiments.experiment`.
Clock rates are integers and distances are flight times, so that `int(...)` of a
time is exact: the model is of the arithmetic the formulas mean, and rounding
is not in it. Nodes do not move.

## 3. Bounds and fairness

| run | instance | bounds and why they are enough |
|---|---|---|
| `antenna_two` | 2 nodes, ring of 2, late transmissions possible | `MaxSeq` 3: the ring is overwritten, every node receives in two rounds, a failed reception is followed by a good one |
| `antenna_three` | 3 nodes, `MaxSeq` 3 | `FewTransmissions`: at most 4 transmissions completed by all nodes together, with up to three more in progress. Two senders compete for one receiver, and one node hears two frames of another that both carry echoes, of a third node's message and of a newer one (a node listens only after its first transmission, so this takes three of the sender; with `MaxSeq` 2 it does not happen). `ImplementsLastHeard`, which is proved, is checked in `antenna_two` only |
| `antenna_live` | 2 nodes, no late transmission | `MaxSeq` 3 |
| `simulation_three` | 3 nodes, 3 exchanges | `MaxLost` 5 of 18 receptions: a node misses two messages in succession from one sender, and others besides |
| `exchange`, ranging | 3 boards in a triangle of sides 3, 4, 5 | `MaxSent` 4, one restart: a passive measurement takes three messages, a fourth follows a restart; counters of 176 ticks wrap within a few transmissions |
| `exchange`, pair | 2 boards | `MaxSent` 6, one restart: exchanges before and after it, and numbers used again |
| `exchange`, wrap | 13 participants, bytes of 6 values | numbers -18, 0 and 1 heard of two boards, the own number goes round all 36; a time whose bytes differ |
| `exchange`, full | the same, and a smaller buffer of 90 bytes | the longest frame that fits; the others are heard in the order of their ids and reported in three messages, which loses no length of a frame (`Heard`, a state constraint) |
| `events`, host | 2 boards, 3 lines each, log lines among them | every order of pieces, timeouts and turns |
| `events`, ack, late, double | automatic acknowledgement; events at any time; two receive buffers | 4 or 5 frames and 3 or 4 transmissions: a frame arrives in every stage of the routine, and both buffers are used twice |
| `lib`, config, tuning, registers and pins | the calls that share the copies; `dwt_configure` with those that tune the same bytes; the calls with registers of their own; pins and events | 2 configurations, 2 frames with bits in common, 3 times; all sequences |
| `lib`, pmsc | 15 calls of the main loop; in the routine a reading of the accumulator, a reset of the receiver, both or none | one flag in each control register stands for those handled alike |
| `lib`, sleep, calibration, otp, bias | 3 wake-up settings; 3 curves, 3 channels, 8 drifts; words of 3 bits; every 20 cm of three stretches, in all tables | the limits of the mixer and of both ends of the tables, ten failed attempts |
| `lib`, spi | indexes 0, 127, 128, 300; buffers of 9 bytes | the limits of the header's forms, registers that overlap |
| `lib`, fixture | `MaxTests` 2, 2 pointers | a count above 0 and a test after a failure; the repository has five tests, so that the printed number has one digit |
| `lib`, asserts | elements of 3 bits, integers of 5 | both sides of each sign bit, the lowest number, deltas beyond the range, arrays of 0, 1 and 2 |
| the violation runs | as small as shows it | |

`MaxSeq` bounds `Expire`: after `MaxSeq` transmissions the timer of a node stays
quiet. Then the node still receives. `FewTransmissions` is a state constraint of
one run. `BlockSize` is 32 in the source and a
constant here. `MaxLost` bounds the receptions lost in one run.

Fairness (`FairSpec`): weak fairness of each node's loop, since `main()` never
blocks and no other thread uses the processor for long; of `Expire`, a kernel
timer; of `OnAir`, since a transmission that was commanded in time takes place
without the firmware. Nothing is assumed of which receptions succeed. `HostMain`: weak
fairness of `Loop`, since `readline()` has a timeout of one second, so that each round
ends; nothing of the boards. `DwIsr`: of the routine, since an interrupt is taken,
and of `Transmitted`, since a transmission ends; nothing of the application or of
receptions. The other runs are about safety and use no fairness.

`CHECK_DEADLOCK FALSE` is set where the system may stop: the simulation ends,
with `LateTx` every node may hang in `send_message`, and in the suites some
components end (a search is over, a word is programmed, the transmissions are
used up). In the other runs of `Antenna` the polling loops never stop and deadlock
is checked.

## 4. What the runs show

Antenna (`antenna_two`, `antenna_three`, `antenna_live`):

* `StampOfItsFrame`: payload and timestamp are read in two steps and yet belong
  together, in the table, in the report, and in every frame sent. That holds
  because one reception switches the receiver off; a firmware that enabled it
  before reading the timestamp, or a transceiver that kept events over
  `dwt_rxenable`, would break it (both are mutants).
* `TxLineBeforeItsEcho`: the line of a transmission precedes every line that
  echoes it, so the unguarded `tx_ts[...]` of `node.py:106` finds it, as long as
  no line is lost on the way.
* `RecentTxKept`: the ring has the last `BlockSize` transmissions where
  `get_tx_timestamp` would look. The getter has no caller at this commit.
* `ImplementsLastHeard`: the firmware is a refinement of `LastHeard` under
  `sent <- LastOnAir`, `heard <- the numbers in the table`.
* `EchoesOnlyGrow`: the frames of one sender, as a node reports them, never go
  back to an older echo and never drop one.
* `DueIsSent`: with delayed transmissions in time, every message that is due is
  sent and reported, whatever is received meanwhile.

Simulation (`simulation_three`):

* `ActiveExact`, `PassiveExact`: whatever was lost, each measurement is the
  exact one. The search for the previous message, the stored times and the
  formulas fit together; clocks of different rate and offset do not matter
  beyond the factor 2 ra rb / (ra + rb), which is the mean of two rates near 1.
* `LosslessComplete`: with nothing lost, each pair measures once in every
  exchange but the first.
* `NeverRaises`: neither a missing key nor a zero divisor stops the evaluation.

Exchange (`exchange`):

* `RoundTrip`: `analyse_message` finds in a frame, with the two bytes of its
  checksum, what `construct_message` was given, numbers on both sides of the wrap
  included; of a smaller buffer, the first elements.
* `SizeRespected`, `FrameFits`: nothing is written behind the buffer of
  `send_message`, and thirteen participants fit a frame of 127 bytes.
* `ExactIfRight`: a measurement whose times belong together is exact, whatever
  was lost, restarted or has wrapped elsewhere. It needs the firmware to round the time of a
  transmission as the transceiver does (its mutant does not). Those that are not exact are the ones made
  across a wrap, of times of two lives, or of a time that the firmware reported above 40 bits: `AlwaysExact` and `AlwaysRight`, which ask it of
  all measurements, are violated. No comment or test claims them.
* `RightIfRecent`: after a restart, once the preceding message of the sender was
  heard, the search backwards finds times of this life first.

Events (`events`):

* `RecordedInOrder`: the file has whole lines, each once, each board's in order.
* `WrittenIsRecorded`: a JSON line is recorded unless a timeout cut it.
* `OldestFirst`, `NothingForgotten`: `dwt_isr` reads the oldest frame not reported,
  and what it leaves unreported still shows in the status.
* `AsTold`: what the application concludes from callbacks is what the transceiver
  does: always when it concludes that it is idle, otherwise once nothing is left to report.
* `LineFalls`: the interrupt line does not stay high, when the routine is entered as long as
  it is high, on its level or by polling. That says that the routine serves every event; of the
  rising edge, as `port.c` configures it, `driver_edge` says that it fails.

Library (`lib`):

* `AsAsked`, `CopiesExact`: each setting is what the last call that writes it asked for,
  also where calls share a register; the copies are those of the registers.
* `Clocked`, `AsLeft`: every use of a clock has it, also when a callback reads the
  accumulator or the routine resets the receiver in between, but for what a wake-up reads of
  the OTP memory; the clocks are put back, and so are the flags, but for the bit of the sniff
  mode, which a reset of the receiver in the routine clears.
* `WokenReady`, `SleepsToWake`: after any sleeps and restarts the transceiver holds
  what its application uses; one asleep can be woken.
* `Closest`, `PowerAsAsked`: the search finds the closest delay of all; the power
  changes by what was asked wherever a setting does.
* `WrittenIsKept`: a word reported as programmed is kept although weak bits fade.
* `BiasInTable`: no search leaves its row, and corrected ranges keep their order.
* `AccessesExact`: bytes written and read are those addressed, interrupts included.
* `CountsRight`, `PointersRestored`, `WorkflowSound`, `VerdictsRight`: a test is counted
  once, pointers are put back, the workflow succeeds exactly if no test failed, and an
  assertion fails exactly if it should and prints the values as of their type
  (within a delta, for arrays of unsigned elements whose sign bits agree: see below).

Disagreements between code and its comments or documentation, each a run that
TLC ends with a counterexample:

* `antenna_listens`: after one reception a node's receiver is off until its own
  next transmission. A swarm of n nodes with equal intervals hears at most one
  message per node and interval.
* `antenna_sound`: the driver asks for a reset of the receiver after an error;
  the firmware clears the error and goes on.
* `antenna_late`: when the programmed time has passed, `send_message` waits for
  ever. `LateTx` is a constant: `CONFIG_TX_PROCESSING_DELAY` (500 microseconds
  by default) must cover `construct_message`, two transfers over SPI and any
  interrupt between, and nothing in the code makes sure of it.
* `simulation_echo`: one timestamp that cannot be used ends the loop over those
  behind it.
* `driver_edge`: with an interrupt on the rising edge, as `port.c` configures it, and
  an empty `process_deca_irq`, an event during the routine leaves the line high for
  good. The firmware polls and is not exposed.

More of them are stated by definitions at the end of their module, below the line
that says so. They are violated under these
constants, and are no runs of their own:

| property | violated under |
|---|---|
| `Messages!SizeKept`, `SlotInRing`, `KnownIsSent` | the constants of `Exchange.cfg` |
| `Messages!UpperBoundKept` | these, with `NumMax` 3 |
| `Messages!FrameFits` | these, with 14 participants |
| `Ranging!ReportedAsCarried`, `AlwaysRight`, `AlwaysExact` | the constants of `Exchange.cfg` |
| `HostMain!RangingIsFed` | any line of JSON: the node is handed a dictionary without "id" |
| `DwConfig!CopyIsLocal` | `SpecReset`; it holds under `SpecResume` |
| `DwConfig!FlagIsMode` | `SpecResume`: a `dwt_initialise` that wakes a transceiver, or fails, clears the flag of the double buffer and not the mode |
| `DwConfig!FrameIsAsked` | frames written before `dwt_configure` |
| `DwConfig!TunedTogether` | `dwt_configure` after `dwt_configurefor64plen`, as in the instance `Tuning` |
| `DwPmsc!OtpReliable` | the constants of `Library.cfg`: the call `resume` with `on` TRUE, woken, and reading the OTP memory |
| `DwPmsc!SniffLasts` | the same constants: `dwt_rxreset` in the routine, after `dwt_setsniffmode` |
| `DwSpi!AccessesExact` | a port with a routine installed and a status that is always FALSE, as `port.c` has it |
| `UnityAsserts!VerdictsRight` | without the premise `SameSign` |
| `DwIsr!WaitsForLast` | a late transmission with a response, then one without |

A callback may read the accumulator, and the routine reset the receiver, during any call
(`lib`). A callback may not do whatever it likes: `Clocked` is violated if callbacks read the OTP memory, and `AsLeft` if they
switch off low-power listening while the main loop changes another flag of
`PMSC_CTRL1`, since those calls read and write a register without a lock. No comment
promises otherwise, and the run leaves these callbacks out.

Two more were met: the test `da_attn_change == 0` of `deca_device.c:3764` follows a
decrement and never succeeds (`Changes` has it so), and `grep "0 Failures"` accepts
"10 Failures", which five tests cannot produce.

## 5. What is proved

Each proof is of one shape: an inductive invariant, `Init` implies it, each action keeps
it (one lemma or one step per action), it implies the property. Why the property itself
is not inductive is said of each.

The firmware, for every set of nodes, every `MaxSeq`, `BlockSize` and `LateTx`, from the
named assumptions on the constants (`MaxSeqAssumption`, `BlockSizeAssumption`,
`LateTxAssumption`, `NoneAssumption`):

* `TypeCorrect` and `StampsBelongToTheirFrames`, by `StampInv`. `StampOfItsFrame`
  is not inductive: it needs `ReceiverQuiet` (while a good frame waits, the
  receiver is off, and the waiting frame and its timestamp belong together),
  `LoopReadsWaitingFrame` (the steps that read it run only while it waits),
  `PendingTransmission` and `SendInBound`.
* `RecentTimesKept`: `RecentTxKept` is inductive beside `StampInv`, with the
  arithmetic of the remainder as a lemma.
* `TransmissionReportedFirst`, by `SwarmInv` on top of `StampInv`: everything
  heard, waiting, pending or echoed has been on the air (`HeardWasOnAir`,
  `PendingEchoesOnAir`, `WaitingFrameIsNews`), what has been on the air and is
  not the transmission in progress has been reported (`AllReported`), and
  TXFRS belongs to the transmission in progress (`TransmissionFlag`).
* `FirmwareImplementsLastHeard`: initial states map to initial states, `OnAir`
  to a transmission, `TakeFrame` to hearing a newer one (`WaitingFrameIsNews`
  gives "newer"), every other step to a stutter.
* `EchoesGrow`, an action property: two frames of one sender that a node reports
  one after the other are far apart in the code. `EchoInv` ties them together: the
  echoes of the frame a node reported last are covered by the sender's pending
  frame, by its table, and by the frame that waits at the node, with numbers that do
  not fall. `TakeFrame` reads the waiting frame, so the step cannot go back.

Simulation and evaluation, for every list of nodes, all rates and offsets of their
clocks, all symmetric distances, any number of exchanges and any losses (`MaxLost` is
any number), from the assumptions of `Simulation`:

* `TimesFit`: `IInv` says that every time is a clock's reading of one moment.
  `When(n, s)` is the moment at which `simulate` lets `n` transmit its message `s`;
  each item a node remembers, each line of the file and each entry of a `Node`'s
  dictionaries is the reading of it, at the sender or after the time of flight, and
  the line of a transmission precedes every line that mentions it.
* `ActiveMeasurementsExact`, `PassiveMeasurementsExact`: the loop of `evaluate_rx`
  therefore puts times of the right messages into the formulas, and these are exact by
  the lemmas of `NodeProofs`.
* `EvaluationNeverRaises`: no lookup fails, because of the order of the lines, and no
  divisor is zero, because times grow with the numbers (`WhenGrows`).
* `TypesKept`.
* `LosslessRangesComplete`, for every number of exchanges but zero, by `NothingMissing`.
  `LosslessComplete` counts the measurements of a whole run at its end, so that it cannot
  be kept step by step; `Complete` says what holds on the way while nothing is lost.
  A round in which no reception is lost is one that all others hear, by counting, so
  that every message is in a line of each of them (`AllHeard`), written once, and
  everybody remembers a time of everybody else (`AllRemembered`). A line comes after
  those of all it is measured with (`LinesComplete`), and its timestamps include its
  reader's own. So `evaluate_rx` finds what it looks up, and a line that is read and not
  of a first message has given one measurement (`RxLinesRead`, `MadeOnce`): at the end
  each pair has `Exchanges - 1`.
* `ActiveTofExact`, `PassiveTofExact` (`NodeProofs`): the two formulas alone, for all
  integer rates, offsets, distances and times.

Boards and hosts, for all boards, counters at the start, symmetric distances, intervals
and processing delays, any losses, restarts and turns of the counters:

* `HistoryExplains`: after a restart numbers are used again and a counter starts anew, so
  that nothing in the present state explains an old time. `IInv` therefore says that a
  history exists, `off` (a counter at global time 0, in each life of its board) and
  `when` (the moment of each message of each life), of which every time that a board or
  a host has stored is the reading, in the epoch that `born` and `table` keep beside it.
  `Transmit` adds a message to the history and `Restart` a life; both only extend it
  (`HostKept`, `TableKept`). `TransmissionIs` is the arithmetic: what `send_message`
  rounds, masks and cuts is the time of the transmission up to turns of the counter.
* `ExactWhenRight`: `Fit` compares epochs only; that the times then make an exact
  measurement is what the history gives, with the formulas of `NodeProofs` for
  clocks of rate 1.
* `RightWhenRecent`: the keys of `born` are those of the host's dictionaries.
* Both rest on `EchoesAre`: the elements of a message are those of the table, each id
  once (`NthIs`, by counting).

Frames, for every number of values a byte may have, every buffer, and whatever has been
heard (`RadixAssumption`, `ParticipantsAssumption`, `TimesAssumption`,
`NumbersAssumption`):

* `RoundTripAlways`, `SizeRespectedAlways`, `FrameFitsAlways`, by `FramesInv`: the last
  frame says (`Says`, field by field and element by element) the first elements of what
  it was built from, and all of it if the buffer is that of `send_message`.
  `ConstructSays` proves it of `Construct`: the elements that are used are numbered in
  the order of their ids (`UsedIs`), those that fit are the first ones (`FittingIs`), and
  element `n` stands where `analyse_message` looks for it (`ElementIs`). `AnalyseIs`
  reads them again. The bytes of a word and of a time make it up again by
  `WordIs` and `TimeIs`, the sign by `Int16Is`.
* `RoundTripAlways` is for at most 113 participants and `FrameFitsAlways` for 13. A
  frame of more than 1024 bytes is refused by `dwt_writetxdata`, one of 127 is what the
  transceiver is configured for: with more participants the two statements are false.
  `SizeRespectedAlways` needs no bound.

The host's loop, for every list of boards, whatever their lines are:

* `FileInOrder`: `RecordedInOrder` is inductive with `PortExact` (the pieces in a port
  are the last ones written, in their order) and `OnlyWhatWasRead` (the file has no line
  of which a piece is still in the port).

The driver, the bus and the test fixture:

* `CopiesStayExact`, `SettingsStayAsAsked`, for all frame types, configurations,
  frames, times and registers, from `ConfigsAssumption`, `FramesAssumption`,
  `TimesAssumption` and `FlagsAssumption`. The second does not say that the byte of DRX_TUNE2
  stays as `dwt_configurefor64plen` set it: it is a setting of `dwt_configure` too, and the
  later call counts. Neither is inductive: a call that writes
  `SYS_CFG` from the copy keeps the other settings only if the copy is exact, and
  `AsAsked` says that the settings agree by a CASE on their names. `IInv` is `Shape`
  (the records have their fields) with, once the driver is initialised, `Copies` and
  one conjunct per setting. There is one lemma per call; `FlagsKept` serves those that
  leave the flags of `SYS_CFG` alone.
* `OldestFrameFirst`, `NothingLost`, `CallbacksTell`, by `StateKnown`: for one buffer
  or two, an interrupt of either kind, and any number of frames and transmissions. The
  invariant says where the unreported frame is (`BuffersExact`), that a reception ends
  in one way (`OneEnd`), what the status read by the routine still says of the
  transceiver, and that what the application waits for is what goes on or is
  unreported (`AppKnows`). They are proved under `Use`: the callback of a reception
  starts no transmission, and with automatic acknowledgements events are reported
  before the next one occurs. That is how the runs instantiate the module. Without it
  the statements are false: the status has one bit for both transmissions.
* `WokenReadyAlways`, `SleepsToWakeAlways`, for any modes of `dwt_configuresleep` and any
  wake-ups of which each names a source (`WakesAssumption`; `deca_device_api.h:921` asks
  for one). That a woken transceiver holds the microcode follows from what `AON_WCFG` told
  it to load, which follows from what the driver remembered when it was called, or, once
  the processor has restarted, from `AON_WCFG` as it was found. `SleepInv` has the three
  links (`Carry`, `Holds`).
* `UsesStayClocked`, `FlagsStayAsLeft`, for any calls of the main loop that the module
  has, and callbacks that come between any two of their accesses. A call is a sequence
  of accesses, and each property is read off it once per call. `Provided`: every
  clock a use wants is switched by an access before it that nothing between the two touches;
  `Ends`: what the last access that does not spare a flag leaves it at. What is left
  of a call has the same shape once the accesses it has done count by what they left in
  the registers (`StillProvided`, `StillEnds`), and that is what `ClockInv` and
  `LeftInv` say at each step. A callback's call leaves all but a few flags as it found
  them, and the main loop's call relies on none of these few (`Transparent`,
  `Private`). The hypothesis of the first is `CallsKnown`: callbacks read the accumulator or
  switch off low-power listening, and the routine resets the receiver. The main loop may
  wake the transceiver and read the OTP memory, but that reading is no use of `Clocked`:
  `OtpReliable`, of it alone, is false (section 4). The hypothesis of the second, `CallsPutBack`, leaves out
  low-power listening, for the reason given there too. What a reset in the routine writes
  is the same in each of its steps (`Resetting`), and the flag it clears is the one the
  second excepts (`LostInIsr`). TLC evaluates it for the calls of the
  run `lib` (`PmscCallsAssumption`).
* `WrittenStays`, for a word of any bits and any number of attempts. Once `Verify` has
  read the value at the low margin no bit is weak, because a weak bit is one of the value
  (`OtpInv`) and the margin is not the normal mode (`MarginIsAMode`).
* `SearchFindsClosest`, for every target and every curve along which the count falls
  by a fixed slope until it is zero (`CurvesAssumption`). The search asks for seven of 127
  delays. `BracketedBy` keeps the target between the counts at two delays it has measured,
  with the best no further away than either; at the end they are neighbours, and
  every other delay is beyond one of the two (`BestIsClosest`).
* `PowerStaysAsAsked`, for every reference of the power (`PowersAssumption`: its bytes have
  three bits and five) and every difference of temperature (`DriftsAssumption`: the converter's
  values are bytes, so that the change fits an `int8`). A turn of the loop leaves the
  level alone; if a setting of the level sought exists, it is at least as many attenuations
  away as the loop takes turns (`TurnsDown`, `TurnsUp`), so that the attenuation does not leave
  its three bits. `Changes` says where the loop ends, not how: it goes one way only.
* `AccessesStayExact`, for all register files, indexes and lengths that the driver's
  assertions allow and the buffer holds (`AccessesAssumption`, `BufferAssumption`,
  `CellsAssumption`), an interrupt routine that writes no register the main loop uses
  (`RegistersAssumption`), and a port that says so when a routine is installed
  (`PortsTell`, the theorem's hypothesis: with the stub of `port.c` it is false, see section 4).
  `HeaderDecodes` proves that the three forms of a header are told apart and read
  again. `SpiInv` says who is inside the mutex (`MutexInv`), that the buffers then hold
  that access (`BuffersInv`), and that the transceiver holds what was asked of it
  except for writes that are pending (`HeldInv`).
* `CountsStayRight`, `PointersStayRestored`, for any number of tests, pointers and
  replacements. `CountsInv` adds to the counters the test that is running and what its
  flags say; `PointersInv` says of a pointer that was replaced that the oldest entry of
  the store has what it was, which holds at each step of the undoing only because that
  goes from the last entry to the first.

Left to TLC:

* liveness, which the prover does not reach: `DueIsSent`, `SendCompletes`,
  `WrittenIsRecorded`, `LineFalls`;
* `BiasInTable` and `VerdictsRight`, which are about the tables as they are written and
  about words of a given width: TLC goes through every row and every kind of assertion;
* `WorkflowSound`, which is about the digits of a number (`Digits` is recursive).

## 6. Not modelled, and the plan

Order of the work: `LastHeard` and `Antenna` (the concurrent part, on which every
measured distance rests) and their proofs; `Node`, `Simulation` and the proofs of the
formulas; `Messages`, `DeviceClock`, `Ranging`, `HostMain`; the driver, the platform and
the test framework; the proofs of `DwConfig`, `DwIsr`, `HostMain`, `Simulation`,
`Ranging` and of `EchoesOnlyGrow`; those of `Messages`, of a simulation without losses and
of the rest of the library, and of `DwPmsc`. What is left to TLC is listed in section 5.

Not modelled:

* of the driver: event counters, the diagnostics, the tuning
  values of `dwt_configure` (one register stands for them), the conversion of
  temperature and voltage; the declarations of its headers;
* of the platform: reset pin and chip-select wake-up as such (their effect is in
  `DwSleep`), delays, board configuration;
* of the test framework: floats and doubles, the layout of the output,
  `unity_memory.c`, which is not compiled, and the options of `UnityMain`;
* the JSON text of `host_interface.c`, the statistics and plots of `evaluate.py`,
  rounding of the simulated times, nodes that move;
* two boards with equal deviations that keep sending at the same time: the
  models of the medium lose frames arbitrarily, without a notion of collision;
* build files, documentation, devicetree; `get_stored_tx_timestamp`,
  `get_tx_timestamp` and `read_tx_timestamp`, which have no caller.
