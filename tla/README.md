# TLA+ models of stm32_freertos

TLA+ modules, TLC runs and TLAPS proofs kept beside the firmware in `src/`:
FreeRTOS tasks (log, cli, sensor, ir) on an STM32F207 or STM32N6 board, over
interrupt-driven UART, I2C, timer and infrared drivers. The reference is the
code; paths below are relative to `src/`.

Nothing in this firmware is protected by mutexes. What keeps tasks and
interrupts apart is a handful of conventions (single producer and single
consumer, test-and-set of one flag, a message queued before a notification is
given, an id stored before it is needed), and those conventions are what the
models are about.

## 1. The system

### Contexts

- One core. Tasks are preempted by interrupts and by tasks of higher or equal
  priority (log and cli 1, sensor and ir 2; time slicing is on).
- All driver interrupts have NVIC priority 6, so they do not nest: an interrupt
  handler is one step of a model, and it may fall between any two steps of a
  task. Where the code of a *task* is not protected, it is split at its loads
  and stores of shared words.
- FreeRTOS and the ST HAL are third-party. They are modelled only as far as the
  code in `src/` uses them, in definitions marked external in `PROJECT.json`.

### Components

| Component (code) | State | Operations | Used by / interacts with | What is hard | What makes it correct |
|---|---|---|---|---|---|
| ringbuf (`lib/ringbuf`) | storage, head, tail | push, pop, len, space, reset | uart.c; one side an interrupt | lock-free; indices loaded at different times | is a bounded FIFO; answers stay promises |
| slot_queue (`lib/slot_queue`) | slots, head, tail, **count** | acquire, release, peek, try_pop, reset | ir_rx.c; interrupt produces, task consumes | `count` is written by both sides | count never promises what is not there; exact unless raced |
| task manager (`middleware/taskmanager`, `app/tasks/os.c`) | registered tasks, inbox and notification per task | create, send, notify, receive, wait | every service; senders are tasks and interrupts | queueing and notifying are two steps; full inboxes | no message for a task nobody wakes |
| uart transmit (`drivers/platform/*/uart/uart.c`) | TX ring, chunk buffer, `s_tx_active` | uart_write, tx complete, error | serial, log | task and two interrupts share one ring | nothing stalls; bytes in order |
| uart receive (same file) | RX chunk, RX ring | ReceiveToIdle callback, error, uart_read | serial, cli | ring full, restart | no accepted byte is forgotten |
| log service (`middleware/log`) | line buffers on the heap, `s_pending` | log_printf, log_process, TX_EMPTY | task manager, uart | back-pressure; ownership passes by pointer | lines whole, in order, freed once |
| cli (`middleware/cli`, `app/tasks/cli`) | line, command table | register, RX event, line assembly, words, look-up | serial, task manager | lost messages, lines cut anywhere, lines too long | commands and arguments = lines of the input |
| serial (`middleware/serial`) | port claims | claim, release, read, write, events | log and cli tasks | two tasks claim one port; a failed initialisation is not reported | a claimed port is up |
| soft timers (`middleware/h_soft_timer`, `drivers/platform/*/h_timer`) | 16 entries, one compare channel, a wrapping counter | register, unregister, expiry hook | i2c, sensor, ir | task calls unprotected; ticks pass within any call; wrap; late interrupts | every armed timer expires unless its compare was passed; ids own their entry |
| i2c (`drivers/platform/*/i2c`) | busy, aborting, callback, timer id | four asynchronous transfers, probe, callbacks, timeout, abort | mpu6050 | the HAL runs before its timeout is armed; an abort ends at once (F2) or later (N6) | every request reported, by its own transfer |
| mpu6050 + sensor service (`drivers/device/mpu6050`, `middleware/sensor`) | bring-up state, burst buffer, latest sample, timer id | step, sample, give up | i2c, soft timer, task manager | messages lost or reordered against the timer | configured before running; never dies unnoticed |
| ir receiver (`drivers/device/ir_rx`, `middleware/ir/ir_rx.c`) | pulses of a frame, idle timer, burst queue | edge, timeout, drain | soft timer, slot_queue | timer and edge race; overflow | one burst = one frame |
| ir transmitter (`drivers/device/ir_tx`, `middleware/ir/ir_tx.c`) | segment list and index, carrier, timer id | send, next segment, finish | soft timer | first timer may beat the store of its id | segments in order, carrier off at the end |
| NEC codec (`middleware/ir/ir_{rx,tx}_nec.c`) | none | encode, decode | ir service | tolerances of 50 % | decodes what was sent, nothing else |
| board start-up (`app/main.c`, `drivers/platform/*/{driver,clk}`, `core/*/system`, `bsp/*/bsp_clk_cfg.h`, `drivers/hal_override.c`) | oscillators, PLL, switches, dividers, flash latency, regulator, caches, SysTick | SystemInit, driver_init, clk_init, os_init, os_start | everything runs on its clocks | what an earlier stage left, parts that never get ready, SysTick before the kernel | never overclocked; halts for a cause; the clocks are what the constants say |
| gpio and peripheral bring-up (`drivers/platform/*/{gpio,clk}`, the `*_hw_init` functions) | clock enable bits, EXTI table, masks, pending flags | gpio_config_input_exti, clk_enable_*, EXTI vectors | ir, i2c, uart drivers | read-modify-write shared by tasks; first edge before the callback is stored; shared vectors | no write or edge is lost |

Not modelled:

- `led`: pin output without state, used by nobody.
- FreeRTOS and the ST HAL, third-party, modelled only as the code in `src/`
  uses them. Single register accesses that nothing depends on (reading or
  toggling a pin, security attribution in the N6's `SystemInit`).
- Code nobody calls or reaches while the system runs: `cli_uninit`,
  `log_uninit` (hence `serial_unregister`), task destructors, `HAL_*_MspDeInit`,
  `ir_send_nec`. Were `ir_send_nec` called, `ir_handle_tx` (`ir.c:45`) would
  accept a request and drop it while a transmission is going on.
- The `imu` command (`sensor_mpu6050.c:235`) copies the latest sample without a
  lock, so it may be torn or, after a failure, stale; no property of the code
  could hold of the copy, and none is claimed.
- What follows a second initialisation of the UART (`serial.c:42`, section 5).

The stm32n6 uart and i2c drivers are the stm32f2 ones word for word but for
pins and clocks, which `BoardIo` has for both. The HALs under them are not the
same. What the drivers see of the difference is how an i2c transfer is aborted:
the F2's `HAL_I2C_Master_Abort_IT` calls back before it returns, the N6's
(`third_party/stm32cube/hal/stm32n6xx`, `stm32n6xx_hal_i2c.c:4855`) requests a
STOP and calls back from the interrupt of that STOP. `I2cDriver` has both, told
apart by `atOnce`, and every check and theorem covers both.
`PROJECT.json` lists every
component with its status, and under `hazards` what is hard to test in it, at
the line where it bites, with the properties that cover it.

### How the parts are composed

```
log_printf -> TaskManager inbox -> log task -> serial_write -> uart_write -> RingBuf -> UART irq
UART irq -> ring -> message -> cli task -> lines -> words -> command
reset vector -> ClockTree -> scheduler -> BoardIo: bring-up of the drivers' hardware, EXTI
sample timer (HSoftTimer) -> message -> sensor task -> mpu6050 -> I2cDriver -> irq -> message
edges -> IrRx irq + HSoftTimer -> SlotQueue -> message -> ir task -> NecCodec
ir task -> IrTx + HSoftTimer -> carrier
```

Each arrow between modules is either a real composition (`LogService` contains
`UartTx` action by action, `CliRx` extends `SerialBoot`, `IrRx` contains
`SlotQueue`, `IrTx` extends `NecCodec`, `BoardIo` extends `ClockTree`), or a step that another module justifies: a byte pushed is one step
of `UartTx` and `CliRx` because `RingBuf` refines a FIFO queue; the bus of
`SensorImu` is that of `I2cBus`, which `I2cDriver` implements (every request is
refused or started, a started one ends and is reported once, and only one that
ends inside its own start call may be reported as failed after that); the timer
table of `SensorImu` and `IrTx` is that of `HSoftTimer`.

## 2. Modules

| Module | Models | Remarks |
|---|---|---|
| `ByteFifo` | abstract specification of a byte queue | `queue`, `last`; Put, Get, Clear |
| `RingBuf` | `ringbuf.c` | program counters `ppc`, `cpc` mark where the loops of push and pop are between a load and a store; `pspace`, `clen` hold the answer a caller got from space or len |
| `SlotQueue` | `slot_queue.c` as `ir_rx.c` uses it | `q->count--` is `PopLoadCount` and `PopStoreCount`; the copy takes two steps so that a torn element would show |
| `TaskManager` | `taskmanager.c`, boot in `os.c` | a task takes its entry (`tm_init`) and is created, or fails and the entry is withdrawn; `SendQueued` and `tm_noti` are two steps |
| `UartTx` | transmit half of `uart.c` | the kick of an interrupt is one step, the kick of the task is split into `KickCheck`, `KickRead`, `KickLoadTail`, `KickStoreTail`, ... |
| `LogService` | `log.c`, `task_log.c`, `serial_write` | conjoins `UartTx`; bytes are records (line, remaining length) so that a lost or torn line shows |
| `LogServiceProofs` | theorems about `UartTx` and `LogService` | |
| `SerialBoot` | `serial_register` by the log and cli tasks at start, `uart_init` | every test and store of a shared flag is a step |
| `CliRx` | receive half of `uart.c`, `serial.c`, `cli.c`, `task_cli.c`; extends `SerialBoot` | a byte is a character, blank, NUL or line end; bytes are put into the line, and the line cut into words (`Argv`), one by one, and `LineTo`, `Words`, `Commands` say without recursion what lines, words and commands are; reception may begin before the cli task is registered |
| `SerialRxProofs` | theorems about `RingBuf` and `CliRx` | |
| `HSoftTimer` | `h_soft_timer.c`, `h_timer.c` | one client in a task, split into steps; the others in interrupts, whose calls are one step but work on ticks read earlier |
| `OsProofs` | theorems about `TaskManager` and `HSoftTimer` | |
| `I2cBus` | abstract specification of an i2c driver | `phase` of the start call, `running`, the reports |
| `I2cDriver` | `i2c.c` of both boards | requests are numbered; timer entries are named after the request that armed them; `stopping` is the N6 HAL waiting for the STOP of an abort |
| `I2cDriverProofs` | theorems | |
| `SensorImu` | `mpu6050.c`, `sensor_mpu6050.c` | bursts are numbered modulo the inbox length plus one, enough to tell the newest from those a message may still speak of |
| `SensorImuProofs` | theorems | |
| `IrRx` | `ir_rx_drv.c`, `ir_rx_time.c`, `middleware/ir/ir_rx.c`, receive half of `ir.c` | a pulse is the number of the edge that started it |
| `NecCodec` | `ir_rx_nec.c`, `ir_tx_nec.c` | real widths in microseconds |
| `IrTx` | `ir_tx_drv.c`, `middleware/ir/ir_tx.c`, then reception | |
| `IrProofs` | theorems about `SlotQueue`, `IrRx`, `IrTx` and `NecCodec` | |
| `ClockTree` | `SystemInit`, `driver_init`, `clk_init`, `os_init`, `os_start` on both boards | a boot thread in `Stages`, against parts that get ready or never do (`broken`), and SysTick |
| `BoardIo` | bring-up of the drivers' hardware by three tasks, and the EXTI vectors; extends `ClockTree` | an initialisation is a script of register operations, one step each; `todo` is what is left of each task's |
| `BoardProofs` | theorems about `ClockTree` and `BoardIo` | |
| `SeqFacts` | lemmas on sequences, `FlattenSeq` and induction over numbers, for the proofs | |
| `MC...` | one instance per module for TLC | constants in the `.cfg` of the same name |

Operators keep the names of the C functions where there is one; the `map` of
`PROJECT.json` gives the lines of every definition. In each module a few
operators marked `variant` are deliberately wrong forms of the definition that
follows. They are used nowhere: they document, for each property, a plausible
bug (a dropped guard, an off-by-one, a missing reset) that makes TLC report
that property as violated.

### Abstractions worth knowing

- A notification count is a boolean: only "not zero" is ever observed.
- Log formatting is reduced to the length it returns, with the clamping of
  `log_printf`; payloads and addresses are left out wherever nothing depends on
  them; argument checks that return at once change no state and are left out.
- `HAL_UART_Transmit_IT`, `HAL_I2C_*_IT` and the timer HAL are atomic. A HAL
  abort is accepted for any running transfer and its result ignored, as
  `i2c.c:96` does.
- Soft timers: a tick is 1 us, so time passes within every call. The call of the
  *task* is split into steps, between which ticks and interrupts come. Handlers
  do not preempt each other, so the call of a *handler* is one step, dated when
  it programs the compare: what it read of the counter before is up to `MaxSpan`
  ticks old (`Ago`, `Span`), separately for the delay it counts from
  (`h_soft_timer.c:125`) and for the test whether the earliest deadline is due
  (`h_soft_timer.c:44`). Only while the counter stands still, in the hook until
  a callback re-arms, is there no such gap.
- A behaviour is followed until a call is overtaken; `overtaken` records it and
  nothing is claimed afterwards (section 5). A call of the task is overtaken by
  an interrupt that changes the table, and any call, of the task or a handler,
  by the counter: when it has passed the value about to be programmed (`Passed`),
  or, in a handler, matches the value about to be replaced (`Mistaken`: the
  flag is cleared before the compare is written; in the task that interrupt
  comes as one). An expired timer may be put off by calls that move the compare
  register; `putoff` counts those (a deadline equal to
  `H_SOFT_TIMER_NONE_DEADLINE` is never served, so it does not count as
  waiting), and `DelayAssumption` bounds the delays by what half a turn leaves
  after all of that lateness, and from below by `MaxSpan`, so that a timer is
  not already due when its own call ends.
- `I2cDriver`: all timers have the same delay, so the oldest entry expires
  first. A start call may fail under its own transfer, because the table was
  full or, on the N6, because an abort under way had cleared its timer id; the
  transfer then runs unguarded. `loose` marks it: that behaviour is followed
  but nothing is claimed afterwards (section 5). That the F2 HAL finds its BUSY
  flag free again is part of `StartAccepted`; it may refuse at any time.
- `SensorImu`: registering the sample timer and storing its id is one step,
  since it cannot expire within its period of 100 ms.
- `IrRx`: time is one boolean, "the line has been quiet for the idle timeout".
  EXTI has the lower vector number, so when an edge and the timer are pending
  together the edge is served first. An edge counts as the end of a pulse only
  if the width fits 16 bits; the counter stands still while no timer is armed,
  so a stale time stamp may look recent. That is the origin of the "false
  pulse" `BurstIsFrame` allows.
- `IrTx`: registering in the callback cannot fail, since the callback's own
  entry has just been freed, so there is no action for it. How a frame is
  stretched or damaged on the way is external. Nobody in this firmware calls
  `ir_send_nec`, so a request to send is a free action.
- `SerialBoot`: if both tasks initialise the UART, the behaviour is followed no
  further (`twice`, section 5).
- `CliRx`: the characters of words matter only as equal or different; CR and LF
  are one kind of byte, space and tab another. Commands only log.
- `ClockTree`: frequencies in MHz; a HAL wait ends when its part is ready, or by
  `HAL_GetTick` when it never will be. On early ticks see section 5.
- `BoardIo`: tasks of equal priority interleave at any register operation, as
  time slicing allows. The lines above 0 stand for an application's use of
  `gpio_config_input_exti` (`AppInput`: one line after the other, in any order,
  in a task of the lowest priority); this firmware uses one line.

## 3. Runs

Ten runs pass, two end in a violation (section 5). `...Inv` is a conjunction of
the named parts given in the module; each part is stated and explained there.

| Run | Invariants and action properties | Liveness | Distinct states |
|---|---|---|---|
| `mc_ringbuf` | `RingInv` = types, `GuardsStillHold` (which makes the sides disjoint), `ProbesConservative`; refinement `FifoSpec` | | 19 k |
| `mc_taskmanager` | `TaskInv` = types, `QuietBoot`, `FailedTaskUntouched`, `NoLostWakeup` | `MessagesServed`, `SendersReturn` | 199 k |
| `mc_logservice` | `LogInv` = types, `NoStall`, `ReadyOnlyInKick` (of `UartTx`), `OneOwner`, `NoStrandedOutput`; `WholeLinesInOrder`, `InOrderUntilRaced` | `LinesWritten`, `LoggingReturns`, `Drains` | 203 k |
| `mc_hsofttimer` | `TimerInv` = types, `IdsMatchEntries`; `Timely` | `TimersFire` | 89 k |
| `mc_clirx` | `RxInv` = types, `NoStrandedInput`, `PortComesUp`; `CommandsAreLines` | `InputConsumed` | 448 k |
| `mc_i2cdriver` | `BusInv` = types, `IdIsOwn`, `RunningIsGuarded`, `CutsOwnTransfer`; `ReportedOnce`, `OkMeansMoved`; refinement `ImplementsBus` | `RequestsReported` | 54 k |
| `mc_sensorimu` | `SensorInv` = types, `BusyIsHonest`, `RunningIsTimed`, `FailStopsOwnTimer`, `NeverFailsInIsr`; `ConfiguredInOrder`, `WholeUnlessOverrun` | `InitEnds` | 420 k |
| `mc_irrx` | `QueueInv` = types, `NoPhantomElement`, `ExactUntilRaced`, `OrderedUntilRaced` (of `SlotQueue`); `IrRxInv` = types, `NoStrandedBurst`; `BurstIsFrame` | `BurstsHandled` | 222 k |
| `mc_irtx` | `IrTxInv` = types, `CarrierFollows`, `PlayedInOrder`, `ForeignTimersKept`; `DecodesAsSent`, `NeverMisread` | `TransmissionEnds` | 21 k |
| `mc_board` | `BoardInv` = types, `NeverOverclocked`, `NoUndervolt`, `CacheCoherent`, `HaltsForCause`, `WritesLand`, `FirstEdgeAnswered`; `ClocksAsConfigured` | `BootEnds`, `EdgesAnswered` | 98 k |
| `mc_uarttx_sole` | `SoleConsumer`: **violated** | | |
| `mc_board_tick` | `TickIsZeroAtBoot`: **violated** | | |

`UartTx` and `SlotQueue` have no passing run of their own: their invariants are
checked where they are used, under `LogService` and `IrRx`, with every step of
theirs interleaved with those of the task above.

### Bounds

| Run | Constants | Why enough |
|---|---|---|
| ringbuf | 3 slots, 2 byte values, calls of up to 2 bytes | full, empty and wrapped all occur, and a call can fill or drain the ring; the theorems cover every size |
| taskmanager | 2 tasks, inbox 2, task table 2, 2 sends each | sending to each other and to oneself, full inboxes, any subset failing to start, a failed one tried again |
| uarttx (sole) | ring 4, chunk 2, writes up to 3, 6 bytes | partial write, several chunks per write, wrap, an odd last chunk |
| logservice | 2 senders (one the log task itself), inbox 1, lines up to 2, 2 lines in all, ring 3, chunk 2, writes up to 4 | a refused post, a line split by a full ring, several chunks per write, both wake-ups of the log task |
| hsofttimer | 1 task client, 2 interrupt clients, 2 entries, counter modulo 28, delays 2 and 3; interrupts at most 1 tick late, a task stalled at most 1 tick, a handler's readings at most 1 tick old, an expiry put off at most once by an interrupt | table full, wrap, simultaneous deadlines, a compare passed in a handler; 28 is the narrowest counter the delay assumption admits |
| clirx | chunk 3, ring 3, read 2, inbox 1, line 4, one word, one command, five streams of up to 6 bytes | both orders of starting up, a failed initialisation, ring overflow, message loss, a line spread over several reads; among the streams: an overlong line whose tail is a command, more words than fit, blanks around, no word, a NUL, an unknown name, an unfinished line; any part of a stream may be lost, so their cuttings add many more |
| i2cdriver | both boards' aborts, 2 entries, 3 requests | a stale timer and the cascade it starts; table full; on the N6 a start call, a second timeout and a failed call during an abort |
| sensorimu | inbox 2, 2 entries | message loss on every path; a foreign timer in the entry just freed |
| irrx | queue 2, pulse buffer 3, inbox 1, 7 edges per frame, 4 bursts | overflow inside a frame, full queue, lost messages; the queue's indices wrap and two races can add up |
| irtx | bytes 0, 18, 255; 80 segments as in the code; widths at the tolerance limits and their neighbours; stretch 0, 140, 280 us | every decision of the decoder is met on both sides of its limit |
| board | both boards, both PLL sources, any needed part broken, two left-behind configurations, HAL time-out 1 tick, 3 ticks, lines 0, 5 and 6, 2 edges each | 5 and 6 share a vector on the F2 and 0 has its own; two edges set both flags of the N6; 3 ticks let one wait time out after an earlier tick |

`CHECK_DEADLOCK FALSE` stands in the runs whose counters (bytes, lines,
requests, sends) end: the system then really stops.

### Fairness

- A ready task eventually runs, and a loop it is in progresses: preemptive
  scheduling, time slicing among equal priorities, higher priorities that block.
- A pending interrupt is eventually taken.
- A wait with a timeout ends, as FreeRTOS time-outs do.
- A transfer once started ends, and an armed timer expires: in `SensorImu`,
  `IrRx` and `IrTx` this is an assumption about the layer below, and it is what
  `I2cDriver` (`RequestsReported`) and `HSoftTimer` (`TimersFire`) check. In
  `I2cDriver` the device itself is *not* fair; it may stay silent for ever, and
  `AbortComplete` is not fair either: the N6's STOP never comes while a device
  holds the lines. `RequestsReported` therefore has the premise that no abort is
  awaited for ever (always true on the F2), and on the N6 the assumption
  `SensorImu` makes of its transfers is just this.
- `mc_board`: the boot thread and a part that works are fair, so are a task
  that the scheduler would run and a pending interrupt. Ticks, edges and
  failures are not: `BootEnds` is claimed only of a board whose parts work.
- Callers, errors, edges and arriving bytes are never fair.

## 4. Proofs

TLAPS checks the theorems of eight modules, for every value of the constants.
The assumptions are only on constants (a ring has at least two slots; non-empty
byte and delay sets, finitely many writers, natural bounds, at least one queue
place; delays and lateness fit half a turn of the counter; a command table with
room for `help`, streams of bytes, names of characters; a segment buffer for a
data frame) and TLC evaluates them on its instances. One theorem,
`FrameDecodedAsSent`, has a hypothesis besides.

All invariants and action properties that the passing runs check are stated by
theorems, as are both refinements.

- `SerialRxProofs`, the ring. `Invariance`: `Spec => []RingInv`. The core is `GuardsStep`:
  once the producer has seen room, or the consumer a byte, the other side can
  only improve the answer, because each writes only its own index, and the byte
  read stays the oldest since a store goes to the free slot. `ProbesStep` rests
  on it. `SlotsDisjoint`: the two sides are never inside the same slot.
  `RingImplementsFifo`: `Spec => FifoSpec`; publishing head appends, releasing
  tail removes, storing touches only the free slot (`PublishAppends`,
  `AdvanceRemoves`, `StoreKeepsContents`), everything else stutters.
- `SerialRxProofs`, the receive path. `ReceiveInvariance`: `CliSpec => []RxInv`.
  `NoStrandedInput` speaks of the sleeping task only. `InputInv` says the same of
  the task about to look into its inbox (bytes on the ring that were announced
  still have a message), and that a handler is registered before a message was
  heard. `PortInv` says what each stage of `serial_register` relies on; the two
  tasks may be at any pair of stages.
- `SerialRxProofs`, the commands. `WordsCut`: the characters taken one by one
  (`Argv`) come to the first `max_args` words as `Words` defines them, which has
  no recursion: the longest runs of characters before a NUL. A further character
  leaves the words, opens one or lengthens the last (`WordsSame`, `WordsNew`,
  `WordsLonger`), and once the cutting has ended nothing is added (`CutMore`).
  `CommandsOfTheInput`: `CliSpec => []CommandsAreLines`. The invariant is that
  some bytes `s` are scanned (`ScannedAre`): they with the buffer and the ring are
  what was accepted, the line is `LineTo` of them, `done` are their `Commands`.
  Moving bytes between ring and buffer keeps `s`; each byte scanned is appended
  to it, and `LineMore`, `NextLine`, `CommandsSame`, `CommandsMore` say what that
  does to the definition. That an overlong line loses whole `CLI_LINE_MAX`
  characters is a fact about the remainder of its length (`ModNext`).
- `IrProofs`, the queue. `Invariance`: `Spec => []QueueInv` of `SlotQueue`.
  `NoPhantomElement` and `ExactUntilRaced` are not inductive: that the copy is
  whole needs to know where the elements lie (`OrderedUntilRaced`: head, tail
  and the stored bursts are those not taken yet, in order).
- `IrProofs`, the receiver. `ReceiverQueue`: it uses the queue as that proof
  assumes, so `QueueInv` holds under it. `ReceiverInvariance` adds `WakeInv`
  (a message in the inbox has its notification, and a burst queued while the
  task is not draining the queue has a message behind it) and `FrameInv` (what
  the pulse buffer holds: every pulse of the frame so far, perhaps with a false
  one in front, or after an overflow a tail of them). From
  it `NothingStranded` (`IrRxInv`) and the action property `WholeFrames`
  (`BurstIsFrame`).
- `IrProofs`, the transmitter. `TransmitterInvariance`: to `IrTxInv` it adds where
  the segment index stands at each step (`Playing`), that the timer is the one
  whose id is stored, or is about to be, unless the first timer overtook the
  store (`Stored`), and that the buffer holds the segments of the frame sent
  (`Loaded`). From it `SegmentsPlayed`: `TxSpec => []IrTxInv`.
- `IrProofs`, the codec. The frame and its segments are computed for any four
  bytes: 67 segments, whose bits read back are the bytes. `NoFrameMisread`:
  `TxSpec => []NeverMisread`, for any widths. Of each kind of damage (one pulse of
  another width, a missed edge, a false start, a lost beginning, a transmission
  cut short) it is shown what the decoder sees: too few pulses, no leader, a
  leader of a repeat, or one bit that differs, which the inverse byte tells.
  `FrameDecodedAsSent`: `DecodesAsSent` under the hypothesis that marks are
  stretched by at most `Tolerance`, 280 us, half of a bit mark (the
  decoder's 50 %); beyond it a whole frame is rightly rejected. The run takes
  0, 140 and 280.
- `OsProofs`, the tasks. `TmInvariance`: `TmSpec => []TaskInv`, and with it
  `NoWakeupIsLost`: a receiver gives up its loop only on an empty inbox, and a
  sender stops being about to notify only by notifying. `QuietBoot` (nothing
  runs before the scheduler) is the strengthening it needs, and that entries
  stand for created tasks or for the one being created, which nobody looks up
  before the scheduler starts (`FailedTaskUntouched`).
- `LogServiceProofs`, the transmitter. `UartInv` adds to the checked properties
  who consumes the ring (`OneConsumer`: outside the task's kick only the
  interrupt, and never while the task is past its test, until `raced`) and
  where the bytes are (`BytesInPlace`: what is on the wire, in the chunk buffer
  and on the ring are consecutive numbers). Without the second,
  `InOrderUntilRaced` says nothing about the next byte; without the first, the
  chunk buffer may change under the transfer. `Transmitting` has `NoStall`,
  `ReadyOnlyInKick` and `InOrderUntilRaced`.
- `LogServiceProofs`, the service. Every step of `LogService` is a step of
  `UartTx` or leaves it alone (`UsesDriver`: `LogSpec => Spec`), so the
  driver's theorems hold under it (`WireInOrder`). `Service`, the invariant of
  both, adds to `LogInv` where the log task is inside `serial_write`
  (`Driving`), what each writer holds and that these lines differ
  (`Ownership`: the heap is the disjoint union of the writers' lines, the inbox
  and the line being written), and how output left behind wakes the task
  (`WakesUp`). `LogInvariance`, `LogSafety`.
- `LogServiceProofs`, the text. `LinesInOrder`: `LogSpec => []WholeLinesInOrder`.
  What was pushed with what is still held stays the text of the lines queued: a
  line queued adds its text at the end (`QueuedLast`), one taken becomes what is
  being written (`TakenNext`), a byte pushed is the first of the rest
  (`PushedFirst`), and ending a write or beginning the next moves nothing
  (`SameRest`).
- `I2cDriverProofs`. `DriverInv` says which request is in hand at every point
  of a start call, that a stored id is in the table or its abort under way
  (`IdsOwned`), that the timer of a running transfer carries its number or the
  transfer is being aborted with the mark set (`Guarded`), that entries left
  behind belong to transfers that ended inside their start call or were cut (the
  cascade), and what has been reported; all but the ids only until a call failed
  under its transfer (`UntilLoose`). An interrupt either ends the transfer
  (`EndsOnce`) or, being a timeout that only requests the STOP, nothing but an
  entry of the table (`NothingEnds`). From it `BusSafety`, `OkIsTrue`,
  `Reporting`, and `Refinement` (`Spec => ImplementsBus`): each action is mapped
  to the step of `I2cBus` it takes, or to a stutter. All this on either board
  (`atOnce`).
- `SensorImuProofs`. `ServiceInv`: who owns each request and timer entry
  (`Owned`), which registers were written when a message is still under way
  (`BringUp`), and what every message in the inbox tells of its burst
  (`Bursts`), whose number is taken modulo the inbox length plus one: a message
  survives at most as many newer bursts as the inbox has places. `Service`,
  `Configuration`, and the action property `WholeSamples`.
- `OsProofs`, the timers. Ticks live on a circle; the first part translates `%`
  into distances (`AheadIs`, `Between`, `TickPasses`). `TableInv` has two
  halves. `Matched`: whose entry is whose at each step of the task's call,
  including the id it has not stored yet; from it `OwnTimers`. `Timing`:
  outside the hook the compare register holds the earliest deadline or, if that
  has expired, the next tick, and every armed timer is within the longest delay
  ahead, or late by no more than the calls that put it off explain
  (`Served`, `Allowed`); so no deadline ever leaves the half turn in which
  `deadline_due` recognises it. Inside the hook the counter stands still until
  a callback arms a timer. That only happens for a deadline smaller as a number
  than all others, and since the others have just expired it lies past the wrap
  (`Wraps`), so that any still smaller one is nearer (`Nearer`), and the hook
  ends within the longest delay. That a handler works on old readings costs
  nothing more: a tick read `k` ticks ago is `k` behind the counter (`Reading`),
  a delay counted from it is only that much shorter (`Shorter`), and what is
  programmed for it is what the present tick would call for, unless the counter
  has passed it (`ReadEarlier`). `Undisturbed` is the task's side: an interrupt
  that leaves `overtaken` unset leaves the table alone. From it `InterruptComes`:
  `Spec => []Timely`.
- `BoardProofs`, the start. `NeverOverclocked` is about frequencies, and no
  stage looks at one: that the flash has its wait states or the core its supply
  follows from the order of the stages. `StartInv` says for every stage what
  those before it left (`StagesN6`, `StagesF2`: the regulator's port, latch and
  output before the supply, supply and scale before the oscillators, HSI while
  the PLL is changed, latency before the switch) and what the PLL may hold
  (`ClocksInv`: off, what an earlier boot stage left, or its target). One lemma
  per group of stages; a HAL wait that ends, a time-out and an early tick, at
  any point, are `QuietSteps`. From it `SafeStart` and `RightClocks`.
- `BoardProofs`, the bring-up. What is left of a script is `Sound` for the
  clocks switched on and the callbacks stored so far: a unit is written only
  after its clock and a line armed only after callback and context, in the
  script if not before. Scripts are sound when joined (`SoundJoin`), so each
  driver's is (`ScriptsSound`, `InputScript` for an application's lines); they
  stay sound when another task adds a clock or a callback (`More`), and the
  rest is once the first operation took effect (`Rest`). An enable bit lost to
  the other task's store stays in `clobbered`, so `clocked` and `clobbered`
  together only grow. With `Answerable` (an armed line has its callback and
  context, and only armed lines have edges) this is inductive; from it and
  `StartInv` follows `BoardSafe`: `Spec => []BoardInv`.

- `SeqFacts`. The text of several lines and the segments of a frame are made with
  `FlattenSeq`, which the community modules define by a recursive function; that
  the function exists, and what it does to an appended or a leading sequence, is
  proved here. The library's
  induction theorems take an operator as a parameter and cannot be used;
  `NatSetInduction` says the same of a *set* of numbers and follows from the
  least number outside it (the library's well-foundedness of `<`). `Argv` and
  the codec are reasoned about with it or by computing finitely many steps.

Only model-checked: all liveness, since fairness and ENABLED are out of the
prover's reach (`MessagesServed`, `SendersReturn`, `LinesWritten`,
`LoggingReturns`, `Drains`, `TimersFire`, `InputConsumed`, `RequestsReported`,
`InitEnds`, `BurstsHandled`, `TransmissionEnds`, `BootEnds`, `EdgesAnswered`). A run
checks one member of the family a theorem speaks of.

## 5. What was found

`mc_uarttx_sole`. `uart.c:52` says of `uart_tx_kick`: "Sole consumer of g_tx_rb:
runs from uart_write under a critical section (only when idle) or from the
TxCplt ISR (while active) - never both at once." The kick in `uart_write`
(`uart.c:155`) runs after interrupts are enabled again (`uart.c:152`), and the
error callback kicks too when `s_tx_active` is set while the transmitter is
READY (`uart.c:213`): exactly the state between the two. A receive error there
makes the interrupt pop the ring inside the task's pop. The other properties of
`UartTx` say what still holds: nothing stalls even then, and until it happens
the line is exact.

`mc_board_tick`. `hal_override.c:8` says of the HAL's time base that before
`vTaskStartScheduler()` `HAL_GetTick()` returns 0 and HAL time-outs do not
expire. But `HAL_Init`, which `driver_init` calls first, starts SysTick with
its interrupt, and `FreeRTOSConfig.h:42` makes its handler the kernel's. So the
tick counts while the clocks are still being brought up (and enters the kernel
before its lists exist), until the creation of the first task masks it.
`ClockTree` follows both outcomes of the early tick: it counts, or it faults.
`BootEnds` says what is left of the start then.

Smaller observations, which the models contain and the properties state as
their exceptions:

- `h_soft_timer.c:56`: between the reading of the counter and the programming of
  the compare, the table is scanned and the HAL called, longer than a tick. If
  the counter passes the value meanwhile, in the task or in a handler, the
  compare matches only after the counter wrapped, 71 minutes later. This is
  likely only where the value is `now + 1`: an earliest deadline that is found
  due, when a client arms or drops a timer, or the hook ends, while another
  timer has just expired.
- `h_timer.c:69`: the flag is cleared before the compare is written. If the old
  value matches in between, its interrupt finds nothing expired; the callback
  has already stopped the channel (`h_timer.c:93`), and the hook reschedules
  only if it called somebody (`h_soft_timer.c:84`): the timers that are armed
  wait for the next register or unregister. `overtaken` marks both cases.
- On the N6, `i2c_timeout_cb` (`i2c.c:85`) clears the timer id and requests an
  abort; nothing guards the wait for its end. If the device holds the lines the
  request is never reported and the bus stays busy.
- `i2c.c:182` on the N6: if the timer of a call expires before the call has
  looked at its id, the call fails and releases the bus with the abort under
  way. Its end then finds the mark gone and, if the next request has taken the
  bus, reports OK for it (`i2c.c:446`), though that one was not even started.
  If the entry expires between its registration and the store of its id, a dead
  id is stored, and the end of the abort unregisters whatever timer has taken
  that entry since. Both need a call to be stalled for the whole timeout.
- `slot_queue.h:13` describes a single-producer single-consumer queue, but
  `count` is written by both sides. A release inside the task's `count--` is
  lost: the burst stays in the queue until the next one arrives. `raced` marks it.
- `i2c.c:182`: a transfer that ends before its timeout is armed leaves a timer
  behind. It aborts a later transfer, whose own entry is then forgotten, and so
  on (`CutsOwnTransfer` describes the cascade).
- Once a start call failed under its own transfer (no timer was free), a request
  may be accepted while that transfer runs unguarded: its own start fails, its
  busy flag falls with the end of the other transfer, and its timer entry stays
  and later aborts a transfer that is not its own. The proof of
  `CutsOwnTransfer` met this behaviour; `loose` marks it.
- `h_soft_timer.c` calls back with the counter running again as soon as one
  callback has re-armed its timer, so time passes inside the hook too. With a
  counter only just wide enough for a delay and the lateness of one interrupt,
  a timer can then leave the half turn in which it counts as expired. The proof
  of `Timely` needed the wider bound that is now `DelayAssumption`; at 32 bits
  and 1 us per tick (`bsp_htimer_cfg.h:14`) the firmware's delays are far below it.
- `mpu6050.h:57`: the callback is said to come from the interrupt; on a refused
  start it comes from the task. `uart.h:68` says the same of TX_EMPTY.
- `bsp_htimer_cfg.h:5` speaks of a free-running counter; it stands still while
  no timer is armed, since stopping the only channel stops the counter.
- A frame whose leader space is shortened by a quarter or more is decoded as a
  repeat (`NeverMisread`), and a lone edge puts a false pulse before the next
  frame (`BurstIsFrame`), which the decoder then rejects.
- `ir_tx_drv.c:124`: if the first segment ends before its timer id is stored,
  the stale id may name another driver's timer (`ForeignTimersKept`).
- `serial.c:42`: the log and cli tasks have the same priority and register the
  same port at start. If the time slice ends inside `serial_ensure_hw`, both
  initialise the UART. The second `HAL_UART_Init` marks the receiver and the
  transmitter as ready while their interrupts are enabled and may be pending,
  and the HAL handler then serves neither. `twice` marks it.
- `serial.c:89`: reception starts with the first registration, possibly the log
  task's. Bytes that come before the cli task has set its handler lie on the
  ring until a later byte announces them; should they fill the ring, no later
  byte is accepted and nothing is ever announced (`heard` in `NoStrandedInput`
  and `InputConsumed`).
- `serial.c:43`: `uart_init` does not say that it failed. The port is marked up
  and claimed all the same (`PortComesUp`), the task logs or listens in vain.
- `cli.c:75`: of a line that outgrows the buffer whole `CLI_LINE_MAX` characters
  are dropped at a time and the rest is taken for a line, which may be a
  command (`LineTo`).
- `stm32f2/clk.c:66`: the clock enable macros of the F2 are a load and a store
  of a register that the ir and the sensor task, of equal priority, share; a time
  slice in between loses an enable bit and with it the writes to that unit
  (`clobbered` in `WritesLand`). The N6 sets bits by a single write.
- `bsp/dk32n65/bsp_ir_tx_cfg.h:15`: prescaler 0 and period 3157 give 38 kHz from
  the 120 MHz of the F2; at the 400 MHz of the N6's TIM3 they give 127 kHz. The
  file is marked as a placeholder, so `ClocksAsConfigured` claims the carrier
  of the F2 only.
- `sensor_mpu6050.c:210`: a SAMPLE message handled before the pending
  completion starts a read into the same buffer (`WholeUnlessOverrun`).

Exempted rather than excluded. Some of these races are hazards in the list of
`PROJECT.json` that nothing in the code rules out. The properties that name
them do not say that they cannot happen, but that nothing goes wrong unless the
stated race happened, which a history variable records: `overtaken`
(`HSoftTimer`: `h_soft_timer.c:56` and `:128`; `SensorImu`:
`sensor_mpu6050.c:83`), the overrun of `WholeUnlessOverrun`
(`sensor_mpu6050.c:210`), the late store of `ForeignTimersKept`
(`ir_tx_drv.c:124`), `clobbered` (`stm32f2/clk.c:66`), `raced`
(`slot_queue.c:130`, `uart.c:155`), `loose` (`i2c.c:182`), and in `BurstIsFrame`
the first edge that disarms a pending idle timer (`ir_rx_drv.c:112`).

## 6. Plan

Done, in order of importance: ring and slot queue, task manager, UART, log,
soft timers, cli, i2c with its abstract bus, sensor, infrared, board start-up
and peripheral bring-up; proofs of all their safety properties.

Left to model: an abstract log, one sequence of lines, that `LogService`
refines (`WholeLinesInOrder` states its content so far); what follows a second
initialisation of the UART (`twice`).
