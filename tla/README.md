# Seagate Central slot-in kernel: TLA+ models and proofs

The repository puts a modern Linux kernel on the Seagate Central NAS. What it
adds to the mainline kernel is a set of drivers and the platform code of the
Cavium/Cirrus CNS3xxx system-on-chip (two ARM11 MPCore CPUs), under
`src/new-files`, and a patch of small changes. This directory models the parts
of that code whose correctness depends on the order of steps: steps of two CPUs,
of a CPU and a device, of interrupt handlers and threads, or of a program and a
power failure. It holds TLA+ modules, TLC configurations and TLAPS proofs.

How to run everything, in this directory:

    tlc -workers 2 -config CnsEthTx.cfg MCCnsEthTx     # one run; PROJECT.json lists all
    tlapm CnsEthTxProofs.tla                           # one proof module

`PROJECT.json` says for every definition which lines of the source it translates
("map"), for every property a mutation of the model that breaks it ("mutants":
the operators named `X_Something` beside `X`), and lists the hazards of the code
with the properties that watch them.

## 1. Inventory

Paths are below `src/new-files`. "Hard" is what is difficult to test.

### Ethernet driver — `drivers/net/ethernet/cavium/cns3xxx_eth.c`

One switch with one DMA engine, a transmit ring and a receive ring, one receive
interrupt, one NAPI context, and up to three ports as net devices (this board
registers one).

| part | state | operations |
|---|---|---|
| transmit ring | descriptors (`cown`, `fsd`, `lsd`, `eor`), `buff_tab`, `free_index`, `cur_index`, `num_used`, `stopped`, the queue's stopped bit, `tx_lock` | `eth_xmit`, `eth_set_desc`, `eth_complete_tx`, `eth_check_num_used`, DMA engine |
| receive ring | descriptors, `buff_tab`, `cur_index`, `alloc_index`, `alloc_count`, `frag_first`/`frag_last` | `eth_rx_irq`, `eth_schedule_poll`, `eth_poll`, `cns3xxx_alloc_rx_buf`, the switch |
| life cycle | what the probe has acquired, `ports_open`, the two interrupts and how often they are disabled, NAPI's state, `mac_cfg` | `eth_open`, `eth_close`, `init_rings`, `destroy_rings`, `eth_init_one`, `eth_remove_one` |
| links | `intr_stat`, each port's `speed`, the MDIO register and its done bit | `eth_stat_irq`, `cns3xxx_adjust_link`, `cns3xxx_mdio_cmd` |

*Interaction*: `eth_poll` runs on any CPU; before it returns it calls
`eth_complete_tx` on the transmit ring. `eth_xmit` calls `eth_schedule_poll`
before it looks for room. There is no transmit-done interrupt. The first port to
open sets up what all ports share and the last to close tears it down; links are
followed by phylib, which asks the PHY over MDIO, and by the switch's own
interrupt, which do not lock each other out.
*Hard*: descriptors are filled outside the lock; the head of a frame must be
handed over last; sent buffers only come back through polls; the poll runs out
of budget or memory in the middle of a frame; the interrupt may be enabled once
too often or too rarely; frames arrive while it is being enabled; polls are under
way while the device is closed and opened again; an open or a probe fails half
way; an MDIO command times out and its answer comes for the next one.
*Correct when*: no descriptor or buffer is reused while the engine uses it,
every buffer comes back exactly once and in order, a stopped queue is woken, the
switch is never given a buffer that the stack holds, segments are taken once and
in order, reception never stops for good, an open port has all that it shares
with the others and a closed device is quiet, and an open port knows its link.

### Non-volatile environment — `drivers/rtc/rtc-cns3xxx-nvedit.c`

State: two MTD partitions (CRC, flag byte, `name=value` strings). Operations:
`rtcnvet_get_env`, `rtcnvet_do_setenv`, and their `env_read` and `env_save`. The
clock driver calls `rtcnvet_get_env` when it probes and `rtcnvet_do_setenv` when
time is set. *Hard*: power cuts and MTD errors between erase, write and flag;
which of two whole partitions is the current one; a read that overlaps a save;
editing the block in place at its last bytes. *Correct when*: a save happens as
a whole or not at all, the environment is never lost, and the block is always
the list of the variables that were set.

### Real-time clock — `drivers/rtc/rtc-cns3xxx.c`

State: the clock's registers, the record (`RTC_REC`) that is added to them and its
copy in the environment, `rtc_lock`, the alarm. Operations: probe, `gettime`,
`settime`, alarms, ioctls, `/proc` files with the power saving modes, the
interrupt. *Hard*: `rtc_lock` is taken in the interrupt handler and by callers
that leave interrupts on; `settime` sleeps in MTD with the spinlock held;
`gettime` reads four registers of a running clock; power cuts between the record
and its copy. *Correct when*: the time read lies between the call's begin and
end, a reboot finds the record, alarms are answered. The code falls short of each of
these, and the properties say by how much or in which cases (see Findings).

### SPI controller — `drivers/spi/spi-cns3xxx.c`

State: two static variables shared by all chips (`curr_cmd`, the bytes counted),
the controller's `tx_eof`, the shared pins the driver holds. Operations:
`cns3xxx_spi_txrx`, one transfer at a time; probe and remove. *Hard*: it has to guess where a flash transaction ends, since releasing
the chip select too early or too late ruins it and the next message.
Requests for its pins may fail half way. *Correct when*: the chip sees exactly the
bytes of one message per frame, and the driver frees the pins that are its own.

### SMP — `arch/arm/mach-cns3xxx/platsmp.c`, `cns3xxx_fiq.S`, `headsmp.S`, `hotplug.c`

State: a request per CPU, the FIQ register that interrupts the other CPU, FIQ
mode's banked registers, caches and write buffers; `pen_release` and
`boot_lock`. Operations: `fiq_dma_map_area`, `fiq_dma_unmap_area`,
`fiq_dma_flush_range`, the FIQ handler, `cns3xxx_boot_secondary`,
`cns3xxx_secondary_init`. *Hard*: two CPUs and two devices in any order; both
CPUs may wait for each other with interrupts off; a line may be preloaded or
evicted at any time; the second CPU may come up late, after the first gave up. *Correct when*: a CPU or device that owns a buffer never
uses a stale copy, and both CPUs get on.

### LEDs — `drivers/leds/leds-cns3xxx.c`

State: one state for both LEDs, a blink timer with its phase, the spinlock, the
`/proc` buffer. Operations: `/proc` reads and writes, the timer callback,
`leds_state_manager`, the panic blink. *Hard*: the timer callback takes a lock
that a process holds with softirqs on; a callback may have started before the
state was changed; the `/proc` buffer is shared by all writers. *Correct when*: the
LEDs show the state, a blinking state keeps exactly one timer and a steady one
none.

### Button — `arch/arm/mach-cns3xxx/seagate_button.c`

State: the pin and its latched edge, the interrupt's disable depth, timer, work
item, `timer_count`, `processed`, `button_event`. Operations: interrupt handler,
timer callback, work, the blocking ioctl. *Hard*: pin changes in any step
between the interrupt being turned off and on; several readers for one event.
*Correct when*: the button can never be left with neither interrupt nor timer,
one hold is one event, a long hold is reported and somebody gets it.

### The rest

GPIO (`drivers/gpio/gpio-cns3xxx.c`, `mach-cns3xxx/gpio.c`): pins shared with
special functions, which are requested and freed as arrays, and one interrupt per
port whose handler passes on the edges of pins that are disabled, too. Board
set-up and USB hosts: resource tables, register writes and the USB power
reference count. Headers: register layouts. The patch, build scripts,
configurations and documents: no behaviour of their own that a model could check.

## 2. Plan

The order follows how much depends on a part and how hard it is to test.

1. `CnsEthTx` with its abstraction `TxFifo`; proofs including the refinement. *Done.*
2. `NvEnv` with its abstraction `NvEnvStore`; proofs including the refinement. *Done.*
3. `NvEnvBuf`, the data structure `NvEnv` takes as a function; proofs. *Done.*
4. `CnsEthRx`, receive ring, interrupt and NAPI; proofs. *Done.*
5. `FiqCache` with `SmpBoot`; proofs. *Done.*
6. `SpiFlash` with `GpioPins`, and `Button` with `GpioIrq`; proofs. *Done.*
7. Ethernet life cycle, `CnsEthPort`, and the links, `CnsEthLink`; proofs. *Done.*
8. `Leds`; proofs. *Done.*
9. `Rtc`, `settime` with its save in the environment; proofs. *Done.*
10. Open: `eth_set_mac` and `eth_rx_mode` with the switch's address table,
    directions and trigger types of GPIO pins.

## 3. Modules and how they correspond to the code

Conventions: a variable has the name of the C variable or field it stands for;
an action is one handler, or the part of a function between two points where
something else can happen (a lock is dropped, a device can look, an MTD call
returns). A comment says where a function is cut. `pc`-like variables (`xpc`,
`cpc`, `ppc`, `wpc`, `rpc`, `hpc`) say where a function in progress stands.
Where a function holds a lock that everybody else who could see the difference
takes as well, it is one step. Variables marked "history" are not in the code
and only serve properties. `TypeOK` in a module says what
values its variables take; it is a theorem of every component. It is not among the
runs' properties, which are about behaviour.

### `CnsEthTx`, `TxFifo`, `MCCnsEthTx`, `CnsEthTxProofs`

| action | code |
|---|---|
| `XmitStart`, `XmitBusy`, `XmitReserve` | `eth_xmit` up to `spin_unlock_bh`: schedule the poll, check room, reserve `nr_desc` descriptors |
| `XmitFrag`, `XmitHead` | one `eth_set_desc` each, outside the lock, fragments first |
| `XmitCommit`, `XmitKick` | the second critical section and `enable_tx_dma` |
| `CompleteStart`, `CompleteStep`, `CompleteEnd` | `eth_complete_tx`, one turn of its loop per step, then `eth_check_num_used` |
| `RxIrq`, `PollRx` | as much of the interrupt and of NAPI as decides when `eth_complete_tx` is called |
| `DmaSend`, `DmaSleep` | the DMA engine, external: modelled from how the driver uses it |

The descriptor's address and length are the socket buffer it belongs to. `owner`
is a history variable: who may free a buffer. One port means that the queue's
transmit lock lets one `eth_xmit` run at a time; polls on `NrCpus` CPUs may wait
for `tx_lock`. `TxFifo` is the abstraction: a bounded queue of buffers. The queue is
what `buff_tab` holds, in the order in which the walk of `eth_complete_tx` will come
to it (`InOrder`).

### `CnsEthRx`, `CnsEthRxProofs`

| action | code |
|---|---|
| `RxIrq`, `XmitSchedules`, `ScheduleDisableIrq`, `ScheduleReady` | `eth_rx_irq`, `eth_schedule_poll` in its two callers; `napi_schedule_prep`, `disable_irq_nosync`, `__napi_schedule` are three steps |
| `PollStart`, `PollTake`, `PollTakeFails`, `PollTaken` | the loop of `eth_poll` |
| `AllocBuffer`, `AllocGive`, `AllocEnd` | `cns3xxx_alloc_rx_buf`, buffer and `config0` written in two steps; it can stop for want of memory at any slot |
| `EnableRxDma`, `PollAgain`, `PollMissed`, `PollComplete`, `PollEnableIrq` | the rest of `eth_poll`: budget used up, `napi_complete_done` that finds a missed call, completion, `enable_irq` |
| `HwWrite`, `HwStop` | the switch, external |

### `CnsEthPort`, `CnsEthLink`, `MCCnsEthPort`, `CnsEthPortProofs`

| action | code |
|---|---|
| `ProbeMdio`, `ProbeRings`, `ProbePort`, `ProbeDone` | `eth_init_one`; each may fail and then undoes what came before as the code does (`FreePorts`) |
| `Open`, `OpenRxIrq`, `OpenStatIrq`, `OpenNapi`, `OpenPort` | `eth_open`: the first port requests both interrupts, enables NAPI, the CPU port and the engines; the requests may fail |
| `Close`, `CloseRxIrq`, `CloseStatIrq`, `CloseNapi`, `CloseDone` | `eth_close`: the last port tears them down again, in the code's order |
| `RemoveRings`, `RemovePort`, `RemoveDone` | `eth_remove_one` |
| `FrameArrives`, `RxIrq`, `Xmit`, `PollBudget`, `PollCompletes`, `PollEnablesIrq` | when a poll is scheduled, runs, comes back or turns the interrupt on again, on several CPUs |
| `LinkChanges`, `StatReads`, `StatAdjusts` | the switch latches a change; `eth_stat_irq`, cut between its reading and its clearing of `intr_stat` |
| `MdioCommand`, `MdioAnswers`, `MdioAnswersLate`, `PhyReads`, `PhyReadFails`, `PhyAdjusts` | phylib's look at the PHY through `cns3xxx_mdio_cmd`, with time-outs and answers that come late |

`CnsEthRx` and `CnsEthTx` have the rings of one device that stays open;
`CnsEthPort` has its openings and closings and the polls' effect on the interrupt,
without the rings. The kernel's interrupt depth, the request and freeing of shared
handlers and NAPI's three states (`napi`, `missed`, `disabling`) are external,
modelled from how the driver uses them. `rtnl_lock` lets one open or close run at a
time (`rt`). `left_over` counts the handlers that a failed open left behind;
`late_on` notes that a poll enabled the interrupt when it had no handler any more
(`enable_irq` comes after `napi_complete_done`, and nothing waits for it);
`misled` names the ports that may be wrong about their link, with the windows of
the code that are to blame.

### `NvEnvVars`, `NvEnvStore`, `NvEnv`, `MCNvEnv`, `NvEnvProofs`

`NvEnvVars` declares the names and values that both views of the environment share.
Each MTD call is a step (`SetenvStart`, `SetenvRead`, `SaveErase`, `SaveWrite`,
`SaveFlag`; `GetEnvStart`, `GetEnvRead`), may fail (`SetenvReadFails`,
`SaveFails`) and may be cut by a power failure (`Crash`), with what `Interrupted`
says left in flash: any bits of an erase, a write with a wrong CRC or one that
was complete all the same, a flag byte with some bits programmed. CRC is "right"
or "wrong": that a torn write has a right CRC by chance is left out. An
environment is a function from names to values. `saves` counts the setenvs that
overlap a `get_env`, `rseen` the environments that were current meanwhile (both
history). `NvEnvStore` is the abstraction: one environment and at most one `setenv`
that has not yet returned.

### `NvEnvBuf`, `MCNvEnvBuf`, `NvEnvProofs`

The block's bytes, which `rtcnvet_do_setenv` edits in place (`Remove`, `Insert`,
`Overflows`) and `rtcnvet_get_env` searches (`GetEnv`), against the function
`value` they stand for. Characters are numbers, and `Beyond` bytes after the end
are kept an eye on.

### `SmpBoot`, `FiqCache`, `FiqCacheProofs`

`SmpBoot` is the second CPU coming up: `BootWakes`, `BootWritesPen` and
`BootReturns` are `cns3xxx_boot_secondary`, which holds `boot_lock`, waits for the
pen with a time-out and may be called again (`CpuUpGivesUp`: the kernel stops
waiting); `LeavesMonitor`, `LeavesPen`, `SetsFiqRegs`, `TellsReleased`,
`Synchronises`, `GoesOnline` are the pen of `headsmp.S` and
`cns3xxx_secondary_init`. `FiqCache` extends it: what the second
CPU has set up decides whether it can answer a FIQ.

A buffer is one cache line, and instead of its content the model keeps which
copies (memory, each CPU's line, each CPU's write buffer) hold what was written
last. `MapStart`, `UnmapStart`, `FlushStart` begin a `fiq_dma_` call; `Raise`,
`LocalOp`, `LocalDrain`, `Return` go on with it; `FiqEntry`, `FiqOp`, `FiqExit`,
`FiqReturn` are the handler in `cns3xxx_fiq.S`, which may run while its CPU is
itself in a `fiq_dma_` call, since `raw_local_irq_save` does not mask FIQs.
Caches, write buffers, the
device and the `v6_dma_` functions are external. Preloads may bring in a line of
a buffer the device has, not one in the middle of a map or unmap. Online is one
way: `hotplug.c` is not reached, `cns3xxx_smp_ops` names none of its functions.

### `SpiFlash`, `GpioPins`, `SpiFlashProofs`

`StartMessage` is a flash driver's message, with its operation cut into
transfers in the two ways such drivers cut them; `Txrx` is
`cns3xxx_spi_txrx` on one transfer (`TxTransfer`, `RxTransfer`) with its guess
`IsComplete`. The driver is modelled as it is built, without DMA and interrupt,
for the commands its comments list. Probe and remove request and free the driver's
pins one by one (`cns3xxx_sharepin_request`, `cns3xxx_sharepin_free`, which undo
an array that failed half way), while another user of gpiolib requests and frees
single pins. The two static variables outlive the driver, so that a message after a
remove and a new probe may find what an earlier one left in them. (`cns3xxx_spi_initial`
is `__init`, so that a probe after boot would call code that the kernel has freed;
the model takes it as if it were there.) gpiolib does not
ask who frees a pin: `holder` is what it knows, `lost` (history) what was freed
under somebody.

### `GpioIrq`, `Button`, `PanelProofs`

`Press` and `Release` move the pin at any time. `GpioIrq` is the interrupt of its
port: pins latch edges whether they are enabled or not, `ChainedEnter` is the
handler's reading of the raw status, which contains other pins' edges and those of
disabled ones, `HandleDisabled` the kernel's remembering of those, and a tasklet
hands them over when the pin is enabled. `Intr`, `TimerFires`, `WorkSample`,
`WorkReport`, `WorkEnd` are the polling, `Wait`, `Wake`, `Signal`, `Take` the
ioctl. A button already pressed at boot has no edge and is not seen.
`button_exit` never runs, the file is built in.

### `Leds`, `PanelProofs`

A write to the proc file is `WriteCopies` (into the one buffer), `WriteConverts`
(which finds its own number, one that others wrote meanwhile, or one that their
bytes make up together, `Mixtures`), `ManagerLocks`,
`ManagerSets`, `Unlocks`; a read is `ReadLocks`. `LedsTimerExpires` lets the callback
interrupt the process of a CPU, `CallbackLocks` and `CallbackRuns` are the
callback. `Panic` and `PanicBlink` take over the LEDs for good. The callback
spinning on a lock that the process below it holds is an outcome of the model, not
excluded: `SelfDeadlock` names it.

### `Rtc`, `MCRtc`, `RtcProofs`

The hardware's `count` is shown by four registers, second, minute, hour and day, each
of which carries into the next (`Share`). A call of the RTC class or of the proc file
takes `ops_lock` where the class does, spins on `rtc_lock` (`LockRtc`), reads second,
minute and hour one per step while the clock may tick (`ReadReg`), then the day and
the record (`GetTime`, or `WriteRec` and `Saved` for `settime`, which holds the lock
while it sleeps in the flash), or does what its kind does (`GetAlarm`, `SetAlarm`;
`WfiEnds` for the power saving modes). `AlarmIrq`, `IrqReads`, `IrqAcks` are the
handler. `ProbeOpen`, `ProbeRegister`, `ProbeGetEnv`, `ProbeWriteRec` are the probe,
which registers the clock before it has its record and may not get one. The record is
saved as the text of `"%8x"` and converted back by `simple_strtoul`, which stops at
the blank that a small one begins with: `Parsed`. `Crash` is a power cut or a reset,
after which the count goes on and the record may be gone. `excuse` (history) names why
the record need not be what flash has; `SelfDeadlock` and `Starved` name the ways to a
standstill. Calendar arithmetic is left out: a time is the number of its second.

## 4. Runs, what they show, bounds

Distinct states and times are those of a small machine with two workers.

| run | module | bounds | states | shows |
|---|---|---|---|---|
| `CnsEthTx` | `MCCnsEthTx` | ring of 4, reserve 1, at most 1 fragment, 2 CPUs, 2 buffers | 325 k, 64 s | `RingAccounting`: counters and window agree; `SkbHeldOnce`, `NoFreeUnderDma`: each buffer is freed once, never while its head is the engine's; `WholeFrames`: the engine never meets half a frame; `StoppedMeansFull`; `NoOverwrite`: no step changes a descriptor the engine owns; `RingIsFifo`: implements `TxFifo`; `SkbsComeBack`, `QueueWakes`: if polls are scheduled again and again every buffer comes back and a stopped queue wakes |
| `CnsEthRx` | `CnsEthRx` | ring of 3, budget 2, frames of up to 3 segments, 2 CPUs | 313 k, 49 s | `CreditExact`: taken and refilled slots add up; `HwOwnsFresh`: the switch has only fresh buffers; `FragIsPrefix`: the chain is the beginning of one frame; `DmaNotForgotten`: the engine is started again; `TakesInOrder`: every segment once and in order; `SegmentsTaken`: every one is taken, unless a poll that got no memory completed and nothing causes another |
| `CnsEthPort` | `MCCnsEthPort` | 2 ports, the link of one of them, up or down, 2 CPUs, 1 failure, closes up to interrupt depth 2 | 971 k, 100 s | `OpenIsServed`: an open port has handlers, NAPI, engines, rings, and an interrupt that is on or about to be; `ClosedIsQuiet`: of a closed device nothing is left but polls that may yet enable the freed interrupt, and nothing else enables it; `LinkIsKnown`: a port is right about its link outside the named windows; `FramesAreTaken`: reception survives opens and closes |
| `NvEnv` | `MCNvEnv` | two variables, one value, every content of both partitions at boot | 241 k, 12 s | `SourceIntact`: the partition a save came from is whole until the new one is; `SavedIsCurrent`; `ReadFindsOne`: a `get_env` that at most one save overlaps finds an environment if there is one; `IsStore`: implements `NvEnvStore` |
| `NvEnvBuf` | `MCNvEnvBuf` | 11 bytes for strings, 3 names, 4 values | 21 k, 20 s | `BlockIsEnvironment`: the block is the function from names to values, ended by two NULs |
| `FiqCache` | `FiqCache` | two buffers, two CPUs, two tries to boot the second | 4.0 M, 120 s | `CpuSeesFresh`, `DeviceSeesFresh`: no stale copy is used; `FiqHasRequest`: no request is lost, answered twice or waited for in vain; `BootedIsReleased`: success is reported only for a CPU that left the pen |
| `SpiFlash` | `SpiFlash` | two chips, up to 2 data bytes, 3 pins | 2.7 M, 56 s | `FrameIsMessage`: a chip's frame is the message's bytes so far; `MessageExecuted`: the chip executes it when it is complete and not before; `PinsMatch`: the driver has all of its pins or none, but for pins that were freed under their holder |
| `Button` | `Button` | hold of 3 polls, 2 readers, 2 pins | 34 k, 2 s | `OneEventPerHold`: one event for one hold, no earlier; `HoldIsReported`; `EventIsTaken` |
| `Leds` | `Leds` | 2 CPUs, 5 of the 13 numbers | 380 k, 10 s | `LedsShowState`, `TimerFollowsState`: LEDs and timer follow the state, whichever callbacks and writers are under way; `Blinks`: a blinking state goes on unless the lock is deadlocked |
| `Rtc` | `MCRtc` | 2 processes, 2 CPUs, minutes, hours and days that carry at 2, a tick over each carry, one time to be set | 664 k, 110 s | `TimeIsRead`: how far a reading or a setting can be off; `RecIsKept`: flash has the record in use, but for four named cases; `AlarmIsAnswered` unless one of two named standstills |
| `NvEnvRace` | `MCNvEnv` | as `NvEnv` | — | **violated** `ReadWasCurrent`, see Findings |
| `NvEnvBufOverflow` | `MCNvEnvBuf` | as `NvEnvBuf` | — | **violated** `NeverPastTheEnd`, see Findings |

Why the bounds are enough to see the interesting cases:

* *Transmit ring of 4.* Frames of one and two descriptors wrap the ring at every
  position; the ring fills to its reserve, refuses, drains and wakes; two buffers
  of two descriptors fill it, and both may be sent again while the other is in
  flight. The safety properties also hold with 3 buffers (2.0 M states), not kept
  as a run. The proofs cover every size.
* *Ports*: two show the first and the last port, one that opens while the other
  is open, and an open that follows a close whose polls are still under way; one
  failure is enough for each error path. `MCCnsEthPort`, and not the module that the
  proofs are about, does not close a device whose interrupt is disabled more often
  than `MaxDepth`: with a handler left over by a failed open the depth grows without
  end. One link and one speed tell every change apart:
  up, down, and back before it was seen.
* *Receive ring of 3 with a budget of 2 and frames of 3 segments*: a frame is cut
  by the budget in every place and is longer than what may be taken without a
  refill; all slots but one can be left without a buffer. The safety
  properties also hold with a ring of 4 (1.6 M states), not kept as a run.
  Segment numbers are taken modulo the ring plus one, so two in the ring differ.
* *Environment*: one name is the one saved, the other must survive; with one
  value the old and new environment still differ (a variable can be removed).
  Every pair of partition contents is an initial state, so histories before boot
  need not be replayed. The proof covers every set of names and values.
* *Block of 11 bytes*: two or three strings fill it; one name is the beginning of
  another; values are empty, long or contain `=`.
* *LEDs*: the numbers are an off, an on, a slow and a fast blinking and an
  alternating state, that is one of each kind of timer and of phase.
* *Clock*: registers that count to two carry as often as they can. The count begins at
  `Starts` and stops to tick at `Stops`: 1 to 2 carries into the minute, 3 to 4 into
  minute and hour, 7 to 8 into all three, with every interleaving of the tick and the
  four reads (one tick in each behaviour; the proof has any number). `Callers` is the
  process that may use the RTC class, which lets in one call at a time anyway; both
  may write to the proc file (`Sleepers`), so that one holds the lock and the other
  spins, on two CPUs or one. `MCRtc` calls `settime` again only until a save succeeds,
  so that records do not grow without bound. `SMALL` is between a record that is saved
  as it is and one that is padded.
* *Pins*: three pins are a first, a middle and a last one to fail at; any of them
  may be another's.
* *Caches*: the code has two CPUs; the second buffer is there for a request that
  overtakes another. `DrainedFirst = TRUE` states an assumption: the handler
  clears the request's flags before it drains its write buffer, and a device
  starts later than the two instructions in between. With `FALSE` the device can
  write memory before an older write of the other CPU reaches it, and
  `DeviceSeesFresh` fails; the constant is there to make that reliance visible.
* *Boot*: two tries are one that times out and one that follows it.
* *Button*: bounces of any number and length fit between two polls in any case;
  a hold of 3 polls tells "just short of a hold" from "a hold".

Deadlock is checked in every run but `CnsEthPort`, where a probe that failed or a
remove ends everything.

### Fairness

* `CnsEthTx`: weak fairness for the engine, the started poll and
  `eth_complete_tx`, which run with bottom halves off and are not interrupted for
  good; strong fairness for `eth_xmit`'s steps, since `tx_lock` may be taken and
  released for ever by polls but is a ticket lock. Nothing makes the stack send
  or frames arrive; that is why the liveness properties suppose `[]<>napi_sched`
  (with a silent wire and no sender, sent buffers do stay in the ring).
* `CnsEthRx`: weak fairness for the interrupt, the three steps of scheduling, the
  poll and its `enable_irq`. None for the switch or for memory becoming
  available: `SegmentsTaken` supposes (`MemoryIsFound`) that memory that is asked for
  again and again is got some time, and it asks for nothing when a poll that got none
  has completed (`LeftLying`), since nothing asks again then.
* `CnsEthPort`: weak fairness for the steps of an open or close in progress, for
  an interrupt that is enabled, and for a poll that is scheduled: it catches up
  sooner or later, a softirq and then ksoftirqd run it. None for failures, frames,
  senders, links, or for anybody opening or closing a port.
* `Button`: weak fairness for the port's interrupt, timer and work item, and for
  each woken reader. None for the button, for calls of the ioctl, or for signals.
* `Leds`: weak fairness for a process that holds the lock or goes on after its
  copy, for the timer and for the callback's body; strong fairness for taking the
  lock, which others may take in between. None for writers or readers.
* `Rtc`: strong fairness for each call in progress and for the handler, since what
  stops them comes and goes (a lock, an interrupt on their CPU); weak fairness for
  an interrupt that is raised and a CPU that can take it. None for the clock, the
  callers or the probe.
* The other runs have no liveness properties. `FiqHasRequest` states as an
  invariant that a call only waits while its answer is on the way.

## 5. Findings

* `NvEnvBufOverflow` (`rtc-cns3xxx-nvedit.c:618`): the length of the name is
  computed and then overwritten, `len = strlen(val)` where the comment above asks
  for name, `=`, value and two NULs. A new variable can be written past the end
  of the block.
* `NvEnvRace` (`rtc-cns3xxx-nvedit.c:885`): `env_read` reads the two partitions at
  different times and nothing keeps a save away in between. A reader that a save
  overlaps can get an environment that was current at no time during its call,
  where the comment promises the good partition.

Not a finding, because it depends on hardware that the repository does not
describe: `eth_complete_tx` frees a whole buffer when the descriptor of its head
is done. The model's engine gives descriptors back one by one, and there a
fragment's pages can be freed while its descriptor is still the engine's;
`NoFreeUnderDma` therefore speaks of the head only.

Hazards that the properties do not exclude are named in them. A deadlock of the
LEDs' or the clock's lock, which interrupt context takes and processes hold with
interrupts on, is an outcome of `Leds` and `Rtc`, and `Blinks` and
`AlarmIsAnswered` say that there is no other way to stop. `RecIsKept` names the
saves that fail unnoticed (`settime` has a message for it, but `rtcnvet_do_setenv`
returns 0 also then), the `settime` between the probe's two steps, the probe that
cannot read the environment and the record that is padded; `TimeIsRead` how late a
torn reading can be; `SegmentsTaken` the segment whose poll got no memory;
`ClosedIsQuiet` the poll that enables the freed interrupt; `OpenIsServed` the handler that a failed open leaves behind, `LinkIsKnown` the
windows in which a change of a link is overlooked, `PinsMatch` the probe that
ignores that it did not get its pins. These are behaviours of the code, and the
properties do not show that they do no harm; they show that there are no others. The repository says nothing against these,
so they are not findings. Hazards without a property have a note in
`PROJECT.json`.

## 6. Proofs

The proof modules hold for all values of the constants that the named assumptions
of their modules allow (`TxAssumption`: sizes are natural numbers, the reserve is
at least 1 and less than the ring, and a frame fits in the ring; `RxAssumption`:
likewise; `NullAssumption` and `EnvAssumption`: `NULL` is neither a value nor an
environment; `BufAssumption`: the block has room for the two NULs, at least one byte
beyond it is looked at, names are not empty and have no `=`, and neither names nor
values have a NUL; the others say that numbers are numbers and that model values
differ).

### `CnsEthTxProofs`

`Invariant`: `Spec => []IInv`, from which follow `TypeCorrect`,
`RingAccountingHolds`, `NothingOutsideWindowHolds`, `SkbHeldOnceHolds`,
`NoFreeUnderDmaHolds`, `StoppedMeansFullHolds` and `NoOverwriteHolds`.

The conjunction of the safety properties is not inductive; `IInv` adds
* `XmitInv`: what `eth_xmit` knows of its descriptors between its two critical
  sections — they begin just behind the window of used descriptors, the ones not
  yet written are the CPU's, nobody else put a buffer there;
* `WalkInv`: `eth_complete_tx`'s copies of the counters are still right, and all
  it has passed is sent and empty;
* `EorInv`: the end-of-ring bit is set exactly in the last descriptor.

Positions are measured from `free_index` going round the ring (`Offset`, `Dist`);
a few lemmas about `Dist` do the modular arithmetic once. There is one lemma per
action, `StepX`, that proves `IInv'`.

`WholeFramesHolds` needs a second invariant on top of the first, `FrameInv`, since
`IInv` does not say where the engine is. `DmaInv`: the engine owns what lies from
`dma_ptr` to the end of what it was given, and nothing before; `FillInv`: the
fragments that `eth_xmit` has written so far are those of one frame; `FramesInv`: a
head the engine owns begins a frame that lies within what it was given.

`RingIsFifoHolds`: `Spec => RingIsFifo`. The ring's queue is defined by ranks: the
k-th buffer is the one that has k - 1 others between it and the walk. `RankInv` says
that there is one for every k; it is kept because eth_xmit stores behind everything
that is there (`HeadGoesLast`, from `IInv`) and a walk empties the slot that has
nothing before it. `XmitHead` then is `TxFifo`'s `Accept`, the walk's freeing its
`FreeHead`, and every other step leaves the ranks alone.

### `NvEnvProofs`

`Invariant`, `TypeCorrect`, `SourceIntactHolds`, `SavedIsCurrentHolds`,
`ReadFindsOneHolds`, and `Refinement`: `Spec => IsStore`, every step of
`NvEnv` is a step of `NvEnvStore` or changes neither the environment nor the job.
`IInv` adds to the types what each MTD call may rely on (`SetenvInv`: a save's
source is whole, its target is erased or holds the new environment) and what a
`get_env` that has seen a bad first partition may expect of the second as long as at
most one save overlaps (`GetEnvInv`): that save writes the first. `SavedIsCurrent` is
about a save that has set its flag; `rtcnvet_do_setenv` returns 0 also for one that
failed. `OnlyGood`,
`FlagKeeps` and `InterruptedKeeps` say which environment is current when one
partition is bad or one flag changes.

`BlockIsEnvironmentHolds` is about `NvEnvBuf`. A block *is* an environment when there
is a `Layout`: a place `L` where the first two NULs are (`Ended`), a place `at[n]` for
each variable that is set, where "name=value" and a NUL stand (`Holds`) and a string
begins (`Begins`), and no string begins anywhere else. `GetEnvIs`: the lookup then
finds each variable's value and nothing else, because no "=" is in a name and no NUL
in a string (`StringIs`, `HasNameIs`). `WithoutKeeps`: removing a string makes a
layout of the others, in the two ways of the code (`RemoveLast`, `RemoveOther`, which
shifts the strings behind it; `StringsApart` says that no string lies across its
edges). `InsertKeeps`: appending makes a layout of one more. The check for overflow
does not count the name (see Findings), so `BufInv` has a layout for as long as
nothing was written beyond the block; `WithoutInBlock` and `InsertBeyond` show, of a
block with any content, that what was written there is not taken back, and that a
string that does not fit is seen at the first byte beyond.

### `CnsEthRxProofs`

`RxInvHolds`, from which `CreditExactHolds`, `HwOwnsFreshHolds`,
`FragIsPrefixHolds`, `DmaNotForgottenHolds`, `TakesInOrderHolds`. The properties
speak of single slots; the invariant has to say what every slot is. `RingInv` looks
at the ring from `alloc_index` on (`Off`): first the slots that were taken and are
empty, then the segments that wait, numbered in order, then the switch's.
`FrameInv` carries the frames' boundaries across the three places where the end of
one and the beginning of the next can be: the chain, the ring, and the segment
still to be written. `OffOf` does the arithmetic of the ring once, `RingKept` the
steps that leave the ring alone.

`NapiInvHolds` is about who may poll. A permission is with a caller that won
`napi_schedule_prep`, on the list of polls, or with `eth_poll` (`Tokens`), and there
is one exactly while NAPI is scheduled. Who has it has disabled the interrupt once,
and each poll that has given it up and not yet called `enable_irq` once more: so the
count of the kernel is right although polls on several CPUs enable late, and it is
bounded by their number. `RxTypeCorrect` takes this and `LengthInv`, which bounds
the segments between two ends of frames wherever they are: `eth_poll` may meet a
frame that is partly chained, partly in the ring and partly not received.

### `CnsEthPortProofs`

`PortInvHolds`, from which `OpenIsServedHolds` and `ClosedIsQuietHolds`, and
`LinkIsKnownHolds`. The properties say what there is while a port is open and
nobody is opening or closing one; `UpInv` says it for each step in between, which
the rest follows from. `DepthInv` bounds the interrupt's depth by the polls that
will enable it, for as long as no handler is left over, and says that without a handler
the interrupt is disabled unless a poll came late; it is not needed that it is
exact, and it is not: a poll of an earlier life may enable once more than it
disabled. `StageInv` is about what the probe has and the remove takes away.
`LinkInv` says of each port that is not `misled` how a change it has not seen will
reach it: it is latched, or read, or about to be asked for, or in the answer.

`PortTypeCorrect` is the types. That the interrupt's depth is a natural number, with
handlers left over or without, follows from `enable_irq` ignoring one call too many.

### `FiqCacheProofs`

`FiqHasRequestHolds` and `BootedIsReleasedHolds` follow from `FiqInv`, which says of
each call where its request is, and that `r8` is zero wherever a FIQ can be taken,
and `BootInv`. `CpuSeesFreshHolds` and `DeviceSeesFreshHolds` follow from `DataInv`,
under the assumption `DrainedFirst` (see the bounds above), which is part of the
statement. `BufInv` says for each owner which copies are fresh; while a buffer
changes hands, `CallInv` says what the call's half and the other CPU's half have
each done to it (`MapInv`, `UnmapInv`), and `Offline` that the second CPU has
nothing before it is online. What the cache operations do to one buffer is stated
in one lemma each (`CleanLineDoes` and its neighbours). `FiqTypeCorrect` does not
assume `DrainedFirst`: whatever a device reads or overwrites too early, a dirty line
stays the only one (`MemShape`).

### `SpiFlashProofs`

`PinsMatchHolds` follows from `PinInv`. `LoopInv` says what the driver has while the
loop of a request or of a free stands at pin `k`: the pins before it are taken and
those behind it are not (`Between`), or an earlier probe failed and kept all of them.
When the driver is in no loop it has all pins or none (`RestInv`). The other user of
gpiolib takes and frees any pin at any step, so all of this is said of the `Sound`
pins, those that nobody freed behind their holder's back, and `UserInv` says which of
them are the other user's.

`FrameIsMessageHolds` and `MessageExecutedHolds` follow from `BusInv`: from the first
transfer of a message to its last the static variables of `cns3xxx_spi_txrx` hold its
command and the number of bytes so far, and nothing otherwise (`CmdInv`). This rests
on a fact about the messages, `MessagesShaped`: however a flash driver cuts one into
transfers, the last transfer and no other one is an end for `IsComplete`. `BindInv`
separates the two halves: the driver is neither probed nor removed during a message.

### `PanelProofs`

`LedsShowStateHolds` and `TimerFollowsStateHolds` are inductive with the lock's
discipline (`LockInv`) and without their condition that the lock is free.
`OneEventPerHoldHolds` needs that the interrupt is disabled exactly while the timer
or the work item is under way (`ArmedInv`), so that polls do not overlap, and that
between two polls `timer_count` is the number of polls that found the button
pressed (`PollInv`). `LedsTypeCorrect` and `ButtonTypeCorrect` are the types; the
second says also, by `ArmedInv`, that the button's interrupt is never disabled twice.

### `RtcProofs`

`TimeIsReadHolds` and `RecIsKeptHolds` follow from `RtcInv`: `LockInv`, only one call
is in the part that `rtc_lock` guards, so that nobody changes the record between
another's reading and its saving; `ReadInv`, what a call has read at each register
(`ReadSoFar`: the seconds of one count, the minutes of a later one, the hours of one
later still); `ProbeInv`, that no record is overtaken before the probe has ended.
`Registers` says what each register adds to a time and how much it can be
(`Place` is the arithmetic of one place, `Monotone` that none runs backwards), and
`FourReads` puts four readings at four counts together: their sum is never too little,
and too much by no more than the highest register that changed allows. `RtcTypeCorrect`
is the types; `ArgInv` says that only a call that brought a time sets the alarm.

### Model-checked only

Liveness (fairness and ENABLED are out of the prover's reach): `SkbsComeBack`,
`QueueWakes`, `SegmentsTaken`, `FramesAreTaken`, `HoldIsReported`, `EventIsTaken`,
`Blinks`, `AlarmIsAnswered`. Every invariant, action property and refinement that a
passing run checks has a theorem. No module uses a RECURSIVE operator.

## 7. Not modelled

* `eth_set_mac`, `eth_rx_mode` and the initialisation of the switch: writes to its
  address table and registers, one after the other. ethtool, the driver's ioctl and
  parameters.
* The environment on a single partition: that variant does not compile
  (`UBOOTENV_MTD_NAME` is defined nowhere).
* The clock's ioctls and `/proc` files that only format registers, its remove,
  suspend and resume.
* Directions and values of GPIO pins, `set_type`, its `/proc` files.
* `hotplug.c`: not reached. The SPI driver's suspend and resume change no state of
  the driver.
* Board set-up and USB hosts, headers, the kernel patch, scripts and documents:
  tables, register writes in order, text. The USB power count is two lines that
  probes and removals reach one after the other.
* In the modelled components: contents of frames and checksums, statistics,
  `printk`, register layouts, the SPI controller's clock and unused DMA variant.
