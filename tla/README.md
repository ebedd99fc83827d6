# Verification of onda_qnx

`onda_qnx` is a QNX Neutrino image for the BeagleBoard-xM (OMAP3730, one Cortex-A8
core). It holds two programs of its own — `onda`, a square wave generator driven by a
push button, and `client`, a CGI page that configures it — and the board support
package they run on, whose only substantial concurrent programs are the drivers: the
SD/MMC block driver, I2C, SPI, serial, graphics and audio, and the boot code.

This directory models the parts whose correctness depends on interleavings, checks
them with TLC on small instances and proves the main safety results with TLAPS for
every value of the constants.

Paths below are relative to the repository; `mmcsd/` stands for
`bsp-TI-omap3730-Beagle-xm-src/src/hardware/devb/mmcsd/`.

## 1. Inventory

### onda (`onda/onda.c`)

| | |
|---|---|
| state | `pincount`, `interval`, `t`, three register base addresses (all globals, 43-46); GPIO5 and GPTIMER9 registers |
| actors | `main` (set-up, then a message loop), `gpio_isr_handler` (IRQ 33), `timer_isr_handler` (IRQ 45) |
| operations | button down: reset phase, count, load and start the timer; button up: stop the timer and raise the pin; overflow: write the pin and toggle the phase; messages 0x55 (count), 0x65/0x66 (read/set the interval) |
| interaction | shared variables without any lock; level interrupts acknowledged at the end of each routine; `client` sends messages through the global name `onda` |
| hard | the two routines nest; interrupts are attached before the registers are mapped, and the exit leaves the detection of the bank on; the detection mask covers other pins; an edge during the routine; an overflow pending at the release |
| correct when | after the last edge is served the output agrees with the button, the phase with the pin, and the count with the presses; in a first run no routine uses an unmapped register |

### client (`client/client.c`)

Reads one form, sends at most one 0x66 and then 0x55 and 0x65, prints a page, and
optionally burns CPU time. No state outlives a call. Hard: the buffer it searches for
"interval=" is not terminated behind what was read; its connection ends in a pulse that
the server does not tell from a message; any number it finds becomes the interval.

### devb-mmcsd (`mmcsd/`)

The driver of the micro SD slot, started by the image with `mmcsd noac12`
(`images/omap3730_beagle_xm.omap3730_beagle_xm.build:129`). It is a CAM SIM: the block
and file system layers (`io-blk`, `cam-disk`) enqueue CCBs, the driver executes them.

| | |
|---|---|
| state | `ext` (one record per slot): `eflags` (INSERTED, READY, INVALID_CARD, CARD_PRELOAD, HC, WP, PIO), `state` (IDLE, IDENT, DATA), `ident` and `istage` (stage of the identification), `version`, `nexus` (request in progress), `stop`, `offset`, `nbytes`, `blkno`; function statics `count` (`mmcsd.c:1011`) and `stops_retry` (`sim_mmc.c:1022`); the SIM queue |
| actors | *driver thread* (`mmc_pulse_handler`, priority `MMC_PRIORITY`): pulses SIM_ENQUEUE, SIM_INTERRUPT, SIM_TIMER; *control thread* (`mmc_control_thread`, priority 10): pulses INSERTION, REMOVAL, READY; *attaching thread* (`mmc_creat_threads`); clients calling `mmc_sim_action`; the card, the controller, the user |
| operations | detection by polling, power cycling and reset, twenty identification stages, announcing, queueing, DMA and PIO transfers, stop commands with retry, completion, removal |
| hard | three threads start an identification of the same record; a command may complete before its sender has stored what it was for; cards change between polls; the pin of the slot is read over a bus that may fail; a removal leaves a request in progress which is executed again on the next card; errors of data, stop, command and DMA channel each take another path; a wrong `stop` leaves the card in an open transfer |
| correct when | a card in use is described correctly; every card gets a verdict; what is announced is what is there; a request completes only when exactly its blocks moved, fails only for a cause, and does not hang while there is a card |

Its layers: `sim.c` (CAM interface, threads), `sim_mmc.c` (driver thread, requests),
`mmcsd.c` (card protocol), `chipsets/sim_omap3.c` (host controller),
`arm/beagle.le.v7/sim_bs.c` (board: detection through the PMIC over I2C). The other
files of `chipsets/` are for other boards.

### i2c-omap35xx (`i2c/omap35xx/`)

| | |
|---|---|
| state | `xlen`, `buf` (bytes to go, and where), `status`, `intexpected`, `re_start`; the controller's registers; the pulses in the channel |
| actors | the thread of the resource manager, one call at a time; `i2c_intr`; the controller, the slaves, other masters |
| operations | wait for the bus, clear, start; move bytes from the interrupt; take the pulse or time out; reset |
| hard | a time-out races the end of the transfer; the bits of one status word are handled in an order; a failed transfer leaves `re_start` set; a reset may fail half way |
| correct when | "done" means that all bytes moved; the routine uses only the buffer of the call in progress; every call returns with a verdict of its own |

`beagle_detect` of the mmcsd driver reads the slot's pin through it.

### spi-omap3530 (`spi/omap3530/`)

| | |
|---|---|
| state | `xlen`, `tlen`, `rlen` (words to exchange, written, read), one buffer for both directions; the pulses in the channel; the DMA channel |
| actors | the thread of the resource manager; `spi_intr`; the controller; the system DMA |
| operations | `omap3530_xfer` (first words from the thread, the rest from the interrupt, the last from the thread again), `omap3530_dmaxfer` |
| hard | three parties move the words of one buffer; a time-out leaves events behind; the word counter has 16 bits |
| correct when | a length returned means that every word is in place; the FIFO never runs dry; nothing is read before it has come in |

### devc-seromap (`devc/seromap/`)

| | |
|---|---|
| state | flags shared with `io-char` (EVENT_TTO, EVENT_QUEUED, OHW_PAGED, OSW_PAGED_OVERRIDE), the output buffer, the queue of events; the UART with three banks of registers at one address |
| actors | the thread of `io-char` in `tto()` and `ser_stty()`; `ser_intr`; the UART; the other side |
| operations | transmit, enable the transmit interrupt, change the parameters; receive, transmit and modem interrupts |
| hard | flags change between being looked at and being used; the interrupt disables itself; a character is read before it is known whether there is one; the banks are switched with interrupts enabled |
| correct when | nothing received is lost or made up, no overrun goes unreported; what waits is sent; output stops when it is told to |

### The other drivers and utilities

| component | state and behaviour | why it is not modelled |
|---|---|---|
| `support/omap3530-sdio` | library for SDIO functions with an event thread | no program of the image links it |
| `support/wdtkick`, `support/pmic_tw4030_cfg` | a timed register write; a one-shot sequence | no interleaving |
| `deva`, `devg` | register programming behind io-audio and the graphics framework | the frameworks own the state; mode tables are data |
| `startup` | board initialisation before the kernel; interrupt callouts | sequential; only the callout's effect on nesting is used, in `OndaWave` |
| `utils/r/rtc`, `utils/r/resource_seed` | one-shot tools; calendar conversions | no state |
| `apps/*` | demonstrations | nothing to state |

`PROJECT.json` lists every component with its status and every hazard with its line.

## 2. Modules

```
 OndaWave <- MCOndaWave       MmcSlot (abstract: the verdicts)   RequestService (abstract:
  ^     ^                       ^ INSTANCE                         ^      the requests)
  |  OndaWaveProofs           SlotLife (abstract: the life of      | INSTANCE
  |     ^                      ^      ^      the slot)             |
 Onda <- MCOnda   INSTANCE WITH |      | EXTENDS                    |
  ^     |         MCMmcIdent -> MmcIdent   MmcRequest <- MCMmcRequest
 OndaProofs                     ^          ^
                 MmcIdentProofs        MmcRequestProofs
                     |  INSTANCE WITH      |  EXTENDS
                     +---> SlotLifeProofs <+

 I2cTransfer       SpiExchange       SerialLine
   ^                 ^                 ^
 MCI2cTransfer     MCSpiExchange     MCSerialLine
 I2cTransferProofs SpiExchangeProofs SerialLineProofs
```

`SlotLife` is where the two halves of the SD/MMC driver meet. `MmcIdent` is shown to
implement it, `MmcRequest` takes each of its actions together with what it means to the
requests, and `MmcRequestProofs` shows that it does nothing else to the slot: assumption
and guarantee are one module, and what follows of it is proved once.

Disturbances. Each module but `MmcRequest` names what its environment may do beyond the
ordinary in `AllHazards`. The variable `hazards`, chosen in `Init` and never changed,
says which of them a behaviour has; the constant `Scenarios` says which choices an
instance considers. A property that does not hold under some disturbance says so in its
own text (`"noise" \notin hazards => ...`), so one run shows what holds under which, and
the theorems are about all of them.

### OndaWave

One action per register access or assignment of the two interrupt routines, because
the other routine can run between any two of them, and one per step of `main` that the
routines can observe. `pc[i]` is where routine *i* is, `cpu` who runs now.

* `GpioRead` reads the level; then `GpioStop`, `GpioSet` (released) or `GpioClear`,
  `GpioCount`, `GpioStart` (pressed); then `GpioAck`. Lines 48-76.
* `TimerRead` copies `t` to `seen` (the branch of line 80), `TimerWrite` writes the pin
  from it; line 85 is `TimerReread` (`t` is not volatile, so the compiler may keep what it
  read) and `TimerToggle`, between which the button routine may write `t`; `TimerAck`.
  Lines 78-89.
* `MapRegisters`, `EnableGpio`, `StopTimer`, `EnableTimer`, `RaiseOutput`, `Shutdown`:
  `main`, 100-224. The message loop is added by `Onda`; here an overflow may come at any
  time while the timer runs, whatever the interval.
* `Init` is a first run: the bank and the timer are as the reset of the board left them.
  `RunAgain` starts the program once more, with its variables new and the registers as
  `Shutdown` left them: the timer silenced, the detection of the bank still on. A routine
  that is delivered before `MapRegisters` cannot go on (`At`, `Mapped`); `Fault` is its first
  access. A process that is killed is not modelled, only the way out of lines 217-220.
* `ButtonEdge`, `OtherEdge`, `TimerOverflow`, `Deliver` are the environment. `Deliver`
  allows a nested delivery because `callout_interrupt_omap2420.S` masks only the level
  it delivers and `init_intrinfo.c:205` gives all lines the same priority.

The disturbances: `nesting`, `bounce` (edges faster than the routine), `early_edge` (edges
while `main` does not serve: before, and between two runs), `other_pin`, `rerun`.

The line `unsigned int t = ...` (65) declares a new `t`; the global is reset by line 60
only. `GpioCount` and `GpioStart` follow that.

### Onda

The two programs together, in one run of the server. It extends `OndaWave` with the message loop (`Connect`,
`SetInterval`, `TellCount`, `TellInterval`, `TakePulse`; `onda.c:182-216`), any number of
runs of `client.c` (`Open`, `ReadForm`, `Close`, `SendFails`) and the value the timer is
loaded with, in machine arithmetic of `2 * Half` values (`LoadOf`, line 65; `Parse`,
`client.c:16-32`). Which number `find_param` meets in the unterminated buffer is a
nondeterministic choice. Every action of `OndaWave` occurs unchanged, conjoined with what
it does to the new variables; the press loads the timer. `Storm` is a timer that
overflows again before its routine is left: `main` then gets no processor.

### I2cTransfer

`Call`, `BusKept`/`BusFree`/`BusReset`, `BusAgain`, `Prepare`, `Arm`, `Start`, `TakePulse`,
`LostBus`, `TimeOut`, `GiveUp`, `GivenUp` are the thread (`send.c`, `recv.c`, `wait.c`), in the
order of its assignments as far as the interrupt routine can tell. `Reset` is
`omap_i2c_reset`: it may fail half way, and with the bus still busy it asks for a stop
(`init.c:78-83`). It ends in a delay, in which that stop may be made and interrupt while
`intexpected` is still set: so each of its three callers is two actions, with what the
caller reads after the delay in the second. One round of the loop of `i2c_intr` is one action
(`IsrEnds`, `IsrRead`, `IsrWrite`, `IsrUnderflow`, `IsrNothing`, by the bit that is handled).
The thread runs only while no interrupt is raised: one core. The controller is external:
`Byte`, `Attention` (the FIFO thresholds), `Complete`, `Refuse`, `LoseBus`, `Underflow`,
`StopMade`. Disturbances: `nack`, `arbitration`, `underflow`, `early_ready` (ARDY with bytes
left in the FIFO), `stuck`, `dead_reset`. `moved`, `stray` and `upset` are history: bytes in
place, a buffer used that is not the call's, and the two events that put calls and
transfers out of step: an end reported after the time-out of its call ("raced"), and a bus
taken for kept while the controller makes a stop ("kept"). The count `i2c_intr` takes from
BUFSTAT is the level of the FIFO in the model; the code uses the whole register.

### SpiExchange

`Xfer`, `Enable`, `TakeEvent`, `TakeSdma`, `TimeOut`, `LastWords`, `Drain`, `Disable`, `Off`
are the thread of `omap3530_xfer` and, with `DmaXfer`, of `omap3530_dmaxfer`; `IsrEnd` and
`IsrWords` are `spi_intr`. `Shift` moves a word through the controller, `DmaWord` one by
DMA. `Wrap` is the number of values of the word counter (64 K). Modelled as built for
this board; the OMAP4430 variant adds a mutex and is not. The disturbance `slow` lets a
time-out come at any time. `astray` is history: words that the routine or the thread read
from an empty FIFO, or put before or beyond the buffer (`Strays`). `upset` names the two
ways in which a time-out spoils a length: an event left behind, for good ("left"), and the
routine going on with a call already given up, for that call ("late").

### SerialLine

`TtoLoop`, `TtoPut`, `TtoArm`, `TtoEnable` are `tto()` between the points where the
interrupt routine may change what it looked at; `SttyEfr` ... `SttyLcr` are `ser_stty()`
from one bank of registers to the next; `IsrReceive`, `IsrTransmit`, `IsrModem` the rounds of
`ser_intr`, whose meaning depends on the bank. The receive loop (`intr.c:91-102`) goes step
by step, and characters come in between the steps: `IsrReceive` reads LSR, `IsrCharacter`
reads RHR (without looking at RXRDY, as the code), in `process_lsr` if LSR showed an error,
`IsrStatus` reads LSR again for the next character. Each character has an error or none; one
that finds the FIFO full is an overrun, which reading LSR clears. With DLAB the
"character" is the divisor. `came`, `got`, `lost`, `told` and `astray` are history.

`io-char` (`Write`, `Inject`, `TakeEvent`) and the UART are external. Left out: the timer by
which `io-char` makes up for lost transmit interrupts (`LOSES_TX_INTR`), since the
interrupts are shown to be enough; software flow control (OSW_PAGED), which `io-char`
handles; and the trigger level: each character interrupts. Disturbances: `flow`, `busy`
(parameters changed while the line is in use).

### MmcSlot

The promise of the slot to the layers above: empty → identifying → ready or invalid →
empty; a verdict is not changed while the card stays. (That an identification ends is
`Identified` and `Withdrawn` of `MmcIdent`.)

### SlotLife

What the identification does to the record `ext` it shares with the request path:
`phase` (the flags, as `MmcSlot` has them), `state`, the removal on the control channel, and
`run`, where the identification is: on its way to its first command (an INSERTION pulse, or
a thread in `mmc_ident_start`), going on (a command on the bus, or the restart from the
driver thread), or failing (between the stage and the second `detect` of `mmc_ident_irq`).
Its actions are the points where these change: `Found`, `Lost` (`mmc_media_check`),
`Withdraws` (REMOVAL, which also resets `state`), `Starts`, `StartsNot` (the control
thread), `Accepts`, `Fails`, `Failed`, `Ends` (`mmc_ident_irq`, and the answer that comes
unexpected), `Serves` (requests use `state` while the card is in use) and `Move`, the user.

### RequestService

What the driver promises those who enqueue requests: they are taken in their order, one at
a time, none is forgotten and each is answered once.

### MmcIdent

Detection and identification. A handler of the driver thread is one action: on one core
the control and the attaching thread have lower priority and run only while the driver
thread sleeps. It sleeps inside `mmc_ident_start` (two `delay`s), so that function is
split: `StartCheck` (count and flags, detect), `StartPower` (power off and on),
`StartReset` (count, stage, CMD0), `StartStore` (the caller's `ext->state = IDENT`, not
needed in the driver thread). Any of three threads may be in it. The other stages also
contain `delay`s; what they do after one is to send a command, which no other thread
observes earlier, so they stay whole.

* one action per stage: `GoIdle`, `CardVersion`, `SdPowerup`, `MmcPowerup`,
  `AllSendCid`, ... `Final`, dispatched by `mmc_card_ident` (`mmcsd.c:1459`);
  `IdentFailed` is the failure branch of `mmc_ident_irq`, separated from the stage so
  that the user may act between the stage and the second `detect`;
* `Poll` is SIM_TIMER, `Unpowered` `omap3_powerdown`. `Detects` is `beagle_detect`: what it
  says is what is in the slot, or, when the I2C read fails (`sim_bs.c:113`), that there is
  no card; `DetectClears` is its effect on the write protect flag. It is asked in
  `StartCheck`, in `MediaCheck` (`mmc_media_check`, whose branches are `MediaSeen`) and, twice
  in a row, behind a failed stage: `Judge` if the first says there is a card, else
  `Vanished`. `Unstaged` is an answer that meets no stage;
* `CardInsertion`, `CardRemoval`, `CardReady` are the pulses of the control thread;
* the card is a small protocol automaton (`Obeys`, `Obeyed`, `Answers`), external to the
  repository: it answers a command it knows in a state where it is legal and is silent
  otherwise. Seven kinds of card take the different branches: SD version 1; version 2
  standard capacity with write protection; high capacity; MMC before and since version
  4; an MMC whose `EXT_CSD` card type the driver does not list; a card that never ends
  powering up.

Stages this controller never reaches are left out: the two high speed switches
(`omap3_attach` sets no `MMC_HCCAP_HS`). `rca` is not modelled, nor the CSD fields that
no branch looks at. `SwitchBusWidth` has no branch of its own for a failing
`mmc_wait_card_ready` (`mmcsd.c:637`): like any failure of the card it is `noise`.

Disturbances: `early_poll`, `late_store`, `fast_return`, `fast_swap`, `bad_read`, `noise`.

### MmcRequest

The life of a request. `hw` is what the controller works on, with the blocks not moved
yet and the interrupts that are enabled; `moved` is a history variable, the pairs
⟨buffer block, card block⟩ moved for each request in its present execution.

* `Enqueue` is `mmc_sim_action`; `TakeEnqueue`, `StartNone`, `StartNext` the enqueue
  pulse and `mmc_start_ccb` with its loop; `Execute` is `mmc_io_cmds`;
* `SendRw` is `setup_dma`/`setup_pio` and `mmc_send_rwcmd`: which command, `stop` and
  the new `offset`; `DmaRw` `mmc_dma_rw`;
* with the slot in state DATA, `mmc_data_irq` and below: `DmaData`, `PioReady`,
  `PioComplete`, `StopDone`, `StopError`, `DataError`, `CommandRefused`, `DmaFailed`;
  `LostError` is an error whose interrupt is not enabled any more;
* `Tick` is SIM_TIMER with its media check and the start of the next request;
* `CardRemoval`, `CardInsertion`, `IdentEnds`, `IdentDone`, `IdentFailed` are the control
  thread and the end of an identification: actions of `SlotLife`, with what they mean to
  the request that is in progress;
* a request of size 0 stands for those answered at once (inquiry, capacity, sync ...).

`MmcRequest` sees the identification as `SlotLife`, which `MmcIdent` implements (`LifeSafe`,
checked and proved): a removal may come at any point of an identification, between a
failed stage and the look at the slot included, and a request that waits for a card is
executed or failed with it. `MaxChunk` is how much `setup_dma` takes at once:
the OMAP3 takes everything, chipsets that do not use the same code of `sim_mmc.c`.
`pio` and `auto` are the driver's options `pio` and (not) `noac12`; both values are
tried. A removal is noticed before the next card is in, as under `SlotLife` (swaps between
two polls and the other races of identifications are matters of `MmcIdent`). Its
detection does not fail: to the requests a poll that cannot read the pin is a card taken
out, and the next one a card put back, which are steps of the model; that a card may be
overlooked at the start of an identification is a matter of `MmcIdent` alone.

Not modelled: `XPT_ABORT` of a request in progress (what `simq_ccb_state` reports is
decided in a library), scatter lists (rejected in DMA mode without `setup_sgdma`, which
OMAP3 does not set), partitions, trim, write protection (never set on this board after
the first poll, see section 4), the wait for a busy card (only with
`MMC_HCCAP_NOCD_BUSY`, not on this board).

## 3. Runs

All bounds are constants of the configuration.

| run | question | bounds | result |
|---|---|---|---|
| `wave_any` | what holds under which disturbances? | all 32 sets of them, 6 edges, any number of runs of the program | holds, with liveness |
| `wave_pin` | is the button the only pin that counts? | `other_pin`, 3 edges | **violated** |
| `wave_nest` | is a release final when the routines nest? | `nesting`, 3 edges | **violated** |
| `onda_two` | does the whole program serve its clients, whatever intervals they set? | 2 clients, 2 edges, integers of 16 bits, the intervals 10, 66 (does not fit) and 65556 (parsed as 20) | holds, with liveness |
| `ident_any` | what holds of every kind of card, removed at any point, swapped, under noise, misread? | 7 kinds, 3 touches of the slot; every set of `fast_swap`, `late_store` and `noise`; alone `early_poll`, `fast_return` and `bad_read`, with 1 misread | holds, with liveness; takes only steps of `MmcSlot`, and of `SlotLife` where no more than noise disturbs it |
| `ident_swap` | swap between two polls | 2 kinds | **violated**: a good card is rejected |
| `req_life` | errors of every kind, and a card taken out at any point and put back | 3 requests of 0, 1 and 3 blocks, chunks of 2, 3 errors, 2 plugs, with and without a card at the start | holds, with liveness |
| `req_mark` | is a failure always caused by the execution it ends? | 1 request, 1 error, 2 plugs | **violated** |
| `req_pio` | is every data error seen in PIO mode? | 1 request, 1 error | **violated** |
| `i2c_any` | is every transfer what it says, whatever goes wrong on the bus? | 3 calls of 1 or 3 bytes, threshold 2; every one and two of six disturbances, and all together | holds, with liveness |
| `spi_any` | is every word moved once, by whichever party? | 3 calls, lengths 1 to 7, half FIFO of 2, counter of 6 | holds |
| `serial_any` | is anything lost or held up between thread and routine? | 3 characters out, 4 in, each with an error or without, FIFO of 2, 3 turns of the flow control; all sets of disturbances | holds, with liveness |

Why the bounds are enough:

* *OndaWave*: state is small and a served edge returns to a state met before; the
  edges bound lets each routine be interrupted by the other at every point, twice.
  `MaxCount` stops the endless counting that `wave_pin` is about.
* *Onda*: two clients are the fewest whose messages interleave; the numbers reach each
  branch of the arithmetic: a fit interval, one whose product overflows and starves
  `main`, one that wraps while it is parsed. The interference of other pins and nested
  routines is `wave_any`'s, and carries over by the theorem `Composing`.
* *MmcIdent*: three touches are a card put in, taken out and followed by another (or, of a
  card that is in from the start, taken out, replaced and taken out), so that what one card
  leaves behind meets the next. One misread is enough for each of its effects: a removal
  seen by a poll, a rejection, an identification that never starts.
  `PwrRetry` = 1 instead of the configured count exercises both sides of the comparison;
  `SdLimit` = 5 and `MmcLimit` = 4 stand for 1000 rounds and three seconds: one round
  that is busy, one that is not and one past the limit.
* *MmcRequest*: 3 blocks in chunks of 2 give a multiple block piece followed by a single
  block one, which take different `stop` values; a one-block and a zero-block request
  are the other cases. `StopRetry` = 1 instead of 5 exercises a retry and the give-up,
  for which three errors are needed.
* Two plugs, with a card in at the start, are a card taken out and put back: the shortest
  history in which a request is executed a second time (`Causing` in section 5 proves that
  no shorter one breaks `FailsForCause`).
* *I2cTransfer*: three calls let what a first leaves behind spoil a second and be seen by
  a third; a length of 1 is below the threshold and one of 3 above it and no multiple.
* *SpiExchange*: lengths 1 to 7 around a half FIFO of 2 are below, equal to, multiples of
  and one more than it; 6 and 7 are the limit of the word counter and one past it.
* *SerialLine*: three characters are one more than the FIFO holds, so that output waits and
  input is lost; a fourth comes in while the loop that met the overrun is still at work;
  three turns are a stop, a continuation and another stop.

### Properties worth a word

* `QuietUnlessRaced`, `WaveInPhase`, `CountsPresses` speak of settled states: no routine
  active, nothing pending. Each names the disturbances it does not survive, and no other:
  the release does not survive nesting (`wave_nest`) and bouncing, the phase nesting and
  early edges, the count bouncing, where an edge is acknowledged by the routine that serves
  the one before it (`onda.c:73`).
* `OnlyBankFaults` is about lines 100-125, where the interrupts are attached before the
  registers are mapped. In a first run nothing is detected yet; in a later one the bank may
  be entered there, but never the timer, whatever was pending when the run before ended.
* `StarvedByUnfit`: the load value, in wrapped arithmetic with C's division, of an interval
  whose product fits is never so small that the timer starves `main`, whatever clients set
  since the press. The code divides by 77 ns where the comment above it says a tick has 80;
  no property is about the length of the period. `CountTold` brackets the answer by the
  count at the question and the presses so far. `Answered` is the liveness of the loop
  against the timer.
* `OvercountNeedsOtherPin` relates the count, the history of presses and the interrupt
  status under arbitrary nesting.
* `ReadyMatchesCard` compares what the driver believes (version, capacity, bus width)
  with the card actually in the slot, after any sequence of cards.
* `Announced`, `Withdrawn` relate the slot to what the upper layers were told last.
* `Identified` names the two ways in which a card stays without a verdict: the lost CMD0
  answer (`Stalled`, under `late_store` only), and a pin that could not be read when an
  identification was to start, with the slot already taken for occupied (`Overlooked`). No
  other way exists. `RejectedForCause` is `InvalidMeansUnsupported` where nothing but the
  late store interferes: noise, a swap, a misread pin and two identifications at once do
  get a supported card rejected.
* `LifeSafe` is the refinement the request path rests on: no answer of a card that is in is
  lost, no verdict comes behind a removal, and `state` changes under a request only where
  `SlotLife` says so. `WorksForNexus` is what becomes of it there: no request that was taken
  is forgotten, and while a card is in, the one in progress has a command, an identification
  or the next poll ahead of it.
* `CompleteTransfer` is the data path's functional correctness; it is sensitive to a
  wrong block number, a skipped or repeated piece, a completion at the wrong interrupt
  and to what a removal leaves behind.
* `RefusedBehindFailure`: a card refuses a transfer only when an earlier request failed
  and left it open. (Giving up the stop command, or failing on the DMA channel with
  `noac12`, does leave it open; the next request then meets an error of its own.)
* `FailsForCause` is what the comment at `sim_mmc.c:1056` intends: a request fails only if
  its present execution met an error. It is violated (`req_mark`) once a removal comes
  between the mark and the stop command. `FailsForCauseOrMark` is what the code does
  keep: the error was the request's own, of this execution or of one that marked it.
* `Finishes`: the interrupt that completes a request does not start the next one
  (`continue` at `sim_mmc.c:1163`), so a waiting request depends on the timer.

* `DoneMeansMoved`, `OwnsBuffer`, `OwnPulse`, `Verdict` of `I2cTransfer` each relate the call
  in progress to the transfer the controller is in; they need all actors to break. What the
  code does after an end that was reported late ("raced"), or on a bus taken for kept too
  early ("kept"), is excepted, by name: these are defects (below), and nothing is promised.
* `LengthMeansMoved` and `WordsInPlace` of `SpiExchange` count the words three parties move
  through one buffer with three counters. `WordsInPlace` is about steps: with an event left
  behind nothing is promised; a call given up costs one word before the buffer, and no
  more. `NeverStalls` is that the refill of the FIFO, which hangs on the receive interrupt
  alone, never comes too late.
* `InputKept` follows each character and each overrun through a loop that reads the
  character first and the status afterwards, while more come in.
* `OneSlips` is the bound on what the race between the flag and the character costs;
  `Sent` says that the interrupt that disables itself is always enabled again in time.

### Observed and not findings

The models show these; nothing in the repository says otherwise, so they are no
findings, but a reader of the code should know them.

* A second run of `onda` may fault before it has mapped the registers: its exit leaves the
  detection on, and an edge between two runs is delivered as soon as the interrupt is
  attached (`OnlyBankFaults`).
* The pin of the slot is read over I2C, and a read that fails means no card
  (`sim_bs.c:113`): a poll then drops a card in use and takes it up again; in the
  restart of an identification a supported card is marked invalid; and where the control
  thread starts one, the card is neither identified nor looked for again (`Overlooked`).
* With `early_poll` (the timer polls before `mmc_creat_threads` has looked at the slot,
  `sim.c:299`) two identifications of one card disturb each other and
  `InvalidMeansUnsupported` fails as in `ident_swap`; with `early_poll` or `fast_return`,
  `ReadyMatchesCard`, `Announced` and the steps of `MmcSlot` fail as well. They are further
  consequences of the same unguarded `ext`.
* `beagle_detect` clears MMC_EFLAG_WP whenever it finds a card (`sim_bs.c:121`), which the
  timer makes it do at every poll: the write protection read from the CSD is lost
  within one period, and `mmc_io_cmds` (`sim_mmc.c:883`) then lets writes through.
* I2C: after a failed transfer without a stop, `re_start` stays set; the next call starts
  over the stop being made and its ARDY ends it early (`upset` = "kept"); bytes then go
  elsewhere and the routine may be entered for ever. A pulse sent as its call timed out
  shifts the verdicts of all later calls by one ("raced"); so does the end of the stop that
  the reset asks for on a busy bus, since `intexpected` is cleared by nobody. ARDY raised with bytes in the
  FIFO ends a receive before they are read. A reset that times out leaves the interrupts
  disabled until the next one. `omap_set_bus_speed` divides by zero for 0.
* SPI: 64 K words are let through (`omap3530spi.c:552`) but the counter reads zero, the
  end is never reported and the call times out. Line 588 clears the bits 0 to 3, not
  the end of word: one left by a call given up ends the next one ("left"). After a
  time-out the routine may still run with `rlen` = -1: it writes one word below the buffer
  and makes the result positive again ("late").
* Serial: with LCR = 0xbf the routine reads EFR as IIR and returns, with DLAB it reads
  the divisor for characters; either way it never gets to what interrupted it, and an
  interrupt in the midst of `ser_stty` keeps `ser_stty` from going on (`busy`).
* `onda`: an interval of 0, a negative one, or one below the time of the timer routine
  makes the timer interrupt again before its routine is left: `main` answers nobody
  until the button is released. Connections of clients that are gone are never
  detached.

### Fairness

* `OndaWave`: weak fairness of the two routines (a routine that is entered goes on; the
  kernel does not suspend it), weak fairness of the timer interrupt and strong fairness
  of the GPIO interrupt, which other interrupts may keep disabled for a while but not
  for ever. The environment has none.
* `MmcIdent`: the three threads get the processor (round robin scheduling, and the
  driver thread blocks in `MsgReceive`), commands are answered or time out — the
  controller guarantees it — and the timer keeps polling (strong: a poll is possible
  again and again, between the driver's other steps).
* `Onda`: as `OndaWave`; `main` is strongly fair where the timer leaves it any time (it is
  interrupted, but not for ever), and receives messages in turn; clients go on once
  they have begun.
* `I2cTransfer`, `SerialLine`: the thread runs (its system calls return), the
  routine runs once raised, and the controller moves on as the hardware does; in
  `I2cTransfer` unless it is stuck, which the time-out ends. Callers are free.
* `SpiExchange` has no liveness: a time-out ends every call, and `NeverStalls` says as an
  invariant that none is needed.
* `MmcRequest`: the driver and the control thread run, a command of the controller ends
  one way or the other, an identification ends (the liveness checked of `MmcIdent`, as
  strong fairness of its end: the driver thread has other pulses to take in between),
  the timer ticks (strong, for the same reason). Clients and the user are free.

## 4. Findings

Each is a violation run; `PROJECT.json` quotes the lines.

1. `wave_pin` — the mask written to the detection registers is the output-enable value
   shifted (`onda.c:165`), so other pins interrupt and are never acknowledged.
2. `wave_nest` — the timer routine's decision of line 80 can be carried out after the
   release: the output stays low.
3. `ident_swap` — a supported card is marked invalid and stays so until it is taken out.
4. `req_mark` — the mark of a data error outlives a removal and fails a later, faultless
   execution of the request.
5. `req_pio` — after the first refill in PIO mode data errors raise no interrupt.

## 5. Proofs

All theorems hold for every value of the constants that satisfies the named assumption
of the module (`WaveAssumption`, `OndaAssumption`, `IdentAssumption`,
`RequestAssumption`, `SerialAssumption`, `I2cAssumption`, `SpiAssumption`), which says no
more than that bounds are natural numbers and options are Booleans, that chunks, FIFOs
and the word counter have room for something, that half a FIFO is less than the word
counter holds, that the interval `main` starts with is a machine integer, and that the limits on powering up a card let it be asked twice (an SD
card) or once (an MMC) before it is given up; the code's are 1000 rounds and 3 seconds.

**OndaWaveProofs**

* `Typing`: `Spec => []TypeOK`.
* `Attaching`: `Spec => []OnlyBankFaults`. Its invariant, `Silenced`, says that the timer is
  off whenever `main` has left its loop or is before the mapping, and that no routine is
  left behind there but, in a later run, the bank's.
* `OnlyPressesCount`: `Spec => []OvercountNeedsOtherPin`. The count may legitimately lag
  behind or match the presses only together with where the routine is and whether the
  button's edge is still pending; the invariant spells out that relation for every `pc`.
* `CountingExactly` (`CountsPresses`), `PhaseKept` (`WaveInPhase`), `QuietAfterRelease`
  (`QuietUnlessRaced`): the properties of settled states follow from invariants that say,
  for each point of each routine, what the pending interrupts still have to set right.
  Each holds under every disturbance its property does not name.

**OndaProofs**

* `Composing`: `OndaSpec => Spec`: every step of the two programs together is a step of the
  wave generator or leaves it alone, so the theorems above hold of it.
* `Sparing`: `OndaSpec => []StarvedByUnfit`. The invariant ties the load value to the interval
  in force at the press; the arithmetic is one lemma on `LoadOf` (`PeriodOfFit`) for
  intervals that are fit, where nothing wraps and C's division is the mathematical one. So
  the timer of a fit interval overflows after its routine is over, for every width of
  integers.
* `Telling`: `OndaSpec => []CountTold`. Its invariant puts what a client was told between
  the count at its question and the count now; `Composing` and `OnlyPressesCount` bound
  the latter.
* `OndaTyping`: `OndaSpec => []OndaTypeOK`; the interval and the load value stay machine
  integers whatever number is found in a form.

**MmcIdentProofs**

* `Typing`: `Spec => []TypeOK`, under every set of disturbances.
* `SeqInv` is about where an identification is. Unless two of them disturb each other
  (`early_poll`, `fast_return`) or the pin cannot be read (`bad_read`), what carries it is in one place: a pulse for the control
  thread, a thread in `mmc_ident_start`, the failure branch, or a command on the bus
  (`Lone`). There is none once the card is ready (`Done`) or the slot forgotten
  (`Forgotten`); a removal in the control thread's queue is the last word on a card that
  is gone (`Gone`, `Order`). From it follow
  * `Announcing` (`Announced`), by `Told`, which relates what the upper layers heard last to
    the flags and the pulses still on their way;
  * `Standing` (`SlotSafe`): every step is a step of the abstract slot or leaves it alone.
* `Living` (`LifeSafe`): every step is a step of `SlotLife` or leaves it alone, where nothing
  but noise disturbs the identification (`Undisturbed`). `RunInv` relates the pieces `Run` is
  read from: a command on the bus, or the failure branch, finds `state` IDENT while the card
  is in and nobody is just about to store it (`Expected`; `Stored` is about that thread), an
  INSERTION pulse is about a card that was found (`Heralded`), and a rejected card has
  nothing on its way (`Rejected`). One lemma per handler, and under it per action of `SlotLife` it maps to.
* `Advancing` takes the theorems of `SlotLifeProofs` over by the same substitution: a card
  without a verdict always has an identification under way, which is what is left of
  `Identified` when time is not considered.
* `CalmInv` is about what an identification knows. As long as no card is swapped, the
  stage says which command is on the bus (`Sent`), how far the card has come (`Reached`),
  how wide the two ends of the bus are (`Wide`) and what the fields of the slot tell of
  the card (`Known`); `Cleared` says that nothing of an earlier card is left. Noise and the
  late store are allowed, which is why each part is about a card that is present and a
  command that is on the bus. It gives `Matching` (`ReadyMatchesCard`).
* `QuietInv` adds, for a bus without noise, that powering up a supported card stays within
  the limits (`Patient`), so that no stage fails (`Fair`): `Rejecting` (`RejectedForCause`).
  Like `CalmInv` it is about a pin that can be read (`Calm`).

**SlotLifeProofs**

What follows of the life of a slot, whoever implements it, from an invariant that is
inductive as it stands (`LifeInv`): a removal on its way is about an empty slot, a
verdict ends the identification, a command on the bus while the card is in finds the state
its answer is taken in, `state` DATA outlives the use of a card only behind a removal, and
a card without a verdict is being identified (`Underway`).

* `Sound`: `LifeSpec => []LifeInv`; `Promised`: `LifeSpec => Slot!SafeSpec`, the life of the
  slot implements `MmcSlot`. `MmcRequestProofs` uses both lemmas of the first by EXTENDS,
  `MmcIdentProofs` by INSTANCE.

**MmcRequestProofs**

The inductive invariant is `LifeInv`, together with `Inv == TypeOK /\ Linked /\ DataPhase /\ StopPhase /\
CompleteTransfer`:

* `Linked`: the request in progress is active; the slot is in state DATA only with one; a
  controller at work implies state DATA and a card in use; a stop command in flight has not
  used up its retries, which bounds the static counter;
* `DataPhase`: while a data phase runs, what has moved is exactly the span before it, its
  position agrees with the request's start, and `offset` is where it will end. Without
  it "All done" (`offset = Size`) could not be related to blocks moved;
* `StopPhase`: the same for a stop command in flight, except that a request marked by an
  error owes nothing.

One lemma per action shows that `Inv` is preserved; the theorems follow:

* `Typing`, `Completing` (`CompleteTransfer`);
* `Working` (`WorksForNexus`): beside `Inv`, that the request in progress is the only active
  one (`Single`), and that a verdict leaves none waiting: with the card in use the
  controller works for it, with the card rejected it was answered (`Attended`). With
  `Underway` of the slot nothing else is left;
* `Blaming` (`FailsForCauseOrMark`), which is inductive given `Inv`: marks are never taken
  off, and only a new execution clears the history of errors, after which the request
  has no verdict;
* `Refusing` (`RefusedBehindFailure`), given `Inv`: the requests in the queue are fresh and
  each is in it once (`Lined`), so that no verdict is taken back; and a transfer the card
  has open is either about to be stopped or was left by a failure (`Left`);
* `Refining`: `Spec => LifeSpec`, the requests do nothing to the slot but what the
  identification is proved to do, and `Serves`; with `Promised`, `Standing`: `Spec =>
  Slot!SafeSpec`;
* `Serving`: `Spec => Service!SafeSpec`, every step is a step of `RequestService` or leaves
  it alone. The invariants are `Lined` (what is in the queue is queued, once) and `Single`;
* `Causing`: `plugs < 2 => FailsForCause`. The violation `req_mark` brings a card back; with
  fewer touches no request fails whose present execution met no error. The invariant
  (`Marks`) counts: a card that is missing was touched once, and a marked request meets
  another card only after two touches;
* `Seeing`: `~pio => ErrorsSeen`. The violation `req_pio` is about that option alone:
  `DataPhase` says that with DMA all error interrupts stay enabled until the data phase ends.

**SerialLineProofs**

`Inv` adds to the types of the variables what thread and routine rely on in each other:
the line is in the queue of events only while its flag says so (`Queued`); what `tto()`
saw before it takes a character still holds, since nobody else takes one and the
transmitter only empties (`Putting`); a character that slips out is the first after the
stop (`Slipping`). `Reading` is about the receive loop: the routine reads RHR only when there
is a character, and what it knows of its error is true; characters and overruns add up;
and an overrun that was not read yet finds the FIFO full but for the character the
routine has just taken, so the loop goes round once more and reports it. All that ends
where the divisor is read for a character.

* `Typing` (`TypeOK`), `Receiving` (`InputKept`), `Stopping` (`OneSlips`), for FIFOs of any
  size, any number of characters and every set of disturbances;
* `Remembering` (`Remembered`): while characters wait and the thread sleeps, the other side
  has stopped the output, or an interrupt or an event is on its way to go on with it:
  what is left of `Sent` when time is not considered. Its invariant (`Kept`) says where `tto()`
  may leave characters behind, that an event is in the queue with its flag, and that
  the end of a stop is still to be seen.

**I2cTransferProofs**

`Inv` has four parts on types (`Places`, `Channel`, `Sets`, `Bits`) and:

* `Asked`: what an attention bit says of the FIFO is still so when `i2c_intr` reads it,
  since only the routine itself moves the FIFO past a threshold the bit stands for;
* `Own`: unless an end was reported after its time-out, at most one pulse is on its way, for the call
  that waits, and with its verdict in `status`;
* `InStep`, as long as nothing has put calls and transfers out of step (`upset`): the transfer
  the controller is in is that of the call that waits (`Phases`); what the status register
  can hold (`Reported`); every byte of the call is moved, in the FIFO or still to come
  (`Balance`); a verdict without an error means that none is still to come (`Told`).

`Balance` is what makes `DoneMeansMoved` inductive: `xlen = 0` at the end says nothing
unless the bytes are accounted for from the start. Theorems: `Typing` (`TypeOK`), `Moved`
(`DoneMeansMoved`), `Owning` (`OwnsBuffer`), `Waking` (`OwnPulse`), `Judging` (`Verdict`), for
transfers of any length, any FIFO and every set of disturbances, each with the exceptions
its property names.

**SpiExchangeProofs**

Type correctness is proved first and alone, because it has to hold also when an event of
one exchange has spoilt the next; with it comes that no FIFO is written beyond its end
(`Room`). `Inv` has two layers:

* `InStep`, as long as nothing was left behind: how the words of an exchange are spread over
  the buffer, the two FIFOs and what was not yet written (`Exchange`); what its end may
  be reported from (`Ended`); that the last words the thread reads are the ones in the
  FIFO (`Drained`); what the routine may still find once a call was given up (`Leftover`);
  the same for DMA (`Copied`);
* `Prompt`, with a bus that is not slow: an interrupt or a pulse is always on its way
  (`Awaited`, `Framed`), at most one end is reported and it is taken before the exchange
  is over (`Lone`), so that nothing is left behind and no time-out ends an exchange
  (`Outcome`).

Theorems: `Typing` (`TypeOK`), `Moved` (`LengthMeansMoved`, up to a "left" or "late" event),
`Placed` (`WordsInPlace`: up to a "left" event, and but for one word before the buffer of a
call given up), `Refilled` (`NeverStalls`), for exchanges and FIFOs of any size.

Only model-checked: all liveness (`EdgeServed`, `Answered`, `Identified`, `Withdrawn`,
`Finishes`, `Returns`, `Sent`), which the prover does not reach. Every safety property of
the passing runs is proved, and of `Answered`, `Identified`, `Finishes` and `Sent` the part
that is safety: that nothing but an unfit interval starves `main` (`Sparing`), and that there
is always a next step on the way (`Advancing`, `Working`, `Remembering`). `Remembered`,
`Service!SafeSpec`, `LifeSpec` of `MmcRequest` and the conditions of `Causing` and `Seeing` are
theorems only, listed as no property of a run.

Excepted, and nothing promised of it by any property: an edge acknowledged unseen
(`bounce`), an I2C call after an end that came late, a receive whose end the controller
reports with bytes in its FIFO (`early_ready`; whether it does is not in the code), an SPI
exchange after an event left behind, an exchange of 64 K words, and a serial line in use
while its parameters change. The code has these defects or, in the case of `early_ready`,
relies on the controller; they are in the list of hazards with a note.

## 6. Plan

Done: the wave generator with its server and client; identification and requests, composed
through the life of the slot; the I2C, SPI and serial drivers. Next:

1. `SlotLife` under `late_store`, `fast_swap` and `bad_read`: `LifeSafe` is about noise alone.
2. Abort of a request in progress, partitions and trim in `MmcRequest`, as far as the
   library's contract can be read from its use.

### Not modelled

* The frameworks the drivers plug into (`io-char`, `io-blk`, `cam`, the I2C and SPI resource
  managers, io-audio, the graphics framework) are libraries outside the repository; they
  appear as the free or fair callers of the modules above.
* `deva`, `devg`, `startup`, `pmic`, the chipsets of other boards, the headers of `prebuilt`
  and of `startup/lib/public`: register programming, tables and definitions. They are
  most of the repository's lines and hold no state that concurrent steps could spoil.
* `support/omap3530-sdio`: no program of the image links it.
* Paths that are reached once, by one thread: a review settles them better than a model.
  Worth one: the clean-up of a failed attach that uses what it freed (`sim_omap3.c:834`),
  the unit number compared with `>` (`sim.c:509`), a bus speed of 0 or below 23 kHz
  (`bus_speed.c:40`), an SPI configuration stored before it is validated
  (`omap3530spi.c:470`).
* What the board rules out: updates of `eflags` that are not atomic (`mmcsd.c:1126`) need a
  second core or a preempted driver thread; pulses consumed while waiting for a busy
  card (`sim_mmc.c:93`) need a controller without busy detection. That the loop waiting
  for a DMA channel (`sim_omap3.c:454`) ends is assumed of the hardware.
* The rest of each driver's start-up and option parsing: sequential, before its first
  interrupt.
