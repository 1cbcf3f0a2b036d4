# Verification of the ulmk board support packages

`ulmk_boards` holds three board support packages for the `ulmk` microkernel:
`tc275_lite` (TriCore, three cores), `witte_linum` (STM32H7, one core) and
`esp32p4_ev_function` (RISC-V, two cores). The kernel itself is not in this
repository. This directory holds TLA+ models of the drivers and of the start-up
code, the TLC runs that check them and TLAPS proofs of their main invariants.

The contract all drivers share (README.md of the repository): each controller
belongs to one **server thread** with an endpoint; nobody else touches its
registers; interrupts reach the server as **notification bits**; `client.c`
only marshals arguments into `ulmk_ep_call`; `*_dm` adapters export a driver to
the device manager; a root thread calls the `*_init()` functions.

What is used of the kernel, and how the models treat it:

| kernel service | as modelled |
|---|---|
| `ulmk_ep_call` / `ep_recv` / `ep_reply` | synchronous rendezvous; the caller is blocked until the reply; a server takes one call at a time, in any order |
| notification | a set of bits; `signal` adds, `wait(mask)` blocks until a bit of the mask is set, removes the bits of the mask and leaves the others; signals are latched |
| interrupt dispatch | signals the bound bit and masks the interrupt until `ulmk_irq_ack` |
| `ulmk_irq_ack` | unmasks. On the TC275, where an interrupt is a latched service request, it is not visible from here whether it also drops a request that is pending. The ADC server says it does (`adc/src/server.c:62`, "Drop stale result / SRC before arming"); the ASCLIN transmit path needs that to be so, the blocking CAN `RECV` needs the opposite. `TcCan`, `TcI2c`, `TcAdc` and `LinumDisplay` choose in Init (`drops`), `TcConsole` and `TcGpio` have the constant `AckDrops`; each property says which kind of kernel it is for |
| object creation, capabilities | any call of the start-up code may fail; a thread that needs a capability granted after its creation may run before the grant |

## Inventory

State, operations, interactions, hard behaviour, correctness. `PROJECT.json`
lists every component with its status, and the hazards line by line.

**Linum DMA pool** (`witte_linum/drivers/dma`, `board_cache.c`). State: per slot
`open`, `buf`, `result`, two notifications, stream registers. OPEN, CLOSE, LOAD,
ARM, WAIT by one dispatcher; one worker per slot programs the stream and polls TC.
Used by the I2C and ADC servers. Hard: dispatcher blocked in one slot while others
queue; ARMED and DONE in one notification; time-out against a late completion;
cache coherence of `buf`. Correct: each WAIT gives the verdict on the transfer
armed last, payloads arrive intact, every call is answered.

**TC275 CAN** (`tc275_lite/drivers/can`, `components/smp_can_demo`). State: two
message objects, interrupt, the demo's `g_posted`/`g_taken`. SEND (start and spin
on the self-received frame), RECV (block until NEWDAT). Hard: a RECV that blocks
the only server keeps the SEND it waits for out; frame and interrupt racing with
the test of NEWDAT; time-out leaves a frame under way; two cores. Correct: no
deadlock, no lost wake-up, frames in order, once and whole.

**TC275 console and ASCLIN** (`board_console.c`, `drivers/asclin`). State: RAM
log, transmit FIFO, interrupt enable. Clients on three cores send WRITE messages,
the console server forwards byte by byte, the ASCLIN server waits for space.
Correct: no byte lost or reordered, no wait without end.

**Linum display** (`drivers/display`): double buffer in SDRAM, CFBAR shadow
register, reload at vertical blank, line-0 interrupt. **ESP display**
(`drivers/display`, `drivers/dsi`): double buffer in PSRAM, DW_GDMA block transfer
rearmed from the interrupt. Correct: buffers change owner between frames, the
client paints the one not on the panel, every present is answered.

**TC275 GPIO** (`tc275_lite/drivers/gpio`): subscriptions shared by an IPC server and
an interrupt server, shared ERU channels, a limit of four. Correct: an edge detected
is signalled to its subscribers and to no others.

**Servers that wait for an interrupt**: TC275 ADC and I2C; Linum I2C (a user of the
DMA pool), UART, CAN, QSPI and touch; ESP DMA, GDMA-AXI (and SPI and ADC, their
users), I2C, CAN and UART. State: registers of the controller, latched events, the
interrupt's mask, the notification, the request being served. Hard: the same event
is latched in up to three places and each is cleared at another moment; test, then
acknowledge, then wait; a time-out that leaves the controller at work; a wait
without bound behind which everybody queues. Correct: an answer OK is true of its
own request, a request leaves nothing behind for the next, every call is answered.

**Start-up** (`board_init.c`, `board_services.c`, `board_devices.c`,
`board_psram.c` and others, every `*_init`, the roots of the demonstrations).
State: global handles, endpoints, threads, flags such as `bsvc_ready`, and what
has been established of the hardware. Hard: partial failure, being called twice,
servers that run before their capabilities arrive, polls that give up. Correct:
handles lead to servers, no two servers on the same registers, what is registered
can be opened, clocks and memories come up in order.

**Register-only servers**: PWM, pinmux, GPIO (Linum, ESP), touch (ESP).
**Board layers**: consoles (RTT, UART), timers (32-bit milliseconds), ESP interrupt
matrix, second core and IPI, cache ranges. **Device-manager adapters**: open and
claim state. **Device trees, scripts, OpenOCD**: host side or third party.

## Plan

1. `LinumDma` implementing `DmaChannel`, with proofs — *done*.
2. `TcCan` with the SMP demo, with proofs — *done*.
3. `TcConsole` with the ASCLIN transmit path, with proofs — *done*.
4. `LinumDisplay`, `EspDisplay` implementing `DoubleBuffer`, with proofs — *done*.
5. `TcGpio` (two threads, subscriptions, ERU channels), with proofs — *done*.
6. `ServerKit` and the servers that wait for an interrupt, side by side in
   `Servers`, with proofs of all of them — *done*.
7. Start-up of the three boards (`StartKit`, `BoardStart`, the plans), with a proof
   outline (`StartOutline`) and proofs for any plans it is sound for — *done*.
8. `LinumI2c` and an ADC composed with `LinumDma` in place of its users. (`LinumI2c`
   already takes stale completions from the pool, as a step that may come whenever an
   earlier request was given up; the composition would derive when it does.)
9. ASCLIN receive calls (they need the meaning of the level flag, which the
   register documentation has and this repository does not), GDMA OPEN, a refused
   SPI arming, display ON.
10. Pure arithmetic: timers, cache ranges, formatter, against reference definitions.
11. Proofs of `PayloadIntact` and `ReadFresh` of the pool, and of `Delivered` and
    `LogIsStream` of the console — *done*.

Runs keep to two users or two slots and to the smallest buffers at which wrap,
overflow and overtaking happen.

## Modules

| module | what it is |
|---|---|
| `DmaChannel` | what `dma.h` promises of a channel: open, arm, finish, join, close |
| `LinumDma` | users, dispatcher, workers, streams, D-cache; implements `DmaChannel` |
| `LinumDmaProofs` | theorems about it, for any slots, chunks, time-out and bound |
| `MCLinumDma` | two slots for TLC |
| `TcCan`, `TcCanProofs` | CAN server, two users, bus and interrupt; theorems |
| `TcConsole`, `TcConsoleProofs`, `MCTcConsole` | console, ASCLIN, FIFO, interrupt; theorems; two clients for TLC |
| `TcGpio`, `TcGpioProofs`, `MCTcGpio` | edge subscriptions: two threads, ERU channels; theorems; two or three pins for TLC |
| `DoubleBuffer` | two buffers and one panel: hand-over, end of frame, confirmation |
| `LinumDisplay`, `EspDisplay`, `MCDisplays`, `MCDisplaysProofs` | the two display servers with their controllers; both in one behaviour; theorems |
| `ServerKit` | users, one server, an interrupt line: what the following have in common |
| `EspGdma` | AHB and AXI DMA servers with their users: SPI, ADC, memcpy |
| `EspI2c`, `EspTwai` | I2C and CAN servers of the ESP32-P4 |
| `LinumI2c`, `LinumCan`, `LinumQspi`, `LinumTouch` | servers of the Linum board |
| `TcI2c`, `TcAdc` | servers of the TC275 |
| `UartServer` | the UART servers of the Linum board (one register) and of the ESP32-P4 (a FIFO) |
| `Servers`, `MCServers` | the twelve of them, each as a behaviour of its own; two threads for TLC |
| `TwinProofs` | theorems about the two modules that stand for two servers each, `EspGdma` and `UartServer` |
| `ServersProofs` | theorems about the other eight and about `Servers` |
| `StartKit` | the vocabulary of start-up plans |
| `TcStart`, `LinumStart`, `EspStart` | the plans: one per initialisation function |
| `BoardStart` | the root thread that works through them, failures included |
| `StartOutline`, `BoardStartProofs` | what holds at each place of the plans, and when such an outline is sound; theorems |
| `MCBoardStart` | the programs of the three boards, and their outline computed from the plans |

Definitions under the comment "Faulty variant" are wrong on purpose. No
specification uses them; they are the plausible bugs each property is shown to
detect.

### LinumDma

`g_slots[s]` is the group `open, job, done, result` (job and done are the two
notification objects, `ARMED`/`DONE` the bits of the second). `wpc` is where
`dma_worker` is inside `slot_arm_hw` and `slot_wait_tc`; `disp` is the wait inside
`do_arm` or `do_wait`; `upc` is the user. A request that the dispatcher answers at
once is one action (DoOpen, DoClose, DoLoad, Reject); ARM and WAIT are two each,
because the dispatcher blocks in between. `Receiving` says that it is blocked for
nobody — that is what makes other callers wait.

Register writes are separate actions where the stream can move in between:
ClearFlags (LIFCR) and Program (CR = 0 ... EN) are; the writes of Program are not,
because the stream is stopped during them. Payloads are named by the number of the
transfer; `cpu` and `ram` are the two views of `buf`, and WriteBack and Refetch let
the cache act at any moment. The stream may complete at any moment or never.

Users keep the order of `client.c`: LOAD chunks, ARM, WAIT. A WAIT without an ARM
would block the pool for ever; no code in the repository makes that call.

### TcCan

`spc` is where the server is: spinning in `tx_frame`, or in RECV before the unmask,
blocked, looking, reading DATAL, DATAH, clearing NEWDAT, acknowledging. A frame is
the number of the attempt that sent it, and a receive object is a pair of halves,
so a frame stored between the two reads shows as a torn one. The bus takes any
time; SendGiveUp is the bounded spin. `demo` selects the two
threads of `smp_can_demo` (TRUE) or unsynchronised users (FALSE), `drops` the kind
of kernel; both are chosen in Init and never change.

### TcConsole

A line is sent in messages of at most `ChunkMax` bytes. EmitByte is the RAM log
followed by the `TX_BYTE` call; `apc` walks through `wait_space`: test the level,
acknowledge, enable, wait, disable, acknowledge, write — the level is *not* read
again. Drain is the shift register. `Prompt` says that the two instructions
between the test of a full FIFO and its enabled interrupt take less time than
sending all 16 bytes (1.4 ms at 115200 baud; the server has priority 1, which only
the root thread exceeds). Without it the last byte could leave in between and
no interrupt would ever come: ToldOfSpace states exactly that dependence.

### TcGpio

`subs` is `g_subs`, `enc` is `g_eru_enc` with its mask, `ipc` is where `eru_arm` and
`do_subscribe` are: switch the input, then the edges, clear the event flag, publish
the pin, look for a free record. `at` is the channel the interrupt server scans.
Neither thread sets `attr.cpu`, so both run on core 0, and the interrupt server has
the higher priority (1 against 2): the IPC server moves only while the other
waits, and is interrupted between any two of its steps. Edge is the ERU; it
requests the interrupt whatever the state of the flag. `owed` and `lost` are
history: the debts of the driver to each subscription.

### LinumDisplay and EspDisplay

Linum: `cfbar` is the shadow register, `vbr` the requested reload, `phase` the part
of the frame. The reload happens after the last active line; the line interrupt is
programmed for line 0, one front porch (12 of about 635 lines) later. ESP: `fb` is
`g_fb`, which the interrupt writes into the channel after every block; the server
and the interrupt are on the same core (`attr.cpu = 0`, and the interrupt is routed
to the core that enabled it), so the rearm is one action for the server, while the
block transfer runs in parallel. Both clients take the buffer their `client.c`
computes, also after a failed present.

`DoubleBuffer` is the common promise. Its `strict` distinguishes them: the ESP
driver confirms only after the take-over, the Linum driver may confirm before.
`MCDisplays` puts both into one specification: `board` is chosen in Init, variables
of the same meaning are shared, those of the other board keep still.

### ServerKit and the twelve servers

`usr[u]` is a caller: the message it has sent, the number of its request, the
answer (`rc`) and the request whose data the answer carries (`val`). `srv` is the
server: where it is (`at`), whom it serves, whether its wait timed out (`late`),
the events it has read, steps left. `hw` is the controller with its interrupt
`line`: latched events (`raw`), enabled ones (`ena`), masked by the kernel, the
notification `bit`. Requests are numbered, and a transfer, a frame or a buffer is
named by the number of the request that caused it: what is left over by an earlier
request is therefore told from what belongs to this one. `hist` is history and
guards nothing.

One action is one step between two points where the hardware or the interrupt can
come in between: reading a status register, clearing flags, `ulmk_irq_ack`, the
wait, starting a transfer. `hist` names the exceptional cases, so that the
properties say exactly when a promise may fail:

| module | what a promise depends on |
|---|---|
| `EspGdma` | nothing for OK; a channel still moves after the answer, or a wait is woken without an event, only where a wait timed out before (the channel is not stopped) |
| `EspI2c` | a transfer refused or given up and unfinished when the next begins: its STOP may pass for the end of the next |
| `EspTwai` | a wait given up: its late frame may answer a later SEND |
| `LinumI2c` | a request given up leaves its stream armed, and a later `dma_wait` may report that completion as its own (finding `linum_dma_stale_tc`). The transfer answered OK is still the one acknowledged, because flags are cleared before the start and tested again after every wake-up; but the bytes of a read may not be there yet |
| `LinumCan` | a RECV that found its frame before it waited leaves the notification; the next RECV may then fail with a time-out |
| `LinumQspi` | the acknowledgement behind a wait raises the interrupt once more (TCF is still set); a later command may then fail, as it may because its own transfer ended in TEF. An answer OK never carries another's data; but of a request of 13 to 16 bytes the last are not data at all: `words[5]`, which carries bytes 12 to 15, is overwritten with the control register (`qspi/server.c:255, 263`) and `client.c` unpacks it |
| `LinumTouch` | nothing |
| `UartServer` | nothing for OK, although both directions share one bit; an overrun, which no driver clears, wakes a receive call that then finds no byte |
| `TcI2c` | a wait that found its event by polling leaves the notification; the next is woken early, and a probe then finds a device that is not there. A write that loses the bus in its data is answered OK |
| `TcAdc` | nothing |

`EspGdma` has the DMA server and its users in one module: an SPI transfer arms
two channels, starts, and waits for both; the ADC arms one; memcpy is one call.
`LinumI2c` knows of its DMA stream that it is armed, done, or given up and left
armed, and that a completion left over may end a later wait early (DmaStale). In
`LinumQspi` the length of a request is short or long, a command is 0x9F (four commands
without data come first) or another, and a read may name an address beyond the flash. `i2c_writeread` is a write and then, if that went well, a
read, under one request. `UartServer` is one module for two boards, with the depth
of the transmitter, the receive calls and the second acknowledgement as constants.

### Start-up

Start-up code is sequential; what makes it hard is that every step may fail and
that functions call each other and may be called again. So it is data: a **plan**
(`StartKit`) is one initialisation function, the driver whose handle it fills, and
its calls in source order, each with what the code releases when it fails. The
plans of a board are a module (`TcStart`, `LinumStart`, `EspStart`); a vocabulary
entry says what a line does: `Leave` is an early return on a flag or a valid
handle, `TryOr("notif", {"ep"})` a call whose failure destroys the endpoint,
`Thread` a server with what it maps and which endpoint it serves, `Must`/`Also`
calls of other functions with and without regard to their result, `Ask` a call of a
running server, `AwaitOrGoOn` a poll whose time-out is ignored.

`BoardStart` interprets them. `stack` is root's call stack, `pub` the global
handles, `made` and `gone` the endpoints, `thr` the threads, `facts` the flags of
the code and what holds of the hardware. Of GoWrong any step may happen until
`MaxFaults`: a kernel call fails, a server runs before its grant and stops or spins
for ever, a bounded poll gives up. `blamed`, `missed` and `misused` record who met
a fault, what a poll stopped waiting for, and what was relied upon without holding.

## Runs

| run | shows | bounds | distinct states |
|---|---|---|---|
| `linum_dma` | no lost wake-up (NoLostWakeup), payload and read data coherent (PayloadIntact, ReadFresh), a completion mistaken by at most one transfer and only after a time-out (AtMostOneLate, MixupNeedsTimeout), refinement of DmaChannel | one slot per direction, two chunks, one poll, three transfers | 801 220 |
| `linum_dma_live` | every call answered (Served), peripherals that never request included | as above, two transfers | 132 996 |
| `linum_dma_stale_tc` | **violated**: WaitJoinsItsTC | as `linum_dma` | |
| `tc_can` | both kinds of users on both kinds of kernel. With the demo's counters RECV never blocks (NeverBlocks), frames are whole while nothing timed out (Faithful), calls are answered (Answered). Without them frames come in order and none twice (InOrder), and a blocked server is woken if nothing is dropped (WillWake); such users really may stop for ever (a SEND behind a blocked RECV), so deadlock is not checked | four attempts | 136 816 |
| `tc_console` | Delivered, LogIsStream, ToldOfSpace, Printed | two clients, two lines each of one byte or of two messages, FIFO of 2, log of 4 | 44 199 |
| `tc_console_lines` | **violated**: LinesAtomic | one line each | |
| `displays` | WaitsVsync, TearBounded, Answered, refinement of DoubleBuffer, for both boards and both kinds of acknowledgement | finite, no bound | 4 914 |
| `linum_display_tear` | **violated**: TearFree | finite | |
| `tc_gpio` | FlagKept, WillScan, NoStray, LostByArming, Signalled; `AckDrops` FALSE | two pins on one channel, one on another, one edge set, two records | 168 226 |
| `tc_gpio_armed` | **violated**: StaysArmed | two pins on one channel, two edge sets, two records | |
| `start_up` | Outlined, Unwound, OneServer, RegisteredOpens, BootOrder, Finishes | the demonstrations that use a driver and every `*_init` called twice; two faults anywhere | 176 278 |
| `servers` | OkIsTrue, Traced, Answered, each for twelve servers | two users (one for SPI and the TC275 I2C), two or three requests, two bytes, touches or foreign frames | 545 391 |

Why the bounds suffice: three transfers are the fewest at which a completion left
over by one, mistaken by the next, could reach a third; two slots are enough for
one to block the other; a FIFO of two can be full, half full and empty, and a line
of three bytes overruns a message of two and the FIFO, two lines the log; two
channels are the fewest at which an edge can come in behind the scan, and two
records and three requests fill `g_subs`; four attempts let a late frame meet two
later ones. The display models have no parameter to bound: two buffers and the
phases of a frame are all there is. In `servers` two requests show what one leaves
to the next; servers whose leftovers act at one remove (a notification left by the
first that ends the second's wait while the third is affected) have three. In
`start_up` one fault shows every error path and the second what happens when the
retry fails as well; plans have no loops, so nothing else is bounded, and for the
invariants the theorems do without the bound on faults.

The properties of `servers` are `CASE`s over the server of the behaviour; each
case is the property of that name in the module of the server, where its comment
says what it depends on. In `start_up`:

* **Outlined**: the proof outline of the plans is sound and what it claims of the
  place where root is holds (see Proofs); with it the types.
* **Unwound**: between two calls of root a driver whose code undoes its failures
  has no endpoint that nobody reaches, and a valid handle leads to a server. For all
  drivers a valid handle leads to a server if nothing failed in their own start-up.
  `MCUnwinding` is the list of those whose code undoes everything; the others leave
  an endpoint behind when the second half of their start-up fails.
* **OneServer**: no driver has two servers on the same registers, however often its
  start-up is called. `MCRepeatable` lists those without such a guard. It counts
  threads that serve an endpoint: the workers that a `dma_init` called again after a
  partial failure creates beside those of the failed call are not seen by it.
  Nor does Unwound or RegisteredOpens speak of a driver whose start-up met a fault,
  unless its code undoes what it did.
* **RegisteredOpens**: a node of the device table leads to an adapter that accepts
  open and to a driver that runs.
* **BootOrder**: clock, PLL, wait states, SDRAM and PSRAM commands rely only on what
  holds, or on what a poll gave up waiting for; every ENDINIT window is closed again.
* **Finishes**: root never waits for a server that it has not started. A server that
  ran before its grant and spins counts as a fault, so waiting for it does not.

### The four disagreements

* `linum_dma_stale_tc`: `slot_wait_tc` gives up without disabling the stream, and
  `slot_arm_hw` clears the flags *before* it stops the stream. A late completion in
  between is taken for that of the new transfer. The two properties that hold,
  AtMostOneLate and MixupNeedsTimeout, bound the damage.
* `tc_console_lines`: a line longer than one message is not atomic on the wire
  although the header says so.
* `tc_gpio_armed`: an ERU channel listens to the pin subscribed last. Subscribing
  another pin of the channel, or other edges of the same pin, silently ends the
  subscription made before, even when the answer is ENOMEM. LostByArming shows
  that nothing else loses an edge once it is detected.
* `linum_display_tear`: a present that begins in the front porch is confirmed by
  line 0 while its reload is a frame away; the buffer the client then paints is the
  one scanned out. TearBounded shows that it is one frame and no more.

## Fairness

* Servers, workers, the GPIO interrupt server, the console and the interrupt
  dispatch: weak fairness. They are threads of a preemptive kernel with priorities
  at which nothing runs for ever, and each has a blocking call in its loop.
* The dispatcher and the console server per caller: strong fairness. The
  endpoint queue is served in order, so a caller that is eligible again and again is
  taken, although others make it ineligible in between.
* The shift register, the LTDC and the DW_GDMA: weak fairness. They are clocked.
* `servers`: weak fairness of `Proceed`, which is the server, its interrupt, its
  bounded waits and what the controller does by itself once started (a UART sends,
  an I2C bus ends its transfer). `Proceed` does not contain new requests, bytes or
  frames from outside, touches, or a slave's refusal.
* `start_up`: root is scheduled.
* DMA streams, the CAN bus, senders on a UART and fingers on a panel: **none**. A
  peripheral may never request, a bus may have no listener; the code's own bounds
  must suffice. Where the code has no bound, `Stalled` of the module names the wait:
  a blocking receive of a UART, RECV of the Linum CAN server, WAIT of the touch
  server without a time-out, the Linum I2C server's wait for the STOP
  (`i2c/server.c:92`) when a slave holds the bus or a stale DMA completion has let it
  go on before the bytes were moved, the QSPI server's wait (`qspi/server.c:84`) for a
  transfer that ends in TEF without TCF, as only TCIE is enabled, a TC275 ADC channel that was never prepared in a group
  that was, and a TC275 I2C event dropped by the acknowledgement. Answered says that
  nothing else keeps a caller waiting, in particular no wake-up that got lost.
* Users are made to go on only where the code does: from ARM to WAIT, and the two
  demo threads, which loop for ever.

## Proofs

Checked by `tlapm`, for every value of the constants that satisfies the named
assumption: `DmaConstants`, `CanConstants`, `ConsoleConstants`, `GpioConstants`,
`ServersAssumption` and `MaxFaultsAssumption` of the modules; `UartConstants` and
`GdmaConstants`, stated as a hypothesis of the theorems, which `ServersProofs`
discharges for both instances; and `OutlineSound`, the hypothesis of the start-up's
theorems, which TLC evaluates (see BoardStart below). But for the last they say what
kind of thing each constant is: the set of threads is not empty, bounds are numbers,
`Nobody` is not a client. Each proof follows the same argument: `IInv` holds
initially, every action preserves it, it implies the property. TLC also found `IInv`
to hold on the instances above. (BoardStart's proof has the same shape with
`Outlined` for `IInv`.)

* **LinumDma**: `IInv` adds to the types, per slot, `Budget` (numbers within the
  bound), `Handshake` (where the job is, for a blocked dispatcher and for a user
  that was told its stream is live), `Numbering` (the stream and the flag belong to
  this transfer or to the one before) and `CleanSlate` (after a WAIT that joined its
  own transfer no stream is left enabled). NoLostWakeup alone is not inductive: it
  does not say that bit, job and worker exclude one another, which is what
  `Handshake` adds; the numbering properties need to know that a stream left over is
  at most one transfer old. `Memory` is about the data: for a slot that reads memory
  `Loaded` (the cached copy fills up chunk by chunk, and from the moment the worker
  took the job memory agrees with it and the cache is clean, so that WriteBack and
  Refetch, which may come at any moment, change nothing), for one that writes it
  `Fetched` (memory holds the transfer whose TC flag is up, and from the invalidation
  on the CPU sees it). Theorems: TypeCorrect, WakeupsKept, PayloadKept, ReadsAreFresh,
  JoinedOnce, LateByOne, MixupTraced, PoolIsChannel.
* **TcCan**: `Queue` (frames move from the transmit object over the bus to the
  receiver without overtaking), `Awaited` (a frame stored since NEWDAT was found
  clear has left a request or a bit), `Counters` and `OneFrame` (where the only frame
  of the demo is). Theorems: CanTyped, RecvWakes, NoDeadlock, InLockstep,
  DecodedIsPosted, DecodedInOrder.
* **TcConsole**: `Signals` (an interrupt and a bit exist only for the wait they
  belong to, and only when a byte has left since) and, for a kernel whose
  acknowledgement drops a pending request, `Handed` (the server holds a byte exactly
  while it works on one, a message is within its line, a client without a byte in the
  stream is in its first line). Delivered and LogIsStream are then inductive: a step
  leaves the stream as it is or appends the byte named by the request being served,
  which follows the last one of its client. RoomWhenWoken is why no byte is dropped,
  and it is the reason for the condition on the acknowledgement. The sequences need
  no induction: that a byte moves from the FIFO to the wire without changing the
  stream, and what appending does to a prefix, follow from the library's facts about
  `\o`, `Append` and `SubSeq`. Theorems: ConsoleTyped, WokenFindsRoom, SpaceIsTold,
  BytesDelivered, LogFaithful.
* **MCDisplays**: for the Linum board `LatchedSince` (a line interrupt
  seen since the flag was cleared is one of line 0), `OneWait` (where acknowledging
  drops what is pending, an interrupt is requested, delivered and notified within one
  wait) and `Shadowed` (the shadow register holds the buffer presented last, and the
  controller scans it or is asked to reload); for the ESP32-P4 `Follows` (`g_front` and
  `g_fb` follow the buffer presented, and a rearm seen in the wait has taken it over).
  Theorems: DisplaysTyped, PresentWaitsVsync, TearingBounded and, for the refinement
  of `DoubleBuffer` step by step, DisplaysAreDoubleBuffers.
* **TcGpio**: FlagKept holds by itself; `FlagScanned` extends WillScan to flags
  nobody is owed, because a flag acquires its debt only when the record is
  written; `Genuine` (a flag raised since the channel was switched is owed to every
  record that asked for what the channel detects) is what makes NoStray inductive;
  `SamePin` (input, `g_eru_enc` and debts agree outside of arming) leads to
  LostByArming. Theorems: GpioTyped, EdgesKept, FlagsScanned, NobodyStray,
  LossTraced.
* **UartServer**: `Shown` (the two events show the registers), `Sleeping` (an
  interrupt is enabled only for the wait it belongs to), `Notified` (a notification
  exists in a wait only, the interrupt is masked from then until the
  acknowledgement, and what was waited for is still there, or an overrun), `Sending` (a transmit
  call has bytes left). `Notified` is what makes it safe not to look again after a
  wake-up for space; a receive call does look. Theorems, for both boards: UartTyped, NoOverrun, NothingOutlives.
* **EspGdma**: a channel is `Armed` for the request of its user from the moment it is
  enabled until the answer. `Transfers` (an armed channel moves for that request, or
  has latched how it ended, and moved for no other), `OnTime` (a channel that is not
  armed rests, unless a wait on it timed out: `hist`), `Serving` (what the server
  knows of the channel at each place; in particular, a server woken without an event
  is on a channel of `hist`) and, for a user, `Holding` (an answer OK is held only
  while the channel it speaks of rests with the bytes of that request). `Transfers`
  holds for channels of `hist` too, because arming resets the channel before it
  enables it: that is why a late completion is never taken for that of the next
  request. Theorem: GdmaSafe.
* **Servers**: each of the other eight servers has a section in `ServersProofs` with
  its invariant in three parts, `<S>Typed` (types; who waits has a number, and a
  server at work serves one who waits), `<S>Work` (what holds of the controller at
  each place of the server) and, where it is more than `<S>Work` says, `<S>Answers`.
  What makes each one inductive:
  * ESP I2C: nothing is on the wire until a transfer starts that found the one before
    it finished, and from then the events latched tell how *this* transfer ends;
  * ESP CAN: as long as no wait was given up, the only frame in the controller is
    that of the request being served, at the place where it is expected;
  * Linum I2C: the bus carries nothing but the request being served and the flags
    are clear when it starts, so that NACKF tells a transfer refused and STOPF
    without it one acknowledged; the stream is armed for this request or for one
    on record as given up or behind a stale completion, and a read is only then
    answered without its bytes;
  * Linum CAN: the frame in the FIFO is younger than the one delivered last until it
    is taken, its flag is latched while a RECV waits, and the interrupt is not
    masked without a notification then; as long as no RECV found its frame before it
    waited, flag and notification are those of the frame in the FIFO. For the types,
    every frame is one of the other node or of a SEND answered OK, which needs a set
    of request numbers and its cardinality (`Tally`), because users overwrite their
    answers;
  * Linum QSPI: from its start a command is under way and nothing has come of it, or
    it has completed and the data are its own, or TEF is latched and the transfer is
    on record as failed (`LinumQspiWork`); long requests are on record from the moment
    they are received, under numbers no other request has (`LinumQspiNumbered`), which
    is what OkIsTrue needs to tell an answer that carries data from one that does not;
  * Linum touch: the WAITs woken, the notification, the edge that will still be
    notified and the WAIT about to be answered are together no more than the touches;
    a server that sleeps behind a masked interrupt has its notification. The WAITs
    are counted with the same `Tally`;
  * TC275 I2C: for a request that was not woken early, the events are those of the
    packet that it waits for; until a wait finds its event by polling, every
    notification has its event, and the wait takes it;
  * TC275 ADC: the result register, its valid flag and the service request belong to
    the conversion started for this request.

  The theorems `<S>Keeps` (EspI2cKeeps, EspTwaiKeeps, LinumI2cKeeps, LinumCanKeeps,
  LinumQspiKeeps, LinumTouchKeeps, TcI2cKeeps, TcAdcKeeps) state types, OkIsTrue and
  Traced of one server. `ServersIInv` is the invariant of the server of the
  behaviour, one implication per `unit`; from it follow ServersTyped, AnswersAreTrue
  and NothingLeftBehind, the three invariants of the run `servers`.

* **BoardStart**: its invariants are about plans, and for arbitrary plans they are
  false. What is proved is therefore a proof rule. `StartOutline` says what an outline
  of the plans is: for every place root can be at, which is a step of a plan together
  with the chain of calls that led there, a *claim* on flags, handles, servers,
  endpoints and device nodes. An outline is `Sound` if each step, by what it does to
  a claim (`Wrote`, `NewEpMade`, `HandleSet`, `ThreadMade`, `Released`, ...),
  establishes the claims at all places it leads to, error paths included, and if the
  claims at rest imply the properties (`Suffices`). This looks at one step at a time
  and knows nothing of faults or behaviours. The inductive invariant `Outlined` is
  that the claim of the place where root is holds (`Placed`, which also says that the
  stack is the chain of calls of that place and that every caller waits behind its
  call), together with what holds everywhere: `Granted` (a server without its
  capabilities is followed by the step that grants them), `Locked` (while a driver has
  a server, the handle or flag that guards its start-up is set, or the next step sets
  it), `Kept` (a valid handle names an endpoint that exists, and a stopped server has
  been counted as a fault), TypeOK and OneServer. OneServer alone is not inductive: it
  needs `Locked` for the path on which the guard is passed, and the claim `alone` from
  the guard to the creation of the thread. Unwound needs `tidy` and `manned` to be
  carried through the half of a start-up in which they are broken, as the claim
  `left` on the endpoint in the frame of the function.

  Theorems, each with the soundness of the outline, `OutlineSound`, as its hypothesis:
  StartOutlined, StartTyped, StartOneServer, StartUnwound, StartRegistered,
  StartInOrder, for any boards, plans, programs, device tables and `MaxFaults`. For
  the three boards the hypothesis is true: `MCBoardStart` computes the outline from
  the plans (`Traced`: claims are pushed forward through each chain of calls and
  intersected where ways meet), and the run `start_up` evaluates `Sound` for each
  program in the initial states, as the first conjunct of Outlined. With the theorems
  that settles the safety of these start-ups for every number of faults, where the
  run itself stops at two. It is a conjunct and not an ASSUME so that an unsound
  outline shows as a violation, which is how the faulty variants are found.

What a request, an answer and each operation on an interrupt line change and preserve
is proved once, at the head of the UART's part of `TwinProofs`; elsewhere the
operators of `ServerKit` come through several instances, and each section states what
it needs of them.

The proofs found one fault of the models: `Verdict` of `EspGdma`, `EspI2c` and `TcI2c`
were `CASE`s whose guards overlap (an error and an end latched together). TLC takes
the first that holds, as the code does, but TLA+ leaves the choice open, and with it
the answer. They are chains of `IF` now, in the order of the code.

Every invariant, action property and refinement step the runs check is a theorem.
Only model-checked: liveness (Served, Answered, Printed, Signalled and Finishes: the
prover has no ENABLED), and that the outline of the three boards is sound, which is a
finite fact about fixed plans and is what TLC is for.

## Not modelled, and why

* The kernel: outside the repository; the table above states what is assumed.
  ESP interrupt routing, tick, IPI and cache operations are register programming on
  its behalf, and have no state of their own to relate.
* Register values: clocks, SDRAM and PSRAM commands, panel and link set-up appear in
  the start-up as the order in which they happen and the polls between them.
* Servers whose requests are single register writes (PWM, pinmux, GPIO of Linum and
  ESP, baud rates, display ON) and pure queries: start-up only.
* TC275 ADC groups other than the board's: the server accepts groups 0 to 7 but only
  the service request of group 0 leads to it, so a READ of another would wait for
  ever; `client.c` names no other group.
* The workers' side of a `dma_init` that fails half-way and is retried.
* ASCLIN receive calls, GDMA OPEN, a refused SPI arming: in the plan.
* Neighbours of `buf` within a cache line: needs a cache of lines instead of
  one buffer.
* Consoles of the Linum board and the ESP32-P4: RTT is memory a debugger reads, and
  the ESP console writes its FIFO in a polled loop; neither waits for an interrupt.
* Timer arithmetic: single expressions; the one that wraps is listed as a hazard.
* Formatting of console output, pin tables, register bit layouts, translation of the
  device calls by the adapters.
* Scripts, OpenOCD patches and device trees are host tooling or third party.
